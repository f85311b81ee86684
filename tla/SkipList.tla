------------------------------ MODULE SkipList ------------------------------
(* thread/ConcurrentSkipList.h: a sorted set whose readers take no lock and  *)
(* whose writers lock the predecessors of the node they link or unlink.  One *)
(* action is one atomic load or store that another thread can observe; what  *)
(* a thread does under a lock and others see only after it is one action.    *)
(* Nodes are numbered in the order of their creation and 0 is nullptr, so    *)
(* that a pointer to a destroyed node stays recognisable.                    *)
EXTENDS Integers, Sequences, FiniteSets, TLC

CONSTANTS Threads,    \* threads 1..n, each with an Accessor and one call
          MaxHeight   \* MAX_HEIGHT

VARIABLES nodes,  \* every SkipListNode ever created
          head,   \* head_
          size,   \* size_
          rec,    \* recycler_
          held,   \* shared_ptr owners of the list; 0: it is destroyed
          th,     \* the calls in progress
          seen    \* per call: the keys in the set always, and ever, during it

vars == <<nodes, head, size, rec, held, th, seen>>

Layers == 0 .. MaxHeight - 1
NoNodes == [l \in Layers |-> 0]

(* floor(e^h), when a list of that height grows *)
SizeLimit == <<2, 7, 20>>

Node(key, height, next) ==
  [key |-> key, height |-> height, skip |-> next, isHead |-> FALSE,
   marked |-> FALSE, linked |-> FALSE, holder |-> 0, freed |-> 0]

(* value_type(), what a head node carries *)
NoKey == 0

Call(c) == [op |-> c.op, key |-> c.key, assigned |-> c.assigned,
            pc |-> IF c.op = "none" THEN "done" ELSE "access",
            cur |-> 0, layer |-> 0, max |-> 0, found |-> 0, fl |-> -1,
            preds |-> NoNodes, succs |-> NoNodes, height |-> 0,
            mine |-> 0, got |-> 0, res |-> FALSE, keys |-> <<>>,
            doomed |-> {}, hints |-> NoNodes, second |-> FALSE]

(* A list of the given nodes <<key, height>>, in order, all linked. *)
ListOf(items, height) ==
  LET After(i, l) ==
        LET J == {j \in (i + 1) .. Len(items) + 1 : items[j - 1][2] > l}
        IN  IF J = {} THEN 0 ELSE CHOOSE j \in J : \A k \in J : j <= k
      Next(i) == [l \in Layers |-> After(i, l)]
  IN  <<[Node(NoKey, height, Next(1)) EXCEPT !.isHead = TRUE]>> \o
      [i \in DOMAIN items |-> [Node(items[i][1], items[i][2], Next(i + 1))
                               EXCEPT !.linked = TRUE]]

-----------------------------------------------------------------------------
greater(key, n) == n # 0 /\ nodes[n].key < key
less(key, n) == n = 0 \/ key < nodes[n].key

(* skip(): one past the height is not a pointer of this node, and the read   *)
(* may give anything.                                                        *)
Skip(n, layer) == IF layer < nodes[n].height THEN {nodes[n].skip[layer]}
                                             ELSE 0 .. Len(nodes)

Goto(t, changes) == th' = [th EXCEPT ![t] = changes @@ th[t]]
At(t, pc) == th[t].pc = pc
Return(t, res) == Goto(t, [pc |-> IF th[t].assigned THEN "drop" ELSE "release",
                           res |-> res])

StillGuarded(ns, t) == ns   \* mutant

(* The guards of one iteration go out of scope; remove keeps nodeGuard. *)
Unguarded(ns, t) ==
  [n \in DOMAIN ns |-> IF ns[n].holder = t /\ n # th[t].mine
                       THEN [ns[n] EXCEPT !.holder = 0] ELSE ns[n]]
-----------------------------------------------------------------------------
(* findInsertionPoint, with the height of the list read before its head *)
ReadHeight(t) ==
  /\ At(t, "max")
  /\ Goto(t, [pc |-> "head", max |-> nodes[head].height - 1])
  /\ UNCHANGED <<nodes, head, size, rec, held>>

ReadHead(t) ==
  /\ At(t, "head")
  /\ Goto(t, [pc |-> "walk", cur |-> head, layer |-> th[t].max,
              found |-> 0, fl |-> -1])
  /\ UNCHANGED <<nodes, head, size, rec, held>>

Walk(t) ==
  LET c == th[t] IN
  /\ At(t, "walk")
  /\ \E n \in Skip(c.cur, c.layer) :
       IF greater(c.key, n) THEN Goto(t, [cur |-> n])
       ELSE LET hit == c.fl = -1 /\ ~less(c.key, n)
                found == IF hit THEN n ELSE c.found
            IN  Goto(t, [pc |-> IF c.layer = 0 THEN "found" ELSE "walk",
                         layer |-> c.layer - 1,
                         found |-> found,
                         fl |-> IF hit THEN c.layer ELSE c.fl,
                         preds |-> [c.preds EXCEPT ![c.layer] = c.cur],
                         succs |-> [c.succs EXCEPT ![c.layer] =
                                      IF found # 0 THEN found ELSE n]])
  /\ UNCHANGED <<nodes, head, size, rec, held>>

ValidIfNext(t, layer) ==   \* mutant
  LET c == th[t]
      succ == c.succs[layer]
  IN  /\ nodes[c.preds[layer]].skip[layer] = succ
      /\ c.op = "add" => succ = 0 \/ ~nodes[succ].marked

(* lockNodesForChange: the next layer's predecessor is locked unless it is   *)
(* the one just locked, and what was read before the lock is read again.     *)
Valid(t, layer) ==
  LET c == th[t]
      pred == c.preds[layer]
      succ == c.succs[layer]
  IN  /\ ~nodes[pred].marked
      /\ nodes[pred].skip[layer] = succ
      /\ c.op = "add" => succ = 0 \/ ~nodes[succ].marked

LockNode(t) ==
  LET c == th[t]
      pred == c.preds[c.layer]
      locked == [nodes EXCEPT ![pred].holder = t]
      last == c.layer + 1 = c.height
  IN  /\ At(t, "lock")
      /\ \/ nodes[pred].holder = 0
         \/ c.layer > 0 /\ pred = c.preds[c.layer - 1]
      /\ IF Valid(t, c.layer)
         THEN /\ nodes' = locked
              /\ Goto(t, [pc |-> IF last THEN "link" ELSE "lock",
                          layer |-> IF ~last THEN c.layer + 1
                                    ELSE IF c.op = "add" THEN 0
                                    ELSE c.height - 1])
         ELSE /\ nodes' = Unguarded(locked, t)
              /\ Goto(t, [pc |-> "max"])
      /\ UNCHANGED <<head, size, rec, held>>

-----------------------------------------------------------------------------
(* addOrGetData *)
AddFound(t) ==
  /\ At(t, "found") /\ th[t].op = "add" /\ th[t].fl >= 0
  /\ Goto(t, [pc |-> IF nodes[th[t].found].marked THEN "max" ELSE "await"])
  /\ UNCHANGED <<nodes, head, size, rec, held>>

AwaitLinked(t) ==
  /\ At(t, "await") /\ nodes[th[t].found].linked
  /\ Return(t, FALSE)
  /\ UNCHANGED <<nodes, head, size, rec, held>>

(* getHeight(max_layer + 1): any height up to the one read *)
AddHeight(t) ==
  /\ At(t, "found") /\ th[t].op = "add" /\ th[t].fl < 0
  /\ \E h \in 1 .. th[t].max + 1 :
       Goto(t, [pc |-> "lock", height |-> h, layer |-> 0])
  /\ UNCHANGED <<nodes, head, size, rec, held>>

Link(t) ==
  LET c == th[t]
      new == IF c.layer = 0 THEN Len(nodes) + 1 ELSE c.got
      ns == IF c.layer = 0 THEN Append(nodes, Node(c.key, c.height, NoNodes))
                           ELSE nodes
  IN  /\ At(t, "link") /\ c.op = "add"
      /\ nodes' = [ns EXCEPT ![new].skip[c.layer] = c.succs[c.layer],
                             ![c.preds[c.layer]].skip[c.layer] = new]
      /\ Goto(t, [pc |-> IF c.layer + 1 = c.height THEN "full" ELSE "link",
                  layer |-> c.layer + 1, got |-> new])
      /\ UNCHANGED <<head, size, rec, held>>

SetFullyLinked(t) ==
  /\ At(t, "full")
  /\ nodes' = [nodes EXCEPT ![th[t].got].linked = TRUE]
  /\ Goto(t, [pc |-> "added"])
  /\ UNCHANGED <<head, size, rec, held>>

Added(t) ==
  /\ At(t, "added")
  /\ size' = size + 1
  /\ nodes' = Unguarded(nodes, t)
  /\ Goto(t, [pc |-> "grow", got |-> size + 1])
  /\ UNCHANGED <<head, rec, held>>

(* the list grows by a layer when it holds more than its height is good for *)
GrowCheck(t) ==
  LET hgt == nodes[head].height IN
  /\ At(t, "grow")
  /\ IF hgt < MaxHeight /\ th[t].got > SizeLimit[hgt]
     THEN Goto(t, [pc |-> "oldhead", height |-> hgt + 1])
     ELSE Return(t, TRUE)
  /\ UNCHANGED <<nodes, head, size, rec, held>>

OldHead(t) ==
  /\ At(t, "oldhead")
  /\ IF nodes[head].height >= th[t].height THEN Return(t, TRUE)
     ELSE Goto(t, [pc |-> "swap", cur |-> head])
  /\ UNCHANGED <<nodes, head, size, rec, held>>

(* growHeight under the old head's lock: copyHead, the exchange, the mark *)
SwapHead(t) ==
  LET old == th[t].cur IN
  /\ At(t, "swap") /\ nodes[old].holder = 0
  /\ IF head = old
     THEN /\ nodes' = Append([nodes EXCEPT ![old].marked = TRUE],
                             [nodes[old] EXCEPT !.height = th[t].height])
          /\ head' = Len(nodes) + 1
          /\ Goto(t, [pc |-> "recycle", mine |-> old])
     ELSE Return(t, TRUE) /\ UNCHANGED <<nodes, head>>
  /\ UNCHANGED <<size, rec, held>>

-----------------------------------------------------------------------------
(* remove *)
okToDelete(n, layer) == /\ nodes[n].linked
                        /\ nodes[n].height - 1 = layer
                        /\ ~nodes[n].marked

RemoveFound(t) ==
  LET c == th[t] IN
  /\ At(t, "found") /\ c.op = "remove"
  /\ IF c.mine # 0 THEN Goto(t, [pc |-> "lock", layer |-> 0])
     ELSE IF c.fl < 0 \/ ~okToDelete(c.found, c.fl) THEN Return(t, FALSE)
     ELSE Goto(t, [pc |-> "mark"])
  /\ UNCHANGED <<nodes, head, size, rec, held>>

Mark(t) ==
  LET n == th[t].found IN
  /\ At(t, "mark") /\ nodes[n].holder = 0
  /\ IF nodes[n].marked THEN Return(t, FALSE) /\ UNCHANGED nodes
     ELSE /\ nodes' = [nodes EXCEPT ![n].holder = t, ![n].marked = TRUE]
          /\ Goto(t, [pc |-> "lock", layer |-> 0, mine |-> n,
                      height |-> nodes[n].height])
  /\ UNCHANGED <<head, size, rec, held>>

Unlink(t) ==
  LET c == th[t] IN
  /\ At(t, "link") /\ c.op = "remove"
  /\ nodes' = [nodes EXCEPT ![c.preds[c.layer]].skip[c.layer] =
                              nodes[c.mine].skip[c.layer]]
  /\ Goto(t, [pc |-> IF c.layer = 0 THEN "removed" ELSE "link",
              layer |-> c.layer - 1])
  /\ UNCHANGED <<head, size, rec, held>>

Removed(t) ==
  /\ At(t, "removed")
  /\ size' = size - 1
  /\ nodes' = Unguarded(nodes, t)
  /\ Goto(t, [pc |-> "recycle"])
  /\ UNCHANGED <<head, rec, held>>

(* recycle, and the end of remove's nodeGuard *)
Recycle(t) ==
  LET n == th[t].mine IN
  /\ At(t, "recycle")
  /\ rec' = [rec EXCEPT !.nodes = @ \cup {n}, !.dirty = TRUE]
  /\ nodes' = [nodes EXCEPT ![n].holder = IF @ = t THEN 0 ELSE @]
  /\ Return(t, TRUE)
  /\ UNCHANGED <<head, size, held>>

-----------------------------------------------------------------------------
(* findNodeDownRight, for find and lower_bound *)
FindFrom(t) ==
  /\ At(t, "find")
  /\ Goto(t, [pc |-> "down", cur |-> head, layer |-> nodes[head].height])
  /\ UNCHANGED <<nodes, head, size, rec, held>>

(* A node of the key was reached, or at layer 0 the first one above it. *)
FoundNode(t, n) == Goto(t, [pc |-> "live", found |-> n])

StepDown(t) ==
  LET c == th[t] IN
  /\ At(t, "down")
  /\ \E n \in Skip(c.cur, c.layer - 1) :
       IF less(c.key, n)
       THEN IF c.layer = 1 THEN FoundNode(t, n)
                           ELSE Goto(t, [layer |-> c.layer - 1])
       ELSE IF greater(c.key, n)
       THEN Goto(t, [pc |-> "right", cur |-> n, layer |-> c.layer - 1])
       ELSE FoundNode(t, n)
  /\ UNCHANGED <<nodes, head, size, rec, held>>

StepRight(t) ==
  LET c == th[t] IN
  /\ At(t, "right")
  /\ \E n \in Skip(c.cur, c.layer) :
       IF greater(c.key, n) THEN Goto(t, [cur |-> n])
       ELSE IF ~less(c.key, n) THEN FoundNode(t, n)
       ELSE IF c.layer = 0 THEN FoundNode(t, n)
       ELSE Goto(t, [pc |-> "down"])
  /\ UNCHANGED <<nodes, head, size, rec, held>>

(* find takes the node if it is not marked; lower_bound passes marked ones *)
FindEnd(t) ==
  LET c == th[t] n == c.found IN
  /\ At(t, "live")
  /\ IF c.op = "find"
     THEN Return(t, n # 0 /\ nodes[n].key = c.key /\ ~nodes[n].marked)
     ELSE IF n # 0 /\ nodes[n].marked
     THEN Goto(t, [pc |-> "pass"])
     ELSE /\ Goto(t, [pc |-> "release",
                      keys |-> IF n = 0 THEN <<>> ELSE <<nodes[n].key>>])
  /\ UNCHANGED <<nodes, head, size, rec, held>>

LowerPass(t) ==
  /\ At(t, "pass")
  /\ FoundNode(t, nodes[th[t].found].skip[0])
  /\ UNCHANGED <<nodes, head, size, rec, held>>

(* for (auto& elem : accessor): begin(), then increment() until end() *)
ScanFrom(t) ==
  /\ At(t, "scan")
  /\ Goto(t, [pc |-> "next", cur |-> head])
  /\ UNCHANGED <<nodes, head, size, rec, held>>

ScanNext(t) ==
  LET n == nodes[th[t].cur].skip[0] IN
  /\ At(t, "next")
  /\ Goto(t, [pc |-> IF n = 0 THEN "release" ELSE "skip", cur |-> n])
  /\ UNCHANGED <<nodes, head, size, rec, held>>

ScanElem(t) ==
  LET c == th[t] IN
  /\ At(t, "skip")
  /\ Goto(t, [pc |-> "next",
              keys |-> IF nodes[c.cur].marked THEN c.keys
                       ELSE Append(c.keys, nodes[c.cur].key)])
  /\ UNCHANGED <<nodes, head, size, rec, held>>

(* last(): the head first and its height afterwards; pop_back removes it *)
LastHead(t) ==
  /\ At(t, "last")
  /\ Goto(t, [pc |-> "lastmax", cur |-> head])
  /\ UNCHANGED <<nodes, head, size, rec, held>>

LastHeight(t) ==
  /\ At(t, "lastmax")
  /\ Goto(t, [pc |-> "lastwalk", layer |-> nodes[head].height - 1])
  /\ UNCHANGED <<nodes, head, size, rec, held>>

LastWalk(t) ==
  LET c == th[t] IN
  /\ At(t, "lastwalk")
  /\ \E n \in Skip(c.cur, c.layer) :
       IF n # 0 THEN Goto(t, [cur |-> n])
       ELSE Goto(t, [pc |-> IF c.layer = 0 THEN "lastend" ELSE "lastwalk",
                     layer |-> c.layer - 1])
  /\ UNCHANGED <<nodes, head, size, rec, held>>

LastEnd(t) ==
  /\ At(t, "lastend")
  /\ IF th[t].cur = head THEN Return(t, FALSE)
     ELSE Goto(t, [pc |-> "max", op |-> "remove",
                   key |-> nodes[th[t].cur].key])
  /\ UNCHANGED <<nodes, head, size, rec, held>>

-----------------------------------------------------------------------------
(* Skipper: to(key), then ++ if it was found, then to(key + 1).  Its place   *)
(* in the list is preds and succs, kept between the calls.                   *)
SkipperInit(t) ==
  LET max == nodes[head].height - 1 IN
  /\ At(t, "skipper")
  /\ Goto(t, [pc |-> "succs", cur |-> head, layer |-> 0, max |-> max,
              hints |-> [l \in Layers |-> IF l < max THEN l + 1 ELSE max]])
  /\ UNCHANGED <<nodes, head, size, rec, held>>

SkipperSuccs(t) ==
  LET c == th[t] IN
  /\ At(t, "succs")
  /\ Goto(t, [pc |-> IF c.layer = c.max THEN "to" ELSE "succs",
              layer |-> c.layer + 1,
              preds |-> [c.preds EXCEPT ![c.layer] = c.cur],
              succs |-> [c.succs EXCEPT ![c.layer] =
                           nodes[c.cur].skip[c.layer]]])
  /\ UNCHANGED <<nodes, head, size, rec, held>>

curHeight(c) == IF c.succs[0] = 0 THEN 0
                ELSE IF nodes[c.succs[0]].height > c.max THEN c.max + 1
                ELSE nodes[c.succs[0]].height

SkipperTo(t) ==
  LET c == th[t]
      layer == curHeight(c) - 1
      Stops == {l \in c.hints[layer] .. c.max :
                  l = c.max \/ ~greater(c.key, c.succs[l])}
      lyr == CHOOSE l \in Stops : \A m \in Stops : l <= m
  IN  /\ At(t, "to")
      /\ IF layer < 0 THEN Return(t, FALSE)
         ELSE Goto(t, [pc |-> "walk", cur |-> c.preds[lyr], layer |-> lyr,
                       hints |-> [c.hints EXCEPT ![layer] = lyr],
                       found |-> 0, fl |-> -1])
      /\ UNCHANGED <<nodes, head, size, rec, held>>

SkipperFound(t) ==
  LET c == th[t] IN
  /\ At(t, "found") /\ c.op = "skip"
  /\ IF c.second
     THEN Return(t, c.fl >= 0 /\ ~nodes[c.succs[0]].marked)
     ELSE Goto(t, [pc |-> IF c.fl >= 0 THEN "inc" ELSE "to", layer |-> 0,
                   key |-> c.key + 1, second |-> TRUE])
  /\ UNCHANGED <<nodes, head, size, rec, held>>

SkipperInc(t) ==
  LET c == th[t]
      l == c.layer
  IN  /\ At(t, "inc")
      /\ IF l = 0 \/ (l < curHeight(c) /\ c.preds[0] = c.succs[l])
         THEN Goto(t, [layer |-> l + 1,
                       preds |-> [c.preds EXCEPT ![l] = c.succs[l]],
                       succs |-> [c.succs EXCEPT ![l] =
                                    nodes[c.succs[l]].skip[l]]])
         ELSE Goto(t, [pc |-> "to"])
      /\ UNCHANGED <<nodes, head, size, rec, held>>

-----------------------------------------------------------------------------
(* Accessor: counted by the recycler, and an owner of the list *)
Entry == [add |-> "max", remove |-> "max", find |-> "find",
          lower |-> "find", scan |-> "scan", pop |-> "last",
          skip |-> "skipper"]

Access(t) ==
  /\ At(t, "access")
  /\ rec' = [rec EXCEPT !.refs = @ + 1]
  /\ held' = held + 1
  /\ Goto(t, [pc |-> Entry[th[t].op]])
  /\ UNCHANGED <<nodes, head, size>>

(* ~Accessor calls releaseRef and then lets go of the list *)
ReleaseRef(t) ==
  /\ At(t, "release")
  /\ Goto(t, [pc |-> IF ~rec.dirty \/ rec.refs > 1 THEN "unref"
                                                  ELSE "clean"])
  /\ UNCHANGED <<nodes, head, size, rec, held>>

Clean(t) ==
  /\ At(t, "clean")
  /\ IF rec.nodes = {} \/ rec.refs > 1
     THEN Goto(t, [pc |-> "unref"]) /\ UNCHANGED rec
     ELSE /\ rec' = [rec EXCEPT !.nodes = {}, !.dirty = FALSE]
          /\ Goto(t, [pc |-> "destroy", doomed |-> rec.nodes])
  /\ UNCHANGED <<nodes, head, size, held>>

Freed(ns, which) == [n \in DOMAIN ns |->
  IF n \in which THEN [ns[n] EXCEPT !.freed = @ + 1] ELSE ns[n]]

Destroy(t) ==
  /\ At(t, "destroy")
  /\ nodes' = Freed(nodes, th[t].doomed)
  /\ Goto(t, [pc |-> "unref", doomed |-> {}])
  /\ UNCHANGED <<head, size, rec, held>>

Unref(t) ==
  /\ At(t, "unref")
  /\ rec' = [rec EXCEPT !.refs = @ - 1]
  /\ Goto(t, [pc |-> IF th[t].assigned THEN "done" ELSE "drop"])
  /\ UNCHANGED <<nodes, head, size, held>>

(* ~ConcurrentSkipList, when the last owner lets go, and its recycler's *)
OnBottom(n) == LET R[i \in 0 .. Len(nodes)] ==
                     IF i = 0 THEN {n}
                     ELSE R[i - 1] \cup {nodes[m].skip[0] : m \in R[i - 1] \ {0}}
               IN  R[Len(nodes)] \ {0}

LetGo ==
  /\ held' = held - 1
  /\ nodes' = IF held > 1 THEN nodes
              ELSE Freed(Freed(nodes, OnBottom(head)), rec.nodes)

(* operator= takes the other list's owner first, and then calls releaseRef *)
Drop(t) ==
  /\ At(t, "drop")
  /\ LetGo
  /\ Goto(t, [pc |-> IF th[t].assigned THEN "release" ELSE "done"])
  /\ UNCHANGED <<head, size, rec>>

(* The owner that is not an Accessor outlives the calls. *)
OwnerLeaves ==
  /\ held = 1 /\ \A t \in Threads : At(t, "done")
  /\ LetGo
  /\ UNCHANGED <<head, size, rec, th>>

-----------------------------------------------------------------------------
Step(t) ==
  \/ ReadHeight(t) \/ ReadHead(t) \/ Walk(t) \/ LockNode(t)
  \/ AddFound(t) \/ AwaitLinked(t) \/ AddHeight(t) \/ Link(t)
  \/ SetFullyLinked(t) \/ Added(t) \/ GrowCheck(t) \/ OldHead(t)
  \/ SwapHead(t) \/ RemoveFound(t) \/ Mark(t) \/ Unlink(t) \/ Removed(t)
  \/ Recycle(t) \/ FindFrom(t) \/ StepDown(t) \/ StepRight(t) \/ FindEnd(t)
  \/ LowerPass(t) \/ ScanFrom(t) \/ ScanNext(t) \/ ScanElem(t)
  \/ LastHead(t) \/ LastHeight(t) \/ LastWalk(t) \/ LastEnd(t)
  \/ Access(t) \/ ReleaseRef(t) \/ Clean(t) \/ Destroy(t) \/ Unref(t)
  \/ Drop(t) \/ SkipperInit(t) \/ SkipperSuccs(t) \/ SkipperTo(t)
  \/ SkipperFound(t) \/ SkipperInc(t)

(* What the set holds: an unmarked node was linked when it was created. *)
Live(ns) == {n \in DOMAIN ns : ~ns[n].isHead /\ ~ns[n].marked}
Present(ns) == {ns[n].key : n \in Live(ns)}
Complete(ns) == {ns[n].key : n \in {m \in Live(ns) : ns[m].linked}}

Over == {"release", "clean", "destroy", "unref", "drop", "done"}

Watch == seen' = [t \in Threads |->
  IF At(t, "access")
  THEN [always |-> Present(nodes'), ever |-> Present(nodes'),
        complete |-> Complete(nodes')]
  ELSE IF th[t].pc \in Over THEN seen[t]
  ELSE [always |-> seen[t].always \cap Present(nodes'),
        ever |-> seen[t].ever \cup Present(nodes'),
        complete |-> seen[t].complete \cap Complete(nodes')]]

Init(items, height, owners, calls) ==
  /\ nodes = ListOf(items, height)
  /\ head = 1
  /\ size = Len(items)
  /\ rec = [nodes |-> {}, refs |-> 0, dirty |-> FALSE]
  /\ held = owners
  /\ th = [t \in Threads |-> Call(calls[t])]
  /\ seen = [t \in Threads |-> [always |-> {}, ever |-> {}, complete |-> {}]]

Next == /\ \/ \E t \in Threads : Step(t)
           \/ OwnerLeaves
        /\ Watch

Spec(items, height, owners, calls) ==
  Init(items, height, owners, calls) /\ [][Next]_vars

-----------------------------------------------------------------------------
(* Every call answers for some moment of its own.  A key that was in the set *)
(* throughout is found, is not added again and is passed by no lower_bound   *)
(* or loop; a key that never was is not reported.  remove may also fail when *)
(* the key's node was not yet linked on all its layers.                      *)
CallsRight ==
  \A t \in Threads :
    LET c == th[t]
        w == seen[t]
        got == {c.keys[i] : i \in DOMAIN c.keys}
    IN  c.pc \in Over =>
        CASE c.op = "find" -> IF c.res THEN c.key \in w.ever
                                       ELSE c.key \notin w.always
          [] c.op = "add" -> IF c.res THEN c.key \notin w.always
                                      ELSE c.key \in w.ever
          [] c.op = "remove" -> IF c.res THEN c.key \in w.ever
                                         ELSE c.key \notin w.complete
          [] c.op = "lower" ->
               /\ got \subseteq {k \in w.ever : k >= c.key}
               /\ \A k \in w.always : k >= c.key => \E g \in got : g <= k
          [] c.op = "scan" ->
               /\ w.always \subseteq got /\ got \subseteq w.ever
               /\ \A i \in 2 .. Len(c.keys) : c.keys[i - 1] < c.keys[i]
          [] c.op = "skip" ->
               /\ IF c.res THEN c.key \in w.ever ELSE c.key \notin w.always
               /\ \A k \in w.always : k >= c.key =>
                    c.succs[0] # 0 /\ nodes[c.succs[0]].key <= k
          [] OTHER -> TRUE

(* The list on each layer ascends and is part of the one below it, whatever  *)
(* is being linked or unlinked, and holds no node of the set twice; between  *)
(* calls every node of the set is on all its layers and size_ counts them.   *)
OnLayer(l) == LET R[i \in 0 .. Len(nodes)] ==
                    IF i = 0 THEN {head}
                    ELSE R[i - 1] \cup
                         {nodes[n].skip[l] : n \in R[i - 1] \ {0}}
              IN  R[Len(nodes)] \ {0}
ListSound ==
  held > 0 =>
  /\ \A l \in Layers : \A n \in OnLayer(l) :
       LET m == nodes[n].skip[l]
       IN  m # 0 => /\ n = head \/ nodes[n].key < nodes[m].key
                    /\ l > 0 => m \in OnLayer(l - 1)
  /\ Live(nodes) \subseteq OnLayer(0)
  /\ (\A t \in Threads : th[t].pc \in Over \cup {"access"}) =>
       /\ size = Cardinality(Live(nodes))
       /\ \A l \in Layers : OnLayer(l) \ {head} =
                           {n \in Live(nodes) : nodes[n].height > l}

(* Lazy removal: the recycler destroys no node that the list or a call still *)
(* reaches, none twice, and with the list's end none is left.                *)
Held(c) == ({c.cur, c.found, c.mine} \cup {c.preds[l] : l \in Layers}
            \cup {c.succs[l] : l \in Layers}) \ {0}
NodesKept ==
  /\ held > 0 => \A n \in OnBottom(head) : nodes[n].freed = 0
  /\ \A t \in Threads : th[t].pc \notin Over \cup {"access"} =>
       \A n \in Held(th[t]) : nodes[n].freed = 0
  /\ \A n \in DOMAIN nodes : nodes[n].freed <= 1
  /\ held = 0 /\ (\A t \in Threads : At(t, "done")) =>
       \A n \in DOMAIN nodes : nodes[n].freed = 1

(* "DCHECK_LT(layer, height_)": skip() is asked only for layers of the node. *)
SkipInBounds ==
  \A t \in Threads :
    /\ th[t].pc \in {"walk", "right", "lastwalk"} =>
         th[t].layer < nodes[th[t].cur].height
    /\ th[t].pc = "down" => th[t].layer <= nodes[th[t].cur].height

(* "CHECK_EQ(refs(), 0)": a list that ends has no Accessor counted. *)
NoRefs == held = 0 => rec.refs = 0

(* Every call ends: no retry, wait or lock can go on for ever. *)
CallsEnd == <>(\A t \in Threads : At(t, "done"))
=============================================================================
