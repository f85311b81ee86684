------------------------------- MODULE IOBuf -------------------------------
(***************************************************************************)
(* IOBuf of accelerator/io: windows on reference counted buffers, linked   *)
(* into rings.  Threads may use different IOBufs of one buffer; each step  *)
(* of such a use changes the reference count at most once, so that a call  *)
(* is one step here.                                                       *)
(*                                                                         *)
(* The user of the module keeps the head of each chain, writes only where  *)
(* isSharedOne() denies that the buffer is shared, and remembers in val    *)
(* what every IOBuf should contain.                                        *)
(***************************************************************************)
EXTENDS Integers, FiniteSets, SequencesExt

CONSTANTS
  MaxBufs,     \* bound: IOBuf objects
  MaxBlocks,   \* bound: buffers
  NewSize,     \* bound: the size of the buffers made, and most arguments
  MaxSize,     \* bound: the capacity of a buffer
  MaxCalls,    \* bound: the calls of a behaviour
  MaxLost,     \* bound: the buffers that are lost
  Align,       \* capacities are rounded up to a multiple of it
  Bytes        \* what is written; fresh memory is 0

VARIABLES
  buf,     \* the IOBuf objects
  block,   \* the buffers, with their SharedInfo
  storage, \* what is in use of the storage of each IOBuf object
  heads,   \* the IOBufs that the user owns, each the head of a chain
  lost,    \* buffers that nobody will free
  val,     \* what the user has put into each IOBuf
  makes,   \* bound: the one kind of buffer that the user makes
  calls    \* the number of calls so far

vars == <<buf, block, storage, heads, lost, val, makes, calls>>

Bufs   == 1..MaxBufs
Blocks == 1..MaxBlocks
Null   == 0

Zeros(n) == [i \in 1..n |-> 0]

(* SharedInfo and buffer.  A "malloc" buffer ends with its SharedInfo, a   *)
(* "combined" one lies behind its first IOBuf, "taken" and "given" ones    *)
(* came from the user, without and with a free function, and a "wrapped"   *)
(* one stays with the user and has no SharedInfo.                          *)
NoBlock == [kind |-> "none", bytes |-> <<>>, refs |-> 0, ext |-> FALSE,
            home |-> Null]

NoBuf(b) == [blk |-> Null, data |-> 0, len |-> 0, cap |-> 0, maybe |-> FALSE,
             own |-> FALSE, next |-> b, prev |-> b]

FreshBufs   == {b \in Bufs : storage[b] = {}}
FreshBlocks == {k \in Blocks : block[k].kind = "none"}
NewBuf   == CHOOSE b \in FreshBufs : \A c \in FreshBufs : b <= c
NewBlock == CHOOSE k \in FreshBlocks : \A m \in FreshBlocks : k <= m
Live     == {b \in Bufs : "iobuf" \in storage[b]}

-----------------------------------------------------------------------------
(* Windows *)

View(b) == IF buf[b].blk = Null THEN <<>>
           ELSE SubSeq(block[buf[b].blk].bytes,
                       buf[b].data + 1, buf[b].data + buf[b].len)
headroom(b) == buf[b].data
tailroom(b) == buf[b].cap - buf[b].data - buf[b].len

(* goodExtBufferSize, initExtBuffer                                        *)
Capacity(n) == ((n + Align - 1) \div Align) * Align

Managed(b) == buf[b].blk # Null /\ block[buf[b].blk].kind # "wrapped"

isSharedByMany(b) ==   \* mutant
  IF Managed(b) THEN \/ block[buf[b].blk].ext
                     \/ buf[b].maybe /\ block[buf[b].blk].refs > 2
  ELSE TRUE

isSharedOne(b) ==
  IF Managed(b) THEN \/ block[buf[b].blk].ext
                     \/ buf[b].maybe /\ block[buf[b].blk].refs > 1
  ELSE TRUE

(* isSharedOne also forgets a sharing that has ended.                      *)
Asked(b) == [buf EXCEPT ![b].maybe = @ /\ isSharedOne(b)]

-----------------------------------------------------------------------------
(* Chains *)

(* The IOBufs of b's chain, from b on.                                     *)
Chain(b) ==
  LET at[n \in 0..MaxBufs] == IF n = 0 THEN b ELSE buf[at[n - 1]].next
      size == CHOOSE n \in 1..MaxBufs :
                at[n] = b /\ \A m \in 1..(n - 1) : at[m] # b
  IN  [i \in 1..size |-> at[i - 1]]
Members(b) == {Chain(b)[i] : i \in 1..Len(Chain(b))}
isChained(b) == buf[b].next # b
Content(bs) == FlattenSeq([i \in 1..Len(bs) |-> View(bs[i])])
Wanted(bs)  == FlattenSeq([i \in 1..Len(bs) |-> val[bs[i]]])

-----------------------------------------------------------------------------
(* Reference counts *)

(* decrementRefcount of the IOBufs in S: the buffers that remain, and the  *)
(* ones freed.                                                             *)
Users(k, S) == {b \in S : buf[b].blk = k}
Freed(S) == {k \in Blocks : /\ block[k].kind \notin {"none", "wrapped"}
                            /\ Users(k, S) # {}
                            /\ block[k].refs = Cardinality(Users(k, S))}
Decremented(S) ==
  [k \in Blocks |->
     IF k \in Freed(S) THEN NoBlock
     ELSE IF block[k].kind = "wrapped" /\ Users(k, Live) \subseteq S
               /\ Users(k, S) # {} THEN NoBlock   \* the user has it back
     ELSE IF block[k].kind = "wrapped" THEN block[k]
     ELSE [block[k] EXCEPT !.refs = @ - Cardinality(Users(k, S))]]

(* releaseStorage: of the IOBufs D that are deleted, and of combined       *)
(* buffers that are freed.                                                 *)
Released(D, F) ==
  [b \in Bufs |-> storage[b] \ ((IF b \in D THEN {"iobuf"} ELSE {})
                             \cup (IF \E k \in F : block[k].home = b
                                   THEN {"data"} ELSE {}))]

Cleared(B, D) == [b \in Bufs |-> IF b \in D THEN NoBuf(b) ELSE B[b]]
Forgotten(V, D) == [b \in Bufs |-> IF b \in D THEN <<>> ELSE V[b]]

-----------------------------------------------------------------------------
(* Making and deleting *)

Make(kind, size, len) ==
  LET b == NewBuf
      k == NewBlock
  IN
  /\ FreshBufs # {} /\ FreshBlocks # {}
  /\ buf' = [buf EXCEPT ![b] = [NoBuf(b) EXCEPT !.blk = k, !.cap = size,
               !.len = len, !.own = kind \in {"taken", "given"}]]
  /\ block' = [block EXCEPT ![k] = [NoBlock EXCEPT
                 !.kind = kind, !.bytes = Zeros(size), !.refs = 1,
                 !.home = IF kind = "combined" THEN b ELSE Null]]
  /\ storage' = [storage EXCEPT ![b] =
                   {"iobuf"} \cup IF kind = "combined" THEN {"data"} ELSE {}]
  /\ heads' = heads \cup {b}
  /\ val' = [val EXCEPT ![b] = Zeros(len)]
  /\ UNCHANGED lost

createSeparate(n) == Make("malloc", Capacity(n), 0)
createCombined(n) == Make("combined", n, 0)
takeOwnership(kind, n) == Make(kind, n, n)
wrapBuffer(n)     == Make("wrapped", n, n)

(* cloneOne, and clone: a new IOBuf for each of bs, linked as they are.    *)
CloneAll(bs) ==
  LET n    == Len(bs)
      new  == SetToSortSeq(FreshBufs, <)
      olds == {bs[i] : i \in 1..n}
  IN
  /\ Len(new) >= n
  /\ LET flagged == [b \in Bufs |->
                       IF b \in olds /\ Managed(b)
                         THEN [buf[b] EXCEPT !.maybe = TRUE] ELSE buf[b]]
     IN  buf' = [b \in Bufs |->
           IF \E i \in 1..n : b = new[i]
             THEN LET i == CHOOSE j \in 1..n : b = new[j]
                  IN  [flagged[bs[i]] EXCEPT
                         !.next = new[(i % n) + 1],
                         !.prev = new[((i + n - 2) % n) + 1]]
             ELSE flagged[b]]
  /\ block' = [k \in Blocks |->
       IF block[k].kind = "wrapped" THEN block[k]
       ELSE [block[k] EXCEPT !.refs = @ + Cardinality(Users(k, olds))]]
  /\ storage' = [b \in Bufs |-> IF \E i \in 1..n : b = new[i] THEN {"iobuf"}
                                ELSE storage[b]]
  /\ heads' = heads \cup {new[1]}
  /\ val' = [b \in Bufs |-> IF \E i \in 1..n : b = new[i]
                              THEN val[bs[CHOOSE j \in 1..n : b = new[j]]]
                              ELSE val[b]]
  /\ UNCHANGED lost

cloneOne(b) == CloneAll(<<b>>)
clone(b)    == CloneAll(Chain(b))

(* ~IOBuf: the whole chain.                                                *)
Destroy(b) ==
  LET D == Members(b) IN
  /\ b \in heads
  /\ block' = Decremented(D)
  /\ storage' = Released(D, Freed(D))
  /\ buf' = Cleared(buf, D)
  /\ val' = Forgotten(val, D)
  /\ heads' = heads \ {b}
  /\ UNCHANGED lost

-----------------------------------------------------------------------------
(* Linking *)

prependChain(b, other) ==
  LET tail == buf[other].prev IN
  /\ other \in heads /\ other \notin Members(b)
  /\ buf' = [buf EXCEPT ![buf[b].prev].next = other,
                        ![other].prev = buf[b].prev,
                        ![tail].next = b, ![b].prev = tail]
  /\ heads' = heads \ {other}
  /\ UNCHANGED <<block, storage, lost, val>>

appendChain(b, other) == prependChain(buf[b].next, other)

Unlinked(b) == [buf EXCEPT ![buf[b].next].prev = buf[b].prev,
                           ![buf[b].prev].next = buf[b].next,
                           ![b].prev = b, ![b].next = b]

unlink(b) ==
  /\ b \notin heads
  /\ buf' = Unlinked(b)
  /\ heads' = heads \cup {b}
  /\ UNCHANGED <<block, storage, lost, val>>

pop(b) ==
  /\ b \in heads /\ isChained(b)
  /\ buf' = Unlinked(b)
  /\ heads' = heads \cup {buf[b].next}
  /\ UNCHANGED <<block, storage, lost, val>>

(* Of the chain of head b, from h to t.                                    *)
separateChain(b, i, j) ==
  LET h == Chain(b)[i]
      t == Chain(b)[j]
  IN
  /\ b \in heads
  /\ buf' = [buf EXCEPT ![buf[h].prev].next = buf[t].next,
                        ![buf[t].next].prev = buf[h].prev,
                        ![h].prev = t, ![t].next = h]
  /\ heads' = heads \cup {h}
  /\ UNCHANGED <<block, storage, lost, val>>

-----------------------------------------------------------------------------
(* Moving the window, and writing *)

Window(b, data, len, v) ==
  /\ buf' = [buf EXCEPT ![b].data = data, ![b].len = len]
  /\ val' = [val EXCEPT ![b] = v]
  /\ UNCHANGED <<block, storage, heads, lost>>

trimStart(b, n) == n <= buf[b].len /\
  Window(b, buf[b].data + n, buf[b].len - n,
         SubSeq(val[b], n + 1, Len(val[b])))
trimEnd(b, n) == n <= buf[b].len /\
  Window(b, buf[b].data, buf[b].len - n, SubSeq(val[b], 1, Len(val[b]) - n))
clear(b) == Window(b, 0, 0, <<>>)

(* Bytes of a buffer, replaced from offset o on.                           *)
Put(k, o, s) ==
  [block EXCEPT ![k].bytes = [i \in 1..Len(@) |->
                                IF i > o /\ i <= o + Len(s) THEN s[i - o]
                                ELSE @[i]]]

(* advance and retreat move the data, so the user asks first.              *)
Slide(b, data) ==
  /\ ~isSharedOne(b)
  /\ block' = Put(buf[b].blk, data, View(b))
  /\ buf' = [Asked(b) EXCEPT ![b].data = data]
  /\ UNCHANGED <<storage, heads, lost, val>>

advance(b, n) == n <= tailroom(b) /\ Slide(b, buf[b].data + n)
retreat(b, n) == n <= headroom(b) /\ Slide(b, buf[b].data - n)

(* The user writes one byte v: before the data, behind it, or into it.     *)
Write(b, o, v, data, len, wanted) ==
  /\ ~isSharedOne(b)
  /\ block' = Put(buf[b].blk, o, <<v>>)
  /\ buf' = [Asked(b) EXCEPT ![b].data = data, ![b].len = len]
  /\ val' = [val EXCEPT ![b] = wanted]
  /\ UNCHANGED <<storage, heads, lost>>

prepend(b, v) == headroom(b) > 0 /\
  Write(b, buf[b].data - 1, v, buf[b].data - 1, buf[b].len + 1,
        <<v>> \o val[b])
append(b, v) == tailroom(b) > 0 /\
  Write(b, buf[b].data + buf[b].len, v, buf[b].data, buf[b].len + 1,
        Append(val[b], v))
overwrite(b, i, v) ==
  Write(b, buf[b].data + i - 1, v, buf[b].data, buf[b].len,
        [val[b] EXCEPT ![i] = v])

-----------------------------------------------------------------------------
(* New buffers for old ones *)

Malloced(bytes, size) ==
  [NoBlock EXCEPT !.kind = "malloc", !.refs = 1,
                  !.bytes = bytes \o Zeros(size - Len(bytes))]

(* unshareOneSlow, which keeps capacity_ even if there is more             *)
Unshared(b) ==
  LET k == NewBlock IN
  /\ FreshBlocks # {}
  /\ block' = [Decremented({b}) EXCEPT ![k] =
                 Malloced(Zeros(headroom(b)) \o View(b), Capacity(buf[b].cap))]
  /\ storage' = Released({}, Freed({b}))
  /\ buf' = [buf EXCEPT ![b].blk = k, ![b].maybe = FALSE, ![b].own = FALSE]
  /\ UNCHANGED <<heads, lost, val>>

unshareOne(b) ==
  \/ isSharedOne(b) /\ Unshared(b)
  \/ /\ ~isSharedOne(b) /\ buf[b].maybe
     /\ buf' = Asked(b)
     /\ UNCHANGED <<block, storage, heads, lost, val>>

(* makeManaged does this for each IOBuf of a chain.                        *)
makeManagedOne(b) == ~Managed(b) /\ Unshared(b)

(* coalesceAndReallocate: the first m of b's chain become one, with h      *)
(* bytes before the data and t behind.  Nothing is left of the others.     *)
Coalesced(b, m, h, t) ==
  LET bs   == SubSeq(Chain(b), 1, m)
      S    == {bs[i] : i \in 1..m}
      D    == S \ {b}
      k    == NewBlock
      data == Content(bs)
      size == Capacity(h + Len(data) + t)
      rest == buf[bs[m]].next
      new  == [buf[b] EXCEPT !.blk = k, !.data = h, !.len = Len(data),
                 !.cap = size, !.maybe = FALSE, !.own = FALSE, !.next = rest]
  IN
  [ok    |-> size <= MaxSize,
   buf   |-> Cleared([[buf EXCEPT ![b] = new] EXCEPT ![rest].prev = b],
                     D),
   block |-> [Decremented(S) EXCEPT ![k] = Malloced(Zeros(h) \o data, size)],
   storage |-> Released(D, Freed(S)),
   val   |-> Forgotten([val EXCEPT ![b] = Wanted(bs)], D),
   blk   |-> k]

CoalesceFirst(b, m) ==
  LET c == Coalesced(b, m, headroom(b), tailroom(Chain(b)[m])) IN
  /\ FreshBlocks # {} /\ c.ok
  /\ buf' = c.buf /\ block' = c.block /\ storage' = c.storage /\ val' = c.val
  /\ UNCHANGED <<heads, lost>>

coalesce(b) ==
  b \in heads /\ isChained(b) /\ CoalesceFirst(b, Len(Chain(b)))

(* gather: as many as are needed for n bytes; fewer bytes are an error.    *)
gather(b, n) ==
  LET upTo(m) == Len(Content(SubSeq(Chain(b), 1, m))) IN
  /\ b \in heads /\ isChained(b) /\ buf[b].len < n
  /\ \E m \in 2..Len(Chain(b)) :
       upTo(m) >= n /\ upTo(m - 1) < n /\ CoalesceFirst(b, m)

(* unshare of a chain coalesces it, if any of it is shared.                *)
unshare(b) ==
  /\ b \in heads /\ isChained(b)
  /\ \/ /\ \E c \in Members(b) : isSharedOne(c)
        /\ CoalesceFirst(b, Len(Chain(b)))
     \/ /\ \A c \in Members(b) : ~isSharedOne(c)
        /\ buf' = [c \in Bufs |-> IF c \in Members(b)
                                    THEN [buf[c] EXCEPT !.maybe = FALSE]
                                    ELSE buf[c]]
        /\ UNCHANGED <<block, storage, heads, lost, val>>

markExternallyShared(b) ==
  /\ b \in heads
  /\ block' = [k \in Blocks |->
                 IF Users(k, Members(b)) # {} /\ block[k].kind # "wrapped"
                   THEN [block[k] EXCEPT !.ext = TRUE] ELSE block[k]]
  /\ UNCHANGED <<buf, storage, heads, lost, val>>

(* reserve of h bytes before the data and t behind it                      *)
Reserved(b, h, t) ==
  LET k    == buf[b].blk
      room == headroom(b) + tailroom(b)
      need == buf[b].len + h + t
      kept == Capacity(need + headroom(b) - h)
      grown(bytes, data, size) ==
        [buf   |-> [buf EXCEPT ![b].data = data, ![b].cap = size,
                               ![b].maybe = FALSE, ![b].own = FALSE],
         block |-> [block EXCEPT ![k] = Malloced(bytes, size)],
         storage |-> Released({}, {k})]
      same == [buf |-> buf, block |-> block, storage |-> storage]
  IN
  IF headroom(b) >= h /\ tailroom(b) >= t THEN same
  ELSE IF room >= h + t THEN
    [same EXCEPT !.buf[b].data = h, !.block = Put(k, h, View(b))]
  ELSE IF /\ block[k].kind \in {"malloc", "taken"}   \* realloc
          /\ buf[b].len # 0 /\ headroom(b) >= h
          /\ (buf[b].cap - buf[b].len) * 2 <= buf[b].len
    THEN grown(SubSeq(block[k].bytes, 1, buf[b].data + buf[b].len),
               headroom(b), kept)
  ELSE grown(Zeros(h) \o View(b), h, Capacity(need))

reserve(b, h, t) ==
  LET r == Reserved(b, h, t) IN
  /\ ~isSharedOne(b) /\ r.buf[b].cap <= MaxSize /\ r.buf # buf
  /\ buf' = [r.buf EXCEPT ![b].maybe = FALSE]
  /\ block' = r.block /\ storage' = r.storage
  /\ UNCHANGED <<heads, lost, val>>

(* moveToString copies the data into the string it returns, and then drops *)
(* the buffer.                                                             *)
moveToString(b) ==
  LET asIs == /\ ~isSharedOne(b) /\ ~isChained(b)
              /\ block[buf[b].blk].kind \in {"malloc", "taken"}
              /\ headroom(b) = 0 /\ tailroom(b) # 0
      c    == IF asIs THEN [ok |-> TRUE, buf |-> buf, block |-> block,
                            storage |-> storage, val |-> val,
                            blk |-> buf[b].blk]
              ELSE Coalesced(b, Len(Chain(b)), 0, 1)
  IN
  /\ b \in heads /\ Cardinality(lost) < MaxLost
  /\ asIs \/ FreshBlocks # {}
  /\ c.ok
  /\ buf' = [c.buf EXCEPT ![b].blk = Null, ![b].data = 0, ![b].len = 0,
                          ![b].maybe = FALSE, ![b].own = FALSE]
  /\ lost' = lost \cup {c.blk}
  /\ block' = [c.block EXCEPT ![c.blk].refs = 0,
                                ![c.blk].bytes = <<>>]
  /\ storage' = c.storage
  /\ val' = [c.val EXCEPT ![b] = <<>>]
  /\ UNCHANGED heads

(* operator=(IOBuf&&) from one head to another                             *)
MoveAssign(b, other) ==
  LET D    == Members(b) \ {b}
      to(n) == IF n = other THEN b ELSE n
  IN
  /\ b \in heads /\ other \in heads /\ b # other
  /\ block' = Decremented(Members(b))
  /\ storage' = Released(D, Freed(Members(b)))
  /\ buf' = [c \in Bufs |->
       IF c \in D \cup {other} THEN NoBuf(c)
       ELSE IF c = b THEN [buf[other] EXCEPT !.next = to(@), !.prev = to(@)]
       ELSE IF c \in Members(other) THEN [buf[c] EXCEPT !.next = to(@),
                                                        !.prev = to(@)]
       ELSE buf[c]]
  /\ val' = Forgotten([val EXCEPT ![b] = val[other]], D \cup {other})
  /\ UNCHANGED <<heads, lost>>

-----------------------------------------------------------------------------

Init ==
  /\ buf = [b \in Bufs |-> NoBuf(b)]
  /\ block = [k \in Blocks |-> NoBlock]
  /\ storage = [b \in Bufs |-> {}]
  /\ heads = {} /\ lost = {}
  /\ val = [b \in Bufs |-> <<>>]
  /\ makes \in {"malloc", "combined", "taken", "given", "wrapped"}
  /\ calls = 0

New ==
  \/ makes = "malloc" /\ createSeparate(NewSize)
  \/ makes = "combined" /\ createCombined(NewSize)
  \/ makes \in {"taken", "given"} /\ takeOwnership(makes, NewSize)
  \/ makes = "wrapped" /\ wrapBuffer(NewSize)

Moves(b) ==
  \E n \in 1..NewSize : \/ trimStart(b, n) \/ trimEnd(b, n)
                        \/ advance(b, n) \/ retreat(b, n)

Writes(b) ==
  \E v \in Bytes : \/ prepend(b, v) \/ append(b, v)
                   \/ \E i \in 1..buf[b].len : overwrite(b, i, v)

Links(b) ==
  \/ \E c \in heads : prependChain(b, c) \/ appendChain(b, c)
  \/ unlink(b) \/ pop(b)
  \/ \E i, j \in 2..Len(Chain(b)) : i <= j /\ separateChain(b, i, j)

Renews(b) ==
  \/ unshareOne(b) \/ unshare(b) \/ makeManagedOne(b) \/ coalesce(b)
  \/ \E n \in 1..MaxSize : gather(b, n)
  \/ \E h, t \in 0..NewSize : reserve(b, h, t)

Call ==
  \/ New
  \/ \E b \in Live :
       \/ Moves(b) \/ clear(b) \/ Writes(b) \/ Links(b) \/ Renews(b)
       \/ cloneOne(b) \/ clone(b) \/ Destroy(b)
       \/ markExternallyShared(b) \/ moveToString(b)
       \/ \E c \in heads : MoveAssign(b, c)

Next ==
  /\ calls < MaxCalls /\ calls' = calls + 1
  /\ UNCHANGED makes
  /\ Call

Spec == Init /\ [][Next]_vars

-----------------------------------------------------------------------------

(* next_ and prev_ close a ring of live IOBufs that has one owner.         *)
RingsSound == \A b \in Live :
  /\ buf[b].next \in Live /\ buf[b].prev \in Live
  /\ buf[buf[b].next].prev = b /\ buf[buf[b].prev].next = b
  /\ Cardinality(Members(b) \cap heads) = 1

(* The data lies within the capacity, and that within the buffer.          *)
WindowsSound == \A b \in Live :
  buf[b].blk # Null => /\ buf[b].data + buf[b].len <= buf[b].cap
                       /\ buf[b].cap <= Len(block[buf[b].blk].bytes)

(* Each buffer has the reference count of its users, who know if it is     *)
(* shared and if they have to delete its SharedInfo; it exists as long as  *)
(* it has users, and its memory as long as it or its first IOBuf do.       *)
CountsSound == \A k \in Blocks :
  LET users == Users(k, Live) IN
  /\ block[k].kind = "none" <=> users = {} /\ k \notin lost
  /\ block[k].kind \notin {"none", "wrapped"}
       => block[k].refs = Cardinality(users)
  /\ \A b \in users :
       /\ block[k].refs > 1 /\ block[k].kind # "wrapped" => buf[b].maybe
       /\ buf[b].own <=> block[k].kind \in {"taken", "given"}
  /\ block[k].kind = "combined" => "data" \in storage[block[k].home]

(* Nobody sees what is written to another IOBuf.                           *)
Isolated == \A b \in Live : View(b) = val[b]

(* reserve gives what was asked for.                                       *)
ReserveGives ==
  \A b \in Live, h, t \in 0..NewSize : ~isSharedOne(b) =>
    LET r == Reserved(b, h, t).buf[b] IN
    r.data >= h /\ r.cap - r.data - r.len >= t /\ r.len = buf[b].len

(* Whatever the order in which IOBufs are made, cloned, linked, unshared,  *)
(* grown and deleted: chains stay rings, a buffer is freed with its last   *)
(* IOBuf and not before, and an IOBuf whose isSharedOne() is false can be  *)
(* written without a change to what another one contains.                  *)
BuffersSound ==
  RingsSound /\ WindowsSound /\ CountsSound /\ Isolated /\ ReserveGives

=============================================================================
