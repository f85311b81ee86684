---------------------------- MODULE MCStructures ----------------------------
(***************************************************************************)
(* The data structures of the library, one in each behaviour: TimedHeap,   *)
(* IOBuf and IOBufQueue, EvictingCacheMap and fbstring, which one thread   *)
(* uses, and the ring for one producer and one consumer,                   *)
(* AtomicUnorderedMap, ConcurrentSkipList, the shared blocks of fbstring   *)
(* and RecordIO files, which several do.                                   *)
(***************************************************************************)
EXTENDS PCQueue, TimedHeap, TLC

CONSTANTS
  MaxBufs, MaxBlocks, NewSize, MaxSize, MaxCalls, MaxLost, Align, Bytes
                                       \* IOBuf
CONSTANTS                              \* IOBufQueue
  Queues, Main, User, MinAlloc, MaxAlloc, MaxPack, Lengths, MaxRemove,
  MaxMemory, MaxBlock, MaxQueueCalls

VARIABLES
  part,                     \* what runs
  buf, block, storage, heads, lost, val, makes, calls,    \* IOBuf
  chain, length, cached, memory, wrapped, want, called,   \* IOBufQueue
  slots, asked, done,                                     \* the hash map
  nodes, head, size, rec, held, th, seen,                 \* the skip list
  lru, index, limits, frames, ops, usedAt, evictedAt,     \* the cache
    handed, gone, regrown,
  mem, strVal, strOps,                                    \* fbstring
  strHeld, strWant, blocks, thread, refCalls,             \* its blocks
  cells, isOpen, filePos, wr, writes, crashes, reader,    \* RecordIO
    wrote

B == INSTANCE IOBuf
C == INSTANCE IOBufQueue WITH Careful <- TRUE
M == INSTANCE AtomicUnorderedMap WITH
       Callers <- 1 .. 3, NumSlots <- 3, NearTries <- 2, MaxTries <- 4,
       HashOf <- [a |-> 1, b |-> 1, c |-> 0], calls <- asked
K == INSTANCE SkipList WITH Threads <- 1 .. 3, MaxHeight <- 2
E == INSTANCE EvictingCacheMap WITH
       CacheKeys <- {"a", "b", "c"}, MaxOps <- 4, MaxNested <- 2
F == INSTANCE FBString WITH
       Strings <- 1 .. 2, MaxSmall <- 2, MaxMedium <- 4, Grain <- 2,
       Sizes <- {0, 2, 3, 6}, MaxOps <- 2, val <- strVal, ops <- strOps
S == INSTANCE FBStringRefs WITH
       StrThreads <- 1 .. 3, Values <- 1 .. 2, MaxCalls <- 3,
       held <- strHeld, want <- strWant

(* The data of one record looks like a record of another file.             *)
Cell(kind, id, data) == [kind |-> kind, id |-> id, data |-> data]
X == Cell("data", 1, <<>>)
R == INSTANCE RecordIO WITH
       Threads <- 1 .. 2, MaxWrites <- 3, MaxCrashes <- 1, calls <- writes,
       Payloads <- {[data |-> <<X>>, headroom |-> FALSE],
                    [data |-> <<Cell("magic", 0, <<>>),
                                Cell("header", 2, <<X>>), X>>,
                     headroom |-> TRUE]}

bufVars    == <<buf, block, storage, heads, lost, val, makes, calls>>
queueVars  == <<chain, length, cached, memory, wrapped, want, called>>
mapVars    == <<slots, asked, done>>
skipVars   == <<nodes, head, size, rec, held, th, seen>>
cacheVars  == <<lru, index, limits, frames, ops, usedAt, evictedAt, handed,
                gone, regrown>>
strVars    == <<mem, strVal, strOps>>
refVars    == <<strHeld, strWant, blocks, thread, refCalls>>
recVars    == <<cells, isOpen, filePos, wr, writes, crashes, reader, wrote>>

firstVars  == <<vars, bufVars, queueVars>>
ringToSkip == <<ringVars, mapVars, skipVars>>
lastVars   == <<cacheVars, strVars, refVars, recVars>>
allVars    == <<part, firstVars, ringToSkip, lastVars>>

(* Three threads call the map: two keys collide, one wraps around to them. *)
(* Which thread makes which call does not matter.                          *)
MapCalls == <<<<"insert", "a">>, <<"insert", "b">>, <<"insert", "c">>,
              <<"find", "a">>, <<"scan", "a">>>>
MapInit == \E i, j, k \in 1 .. 5 :
  i =< j /\ j =< k /\ M!Init(<<MapCalls[i], MapCalls[j], MapCalls[k]>>)

O(op, k) == [op |-> op, key |-> k, assigned |-> FALSE]
Low  == <<<<1, 1>>, <<3, 1>>>>
Tall == <<<<1, 1>>, <<2, 2>>>>

(* Calls of three threads on a list of height 1 and on one of height 2.    *)
SkipInit ==
  \/ \E calls3 \in {<<O("remove", 1), O("remove", 3), O("find", 3)>>,
                     <<O("add", 2), O("remove", 1), O("scan", 0)>>,
                     <<O("add", 2), O("remove", 3), O("lower", 2)>>} :
       K!Init(Low, 1, 1, calls3)
  \/ \E calls3 \in {<<O("add", 2), O("remove", 2), O("skip", 2)>>,
                     <<O("pop", 0), O("remove", 1), O("none", 0)>>,
                     <<O("remove", 2), O("none", 0),
                       [O("find", 2) EXCEPT !.assigned = TRUE]>>} :
       K!Init(Tall, 2, 1, calls3)

(* Only one of the records written is longer than a part of a header.     *)
OneLong == \A v, w \in wrote : Len(v.rec) > 3 /\ Len(w.rec) > 3 => v = w

(* What a part looks like while it does not run.                           *)
NoBufs   == B!Init /\ makes = "malloc"
NoQueue  == C!Init /\ \A q \in Queues : cached[q]
NoMap    == M!Init([i \in 1 .. 3 |-> <<"scan", "a">>])
NoCache  == E!Init /\ limits.max = 2 /\ limits.clear = 1
NoStrings == F!Init /\ \A s \in 1 .. 2 : strVal[s] = <<>>
NoSkip   == K!Init(<<>>, 1, 1, [t \in 1 .. 3 |-> O("none", 0)])

MCInit ==
  /\ part \in {"heap", "bufs", "queue", "ring", "map", "skip",
              "cache", "strings", "blocks", "records"}
  /\ Init
  /\ IF part = "bufs" THEN B!Init ELSE NoBufs
  /\ IF part = "queue" THEN C!Init ELSE NoQueue
  /\ RingInit
  /\ IF part = "map" THEN MapInit ELSE NoMap
  /\ IF part = "skip" THEN SkipInit ELSE NoSkip
  /\ IF part = "cache" THEN E!Init ELSE NoCache
  /\ IF part = "strings" THEN F!Init ELSE NoStrings
  /\ S!Init /\ R!Init

First ==
  \/ part = "heap" /\ Next /\ UNCHANGED <<bufVars, queueVars>>
  \/ part = "bufs" /\ B!Next /\ UNCHANGED <<vars, queueVars>>
  \/ part = "queue" /\ C!Next /\ UNCHANGED <<vars, bufVars>>

Second ==
  \/ part = "ring" /\ RingNext /\ UNCHANGED <<mapVars, skipVars>>
  \/ part = "map" /\ M!Next /\ UNCHANGED <<ringVars, skipVars>>
  \/ part = "skip" /\ K!Next /\ UNCHANGED <<ringVars, mapVars>>

Last ==
  \/ part = "cache" /\ E!Next /\ UNCHANGED <<strVars, refVars, recVars>>
  \/ part = "strings" /\ F!Next /\ UNCHANGED <<cacheVars, refVars, recVars>>
  \/ part = "blocks" /\ S!Next /\ UNCHANGED <<cacheVars, strVars, recVars>>
  \/ part = "records" /\ R!Next /\ OneLong'
     /\ UNCHANGED <<cacheVars, strVars, refVars>>

MCNext ==
  /\ UNCHANGED part
  /\ \/ First /\ UNCHANGED <<ringToSkip, lastVars>>
     \/ Second /\ UNCHANGED <<firstVars, lastVars>>
     \/ Last /\ UNCHANGED <<firstVars, ringToSkip>>

MCSpec == MCInit /\ [][MCNext]_allVars

-----------------------------------------------------------------------------

(* Chains of IOBufs stay rings, a buffer is freed with its last IOBuf, and *)
(* nobody sees what another IOBuf's owner writes.  A queue of IOBufs holds *)
(* what was put into it, next to other chains that use the same memory,    *)
(* and knows its length.                                                   *)
BuffersSound ==
  /\ part = "bufs" => B!BuffersSound
  /\ part = "queue" => C!QueueSound

(* Threads that put the same key into an AtomicUnorderedMap at once agree  *)
(* on one slot for it, and no later find or loop misses it.                *)
MapSound == part = "map" => M!MapSound

(* What a call on the skip list answers was true of the set at some time   *)
(* during the call, whatever other threads added and removed meanwhile.    *)
(* They leave every layer of the list sorted, hold no node that the        *)
(* recycler destroyed, read no pointer a node does not have, and leave no  *)
(* reference behind.                                                       *)
SkipListRight ==
  part = "skip" =>
    /\ K!CallsRight /\ K!ListSound /\ K!NodesKept
    /\ K!SkipInBounds /\ K!NoRefs

(* The cache evicts what was used least recently, hands it to the hook     *)
(* once, and survives hooks that use it or throw.                          *)
CacheSound == part = "cache" => E!CacheSound

(* A string holds its characters, whatever is done to it and to the        *)
(* strings that share its block, by its own thread or by others; and the   *)
(* last string to let go of a block frees it.                              *)
StringsRight ==
  /\ part = "strings" => F!StringsRight
  /\ part = "blocks" => S!RefsRight

(* A reader finds every record whose write() returned, and only records    *)
(* that were written, after crashes and writes cut short as well.          *)
RecordsRight == part = "records" => R!RecordsRight

=============================================================================
