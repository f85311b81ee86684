----------------------------- MODULE IOBufQueue -----------------------------
(***************************************************************************)
(* IOBufQueue of accelerator/io: a chain of IOBufs with data appended at   *)
(* its end and removed from its front.  A chain is a sequence of windows   *)
(* on blocks of memory; the users of a block are counted here, as the      *)
(* module IOBuf shows that its reference counts do.  Besides the queues    *)
(* there is the chain of a user, who gets what a queue gives away.         *)
(***************************************************************************)
EXTENDS Integers, FiniteSetsExt, SequencesExt

CONSTANTS
  Queues,
  Main,           \* bound: the queue that gets all calls, the others few
  User,           \* owner of a chain that is in no queue
  MinAlloc,       \* MIN_ALLOC_SIZE
  MaxAlloc,       \* MAX_ALLOC_SIZE
  MaxPack,        \* MAX_PACK_COPY
  Lengths,        \* bound: how many bytes one call writes
  MaxRemove,      \* bound: how many bytes one call removes
  MaxMemory,      \* bound: blocks of memory
  MaxBlock,       \* bound: bytes of a block
  MaxQueueCalls,  \* bound: the calls of a behaviour
  Careful         \* the user packs and prepends only into unshared IOBufs

Owners == Queues \cup {User}
Blocks == 1..MaxMemory

VARIABLES
  chain,    \* head_ and the IOBufs linked to it
  length,   \* chainLength_
  cached,   \* options_.cacheChainLength
  memory,   \* the bytes of each block
  wrapped,  \* the blocks that wrapBuffer was given
  want,     \* what the calls so far should have put into each chain
  called    \* the number of calls so far

vars == <<chain, length, cached, memory, wrapped, want, called>>

-----------------------------------------------------------------------------
(* Chains of windows: len bytes from data on, in a buffer from lo to hi.   *)

Window(k, lo, data, len, hi) ==
  [blk |-> k, lo |-> lo, data |-> data, len |-> len, hi |-> hi]

headroom(w) == w.data - w.lo
tailroom(w) == w.hi - w.data - w.len
View(w)     == SubSeq(memory[w.blk], w.data + 1, w.data + w.len)
Content(s)  == FlattenSeq([i \in 1..Len(s) |-> View(s[i])])
Total(s)    == FoldLeft(LAMBDA n, w : n + w.len, 0, s)

Used(c) == UNION {{c[o][i].blk : i \in 1..Len(c[o])} : o \in Owners}
Free    == Blocks \ Used(chain)

Uses(k, o) == Cardinality({i \in 1..Len(chain[o]) : chain[o][i].blk = k})
isSharedOne(w) ==
  w.blk \in wrapped \/ MapThenSumSet(LAMBDA o : Uses(w.blk, o), Owners) > 1

Zeros(n) == [i \in 1..n |-> 0]
Put(m, k, o, s) ==
  [m EXCEPT ![k] = [i \in 1..Len(@) |-> IF i > o /\ i <= o + Len(s)
                                          THEN s[i - o] ELSE @[i]]]

(* A call leaves the chains c; blocks nobody uses any more are freed.      *)
Leaves(c, m, wr, len, w) ==
  /\ chain' = c /\ length' = len /\ want' = w
  /\ memory' = [k \in Blocks |-> IF k \in Used(c) THEN m[k] ELSE <<>>]
  /\ wrapped' = wr \cap Used(c)

Rest(s, n) == SubSeq(s, n + 1, Len(s))
Least(n, len) == IF n < len THEN n ELSE len

-----------------------------------------------------------------------------
(* Appending *)

(* appendToChain: how many IOBufs at the front of src are copied behind    *)
(* the last one of dst.                                                    *)
Packed(dst, src) ==
  LET before(i) == Total(SubSeq(src, 1, i - 1))
      fits(i) == /\ src[i].len < MaxPack - before(i)
                 /\ src[i].len < tailroom(Last(dst)) - before(i)
  IN  Max({m \in 0..Len(src) : \A i \in 1..m : fits(i)})

(* append of the user's chain or of another queue.                         *)
Append1(q, src, pack) ==
  LET dst  == chain[q]
      s    == chain[src]
      m    == IF pack /\ dst # <<>> THEN Packed(dst, s) ELSE 0
      copy == Content(SubSeq(s, 1, m))
      last == Last(dst)
      mem  == IF m = 0 THEN memory
              ELSE Put(memory, last.blk, last.data + last.len, copy)
      all  == (IF m = 0 THEN dst
               ELSE [dst EXCEPT ![Len(dst)].len = @ + Len(copy)]) \o Rest(s, m)
      add  == IF ~cached[q] THEN 0
              ELSE IF src \in Queues /\ cached[src] THEN length[src]
              ELSE Total(s)
  IN
  /\ s # <<>> /\ src # q
  /\ Careful /\ pack /\ dst # <<>> => ~isSharedOne(last)
  /\ Leaves([chain EXCEPT ![q] = all, ![src] = <<>>], mem, wrapped,
            [length EXCEPT ![q] = @ + add, ![src] = 0],
            [want EXCEPT ![q] = @ \o want[src], ![src] = <<>>])

(* One round of append(buf, len), for one byte; as many follow as text has *)
(* more.  A new IOBuf is made for all of them.                             *)
AppendByte(text, st, i) ==
  LET last == Last(st.s)
      need == \/ st.s = <<>>
              \/ last.blk \notin st.new /\ isSharedOne(last)
              \/ tailroom(last) = 0
      size == Max({MinAlloc, Min({Len(text) - i + 1, MaxAlloc})})
      k    == Min(Free \ st.new)
  IN
  IF need THEN [s   |-> Append(st.s, Window(k, 0, 0, 1, size)),
                mem |-> [st.mem EXCEPT ![k] = <<text[i]>> \o Zeros(size - 1)],
                new |-> st.new \cup {k}]
  ELSE [st EXCEPT !.s[Len(st.s)].len = @ + 1,
                  !.mem = Put(@, last.blk, last.data + last.len, <<text[i]>>)]

AppendText(q, text) ==
  LET st == FoldLeft(LAMBDA a, i : AppendByte(text, a, i),
                     [s |-> chain[q], mem |-> memory, new |-> {}],
                     [i \in 1..Len(text) |-> i])
  IN
  /\ Cardinality(Free) * MinAlloc >= Len(text)
  /\ Leaves([chain EXCEPT ![q] = st.s], st.mem, wrapped,
            [length EXCEPT ![q] = @ + Len(text)],
            [want EXCEPT ![q] = @ \o text])

(* wrapBuffer, in pieces of size n.                                        *)
WrapBuffer(q, text, n) ==
  LET k == Min(Free)
      pieces == (Len(text) + n - 1) \div n
      piece(i) == LET lo == (i - 1) * n
                      len == Least(n, Len(text) - lo)
                  IN  Window(k, lo, lo, len, lo + len)
  IN
  /\ Free # {}
  /\ Leaves([chain EXCEPT ![q] = @ \o [i \in 1..pieces |-> piece(i)]],
            [memory EXCEPT ![k] = text], wrapped \cup {k},
            [length EXCEPT ![q] = IF cached[q] THEN @ + Len(text) ELSE @],
            [want EXCEPT ![q] = @ \o text])

(* preallocate(min, size), text written there, and postallocate.           *)
Allocate(q, text, min, size) ==
  LET s    == chain[q]
      fits == s # <<>> /\ ~isSharedOne(Last(s)) /\ tailroom(Last(s)) >= min
      k    == Min(Free)
      n    == Max({min, size})
      w    == IF fits THEN Last(s) ELSE Window(k, 0, 0, 0, n)
      base == IF fits THEN Front(s) ELSE s
      mem  == IF fits THEN memory ELSE [memory EXCEPT ![k] = Zeros(n)]
  IN
  /\ fits \/ Free # {}
  /\ n <= MaxBlock /\ Len(text) <= tailroom(w)
  /\ Leaves([chain EXCEPT ![q] =
               Append(base, [w EXCEPT !.len = @ + Len(text)])],
            Put(mem, w.blk, w.data + w.len, text), wrapped,
            [length EXCEPT ![q] = @ + Len(text)],
            [want EXCEPT ![q] = @ \o text])

(* prepend, which throws if the headroom is too small.                     *)
Prepend(q, text) ==
  LET w == Head(chain[q])
      n == Len(text)
  IN
  /\ chain[q] # <<>> /\ n <= headroom(w)
  /\ Careful => ~isSharedOne(w)
  /\ Leaves([chain EXCEPT ![q][1] = [w EXCEPT !.data = @ - n, !.len = @ + n]],
            Put(memory, w.blk, w.data - n, text), wrapped,
            [length EXCEPT ![q] = @ + n],
            [want EXCEPT ![q] = text \o @])

-----------------------------------------------------------------------------
(* Removing *)

(* How many IOBufs are removed as a whole, for n bytes from the front.     *)
Whole(s, n) ==
  LET before(i) == Total(SubSeq(s, 1, i - 1)) IN
  Cardinality({i \in 1..Len(s) : before(i) < n /\ before(i) + s[i].len <= n})

TrimmedStart(s, n) ==
  LET m    == Whole(s, n)
      left == n - Total(SubSeq(s, 1, m))
      rest == Rest(s, m)
  IN  IF left = 0 \/ rest = <<>> THEN rest
      ELSE [rest EXCEPT ![1].data = @ + left, ![1].len = @ - left]

TrimmedEnd(s, n) ==
  LET m    == Whole(Reverse(s), n)
      rest == SubSeq(s, 1, Len(s) - m)
      left == n - Total(Rest(s, Len(s) - m))
  IN  IF left = 0 \/ rest = <<>> THEN rest
      ELSE [rest EXCEPT ![Len(rest)].len = @ - left]

(* split and splitAtMost.  split of too many bytes throws when it has      *)
(* removed all there are.                                                  *)
Split(q, n, atMost) ==
  LET s      == chain[q]
      m      == Whole(s, n)
      left   == n - Total(SubSeq(s, 1, m))
      whole  == SubSeq(s, 1, m)
      part   == IF left = 0 \/ m = Len(s) THEN <<>>
                ELSE <<[s[m + 1] EXCEPT !.len = left]>>
      result == IF left > 0 /\ m = Len(s) /\ ~atMost THEN <<>>
                ELSE IF whole \o part = <<>>
                  THEN <<Window(Min(Free), 0, 0, 0, 0)>>
                ELSE whole \o part
      some   == Least(n, Len(want[q]))
  IN
  /\ chain[User] = <<>> /\ Free # {}
  /\ Leaves([chain EXCEPT ![q] = TrimmedStart(s, n), ![User] = result],
            memory, wrapped,
            [length EXCEPT ![q] = @ - (Total(s) - Total(TrimmedStart(s, n)))],
            [want EXCEPT ![q] = Rest(@, some),
                         ![User] = IF result = <<>> THEN <<>>
                                   ELSE SubSeq(want[q], 1, some)])

(* trimStart, trimStartAtMost and trimEnd, trimEndAtMost: the first of     *)
(* each pair throws if there was too little, after the same trimming.      *)
TrimStart(q, n) ==
  LET s == TrimmedStart(chain[q], n) IN
  Leaves([chain EXCEPT ![q] = s], memory, wrapped,
         [length EXCEPT ![q] = @ - (Total(chain[q]) - Total(s))],
         [want EXCEPT ![q] = Rest(@, Least(n, Len(@)))])

TrimEnd(q, n) ==
  LET s == TrimmedEnd(chain[q], n) IN
  Leaves([chain EXCEPT ![q] = s], memory, wrapped,
         [length EXCEPT ![q] = @ - (Total(chain[q]) - Total(s))],
         [want EXCEPT ![q] = SubSeq(@, 1, Len(@) - Least(n, Len(@)))])

pop_front(q) ==
  LET n == Head(chain[q]).len IN
  /\ chain[q] # <<>> /\ chain[User] = <<>>
  /\ Leaves([chain EXCEPT ![q] = Tail(@), ![User] = <<Head(chain[q])>>],
            memory, wrapped, [length EXCEPT ![q] = @ - n],
            [want EXCEPT ![q] = Rest(@, n), ![User] = SubSeq(want[q], 1, n)])

move(q) ==
  /\ chain[q] # <<>> /\ chain[User] = <<>>
  /\ Leaves([chain EXCEPT ![q] = <<>>, ![User] = chain[q]],
            memory, wrapped, [length EXCEPT ![q] = 0],
            [want EXCEPT ![q] = <<>>, ![User] = want[q]])

(* clear keeps the IOBufs, empty.                                          *)
clear(q) ==
  /\ chain[q] # <<>>
  /\ Leaves([chain EXCEPT ![q] = [i \in 1..Len(@) |->
               [@[i] EXCEPT !.data = @ - headroom(chain[q][i]), !.len = 0]]],
            memory, wrapped, [length EXCEPT ![q] = 0],
            [want EXCEPT ![q] = <<>>])

(* gather, if there is enough and it is not in one IOBuf already           *)
gather(q, n) ==
  LET s    == chain[q]
      upTo(i) == Total(SubSeq(s, 1, i))
      m    == Min({i \in 1..Len(s) : upTo(i) >= n})
      h    == headroom(s[1])
      size == h + upTo(m) + tailroom(s[m])
      k    == Min(Free)
      data == Content(SubSeq(s, 1, m))
  IN
  /\ s # <<>> /\ s[1].len < n /\ Total(s) >= n
  /\ Free # {} /\ size <= MaxBlock
  /\ Leaves([chain EXCEPT ![q] =
               <<Window(k, 0, h, Len(data), size)>> \o Rest(s, m)],
            [memory EXCEPT ![k] = Zeros(h) \o data \o Zeros(tailroom(s[m]))],
            wrapped, length, want)

(* The user clones the chain of a queue, from front(), or deletes its own. *)
Clone(q) ==
  /\ chain[User] = <<>> /\ chain[q] # <<>>
  /\ Leaves([chain EXCEPT ![User] = chain[q]], memory, wrapped, length,
            [want EXCEPT ![User] = want[q]])

Drop ==
  /\ chain[User] # <<>>
  /\ Leaves([chain EXCEPT ![User] = <<>>], memory, wrapped, length,
            [want EXCEPT ![User] = <<>>])

(* operator=(IOBufQueue&&)                                                 *)
MoveAssign(q, other) ==
  /\ other # q /\ chain[other] # <<>>
  /\ Leaves([chain EXCEPT ![q] = chain[other], ![other] = <<>>],
            memory, wrapped,
            [length EXCEPT ![q] = length[other], ![other] = 0],
            [want EXCEPT ![q] = want[other], ![other] = <<>>])
  /\ cached' = [cached EXCEPT ![q] = cached[other]]

-----------------------------------------------------------------------------

Init ==
  /\ chain = [o \in Owners |-> <<>>]
  /\ length = [o \in Owners |-> 0]
  /\ cached \in [Queues -> BOOLEAN]
  /\ memory = [k \in Blocks |-> <<>>]
  /\ wrapped = {}
  /\ want = [o \in Owners |-> <<>>]
  /\ called = 0

(* Every call writes other bytes.                                          *)
Text(n) == [i \in 1..n |-> called * 10 + i]

Adds(q) ==
  \/ \E src \in Owners, pack \in BOOLEAN : Append1(q, src, pack)
  \/ \E n \in Lengths :
       \/ \E size \in Lengths : WrapBuffer(q, Text(n), size)
       \/ \E min \in Lengths : Allocate(q, Text(n), min, MinAlloc)
       \/ Prepend(q, Text(n))

Removes(q) ==
  \/ \E n \in 0..MaxRemove, atMost \in BOOLEAN : Split(q, n, atMost)
  \/ \E n \in 1..MaxRemove : TrimStart(q, n) \/ TrimEnd(q, n) \/ gather(q, n)
  \/ pop_front(q) \/ move(q) \/ clear(q)

Next ==
  /\ called < MaxQueueCalls /\ called' = called + 1
  /\ \/ /\ \/ \E q \in Queues, n \in Lengths : AppendText(q, Text(n))
           \/ \E q \in Queues : Append1(q, User, FALSE)
           \/ Adds(Main) \/ Removes(Main) \/ Clone(Main)
           \/ Drop
        /\ UNCHANGED cached
     \/ \E q \in Queues : MoveAssign(q, Main) \/ MoveAssign(Main, q)

Spec == Init /\ [][Next]_vars

-----------------------------------------------------------------------------

(* Every chain holds what its calls have put into it, in order: in         *)
(* particular, no call on one queue changes the data of another chain      *)
(* that uses the same memory.                                              *)
DataKept == \A o \in Owners : Content(chain[o]) = want[o]

(* chainLength() is the length of the data.                                *)
LengthKept == \A q \in Queues : cached[q] => length[q] = Len(want[q])

(* Both, whatever the queues are asked to do.                              *)
QueueSound == DataKept /\ LengthKept

=============================================================================
