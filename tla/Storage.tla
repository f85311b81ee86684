------------------------------ MODULE Storage -------------------------------
(***************************************************************************)
(* Places in memory: cursors in chains of IOBufs, arenas, arrays that      *)
(* share their elements, and the slots of an MPMCQueue.                    *)
(***************************************************************************)
EXTENDS Integers, SequencesExt

CONSTANT SizeBits   \* width of size_t

-----------------------------------------------------------------------------
(***************************************************************************)
(* Cursors of accelerator/io: positions in a chain of IOBufs.  Cursor      *)
(* reads, RWPrivateCursor and RWUnshareCursor also write over the bytes,   *)
(* Appender and QueueAppender write behind them.                           *)
(*                                                                         *)
(* A buffer has the bytes of its window, the room behind them, and whether *)
(* another chain shows the same memory.  A cursor c has the chain from its *)
(* head (buffer_), the number crt and offset off of its place, RWCursor's  *)
(* flag maybe, and leak: whether it wrote where another chain looks.  A    *)
(* call gives the cursor behind it, what it returns and whether it threw.  *)
(***************************************************************************)

Buffer(bytes, room, shared) ==
  [bytes |-> bytes, room |-> room, shared |-> shared]

Start(chain) ==
  [chain |-> chain, crt |-> 1, off |-> 0, maybe |-> TRUE, leak |-> FALSE]

Returns(c, out) == [c |-> c, out |-> out, throws |-> FALSE]
Throws(c)       == [c |-> c, out |-> <<>>, throws |-> TRUE]

Current(c) == c.chain[c.crt]
Length(c)  == Len(Current(c).bytes) - c.off
Ahead(c, n) == SubSeq(Current(c).bytes, c.off + 1, c.off + n)
IsLast(c)  == c.crt = Len(c.chain)

CanAdvanceBuffer(c) == ~IsLast(c)

(* tryAdvanceBuffer() and tryRetreatBuffer(): to the next or the previous  *)
(* buffer, or to the end or the start of this one if there is none.        *)
TryAdvanceBuffer(c) ==
  IF CanAdvanceBuffer(c)
    THEN [c EXCEPT !.crt = @ + 1, !.off = 0, !.maybe = TRUE]
    ELSE [c EXCEPT !.off = Len(Current(c).bytes)]

TryRetreatBuffer(c) ==
  IF c.crt > 1
    THEN [c EXCEPT !.crt = @ - 1, !.off = Len(c.chain[c.crt - 1].bytes),
                   !.maybe = TRUE]
    ELSE [c EXCEPT !.off = 0]

AdvanceBufferIfEmpty(c) == IF Length(c) = 0 THEN TryAdvanceBuffer(c) ELSE c

Step(c, n) == AdvanceBufferIfEmpty([c EXCEPT !.off = @ + n])

-----------------------------------------------------------------------------
(* Reading *)

(* pullAtMost(); skipAtMost() returns the length of what this returns.     *)
RECURSIVE PullAtMost(_, _)
PullAtMost(c, len) ==
  IF Length(c) >= len THEN Returns(Step(c, len), Ahead(c, len))
  ELSE LET here == Ahead(c, Length(c))
           next == TryAdvanceBuffer(c)
       IN  IF ~CanAdvanceBuffer(c) THEN Returns(next, here)
           ELSE LET rest == PullAtMost(next, len - Len(here))
                IN  Returns(rest.c, here \o rest.out)

(* pull(), skip(), read<T>() and readFixedString() throw when that was not *)
(* enough, with the cursor at the end of the chain.                        *)
Pull(c, len) ==
  LET r == PullAtMost(c, len)
  IN  IF Len(r.out) = len THEN r ELSE Throws(r.c)

RECURSIVE RetreatAtMost(_, _)
RetreatAtMost(c, len) ==
  IF len =< c.off THEN [c |-> [c EXCEPT !.off = @ - len], n |-> len]
  ELSE IF c.crt = 1 THEN [c |-> TryRetreatBuffer(c), n |-> c.off]
  ELSE LET rest == RetreatAtMost(TryRetreatBuffer(c), len - c.off)
       IN  [rest EXCEPT !.n = @ + c.off]

RECURSIVE PeekBytes(_)
PeekBytes(c) ==
  IF Length(c) = 0 /\ CanAdvanceBuffer(c) THEN PeekBytes(TryAdvanceBuffer(c))
  ELSE Returns(c, Ahead(c, Length(c)))

(* readWhile() the bytes are in keep; max is what readTerminatedString()'s *)
(* predicate counts down to before it throws.                              *)
RECURSIVE ReadWhile(_, _, _)
ReadWhile(c, keep, max) ==
  LET p    == PeekBytes(c)
      bad  == {i \in 1 .. Len(p.out) : p.out[i] \notin keep}
      stop == IF bad = {} THEN Len(p.out) + 1
              ELSE CHOOSE i \in bad : \A j \in bad : i =< j
      n    == stop - 1
      next == Pull(p.c, n).c
  IN  IF p.out = <<>> THEN p
      ELSE IF n > 0 /\ n >= max THEN Throws(p.c)
      ELSE IF bad # {} THEN Returns(next, SubSeq(p.out, 1, n))
      ELSE LET rest == ReadWhile(next, keep, max - n)
           IN  [rest EXCEPT !.out = p.out \o @]

IsAtEnd(c) ==
  /\ Length(c) = 0
  /\ \A i \in c.crt + 1 .. Len(c.chain) : c.chain[i].bytes = <<>>

(* The predicate compares a byte with a char, which is negative above 127. *)
ReadTerminatedString(c, term, max) ==
  LET r == ReadWhile(c, 0 .. 255 \ (IF term < 128 THEN {term} ELSE {}), max)
  IN  IF r.throws THEN r
      ELSE IF IsAtEnd(r.c) THEN Throws(r.c)
      ELSE Returns(Pull(r.c, 1).c, r.out)

RECURSIVE CanAdvanceFrom(_, _, _)
CanAdvanceFrom(chain, i, amount) ==
  \/ Len(chain[i].bytes) >= amount
  \/ /\ i < Len(chain)
     /\ CanAdvanceFrom(chain, i + 1, amount - Len(chain[i].bytes))

CanAdvance(c, amount) ==
  \/ Length(c) >= amount
  \/ ~IsLast(c) /\ CanAdvanceFrom(c.chain, c.crt + 1, amount - Length(c))

Content(chain) == FlattenSeq([i \in DOMAIN chain |-> chain[i].bytes])
Size(chain)    == Len(Content(chain))

AdvanceToEnd(c) ==
  [c EXCEPT !.off = Len(Last(c.chain).bytes), !.crt = Len(c.chain),
            !.maybe = @ \/ ~IsLast(c)]

(* operator-(): how far c is behind d; it walks from d to the end of the   *)
(* chain at most.                                                          *)
Wrapped == -1
Distance(c, d) ==
  IF c.crt = d.crt
    THEN IF c.off < d.off THEN Wrapped ELSE c.off - d.off
    ELSE IF c.crt < d.crt THEN Wrapped
    ELSE Length(d) + Size(SubSeq(c.chain, d.crt + 1, c.crt - 1)) + c.off

TotalLength(c) ==
  IF c.crt = 1 THEN Size(c.chain) - c.off
  ELSE Distance(AdvanceToEnd(c), c)

(* The distance from a buffer of the chain.                                *)
DistanceFrom(c, i) ==
  IF i > c.crt THEN Wrapped ELSE Size(SubSeq(c.chain, i, c.crt - 1)) + c.off

(* cloneAtMost(): IOBufs on the same memory, one for each buffer it meets. *)
RECURSIVE CloneAtMost(_, _)
CloneAtMost(c, len) ==
  LET n      == IF Length(c) >= len THEN len ELSE Length(c)
      piece  == Buffer(Ahead(c, n), 0, TRUE)
      shared == [c EXCEPT !.chain[c.crt].shared = TRUE]
  IN  IF Length(c) >= len THEN Returns(Step(shared, len), <<piece>>)
      ELSE IF ~CanAdvanceBuffer(c)
             THEN Returns(TryAdvanceBuffer(shared), <<piece>>)
      ELSE LET rest == CloneAtMost(TryAdvanceBuffer(shared), len - n)
           IN  [rest EXCEPT !.out = <<piece>> \o @]

-----------------------------------------------------------------------------
(* Writing over the bytes *)

MaybeUnshare(c, access) ==
  IF access = "UNSHARE" /\ c.maybe
    THEN [c EXCEPT !.chain[c.crt].shared = FALSE, !.maybe = FALSE]
    ELSE c

WriteHere(c, bytes, access) ==
  LET d == MaybeUnshare(c, access)
  IN  [d EXCEPT !.leak = @ \/ (bytes # <<>> /\ Current(d).shared),
                !.chain[c.crt].bytes =
                  SubSeq(@, 1, c.off) \o bytes \o
                  SubSeq(@, c.off + Len(bytes) + 1, Len(@)),
                !.off = @ + Len(bytes)]

(* RWCursor::pushAtMost(); it stays at the end of a buffer that it fills.  *)
RECURSIVE PushOver(_, _, _)
PushOver(c, bytes, access) ==
  IF bytes = <<>> THEN Returns(c, 0)
  ELSE IF Length(c) >= Len(bytes)
    THEN Returns(WriteHere(c, bytes, access), Len(bytes))
  ELSE LET n    == Length(c)
           here == WriteHere(c, SubSeq(bytes, 1, n), access)
           left == SubSeq(bytes, n + 1, Len(bytes))
       IN  IF ~CanAdvanceBuffer(c) THEN Returns(TryAdvanceBuffer(here), n)
           ELSE LET rest == PushOver(TryAdvanceBuffer(here), left, access)
                IN  [rest EXCEPT !.out = @ + n]

(* insert(): before the first buffer is behind the last one, in the ring   *)
(* that a chain is, and behind the last buffer comes the first.            *)
Insert(c, new) ==
  LET before == SubSeq(c.chain, 1, c.crt - 1)
      after  == SubSeq(c.chain, c.crt + 1, Len(c.chain))
      cut(from, to) ==
        [Current(c) EXCEPT !.bytes = SubSeq(@, from, to)]
      at(chain, i) == [c EXCEPT !.chain = chain, !.crt = i, !.off = 0]
      n == Len(new)
  IN  IF c.off = 0
        THEN IF c.crt = 1 THEN at(c.chain \o new, 1)
             ELSE at(before \o new \o <<Current(c)>> \o after, c.crt + n)
      ELSE IF Length(c) > 0
        THEN at(before \o <<cut(1, c.off)>> \o new \o
                <<cut(c.off + 1, Len(Current(c).bytes))>> \o after,
                c.crt + n + 1)
      ELSE at(before \o <<Current(c)>> \o new \o after,
              IF IsLast(c) THEN 1 ELSE c.crt + n + 1)

(* IOBuf::gather(): whole buffers of the ring are joined until there are   *)
(* enough bytes, in memory of their own.  Joining the head frees it.       *)
GatherFrom(c, n) ==
  LET before == SubSeq(c.chain, 1, c.crt - 1)
      after  == SubSeq(c.chain, c.crt, Len(c.chain))
      ring   == after \o before
      enough == {k \in DOMAIN ring : Size(SubSeq(ring, 1, k)) >= n}
      last   == CHOOSE k \in enough : \A m \in enough : k =< m
      joined == Buffer(Content(SubSeq(ring, 1, last)), ring[last].room, FALSE)
      rest(s) == <<joined>> \o SubSeq(s, last + 1, Len(s))
  IN  IF Len(ring) = 1 \/ Len(Current(c).bytes) >= n THEN Returns(c, 0)
      ELSE IF enough = {} THEN Throws(c)
      ELSE IF last =< Len(after)
        THEN Returns([c EXCEPT !.chain = before \o rest(after)], 0)
      ELSE Returns([c EXCEPT !.chain = rest(ring), !.crt = 1], 0)

Gather(c, n) ==
  IF c.crt # 1 /\ TotalLength(c) < n THEN Throws(c)
  ELSE GatherFrom(c, c.off + n)

GatherAtMost(c, n) ==
  GatherFrom(c, c.off + (IF n =< TotalLength(c) THEN n ELSE TotalLength(c)))

-----------------------------------------------------------------------------
(* Writing behind the bytes.  malloc() may give more room than it is asked *)
(* for.                                                                    *)
Create(n) == Buffer(<<>>, n + (n % 2), FALSE)

Room(chain) == IF chain = <<>> THEN 0 ELSE Last(chain).room

Append2(chain, bytes) ==
  [chain EXCEPT ![Len(chain)] =
     [@ EXCEPT !.bytes = @ \o bytes, !.room = @ - Len(bytes)]]

(* Appender::pushAtMost() with tryGrowChain().                             *)
RECURSIVE PushBehind(_, _, _)
PushBehind(chain, growth, bytes) ==
  LET n == Room(chain)
  IN  IF n >= Len(bytes) THEN [chain |-> Append2(chain, bytes),
                               n |-> Len(bytes)]
      ELSE LET full == Append2(chain, SubSeq(bytes, 1, n))
           IN  IF growth = 0 THEN [chain |-> full, n |-> n]
               ELSE LET rest == PushBehind(Append(full, Create(growth)),
                                           growth,
                                           SubSeq(bytes, n + 1, Len(bytes)))
                    IN  [rest EXCEPT !.n = @ + n]

Larger(m, n) == IF m >= n THEN m ELSE n
Smaller(m, n) == IF m =< n THEN m ELSE n

(* Appender::ensure(); it throws, and changes nothing, without growth.     *)
CanEnsure(chain, growth, n) == Room(chain) >= n \/ growth > 0
Ensure(chain, growth, n) ==
  IF Room(chain) >= n THEN chain
  ELSE Append(chain, Create(Larger(n, growth)))

(* Appender::vprintf(): vsnprintf() always ends with a zero, which needs   *)
(* room as well, and leaves out what has none.                             *)
Printed(chain, text) ==
  LET memory == SubSeq(text, 1, Smaller(Len(text), Room(chain) - 1)) \o <<0>>
  IN  Append2(chain, SubSeq(memory, 1, Len(text)))

Vprintf(chain, growth, text) ==
  IF Len(text) < Room(chain) THEN Printed(chain, text)
  ELSE Printed(Ensure(chain, growth, Len(text) + 1), text)

(* IOBufQueue::preallocate(): the chain, with room for min bytes.          *)
Preallocate(chain, min, growth) ==
  IF chain # <<>> /\ Room(chain) >= min THEN chain
  ELSE Append(chain, Create(Larger(min, growth)))

(* QueueAppender::pushAtMost(), on a queue that may be empty.              *)
RECURSIVE PushRemaining(_, _, _)
PushRemaining(chain, growth, bytes) ==
  IF bytes = <<>> THEN chain
  ELSE LET more == Preallocate(chain, Smaller(Len(bytes), growth), growth)
           n    == Smaller(Len(bytes), Room(more))
       IN  PushRemaining(Append2(more, SubSeq(bytes, 1, n)), growth,
                         SubSeq(bytes, n + 1, Len(bytes)))

PushToQueue(chain, growth, bytes) ==
  LET n    == Smaller(Len(bytes), Room(chain))
      full == IF n = 0 THEN chain ELSE Append2(chain, SubSeq(bytes, 1, n))
  IN  PushRemaining(full, growth, SubSeq(bytes, n + 1, Len(bytes)))

(* Writable::pushAtMost(Cursor, len) with an Appender: it pushes buffer by *)
(* buffer, and throws where the chain cannot grow.                         *)
RECURSIVE PushFrom(_, _, _, _)
PushFrom(chain, growth, from, len) ==
  LET p    == PeekBytes(from)
      n    == Smaller(Len(p.out), len)
      done == PushBehind(chain, growth, SubSeq(p.out, 1, n))
  IN  IF p.out = <<>> THEN [chain |-> chain, n |-> 0, throws |-> FALSE]
      ELSE IF done.n # n THEN [chain |-> done.chain, n |-> 0, throws |-> TRUE]
      ELSE IF Len(p.out) >= len
        THEN [chain |-> done.chain, n |-> n, throws |-> FALSE]
      ELSE LET rest == PushFrom(done.chain, growth, Pull(p.c, n).c, len - n)
           IN  [rest EXCEPT !.n = @ + n]

-----------------------------------------------------------------------------
(* The position in the bytes of the whole chain.                           *)
Pos(c) == Size(SubSeq(c.chain, 1, c.crt - 1)) + c.off

(* Where maybeShared_ denies it, nobody else sees the current buffer.      *)
FlagRight(c) == c.maybe \/ ~Current(c).shared

(* However the bytes are cut into buffers, empty ones among them, a cursor *)
(* reads, skips, clones and gathers them as if they lay in one piece, and  *)
(* knows how many are left.                                                *)
ReadsRight(c, n, d) ==
  LET text  == Content(c.chain)
      pos   == Pos(c)
      left  == Len(text) - pos
      most  == Smaller(n, left)
      ahead == SubSeq(text, pos + 1, pos + most)
      moved(e, by) == /\ e.chain = c.chain /\ Pos(e) = pos + by
                      /\ FlagRight(c) => FlagRight(e)
      pulled == PullAtMost(c, n)
      back   == RetreatAtMost(c, n)
      peeked == PeekBytes(c)
      cloned == CloneAtMost(c, n)
      gathered(g) == /\ Content(g.chain) = text /\ Pos(g) = pos
                     /\ Length(g) >= most /\ FlagRight(c) => FlagRight(g)
  IN  /\ pulled.out = ahead /\ moved(pulled.c, most)
      /\ Pull(c, n).throws <=> n > left
      /\ back.n = Smaller(n, pos) /\ moved(back.c, 0 - back.n)
      /\ peeked.out = <<>> <=> left = 0
      /\ Len(peeked.out) =< left /\ moved(peeked.c, 0)
      /\ peeked.out = SubSeq(text, pos + 1, pos + Len(peeked.out))
      /\ moved(AdvanceToEnd(c), left)
      /\ IsAtEnd(c) <=> left = 0
      /\ CanAdvance(c, n) <=> n =< left
      /\ TotalLength(c) = left
      /\ Content(cloned.out) = ahead /\ Pos(cloned.c) = pos + most
      /\ Content(cloned.c.chain) = text
      /\ Gather(c, n).throws <=> n > left /\ Len(c.chain) > 1
      /\ ~Gather(c, n).throws => gathered(Gather(c, n).c)
      /\ gathered(GatherAtMost(c, n).c)
      /\ Pos(c) > Pos(d) => Distance(c, d) # Wrapped
      /\ Distance(c, d) \in {Wrapped, Pos(c) - Pos(d)}
      /\ \A i \in DOMAIN c.chain :
           DistanceFrom(c, i) \in {Wrapped, pos - Size(SubSeq(c.chain, 1, i - 1))}

(* readTerminatedString() returns the bytes before the first terminator,   *)
(* if there is one and they are fewer than max, and goes on behind it.     *)
TerminatedRight(c, term, max) ==
  LET text == Content(c.chain)
      ends == {i \in Pos(c) + 1 .. Len(text) : text[i] = term}
      r    == ReadTerminatedString(c, term, max)
      end  == CHOOSE i \in ends : \A j \in ends : i =< j
      word == SubSeq(text, Pos(c) + 1, end - 1)
  IN  IF ends = {} \/ (Len(word) >= max /\ word # <<>>) THEN r.throws
      ELSE ~r.throws /\ r.out = word /\ Pos(r.c) = end

(* A cursor writes over the bytes at its place and over no others, and     *)
(* where it unshares first, no other chain sees it.  insert() keeps the    *)
(* bytes before and behind, except that at the very start the new buffers  *)
(* go to the end of the chain, and at the very end the cursor goes to its  *)
(* start.                                                                  *)
WritesRight(c, bytes, new) ==
  LET text == Content(c.chain)
      pos  == Pos(c)
      most == Smaller(Len(bytes), Len(text) - pos)
      add  == Content(new)
      e    == Insert(c, new)
      over(r) == /\ r.out = most /\ Pos(r.c) = pos + most
                 /\ Content(r.c.chain) =
                      SubSeq(text, 1, pos) \o SubSeq(bytes, 1, most) \o
                      SubSeq(text, pos + most + 1, Len(text))
      cow  == PushOver(c, bytes, "UNSHARE")
  IN  /\ over(PushOver(c, bytes, "PRIVATE")) /\ over(cow)
      /\ FlagRight(c) => ~cow.c.leak /\ FlagRight(cow.c)
      /\ IF c.crt = 1 /\ c.off = 0
           THEN Content(e.chain) = text \o add /\ Pos(e) = 0
           ELSE /\ Content(e.chain) = SubSeq(text, 1, pos) \o add \o
                                      SubSeq(text, pos + 1, Len(text))
                /\ Pos(e) = IF IsLast(c) /\ c.off > 0 /\ Length(c) = 0
                              THEN 0 ELSE pos + Len(add)

(* What is written behind a chain or a queue is all there, once and in     *)
(* order, however many buffers it takes; without growth it is what fits.   *)
AppendsRight(chain, growth, bytes, from, len) ==
  LET text   == Content(chain)
      pushed == PushBehind(chain, growth, bytes)
      copied == PushFrom(chain, growth, from, len)
      source == Content(from.chain)
      fits   == Smaller(Len(bytes), Room(chain))
      wanted == Smaller(len, Len(source) - Pos(from))
  IN  /\ pushed.n = IF growth = 0 THEN fits ELSE Len(bytes)
      /\ Content(pushed.chain) = text \o SubSeq(bytes, 1, pushed.n)
      /\ CanEnsure(chain, growth, Len(bytes) + 1) =>
           /\ Room(Ensure(chain, growth, Len(bytes) + 1)) > Len(bytes)
           /\ Content(Vprintf(chain, growth, bytes)) = text \o bytes
      /\ growth > 0 =>
           /\ Content(PushToQueue(chain, growth, bytes)) = text \o bytes
           /\ Content(PushToQueue(<<>>, growth, bytes)) = bytes
      /\ copied.throws <=> growth = 0 /\ Room(chain) < wanted
      /\ ~copied.throws =>
           /\ copied.n = wanted
           /\ Content(copied.chain) =
                text \o SubSeq(source, Pos(from) + 1, Pos(from) + wanted)

-----------------------------------------------------------------------------
(***************************************************************************)
(* Arena of accelerator/Arena.h and .cpp: memory cut from blocks, which    *)
(* are only freed with the arena.  An address is a block and an offset     *)
(* from its start(), which is aligned for everything.                      *)
(***************************************************************************)

SizeMax == 2^SizeBits
BlockSize == 2      \* sizeof(Block)

NewArena(minBlock, align) ==
  [blocks |-> <<>>, crt |-> 0, ptr |-> 0, end |-> 0, total |-> 0, used |-> 0,
   minBlock |-> minBlock, align |-> align, out |-> <<>>]

RoundUp(a, size) ==
  LET n == (size + a.align - 1) % SizeMax IN n - (n % a.align)

(* allocateSlow(); crt is the block that ptr_ and end_ lie in.             *)
AllocateSlow(a, size) ==
  LET large == size > a.minBlock
      n     == IF large THEN size ELSE a.minBlock
      b     == Len(a.blocks) + 1
      grown == [a EXCEPT !.blocks = Append(@, n),
                         !.total = (@ + n + BlockSize) % SizeMax]
  IN  [r |-> [block |-> b, offset |-> 0, size |-> size],
       a |-> IF large THEN grown
             ELSE [grown EXCEPT !.crt = b, !.ptr = size, !.end = n]]

Allocate(a, asked) ==
  LET size == RoundUp(a, asked)
      b    == [a EXCEPT !.used = (@ + size) % SizeMax]
      slow == AllocateSlow(b, size)
  IN  IF a.end - a.ptr >= size
        THEN [[b EXCEPT !.ptr = @ + size] EXCEPT
                !.out = Append(@, [block |-> a.crt, offset |-> a.ptr,
                                   size |-> size])]
        ELSE [slow.a EXCEPT !.out = Append(@, slow.r)]

(* Memory handed out lies in its block, aligned, is at least as long as    *)
(* was asked for, and no two pieces overlap, however small and large       *)
(* requests alternate; the counters add up.  A request so near SizeMax     *)
(* that rounding it up wraps around is not made.                           *)
ArenaRight(minBlock, align, sizes) ==
  LET a == FoldLeft(Allocate, NewArena(minBlock, align), sizes)
      sum(s) == FoldLeft(LAMBDA x, y : x + y, 0, s)
  IN  (\A i \in DOMAIN sizes : sizes[i] + align =< SizeMax) =>
        /\ \A i \in DOMAIN sizes :
             LET p == a.out[i]
             IN  /\ p.size >= sizes[i] /\ p.offset % align = 0
                 /\ p.size > 0 => p.offset + p.size =< a.blocks[p.block]
                 /\ \A j \in 1 .. i - 1 :
                      LET q == a.out[j]
                      IN  \/ p.block # q.block
                          \/ p.offset >= q.offset + q.size
                          \/ q.offset >= p.offset + p.size
        /\ a.used = sum([i \in DOMAIN sizes |-> a.out[i].size]) % SizeMax
        /\ a.total =
             sum([b \in DOMAIN a.blocks |-> a.blocks[b] + BlockSize]) % SizeMax

-----------------------------------------------------------------------------
(***************************************************************************)
(* SArray of accelerator/SArray.h: arrays that are windows of memory they  *)
(* share.  m.memory is a sequence of blocks of elements; an array is its   *)
(* block, where its data() lies in it, size_ and capacity_.                *)
(***************************************************************************)

Unset == -1   \* an element nobody has written

Empty == [block |-> 0, at |-> 0, size |-> 0, capacity |-> 0]

Element(m, i, k) == m.memory[m.array[i].block][m.array[i].at + k]
Value(m, i) == [k \in 1 .. m.array[i].size |-> Element(m, i, k)]

(* A write of vals from element k on, if it stays in the block.            *)
Written(m, i, k, vals) ==
  LET a == m.array[i]
      from == a.at + k - 1
  IN  IF vals = <<>> THEN m
      ELSE IF a.block = 0 \/ from + Len(vals) > Len(m.memory[a.block])
        THEN [m EXCEPT !.fine = FALSE]
      ELSE [m EXCEPT !.memory[a.block] =
              [j \in DOMAIN @ |-> IF j \in from + 1 .. from + Len(vals)
                                    THEN vals[j - from] ELSE @[j]]]

(* reset(): the array is a new block of which it knows size elements.      *)
Reset(m, i, block, size) ==
  [m EXCEPT !.memory = Append(@, block),
            !.array[i] = [block |-> Len(m.memory) + 1, at |-> 0,
                          size |-> size, capacity |-> size]]

Fill(n, val) == [k \in 1 .. n |-> val]

Resize(m, i, size, val) ==
  LET a == m.array[i]
      n == IF a.capacity >= size THEN [m EXCEPT !.array[i].size = size]
           ELSE Reset(m, i, Value(m, i) \o Fill(size + 5 - a.size, Unset), size)
  IN  IF size =< a.size THEN n
      ELSE Written(n, i, a.size + 1, Fill(size - a.size, val))

Reserve(m, i, size) ==
  IF m.array[i].capacity >= size THEN m
  ELSE [Resize(m, i, size, 0) EXCEPT !.array[i].size = m.array[i].size]

PushBack(m, i, val) ==
  LET a == m.array[i]
      n == IF a.size = a.capacity THEN Reserve(m, i, a.size * 2 + 5) ELSE m
  IN  [Written(n, i, a.size + 1, <<val>>) EXCEPT !.array[i].size = @ + 1]

PopBack(m, i) ==
  IF m.array[i].size = 0 THEN m ELSE [m EXCEPT !.array[i].size = @ - 1]

AppendArray(m, i, j) ==
  IF m.array[j].size = 0 THEN m
  ELSE LET n == Resize(m, i, m.array[i].size + m.array[j].size, 0)
       IN  Written(n, i, m.array[i].size + 1, Value(n, j))

CopyFrom(m, i, j) ==
  IF i = j THEN m
  ELSE LET n == Resize(m, i, m.array[j].size, 0)
       IN  Written(n, i, 1, Value(n, j))

Slice(m, i, j, begin, end) ==
  [m EXCEPT !.array[j] = [m.array[i] EXCEPT !.at = @ + begin,
                          !.size = end - begin, !.capacity = end - begin]]

Assign(m, i, j) == [m EXCEPT !.array[j] = m.array[i]]

Clear(m, i) == [m EXCEPT !.array[i] = Empty]

FromVector(m, i, vals) == Written(Resize(m, i, Len(vals), 0), i, 1, vals)

-----------------------------------------------------------------------------
(* Calls on array 1 beside an array 2, which has memory of its own or is a *)
(* copy or a slice of array 1 and may grow, and what they make of a        *)
(* sequence.  low is the least size that array 1 has had.                  *)

Begin(first, second, how) ==
  LET m == FromVector([memory |-> <<>>, array |-> <<Empty, Empty>>,
                       fine |-> TRUE], 1, first)
      n == CASE how = "own"   -> FromVector(m, 2, second)
             [] how = "copy"  -> Assign(m, 1, 2)
             [] how = "slice" -> Slice(m, 1, 2, Len(first) \div 2, Len(first))
             [] how = "start" -> Slice(m, 1, 2, 0, Len(first) \div 2)
  IN  [m |-> n, want |-> first, low |-> Len(first)]

(* Array 2 is an argument only where no growth of array 1 writes over it.  *)
Apart(s) ==
  LET a == s.m.array[1]
      b == s.m.array[2]
  IN  a.block # b.block \/ b.at + b.size =< a.at + a.size

Does(s, c) ==
  LET m == s.m
      two == Value(m, 2)
      n == Len(s.want)
      to(m2, want) == [m |-> m2, want |-> want,
                       low |-> IF Len(want) < s.low THEN Len(want) ELSE s.low]
  IN  CASE c[1] = "resize" ->
             to(Resize(m, 1, c[2], 7),
                IF c[2] =< n THEN SubSeq(s.want, 1, c[2])
                             ELSE s.want \o Fill(c[2] - n, 7))
        [] c[1] = "reserve" -> to(Reserve(m, 1, c[2]), s.want)
        [] c[1] = "push" -> to(PushBack(m, 1, c[2]), Append(s.want, c[2]))
        [] c[1] = "pop" -> to(PopBack(m, 1), IF n = 0 THEN <<>>
                                             ELSE SubSeq(s.want, 1, n - 1))
        [] c[1] = "clear" -> to(Clear(m, 1), <<>>)
        [] c[1] = "other" -> to(PushBack(m, 2, c[2]), s.want)
        [] c[1] = "append" -> IF ~Apart(s) THEN s
                              ELSE to(AppendArray(m, 1, 2), s.want \o two)
        [] c[1] = "copy" -> IF m.array[1].block = m.array[2].block THEN s
                            ELSE to(CopyFrom(m, 1, 2), two)

(* An array is the sequence its calls make of it, in memory it may write.  *)
(* Another array that shares the memory sees what is written to it, and    *)
(* that is only what array 1 had given up before.                          *)
SArrayRight(first, second, how, calls) ==
  LET s0 == Begin(first, second, how)
      s  == FoldLeft(Does, s0, calls)
  IN  /\ s.m.fine /\ Value(s.m, 1) = s.want
      /\ \A i \in 1 .. 2 : LET a == s.m.array[i] IN
           /\ a.size =< a.capacity
           /\ a.block # 0 => a.at + a.capacity =< Len(s.m.memory[a.block])
      /\ \A k \in 1 .. s0.m.array[2].size :
           Element(s.m, 2, k) # Element(s0.m, 2, k) =>
             how # "own" /\ s0.m.array[2].at + k > s.low

-----------------------------------------------------------------------------
(***************************************************************************)
(* MPMCQueue::computeStride of accelerator/thread/MPMCQueue.h.             *)
(***************************************************************************)

smallPrimes == <<2, 3, 5, 7, 11, 13, 17, 19, 23>>

(* How far apart consecutive tickets land, either way round.               *)
Separation(s, cap) ==
  LET sep == s % cap IN IF sep < cap - sep THEN sep ELSE cap - sep

Usable(s, cap) == s % cap # 0 /\ cap % s # 0

computeStride(cap) ==
  LET Better(best, s) ==
        IF Usable(s, cap) /\ Separation(s, cap) > best.sep
        THEN [stride |-> s, sep |-> Separation(s, cap)] ELSE best
  IN  FoldLeft(Better, [stride |-> 1, sep |-> 1], smallPrimes).stride

-----------------------------------------------------------------------------

(* "We need gcd(capacity, stride) to be 1 so that we will use all of the   *)
(* slots": capacity consecutive tickets use every slot once, from whatever *)
(* ticket on.  And no small prime that is as safe spreads neighbouring     *)
(* tickets further apart, counting a step back by one as a step forward.   *)
StrideIsBest(capacity) ==
  LET stride  == computeStride(capacity)
      d(s)    == {(s * k) % capacity : k \in {1, capacity - 1}}
  IN  /\ {(k * stride) % capacity : k \in 0 .. capacity - 1} =
           0 .. capacity - 1
      /\ \A i \in DOMAIN smallPrimes :
           Usable(smallPrimes[i], capacity) =>
             \E x \in d(smallPrimes[i]) : \A y \in d(stride) : x =< y

=============================================================================
