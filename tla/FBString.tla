------------------------------ MODULE FBString ------------------------------
(* FBString.h: strings that are stored in place, in a block of their own, or *)
(* in a block that copies share until one of them changes.  A memory is the  *)
(* strings and the blocks; an operation of the code is a function from       *)
(* memory to memory, which reads through pointers as the code does, also     *)
(* when its argument points into the string that it changes.                 *)
EXTENDS Integers, Sequences, FiniteSets, SequencesExt, FiniteSetsExt, TLC

CONSTANTS Strings,
          MaxSmall, MaxMedium,   \* maxSmallSize, maxMediumSize
          Grain,                 \* goodMallocSize rounds up to multiples of it
          Sizes,                 \* of the strings at first
          MaxOps                 \* bound: operations

VARIABLES mem,    \* [strs, bufs]
          val,    \* what each string should hold
          ops

stringVars == <<mem, val, ops>>

(* Characters are numbers; Junk is memory that nobody has written, or freed. *)
Junk == -1
Fill(n, c) == [i \in 1 .. n |-> c]
DataOffset == 1   \* of a shared block's count

goodMallocSize(n) == ((n + Grain - 1) \div Grain) * Grain

-----------------------------------------------------------------------------
(* fbstring_core.  The last cell of a small string is the room it has left,  *)
(* and its terminator when there is none.                                    *)
IsSmall(m, s) == m.strs[s].cat = "small"
IsLarge(m, s) == m.strs[s].cat = "large"
Small(seq) == [cat |-> "small", data |-> 0, size |-> 0, cap |-> 0,
               cells |-> [i \in 1 .. MaxSmall + 1 |->
                            IF i <= Len(seq) THEN seq[i]
                            ELSE IF i = MaxSmall + 1 THEN MaxSmall - Len(seq)
                            ELSE IF i = Len(seq) + 1 THEN 0 ELSE Junk]]
Block(cat, b, size, cap) ==
  [cat |-> cat, data |-> b, size |-> size, cap |-> cap, cells |-> <<>>]

Cells(m, s) == IF IsSmall(m, s) THEN m.strs[s].cells
               ELSE m.bufs[m.strs[s].data].cells
size(m, s) == IF IsSmall(m, s) THEN MaxSmall - m.strs[s].cells[MaxSmall + 1]
              ELSE m.strs[s].size
Content(m, s) == SubSeq(Cells(m, s), 1, size(m, s))

Refs(m, s) == m.bufs[m.strs[s].data].refs
isShared(m, s) == IsLarge(m, s) /\ Refs(m, s) > 1
capacity(m, s) == IF IsSmall(m, s) THEN MaxSmall
                  ELSE IF isShared(m, s) THEN m.strs[s].size
                  ELSE m.strs[s].cap

SetStr(m, s, core) == [m EXCEPT !.strs[s] = core]
(* A new block that begins with seq, and decrementRefs or free. *)
NewBuf(m, seq, cells) ==
  [m EXCEPT !.bufs = Append(@, [refs |-> 1, cells |->
      [i \in 1 .. cells |-> IF i <= Len(seq) THEN seq[i] ELSE Junk]])]
Drop(m, b) ==
  IF b = 0 THEN m
  ELSE [m EXCEPT !.bufs[b] = IF @.refs = 1
                             THEN [refs |-> 0, cells |-> Fill(Len(@.cells),
                                                              Junk)]
                             ELSE [@ EXCEPT !.refs = @ - 1]]

(* The string moves to a new block with room for cap characters. *)
ToMedium(m, s, seq, cap) ==
  LET n == goodMallocSize(1 + cap)
      m1 == NewBuf(m, seq \o <<0>>, n)
  IN  SetStr(Drop(m1, m.strs[s].data), s,
             Block("medium", Len(m1.bufs), Len(seq), n - 1))
ToLarge(m, s, seq, cap) ==
  LET n == goodMallocSize(DataOffset + cap + 1) - DataOffset
      m1 == NewBuf(m, seq \o <<0>>, n)
  IN  SetStr(Drop(m1, m.strs[s].data), s,
             Block("large", Len(m1.bufs), Len(seq), n - 1))

(* The constructor from a range, in place of what s was. *)
Construct(m, s, seq) ==
  IF Len(seq) <= MaxSmall THEN SetStr(Drop(m, m.strs[s].data), s, Small(seq))
  ELSE IF Len(seq) <= MaxMedium THEN ToMedium(m, s, seq, Len(seq))
  ELSE ToLarge(m, s, seq, Len(seq))

(* reserveLarge: a shared block is left to the others, whatever its room *)
ReserveLarge(m, s, min) ==
  IF Refs(m, s) > 1
  THEN ToLarge(m, s, Content(m, s), Max({min, m.strs[s].cap}))
  ELSE IF min > m.strs[s].cap THEN ToLarge(m, s, Content(m, s), min)
  ELSE m

reserve(m, s, min) ==
  IF IsLarge(m, s) THEN ReserveLarge(m, s, min)
  ELSE IF min <= capacity(m, s) THEN m
  ELSE IF min <= MaxMedium THEN ToMedium(m, s, Content(m, s), min)
  ELSE ToLarge(m, s, Content(m, s), min)

mutableData(m, s) == IF isShared(m, s)
                     THEN ToLarge(m, s, Content(m, s), m.strs[s].cap) ELSE m

(* Characters are written at a place in the string's memory. *)
Put(m, s, pos, seq) ==
  LET Over(cells) == [i \in DOMAIN cells |->
                        IF i > pos /\ i <= pos + Len(seq) THEN seq[i - pos]
                        ELSE cells[i]]
  IN  IF IsSmall(m, s) THEN [m EXCEPT !.strs[s].cells = Over(@)]
      ELSE [m EXCEPT !.bufs[m.strs[s].data].cells = Over(@)]

SetSize(m, s, n) ==
  IF IsSmall(m, s)
  THEN Put(Put(m, s, MaxSmall, <<MaxSmall - n>>), s, n, <<0>>)
  ELSE Put([m EXCEPT !.strs[s].size = n], s, n, <<0>>)

(* make room, then change size; the new characters are not written yet *)
expandNoinit(m, s, delta, expGrowth) ==
  LET n == size(m, s) + delta
      cap == capacity(m, s)
      more == IF IsSmall(m, s) THEN 2 * MaxSmall ELSE 1 + (cap * 3) \div 2
      room == IF n <= cap THEN m
              ELSE reserve(m, s, IF expGrowth THEN Max({n, more}) ELSE n)
  IN  SetSize(room, s, n)

shrink(m, s, delta) ==
  IF ~isShared(m, s) THEN SetSize(m, s, size(m, s) - delta)
  ELSE IF delta = 0 THEN m
  ELSE Construct(m, s, SubSeq(Cells(m, s), 1, size(m, s) - delta))

-----------------------------------------------------------------------------
(* A pointer: into a literal, a block, or a string stored in place. *)
Literal(seq) == [in |-> "literal", at |-> 0, off |-> 0, seq |-> seq]
Data(m, s) == IF IsSmall(m, s)
              THEN [in |-> "small", at |-> s, off |-> 0, seq |-> <<>>]
              ELSE [in |-> "block", at |-> m.strs[s].data, off |-> 0,
                    seq |-> <<>>]
Plus(p, n) == [p EXCEPT !.off = @ + n]
SameMemory(p, q) == p.in = q.in /\ p.in # "literal" /\ p.at = q.at

(* n characters from p on, as the memory is now *)
Read(m, p, n) ==
  LET from == IF p.in = "literal" THEN p.seq
              ELSE IF p.in = "block" THEN m.bufs[p.at].cells
              ELSE IF IsSmall(m, p.at) THEN m.strs[p.at].cells
              ELSE Fill(MaxSmall + 1, Junk)
  IN  SubSeq(from, p.off + 1, p.off + n)

(* basic_fbstring *)
resize(m, s, n, c) ==
  IF n <= size(m, s) THEN shrink(m, s, size(m, s) - n)
  ELSE LET delta == n - size(m, s)
       IN  Put(expandNoinit(m, s, delta, FALSE), s, size(m, s), Fill(delta, c))

AppendStale(m, s, p, n) ==   \* mutant
  LET m1 == expandNoinit(m, s, n, TRUE)
  IN  Put(m1, s, size(m, s), Read(m1, p, n))

(* append: a source in the string itself moves with it *)
append(m, s, p, n) ==
  LET m1 == expandNoinit(m, s, n, TRUE)
      aliased == SameMemory(p, Data(m, s)) /\ p.off < size(m, s)
      from == IF aliased THEN Plus(Data(m1, s), p.off) ELSE p
  IN  IF n = 0 THEN m ELSE Put(m1, s, size(m, s), Read(m1, from, n))

assign(m, s, p, n) ==
  IF n = 0 THEN resize(m, s, 0, 0)
  ELSE IF size(m, s) >= n
  THEN LET m1 == mutableData(m, s)
       IN  shrink(Put(m1, s, 0, Read(m1, p, n)), s, size(m, s) - n)
  ELSE LET m1 == expandNoinit(resize(m, s, 0, 0), s, n, FALSE)
       IN  Put(m1, s, 0, Read(m1, p, n))

(* insertImpl, both kinds: what follows pos moves, then the gap is filled *)
Gap(m, s, pos, n) ==
  LET m1 == mutableData(expandNoinit(mutableData(m, s), s, n, TRUE), s)
  IN  Put(m1, s, pos + n, SubSeq(Cells(m1, s), pos + 1, size(m, s)))
insert(m, s, pos, p, n) ==
  LET m1 == Gap(m, s, pos, n) IN Put(m1, s, pos, Read(m1, p, n))
insertFill(m, s, pos, n, c) == Put(Gap(m, s, pos, n), s, pos, Fill(n, c))

erase(m, s, pos, n) ==
  LET m1 == mutableData(m, s)
      rest == SubSeq(Cells(m1, s), pos + n + 1, size(m, s))
  IN  resize(Put(m1, s, pos, rest), s, size(m, s) - n, 0)

(* replaceImpl; an aliased source makes it build a new string *)
replace(m, s, pos, n1, p, n2) ==
  LET m1 == mutableData(m, s)
      aliased == SameMemory(p, Data(m1, s)) /\ p.off <= size(m, s)
      seq == Read(m1, p, n2)
      all == Content(m1, s)
  IN  IF aliased
      THEN LET new == SubSeq(all, 1, pos) \o seq
                      \o SubSeq(all, pos + n1 + 1, Len(all))
               empty == SetStr(m1, s, Small(<<>>))
               made == Put(expandNoinit(reserve(empty, s, Len(new)), s,
                                        Len(new), TRUE), s, 0, new)
           IN  Drop(made, m1.strs[s].data)
      ELSE IF n1 > n2 THEN erase(Put(m1, s, pos, seq), s, pos + n2, n1 - n2)
      ELSE insert(Put(m1, s, pos, SubSeq(seq, 1, n1)), s, pos + n1,
                  Plus(p, n1), n2 - n1)
replaceFill(m, s, pos, n1, n2, c) ==
  LET m1 == mutableData(m, s)
  IN  IF n1 > n2 THEN erase(Put(m1, s, pos, Fill(n2, c)), s, pos + n2, n1 - n2)
      ELSE insertFill(Put(m1, s, pos, Fill(n1, c)), s, pos + n1, n2 - n1, c)

(* operator=(c) *)
assignChar(m, s, c) ==
  IF size(m, s) = 0 THEN Put(expandNoinit(m, s, 1, FALSE), s, 0, <<c>>)
  ELSE IF isShared(m, s) THEN Construct(m, s, <<c>>)
  ELSE Put(shrink(m, s, size(m, s) - 1), s, 0, <<c>>)

shrink_to_fit(m, s) ==
  IF capacity(m, s) < (size(m, s) * 3) \div 2 THEN m
  ELSE Construct(m, s, Content(m, s))

(* s becomes a copy of t, and t's memory itself when t is moved *)
Copied(m, s, t) ==
  LET core == m.strs[t] IN
  IF core.cat = "small" THEN SetStr(Drop(m, m.strs[s].data), s, core)
  ELSE IF core.cat = "medium"
  THEN ToMedium(m, s, Content(m, t), size(m, t))
  ELSE SetStr(Drop([m EXCEPT !.bufs[core.data].refs = @ + 1],
                   m.strs[s].data), s, core)
Moved(m, s, t) ==
  SetStr(SetStr(Drop(m, m.strs[s].data), s, m.strs[t]), t, Small(<<>>))
swap(m, s, t) == SetStr(SetStr(m, s, m.strs[t]), t, m.strs[s])

(* AcquireMallocatedString: the caller's block, however large it is *)
Acquired(m, s, seq, allocated) ==
  IF seq = <<>> THEN SetStr(Drop(m, m.strs[s].data), s, Small(<<>>))
  ELSE LET m1 == NewBuf(m, seq \o <<0>>, allocated)
       IN  SetStr(Drop(m1, m.strs[s].data), s,
                  Block("medium", Len(m1.bufs), Len(seq), allocated - 1))

(* operator+ with a right side that is given up *)
PlusMoved(m, l, r) ==
  IF capacity(m, r) >= size(m, l) + size(m, r)
  THEN insert(m, r, 0, Data(m, l), size(m, l))
  ELSE LET new == Content(m, l) \o Content(m, r)
           empty == SetStr(m, r, Small(<<>>))
           made == Put(expandNoinit(reserve(empty, r, Len(new)), r,
                                    Len(new), TRUE), r, 0, new)
       IN  Drop(made, m.strs[r].data)

(* getline: the line comes in as many pieces as there is room for; istream   *)
(* writes a terminator, and counts the delimiter it drops.                   *)
FirstLine == 6   \* 63 in the code
getline(m, s, line) ==
  LET Turn[i \in 0 .. Len(line) + 1] ==
        IF i = 0 THEN [m |-> resize(m, s, 0, 0), n |-> 0, over |-> FALSE]
        ELSE LET was == Turn[i - 1] IN
        IF was.over THEN was
        ELSE LET avail == capacity(was.m, s) - was.n
                 m1 == expandNoinit(was.m, s, avail, FALSE)
                 got == SubSeq(line, was.n + 1,
                               Min({was.n + avail, Len(line)}))
                 m2 == Put(m1, s, was.n, Append(got, 0))
                 n == was.n + Len(got)
             IN  IF n = Len(line)
                 THEN [m |-> resize(m2, s, n, 0), n |-> n, over |-> TRUE]
                 ELSE [m |-> reserve(m2, s, Max({FirstLine, (3 * n) \div 2})),
                       n |-> n, over |-> FALSE]
  IN  Turn[Len(line) + 1].m

-----------------------------------------------------------------------------
Word(n) == [i \in 1 .. n |-> i]
New == 9   \* the character that fills

(* Freed blocks are forgotten between operations: no pointer outlives one. *)
Live(m) ==
  LET Nth(b) == Cardinality({a \in 1 .. b : m.bufs[a].refs > 0})
  IN  [strs |-> [s \in Strings |->
                   IF IsSmall(m, s) THEN m.strs[s]
                   ELSE [m.strs[s] EXCEPT !.data = Nth(@)]],
       bufs |-> SelectSeq(m.bufs, LAMBDA b : b.refs > 0)]

(* The strings are constructed; one may be a copy of another. *)
Init ==
  /\ ops = 0
  /\ LET blank == [strs |-> [s \in Strings |-> Small(<<>>)], bufs |-> <<>>]
     IN  \E vs \in [Strings -> {Word(n) : n \in Sizes}] :
           LET made == FoldSet(LAMBDA s, m : Construct(m, s, vs[s]), blank,
                               Strings)
           IN  \/ mem = made /\ val = vs
               \/ \E s, t \in Strings : /\ s # t
                                        /\ mem = Live(Copied(made, s, t))
                                        /\ val = [vs EXCEPT ![s] = vs[t]]

Becomes(m, vals) == mem' = Live(m) /\ val' = vals @@ val /\ ops' = ops + 1

(* Part of a string, or of a literal, is the argument. *)
Arguments(s, self) ==
  {[p |-> Plus(Data(mem, t), off), v |-> SubSeq(val[t], off + 1, Len(val[t]))] :
     t \in IF self THEN Strings ELSE Strings \ {s}, off \in {0, 1}}
  \cup {[p |-> Literal(<<7, 8>>), v |-> <<7, 8>>]}

Places(s) == {0, Len(val[s]) \div 2, Len(val[s])}

Append1(s) ==
  \E a \in Arguments(s, TRUE) :
    Becomes(append(mem, s, a.p, Len(a.v)), s :> val[s] \o a.v)
AppendFill(s) ==
  \E n \in {1, 2} : Becomes(Put(expandNoinit(mem, s, n, TRUE), s,
                                size(mem, s), Fill(n, New)),
                            s :> val[s] \o Fill(n, New))
Assign(s) ==
  \E a \in Arguments(s, TRUE) :
    Becomes(assign(mem, s, a.p, Len(a.v)), s :> a.v)
AssignChar(s) == Becomes(assignChar(mem, s, New), s :> <<New>>)
Insert(s) ==
  \E a \in Arguments(s, FALSE), pos \in Places(s) :
    Becomes(insert(mem, s, pos, a.p, Len(a.v)),
            s :> SubSeq(val[s], 1, pos) \o a.v
                 \o SubSeq(val[s], pos + 1, Len(val[s])))
Replace(s) ==
  \E a \in Arguments(s, TRUE), pos \in Places(s) :
    \E n \in {k \in {0, 1, 3} : pos + k <= Len(val[s])} :
      Becomes(replace(mem, s, pos, n, a.p, Len(a.v)),
              s :> SubSeq(val[s], 1, pos) \o a.v
                   \o SubSeq(val[s], pos + n + 1, Len(val[s])))
ReplaceFill(s) ==
  \E pos \in Places(s), n2 \in {0, 1, 3} :
    \E n \in {k \in {0, 1, 3} : pos + k <= Len(val[s])} :
      Becomes(replaceFill(mem, s, pos, n, n2, New),
              s :> SubSeq(val[s], 1, pos) \o Fill(n2, New)
                   \o SubSeq(val[s], pos + n + 1, Len(val[s])))
Erase(s) ==
  \E pos \in Places(s) : \E n \in {k \in {1, 3} : pos + k <= Len(val[s])} :
    Becomes(erase(mem, s, pos, n),
            s :> SubSeq(val[s], 1, pos)
                 \o SubSeq(val[s], pos + n + 1, Len(val[s])))
Resize(s) ==
  \E n \in Sizes :
    Becomes(resize(mem, s, n, New),
            s :> [i \in 1 .. n |-> IF i <= Len(val[s]) THEN val[s][i] ELSE New])
Reserve(s) == \E n \in Sizes : Becomes(reserve(mem, s, n), << >>)
ShrinkToFit(s) == Becomes(shrink_to_fit(mem, s), << >>)
GetLine(s) ==
  \E n \in Sizes : Becomes(getline(mem, s, Word(n)), s :> Word(n))
Acquire(s) ==
  \E n \in Sizes, more \in {0, 2} :
    Becomes(Acquired(mem, s, Word(n), n + 1 + more), s :> Word(n))
OfTwo(s, t) ==
  \/ Becomes(Copied(mem, s, t), s :> val[t])
  \/ Becomes(Moved(mem, s, t), s :> val[t] @@ t :> <<>>)
  \/ Becomes(swap(mem, s, t), s :> val[t] @@ t :> val[s])
  \/ Becomes(PlusMoved(mem, t, s), s :> val[t] \o val[s])

Next ==
  /\ ops < MaxOps
  /\ \E s \in Strings :
       \/ Append1(s) \/ AppendFill(s) \/ Assign(s) \/ AssignChar(s)
       \/ Insert(s) \/ Replace(s) \/ ReplaceFill(s) \/ Erase(s)
       \/ Resize(s) \/ Reserve(s) \/ ShrinkToFit(s)
       \/ GetLine(s) \/ Acquire(s)
       \/ \E t \in Strings \ {s} : OfTwo(s, t)

Spec == Init /\ [][Next]_stringVars

(* Whatever was done to it and to the strings that share its block, a string *)
(* holds its characters and a terminator, within its capacity; and a block   *)
(* counts exactly the strings that hold it, only one unless it is large.     *)
StringsRight ==
  /\ \A s \in Strings :
       /\ Content(mem, s) = val[s]
       /\ Cells(mem, s)[Len(val[s]) + 1] = 0
       /\ capacity(mem, s) \in Len(val[s]) .. Len(Cells(mem, s)) - 1
  /\ \A b \in DOMAIN mem.bufs :
       LET holders == {s \in Strings : mem.strs[s].data = b}
       IN  /\ mem.bufs[b].refs = Cardinality(holders)
           /\ \A s \in holders : IsLarge(mem, s) \/ holders = {s}
=============================================================================
