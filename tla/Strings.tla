------------------------------ MODULE Strings -------------------------------
(***************************************************************************)
(* Text as a sequence of character codes: Range.h, String.h, and the parts *)
(* of gen/ that split and join text and read and write files.              *)
(***************************************************************************)
EXTENDS Integers, FiniteSets, SequencesExt, Bitwise

-----------------------------------------------------------------------------
(***************************************************************************)
(* The searches and the cutting of Range.h and Range.cpp.  A range is the  *)
(* sequence of its characters; positions count from 0 as in the code, and  *)
(* npos is -1.                                                             *)
(***************************************************************************)

npos == -1

First(s, n) == SubSeq(s, 1, n)
Drop(s, n)  == SubSeq(s, n + 1, Len(s))
At(s, i)    == s[i + 1]

Least(S) == IF S = {} THEN npos ELSE CHOOSE i \in S : \A j \in S : i =< j

(* advance, subtract and subpiece; a position past the end throws.         *)
OutOfRange == <<"out_of_range">>
Advance(s, n)  == IF n > Len(s) THEN OutOfRange ELSE Drop(s, n)
Subtract(s, n) == IF n > Len(s) THEN OutOfRange ELSE First(s, Len(s) - n)
Subpiece(s, first, length) ==
  IF first > Len(s) THEN OutOfRange
  ELSE SubSeq(s, first + 1,
              first + IF length < Len(s) - first THEN length ELSE Len(s) - first)

(* A range of a string, from startFrom on, of at most "size" characters.   *)
FromString(s, startFrom, size) ==
  IF startFrom > Len(s) THEN OutOfRange
  ELSE IF Len(s) - startFrom < size THEN Drop(s, startFrom)
  ELSE SubSeq(s, startFrom + 1, startFrom + size)

(* compare: the sign of the first difference, else of the lengths.         *)
Compare(s, t) ==
  LET m == IF Len(s) < Len(t) THEN Len(s) ELSE Len(t)
      i == Least({j \in 0 .. m - 1 : At(s, j) # At(t, j)})
  IN  IF i # npos THEN IF At(s, i) < At(t, i) THEN -1 ELSE 1
      ELSE IF Len(s) = Len(t) THEN 0
      ELSE IF Len(t) < Len(s) THEN 1 ELSE -1

-----------------------------------------------------------------------------
(* qfind: a needle, by its last character first.                           *)

(* How far a mismatch lets the search move: to the last character of the   *)
(* needle where the needle has it before its end.                          *)
Skip(needle) ==
  LET n1 == Len(needle) - 1
      again == {k \in 1 .. n1 : At(needle, n1 - k) = At(needle, n1)}
  IN  IF again = {} THEN n1 + 1 ELSE Least(again)

RECURSIVE SearchFrom(_, _, _)
SearchFrom(s, needle, i) ==
  LET n1 == Len(needle) - 1 IN
  IF i >= Len(s) - n1 THEN npos
  ELSE IF At(s, i + n1) # At(needle, n1) THEN SearchFrom(s, needle, i + 1)
  ELSE IF \A j \in 0 .. n1 : At(s, i + j) = At(needle, j) THEN i
  ELSE SearchFrom(s, needle, i + Skip(needle))

Qfind(s, needle) ==
  IF Len(s) < Len(needle) THEN npos
  ELSE IF needle = <<>> THEN 0
  ELSE SearchFrom(s, needle, 0)

(* find(str, pos).                                                         *)
FindFrom(s, needle, pos) ==
  IF pos > Len(s) THEN npos
  ELSE LET ret == Qfind(Drop(s, pos), needle)
       IN  IF ret = npos THEN npos ELSE ret + pos

(* rfind: from the end.  The skip is computed at the first mismatch, from  *)
(* the text there, and kept.                                               *)
RECURSIVE SearchBack(_, _, _, _)
SearchBack(s, needle, i, skip) ==
  LET n1 == Len(needle) - 1
      again == {k \in 1 .. n1 : At(s, i + n1 - k) = At(needle, n1)}
      first == IF again = {} THEN n1 + 1 ELSE Least(again)
      far == IF skip = 0 THEN first ELSE skip
  IN
  IF i < 0 THEN npos
  ELSE IF At(s, i + n1) # At(needle, n1)
    THEN SearchBack(s, needle, i - 1, skip)
  ELSE IF \A j \in 0 .. n1 : At(s, i + j) = At(needle, j) THEN i
  ELSE SearchBack(s, needle, i - far, far)

Rfind(s, needle) ==
  IF Len(s) < Len(needle) THEN npos
  ELSE IF needle = <<>> THEN 0
  ELSE SearchBack(s, needle, Len(s) - Len(needle), 0)

(* A single character: memchr and memrchr.                                 *)
QfindChar(s, c) == Least({i \in 0 .. Len(s) - 1 : At(s, i) = c})
RfindChar(s, c) ==
  LET at == {i \in 0 .. Len(s) - 1 : At(s, i) = c}
  IN  IF at = {} THEN npos ELSE CHOOSE i \in at : \A j \in at : j =< i

-----------------------------------------------------------------------------
(* qfind_first_of.  A FastByteSet does not initialise its arrays: they     *)
(* hold whatever the memory did, "trash".                                  *)

NewByteSet(trash) ==
  [size |-> 0, sparse |-> trash.sparse, dense |-> trash.dense]

ByteSetContainsStale(b, i) ==   \* mutant
  b.sparse[i] \in DOMAIN b.dense /\ b.dense[b.sparse[i]] = i

ByteSetContains(b, i) ==
  b.sparse[i] < b.size /\ b.dense[b.sparse[i]] = i

ByteSetAdd(b, i) ==
  IF ByteSetContains(b, i) THEN b
  ELSE [size |-> b.size + 1,
        sparse |-> [b.sparse EXCEPT ![i] = b.size],
        dense |-> [b.dense EXCEPT ![b.size] = i]]

RECURSIVE ByteSetOf(_, _)
ByteSetOf(b, needles) ==
  IF needles = <<>> THEN b
  ELSE ByteSetOf(ByteSetAdd(b, Head(needles)), Tail(needles))

FirstByteOfByteset(s, needles, trash) ==
  LET b == ByteSetOf(NewByteSet(trash), needles)
  IN  Least({i \in 0 .. Len(s) - 1 : ByteSetContains(b, At(s, i))})

FirstOf(s, needles) ==
  Least({i \in 0 .. Len(s) - 1 : \E n \in DOMAIN needles : needles[n] = At(s, i)})

(* find_first_of(needles, pos).                                            *)
FindFirstOfFrom(s, needles, pos) ==
  IF pos > Len(s) THEN npos
  ELSE LET ret == FirstOf(Drop(s, pos), needles)
       IN  IF ret = npos THEN npos ELSE ret + pos

(* Many needles and a short text go through the set of bytes; "many" is 4. *)
FirstByteOf(s, needles, trash, many) ==
  IF needles = <<>> \/ s = <<>> THEN npos
  ELSE IF Len(needles) >= many THEN FirstByteOfByteset(s, needles, trash)
  ELSE FirstOf(s, needles)

-----------------------------------------------------------------------------
(* Prefixes and suffixes, and what is left without them.                   *)
StartsWith(s, p) == Len(s) >= Len(p) /\ Subpiece(s, 0, Len(p)) = p
EndsWith(s, p) == Len(s) >= Len(p) /\ Subpiece(s, Len(s) - Len(p), Len(s)) = p
RemovePrefix(s, p) == IF StartsWith(s, p) THEN Drop(s, Len(p)) ELSE s
RemoveSuffix(s, p) == IF EndsWith(s, p) THEN First(s, Len(s) - Len(p)) ELSE s

(* replaceAt and replaceAll, in place: the replacement has the length of   *)
(* what it replaces.  The next search starts one length after the start of *)
(* the last search, not after what was found.                              *)
ReplaceAtPos(s, pos, r) ==
  IF Len(s) < pos + Len(r) THEN s
  ELSE [i \in 1 .. Len(s) |->
          IF i - 1 \in pos .. pos + Len(r) - 1 THEN r[i - pos] ELSE s[i]]

RECURSIVE ReplaceFrom(_, _, _, _, _)
ReplaceFrom(s, source, dest, pos, count) ==
  LET found == FindFrom(s, source, pos) IN
  IF found = npos THEN [s |-> s, count |-> count]
  ELSE ReplaceFrom(ReplaceAtPos(s, found, dest), source, dest,
                   pos + Len(source), count + 1)

ReplaceAllIn(s, source, dest) ==
  IF dest = <<>> THEN [s |-> s, count |-> 0]
                 ELSE ReplaceFrom(s, source, dest, 0, 0)

(* split_step: the front up to the delimiter, and what follows it.         *)
SplitStepChar(s, c) ==
  LET i == QfindChar(s, c)
  IN  IF i = npos THEN [piece |-> s, rest |-> <<>>]
                  ELSE [piece |-> First(s, i), rest |-> Drop(s, i + 1)]

SplitStep(s, d) ==
  LET i == Qfind(s, d)
      piece == IF i = npos THEN s ELSE First(s, i)
  IN  [piece |-> piece,
       rest |-> IF Len(piece) = Len(s) THEN <<>>
                                       ELSE Drop(s, Len(piece) + Len(d))]

-----------------------------------------------------------------------------
(* What the searches are to find.                                          *)
Occurs(s, needle) ==
  {i \in 0 .. Len(s) - Len(needle) : SubSeq(s, i + 1, i + Len(needle)) = needle}

(* Every search finds the first place, whatever the memory of the byte set *)
(* held; comparing and cutting agree with each other.  rfind finds the     *)
(* last place of a character, and some place, if any, of a longer needle:  *)
(* the skip it keeps may pass over one.  replaceAll by new characters      *)
(* leaves no place and says how many there were.                           *)
SearchesRight(s, needle, trash) ==
  /\ Qfind(s, needle) = Least(Occurs(s, needle))
  /\ \A pos \in 0 .. Len(s) + 1 :
       FindFrom(s, needle, pos) =
         Least({i \in Occurs(s, needle) : i >= pos})
  /\ \A pos \in 0 .. Len(s) + 1 :
       FindFirstOfFrom(s, needle, pos) =
         Least({i \in pos .. Len(s) - 1 :
                  \E n \in DOMAIN needle : At(s, i) = needle[n]})
  /\ \A pos, n \in 0 .. Len(s) + 1 :
       FromString(s, pos, n) = Subpiece(s, pos, n)
  /\ \A n \in 0 .. Len(s) :
       Advance(s, n) = Subpiece(s, n, Len(s)) /\ Subtract(s, n) \o
         Advance(s, Len(s) - n) = s
  /\ FirstByteOf(s, needle, trash, 2) = FirstOf(s, needle)
  /\ Compare(s, needle) = 0 - Compare(needle, s)
  /\ (Compare(s, needle) = 0) = (s = needle)
  /\ EndsWith(s, needle) => RemoveSuffix(s, needle) \o needle = s
  /\ StartsWith(s, needle) => needle \o RemovePrefix(s, needle) = s
  /\ needle # <<>> /\ Occurs(s, needle) # {} =>
       LET r == SplitStep(s, needle) IN r.piece \o needle \o r.rest = s
  /\ needle # <<>> =>
       /\ SplitStepChar(s, needle[1]) = SplitStep(s, First(needle, 1))
       /\ LET r == ReplaceAllIn(s, needle, [i \in DOMAIN needle |-> 2])
          IN  /\ Occurs(r.s, needle) = {}
              /\ \A i \in DOMAIN s : r.s[i] \in {s[i], 2}
              /\ r.count * Len(needle) =
                   Cardinality({i \in DOMAIN s : r.s[i] = 2})
       /\ RfindChar(s, needle[1]) = Rfind(s, First(needle, 1))
       /\ Rfind(s, needle) \in Occurs(s, needle) \cup {npos}

-----------------------------------------------------------------------------
(***************************************************************************)
(* String.h: splitting, joining, hexadecimal and URI escapes, whitespace   *)
(* and lower case.  A string is a sequence of character codes.             *)
(***************************************************************************)

Failed == <<"failed">>

-----------------------------------------------------------------------------
(* Hexadecimal.                                                            *)
HexDigit(v) == IF v < 10 THEN 48 + v ELSE 87 + v
HexValue(c) ==
  IF c \in 48 .. 57 THEN c - 48
  ELSE IF c \in 65 .. 70 THEN c - 55
  ELSE IF c \in 97 .. 102 THEN c - 87 ELSE 16

Hexlify(s, output) ==
  output \o FlattenSeq([i \in DOMAIN s |->
                          <<HexDigit(s[i] \div 16), HexDigit(s[i] % 16)>>])

Unhexlify(s) ==
  IF Len(s) % 2 # 0 \/ \E i \in DOMAIN s : HexValue(s[i]) = 16
    THEN Failed
    ELSE [i \in 1 .. Len(s) \div 2 |->
            16 * HexValue(s[2 * i - 1]) + HexValue(s[2 * i])]

-----------------------------------------------------------------------------
(* split: the tokens between delimiters of dSize characters.  "i" is where *)
(* the loop is, "start" where the token began, "size" its length so far.   *)
RECURSIVE SplitLoop(_, _, _, _, _, _)
SplitLoop(s, d, ignoreEmpty, i, t, out) ==
  LET put(size) == IF ~ignoreEmpty \/ size > 0
                     THEN Append(out, SubSeq(s, t.start + 1, t.start + size))
                     ELSE out
      next == i + Len(d)
  IN
  IF i > Len(s) - Len(d) THEN put(Len(s) - t.start)
  ELSE IF SubSeq(s, i + 1, i + Len(d)) = d
    THEN SplitLoop(s, d, ignoreEmpty, next, [start |-> next, size |-> 0],
                   put(t.size))
    ELSE SplitLoop(s, d, ignoreEmpty, i + 1, [t EXCEPT !.size = @ + 1], out)

InternalSplit(d, s, ignoreEmpty) ==
  IF Len(d) > Len(s) \/ d = <<>>
    THEN IF ~ignoreEmpty \/ s # <<>> THEN <<s>> ELSE <<>>
    ELSE SplitLoop(s, d, ignoreEmpty, 0, [start |-> 0, size |-> 0], <<>>)

(* splitAny: any of the characters of ds is a delimiter.                   *)
InternalSplitAny(ds, s, ignoreEmpty) ==
  LET ends == SelectSeq([i \in 1 .. Len(s) + 1 |-> i],
                LAMBDA i : i > Len(s) \/ \E n \in DOMAIN ds : ds[n] = s[i])
      begin(i) == IF i = 1 THEN 1 ELSE ends[i - 1] + 1
      tokens == [i \in DOMAIN ends |-> SubSeq(s, begin(i), ends[i] - 1)]
      kept == SelectSeq(tokens, LAMBDA t : ~ignoreEmpty \/ t # <<>>)
  IN  IF s = <<>> \/ ds = <<>>
        THEN IF ~ignoreEmpty \/ s # <<>> THEN <<s>> ELSE <<>>
        ELSE kept

(* split into exactly n fields, or n with the rest in the last.            *)
RECURSIVE SplitFixed(_, _, _, _)
SplitFixed(d, s, n, exact) ==
  LET cut == Qfind(s, d)
      tail == SplitFixed(d, Drop(s, cut + Len(d)), n - 1, exact)
  IN  IF n = 1 THEN IF exact /\ cut # npos THEN Failed ELSE <<s>>
      ELSE IF cut = npos \/ tail = Failed THEN Failed
      ELSE <<First(s, cut)>> \o tail

-----------------------------------------------------------------------------
(* join: tokens with delimiters between them.                              *)
InternalJoinAppend(d, tokens) ==
  Head(tokens) \o FlattenSeq([i \in 1 .. Len(tokens) - 1 |-> d \o tokens[i + 1]])

InternalJoin(d, tokens) ==
  IF tokens = <<>> THEN <<>> ELSE InternalJoinAppend(d, tokens)

ToAppendPair(d, pair) == pair[1] \o d \o pair[2]

InternalMapJoin(d, pd, pairs) ==
  IF pairs = <<>> THEN <<>>
  ELSE InternalJoinAppend(d, [i \in DOMAIN pairs |-> ToAppendPair(pd, pairs[i])])

-----------------------------------------------------------------------------
(* URI escapes.  EscapeClass is the table generate_escape_tables.py        *)
(* writes: 0 stays, 2 stays in a path, 3 is a space, 4 is escaped.         *)
Percent == 37
Plus    == 43
Space   == 32
Slash   == 47
Unreserved == (48 .. 57) \cup (65 .. 90) \cup (97 .. 122)
                \cup {45, 95, 46, 126}
EscapeClass(c) ==
  IF c \in Unreserved THEN 0
  ELSE IF c = Slash THEN 2
  ELSE IF c = Space THEN 3 ELSE 4

ALL   == 0
QUERY == 1
PATH  == 2

UriEscape(s, mode) ==
  FlattenSeq([i \in DOMAIN s |->
    IF EscapeClass(s[i]) =< mode THEN <<s[i]>>
    ELSE IF mode = QUERY /\ EscapeClass(s[i]) = 3 THEN <<Plus>>
    ELSE <<Percent>> \o Hexlify(<<s[i]>>, <<>>)])

RECURSIVE UriUnescape(_, _, _)
UriUnescape(s, mode, out) ==
  IF s = <<>> THEN out
  ELSE IF s[1] = Percent
    THEN IF Len(s) < 3 \/ HexValue(s[2]) = 16 \/ HexValue(s[3]) = 16
           THEN Failed
           ELSE UriUnescape(Drop(s, 3), mode,
                            out \o Unhexlify(SubSeq(s, 2, 3)))
  ELSE UriUnescape(Tail(s), mode,
         Append(out, IF s[1] = Plus /\ mode = QUERY THEN Space ELSE s[1]))

-----------------------------------------------------------------------------
(* Whitespace: blanks, then one other space, and again.                    *)
OddSpace == {9, 10, 13}

RECURSIVE LtrimWhitespace(_)
LtrimWhitespace(s) ==
  LET word == {i \in DOMAIN s : s[i] # Space}
      b == IF word = {} THEN <<>>
           ELSE Drop(s, (CHOOSE i \in word : \A j \in word : i =< j) - 1)
  IN  IF b # <<>> /\ b[1] \in OddSpace THEN LtrimWhitespace(Tail(b)) ELSE b

RtrimWhitespace(s) == Reverse(LtrimWhitespace(Reverse(s)))

TrimWhitespace(s) == LtrimWhitespace(RtrimWhitespace(s))

-----------------------------------------------------------------------------
(* toLowerAscii.  A character without branches:                            *)
ToLowerAscii8(c) ==
  LET r1 == (((c % 128) + 37) % 128) + 26
      r2 == ((r1 & (255 - c)) \div 4) & 32
  IN  (c + r2) % 256

(* The same on a word of n characters at once.                             *)
RECURSIVE Word(_)
Word(cs) == IF cs = <<>> THEN 0 ELSE Head(cs) + 256 * Word(Tail(cs))

Bytes(w, n) == [i \in 1 .. n |-> (w \div 256^(i - 1)) % 256]

ToLowerAsciiWord(cs) ==
  LET n == Len(cs)
      all(b) == Word([i \in 1 .. n |-> b])
      c == Word(cs)
      r1 == (((c & all(127)) + all(37)) & all(127)) + all(26)
      r2 == ((r1 & (all(255) - c)) \div 4) & all(32)
  IN  Bytes((c + r2) % 256^n, n)

(* The string at an address: single characters up to a half word, a half   *)
(* word up to a word, whole words, and what is left.  A word of more than  *)
(* two characters is its characters: TLC's numbers are too small for it.   *)
RECURSIVE ToLowerFrom(_, _, _)
ToLowerFrom(s, address, offset) ==
  LET left == Len(s) - offset
      at == address + offset
      part(n) == [i \in 1 .. n |-> ToLowerAscii8(s[offset + i])]
      go(n) == part(n) \o ToLowerFrom(s, address, offset + n)
  IN  IF left = 0 THEN <<>>
      ELSE IF at % 4 # 0 \/ left < 4 THEN go(1)
      ELSE IF at % 8 # 0 \/ left < 8 THEN go(4) ELSE go(8)

ToLowerAscii(s, address) == ToLowerFrom(s, address, 0)

(* Two letters that differ in bit 5 only are equal but for their case.     *)
AsciiCaseInsensitive(a, b) ==
  \/ a = b
  \/ (a ^^ b) = 32 /\ (a | b) \in 97 .. 122

CaseInsensitiveEqual(s, t) ==
  Len(s) = Len(t) /\ \A i \in DOMAIN s : AsciiCaseInsensitive(s[i], t[i])

-----------------------------------------------------------------------------
Lower(c) == IF c \in 65 .. 90 THEN c + 32 ELSE c

(* Joining undoes splitting; no token holds a delimiter, and ignoring      *)
(* empty tokens only drops those; a fixed number of fields are the same    *)
(* tokens.                                                                 *)
SplitRight(s, d) ==
  LET all == InternalSplit(d, s, FALSE)
      full == InternalSplit(d, s, TRUE)
      any == InternalSplitAny(d, s, FALSE)
      all2 == [i \in DOMAIN all |-> <<all[i], all[i]>>]
  IN  /\ InternalJoin(d, all) = s
      /\ d # <<>> => \A i \in DOMAIN all : Qfind(all[i], d) = npos
      /\ full = SelectSeq(all, LAMBDA t : t # <<>>)
      /\ Len(d) = 1 => any = all
      /\ InternalSplitAny(d, s, TRUE) = SelectSeq(any, LAMBDA t : t # <<>>)
      /\ InternalJoin(<<99>>, any) =
           [i \in DOMAIN s |->
              IF \E n \in DOMAIN d : d[n] = s[i] THEN 99 ELSE s[i]]
      /\ d # <<>> =>
           InternalSplit(d, InternalMapJoin(d, <<98>>, all2), FALSE) =
             [i \in DOMAIN all |-> all[i] \o <<98>> \o all[i]]
      /\ d # <<>> => \A n \in 1 .. 3 :
           /\ SplitFixed(d, s, n, TRUE) = IF Len(all) = n THEN all ELSE Failed
           /\ LET some == SplitFixed(d, s, n, FALSE)
              IN  IF Len(all) < n THEN some = Failed
                  ELSE Len(some) = n /\ InternalJoin(d, some) = s

(* An escaped string holds only what its mode allows and unescapes to the  *)
(* original; hexadecimal digits read back.                                 *)
EscapesRight(s) ==
  /\ Unhexlify(Hexlify(s, <<>>)) = s
  /\ \A mode \in {ALL, QUERY, PATH} :
       LET e == UriEscape(s, mode)
       IN  /\ UriUnescape(e, mode, <<>>) = s
           /\ \A i \in DOMAIN e :
                \/ e[i] \in Unreserved \cup {Percent}
                \/ e[i] = Plus /\ mode = QUERY
                \/ e[i] = Slash /\ mode = PATH

(* Trimming leaves the string between its first and last character that is *)
(* no space; lower case is the lower case of each character, however the   *)
(* string lies in memory.                                                  *)
CharsRight(s, address) ==
  /\ LET t == TrimWhitespace(s)
         inner == {i \in DOMAIN s : s[i] \notin OddSpace \cup {Space}}
         lo == CHOOSE i \in inner : \A j \in inner : i =< j
         hi == CHOOSE i \in inner : \A j \in inner : j =< i
     IN  t = IF inner = {} THEN <<>> ELSE SubSeq(s, lo, hi)
  /\ ToLowerAscii(s, address) = [i \in DOMAIN s |-> Lower(s[i])]
  /\ LET t == Reverse(s)
     IN  CaseInsensitiveEqual(s, t) =
           (ToLowerAscii(s, address) = ToLowerAscii(t, address))
  /\ Len(s) =< 2 => ToLowerAsciiWord(s) = [i \in DOMAIN s |-> Lower(s[i])]

-----------------------------------------------------------------------------
(***************************************************************************)
(* Splitting strings and streams (gen/String-inl.h) and the file source    *)
(* and sink (gen/File-inl.h).  A string is a sequence of characters; a     *)
(* callback that says stop after its k-th piece (never, for 0) is the list *)
(* "out" of the pieces it was given, and "ok" while it wants more.         *)
(***************************************************************************)

CR == 13
LF == 10
NoChar == -1

(* The front of "in" up to and with the delimiter, and what follows.       *)
Prefix(in, n, delim) ==
  [in |-> Drop(in, n), prefix |-> First(in, n), delim |-> delim]
NoPrefix(in) == [in |-> in, prefix |-> <<>>, delim |-> 0]

SplitPrefixChar(in, c) ==
  LET found == QfindChar(in, c)
  IN  IF found = npos THEN NoPrefix(in) ELSE Prefix(in, found + 1, 1)

SplitPrefixPiece(in, d) ==
  LET found == Qfind(in, d)
  IN  IF found = npos THEN NoPrefix(in)
                      ELSE Prefix(in, found + Len(d), Len(d))

SplitPrefixNewlines(in) ==
  LET p == FirstOf(in, <<CR, LF>>)
  IN  IF p = npos THEN NoPrefix(in)
      ELSE IF StartsWith(Drop(in, p), <<CR, LF>>) THEN Prefix(in, p + 2, 2)
      ELSE Prefix(in, p + 1, 1)

(* The kinds of delimiter.                                                 *)
SplitPrefix(in, d) ==
  CASE d.kind = "char"     -> SplitPrefixChar(in, d.c)
    [] d.kind = "piece"    -> SplitPrefixPiece(in, d.d)
    [] d.kind = "newlines" -> SplitPrefixNewlines(in)

-----------------------------------------------------------------------------
(* split and lines.                                                        *)

(* The callback gets a piece.  That of resplit drops the delimiter at the  *)
(* piece's end and does not pass on an empty piece.                        *)
Give(cb, piece) ==
  LET bare == IF piece # <<>> /\ piece[Len(piece)] = cb.strip
                THEN First(piece, Len(piece) - 1) ELSE piece
  IN  IF cb.strip # NoChar /\ piece = <<>> THEN cb
      ELSE [cb EXCEPT !.out = Append(@, bare), !.ok = Len(cb.out) + 1 # cb.k]
NewCallback(k) == [out |-> <<>>, ok |-> TRUE, k |-> k, strip |-> NoChar]

RECURSIVE SplitRest(_, _, _)
SplitRest(rest, d, cb) ==
  LET r == SplitPrefix(rest, d)
      given == Give(cb, First(r.prefix, Len(r.prefix) - r.delim))
  IN  IF r.delim = 0
        THEN IF rest = <<>> THEN cb ELSE Give(cb, rest)
        ELSE IF given.ok THEN SplitRest(r.in, d, given) ELSE given

SplitStringSource(s, d, k) == SplitRest(s, d, NewCallback(k))

-----------------------------------------------------------------------------
(* StreamSplitter: pieces of at most maxLength, cut after delimiters, from *)
(* a stream that arrives in chunks.  The state is the callback and buf.    *)

RECURSIVE FixedSizeChunks(_, _, _)
FixedSizeChunks(cb, s, maxLength) ==
  IF s = <<>> \/ ~cb.ok THEN cb
  ELSE LET n == IF maxLength > 0 /\ maxLength < Len(s) THEN maxLength
                                                        ELSE Len(s)
       IN  FixedSizeChunks(Give(cb, First(s, n)), Drop(s, n), maxLength)

(* All of the buffer and n characters of s; the buffer stays with a        *)
(* callback that says stop.                                                *)
BufferPlus(cb, buf, s, n) ==
  LET all == buf \o First(s, n)
      given == Give(cb, all)
  IN  [cb |-> given, buf |-> IF given.ok THEN <<>> ELSE all]

(* The buffered line, if the chunk ends it or is long enough.  What is     *)
(* left to do: the next search's result, and the buffer.                   *)
Buffered(cb, buf, in, c, maxLength) ==
  LET r == SplitPrefixChar(in, c)
      room == maxLength - Len(buf)
      n == IF maxLength > 0 /\ room < Len(r.prefix) THEN room
                                                    ELSE Len(r.prefix)
      kept == [cb |-> cb, buf |-> buf, r |-> r]
  IN
  CASE buf = <<>> -> kept
    [] buf # <<>> /\ r.delim > 0 ->
         LET one == BufferPlus(cb, buf, r.prefix, n)
             all == FixedSizeChunks(one.cb, Drop(r.prefix, n), maxLength)
         IN  [cb |-> all, buf |-> one.buf, r |-> SplitPrefixChar(r.in, c)]
    [] buf # <<>> /\ r.delim = 0 /\ maxLength > 0
         /\ Len(buf) + Len(in) >= maxLength ->
         LET one == BufferPlus(cb, buf, in, room)
         IN  [cb |-> one.cb, buf |-> one.buf,
              r |-> NoPrefix(Drop(in, room))]
    [] OTHER -> kept

(* Lines straight from the input, then the rest in full pieces.            *)
RECURSIVE Direct(_, _, _, _)
Direct(cb, r, c, maxLength) ==
  IF ~cb.ok THEN [cb |-> cb, in |-> r.in]
  ELSE IF r.delim > 0
    THEN Direct(FixedSizeChunks(cb, r.prefix, maxLength),
                SplitPrefixChar(r.in, c), c, maxLength)
  ELSE IF maxLength > 0 /\ Len(r.in) >= maxLength
    THEN Direct(Give(cb, First(r.in, maxLength)),
                NoPrefix(Drop(r.in, maxLength)), c, maxLength)
  ELSE [cb |-> cb, in |-> r.in]

(* operator()(in).                                                         *)
StreamSplitter(s, in, c, maxLength) ==
  LET b == Buffered(s.cb, s.buf, in, c, maxLength)
      e == Direct(b.cb, b.r, c, maxLength)
  IN  [cb |-> e.cb, buf |-> IF e.cb.ok THEN b.buf \o e.in ELSE b.buf]

Flush(s) ==
  LET cb == Give(s.cb, s.buf)
  IN  [cb |-> cb, buf |-> IF cb.ok THEN <<>> ELSE s.buf]

(* A stream of chunks, then flush().                                       *)
RECURSIVE Stream(_, _, _, _)
Stream(s, chunks, c, maxLength) ==
  IF ~s.cb.ok THEN s
  ELSE IF chunks = <<>> THEN Flush(s)
  ELSE Stream(StreamSplitter(s, Head(chunks), c, maxLength), Tail(chunks), c,
              maxLength)

(* resplit: the pieces of an unlimited splitter, without delimiters.       *)
StringResplitter(chunks, c, k) ==
  LET cb == [NewCallback(k) EXCEPT !.strip = c]
  IN  Stream([cb |-> cb, buf |-> <<>>], chunks, c, 0).cb.out

-----------------------------------------------------------------------------
(* unsplit: tokens joined by a delimiter, behind what the buffer holds.    *)
UnsplitBuffer(tokens, d, buffer) ==
  LET add(b, t) ==
        [skip |-> FALSE, out |-> b.out \o (IF b.skip THEN <<>> ELSE d) \o t]
  IN  FoldLeft(add, [skip |-> buffer = <<>>, out |-> buffer], tokens).out

Unsplit(tokens, d) == UnsplitBuffer(tokens, d, <<>>)

(* eachToTuple: exactly n fields.                                          *)
SplitTo(line, d, n) == SplitFixed(d, line, n, TRUE)

-----------------------------------------------------------------------------
(* Files.  A read returns what the kernel has, at most a buffer full:      *)
(* reads[i] is the size of the i-th; -1 is an interrupted read.            *)
RECURSIVE FileReader(_, _, _)
FileReader(content, reads, capacity) ==
  IF content = <<>> THEN <<>>
  ELSE IF Head(reads) = -1 THEN FileReader(content, Tail(reads), capacity)
  ELSE LET most == IF capacity < Len(content) THEN capacity ELSE Len(content)
           n == IF Head(reads) < most THEN Head(reads) ELSE most
       IN  <<First(content, n)>>
             \o FileReader(Drop(content, n), Tail(reads), capacity)

(* byLine.                                                                 *)
ByLine(content, reads, capacity, delim) ==
  StringResplitter(FileReader(content, reads, capacity), delim, 0)

(* write(2) takes what it wants: the loop writes the rest.                 *)
RECURSIVE Write(_, _, _)
Write(file, v, n) ==
  IF v = <<>> THEN file
  ELSE LET m == IF n < Len(v) THEN n ELSE Len(v)
       IN  Write(file \o First(v, m), Drop(v, m), n)

FlushBuffer(w) ==
  IF w.buf = <<>> THEN w
  ELSE [w EXCEPT !.file = Write(@, w.buf, w.takes), !.buf = <<>>]

(* One value of the source; capacity 0: without a buffer.                  *)
WriteValue(w, v) ==
  LET f == FlushBuffer(w)
      b == IF Len(v) > w.capacity - Len(w.buf) THEN f ELSE w
  IN  IF Len(v) >= w.capacity
        THEN [f EXCEPT !.file = Write(@, v, w.takes)]
        ELSE [b EXCEPT !.buf = @ \o v]

FileWriter(values, capacity, takes) ==
  LET w == [buf |-> <<>>, file |-> <<>>, capacity |-> capacity,
            takes |-> takes]
  IN  FlushBuffer(FoldLeft(WriteValue, w, values)).file
-----------------------------------------------------------------------------
(* A chunked stream is split as the whole string is, and into pieces that  *)
(* are whole lines or as long as allowed: together they are the stream.    *)
StreamRight(chunks, c, maxLength, k) ==
  LET s == FlattenSeq(chunks)
      new(m) == [cb |-> NewCallback(m), buf |-> <<>>]
      out == Stream(new(0), chunks, c, maxLength).cb.out
      ended(p) == p # <<>> /\ p[Len(p)] = c
      some == Stream(new(k), chunks, c, maxLength).cb.out
  IN  /\ FlattenSeq(out) = s
      /\ \A i \in DOMAIN out :
           /\ maxLength > 0 => Len(out[i]) =< maxLength
           /\ \A j \in 1 .. Len(out[i]) - 1 : out[i][j] # c
           /\ i < Len(out) => ended(out[i]) \/ Len(out[i]) = maxLength
      /\ some = IF k \in 1 .. Len(out) THEN First(out, k) ELSE out
      /\ LET lines == SplitStringSource(s, [kind |-> "char", c |-> c], 0).out
         IN  StringResplitter(chunks, c, k) =
               IF k \in 1 .. Len(lines) THEN First(lines, k) ELSE lines

(* Splitting undoes unsplitting, up to a delimiter at the end; a piece as  *)
(* delimiter, a character and the three newlines agree where they mean the *)
(* same.                                                                   *)
PiecesRight(s, d) ==
  LET piece == SplitStringSource(s, [kind |-> "piece", d |-> d], 0).out
      lines == SplitStringSource(s, [kind |-> "newlines"], 0).out
      unix == SelectSeq(s, LAMBDA c : c # CR)
  IN  d # <<>> =>
      /\ Unsplit(piece, d) \in {s, RemoveSuffix(s, d)}
      /\ Len(d) = 1 =>
           piece = SplitStringSource(s, [kind |-> "char", c |-> d[1]], 0).out
      /\ (\A i \in DOMAIN s : s[i] = CR => StartsWith(Drop(s, i), <<LF>>)) =>
           lines = SplitStringSource(unix, [kind |-> "char", c |-> LF], 0).out
      /\ LET both == SplitTo(s, d, 2)
         IN  both # Failed => Unsplit(both, d) = s
      /\ piece # <<>> /\ piece[1] # <<>> =>
           UnsplitBuffer(Tail(piece), d, piece[1]) = Unsplit(piece, d)

(* A file is read to its end whatever sizes the reads have, its lines are  *)
(* those of the whole text, and what is written through a buffer is what   *)
(* the source produced.                                                    *)
FilesRight(chunks, reads, capacity, takes) ==
  LET s == FlattenSeq(chunks)
  IN  /\ capacity > 0 =>
           /\ FlattenSeq(FileReader(s, reads, capacity)) = s
           /\ ByLine(s, reads, capacity, 0) =
                SplitStringSource(s, [kind |-> "char", c |-> 0], 0).out
      /\ FileWriter(chunks, capacity, takes) = s

=============================================================================
