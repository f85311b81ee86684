-------------------------------- MODULE Conv --------------------------------
(***************************************************************************)
(* Conversions between integers and text, and between integer types        *)
(* (Conv.h, Conv.cpp).  A type is [signed, bits]; arithmetic in it is      *)
(* modulo 2^bits.  IntBits is the width of int, to which narrower operands *)
(* are promoted.  A string is a sequence of character codes.               *)
(***************************************************************************)
EXTENDS Strings

CONSTANT IntBits

Minus == 45
Zero  == 48
Nine  == 57
IsDigit(c) == c \in Zero .. Nine
IsSpace(c) == c = Space \/ c \in 9 .. 13

(* A result is a sequence of one value, or empty when the call throws.     *)
RangeError == <<>>

TypeMax(t) == IF t.signed THEN 2^(t.bits - 1) - 1 ELSE 2^t.bits - 1
TypeMin(t) == IF t.signed THEN 0 - 2^(t.bits - 1) ELSE 0
ValuesOf(t) == TypeMin(t) .. TypeMax(t)

(* The value of type t that v is congruent to.                             *)
Cast(t, v) ==
  LET m == v % 2^t.bits
  IN  IF t.signed /\ m > TypeMax(t) THEN m - 2^t.bits ELSE m

Unsigned(t) == [t EXCEPT !.signed = FALSE]
Larger(a, b) == IF a < b THEN b ELSE a

(* The type in which C++ compares operands of types t and u.               *)
Promoted(t) == IF t.bits < IntBits THEN [signed |-> TRUE, bits |-> IntBits]
                                   ELSE t
Common(t, u) ==
  LET p == Promoted(t)
      q == Promoted(u)
      bits == Larger(p.bits, q.bits)
      signed(r) == r.bits < bits \/ r.signed
  IN  [bits |-> bits, signed |-> signed(p) /\ signed(q)]

(* a >= b, of types t and u.                                               *)
AtLeast(a, t, b, u) ==
  LET c == Common(t, u) IN Cast(c, a) >= Cast(c, b)

-----------------------------------------------------------------------------
(* to<Tgt>(value): integral to integral.                                   *)
ToIntegral(src, tgt, value) ==
  LET over  == TypeMax(tgt) < TypeMax(src)
      under == src.signed /\ (~tgt.signed \/ src.bits > tgt.bits)
  IN  IF over /\ ~AtLeast(TypeMax(tgt), tgt, value, src) THEN RangeError
      ELSE IF under /\ ~AtLeast(value, src, TypeMin(tgt), tgt)
        THEN RangeError
      ELSE <<Cast(tgt, value)>>

-----------------------------------------------------------------------------
(* Integers to text.                                                       *)

Bits(v) == CHOOSE b \in 0 .. 30 : 2^b =< v /\ (b = 30 \/ v < 2^(b + 1))

Digits10(v) ==
  IF v = 0 THEN 1
  ELSE LET minLength == 1 + (Bits(v) * 77) \div 256
       IN  minLength + IF minLength =< 9 /\ v >= 10^minLength THEN 1 ELSE 0

(* The digits go to the places from the last one down; a place no digit    *)
(* reaches holds what was there.                                           *)
RECURSIVE FillDigits(_, _, _)
FillDigits(v, buffer, pos) ==
  IF v >= 10
    THEN FillDigits(v \div 10, [buffer EXCEPT ![pos] = Zero + (v % 10)],
                    pos - 1)
    ELSE [buffer EXCEPT ![pos] = Zero + v]

Uint64ToBufferUnsafe(v) ==
  LET n == Digits10(v)
      buffer == FillDigits(v, [i \in 1 .. n |-> npos], n)
  IN  [i \in 1 .. n |-> buffer[i]]

(* toAppend and estimateSpaceNeeded of an integer.                         *)
ToAppend(v) ==
  IF v < 0 THEN <<Minus>> \o Uint64ToBufferUnsafe(0 - v)
           ELSE Uint64ToBufferUnsafe(v)

EstimateSpaceNeeded(v) ==
  IF v < 0 THEN 1 + Digits10(0 - v) ELSE Digits10(v)

(* toDelim(d, v1, v2, ...), and the space it reserves for these; the       *)
(* target itself counts as one more value.                                 *)
RECURSIVE ToAppendDelim(_, _)
ToAppendDelim(d, vs) ==
  IF vs = <<>> THEN <<>>
  ELSE IF Len(vs) = 1 THEN ToAppend(vs[1])
  ELSE ToAppend(vs[1]) \o d \o ToAppendDelim(d, Tail(vs))

ReserveInTargetDelim(d, vs) ==
  FoldLeft(LAMBDA n, v : n + EstimateSpaceNeeded(v),
           (Len(vs) - 1) * Len(d), vs)

-----------------------------------------------------------------------------
(* Text to integers.                                                       *)

(* The tables shift1 to shift1000.                                         *)
OOR == 10000
Shift(c, power) == IF IsDigit(c) THEN (c - Zero) * power ELSE OOR

MaxString(t) == ToAppend(TypeMax(t))
TypeDigits10(t) == Len(MaxString(t)) - 1

(* strncmp.                                                                *)
AtMost(s, t) ==
  LET i == Least({j \in 0 .. Len(s) - 1 : At(s, j) # At(t, j)})
  IN  i = npos \/ At(s, i) < At(t, i)

(* Four digits at a time, then the rest.                                   *)
RECURSIVE DigitsFrom(_, _, _)
DigitsFrom(t, s, result) ==
  LET n == IF Len(s) < 4 THEN Len(s) ELSE 4
      add(sum, i) == sum + Shift(s[i], 10^(n - i))
      sum == FoldLeft(add, 0, [i \in 1 .. n |-> i])
  IN  IF s = <<>> THEN result
      ELSE DigitsFrom(t, Drop(s, n),
                      Cast(t, Cast(t, result * 10^n) + sum))

DigitsTo(t, s) ==
  LET long == Len(s) >= TypeDigits10(t) + 1
      bare == {i \in DOMAIN s : s[i] # Zero}
      rest == SubSeq(s, Least(bare), Len(s))
      digits == IF long /\ s[1] = Zero THEN rest ELSE s
  IN  IF s = <<>> THEN RangeError
      ELSE IF long /\ bare = {} THEN <<0>>
      ELSE IF Len(digits) >= TypeDigits10(t) + 1 /\
              ~(Len(digits) = TypeDigits10(t) + 1
                  /\ AtMost(digits, MaxString(t)))
        THEN RangeError
      ELSE <<DigitsFrom(t, digits, 0)>>

(* The digits of a number whose sign was read; the result must have it.    *)
Signed(t, negative, s) ==
  LET u == DigitsTo(Unsigned(t), s)
      result == Cast(t, IF negative THEN 0 - u[1] ELSE u[1])
  IN  IF u = RangeError THEN RangeError
      ELSE IF t.signed /\ negative /\ result > 0 THEN RangeError
      ELSE IF t.signed /\ ~negative /\ result < 0 THEN RangeError
      ELSE <<result>>

(* to<Tgt>(b, e): without whitespace; what follows a sign are digits.      *)
ToSigned(t, s) ==
  IF s = <<>> THEN RangeError
  ELSE IF IsDigit(s[1]) THEN Signed(t, FALSE, s)
  ELSE IF s[1] \notin {Minus, Plus} THEN RangeError
  ELSE Signed(t, s[1] = Minus, Tail(s))

FindFirstNonDigit(s, b) ==
  LET stop == {i \in b .. Len(s) : ~IsDigit(s[i])}
  IN  IF stop = {} THEN Len(s) + 1 ELSE Least(stop)

(* to<Tgt>(&src): leading whitespace, a sign, the digits; src is what      *)
(* follows.                                                                *)
ToProgress(t, src) ==
  LET words == {i \in DOMAIN src : ~IsSpace(src[i])}
      b == Least(words)
      sign == t.signed /\ ~IsDigit(src[b])
      d == IF sign THEN b + 1 ELSE b
      m == FindFirstNonDigit(src, d + 1)
      result == Signed(t, sign /\ src[b] = Minus, SubSeq(src, d, m - 1))
      fail == [result |-> RangeError, src |-> src]
  IN  IF words = {} THEN fail
      ELSE IF sign /\ src[b] \notin {Minus, Plus} THEN fail
      ELSE IF d > Len(src) THEN fail
      ELSE IF ~IsDigit(src[d]) THEN fail
      ELSE IF result = RangeError THEN fail
      ELSE [result |-> result, src |-> Drop(src, m - 1)]

EnforceWhitespace(s) == \A i \in DOMAIN s : IsSpace(s[i])

(* to<Tgt>(src): nothing but whitespace may follow.                        *)
ToInteger(t, src) ==
  LET r == ToProgress(t, src)
  IN  IF EnforceWhitespace(r.src) THEN r.result ELSE RangeError

(* str_to_bool: what the text says, and what follows.  Words are given in  *)
(* lower case.                                                             *)
Yes   == <<121, 101, 115>>
No    == <<110, 111>>
True  == <<116, 114, 117, 101>>
False == <<102, 97, 108, 115, 101>>
On    == <<111, 110>>
Off   == <<111, 102, 102>>

BoolStrCmp(s, word) ==
  Len(s) >= Len(word) /\ \A i \in DOMAIN word : Lower(s[i]) = word[i]

(* The word, or its first letter alone.                                    *)
WordOrLetter(s, word, value) ==
  [result |-> <<value>>, src |-> Drop(s, IF BoolStrCmp(s, word) THEN Len(word)
                                                              ELSE 1)]

(* Zeros, and one 1 after them.                                            *)
BoolDigits(s) ==
  LET m == FindFirstNonDigit(s, 1)
      good == \A i \in 1 .. m - 1 :
                /\ s[i] \in {Zero, Zero + 1}
                /\ i > 1 => s[i - 1] = Zero
  IN  IF good THEN [result |-> <<s[m - 1] = Zero + 1>>, src |-> Drop(s, m - 1)]
              ELSE [result |-> RangeError, src |-> s]

StrToBool(src) ==
  LET words == {i \in DOMAIN src : ~IsSpace(src[i])}
      s == SubSeq(src, Least(words), Len(src))
      fail == [result |-> RangeError, src |-> src]
      c == Lower(s[1])
      r == CASE c \in {Zero, Zero + 1} -> BoolDigits(s)
             [] c = Yes[1]   -> WordOrLetter(s, Yes, TRUE)
             [] c = No[1]    -> WordOrLetter(s, No, FALSE)
             [] c = True[1]  -> WordOrLetter(s, True, TRUE)
             [] c = False[1] -> WordOrLetter(s, False, FALSE)
             [] BoolStrCmp(s, On)  -> WordOrLetter(s, On, TRUE)
             [] BoolStrCmp(s, Off) -> WordOrLetter(s, Off, FALSE)
             [] OTHER -> fail
  IN  IF words = {} \/ r.result = RangeError THEN fail ELSE r

-----------------------------------------------------------------------------
(* Conv.h:78: "Checked conversion from integral to integral. The checks    *)
(* are only performed when meaningful": a value the target type does not   *)
(* have is never returned.                                                 *)
IntegralChecked(src, tgt) ==
  \A v \in ValuesOf(src) :
    ToIntegral(src, tgt, v) =
      IF v \in ValuesOf(tgt) THEN <<v>> ELSE RangeError

(* The comparison with the target's least value is one of signed numbers.  *)
SignedTest(src, tgt) == src.signed => tgt.signed \/ Common(src, tgt).signed

(* The number a text stands for: blanks, a sign for a signed type, digits, *)
(* blanks.                                                                 *)
Number(t, s) ==
  LET lead  == {i \in DOMAIN s : \A j \in 1 .. i : IsSpace(s[j])}
      trail == {i \in DOMAIN s : \A j \in i .. Len(s) : IsSpace(s[j])}
      n == Cardinality(lead)
      w == SubSeq(s, n + 1, Len(s) - Cardinality(trail))
      signed == t.signed /\ w # <<>> /\ w[1] \in {Minus, Plus}
      digits == IF signed THEN Tail(w) ELSE w
      value == FoldLeft(LAMBDA v, c : 10 * v + (c - Zero), 0, digits)
      number == IF signed /\ w[1] = Minus THEN 0 - value ELSE value
  IN  IF digits # <<>> /\ (\A i \in DOMAIN digits : IsDigit(digits[i]))
           /\ number \in ValuesOf(t)
        THEN <<number>> ELSE RangeError

(* A text is read as the number it stands for if the type has it, however  *)
(* many digits and zeros it has, and is refused otherwise; the progress    *)
(* version stops where the number does.                                    *)
TextToIntegralRight(t, s) ==
  /\ ToInteger(t, s) = Number(t, s)
  /\ t.signed /\ (\A i \in DOMAIN s : ~IsSpace(s[i]))
       /\ (\A i \in 2 .. Len(s) : IsDigit(s[i])) =>
       ToSigned(t, s) = Number(t, s)
  /\ LET r == ToProgress(t, s)
         n == Len(s) - Len(r.src)
     IN  IF r.result = RangeError THEN r.src = s
         ELSE /\ First(s, n) \o r.src = s
              /\ Number(t, First(s, n)) = r.result
              /\ r.src # <<>> => ~IsDigit(r.src[1])

(* A number's text is exactly as long as estimated, without a gap or a     *)
(* leading zero, and reads back.                                           *)
TextRight(v, t) ==
  LET s == ToAppend(v)
      digits == IF v < 0 THEN Tail(s) ELSE s
  IN  /\ Len(s) = EstimateSpaceNeeded(v)
      /\ \A i \in DOMAIN digits : IsDigit(digits[i])
      /\ digits[1] = Zero => v = 0
      /\ v \in ValuesOf(t) => ToInteger(t, s) = <<v>>
      /\ LET d == <<44, Space>>
             all == ToAppendDelim(d, <<v, 0, v>>)
         IN  /\ InternalSplit(d, all, FALSE) = <<s, <<Zero>>, s>>
             /\ Len(all) = ReserveInTargetDelim(d, <<v, 0, v>>)

(* A truth value is recognised in any case, alone or before other text,    *)
(* and never from the middle of a number.                                  *)
BoolRight(s) ==
  LET r == StrToBool(s)
      words(b) == IF b THEN {Yes, True, On, <<Yes[1]>>, <<True[1]>>}
                       ELSE {No, False, Off, <<No[1]>>, <<False[1]>>}
      w == LET t == LtrimWhitespace(First(s, Len(s) - Len(r.src)))
           IN  [i \in DOMAIN t |-> Lower(t[i])]
  IN  IF r.result = RangeError THEN r.src = s
      ELSE /\ \/ w \in words(r.result[1])
              \/ /\ \A i \in 1 .. Len(w) - 1 : w[i] = Zero
                 /\ w[Len(w)] = Zero + IF r.result[1] THEN 1 ELSE 0
                 /\ r.src # <<>> => ~IsDigit(r.src[1])
=============================================================================
