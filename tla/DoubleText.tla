----------------------------- MODULE DoubleText -----------------------------
(***************************************************************************)
(* double-conversion: numbers and their parts, big integers, the three     *)
(* algorithms that turn a number into digits, the one from digits to a     *)
(* number, and numbers as text.                                            *)
(***************************************************************************)
EXTENDS Integers, Sequences, FiniteSets

-----------------------------------------------------------------------------
(***************************************************************************)
(* Floating-point numbers and their parts (double-conversion/ieee.h,       *)
(* diy-fp.h, cached-powers.cc), scaled: the Double has 4 significant bits  *)
(* and 4 of exponent instead of 53 and 11, the Single 2 and 3, a DiyFp 14  *)
(* instead of 64.  A number is its bits, read as an integer.               *)
(***************************************************************************)

Double == [p |-> 4, ebits |-> 4]
Single == [p |-> 2, ebits |-> 3]
DiySize == 14

HiddenBit(F) == 2^(F.p - 1)
SignBit(F) == 2^(F.p - 1 + F.ebits)
ExponentBias(F) == 2^(F.ebits - 1) - 1 + F.p - 1
DenormalExponent(F) == 1 - ExponentBias(F)
MaxExponent(F) == 2^F.ebits - 1 - ExponentBias(F)
Infinity(F) == (2^F.ebits - 1) * HiddenBit(F)
NaN(F) == Infinity(F) + HiddenBit(F) \div 2

Magnitude(F, d) == d % SignBit(F)
Field(F, d) == Magnitude(F, d) \div HiddenBit(F)
Physical(F, d) == d % HiddenBit(F)
Sign(F, d) == IF d >= SignBit(F) THEN -1 ELSE 1
IsDenormal(F, d) == Field(F, d) = 0
IsSpecial(F, d) == Field(F, d) = 2^F.ebits - 1
Exponent(F, d) == IF IsDenormal(F, d) THEN DenormalExponent(F)
                  ELSE Field(F, d) - ExponentBias(F)
Significand(F, d) == IF IsDenormal(F, d) THEN Physical(F, d)
                     ELSE Physical(F, d) + HiddenBit(F)

LowerBoundaryIsCloser(F, d) ==
  Physical(F, d) = 0 /\ Exponent(F, d) # DenormalExponent(F)

(* One bit pattern up or down is one number up or down.                    *)
NextDouble(F, d) ==
  IF d = Infinity(F) THEN d
  ELSE IF Sign(F, d) < 0 /\ Significand(F, d) = 0 THEN 0
  ELSE IF Sign(F, d) < 0 THEN d - 1 ELSE d + 1
PreviousDouble(F, d) ==
  IF d = Infinity(F) + SignBit(F) THEN d
  ELSE IF Sign(F, d) < 0 THEN d + 1
  ELSE IF Significand(F, d) = 0 THEN SignBit(F) ELSE d - 1

SignificandSizeForOrderOfMagnitude(F, order) ==
  IF order >= DenormalExponent(F) + F.p THEN F.p
  ELSE IF order =< DenormalExponent(F) THEN 0
  ELSE order - DenormalExponent(F)

-----------------------------------------------------------------------------
(* DiyFp: f * 2^e, f an unsigned word.                                     *)
Diy(f, e) == [f |-> f, e |-> e]
Word(v) == v % 2^DiySize

(* The larger steps of the code's first loop change nothing.               *)
RECURSIVE Normalize(_)
Normalize(x) == IF x.f >= 2^(DiySize - 1) THEN x
                ELSE Normalize(Diy(2 * x.f, x.e - 1))

(* Product of halves, rounded to its upper word.                           *)
Times(x, y) ==
  LET h == 2^(DiySize \div 2)
      a == x.f \div h
      b == x.f % h
      c == y.f \div h
      d == y.f % h
      tmp == ((b * d) \div h) + ((a * d) % h) + ((b * c) % h) + (h \div 2)
  IN  Diy(a * c + ((a * d) \div h) + ((b * c) \div h) + (tmp \div h),
          x.e + y.e + DiySize)

AsDiyFp(F, d) == Diy(Significand(F, d), Exponent(F, d))
AsNormalizedDiyFp(F, d) == Normalize(AsDiyFp(F, d))
UpperBoundary(F, d) == Diy(2 * Significand(F, d) + 1, Exponent(F, d) - 1)
LowerBoundary(F, d) ==
  IF LowerBoundaryIsCloser(F, d)
  THEN Diy(4 * Significand(F, d) - 1, Exponent(F, d) - 2)
  ELSE Diy(2 * Significand(F, d) - 1, Exponent(F, d) - 1)

NormalizedBoundaries(F, d) ==
  LET plus == Normalize(UpperBoundary(F, d))
      minus == LowerBoundary(F, d)
  IN  [plus |-> plus,
       minus |-> Diy(minus.f * 2^(minus.e - plus.e), plus.e)]

RECURSIVE Narrow(_, _)
Narrow(F, x) == IF x.f < 2^F.p THEN x ELSE Narrow(F, Diy(x.f \div 2, x.e + 1))
RECURSIVE Widen(_, _)
Widen(F, x) == IF x.e > DenormalExponent(F) /\ x.f < HiddenBit(F)
               THEN Widen(F, Diy(2 * x.f, x.e - 1)) ELSE x

(* DiyFpToUint64: bits that do not fit are cut off, not rounded.           *)
FromDiyFp(F, diy) ==
  LET n == Narrow(F, diy)
      x == Widen(F, n)
  IN  IF n.e >= MaxExponent(F) THEN Infinity(F)
      ELSE IF n.e < DenormalExponent(F) THEN 0
      ELSE IF x.f < HiddenBit(F) THEN x.f
      ELSE (x.f - HiddenBit(F)) + (x.e + ExponentBias(F)) * HiddenBit(F)

-----------------------------------------------------------------------------
(* Cached powers of ten: significand, binary and decimal exponent.         *)
ExponentDistance == 2
CachedPowersOffset == 10
CachedPowers == <<
  <<14074, -47, -10>>, <<10995, -40, -8>>, <<8590, -33, -6>>,
  <<13422, -27, -4>>, <<10486, -20, -2>>, <<8192, -13, 0>>,
  <<12800, -7, 2>>, <<10000, 0, 4>>, <<15625, 6, 6>>>>
MinDecimalExponent == -10

(* ceil(n * log10(2)).                                                     *)
CeilLog10(n) == 0 - ((0 - n * 30103) \div 100000)

CachedPower(i) == [power |-> Diy(CachedPowers[i][1], CachedPowers[i][2]),
                   decimal |-> CachedPowers[i][3]]

CachedPowerForBinaryExponentRange(min) ==
  LET k == CeilLog10(min + DiySize - 1)
  IN  CachedPower((CachedPowersOffset + k - 1) \div ExponentDistance + 2)

CachedPowerForDecimalExponent(e) ==
  CachedPower((e + CachedPowersOffset) \div ExponentDistance + 1)

-----------------------------------------------------------------------------
(***************************************************************************)
(* Arbitrary-size integers in a fixed array (double-conversion/bignum.cc), *)
(* scaled: a bigit of 4 bits in a chunk of 8, as 28 in 32, so that sums    *)
(* and products leave as many spare bits as in the code.  Operations read  *)
(* places above used, and rely on the others to have left zeros there.     *)
(***************************************************************************)

BigitSize == 4
ChunkSize == 8                  \* Chunk and uint32_t
DoubleSize == 16                \* DoubleChunk and uint64_t
Capacity == 14
Base == 2^BigitSize
Places == 0 .. Capacity - 1

Chunk(v) == v % 2^ChunkSize
DoubleChunk(v) == v % 2^DoubleSize
Larger(a, b) == IF a < b THEN b ELSE a
Smaller(a, b) == IF a < b THEN a ELSE b

Zero == [bigits |-> [i \in Places |-> 0], used |-> 0, exponent |-> 0]

BigitLength(a) == a.used + a.exponent
BigitAt(a, i) == IF i >= BigitLength(a) \/ i < a.exponent THEN 0
                 ELSE a.bigits[i - a.exponent]
IsClamped(a) == a.used = 0 \/ a.bigits[a.used - 1] # 0

RECURSIVE Clamp(_)
Clamp(a) == IF a.used = 0 THEN [a EXCEPT !.exponent = 0]
            ELSE IF a.bigits[a.used - 1] = 0 THEN Clamp([a EXCEPT !.used = @ - 1])
            ELSE a

(* needed_bigits is fixed; Clamp() drops what the value does not fill.     *)
AssignUInt64(v) ==
  LET needed == DoubleSize \div BigitSize + 1
  IN  Clamp([bigits |-> [i \in Places |-> IF i < needed
                                          THEN (v \div Base^i) % Base ELSE 0],
             used |-> IF v = 0 THEN 0 ELSE needed, exponent |-> 0])
AssignUInt16(v) == AssignUInt64(v)

(* Zeros in place of hidden digits, down to the exponent of b.             *)
Align(a, b) ==
  LET z == a.exponent - b.exponent
  IN  IF z =< 0 THEN a
      ELSE [bigits |-> [i \in Places |-> IF i < z THEN 0
                                         ELSE IF i - z < a.used
                                           THEN a.bigits[i - z]
                                           ELSE a.bigits[i]],
            used |-> a.used + z, exponent |-> b.exponent]

(* The carry goes on past the last bigit of b.                             *)
RECURSIVE AddLoop(_, _, _, _)
AddLoop(bigits, pos, addend, carry) ==
  IF addend = <<>> /\ carry = 0 THEN [bigits |-> bigits, pos |-> pos]
  ELSE LET sum == Chunk(bigits[pos] + carry
                        + (IF addend = <<>> THEN 0 ELSE Head(addend)))
       IN  AddLoop([bigits EXCEPT ![pos] = sum % Base], pos + 1,
                   IF addend = <<>> THEN <<>> ELSE Tail(addend),
                   sum \div Base)

BigitsOf(b) == [i \in 1 .. b.used |-> b.bigits[i - 1]]

AddBignum(x, b) ==
  LET a == Align(x, b)
      r == AddLoop(a.bigits, b.exponent - a.exponent, BigitsOf(b), 0)
  IN  [a EXCEPT !.bigits = r.bigits, !.used = Larger(r.pos, @)]
AddUInt64(a, v) == IF v = 0 THEN a ELSE AddBignum(a, AssignUInt64(v))

(* A borrow is the top bit of a chunk that went below zero.                *)
RECURSIVE SubLoop(_, _, _, _)
SubLoop(bigits, pos, sub, borrow) ==
  IF sub = <<>> /\ borrow = 0 THEN bigits
  ELSE LET diff == Chunk(bigits[pos] - borrow
                         - (IF sub = <<>> THEN 0 ELSE Head(sub)))
       IN  SubLoop([bigits EXCEPT ![pos] = diff % Base], pos + 1,
                   IF sub = <<>> THEN <<>> ELSE Tail(sub),
                   diff \div 2^(ChunkSize - 1))

SubtractBignum(x, b) ==
  LET a == Align(x, b)
  IN  Clamp([a EXCEPT !.bigits =
               SubLoop(@, b.exponent - a.exponent, BigitsOf(b), 0)])

(* this -= factor * b, one pass; called with this aligned to b.            *)
RECURSIVE TimesLoop(_, _, _, _)
TimesLoop(bigits, pos, products, borrow) ==
  IF products = <<>> THEN [bigits |-> bigits, pos |-> pos, borrow |-> borrow]
  ELSE LET remove == DoubleChunk(borrow + Head(products))
           diff == Chunk(bigits[pos] - (remove % Base))
       IN  TimesLoop([bigits EXCEPT ![pos] = diff % Base], pos + 1,
                     Tail(products),
                     Chunk(diff \div 2^(ChunkSize - 1) + remove \div Base))

RECURSIVE BorrowLoop(_, _, _)
BorrowLoop(a, pos, borrow) ==
  IF pos >= a.used THEN Clamp(a)
  ELSE IF borrow = 0 THEN a
  ELSE LET diff == Chunk(a.bigits[pos] - borrow)
       IN  BorrowLoop([a EXCEPT !.bigits[pos] = diff % Base], pos + 1,
                      diff \div 2^(ChunkSize - 1))

SubtractTimes(a, b, factor) ==
  LET products == [i \in 1 .. b.used |-> factor * b.bigits[i - 1]]
      r == TimesLoop(a.bigits, b.exponent - a.exponent, products, 0)
  IN  IF factor = 0 THEN a
      ELSE IF factor = 1 THEN SubtractBignum(a, b)
      ELSE IF factor = 2 THEN SubtractBignum(SubtractBignum(a, b), b)
      ELSE BorrowLoop([a EXCEPT !.bigits = r.bigits], r.pos, r.borrow)

RECURSIVE ShiftLoop(_, _, _, _)
ShiftLoop(a, n, i, carry) ==
  IF i = a.used
  THEN IF carry = 0 THEN a
       ELSE [a EXCEPT !.bigits[i] = carry, !.used = @ + 1]
  ELSE ShiftLoop([a EXCEPT !.bigits[i] = (Chunk(@ * 2^n) + carry) % Base],
                 n, i + 1, a.bigits[i] \div 2^(BigitSize - n))

ShiftLeft(a, n) ==
  IF a.used = 0 THEN a
  ELSE ShiftLoop([a EXCEPT !.exponent = @ + n \div BigitSize],
                 n % BigitSize, 0, 0)

RECURSIVE CarryOut(_, _)
CarryOut(a, carry) ==
  IF carry = 0 THEN a
  ELSE CarryOut([a EXCEPT !.bigits[a.used] = carry % Base, !.used = @ + 1],
                carry \div Base)

RECURSIVE MulLoop(_, _, _, _)
MulLoop(a, factor, i, carry) ==
  IF i = a.used THEN CarryOut(a, carry)
  ELSE LET product == DoubleChunk(factor * a.bigits[i] + carry)
       IN  MulLoop([a EXCEPT !.bigits[i] = product % Base], factor, i + 1,
                   product \div Base)

MultiplyByUInt32(a, factor) ==
  IF factor = 1 THEN a
  ELSE IF factor = 0 THEN Zero
  ELSE IF a.used = 0 THEN a
  ELSE MulLoop(a, factor, 0, 0)
Times10(a) == MultiplyByUInt32(a, 10)

(* The factor's halves apart, so that no product overflows.                *)
RECURSIVE Mul64Loop(_, _, _, _)
Mul64Loop(a, factor, i, carry) ==
  IF i = a.used THEN CarryOut(a, carry)
  ELSE LET half == 2^ChunkSize
           low == (factor % half) * a.bigits[i]
           high == (factor \div half) * a.bigits[i]
           tmp == DoubleChunk((carry % Base) + low)
           next == DoubleChunk(carry \div Base + tmp \div Base
                          + high * 2^(ChunkSize - BigitSize))
       IN  Mul64Loop([a EXCEPT !.bigits[i] = tmp % Base], factor, i + 1, next)

MultiplyByUInt64(a, factor) ==
  IF factor = 1 THEN a
  ELSE IF factor = 0 THEN Zero
  ELSE Mul64Loop(a, factor, 0, 0)

(* Powers of five that fill a uint64_t and a uint32_t, then a shift.       *)
Five64 == 6
Five32 == 3
RECURSIVE ByFives(_, _)
ByFives(a, left) ==
  IF left >= Five64 THEN ByFives(MultiplyByUInt64(a, 5^Five64), left - Five64)
  ELSE IF left >= Five32
    THEN ByFives(MultiplyByUInt32(a, 5^Five32), left - Five32)
  ELSE IF left > 0 THEN MultiplyByUInt32(a, 5^left)
  ELSE a

MultiplyByPowerOfTen(a, e) ==
  IF e = 0 \/ a.used = 0 THEN a ELSE ShiftLeft(ByFives(a, e), e)

(* Digits are read as many at a time as a uint64_t holds.                  *)
UInt64Digits == 4
RECURSIVE ReadUInt64(_)
ReadUInt64(ds) == IF ds = <<>> THEN 0
                  ELSE ReadUInt64(SubSeq(ds, 1, Len(ds) - 1)) * 10 + ds[Len(ds)]
RECURSIVE DecimalFrom(_, _)
DecimalFrom(a, ds) ==
  LET n == Smaller(UInt64Digits, Len(ds))
      b == AddUInt64(MultiplyByPowerOfTen(a, n), ReadUInt64(SubSeq(ds, 1, n)))
  IN  IF n < UInt64Digits THEN Clamp(b)
      ELSE DecimalFrom(b, SubSeq(ds, n + 1, Len(ds)))
AssignDecimalString(ds) == DecimalFrom(Zero, ds)

(* Columns of products, low ones first, over a copy of the digits put      *)
(* above them.                                                             *)
RECURSIVE Column(_, _, _, _)
Column(bigits, n, i, j) ==
  IF i < 0 \/ j >= n THEN 0
  ELSE bigits[n + i] * bigits[n + j] + Column(bigits, n, i - 1, j + 1)

RECURSIVE SquareLoop(_, _, _, _)
SquareLoop(bigits, n, i, acc) ==
  IF i = 2 * n THEN bigits
  ELSE LET top == IF i < n THEN i ELSE n - 1
           sum == DoubleChunk(acc + Column(bigits, n, top, i - top))
       IN  SquareLoop([bigits EXCEPT ![i] = Chunk(sum) % Base], n, i + 1,
                      sum \div Base)

Square(a) ==
  LET n == a.used
      copied == [i \in Places |-> IF i \in n .. 2 * n - 1 THEN a.bigits[i - n]
                                  ELSE a.bigits[i]]
  IN  Clamp([bigits |-> SquareLoop(copied, n, 0, 0), used |-> 2 * n,
             exponent |-> 2 * a.exponent])

(* base^e from the left: in a uint64_t while it fits, then as a bignum.    *)
RECURSIVE Log2(_)
Log2(v) == IF v < 2 THEN 0 ELSE 1 + Log2(v \div 2)

RECURSIVE PowerBig(_, _, _, _)
PowerBig(a, base, e, mask) ==
  IF mask = 0 THEN a
  ELSE LET s == Square(a)
       IN  PowerBig(IF (e \div mask) % 2 = 1 THEN MultiplyByUInt32(s, base)
                    ELSE s, base, e, mask \div 2)

RECURSIVE PowerSmall(_, _, _, _, _)
PowerSmall(v, base, e, mask, delayed) ==
  IF mask # 0 /\ v < 2^ChunkSize
  THEN LET s == v * v
           odd == (e \div mask) % 2 = 1
           room == s < 2^(DoubleSize - (Log2(base) + 1))
       IN  PowerSmall(IF odd /\ room THEN s * base ELSE s, base, e,
                      mask \div 2, delayed \/ (odd /\ ~room))
  ELSE LET a == AssignUInt64(v)
       IN  PowerBig(IF delayed THEN MultiplyByUInt32(a, base) ELSE a,
                    base, e, mask)

RECURSIVE Twos(_)
Twos(v) == IF v % 2 = 1 THEN 0 ELSE 1 + Twos(v \div 2)

AssignPowerUInt16(base, e) ==
  LET odd == base \div 2^Twos(base)
  IN  IF e = 0 THEN AssignUInt16(1)
      ELSE ShiftLeft(PowerSmall(odd, odd, e, 2^Log2(e) \div 2, FALSE),
                     Twos(base) * e)

-----------------------------------------------------------------------------
(* Comparisons.                                                            *)
RECURSIVE CompareFrom(_, _, _)
CompareFrom(a, b, i) ==
  IF i < Smaller(a.exponent, b.exponent) THEN 0
  ELSE IF BigitAt(a, i) < BigitAt(b, i) THEN -1
  ELSE IF BigitAt(a, i) > BigitAt(b, i) THEN 1
  ELSE CompareFrom(a, b, i - 1)

Compare(a, b) ==
  IF BigitLength(a) < BigitLength(b) THEN -1
  ELSE IF BigitLength(a) > BigitLength(b) THEN 1
  ELSE CompareFrom(a, b, BigitLength(a) - 1)

RECURSIVE PlusFrom(_, _, _, _, _)
PlusFrom(a, b, c, i, borrow) ==
  IF i < Smaller(Smaller(a.exponent, b.exponent), c.exponent)
  THEN IF borrow = 0 THEN 0 ELSE -1
  ELSE LET sum == BigitAt(a, i) + BigitAt(b, i)
           left == BigitAt(c, i) + borrow
       IN  IF sum > left THEN 1
           ELSE IF left - sum > 1 THEN -1
           ELSE PlusFrom(a, b, c, i - 1, (left - sum) * Base)

RECURSIVE PlusCompare(_, _, _)
PlusCompare(a, b, c) ==
  IF BigitLength(a) < BigitLength(b) THEN PlusCompare(b, a, c)
  ELSE IF BigitLength(a) + 1 < BigitLength(c) THEN -1
  ELSE IF BigitLength(a) > BigitLength(c) THEN 1
  ELSE IF a.exponent >= BigitLength(b) /\ BigitLength(a) < BigitLength(c)
    THEN -1
  ELSE PlusFrom(a, b, c, BigitLength(c) - 1, 0)

-----------------------------------------------------------------------------
(* Quotient and remainder, for quotients below 2^16 in the code.           *)
RECURSIVE TopMultiples(_, _, _)
TopMultiples(a, b, result) ==
  IF BigitLength(a) =< BigitLength(b) THEN [q |-> result, rest |-> a]
  ELSE LET top == a.bigits[a.used - 1]
       IN  TopMultiples(SubtractTimes(a, b, top), b, result + top)

RECURSIVE LastMultiples(_, _, _)
LastMultiples(a, b, result) ==
  IF Compare(b, a) > 0 THEN [q |-> result, rest |-> a]
  ELSE LastMultiples(SubtractBignum(a, b), b, result + 1)

DivideModuloIntBignum(x, b) ==
  LET t == TopMultiples(Align(x, b), b, 0)
      a == t.rest
      this == a.bigits[a.used - 1]
      other == b.bigits[b.used - 1]
      quotient == this \div other
      estimate == this \div (other + 1)
      less == SubtractTimes(a, b, estimate)
  IN  IF BigitLength(x) < BigitLength(b) THEN [q |-> 0, rest |-> x]
      ELSE IF b.used = 1
        THEN [q |-> t.q + quotient,
              rest |-> Clamp([a EXCEPT !.bigits[a.used - 1] =
                                this - other * quotient])]
      ELSE IF Chunk(other * (estimate + 1)) > this
        THEN [q |-> t.q + estimate, rest |-> less]
      ELSE LastMultiples(less, b, t.q + estimate)

-----------------------------------------------------------------------------
RECURSIVE Sum(_, _)
Sum(bigits, i) == IF i < 0 THEN 0 ELSE bigits[i] * Base^i + Sum(bigits, i - 1)
Value(a) == Sum(a.bigits, a.used - 1) * Base^a.exponent
New(v, shift) == ShiftLeft(AssignUInt64(v), shift)

SignOf(n) == IF n < 0 THEN -1 ELSE IF n > 0 THEN 1 ELSE 0

(* In its normal form, and nothing left above the places in use.           *)
Denotes(a, v) ==
  /\ Value(a) = v
  /\ IsClamped(a)
  /\ \A i \in Places : i >= a.used => a.bigits[i] = 0
  /\ \A i \in Places : a.bigits[i] \in 0 .. Base - 1

(* Each operation computes what it is named for, on numbers with hidden    *)
(* zero digits as well.  Division is asked only for quotients below Base;  *)
(* where the dividend is longer the code relies on a divisor whose top     *)
(* bigit is not small.                                                     *)
BignumRight(v, n, w, m) ==
  LET a == New(v, n)
      b == New(w, m)
      x == v * 2^n
      y == w * 2^m
  IN  /\ Denotes(a, x)
      /\ Denotes(AddBignum(a, b), x + y)
      /\ x >= y => Denotes(SubtractBignum(a, b), x - y)
      /\ Compare(a, b) = SignOf(x - y)
      /\ \A k \in {0, 1, 16, 255} :
           LET c == New(k, n)
           IN  PlusCompare(a, b, c) = SignOf(x + y - k * 2^n)
      /\ PlusCompare(a, b, AddBignum(a, b)) = 0
      /\ w < 256 => Denotes(MultiplyByUInt32(a, w), x * w)
      /\ Denotes(MultiplyByUInt64(a, w), x * w)
      /\ x < 2^13 => Denotes(Square(a), x * x)
      /\ y # 0 /\ x < Base * y =>
           LET d == DivideModuloIntBignum(a, b)
           IN  d.q = x \div y /\ Denotes(d.rest, x % y)

(* Powers and digits.                                                      *)
PowerRight(base, e) == Denotes(AssignPowerUInt16(base, e), base^e)
DecimalRight(ds) == Denotes(AssignDecimalString(ds), ReadUInt64(ds))

-----------------------------------------------------------------------------
(***************************************************************************)
(* A number's decimal digits by exact arithmetic                           *)
(* (double-conversion/bignum-dtoa.cc).  Digits and the place of the point: *)
(* d1 d2 ... with point p stands for 0.d1 d2 ... * 10^p.                   *)
(***************************************************************************)

RECURSIVE NormalizedExponent(_, _)
NormalizedExponent(s, e) == IF s >= HiddenBit(Double) THEN e
                            ELSE NormalizedExponent(2 * s, e - 1)

(* ceil(x * log10(2) - 1e-10): the power of ten, or one below it.          *)
EstimatePower(e) == CeilLog10(e + Double.p - 1)

Added(buffer, by) ==
  [i \in DOMAIN buffer |-> IF i = Len(buffer) THEN buffer[i] + by
                           ELSE buffer[i]]
RECURSIVE CarryTens(_, _)
CarryTens(buffer, i) ==
  IF i = 1 \/ buffer[i] # 10 THEN buffer
  ELSE CarryTens([j \in DOMAIN buffer |-> IF j = i THEN 0
                                          ELSE IF j = i - 1 THEN buffer[j] + 1
                                          ELSE buffer[j]], i - 1)
(* A last digit of ten carries; out of the first digit it moves the point. *)
Carried(buffer) ==
  LET b == CarryTens(buffer, Len(buffer))
      out == b # <<>> /\ b[1] = 10
  IN  [digits |-> IF out THEN <<1>> \o Tail(b) ELSE b,
       up |-> IF out THEN 1 ELSE 0]

(* numerator / denominator is v / 10^power; the deltas are half the way to *)
(* the neighbours.                                                         *)
ScaledValues(s, e, closer, power, deltas) ==
  LET one == AssignUInt16(1)
      num == IF e >= 0 THEN ShiftLeft(AssignUInt64(s), e)
             ELSE IF power >= 0 THEN AssignUInt64(s)
             ELSE MultiplyByUInt64(AssignPowerUInt16(10, 0 - power), s)
      den == IF e >= 0 THEN AssignPowerUInt16(10, power)
             ELSE IF power >= 0
               THEN ShiftLeft(AssignPowerUInt16(10, power), 0 - e)
             ELSE ShiftLeft(one, 0 - e)
      delta == IF e >= 0 THEN ShiftLeft(one, e)
               ELSE IF power >= 0 THEN one
               ELSE AssignPowerUInt16(10, 0 - power)
      more == (IF deltas THEN 1 ELSE 0) + (IF deltas /\ closer THEN 1 ELSE 0)
  IN  [num |-> ShiftLeft(num, more), den |-> ShiftLeft(den, more),
       minus |-> IF deltas THEN delta ELSE Zero,
       plus |-> IF ~deltas THEN Zero
                ELSE IF closer THEN ShiftLeft(delta, 1) ELSE delta]

Reaches(sum, even) == IF even THEN sum >= 0 ELSE sum > 0

FixupMultiply10(x, power, even) ==
  IF Reaches(PlusCompare(x.num, x.plus, x.den), even)
  THEN [x |-> x, point |-> power + 1]
  ELSE [x |-> [x EXCEPT !.num = Times10(@), !.minus = Times10(@),
                        !.plus = Times10(@)],
        point |-> power]

(* Digits until the rest lies within a delta of v, on either side.         *)
RECURSIVE GenerateShortestDigits(_, _, _)
GenerateShortestDigits(x, even, buffer) ==
  LET d == DivideModuloIntBignum(x.num, x.den)
      next == Append(buffer, d.q)
      vs == Compare(d.rest, x.minus)
      inMinus == IF even THEN vs =< 0 ELSE vs < 0
      inPlus == Reaches(PlusCompare(d.rest, x.plus, x.den), even)
      half == PlusCompare(d.rest, d.rest, x.den)
      up == IF inMinus THEN inPlus /\ half >= 1 - (d.q % 2)
            ELSE TRUE
  IN  IF ~inMinus /\ ~inPlus
      THEN GenerateShortestDigits([x EXCEPT !.num = Times10(d.rest),
                                            !.minus = Times10(@),
                                            !.plus = Times10(@)], even, next)
      ELSE Added(next, IF up THEN 1 ELSE 0)

RECURSIVE CountedDigits(_, _, _)
CountedDigits(x, count, buffer) ==
  LET d == DivideModuloIntBignum(x.num, x.den)
      next == Append(buffer, d.q)
  IN  IF count > 1
      THEN CountedDigits([x EXCEPT !.num = Times10(d.rest)], count - 1, next)
      ELSE Added(next, IF PlusCompare(d.rest, d.rest, x.den) >= 0
                       THEN 1 ELSE 0)

GenerateCountedDigits(x, count, point) ==
  LET c == Carried(CountedDigits(x, count, <<>>))
  IN  [digits |-> c.digits, point |-> point + c.up]

BignumToFixed(x, requested, point) ==
  LET up == PlusCompare(x.num, x.num, Times10(x.den)) >= 0
  IN  IF 0 - point > requested THEN [digits |-> <<>>, point |-> 0 - requested]
      ELSE IF 0 - point = requested
        THEN IF up THEN [digits |-> <<1>>, point |-> point + 1]
             ELSE [digits |-> <<>>, point |-> point]
      ELSE GenerateCountedDigits(x, point + requested, point)

(* mode: "shortest" (of format F), "fixed" or "precision".                 *)
BignumDtoa(F, v, mode, requested) ==
  LET s == Significand(F, v)
      e == Exponent(F, v)
      even == s % 2 = 0
      power == EstimatePower(NormalizedExponent(s, e))
      f == FixupMultiply10(ScaledValues(s, e, LowerBoundaryIsCloser(F, v),
                                        power, mode = "shortest"),
                           power, even)
  IN  IF mode = "fixed" /\ 0 - power - 1 > requested
      THEN [digits |-> <<>>, point |-> 0 - requested]
      ELSE IF mode = "shortest"
        THEN [digits |-> GenerateShortestDigits(f.x, even, <<>>),
              point |-> f.point]
      ELSE IF mode = "fixed" THEN BignumToFixed(f.x, requested, f.point)
      ELSE GenerateCountedDigits(f.x, requested, f.point)

-----------------------------------------------------------------------------
RECURSIVE IntOf(_)
IntOf(ds) == IF ds = <<>> THEN 0
             ELSE 10 * IntOf(SubSeq(ds, 1, Len(ds) - 1)) + ds[Len(ds)]

(* n * 10^k against f * 2^e: the difference, times a positive number.      *)
Diff(n, k, x) ==
  LET ten == IF k > 0 THEN 10^k ELSE 1
      tenth == IF k < 0 THEN 10^(0 - k) ELSE 1
      two == IF x.e > 0 THEN 2^x.e ELSE 1
      half == IF x.e < 0 THEN 2^(0 - x.e) ELSE 1
  IN  n * ten * half - x.f * two * tenth

(* Does n * 10^k read back as v?                                           *)
Within(F, v, n, k) ==
  LET even == v % 2 = 0
      low == Diff(n, k, LowerBoundary(F, v))
      high == Diff(n, k, UpperBoundary(F, v))
  IN  /\ IF even THEN low >= 0 ELSE low > 0
      /\ IF even THEN high =< 0 ELSE high < 0

Abs(n) == IF n < 0 THEN 0 - n ELSE n

(* The shortest digits stand for a number that reads back as v; no shorter *)
(* one does, and no other of their length is closer to v.                  *)
ShortestRight(F, v) ==
  LET r == BignumDtoa(F, v, "shortest", 0)
      n == Len(r.digits)
      k == r.point - n
      d == IntOf(r.digits)
      x == AsDiyFp(F, v)
  IN  /\ \A i \in 1 .. n : r.digits[i] \in 0 .. 9
      /\ r.digits[1] # 0
      /\ Within(F, v, d, k)
      /\ \A j \in {k + 1, k + 2} : \A m \in 0 .. 10^(n - 1) :
           ~Within(F, v, m, j)
      /\ \A m \in {d - 1, d + 1} :
           Within(F, v, m, k) => Abs(Diff(m, k, x)) >= Abs(Diff(d, k, x))

(* d * 10^k is v rounded to a multiple of 10^k, halves up.                 *)
RoundedTo(v, d, k) ==
  LET x == AsDiyFp(Double, v)
      twice == Diy(2 * x.f, x.e)
  IN  Diff(2 * d + 1, k, twice) > 0 /\ Diff(2 * d - 1, k, twice) =< 0

(* As many digits as asked for, correctly rounded.                         *)
CountedRight(v, n) ==
  LET r == BignumDtoa(Double, v, "precision", n)
  IN  /\ Len(r.digits) = n
      /\ r.digits[1] # 0
      /\ RoundedTo(v, IntOf(r.digits), r.point - n)

(* As many digits after the point as asked for, correctly rounded.         *)
FixedRight(v, n, r) ==
  LET len == Len(r.digits)
      d == IntOf(r.digits) * 10^(r.point + n - len)
  IN  /\ len > 0 => r.digits[1] # 0 /\ r.point + n >= len
      /\ len = 0 => r.point = 0 - n
      /\ RoundedTo(v, IF len = 0 THEN 0 ELSE d, 0 - n)

-----------------------------------------------------------------------------
(***************************************************************************)
(* A number's decimal digits in machine words (double-conversion/          *)
(* fast-dtoa.cc): each word may be off by a unit, and where that could     *)
(* change a digit the result is refused and the caller falls back on exact *)
(* arithmetic.  A result is [ok, digits, kappa].                           *)
(***************************************************************************)

MinimalTargetExponent == -10
MaximalTargetExponent == -3

Wrong == [ok |-> FALSE, digits |-> <<>>, kappa |-> 0]

(* Moves the last digit towards w, then asks whether w - unit and          *)
(* w + unit agree on it.                                                   *)
RECURSIVE Weeded(_, _, _, _, _)
Weeded(buffer, small, unsafe, rest, ten) ==
  IF /\ rest < small
     /\ unsafe - rest >= ten
     /\ rest + ten < small \/ small - rest >= rest + ten - small
  THEN Weeded(Added(buffer, -1), small, unsafe, rest + ten, ten)
  ELSE [buffer |-> buffer, rest |-> rest]

RoundWeedSure(buffer, distance, unsafe, rest, ten, unit, kappa) == \* mutant
  LET w == Weeded(buffer, Word(distance - unit), unsafe, rest, ten)
  IN  [ok |-> TRUE, digits |-> w.buffer, kappa |-> kappa]
RoundWeed(buffer, distance, unsafe, rest, ten, unit, kappa) ==
  LET big == distance + unit
      w == Weeded(buffer, Word(distance - unit), unsafe, rest, ten)
      doubtful == /\ w.rest < big
                  /\ unsafe - w.rest >= ten
                  /\ \/ w.rest + ten < big
                     \/ big - w.rest > w.rest + ten - big
  IN  [ok |-> ~doubtful /\ 2 * unit =< w.rest
              /\ w.rest =< Word(unsafe - 4 * unit),
       digits |-> w.buffer, kappa |-> kappa]

RoundWeedCounted(buffer, rest, ten, unit, kappa) ==
  LET c == Carried(Added(buffer, 1))
  IN  IF unit >= ten \/ ten - unit =< unit THEN Wrong
      ELSE IF ten - rest > rest /\ ten - 2 * rest >= 2 * unit
        THEN [ok |-> TRUE, digits |-> buffer, kappa |-> kappa]
      ELSE IF rest > unit /\ ten - (rest - unit) =< rest - unit
        THEN [ok |-> TRUE, digits |-> c.digits, kappa |-> kappa + c.up]
      ELSE Wrong

(* How many decimal digits a number of at most that many bits has.         *)
BiggestPowerTen(n, bits) ==
  LET guess == ((bits + 1) * 1233) \div 4096 + 1
  IN  IF n < 10^(guess - 1) THEN guess - 1 ELSE guess

(* The fraction's digits; error and interval grow with every one.          *)
RECURSIVE FractionDigits(_, _, _, _, _, _, _)
FractionDigits(buffer, fraction, one, distance, unsafe, unit, kappa) ==
  LET f == Word(fraction * 10)
      u == Word(unit * 10)
      s == Word(unsafe * 10)
      next == Append(buffer, f \div one)
  IN  IF f % one < s
      THEN RoundWeed(next, Word(distance * u), s, f % one, one, u, kappa - 1)
      ELSE FractionDigits(next, f % one, one, distance, s, u, kappa - 1)

RECURSIVE IntegralDigits(_, _, _, _, _, _, _)
IntegralDigits(buffer, n, fraction, one, distance, unsafe, kappa) ==
  LET divisor == 10^(kappa - 1)
      next == Append(buffer, n \div divisor)
      rest == (n % divisor) * one + fraction
  IN  IF kappa = 0
      THEN FractionDigits(buffer, fraction, one, distance, unsafe, 1, 0)
      ELSE IF rest < unsafe
        THEN RoundWeed(next, distance, unsafe, rest, divisor * one, 1,
                       kappa - 1)
      ELSE IntegralDigits(next, n % divisor, fraction, one, distance, unsafe,
                          kappa - 1)

DigitGen(low, w, high) ==
  LET tooHigh == high.f + 1
      one == 2^(0 - w.e)
      n == tooHigh \div one
  IN  IntegralDigits(<<>>, n, tooHigh % one, one, tooHigh - w.f,
                     tooHigh - (low.f - 1),
                     BiggestPowerTen(n, DiySize + w.e))

RECURSIVE CountedFraction(_, _, _, _, _, _)
CountedFraction(buffer, fraction, one, left, error, kappa) ==
  LET f == Word(fraction * 10)
  IN  IF left > 0 /\ fraction > error
      THEN CountedFraction(Append(buffer, f \div one), f % one, one, left - 1,
                           Word(error * 10), kappa - 1)
      ELSE IF left # 0 THEN Wrong
      ELSE RoundWeedCounted(buffer, fraction, one, error, kappa)

RECURSIVE CountedIntegral(_, _, _, _, _, _)
CountedIntegral(buffer, n, fraction, one, left, kappa) ==
  LET divisor == 10^(kappa - 1)
      next == Append(buffer, n \div divisor)
      rest == (n % divisor) * one + fraction
  IN  IF kappa = 0 THEN CountedFraction(buffer, fraction, one, left, 1, 0)
      ELSE IF left = 1
        THEN RoundWeedCounted(next, rest, divisor * one, 1, kappa - 1)
      ELSE CountedIntegral(next, n % divisor, fraction, one, left - 1,
                           kappa - 1)

DigitGenCounted(w, requested) ==
  LET one == 2^(0 - w.e)
      n == w.f \div one
  IN  CountedIntegral(<<>>, n, w.f % one, one, requested,
                      BiggestPowerTen(n, DiySize + w.e))

(* v scaled by a power of ten into the window of target exponents.         *)
PowerFor(w) ==
  CachedPowerForBinaryExponentRange(MinimalTargetExponent - (w.e + DiySize))

Grisu3(F, v) ==
  LET w == AsNormalizedDiyFp(F, v)
      b == NormalizedBoundaries(F, v)
      ten == PowerFor(w)
      r == DigitGen(Times(b.minus, ten.power), Times(w, ten.power),
                    Times(b.plus, ten.power))
  IN  [r EXCEPT !.kappa = @ - ten.decimal]

Grisu3Counted(v, requested) ==
  LET w == AsNormalizedDiyFp(Double, v)
      ten == PowerFor(w)
      r == DigitGenCounted(Times(w, ten.power), requested)
  IN  [r EXCEPT !.kappa = @ - ten.decimal]

FastDtoa(F, v, mode, requested) ==
  LET r == IF mode = "shortest" THEN Grisu3(F, v)
           ELSE Grisu3Counted(v, requested)
  IN  [ok |-> r.ok, digits |-> r.digits, point |-> Len(r.digits) + r.kappa]

-----------------------------------------------------------------------------
(* What the words do not refuse is what exact arithmetic gives, and the    *)
(* scaled number lies in the window whose digits the words can hold.       *)
FastRight(F, v, mode, n) ==
  LET r == FastDtoa(F, v, mode, n)
      exact == BignumDtoa(F, v, mode, n)
      w == AsNormalizedDiyFp(F, v)
  IN  /\ w.e + PowerFor(w).power.e + DiySize
           \in MinimalTargetExponent .. MaximalTargetExponent
      /\ r.ok => r.digits = exact.digits /\ r.point = exact.point

-----------------------------------------------------------------------------
(***************************************************************************)
(* A fixed number of digits after the point (double-conversion/            *)
(* fixed-dtoa.cc), with a word of 20 bits in place of 64 and significands  *)
(* of 15 in place of 53; of 12 where there is a fraction, which like the   *)
(* code's needs 8 spare bits.  Digits and point as in BignumDtoa.          *)
(***************************************************************************)

WordBits == 20
HalfWord == 2^(WordBits \div 2)
FixedSize == 15                 \* kDoubleSignificandSize
FixedMaxExponent == 9           \* 20 in the code
FixedMaxCount == 7              \* 20 in the code
DivisorPower == 6               \* 17: the largest 10^k below the word

Trunc(v) == v % 2^WordBits
Shl(v, n) == IF n >= WordBits THEN 0 ELSE (v % 2^(WordBits - n)) * 2^n

(* UInt128: two words.                                                     *)
Multiply(x, by) ==
  LET a1 == (x.low % HalfWord) * by
      a2 == (a1 \div HalfWord) + (x.low \div HalfWord) * by
      a3 == (a2 \div HalfWord) + (x.high % HalfWord) * by
      a4 == (a3 \div HalfWord) + (x.high \div HalfWord) * by
  IN  [low |-> Trunc(Shl(a2, WordBits \div 2) + (a1 % HalfWord)),
       high |-> Trunc(Shl(a4, WordBits \div 2) + (a3 % HalfWord))]

ShiftRight(x, n) ==
  IF n = 0 THEN x
  ELSE IF n = WordBits THEN [low |-> x.high, high |-> 0]
  ELSE [low |-> Trunc(x.low \div 2^n + Shl(x.high, WordBits - n)),
        high |-> x.high \div 2^n]

DivModPowerOf2(x, power) ==
  IF power >= WordBits
  THEN LET q == x.high \div 2^(power - WordBits)
       IN  [q |-> q, x |-> [x EXCEPT !.high = @ - q * 2^(power - WordBits)]]
  ELSE LET low == x.low \div 2^power
       IN  [q |-> Trunc(low + Shl(x.high, WordBits - power)),
            x |-> [low |-> x.low - low * 2^power, high |-> 0]]

IsZero(x) == x.low = 0 /\ x.high = 0
BitAt(x, i) == IF i >= WordBits THEN (x.high \div 2^(i - WordBits)) % 2
               ELSE (x.low \div 2^i) % 2

RECURSIVE FillDigits32(_)
FillDigits32(n) == IF n = 0 THEN <<>>
                   ELSE Append(FillDigits32(n \div 10), n % 10)
FillDigitsFixedLength(n, length) ==
  [i \in 1 .. length |-> (n \div 10^(length - i)) % 10]

RoundUp(r) ==
  LET c == Carried(Added(r.digits, 1))
  IN  IF r.digits = <<>> THEN [digits |-> <<1>>, point |-> 1]
      ELSE [digits |-> c.digits, point |-> r.point + c.up]

(* By five, and the point one bit down: ten without the overflow.          *)
RECURSIVE Fractionals64(_, _, _, _)
Fractionals64(f, point, count, r) ==
  IF count = 0 \/ f = 0
  THEN IF f # 0 /\ (f \div 2^(point - 1)) % 2 = 1 THEN RoundUp(r) ELSE r
  ELSE LET five == Trunc(f * 5)
           digit == five \div 2^(point - 1)
       IN  Fractionals64(five % 2^(point - 1), point - 1, count - 1,
                         [r EXCEPT !.digits = Append(@, digit)])

RECURSIVE Fractionals128(_, _, _, _)
Fractionals128(x, point, count, r) ==
  IF count = 0 \/ IsZero(x)
  THEN IF BitAt(x, point - 1) = 1 THEN RoundUp(r) ELSE r
  ELSE LET d == DivModPowerOf2(Multiply(x, 5), point - 1)
       IN  Fractionals128(d.x, point - 1, count - 1,
                          [r EXCEPT !.digits = Append(@, d.q)])

FillFractionals(f, e, count, r) ==
  IF 0 - e =< WordBits THEN Fractionals64(f, 0 - e, count, r)
  ELSE Fractionals128(ShiftRight([low |-> 0, high |-> f], 0 - e - WordBits),
                      2 * WordBits, count, r)

RECURSIVE TrimZeros(_)
TrimZeros(r) ==
  IF r.digits # <<>> /\ r.digits[Len(r.digits)] = 0
  THEN TrimZeros([r EXCEPT !.digits = SubSeq(@, 1, Len(@) - 1)])
  ELSE IF r.digits # <<>> /\ r.digits[1] = 0
    THEN TrimZeros([digits |-> Tail(r.digits), point |-> r.point - 1])
  ELSE r

(* A number too long for the word is cut in two by a power of ten.         *)
Integral(s, e) ==
  LET k == DivisorPower
      up == s * 2^(e - k)
      divisor == 5^k * 2^(k - e)
      q == IF e > k THEN up \div 5^k ELSE s \div divisor
      rest == IF e > k THEN (up % 5^k) * 2^k ELSE (s % divisor) * 2^e
      digits == IF e + FixedSize > WordBits
                THEN FillDigits32(q) \o FillDigitsFixedLength(rest, k)
                ELSE FillDigits32(s * 2^e)
  IN  [digits |-> digits, point |-> Len(digits)]

FastFixedDtoa(s, e, count) ==
  LET whole == s \div 2^(0 - e)
      ints == FillDigits32(whole)
      r == IF e >= 0 THEN Integral(s, e)
           ELSE IF e > 0 - FixedSize
             THEN FillFractionals(s - whole * 2^(0 - e), e, count,
                                  [digits |-> ints, point |-> Len(ints)])
           ELSE IF e < 0 - 2 * WordBits THEN [digits |-> <<>>, point |-> 0]
           ELSE FillFractionals(s, e, count, [digits |-> <<>>, point |-> 0])
      t == TrimZeros(r)
  IN  [ok |-> e =< FixedMaxExponent /\ count =< FixedMaxCount,
       digits |-> t.digits,
       point |-> IF t.digits = <<>> THEN 0 - count ELSE t.point]

-----------------------------------------------------------------------------
(* s * 2^e to count places after the point, halves up: no digit more, none *)
(* lost between the words, and no zero at either end.                      *)
FastFixedRight(s, e, count) ==
  LET r == FastFixedDtoa(s, e, count)
      len == Len(r.digits)
      pad == r.point + count - len
      zeros == [i \in 1 .. pad |-> 0]
      d == AssignDecimalString(r.digits \o zeros)
      neg == IF e < 0 THEN 0 - e ELSE 0
      pos == IF e > 0 THEN e ELSE 0
      v2 == ShiftLeft(MultiplyByPowerOfTen(AssignUInt64(s), count),
                        pos + 1)
      one == ShiftLeft(AssignUInt16(1), neg)
      d2 == ShiftLeft(d, neg + 1)
  IN  r.ok /\ (e < 0 => s < 2^(WordBits - 8))
      =>      /\ len > 0 => /\ pad >= 0
                            /\ r.digits[1] # 0
                            /\ r.digits[len] # 0
              /\ len = 0 => r.point = 0 - count
              /\ PlusCompare(d2, one, v2) > 0
              /\ PlusCompare(v2, one, d2) >= 0

-----------------------------------------------------------------------------
(***************************************************************************)
(* Decimal digits to the nearest number (double-conversion/strtod.cc): a   *)
(* guess in machine words with a bound on its error, and exact arithmetic  *)
(* where the bound leaves two candidates.  Scaled alike.                   *)
(***************************************************************************)

MaxSignificantDecimalDigits == 10
MaxUint64DecimalDigits == 4
MaxDecimalPower == 3
MinDecimalPower == -4
MaxExactIntegerDigits == 1
ExactPowersOfTenSize == 2
DenominatorLog == 3
Denominator == 2^DenominatorLog

RECURSIVE TrimLeadingZeros(_)
TrimLeadingZeros(ds) == IF ds # <<>> /\ ds[1] = 0
                        THEN TrimLeadingZeros(Tail(ds)) ELSE ds
RECURSIVE TrimTrailingZeros(_)
TrimTrailingZeros(ds) ==
  IF ds # <<>> /\ ds[Len(ds)] = 0
  THEN TrimTrailingZeros(SubSeq(ds, 1, Len(ds) - 1)) ELSE ds

(* Past the last digit that matters it only matters that there are some.   *)
TrimAndCut(ds, e) ==
  LET left == TrimLeadingZeros(ds)
      right == TrimTrailingZeros(left)
      e2 == e + Len(left) - Len(right)
      max == MaxSignificantDecimalDigits
  IN  IF Len(right) > max
      THEN [ds |-> SubSeq(right, 1, max - 1) \o <<1>>,
            e |-> e2 + Len(right) - max]
      ELSE [ds |-> right, e |-> e2]

RECURSIVE ReadUint64(_, _, _)
ReadUint64(ds, n, result) ==
  IF n < Len(ds) /\ result =< (2^DiySize - 1) \div 10 - 1
  THEN ReadUint64(ds, n + 1, 10 * result + ds[n + 1])
  ELSE [value |-> result, read |-> n]

ReadDiyFp(ds) ==
  LET r == ReadUint64(ds, 0, 0)
      up == r.read < Len(ds) /\ ds[r.read + 1] >= 5
  IN  [input |-> Diy(r.value + (IF up THEN 1 ELSE 0), 0),
       remaining |-> Len(ds) - r.read]

-----------------------------------------------------------------------------
(* The processor's own arithmetic: the nearest number, ties to even.       *)
IsNearest(F, d, IsBelow(_), IsAt(_)) ==
  /\ d > 0 => \/ IsBelow(UpperBoundary(F, d - 1))
              \/ IsAt(UpperBoundary(F, d - 1)) /\ d % 2 = 0
  /\ d < Infinity(F) => ~ \/ IsBelow(UpperBoundary(F, d))
                          \/ IsAt(UpperBoundary(F, d)) /\ d % 2 = 1
Nearest(F, IsBelow(_), IsAt(_)) ==
  CHOOSE d \in 0 .. Infinity(F) : IsNearest(F, d, IsBelow, IsAt)

Mul(n, k) == LET d(x) == Diff(n, k, x)
                 below(x) == d(x) > 0
                 at(x) == d(x) = 0
             IN  Nearest(Double, below, at)

(* static_cast<float>(d) and static_cast<double>(f).                       *)
ToFloat(d) ==
  LET x == AsDiyFp(Double, d)
      e == 0 - DenormalExponent(Double) + 1
      diff(y) == x.f * 2^(x.e + e) - y.f * 2^(y.e + e)
      below(y) == diff(y) > 0
      at(y) == diff(y) = 0
  IN  IF d = Infinity(Double) THEN Infinity(Single)
      ELSE Nearest(Single, below, at)
SameValue(f, d) == IF d = Infinity(Double) THEN f = Infinity(Single)
                   ELSE /\ f # Infinity(Single)
                        /\ FromDiyFp(Double, AsDiyFp(Single, f)) = d

-----------------------------------------------------------------------------
Sure(d) == [sure |-> TRUE, guess |-> d]

(* Small digits and powers are exact numbers: one rounding, by *= or /=.   *)
IsExact(ds, e) ==
  /\ Len(ds) =< MaxExactIntegerDigits
  /\ \/ e < 0 /\ 0 - e < ExactPowersOfTenSize
     \/ e >= 0 /\ e < ExactPowersOfTenSize
     \/ e >= 0 /\ e - (MaxExactIntegerDigits - Len(ds)) < ExactPowersOfTenSize
DoubleStrtod(ds, e) == Mul(ReadUint64(ds, 0, 0).value, e)

AdjustmentPowerOfTen(e) == Diy(10^e * 2^(DiySize - 4), 4 - DiySize)

(* The error is counted in eighths of the last place.                      *)
DiyFpStrtod(ds, exponent) ==
  LET r == ReadDiyFp(ds)
      e == exponent + r.remaining
      in0 == Normalize(r.input)
      err0 == (IF r.remaining = 0 THEN 0 ELSE Denominator \div 2)
              * 2^(0 - in0.e)
      cached == CachedPowerForDecimalExponent(e)
      adjust == e - cached.decimal
      in1 == IF adjust = 0 THEN in0
             ELSE Times(in0, AdjustmentPowerOfTen(adjust))
      err1 == IF adjust = 0 \/ MaxUint64DecimalDigits - Len(ds) >= adjust
              THEN err0 ELSE err0 + Denominator \div 2
      in2 == Times(in1, cached.power)
      err2 == err1 + Denominator + (IF err1 = 0 THEN 0 ELSE 1)
      in3 == Normalize(in2)
      err3 == err2 * 2^(in2.e - in3.e)
      size == SignificandSizeForOrderOfMagnitude(Double, DiySize + in3.e)
      over == DiySize - size + DenominatorLog - DiySize + 1
      shift == IF over > 0 THEN over ELSE 0
      in4 == Diy(in3.f \div 2^shift, in3.e + shift)
      err4 == IF shift > 0 THEN err3 \div 2^shift + 1 + Denominator ELSE err3
      count == DiySize - size - shift
      bits == (in4.f % 2^count) * Denominator
      half == 2^(count - 1) * Denominator
      up == bits >= half + err4
      rounded == Diy(in4.f \div 2^count + (IF up THEN 1 ELSE 0),
                     in4.e + count)
  IN  IF e < MinDecimalExponent THEN Sure(0)
      ELSE [sure |-> ~(half - err4 < bits /\ bits < half + err4),
            guess |-> FromDiyFp(Double, rounded)]

CompareBufferWithDiyFp(ds, e, x) ==
  LET buffer == AssignDecimalString(ds)
      diy == AssignUInt64(x.f)
      b == IF e >= 0 THEN MultiplyByPowerOfTen(buffer, e) ELSE buffer
      d == IF e >= 0 THEN diy ELSE MultiplyByPowerOfTen(diy, 0 - e)
  IN  IF x.e > 0 THEN Compare(b, ShiftLeft(d, x.e))
      ELSE Compare(ShiftLeft(b, 0 - x.e), d)

ComputeGuess(ds, e) ==
  LET g == DiyFpStrtod(ds, e)
  IN  IF ds = <<>> THEN Sure(0)
      ELSE IF e + Len(ds) - 1 >= MaxDecimalPower THEN Sure(Infinity(Double))
      ELSE IF e + Len(ds) =< MinDecimalPower THEN Sure(0)
      ELSE IF IsExact(ds, e) THEN Sure(DoubleStrtod(ds, e))
      ELSE IF g.guess = Infinity(Double) THEN Sure(g.guess)
      ELSE g

(* A guess in doubt is right or one too small.                             *)
Strtod(buffer, exponent) ==
  LET t == TrimAndCut(buffer, exponent)
      g == ComputeGuess(t.ds, t.e)
      c == CompareBufferWithDiyFp(t.ds, t.e, UpperBoundary(Double, g.guess))
      odd == Significand(Double, g.guess) % 2
  IN  IF g.sure \/ c + odd =< 0 THEN g.guess ELSE NextDouble(Double, g.guess)

(* The double's neighbours tell whether its rounding could be in doubt.    *)
(* Half of the least float is what UpperBoundary gives for zero.           *)
Strtof(buffer, exponent) ==
  LET t == TrimAndCut(buffer, exponent)
      g == ComputeGuess(t.ds, t.e)
      f == ToFloat(g.guess)
      next == NextDouble(Double, g.guess)
      low == ToFloat(PreviousDouble(Double, g.guess))
      high == ToFloat(IF g.sure THEN next ELSE NextDouble(Double, next))
      upper == UpperBoundary(Single, low)
      c == CompareBufferWithDiyFp(t.ds, t.e, upper)
      odd == Significand(Single, low) % 2
  IN  IF SameValue(f, g.guess) \/ low = high THEN f
      ELSE IF c + odd =< 0 THEN low ELSE high

-----------------------------------------------------------------------------
(* A reference: digits compared place by place with those of a boundary,   *)
(* which f * 2^e has finitely many of.                                     *)
RECURSIVE DigitsOf(_)
DigitsOf(n) == IF n = 0 THEN <<>> ELSE Append(DigitsOf(n \div 10), n % 10)
DecimalOf(x) == IF x.e >= 0 THEN [ds |-> DigitsOf(x.f * 2^x.e), e |-> 0]
                ELSE [ds |-> DigitsOf(x.f * 5^(0 - x.e)), e |-> x.e]

DigitAt(ds, e, place) == LET i == Len(ds) + e - place
                         IN  IF i \in 1 .. Len(ds) THEN ds[i] ELSE 0
(* The most significant place in which the two differ decides.             *)
Order(ds, e, x) ==
  LET y == DecimalOf(x)
      high == IF Len(ds) + e > 6 THEN Len(ds) + e ELSE 6
      differ == {i \in (IF e < y.e THEN e ELSE y.e) .. high :
                   DigitAt(ds, e, i) # DigitAt(y.ds, y.e, i)}
      top == CHOOSE i \in differ : \A j \in differ : j =< i
  IN  IF differ = {} THEN 0
      ELSE DigitAt(ds, e, top) - DigitAt(y.ds, y.e, top)

IsNearestTo(F, d, ds, e) ==
  LET below(x) == Order(ds, e, x) > 0
      at(x) == Order(ds, e, x) = 0
  IN  IsNearest(F, d, below, at)

(* The nearest number, of two the even one: for digits on, just under and  *)
(* just over the middle between neighbours, in either format.              *)
NearestRight(ds, e) ==
  /\ IsNearestTo(Double, Strtod(ds, e), ds, e)
  /\ IsNearestTo(Single, Strtof(ds, e), ds, e)

-----------------------------------------------------------------------------
(***************************************************************************)
(* Numbers as text and back (double-conversion/double-conversion.cc and    *)
(* its use in Conv.h).  Text is a sequence of character codes, a failed    *)
(* conversion the empty sequence.  Limits are scaled with the formats.     *)
(***************************************************************************)

Plus == 43
Minus == 45
Point == 46
Nought == 48
IsDecimal(c) == c \in 48 .. 57
IsBlank(c) == c = 32 \/ c \in 9 .. 13
InfinityText == <<73, 110, 102, 105, 110, 105, 116, 121>>
NaNText == <<78, 97, 78>>

MaxFixedDigitsAfterPoint == 5
FirstNonFixed == 200
MaxExponentialDigits == 5
MaxPrecisionDigits == 5

Noughts(n) == [i \in 1 .. n |-> Nought]
Chars(ds) == [i \in DOMAIN ds |-> ds[i] + Nought]
Most(a, b) == IF a < b THEN b ELSE a

(* The converter of toAppend: no flags.  exp is its exponent character.    *)
Writer == [uniqueZero |-> FALSE, plusSign |-> FALSE, point |-> FALSE,
           zero |-> FALSE, exp |-> 69, low |-> -2, high |-> 2,
           leading |-> 2, trailing |-> 1]
EcmaScript == [Writer EXCEPT !.uniqueZero = TRUE, !.plusSign = TRUE,
                             !.exp = 101, !.trailing = 0]

DoubleToAscii(F, v, mode, requested) ==
  LET m == Magnitude(F, v)
      fast == IF mode = "fixed"
              THEN FastFixedDtoa(Significand(F, m), Exponent(F, m), requested)
              ELSE FastDtoa(F, m, mode, requested)
  IN  IF m = 0 THEN [digits |-> <<0>>, point |-> 1]
      ELSE IF fast.ok THEN [digits |-> fast.digits, point |-> fast.point]
      ELSE BignumDtoa(F, m, mode, requested)

HandleSpecialValues(F, v) ==
  IF Magnitude(F, v) # Infinity(F) THEN NaNText
  ELSE IF Sign(F, v) < 0 THEN <<Minus>> \o InfinityText ELSE InfinityText

SignText(w, F, v) ==
  IF Sign(F, v) < 0 /\ (Magnitude(F, v) # 0 \/ ~w.uniqueZero)
  THEN <<Minus>> ELSE <<>>

CreateExponentialRepresentation(w, ds, e) ==
  LET size == Abs(e)
      digits == IF e = 0 THEN <<0>> ELSE FillDigits32(size)
  IN  Chars(<<ds[1]>>)
      \o (IF Len(ds) = 1 THEN <<>> ELSE <<Point>> \o Chars(Tail(ds)))
      \o <<w.exp>>
      \o (IF e < 0 THEN <<Minus>> ELSE IF w.plusSign THEN <<Plus>> ELSE <<>>)
      \o Chars(digits)

CreateDecimalRepresentation(w, ds, point, after) ==
  LET text == Chars(ds)
      n == Len(ds)
      fraction(t) == IF after > 0 THEN <<Point>> \o t ELSE <<>>
      body ==
        IF point =< 0
        THEN <<Nought>> \o fraction(Noughts(0 - point) \o text
                                    \o Noughts(after + point - n))
        ELSE IF point >= n
          THEN text \o Noughts(point - n) \o fraction(Noughts(after))
        ELSE SubSeq(text, 1, point) \o <<Point>> \o SubSeq(text, point + 1, n)
             \o Noughts(after - (n - point))
  IN  body \o (IF after = 0 /\ w.point THEN <<Point>> ELSE <<>>)
           \o (IF after = 0 /\ w.zero THEN <<Nought>> ELSE <<>>)

ToShortestIeeeNumber(w, F, v) ==
  LET a == DoubleToAscii(F, v, "shortest", 0)
      e == a.point - 1
  IN  IF IsSpecial(F, v) THEN HandleSpecialValues(F, v)
      ELSE SignText(w, F, v)
           \o (IF w.low =< e /\ e < w.high
               THEN CreateDecimalRepresentation(w, a.digits, a.point,
                      Most(0, Len(a.digits) - a.point))
               ELSE CreateExponentialRepresentation(w, a.digits, e))

ToFixed(w, v, requested) ==
  LET a == DoubleToAscii(Double, v, "fixed", requested)
  IN  IF IsSpecial(Double, v) THEN HandleSpecialValues(Double, v)
      ELSE IF \/ requested > MaxFixedDigitsAfterPoint
              \/ Diff(FirstNonFixed, 0, AsDiyFp(Double, v)) =< 0 THEN <<>>
      ELSE SignText(w, Double, v)
           \o CreateDecimalRepresentation(w, a.digits, a.point, requested)

Filled(ds, n) == ds \o [i \in 1 .. n - Len(ds) |-> 0]

(* requested = -1 asks for the shortest.                                   *)
ToExponential(w, v, requested) ==
  LET a == IF requested = -1 THEN DoubleToAscii(Double, v, "shortest", 0)
           ELSE DoubleToAscii(Double, v, "precision", requested + 1)
      ds == IF requested = -1 THEN a.digits ELSE Filled(a.digits, requested + 1)
  IN  IF IsSpecial(Double, v) THEN HandleSpecialValues(Double, v)
      ELSE IF requested < -1 \/ requested > MaxExponentialDigits THEN <<>>
      ELSE SignText(w, Double, v)
           \o CreateExponentialRepresentation(w, ds, a.point - 1)

ToPrecision(w, v, n) ==
  LET a == DoubleToAscii(Double, v, "precision", n)
      extra == IF w.zero THEN 1 ELSE 0
  IN  IF IsSpecial(Double, v) THEN HandleSpecialValues(Double, v)
      ELSE IF n < 1 \/ n > MaxPrecisionDigits THEN <<>>
      ELSE SignText(w, Double, v)
           \o (IF 1 - a.point > w.leading \/ a.point - n + extra > w.trailing
               THEN CreateExponentialRepresentation(w, Filled(a.digits, n),
                                                    a.point - 1)
               ELSE CreateDecimalRepresentation(w, a.digits, a.point,
                                                Most(0, n - a.point)))

(* estimateSpaceNeeded: digits and point, then the longest of "E-" and an  *)
(* exponent, leading noughts, or an integer.                               *)
Base10MaximalLength == 3
EstimateSpaceNeeded(v) ==
  Most(Most(Base10MaximalLength + 1 + 3, Base10MaximalLength + 1 - Writer.low),
       Writer.high) + (IF Sign(Double, v) < 0 THEN 1 ELSE 0)

-----------------------------------------------------------------------------
(* Reading.  A reader allows spaces and what follows a number, or does not;*)
(* a result is a number with how much was read, "empty" or "junk".         *)
Reader == [leading |-> TRUE, trailing |-> FALSE, afterSign |-> FALSE,
           junk |-> TRUE, hex |-> FALSE, octals |-> FALSE, symbols |-> FALSE]
MaxSignificantDigits == 10
MaxExponentValue == 63          \* INT_MAX / 2 in the code

Junk == [is |-> "junk", d |-> 0, used |-> 0]
Number(d, used) == [is |-> "number", d |-> d, used |-> used]

(* The first place from i on where the character is not one of these.      *)
Past(s, i, Is(_)) ==
  CHOOSE j \in i .. Len(s) + 1 : /\ \A k \in i .. j - 1 : Is(s[k])
                                 /\ j =< Len(s) => ~Is(s[j])
IsNought(c) == c = Nought

Negated(F, negative, d) == IF negative THEN d + SignBit(F) ELSE d

RadixDigit(c, radix) ==
  IF IsDecimal(c) /\ c - 48 < radix THEN c - 48
  ELSE IF radix > 10 /\ c \in 97 .. 86 + radix THEN c - 87
  ELSE IF radix > 10 /\ c \in 65 .. 54 + radix THEN c - 55 ELSE radix

(* Bits that do not fit are rounded off, half to even; what is left of the *)
(* number only tells whether it was more than half.                        *)
RadixRound(F, n, log2, tail) ==
  LET k == Log2(n) + 1 - F.p
      dropped == n % 2^k
      kept == n \div 2^k
      middle == 2^(k - 1)
      up == \/ dropped > middle
            \/ /\ dropped = middle
               /\ kept % 2 = 1 \/ \E i \in DOMAIN tail : tail[i] # Nought
      number == kept + (IF up THEN 1 ELSE 0)
      e == k + log2 * Len(tail)
  IN  IF number = 2^F.p THEN Diy(number \div 2, e + 1) ELSE Diy(number, e)

(* A rounded number is returned without its sign.                          *)
RECURSIVE RadixFrom(_, _, _, _, _, _, _)
RadixFrom(c, F, s, i, log2, n, negative) ==
  LET radix == 2^log2
      digit(k) == RadixDigit(k, radix) # radix
      rest == Past(s, i, IsBlank)
      next == n * radix + RadixDigit(s[i], radix)
      after == Past(s, i + 1, digit)
      spaces == Past(s, after, IsBlank)
      tail == SubSeq(s, i + 1, after - 1)
      done(j) == Number(Negated(F, negative, FromDiyFp(F, Diy(n, 0))), j - 1)
  IN  IF i > Len(s) THEN done(i)
      ELSE IF ~digit(s[i])
        THEN IF c.junk THEN done(i)
             ELSE IF rest > Len(s) THEN done(rest) ELSE Junk
      ELSE IF next >= 2^F.p
        THEN IF ~c.junk /\ spaces =< Len(s) THEN Junk
             ELSE Number(FromDiyFp(F, RadixRound(F, next, log2, tail)),
                         IF c.junk THEN after - 1 ELSE Len(s))
      ELSE RadixFrom(c, F, s, i + 1, log2, next, negative)

RadixStringToIeee(c, F, s, i, log2, negative) ==
  LET j == Past(s, i, IsNought)
  IN  IF j > Len(s) THEN Number(Negated(F, negative, 0), Len(s))
      ELSE RadixFrom(c, F, s, j, log2, 0, negative)

RECURSIVE ExponentFrom(_, _)
ExponentFrom(ds, num) ==
  LET max == MaxExponentValue
      d == Head(ds)
      full == num >= max \div 10 /\ ~(num = max \div 10 /\ d =< max % 10)
  IN  IF ds = <<>> THEN num
      ELSE ExponentFrom(Tail(ds), IF full THEN max ELSE num * 10 + d)

(* "e", a sign and digits from i on; where they are not, what was read of  *)
(* them counts as read.                                                    *)
Exponential(c, s, i) ==
  LET signed == i + 1 =< Len(s) /\ s[i + 1] \in {Plus, Minus}
      j == IF signed THEN i + 2 ELSE i + 1
      end == Past(s, j, IsDecimal)
      ds == [k \in 1 .. end - j |-> s[j + k - 1] - 48]
      num == ExponentFrom(ds, 0)
  IN  IF i > Len(s) \/ s[i] \notin {69, 101}
      THEN [ok |-> TRUE, cut |-> FALSE, at |-> i, e |-> 0]
      ELSE IF ds = <<>> THEN [ok |-> c.junk, cut |-> TRUE, at |-> j, e |-> 0]
      ELSE [ok |-> TRUE, cut |-> FALSE, at |-> end,
            e |-> IF signed /\ s[i + 1] = Minus THEN 0 - num ELSE num]

(* Digits beyond the limit only move the exponent, and leave a 1 behind if *)
(* one of them was not 0.                                                  *)
Significant(F, ints, fraction, e) ==
  LET max == MaxSignificantDigits
      n == Len(ints)
      all == ints \o fraction
      kept == SubSeq(all, 1, IF Len(all) < max THEN Len(all) ELSE max)
      dropped == \E i \in max + 1 .. Len(all) : all[i] # Nought
      ds == [i \in DOMAIN kept |-> kept[i] - 48]
      e2 == e + n - Len(kept)
  IN  IF dropped
      THEN IF F = Double THEN Strtod(ds \o <<1>>, e2 - 1)
           ELSE Strtof(ds \o <<1>>, e2 - 1)
      ELSE IF F = Double THEN Strtod(ds, e2) ELSE Strtof(ds, e2)

(* What may follow a number read up to place i.                            *)
Clean(c, s, i) == \/ c.junk
                  \/ i > Len(s)
                  \/ c.trailing /\ Past(s, i, IsBlank) > Len(s)
End(c, s, i) == IF c.trailing THEN Past(s, i, IsBlank) ELSE i

(* The digits between leading zeros and p, as an octal number.             *)
OctalNumber(c, F, s, ints, p, negative) ==
  LET stop == p =< Len(s) /\ s[p] \in {Point, 69, 101}
      x == RadixStringToIeee([c EXCEPT !.junk = TRUE], F, ints, 1, 3, negative)
  IN  IF c.junk \/ (~stop /\ Clean(c, s, p))
      THEN Number(x.d, (IF stop THEN p ELSE End(c, s, p)) - 1)
      ELSE Junk

HexNumber(c, F, s, i, negative) ==
  LET x == RadixStringToIeee(c, F, s, i, 4, negative)
  IN  IF i > Len(s) \/ RadixDigit(s[i], 16) = 16 \/ x = Junk THEN Junk
      ELSE Number(x.d, End(c, s, x.used + 1) - 1)

DecimalNumber(c, F, s, j, p, negative) ==
  LET n == Len(s)
      lead == j > 1 /\ s[j - 1] = Nought
      ints == SubSeq(s, j, p - 1)
      dot == p =< n /\ s[p] = Point
      q == IF dot /\ ints = <<>> THEN Past(s, p + 1, IsNought) ELSE p + 1
      r == IF dot THEN Past(s, q, IsDecimal) ELSE p
      fraction == IF dot THEN SubSeq(s, q, r - 1) ELSE <<>>
      noughts == IF dot THEN q - (p + 1) ELSE 0
      x == Exponential(c, s, r)
      value == Significant(F, ints, fraction, x.e - noughts)
  IN  IF ~lead /\ ints = <<>> /\ fraction = <<>> /\ noughts = 0 THEN Junk
      ELSE IF ~x.ok \/ ~Clean(c, s, x.at) THEN Junk
      ELSE Number(Negated(F, negative, value),
                  (IF x.cut THEN x.at ELSE End(c, s, x.at)) - 1)

SymbolAt(c, s, i, text, d) ==
  LET end == i + Len(text)
  IN  IF SubSeq(s, i, end - 1) = text /\ Clean(c, s, end)
      THEN Number(d, (IF c.junk THEN end ELSE Past(s, end, IsBlank)) - 1)
      ELSE Junk

(* The number from i on, its sign read.                                    *)
UnsignedNumber(c, F, s, i, negative) ==
  LET lead == s[i] = Nought
      j == Past(s, i, IsNought)
      p == Past(s, j, IsDecimal)
      ints == SubSeq(s, j, p - 1)
      octal == /\ c.octals /\ lead /\ ints # <<>>
               /\ \A k \in DOMAIN ints : ints[k] < 56
  IN  IF c.symbols /\ s[i] = InfinityText[1]
        THEN SymbolAt(c, s, i, InfinityText, Negated(F, negative, Infinity(F)))
      ELSE IF c.symbols /\ s[i] = NaNText[1]
        THEN SymbolAt(c, s, i, NaNText, Negated(F, negative, NaN(F)))
      ELSE IF c.hex /\ lead /\ i < Len(s) /\ s[i + 1] \in {88, 120}
        THEN HexNumber(c, F, s, i + 2, negative)
      ELSE IF j > Len(s) THEN Number(Negated(F, negative, 0), Len(s))
      ELSE IF octal THEN OctalNumber(c, F, s, ints, p, negative)
      ELSE DecimalNumber(c, F, s, j, p, negative)

StringToIeee(c, F, s) ==
  LET n == Len(s)
      i == IF c.leading \/ c.trailing THEN Past(s, 1, IsBlank) ELSE 1
      signed == s[i] \in {Plus, Minus}
      j == IF signed THEN Past(s, i + 1, IsBlank) ELSE i
  IN  IF i > n THEN [is |-> "empty", d |-> 0, used |-> n]
      ELSE IF ~c.leading /\ i # 1 THEN Junk
      ELSE IF signed /\ (j > n \/ (~c.afterSign /\ j # i + 1)) THEN Junk
      ELSE UnsignedNumber(c, F, s, j, signed /\ s[i] = Minus)

-----------------------------------------------------------------------------
(* to<double>: the number at the front of src and what follows it, or no   *)
(* result where the code throws.                                           *)
Upper(c) == IF c \in 97 .. 122 THEN c - 32 ELSE c
StartsWith(s, text) == /\ Len(text) =< Len(s)
                       /\ \A i \in DOMAIN text : Upper(s[i]) = Upper(text[i])
Drop(s, n) == SubSeq(s, n + 1, Len(s))

ToDouble(src) ==
  LET x == StringToIeee(Reader, Double, src)
      s == Drop(src, Past(src, 1, IsBlank) - 1)
      negative == s # <<>> /\ s[1] = Minus
      t == IF negative THEN Tail(s) ELSE s
      inf == SubSeq(InfinityText, 1, 3)
      found(d, n) == <<[d |-> Negated(Double, negative, d),
                        rest |-> Drop(t, n)]>>
  IN  IF src = <<>> THEN <<>>
      ELSE IF x.is # "junk" THEN <<[d |-> x.d, rest |-> Drop(src, x.used)]>>
      ELSE IF StartsWith(t, InfinityText) THEN found(Infinity(Double), 8)
      ELSE IF StartsWith(t, inf) THEN found(Infinity(Double), 3)
      ELSE IF StartsWith(t, NaNText) THEN found(NaN(Double), 3)
      ELSE <<>>

(* With nothing but whitespace after it.                                   *)
ToDoubleWhole(s) ==
  LET x == ToDouble(s)
  IN  IF x # <<>> /\ \A i \in DOMAIN x[1].rest : IsBlank(x[1].rest[i])
      THEN <<x[1].d>> ELSE <<>>

-----------------------------------------------------------------------------
IsNumber(v) == ~IsSpecial(Double, v) \/ Magnitude(Double, v) = Infinity(Double)

(* A number's text, in any of the writers' forms, reads back as the number *)
(* - its sign too, where zero keeps one - and fits the space foreseen.     *)
WrittenRight(v) ==
  LET t == ToShortestIeeeNumber(Writer, Double, v)
      ecma == ToShortestIeeeNumber(EcmaScript, Double, v)
      e == ToExponential(Writer, v, -1)
  IN  IsNumber(v) =>
        /\ ToDoubleWhole(t) = <<v>>
        /\ ToDoubleWhole(e) = <<v>>
        /\ ToDoubleWhole(ecma) = <<IF v = SignBit(Double) THEN 0 ELSE v>>
        /\ ~IsSpecial(Double, v) => Len(t) =< EstimateSpaceNeeded(v)

(* What a text without blanks says: sign, digits, the digits after the     *)
(* point and the exponent, by where its point and its exponent stand.      *)
Says(t) ==
  LET signed == t # <<>> /\ t[1] \in {Plus, Minus}
      e == CHOOSE i \in 1 .. Len(t) + 1 :
             /\ i =< Len(t) => t[i] \in {69, 101}
             /\ \A j \in 1 .. i - 1 : t[j] \notin {69, 101}
      p == CHOOSE i \in 1 .. e : /\ i < e => t[i] = Point
                                 /\ \A j \in 1 .. i - 1 : t[j] # Point
      first == IF signed THEN 2 ELSE 1
      digits == SubSeq(t, first, p - 1) \o SubSeq(t, p + 1, e - 1)
      minus == e < Len(t) /\ t[e + 1] = Minus
      power == SelectSeq(Drop(t, e), IsDecimal)
      num == IntOf([i \in DOMAIN power |-> power[i] - 48])
  IN  [negative |-> signed /\ t[1] = Minus,
       ds |-> [i \in DOMAIN digits |-> digits[i] - 48],
       after |-> IF p < e THEN e - p - 1 ELSE 0,
       e |-> IF minus THEN 0 - num ELSE num]

(* Fixed and precise texts are the rounded number: as many digits after    *)
(* the point, or in all, as asked for.  A nought may fill up an integer.   *)
RoundedRight(v, n) ==
  LET f == ToFixed(Writer, v, n)
      p == ToPrecision(Writer, v, n)
      fixed == Says(f)
      precise == Says(p)
      ds == TrimLeadingZeros(precise.ds)
      m == Magnitude(Double, v)
  IN  ~IsSpecial(Double, v) =>
        /\ f # <<>> => /\ fixed.after = n
                       /\ RoundedTo(m, IntOf(fixed.ds), 0 - n)
        /\ p # <<>> /\ m # 0 =>
             /\ Len(ds) - n \in {0, 1}
             /\ RoundedTo(m, IntOf(SubSeq(ds, 1, n)),
                          precise.e - precise.after + Len(ds) - n)

(* What is read of a text is a number, spaces before it; the result is the *)
(* nearest to what it says.  A digit more would have been read.            *)
ReadRight(s) ==
  LET x == StringToIeee(Reader, Double, s)
      b == Past(s, 1, IsBlank)
      said == Says(SubSeq(s, b, x.used))
  IN  x.is = "number" =>
        /\ \A i \in DOMAIN said.ds : said.ds[i] \in 0 .. 9
        /\ said.ds # <<>>
        /\ IsNearestTo(Double, Magnitude(Double, x.d), said.ds,
                       said.e - said.after)
        /\ (Sign(Double, x.d) < 0) <=> said.negative
        /\ x.used < Len(s) => ~IsDecimal(s[x.used + 1])

(* A reader that allows nothing around the number reads the same numbers,  *)
(* all of the text or none of it.                                          *)
Strict == [Reader EXCEPT !.leading = FALSE, !.junk = FALSE]
StrictRight(s) ==
  LET x == StringToIeee(Strict, Double, s)
      y == StringToIeee(Reader, Double, s)
      whole == /\ y.is = "number" /\ y.used = Len(s)
               /\ s # <<>> => ~IsBlank(s[1]) /\ s[Len(s)] \in 46 .. 57
  IN  /\ x.is = "number" => x = y /\ x.used = Len(s)
      /\ whole => x = y

(* Hexadecimal and octal digits too give the nearest number.               *)
RadixRight(log2, ds) ==
  LET prefix == IF log2 = 4 THEN <<Nought, 120>> ELSE <<Nought>>
      char(d) == IF d < 10 THEN 48 + d ELSE 87 + d
      c == [Strict EXCEPT !.hex = TRUE, !.octals = TRUE]
      text == prefix \o [i \in DOMAIN ds |-> char(ds[i])]
      value[n \in 0 .. Len(ds)] ==
        IF n = 0 THEN 0 ELSE value[n - 1] * 2^log2 + ds[n]
  IN  ds # <<>> => \A F \in {Double, Single} :
        LET x == StringToIeee(c, F, text)
        IN  /\ x.is = "number" /\ x.used = Len(text)
            /\ IsNearestTo(F, x.d, DigitsOf(value[Len(ds)]), 0)

=============================================================================
