----------------------------- MODULE ModLemmas -----------------------------
(***************************************************************************)
(* Facts about % with a modulus that is not a literal, for turns that wrap *)
(* around and for wakeup channels.                                         *)
(***************************************************************************)
EXTENDS Integers, TLAPS

(* A positive multiple of C is at least C.                                 *)
LEMMA MultipleGe ==
  ASSUME NEW C \in Nat \ {0}, NEW k \in Int, k >= 1
  PROVE  C * k >= C
OBVIOUS

(* The remainder is the only one there is.                                 *)
LEMMA ModUnique ==
  ASSUME NEW C \in Nat \ {0}, NEW q \in Int, NEW r \in 0..(C - 1)
  PROVE  (C * q + r) % C = r
<1> DEFINE x == C * q + r
           p == x \div C
           m == x % C
<1>1. x \in Int /\ C * q \in Int
  OBVIOUS
<1>2. m \in 0..(C - 1) /\ p \in Int /\ x = C * p + m
  BY <1>1
<1> HIDE DEF p, m
<1>3. C * (q - p) = m - r /\ C * (p - q) = r - m
  BY <1>2
<1>4. CASE q - p >= 1
  <2>1. C * (q - p) >= C
    BY <1>2, <1>4, MultipleGe
  <2> QED  BY <1>2, <1>3, <2>1
<1>5. CASE p - q >= 1
  <2>1. C * (p - q) >= C
    BY <1>2, <1>5, MultipleGe
  <2> QED  BY <1>2, <1>3, <2>1
<1>6. CASE p = q
  BY <1>2, <1>6 DEF m
<1> QED  BY <1>2, <1>4, <1>5, <1>6

(* Adding a multiple changes nothing.                                      *)
LEMMA ModShift ==
  ASSUME NEW C \in Nat \ {0}, NEW x \in Int, NEW k \in Int
  PROVE  (x + C * k) % C = x % C
<1> DEFINE p == x \div C
           m == x % C
<1>1. m \in 0..(C - 1) /\ p \in Int /\ x = C * p + m
  OBVIOUS
<1> HIDE DEF p, m
<1>2. x + C * k = C * (p + k) + m
  BY <1>1
<1>3. (C * (p + k) + m) % C = m
  BY <1>1, ModUnique
<1> QED  BY <1>2, <1>3 DEF m

(* The next number's remainder.                                            *)
LEMMA ModSucc ==
  ASSUME NEW C \in Nat \ {0}, NEW x \in Int
  PROVE  (x + 1) % C = IF x % C = C - 1 THEN 0 ELSE (x % C) + 1
<1> DEFINE q == x \div C
           m == x % C
<1>1. m \in 0..(C - 1) /\ q \in Int /\ x = C * q + m
  OBVIOUS
<1> HIDE DEF q, m
<1>2. CASE m = C - 1
  <2>1. x + 1 = C * (q + 1) + 0
    BY <1>1, <1>2
  <2>2. (C * (q + 1) + 0) % C = 0
    BY <1>1, ModUnique
  <2> QED  BY <1>2, <2>1, <2>2 DEF m
<1>3. CASE m # C - 1
  <2>1. x + 1 = C * q + (m + 1) /\ m + 1 \in 0..(C - 1)
    BY <1>1, <1>3
  <2>2. (C * q + (m + 1)) % C = m + 1
    BY <1>1, <2>1, ModUnique
  <2> QED  BY <1>3, <2>1, <2>2 DEF m
<1> QED  BY <1>2, <1>3

(* A remainder is no larger than the number.                               *)
LEMMA ModLe ==
  ASSUME NEW C \in Nat \ {0}, NEW x \in Nat
  PROVE  x % C <= x /\ x % C \in 0..(C - 1)
<1>1. x % C \in 0..(C - 1)
  OBVIOUS
<1>2. CASE x < C
  BY <1>2
<1>3. CASE x >= C
  BY <1>1, <1>3
<1> QED  BY <1>1, <1>2, <1>3

(* Subtracting a remainder instead of the number.                          *)
LEMMA ModDiff ==
  ASSUME NEW C \in Nat \ {0}, NEW x \in Int, NEW y \in Int
  PROVE  (x - (y % C)) % C = (x - y) % C
<1> DEFINE p == y \div C
           m == y % C
<1>1. m \in Int /\ p \in Int /\ y = C * p + m
  OBVIOUS
<1> HIDE DEF p, m
<1>2. x - m = (x - y) + C * p /\ x - y \in Int
  BY <1>1
<1>3. ((x - y) + C * p) % C = (x - y) % C
  BY <1>1, <1>2, ModShift
<1> QED  BY <1>2, <1>3 DEF m

(* Adding a remainder instead of the number.                               *)
LEMMA ModSum ==
  ASSUME NEW C \in Nat \ {0}, NEW x \in Int, NEW y \in Int
  PROVE  (x + (y % C)) % C = (x + y) % C
<1> DEFINE p == y \div C
           m == y % C
<1>1. m \in Int /\ p \in Int /\ y = C * p + m
  OBVIOUS
<1> HIDE DEF p, m
<1>2. x + y = (x + m) + C * p /\ x + m \in Int
  BY <1>1
<1>3. ((x + m) + C * p) % C = (x + m) % C
  BY <1>1, <1>2, ModShift
<1> QED  BY <1>2, <1>3 DEF m

(* Numbers whose difference is a multiple have the same remainder.         *)
LEMMA ModSame ==
  ASSUME NEW C \in Nat \ {0}, NEW x \in Int, NEW y \in Int, (x - y) % C = 0
  PROVE  x % C = y % C
<1> DEFINE k == (x - y) \div C
<1>1. k \in Int /\ x - y = C * k + ((x - y) % C)
  OBVIOUS
<1> HIDE DEF k
<1>2. x = y + C * k
  BY <1>1
<1> QED  BY <1>1, <1>2, ModShift

(* Numbers less than C apart are told apart by their remainders.           *)
LEMMA ModApart ==
  ASSUME NEW C \in Nat \ {0}, NEW x \in Int, NEW y \in Int,
         0 <= x - y, x - y < C, x % C = y % C
  PROVE  x = y
<1>1. (x - (y % C)) % C = (x - y) % C /\ (x - (x % C)) % C = (x - x) % C
  BY ModDiff
<1>2. (x - y) % C = x - y /\ 0 % C = 0
  OBVIOUS
<1> QED  BY <1>1, <1>2

=============================================================================
