----------------------- MODULE SharedMutexInvariant -----------------------
(***************************************************************************)
(* The inductive invariant of SharedMutex, with either priority, for every *)
(* finite set of threads and of slots, and the steps of readers and of     *)
(* waiting threads that keep it; SharedMutexProofs has the other steps and *)
(* the theorems.                                                           *)
(*                                                                         *)
(* What keeps a writer alone is a count: the readers in the word, less the *)
(* ones it owes to slots, are those that have a shared lock or are about   *)
(* to give one back.  When a writer has been through the slots, every      *)
(* record in them belongs to a thread that will take it back, so that a    *)
(* count of zero leaves no reader.                                         *)
(***************************************************************************)
EXTENDS SharedMutex, Sequences, ModLemmas, FiniteSetTheorems, TLAPS

-----------------------------------------------------------------------------
(* The state, by what matters for safety *)

WordType ==
  [s : 0..(Readers - 1), mayDefer : BOOLEAN, prevDefer : BOOLEAN,
   hasE : BOOLEAN, begunE : BOOLEAN, hasU : BOOLEAN, waitNotS : BOOLEAN,
   waitE : 0..2, waitU : BOOLEAN, waitS : BOOLEAN]

Places == {"idle", "S", "U", "E", "lock", "apply", "drain", "upgrade",
           "shared", "slot", "check", "release", "search", "decrement"}
Waking == {"wake one", "clear", "wake all"}
Tokens == {None, "token", "less", "inline"} \cup Table

ThreadType ==
  [at : Places \cup Waking, token : Tokens, slot : Table \cup {None},
   seen : SUBSET Table, moved : Nat, up : BOOLEAN,
   mask : SUBSET {"NotS", "E", "U", "S"}, back : Places \ {"apply"},
   sleep : {"no", "about", "asleep"}, old : Seq(WordType)]

(* A thread that wakes others is where it goes afterwards; sleeping does   *)
(* not matter.                                                             *)
CoreType ==
  [at : Places, token : Tokens, slot : Table \cup {None}, seen : SUBSET Table,
   moved : Nat, up : BOOLEAN, back : Places]

Core(x) ==
  [at |-> IF x.at \in Waking THEN x.back ELSE x.at, token |-> x.token,
   slot |-> x.slot, seen |-> x.seen, moved |-> x.moved, up |-> x.up,
   back |-> IF x.at \in Waking THEN "idle" ELSE x.back]

core == [t \in Users |-> Core(th[t])]

SlotType == [Table -> {None, "token", "less"}]

-----------------------------------------------------------------------------
(* The inductive invariant, of a word w, slots sl and threads c *)

(* What a thread carries through a call.                                   *)
Flow(x) ==
  /\ x.at \in {"check", "slot"}
       => x.slot \in Table /\ x.token \in {"token", "less"}
  /\ x.at = "shared" => x.token \in {"token", "less"}
  /\ x.at = "release" => x.slot \in Table
  /\ x.at \in {"release", "search", "decrement"} =>
       x.back = "idle" \/ (x.back = "shared" /\ x.token \in {"token", "less"})
  /\ x.at = "apply" =>
       /\ x.back \in {"E", "drain"} /\ (x.back = "E" => ~ReaderPriority)
       /\ x.moved <= Cardinality(x.seen)
  /\ x.at \notin {"release", "search", "decrement", "apply"}
       => x.back = "idle"
  /\ x.at \notin {"search", "apply"} => x.seen = {}
  /\ x.at # "apply" => x.moved = 0

(* A thread with the bits of a writer, or of an upgrader.                  *)
Wr(x) == x.at \in {"apply", "drain", "E"}
Up(x) == x.at = "U" \/ (x.at = "lock" /\ x.up)

(* These bits belong to one thread, and exclude each other and deferral.   *)
Solo(w, c) ==
  /\ \A t, v \in Users : Wr(c[t]) /\ Wr(c[v]) => t = v
  /\ \A t, v \in Users : Up(c[t]) /\ Up(c[v]) => t = v
  /\ w.hasE \/ w.begunE <=> \E t \in Users : Wr(c[t])
  /\ w.hasU <=> \E t \in Users : Up(c[t])
  /\ w.hasE \/ w.begunE => ~w.hasU /\ ~w.mayDefer
  /\ w.begunE => ReaderPriority
  /\ w.prevDefer \/ w.waitNotS => w.hasE \/ w.begunE
  /\ \A t \in Users : c[t].at = "E" => w.hasE /\ ~w.begunE

(* Thread x will find the record r in slot j and take it back.             *)
Owns(x, r, j) ==
  /\ x.slot = j
  /\ \/ x.at = "check" /\ x.token = r
     \/ x.at = "release" /\ r = "token"
     \/ x.at = "search" /\ r = "less" /\ j \notin x.seen

(* Where deferral is off and a writer has been, every record has an owner. *)
Owned(w, sl, c) ==
  \A j \in Table : sl[j] # None =>
    \/ w.mayDefer
    \/ \E v \in Users : c[v].at = "apply" /\ j \notin c[v].seen
    \/ \E y \in Users : Owns(c[y], sl[j], j)

(* A record with a token has a thread that holds the token.                *)
HasToken(x, j) ==
  \/ x.at = "S" /\ x.token = j
  \/ x.at = "check" /\ x.token = "token" /\ x.slot = j
  \/ x.at = "release" /\ x.slot = j

TokensHeld(sl, c) ==
  \A j \in Table : sl[j] = "token" => \E y \in Users : HasToken(c[y], j)

Gives(x) == x.at \in {"S", "check", "release", "search", "decrement"}
NC(c) == {t \in Users : Gives(c[t])}
NR(sl) == {j \in Table : sl[j] # None}
Diff(sl, c) == Cardinality(NC(c)) - Cardinality(NR(sl))

(* The count in the word makes up for what the slots do not record.        *)
Counts(w, sl, c) ==
  /\ \A t \in Users : c[t].at = "apply" =>
       /\ w.s = (Diff(sl, c) - c[t].moved) % Readers
       /\ c[t].back = "E" => Diff(sl, c) <= c[t].moved
  /\ (\A t \in Users : c[t].at # "apply") => w.s = Diff(sl, c) % Readers
  /\ \A t \in Users : c[t].at = "E" => Diff(sl, c) = 0

Types(w, sl, c) ==
  w \in WordType /\ sl \in SlotType /\ c \in [Users -> CoreType]

LockInv(w, sl, c) ==
  /\ Types(w, sl, c)
  /\ \A t \in Users : Flow(c[t])
  /\ Solo(w, c) /\ Owned(w, sl, c) /\ TokensHeld(sl, c) /\ Counts(w, sl, c)

IInv == th \in [Users -> ThreadType] /\ LockInv(word, slots, core)

(* Thread t goes to x.                                                     *)
Moves(c, t, x, d) ==
  /\ c \in [Users -> CoreType] /\ x \in CoreType
  /\ d = [c EXCEPT ![t] = x]

(* The others stay where they are.                                         *)
LEMMA MovesOne ==
  ASSUME NEW c, NEW t \in Users, NEW x, NEW d, Moves(c, t, x, d)
  PROVE  /\ c \in [Users -> CoreType] /\ x \in CoreType
         /\ d \in [Users -> CoreType] /\ d[t] = x
         /\ \A v \in Users : v # t => d[v] = c[v]
BY DEF Moves

-----------------------------------------------------------------------------
(* Counting *)

(* The sets that are counted are finite.                                   *)
LEMMA Finite ==
  ASSUME Sizes, NEW sl, NEW c
  PROVE  /\ IsFiniteSet(NC(c)) /\ IsFiniteSet(NR(sl))
         /\ Cardinality(NC(c)) \in Nat /\ Cardinality(NR(sl)) \in Nat
         /\ Cardinality(NC(c)) < Readers
         /\ Diff(sl, c) \in Int /\ Diff(sl, c) < Readers
         /\ Readers \in Nat \ {0}
<1>1. NC(c) \in SUBSET Users /\ NR(sl) \in SUBSET Table
  BY DEF NC, NR
<1>2. /\ IsFiniteSet(NC(c)) /\ IsFiniteSet(NR(sl))
      /\ Cardinality(NC(c)) <= Cardinality(Users)
  BY <1>1, FS_Subset DEF Sizes
<1>3. /\ Cardinality(NC(c)) \in Nat /\ Cardinality(NR(sl)) \in Nat
      /\ Cardinality(Users) \in Nat
  BY <1>2, FS_CardinalityType DEF Sizes
<1> QED  BY <1>2, <1>3 DEF Diff, Sizes

(* A record more, or less, changes the difference by one.                  *)
LEMMA RecordAdded ==
  ASSUME Sizes, NEW sl \in SlotType, NEW c, NEW j \in Table,
         NEW r \in {"token", "less"}, sl[j] = None
  PROVE  /\ Diff([sl EXCEPT ![j] = r], c) = Diff(sl, c) - 1
         /\ [sl EXCEPT ![j] = r] \in SlotType
<1> DEFINE d == [sl EXCEPT ![j] = r]
<1>1. NR(d) = NR(sl) \cup {j} /\ j \notin NR(sl) /\ d \in SlotType
  BY DEF NR, SlotType, None
<1>2. Cardinality(NR(d)) = Cardinality(NR(sl)) + 1
  BY Zenon, <1>1, Finite, FS_AddElement
<1> QED  BY <1>1, <1>2, Finite DEF Diff

LEMMA RecordRemoved ==
  ASSUME Sizes, NEW sl \in SlotType, NEW c, NEW j \in Table
  PROVE  /\ Diff([sl EXCEPT ![j] = None], c) =
              IF sl[j] = None THEN Diff(sl, c) ELSE Diff(sl, c) + 1
         /\ [sl EXCEPT ![j] = None] \in SlotType
<1> DEFINE d == [sl EXCEPT ![j] = None]
<1>1. NR(d) = NR(sl) \ {j} /\ (j \in NR(sl) <=> sl[j] # None) /\ d \in SlotType
  BY DEF NR, SlotType, None
<1>2. Cardinality(NR(d)) = IF sl[j] = None THEN Cardinality(NR(sl))
                           ELSE Cardinality(NR(sl)) - 1
  BY Zenon, <1>1, Finite, FS_RemoveElement
<1> QED  BY <1>1, <1>2, Finite DEF Diff

(* So does a thread that comes to hold a shared lock, or gives one back.   *)
LEMMA ThreadStays ==
  ASSUME Sizes, NEW sl, NEW c, NEW t \in Users, NEW x, NEW d, Moves(c, t, x, d),
         Gives(x) <=> Gives(c[t])
  PROVE  Diff(sl, d) = Diff(sl, c)
<1>1. NC(d) = NC(c)
  BY MovesOne DEF NC
<1> QED  BY <1>1 DEF Diff

LEMMA ThreadJoins ==
  ASSUME Sizes, NEW sl, NEW c, NEW t \in Users, NEW x, NEW d, Moves(c, t, x, d),
         Gives(x), ~Gives(c[t])
  PROVE  Diff(sl, d) = Diff(sl, c) + 1
<1>1. NC(d) = NC(c) \cup {t} /\ t \notin NC(c)
  BY MovesOne DEF NC
<1>2. Cardinality(NC(d)) = Cardinality(NC(c)) + 1
  BY Zenon, <1>1, Finite, FS_AddElement
<1> QED  BY <1>2, Finite DEF Diff

LEMMA ThreadLeaves ==
  ASSUME Sizes, NEW sl, NEW c, NEW t \in Users, NEW x, NEW d, Moves(c, t, x, d),
         ~Gives(x), Gives(c[t])
  PROVE  Diff(sl, d) = Diff(sl, c) - 1
<1>1. NC(d) = NC(c) \ {t} /\ t \in NC(c)
  BY MovesOne DEF NC
<1>2. Cardinality(NC(d)) = Cardinality(NC(c)) - 1
  BY <1>1, Finite, FS_RemoveElement
<1> QED  BY <1>2, Finite DEF Diff

(* If every record has an owner, no fewer threads are counted than slots   *)
(* hold records; if as many are, each of them owns a record.               *)
LEMMA Owners ==
  ASSUME Sizes, NEW sl \in SlotType, NEW c \in [Users -> CoreType],
         \A j \in Table : sl[j] # None => \E y \in Users : Owns(c[y], sl[j], j)
  PROVE  /\ Diff(sl, c) >= 0
         /\ Diff(sl, c) = 0 => \A t \in Users : Gives(c[t]) =>
                                 /\ c[t].at \in {"check", "release", "search"}
                                 /\ c[t].slot \in Table
                                 /\ Owns(c[t], sl[c[t].slot], c[t].slot)
<1> DEFINE O == {t \in NC(c) : /\ c[t].slot \in NR(sl)
                               /\ Owns(c[t], sl[c[t].slot], c[t].slot)}
           f == [t \in O |-> c[t].slot]
<1>1. \A y \in Users, j \in NR(sl) : Owns(c[y], sl[j], j) => y \in O /\ f[y] = j
  BY DEF Owns, NC, Gives
<1>2. f \in [O -> NR(sl)]
  OBVIOUS
<1>3. \A j \in NR(sl) : \E y \in O : f[y] = j
  BY Zenon, <1>1 DEF NR
<1>4. f \in Surjection(O, NR(sl))
  BY <1>2, <1>3 DEF Surjection
<1>5. O \in SUBSET NC(c)
  OBVIOUS
<1>6. \A t \in O : /\ c[t].at \in {"check", "release", "search"}
                    /\ c[t].slot \in Table
                    /\ Owns(c[t], sl[c[t].slot], c[t].slot)
  BY DEF Owns, NR
<1> HIDE DEF O, f
<1>7. /\ IsFiniteSet(O) /\ Cardinality(O) <= Cardinality(NC(c))
      /\ Cardinality(NC(c)) = Cardinality(O) => NC(c) = O
  BY <1>5, Finite, FS_Subset
<1>8. Cardinality(NR(sl)) <= Cardinality(O) /\ Cardinality(O) \in Nat
  BY <1>4, <1>7, FS_Surjection, FS_CardinalityType
<1>9. /\ Diff(sl, c) >= 0
      /\ Diff(sl, c) = 0 => NC(c) = O
  BY <1>7, <1>8, Finite DEF Diff
<1> QED  BY <1>6, <1>9 DEF NC

-----------------------------------------------------------------------------
(* Steps that leave a part of the invariant alone: thread t goes to x *)

(* A thread that neither gains nor loses the bits of a writer or upgrader. *)
LEMMA SoloKeep ==
  ASSUME NEW w \in WordType, NEW w2 \in WordType, NEW c, NEW t \in Users, NEW x, NEW d,
         Moves(c, t, x, d), Solo(w, c),
         Wr(x) <=> Wr(c[t]), Up(x) <=> Up(c[t]),
         x.at = "E" => c[t].at = "E",
         w2.hasE = w.hasE, w2.begunE = w.begunE, w2.hasU = w.hasU,
         w2.prevDefer = w.prevDefer,
         w2.waitNotS => w.waitNotS \/ w.hasE \/ w.begunE,
         w2.mayDefer => w.mayDefer \/ ~(w.hasE \/ w.begunE)
  PROVE  Solo(w2, d)
<1>1. /\ d[t] = x /\ \A v \in Users : v # t => d[v] = c[v]
      /\ c \in [Users -> CoreType]
  BY MovesOne
<1>2. \A v \in Users : /\ Wr(d[v]) <=> Wr(c[v])
                       /\ Up(d[v]) <=> Up(c[v])
                       /\ d[v].at = "E" => c[v].at = "E"
  BY <1>1
<1> QED  BY <1>2 DEF Solo

(* A thread that owned no record.                                          *)
LEMMA OwnedKeep ==
  ASSUME NEW w, NEW w2, NEW sl, NEW c, NEW t \in Users, NEW x, NEW d,
         Moves(c, t, x, d), Owned(w, sl, c), w.mayDefer => w2.mayDefer,
         c[t].at \notin {"check", "release", "search", "apply"}
  PROVE  Owned(w2, sl, d)
<1>1. /\ d[t] = x /\ \A v \in Users : v # t => d[v] = c[v]
      /\ c \in [Users -> CoreType]
  BY MovesOne
<1>2. \A v \in Users : /\ \A r, j : Owns(c[v], r, j) => Owns(d[v], r, j)
                       /\ c[v].at = "apply" => d[v] = c[v]
  BY <1>1 DEF Owns
<1> QED  BY <1>2 DEF Owned

(* A thread that had no token of a slot.                                   *)
LEMMA TokensKeep ==
  ASSUME NEW sl, NEW c, NEW t \in Users, NEW x, NEW d,
         Moves(c, t, x, d), TokensHeld(sl, c),
         \A j \in Table : HasToken(c[t], j) /\ sl[j] = "token" => HasToken(x, j)
  PROVE  TokensHeld(sl, d)
<1>1. /\ d[t] = x /\ \A v \in Users : v # t => d[v] = c[v]
      /\ c \in [Users -> CoreType]
  BY MovesOne
<1> QED  BY <1>1 DEF TokensHeld

(* A count modulo N changes as the number does.                            *)
LEMMA CountShift ==
  ASSUME NEW N \in Nat \ {0}, NEW D \in Int, NEW D2 \in Int,
         NEW k \in Int, NEW m \in Int, NEW s, NEW s2, D2 = D + k,
         s = (D - m) % N, s2 = (s + k) % N
  PROVE  s2 = (D2 - m) % N
<1> DEFINE e == D - m
<1>1. e \in Int /\ D2 - m = k + e
  OBVIOUS
<1> HIDE DEF e
<1>2. (k + (e % N)) % N = (k + e) % N
  BY Zenon, <1>1, ModSum
<1>3. s = e % N /\ s \in Int
  BY <1>1 DEF e
<1>4. \A i, j \in Int : i + j = j + i
  OBVIOUS
<1>5. s + k = k + s
  BY <1>3, <1>4
<1> QED  BY <1>1, <1>2, <1>3, <1>5, Zenon

LEMMA CountBack ==
  ASSUME NEW N \in Nat \ {0}, NEW D \in Int, NEW m \in Int, NEW s, NEW s2,
         s = (D - m) % N, s2 = (s + m) % N
  PROVE  s2 = D % N
<1> DEFINE e == D - m
<1>1. e \in Int /\ m + e = D
  OBVIOUS
<1> HIDE DEF e
<1>2. (m + (e % N)) % N = (m + e) % N
  BY Zenon, <1>1, ModSum
<1>3. s = e % N /\ s \in Int
  BY <1>1 DEF e
<1>4. \A i, j \in Int : i + j = j + i
  OBVIOUS
<1>5. s + m = m + s
  BY <1>3, <1>4
<1> QED  BY <1>1, <1>2, <1>3, <1>5, Zenon

(* The count and the difference change alike, and no writer relies on it.  *)
LEMMA CountsKeep ==
  ASSUME Sizes, NEW w \in WordType, NEW w2, NEW sl, NEW sl2,
         NEW c, NEW t \in Users, NEW x, NEW d, NEW k \in Int,
         Moves(c, t, x, d), Counts(w, sl, c),
         x.at \notin {"apply", "E"}, c[t].at # "apply",
         w2.s = (w.s + k) % Readers, Diff(sl2, d) = Diff(sl, c) + k,
         \/ k = 0
         \/ \A v \in Users : v # t =>
              c[v].at # "E" /\ (k < 0 \/ c[v].at # "apply" \/ c[v].back # "E")
  PROVE  Counts(w2, sl2, d)
<1>1. /\ d[t] = x /\ \A v \in Users : v # t => d[v] = c[v]
      /\ c \in [Users -> CoreType]
  BY MovesOne
<1> DEFINE D == Diff(sl, c)
           D2 == Diff(sl2, d)
<1>2. D \in Int /\ D2 \in Int /\ D2 = D + k /\ Readers \in Nat \ {0}
  BY Finite
<1>3. \A v \in Users : c[v].moved \in Nat
  BY <1>1 DEF CoreType
<1>4. ASSUME NEW m \in Int, w.s = (D - m) % Readers
      PROVE  w2.s = (D2 - m) % Readers
  BY <1>2, <1>4, CountShift
<1> HIDE DEF D, D2
<1>5. ASSUME NEW v \in Users, d[v].at = "apply"
      PROVE  /\ w2.s = (D2 - d[v].moved) % Readers
             /\ d[v].back = "E" => D2 <= d[v].moved
  <2>1. d[v] = c[v] /\ c[v].at = "apply" /\ v # t
    BY <1>1, <1>5
  <2>2. w.s = (D - c[v].moved) % Readers /\ (c[v].back = "E" => D <= c[v].moved)
    BY <2>1 DEF Counts, D
  <2>3. c[v].back = "E" => k <= 0
    BY <2>1
  <2>4. w2.s = (D2 - c[v].moved) % Readers
    BY <1>3, <1>4, <2>2
  <2>5. c[v].back = "E" /\ D <= c[v].moved => D2 <= c[v].moved
    BY <1>2, <1>3, <2>3
  <2> QED  BY <2>1, <2>2, <2>4, <2>5
<1>6. ASSUME \A v \in Users : d[v].at # "apply"
      PROVE  w2.s = D2 % Readers
  <2>1. w.s = D % Readers
    BY <1>1, <1>6 DEF Counts, D
  <2>2. D - 0 = D /\ D2 - 0 = D2
    BY <1>2
  <2>3. w.s = (D - 0) % Readers => w2.s = (D2 - 0) % Readers
    BY <1>4
  <2> QED  BY <2>1, <2>2, <2>3
<1>7. ASSUME NEW v \in Users, d[v].at = "E"
      PROVE  D2 = 0
  <2>1. v # t /\ c[v].at = "E"
    BY <1>1, <1>7
  <2>2. k = 0 /\ D = 0
    BY <2>1 DEF Counts, D
  <2> QED  BY <1>2, <2>2
<1> QED  BY <1>5, <1>6, <1>7 DEF Counts, D2

(* A writer that has been through the slots finds no reader when it finds  *)
(* the count zero.                                                         *)
LEMMA NoReaders ==
  ASSUME Sizes, NEW w, NEW sl, NEW c, LockInv(w, sl, c), ~w.mayDefer,
         \A v \in Users : c[v].at = "apply" => c[v].seen = Table
  PROVE  /\ Diff(sl, c) \in 0..(Readers - 1)
         /\ Diff(sl, c) = 0 => \A t \in Users : Gives(c[t]) =>
                                 /\ c[t].at \in {"check", "release", "search"}
                                 /\ c[t].slot \in Table
                                 /\ Owns(c[t], sl[c[t].slot], c[t].slot)
<1>1. sl \in SlotType /\ c \in [Users -> CoreType] /\ Owned(w, sl, c)
  BY DEF LockInv, Types
<1>2. \A j \in Table : sl[j] # None => \E y \in Users : Owns(c[y], sl[j], j)
  BY <1>1 DEF Owned
<1>3. Diff(sl, c) \in Int /\ Diff(sl, c) < Readers
  BY Finite
<1>4. /\ Diff(sl, c) >= 0
      /\ Diff(sl, c) = 0 => \A t \in Users : Gives(c[t]) =>
                              /\ c[t].at \in {"check", "release", "search"}
                              /\ c[t].slot \in Table
                              /\ Owns(c[t], sl[c[t].slot], c[t].slot)
  BY <1>1, <1>2, Owners
<1> QED  BY <1>3, <1>4, Finite

(* Once a writer has the lock, whoever is still counted owns a record: no  *)
(* thread has a shared lock, and none will decrement the count.            *)
LEMMA NoneDecrements ==
  ASSUME Sizes, NEW w, NEW sl, NEW c, LockInv(w, sl, c),
         NEW v \in Users, c[v].at = "E", NEW t \in Users
  PROVE  c[t].at \notin {"S", "decrement"}
<1>1. Solo(w, c) /\ Diff(sl, c) = 0
  BY DEF LockInv, Counts
<1>2. ~w.mayDefer /\ \A u \in Users : c[u].at # "apply"
  BY <1>1 DEF Solo, Wr
<1> QED  BY <1>1, <1>2, NoReaders DEF Gives

-----------------------------------------------------------------------------
(* Each kind of step keeps the invariant *)

KeepBits(w, w2) ==
  /\ w2.hasE = w.hasE /\ w2.begunE = w.begunE /\ w2.hasU = w.hasU
  /\ w2.prevDefer = w.prevDefer
  /\ w2.waitNotS => w.waitNotS \/ w.hasE \/ w.begunE

(* Announcing, sleeping and waking leave all that matters as it is.        *)
LEMMA QuietStep ==
  ASSUME NEW w, NEW w2 \in WordType, NEW sl, NEW c, LockInv(w, sl, c),
         KeepBits(w, w2), w2.s = w.s, w2.mayDefer = w.mayDefer
  PROVE  LockInv(w2, sl, c)
<1>1. Solo(w2, c)
  BY DEF LockInv, Solo, KeepBits
<1>2. Owned(w2, sl, c) /\ Counts(w2, sl, c)
  BY DEF LockInv, Owned, Counts
<1> QED  BY <1>1, <1>2 DEF LockInv, Types

(* No writer relies on the count while kHasE is not set.                   *)
LEMMA NotYet ==
  ASSUME NEW w, NEW sl, NEW c, LockInv(w, sl, c), ~w.hasE, NEW v \in Users
  PROVE  /\ c[v].at # "E"
         /\ c[v].at # "apply" \/ c[v].back # "E"
BY DEF LockInv, Solo, Flow, Wr

(* A step of a thread that neither gains nor loses the bits of a writer or *)
(* an upgrader.  It adds k to the count, and to the difference.            *)
LEMMA SharedStep ==
  ASSUME Sizes, NEW w, NEW w2 \in WordType, NEW sl, NEW sl2 \in SlotType,
         NEW c, LockInv(w, sl, c), NEW k \in Int,
         NEW t \in Users, NEW x, NEW d, Moves(c, t, x, d),
         ~Wr(c[t]), ~Wr(x), Up(x) <=> Up(c[t]), Flow(x), KeepBits(w, w2),
         w2.mayDefer => w.mayDefer \/ ~(w.hasE \/ w.begunE),
         w2.s = (w.s + k) % Readers, Diff(sl2, d) = Diff(sl, c) + k,
         k = 0 \/ ~w.hasE \/ (k < 0 /\ c[t].at = "decrement"),
         Owned(w2, sl2, d), TokensHeld(sl2, d)
  PROVE  LockInv(w2, sl2, d)
<1>1. /\ w \in WordType /\ c \in [Users -> CoreType] /\ Solo(w, c)
      /\ Counts(w, sl, c) /\ \A v \in Users : Flow(c[v])
  BY DEF LockInv, Types
<1>2. Solo(w2, d)
  BY <1>1, SoloKeep DEF KeepBits, Wr
<1>3. \/ k = 0
      \/ \A v \in Users : v # t =>
              c[v].at # "E" /\ (k < 0 \/ c[v].at # "apply" \/ c[v].back # "E")
  BY NoneDecrements, NotYet
<1>a. x.at \notin {"apply", "E"} /\ c[t].at # "apply"
  BY DEF Wr
<1>4. Counts(w2, sl2, d)
  BY <1>1, <1>3, <1>a, CountsKeep
<1>5. d \in [Users -> CoreType] /\ \A v \in Users : Flow(d[v])
  BY <1>1, MovesOne
<1> QED  BY <1>2, <1>4, <1>5 DEF LockInv, Types

(* A thread moves between places in which it has no lock and no record; it *)
(* may turn deferral on.                                                   *)
LEMMA AsideStep ==
  ASSUME Sizes, NEW w, NEW w2 \in WordType, NEW sl, NEW c, LockInv(w, sl, c),
         NEW t \in Users, NEW x, NEW d, Moves(c, t, x, d),
         {c[t].at, x.at} \subseteq {"idle", "lock", "U", "upgrade", "shared",
                                    "slot"},
         Up(x) <=> Up(c[t]), Flow(x), KeepBits(w, w2), w2.s = w.s,
         w2.mayDefer => w.mayDefer \/ ~(w.hasE \/ w.begunE),
         w.mayDefer => w2.mayDefer
  PROVE  LockInv(w2, sl, d)
<1>1. /\ w \in WordType /\ c \in [Users -> CoreType] /\ sl \in SlotType
      /\ Owned(w, sl, c) /\ TokensHeld(sl, c)
  BY DEF LockInv, Types
<1>2. Owned(w2, sl, d)
  BY <1>1, OwnedKeep
<1>3. TokensHeld(sl, d)
  BY <1>1, TokensKeep DEF HasToken
<1>4. Diff(sl, d) = Diff(sl, c) + 0 /\ w2.s = (w.s + 0) % Readers
  <2>1. Diff(sl, d) = Diff(sl, c) /\ Diff(sl, c) \in Int
    <3>1. ~Gives(x) /\ ~Gives(c[t])
      BY DEF Gives
    <3> QED  BY <1>1, <3>1, ThreadStays, Finite
  <2>2. w.s \in 0..(Readers - 1) /\ Readers \in Nat \ {0}
    BY <1>1, Finite DEF WordType
  <2> QED  BY <2>1, <2>2
<1>5. ~Wr(x) /\ ~Wr(c[t]) /\ 0 \in Int
  BY DEF Wr
<1> QED  BY <1>1, <1>2, <1>3, <1>4, <1>5, SharedStep

(* A reader is counted in the word.                                        *)
LEMMA InlineStep ==
  ASSUME Sizes, NEW w, NEW w2 \in WordType, NEW sl, NEW c, LockInv(w, sl, c),
         NEW t \in Users, NEW x, NEW d, Moves(c, t, x, d),
         c[t].at = "shared", x.at = "S", Flow(x), KeepBits(w, w2), ~w.hasE,
         w2.mayDefer = w.mayDefer, w2.s = (w.s + 1) % Readers
  PROVE  LockInv(w2, sl, d)
<1>1. /\ w \in WordType /\ sl \in SlotType
      /\ Owned(w, sl, c) /\ TokensHeld(sl, c)
  BY DEF LockInv, Types
<1>2. Owned(w2, sl, d)
  BY <1>1, OwnedKeep
<1>3. TokensHeld(sl, d)
  BY Zenon, <1>1, TokensKeep DEF HasToken
<1>4. Diff(sl, d) = Diff(sl, c) + 1
  <2>1. Gives(x) /\ ~Gives(c[t])
    BY DEF Gives
  <2> QED  BY <2>1, ThreadJoins
<1>5. ~Wr(x) /\ ~Wr(c[t]) /\ (Up(x) <=> Up(c[t])) /\ 1 \in Int
  BY DEF Wr, Up
<1> QED  BY <1>1, <1>2, <1>3, <1>4, <1>5, SharedStep

(* A reader, or a call that takes its record back, finds it in the word.   *)
LEMMA DecrementStep ==
  ASSUME Sizes, NEW w, NEW w2 \in WordType, NEW sl, NEW c, LockInv(w, sl, c),
         NEW t \in Users, NEW x, NEW d, Moves(c, t, x, d),
         c[t].at = "decrement", x.at \in {"idle", "shared"}, Flow(x),
         KeepBits(w, w2), w2.mayDefer = w.mayDefer,
         w2.s = (w.s + (-1)) % Readers
  PROVE  LockInv(w2, sl, d)
<1>1. /\ w \in WordType /\ sl \in SlotType
      /\ Owned(w, sl, c) /\ TokensHeld(sl, c)
  BY DEF LockInv, Types
<1>2. Owned(w2, sl, d)
  BY Zenon, <1>1, OwnedKeep
<1>3. TokensHeld(sl, d)
  BY Zenon, <1>1, TokensKeep DEF HasToken
<1>4. Diff(sl, d) = Diff(sl, c) + (-1)
  <2>1. ~Gives(x) /\ Gives(c[t])
    BY DEF Gives
  <2>2. Diff(sl, d) = Diff(sl, c) - 1
    BY <2>1, ThreadLeaves
  <2> QED  BY <2>2, Finite
<1>5. ~Wr(x) /\ ~Wr(c[t]) /\ (Up(x) <=> Up(c[t])) /\ -1 \in Int /\ -1 < 0
  BY DEF Wr, Up
<1> QED  BY <1>1, <1>2, <1>3, <1>4, <1>5, SharedStep

(* Nothing is added to the count.                                          *)
LEMMA CountPlusZero ==
  ASSUME Sizes, NEW w \in WordType, NEW sl, NEW c, NEW sl2, NEW d,
         Diff(sl2, d) = Diff(sl, c)
  PROVE  w.s = (w.s + 0) % Readers /\ Diff(sl2, d) = Diff(sl, c) + 0 /\ 0 \in Int
<1>1. w.s \in 0..(Readers - 1) /\ Readers \in Nat \ {0} /\ Diff(sl, c) \in Int
  BY Finite DEF WordType
<1> QED  BY <1>1

(* The same word keeps its bits.                                           *)
LEMMA SameBits ==
  ASSUME NEW w
  PROVE  KeepBits(w, w)
BY DEF KeepBits

(* A reader records itself in a slot.                                      *)
LEMMA TakeStep ==
  ASSUME Sizes, NEW w, NEW sl, NEW c, LockInv(w, sl, c),
         NEW t \in Users, NEW x, NEW d, Moves(c, t, x, d), NEW sl2,
         c[t].at = "slot", x.at = "check", Flow(x), sl[x.slot] = None,
         sl2 = [sl EXCEPT ![x.slot] = x.token]
  PROVE  LockInv(w, sl2, d)
<1>1. /\ w \in WordType /\ sl \in SlotType
      /\ Owned(w, sl, c) /\ TokensHeld(sl, c)
  BY DEF LockInv, Types
<1>2. x.slot \in Table /\ x.token \in {"token", "less"}
  BY DEF Flow
<1>3. /\ d[t] = x /\ \A v \in Users : v # t => d[v] = c[v]
  BY MovesOne
<1>4. /\ sl2[x.slot] = x.token
      /\ \A j \in Table : j # x.slot => sl2[j] = sl[j]
  BY <1>1, <1>2 DEF SlotType
<1>5. sl2 \in SlotType /\ Diff(sl2, d) = Diff(sl, d) - 1
  BY Zenon, <1>1, <1>2, RecordAdded
<1>6. Diff(sl2, d) = Diff(sl, c)
  <2>1. Gives(x) /\ ~Gives(c[t])
    BY DEF Gives
  <2>2. Diff(sl, d) = Diff(sl, c) + 1
    BY <2>1, ThreadJoins
  <2> QED  BY <1>5, <2>2, Finite
<1>7. Owned(w, sl2, d)
  <2>1. Owned(w, sl, d)
    BY <1>1, OwnedKeep
  <2>2. Owns(x, sl2[x.slot], x.slot)
    BY <1>4 DEF Owns
  <2> QED  BY <1>3, <1>4, <2>1, <2>2 DEF Owned
<1>8. TokensHeld(sl2, d)
  <2>1. TokensHeld(sl, d)
    BY Zenon, <1>1, TokensKeep DEF HasToken
  <2>2. x.token = "token" => HasToken(x, x.slot)
    BY DEF HasToken
  <2> QED  BY <1>3, <1>4, <2>1, <2>2 DEF TokensHeld
<1>9. /\ ~Wr(x) /\ ~Wr(c[t]) /\ (Up(x) <=> Up(c[t]))
      /\ w.mayDefer => w.mayDefer \/ ~(w.hasE \/ w.begunE)
  BY DEF Wr, Up
<1> QED  BY <1>1, <1>5, <1>6, <1>7, <1>8, <1>9, CountPlusZero, SameBits,
            SharedStep

(* A thread that is counted goes on without changing anything: it finds    *)
(* deferral still on, begins to unlock, or does not find its record.       *)
LEMMA CountedStep ==
  ASSUME Sizes, NEW w, NEW sl, NEW c, LockInv(w, sl, c),
         NEW t \in Users, NEW x, NEW d, Moves(c, t, x, d),
         Gives(c[t]), Gives(x), Flow(x),
         \A j \in Table : sl[j] # None /\ Owns(c[t], sl[j], j)
                            => w.mayDefer \/ Owns(x, sl[j], j),
         \A j \in Table : HasToken(c[t], j) /\ sl[j] = "token" => HasToken(x, j)
  PROVE  LockInv(w, sl, d)
<1>1. /\ w \in WordType /\ sl \in SlotType
      /\ Owned(w, sl, c) /\ TokensHeld(sl, c)
  BY DEF LockInv, Types
<1>2. /\ d[t] = x /\ \A v \in Users : v # t => d[v] = c[v]
  BY MovesOne
<1>3. /\ ~Wr(x) /\ ~Wr(c[t]) /\ (Up(x) <=> Up(c[t]))
      /\ w.mayDefer => w.mayDefer \/ ~(w.hasE \/ w.begunE)
  BY DEF Wr, Up, Gives
<1>4. Owned(w, sl, d)
  <2>1. \A v \in Users : c[v].at = "apply" => d[v] = c[v]
    BY <1>2, <1>3 DEF Wr
  <2> QED  BY <1>1, <1>2, <2>1 DEF Owned
<1>5. TokensHeld(sl, d)
  BY Zenon, <1>1, TokensKeep
<1>6. Diff(sl, d) = Diff(sl, c)
  BY Zenon, ThreadStays
<1> QED  BY <1>1, <1>3, <1>4, <1>5, <1>6, CountPlusZero, SameBits, SharedStep

(* A thread takes a record back, its own or one that is as good.           *)
LEMMA TakeBackStep ==
  ASSUME Sizes, NEW w, NEW sl, NEW c, LockInv(w, sl, c),
         NEW t \in Users, NEW x, NEW d, Moves(c, t, x, d),
         NEW j \in Table, NEW sl2, sl[j] # None, sl2 = [sl EXCEPT ![j] = None],
         c[t].at \in {"release", "search"}, x.at \in {"idle", "shared"}, Flow(x),
         \A i \in Table : i # j => ~Owns(c[t], sl[i], i) /\ ~HasToken(c[t], i)
  PROVE  LockInv(w, sl2, d)
<1>1. /\ w \in WordType /\ sl \in SlotType
      /\ Owned(w, sl, c) /\ TokensHeld(sl, c)
  BY DEF LockInv, Types
<1>2. /\ d[t] = x /\ \A v \in Users : v # t => d[v] = c[v]
  BY MovesOne
<1>3. /\ sl2[j] = None
      /\ \A i \in Table : i # j => sl2[i] = sl[i]
  BY <1>1 DEF SlotType
<1>4. sl2 \in SlotType /\ Diff(sl2, d) = Diff(sl, d) + 1
  BY Zenon, <1>1, RecordRemoved
<1>5. Diff(sl2, d) = Diff(sl, c)
  <2>1. ~Gives(x) /\ Gives(c[t])
    BY DEF Gives
  <2>2. Diff(sl, d) = Diff(sl, c) - 1
    BY <2>1, ThreadLeaves
  <2> QED  BY <1>4, <2>2, Finite
<1>6. Owned(w, sl2, d)
  BY <1>1, <1>2, <1>3 DEF Owned
<1>7. TokensHeld(sl2, d)
  BY <1>1, <1>2, <1>3 DEF TokensHeld, None
<1>8. /\ ~Wr(x) /\ ~Wr(c[t]) /\ (Up(x) <=> Up(c[t]))
      /\ w.mayDefer => w.mayDefer \/ ~(w.hasE \/ w.begunE)
  BY DEF Wr, Up
<1>9. /\ w.s = (w.s + 0) % Readers /\ Diff(sl2, d) = Diff(sl, c) + 0
      /\ 0 \in Int /\ KeepBits(w, w)
  BY <1>1, <1>5, CountPlusZero, SameBits
<1> QED  BY <1>1, <1>4, <1>6, <1>7, <1>8, <1>9, SharedStep

(* A writer sets its bit.  If it turns deferral off it has yet to go       *)
(* through the slots; if it did not have to, a count of zero is final.     *)
LEMMA LockStep ==
  ASSUME Sizes, NEW w, NEW w2 \in WordType, NEW sl, NEW c, LockInv(w, sl, c),
         NEW t \in Users, NEW x, NEW d, Moves(c, t, x, d), NEW begun \in BOOLEAN,
         c[t].at = "lock", c[t].up \/ ~HasSolo(w), Flow(x),
         begun => ReaderPriority, x.at = "E" => ~begun /\ w.s = 0,
         w2.s = w.s, w2.hasE = ~begun, w2.begunE = begun, ~w2.hasU,
         ~w2.mayDefer, ~w2.waitNotS,
         w.mayDefer => x.at = "apply",
         x.at \in {"apply", "drain", "E"}, x.at = "apply" => w.mayDefer,
         x.seen = {}, x.moved = 0, x.back = "E" => w.s = 0
  PROVE  LockInv(w2, sl, d)
<1>1. /\ w \in WordType /\ sl \in SlotType /\ Solo(w, c) /\ Counts(w, sl, c)
      /\ Owned(w, sl, c) /\ TokensHeld(sl, c) /\ \A v \in Users : Flow(c[v])
  BY DEF LockInv, Types
<1>2. /\ d[t] = x /\ \A v \in Users : v # t => d[v] = c[v]
      /\ d \in [Users -> CoreType]
  BY MovesOne
<1>3. /\ ~w.hasE /\ ~w.begunE
      /\ \A v \in Users : v # t => ~Up(c[v])
      /\ \A v \in Users : ~Wr(c[v])
  <2>1. ~w.hasE /\ ~w.begunE
    BY Zenon, <1>1 DEF HasSolo, Solo, Up
  <2>2. \A v \in Users : v # t => ~Up(c[v])
    BY <1>1 DEF HasSolo, Solo, Up
  <2> QED  BY Zenon, <1>1, <2>1, <2>2 DEF Solo
<1>4. Wr(x) /\ ~Up(x)
  BY DEF Wr, Up
<1>5. Solo(w2, d)
  <2>1. \A v \in Users : (Wr(d[v]) <=> v = t) /\ ~Up(d[v])
    BY <1>2, <1>3, <1>4
  <2>2. \A v \in Users : d[v].at = "E" => v = t
    BY <2>1 DEF Wr
  <2>3. w2.hasE \/ w2.begunE
    BY Zenon
  <2> QED  BY <1>2, <2>1, <2>2, <2>3 DEF Solo
<1>6. Owned(w2, sl, d)
  <2>1. CASE w.mayDefer
    BY <1>2, <2>1 DEF Owned
  <2>2. CASE ~w.mayDefer
    BY Zenon, <1>1, <2>2, OwnedKeep
  <2> QED  BY <2>1, <2>2
<1>7. TokensHeld(sl, d)
  BY <1>1, TokensKeep DEF HasToken
<1>8. Diff(sl, d) = Diff(sl, c)
  <2>1. ~Gives(x) /\ ~Gives(c[t])
    BY <1>4 DEF Gives, Wr
  <2> QED  BY <2>1, ThreadStays
<1>9. Counts(w2, sl, d)
  <2> DEFINE D == Diff(sl, c)
  <2>1. D \in Int /\ D < Readers /\ Readers \in Nat \ {0} /\ D - 0 = D
    BY Finite
  <2>2. w.s = D % Readers
    BY Zenon, <1>1, <1>3 DEF Counts, Wr
  <2>3. w.s = 0 => D <= 0
    <3> HIDE DEF D
    <3>1. D >= 0 => D % Readers = D
      BY <2>1
    <3> QED  BY <2>1, <2>2, <3>1
  <2>4. x.at = "E" => D = 0
    <3>1. ASSUME x.at = "E" PROVE D >= 0
      <4>1. ~w.mayDefer /\ \A v \in Users : c[v].at # "apply"
        BY <1>3, <3>1 DEF Wr
      <4> QED  BY <2>1, <4>1, NoReaders
    <3> HIDE DEF D
    <3> QED  BY <2>1, <2>3, <3>1
  <2> HIDE DEF D
  <2>5. \A v \in Users : d[v].at \in {"apply", "E"} => v = t
    BY <1>2, <1>3 DEF Wr
  <2>6. Diff(sl, d) = D
    BY <1>8 DEF D
  <2> QED  BY Zenon, <1>2, <2>1, <2>2, <2>3, <2>4, <2>5, <2>6 DEF Counts
<1> QED  BY Zenon, <1>1, <1>2, <1>5, <1>6, <1>7, <1>9 DEF LockInv, Types

(* A writer empties one slot, and counts it if it held a record.           *)
LEMMA ApplyStep ==
  ASSUME Sizes, NEW w, NEW sl, NEW c, LockInv(w, sl, c),
         NEW t \in Users, NEW x, NEW d, Moves(c, t, x, d), NEW j \in Table,
         NEW sl2, sl2 = [sl EXCEPT ![j] = None],
         c[t].at = "apply", x.at = "apply", x.back = c[t].back,
         j \notin c[t].seen, x.seen = c[t].seen \cup {j},
         x.moved = IF sl[j] = None THEN c[t].moved ELSE c[t].moved + 1
  PROVE  LockInv(w, sl2, d)
<1>1. /\ w \in WordType /\ sl \in SlotType /\ Solo(w, c) /\ Counts(w, sl, c)
      /\ Owned(w, sl, c) /\ TokensHeld(sl, c) /\ \A v \in Users : Flow(c[v])
  BY DEF LockInv, Types
<1>2. /\ d[t] = x /\ \A v \in Users : v # t => d[v] = c[v]
      /\ d \in [Users -> CoreType]
      /\ c[t].moved \in Nat /\ c[t].seen \in SUBSET Table
  BY MovesOne DEF CoreType
<1>3. \A v \in Users : c[v].at \in {"apply", "drain", "E"} => v = t
  BY <1>1 DEF Solo, Wr
<1>4. /\ sl2[j] = None
      /\ \A i \in Table : i # j => sl2[i] = sl[i]
  BY <1>1 DEF SlotType
<1>5. /\ sl2 \in SlotType
      /\ Diff(sl2, d) = IF sl[j] = None THEN Diff(sl, d) ELSE Diff(sl, d) + 1
  BY Zenon, <1>1, RecordRemoved
<1>6. Diff(sl, d) = Diff(sl, c)
  <2>1. ~Gives(x) /\ ~Gives(c[t])
    BY DEF Gives
  <2> QED  BY <2>1, ThreadStays
<1>7. \A v \in Users : Flow(d[v])
  <2>1. IsFiniteSet(c[t].seen)
    BY <1>2, FS_Subset DEF Sizes
  <2>2. /\ Cardinality(x.seen) = Cardinality(c[t].seen) + 1
        /\ Cardinality(c[t].seen) \in Nat
    BY Zenon, <2>1, FS_AddElement, FS_CardinalityType
  <2>3. /\ c[t].moved <= Cardinality(c[t].seen)
        /\ c[t].back \in {"E", "drain"} /\ (c[t].back = "E" => ~ReaderPriority)
    BY <1>1 DEF Flow
  <2>4. x.moved <= Cardinality(x.seen)
    BY <1>2, <2>2, <2>3
  <2>5. Flow(x)
    BY <2>3, <2>4 DEF Flow
  <2> QED  BY <1>1, <1>2, <2>5
<1>8. Solo(w, d)
  <2>1. Wr(x) /\ Wr(c[t]) /\ ~Up(x) /\ ~Up(c[t])
    BY DEF Wr, Up
  <2> QED  BY <1>1, <2>1, SoloKeep
<1>9. Owned(w, sl2, d)
  BY <1>1, <1>2, <1>3, <1>4 DEF Owned, Owns
<1>10. TokensHeld(sl2, d)
  BY <1>1, <1>2, <1>4 DEF TokensHeld, HasToken, None
<1>11. Counts(w, sl2, d)
  <2> DEFINE D == Diff(sl, c)
             E == Diff(sl2, d)
  <2>1. D \in Int /\ E \in Int /\ (E = IF sl[j] = None THEN D ELSE D + 1)
    BY <1>5, <1>6, Finite
  <2>2. /\ w.s = (D - c[t].moved) % Readers
        /\ c[t].back = "E" => D <= c[t].moved
    BY <1>1 DEF Counts
  <2> HIDE DEF D, E
  <2>3. E - x.moved = D - c[t].moved /\ (D <= c[t].moved => E <= x.moved)
    BY <1>2, <2>1
  <2>4. \A v \in Users : /\ d[v].at = "apply" => v = t
                         /\ d[v].at # "E"
    BY <1>2, <1>3
  <2>5. w.s = (E - x.moved) % Readers /\ (x.back = "E" => E <= x.moved)
    BY <2>2, <2>3
  <2>6. \A v \in Users : d[v].at = "apply" =>
          w.s = (E - d[v].moved) % Readers /\ (d[v].back = "E" => E <= d[v].moved)
    BY <1>2, <2>4, <2>5
  <2> QED  BY Zenon, <1>2, <2>4, <2>6 DEF Counts, E
<1> QED  BY Zenon, <1>1, <1>2, <1>5, <1>7, <1>8, <1>9, <1>10, <1>11 DEF LockInv, Types

(* Every slot has been emptied: the writer adds what it found to the word, *)
(* and drains it or, if it sees no reader, has the lock.                   *)
LEMMA ApplyDoneStep ==
  ASSUME Sizes, NEW w, NEW w2 \in WordType, NEW sl, NEW c, LockInv(w, sl, c),
         NEW t \in Users, NEW x, NEW d, Moves(c, t, x, d),
         c[t].at = "apply", c[t].seen = Table, Flow(x),
         w2.s = (w.s + c[t].moved) % Readers, KeepBits(w, w2),
         w2.mayDefer = w.mayDefer, x.at \in {"E", "drain"},
         x.at = "E" => \/ c[t].moved = 0 /\ c[t].back = "E"
                       \/ w2.s = 0 /\ ~ReaderPriority
  PROVE  LockInv(w2, sl, d)
<1>1. /\ w \in WordType /\ sl \in SlotType /\ Solo(w, c) /\ Counts(w, sl, c)
      /\ Owned(w, sl, c) /\ TokensHeld(sl, c) /\ \A v \in Users : Flow(c[v])
  BY DEF LockInv, Types
<1>2. /\ d[t] = x /\ \A v \in Users : v # t => d[v] = c[v]
      /\ d \in [Users -> CoreType] /\ c[t].moved \in Int
  BY MovesOne DEF CoreType
<1>3. \A v \in Users : c[v].at \in {"apply", "drain", "E"} => v = t
  BY Zenon, <1>1 DEF Solo, Wr
<1>4. ~w.mayDefer /\ (x.at = "E" => w.hasE /\ ~w.begunE)
  BY Zenon, <1>1 DEF Solo, Wr, Flow
<1>5. Solo(w2, d)
  <2>1. \A v \in Users : /\ Wr(d[v]) <=> Wr(c[v])
                         /\ Up(d[v]) <=> Up(c[v])
                         /\ d[v].at = "E" => v = t
    BY Zenon, <1>2, <1>3 DEF Wr, Up
  <2> QED  BY <1>1, <1>2, <1>4, <2>1 DEF Solo, KeepBits
<1>6. Owned(w2, sl, d)
  BY <1>1, <1>2, <1>3, <1>4 DEF Owned, Owns
<1>7. TokensHeld(sl, d)
  BY <1>1, TokensKeep DEF HasToken
<1>8. Diff(sl, d) = Diff(sl, c)
  <2>1. ~Gives(x) /\ ~Gives(c[t])
    BY DEF Gives
  <2> QED  BY <2>1, ThreadStays
<1>9. Counts(w2, sl, d)
  <2> DEFINE D == Diff(sl, c)
             m == c[t].moved
  <2>1. D \in 0..(Readers - 1) /\ Readers \in Nat \ {0}
    BY Zenon, <1>3, <1>4, NoReaders, Finite
  <2>2. w.s = (D - m) % Readers /\ (c[t].back = "E" => D <= m)
    BY Zenon, <1>1 DEF Counts
  <2>3. m \in Int /\ w2.s = (w.s + m) % Readers
    BY <1>2
  <2> HIDE DEF D, m
  <2>4. D \in Int
    BY <2>1
  <2>5. w2.s = D % Readers
    BY Zenon, <2>1, <2>2, <2>3, <2>4, CountBack
  <2>6. w2.s = D
    BY <2>1, <2>4, <2>5
  <2>7. x.at = "E" => D = 0
    BY <2>1, <2>2, <2>6 DEF m
  <2>8. D % Readers = D
    BY <2>1
  <2>9. \A v \in Users : d[v].at # "apply" /\ (d[v].at = "E" => v = t)
    BY <1>2, <1>3
  <2> QED  BY Zenon, <1>2, <1>8, <2>6, <2>7, <2>8, <2>9 DEF Counts, D
<1> QED  BY <1>1, <1>2, <1>5, <1>6, <1>7, <1>9 DEF LockInv, Types

(* No reader is left: the writer has the lock.                             *)
LEMMA DrainedStep ==
  ASSUME Sizes, NEW w, NEW w2 \in WordType, NEW sl, NEW c, LockInv(w, sl, c),
         NEW t \in Users, NEW x, NEW d, Moves(c, t, x, d),
         c[t].at = "drain", w.s = 0, x.at = "E", Flow(x),
         w2.s = w.s, w2.hasE, ~w2.begunE, w2.hasU = w.hasU,
         w2.mayDefer = w.mayDefer
  PROVE  LockInv(w2, sl, d)
<1>1. /\ w \in WordType /\ sl \in SlotType /\ Solo(w, c) /\ Counts(w, sl, c)
      /\ Owned(w, sl, c) /\ TokensHeld(sl, c) /\ \A v \in Users : Flow(c[v])
  BY DEF LockInv, Types
<1>2. /\ d[t] = x /\ \A v \in Users : v # t => d[v] = c[v]
      /\ d \in [Users -> CoreType]
  BY MovesOne
<1>3. \A v \in Users : c[v].at \in {"apply", "drain", "E"} => v = t
  BY Zenon, <1>1 DEF Solo, Wr
<1>4. ~w.mayDefer /\ ~w.hasU
  BY Zenon, <1>1 DEF Solo, Wr
<1>5. Solo(w2, d)
  <2>1. \A v \in Users : /\ Wr(d[v]) <=> v = t
                         /\ Up(d[v]) <=> Up(c[v])
                         /\ d[v].at = "E" => v = t
    BY Zenon, <1>2, <1>3 DEF Wr, Up
  <2> QED  BY Zenon, <1>1, <1>2, <1>4, <2>1 DEF Solo
<1>6. Owned(w2, sl, d)
  BY Zenon, <1>1, OwnedKeep
<1>7. TokensHeld(sl, d)
  BY <1>1, TokensKeep DEF HasToken
<1>8. Diff(sl, d) = Diff(sl, c)
  <2>1. ~Gives(x) /\ ~Gives(c[t])
    BY DEF Gives
  <2> QED  BY <2>1, ThreadStays
<1>9. Counts(w2, sl, d)
  <2> DEFINE D == Diff(sl, c)
  <2>1. \A v \in Users : c[v].at # "apply" /\ d[v].at # "apply"
    BY Zenon, <1>2, <1>3
  <2>2. D \in 0..(Readers - 1) /\ Readers \in Nat \ {0}
    BY Zenon, <1>4, <2>1, NoReaders, Finite
  <2>3. w.s = D % Readers
    BY Zenon, <1>1, <2>1 DEF Counts
  <2> HIDE DEF D
  <2>4. D = 0
    BY <2>2, <2>3
  <2> QED  BY Zenon, <1>8, <2>1, <2>3, <2>4 DEF Counts, D
<1> QED  BY Zenon, <1>1, <1>2, <1>5, <1>6, <1>7, <1>9 DEF LockInv, Types

(* A writer gives up, unlocks, or keeps a shared or an upgrade lock.       *)
LEMMA LeaveStep ==
  ASSUME Sizes, NEW w, NEW w2 \in WordType, NEW sl, NEW c, LockInv(w, sl, c),
         NEW t \in Users, NEW x, NEW d, Moves(c, t, x, d), NEW k \in Int,
         c[t].at \in {"drain", "E"}, x.at \in {"idle", "S", "U"}, Flow(x),
         k = IF x.at = "S" THEN 1 ELSE 0, w2.s = (w.s + k) % Readers,
         w2.hasU <=> x.at = "U", w2.mayDefer = w.mayDefer,
         ~w2.hasE, ~w2.begunE, ~w2.prevDefer, ~w2.waitNotS
  PROVE  LockInv(w2, sl, d)
<1>1. /\ w \in WordType /\ sl \in SlotType /\ Solo(w, c) /\ Counts(w, sl, c)
      /\ Owned(w, sl, c) /\ TokensHeld(sl, c) /\ \A v \in Users : Flow(c[v])
  BY DEF LockInv, Types
<1>2. /\ d[t] = x /\ \A v \in Users : v # t => d[v] = c[v]
      /\ d \in [Users -> CoreType]
  BY MovesOne
<1>3. \A v \in Users : c[v].at \in {"apply", "drain", "E"} => v = t
  BY Zenon, <1>1 DEF Solo, Wr
<1>4. ~w.mayDefer /\ \A v \in Users : ~Up(c[v])
  BY Zenon, <1>1 DEF Solo, Wr
<1>5. Solo(w2, d)
  <2>1. \A v \in Users : /\ ~Wr(d[v])
                         /\ Up(d[v]) <=> v = t /\ x.at = "U"
                         /\ d[v].at # "E"
    BY Zenon, <1>2, <1>3, <1>4 DEF Wr, Up
  <2>2. w2.hasU <=> \E v \in Users : Up(d[v])
    BY Zenon, <2>1
  <2> QED  BY Zenon, <1>1, <1>4, <2>1, <2>2 DEF Solo
<1>6. Owned(w2, sl, d)
  BY Zenon, <1>1, OwnedKeep
<1>7. TokensHeld(sl, d)
  BY Zenon, <1>1, TokensKeep DEF HasToken
<1>8. Diff(sl, d) = Diff(sl, c) + k
  <2>1. CASE x.at = "S"
    <3>1. Gives(x) /\ ~Gives(c[t])
      BY Zenon, <2>1 DEF Gives
    <3> QED  BY <2>1, <3>1, ThreadJoins
  <2>2. CASE x.at # "S"
    <3>1. ~Gives(x) /\ ~Gives(c[t])
      BY <2>2 DEF Gives
    <3>2. Diff(sl, d) = Diff(sl, c)
      BY Zenon, <3>1, ThreadStays
    <3> QED  BY <2>2, <3>2, Finite
  <2> QED  BY <2>1, <2>2
<1>9. Counts(w2, sl, d)
  <2>1. \A v \in Users : v # t =>
          c[v].at # "E" /\ (k < 0 \/ c[v].at # "apply" \/ c[v].back # "E")
    BY <1>3
  <2>2. x.at \notin {"apply", "E"} /\ c[t].at # "apply"
    OBVIOUS
  <2> QED  BY Zenon, <1>1, <1>8, <2>1, <2>2, CountsKeep
<1> QED  BY Zenon, <1>1, <1>2, <1>5, <1>6, <1>7, <1>9 DEF LockInv, Types

(* An upgrade lock is taken, given up, or made a shared lock.              *)
LEMMA UpgradeStep ==
  ASSUME Sizes, NEW w, NEW w2 \in WordType, NEW sl, NEW c, LockInv(w, sl, c),
         NEW t \in Users, NEW x, NEW d, Moves(c, t, x, d), NEW k \in Int,
         \/ c[t].at = "upgrade" /\ x.at = "U" /\ ~HasSolo(w)
         \/ c[t].at = "U" /\ x.at \in {"idle", "S"},
         Flow(x), k = IF x.at = "S" THEN 1 ELSE 0,
         w2.s = (w.s + k) % Readers, w2.hasU <=> x.at = "U",
         w2.hasE = w.hasE, w2.begunE = w.begunE, w2.mayDefer = w.mayDefer,
         w2.prevDefer = w.prevDefer, w2.waitNotS = w.waitNotS
  PROVE  LockInv(w2, sl, d)
<1>1. /\ w \in WordType /\ sl \in SlotType /\ Solo(w, c) /\ Counts(w, sl, c)
      /\ Owned(w, sl, c) /\ TokensHeld(sl, c) /\ \A v \in Users : Flow(c[v])
  BY DEF LockInv, Types
<1>2. /\ d[t] = x /\ \A v \in Users : v # t => d[v] = c[v]
      /\ d \in [Users -> CoreType]
  BY MovesOne
<1>3. ~w.hasE /\ ~w.begunE /\ \A v \in Users : ~Wr(c[v])
  BY Zenon, <1>1 DEF Solo, HasSolo, Up
<1>4. \A v \in Users : v # t => ~Up(c[v])
  BY Zenon, <1>1 DEF Solo, HasSolo, Up
<1>5. Solo(w2, d)
  <2>1. \A v \in Users : /\ ~Wr(d[v])
                         /\ Up(d[v]) <=> v = t /\ x.at = "U"
                         /\ d[v].at # "E"
    BY Zenon, <1>2, <1>3, <1>4 DEF Wr, Up
  <2>2. w2.hasU <=> \E v \in Users : Up(d[v])
    BY Zenon, <2>1
  <2> QED  BY Zenon, <1>1, <1>3, <2>1, <2>2 DEF Solo
<1>6. Owned(w2, sl, d)
  BY Zenon, <1>1, OwnedKeep
<1>7. TokensHeld(sl, d)
  BY Zenon, <1>1, TokensKeep DEF HasToken
<1>8. Diff(sl, d) = Diff(sl, c) + k
  <2>1. CASE x.at = "S"
    <3>1. Gives(x) /\ ~Gives(c[t])
      BY Zenon, <2>1 DEF Gives
    <3> QED  BY <2>1, <3>1, ThreadJoins
  <2>2. CASE x.at # "S"
    <3>1. ~Gives(x) /\ ~Gives(c[t])
      BY <2>2 DEF Gives
    <3>2. Diff(sl, d) = Diff(sl, c)
      BY Zenon, <3>1, ThreadStays
    <3> QED  BY <2>2, <3>2, Finite
  <2> QED  BY <2>1, <2>2
<1>9. Counts(w2, sl, d)
  <2>1. \A v \in Users : v # t =>
          c[v].at # "E" /\ (k < 0 \/ c[v].at # "apply" \/ c[v].back # "E")
    BY <1>3 DEF Wr
  <2>2. x.at \notin {"apply", "E"} /\ c[t].at # "apply"
    OBVIOUS
  <2> QED  BY <1>1, <1>8, <2>1, <2>2, CountsKeep
<1> QED  BY Zenon, <1>1, <1>2, <1>5, <1>6, <1>7, <1>9 DEF LockInv, Types

-----------------------------------------------------------------------------
(* What the actions do to the threads *)

Masks == SUBSET {"NotS", "E", "U", "S"}

(* A thread's core, by its fields.                                         *)
LEMMA CoreFields ==
  ASSUME NEW x \in ThreadType
  PROVE  /\ Core(x) \in CoreType
         /\ Core(x).token = x.token /\ Core(x).slot = x.slot
         /\ Core(x).seen = x.seen /\ Core(x).moved = x.moved
         /\ Core(x).up = x.up
         /\ x.at \in Places => Core(x).at = x.at /\ Core(x).back = x.back
         /\ x.at \in Waking => Core(x).at = x.back /\ Core(x).back = "idle"
         /\ x.at \notin Waking => x.at \in Places
         /\ x.at \in Places => x.at \notin Waking
BY Zenon DEF ThreadType, CoreType, Core, Places, Waking

(* A step that changes one thread's record moves that thread.              *)
LEMMA OneMoves ==
  ASSUME th \in [Users -> ThreadType], NEW t \in Users, NEW x \in ThreadType,
         th' = [th EXCEPT ![t] = x]
  PROVE  /\ th' \in [Users -> ThreadType]
         /\ core[t] = Core(th[t])
         /\ Moves(core, t, Core(x), core')
<1>1. th' \in [Users -> ThreadType]
  OBVIOUS
<1>2. core \in [Users -> CoreType] /\ Core(x) \in CoreType
  BY CoreFields DEF core
<1>3. core' = [v \in Users |-> Core(th'[v])]
  BY DEF core
<1>4. core' = [core EXCEPT ![t] = Core(x)]
  BY Zenon, <1>2, <1>3 DEF core
<1>5. core[t] = Core(th[t])
  BY DEF core
<1> QED  BY <1>1, <1>2, <1>4, <1>5 DEF Moves

(* The record of a thread at rest.                                         *)
LEMMA AwayType ==
  /\ Away \in ThreadType /\ Away.at = "idle" /\ Away.back = "idle"
  /\ Away.token = None /\ Away.slot = None /\ Away.seen = {}
  /\ Away.moved = 0 /\ ~Away.up
<1>1. <<>> \in Seq(WordType)
  OBVIOUS
<1> QED  BY <1>1 DEF Away, ThreadType, Places, Waking, Tokens, None

(* Calls that only begin.                                                  *)
LEMMA EnterInv ==
  ASSUME Sizes, IInv, NEW t \in Users,
         Lock(t) \/ UnlockUpgradeAndLock(t) \/ LockUpgrade(t)
  PROVE  IInv'
<1>1. th[t] \in ThreadType /\ LockInv(word, slots, core)
      /\ th \in [Users -> ThreadType]
  BY DEF IInv
<1>2. PICK from \in {"idle", "U"}, to \in {"lock", "upgrade"} :
        /\ from = "U" => to = "lock"
        /\ Enter(t, from, to)
  BY DEF Lock, UnlockUpgradeAndLock, LockUpgrade
<1>3. PICK x \in ThreadType :
        /\ th' = [th EXCEPT ![t] = x] /\ x.at = to /\ x.up = (from = "U")
        /\ x.back = th[t].back /\ x.seen = th[t].seen /\ x.moved = th[t].moved
  <2> DEFINE y == [th[t] EXCEPT !.at = to, !.up = (from = "U")]
  <2>0. to \in Places
    BY DEF Places
  <2>1. /\ y \in ThreadType /\ y.at = to /\ y.up = (from = "U")
        /\ y.back = th[t].back /\ y.seen = th[t].seen /\ y.moved = th[t].moved
    BY Zenon, <1>1, <2>0 DEF ThreadType
  <2>2. th' = [th EXCEPT ![t] = y]
    BY Zenon, <1>1, <1>2 DEF Enter, ThreadType
  <2> QED  BY Zenon, <2>1, <2>2
<1>4. /\ th' \in [Users -> ThreadType] /\ core[t] = Core(th[t])
      /\ Moves(core, t, Core(x), core')
  BY Zenon, <1>1, <1>3, OneMoves
<1>5. /\ core[t].at = from /\ Core(x).at = to /\ Core(x).up = (from = "U")
      /\ Core(x).back = core[t].back /\ Core(x).seen = core[t].seen
      /\ Core(x).moved = core[t].moved
  <2>1. from \in Places /\ to \in Places /\ th[t].at = from
    BY Zenon, <1>2 DEF Places, Enter
  <2> QED  BY <1>1, <1>3, <1>4, <2>1, CoreFields
<1>6. Flow(Core(x)) /\ (Up(Core(x)) <=> Up(core[t]))
  <2>1. Flow(core[t])
    BY <1>1 DEF LockInv
  <2> QED  BY Zenon, <1>2, <1>5, <2>1 DEF Flow, Up
<1>7. word' = word /\ slots' = slots /\ word \in WordType
  BY <1>1, <1>2 DEF Enter, LockInv, Types
<1>8. LockInv(word, slots, core')
  <2>1. {core[t].at, Core(x).at}
           \subseteq {"idle", "lock", "U", "upgrade", "shared", "slot"}
    BY <1>5
  <2>2. /\ word.mayDefer => word.mayDefer \/ ~(word.hasE \/ word.begunE)
        /\ KeepBits(word, word)
    BY Zenon, SameBits
  <2> QED  BY <1>1, <1>4, <1>6, <1>7, <2>1, <2>2, AsideStep
<1> QED  BY <1>4, <1>7, <1>8 DEF IInv

(* What the invariant says of the thread that takes a step.                *)
LEMMA Start ==
  ASSUME IInv, NEW t \in Users
  PROVE  /\ th \in [Users -> ThreadType] /\ th[t] \in ThreadType
         /\ LockInv(word, slots, core) /\ word \in WordType
         /\ slots \in SlotType /\ core[t] = Core(th[t])
         /\ Flow(core[t]) /\ core[t] \in CoreType
         /\ core[t].token = th[t].token /\ core[t].slot = th[t].slot
         /\ core[t].seen = th[t].seen /\ core[t].moved = th[t].moved
         /\ core[t].up = th[t].up
         /\ th[t].at \in Places => core[t].at = th[t].at
                                   /\ core[t].back = th[t].back
<1>1. /\ th \in [Users -> ThreadType] /\ th[t] \in ThreadType
      /\ LockInv(word, slots, core) /\ core[t] = Core(th[t])
  BY DEF IInv, core
<1>2. word \in WordType /\ slots \in SlotType /\ Flow(core[t])
  BY <1>1 DEF LockInv, Types
<1> QED  BY <1>1, <1>2, CoreFields

(* A step after which every thread has the same core.                      *)
LEMMA QuietInv ==
  ASSUME IInv, th' \in [Users -> ThreadType], slots' = slots,
         \A v \in Users : Core(th'[v]) = Core(th[v]),
         word' \in WordType, KeepBits(word, word'), word'.s = word.s,
         word'.mayDefer = word.mayDefer
  PROVE  IInv'
<1>1. core' = core
  BY DEF core
<1>2. LockInv(word', slots, core)
  BY QuietStep DEF IInv
<1> QED  BY <1>1, <1>2 DEF IInv

(* Sleeping does not show in a thread's core.                              *)
LEMMA SleepCore ==
  ASSUME NEW y \in ThreadType, NEW s \in {"no", "about", "asleep"}, NEW x,
         x = [y EXCEPT !.sleep = s]
  PROVE  x \in ThreadType /\ Core(x) = Core(y)
BY Zenon DEF ThreadType, Core

(* A wait bit more.                                                        *)
LEMMA SetWaiterWord ==
  ASSUME NEW w \in WordType, NEW m \in {"NotS", "E", "U", "S"}, NEW w2,
         w2 = SetWaiter(w, m), m = "NotS" => w.hasE \/ w.begunE
  PROVE  /\ w2 \in WordType /\ KeepBits(w, w2) /\ w2.s = w.s
         /\ w2.mayDefer = w.mayDefer
<1>1. CASE m = "NotS"
  <2>1. w2 = [w EXCEPT !.waitNotS = TRUE]
    BY <1>1 DEF SetWaiter
  <2> QED  BY Zenon, <1>1, <2>1 DEF WordType, KeepBits
<1>2. CASE m = "E"
  <2>1. w2 = [w EXCEPT !.waitE = IF @ = 0 THEN 1 ELSE 2]
    BY <1>2 DEF SetWaiter
  <2> QED  BY <2>1 DEF WordType, KeepBits
<1>3. CASE m = "U"
  <2>1. w2 = [w EXCEPT !.waitU = TRUE]
    BY <1>3 DEF SetWaiter
  <2> QED  BY Zenon, <2>1 DEF WordType, KeepBits
<1>4. CASE m = "S"
  <2>1. w2 = [w EXCEPT !.waitS = TRUE]
    BY <1>4 DEF SetWaiter
  <2> QED  BY Zenon, <2>1 DEF WordType, KeepBits
<1> QED  BY <1>1, <1>2, <1>3, <1>4

(* futexWaitForZeroBits announces the waiter.                              *)
LEMMA AnnounceInv ==
  ASSUME Sizes, IInv, NEW t \in Users, Announce(t)
  PROVE  IInv'
<1>1. /\ th \in [Users -> ThreadType] /\ th[t] \in ThreadType
      /\ LockInv(word, slots, core) /\ word \in WordType
      /\ th[t].at \in Places => core[t].at = th[t].at
  BY Start
<1>2. /\ WaitMask(t) \in {"NotS", "E", "U", "S"}
      /\ WaitMask(t) = "NotS" => th[t].at = "drain"
  BY Zenon DEF Announce, Blocked, WaitMask, None
<1>3. WaitMask(t) = "NotS" => word.hasE \/ word.begunE
  <2>1. th[t].at = "drain" => core[t].at = "drain"
    BY <1>1 DEF Places
  <2> QED  BY Zenon, <1>1, <1>2, <2>1 DEF LockInv, Solo, Wr
<1>4. PICK m \in {"NotS", "E", "U", "S"} :
        /\ word' = SetWaiter(word, m)
        /\ m = "NotS" => word.hasE \/ word.begunE
  BY Zenon, <1>2, <1>3 DEF Announce
<1>5. /\ word' \in WordType /\ KeepBits(word, word') /\ word'.s = word.s
      /\ word'.mayDefer = word.mayDefer
  BY Zenon, <1>1, <1>4, SetWaiterWord
<1>6. <<word'>> \in Seq(WordType)
  BY <1>5
<1>7. PICK x : x = [th[t] EXCEPT !.sleep = "about", !.old = <<word'>>]
  OBVIOUS
<1>8. x \in ThreadType /\ Core(x) = Core(th[t])
  BY Zenon, <1>1, <1>6, <1>7 DEF ThreadType, Core
<1>9. th' = [th EXCEPT ![t] = x]
  BY Zenon, <1>1, <1>7 DEF Announce, ThreadType
<1>10. /\ th' \in [Users -> ThreadType]
       /\ \A v \in Users : Core(th'[v]) = Core(th[v])
  BY <1>1, <1>8, <1>9
<1> QED  BY <1>5, <1>10, QuietInv DEF Announce

(* It sleeps, or not, and may be interrupted.                              *)
LEMMA SleepInv ==
  ASSUME Sizes, IInv, NEW t \in Users, FutexWait(t) \/ Interrupted(t)
  PROVE  IInv'
<1>1. /\ th \in [Users -> ThreadType] /\ th[t] \in ThreadType
      /\ word \in WordType
  BY Start
<1>2. <<>> \in Seq(WordType)
  OBVIOUS
<1>3. PICK x \in ThreadType : /\ Core(x) = Core(th[t])
                              /\ th' = [th EXCEPT ![t] = x]
  <2>1. CASE FutexWait(t)
    <3> DEFINE s == IF <<word>> = th[t].old THEN "asleep" ELSE "no"
               y == [th[t] EXCEPT !.sleep = s, !.old = <<>>]
    <3>0. s \in {"no", "about", "asleep"}
      OBVIOUS
    <3>1. y \in ThreadType /\ Core(y) = Core(th[t])
      <4> HIDE DEF s
      <4> QED  BY Zenon, <1>1, <1>2, <3>0 DEF ThreadType, Core
    <3>2. th' = [th EXCEPT ![t] = y]
      BY Zenon, <1>1, <2>1 DEF FutexWait, ThreadType
    <3> QED  BY Zenon, <3>1, <3>2
  <2>2. CASE Interrupted(t)
    <3> DEFINE y == [th[t] EXCEPT !.sleep = "no"]
    <3>1. y \in ThreadType /\ Core(y) = Core(th[t])
      BY <1>1, <1>2, SleepCore
    <3>2. th' = [th EXCEPT ![t] = y]
      BY <1>1, <2>2 DEF Interrupted, ThreadType
    <3> QED  BY Zenon, <3>1, <3>2
  <2> QED  BY Zenon, <2>1, <2>2
<1>4. /\ th' \in [Users -> ThreadType]
      /\ \A v \in Users : Core(th'[v]) = Core(th[v])
  BY <1>1, <1>3
<1>5. word' = word /\ slots' = slots
  BY DEF FutexWait, Interrupted
<1> QED  BY Zenon, <1>1, <1>4, <1>5, QuietInv, SameBits

(* Wait bits less.                                                         *)
LEMMA ClearWaitersWord ==
  ASSUME NEW w \in WordType, NEW M, NEW w2, w2 = ClearWaiters(w, M)
  PROVE  /\ w2 \in WordType /\ KeepBits(w, w2) /\ w2.s = w.s
         /\ w2.mayDefer = w.mayDefer
         /\ "NotS" \in M => ~w2.waitNotS
<1>1. PICK a \in BOOLEAN, e \in 0..2, u \in BOOLEAN, b \in BOOLEAN :
        /\ w2 = [w EXCEPT !.waitNotS = a, !.waitE = e, !.waitU = u, !.waitS = b]
        /\ a <=> w.waitNotS /\ "NotS" \notin M
  <2> DEFINE a == w.waitNotS /\ "NotS" \notin M
             e == IF "E" \in M THEN 0 ELSE w.waitE
             u == w.waitU /\ "U" \notin M
             b == w.waitS /\ "S" \notin M
  <2>1. a \in BOOLEAN /\ u \in BOOLEAN /\ b \in BOOLEAN
    OBVIOUS
  <2>2. e \in 0..2
    BY DEF WordType
  <2>3. w2 = [w EXCEPT !.waitNotS = a, !.waitE = e, !.waitU = u, !.waitS = b]
    BY Zenon DEF ClearWaiters
  <2>4. a <=> w.waitNotS /\ "NotS" \notin M
    OBVIOUS
  <2> HIDE DEF a, e, u, b
  <2> QED  BY Zenon, <2>1, <2>2, <2>3, <2>4
<1> QED  BY Zenon, <1>1 DEF WordType, KeepBits

LEMMA Units == -1 \in Int /\ 0 \in Int /\ 1 \in Int
OBVIOUS

(* Readers more, or less.                                                  *)
LEMMA CountWord ==
  ASSUME Sizes, NEW w \in WordType, NEW k \in Int, NEW w2, w2 = Count(w, k)
  PROVE  /\ w2 \in WordType /\ KeepBits(w, w2) /\ w2.s = (w.s + k) % Readers
         /\ w2.mayDefer = w.mayDefer /\ w2.waitNotS = w.waitNotS
<1>1. w.s \in Int /\ Readers \in Nat \ {0}
  BY Finite DEF WordType
<1>2. PICK n : n = (w.s + k) % Readers
  OBVIOUS
<1>3. n \in 0..(Readers - 1)
  BY <1>1, <1>2
<1>4. w2 = [w EXCEPT !.s = n]
  BY <1>2 DEF Count
<1> QED  BY Zenon, <1>2, <1>3, <1>4 DEF WordType, KeepBits

(* wakeRegisteredWaitersImpl: wake one writer, or clear the bits.          *)
LEMMA WakeOneInv ==
  ASSUME Sizes, IInv, NEW t \in Users, WakeOne(t)
  PROVE  IInv'
<1>1. /\ th \in [Users -> ThreadType] /\ th[t] \in ThreadType
      /\ word \in WordType /\ th[t].at = "wake one"
  BY Zenon, Start DEF WakeOne
<1>2. /\ th' \in [Users -> ThreadType]
      /\ \A v \in Users : Core(th'[v]) = Core(th[v])
  <2>1. CASE \E v \in Asleep({"E"}) :
               th' = [th EXCEPT ![v].sleep = "no", ![t] = Woken(t)]
    <3>1. PICK v \in Asleep({"E"}) :
            th' = [th EXCEPT ![v].sleep = "no", ![t] = Woken(t)]
      BY Zenon, <2>1
    <3>2. v \in Users /\ v # t
      BY Zenon, <1>1, <3>1 DEF Asleep, WaitMask, None
    <3>3. Woken(t) \in ThreadType /\ Core(Woken(t)) = Core(th[t])
      BY Zenon, <1>1 DEF Woken, ThreadType, Core, Places, Waking
    <3> DEFINE y == [th[v] EXCEPT !.sleep = "no"]
    <3>4. y \in ThreadType /\ Core(y) = Core(th[v])
      BY Zenon, <1>1, <3>2 DEF ThreadType, Core
    <3>5. th' = [[th EXCEPT ![v] = y] EXCEPT ![t] = Woken(t)]
      BY Zenon, <1>1, <3>1, <3>2 DEF ThreadType
    <3> HIDE DEF y
    <3> QED  BY Zenon, <1>1, <3>2, <3>3, <3>4, <3>5
  <2>2. CASE th' = [th EXCEPT ![t].at = "clear"]
    <3> DEFINE y == [th[t] EXCEPT !.at = "clear"]
    <3>1. y \in ThreadType /\ Core(y) = Core(th[t])
      BY Zenon, <1>1 DEF ThreadType, Core, Places, Waking
    <3>2. th' = [th EXCEPT ![t] = y]
      BY Zenon, <1>1, <2>2 DEF ThreadType
    <3> HIDE DEF y
    <3> QED  BY Zenon, <1>1, <3>1, <3>2
  <2> QED  BY Zenon, <2>1, <2>2 DEF WakeOne
<1>3. word' = word /\ slots' = slots
  BY Zenon DEF WakeOne
<1> QED  BY Zenon, <1>1, <1>2, <1>3, QuietInv, SameBits

LEMMA ClearBitsInv ==
  ASSUME Sizes, IInv, NEW t \in Users, ClearBits(t)
  PROVE  IInv'
<1>1. /\ th \in [Users -> ThreadType] /\ th[t] \in ThreadType
      /\ word \in WordType /\ th[t].at = "clear"
  BY Zenon, Start DEF ClearBits
<1>2. Woken(t) \in ThreadType /\ Core(Woken(t)) = Core(th[t])
  BY Zenon, <1>1 DEF Woken, ThreadType, Core, Places, Waking
<1> DEFINE y == [th[t] EXCEPT !.at = "wake all"]
<1>3. y \in ThreadType /\ Core(y) = Core(th[t])
  BY Zenon, <1>1 DEF ThreadType, Core, Places, Waking
<1>4. th' = [th EXCEPT ![t] = Woken(t)] \/ th' = [th EXCEPT ![t] = y]
  BY Zenon DEF ClearBits
<1> HIDE DEF y
<1>5. /\ th' \in [Users -> ThreadType]
      /\ \A v \in Users : Core(th'[v]) = Core(th[v])
  BY <1>1, <1>2, <1>3, <1>4
<1>6. /\ word' \in WordType /\ KeepBits(word, word') /\ word'.s = word.s
      /\ word'.mayDefer = word.mayDefer /\ slots' = slots
  BY Zenon, <1>1, ClearWaitersWord DEF ClearBits
<1> QED  BY <1>5, <1>6, QuietInv

LEMMA WakeAllInv ==
  ASSUME Sizes, IInv, NEW t \in Users, WakeAll(t)
  PROVE  IInv'
<1>1. /\ th \in [Users -> ThreadType] /\ th[t] \in ThreadType
      /\ word \in WordType /\ th[t].at = "wake all"
  BY Zenon, Start DEF WakeAll
<1>2. Woken(t) \in ThreadType /\ Core(Woken(t)) = Core(th[t])
  BY Zenon, <1>1 DEF Woken, ThreadType, Core, Places, Waking
<1>3. \A v \in Users : /\ [th[v] EXCEPT !.sleep = "no"] \in ThreadType
                       /\ Core([th[v] EXCEPT !.sleep = "no"]) = Core(th[v])
  BY Zenon, <1>1 DEF ThreadType, Core
<1>4. /\ th' \in [Users -> ThreadType]
      /\ \A v \in Users : Core(th'[v]) = Core(th[v])
  BY Zenon, <1>1, <1>2, <1>3 DEF WakeAll
<1>5. word' = word /\ slots' = slots
  BY Zenon DEF WakeAll
<1> QED  BY Zenon, <1>1, <1>4, <1>5, QuietInv, SameBits

(* The thread goes where b is, or first wakes others.                      *)
Lands(t, b) ==
  \E x \in ThreadType : th' = [th EXCEPT ![t] = x] /\ Core(x) = Core(b)

(* Waking others before going to b is going to b.                          *)
LEMMA WakeMoves ==
  ASSUME th \in [Users -> ThreadType], NEW t \in Users, NEW w, NEW M \in Masks,
         NEW b \in ThreadType, b.at \in Places \ {"apply"}, b.back = "idle",
         ThenWake(t, w, M, b)
  PROVE  Lands(t, b)
<1> DEFINE y == [b EXCEPT !.mask = {}]
           z(p) == [b EXCEPT !.at = p, !.mask = M, !.back = b.at]
<1>1. y \in ThreadType /\ Core(y) = Core(b)
  BY Zenon DEF ThreadType, Core
<1>2. \A p \in Waking : z(p) \in ThreadType /\ Core(z(p)) = Core(b)
  BY Zenon DEF ThreadType, Core, Masks, Places, Waking
<1>3. \/ th' = [th EXCEPT ![t] = y]
      \/ \E p \in Waking : th' = [th EXCEPT ![t] = z(p)]
  BY Zenon DEF ThenWake, Waking
<1> HIDE DEF y, z
<1> QED  BY <1>1, <1>2, <1>3 DEF Lands

(* A call for a shared lock begins.                                        *)
LEMMA LockSharedInv ==
  ASSUME Sizes, IInv, NEW t \in Users, NEW k \in {"token", "less"},
         LockShared(t, k)
  PROVE  IInv'
<1>1. /\ th \in [Users -> ThreadType] /\ th[t] \in ThreadType
      /\ LockInv(word, slots, core) /\ word \in WordType /\ Flow(core[t])
      /\ core[t].seen = th[t].seen /\ core[t].moved = th[t].moved
      /\ th[t].at \in Places => core[t].at = th[t].at
                                /\ core[t].back = th[t].back
  BY Start
<1>2. th[t].at = "idle" /\ word' = word /\ slots' = slots
  BY DEF LockShared
<1>3. PICK x \in ThreadType :
        /\ th' = [th EXCEPT ![t] = x] /\ x.at = "shared" /\ x.token = k
        /\ x.back = th[t].back /\ x.seen = th[t].seen /\ x.moved = th[t].moved
  <2> DEFINE y == [th[t] EXCEPT !.at = "shared", !.token = k]
  <2>1. /\ y \in ThreadType /\ y.at = "shared" /\ y.token = k
        /\ y.back = th[t].back /\ y.seen = th[t].seen /\ y.moved = th[t].moved
    BY Zenon, <1>1 DEF ThreadType, Places, Tokens
  <2>2. th' = [th EXCEPT ![t] = y]
    BY Zenon, <1>1 DEF LockShared, ThreadType
  <2> QED  BY Zenon, <2>1, <2>2
<1>4. th' \in [Users -> ThreadType] /\ Moves(core, t, Core(x), core')
  BY Zenon, <1>1, <1>3, OneMoves
<1>5. /\ core[t].at = "idle" /\ Core(x).at = "shared" /\ Core(x).token = k
      /\ Core(x).back = core[t].back /\ Core(x).seen = core[t].seen
      /\ Core(x).moved = core[t].moved
  <2>1. "idle" \in Places /\ "shared" \in Places
    BY Zenon DEF Places
  <2> QED  BY Zenon, <1>1, <1>2, <1>3, <2>1, CoreFields
<1>6. /\ Flow(Core(x)) /\ (Up(Core(x)) <=> Up(core[t]))
      /\ {core[t].at, Core(x).at}
           \subseteq {"idle", "lock", "U", "upgrade", "shared", "slot"}
  BY Zenon, <1>1, <1>5 DEF Flow, Up
<1>7. /\ word.mayDefer => word.mayDefer \/ ~(word.hasE \/ word.begunE)
      /\ KeepBits(word, word)
  BY Zenon, SameBits
<1>8. LockInv(word, slots, core')
  BY Zenon, <1>1, <1>4, <1>6, <1>7, AsideStep
<1> QED  BY <1>2, <1>4, <1>8 DEF IInv

(* lockSharedImpl: the reader is counted in the word,                      *)
LEMMA LockInlineInv ==
  ASSUME Sizes, IInv, NEW t \in Users, LockInline(t)
  PROVE  IInv'
<1>1. /\ th \in [Users -> ThreadType] /\ th[t] \in ThreadType
      /\ LockInv(word, slots, core) /\ word \in WordType /\ Flow(core[t])
      /\ core[t].seen = th[t].seen /\ core[t].moved = th[t].moved
      /\ th[t].at \in Places => core[t].at = th[t].at
                                /\ core[t].back = th[t].back
  BY Start
<1>2. /\ th[t].at = "shared" /\ slots' = slots /\ ~word.hasE
      /\ word' = Count(word, 1)
  BY DEF LockInline
<1>3. PICK x \in ThreadType :
        /\ th' = [th EXCEPT ![t] = x] /\ x.at = "S"
        /\ x.back = th[t].back /\ x.seen = th[t].seen /\ x.moved = th[t].moved
  <2> DEFINE k == IF th[t].token = "token" THEN "inline" ELSE th[t].token
             y == [th[t] EXCEPT !.at = "S", !.token = k]
  <2>0. k \in Tokens
    BY <1>1 DEF ThreadType, Tokens
  <2>1. /\ y \in ThreadType /\ y.at = "S"
        /\ y.back = th[t].back /\ y.seen = th[t].seen /\ y.moved = th[t].moved
    <3> HIDE DEF k
    <3> QED  BY Zenon, <1>1, <2>0 DEF ThreadType, Places
  <2>2. th' = [th EXCEPT ![t] = y]
    BY Zenon, <1>1 DEF LockInline, ThreadType
  <2> QED  BY Zenon, <2>1, <2>2
<1>4. th' \in [Users -> ThreadType] /\ Moves(core, t, Core(x), core')
  BY Zenon, <1>1, <1>3, OneMoves
<1>5. /\ core[t].at = "shared" /\ Core(x).at = "S"
      /\ Core(x).back = core[t].back /\ Core(x).seen = core[t].seen
      /\ Core(x).moved = core[t].moved
  <2>1. "S" \in Places /\ "shared" \in Places
    BY Zenon DEF Places
  <2> QED  BY Zenon, <1>1, <1>2, <1>3, <2>1, CoreFields
<1>6. Flow(Core(x))
  BY Zenon, <1>1, <1>5 DEF Flow
<1>7. /\ word' \in WordType /\ KeepBits(word, word')
      /\ word'.s = (word.s + 1) % Readers /\ word'.mayDefer = word.mayDefer
  BY <1>1, <1>2, CountWord
<1>8. LockInv(word', slots, core')
  BY Zenon, <1>1, <1>2, <1>4, <1>5, <1>6, <1>7, InlineStep
<1> QED  BY Zenon, <1>2, <1>4, <1>8 DEF IInv

(* or finds an empty slot;                                                 *)
LEMMA FindSlotInv ==
  ASSUME Sizes, IInv, NEW t \in Users, NEW j \in Table, FindSlot(t, j)
  PROVE  IInv'
<1>1. /\ th \in [Users -> ThreadType] /\ th[t] \in ThreadType
      /\ LockInv(word, slots, core) /\ word \in WordType /\ Flow(core[t])
      /\ core[t].seen = th[t].seen /\ core[t].moved = th[t].moved
      /\ core[t].token = th[t].token
      /\ th[t].at \in Places => core[t].at = th[t].at
                                /\ core[t].back = th[t].back
  BY Start
<1>2. /\ th[t].at = "shared" /\ slots' = slots /\ ~word.hasE
      /\ word.mayDefer \/ ~(ReaderPriority /\ word.begunE)
      /\ word' = [word EXCEPT !.mayDefer = TRUE]
  BY DEF FindSlot
<1>3. PICK x \in ThreadType :
        /\ th' = [th EXCEPT ![t] = x] /\ x.at = "slot" /\ x.slot = j
        /\ x.token = th[t].token
        /\ x.back = th[t].back /\ x.seen = th[t].seen /\ x.moved = th[t].moved
  <2> DEFINE y == [th[t] EXCEPT !.at = "slot", !.slot = j]
  <2>1. /\ y \in ThreadType /\ y.at = "slot" /\ y.slot = j
        /\ y.token = th[t].token
        /\ y.back = th[t].back /\ y.seen = th[t].seen /\ y.moved = th[t].moved
    BY Zenon, <1>1 DEF ThreadType, Places
  <2>2. th' = [th EXCEPT ![t] = y]
    BY Zenon, <1>1 DEF FindSlot, ThreadType
  <2> QED  BY Zenon, <2>1, <2>2
<1>4. th' \in [Users -> ThreadType] /\ Moves(core, t, Core(x), core')
  BY Zenon, <1>1, <1>3, OneMoves
<1>5. /\ core[t].at = "shared" /\ Core(x).at = "slot" /\ Core(x).slot = j
      /\ Core(x).token = core[t].token
      /\ Core(x).back = core[t].back /\ Core(x).seen = core[t].seen
      /\ Core(x).moved = core[t].moved
  <2>1. "slot" \in Places /\ "shared" \in Places
    BY DEF Places
  <2> QED  BY <1>1, <1>2, <1>3, <2>1, CoreFields
<1>6. /\ Flow(Core(x)) /\ (Up(Core(x)) <=> Up(core[t]))
      /\ {core[t].at, Core(x).at}
           \subseteq {"idle", "lock", "U", "upgrade", "shared", "slot"}
  BY Zenon, <1>1, <1>5 DEF Flow, Up
<1>7. /\ word' \in WordType /\ KeepBits(word, word') /\ word'.s = word.s
      /\ word.mayDefer => word'.mayDefer
  BY Zenon, <1>1, <1>2 DEF WordType, KeepBits
<1>8. word'.mayDefer => word.mayDefer \/ ~(word.hasE \/ word.begunE)
  BY <1>1, <1>2 DEF LockInv, Solo
<1>9. LockInv(word', slots, core')
  BY Zenon, <1>1, <1>4, <1>6, <1>7, <1>8, AsideStep
<1> QED  BY Zenon, <1>2, <1>4, <1>9 DEF IInv

(* it takes the slot, or begins again;                                     *)
LEMMA TakeSlotInv ==
  ASSUME Sizes, IInv, NEW t \in Users, TakeSlot(t)
  PROVE  IInv'
<1>1. /\ th \in [Users -> ThreadType] /\ th[t] \in ThreadType
      /\ LockInv(word, slots, core) /\ word \in WordType /\ Flow(core[t])
      /\ core[t].seen = th[t].seen /\ core[t].moved = th[t].moved
      /\ core[t].token = th[t].token /\ core[t].slot = th[t].slot
      /\ th[t].at \in Places => core[t].at = th[t].at
                                /\ core[t].back = th[t].back
  BY Start
<1>2. th[t].at = "slot" /\ word' = word
  BY Zenon DEF TakeSlot
<1>3. core[t].at = "slot" /\ core[t].back = th[t].back /\ KeepBits(word, word)
      /\ (word.mayDefer => word.mayDefer \/ ~(word.hasE \/ word.begunE))
  BY Zenon, <1>1, <1>2, SameBits DEF Places
<1>4. CASE /\ slots[th[t].slot] = None
           /\ slots' = [slots EXCEPT ![th[t].slot] = th[t].token]
           /\ th' = [th EXCEPT ![t].at = "check"]
  <2>1. PICK x \in ThreadType :
          /\ th' = [th EXCEPT ![t] = x] /\ x.at = "check" /\ x.slot = th[t].slot
          /\ x.token = th[t].token
          /\ x.back = th[t].back /\ x.seen = th[t].seen /\ x.moved = th[t].moved
    <3> DEFINE y == [th[t] EXCEPT !.at = "check"]
    <3>1. /\ y \in ThreadType /\ y.at = "check" /\ y.slot = th[t].slot
          /\ y.token = th[t].token
          /\ y.back = th[t].back /\ y.seen = th[t].seen /\ y.moved = th[t].moved
      BY Zenon, <1>1 DEF ThreadType, Places
    <3>2. th' = [th EXCEPT ![t] = y]
      BY <1>1, <1>4 DEF ThreadType
    <3> QED  BY Zenon, <3>1, <3>2
  <2>2. th' \in [Users -> ThreadType] /\ Moves(core, t, Core(x), core')
    BY Zenon, <1>1, <2>1, OneMoves
  <2>3. /\ Core(x).at = "check" /\ Core(x).slot = core[t].slot
        /\ Core(x).token = core[t].token
        /\ Core(x).back = core[t].back /\ Core(x).seen = core[t].seen
        /\ Core(x).moved = core[t].moved
    <3>1. "check" \in Places
      BY Zenon DEF Places
    <3> QED  BY Zenon, <1>1, <1>3, <2>1, <3>1, CoreFields
  <2>4. Flow(Core(x))
    BY Zenon, <1>1, <1>3, <2>3 DEF Flow
  <2>5. /\ slots[Core(x).slot] = None
        /\ slots' = [slots EXCEPT ![Core(x).slot] = Core(x).token]
    BY Zenon, <1>1, <1>4, <2>3
  <2>6. LockInv(word, slots', core')
    BY Zenon, <1>1, <1>3, <2>2, <2>3, <2>4, <2>5, TakeStep
  <2> QED  BY <1>2, <2>2, <2>6 DEF IInv
<1>5. CASE th' = [th EXCEPT ![t].at = "shared", ![t].slot = None] /\ slots' = slots
  <2>1. PICK x \in ThreadType :
          /\ th' = [th EXCEPT ![t] = x] /\ x.at = "shared"
          /\ x.token = th[t].token
          /\ x.back = th[t].back /\ x.seen = th[t].seen /\ x.moved = th[t].moved
    <3> DEFINE y == [th[t] EXCEPT !.at = "shared", !.slot = None]
    <3>1. /\ y \in ThreadType /\ y.at = "shared" /\ y.token = th[t].token
          /\ y.back = th[t].back /\ y.seen = th[t].seen /\ y.moved = th[t].moved
      BY Zenon, <1>1 DEF ThreadType, Places
    <3>2. th' = [th EXCEPT ![t] = y]
      BY Zenon, <1>1, <1>5 DEF ThreadType
    <3> QED  BY Zenon, <3>1, <3>2
  <2>2. th' \in [Users -> ThreadType] /\ Moves(core, t, Core(x), core')
    BY Zenon, <1>1, <2>1, OneMoves
  <2>3. /\ Core(x).at = "shared" /\ Core(x).token = core[t].token
        /\ Core(x).back = core[t].back /\ Core(x).seen = core[t].seen
        /\ Core(x).moved = core[t].moved
    <3>1. "shared" \in Places
      BY Zenon DEF Places
    <3> QED  BY Zenon, <1>1, <1>3, <2>1, <3>1, CoreFields
  <2>4. /\ Flow(Core(x)) /\ (Up(Core(x)) <=> Up(core[t]))
        /\ {core[t].at, Core(x).at}
             \subseteq {"idle", "lock", "U", "upgrade", "shared", "slot"}
    BY Zenon, <1>1, <1>3, <2>3 DEF Flow, Up
  <2>5. LockInv(word, slots, core')
    BY Zenon, <1>1, <1>3, <2>2, <2>4, AsideStep
  <2> QED  BY <1>2, <1>5, <2>2, <2>5 DEF IInv
<1> QED  BY Zenon, <1>4, <1>5 DEF TakeSlot

(* then it finds deferral still on, or takes its record back.              *)
LEMMA CheckSlotInv ==
  ASSUME Sizes, IInv, NEW t \in Users, CheckSlot(t)
  PROVE  IInv'
<1>1. /\ th \in [Users -> ThreadType] /\ th[t] \in ThreadType
      /\ LockInv(word, slots, core) /\ Flow(core[t])
      /\ core[t].seen = th[t].seen /\ core[t].moved = th[t].moved
      /\ core[t].token = th[t].token /\ core[t].slot = th[t].slot
      /\ th[t].at \in Places => core[t].at = th[t].at
                                /\ core[t].back = th[t].back
  BY Start
<1>2. th[t].at = "check" /\ word' = word /\ slots' = slots
  BY Zenon DEF CheckSlot
<1>3. /\ core[t].at = "check" /\ core[t].back = th[t].back
      /\ core[t].slot \in Table /\ core[t].token \in {"token", "less"}
      /\ core[t].seen = {}
  BY <1>1, <1>2 DEF Places, Flow
<1>4. CASE /\ word.mayDefer
           /\ th' = [th EXCEPT ![t].at = "S", ![t].slot = None,
                ![t].token = IF @ = "token" THEN th[t].slot ELSE @]
  <2>1. PICK x \in ThreadType :
          /\ th' = [th EXCEPT ![t] = x] /\ x.at = "S"
          /\ x.token = IF th[t].token = "token" THEN th[t].slot ELSE th[t].token
          /\ x.back = th[t].back /\ x.seen = th[t].seen /\ x.moved = th[t].moved
    <3> DEFINE k == IF th[t].token = "token" THEN th[t].slot ELSE th[t].token
               y == [th[t] EXCEPT !.at = "S", !.slot = None, !.token = k]
    <3>0. k \in Tokens
      BY <1>1, <1>3 DEF ThreadType, Tokens
    <3>1. /\ y \in ThreadType /\ y.at = "S" /\ y.token = k
          /\ y.back = th[t].back /\ y.seen = th[t].seen /\ y.moved = th[t].moved
      <4> HIDE DEF k
      <4> QED  BY Zenon, <1>1, <3>0 DEF ThreadType, Places
    <3>2. th' = [th EXCEPT ![t] = y]
      BY Zenon, <1>1, <1>4 DEF ThreadType
    <3> QED  BY Zenon, <3>1, <3>2
  <2>2. th' \in [Users -> ThreadType] /\ Moves(core, t, Core(x), core')
    BY Zenon, <1>1, <2>1, OneMoves
  <2>3. /\ Core(x).at = "S"
        /\ core[t].token = "token" => Core(x).token = core[t].slot
        /\ Core(x).back = core[t].back /\ Core(x).seen = core[t].seen
        /\ Core(x).moved = core[t].moved
    <3>1. "S" \in Places
      BY Zenon DEF Places
    <3> QED  BY <1>1, <1>3, <2>1, <3>1, CoreFields
  <2>4. Flow(Core(x)) /\ Gives(Core(x)) /\ Gives(core[t])
    BY Zenon, <1>1, <1>3, <2>3 DEF Flow, Gives
  <2>5. \A j \in Table : HasToken(core[t], j) => HasToken(Core(x), j)
    BY <1>3, <2>3 DEF HasToken
  <2>6. LockInv(word, slots, core')
    BY Zenon, <1>1, <1>4, <2>2, <2>4, <2>5, CountedStep
  <2> QED  BY <1>2, <2>2, <2>6 DEF IInv
<1>5. CASE th' = [th EXCEPT ![t].back = "shared", ![t].at =
                    IF th[t].token = "less" THEN "search" ELSE "release"]
  <2>1. PICK x \in ThreadType :
          /\ th' = [th EXCEPT ![t] = x] /\ x.back = "shared"
          /\ x.at = IF th[t].token = "less" THEN "search" ELSE "release"
          /\ x.slot = th[t].slot /\ x.token = th[t].token
          /\ x.seen = th[t].seen /\ x.moved = th[t].moved
    <3> DEFINE p == IF th[t].token = "less" THEN "search" ELSE "release"
               y == [th[t] EXCEPT !.back = "shared", !.at = p]
    <3>0. p \in Places
      BY DEF Places
    <3>1. /\ y \in ThreadType /\ y.at = p /\ y.back = "shared"
          /\ y.slot = th[t].slot /\ y.token = th[t].token
          /\ y.seen = th[t].seen /\ y.moved = th[t].moved
      <4>1. "shared" \in Places
        BY DEF Places
      <4> HIDE DEF p
      <4> QED  BY Zenon, <1>1, <3>0, <4>1 DEF ThreadType
    <3>2. th' = [th EXCEPT ![t] = y]
      BY Zenon, <1>1, <1>5 DEF ThreadType
    <3> QED  BY Zenon, <3>1, <3>2
  <2>2. th' \in [Users -> ThreadType] /\ Moves(core, t, Core(x), core')
    BY Zenon, <1>1, <2>1, OneMoves
  <2>3. /\ Core(x).at = IF core[t].token = "less" THEN "search" ELSE "release"
        /\ Core(x).back = "shared" /\ Core(x).slot = core[t].slot
        /\ Core(x).token = core[t].token /\ Core(x).seen = core[t].seen
        /\ Core(x).moved = core[t].moved
    <3>1. "search" \in Places /\ "release" \in Places
      BY DEF Places
    <3>2. x.at \in Places
      BY Zenon, <2>1, <3>1
    <3> QED  BY <1>1, <2>1, <3>2, CoreFields
  <2>4. Flow(Core(x)) /\ Gives(Core(x)) /\ Gives(core[t])
    BY Zenon, <1>1, <1>3, <2>3 DEF Flow, Gives
  <2>5. \A j \in Table : /\ HasToken(core[t], j) => HasToken(Core(x), j)
                         /\ Owns(core[t], slots[j], j) => Owns(Core(x), slots[j], j)
    BY Zenon, <1>3, <2>3 DEF HasToken, Owns
  <2>6. LockInv(word, slots, core')
    BY Zenon, <1>1, <2>2, <2>4, <2>5, CountedStep
  <2> QED  BY <1>2, <2>2, <2>6 DEF IInv
<1> QED  BY Zenon, <1>4, <1>5 DEF CheckSlot

(* unlock_shared begins where the lock may be recorded.                    *)
LEMMA UnlockSharedInv ==
  ASSUME Sizes, IInv, NEW t \in Users, UnlockShared(t)
  PROVE  IInv'
<1>1. /\ th \in [Users -> ThreadType] /\ th[t] \in ThreadType
      /\ LockInv(word, slots, core) /\ Flow(core[t])
      /\ core[t].seen = th[t].seen /\ core[t].moved = th[t].moved
      /\ core[t].token = th[t].token /\ core[t].slot = th[t].slot
      /\ th[t].at \in Places => core[t].at = th[t].at
                                /\ core[t].back = th[t].back
  BY Start
<1>2. th[t].at = "S" /\ word' = word /\ slots' = slots
  BY Zenon DEF UnlockShared
<1>3. core[t].at = "S" /\ core[t].back = th[t].back
  BY Zenon, <1>1, <1>2 DEF Places
<1>4. PICK j \in Table \cup {None}, p \in {"release", "search", "decrement"} :
        /\ th' = [th EXCEPT ![t].slot = j, ![t].at = p]
        /\ th[t].token \in Table => j = th[t].token /\ p = "release"
        /\ p = "release" => j \in Table
  BY Zenon DEF UnlockShared
<1>5. PICK x \in ThreadType :
        /\ th' = [th EXCEPT ![t] = x] /\ x.at = p /\ x.slot = j
        /\ x.back = th[t].back /\ x.seen = th[t].seen /\ x.moved = th[t].moved
  <2> DEFINE y == [th[t] EXCEPT !.slot = j, !.at = p]
  <2>0. p \in Places
    BY DEF Places
  <2>1. /\ y \in ThreadType /\ y.at = p /\ y.slot = j
        /\ y.back = th[t].back /\ y.seen = th[t].seen /\ y.moved = th[t].moved
    BY Zenon, <1>1, <2>0 DEF ThreadType
  <2>2. th' = [th EXCEPT ![t] = y]
    BY Zenon, <1>1, <1>4 DEF ThreadType
  <2> QED  BY Zenon, <2>1, <2>2
<1>6. th' \in [Users -> ThreadType] /\ Moves(core, t, Core(x), core')
  BY Zenon, <1>1, <1>5, OneMoves
<1>7. /\ Core(x).at = p /\ Core(x).slot = j
      /\ Core(x).back = core[t].back /\ Core(x).seen = core[t].seen
      /\ Core(x).moved = core[t].moved
  <2>1. p \in Places
    BY DEF Places
  <2> QED  BY Zenon, <1>1, <1>3, <1>5, <2>1, CoreFields
<1>8. Flow(Core(x)) /\ Gives(Core(x)) /\ Gives(core[t])
  BY Zenon, <1>1, <1>3, <1>4, <1>7 DEF Flow, Gives
<1>9. \A i \in Table : /\ HasToken(core[t], i) => HasToken(Core(x), i)
                       /\ ~Owns(core[t], slots[i], i)
  BY Zenon, <1>1, <1>3, <1>4, <1>7 DEF HasToken, Owns
<1>10. LockInv(word, slots, core')
  BY Zenon, <1>1, <1>6, <1>8, <1>9, CountedStep
<1> QED  BY Zenon, <1>2, <1>6, <1>10 DEF IInv

(* Where a call goes that has given up its place.                          *)
LEMMA GoBackCore ==
  ASSUME Sizes, IInv, NEW t \in Users,
         th[t].at \in {"release", "search", "decrement"}
  PROVE  /\ GoBack(t) \in ThreadType /\ GoBack(t).at \in {"idle", "shared"}
         /\ GoBack(t).at \in Places \ {"apply"} /\ GoBack(t).back = "idle"
         /\ Flow(Core(GoBack(t))) /\ Core(GoBack(t)).at \in {"idle", "shared"}
<1>1. /\ th[t] \in ThreadType /\ Flow(core[t]) /\ core[t].token = th[t].token
      /\ th[t].at \in Places => core[t].at = th[t].at
                                /\ core[t].back = th[t].back
  BY Zenon, Start
<1>2. \/ th[t].back = "idle"
      \/ th[t].back = "shared" /\ th[t].token \in {"token", "less"}
  BY <1>1 DEF Places, Flow
<1>3. PICK p \in {"idle", "shared"}, k \in {None, "token", "less"} :
        /\ GoBack(t) = [Away EXCEPT !.at = p, !.token = k]
        /\ p = "shared" => k \in {"token", "less"}
  BY Zenon, <1>2 DEF GoBack, None
<1>4. /\ GoBack(t) \in ThreadType /\ GoBack(t).at = p /\ GoBack(t).token = k
      /\ GoBack(t).back = "idle" /\ GoBack(t).seen = {} /\ GoBack(t).moved = 0
  BY Zenon, <1>3, AwayType DEF ThreadType, Places, Tokens
<1>5. p \in Places
  BY DEF Places
<1>6. /\ Core(GoBack(t)).at = p /\ Core(GoBack(t)).token = k
      /\ Core(GoBack(t)).back = "idle" /\ Core(GoBack(t)).seen = {}
      /\ Core(GoBack(t)).moved = 0
  BY <1>4, <1>5, CoreFields
<1>7. Flow(Core(GoBack(t)))
  BY <1>3, <1>6 DEF Flow
<1> QED  BY Zenon, <1>4, <1>5, <1>6, <1>7

(* tryUnlockSharedDeferred                                                 *)
LEMMA ReleaseSlotInv ==
  ASSUME Sizes, IInv, NEW t \in Users, ReleaseSlot(t)
  PROVE  IInv'
<1>1. /\ th \in [Users -> ThreadType] /\ th[t] \in ThreadType
      /\ LockInv(word, slots, core) /\ Flow(core[t])
      /\ core[t].seen = th[t].seen /\ core[t].moved = th[t].moved
      /\ core[t].token = th[t].token /\ core[t].slot = th[t].slot
      /\ th[t].at \in Places => core[t].at = th[t].at
                                /\ core[t].back = th[t].back
  BY Start
<1>2. th[t].at = "release" /\ word' = word
  BY Zenon DEF ReleaseSlot
<1>3. /\ core[t].at = "release" /\ core[t].back = th[t].back
      /\ core[t].slot \in Table
  BY Zenon, <1>1, <1>2 DEF Places, Flow
<1>4. CASE /\ slots[th[t].slot] = "token"
           /\ slots' = [slots EXCEPT ![th[t].slot] = None]
           /\ th' = [th EXCEPT ![t] = GoBack(t)]
  <2>1. PICK x \in ThreadType :
          /\ th' = [th EXCEPT ![t] = x] /\ Flow(Core(x))
          /\ Core(x).at \in {"idle", "shared"}
    BY Zenon, <1>2, <1>4, GoBackCore
  <2>2. th' \in [Users -> ThreadType] /\ Moves(core, t, Core(x), core')
    BY Zenon, <1>1, <2>1, OneMoves
  <2>3. PICK j \in Table : /\ j = core[t].slot /\ slots[j] # None
                           /\ slots' = [slots EXCEPT ![j] = None]
    BY Zenon, <1>1, <1>3, <1>4 DEF None
  <2>4. /\ \A i \in Table : i # j => /\ ~Owns(core[t], slots[i], i)
                                     /\ ~HasToken(core[t], i)
        /\ core[t].at \in {"release", "search"}
    BY <1>3, <2>3 DEF Owns, HasToken
  <2>5. LockInv(word, slots', core')
    BY Zenon, <1>1, <2>1, <2>2, <2>3, <2>4, TakeBackStep
  <2> QED  BY Zenon, <1>2, <2>2, <2>5 DEF IInv
<1>5. CASE /\ slots[th[t].slot] # "token" /\ slots' = slots
           /\ th' = [th EXCEPT ![t].at = "decrement", ![t].slot = None]
  <2>1. PICK x \in ThreadType :
          /\ th' = [th EXCEPT ![t] = x] /\ x.at = "decrement"
          /\ x.token = th[t].token
          /\ x.back = th[t].back /\ x.seen = th[t].seen /\ x.moved = th[t].moved
    <3> DEFINE y == [th[t] EXCEPT !.at = "decrement", !.slot = None]
    <3>1. /\ y \in ThreadType /\ y.at = "decrement" /\ y.token = th[t].token
          /\ y.back = th[t].back /\ y.seen = th[t].seen /\ y.moved = th[t].moved
      BY Zenon, <1>1 DEF ThreadType, Places
    <3>2. th' = [th EXCEPT ![t] = y]
      BY Zenon, <1>1, <1>5 DEF ThreadType
    <3> QED  BY Zenon, <3>1, <3>2
  <2>2. th' \in [Users -> ThreadType] /\ Moves(core, t, Core(x), core')
    BY Zenon, <1>1, <2>1, OneMoves
  <2>3. /\ Core(x).at = "decrement" /\ Core(x).token = core[t].token
        /\ Core(x).back = core[t].back /\ Core(x).seen = core[t].seen
        /\ Core(x).moved = core[t].moved
    <3>1. "decrement" \in Places
      BY Zenon DEF Places
    <3> QED  BY Zenon, <1>1, <1>3, <2>1, <3>1, CoreFields
  <2>4. Flow(Core(x)) /\ Gives(Core(x)) /\ Gives(core[t])
    BY Zenon, <1>1, <1>3, <2>3 DEF Flow, Gives
  <2>5. \A j \in Table : /\ HasToken(core[t], j) => slots[j] # "token"
                         /\ ~Owns(core[t], slots[j], j)
    BY Zenon, <1>1, <1>3, <1>5 DEF HasToken, Owns
  <2>6. LockInv(word, slots, core')
    BY Zenon, <1>1, <2>2, <2>4, <2>5, CountedStep
  <2> QED  BY <1>2, <1>5, <2>2, <2>6 DEF IInv
<1> QED  BY Zenon, <1>4, <1>5 DEF ReleaseSlot

(* tryUnlockTokenlessSharedDeferred                                        *)
LEMMA SearchSlotInv ==
  ASSUME Sizes, IInv, NEW t \in Users, NEW j \in Table, SearchSlot(t, j)
  PROVE  IInv'
<1>1. /\ th \in [Users -> ThreadType] /\ th[t] \in ThreadType
      /\ LockInv(word, slots, core) /\ Flow(core[t])
      /\ core[t].seen = th[t].seen /\ core[t].moved = th[t].moved
      /\ core[t].token = th[t].token /\ core[t].slot = th[t].slot
      /\ th[t].at \in Places => core[t].at = th[t].at
                                /\ core[t].back = th[t].back
  BY Zenon, Start
<1>2. /\ th[t].at = "search" /\ word' = word /\ j \notin th[t].seen
      /\ th[t].slot \in {None, j} \cup th[t].seen
  BY Zenon DEF SearchSlot
<1>3. core[t].at = "search" /\ core[t].back = th[t].back
  BY Zenon, <1>1, <1>2 DEF Places
<1>4. CASE /\ slots[j] = "less" /\ slots' = [slots EXCEPT ![j] = None]
           /\ th' = [th EXCEPT ![t] = GoBack(t)]
  <2>1. PICK x \in ThreadType :
          /\ th' = [th EXCEPT ![t] = x] /\ Flow(Core(x))
          /\ Core(x).at \in {"idle", "shared"}
    BY Zenon, <1>2, <1>4, GoBackCore
  <2>2. th' \in [Users -> ThreadType] /\ Moves(core, t, Core(x), core')
    BY Zenon, <1>1, <2>1, OneMoves
  <2>3. slots[j] # None /\ None \notin Table
    BY <1>4 DEF None, Sizes
  <2>4. /\ \A i \in Table : i # j => /\ ~Owns(core[t], slots[i], i)
                                     /\ ~HasToken(core[t], i)
        /\ core[t].at \in {"release", "search"}
    BY <1>1, <1>2, <1>3, <2>3 DEF Owns, HasToken
  <2>5. LockInv(word, slots', core')
    BY Zenon, <1>1, <1>4, <2>1, <2>2, <2>3, <2>4, TakeBackStep
  <2> QED  BY Zenon, <1>2, <2>2, <2>5 DEF IInv
<1>5. CASE /\ slots[j] # "less" /\ slots' = slots
           /\ th' = [th EXCEPT ![t].seen = @ \cup {j}]
  <2>1. PICK x \in ThreadType :
          /\ th' = [th EXCEPT ![t] = x] /\ x.at = "search"
          /\ x.token = th[t].token /\ x.slot = th[t].slot
          /\ x.back = th[t].back /\ x.seen = th[t].seen \cup {j}
          /\ x.moved = th[t].moved
    <3> DEFINE y == [th[t] EXCEPT !.seen = th[t].seen \cup {j}]
    <3>1. /\ y \in ThreadType /\ y.at = "search" /\ y.token = th[t].token
          /\ y.slot = th[t].slot
          /\ y.back = th[t].back /\ y.seen = th[t].seen \cup {j}
          /\ y.moved = th[t].moved
      BY Zenon, <1>1, <1>2 DEF ThreadType
    <3>2. th' = [th EXCEPT ![t] = y]
      BY <1>1, <1>5 DEF ThreadType
    <3> QED  BY Zenon, <3>1, <3>2
  <2>2. th' \in [Users -> ThreadType] /\ Moves(core, t, Core(x), core')
    BY Zenon, <1>1, <2>1, OneMoves
  <2>3. /\ Core(x).at = "search" /\ Core(x).token = core[t].token
        /\ Core(x).slot = core[t].slot
        /\ Core(x).back = core[t].back /\ Core(x).seen = core[t].seen \cup {j}
        /\ Core(x).moved = core[t].moved
    <3>1. "search" \in Places
      BY Zenon DEF Places
    <3> QED  BY Zenon, <1>1, <1>3, <2>1, <3>1, CoreFields
  <2>4. Flow(Core(x)) /\ Gives(Core(x)) /\ Gives(core[t])
    BY Zenon, <1>1, <1>3, <2>3 DEF Flow, Gives
  <2>5. \A i \in Table : /\ ~HasToken(core[t], i)
                         /\ Owns(core[t], slots[i], i) => Owns(Core(x), slots[i], i)
    BY Zenon, <1>1, <1>3, <1>5, <2>3 DEF HasToken, Owns
  <2>6. LockInv(word, slots, core')
    BY Zenon, <1>1, <2>2, <2>4, <2>5, CountedStep
  <2> QED  BY <1>2, <1>5, <2>2, <2>6 DEF IInv
<1> QED  BY Zenon, <1>4, <1>5 DEF SearchSlot

(* It has found no record that it could take back.                         *)
LEMMA SearchFailedInv ==
  ASSUME Sizes, IInv, NEW t \in Users, SearchFailed(t)
  PROVE  IInv'
<1>1. /\ th \in [Users -> ThreadType] /\ th[t] \in ThreadType
      /\ LockInv(word, slots, core) /\ Flow(core[t])
      /\ core[t].seen = th[t].seen /\ core[t].moved = th[t].moved
      /\ core[t].token = th[t].token
      /\ th[t].at \in Places => core[t].at = th[t].at
                                /\ core[t].back = th[t].back
  BY Zenon, Start
<1>2. /\ th[t].at = "search" /\ word' = word /\ slots' = slots
      /\ th[t].seen = Table
  BY Zenon DEF SearchFailed
<1>3. core[t].at = "search" /\ core[t].back = th[t].back
  BY Zenon, <1>1, <1>2 DEF Places
<1>4. PICK x \in ThreadType :
        /\ th' = [th EXCEPT ![t] = x] /\ x.at = "decrement"
        /\ x.token = th[t].token
        /\ x.back = th[t].back /\ x.seen = {} /\ x.moved = th[t].moved
  <2> DEFINE y == [th[t] EXCEPT !.at = "decrement", !.seen = {}, !.slot = None]
  <2>1. /\ y \in ThreadType /\ y.at = "decrement" /\ y.token = th[t].token
        /\ y.back = th[t].back /\ y.seen = {} /\ y.moved = th[t].moved
    BY Zenon, <1>1 DEF ThreadType, Places
  <2>2. th' = [th EXCEPT ![t] = y]
    BY Zenon, <1>1 DEF SearchFailed, ThreadType
  <2> QED  BY Zenon, <2>1, <2>2
<1>5. th' \in [Users -> ThreadType] /\ Moves(core, t, Core(x), core')
  BY Zenon, <1>1, <1>4, OneMoves
<1>6. /\ Core(x).at = "decrement" /\ Core(x).token = core[t].token
      /\ Core(x).back = core[t].back /\ Core(x).seen = {}
      /\ Core(x).moved = core[t].moved
  <2>1. "decrement" \in Places
    BY Zenon DEF Places
  <2> QED  BY Zenon, <1>1, <1>3, <1>4, <2>1, CoreFields
<1>7. Flow(Core(x)) /\ Gives(Core(x)) /\ Gives(core[t])
  BY Zenon, <1>1, <1>3, <1>6 DEF Flow, Gives
<1>8. \A j \in Table : ~HasToken(core[t], j) /\ ~Owns(core[t], slots[j], j)
  BY Zenon, <1>1, <1>2, <1>3 DEF HasToken, Owns
<1>9. LockInv(word, slots, core')
  BY Zenon, <1>1, <1>5, <1>7, <1>8, CountedStep
<1> QED  BY Zenon, <1>2, <1>5, <1>9 DEF IInv

(* unlockSharedInline                                                      *)
LEMMA UnlockSharedInlineInv ==
  ASSUME Sizes, IInv, NEW t \in Users, UnlockSharedInline(t)
  PROVE  IInv'
<1>1. /\ th \in [Users -> ThreadType] /\ th[t] \in ThreadType
      /\ LockInv(word, slots, core) /\ word \in WordType
      /\ th[t].at \in Places => core[t].at = th[t].at
  BY Zenon, Start
<1>2. /\ th[t].at = "decrement" /\ word' = Count(word, -1) /\ slots' = slots
      /\ ThenWake(t, word', IF word'.s = 0 THEN {"NotS"} ELSE {}, GoBack(t))
  BY Zenon DEF UnlockSharedInline
<1>3. core[t].at = "decrement"
  BY Zenon, <1>1, <1>2 DEF Places
<1>4. PICK M \in Masks : ThenWake(t, word', M, GoBack(t))
  BY Zenon, <1>2 DEF Masks
<1>5. PICK b \in ThreadType :
        /\ ThenWake(t, word', M, b)
        /\ b.at \in Places \ {"apply"} /\ b.back = "idle"
        /\ Flow(Core(b)) /\ Core(b).at \in {"idle", "shared"}
  BY Zenon, <1>2, <1>4, GoBackCore
<1>6. PICK x \in ThreadType : th' = [th EXCEPT ![t] = x] /\ Core(x) = Core(b)
  <2>1. Lands(t, b)
    BY Zenon, <1>1, <1>5, WakeMoves
  <2> QED  BY Zenon, <2>1 DEF Lands
<1>7. th' \in [Users -> ThreadType] /\ Moves(core, t, Core(x), core')
  BY Zenon, <1>1, <1>6, OneMoves
<1>8. /\ word' \in WordType /\ KeepBits(word, word')
      /\ word'.s = (word.s + (-1)) % Readers /\ word'.mayDefer = word.mayDefer
  BY Zenon, <1>1, <1>2, Units, CountWord
<1>9. LockInv(word', slots, core')
  BY Zenon, <1>1, <1>3, <1>5, <1>6, <1>7, <1>8, DecrementStep
<1> QED  BY Zenon, <1>2, <1>7, <1>9 DEF IInv

=============================================================================
