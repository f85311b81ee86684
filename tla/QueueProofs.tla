---------------------------- MODULE QueueProofs ----------------------------
(***************************************************************************)
(* MPMCQueue for every capacity, every stride that computeStride may       *)
(* return, any threads, any elements and any number of tickets: its slots  *)
(* are used in turn and waits that were promised are served (SlotsServed), *)
(* its answers are true (AnswersTrue), and it is a FIFO queue              *)
(* (ImplementsFifo).  And BlockingQueue, which waits beside such a queue:  *)
(* no element is stranded (NoStrandedItem).                                *)
(***************************************************************************)
EXTENDS MPMCQueue, BlockingQueue, ModLemmas, FiniteSetTheorems, TLAPS

(* The call has a ticket.                                                  *)
Held(c) == c.pc \in {"wait", "in"}

(* Between the first load of its ticket and the compare_exchange.          *)
Trying(c) == c.pc \in {"check", "recheck", "bound", "cas"}

(* A ticket that was taken waits for a turn that has not passed, and a     *)
(* write's element is the one the log has for it.                          *)
Waits(c) ==
  Held(c) =>
    /\ c.tk < ticket[c.side]
    /\ turnAt[idx(c.tk)] <= TurnOf(c.side, c.tk)
    /\ c.pc = "in" => May(c.side, c.tk)
    /\ c.side = "push" => log[c.tk + 1] = c.val

(* What a call knows from the loads it has made.                           *)
Knows(c) ==
  /\ (Trying(c) \/ Held(c)) /\ c.side = "push" => c.val \in Values
  /\ Trying(c) => c.tk <= ticket[c.side]
  /\ c.pc \in {"check", "recheck"} => c.kind = "ready"
  /\ c.pc = "bound" => c.kind = "promised"
  /\ c.pc = "recheck" /\ c.tk = ticket[c.side] => c.bracketed
  /\ c.pc = "cas" /\ c.kind = "ready" /\ c.tk = ticket[c.side]
       => May(c.side, c.tk)
  /\ c.pc = "wait" /\ c.kind = "ready" => May(c.side, c.tk)
  /\ c.pc \in {"cas", "wait"} /\ c.kind = "promised"
       => ~Exhausted(c.side, c.tk, ticket[Other(c.side)])

(* Every size the queue had since size() began is recorded, and as long as *)
(* the ticket read first has not moved on the difference is one of them.   *)
Measures(c) ==
  /\ c.pc \in {"sizeB", "sizeC", "sizeD"} =>
       Size \in c.sizes /\ c.tk <= ticket["push"]
  /\ c.pc \in {"sizeC", "sizeD"} => c.seen <= ticket["pop"]
  /\ c.pc = "sizeC" /\ c.tk = ticket["push"] => c.tk - c.seen \in c.sizes
  /\ c.pc = "sizeD" /\ c.seen = ticket["pop"] => c.tk - c.seen \in c.sizes

CallOK(c) == Waits(c) /\ Knows(c) /\ Measures(c)

(* No two calls have the same ticket.                                      *)
OwnTickets == \A t, u \in Threads :
  Held(call[t]) /\ Held(call[u]) /\ call[t].side = call[u].side
    /\ call[t].tk = call[u].tk => t = u

(* The turn of a ticket that was taken has passed or a call has the ticket. *)
Accounted == \A s \in Sides : \A k \in 0..(ticket[s] - 1) :
  \/ TurnOf(s, k) < turnAt[idx(k)]
  \/ \E t \in Threads : Held(call[t]) /\ call[t].side = s /\ call[t].tk = k

(* The turn of a ticket that was not taken has not passed.                 *)
NotBefore == \A s \in Sides : \A k \in Nat :
  k >= ticket[s] => turnAt[idx(k)] <= TurnOf(s, k)

(* The element in a slot is the one that was written with the ticket.      *)
Stored == \A k \in 0..(ticket["push"] - 1) :
  turnAt[idx(k)] = TurnOf("pop", k) => contents[idx(k)] = log[k + 1]

SlotInv == Accounted /\ NotBefore /\ Stored /\ ConstructedIffOddTurn

QueueInv ==
  TypeOK /\ (\A t \in Threads : CallOK(call[t])) /\ OwnTickets /\ SlotInv

-----------------------------------------------------------------------------
(* Tickets, slots and turns.                                               *)

LEMMA TicketTypes ==
  ASSUME NEW k \in Nat
  PROVE  /\ idx(k) \in Slots /\ turn(k) \in Nat /\ turn(k) <= k
         /\ k % capacity \in Slots /\ k = capacity * turn(k) + (k % capacity)
<1> DEFINE n == k * stride
<1>1. n \in Nat
  BY QueueAssumption
<1>2. n % capacity \in Slots
  <2> HIDE DEF n
  <2> QED  BY <1>1, QueueAssumption DEF Slots
<1>3. /\ k \div capacity \in Nat /\ k % capacity \in Slots
      /\ k = capacity * (k \div capacity) + (k % capacity)
  BY QueueAssumption DEF Slots
<1> DEFINE q == k \div capacity
<1>4. q <= k
  <2>1. q \in Nat /\ k >= capacity * q
    BY <1>3, QueueAssumption DEF Slots
  <2> HIDE DEF q
  <2>2. capacity * q >= q
    BY <2>1, QueueAssumption
  <2> QED  BY <2>1, <2>2, QueueAssumption
<1> QED  BY <1>2, <1>3, <1>4 DEF idx, turn

(* Tickets a multiple of the capacity apart use the same slot.             *)
LEMMA SameSlot ==
  ASSUME NEW k \in Int, NEW q \in Int
  PROVE  idx(k + capacity * q) = idx(k)
<1>1. k * stride \in Int /\ q * stride \in Int
  BY QueueAssumption
<1>2. (k + capacity * q) * stride = k * stride + capacity * (q * stride)
  BY QueueAssumption
<1>3. (k * stride + capacity * (q * stride)) % capacity
        = (k * stride) % capacity
  BY Zenon, <1>1, QueueAssumption, ModShift
<1> QED  BY <1>2, <1>3 DEF idx

(* The turns of a push are even, those of a pop odd.                       *)
LEMMA TurnTypes ==
  ASSUME NEW s \in Sides, NEW k \in Nat
  PROVE  /\ TurnOf(s, k) \in Nat
         /\ TurnOf(s, k) % 2 = (IF s = "push" THEN 0 ELSE 1)
         /\ (TurnOf(s, k) + 1) % 2 = (IF s = "push" THEN 1 ELSE 0)
         /\ TurnOf(s, k) \div 2 = turn(k)
         /\ TurnOf("pop", k) = TurnOf("push", k) + 1
<1>1. turn(k) \in Nat
  BY TicketTypes
<1> QED  BY <1>1 DEF TurnOf, Sides

(* A turn of a slot is that of one ticket.                                 *)
LEMMA OneTicket ==
  ASSUME NEW s \in Sides, NEW r \in Sides, NEW k \in Nat, NEW j \in Nat,
         idx(k) = idx(j), TurnOf(s, k) = TurnOf(r, j)
  PROVE  s = r /\ k = j
<1>1. turn(k) = turn(j) /\ s = r
  <2>1. /\ TurnOf(s, k) \div 2 = turn(k) /\ TurnOf(r, j) \div 2 = turn(j)
        /\ TurnOf(s, k) % 2 = (IF s = "push" THEN 0 ELSE 1)
        /\ TurnOf(r, j) % 2 = (IF r = "push" THEN 0 ELSE 1)
    BY TurnTypes
  <2> QED  BY <2>1 DEF Sides
<1> DEFINE m == k % capacity
           n == j % capacity
<1>2. m \in Slots /\ n \in Slots /\ turn(k) \in Nat
      /\ k = capacity * turn(k) + m /\ j = capacity * turn(k) + n
  BY <1>1, TicketTypes
<1> HIDE DEF m, n
<1>3. m \in Int /\ n \in Int
  BY <1>2 DEF Slots
<1>4. k = m + capacity * turn(k) /\ j = n + capacity * turn(k)
  BY <1>2, <1>3, QueueAssumption
<1>5. idx(m + capacity * turn(k)) = idx(m) /\ idx(n + capacity * turn(k)) = idx(n)
  BY <1>2, <1>3, SameSlot
<1>6. idx(m) = idx(n)
  BY <1>4, <1>5
<1>7. m = n
  BY <1>2, <1>6, StrideAssumption DEF idx
<1> QED  BY <1>1, <1>4, <1>7

(* The ticket whose turn a slot is at, for a slot that is not yet at the   *)
(* turn of ticket k.                                                       *)
LEMMA EarlierTicket ==
  ASSUME NEW s \in Sides, NEW k \in Nat, NEW w \in Nat, w <= TurnOf(s, k)
  PROVE  \E r \in Sides, j \in Nat :
           /\ idx(j) = idx(k) /\ TurnOf(r, j) = w /\ j <= k
           /\ s = "push" /\ r = "pop" => j + capacity <= k
<1> DEFINE q == w \div 2
           d == turn(k) - q
           j == k - capacity * d
           r == IF w % 2 = 0 THEN "push" ELSE "pop"
<1>1. turn(k) \in Nat /\ k = capacity * turn(k) + (k % capacity) /\ k % capacity \in Slots
  BY TicketTypes
<1>2. q \in Nat /\ w % 2 \in {0, 1} /\ w = 2 * q + (w % 2)
  OBVIOUS
<1>3. d \in Nat /\ (s = "push" /\ r = "pop" => d >= 1)
  BY <1>1, <1>2 DEF TurnOf
<1> HIDE DEF q
<1>4. j = capacity * q + (k % capacity) /\ j = k + capacity * (-d)
  BY <1>1, <1>2, <1>3, QueueAssumption DEF Slots
<1>5. capacity * q \in Nat /\ capacity * d \in Nat /\ (d >= 1 => capacity * d >= capacity)
  <2> HIDE DEF d
  <2> QED  BY <1>2, <1>3, QueueAssumption
<1>6. j \in Nat /\ j <= k /\ (d >= 1 => j + capacity <= k)
  <2> HIDE DEF d
  <2> QED  BY <1>1, <1>4, <1>5, QueueAssumption DEF Slots
<1>7. idx(j) = idx(k)
  <2>1. -d \in Int
    BY <1>3
  <2> HIDE DEF d
  <2> QED  BY <1>4, <2>1, SameSlot
<1>8. turn(j) = q
  <2>1. j = capacity * turn(j) + (j % capacity) /\ turn(j) \in Nat /\ j % capacity \in Slots
    BY <1>6, TicketTypes
  <2>2. j % capacity = k % capacity
    <3> DEFINE m == k % capacity
    <3>1. m \in 0..(capacity - 1) /\ q \in Int /\ capacity \in Nat \ {0}
      BY <1>1, <1>2, QueueAssumption DEF Slots
    <3>2. j = capacity * q + m
      BY <1>4
    <3> HIDE DEF m, j
    <3>3. (capacity * q + m) % capacity = m
      BY <3>1, ModUnique
    <3> QED  BY <3>2, <3>3 DEF m
  <2>3. capacity * turn(j) = capacity * q
    BY <1>1, <1>2, <1>4, <2>1, <2>2, QueueAssumption DEF Slots
  <2> HIDE DEF j
  <2> QED  BY <1>2, <2>1, <2>3, QueueAssumption
<1>9. TurnOf(r, j) = w
  <2> HIDE DEF j
  <2> QED  BY <1>2, <1>8 DEF TurnOf
<1>10. r \in Sides
  BY DEF Sides
<1> HIDE DEF r, j
<1> QED  BY <1>3, <1>6, <1>7, <1>9, <1>10

(* The kinds of step: a call loads something, decides or begins; it takes  *)
(* a ticket; its turn comes; it completes the turn; its result is used.    *)
Ordinary(t, c) ==
  c \in CallType /\ Local(t, c) /\ CallOK(c) /\ ~Held(call[t]) /\ ~Held(c)

Taking(t, c) ==
  /\ c \in CallType /\ TakeTicket(t, c) /\ ~Held(call[t]) /\ ~Sizing(t)
  /\ c.side = "push" => c.val \in Values
  /\ c.kind = "ready" => May(c.side, ticket[c.side])
  /\ c.kind = "promised" =>
       ~Exhausted(c.side, ticket[c.side], ticket[Other(c.side)])

StepKind(t) ==
  \/ \E c : Ordinary(t, c) \/ Taking(t, c)
  \/ WaitForTurn(t) \/ Enqueue(t) \/ Dequeue(t) \/ Use(t)

-----------------------------------------------------------------------------
(* The invariant.                                                          *)

LEMMA CallFields ==
  ASSUME TypeOK, NEW t \in Threads
  PROVE  /\ call[t] \in CallType
         /\ call[t].tk \in 0..MaxTickets /\ call[t].tk \in Nat
         /\ call[t].seen \in Int /\ call[t].side \in Sides
         /\ call[t].val \in Values \cup {Nil} /\ call[t].sizes \in SUBSET Int
BY QueueAssumption DEF TypeOK, CallType

LEMMA TicketFields ==
  ASSUME TypeOK, NEW s \in Sides
  PROVE  ticket[s] \in 0..MaxTickets /\ ticket[s] \in Nat
         /\ Other(s) \in Sides
BY QueueAssumption DEF TypeOK, Other, Sides

LEMMA IdleCall ==
  ASSUME NEW n \in Int
  PROVE  /\ Idle(n) \in CallType /\ ~Held(Idle(n)) /\ CallOK(Idle(n))
         /\ Idle(n).pc = "idle" /\ Idle(n).ret = n
BY QueueAssumption
   DEF Idle, CallType, Places, Sides, Held, CallOK, Waits, Knows, Measures,
       Trying

LEMMA WithSize ==
  ASSUME NEW c \in CallType, NEW n \in Int, NEW d,
         d = [c EXCEPT !.sizes = @ \cup {n}]
  PROVE  /\ d \in CallType /\ d.sizes = c.sizes \cup {n}
         /\ d.pc = c.pc /\ d.side = c.side /\ d.kind = c.kind
         /\ d.tk = c.tk /\ d.seen = c.seen /\ d.val = c.val
         /\ d.bracketed = c.bracketed
BY DEF CallType

(* A step in which nobody takes a ticket or completes a turn.              *)
LEMMA LocalStep ==
  ASSUME QueueInv, NEW t \in Threads, NEW c, Ordinary(t, c)
  PROVE  QueueInv'
<1> USE DEF QueueInv, Ordinary
<1>1. /\ call' = [call EXCEPT ![t] = c] /\ call'[t] = c
      /\ \A u \in Threads : u # t => call'[u] = call[u]
      /\ ticket' = ticket /\ turnAt' = turnAt /\ log' = log /\ kinds' = kinds
      /\ contents' = contents /\ last' = last
  BY DEF Local, TypeOK
<1>2. TypeOK'
  BY <1>1 DEF TypeOK
<1>3. ASSUME NEW u \in Threads PROVE CallOK(call[u])'
  <2>1. CASE u = t
    BY <1>1, <2>1 DEF CallOK, Waits, Knows, Measures, May, Size
  <2>2. CASE u # t
    BY <1>1, <2>2 DEF CallOK, Waits, Knows, Measures, May, Size
  <2> QED  BY <2>1, <2>2
<1>4. \A u \in Threads : /\ Held(call'[u]) <=> Held(call[u])
                         /\ Held(call[u]) => call'[u] = call[u]
  BY <1>1
<1>5. OwnTickets'
  BY <1>4 DEF OwnTickets, Held
<1>6. SlotInv'
  <2>1. Accounted'
    BY <1>1, <1>4 DEF SlotInv, Accounted, Held
  <2>2. NotBefore' /\ Stored' /\ ConstructedIffOddTurn'
    BY <1>1 DEF SlotInv, NotBefore, Stored, ConstructedIffOddTurn
  <2> QED  BY <2>1, <2>2 DEF SlotInv
<1> QED  BY <1>2, <1>3, <1>5, <1>6

(* A call takes the next ticket: readers of the tickets learn nothing      *)
(* wrong, since tickets only grow.                                         *)
LEMMA TakeStep ==
  ASSUME QueueInv, NEW t \in Threads, NEW c, Taking(t, c)
  PROVE  QueueInv'
<1> USE DEF QueueInv, Taking
<1> DEFINE s == c.side
           k == ticket[s]
<1>1. /\ s \in Sides /\ k \in Nat /\ k < MaxTickets
      /\ ticket' = [ticket EXCEPT ![s] = k + 1]
      /\ ticket'[s] = k + 1
      /\ \A r \in Sides : r # s => ticket'[r] = ticket[r]
      /\ turnAt' = turnAt /\ kinds' = kinds /\ contents' = contents
      /\ last' = last
      /\ log' = IF s = "push" THEN Append(log, c.val) ELSE log
  BY TicketFields DEF TakeTicket, CallType, TypeOK
<1>2. /\ call'[t] = [c EXCEPT !.pc = "wait", !.tk = k]
      /\ \A u \in Threads : u # t =>
           \/ call'[u] = call[u] /\ ~Sizing(u)
           \/ /\ Sizing(u)
              /\ call'[u] = [call[u] EXCEPT !.sizes = @ \cup {Size'}]
  <2>1. Size + (IF s = "push" THEN 1 ELSE -1) = Size'
    BY <1>1, TicketFields DEF Size, Sides
  <2>2. call' = [u \in Threads |->
          IF u = t THEN [c EXCEPT !.pc = "wait", !.tk = k]
          ELSE IF Sizing(u) THEN [call[u] EXCEPT !.sizes = @ \cup {Size'}]
          ELSE call[u]]
    BY <2>1, Zenon DEF TakeTicket
  <2> QED  BY <2>2, Zenon
<1>3. /\ log' \in Seq(Values) /\ Len(log') = ticket'["push"]
      /\ \A i \in 1..Len(log) : log'[i] = log[i]
      /\ Len(log) = ticket["push"]
      /\ s = "push" => log'[k + 1] = c.val
  BY <1>1 DEF TypeOK, Sides
<1>4. Size' \in Int
  BY <1>1, TicketFields DEF Size, Sides
<1>5. \A u \in Threads : u # t =>
        /\ call'[u] \in CallType
        /\ call'[u].pc = call[u].pc /\ call'[u].side = call[u].side
        /\ call'[u].kind = call[u].kind /\ call'[u].tk = call[u].tk
        /\ call'[u].seen = call[u].seen /\ call'[u].val = call[u].val
        /\ call'[u].bracketed = call[u].bracketed
        /\ Sizing(u) => call'[u].sizes = call[u].sizes \cup {Size'}
  <2> TAKE u \in Threads
  <2> HAVE u # t
  <2>1. CASE call'[u] = call[u] /\ ~Sizing(u)
    BY <2>1, CallFields
  <2>2. CASE /\ Sizing(u)
             /\ call'[u] = [call[u] EXCEPT !.sizes = @ \cup {Size'}]
    BY <1>4, <2>2, CallFields, WithSize
  <2> QED  BY <1>2, <2>1, <2>2
<1>6. /\ call'[t] \in CallType
      /\ call'[t].pc = "wait" /\ call'[t].tk = k /\ call'[t].side = s
      /\ call'[t].kind = c.kind /\ call'[t].val = c.val
  <2>1. k \in 0..MaxTickets
    BY <1>1, QueueAssumption
  <2>2. call'[t] = [c EXCEPT !.pc = "wait", !.tk = k]
    BY <1>2
  <2> HIDE DEF k
  <2> QED  BY Zenon, <2>1, <2>2 DEF CallType, Places
<1>7. TypeOK'
  <2>1. call' \in [Threads -> CallType]
    <3>1. DOMAIN call' = Threads /\ call' = [u \in Threads |-> call'[u]]
      BY DEF TakeTicket
    <3>2. call'[t] \in CallType
      BY <1>6
    <3>3. ASSUME NEW u \in Threads, u # t PROVE call'[u] \in CallType
      BY <1>5, <3>3
    <3> QED  BY <3>1, <3>2, <3>3
  <2>2. ticket' \in [Sides -> 0..MaxTickets]
    BY <1>1, QueueAssumption DEF TypeOK
  <2> QED  BY <1>1, <1>3, <2>1, <2>2 DEF TypeOK
<1>8. ASSUME NEW u \in Threads PROVE CallOK(call[u])'
  <2>1. CASE u = t
    <3>1. turnAt[idx(k)] <= TurnOf(s, k)
      BY <1>1 DEF SlotInv, NotBefore
    <3>2. Waits(call[t])'
      BY <1>1, <1>3, <1>6, <3>1 DEF Waits, Held
    <3>3. Other(s) # s /\ Other(s) \in Sides
      BY <1>1 DEF Other, Sides
    <3>4. Knows(call[t])'
      BY <1>1, <1>6, <3>3 DEF Knows, Held, Trying, May
    <3>5. Measures(call[t])'
      BY <1>6 DEF Measures
    <3> QED  BY <2>1, <3>2, <3>4, <3>5 DEF CallOK
  <2>2. CASE u # t
    <3>1. /\ call[u].side \in Sides /\ call[u].tk \in Nat /\ call[u].seen \in Int
          /\ ticket[call[u].side] \in Nat /\ ticket'[call[u].side] \in Nat
          /\ ticket[call[u].side] <= ticket'[call[u].side]
      BY <1>1, CallFields, TicketFields
    <3>2. CallOK(call[u])
      OBVIOUS
    <3>3. Waits(call[u])'
      <4>1. SUFFICES ASSUME Held(call[u]) PROVE Waits(call[u])'
        BY <1>5, <2>2 DEF Waits, Held
      <4>2. /\ call[u].tk < ticket[call[u].side]
            /\ call[u].side = "push" => log'[call[u].tk + 1] = log[call[u].tk + 1]
        BY <1>3, <3>1, <3>2, <4>1 DEF CallOK, Waits
      <4>3. /\ call'[u].tk = call[u].tk /\ call'[u].side = call[u].side
            /\ call'[u].pc = call[u].pc /\ call'[u].val = call[u].val
        BY <1>5, <2>2
      <4>4. /\ turnAt[idx(call[u].tk)] <= TurnOf(call[u].side, call[u].tk)
            /\ call[u].pc = "in" => May(call[u].side, call[u].tk)
            /\ call[u].side = "push" => log[call[u].tk + 1] = call[u].val
        BY <3>2, <4>1 DEF CallOK, Waits
      <4>5. call[u].tk < ticket'[call[u].side]
        BY <3>1, <4>2
      <4> QED  BY Zenon, <1>1, <4>2, <4>3, <4>4, <4>5 DEF Waits, May
    <3>4. Knows(call[u])'
      <4>1. /\ Other(call[u].side) \in Sides
            /\ ticket[Other(call[u].side)] \in Nat
            /\ ticket'[Other(call[u].side)] \in Nat
            /\ ticket[Other(call[u].side)] <= ticket'[Other(call[u].side)]
        BY <1>1, <3>1, TicketFields
      <4>2. ~Exhausted(call[u].side, call[u].tk, ticket[Other(call[u].side)])
            => ~Exhausted(call[u].side, call[u].tk, ticket'[Other(call[u].side)])
        BY <3>1, <4>1, QueueAssumption DEF Exhausted
      <4>3. call[u].tk <= ticket[call[u].side] =>
              /\ call[u].tk <= ticket'[call[u].side]
              /\ call[u].tk = ticket'[call[u].side] =>
                   call[u].tk = ticket[call[u].side]
        BY <3>1
      <4> QED  BY Zenon, <1>1, <1>5, <2>2, <3>2, <4>2, <4>3
               DEF CallOK, Knows, Held, Trying, May
    <3>5. Measures(call[u])'
      <4>1. /\ ticket["push"] \in Nat /\ ticket'["push"] \in Nat
            /\ ticket["pop"] \in Nat /\ ticket'["pop"] \in Nat
            /\ ticket["push"] <= ticket'["push"]
            /\ ticket["pop"] <= ticket'["pop"]
        BY <1>1, TicketFields DEF Sides
      <4> QED  BY <1>5, <2>2, <3>1, <3>2, <4>1 DEF CallOK, Measures, Sizing
    <3> QED  BY <3>3, <3>4, <3>5 DEF CallOK
  <2> QED  BY <2>1, <2>2
<1>9. OwnTickets'
  <2>1. ASSUME NEW u \in Threads, u # t, Held(call'[u]), call'[u].side = s
        PROVE  call'[u].tk # k
    BY <1>1, <1>5, <2>1, CallFields DEF CallOK, Waits, Held
  <2> QED  BY <1>5, <1>6, <2>1 DEF OwnTickets, Held
<1>10. SlotInv'
  <2>1. Accounted'
    <3> SUFFICES ASSUME NEW r \in Sides, NEW j \in 0..(ticket'[r] - 1),
                        ~(TurnOf(r, j) < turnAt'[idx(j)])
                 PROVE  \E u \in Threads : /\ Held(call'[u])
                                           /\ call'[u].side = r
                                           /\ call'[u].tk = j
      BY DEF Accounted
    <3>1. CASE r = s /\ j = k
      BY <1>6, <3>1 DEF Held
    <3>2. CASE ~(r = s /\ j = k)
      <4>1. j \in 0..(ticket[r] - 1)
        BY <1>1, <3>2, TicketFields
      <4>2. PICK u \in Threads :
              Held(call[u]) /\ call[u].side = r /\ call[u].tk = j
        BY <1>1, <4>1 DEF SlotInv, Accounted
      <4> QED  BY <1>5, <4>2 DEF Held
    <3> QED  BY <3>1, <3>2
  <2>2. NotBefore'
    <3> SUFFICES ASSUME NEW r \in Sides, NEW j \in Nat, j >= ticket'[r]
                 PROVE  turnAt'[idx(j)] <= TurnOf(r, j)
      BY DEF NotBefore
    <3>1. j >= ticket[r]
      BY <1>1, TicketFields
    <3> QED  BY <1>1, <3>1 DEF SlotInv, NotBefore
  <2>3. Stored'
    <3> SUFFICES ASSUME NEW j \in 0..(ticket'["push"] - 1),
                        turnAt'[idx(j)] = TurnOf("pop", j)
                 PROVE  contents'[idx(j)] = log'[j + 1]
      BY DEF Stored
    <3>1. ticket["push"] \in Nat /\ ticket'["push"] \in Int /\ j \in Nat
          /\ "push" \in Sides
      BY <1>1, TicketFields DEF Sides
    <3>2. TurnOf("pop", j) = TurnOf("push", j) + 1 /\ TurnOf("push", j) \in Nat
      BY <3>1, TurnTypes
    <3>3. j < ticket["push"]
      BY <1>1, <3>1, <3>2 DEF SlotInv, NotBefore
    <3> QED  BY <1>1, <1>3, <3>1, <3>3 DEF SlotInv, Stored
  <2>4. ConstructedIffOddTurn'
    BY <1>1 DEF SlotInv, ConstructedIffOddTurn
  <2> QED  BY <2>1, <2>2, <2>3, <2>4 DEF SlotInv
<1> QED  BY <1>7, <1>8, <1>9, <1>10

(* waitForTurn returns.                                                    *)
LEMMA WaitStep ==
  ASSUME QueueInv, NEW t \in Threads, WaitForTurn(t)
  PROVE  QueueInv'
<1> USE DEF QueueInv
<1> DEFINE c == [call[t] EXCEPT !.pc = "in"]
<1>1. /\ c \in CallType /\ c.pc = "in" /\ c.side = call[t].side
      /\ c.tk = call[t].tk /\ c.val = call[t].val
  BY CallFields DEF CallType, Places
<1>2. /\ call' = [call EXCEPT ![t] = c] /\ call'[t] = c
      /\ \A u \in Threads : u # t => call'[u] = call[u]
      /\ ticket' = ticket /\ turnAt' = turnAt /\ log' = log /\ kinds' = kinds
      /\ contents' = contents /\ last' = last
      /\ call[t].pc = "wait" /\ May(call[t].side, call[t].tk)
  BY DEF WaitForTurn, Local, TypeOK
<1> HIDE DEF c
<1>3. TypeOK'
  BY <1>1, <1>2 DEF TypeOK
<1>4. ASSUME NEW u \in Threads PROVE CallOK(call[u])'
  <2>1. CASE u = t
    <3>1. CallOK(call[t]) /\ Held(call[t])
      BY <1>2 DEF Held
    <3>2. Waits(call[u])'
      BY <1>1, <1>2, <2>1, <3>1 DEF CallOK, Waits, May, Held
    <3>3. Knows(call[u])' /\ Measures(call[u])'
      BY <1>1, <1>2, <2>1, <3>1 DEF CallOK, Knows, Measures, Held, Trying
    <3> QED  BY <3>2, <3>3 DEF CallOK
  <2>2. CASE u # t
    BY <1>2, <2>2 DEF CallOK, Waits, Knows, Measures, May, Size
  <2> QED  BY Zenon, <2>1, <2>2
<1>5. \A u \in Threads : /\ Held(call'[u]) <=> Held(call[u])
                         /\ call'[u].side = call[u].side
                         /\ call'[u].tk = call[u].tk
  BY <1>1, <1>2 DEF Held
<1>6. OwnTickets'
  BY <1>5 DEF OwnTickets
<1>7. SlotInv'
  <2>1. Accounted'
    BY <1>2, <1>5 DEF SlotInv, Accounted
  <2>2. NotBefore' /\ Stored' /\ ConstructedIffOddTurn'
    BY <1>2 DEF SlotInv, NotBefore, Stored, ConstructedIffOddTurn
  <2> QED  BY <2>1, <2>2 DEF SlotInv
<1> QED  BY <1>3, <1>4, <1>6, <1>7

(* A call constructs or destroys the element of its slot and completes the *)
(* turn.  Every other ticket of the slot has a later turn.                 *)
LEMMA CompleteStep ==
  ASSUME QueueInv, NEW t \in Threads, call[t].pc = "in",
         NEW v, v = IF call[t].side = "push" THEN call[t].val ELSE Nil,
         contents' = [contents EXCEPT ![idx(call[t].tk)] = v],
         CompleteTurn(call[t].tk),
         call' = [call EXCEPT ![t] = Idle(0)],
         last' \in [Threads -> Values \cup {Nil}],
         UNCHANGED <<kinds, ticket, log>>
  PROVE  QueueInv'
<1> USE DEF QueueInv
<1> DEFINE s == call[t].side
           k == call[t].tk
           i == idx(k)
<1>1. /\ s \in Sides /\ k \in 0..MaxTickets /\ k \in Nat /\ i \in Slots
      /\ TurnOf(s, k) \in Nat /\ turnAt[i] = TurnOf(s, k)
      /\ k < ticket[s] /\ ticket[s] \in 0..MaxTickets
      /\ s = "push" => v \in Values /\ v = log[k + 1]
      /\ s = "pop" => v = Nil
  <2>1. s \in Sides /\ k \in 0..MaxTickets /\ k \in Nat
    BY Zenon, CallFields
  <2>2. i \in Slots /\ TurnOf(s, k) \in Nat /\ ticket[s] \in 0..MaxTickets
    BY Zenon, <2>1, TicketTypes, TurnTypes, TicketFields
  <2>3. CallOK(call[t]) /\ Held(call[t])
    BY DEF Held
  <2> QED  BY Zenon, <2>1, <2>2, <2>3 DEF CallOK, Waits, Knows, Held, May, Sides
<1>2. /\ turnAt'[i] = TurnOf(s, k) + 1
      /\ \A h \in Slots : h # i => turnAt'[h] = turnAt[h]
      /\ contents'[i] = v
      /\ \A h \in Slots : h # i => contents'[h] = contents[h]
      /\ call'[t] = Idle(0)
      /\ \A u \in Threads : u # t => call'[u] = call[u]
      /\ ticket' = ticket /\ log' = log
  BY <1>1 DEF TypeOK, CompleteTurn
<1>3. ASSUME NEW r \in Sides, NEW j \in Nat, ~(r = s /\ j = k),
             turnAt[idx(j)] <= TurnOf(r, j)
      PROVE  turnAt'[idx(j)] <= TurnOf(r, j)
  <2>1. idx(j) \in Slots /\ TurnOf(r, j) \in Nat
    BY Zenon, TicketTypes, TurnTypes
  <2>2. CASE idx(j) = i
    <3>1. TurnOf(r, j) # TurnOf(s, k)
      BY <1>1, <1>3, <2>2, OneTicket
    <3> QED  BY <1>1, <1>2, <1>3, <2>1, <2>2, <3>1
  <2>3. CASE idx(j) # i
    BY <1>2, <1>3, <2>1, <2>3
  <2> QED  BY <2>2, <2>3
<1>4. ASSUME NEW u \in Threads, u # t, Held(call[u])
      PROVE  ~(call[u].side = s /\ call[u].tk = k)
  BY <1>4 DEF OwnTickets, Held
<1>5. TypeOK'
  <2>1. turnAt' \in [Slots -> 0..(2 * MaxTickets)]
    <3>1. TurnOf(s, k) + 1 \in 0..(2 * MaxTickets)
      <4>1. turn(k) \in Nat /\ turn(k) <= k
        BY <1>1, TicketTypes
      <4> QED  BY <1>1, <4>1, QueueAssumption DEF TurnOf
    <3> QED  BY <1>1, <3>1 DEF TypeOK, CompleteTurn
  <2>2. contents' \in [Slots -> Values \cup {Nil}]
    BY <1>1 DEF TypeOK, Sides
  <2>3. call' \in [Threads -> CallType]
    BY IdleCall DEF TypeOK
  <2> QED  BY <2>1, <2>2, <2>3 DEF TypeOK
<1>6. ASSUME NEW u \in Threads PROVE CallOK(call[u])'
  <2>1. CASE u = t
    <3>1. call'[u].pc = "idle"
      BY <1>2, <2>1 DEF Idle
    <3> QED  BY Zenon, <3>1 DEF CallOK, Waits, Knows, Measures, Held, Trying
  <2>2. CASE u # t
    <3> DEFINE r == call[u].side
               j == call[u].tk
    <3>1. r \in Sides /\ j \in Nat /\ CallOK(call[u]) /\ call'[u] = call[u]
          /\ TurnOf(r, j) \in Nat /\ idx(j) \in Slots
      BY Zenon, <1>2, <2>2, CallFields, TicketTypes, TurnTypes
    <3>2. ASSUME ~(r = s /\ j = k), May(r, j) PROVE May(r, j)'
      <4>1. idx(j) # i
        BY <1>1, <3>1, <3>2, OneTicket DEF May
      <4> QED  BY <1>2, <3>1, <3>2, <4>1 DEF May
    <3>3. Waits(call[u])'
      BY Zenon, <1>2, <1>3, <1>4, <2>2, <3>1, <3>2 DEF CallOK, Waits, Held
    <3>4. Knows(call[u])'
      <4>1. call[u].pc = "cas" /\ j = ticket[r] => ~(r = s /\ j = k)
        BY <1>1
      <4> QED  BY Zenon, <1>2, <1>4, <2>2, <3>1, <3>2, <4>1
               DEF CallOK, Knows, Held, Trying
    <3>5. Measures(call[u])'
      BY Zenon, <1>2, <3>1 DEF CallOK, Measures, Size
    <3> QED  BY <3>3, <3>4, <3>5 DEF CallOK
  <2> QED  BY Zenon, <2>1, <2>2
<1>7. ~Held(call'[t])
  BY <1>2 DEF Idle, Held
<1>8. OwnTickets'
  BY <1>2, <1>7 DEF OwnTickets
<1>9. SlotInv'
  <2>1. Accounted'
    <3> SUFFICES ASSUME NEW r \in Sides, NEW j \in 0..(ticket[r] - 1),
                        ~(TurnOf(r, j) < turnAt'[idx(j)])
                 PROVE  \E u \in Threads : /\ Held(call'[u])
                                           /\ call'[u].side = r
                                           /\ call'[u].tk = j
      BY <1>2 DEF Accounted
    <3>1. j \in Nat /\ idx(j) \in Slots /\ TurnOf(r, j) \in Nat
      <4>1. j \in Nat
        BY TicketFields
      <4> QED  BY <4>1, TicketTypes, TurnTypes
    <3>2. ~(r = s /\ j = k)
      BY <1>1, <1>2
    <3>3. ~(TurnOf(r, j) < turnAt[idx(j)])
      BY <1>1, <1>2, <3>1
    <3>4. PICK u \in Threads :
            Held(call[u]) /\ call[u].side = r /\ call[u].tk = j
      BY <3>3 DEF SlotInv, Accounted
    <3> QED  BY <1>2, <3>2, <3>4
  <2>2. NotBefore'
    <3> SUFFICES ASSUME NEW r \in Sides, NEW j \in Nat, j >= ticket[r]
                 PROVE  turnAt'[idx(j)] <= TurnOf(r, j)
      BY Zenon, <1>2 DEF NotBefore
    <3>1. ~(r = s /\ j = k)
      BY <1>1
    <3> QED  BY <1>3, <3>1 DEF SlotInv, NotBefore
  <2>3. Stored'
    <3> SUFFICES ASSUME NEW j \in 0..(ticket["push"] - 1),
                        turnAt'[idx(j)] = TurnOf("pop", j)
                 PROVE  contents'[idx(j)] = log[j + 1]
      BY <1>2 DEF Stored
    <3>1. j \in Nat /\ idx(j) \in Slots
      <4>1. j \in Nat
        BY TicketFields DEF Sides
      <4> QED  BY <4>1, TicketTypes
    <3>2. CASE idx(j) # i
      BY Zenon, <1>2, <3>1, <3>2 DEF SlotInv, Stored
    <3>3. CASE idx(j) = i
      <4>1. TurnOf("pop", j) = TurnOf("push", j) + 1 /\ TurnOf("push", j) \in Nat
        BY Zenon, <3>1, TurnTypes DEF Sides
      <4>2. TurnOf("push", j) = TurnOf(s, k)
        BY <1>1, <1>2, <3>3, <4>1
      <4>3. s = "push" /\ j = k
        BY <1>1, <3>1, <3>3, <4>2, OneTicket DEF Sides
      <4> QED  BY <1>1, <1>2, <3>3, <4>3
    <3> QED  BY <3>2, <3>3
  <2>4. ConstructedIffOddTurn'
    <3> SUFFICES ASSUME NEW h \in Slots
                 PROVE  contents'[h] # Nil <=> turnAt'[h] % 2 = 1
      BY DEF ConstructedIffOddTurn
    <3>1. CASE h # i
      BY Zenon, <1>2, <3>1 DEF SlotInv, ConstructedIffOddTurn
    <3>2. CASE h = i
      <4>1. (TurnOf(s, k) + 1) % 2 = (IF s = "push" THEN 1 ELSE 0)
        BY Zenon, <1>1, TurnTypes
      <4> QED  BY <1>1, <1>2, <3>2, <4>1, QueueAssumption DEF Sides
    <3> QED  BY <3>1, <3>2
  <2> QED  BY <2>1, <2>2, <2>3, <2>4 DEF SlotInv
<1> QED  BY Zenon, <1>5, <1>6, <1>8, <1>9

LEMMA InitInv == Init => QueueInv
<1> SUFFICES ASSUME Init PROVE QueueInv
  OBVIOUS
<1>1. Idle(0) \in CallType /\ CallOK(Idle(0)) /\ ~Held(Idle(0))
  BY IdleCall
<1>2. TypeOK
  BY <1>1, QueueAssumption DEF Init, TypeOK, Sides
<1>3. \A t \in Threads : call[t] = Idle(0)
  BY Zenon DEF Init
<1>4. NotBefore
  <2> SUFFICES ASSUME NEW s \in Sides, NEW k \in Nat
               PROVE  turnAt[idx(k)] <= TurnOf(s, k)
    BY DEF NotBefore
  <2> QED  BY TicketTypes, TurnTypes DEF Init
<1>5. Accounted /\ Stored /\ ConstructedIffOddTurn
  BY DEF Init, Accounted, Stored, ConstructedIffOddTurn, Sides
<1> QED  BY <1>1, <1>2, <1>3, <1>4, <1>5 DEF QueueInv, OwnTickets, SlotInv

(* The first step of a call, with the ticket it has loaded.                *)
LEMMA BeginStep ==
  ASSUME QueueInv, NEW t \in Threads, call[t].pc = "idle",
         NEW s \in Sides, NEW k \in {"blocking", "ready", "promised"},
         NEW place \in {"wait", "check", "bound"}, NEW c \in Calls(s, k, place)
  PROVE  /\ c \in CallType /\ c.pc = place /\ c.side = s /\ c.kind = k
         /\ c.tk = ticket[s] /\ ~Held(call[t]) /\ ~Sizing(t)
         /\ s = "push" => c.val \in Values
<1>1. PICK v \in Values \cup {Nil} :
        /\ c = [Idle(0) EXCEPT !.pc = place, !.side = s, !.kind = k,
                               !.tk = ticket[s], !.val = v]
        /\ s = "push" => v \in Values
  BY Zenon DEF Calls
<1>2. Idle(0) \in CallType /\ ticket[s] \in 0..MaxTickets
  BY IdleCall, TicketFields DEF QueueInv
<1> QED  BY Zenon, <1>1, <1>2 DEF CallType, Places, Held, Sizing

(* Every step is of one of these kinds.                                    *)
LEMMA StepKinds ==
  ASSUME QueueInv, NEW t \in Threads, Begin(t) \/ Continue(t)
  PROVE  StepKind(t)
<1>1. /\ call[t] \in CallType /\ CallOK(call[t])
      /\ call[t].side \in Sides /\ call[t].tk \in 0..MaxTickets
      /\ ticket[call[t].side] \in 0..MaxTickets
      /\ ticket["push"] \in 0..MaxTickets /\ ticket["pop"] \in 0..MaxTickets
  BY Zenon, CallFields, TicketFields DEF QueueInv, Sides
<1>0. /\ \A s \in Sides : ticket[s] <= ticket[s]
      /\ ticket["push"] <= ticket["push"] /\ ticket["pop"] <= ticket["pop"]
  BY <1>1, TicketFields DEF QueueInv
<1>2. CASE BlockingWrite(t) \/ BlockingRead(t)
  <2>0. PICK s \in Sides : \E c \in Calls(s, "blocking", "wait") : TakeTicket(t, c)
    BY <1>2 DEF BlockingWrite, BlockingRead, Sides
  <2>1. PICK c \in Calls(s, "blocking", "wait") : TakeTicket(t, c)
    BY <2>0
  <2>2. call[t].pc = "idle"
    BY <1>2 DEF BlockingWrite, BlockingRead, MayCall
  <2> QED  BY <2>1, <2>2, BeginStep DEF Taking, StepKind
<1>3. CASE Write(t) \/ Read(t)
  <2>0. PICK s \in Sides : \E c \in Calls(s, "ready", "check") : Local(t, c)
    BY <1>3 DEF Write, Read, Sides
  <2>1. PICK c \in Calls(s, "ready", "check") : Local(t, c)
    BY <2>0
  <2>2. call[t].pc = "idle"
    BY <1>3 DEF Write, Read, MayCall
  <2>3. /\ c \in CallType /\ c.pc = "check" /\ c.side = s /\ c.kind = "ready"
        /\ c.tk = ticket[s] /\ ~Held(call[t])
        /\ s = "push" => c.val \in Values
    BY <2>1, <2>2, BeginStep
  <2>4. CallOK(c) /\ ~Held(c)
    BY Zenon, <1>0, <2>3 DEF CallOK, Waits, Knows, Measures, Held, Trying
  <2> QED  BY <2>1, <2>3, <2>4 DEF Ordinary, StepKind
<1>4. CASE WriteIfNotFull(t) \/ ReadIfNotEmpty(t)
  <2>0. PICK s \in Sides : \E c \in Calls(s, "promised", "bound") : Local(t, c)
    BY <1>4 DEF WriteIfNotFull, ReadIfNotEmpty, Sides
  <2>1. PICK c \in Calls(s, "promised", "bound") : Local(t, c)
    BY Zenon, <2>0
  <2>2. call[t].pc = "idle"
    BY <1>4 DEF WriteIfNotFull, ReadIfNotEmpty, MayCall
  <2>3. /\ c \in CallType /\ c.pc = "bound" /\ c.side = s
        /\ c.kind = "promised"
        /\ c.tk = ticket[s] /\ ~Held(call[t])
        /\ s = "push" => c.val \in Values
    BY <2>1, <2>2, BeginStep
  <2>4. CallOK(c) /\ ~Held(c)
    BY Zenon, <1>0, <2>3 DEF CallOK, Waits, Knows, Measures, Held, Trying
  <2> QED  BY <2>1, <2>3, <2>4 DEF Ordinary, StepKind
<1>5. ASSUME NEW s \in Sides, Check(t, s) PROVE StepKind(t)
  <2> DEFINE may == May(s, call[t].tk)
             c == [call[t] EXCEPT
                     !.pc = IF may THEN "cas" ELSE "recheck",
                     !.bracketed = ~may /\ call[t].tk = ticket[s]]
  <2>1. /\ c \in CallType /\ c.pc = (IF may THEN "cas" ELSE "recheck")
        /\ c.side = s /\ c.tk = call[t].tk /\ c.kind = call[t].kind
        /\ c.val = call[t].val /\ c.bracketed = (~may /\ call[t].tk = ticket[s])
        /\ call[t].pc = "check" /\ call[t].side = s /\ Local(t, c)
    BY Zenon, <1>1, <1>5 DEF Check, At, CallType, Places
  <2> HIDE DEF c
  <2>2. CallOK(c) /\ ~Held(c) /\ ~Held(call[t])
    BY Zenon, <1>1, <2>1 DEF CallOK, Waits, Knows, Measures, Held, Trying
  <2> QED  BY <2>1, <2>2 DEF Ordinary, StepKind
<1>6. ASSUME NEW s \in Sides, Recheck(t, s) PROVE StepKind(t)
  <2>1. call[t].pc = "recheck" /\ call[t].side = s /\ ~Held(call[t])
    BY <1>6 DEF Recheck, At, Held
  <2>2. CASE Local(t, Idle(0))
    <3>1. Idle(0) \in CallType /\ CallOK(Idle(0)) /\ ~Held(Idle(0))
      BY IdleCall
    <3> QED  BY Zenon, <2>1, <2>2, <3>1 DEF Ordinary, StepKind
  <2> DEFINE c == [call[t] EXCEPT !.pc = "check", !.tk = ticket[s]]
  <2>3. CASE Local(t, c)
    <3>1. /\ c \in CallType /\ c.pc = "check" /\ c.side = s
          /\ c.tk = ticket[s] /\ c.kind = call[t].kind /\ c.val = call[t].val
      BY Zenon, <1>1, <2>1 DEF CallType, Places
    <3> HIDE DEF c
    <3>2. CallOK(c) /\ ~Held(c)
      BY Zenon, <1>0, <1>1, <2>1, <3>1
         DEF CallOK, Waits, Knows, Measures, Held, Trying
    <3> QED  BY <2>1, <2>3, <3>1, <3>2 DEF Ordinary, StepKind
  <2> QED  BY <1>6, <2>2, <2>3 DEF Recheck
<1>7. ASSUME NEW s \in Sides, Bound(t, s) PROVE StepKind(t)
  <2>1. call[t].pc = "bound" /\ call[t].side = s /\ ~Held(call[t])
    BY <1>7 DEF Bound, At, Held
  <2>2. CASE Local(t, Idle(0))
    <3>1. Idle(0) \in CallType /\ CallOK(Idle(0)) /\ ~Held(Idle(0))
      BY IdleCall
    <3> QED  BY Zenon, <2>1, <2>2, <3>1 DEF Ordinary, StepKind
  <2> DEFINE c == [call[t] EXCEPT !.pc = "cas"]
  <2>3. CASE /\ Local(t, c)
             /\ ~Exhausted(s, call[t].tk, ticket[Other(s)])
    <3>1. /\ c \in CallType /\ c.pc = "cas" /\ c.side = s
          /\ c.tk = call[t].tk /\ c.kind = call[t].kind
          /\ c.val = call[t].val
      BY Zenon, <1>1, <2>1 DEF CallType, Places
    <3> HIDE DEF c
    <3>2. CallOK(c) /\ ~Held(c)
      BY Zenon, <1>1, <2>1, <2>3, <3>1
         DEF CallOK, Waits, Knows, Measures, Held, Trying
    <3> QED  BY <2>1, <2>3, <3>1, <3>2 DEF Ordinary, StepKind
  <2> QED  BY <1>7, <2>2, <2>3 DEF Bound
<1>8. ASSUME NEW s \in Sides, NEW k \in {"ready", "promised"}, Cas(t, s, k)
       PROVE  StepKind(t)
  <2>1. /\ call[t].pc = "cas" /\ call[t].side = s /\ call[t].kind = k
        /\ ~Held(call[t]) /\ ~Sizing(t)
    BY Zenon, <1>8 DEF Cas, At, Held, Sizing
  <2>2. CASE call[t].tk = ticket[s] /\ TakeTicket(t, call[t])
    BY Zenon, <1>1, <2>1, <2>2 DEF Taking, StepKind, CallOK, Knows, Trying
  <2> DEFINE c == [call[t] EXCEPT
                     !.pc = IF k = "ready" THEN "check" ELSE "bound",
                     !.tk = ticket[s]]
  <2>3. CASE Local(t, c)
    <3>1. /\ c \in CallType
          /\ c.pc = (IF k = "ready" THEN "check" ELSE "bound")
          /\ c.side = s /\ c.tk = ticket[s] /\ c.kind = k
          /\ c.val = call[t].val
      BY Zenon, <1>1, <2>1 DEF CallType, Places
    <3> HIDE DEF c
    <3>2. CallOK(c) /\ ~Held(c)
      BY Zenon, <1>0, <1>1, <2>1, <3>1
         DEF CallOK, Waits, Knows, Measures, Held, Trying
    <3> QED  BY <2>1, <2>3, <3>1, <3>2 DEF Ordinary, StepKind
  <2> QED  BY <1>8, <2>2, <2>3 DEF Cas
<1>9. CASE SizeA(t)
  <2> DEFINE c == [Idle(0) EXCEPT !.pc = "sizeB", !.kind = "size",
                                  !.tk = ticket["push"], !.sizes = {Size}]
  <2>1. /\ c \in CallType /\ c.pc = "sizeB" /\ c.tk = ticket["push"]
        /\ c.sizes = {Size} /\ ~Held(call[t]) /\ Local(t, c)
    <3>1. Local(t, c) /\ ~Held(call[t])
      BY <1>9 DEF SizeA, MayCall, Held
    <3>2. Idle(0) \in CallType /\ Size \in Int
      BY <1>1, IdleCall DEF Size
    <3>3. /\ c \in CallType /\ c.pc = "sizeB" /\ c.tk = ticket["push"]
          /\ c.sizes = {Size}
      BY Zenon, <1>1, <3>2 DEF CallType, Places
    <3> QED  BY <3>1, <3>3
  <2> HIDE DEF c
  <2>2. CallOK(c) /\ ~Held(c)
    BY Zenon, <1>0, <2>1 DEF CallOK, Waits, Knows, Measures, Held, Trying
  <2> QED  BY Zenon, <2>1, <2>2 DEF Ordinary, StepKind
<1>10. CASE SizeB(t)
  <2> DEFINE c == [call[t] EXCEPT !.pc = "sizeC", !.seen = ticket["pop"]]
  <2>1. /\ c \in CallType /\ c.pc = "sizeC" /\ c.tk = call[t].tk
        /\ c.seen = ticket["pop"] /\ c.sizes = call[t].sizes
        /\ call[t].pc = "sizeB" /\ Local(t, c)
    BY Zenon, <1>1, <1>10 DEF SizeB, CallType, Places
  <2> HIDE DEF c
  <2>2. CallOK(c) /\ ~Held(c) /\ ~Held(call[t])
    BY Zenon, <1>0, <1>1, <2>1
       DEF CallOK, Waits, Knows, Measures, Held, Trying, Size
  <2> QED  BY Zenon, <2>1, <2>2 DEF Ordinary, StepKind
<1>11. CASE SizeC(t)
  <2>1. call[t].pc = "sizeC" /\ ~Held(call[t])
    BY Zenon, <1>11 DEF SizeC, Held
  <2>2. CASE Local(t, Idle(call[t].tk - call[t].seen))
    <3>1. call[t].tk - call[t].seen \in Int
      BY <1>1, CallFields DEF QueueInv
    <3> DEFINE c == Idle(call[t].tk - call[t].seen)
    <3>2. c \in CallType /\ CallOK(c) /\ ~Held(c)
      BY <3>1, IdleCall
    <3> QED  BY Zenon, <2>1, <2>2, <3>2 DEF Ordinary, StepKind
  <2> DEFINE c == [call[t] EXCEPT !.pc = "sizeD", !.tk = ticket["push"]]
  <2>3. CASE Local(t, c)
    <3>1. /\ c \in CallType /\ c.pc = "sizeD" /\ c.tk = ticket["push"]
          /\ c.seen = call[t].seen /\ c.sizes = call[t].sizes
      BY Zenon, <1>1 DEF CallType, Places
    <3> HIDE DEF c
    <3>2. CallOK(c) /\ ~Held(c)
      BY Zenon, <1>0, <1>1, <2>1, <3>1
         DEF CallOK, Waits, Knows, Measures, Held, Trying, Size
    <3> QED  BY <2>1, <2>3, <3>1, <3>2 DEF Ordinary, StepKind
  <2> QED  BY <1>11, <2>2, <2>3 DEF SizeC
<1>12. CASE SizeD(t)
  <2>1. call[t].pc = "sizeD" /\ ~Held(call[t])
    BY Zenon, <1>12 DEF SizeD, Held
  <2>2. CASE Local(t, Idle(call[t].tk - call[t].seen))
    <3>1. call[t].tk - call[t].seen \in Int
      BY <1>1, CallFields DEF QueueInv
    <3> DEFINE c == Idle(call[t].tk - call[t].seen)
    <3>2. c \in CallType /\ CallOK(c) /\ ~Held(c)
      BY <3>1, IdleCall
    <3> QED  BY Zenon, <2>1, <2>2, <3>2 DEF Ordinary, StepKind
  <2> DEFINE c == [call[t] EXCEPT !.pc = "sizeC", !.seen = ticket["pop"]]
  <2>3. CASE Local(t, c)
    <3>1. /\ c \in CallType /\ c.pc = "sizeC" /\ c.tk = call[t].tk
          /\ c.seen = ticket["pop"] /\ c.sizes = call[t].sizes
      BY Zenon, <1>1 DEF CallType, Places
    <3> HIDE DEF c
    <3>2. CallOK(c) /\ ~Held(c)
      BY Zenon, <1>0, <1>1, <2>1, <3>1
         DEF CallOK, Waits, Knows, Measures, Held, Trying, Size
    <3> QED  BY <2>1, <2>3, <3>1, <3>2 DEF Ordinary, StepKind
  <2> QED  BY <1>12, <2>2, <2>3 DEF SizeD
<1>13. CASE WaitForTurn(t) \/ Enqueue(t) \/ Dequeue(t) \/ Use(t)
  BY <1>13 DEF StepKind
<1> QED
  BY <1>2, <1>3, <1>4, <1>5, <1>6, <1>7, <1>8, <1>9, <1>10, <1>11, <1>12,
     <1>13
     DEF Begin, Continue, TryObtainReadyPushTicket, TryObtainReadyPopTicket,
         TryObtainPromisedPushTicket, TryObtainPromisedPopTicket, Sides

(* The invariant says nothing of what the callers have read.               *)
LEMMA SameInv ==
  ASSUME QueueInv, UNCHANGED <<kinds, ticket, turnAt, contents, call, log>>,
         last' \in [Threads -> Values \cup {Nil}]
  PROVE  QueueInv'
<1>1. TypeOK'
  BY DEF QueueInv, TypeOK
<1>2. ASSUME NEW t \in Threads PROVE CallOK(call[t])'
  <2>1. CallOK(call[t])
    BY DEF QueueInv
  <2> QED  BY Zenon, <2>1 DEF CallOK, Waits, Knows, Measures, May, Size
<1>3. OwnTickets'
  BY Zenon DEF QueueInv, OwnTickets
<1>4. SlotInv'
  <2>1. Accounted'
    BY DEF QueueInv, SlotInv, Accounted
  <2>2. NotBefore'
    BY Zenon DEF QueueInv, SlotInv, NotBefore
  <2>3. Stored' /\ ConstructedIffOddTurn'
    BY Zenon DEF QueueInv, SlotInv, Stored, ConstructedIffOddTurn
  <2> QED  BY <2>1, <2>2, <2>3 DEF SlotInv
<1> QED  BY <1>1, <1>2, <1>3, <1>4 DEF QueueInv

LEMMA NextInv == QueueInv /\ [Next]_vars => QueueInv'
<1> SUFFICES ASSUME QueueInv, [Next]_vars PROVE QueueInv'
  BY Zenon
<1>1. CASE UNCHANGED vars
  <2>1. UNCHANGED <<kinds, ticket, turnAt, contents, call, last, log>>
    BY <1>1 DEF vars
  <2> QED  BY <2>1, SameInv DEF QueueInv, TypeOK
<1> SUFFICES ASSUME NEW t \in Threads, Begin(t) \/ Continue(t)
             PROVE  QueueInv'
  BY <1>1 DEF Next
<1>2. CASE Use(t)
  <2>1. last' \in [Threads -> Values \cup {Nil}]
    BY <1>2 DEF Use, QueueInv, TypeOK
  <2> QED  BY <1>2, <2>1, SameInv DEF Use
<1>3. CASE Enqueue(t) \/ Dequeue(t)
  <2>1. call[t].pc = "in" /\ CompleteTurn(call[t].tk)
        /\ call' = [call EXCEPT ![t] = Idle(0)]
        /\ UNCHANGED <<kinds, ticket, log>>
    BY <1>3 DEF Enqueue, Dequeue, At
  <2> DEFINE v == IF call[t].side = "push" THEN call[t].val ELSE Nil
  <2>2. contents' = [contents EXCEPT ![idx(call[t].tk)] = v]
    BY <1>3 DEF Enqueue, Dequeue, At
  <2>3. last' \in [Threads -> Values \cup {Nil}]
    <3>1. contents[idx(call[t].tk)] \in Values \cup {Nil}
      <4>1. idx(call[t].tk) \in Slots
        BY CallFields, TicketTypes DEF QueueInv
      <4> QED  BY <4>1 DEF QueueInv, TypeOK
    <3> QED  BY Zenon, <1>3, <3>1 DEF Enqueue, Dequeue, QueueInv, TypeOK
  <2> HIDE DEF v
  <2> QED  BY Zenon, <2>1, <2>2, <2>3, CompleteStep DEF v
<1> QED
  BY <1>2, <1>3, StepKinds, LocalStep, TakeStep, WaitStep DEF StepKind

LEMMA Invariance == Spec => []QueueInv
BY InitInv, NextInv, PTL DEF Spec

-----------------------------------------------------------------------------
(* What follows from it.                                                   *)

(* A thread has the turn that the slot of a waiting call is at, if that    *)
(* turn's ticket was taken.                                                *)
LEMMA SomebodyServes ==
  ASSUME QueueInv, NEW t \in Threads, call[t].pc = "wait",
         ~Exhausted(call[t].side, call[t].tk, ticket[Other(call[t].side)])
  PROVE  \E u \in Threads : /\ call[u].pc \in {"wait", "in"}
                            /\ idx(call[u].tk) = idx(call[t].tk)
                            /\ May(call[u].side, call[u].tk)
<1> DEFINE s == call[t].side
           k == call[t].tk
           w == turnAt[idx(k)]
<1>1. s \in Sides /\ k \in Nat /\ ticket[s] \in Nat /\ ticket[Other(s)] \in Nat
  BY CallFields, TicketFields DEF QueueInv
<1>2. w <= TurnOf(s, k) /\ k < ticket[s]
  BY DEF QueueInv, CallOK, Waits, Held
<1>3. w \in Nat
  <2>1. idx(k) \in Slots
    BY <1>1, TicketTypes
  <2> QED  BY <2>1, QueueAssumption DEF QueueInv, TypeOK
<1>4. PICK r \in Sides, j \in Nat :
        /\ idx(j) = idx(k) /\ TurnOf(r, j) = w /\ j <= k
        /\ s = "push" /\ r = "pop" => j + capacity <= k
  <2> HIDE DEF s, k, w
  <2> QED  BY <1>1, <1>2, <1>3, EarlierTicket
<1>5. j < ticket[r]
  <2>1. CASE r = s
    BY <1>1, <1>2, <1>4, <2>1
  <2>2. CASE r = "pop" /\ s = "push"
    BY <1>1, <1>4, <2>2, QueueAssumption DEF Exhausted, Other
  <2>3. CASE r = "push" /\ s = "pop"
    BY <1>1, <1>4, <2>3, QueueAssumption DEF Exhausted, Other
  <2> QED  BY <1>1, <1>4, <2>1, <2>2, <2>3 DEF Sides
<1>6. j \in 0..(ticket[r] - 1) /\ ~(TurnOf(r, j) < turnAt[idx(j)])
  BY <1>3, <1>4, <1>5, TicketFields DEF QueueInv
<1>7. PICK u \in Threads : Held(call[u]) /\ call[u].side = r /\ call[u].tk = j
  BY <1>4, <1>6 DEF QueueInv, SlotInv, Accounted
<1> QED  BY <1>4, <1>7 DEF Held, May

LEMMA ServedByInv == QueueInv => SlotsServed
<1> SUFFICES ASSUME QueueInv PROVE SlotsServed
  OBVIOUS
<1>1. SlotExclusive
  <2> SUFFICES ASSUME NEW t \in Threads, NEW u \in Threads,
                      call[t].pc = "in", call[u].pc = "in",
                      idx(call[t].tk) = idx(call[u].tk)
               PROVE  t = u
    BY DEF SlotExclusive
  <2>1. May(call[t].side, call[t].tk) /\ May(call[u].side, call[u].tk)
    BY DEF QueueInv, CallOK, Waits, Held
  <2>2. /\ call[t].side \in Sides /\ call[u].side \in Sides
        /\ call[t].tk \in Nat /\ call[u].tk \in Nat
    BY CallFields DEF QueueInv
  <2>3. call[t].side = call[u].side /\ call[t].tk = call[u].tk
    BY <2>1, <2>2, OneTicket DEF May
  <2> QED  BY <2>3 DEF QueueInv, OwnTickets, Held
<1>2. WaitIsServed
  <2> SUFFICES ASSUME NEW t \in Threads, call[t].pc = "wait"
               PROVE  /\ call[t].kind = "ready" =>
                           May(call[t].side, call[t].tk)
                      /\ \/ call[t].kind = "promised"
                         \/ ~Exhausted(call[t].side, call[t].tk,
                                       ticket[Other(call[t].side)])
                         => \E u \in Threads :
                              /\ call[u].pc \in {"wait", "in"}
                              /\ idx(call[u].tk) = idx(call[t].tk)
                              /\ May(call[u].side, call[u].tk)
    BY Zenon DEF WaitIsServed
  <2>1. /\ call[t].kind = "ready" => May(call[t].side, call[t].tk)
        /\ call[t].kind = "promised" =>
             ~Exhausted(call[t].side, call[t].tk,
                        ticket[Other(call[t].side)])
    BY DEF QueueInv, CallOK, Knows
  <2> QED  BY Zenon, <2>1, SomebodyServes
<1> QED  BY <1>1, <1>2
         DEF SlotsServed, SlotsSound, QueueInv, SlotInv

(* Slots are used in turn, by one thread at a time and for one element,    *)
(* and a wait that was promised is for a turn that somebody will complete: *)
(* for every capacity, stride, number of threads and of tickets.           *)
THEOREM SlotsServedHolds == Spec => []SlotsServed
BY Invariance, ServedByInv, PTL

(* Nobody changes the place of another thread's call.                      *)
LEMMA OthersKeep ==
  ASSUME TypeOK, NEW t \in Threads, NEW u \in Threads, t # u,
         Begin(u) \/ Continue(u)
  PROVE  call'[t].pc = call[t].pc
<1>1. call[t] \in CallType
  BY CallFields
<1>2. ASSUME NEW c, Local(u, c) PROVE call'[t].pc = call[t].pc
  BY <1>2 DEF Local, TypeOK
<1>3. ASSUME NEW c, TakeTicket(u, c) PROVE call'[t].pc = call[t].pc
  <2>1. \/ call'[t] = call[t]
        \/ \E S : call'[t] = [call[t] EXCEPT !.sizes = S]
    BY <1>3, Zenon DEF TakeTicket
  <2> QED  BY Zenon, <1>1, <2>1 DEF CallType
<1>4. CASE Begin(u)
  BY Zenon, <1>2, <1>3, <1>4
     DEF Begin, BlockingWrite, Write, WriteIfNotFull, BlockingRead, Read,
         ReadIfNotEmpty, SizeA, Use
<1>5. CASE Continue(u)
  <2>1. CASE \E s \in Sides : Check(u, s) \/ Recheck(u, s) \/ Bound(u, s)
    BY <1>2, <2>1 DEF Check, Recheck, Bound
  <2>2. CASE \E s \in Sides, k \in {"ready", "promised"} : Cas(u, s, k)
    BY Zenon, <1>2, <1>3, <2>2 DEF Cas
  <2>3. CASE WaitForTurn(u) \/ SizeB(u) \/ SizeC(u) \/ SizeD(u)
    BY <1>2, <2>3 DEF WaitForTurn, SizeB, SizeC, SizeD
  <2>4. CASE Enqueue(u) \/ Dequeue(u)
    BY <2>4 DEF Enqueue, Dequeue, TypeOK
  <2> QED
    BY <1>5, <2>1, <2>2, <2>3, <2>4
       DEF Continue, TryObtainReadyPushTicket, TryObtainReadyPopTicket,
           TryObtainPromisedPushTicket, TryObtainPromisedPopTicket, Sides
<1> QED  BY <1>4, <1>5

(* Whoever gives up, or returns a size, does so in one of four steps.      *)
LEMMA Returning ==
  ASSUME TypeOK, Next, NEW t \in Threads, call'[t].pc = "idle",
         call[t].pc \in {"recheck", "bound", "sizeB", "sizeC", "sizeD"}
  PROVE  /\ call[t].pc = "recheck" => call[t].tk = ticket[call[t].side]
         /\ call[t].pc = "bound" =>
              Exhausted(call[t].side, call[t].tk,
                        ticket[Other(call[t].side)])
         /\ Sizing(t) =>
              /\ call'[t].ret = call[t].tk - call[t].seen
              /\ \/ call[t].pc = "sizeC" /\ call[t].tk = ticket["push"]
                 \/ call[t].pc = "sizeD" /\ call[t].seen = ticket["pop"]
<1>1. Begin(t) \/ Continue(t)
  BY OthersKeep DEF Next
<1>2. call[t] \in CallType
  BY CallFields
<1>3. ASSUME NEW c, Local(t, c) PROVE call'[t] = c
  BY <1>3 DEF Local, TypeOK
<1>4. ~Begin(t)
  BY DEF Begin, BlockingWrite, Write, WriteIfNotFull, BlockingRead, Read,
         ReadIfNotEmpty, SizeA, Use, MayCall
<1>5. CASE call[t].pc = "recheck"
  <2>1. Recheck(t, call[t].side)
    BY Zenon, <1>1, <1>4, <1>5
       DEF Continue, TryObtainReadyPushTicket, TryObtainReadyPopTicket,
           TryObtainPromisedPushTicket, TryObtainPromisedPopTicket, Check,
           Recheck, Bound, Cas, At, WaitForTurn, Enqueue, Dequeue, SizeB,
           SizeC, SizeD
  <2>2. ASSUME call[t].tk # ticket[call[t].side] PROVE FALSE
    BY Zenon, <1>2, <1>3, <2>1, <2>2 DEF Recheck, CallType
  <2> QED  BY <1>5, <2>2 DEF Sizing
<1>6. CASE call[t].pc = "bound"
  <2>1. Bound(t, call[t].side)
    BY <1>1, <1>4, <1>6
       DEF Continue, TryObtainReadyPushTicket, TryObtainReadyPopTicket,
           TryObtainPromisedPushTicket, TryObtainPromisedPopTicket, Check,
           Recheck, Bound, Cas, At, WaitForTurn, Enqueue, Dequeue, SizeB,
           SizeC, SizeD
  <2>2. ASSUME ~Exhausted(call[t].side, call[t].tk,
                          ticket[Other(call[t].side)])
        PROVE  FALSE
    BY Zenon, <1>2, <1>3, <2>1, <2>2 DEF Bound, CallType
  <2> QED  BY <1>6, <2>2 DEF Sizing
<1>7. CASE Sizing(t)
  <2>1. SizeB(t) \/ SizeC(t) \/ SizeD(t)
    BY <1>1, <1>4, <1>7
       DEF Continue, TryObtainReadyPushTicket, TryObtainReadyPopTicket,
           TryObtainPromisedPushTicket, TryObtainPromisedPopTicket, Check,
           Recheck, Bound, Cas, At, WaitForTurn, Enqueue, Dequeue, Sizing
  <2>2. ~SizeB(t)
    BY Zenon, <1>2, <1>3 DEF SizeB, CallType
  <2>3. CASE SizeC(t)
    <3>1. call[t].tk = ticket["push"]
      BY Zenon, <1>2, <1>3, <2>3 DEF SizeC, CallType
    <3> QED  BY <1>3, <2>3, <3>1 DEF SizeC, Idle
  <2>4. CASE SizeD(t)
    <3>1. call[t].seen = ticket["pop"]
      BY Zenon, <1>2, <1>3, <2>4 DEF SizeD, CallType
    <3> QED  BY <1>3, <2>4, <3>1 DEF SizeD, Idle
  <2> QED  BY <2>1, <2>2, <2>3, <2>4
<1> QED  BY Zenon, <1>5, <1>6, <1>7 DEF Sizing

(* The answers of the calls that do not block, and of size(), were true    *)
(* at some moment of the call.                                             *)
THEOREM AnswersTrueHolds == Spec => AnswersTrue
<1> DEFINE Refused(t) ==
      /\ call[t].pc = "recheck" /\ call'[t].pc = "idle" => call[t].bracketed
      /\ call[t].pc = "bound" /\ call'[t].pc = "idle" =>
           Exhausted(call[t].side, ticket[call[t].side],
                     ticket[Other(call[t].side)])
    Measured(t) ==
      Sizing(t) /\ call'[t].pc = "idle" => call'[t].ret \in call[t].sizes
<1>1. ASSUME QueueInv, [Next]_vars
      PROVE  [\A t \in Threads : Refused(t)]_vars
             /\ [\A t \in Threads : Measured(t)]_vars
  <2>1. CASE UNCHANGED vars
    BY <2>1
  <2> SUFFICES ASSUME Next, NEW t \in Threads PROVE Refused(t) /\ Measured(t)
    BY <1>1, <2>1
  <2>2. /\ CallOK(call[t]) /\ TypeOK
        /\ call[t].tk \in Nat /\ call[t].side \in Sides
        /\ ticket[call[t].side] \in Nat /\ ticket[Other(call[t].side)] \in Nat
    BY Zenon, <1>1, CallFields, TicketFields DEF QueueInv
  <2>3. ASSUME call[t].pc = "recheck", call'[t].pc = "idle"
        PROVE  call[t].bracketed
    BY Zenon, <2>2, <2>3, Returning DEF CallOK, Knows
  <2>4. ASSUME call[t].pc = "bound", call'[t].pc = "idle"
        PROVE  Exhausted(call[t].side, ticket[call[t].side],
                         ticket[Other(call[t].side)])
    <3>1. call[t].tk <= ticket[call[t].side]
      BY Zenon, <2>2, <2>4 DEF CallOK, Knows, Trying
    <3>2. Exhausted(call[t].side, call[t].tk, ticket[Other(call[t].side)])
      BY Zenon, <2>2, <2>4, Returning
    <3> QED  BY <2>2, <3>1, <3>2, QueueAssumption DEF Exhausted
  <2>5. ASSUME Sizing(t), call'[t].pc = "idle"
        PROVE  call'[t].ret \in call[t].sizes
    BY <2>2, <2>5, Returning DEF CallOK, Measures, Sizing
  <2> QED  BY <2>3, <2>4, <2>5
<1> QED
  BY <1>1, Invariance, PTL DEF Spec, AnswersTrue, FalseIsTrue, SizeIsLinearizable

(* MPMCQueue is the FIFO queue of its class comment: a write is put in     *)
(* order and a read assigned its element when it takes its ticket, and the *)
(* read gets that element whenever the slot's turn comes.                  *)
THEOREM FifoHolds == Spec => ImplementsFifo
<1> DEFINE mine == [t \in Threads |->
              IF call[t].pc \in {"wait", "in"} /\ call[t].side = "pop"
              THEN call[t].tk ELSE -1]
<1>1. Init => Fifo!Init
  BY DEF Init, Fifo!Init, Idle, Sides
<1>2. ASSUME QueueInv, [Next]_vars PROVE [Fifo!Next]_Fifo!vars
  <2>1. CASE UNCHANGED vars
    BY <2>1 DEF vars, Fifo!vars
  <2> SUFFICES ASSUME NEW t \in Threads, StepKind(t)
               PROVE  [Fifo!Next]_Fifo!vars
    BY <1>2, <2>1, StepKinds DEF Next
  <2>2. TypeOK /\ CallOK(call[t]) /\ call[t] \in CallType
    BY <1>2, CallFields DEF QueueInv
  <2>3. ASSUME NEW c, Ordinary(t, c) PROVE UNCHANGED Fifo!vars
    <3>1. /\ ticket' = ticket /\ log' = log /\ last' = last
          /\ call'[t] = c /\ \A u \in Threads : u # t => call'[u] = call[u]
      BY <2>2, <2>3 DEF Ordinary, Local, TypeOK
    <3>2. mine' = mine
      BY <2>3, <3>1 DEF Ordinary, Held
    <3> QED  BY <3>1, <3>2 DEF Fifo!vars
  <2>4. ASSUME NEW c, Taking(t, c) PROVE Fifo!Next
    <3> DEFINE k == ticket[c.side]
    <3>1. /\ c.side \in Sides /\ k \in Nat
          /\ ticket' = [ticket EXCEPT ![c.side] = k + 1]
          /\ last' = last /\ c \in CallType /\ ~Held(call[t])
          /\ log' = IF c.side = "push" THEN Append(log, c.val) ELSE log
          /\ c.side = "push" => c.val \in Values
      BY <2>2, <2>4, TicketFields DEF Taking, TakeTicket, CallType
    <3>2. call'[t] = [c EXCEPT !.pc = "wait", !.tk = k]
      BY <2>4, Zenon DEF Taking, TakeTicket
    <3>3. call'[t].pc = "wait" /\ call'[t].tk = k /\ call'[t].side = c.side
      BY <3>1, <3>2 DEF CallType
    <3>4. ASSUME NEW u \in Threads, u # t
          PROVE  /\ call'[u].pc = call[u].pc /\ call'[u].tk = call[u].tk
                 /\ call'[u].side = call[u].side
      <4>1. \/ call'[u] = call[u]
            \/ \E S : call'[u] = [call[u] EXCEPT !.sizes = S]
        BY <2>4, <3>4, Zenon DEF Taking, TakeTicket
      <4>2. call[u] \in CallType
        BY <2>2, CallFields
      <4> QED  BY Zenon, <4>1, <4>2 DEF CallType
    <3>5. CASE c.side = "push"
      <4>1. mine' = mine
        BY <3>1, <3>3, <3>4, <3>5 DEF Held
      <4>2. ticket'["pop"] = ticket["pop"]
        BY Zenon, <2>2, <3>1, <3>5 DEF TypeOK, Sides
      <4> QED  BY <3>1, <3>5, <4>1, <4>2 DEF Fifo!Next, Fifo!Write
    <3>6. CASE c.side = "pop"
      <4>1. mine[t] = -1 /\ mine' = [mine EXCEPT ![t] = ticket["pop"]]
        BY Zenon, <3>1, <3>3, <3>4, <3>6 DEF Held
      <4>2. ticket'["pop"] = ticket["pop"] + 1
        BY <2>2, <3>1, <3>6 DEF TypeOK
      <4> QED  BY Zenon, <3>1, <3>6, <4>1, <4>2 DEF Fifo!Next, Fifo!Assign
    <3> QED  BY <3>1, <3>5, <3>6 DEF Sides
  <2>5. CASE WaitForTurn(t)
    <3>1. /\ ticket' = ticket /\ log' = log /\ last' = last
          /\ call[t].pc = "wait" /\ call'[t] = [call[t] EXCEPT !.pc = "in"]
          /\ \A u \in Threads : u # t => call'[u] = call[u]
      BY <2>2, <2>5 DEF WaitForTurn, Local, TypeOK
    <3>2. /\ call'[t].pc = "in" /\ call'[t].tk = call[t].tk
          /\ call'[t].side = call[t].side
      BY <2>2, <3>1 DEF CallType
    <3>3. \A u \in Threads :
            /\ call'[u].pc \in {"wait", "in"} <=> call[u].pc \in {"wait", "in"}
            /\ call'[u].side = call[u].side /\ call'[u].tk = call[u].tk
      BY Zenon, <3>1, <3>2
    <3>4. mine' = mine
      BY <3>3
    <3> QED  BY <3>1, <3>4 DEF Fifo!vars
  <2>6. CASE Enqueue(t)
    <3>1. /\ ticket' = ticket /\ log' = log /\ last' = last
          /\ call[t].side = "push" /\ call'[t] = Idle(0)
          /\ \A u \in Threads : u # t => call'[u] = call[u]
      BY <2>2, <2>6 DEF Enqueue, At, TypeOK
    <3>2. mine' = mine
      BY <3>1 DEF Idle
    <3> QED  BY <3>1, <3>2 DEF Fifo!vars
  <2>7. CASE Dequeue(t)
    <3> DEFINE k == call[t].tk
    <3>1. /\ ticket' = ticket /\ log' = log
          /\ call[t].side = "pop" /\ call[t].pc = "in" /\ call'[t] = Idle(0)
          /\ last' = [last EXCEPT ![t] = contents[idx(k)]]
          /\ \A u \in Threads : u # t => call'[u] = call[u]
      BY <2>2, <2>7 DEF Dequeue, At, TypeOK
    <3>2. /\ k \in Nat /\ turnAt[idx(k)] = TurnOf("pop", k)
          /\ TurnOf("pop", k) = TurnOf("push", k) + 1 /\ TurnOf("push", k) \in Nat
          /\ ticket["push"] \in Nat /\ Len(log) = ticket["push"]
      <4>1. k \in Nat /\ May("pop", k)
        BY Zenon, <2>2, <3>1, CallFields DEF CallOK, Waits, Held
      <4> QED  BY Zenon, <2>2, <4>1, TurnTypes, TicketFields DEF May, TypeOK, Sides
    <3>3. k < ticket["push"]
      BY <1>2, <3>2 DEF QueueInv, SlotInv, NotBefore, Sides
    <3>4. contents[idx(k)] = log[k + 1]
      BY <1>2, <3>2, <3>3 DEF QueueInv, SlotInv, Stored
    <3>5. mine[t] = k /\ mine' = [mine EXCEPT ![t] = -1]
      <4>1. call'[t].pc = "idle"
        BY <3>1 DEF Idle
      <4>2. mine[t] = k
        BY <3>1
      <4>3. ASSUME NEW u \in Threads
            PROVE  mine'[u] = IF u = t THEN -1 ELSE mine[u]
        BY <3>1, <4>1
      <4> QED  BY Zenon, <4>2, <4>3
    <3> HIDE DEF mine
    <3>6. mine[t] # -1 /\ mine[t] < Len(log)
          /\ last' = [last EXCEPT ![t] = log[mine[t] + 1]]
      BY <3>1, <3>2, <3>3, <3>4, <3>5
    <3> QED  BY Zenon, <3>1, <3>5, <3>6 DEF Fifo!Next, Fifo!Read, mine
  <2>8. CASE Use(t)
    BY Zenon, <2>8 DEF Use, Fifo!Next, Fifo!Use
  <2> QED  BY Zenon, <2>3, <2>4, <2>5, <2>6, <2>7, <2>8 DEF StepKind
<1> QED  BY <1>1, <1>2, Invariance, PTL DEF Spec, ImplementsFifo, Fifo!Spec

-----------------------------------------------------------------------------
(***************************************************************************)
(* BlockingQueue: NoStrandedItem, for every number of producers and        *)
(* consumers and every capacity its semaphore can count to.                *)
(***************************************************************************)

IInv == QueueTypeOK /\ NoStrandedItem

(* The threads at one place of add or take can be counted.                 *)
LEMMA Counted ==
  /\ IsFiniteSet(Posting) /\ Cardinality(Posting) \in Nat
  /\ IsFiniteSet(Looking) /\ Cardinality(Looking) \in Nat
<1>1. Posting \subseteq Producers /\ Looking \subseteq Consumers
  BY DEF Posting, Looking
<1>2. IsFiniteSet(Posting) /\ IsFiniteSet(Looking)
  BY <1>1, FiniteAssumption, FS_Subset
<1>. QED  BY <1>2, FS_CardinalityType

LEMMA CountedNext ==
  /\ IsFiniteSet(Posting') /\ Cardinality(Posting') \in Nat
  /\ IsFiniteSet(Looking') /\ Cardinality(Looking') \in Nat
<1>1. Posting' \subseteq Producers /\ Looking' \subseteq Consumers
  BY DEF Posting, Looking
<1>2. IsFiniteSet(Posting') /\ IsFiniteSet(Looking')
  BY <1>1, FiniteAssumption, FS_Subset
<1>. QED  BY <1>2, FS_CardinalityType

(* One element more is one more to count.                                  *)
LEMMA OneMore ==
  ASSUME NEW S, IsFiniteSet(S), NEW T, NEW x, x \notin S, T = S \cup {x}
  PROVE  Cardinality(T) = Cardinality(S) + 1
BY FS_AddElement

LEMMA TypeInit == QueueInit => QueueTypeOK
BY SizesAssumption DEF QueueInit, QueueTypeOK

LEMMA TypeStep == QueueTypeOK /\ [QueueNext]_queueVars => QueueTypeOK'
<1>. SUFFICES ASSUME QueueTypeOK, [QueueNext]_queueVars PROVE QueueTypeOK'
  OBVIOUS
<1>. USE SizesAssumption DEF QueueTypeOK
<1>1. CASE \E p \in Producers, v \in Items : Add(p, v)
  BY <1>1 DEF Add
<1>2. CASE \E p \in Producers : Post(p)
  BY <1>2 DEF Post
<1>3. CASE \E c \in Consumers : Take(c)
  BY <1>3 DEF Take
<1>4. CASE \E c \in Consumers : Look(c)
  <2>1. PICK c \in Consumers : Look(c)
    BY <1>4
  <2>2. CASE queue # <<>>
    <3>1. queue' = Tail(queue) /\ Tail(queue) \in Seq(Items)
      BY <2>1, <2>2 DEF Look
    <3>2. Len(queue') <= Capacity
      BY <2>2, <3>1
    <3>. QED  BY <2>1, <3>1, <3>2 DEF Look
  <2>3. CASE queue = <<>>
    BY <2>1, <2>3 DEF Look
  <2>. QED  BY <2>2, <2>3
<1>5. CASE \E c \in Consumers : Wake(c)
  BY <1>5 DEF Wake
<1>6. CASE \E c \in Consumers : Interrupt(c)
  BY <1>6 DEF Interrupt
<1>7. CASE UNCHANGED queueVars
  BY <1>7 DEF queueVars
<1>. QED  BY <1>1, <1>2, <1>3, <1>4, <1>5, <1>6, <1>7 DEF QueueNext

LEMMA CoverInit == QueueInit => NoStrandedItem
<1>. SUFFICES ASSUME QueueInit PROVE NoStrandedItem
  OBVIOUS
<1>1. Len(queue) = 0 /\ sem = 0
  BY DEF QueueInit
<1>. QED  BY <1>1, Counted DEF NoStrandedItem

LEMMA CoverStep == IInv /\ [QueueNext]_queueVars => NoStrandedItem'
<1>. SUFFICES ASSUME QueueTypeOK, NoStrandedItem, [QueueNext]_queueVars
             PROVE  NoStrandedItem'
  BY DEF IInv
<1>. USE Counted, CountedNext
<1>1. CASE \E p \in Producers, v \in Items : Add(p, v)
  <2>1. PICK p \in Producers, v \in Items : Add(p, v)
    BY <1>1
  <2>2. Posting' = Posting \cup {p} /\ p \notin Posting /\ Looking' = Looking
    BY <2>1 DEF Add, Posting, Looking, QueueTypeOK
  <2>3. Cardinality(Posting') = Cardinality(Posting) + 1
    BY <2>2, OneMore
  <2>4. Len(queue') = Len(queue) + 1 /\ sem' = sem
    BY <2>1 DEF Add, QueueTypeOK
  <2>. QED  BY <2>2, <2>3, <2>4 DEF NoStrandedItem, QueueTypeOK
<1>2. CASE \E p \in Producers : Post(p)
  <2>1. PICK p \in Producers : Post(p)
    BY <1>2
  <2>2. Posting = Posting' \cup {p} /\ p \notin Posting' /\ Looking' = Looking
    BY <2>1 DEF Post, Posting, Looking, QueueTypeOK
  <2>3. Cardinality(Posting) = Cardinality(Posting') + 1
    BY <2>2, OneMore
  <2>4. CASE sem < SemMax
    BY <2>1, <2>2, <2>3, <2>4 DEF Post, NoStrandedItem, QueueTypeOK
  <2>5. CASE sem = SemMax
    (* The post fails, but every element already has a token.              *)
    BY <2>1, <2>2, <2>5, SizesAssumption DEF Post, NoStrandedItem, QueueTypeOK
  <2>. QED  BY <2>4, <2>5, SizesAssumption DEF QueueTypeOK
<1>3. CASE \E c \in Consumers : Take(c)
  <2>1. PICK c \in Consumers : Take(c)
    BY <1>3
  <2>2. Looking' = Looking \cup {c} /\ c \notin Looking /\ Posting' = Posting
    BY <2>1 DEF Take, Posting, Looking, QueueTypeOK
  <2>3. Cardinality(Looking') = Cardinality(Looking) + 1
    BY <2>2, OneMore
  <2>. QED  BY <2>1, <2>2, <2>3 DEF Take, NoStrandedItem, QueueTypeOK
<1>4. CASE \E c \in Consumers : Look(c)
  <2>1. PICK c \in Consumers : Look(c)
    BY <1>4
  <2>2. Looking = Looking' \cup {c} /\ c \notin Looking' /\ Posting' = Posting
    BY <2>1 DEF Look, Posting, Looking, QueueTypeOK
  <2>3. Cardinality(Looking) = Cardinality(Looking') + 1
    BY <2>2, OneMore
  <2>4. CASE queue # <<>>
    <3>1. Len(queue') = Len(queue) - 1 /\ sem' = sem
      BY <2>1, <2>4 DEF Look, QueueTypeOK
    <3>. QED  BY <2>2, <2>3, <3>1 DEF NoStrandedItem, QueueTypeOK
  <2>5. CASE queue = <<>>
    BY <2>1, <2>5 DEF Look, NoStrandedItem, QueueTypeOK
  <2>. QED  BY <2>4, <2>5
<1>5. CASE \E c \in Consumers : Wake(c)
  <2>1. PICK c \in Consumers : Wake(c)
    BY <1>5
  <2>2. Looking' = Looking \cup {c} /\ c \notin Looking /\ Posting' = Posting
    BY <2>1 DEF Wake, Posting, Looking, QueueTypeOK
  <2>3. Cardinality(Looking') = Cardinality(Looking) + 1
    BY <2>2, OneMore
  <2>. QED  BY <2>1, <2>2, <2>3 DEF Wake, NoStrandedItem, QueueTypeOK
<1>6. CASE \E c \in Consumers : Interrupt(c)
  <2>1. Looking' = Looking /\ Posting' = Posting
    BY <1>6 DEF Interrupt, Posting, Looking, QueueTypeOK
  <2>. QED  BY <1>6, <2>1 DEF Interrupt, NoStrandedItem, QueueTypeOK
<1>7. CASE UNCHANGED queueVars
  BY <1>7 DEF queueVars, NoStrandedItem, Posting, Looking
<1>. QED  BY <1>1, <1>2, <1>3, <1>4, <1>5, <1>6, <1>7 DEF QueueNext

(* Types and coverage are inductive together: a failed sem_post is only    *)
(* harmless because the queue is no longer than the semaphore can count.   *)
THEOREM CoverInvariance == QueueSpec => []IInv
<1>1. QueueInit => IInv
  BY TypeInit, CoverInit DEF IInv
<1>2. IInv /\ [QueueNext]_queueVars => IInv'
  BY TypeStep, CoverStep DEF IInv
<1>. QED  BY <1>1, <1>2, PTL DEF QueueSpec

(* add and take never leave an element that no token, no pending post and  *)
(* no looking taker accounts for.                                          *)
THEOREM NoStrandedItemHolds == QueueSpec => []NoStrandedItem
<1>1. IInv => NoStrandedItem
  BY DEF IInv
<1>. QED  BY <1>1, CoverInvariance, PTL

=============================================================================
