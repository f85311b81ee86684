------------------------------- MODULE PCQueue -------------------------------
(* thread/ProducerConsumerQueue.h: a ring of records for one producer and    *)
(* one consumer.  Each moves an index of its own and reads the other's; an   *)
(* index equal to the other's means empty, so one record stays unused.  The  *)
(* history variables sent and got are what write stored and what the         *)
(* consumer took.                                                            *)
EXTENDS Integers, Sequences

CONSTANTS RingSize, \* size_
          Items,    \* T
          Dead,     \* a record that holds no T
          MaxSent   \* bound: how many values are written

ASSUME RingSizeAssumption == RingSize \in Nat /\ RingSize >= 2
ASSUME DeadAssumption == Dead \notin Items
ASSUME MaxSentAssumption == MaxSent \in Nat

VARIABLES records, readIndex, writeIndex,
          prod,     \* the producer's call: its place and its argument
          cons,     \* the consumer's place
          sent, got,
          prodGuess, consGuess   \* sizeGuess() as each side last saw it

ringVars == <<records, readIndex, writeIndex, prod, cons, sent, got,
              prodGuess, consGuess>>

NoGuess == -1
Cells == 0 .. RingSize - 1
Succ(i) == IF i + 1 = RingSize THEN 0 ELSE i + 1

RingInit ==
  /\ records = [i \in Cells |-> Dead]
  /\ readIndex = 0 /\ writeIndex = 0
  /\ prod = [pc |-> "idle", val |-> Dead]
  /\ cons = "idle"
  /\ sent = <<>> /\ got = <<>>
  /\ prodGuess = NoGuess /\ consGuess = NoGuess

WriteOverFront(v) ==   \* mutant
  /\ prod.pc = "idle" /\ Len(sent) < MaxSent
  /\ prod' = [pc |-> "construct", val |-> v]
  /\ prodGuess' = NoGuess
  /\ UNCHANGED <<records, readIndex, writeIndex, cons, sent, got, consGuess>>

(* write: the room seen here can only grow until the record is stored *)
WriteCheck(v) ==
  /\ prod.pc = "idle" /\ Len(sent) < MaxSent
  /\ Succ(writeIndex) # readIndex
  /\ prod' = [pc |-> "construct", val |-> v]
  /\ prodGuess' = NoGuess
  /\ UNCHANGED <<records, readIndex, writeIndex, cons, sent, got, consGuess>>

WriteConstruct ==
  /\ prod.pc = "construct"
  /\ records' = [records EXCEPT ![writeIndex] = prod.val]
  /\ prod' = [prod EXCEPT !.pc = "store"]
  /\ UNCHANGED <<readIndex, writeIndex, cons, sent, got, prodGuess, consGuess>>

WriteStore ==
  /\ prod.pc = "store"
  /\ writeIndex' = Succ(writeIndex)
  /\ sent' = Append(sent, prod.val)
  /\ prod' = [prod EXCEPT !.pc = "idle"]
  /\ UNCHANGED <<records, readIndex, cons, got, prodGuess, consGuess>>

(* read, or frontPtr, or isEmpty before popFront *)
ReadCheck ==
  /\ cons = "idle"
  /\ readIndex # writeIndex
  /\ cons' = "move"
  /\ consGuess' = NoGuess
  /\ UNCHANGED <<records, readIndex, writeIndex, prod, sent, got, prodGuess>>

(* the record is moved out, or used in place, and destroyed *)
ReadMove ==
  /\ cons = "move"
  /\ got' = Append(got, records[readIndex])
  /\ records' = [records EXCEPT ![readIndex] = Dead]
  /\ cons' = "store"
  /\ UNCHANGED <<readIndex, writeIndex, prod, sent, prodGuess, consGuess>>

ReadStore ==
  /\ cons = "store"
  /\ readIndex' = Succ(readIndex)
  /\ cons' = "idle"
  /\ UNCHANGED <<records, writeIndex, prod, sent, got, prodGuess, consGuess>>

(* sizeGuess, of which isEmpty and isFull are the two ends *)
SizeGuess == LET ret == writeIndex - readIndex
             IN  IF ret < 0 THEN ret + RingSize ELSE ret

ProducerGuess ==
  /\ prod.pc = "idle"
  /\ prodGuess' = SizeGuess
  /\ UNCHANGED <<records, readIndex, writeIndex, prod, cons, sent, got,
                 consGuess>>

ConsumerGuess ==
  /\ cons = "idle"
  /\ consGuess' = SizeGuess
  /\ UNCHANGED <<records, readIndex, writeIndex, prod, cons, sent, got,
                 prodGuess>>

RingNext == \/ \E v \in Items : WriteCheck(v)
            \/ WriteConstruct \/ WriteStore
            \/ ReadCheck \/ ReadMove \/ ReadStore
            \/ ProducerGuess \/ ConsumerGuess

RingSpec == RingInit /\ [][RingNext]_ringVars

-----------------------------------------------------------------------------
(* how many records the consumer has given back *)
Popped == IF cons = "store" THEN Len(got) - 1 ELSE Len(got)

(* The consumer gets what was written, in that order; no T is constructed    *)
(* over another or taken where there is none; the queue never holds more     *)
(* than capacity(); and "If called by consumer, then true size may be more", *)
(* by the producer less, but not the other way.                              *)
RingRight ==
  /\ Len(got) <= Len(sent)
  /\ \A i \in 1 .. Len(got) : got[i] = sent[i]
  /\ prod.pc = "construct" => records[writeIndex] = Dead
  /\ cons = "move" => records[readIndex] \in Items
  /\ Len(sent) - Popped < RingSize
  /\ consGuess <= Len(sent) - Popped
  /\ prodGuess # NoGuess => prodGuess >= Len(sent) - Popped
=============================================================================
