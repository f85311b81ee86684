------------------------------- MODULE Logger -------------------------------
(* LogBase.cpp: BaseLogger.  A message is written to the file by the thread  *)
(* that logs it or, through queue_, by the logger's own thread; a file that  *)
(* has reached splitSize_ is renamed.  A message is <<caller, number>>, a    *)
(* file is the messages in it.  No more than one file is open at a time, so  *)
(* a stale descriptor means the file opened since; stderr is a terminal.     *)
EXTENDS Integers, Sequences, FiniteSets

CONSTANTS Callers, LogThread,
          Quota,         \* bound: how many messages each caller logs
          SplitSize,     \* splitSize_, in messages
          Null
VARIABLES head, next, ins, swp, order, strands, trues,     \* queue_
          async, isOpen, \* async_; fd_ >= 0
          file, bak,     \* the log file and file.1
          lost,          \* what file.1 held before
          up,            \* no exception has left a destructor or the thread
          th,            \* a thread's place in write, its message and its fd
          logged,        \* history: per caller, how each message was logged
          out            \* history: the writes, <<message, to the file?>>

Threads == Callers \cup {LogThread}
Messages == UNION {{t} \X (1 .. Quota[t]) : t \in Callers}
list == INSTANCE AtomicLinkedList
          WITH Inserters <- Callers, Sweepers <- {LogThread}, Elems <- Messages

queue == <<head, next, ins, swp, order, strands, trues>>
disk == <<isOpen, file, bak, lost, out, up>>
logVars == <<queue, disk, async, th, logged>>

Idle == [pc |-> "idle", msg |-> Null, onFile |-> FALSE]

LogInit ==
  /\ async = FALSE /\ isOpen = FALSE /\ up = TRUE
  /\ file = <<>> /\ bak = <<>> /\ lost = <<>> /\ out = <<>>
  /\ th = [t \in Threads |-> Idle]
  /\ logged = [t \in Callers |-> <<>>]

Init == list!Init /\ LogInit

Starts(t, m) == th' = [th EXCEPT ![t] = [Idle EXCEPT !.pc = "write", !.msg = m]]

(* log: below LOG_ERROR a message may go through the queue *)
Log(t, below) ==
  LET m == <<t, Len(logged[t]) + 1>>
      queued == async /\ below
  IN  /\ th[t].pc = "idle" /\ ins[t].pc = "idle"
      /\ Len(logged[t]) < Quota[t]
      /\ IF queued THEN list!InsertLoad(t, m) /\ UNCHANGED th
                   ELSE Starts(t, m) /\ UNCHANGED queue
      /\ logged' = [logged EXCEPT ![t] = Append(@, queued)]
      /\ UNCHANGED <<disk, async>>

Insert(t) == /\ list!InsertCas(t) \/ (ins[t].old # head /\ list!InsertFail(t))
             /\ UNCHANGED <<disk, async, th, logged>>

SweepBackwards == /\ th[LogThread].pc = "idle"   \* mutant
                  /\ list!Exchange(LogThread, TRUE)
                  /\ UNCHANGED <<disk, async, th, logged>>

(* run: sweep takes what there is, and writes it message by message *)
Sweep == /\ th[LogThread].pc = "idle"
         /\ list!Exchange(LogThread, FALSE)
         /\ UNCHANGED <<disk, async, th, logged>>

SweepNext == /\ th[LogThread].pc = "idle"
             /\ list!Unlink(LogThread)
             /\ Starts(LogThread, swp[LogThread].at)
             /\ UNCHANGED <<disk, async, logged>>

(* write: the lines under lock_ *)
Write(t) ==
  /\ th[t].pc = "write"
  /\ file' = IF isOpen THEN Append(file, th[t].msg) ELSE file
  /\ out' = Append(out, <<th[t].msg, isOpen>>)
  /\ th' = [th EXCEPT ![t].pc = "size", ![t].onFile = isOpen]
  /\ UNCHANGED <<queue, isOpen, bak, lost, up, async, logged>>

(* getSize of the descriptor written to, which may be closed or reused *)
CheckSize(t) ==
  /\ th[t].pc = "size"
  /\ th' = [th EXCEPT ![t] = IF /\ SplitSize > 0
                                /\ th[t].onFile /\ isOpen
                                /\ Len(file) >= SplitSize
                             THEN [@ EXCEPT !.pc = "split"] ELSE Idle]
  /\ UNCHANGED <<queue, disk, async, logged>>

(* split.  ext() keeps its dot, so atoi makes every number 0 and no numbered *)
(* file is moved on or removed: file.1 is replaced, whoever made it.  Where  *)
(* the open of another split has failed, the rename finds no file and        *)
(* throws.                                                                   *)
Split(t) ==
  /\ th[t].pc = "split"
  /\ IF isOpen
     THEN /\ lost' = lost \o bak /\ bak' = file /\ file' = <<>>
          /\ isOpen' \in BOOLEAN
          /\ th' = [th EXCEPT ![t] = Idle]
          /\ UNCHANGED up
     ELSE up' = FALSE /\ UNCHANGED <<lost, bak, file, isOpen, th>>
  /\ UNCHANGED <<queue, out, async, logged>>

(* setLogFile before any message, or with another file after a failure *)
SetLogFile ==
  /\ ~isOpen
  /\ isOpen' = TRUE /\ lost' = lost \o bak /\ bak' = <<>>
  /\ UNCHANGED <<queue, file, out, up, async, th, logged>>

SetAsync(on) == /\ async # on /\ async' = on
                /\ UNCHANGED <<queue, disk, th, logged>>

Step(t) == Write(t) \/ CheckSize(t) \/ Split(t)

Next == /\ up
        /\ \/ \E t \in Callers : Insert(t) \/ \E b \in BOOLEAN : Log(t, b)
           \/ Sweep \/ SweepNext
           \/ \E t \in Threads : Step(t)
           \/ SetLogFile \/ \E on \in BOOLEAN : SetAsync(on)

Spec == Init /\ [][Next]_logVars

-----------------------------------------------------------------------------
Place(m) == CHOOSE i \in DOMAIN out : out[i][1] = m
Written(m) == \E i \in DOMAIN out : out[i][1] = m
ToFile == LET kept == SelectSeq(out, LAMBDA w : w[2])
          IN  [i \in 1 .. Len(kept) |-> kept[i][1]]

(* The queue gives its messages out once each and in order (ListComplete).   *)
(* No message is written twice, and a caller's messages keep their order but *)
(* for one sent through the queue before another that was not.  What the     *)
(* file, file.1 and those before it held is what was written to the file, in *)
(* that order, however many threads write and split; and the file outgrows   *)
(* splitSize_ by no more than a message per thread.                          *)
LogRight ==
  /\ list!ListComplete
  /\ \A i, j \in DOMAIN out : out[i][1] = out[j][1] => i = j
  /\ \A t \in Callers : \A i, j \in DOMAIN logged[t] :
       /\ i < j /\ (logged[t][j] \/ ~logged[t][i]) /\ Written(<<t, j>>)
       => Written(<<t, i>>) /\ Place(<<t, i>>) < Place(<<t, j>>)
  /\ lost \o bak \o file = ToFile
  /\ SplitSize > 0 => Len(file) < SplitSize + Cardinality(Threads)

(* What is logged is written in the end, by the caller or by the log thread, *)
(* whose loop never ends; unless a split meets the failure of another.       *)
LogWritten == \A t \in Callers : \A i \in 1 .. Quota[t] :
                Len(logged[t]) >= i ~> Written(<<t, i>>) \/ ~up
=============================================================================
