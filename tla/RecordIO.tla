------------------------------ MODULE RecordIO ------------------------------
(* io/RecordIO.cpp, with the writing loop of io/FileUtil.cpp: threads of one *)
(* process append records to a file, each at a place it reserved before, and *)
(* processes die and are followed by others.  A reader finds the records     *)
(* that are whole by their magic number and their hashes.  A cell stands for *)
(* four bytes, the magic number, or for the rest of a header, or for data.   *)
EXTENDS Integers, Sequences, SequencesExt, FiniteSetsExt

CONSTANTS Threads,     \* of the process that has the file open
          Payloads,    \* what they write: cells, and if there is headroom
          MaxWrites,   \* bound: calls of write()
          MaxCrashes   \* bound: processes that die

VARIABLES cells,    \* what the file holds
          isOpen,   \* a RecordIOWriter exists and has the file locked
          filePos,  \* filePos_
          wr,       \* each thread's write()
          calls, crashes,
          reader,   \* a RecordIOReader and its Iterator
          wrote     \* the records, where they go, and if write() returned

recordVars == <<cells, isOpen, filePos, wr, calls, crashes, reader, wrote>>

Cell(kind, id, data) == [kind |-> kind, id |-> id, data |-> data]
Zero == Cell("zero", 0, <<>>)    \* what a hole in the file reads as
Magic == Cell("magic", 0, <<>>)
HeaderSize == 2
MyId == 1
AnyId == 0

(* A header has its record's length and hash, for which the data stands. *)
Header(id, data) == Cell("header", id, data)

(* prependHeader *)
Record(id, data) == <<Magic, Header(id, data)>> \o data

Idle == [pc |-> "idle", pos |-> 0, iov |-> <<>>, call |-> 0]
NoReader == [pc |-> "none", id |-> AnyId, end |-> 0, pos |-> 0, got |-> <<>>,
             due |-> {}]

Init ==
  /\ cells = <<>> /\ isOpen = FALSE /\ filePos = 0
  /\ wr = [t \in Threads |-> Idle]
  /\ calls = 0 /\ crashes = 0 /\ wrote = {} /\ reader = NoReader

-----------------------------------------------------------------------------
(* The constructor, which throws while another process has the lock. *)
Open ==
  /\ ~isOpen
  /\ isOpen' = TRUE
  /\ filePos' = Len(cells)
  /\ UNCHANGED <<cells, wr, calls, crashes, reader, wrote>>

(* write() up to fetch_add: an empty record is not written, and the header   *)
(* is a buffer of its own unless the first one has room for it.              *)
Reserve(t, buf) ==
  LET rec == Record(MyId, buf.data) IN
  /\ isOpen /\ wr[t].pc = "idle" /\ calls < MaxWrites
  /\ calls' = calls + 1
  /\ buf.data # <<>>
  /\ filePos' = filePos + Len(rec)
  /\ wr' = [wr EXCEPT ![t] =
              [pc |-> "write", pos |-> filePos, call |-> calls,
               iov |-> IF buf.headroom THEN <<rec>>
                       ELSE <<SubSeq(rec, 1, HeaderSize), buf.data>>]]
  /\ wrote' = wrote \cup {[call |-> calls, pos |-> filePos, rec |-> rec,
                           ok |-> FALSE]}
  /\ UNCHANGED <<cells, isOpen, crashes, reader>>

(* wrapvFull: the buffers that are left after r bytes of them were written *)
Rest(iov, r) ==
  LET Before(i) == FoldLeft(+, 0, [j \in 1 .. i - 1 |-> Len(iov[j])])
      Left(i) == SubSeq(iov[i], r - Before(i) + 1, Len(iov[i]))
      all == [i \in DOMAIN iov |->
                IF r <= Before(i) THEN iov[i]
                ELSE IF r >= Before(i) + Len(iov[i]) THEN <<>> ELSE Left(i)]
  IN  SelectSeq(all, LAMBDA b : b # <<>>)

(* pwritev, which writes a part of what it is given, and fills a hole *)
Written(pos, new) ==
  [i \in 1 .. Max({Len(cells), pos + Len(new)}) |->
     IF i > pos /\ i <= pos + Len(new) THEN new[i - pos]
     ELSE IF i <= Len(cells) THEN cells[i] ELSE Zero]

PWrite(t) ==
  LET w == wr[t]
      all == FlattenSeq(w.iov)
  IN  /\ w.pc = "write" /\ w.iov # <<>>
      /\ \E r \in 1 .. Len(all) :
           /\ cells' = Written(w.pos, SubSeq(all, 1, r))
           /\ wr' = [wr EXCEPT ![t].pos = w.pos + r, ![t].iov = Rest(w.iov, r)]
      /\ UNCHANGED <<isOpen, filePos, calls, crashes, reader, wrote>>

(* write() returns *)
Wrote(t) ==
  /\ wr[t].pc = "write" /\ wr[t].iov = <<>>
  /\ wr' = [wr EXCEPT ![t] = Idle]
  /\ wrote' = {IF w.call = wr[t].call THEN [w EXCEPT !.ok = TRUE]
               ELSE w : w \in wrote}
  /\ UNCHANGED <<cells, isOpen, filePos, calls, crashes, reader>>

(* pwritev fails, write() throws and the space stays reserved *)
WriteFails(t) ==
  /\ wr[t].pc = "write" /\ wr[t].iov # <<>>
  /\ wr' = [wr EXCEPT ![t] = Idle]
  /\ UNCHANGED <<cells, isOpen, filePos, calls, crashes, reader, wrote>>

(* The process ends, wherever its threads are, and its lock with it. *)
Crash ==
  /\ isOpen /\ crashes < MaxCrashes
  /\ isOpen' = FALSE /\ crashes' = crashes + 1
  /\ wr' = [t \in Threads |-> Idle]
  /\ UNCHANGED <<cells, filePos, calls, reader, wrote>>

-----------------------------------------------------------------------------
(* Places count from 0; end is where the mapping ends. *)
CellAt(p) == cells[p + 1]

ValidForAnyId(p, end, id) ==   \* mutant
  /\ end - p > HeaderSize
  /\ CellAt(p) = Magic
  /\ LET h == CellAt(p + 1)
         first == p + HeaderSize + 1
     IN  /\ h.kind = "header"
         /\ Len(h.data) <= end - p - HeaderSize
         /\ SubSeq(cells, first, first + Len(h.data) - 1) = h.data

(* validateRecord: a header whose hash is wrong is not one *)
Valid(p, end, id) ==
  /\ end - p > HeaderSize
  /\ CellAt(p) = Magic
  /\ LET h == CellAt(p + 1)
         first == p + HeaderSize + 1
     IN  /\ h.kind = "header"
         /\ id # AnyId => h.id = id
         /\ Len(h.data) <= end - p - HeaderSize
         /\ SubSeq(cells, first, first + Len(h.data) - 1) = h.data

(* findRecord: where the first record from p on begins, or npos *)
npos == -1
FindRecord(p, end, id) ==
  LET Hits == {q \in p .. end - HeaderSize : CellAt(q) = Magic
                                            /\ Valid(q, end, id)}
  IN  IF Hits = {} THEN npos ELSE Min(Hits)

(* advanceToValid, from pos *)
Advanced(r, pos) ==
  LET p == IF pos >= r.end THEN npos ELSE FindRecord(pos, r.end, r.id) IN
  IF p = npos THEN [r EXCEPT !.pc = "end", !.pos = npos]
  ELSE [r EXCEPT !.pc = "at", !.pos = p,
                 !.got = Append(@, [pos |-> p, data |-> CellAt(p + 1).data])]

(* RecordIOReader: the mapping is as long as the file was when it was made. *)
ReadFrom(id, pos) ==
  LET r == [NoReader EXCEPT !.id = id, !.end = Len(cells),
                            !.due = {w \in wrote : w.ok /\ w.pos >= pos}]
  IN  /\ reader.pc = "none"
      /\ reader' = Advanced(r, pos)
      /\ UNCHANGED <<cells, isOpen, filePos, wr, calls, crashes, wrote>>

(* Iterator::increment *)
Increment ==
  /\ reader.pc = "at"
  /\ reader' = Advanced(reader, reader.pos + HeaderSize
                                 + Len(reader.got[Len(reader.got)].data))
  /\ UNCHANGED <<cells, isOpen, filePos, wr, calls, crashes, wrote>>

Next == \/ Open \/ Crash
        \/ \E t \in Threads :
             \/ \E b \in Payloads : Reserve(t, b)
             \/ PWrite(t) \/ Wrote(t) \/ WriteFails(t)
        \/ \E id \in {AnyId, MyId}, pos \in {0, 3} : ReadFrom(id, pos)
        \/ Increment

Spec == Init /\ [][Next]_recordVars

-----------------------------------------------------------------------------
(* However the writing threads interleave, fail and die: what write()        *)
(* returned for stays in the file as it was written; a reader gets it all,   *)
(* in the order of the file, if its mapping was made later; and with the     *)
(* file's own id it gets nothing else than records which a write() placed    *)
(* there, not the torn ones nor another file's record inside of one.         *)
RecordsRight ==
  /\ \A w \in wrote : w.ok =>
       SubSeq(cells, w.pos + 1, w.pos + Len(w.rec)) = w.rec
  /\ \A i, j \in DOMAIN reader.got :
       i < j => reader.got[i].pos < reader.got[j].pos
  /\ reader.pc = "end" => \A w \in reader.due :
       \E i \in DOMAIN reader.got :
         reader.got[i].pos = w.pos /\ Record(MyId, reader.got[i].data) = w.rec
  /\ reader.id = MyId => \A i \in DOMAIN reader.got : \E w \in wrote :
       w.pos = reader.got[i].pos /\ w.rec = Record(MyId, reader.got[i].data)
=============================================================================
