--------------------------- MODULE EventDispatch ---------------------------
(***************************************************************************)
(* What EventLoop (accelerator/event) does with the events it was handed:  *)
(* the table of descriptors, the epoll set, the deadlines, and the calls   *)
(* of its handler.  EventLoop.tla models how the loop is woken; TimedHeap  *)
(* is taken by its promise, DeadlineMap: one deadline for each event.  (Of *)
(* two entries of an event with equal deadlines pop may return the older   *)
(* one's repeat flag; this coincidence is left out.)                       *)
(*                                                                         *)
(* The handler is the application's.  Of the calls open to it, it makes    *)
(* those that the loop's comment "already update epoll" and its states     *)
(* imply: it goes from writing to reading by updateEvent and dispatchEvent,*)
(* takes an event that was read out of the loop by popEvent, returns it by *)
(* addEvent, and calls popEvent before it closes and deletes an event.     *)
(***************************************************************************)
EXTENDS Naturals, Sequences, FiniteSets

CONSTANTS
  Events,      \* EventBase objects
  Fds,         \* descriptors
  Limit,       \* ctimeout, rtimeout and wtimeout
  LongPoll,    \* FLAGS_event_lp_timeout
  MaxTime      \* bound: the clock

None == 0      \* a null pointer, no descriptor

VARIABLES
  event,       \* each event's state, descriptor and starttime; where it is
  pending,     \* events_
  taken,       \* events_ as the loop has swapped it out
  fdEvents,    \* fdEvents_
  interest,    \* the epoll set: kRead, kWrite or off
  deadline,    \* deadlineHeap_: of each event, with repeat; or None
  listenFds,   \* listenFds_
  stop,        \* stop_
  loop,        \* the loop's place
  ready,       \* what poll_.wait returned and is still to be handled
  reported,    \* ghost: fdEvents_ at that moment
  now,         \* what checkTimeoutEvents read
  clock

vars == <<event, pending, taken, fdEvents, interest, deadline, listenFds,
          stop, loop, ready, reported, now, clock>>

Never == <<None, FALSE>>
Gone  == [state |-> "Init", fd |-> None, start |-> 0, where |-> "gone"]

Reads  == {"ToRead", "Reading", "Next"}
Writes == {"Connect", "ToWrite", "Writing"}

Free == {fd \in Fds : \A e \in Events : event[e].fd # fd}
NewFd == {fd \in Free : \A g \in Free : fd =< g}   \* the lowest

-----------------------------------------------------------------------------
(* The loop's calls, on what it keeps of its events.                       *)

Parts ==
  [event |-> event, fds |-> fdEvents, poll |-> interest, due |-> deadline,
   listens |-> listenFds]

Becomes(p) ==
  /\ event' = p.event /\ fdEvents' = p.fds
  /\ interest' = p.poll /\ deadline' = p.due /\ listenFds' = p.listens

Keeps == <<fdEvents, interest, deadline, listenFds>>

SetState(p, e, s) == [p EXCEPT !.event[e].state = s]

(* EPoll::add, modify and remove: a wrong call is only logged.             *)
Add(p, fd, what) ==
  IF p.poll[fd] = "off" THEN [p EXCEPT !.poll[fd] = what] ELSE p
Modify(p, fd, what) ==
  IF p.poll[fd] # "off" THEN [p EXCEPT !.poll[fd] = what] ELSE p
Remove(p, fd) == [p EXCEPT !.poll[fd] = "off"]

Push(p, e, at, repeat) == [p EXCEPT !.due[e] = <<at, repeat>>]
Erase(p, e) == [p EXCEPT !.due[e] = Never]

PushEvent(p, e) == [p EXCEPT !.fds[p.event[e].fd] = e]

DispatchEvent(p, e) ==
  LET ev == p.event[e]
  IN  CASE ev.state = "Listen" ->
             [Add(p, ev.fd, "kRead") EXCEPT !.listens = @ \cup {ev.fd}]
        [] ev.state = "Next"   -> Push(p, e, ev.start + LongPoll, TRUE)
        [] ev.state = "ToRead" -> Push(p, e, ev.start + Limit, FALSE)
        [] ev.state \in {"Connect", "ToWrite"} ->
             Add(Push(p, e, ev.start + Limit, FALSE), ev.fd, "kWrite")
        [] OTHER -> p

UpdateEvent(p, e, what) == Modify(Erase(p, e), p.event[e].fd, what)

RestartEvent(p, e) ==
  LET q == [Erase(p, e) EXCEPT !.event[e].state = "Init",
                               !.event[e].start = clock]
  IN  Push(q, e, clock + Limit, FALSE)

PopEventKeeps(p, e) ==   \* mutant
  LET fd == p.event[e].fd
  IN  [Remove(p, fd) EXCEPT !.fds[fd] = None]

PopEvent(p, e) ==
  LET fd == p.event[e].fd
  IN  [Remove(Erase(p, e), fd) EXCEPT !.fds[fd] = None]

-----------------------------------------------------------------------------
(* Other threads *)

AddEvent(e) == pending' = Append(pending, e)

Born(e, s, fd) ==
  event' = [event EXCEPT ![e] = [state |-> s, fd |-> fd, start |-> clock,
                                 where |-> "handed"]]

(* A socket is opened, to listen or to connect, and handed to the loop.    *)
Open(e) ==
  /\ event[e].where = "gone"
  /\ \E s \in {"Listen", "Connect"}, fd \in NewFd : Born(e, s, fd)
  /\ AddEvent(e)
  /\ UNCHANGED <<Keeps, taken, stop, loop, ready, reported, now, clock>>

(* A request that was read is answered: the event goes back to the loop,   *)
(* or the connection is given up.                                          *)
Answer(e) ==
  /\ event[e].where = "away"
  /\ \/ /\ event' = [event EXCEPT ![e].state = "ToWrite",
                                  ![e].where = "handed"]
        /\ AddEvent(e)
     \/ event' = [event EXCEPT ![e] = Gone] /\ UNCHANGED pending
  /\ UNCHANGED <<Keeps, taken, stop, loop, ready, reported, now, clock>>

Tick ==
  /\ clock < MaxTime /\ clock' = clock + 1
  /\ UNCHANGED <<Keeps, event, pending, taken, stop, loop, ready, reported,
                 now>>

(* stop(): no more is accepted, and the loop ends with its round.          *)
Stop ==
  /\ ~stop /\ stop' = TRUE
  /\ interest' = [fd \in Fds |-> IF fd \in listenFds THEN "off"
                                                    ELSE interest[fd]]
  /\ UNCHANGED <<event, pending, taken, fdEvents, deadline, listenFds, loop,
                 ready, reported, now, clock>>

-----------------------------------------------------------------------------
(* loopBody *)

SwapEvents ==
  /\ loop = "swap" /\ ~stop /\ loop' = "dispatch"
  /\ taken' = pending /\ pending' = <<>>
  /\ UNCHANGED <<Keeps, event, stop, ready, reported, now, clock>>

Dispatch ==
  /\ loop = "dispatch"
  /\ IF taken # <<>>
       THEN LET e == Head(taken)
                p == DispatchEvent(PushEvent(Parts, e), e)
            IN  /\ Becomes([p EXCEPT !.event[e].where = "loop"])
                /\ taken' = Tail(taken)
                /\ UNCHANGED <<loop, now>>
       ELSE /\ loop' = "timeouts" /\ now' = clock   \* checkTimeoutEvents
            /\ UNCHANGED <<Keeps, event, taken>>
  /\ UNCHANGED <<pending, stop, ready, reported, clock>>

Deleted(p, e) == [PopEvent(p, e) EXCEPT !.event[e] = Gone]

Due == {e \in Events : deadline[e] # Never /\ deadline[e][1] =< now}

(* One round of checkTimeoutEvents; onTimeout closes the event.            *)
CheckTimeout ==
  /\ loop = "timeouts"
  /\ IF Due # {}
       THEN \E e \in Due :
              /\ \A f \in Due : deadline[e][1] =< deadline[f][1]
              /\ Becomes(LET p == Erase(Parts, e)
                         IN  IF deadline[e][2]
                             THEN Push(p, e, deadline[e][1] + LongPoll, TRUE)
                             ELSE Deleted(SetState(p, e, "Timeout"), e))
              /\ UNCHANGED loop
       ELSE loop' = "poll" /\ UNCHANGED <<Keeps, event>>
  /\ UNCHANGED <<pending, taken, stop, ready, reported, now, clock>>

(* poll_.wait returns some of the descriptors in its set, in any order, or *)
(* none.                                                                   *)
Poll ==
  /\ loop = "poll" /\ loop' = "handle"
  /\ ready' \in SUBSET {fd \in Fds : interest[fd] # "off"}
  /\ reported' = fdEvents
  /\ UNCHANGED <<Keeps, event, pending, taken, stop, now, clock>>

(* What the handler does with a connection: it is not through, it writes   *)
(* and waits for more, it has read all, or it gives up, perhaps with a     *)
(* connection that depends on this one.  onTimeout and close, for the      *)
(* states no event should be in, give up.                                  *)
Handled(q, e) ==
  LET s == q.event[e].state
      p == IF s = "Next" THEN RestartEvent(q, e) ELSE q
      turn(t) == DispatchEvent(UpdateEvent(SetState(p, e, t), e, "kRead"), e)
      all == [PopEvent(SetState(p, e, "Readed"), e)
                EXCEPT !.event[e].where = "away"]
      peers == {f \in Events \ {e} : /\ p.event[f].where = "loop"
                                     /\ p.event[f].state # "Listen"}
  IN  {Deleted(p, e)} \cup {Deleted(Deleted(p, e), f) : f \in peers} \cup
      (IF s \in Writes
         THEN {SetState(p, e, "Writing"), turn("ToRead"), turn("Next")}
       ELSE IF s \in Reads
         THEN {SetState(p, e, "Reading"), all}
       ELSE {})

(* onListen: a connection is accepted and handed to the loop; it enters    *)
(* the epoll set as one to write to.                                       *)
Accept ==
  \/ \E f \in Events, fd \in NewFd :
       event[f].where = "gone" /\ Born(f, "ToWrite", fd) /\ AddEvent(f)
  \/ UNCHANGED <<event, pending>>

(* One of the descriptors that are ready.                                  *)
Handle(fd) ==
  /\ loop = "handle" /\ fd \in ready /\ ready' = ready \ {fd}
  /\ LET e == fdEvents[fd]
     IN  \/ e = None /\ UNCHANGED <<Keeps, event, pending>>
         \/ /\ e # None /\ event[e].state = "Listen"
            /\ Accept
            /\ UNCHANGED Keeps
         \/ /\ e # None /\ event[e].state # "Listen"
            /\ \E p \in Handled(Parts, e) : Becomes(p)
            /\ UNCHANGED pending
  /\ UNCHANGED <<taken, stop, loop, reported, now, clock>>

Polled ==
  /\ loop = "handle" /\ ready = {} /\ loop' = "swap"
  /\ reported' = [fd \in Fds |-> None] /\ now' = 0
  /\ UNCHANGED <<Keeps, event, pending, taken, stop, ready, clock>>

DispatchInit ==
  /\ event = [e \in Events |-> Gone]
  /\ pending = <<>> /\ taken = <<>>
  /\ fdEvents = [fd \in Fds |-> None] /\ interest = [fd \in Fds |-> "off"]
  /\ deadline = [e \in Events |-> Never] /\ listenFds = {} /\ stop = FALSE
  /\ loop = "swap" /\ ready = {} /\ reported = fdEvents
  /\ now = 0 /\ clock = 0

DispatchNext ==
  \/ \E e \in Events : Open(e) \/ Answer(e)
  \/ Tick \/ Stop \/ SwapEvents \/ Dispatch \/ CheckTimeout \/ Poll \/ Polled
  \/ \E fd \in Fds : Handle(fd)

-----------------------------------------------------------------------------

InLoop(e) == event[e].where = "loop"

(* Nothing the loop keeps refers to an event that was deleted, is with     *)
(* another thread or waits to be taken in: its table names the owner of    *)
(* the descriptor, a deadline is that of an event in the table, and the    *)
(* epoll set has no descriptor beside these.  Every event of the loop is   *)
(* in a state that a handler is called for, polled for what that state     *)
(* waits for (one that listens, until stop()) and, unless it listens, has  *)
(* a deadline, which repeats while it waits for the next request.          *)
Registered ==
  /\ \A fd \in Fds :
       /\ fdEvents[fd] # None =>
            InLoop(fdEvents[fd]) /\ event[fdEvents[fd]].fd = fd
       /\ interest[fd] # "off" => fdEvents[fd] # None
  /\ \A e \in Events :
       LET s == event[e].state
       IN  /\ deadline[e] # Never => InLoop(e)
           /\ InLoop(e) =>
                /\ s \in {"Listen"} \cup Reads \cup Writes
                /\ fdEvents[event[e].fd] = e
                /\ \/ interest[event[e].fd] =
                          IF s \in Writes THEN "kWrite" ELSE "kRead"
                   \/ s = "Listen" /\ stop
                /\ deadline[e] = Never <=> s = "Listen"
                /\ deadline[e][2] <=> s = "Next"

(* The loop waits only when no deadline has passed that it knows of.       *)
NoneOverdue == loop = "poll" => Due = {}

(* That a descriptor was ready is never told to another event than the one *)
(* that had it then: one accepted with its number waits its turn.          *)
NotMistaken ==
  \A fd \in ready : fdEvents[fd] \in {None, reported[fd]}

DispatchSound == Registered /\ NoneOverdue /\ NotMistaken

=============================================================================
