------------------------------ MODULE EventQueue ------------------------------
(***************************************************************************)
(* The event queue of server.c as the doubly linked list it is, with the   *)
(* clock, and the part of the select loop that turns the first event's     *)
(* time into the timeout of select().                                      *)
(*                                                                         *)
(* Every step here is one critical section of queuelock (StreamPipeline    *)
(* has the threads and the places where the lock is missing).              *)
(***************************************************************************)
EXTENDS Timeval, FiniteSets, Sequences

CONSTANTS
  MaxEvents,  \* bound: TimeoutEvents allocated at a time
  Start,      \* the time of day when the server starts
  MaxTime,    \* bound: the last instant of the clock, in units of 1/USEC s
  Delays,     \* milliseconds push_timeout is called with by the handlers
  Stamps,     \* time stamps of frames
  EosGap,     \* the 10 microseconds of ENDOFSTREAM
  Carry       \* push_timeout and ENDOFSTREAM may run over the second

ASSUME BoundsAssumption ==
  /\ MaxEvents \in Nat \ {0} /\ MaxTime \in Nat
  /\ Start \in Timevals /\ Normal(Start)
  /\ Delays \subseteq Nat /\ Stamps \subseteq Nat /\ EosGap \in Nat
  /\ Carry \in BOOLEAN

Nodes == 1 .. MaxEvents
NULL == 0
Zero == [sec |-> 0, usec |-> 0]
NoTimeout == [sec |-> -1, usec |-> -1]       \* timeind = NULL

VARIABLES
  list,     \* the Queue and the prev, next, time and type of each node
  used,     \* the nodes that are allocated
  now,      \* gettimeofday
  base,     \* basetime of the filler, NoTimeout before it started
  prev,     \* prev_timestamp of the filler: the frame it read last
  timeind,  \* what select() is called with
  wake,     \* the instant at which that select() times out
  mpc       \* "select", or "fdloop" while descriptors are served

vars == <<list, used, now, base, prev, timeind, wake, mpc>>

Init ==
  /\ list = [first |-> NULL, last |-> NULL, size |-> 0,
             next |-> [n \in Nodes |-> NULL], prev |-> [n \in Nodes |-> NULL],
             time |-> [n \in Nodes |-> Zero], type |-> [n \in Nodes |-> "none"]]
  /\ used = {}
  /\ now = Start
  /\ base = NoTimeout
  /\ prev = NoTimeout
  /\ timeind = NoTimeout
  /\ wake = 0
  /\ mpc = "select"

-----------------------------------------------------------------------------
(***************************************************************************)
(* push_event, pull_event and empty_queue, pointer by pointer.             *)
(***************************************************************************)

\* The search from the tail for the first event earlier than t.
Stepper(l, t) ==
  LET step[k \in 0 .. MaxEvents] ==
        IF k = 0 THEN l.last
        ELSE LET s == step[k - 1]
             IN  IF s # NULL /\ timecmp(l.time[s], t) <= 0 THEN l.prev[s] ELSE s
  IN  step[MaxEvents]

insque(l, e, s) ==
  LET succ == l.next[s]
  IN  [l EXCEPT !.next = [@ EXCEPT ![s] = e, ![e] = succ],
                !.prev = [n \in Nodes |-> IF n = e THEN s
                                          ELSE IF n = succ THEN e ELSE @[n]]]

\* Mutant: queue->last is not moved when the event becomes the last one.
push_event_keep_last(l, e) ==
  LET l0 == [l EXCEPT !.prev[e] = NULL, !.next[e] = NULL, !.size = @ + 1]
      s  == Stepper(l, l.time[e])
  IN  IF l.last = NULL THEN [l0 EXCEPT !.first = e, !.last = e]
      ELSE IF s = NULL
        THEN [l0 EXCEPT !.prev[l.first] = e, !.next[e] = l.first, !.first = e]
        ELSE insque(l0, e, s)

push_event(l, e) ==
  LET l0 == [l EXCEPT !.prev[e] = NULL, !.next[e] = NULL, !.size = @ + 1]
      s  == Stepper(l, l.time[e])
      l1 == insque(l0, e, s)
  IN  IF l.last = NULL THEN [l0 EXCEPT !.first = e, !.last = e]
      ELSE IF s = NULL
        THEN [l0 EXCEPT !.prev[l.first] = e, !.next[e] = l.first, !.first = e]
        ELSE [l1 EXCEPT !.last = IF l1.next[e] = NULL THEN e ELSE @]

remque(l, e) ==
  [l EXCEPT !.prev = [n \in Nodes |-> IF n = l.next[e] THEN l.prev[e] ELSE @[n]],
            !.next = [n \in Nodes |-> IF n = l.prev[e] THEN l.next[e] ELSE @[n]]]

pull_event(l) ==
  LET l1 == [remque([l EXCEPT !.first = l.next[l.first]], l.first) EXCEPT !.size = @ - 1]
  IN  IF l1.size <= 0 THEN [l1 EXCEPT !.first = NULL, !.last = NULL] ELSE l1

empty_queue(l) == [l EXCEPT !.first = NULL, !.last = NULL, !.size = 0]

\* A freed node is forgotten; malloc returns one that is not in use.
Free(l, ns) ==
  [l EXCEPT !.next = [n \in Nodes |-> IF n \in ns THEN NULL ELSE @[n]],
            !.prev = [n \in Nodes |-> IF n \in ns THEN NULL ELSE @[n]],
            !.time = [n \in Nodes |-> IF n \in ns THEN Zero ELSE @[n]],
            !.type = [n \in Nodes |-> IF n \in ns THEN "none" ELSE @[n]]]
Malloc == CHOOSE n \in Nodes \ used : \A m \in Nodes \ used : n <= m

PushNew(l, e, type, time) ==
  push_event([l EXCEPT !.time[e] = time, !.type[e] = type], e)

-----------------------------------------------------------------------------
(***************************************************************************)
(* The steps.                                                              *)
(***************************************************************************)
MayStamp(t) == Carry \/ Normal(t)
Room == used # Nodes

Tick ==
  /\ Micros(now) < MaxTime
  /\ now' = IF now.usec = USEC - 1 THEN [sec |-> now.sec + 1, usec |-> 0]
            ELSE [now EXCEPT !.usec = @ + 1]
  /\ UNCHANGED <<list, used, base, prev, timeind, wake, mpc>>

\* select() has returned for a descriptor: it leaves no usable timeout, and
\* EndLoop sets the next one.
Served == mpc' = "fdloop" /\ timeind' = NoTimeout /\ wake' = 0

\* A descriptor is served whose handler calls push_timeout.
push_timeout(time_ms) ==
  LET t == timeout_stamp(now, time_ms)
  IN  /\ Room /\ MayStamp(t)
      /\ list' = PushNew(list, Malloc, "CHECKMEDIASTATE", t)
      /\ used' = used \cup {Malloc}
      /\ Served
      /\ UNCHANGED <<now, base, prev>>

\* A descriptor is served whose handler leaves the queue alone.
OtherFd ==
  /\ Served
  /\ UNCHANGED <<list, used, now, base, prev>>

\* A filler starts: basetime is the time of its first wakeup.
StartFill ==
  /\ base = NoTimeout
  /\ base' = now
  /\ UNCHANGED <<list, used, now, prev, timeind, wake, mpc>>

PushFrame(timestamp) ==
  LET t == set_timeval(base, timestamp)
  IN  /\ base # NoTimeout
      /\ Room
      /\ list' = PushNew(list, Malloc, "FRAME", t)
      /\ used' = used \cup {Malloc}
      /\ prev' = t
      /\ UNCHANGED <<now, base, timeind, wake, mpc>>

\* The file ends: ENDOFSTREAM, and the filler is gone.  A file that ends before its
\* first frame is left out: its ENDOFSTREAM has an uninitialised stamp.
PushEos ==
  LET t == eos_stamp(prev, EosGap)
  IN  /\ prev # NoTimeout
      /\ Room /\ MayStamp(t)
      /\ list' = PushNew(list, Malloc, "ENDOFSTREAM", t)
      /\ used' = used \cup {Malloc}
      /\ base' = NoTimeout
      /\ prev' = NoTimeout
      /\ UNCHANGED <<now, timeind, wake, mpc>>

\* select() times out: pull, handle, and set the next timeout from the time
\* the event had.  CHECKMEDIASTATE puts itself off by a second until the media
\* is there; its node is freed at the end, so the new event needs another.
Timeout ==
  /\ mpc = "select"
  /\ timeind # NoTimeout
  /\ Micros(now) >= wake
  /\ list.first # NULL
  /\ LET e  == list.first
         l  == pull_event(list)
         t  == timeout_stamp(now, 1000)
         SetTimeout(l1) ==
           IF l1.size > 0
             THEN /\ timeind' = calculate_delta(l1.time[e], l1.time[l1.first])
                  /\ wake' = Micros(now) + Micros(timeind')
             ELSE timeind' = NoTimeout /\ wake' = 0
     IN \/ /\ SetTimeout(l)
           /\ list' = Free(l, {e})
           /\ used' = used \ {e}
        \/ /\ l.type[e] = "CHECKMEDIASTATE"
           /\ Room
           /\ LET l1 == PushNew(l, Malloc, "CHECKMEDIASTATE", t)
              IN  SetTimeout(l1) /\ list' = Free(l1, {e})
           /\ used' = (used \cup {Malloc}) \ {e}
  /\ UNCHANGED <<now, base, prev, mpc>>

\* TEARDOWN: the filler is cancelled and the queue emptied.
Teardown ==
  /\ list' = Free(empty_queue(list), used)
  /\ used' = {}
  /\ base' = NoTimeout
  /\ prev' = NoTimeout
  /\ Served
  /\ UNCHANGED now

\* Mutant: a first event that is overdue does not become a timeout of zero.
EndLoopNoClamp ==
  /\ mpc = "fdloop"
  /\ timeind' = IF list.size > 0
                  THEN calculate_delta(now, list.time[list.first]) ELSE NoTimeout
  /\ wake' = Micros(now) + Micros(timeind')
  /\ mpc' = "select"
  /\ UNCHANGED <<list, used, now, base, prev>>

\* After the descriptors: the timeout from the time of the first event.
EndLoop ==
  /\ mpc = "fdloop"
  /\ LET delta == calculate_delta(now, list.time[list.first])
     IN  timeind' = IF list.size <= 0 THEN NoTimeout
                    ELSE IF delta.sec < 0 THEN Zero ELSE delta
  /\ wake' = IF timeind' = NoTimeout THEN 0 ELSE Micros(now) + Micros(timeind')
  /\ mpc' = "select"
  /\ UNCHANGED <<list, used, now, base, prev>>

Next ==
  \/ Tick
  \/ \E ms \in Delays : push_timeout(ms)
  \/ OtherFd
  \/ StartFill
  \/ \E ts \in Stamps : PushFrame(ts)
  \/ PushEos
  \/ Timeout
  \/ Teardown
  \/ EndLoop

Spec == Init /\ [][Next]_vars

-----------------------------------------------------------------------------
(***************************************************************************)
(* Properties.                                                             *)
(***************************************************************************)

\* The node the next pointers reach from first in k - 1 steps.
Nth(k) ==
  LET next == [n \in Nodes \cup {NULL} |-> IF n = NULL THEN NULL ELSE list.next[n]]
      nth[i \in 1 .. MaxEvents] == IF i = 1 THEN list.first ELSE next[nth[i - 1]]
  IN  nth[k]

\* The list is well formed: next and prev walk the same allocated events in
\* opposite orders between first and last, and size counts them.
WellFormed ==
  /\ list.size = Cardinality(used)
  /\ {Nth(k) : k \in 1 .. list.size} = used
  /\ IF used = {} THEN list.first = NULL /\ list.last = NULL
     ELSE /\ list.last = Nth(list.size) /\ list.next[list.last] = NULL
          /\ list.prev[list.first] = NULL
          /\ \A n \in used \ {list.last} : list.prev[list.next[n]] = n

\* select() is never called with a negative timeout, which Select answers with
\* fatal_error.
TimeoutValid == timeind # NoTimeout => timeind.sec >= 0 /\ timeind.usec >= 0

\* The queue retains its order, smallest time first.
Sorted ==
  \A k \in 1 .. list.size - 1 :
    Micros(list.time[Nth(k)]) <= Micros(list.time[Nth(k + 1)])

\* The list and the select loop implement the abstract timer queue: events are
\* kept in order, and none is handled before its time.
EventOf(n) == [id |-> n, at |-> Micros(list.time[n])]
Queue == [k \in 1 .. list.size |-> EventOf(Nth(k))]
Abstract == INSTANCE TimerQueue WITH q <- Queue, now <- Micros(now)
ImplementsTimerQueue == Abstract!Spec
=============================================================================
