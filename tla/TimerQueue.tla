------------------------------ MODULE TimerQueue ------------------------------
(***************************************************************************)
(* What server.h promises of the event queue and the select loop around    *)
(* it: the queue "retains the order, smallest time first", the first event *)
(* is the one taken, and none is taken before its time.  Instants are      *)
(* integers here, and there is no list, no timeval and no select().        *)
(***************************************************************************)
EXTENDS Integers, Sequences, SequencesExt

VARIABLES q,    \* the events, each with the instant `at` it is due
          now   \* the current instant

Sorted(s) == \A i \in 1 .. Len(s) - 1 : s[i].at <= s[i + 1].at

Init == q = <<>> /\ now \in Int

\* t is s with one event more, in its place.
Inserted(s, t) ==
  /\ Len(t) = Len(s) + 1
  /\ Sorted(t)
  /\ \E i \in 1 .. Len(t) : s = RemoveAt(t, i)

Push == now' = now /\ Inserted(q, q')

\* The first event is handled, at its time or later; handling it may put
\* another one into the queue.
Handle ==
  /\ now' = now
  /\ q # <<>>
  /\ Head(q).at <= now
  /\ q' = Tail(q) \/ Inserted(Tail(q), q')

Empty == now' = now /\ q' = <<>>

Pass == now' > now /\ q' = q

Next == Push \/ Handle \/ Empty \/ Pass

Spec == Init /\ [][Next]_<<q, now>>
=============================================================================
