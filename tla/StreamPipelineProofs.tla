------------------------- MODULE StreamPipelineProofs -------------------------
(***************************************************************************)
(* Proofs about StreamPipeline for every queue size, file, number of       *)
(* threads and environment.                                                *)
(***************************************************************************)
EXTENDS StreamPipeline, SequenceTheorems, FunctionTheorems,
        FiniteSetTheorems, TLAPS

\* Inserting into a sequence keeps its type and makes it one longer.
LEMMA InsertAtType ==
  ASSUME NEW S, NEW q \in Seq(S), NEW i \in 1 .. Len(q) + 1, NEW e \in S
  PROVE  /\ InsertAt(q, i, e) \in Seq(S)
         /\ Len(InsertAt(q, i, e)) = Len(q) + 1
         /\ InsertAt(q, i, e) # <<>>
<1> DEFINE a == SubSeq(q, 1, i - 1)
           b == SubSeq(q, i, Len(q))
<1>1. /\ a \in Seq(S) /\ Len(a) = i - 1
  BY SubSeqProperties
<1>2. /\ b \in Seq(S) /\ Len(b) = Len(q) - i + 1
  BY SubSeqProperties
<1>3. InsertAt(q, i, e) = a \o <<e>> \o b
  BY DEF InsertAt
<1>4. /\ <<e>> \in Seq(S) /\ Len(<<e>>) = 1
  OBVIOUS
<1> HIDE DEF a, b
<1> DEFINE c == a \o <<e>>
<1>5. /\ c \o b \in Seq(S)
      /\ Len(c \o b) = Len(q) + 1
  <2>1. c \in Seq(S) /\ Len(c) = i - 1 + 1
    BY <1>1, <1>4, ConcatProperties
  <2> HIDE DEF c
  <2>2. c \o b \in Seq(S) /\ Len(c \o b) = Len(c) + Len(b)
    BY <2>1, <1>2, ConcatProperties
  <2> QED  BY <2>1, <2>2, <1>2, LenProperties
<1>6. Len(q) \in Nat
  BY LenProperties
<1>7. c \o b # <<>>
  BY <1>5, <1>6, EmptySeq
<1> QED  BY <1>3, <1>5, <1>7

-----------------------------------------------------------------------------
(***************************************************************************)
(* The inductive invariant.                                                *)
(***************************************************************************)

\* A filler has events left until it has pushed ENDOFSTREAM, is inside the
\* queue only with the mutex, and lives only while its context is open.
FillerInv ==
  \A t \in Threads :
    /\ pc[t] \in {"unborn", "outer", "waiting", "signalled", "fill", "lock"}
         => pushed[t] < Eos
    /\ pc[t] = "fill" => queuelock = t
    /\ t > created => pc[t] = "unborn"
    /\ Alive(t) => ctx[t] = "open"

\* The main thread owns the mutex through its locked sections; TEARDOWN has a
\* filler to cancel, and that one has died before its context is closed.
MainInv ==
  /\ mpc \in {"handle", "sleep", "close"} => queuelock = MAIN
  /\ mpc \in {"sleep", "close"} \/ tinfo = "live" => created # 0
  /\ mpc = "sleep" /\ Alive(created) => cancel
  /\ mpc = "close" => ~Alive(created)

Inv == TypeOK /\ FillerInv /\ MainInv

-----------------------------------------------------------------------------
LEMMA ConstantFacts ==
  /\ MaxThreads \in Nat /\ MaxThreads > 0 /\ MaxOps \in Nat
  /\ Eos \in Nat /\ Eos > 0
  /\ FREE \notin Threads /\ MAIN \notin Threads /\ FREE # MAIN
  /\ Threads \subseteq Nat
<1>1. Len(Pts) \in Nat
  BY PtsAssumption, LenProperties
<1> QED  BY <1>1, SizesAssumption DEF Eos, Threads, FREE, MAIN

LEMMA EventFacts ==
  /\ TimerEvent \in Events
  /\ \A t \in Threads, n \in 1 .. Eos : FillerEvent(t, n) \in Events
  /\ \A e \in Events : e.th # MAIN => e.th \in Threads /\ e.n \in 0 .. Eos
<1>1. \A t \in Threads, n \in 1 .. Eos :
         FillerEvent(t, n).th = t /\ FillerEvent(t, n).n = n
  BY DEF FillerEvent
<1>2. TimerEvent.th = MAIN
  BY DEF TimerEvent
<1> QED  BY <1>1, <1>2, ConstantFacts DEF Events

\* push_event keeps the type of the queue and leaves it non-empty.
LEMMA PushType ==
  ASSUME queue \in Seq(Events), NEW e \in Events, push_event(e)
  PROVE  queue' \in Seq(Events) /\ queue' # <<>>
<1> PICK i \in 1 .. Len(queue) + 1 : PushAt(e, i)
  BY DEF push_event
<1> QED  BY InsertAtType DEF PushAt

\* pthread_cond_signal moves threads from "waiting" to "signalled" only.
LEMMA SignalFacts ==
  ASSUME TypeOK, CondSignal
  PROVE  /\ pc' \in [Threads -> {"unborn", "outer", "waiting", "signalled",
                                 "fill", "check", "lock", "dying", "dead"}]
         /\ \A t \in Threads : \/ pc'[t] = pc[t]
                               \/ pc[t] = "waiting" /\ pc'[t] = "signalled"
<1>1. CASE Waiters = {}
  BY <1>1 DEF CondSignal, TypeOK
<1>2. CASE Waiters # {}
  BY <1>2 DEF CondSignal, TypeOK, Waiters
<1> QED  BY <1>1, <1>2

-----------------------------------------------------------------------------
LEMMA InitInv == Init => Inv
<1> SUFFICES ASSUME Init PROVE Inv
  OBVIOUS
<1> USE ConstantFacts DEF Init
<1>1. queue \in Seq(Events)
  OBVIOUS
<1>2. /\ 0 \in 0 .. Eos /\ 0 \in 0 .. MaxThreads /\ 0 \in 0 .. MaxOps
      /\ pushed \in [Threads -> 0 .. Eos] /\ last \in [Threads -> 0 .. Eos]
  OBVIOUS
<1>3. TypeOK
  <2> USE DEF TypeOK
  <2>1. /\ queuelock \in {FREE, MAIN} \cup Threads /\ event \in Events
        /\ armed \in BOOLEAN
        /\ cancel \in BOOLEAN /\ downloaded \in BOOLEAN /\ playing \in BOOLEAN
    BY EventFacts
  <2> QED  BY <1>1, <1>2, <2>1
<1>4. FillerInv
  BY DEF FillerInv, Alive
<1>5. MainInv
  BY DEF MainInv
<1> QED  BY <1>3, <1>4, <1>5 DEF Inv

LEMMA MainStepInv ==
  ASSUME Inv, TimeoutPull \/ MainStep
  PROVE  Inv'
<1> USE ConstantFacts, EventFacts DEF Inv
<1>1. CASE TimeoutPull
  <2>1. event' \in Events /\ queue' \in Seq(Events)
    BY <1>1, HeadTailProperties DEF TimeoutPull, TypeOK
  <2>2. last' \in [Threads -> 0 .. Eos]
    BY <1>1, <2>1 DEF TimeoutPull, TypeOK
  <2>3. TypeOK'
    BY <1>1, <2>1, <2>2 DEF TimeoutPull, TypeOK
  <2>4. FillerInv'
    BY <1>1 DEF TimeoutPull, FillerInv, Alive, TypeOK
  <2>5. MainInv'
    BY <1>1 DEF TimeoutPull, MainInv, Alive
  <2> QED  BY <2>3, <2>4, <2>5
<1>2. CASE TimeoutHandle
  <2>1. queue' \in Seq(Events)
    BY <1>2, PushType DEF TimeoutHandle, TypeOK
  <2>2. CondSignal \/ pc' = pc
    BY <1>2 DEF TimeoutHandle
  <2>3. TypeOK'
    BY <1>2, <2>1, <2>2, SignalFacts DEF TimeoutHandle, TypeOK
  <2>4. FillerInv'
    BY <1>2, <2>2, SignalFacts DEF TimeoutHandle, FillerInv, Alive, MainInv
  <2>5. MainInv'
    BY <1>2 DEF TimeoutHandle, MainInv
  <2> QED  BY <2>3, <2>4, <2>5
<1>3. CASE PushTimer
  <2>1. queue' \in Seq(Events)
    BY <1>3, PushType DEF PushTimer, TypeOK
  <2>2. TypeOK'
    BY <1>3, <2>1 DEF PushTimer, TypeOK
  <2>3. FillerInv' /\ MainInv'
    BY <1>3 DEF PushTimer, FillerInv, MainInv, Alive
  <2> QED  BY <2>2, <2>3
<1>4. CASE RacyPush
  <2>1. queue' \in Seq(Events)
    BY <1>4, PushType DEF RacyPush, Corrupt, TypeOK
  <2>2. TypeOK'
    BY <1>4, <2>1 DEF RacyPush, Corrupt, TypeOK
  <2>3. FillerInv' /\ MainInv'
    BY <1>4 DEF RacyPush, Corrupt, FillerInv, MainInv, Alive
  <2> QED  BY <2>2, <2>3
<1>5. CASE TeardownSleep
  BY <1>5 DEF TeardownSleep, TypeOK, FillerInv, MainInv, Alive
<1>6. CASE TeardownClose
  <2>1. created \in Threads /\ ~Alive(created)
    BY <1>6 DEF TeardownClose, MainInv, TypeOK, Threads
  <2>2. TypeOK'
    BY <1>6, SignalFacts DEF TeardownClose, TypeOK
  <2>3. FillerInv'
    <3> SUFFICES ASSUME NEW t \in Threads PROVE FillerInv!(t)'
      BY DEF FillerInv
    <3>1. FillerInv!(t)
      BY DEF FillerInv
    <3>2. \/ pc'[t] = pc[t]
          \/ pc[t] = "waiting" /\ pc'[t] = "signalled"
      BY <1>6, SignalFacts DEF TeardownClose
    <3>3. pc[t] = "fill" => FALSE
      BY <1>6, <3>1 DEF TeardownClose, MainInv
    <3>4. CASE t = created
      BY <1>6, <2>1, <3>1, <3>2, <3>3, <3>4 DEF TeardownClose, Alive
    <3>5. CASE t # created
      BY <1>6, <3>1, <3>2, <3>3, <3>5 DEF TeardownClose, Alive, TypeOK
    <3> QED  BY <3>4, <3>5
  <2>4. MainInv'
    BY <1>6, <2>1, ConstantFacts DEF TeardownClose, MainInv
  <2> QED  BY <2>2, <2>3, <2>4
<1>7. CASE EndLoop
  BY <1>7 DEF EndLoop, TypeOK, FillerInv, MainInv, Alive
<1> QED  BY <1>1, <1>2, <1>3, <1>4, <1>5, <1>6, <1>7 DEF MainStep

\* A launch takes the next number; the thread has its context and its file.
LEMMA LaunchInv ==
  ASSUME Inv, LaunchFiller, mpc \notin {"sleep", "close"},
         UNCHANGED <<queuelock, pushed>>
  PROVE  /\ FillerInv'
         /\ created' \in Threads
         /\ pc' \in [Threads -> {"unborn", "outer", "waiting", "signalled",
                                 "fill", "check", "lock", "dying", "dead"}]
         /\ ctx' \in [Threads -> {"none", "open", "closed"}]
<1>1. created + 1 \in Threads /\ created' = created + 1
  BY ConstantFacts DEF Inv, TypeOK, LaunchFiller, Threads
<1>2. FillerInv'
  BY <1>1, ConstantFacts DEF Inv, TypeOK, FillerInv, LaunchFiller, Alive
<1> QED  BY <1>1, <1>2 DEF Inv, TypeOK, LaunchFiller

LEMMA ClientStepInv ==
  ASSUME Inv, ClientStep
  PROVE  Inv'
<1> USE ConstantFacts DEF Inv
<1>0. FdReady => ops' \in 0 .. MaxOps /\ mpc \in {"select", "fdloop"}
  BY DEF FdReady, TypeOK
<1>1. CASE OtherFd
  BY <1>0, <1>1 DEF OtherFd, FdReady, TypeOK, FillerInv, MainInv, Alive
<1>2. CASE DownloadComplete
  <2>1. /\ LaunchFiller /\ FdReady
        /\ UNCHANGED <<queuelock, queue, armed, event, pushed, last, cancel, playing>>
        /\ downloaded' = TRUE /\ mpc' = "push"
    BY <1>2 DEF DownloadComplete
  <2>2. TypeOK'
    BY <1>0, <2>1, LaunchInv DEF TypeOK, LaunchFiller, Threads
  <2>3. FillerInv'
    BY <1>0, <2>1, LaunchInv
  <2>4. created' # 0 /\ mpc' \notin {"handle", "sleep", "close"}
    BY <1>0, <2>1, LaunchInv DEF Threads
  <2>5. MainInv'
    BY <2>4 DEF MainInv
  <2> QED  BY <2>2, <2>3, <2>5
<1>3. CASE PlayBefore
  BY <1>0, <1>3 DEF PlayBefore, FdReady, TypeOK, FillerInv, MainInv, Alive
<1>4. CASE PlayAfter
  <2>1. /\ LaunchFiller /\ FdReady
        /\ UNCHANGED <<queuelock, queue, armed, event, pushed, last, cancel, downloaded>>
        /\ playing' = TRUE /\ mpc' = "racy1"
    BY <1>4 DEF PlayAfter
  <2>2. TypeOK'
    BY <1>0, <2>1, LaunchInv DEF TypeOK, LaunchFiller, Threads
  <2>3. FillerInv'
    BY <1>0, <2>1, LaunchInv
  <2>4. created' # 0 /\ mpc' \notin {"handle", "sleep", "close"}
    BY <1>0, <2>1, LaunchInv DEF Threads
  <2>5. MainInv'
    BY <2>4 DEF MainInv
  <2> QED  BY <2>2, <2>3, <2>5
<1>5. CASE Disconnect
  BY <1>0, <1>5 DEF Disconnect, FdReady, TypeOK, FillerInv, MainInv, Alive
<1>6. CASE TeardownLock
  <2>1. TypeOK'
    BY <1>0, <1>6, EmptySeq DEF TeardownLock, TypeOK, Alive
  <2>2. FillerInv' /\ MainInv'
    BY <1>0, <1>6 DEF TeardownLock, FillerInv, MainInv, Alive
  <2> QED  BY <2>1, <2>2
<1>7. CASE TeardownUndefined
  BY <1>0, <1>7 DEF TeardownUndefined, FdReady, TypeOK, FillerInv, MainInv, Alive
<1> QED  BY <1>1, <1>2, <1>3, <1>4, <1>5, <1>6, <1>7 DEF ClientStep

LEMMA FillerStepInv ==
  ASSUME Inv, NEW t \in Threads, FillerStep(t) \/ Spurious(t)
  PROVE  Inv'
<1> USE ConstantFacts DEF Inv, At, fillervars
<1>1. CASE Wait(t)
  BY <1>1 DEF Wait, TypeOK, FillerInv, MainInv, Alive
<1>2. CASE Wakeup(t)
  BY <1>2 DEF Wakeup, TypeOK, FillerInv, MainInv, Alive
<1>3. CASE Fill(t)
  <2>1. /\ queuelock = t /\ pushed[t] < Eos
        /\ pushed[t] + 1 \in 1 .. Eos
    BY <1>3 DEF Fill, TypeOK, FillerInv
  <2>2. queue' \in Seq(Events)
    BY <1>3, <2>1, EventFacts, PushType DEF Fill, TypeOK
  <2>3. TypeOK'
    BY <1>3, <2>1, <2>2 DEF Fill, TypeOK
  <2>4. FillerInv'
    BY <1>3, <2>1 DEF Fill, TypeOK, FillerInv, Alive
  <2>5. MainInv'
    BY <1>3, <2>1 DEF Fill, MainInv, Alive, TypeOK
  <2> QED  BY <2>3, <2>4, <2>5
<1>4. CASE Check(t)
  BY <1>4 DEF Check, TypeOK, FillerInv, MainInv, Alive
<1>5. CASE Lock(t)
  BY <1>5 DEF Lock, TypeOK, FillerInv, MainInv, Alive
<1>6. CASE CancelDeliver(t)
  <2>1. /\ t = created /\ ~cancel'
        /\ pc' = [pc EXCEPT ![t] = "dead"] \/ pc' = [pc EXCEPT ![t] = "dying"]
        /\ UNCHANGED <<queuelock, queue, pushed, fillervars>>
    BY <1>6 DEF CancelDeliver
  <2>2. TypeOK' /\ pc'[t] \in {"dead", "dying"}
        /\ \A s \in Threads \ {t} : pc'[s] = pc[s]
    BY <1>6, <2>1 DEF CancelDeliver, TypeOK
  <2>3. FillerInv'
    BY <2>1, <2>2 DEF FillerInv, Alive
  <2>4. MainInv'
    BY <2>1, <2>2 DEF MainInv, Alive
  <2> QED  BY <2>2, <2>3, <2>4
<1>7. CASE DyingAcquire(t)
  BY <1>7 DEF DyingAcquire, TypeOK, FillerInv, MainInv, Alive
<1>8. CASE Spurious(t)
  BY <1>8 DEF Spurious, TypeOK, FillerInv, MainInv, Alive
<1> QED  BY <1>1, <1>2, <1>3, <1>4, <1>5, <1>6, <1>7, <1>8 DEF FillerStep

LEMMA StutterInv == Inv /\ UNCHANGED vars => Inv'
BY DEF Inv, TypeOK, FillerInv, MainInv, Alive, vars, mainvars

LEMMA Invariance == Spec => []Inv
<1>1. Inv /\ [Next]_vars => Inv'
  BY MainStepInv, ClientStepInv, FillerStepInv, StutterInv DEF Next
<1> QED  BY InitInv, <1>1, PTL DEF Spec

-----------------------------------------------------------------------------
\* Every variable of the pipeline keeps its type; no filler pushes anything
\* after ENDOFSTREAM.
THEOREM TypeCorrect == Spec => []TypeOK
BY Invariance, PTL DEF Inv

\* get_frame never reads a context that TEARDOWN has closed, however clients
\* repeat, abandon and tear down sessions and whenever threads wake up.
THEOREM ContextSafety == Spec => []CtxSafe
<1>1. Inv => CtxSafe
  BY DEF Inv, FillerInv, CtxSafe, Alive
<1> QED  BY <1>1, Invariance, PTL

\* The timeout branch of the select loop never finds the queue empty.
THEOREM TimeoutHasEvent == Spec => []TimerArmed
<1>1. Init => TimerArmed
  BY DEF Init, TimerArmed
<1>2. Inv /\ TimerArmed /\ [Next]_vars => TimerArmed'
  <2> SUFFICES ASSUME Inv, TimerArmed, [Next]_vars PROVE TimerArmed'
    OBVIOUS
  <2> USE DEF TimerArmed
  <2>1. CASE TimeoutPull \/ MainStep
    BY <2>1 DEF MainStep, TimeoutPull, TimeoutHandle, PushTimer, RacyPush,
                Corrupt, TeardownSleep, TeardownClose, EndLoop
  <2>2. CASE ClientStep
    BY <2>2 DEF ClientStep, OtherFd, DownloadComplete, PlayBefore, PlayAfter,
                Disconnect, TeardownLock, TeardownUndefined
  <2>3. ASSUME NEW t \in Threads, FillerStep(t) \/ Spurious(t)
        PROVE  TimerArmed'
    <3>1. CASE Fill(t)
      <4>1. FillerEvent(t, pushed[t] + 1) \in Events
        BY <3>1, EventFacts, ConstantFacts DEF Fill, At, Inv, TypeOK, FillerInv
      <4>2. queue' # <<>>
        BY <3>1, <4>1, PushType DEF Fill, Inv, TypeOK
      <4> QED  BY <4>2
    <3>2. CASE ~Fill(t)
      BY <2>3, <3>2 DEF FillerStep, Wait, Wakeup, Check, Lock, CancelDeliver,
                        DyingAcquire, Spurious, fillervars
    <3> QED  BY <3>1, <3>2
  <2>4. CASE UNCHANGED vars
    BY <2>4 DEF vars, mainvars
  <2> QED  BY <2>1, <2>2, <2>3, <2>4 DEF Next
<1> QED  BY <1>1, <1>2, Invariance, PTL DEF Spec

-----------------------------------------------------------------------------
(***************************************************************************)
(* Strengthenings: the frame bound, and the sessions of clients that do    *)
(* what the loop expects.                                                  *)
(***************************************************************************)

\* Threads that have found room and will push one event without looking again.
Admitted == {t \in Threads : pc[t] \in {"lock", "fill"}}
CountInv ==
  Cardinality(FillerPlaces) + Cardinality(Admitted)
    <= QUEUESIZE + created - (IF created = 0 THEN 0 ELSE 1)

\* A session has one filler, which lives while the client plays, and the queue
\* and the loop have events of that one only.
SessionInv ==
  /\ SessionIsolated
  /\ mpc = "handle" => event.th \in {MAIN, created}
  /\ \A t \in Threads : Alive(t) => t = created /\ playing
  /\ ~playing => \A i \in 1 .. Len(queue) : queue[i].th = MAIN
  /\ ~downloaded => created = 0
  /\ mpc \in {"sleep", "close"} => queue = <<>>

\* The mutex is with a filler that is inside the queue or has died there; a
\* filler is signalled only when it will find room, and not before the timers
\* of PLAY have been pushed.
LockInv ==
  /\ \A t \in Threads : queuelock = t => pc[t] \in {"fill", "dead"}
  /\ \A t \in Threads : pc[t] = "signalled" => Len(queue) < QUEUESIZE
  /\ mpc \in {"push", "racy1", "racy2"}
       => \A t \in Threads : Alive(t) => pc[t] \in {"outer", "waiting"}

\* A filler that waits, or is on its way to, has an event to be signalled by; the
\* timeout branch may hold that event, but only for a filler that waits already.
WakeupInv ==
  /\ mpc \in {"select", "fdloop"} =>
       \A t \in Threads : pc[t] \in {"outer", "waiting"} => queue # <<>>
  /\ mpc = "handle" =>
       \A t \in Threads : pc[t] = "outer" => queue # <<>>

-----------------------------------------------------------------------------
(***************************************************************************)
(* The queue, place by place.                                              *)
(***************************************************************************)

\* Inserting at i moves what is from i on by one place.
LEMMA InsertAtElements ==
  ASSUME NEW S, NEW q \in Seq(S), NEW i \in 1 .. Len(q) + 1, NEW e \in S
  PROVE  /\ InsertAt(q, i, e)[i] = e
         /\ \A j \in 1 .. Len(q) + 1 : j < i => InsertAt(q, i, e)[j] = q[j]
         /\ \A j \in 1 .. Len(q) + 1 : j > i => InsertAt(q, i, e)[j] = q[j - 1]
<1> DEFINE a == SubSeq(q, 1, i - 1)
           b == SubSeq(q, i, Len(q))
           c == a \o <<e>>
<1>0. Len(q) \in Nat /\ \A j \in 1 .. Len(q) : q[j] \in S
  BY LenProperties
<1>1. /\ a \in Seq(S) /\ Len(a) = i - 1
      /\ \A j \in 1 .. i - 1 : a[j] = q[j]
  BY <1>0, SubSeqProperties
<1>2. /\ b \in Seq(S) /\ Len(b) = Len(q) - i + 1
      /\ \A j \in 1 .. Len(q) - i + 1 : b[j] = q[i + j - 1]
  BY <1>0, SubSeqProperties
<1>3. InsertAt(q, i, e) = c \o b
  BY DEF InsertAt
<1>4. /\ <<e>> \in Seq(S) /\ Len(<<e>>) = 1 /\ <<e>>[1] = e
  OBVIOUS
<1> HIDE DEF a, b
<1>5. /\ c \in Seq(S) /\ Len(c) = i
      /\ \A j \in 1 .. i : c[j] = IF j <= i - 1 THEN a[j] ELSE <<e>>[j - (i - 1)]
  BY <1>0, <1>1, <1>4, ConcatProperties
<1> HIDE DEF c
<1>6. \A j \in 1 .. Len(q) + 1 :
         (c \o b)[j] = IF j <= i THEN c[j] ELSE b[j - i]
  BY <1>0, <1>2, <1>5, ConcatProperties
<1>7. (c \o b)[i] = e
  BY <1>0, <1>4, <1>5, <1>6
<1>8. ASSUME NEW j \in 1 .. Len(q) + 1, j < i
      PROVE  (c \o b)[j] = q[j]
  BY <1>0, <1>1, <1>5, <1>6, <1>8
<1>9. ASSUME NEW j \in 1 .. Len(q) + 1, j > i
      PROVE  (c \o b)[j] = q[j - 1]
  <2>1. j - i \in 1 .. Len(q) - i + 1 /\ i + (j - i) - 1 = j - 1
    BY <1>0, <1>9
  <2>2. b[j - i] = q[j - 1]
    BY <1>2, <2>1
  <2>3. (c \o b)[j] = IF j <= i THEN c[j] ELSE b[j - i]
    BY <1>6
  <2>4. ~(j <= i)
    BY <1>0, <1>9
  <2> QED  BY <2>2, <2>3, <2>4
<1> QED  BY <1>3, <1>7, <1>8, <1>9

\* push_event puts e at some place i and keeps the order of all others.
Pushed(e, i) ==
  /\ i \in 1 .. Len(queue) + 1
  /\ Len(queue') = Len(queue) + 1
  /\ queue'[i] = e
  /\ \A j \in 1 .. Len(queue) : j < i => queue'[j] = queue[j]
  /\ \A j \in 1 .. Len(queue) : j >= i => queue'[j + 1] = queue[j]

LEMMA PushPlaces ==
  ASSUME queue \in Seq(Events), NEW e \in Events,
         NEW i \in 1 .. Len(queue) + 1, PushAt(e, i)
  PROVE  Pushed(e, i)
<1>1. Len(queue) \in Nat
  BY LenProperties
<1>2. queue' = InsertAt(queue, i, e)
  BY DEF PushAt
<1>3. Len(queue') = Len(queue) + 1
  BY <1>2, InsertAtType
<1>4. /\ queue'[i] = e
      /\ \A j \in 1 .. Len(queue) + 1 : j < i => queue'[j] = queue[j]
      /\ \A j \in 1 .. Len(queue) + 1 : j > i => queue'[j] = queue[j - 1]
  BY <1>2, InsertAtElements
<1>5. \A j \in 1 .. Len(queue) : j < i => queue'[j] = queue[j]
  BY <1>1, <1>4
<1>6. ASSUME NEW j \in 1 .. Len(queue), j >= i
      PROVE  queue'[j + 1] = queue[j]
  <2>1. j + 1 \in 1 .. Len(queue) + 1 /\ j + 1 > i /\ (j + 1) - 1 = j
    BY <1>1, <1>6
  <2> QED  BY <1>4, <2>1
<1> QED  BY <1>3, <1>4, <1>5, <1>6 DEF Pushed

\* The places of a queue that pull_event has shortened.
LEMMA PullPlaces ==
  ASSUME queue \in Seq(Events), queue # <<>>, queue' = Tail(queue)
  PROVE  /\ Len(queue) \in Nat \ {0}
         /\ queue[1] = Head(queue)
         /\ Len(queue') = Len(queue) - 1
         /\ \A j \in 1 .. Len(queue') : queue'[j] = queue[j + 1]
<1>1. Len(queue) \in Nat \ {0}
  BY EmptySeq
<1> QED  BY <1>1, HeadTailProperties

-----------------------------------------------------------------------------
(***************************************************************************)
(* The order of a stream.                                                  *)
(***************************************************************************)

\* Each frame is to be shown after the one before it.
IncreasingPts == \A i, j \in 1 .. Len(Pts) : i < j => Pts[i] < Pts[j]

LEMMA RankIncreasing ==
  ASSUME IncreasingPts, NEW m \in 1 .. Eos, NEW n \in 1 .. Eos, m < n
  PROVE  ~(Rank(n) < Rank(m)) /\ Rank(m) < Rank(n)
<1>1. /\ Len(Pts) \in Nat /\ Eos = Len(Pts) + 1
      /\ \A k \in 1 .. Len(Pts) : Pts[k] \in Nat
  BY PtsAssumption, LenProperties DEF Eos
<1>2. m \in 1 .. Len(Pts) /\ Rank(m) = 2 * Pts[m]
  BY <1>1 DEF Rank
<1>3. CASE n = Eos
  <2>1. Len(Pts) \in 1 .. Len(Pts) /\ Pts # <<>>
    BY <1>1, <1>2, EmptySeq
  <2>2. Rank(n) = 2 * Pts[Len(Pts)] + 1
    BY <1>1, <1>3, <2>1 DEF Rank
  <2>3. Pts[m] \in Nat /\ Pts[Len(Pts)] \in Nat
    BY <1>1, <1>2, <2>1
  <2>4. m = Len(Pts) \/ Pts[m] < Pts[Len(Pts)]
    BY <1>1, <1>2, <2>1 DEF IncreasingPts
  <2>5. Pts[m] <= Pts[Len(Pts)]
    BY <2>3, <2>4
  <2> QED  BY <1>2, <2>2, <2>3, <2>5
<1>4. CASE n # Eos
  <2>1. n \in 1 .. Len(Pts) /\ Rank(n) = 2 * Pts[n]
    BY <1>1, <1>4 DEF Rank
  <2>2. Pts[m] \in Nat /\ Pts[n] \in Nat /\ Pts[m] < Pts[n]
    BY <1>1, <1>2, <2>1 DEF IncreasingPts
  <2> QED  BY <1>2, <2>1, <2>2
<1> QED  BY <1>3, <1>4

\* A push leaves the streams of all others as they are.
LEMMA PushOther ==
  ASSUME queue \in Seq(Events), NEW e, NEW i, Pushed(e, i),
         NEW t \in Threads, InOrder(t), t # e.th,
         last'[t] = last[t], pushed'[t] = pushed[t]
  PROVE  InOrder(t)'
<1>0. Len(queue) \in Nat
  BY LenProperties
<1> DEFINE P == 1 .. Len(queue)
           old(k) == IF k < i THEN k ELSE k - 1
<1>1. ASSUME NEW k \in 1 .. Len(queue'), queue'[k].th = t
      PROVE  old(k) \in P /\ k # i /\ queue'[k] = queue[old(k)]
  <2>1. k # i
    BY <1>1 DEF Pushed
  <2>2. CASE k < i
    BY <1>0, <2>2 DEF Pushed
  <2>3. CASE k > i
    <3>1. k - 1 \in P /\ k - 1 >= i /\ (k - 1) + 1 = k
      BY <1>0, <1>1, <2>3 DEF Pushed
    <3>2. queue'[(k - 1) + 1] = queue[k - 1]
      BY <3>1 DEF Pushed
    <3> QED  BY <1>0, <2>3, <3>1, <3>2 DEF Pushed
  <2> QED  BY <1>0, <2>1, <2>2, <2>3 DEF Pushed
<1>2. \A j \in P : queue[j].th = t => queue[j].n \in last[t] + 1 .. pushed[t]
  BY DEF InOrder, PlacesOf
<1>3. \A j, k \in P : queue[j].th = t /\ queue[k].th = t /\ j < k
                         => queue[j].n < queue[k].n
  BY DEF InOrder, PlacesOf
<1>4. \A k \in 1 .. Len(queue') :
         queue'[k].th = t => queue'[k].n \in last'[t] + 1 .. pushed'[t]
  BY <1>1, <1>2
<1>5. \A j, k \in 1 .. Len(queue') :
         queue'[j].th = t /\ queue'[k].th = t /\ j < k
           => queue'[j].n < queue'[k].n
  <2> SUFFICES ASSUME NEW j \in 1 .. Len(queue'), NEW k \in 1 .. Len(queue'),
                      queue'[j].th = t, queue'[k].th = t, j < k
               PROVE  queue'[j].n < queue'[k].n
    OBVIOUS
  <2>1. old(j) \in P /\ queue'[j] = queue[old(j)] /\ j # i
    BY <1>1
  <2>2. old(k) \in P /\ queue'[k] = queue[old(k)] /\ k # i
    BY <1>1
  <2>3. old(j) < old(k)
    BY <1>0, <2>1, <2>2 DEF Pushed
  <2> HIDE DEF old
  <2> QED  BY <1>3, <2>1, <2>2, <2>3
<1>6. ASSUME NEW n \in last'[t] + 1 .. pushed'[t]
      PROVE  \E k \in 1 .. Len(queue') : queue'[k].th = t /\ queue'[k].n = n
  <2>1. PICK j \in P : queue[j].th = t /\ queue[j].n = n
    BY <1>6 DEF InOrder, PlacesOf
  <2>2. CASE j < i
    <3>1. j \in 1 .. Len(queue') /\ queue'[j] = queue[j]
      BY <1>0, <2>2 DEF Pushed
    <3> QED  BY <2>1, <3>1
  <2>3. CASE j >= i
    <3>1. j + 1 \in 1 .. Len(queue') /\ queue'[j + 1] = queue[j]
      BY <1>0, <2>3 DEF Pushed
    <3> QED  BY <2>1, <3>1
  <2> QED  BY <1>0, <2>2, <2>3 DEF Pushed
<1> QED  BY <1>4, <1>5, <1>6 DEF InOrder, PlacesOf

\* A filler's next event goes behind all others of its stream.
LEMMA PushOwn ==
  ASSUME Inv, IncreasingPts, NEW t \in Threads, Fill(t), InOrder(t)
  PROVE  InOrder(t)'
<1> DEFINE m == pushed[t] + 1
           e == FillerEvent(t, m)
           P == 1 .. Len(queue)
<1>1. /\ queue \in Seq(Events) /\ Len(queue) \in Nat /\ last[t] <= m
      /\ m \in 1 .. Eos /\ pushed[t] \in Nat /\ last[t] \in Nat
      /\ pushed'[t] = m /\ last'[t] = last[t] /\ Eos \in Nat
  <2>1. queue \in Seq(Events) /\ Len(queue) \in Nat
    BY LenProperties DEF Inv, TypeOK
  <2>2. pushed[t] \in 0 .. Eos /\ last[t] \in 0 .. Eos /\ pushed[t] < Eos
    BY DEF Inv, TypeOK, FillerInv, Fill, At
  <2>3. pushed'[t] = m /\ last'[t] = last[t] /\ last[t] <= pushed[t]
    BY DEF Fill, fillervars, Inv, TypeOK, InOrder
  <2> QED  BY <2>1, <2>2, <2>3, ConstantFacts
<1>2. e.th = t /\ e.n = m /\ t # MAIN /\ e \in Events
  BY <1>1, ConstantFacts, EventFacts DEF FillerEvent
<1>3. PICK i \in 1 .. Len(queue) + 1 : PushAt(e, i)
  BY DEF Fill, push_event
<1>4. Pushed(e, i)
  BY <1>1, <1>2, <1>3, PushPlaces
<1>5. /\ \A j \in P : queue[j].th = t => queue[j].n \in last[t] + 1 .. pushed[t]
      /\ \A j, k \in P : queue[j].th = t /\ queue[k].th = t /\ j < k
                         => queue[j].n < queue[k].n
  BY DEF InOrder, PlacesOf
<1>6. ASSUME NEW j \in P, queue[j].th = t
      PROVE  j < i
  <2>1. queue[j].n \in 1 .. Eos /\ queue[j].n < m
    BY <1>1, <1>5, <1>6
  <2>2. Rank(queue[j].n) < Rank(m)
    BY <1>1, <2>1, RankIncreasing
  <2> HIDE DEF e, m
  <2> QED  BY <1>2, <1>3, <1>6, <2>2 DEF PushAt
<1> HIDE DEF e, m
<1>7. ASSUME NEW k \in 1 .. Len(queue'), queue'[k].th = t
      PROVE  \/ k = i /\ queue'[k].n = m
             \/ k \in P /\ k < i /\ queue'[k] = queue[k]
  <2>1. CASE k = i
    BY <1>2, <1>4, <2>1 DEF Pushed
  <2>2. CASE k < i
    BY <1>1, <1>4, <2>2 DEF Pushed
  <2>3. CASE k > i
    <3>1. k - 1 \in P /\ k - 1 >= i /\ (k - 1) + 1 = k
      BY <1>1, <1>4, <1>7, <2>3 DEF Pushed
    <3>2. queue'[(k - 1) + 1] = queue[k - 1]
      BY <1>4, <3>1 DEF Pushed
    <3>3. queue[k - 1].th = t
      BY <1>7, <3>1, <3>2
    <3>4. k - 1 < i
      BY <1>6, <3>1, <3>3
    <3> QED  BY <3>1, <3>4
  <2> QED  BY <1>1, <1>4, <2>1, <2>2, <2>3 DEF Pushed
<1>8. \A k \in 1 .. Len(queue') :
         queue'[k].th = t => queue'[k].n \in last'[t] + 1 .. pushed'[t]
  <2> SUFFICES ASSUME NEW k \in 1 .. Len(queue'), queue'[k].th = t
               PROVE  queue'[k].n \in last'[t] + 1 .. pushed'[t]
    OBVIOUS
  <2>1. CASE k = i /\ queue'[k].n = m
    <3>1. last[t] + 1 <= m
      BY <1>1 DEF m, InOrder
    <3> QED  BY <1>1, <2>1, <3>1
  <2>2. CASE k \in P /\ queue'[k] = queue[k]
    BY <1>1, <1>5, <2>2 DEF m
  <2> QED  BY <1>7, <2>1, <2>2
<1>9. \A j, k \in 1 .. Len(queue') :
         queue'[j].th = t /\ queue'[k].th = t /\ j < k
           => queue'[j].n < queue'[k].n
  <2> SUFFICES ASSUME NEW j \in 1 .. Len(queue'), NEW k \in 1 .. Len(queue'),
                      queue'[j].th = t, queue'[k].th = t, j < k
               PROVE  queue'[j].n < queue'[k].n
    OBVIOUS
  <2>1. \/ j = i
        \/ j \in P /\ j < i /\ queue'[j] = queue[j]
    BY <1>7
  <2>2. \/ k = i /\ queue'[k].n = m
        \/ k \in P /\ k < i /\ queue'[k] = queue[k]
    BY <1>7
  <2>3. j \in P /\ queue'[j] = queue[j]
    BY <2>1, <2>2
  <2>4. queue[j].n \in last[t] + 1 .. pushed[t]
    BY <1>5, <2>3
  <2>5. queue[j].n < m
    BY <1>1, <2>4 DEF m
  <2>6. CASE k = i /\ queue'[k].n = m
    BY <2>3, <2>5, <2>6
  <2>7. CASE k \in P /\ queue'[k] = queue[k]
    BY <1>5, <2>3, <2>7
  <2> QED  BY <2>2, <2>6, <2>7
<1>10. ASSUME NEW n \in last'[t] + 1 .. pushed'[t]
       PROVE  \E k \in 1 .. Len(queue') : queue'[k].th = t /\ queue'[k].n = n
  <2>1. CASE n = m
    <3>1. i \in 1 .. Len(queue') /\ queue'[i] = e
      BY <1>1, <1>4 DEF Pushed
    <3> QED  BY <1>2, <2>1, <3>1
  <2>2. CASE n # m
    <3>1. n \in last[t] + 1 .. pushed[t]
      BY <1>1, <1>10, <2>2 DEF m
    <3>2. PICK j \in P : queue[j].th = t /\ queue[j].n = n
      BY <3>1 DEF InOrder, PlacesOf
    <3>3. j < i
      BY <1>6, <3>2
    <3>4. j \in 1 .. Len(queue') /\ queue'[j] = queue[j]
      BY <1>1, <1>4, <3>3 DEF Pushed
    <3> QED  BY <3>2, <3>4
  <2> QED  BY <2>1, <2>2
<1> QED  BY <1>1, <1>8, <1>9, <1>10 DEF InOrder, PlacesOf

\* The event pulled is the next of its stream; other streams stay as they are.
LEMMA PullInOrder ==
  ASSUME Inv, TimeoutPull, StreamInOrder, NEW t \in Threads
  PROVE  InOrder(t)'
<1> DEFINE P == 1 .. Len(queue)
<1>1. queue \in Seq(Events) /\ queue # <<>> /\ queue' = Tail(queue)
  BY DEF TimeoutPull, Inv, TypeOK
<1>2. /\ Len(queue) \in Nat \ {0} /\ queue[1] = event'
      /\ Len(queue') = Len(queue) - 1
      /\ \A j \in 1 .. Len(queue') : queue'[j] = queue[j + 1]
  BY <1>1, PullPlaces DEF TimeoutPull
<1>3. /\ last[t] \in Nat /\ pushed[t] \in Nat /\ last[t] <= pushed[t]
      /\ pushed' = pushed /\ last \in [Threads -> 0 .. Eos] /\ Eos \in Nat
      /\ t # MAIN /\ 1 \in P
  BY <1>2, ConstantFacts DEF TimeoutPull, Inv, TypeOK, StreamInOrder, InOrder
<1>4. /\ \A j \in P : queue[j].th = t => queue[j].n \in last[t] + 1 .. pushed[t]
      /\ \A j, k \in P : queue[j].th = t /\ queue[k].th = t /\ j < k
                         => queue[j].n < queue[k].n
      /\ \A n \in last[t] + 1 .. pushed[t] :
            \E j \in P : queue[j].th = t /\ queue[j].n = n
  BY DEF StreamInOrder, InOrder, PlacesOf
<1>5. \/ queue[1].th = t /\ queue[1].n = last[t] + 1 /\ last'[t] = last[t] + 1
      \/ queue[1].th # t /\ last'[t] = last[t]
  <2>1. CASE queue[1].th = t
    <3>1. queue[1].n \in last[t] + 1 .. pushed[t]
      BY <1>3, <1>4, <2>1
    <3>2. PICK j \in P : queue[j].th = t /\ queue[j].n = last[t] + 1
      BY <1>3, <1>4, <3>1
    <3>3. j = 1
      <4> SUFFICES ASSUME j # 1 PROVE FALSE
        OBVIOUS
      <4>1. 1 < j
        BY <1>2
      <4>2. queue[1].n < last[t] + 1
        BY <1>3, <1>4, <2>1, <3>2, <4>1
      <4> QED  BY <1>3, <3>1, <4>2
    <3>4. event'.th # MAIN /\ last' = [last EXCEPT ![event'.th] = event'.n]
      BY <1>2, <1>3, <2>1 DEF TimeoutPull
    <3>5. last'[t] = queue[1].n
      BY <1>2, <1>3, <2>1, <3>4
    <3> QED  BY <2>1, <3>2, <3>3, <3>5
  <2>2. CASE queue[1].th # t
    BY <1>2, <1>3, <2>2 DEF TimeoutPull
  <2> QED  BY <2>1, <2>2
<1>6. ASSUME NEW j \in 1 .. Len(queue')
      PROVE  j + 1 \in P /\ 1 < j + 1 /\ queue'[j] = queue[j + 1]
  BY <1>2
<1>7. ASSUME NEW j \in 1 .. Len(queue'), queue'[j].th = t
      PROVE  queue'[j].n \in last'[t] + 1 .. pushed'[t]
  <2>1. /\ j + 1 \in P /\ 1 < j + 1 /\ queue'[j] = queue[j + 1]
        /\ queue[j + 1].th = t
    BY <1>6, <1>7
  <2>2. queue'[j].n \in last[t] + 1 .. pushed[t]
    BY <1>4, <2>1
  <2>3. CASE queue[1].th = t
    <3>1. queue[1].n < queue'[j].n
      BY <1>3, <1>4, <2>1, <2>3
    <3> QED  BY <1>3, <1>5, <2>2, <2>3, <3>1
  <2>4. CASE queue[1].th # t
    BY <1>3, <1>5, <2>2, <2>4
  <2> QED  BY <2>3, <2>4
<1>8. ASSUME NEW j \in 1 .. Len(queue'), NEW k \in 1 .. Len(queue'),
             queue'[j].th = t, queue'[k].th = t, j < k
      PROVE  queue'[j].n < queue'[k].n
  <2>1. j + 1 \in P /\ queue'[j] = queue[j + 1]
    BY <1>6
  <2>2. k + 1 \in P /\ queue'[k] = queue[k + 1]
    BY <1>6
  <2>3. j + 1 < k + 1
    BY <1>8
  <2> QED  BY <1>4, <1>8, <2>1, <2>2, <2>3
<1>9. ASSUME NEW n \in last'[t] + 1 .. pushed'[t]
      PROVE  \E j \in 1 .. Len(queue') : queue'[j].th = t /\ queue'[j].n = n
  <2>1. n \in last[t] + 1 .. pushed[t]
    BY <1>3, <1>5, <1>9
  <2>2. PICK j \in P : queue[j].th = t /\ queue[j].n = n
    BY <1>4, <2>1
  <2>3. j # 1
    BY <1>3, <1>5, <1>9, <2>2
  <2>4. j - 1 \in 1 .. Len(queue') /\ (j - 1) + 1 = j
    BY <1>2, <2>3
  <2>5. queue'[j - 1] = queue[j]
    BY <1>2, <2>4
  <2> QED  BY <2>2, <2>4, <2>5
<1>10. last'[t] <= pushed'[t]
  BY <1>3, <1>4, <1>5
<1> QED  BY <1>7, <1>8, <1>9, <1>10 DEF InOrder, PlacesOf

LEMMA InitInOrder == Init => StreamInOrder
<1> SUFFICES ASSUME Init, NEW t \in Threads PROVE InOrder(t)
  BY DEF StreamInOrder
<1>1. Len(queue) = 0 /\ last[t] = 0 /\ pushed[t] = 0
  BY EmptySeq DEF Init
<1> QED  BY <1>1 DEF InOrder, PlacesOf

\* Steps that leave the queue alone, or empty it.
LEMMA SameInOrder ==
  ASSUME StreamInOrder, UNCHANGED <<queue, last, pushed>>
  PROVE  StreamInOrder'
BY DEF StreamInOrder, InOrder, PlacesOf

LEMMA EmptiedInOrder ==
  ASSUME Inv, TeardownLock
  PROVE  StreamInOrder'
<1> SUFFICES ASSUME NEW t \in Threads PROVE InOrder(t)'
  BY DEF StreamInOrder
<1>1. Len(queue') = 0 /\ last'[t] = pushed[t] /\ pushed'[t] = pushed[t]
      /\ pushed[t] \in Nat
  BY EmptySeq, ConstantFacts DEF TeardownLock, Inv, TypeOK
<1> QED  BY <1>1 DEF InOrder, PlacesOf

\* A timer is of no stream.
LEMMA TimerInOrder ==
  ASSUME Inv, StreamInOrder, push_event(TimerEvent), UNCHANGED <<last, pushed>>
  PROVE  StreamInOrder'
<1> SUFFICES ASSUME NEW t \in Threads PROVE InOrder(t)'
  BY DEF StreamInOrder
<1>1. queue \in Seq(Events) /\ TimerEvent \in Events /\ TimerEvent.th # t
  BY EventFacts, ConstantFacts DEF Inv, TypeOK, TimerEvent
<1>2. PICK i \in 1 .. Len(queue) + 1 : PushAt(TimerEvent, i)
  BY DEF push_event
<1>3. Pushed(TimerEvent, i)
  BY <1>1, <1>2, PushPlaces
<1> QED  BY <1>1, <1>3, PushOther DEF StreamInOrder

LEMMA FillInOrder ==
  ASSUME Inv, IncreasingPts, StreamInOrder, NEW s \in Threads, Fill(s)
  PROVE  StreamInOrder'
<1> SUFFICES ASSUME NEW t \in Threads PROVE InOrder(t)'
  BY DEF StreamInOrder
<1>1. CASE s = t
  BY <1>1, PushOwn DEF StreamInOrder
<1>2. CASE s # t
  <2> DEFINE e == FillerEvent(s, pushed[s] + 1)
  <2>1. pushed[s] + 1 \in 1 .. Eos
    BY ConstantFacts DEF Inv, TypeOK, FillerInv, Fill, At
  <2>2. queue \in Seq(Events) /\ e \in Events /\ t # e.th
    BY <1>2, <2>1, EventFacts DEF Inv, TypeOK, FillerEvent
  <2>3. PICK i \in 1 .. Len(queue) + 1 : PushAt(e, i)
    BY DEF Fill, push_event
  <2>4. last'[t] = last[t] /\ pushed'[t] = pushed[t]
    BY <1>2 DEF Fill, fillervars, Inv, TypeOK
  <2>5. Pushed(e, i)
    BY <2>2, <2>3, PushPlaces
  <2> HIDE DEF e
  <2> QED  BY <2>2, <2>4, <2>5, PushOther DEF StreamInOrder
<1> QED  BY <1>1, <1>2

\* For a file whose stamps increase, the frames of every filler leave the queue
\* in file order, none lost, doubled or overtaken, for any number of fillers,
\* however they interleave and whatever clients do: push_event inserts behind
\* the earlier events, and ENDOFSTREAM is later than every frame.
THEOREM FramesLeaveInOrder ==
  ASSUME IncreasingPts
  PROVE  Spec => []StreamInOrder
<1>1. Inv /\ StreamInOrder /\ [Next]_vars => StreamInOrder'
  <2> SUFFICES ASSUME Inv, StreamInOrder, [Next]_vars PROVE StreamInOrder'
    OBVIOUS
  <2>1. CASE TimeoutPull
    BY <2>1, PullInOrder DEF StreamInOrder
  <2>2. CASE MainStep
    BY <2>2, SameInOrder, TimerInOrder
       DEF MainStep, TimeoutHandle, PushTimer, RacyPush, Corrupt, TeardownSleep,
           TeardownClose, EndLoop
  <2>3. CASE ClientStep
    BY <2>3, SameInOrder, EmptiedInOrder
       DEF ClientStep, OtherFd, DownloadComplete, PlayBefore, PlayAfter,
           Disconnect, TeardownUndefined
  <2>4. ASSUME NEW t \in Threads, FillerStep(t) \/ Spurious(t)
        PROVE  StreamInOrder'
    BY <2>4, SameInOrder, FillInOrder
       DEF FillerStep, Wait, Wakeup, Check, Lock, CancelDeliver, DyingAcquire,
           Spurious, fillervars
  <2>5. CASE UNCHANGED vars
    BY <2>5, SameInOrder DEF vars, mainvars
  <2> QED  BY <2>1, <2>2, <2>3, <2>4, <2>5 DEF Next
<1> QED  BY <1>1, InitInOrder, Invariance, PTL DEF Spec

-----------------------------------------------------------------------------
(***************************************************************************)
(* The frame bound.                                                        *)
(***************************************************************************)
LEMMA CountFacts ==
  ASSUME Inv
  PROVE  /\ IsFiniteSet(FillerPlaces) /\ IsFiniteSet(Admitted)
         /\ Cardinality(FillerPlaces) \in Nat
         /\ Cardinality(FillerPlaces) <= Len(queue)
         /\ Cardinality(Admitted) \in Nat
         /\ Cardinality(Admitted) <= created
         /\ Len(queue) \in Nat /\ created \in Nat
<1>1. Len(queue) \in Nat /\ created \in Nat
  BY ConstantFacts, LenProperties DEF Inv, TypeOK
<1>2. /\ \A n \in Nat : IsFiniteSet(1 .. n) /\ Cardinality(1 .. n) = n
  <2> SUFFICES ASSUME NEW n \in Nat
               PROVE  IsFiniteSet(1 .. n) /\ Cardinality(1 .. n) = n
    OBVIOUS
  <2>1. /\ IsFiniteSet(1 .. n)
        /\ Cardinality(1 .. n) = IF 1 > n THEN 0 ELSE n - 1 + 1
    BY FS_Interval
  <2> QED  BY <2>1
<1>3. FillerPlaces \in SUBSET (1 .. Len(queue))
  BY DEF FillerPlaces
<1>4. Admitted \in SUBSET (1 .. created)
  BY <1>1, ConstantFacts DEF Admitted, Threads, Inv, FillerInv
<1>5. /\ IsFiniteSet(FillerPlaces) /\ Cardinality(FillerPlaces) <= Len(queue)
  <2>1. /\ IsFiniteSet(1 .. Len(queue))
        /\ Cardinality(1 .. Len(queue)) = Len(queue)
    BY <1>1, <1>2
  <2> QED  BY <1>3, <2>1, FS_Subset
<1>6. /\ IsFiniteSet(Admitted) /\ Cardinality(Admitted) <= created
  <2>1. IsFiniteSet(1 .. created) /\ Cardinality(1 .. created) = created
    BY <1>1, <1>2
  <2> QED  BY <1>4, <2>1, FS_Subset
<1> QED  BY <1>1, <1>5, <1>6, FS_CardinalityType

\* A push adds at most the event pushed; a timer adds nothing.
LEMMA PushCount ==
  ASSUME Inv, NEW e \in Events, push_event(e)
  PROVE  /\ IsFiniteSet(FillerPlaces') /\ Cardinality(FillerPlaces') \in Nat
         /\ Cardinality(FillerPlaces') <= Cardinality(FillerPlaces) + 1
         /\ e.th = MAIN => Cardinality(FillerPlaces') <= Cardinality(FillerPlaces)
<1>1. queue \in Seq(Events) /\ Len(queue) \in Nat
  BY LenProperties DEF Inv, TypeOK
<1>2. PICK i \in 1 .. Len(queue) + 1 : PushAt(e, i)
  BY DEF push_event
<1>3. Pushed(e, i)
  BY <1>1, <1>2, PushPlaces
<1> DEFINE T == FillerPlaces' \ {i}
           f == [k \in T |-> IF k < i THEN k ELSE k - 1]
<1>4. ASSUME NEW k \in T
      PROVE  f[k] \in FillerPlaces
  <2>1. /\ k \in 1 .. Len(queue') /\ queue'[k].th # MAIN /\ k # i
    BY DEF FillerPlaces
  <2>2. CASE k < i
    BY <1>1, <1>3, <2>1, <2>2 DEF Pushed, FillerPlaces
  <2>3. CASE k > i
    <3>1. k - 1 \in 1 .. Len(queue) /\ k - 1 >= i /\ (k - 1) + 1 = k
      BY <1>1, <1>3, <2>1, <2>3 DEF Pushed
    <3>2. queue'[(k - 1) + 1] = queue[k - 1]
      BY <1>3, <3>1 DEF Pushed
    <3>3. f[k] = k - 1
      BY <1>1, <2>1, <2>3
    <3> QED  BY <2>1, <3>1, <3>2, <3>3 DEF FillerPlaces
  <2> QED  BY <1>1, <1>3, <2>1, <2>2, <2>3 DEF Pushed
<1>5. \A j, k \in T : f[j] = f[k] => j = k
  <2>1. \A k \in T : k \in Nat /\ k # i
    BY <1>1, <1>3 DEF Pushed, FillerPlaces
  <2> QED  BY <1>1, <2>1
<1>6. f \in Injection(T, FillerPlaces)
  <2>1. f \in [T -> FillerPlaces]
    BY <1>4
  <2> HIDE DEF f, T
  <2> QED  BY <1>5, <2>1, Fun_IsInj
<1>7. IsFiniteSet(T) /\ Cardinality(T) <= Cardinality(FillerPlaces)
  BY <1>6, CountFacts, FS_Injection
<1>8. Cardinality(T) \in Nat /\ Cardinality(FillerPlaces) \in Nat
  BY <1>7, CountFacts, FS_CardinalityType
<1> HIDE DEF T, f
<1>9. CASE i \in FillerPlaces'
  <2>1. FillerPlaces' = T \cup {i} /\ i \notin T
    BY <1>9 DEF T
  <2>2. IsFiniteSet(T \cup {i}) /\ Cardinality(T \cup {i}) = Cardinality(T) + 1
    BY <1>7, <2>1, FS_AddElement
  <2>3. e.th # MAIN
    BY <1>3, <1>9 DEF FillerPlaces, Pushed
  <2> QED  BY <1>7, <1>8, <2>1, <2>2, <2>3
<1>10. CASE i \notin FillerPlaces'
  <2>1. FillerPlaces' = T
    BY <1>10 DEF T
  <2> QED  BY <1>7, <1>8, <2>1
<1> QED  BY <1>9, <1>10

LEMMA PullCount ==
  ASSUME Inv, queue # <<>>, queue' = Tail(queue)
  PROVE  /\ Cardinality(FillerPlaces') \in Nat
         /\ Cardinality(FillerPlaces') <= Cardinality(FillerPlaces)
<1>1. /\ Len(queue) \in Nat \ {0}
      /\ Len(queue') = Len(queue) - 1
      /\ \A j \in 1 .. Len(queue') : queue'[j] = queue[j + 1]
  BY PullPlaces DEF Inv, TypeOK
<1> DEFINE T == FillerPlaces'
           f == [k \in T |-> k + 1]
<1>2. f \in [T -> FillerPlaces]
  BY <1>1 DEF FillerPlaces
<1>3. \A j, k \in T : f[j] = f[k] => j = k
  BY <1>1 DEF FillerPlaces
<1> HIDE DEF f, T
<1>4. f \in Injection(T, FillerPlaces)
  BY <1>2, <1>3, Fun_IsInj
<1>5. IsFiniteSet(T) /\ Cardinality(T) <= Cardinality(FillerPlaces)
  BY <1>4, CountFacts, FS_Injection
<1>6. Cardinality(T) \in Nat
  BY <1>5, FS_CardinalityType
<1> QED  BY <1>5, <1>6 DEF T

LEMMA NextCountFacts ==
  Inv' => (/\ IsFiniteSet(Admitted) /\ Cardinality(Admitted) \in Nat
           /\ Cardinality(Admitted) <= created)'
<1>1. Inv => /\ IsFiniteSet(Admitted) /\ Cardinality(Admitted) \in Nat
             /\ Cardinality(Admitted) <= created
  BY CountFacts
<1> QED  BY <1>1, PTL

\* A filler that has been admitted counts once: as admitted, then as a frame.
LEMMA AdmittedCount ==
  ASSUME Inv, Inv'
  PROVE  /\ Cardinality(Admitted') \in Nat /\ Cardinality(Admitted') <= created'
         /\ Admitted' \subseteq Admitted =>
              Cardinality(Admitted') <= Cardinality(Admitted)
         /\ \A t \in Admitted : Admitted' = Admitted \ {t} =>
              Cardinality(Admitted') = Cardinality(Admitted) - 1
<1>1. /\ IsFiniteSet(Admitted') /\ Cardinality(Admitted') \in Nat
      /\ Cardinality(Admitted') <= created'
  BY NextCountFacts
<1>2. IsFiniteSet(Admitted)
  BY CountFacts
<1> QED  BY <1>1, <1>2, FS_Subset, FS_RemoveElement

\* Steps that admit no filler.
LEMMA NoneAdmitted ==
  ASSUME Inv, Inv', CountInv,
         Cardinality(FillerPlaces') \in Nat,
         Cardinality(FillerPlaces') <= Cardinality(FillerPlaces),
         Admitted' \subseteq Admitted,
         created' \in {created, created + 1}
  PROVE  CountInv'
<1>1. /\ Cardinality(FillerPlaces) \in Nat /\ Cardinality(Admitted) \in Nat
      /\ created \in Nat
  BY CountFacts
<1>2. /\ Cardinality(Admitted') \in Nat
      /\ Cardinality(Admitted') <= Cardinality(Admitted)
  BY AdmittedCount
<1> QED  BY <1>1, <1>2, SizesAssumption DEF CountInv

\* A filler is admitted when it has seen room: all of them may have.
LEMMA OneAdmitted ==
  ASSUME Inv, Inv', Len(queue) < QUEUESIZE, queue' = queue,
         created' = created, NEW t \in Threads, Alive(t)
  PROVE  CountInv'
<1>1. /\ Cardinality(FillerPlaces) \in Nat
      /\ Cardinality(FillerPlaces) <= Len(queue)
      /\ created \in Nat /\ Len(queue) \in Nat
  BY CountFacts
<1>2. FillerPlaces' = FillerPlaces
  BY DEF FillerPlaces
<1>3. Cardinality(Admitted') \in Nat /\ Cardinality(Admitted') <= created
  BY AdmittedCount
<1>4. created # 0
  BY <1>1, ConstantFacts DEF Inv, FillerInv, Alive, Threads
<1> QED  BY <1>1, <1>2, <1>3, <1>4, SizesAssumption DEF CountInv

LEMMA SignalCount ==
  ASSUME Inv, CondSignal \/ pc' = pc
  PROVE  Admitted' \subseteq Admitted
<1>1. \A t \in Threads : \/ pc'[t] = pc[t]
                         \/ pc[t] = "waiting" /\ pc'[t] = "signalled"
  BY SignalFacts DEF Inv
<1> QED  BY <1>1 DEF Admitted

LEMMA MainCount ==
  ASSUME Inv, Inv', CountInv, TimeoutPull \/ MainStep
  PROVE  CountInv'
<1>0. Cardinality(FillerPlaces) \in Nat /\ created \in Nat
  BY CountFacts
<1>1. created' = created
  BY DEF TimeoutPull, MainStep, TimeoutHandle, PushTimer, RacyPush,
         TeardownSleep, TeardownClose, EndLoop
<1>2. CondSignal \/ pc' = pc
  BY DEF TimeoutPull, MainStep, TimeoutHandle, PushTimer, RacyPush,
         TeardownSleep, TeardownClose, EndLoop
<1>3. Admitted' \subseteq Admitted
  BY <1>2, SignalCount
<1>4. \/ push_event(TimerEvent)
      \/ queue' = queue
      \/ queue # <<>> /\ queue' = Tail(queue)
  BY DEF TimeoutPull, MainStep, TimeoutHandle, PushTimer, RacyPush, Corrupt,
         TeardownSleep, TeardownClose, EndLoop
<1>5. /\ Cardinality(FillerPlaces') \in Nat
      /\ Cardinality(FillerPlaces') <= Cardinality(FillerPlaces)
  <2>1. CASE push_event(TimerEvent)
    <3>1. TimerEvent \in Events /\ TimerEvent.th = MAIN
      BY EventFacts DEF TimerEvent
    <3> QED  BY <2>1, <3>1, PushCount
  <2>2. CASE queue' = queue
    <3>1. FillerPlaces' = FillerPlaces
      BY <2>2 DEF FillerPlaces
    <3> QED  BY <1>0, <3>1
  <2>3. CASE queue # <<>> /\ queue' = Tail(queue)
    BY <2>3, PullCount
  <2> QED  BY <1>4, <2>1, <2>2, <2>3
<1> QED  BY <1>1, <1>3, <1>5, NoneAdmitted

LEMMA ClientCount ==
  ASSUME Inv, Inv', CountInv, ClientStep
  PROVE  CountInv'
<1>0. /\ Cardinality(FillerPlaces) \in Nat /\ created \in Nat
  BY CountFacts
<1>1. \/ queue' = queue
      \/ queue' = <<>>
  BY DEF ClientStep, OtherFd, DownloadComplete, PlayBefore, PlayAfter,
         Disconnect, TeardownLock, TeardownUndefined
<1>2. \/ pc' = pc /\ created' = created
      \/ LaunchFiller
  BY DEF ClientStep, OtherFd, DownloadComplete, PlayBefore, PlayAfter,
         Disconnect, TeardownLock, TeardownUndefined
<1>3. created' \in {created, created + 1}
  BY <1>2 DEF LaunchFiller
<1>4. Admitted' \subseteq Admitted
  BY <1>2 DEF Admitted, LaunchFiller, Inv, TypeOK
<1>5. /\ Cardinality(FillerPlaces') \in Nat
      /\ Cardinality(FillerPlaces') <= Cardinality(FillerPlaces)
  <2>1. CASE queue' = queue
    <3>1. FillerPlaces' = FillerPlaces
      BY <2>1 DEF FillerPlaces
    <3> QED  BY <1>0, <3>1
  <2>2. CASE queue' = <<>>
    <3>1. FillerPlaces' = {}
      BY <2>2, EmptySeq DEF FillerPlaces
    <3>2. Cardinality({}) = 0
      BY FS_EmptySet
    <3> QED  BY <1>0, <3>1, <3>2
  <2> QED  BY <1>1, <2>1, <2>2
<1> QED  BY <1>3, <1>4, <1>5, NoneAdmitted

LEMMA FillerCount ==
  ASSUME Inv, Inv', CountInv, NEW t \in Threads, FillerStep(t) \/ Spurious(t)
  PROVE  CountInv'
<1>0. /\ Cardinality(FillerPlaces) \in Nat /\ created \in Nat
      /\ Cardinality(Admitted) \in Nat
  BY CountFacts
<1>1. CASE Fill(t)
  <2>1. created' = created /\ push_event(FillerEvent(t, pushed[t] + 1))
    BY <1>1 DEF Fill, fillervars
  <2>2. FillerEvent(t, pushed[t] + 1) \in Events
    BY <1>1, EventFacts, ConstantFacts DEF Fill, At, Inv, TypeOK, FillerInv
  <2>3. /\ Cardinality(FillerPlaces') \in Nat
        /\ Cardinality(FillerPlaces') <= Cardinality(FillerPlaces) + 1
    BY <2>1, <2>2, PushCount
  <2>4. t \in Admitted /\ Admitted' = Admitted \ {t}
    BY <1>1 DEF Fill, At, Admitted, Inv, TypeOK
  <2>5. Cardinality(Admitted') = Cardinality(Admitted) - 1
    BY <2>4, AdmittedCount
  <2> QED  BY <1>0, <2>1, <2>3, <2>5, SizesAssumption DEF CountInv
<1>2. CASE ~Fill(t)
  <2>1. /\ queue' = queue /\ created' = created
    BY <1>2 DEF FillerStep, Wait, Wakeup, Check, Lock, CancelDeliver,
                DyingAcquire, Spurious, fillervars
  <2>2. \/ Admitted' \subseteq Admitted
        \/ Len(queue) < QUEUESIZE /\ Alive(t)
    BY <1>2 DEF FillerStep, Wait, Wakeup, Check, Lock, CancelDeliver,
                DyingAcquire, Spurious, At, Admitted, Alive, Inv, TypeOK
  <2>3. FillerPlaces' = FillerPlaces
    BY <2>1 DEF FillerPlaces
  <2> QED  BY <1>0, <2>1, <2>2, <2>3, NoneAdmitted, OneAdmitted
<1> QED  BY <1>1, <1>2

\* Whatever the number of fillers and their interleaving, the queue has at most
\* QUEUESIZE frames, and one for each filler beyond the first: a filler that
\* has seen room may find, when it has the mutex, that the others have used it.
THEOREM FrameBound == Spec => []FramesBounded
<1>1. Init => CountInv
  <2> SUFFICES ASSUME Init PROVE CountInv
    OBVIOUS
  <2>1. FillerPlaces = {} /\ Admitted = {} /\ created = 0
    BY EmptySeq DEF Init, FillerPlaces, Admitted
  <2>2. Cardinality({}) = 0
    BY FS_EmptySet
  <2> QED  BY <2>1, <2>2, SizesAssumption DEF CountInv
<1>2. Inv /\ Inv' /\ CountInv /\ [Next]_vars => CountInv'
  <2> SUFFICES ASSUME Inv, Inv', CountInv, [Next]_vars PROVE CountInv'
    OBVIOUS
  <2>1. CASE UNCHANGED vars
    <3>1. /\ FillerPlaces' = FillerPlaces /\ Admitted' = Admitted
          /\ created' = created
      BY <2>1 DEF vars, mainvars, FillerPlaces, Admitted
    <3> QED  BY <3>1 DEF CountInv
  <2> QED  BY <2>1, MainCount, ClientCount, FillerCount DEF Next
<1>3. Inv /\ CountInv => FramesBounded
  <2> SUFFICES ASSUME Inv, CountInv PROVE FramesBounded
    OBVIOUS
  <2>1. /\ Cardinality(FillerPlaces) \in Nat /\ Cardinality(Admitted) \in Nat
        /\ created \in Nat
    BY CountFacts
  <2> QED  BY <2>1, SizesAssumption DEF CountInv, FramesBounded
<1> QED  BY <1>1, <1>2, <1>3, Invariance, PTL DEF Spec

-----------------------------------------------------------------------------
(***************************************************************************)
(* The sessions of clients that send one PLAY, after which the download    *)
(* ends, and then leave with a TEARDOWN or stay.                           *)
(***************************************************************************)
OneFiller == Env \cap {"repeat_play", "fast_download", "disconnect"} = {}

\* What is in the queue after a push was there before, or is the event pushed.
LEMMA PushElements ==
  ASSUME Inv, NEW e \in Events, push_event(e)
  PROVE  /\ Len(queue) \in Nat /\ Len(queue') = Len(queue) + 1 /\ queue' # <<>>
         /\ \A k \in 1 .. Len(queue') :
               \/ queue'[k] = e
               \/ \E j \in 1 .. Len(queue) : queue'[k] = queue[j]
<1>1. queue \in Seq(Events) /\ Len(queue) \in Nat
  BY LenProperties DEF Inv, TypeOK
<1>2. PICK i \in 1 .. Len(queue) + 1 : PushAt(e, i)
  BY DEF push_event
<1>3. Pushed(e, i)
  BY <1>1, <1>2, PushPlaces
<1>4. ASSUME NEW k \in 1 .. Len(queue')
      PROVE  \/ queue'[k] = e
             \/ \E j \in 1 .. Len(queue) : queue'[k] = queue[j]
  <2>1. CASE k < i
    BY <1>1, <1>3, <2>1 DEF Pushed
  <2>2. CASE k > i
    <3>1. k - 1 \in 1 .. Len(queue) /\ k - 1 >= i /\ (k - 1) + 1 = k
      BY <1>1, <1>3, <2>2 DEF Pushed
    <3>2. queue'[(k - 1) + 1] = queue[k - 1]
      BY <1>3, <3>1 DEF Pushed
    <3> QED  BY <3>1, <3>2
  <2> QED  BY <1>1, <1>3, <2>1, <2>2 DEF Pushed
<1>5. queue' # <<>>
  BY <1>1, PushType
<1> QED  BY <1>1, <1>3, <1>4, <1>5 DEF Pushed

\* What a step of the queue may bring into it.
Queued(e) ==
  \A k \in 1 .. Len(queue') :
    \/ queue'[k].th = e
    \/ \E j \in 1 .. Len(queue) : queue'[k] = queue[j]

LEMMA MainQueued ==
  ASSUME Inv, TimeoutPull \/ MainStep
  PROVE  /\ Queued(MAIN)
         /\ TimeoutPull => event' = queue[1] /\ 1 \in 1 .. Len(queue)
<1>1. CASE push_event(TimerEvent) /\ ~TimeoutPull
  <2>1. TimerEvent \in Events /\ TimerEvent.th = MAIN
    BY EventFacts DEF TimerEvent
  <2> QED  BY <1>1, <2>1, PushElements DEF Queued
<1>2. CASE queue' = queue /\ ~TimeoutPull
  BY <1>2 DEF Queued
<1>3. CASE TimeoutPull
  <2>1. queue \in Seq(Events) /\ queue # <<>> /\ queue' = Tail(queue)
        /\ event' = Head(queue)
    BY <1>3 DEF TimeoutPull, Inv, TypeOK
  <2>2. /\ Len(queue) \in Nat \ {0}
        /\ queue[1] = Head(queue)
        /\ Len(queue') = Len(queue) - 1
        /\ \A j \in 1 .. Len(queue') : queue'[j] = queue[j + 1]
    BY <2>1, PullPlaces
  <2>3. \A j \in 1 .. Len(queue') : j + 1 \in 1 .. Len(queue)
    BY <2>2
  <2> QED  BY <2>1, <2>2, <2>3 DEF Queued
<1> QED  BY <1>1, <1>2, <1>3 DEF TimeoutPull, MainStep, TimeoutHandle, PushTimer,
            RacyPush, Corrupt, TeardownSleep, TeardownClose, EndLoop

LEMMA SessionMain ==
  ASSUME OneFiller, Inv, SessionInv, TimeoutPull \/ MainStep
  PROVE  SessionInv'
<1> USE DEF SessionInv
<1>0. Queued(MAIN)
  BY MainQueued
<1>1. created' = created /\ downloaded' = downloaded
  BY DEF TimeoutPull, MainStep, TimeoutHandle, PushTimer, RacyPush,
         TeardownSleep, TeardownClose, EndLoop
<1>2. SessionIsolated'
  BY <1>0, <1>1 DEF SessionIsolated, Queued
<1>3. (mpc = "handle" => event.th \in {MAIN, created})'
  BY <1>1, MainQueued DEF SessionIsolated, TimeoutPull, MainStep, TimeoutHandle,
     PushTimer, RacyPush, Corrupt, TeardownSleep, TeardownClose, EndLoop
<1>4. \A t \in Threads : Alive(t)' => Alive(t)
  <2>1. CondSignal \/ pc' = pc
    BY DEF TimeoutPull, MainStep, TimeoutHandle, PushTimer, RacyPush,
           TeardownSleep, TeardownClose, EndLoop
  <2> QED  BY <2>1, SignalFacts DEF Alive, Inv
<1>5. CASE TeardownClose
  <2>1. queue' = <<>> /\ mpc' = "fdloop"
    BY <1>5 DEF TeardownClose
  <2>2. \A t \in Threads : ~Alive(t)
    BY <1>5 DEF TeardownClose, Inv, MainInv
  <2>3. Len(queue') = 0
    BY <2>1, EmptySeq
  <2> QED  BY <1>1, <1>2, <1>4, <2>1, <2>2, <2>3
<1>6. CASE ~TeardownClose
  <2>1. playing' = playing
    BY <1>6 DEF TimeoutPull, MainStep, TimeoutHandle, PushTimer, RacyPush,
                TeardownSleep, EndLoop
  <2>2. (mpc \in {"sleep", "close"} => queue = <<>>)'
    BY <1>6 DEF TimeoutPull, MainStep, TimeoutHandle, PushTimer, RacyPush,
                Corrupt, TeardownSleep, EndLoop
  <2>3. (~playing => \A i \in 1 .. Len(queue) : queue[i].th = MAIN)'
    BY <1>0, <2>1 DEF Queued
  <2> QED  BY <1>1, <1>2, <1>3, <1>4, <2>1, <2>2, <2>3
<1> QED  BY <1>5, <1>6

LEMMA SessionClient ==
  ASSUME OneFiller, Inv, SessionInv, ClientStep
  PROVE  SessionInv'
<1> USE ConstantFacts DEF SessionInv
<1>0. created \in Nat
  BY DEF Inv, TypeOK
<1>1. mpc' \notin {"handle", "close"}
  BY DEF ClientStep, OtherFd, DownloadComplete, PlayBefore, PlayAfter,
         Disconnect, TeardownLock, TeardownUndefined
<1>2. CASE OtherFd \/ TeardownUndefined \/ PlayBefore
  <2>1. /\ UNCHANGED <<queue, pc, created, downloaded>> /\ mpc' # "sleep"
        /\ playing' = playing \/ playing' = TRUE
    BY <1>2 DEF OtherFd, TeardownUndefined, PlayBefore
  <2> QED  BY <1>1, <2>1 DEF SessionIsolated, Alive
<1>3. CASE DownloadComplete
  <2>1. /\ UNCHANGED <<queue, playing>> /\ mpc' # "sleep" /\ downloaded'
        /\ playing /\ created = 0 /\ created' = 1
        /\ pc' = [pc EXCEPT ![1] = "outer"]
    BY <1>3 DEF DownloadComplete, LaunchFiller, OneFiller
  <2>2. \A t \in Threads : Alive(t)' => t = 1
    BY <2>1 DEF Alive, Inv, TypeOK, Threads
  <2>3. SessionIsolated'
    BY <2>1 DEF SessionIsolated, MAIN
  <2> QED  BY <1>1, <2>1, <2>2, <2>3
<1>4. CASE PlayAfter
  <2>1. /\ queue' = queue /\ mpc' # "sleep" /\ downloaded' /\ playing' /\ ~playing
        /\ created' = created + 1
        /\ pc' = [pc EXCEPT ![created + 1] = "outer"]
    BY <1>4 DEF PlayAfter, LaunchFiller, OneFiller, MayPlay
  <2>2. \A t \in Threads : Alive(t)' => t = created'
    BY <1>0, <2>1 DEF Alive, Inv, TypeOK
  <2>3. SessionIsolated'
    BY <2>1 DEF SessionIsolated
  <2> QED  BY <1>1, <2>1, <2>2, <2>3
<1>5. CASE Disconnect
  BY <1>5 DEF Disconnect, OneFiller
<1>6. CASE TeardownLock
  <2>1. /\ UNCHANGED <<pc, created, downloaded, playing>> /\ queue' = <<>>
    BY <1>6 DEF TeardownLock
  <2>2. Len(queue') = 0
    BY <2>1, EmptySeq
  <2> QED  BY <1>1, <2>1, <2>2 DEF SessionIsolated, Alive
<1> QED  BY <1>2, <1>3, <1>4, <1>5, <1>6 DEF ClientStep

LEMMA SessionFiller ==
  ASSUME OneFiller, Inv, SessionInv, NEW t \in Threads, FillerStep(t) \/ Spurious(t)
  PROVE  SessionInv'
<1> USE DEF SessionInv
<1>1. UNCHANGED <<mpc, event, created, downloaded, playing>>
  BY DEF FillerStep, Wait, Wakeup, Fill, Check, Lock, CancelDeliver, DyingAcquire,
         Spurious, fillervars
<1>2. \A s \in Threads : Alive(s)' => Alive(s)
  BY DEF FillerStep, Wait, Wakeup, Fill, Check, Lock, CancelDeliver, DyingAcquire,
         Spurious, At, Alive, Inv, TypeOK
<1>3. CASE Fill(t)
  <2>1. FillerEvent(t, pushed[t] + 1) \in Events
    BY <1>3, EventFacts, ConstantFacts DEF Fill, At, Inv, TypeOK, FillerInv
  <2>2. Queued(t)
    <3>1. FillerEvent(t, pushed[t] + 1).th = t
      BY DEF FillerEvent
    <3> QED  BY <1>3, <2>1, <3>1, PushElements DEF Fill, Queued
  <2>3. t = created /\ playing
    BY <1>3 DEF Fill, At, Alive
  <2>4. mpc \notin {"sleep", "close"}
    BY <1>3, ConstantFacts DEF Fill, At, Inv, FillerInv, MainInv
  <2>5. SessionIsolated'
    BY <1>1, <2>2, <2>3 DEF SessionIsolated, Queued
  <2> QED  BY <1>1, <1>2, <2>3, <2>4, <2>5
<1>4. CASE ~Fill(t)
  <2>1. queue' = queue
    BY <1>4 DEF FillerStep, Wait, Wakeup, Check, Lock, CancelDeliver,
                DyingAcquire, Spurious
  <2> QED  BY <1>1, <1>2, <2>1 DEF SessionIsolated
<1> QED  BY <1>3, <1>4

LEMMA SessionInvariance ==
  ASSUME OneFiller
  PROVE  Spec => []SessionInv
<1>1. Init => SessionInv
  <2> SUFFICES ASSUME Init PROVE SessionInv
    OBVIOUS
  <2>1. Len(queue) = 0
    BY EmptySeq DEF Init
  <2> QED  BY <2>1 DEF Init, SessionInv, SessionIsolated, Alive
<1>2. Inv /\ SessionInv /\ [Next]_vars => SessionInv'
  <2> SUFFICES ASSUME Inv, SessionInv, [Next]_vars PROVE SessionInv'
    OBVIOUS
  <2>1. CASE UNCHANGED vars
    BY <2>1 DEF vars, mainvars, SessionInv, SessionIsolated, Alive
  <2> QED  BY <2>1, SessionMain, SessionClient, SessionFiller DEF Next
<1> QED  BY <1>1, <1>2, Invariance, PTL DEF Spec

\* A client is sent the frames of its own session only, for any number of
\* sessions of clients that play once and do not hang up: TEARDOWN ends the
\* only filler there is, and empties the queue while it cannot push.
THEOREM SessionsApart ==
  ASSUME OneFiller
  PROVE  Spec => []SessionIsolated
BY SessionInvariance, PTL DEF SessionInv

\* When TEARDOWN has slept, no filler runs and the queue is empty, under the
\* same conditions.
THEOREM TeardownEndsStream ==
  ASSUME OneFiller
  PROVE  Spec => []TeardownStops
<1>1. Inv /\ SessionInv => TeardownStops
  BY DEF Inv, MainInv, SessionInv, TeardownStops
<1> QED  BY <1>1, Invariance, SessionInvariance, PTL

-----------------------------------------------------------------------------
(***************************************************************************)
(* The mutex, if pthread_cond_wait returns only when it is signalled.      *)
(***************************************************************************)
LEMMA HalfFacts ==
  QUEUESIZE \in Nat /\ QUEUESIZE \div 2 \in Nat
  /\ 2 <= QUEUESIZE \div 2 /\ QUEUESIZE \div 2 < QUEUESIZE
BY SizesAssumption

\* Steps of the main thread that push something meet no filler that has been
\* signalled.
LEMMA LockMain ==
  ASSUME OneFiller, Inv, SessionInv, LockInv, TimeoutPull \/ MainStep
  PROVE  LockInv'
<1> USE DEF LockInv
<1>0. Len(queue) \in Nat /\ MAIN \notin Threads /\ FREE \notin Threads
  BY ConstantFacts, LenProperties DEF Inv, TypeOK
<1>1. CASE TimeoutPull
  <2>1. Len(queue') = Len(queue) - 1
    BY <1>1, PullPlaces DEF TimeoutPull, Inv, TypeOK
  <2> QED  BY <1>0, <1>1, <2>1, HalfFacts DEF TimeoutPull, Alive
<1>2. CASE TimeoutHandle
  <2>1. \A t \in Threads : \/ pc'[t] = pc[t]
                           \/ /\ pc[t] = "waiting" /\ pc'[t] = "signalled"
                              /\ Len(queue') < QUEUESIZE \div 2
    BY <1>2, SignalFacts DEF TimeoutHandle, Inv
  <2>2. ASSUME NEW t \in Threads, Alive(t) PROVE queue' = queue
    <3>1. created # 0
      BY <1>0, <2>2 DEF SessionInv, MAIN
    <3> QED  BY <1>2, <3>1 DEF SessionInv, TimeoutHandle
  <2>3. queue' \in Seq(Events)
    BY <1>2, PushType, EventFacts DEF TimeoutHandle, Inv, TypeOK
  <2>4. Len(queue') \in Nat
    BY <2>3, LenProperties
  <2>5. \A t \in Threads : (pc[t] = "signalled" => Len(queue) < QUEUESIZE)'
    BY <2>1, <2>2, <2>4, HalfFacts DEF Alive
  <2>6. \A t \in Threads : (queuelock = t => pc[t] \in {"fill", "dead"})'
    BY <1>0, <1>2 DEF TimeoutHandle
  <2>7. mpc' = "select"
    BY <1>2 DEF TimeoutHandle
  <2> QED  BY <2>5, <2>6, <2>7
<1>3. CASE PushTimer \/ RacyPush
  <2>1. /\ UNCHANGED <<pc, queuelock>>
        /\ mpc \in {"push", "racy1", "racy2"}
    BY <1>3 DEF PushTimer, RacyPush
  <2>2. \A t \in Threads : pc[t] # "signalled"
    BY <2>1 DEF Alive
  <2> QED  BY <2>1, <2>2 DEF Alive
<1>4. CASE TeardownClose
  <2>1. \A t \in Threads : ~Alive(t)
    BY <1>4 DEF TeardownClose, Inv, MainInv, SessionInv
  <2>2. pc' = pc
    BY <1>4, <2>1 DEF TeardownClose, CondSignal, Waiters, Alive
  <2> QED  BY <1>0, <1>4, <2>2 DEF TeardownClose, Alive
<1>5. CASE TeardownSleep \/ EndLoop
  BY <1>5 DEF TeardownSleep, EndLoop, Alive
<1> QED  BY <1>1, <1>2, <1>3, <1>4, <1>5 DEF MainStep

LEMMA LockClient ==
  ASSUME OneFiller, Inv, SessionInv, LockInv, ClientStep
  PROVE  LockInv'
<1> USE DEF LockInv
<1>0. created \in Nat /\ MAIN \notin Threads /\ 0 \notin Threads
  BY ConstantFacts DEF Inv, TypeOK, MAIN
<1>1. CASE OtherFd \/ Disconnect \/ TeardownUndefined
  BY <1>1 DEF OtherFd, Disconnect, TeardownUndefined, Alive
<1>2. CASE PlayBefore
  <2>1. \A t \in Threads : ~Alive(t)
    BY <1>0, <1>2 DEF PlayBefore, SessionInv
  <2> QED  BY <1>2, <2>1 DEF PlayBefore, Alive
<1>3. CASE DownloadComplete \/ PlayAfter
  <2>1. \A t \in Threads : ~Alive(t)
    BY <1>0, <1>3 DEF DownloadComplete, PlayAfter, MayPlay, OneFiller, SessionInv
  <2>2. /\ UNCHANGED <<queue, queuelock>>
        /\ pc' = [pc EXCEPT ![created + 1] = "outer"]
        /\ pc[created + 1] = "unborn" /\ created + 1 \in Threads
    <3>1. /\ UNCHANGED <<queue, queuelock>> /\ created < MaxThreads
          /\ pc' = [pc EXCEPT ![created + 1] = "outer"]
      BY <1>3 DEF DownloadComplete, PlayAfter, LaunchFiller
    <3>2. created + 1 \in Threads
      BY <1>0, <3>1, ConstantFacts DEF Threads
    <3> QED  BY <1>0, <3>1, <3>2 DEF Inv, FillerInv
  <2>3. \A t \in Threads : Alive(t)' => pc'[t] = "outer"
    BY <2>1, <2>2 DEF Alive, Inv, TypeOK
  <2>4. \A t \in Threads : pc'[t] # "signalled"
    BY <2>3 DEF Alive
  <2>5. \A t \in Threads : queuelock' = t => pc'[t] \in {"fill", "dead"}
    BY <2>2 DEF Inv, TypeOK
  <2> QED  BY <2>3, <2>4, <2>5
<1>4. CASE TeardownLock
  <2>1. Len(queue') = 0 /\ queuelock' = MAIN /\ pc' = pc /\ mpc' = "sleep"
    BY <1>4, EmptySeq DEF TeardownLock
  <2> QED  BY <1>0, <2>1, HalfFacts
<1> QED  BY <1>1, <1>2, <1>3, <1>4 DEF ClientStep

LEMMA LockFiller ==
  ASSUME OneFiller, "spurious" \notin Env, Inv, SessionInv, LockInv,
         NEW t \in Threads, FillerStep(t) \/ Spurious(t)
  PROVE  LockInv'
<1> USE DEF LockInv
<1>0. /\ mpc' = mpc /\ pc \in [Threads -> {"unborn", "outer", "waiting", "signalled",
                             "fill", "check", "lock", "dying", "dead"}]
      /\ FREE \notin Threads
  BY ConstantFacts
     DEF FillerStep, Wait, Wakeup, Fill, Check, Lock, CancelDeliver, DyingAcquire,
         Spurious, fillervars, Inv, TypeOK
<1>1. CASE Fill(t)
  <2>1. /\ pc[t] = "fill" /\ pc' = [pc EXCEPT ![t] = "check"] /\ queuelock' = FREE
    BY <1>1 DEF Fill, At
  <2>2. t = created /\ mpc \notin {"push", "racy1", "racy2"}
    BY <2>1 DEF SessionInv, Alive
  <2>3. \A s \in Threads : pc'[s] # "signalled"
    BY <1>0, <2>1, <2>2 DEF SessionInv, Alive
  <2> QED  BY <1>0, <2>1, <2>2, <2>3
<1>2. CASE ~Fill(t)
  <2>1. /\ queue' = queue
        /\ \/ pc[t] = "outer" /\ pc' = [pc EXCEPT ![t] = "waiting"]
              /\ queuelock' = queuelock /\ queuelock = FREE
           \/ pc[t] = "signalled" /\ queuelock' = t
              /\ pc' = [pc EXCEPT ![t] = "fill"]
           \/ pc[t] = "check" /\ queuelock' = queuelock
              /\ \E l \in {"dead", "lock", "outer"} : pc' = [pc EXCEPT ![t] = l]
           \/ pc[t] = "lock" /\ queuelock' = t
              /\ pc' = [pc EXCEPT ![t] = "fill"]
           \/ pc[t] # "waiting" /\ queuelock' = queuelock
              /\ pc' = [pc EXCEPT ![t] = "dead"]
           \/ pc[t] \in {"waiting", "signalled"} /\ queuelock' = queuelock
              /\ pc' = [pc EXCEPT ![t] = "dying"]
           \/ pc[t] = "dying" /\ queuelock' = t
              /\ pc' = [pc EXCEPT ![t] = "dead"]
    BY <1>2 DEF FillerStep, Wait, Wakeup, Check, Lock, CancelDeliver, DyingAcquire,
                Spurious, At
  <2>2. \A s \in Threads : (pc[s] = "signalled" => Len(queue) < QUEUESIZE)'
    BY <1>0, <2>1
  <2>3. \A s \in Threads : (queuelock = s => pc[s] \in {"fill", "dead"})'
    BY <1>0, <2>1
  <2>4. (mpc \in {"push", "racy1", "racy2"}
           => \A s \in Threads : Alive(s) => pc[s] \in {"outer", "waiting"})'
    BY <1>0, <2>1 DEF Alive
  <2> QED  BY <2>2, <2>3, <2>4
<1> QED  BY <1>1, <1>2

LEMMA LockInvariance ==
  ASSUME OneFiller, "spurious" \notin Env
  PROVE  Spec => []LockInv
<1>1. Init => LockInv
  BY ConstantFacts DEF Init, LockInv, Alive
<1>2. Inv /\ SessionInv /\ LockInv /\ [Next]_vars => LockInv'
  <2> SUFFICES ASSUME Inv, SessionInv, LockInv, [Next]_vars PROVE LockInv'
    OBVIOUS
  <2>1. CASE UNCHANGED vars
    BY <2>1 DEF vars, mainvars, LockInv, Alive
  <2> QED  BY <2>1, LockMain, LockClient, LockFiller DEF Next
<1> QED  BY <1>1, <1>2, Invariance, SessionInvariance, PTL DEF Spec

\* fill_queue never locks queuelock while it owns it: a filler is signalled when
\* the queue is half empty, and nobody else fills it before it has woken up.
THEOREM OwnerNeverLocks ==
  ASSUME OneFiller, "spurious" \notin Env
  PROVE  Spec => []NoSelfDeadlock
<1>1. LockInv => NoSelfDeadlock
  BY DEF LockInv, NoSelfDeadlock
<1> QED  BY <1>1, LockInvariance, PTL

\* The push_timeout calls of PLAY outside the mutex meet no filler inside the
\* queue: the one just launched waits until the loop signals it.
THEOREM PlayMeetsNoFiller ==
  ASSUME OneFiller, "spurious" \notin Env
  PROVE  Spec => []NoQueueRace
<1>1. LockInv => NoQueueRace
  BY DEF LockInv, NoQueueRace, InQueue, Alive
<1> QED  BY <1>1, LockInvariance, PTL

-----------------------------------------------------------------------------
(***************************************************************************)
(* The condition variable, if a filler that is on its way to               *)
(* pthread_cond_wait gets there before the last event is due.              *)
(***************************************************************************)

\* Of two events one is left, and the last one is not pulled before the filler
\* waits.
LEMMA WakeupPull ==
  ASSUME Prompt, Inv, WakeupInv, TimeoutPull
  PROVE  WakeupInv'
<1>1. /\ queue # <<>> /\ queue' = Tail(queue) /\ mpc' = "handle" /\ pc' = pc
      /\ Len(queue) = 1 => \A t \in Threads : pc[t] # "outer"
  BY DEF TimeoutPull
<1>2. Len(queue) \in Nat \ {0} /\ Len(queue') = Len(queue) - 1
  BY <1>1, PullPlaces DEF Inv, TypeOK
<1>3. Len(queue) # 1 => queue' # <<>>
  BY <1>2, EmptySeq
<1> QED  BY <1>1, <1>3 DEF WakeupInv

\* The one filler there is waits when the last event is handled, and is signalled.
LEMMA WakeupHandle ==
  ASSUME Inv, SessionInv, WakeupInv, TimeoutHandle
  PROVE  WakeupInv'
<1>1. mpc = "handle" /\ mpc' = "select"
  BY DEF TimeoutHandle
<1>2. ASSUME NEW t \in Threads, pc'[t] \in {"outer", "waiting"}, queue' = <<>>
      PROVE  FALSE
  <2>1. queue' = queue
    BY <1>2, EventFacts, PushType DEF TimeoutHandle, Inv, TypeOK
  <2>2. pc'[t] = pc[t]
    BY <1>2, SignalFacts DEF TimeoutHandle, Inv
  <2>3. pc[t] = "waiting"
    BY <1>1, <1>2, <2>1, <2>2 DEF WakeupInv
  <2>4. Len(queue') < QUEUESIZE \div 2
    BY <1>2, EmptySeq, HalfFacts
  <2>5. Waiters = {t}
    BY <2>3 DEF Waiters, SessionInv, Alive
  <2>6. pc' = [pc EXCEPT ![t] = "signalled"]
    BY <2>4, <2>5 DEF TimeoutHandle, CondSignal
  <2> QED  BY <1>2, <2>6 DEF Inv, TypeOK
<1> QED  BY <1>1, <1>2 DEF WakeupInv

LEMMA WakeupMain ==
  ASSUME Inv, SessionInv, WakeupInv, MainStep, ~TimeoutHandle
  PROVE  WakeupInv'
<1>1. CASE PushTimer \/ RacyPush
  <2>1. mpc' # "handle" /\ (mpc' = "undefined" \/ push_event(TimerEvent))
    BY <1>1 DEF PushTimer, RacyPush, Corrupt
  <2>2. push_event(TimerEvent) => queue' # <<>>
    BY EventFacts, PushType DEF Inv, TypeOK
  <2> QED  BY <2>1, <2>2 DEF WakeupInv
<1>2. CASE TeardownSleep
  BY <1>2 DEF TeardownSleep, WakeupInv
<1>3. CASE TeardownClose
  <2>1. \A t \in Threads : ~Alive(t)
    BY <1>3 DEF TeardownClose, Inv, MainInv, SessionInv
  <2>2. pc' = pc /\ mpc' = "fdloop"
    BY <1>3, <2>1 DEF TeardownClose, CondSignal, Waiters, Alive
  <2> QED  BY <2>1, <2>2 DEF WakeupInv, Alive
<1>4. CASE EndLoop
  BY <1>4 DEF EndLoop, WakeupInv
<1> QED  BY <1>1, <1>2, <1>3, <1>4 DEF MainStep

LEMMA WakeupClient ==
  ASSUME OneFiller, WakeupInv, ClientStep
  PROVE  WakeupInv'
<1>1. CASE OtherFd
  BY <1>1 DEF OtherFd, WakeupInv
<1>2. CASE ~OtherFd
  <2>1. mpc' \notin {"select", "fdloop", "handle"}
    BY <1>2 DEF ClientStep, DownloadComplete, PlayBefore, PlayAfter, Disconnect,
                TeardownLock, TeardownUndefined, OneFiller
  <2> QED  BY <2>1 DEF WakeupInv
<1> QED  BY <1>1, <1>2

\* A filler goes on to wait only when the queue is full.
LEMMA WakeupFiller ==
  ASSUME Inv, WakeupInv, NEW t \in Threads, FillerStep(t) \/ Spurious(t)
  PROVE  WakeupInv'
<1>0. /\ mpc' = mpc
      /\ pc \in [Threads -> {"unborn", "outer", "waiting", "signalled",
                             "fill", "check", "lock", "dying", "dead"}]
  BY DEF FillerStep, Wait, Wakeup, Fill, Check, Lock, CancelDeliver, DyingAcquire,
         Spurious, fillervars, Inv, TypeOK
<1>1. CASE Fill(t)
  <2>1. FillerEvent(t, pushed[t] + 1) \in Events
    BY <1>1, EventFacts, ConstantFacts DEF Fill, At, Inv, TypeOK, FillerInv
  <2>2. queue' # <<>>
    BY <1>1, <2>1, PushType DEF Fill, Inv, TypeOK
  <2> QED  BY <2>2 DEF WakeupInv
<1>2. CASE Wait(t)
  <2>1. /\ mpc # "handle" /\ queue' = queue /\ pc[t] = "outer"
        /\ pc' = [pc EXCEPT ![t] = "waiting"]
    BY <1>2, ConstantFacts DEF Wait, At, Inv, MainInv
  <2> QED  BY <1>0, <2>1 DEF WakeupInv
<1>3. CASE ~Fill(t) /\ ~Wait(t)
  <2>1. /\ queue' = queue
        /\ \E l \in {"signalled", "fill", "lock", "dying", "dead", "outer"} :
             /\ pc' = [pc EXCEPT ![t] = l]
             /\ l = "outer" => ~(Len(queue) < QUEUESIZE)
    BY <1>3 DEF FillerStep, Wakeup, Check, Lock, CancelDeliver, DyingAcquire, Spurious
  <2>2. ~(Len(queue) < QUEUESIZE) => queue # <<>>
    BY EmptySeq, HalfFacts
  <2> QED  BY <1>0, <2>1, <2>2 DEF WakeupInv
<1> QED  BY <1>1, <1>2, <1>3

\* The condition variable has no predicate, and no wakeup is lost all the same: a
\* filler waits only while there is an event whose timeout will signal it, even
\* if timeouts expire while fillers refill the queue or wake up spuriously.
THEOREM NoWakeupIsLost ==
  ASSUME OneFiller, Prompt
  PROVE  Spec => []NoLostWakeup
<1>1. Init => WakeupInv
  BY DEF Init, WakeupInv
<1>2. Inv /\ SessionInv /\ WakeupInv /\ [Next]_vars => WakeupInv'
  <2> SUFFICES ASSUME Inv, SessionInv, WakeupInv, [Next]_vars PROVE WakeupInv'
    OBVIOUS
  <2>1. CASE UNCHANGED vars
    BY <2>1 DEF vars, mainvars, WakeupInv
  <2> QED  BY <2>1, WakeupPull, WakeupHandle, WakeupMain, WakeupClient, WakeupFiller
           DEF Next
<1>3. WakeupInv => NoLostWakeup
  BY DEF WakeupInv, NoLostWakeup
<1> QED  BY <1>1, <1>2, <1>3, Invariance, SessionInvariance, PTL DEF Spec
=============================================================================
