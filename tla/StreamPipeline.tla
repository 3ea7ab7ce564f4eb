---------------------------- MODULE StreamPipeline ----------------------------
(***************************************************************************)
(* The streaming core of server.c: the select() loop of start_server, the  *)
(* queue filler threads (fill_queue), the time-ordered queue they share    *)
(* and the mutex `queuelock` and condition variable `queuecond` around it. *)
(*                                                                         *)
(* The RTSP session is reduced to the four things it does to the pipeline: *)
(* PLAY, TEARDOWN, a client that goes away, and the end of the download.   *)
(* Times are reduced to an order: the events of one thread are ordered by  *)
(* their stamps, those of different clocks in any way.                     *)
(***************************************************************************)
EXTENDS Integers, Sequences, FiniteSets, SequencesExt

CONSTANTS
  QUEUESIZE,   \* server.h: the size at which a filler stops (200 in the code)
  MaxThreads,  \* bound: how many fillers one run of the server launches
  MaxOps,      \* bound: how many descriptors the select loop serves
  Pts,         \* the time stamps of the frames get_frame returns, in file order
  Env,         \* which unfriendly things clients, network and libc may do
  Prompt       \* timing assumption: a filler on its way to pthread_cond_wait
               \* gets there before the last event in the queue is due

ASSUME SizesAssumption ==
  /\ QUEUESIZE \in Nat /\ QUEUESIZE >= 4
  /\ MaxThreads \in Nat \ {0}
  /\ MaxOps \in Nat
ASSUME PtsAssumption == Pts \in Seq(Nat)
ASSUME EnvAssumption ==
  /\ Env \subseteq {"repeat_play", "fast_download", "disconnect", "teardown",
                    "spurious"}
  /\ Prompt \in BOOLEAN

Threads == 1 .. MaxThreads
FREE == -1                     \* owner of an unlocked mutex
MAIN == 0                      \* the thread of start_server

(***************************************************************************)
(* Events.  A filler's n-th event is the frame with stamp Pts[n]; after    *)
(* the last frame comes ENDOFSTREAM, stamped with the frame read last plus *)
(* 10 microseconds.  Without a frame its stamp is uninitialised; no rank is *)
(* compared with it then, and it goes anywhere.  Timers belong to MAIN.    *)
(***************************************************************************)
Eos == Len(Pts) + 1
TimerEvent == [type |-> "CHECKMEDIASTATE", th |-> MAIN, n |-> 0]
FillerEvent(t, n) ==
  [type |-> IF n = Eos THEN "ENDOFSTREAM" ELSE "FRAME", th |-> t, n |-> n]

\* Mutant: ENDOFSTREAM keeps the stamp of the last frame, without the 10 us.
RankNoGap(n) == 2 * Pts[IF n >= Eos THEN Len(Pts) ELSE n]
Rank(n) ==
  IF n < Eos THEN 2 * Pts[n] ELSE IF Pts = <<>> THEN 0 ELSE 2 * Pts[Len(Pts)] + 1

VARIABLES
  queuelock,  \* FREE, MAIN or the thread that owns the mutex
  queue,      \* the events in the order of the linked list
  armed,      \* timeind # NULL: select() will time out
  mpc,        \* where the main thread is
  event,      \* the event the timeout branch has pulled
  pc,         \* where each filler is
  pushed,     \* how many events each filler has pushed
  last,       \* number of each filler's event that left the queue last
  ctx,        \* state of the AVFormatContext of each filler
  tinfo,      \* the pointer start_server keeps to the last ThreadInfo
  created,    \* fillers launched so far; threadid names the last one
  cancel,     \* pthread_cancel(threadid) is pending
  downloaded, \* media_downloaded, and mediastate = STREAM
  playing,    \* the client has been answered a PLAY
  ops         \* descriptors served so far

mainvars == <<armed, mpc, event, tinfo, created, downloaded, playing, ops>>
vars == <<queuelock, queue, pc, pushed, last, ctx, cancel, mainvars>>

Events == {TimerEvent} \cup {FillerEvent(t, n) : t \in Threads, n \in 1 .. Eos}
Defined == mpc # "undefined"   \* C still says what the program does
Alive(t) == pc[t] \notin {"unborn", "dying", "dead"}

Init ==
  /\ queuelock = FREE
  /\ queue = <<>>
  /\ armed = FALSE
  /\ mpc = "select"
  /\ event = TimerEvent
  /\ pc = [t \in Threads |-> "unborn"]
  /\ pushed = [t \in Threads |-> 0]
  /\ last = [t \in Threads |-> 0]
  /\ ctx = [t \in Threads |-> "none"]
  /\ tinfo = "null"
  /\ created = 0
  /\ cancel = FALSE
  /\ downloaded = FALSE
  /\ playing = FALSE
  /\ ops = 0

-----------------------------------------------------------------------------
(***************************************************************************)
(* The shared queue and the condition variable.                            *)
(***************************************************************************)

\* push_event: before every event of the same clock that is not earlier,
\* after every one that is; anywhere among the events of other clocks.
PushAt(e, i) ==
  /\ \A j \in 1 .. Len(queue) :
        queue[j].th = e.th /\ e.th # MAIN =>
          (j < i <=> Rank(queue[j].n) < Rank(e.n))
  /\ queue' = InsertAt(queue, i, e)

push_event(e) == \E i \in 1 .. Len(queue) + 1 : PushAt(e, i)

\* pthread_cond_signal wakes one waiter if there is one, and is forgotten if not.
Waiters == {t \in Threads : pc[t] = "waiting"}
CondSignal ==
  IF Waiters = {} THEN pc' = pc
  ELSE \E t \in Waiters : pc' = [pc EXCEPT ![t] = "signalled"]

-----------------------------------------------------------------------------
(***************************************************************************)
(* The main thread: timeouts.                                              *)
(***************************************************************************)

\* select() returns 0; the branch locks the queue and pulls its first event.
TimeoutPull ==
  /\ mpc = "select" /\ armed
  /\ queuelock = FREE
  /\ queue # <<>>
  /\ Prompt /\ Len(queue) = 1 => \A t \in Threads : pc[t] # "outer"
  /\ queuelock' = MAIN
  /\ event' = Head(queue)
  /\ queue' = Tail(queue)
  /\ last' = IF event'.th = MAIN THEN last ELSE [last EXCEPT ![event'.th] = event'.n]
  /\ armed' = FALSE
  /\ mpc' = "handle"
  /\ UNCHANGED <<pc, pushed, ctx, cancel, tinfo, created, downloaded, playing, ops>>

\* Mutant: the filler is signalled while the queue is more than half full.
TimeoutHandleSwapped ==
  /\ mpc = "handle"
  /\ IF event.type = "CHECKMEDIASTATE" /\ ~downloaded
       THEN push_event(TimerEvent) ELSE UNCHANGED queue
  /\ armed' = (queue' # <<>>)
  /\ IF Len(queue') > QUEUESIZE \div 2 THEN CondSignal ELSE UNCHANGED pc
  /\ queuelock' = FREE
  /\ mpc' = "select"
  /\ UNCHANGED <<event, pushed, last, ctx, cancel, tinfo, created, downloaded, playing, ops>>

\* Mutant: only frames signal the filler, not the dummy timers.
TimeoutHandleFrames ==
  /\ mpc = "handle"
  /\ IF event.type = "CHECKMEDIASTATE" /\ ~downloaded
       THEN push_event(TimerEvent) ELSE UNCHANGED queue
  /\ armed' = (queue' # <<>>)
  /\ IF event.type = "FRAME" /\ Len(queue') < QUEUESIZE \div 2 THEN CondSignal ELSE UNCHANGED pc
  /\ queuelock' = FREE
  /\ mpc' = "select"
  /\ UNCHANGED <<event, pushed, last, ctx, cancel, tinfo, created, downloaded, playing, ops>>

\* The switch on the event's type, the next timeout, the signal, the unlock.
TimeoutHandle ==
  /\ mpc = "handle"
  /\ IF event.type = "CHECKMEDIASTATE" /\ ~downloaded
       THEN push_event(TimerEvent) ELSE UNCHANGED queue
  /\ armed' = (queue' # <<>>)
  /\ IF Len(queue') < QUEUESIZE \div 2 THEN CondSignal ELSE UNCHANGED pc
  /\ queuelock' = FREE
  /\ mpc' = "select"
  /\ UNCHANGED <<event, pushed, last, ctx, cancel, tinfo, created, downloaded, playing, ops>>

-----------------------------------------------------------------------------
(***************************************************************************)
(* The main thread: one ready descriptor after another, then the timeout   *)
(* is set again.                                                           *)
(***************************************************************************)
FdReady ==
  /\ mpc \in {"select", "fdloop"}
  /\ ops < MaxOps
  /\ ops' = ops + 1

\* A new AVFormatContext, a new ThreadInfo and a detached thread running
\* fill_queue; the previous ThreadInfo pointer and threadid are overwritten.
LaunchFiller ==
  /\ created < MaxThreads
  /\ created' = created + 1
  /\ pc' = [pc EXCEPT ![created + 1] = "outer"]
  /\ ctx' = [ctx EXCEPT ![created + 1] = "open"]
  /\ tinfo' = "live"

\* A request or a piece of the download that leaves the pipeline alone, any
\* number of times.
OtherFd ==
  /\ mpc = "select"
  /\ mpc' = "fdloop"
  /\ UNCHANGED <<queuelock, queue, armed, event, pc, pushed, last, ctx, tinfo,
                 created, cancel, downloaded, playing, ops>>

\* The last piece of the media file: launch a filler, then push a timer.
DownloadComplete ==
  /\ FdReady
  /\ ~downloaded
  /\ playing \/ "fast_download" \in Env
  /\ LaunchFiller
  /\ downloaded' = TRUE
  /\ mpc' = "push"
  /\ UNCHANGED <<queuelock, queue, armed, event, pushed, last, cancel, playing>>

MayPlay == ~playing \/ "repeat_play" \in Env

\* PLAY while the download runs: push a timer.
PlayBefore ==
  /\ FdReady
  /\ MayPlay
  /\ ~downloaded
  /\ playing' = TRUE
  /\ mpc' = "push"
  /\ UNCHANGED <<queuelock, queue, armed, event, pc, pushed, last, ctx, tinfo,
                 created, cancel, downloaded>>

\* PLAY once the file is there: launch a filler, then push two timers without
\* taking the lock.
PlayAfter ==
  /\ FdReady
  /\ MayPlay
  /\ downloaded
  /\ LaunchFiller
  /\ playing' = TRUE
  /\ mpc' = "racy1"
  /\ UNCHANGED <<queuelock, queue, armed, event, pushed, last, cancel, downloaded>>

\* lock_mutex; push_timeout; unlock_mutex.
PushTimer ==
  /\ mpc = "push"
  /\ queuelock = FREE
  /\ push_event(TimerEvent)
  /\ mpc' = "fdloop"
  /\ UNCHANGED <<queuelock, armed, event, pc, pushed, last, ctx, cancel, tinfo,
                 created, downloaded, playing, ops>>

\* The two accesses to the list without the lock meet an owner inside it.
InQueue == {t \in Threads : pc[t] = "fill"}
Corrupt ==
  /\ InQueue # {}
  /\ mpc' = "undefined"
  /\ UNCHANGED queue

\* push_timeout without the lock: as if alone, or a corrupted list.
RacyPush ==
  /\ mpc \in {"racy1", "racy2"}
  /\ \/ /\ push_event(TimerEvent)
        /\ mpc' = IF mpc = "racy1" THEN "racy2" ELSE "fdloop"
     \/ Corrupt
  /\ UNCHANGED <<queuelock, armed, event, pc, pushed, last, ctx, cancel, tinfo,
                 created, downloaded, playing, ops>>

\* recv() returns 0: the session is over, the filler and the queue stay.
Disconnect ==
  /\ "disconnect" \in Env
  /\ FdReady
  /\ playing
  /\ playing' = FALSE
  /\ mpc' = "fdloop"
  /\ UNCHANGED <<queuelock, queue, armed, event, pc, pushed, last, ctx, tinfo,
                 created, cancel, downloaded>>

\* Mutants: TEARDOWN without pthread_cancel, TEARDOWN without empty_queue.
TeardownLockNoCancel ==
  /\ "teardown" \in Env
  /\ FdReady
  /\ tinfo = "live"
  /\ queuelock = FREE
  /\ queuelock' = MAIN
  /\ queue' = <<>>
  /\ last' = [t \in Threads |-> pushed[t]]
  /\ mpc' = "sleep"
  /\ UNCHANGED <<armed, event, pc, pushed, ctx, tinfo, created, cancel,
                 downloaded, playing>>
TeardownLockNoFlush ==
  /\ "teardown" \in Env
  /\ FdReady
  /\ tinfo = "live"
  /\ queuelock = FREE
  /\ queuelock' = MAIN
  /\ cancel' = Alive(created)
  /\ mpc' = "sleep"
  /\ UNCHANGED <<queue, armed, event, pc, pushed, last, ctx, tinfo, created,
                 downloaded, playing>>

\* TEARDOWN: lock, pthread_cancel(threadid), empty_queue.
TeardownLock ==
  /\ "teardown" \in Env
  /\ FdReady
  /\ tinfo = "live"
  /\ queuelock = FREE
  /\ queuelock' = MAIN
  /\ cancel' = Alive(created)
  /\ queue' = <<>>
  /\ last' = [t \in Threads |-> pushed[t]]
  /\ mpc' = "sleep"
  /\ UNCHANGED <<armed, event, pc, pushed, ctx, tinfo, created, downloaded, playing>>

\* Mutant: TEARDOWN goes on without waiting for the cancellation.
TeardownNoSleep ==
  /\ mpc = "sleep"
  /\ mpc' = "close"
  /\ UNCHANGED <<queuelock, queue, armed, event, pc, pushed, last, ctx, cancel,
                 tinfo, created, downloaded, playing, ops>>

\* sleep(1) gives the asynchronous cancellation the time to be delivered.
TeardownSleep ==
  /\ mpc = "sleep"
  /\ ~cancel
  /\ mpc' = "close"
  /\ UNCHANGED <<queuelock, queue, armed, event, pc, pushed, last, ctx, cancel,
                 tinfo, created, downloaded, playing, ops>>

\* close_context(tinfo->ctx), free(tinfo), init_client, unlock and signal.
TeardownClose ==
  /\ mpc = "close"
  /\ ctx' = [ctx EXCEPT ![created] = "closed"]
  /\ tinfo' = "freed"
  /\ playing' = FALSE
  /\ queuelock' = FREE
  /\ CondSignal
  /\ mpc' = "fdloop"
  /\ UNCHANGED <<queue, armed, event, pushed, last, cancel, created, downloaded, ops>>

\* pthread_cancel without a thread: threadid is unset before the first filler
\* is launched, as in a TEARDOWN during the download, and tinfo NULL; after a
\* TEARDOWN tinfo dangles; and the id of a detached filler that has ended may be
\* gone with it (if it is not, nothing happens: TeardownLock).
TeardownUndefined ==
  /\ "teardown" \in Env
  /\ FdReady
  /\ tinfo # "live" \/ \A t \in Threads : Alive(t) => t # created
  /\ mpc' = "undefined"
  /\ UNCHANGED <<queuelock, queue, armed, event, pc, pushed, last, ctx, tinfo,
                 created, cancel, downloaded, playing>>

\* Mutant: the branch that sets timeind to NULL is missing.
EndLoopKeepsTimer ==
  /\ mpc = "fdloop"
  /\ queuelock = FREE
  /\ armed' = (armed \/ queue # <<>>)
  /\ mpc' = "select"
  /\ UNCHANGED <<queuelock, queue, event, pc, pushed, last, ctx, cancel, tinfo,
                 created, downloaded, playing, ops>>

\* After the descriptors: lock, set the timeout from queue.first, unlock.
EndLoop ==
  /\ mpc = "fdloop"
  /\ queuelock = FREE
  /\ armed' = (queue # <<>>)
  /\ mpc' = "select"
  /\ UNCHANGED <<queuelock, queue, event, pc, pushed, last, ctx, cancel, tinfo,
                 created, downloaded, playing, ops>>

-----------------------------------------------------------------------------
(***************************************************************************)
(* A queue filler.  "outer": at the lock_mutex of the outer loop;          *)
(* "waiting": inside pthread_cond_wait; "signalled": woken, needs the      *)
(* mutex again; "fill": in the inner loop with the mutex; "check": after   *)
(* the usleep, at the unlocked test of the inner loop; "lock": at the      *)
(* lock_mutex of the inner loop.                                           *)
(***************************************************************************)
fillervars == <<armed, mpc, event, last, ctx, tinfo, created, downloaded, playing, ops>>

At(t, label) == Defined /\ pc[t] = label

\* Mutant: the filler tests the queue first and waits only if it is full.
WaitUnlessRoom(t) ==
  /\ At(t, "outer")
  /\ queuelock = FREE
  /\ IF Len(queue) < QUEUESIZE
       THEN queuelock' = t /\ pc' = [pc EXCEPT ![t] = "fill"]
       ELSE queuelock' = FREE /\ pc' = [pc EXCEPT ![t] = "waiting"]
  /\ UNCHANGED <<queue, pushed, cancel, fillervars>>

\* lock_mutex, then pthread_cond_wait, which releases the mutex again.
Wait(t) ==
  /\ At(t, "outer")
  /\ queuelock = FREE
  /\ pc' = [pc EXCEPT ![t] = "waiting"]
  /\ UNCHANGED <<queuelock, queue, pushed, cancel, fillervars>>

\* pthread_cond_wait returns with the mutex.  If the queue is full the inner
\* loop is skipped and the thread is back at lock_mutex, still the owner.
Wakeup(t) ==
  /\ At(t, "signalled")
  /\ queuelock = FREE
  /\ queuelock' = t
  /\ pc' = [pc EXCEPT ![t] = IF Len(queue) < QUEUESIZE THEN "fill" ELSE "outer"]
  /\ UNCHANGED <<queue, pushed, cancel, fillervars>>

\* One round of the inner loop: the next frame or ENDOFSTREAM, then unlock.
Fill(t) ==
  /\ At(t, "fill")
  /\ push_event(FillerEvent(t, pushed[t] + 1))
  /\ pushed' = [pushed EXCEPT ![t] = @ + 1]
  /\ queuelock' = FREE
  /\ pc' = [pc EXCEPT ![t] = "check"]
  /\ UNCHANGED <<cancel, fillervars>>

\* Mutant: the inner loop runs while queue.size <= QUEUESIZE.
CheckOneMore(t) ==
  /\ At(t, "check")
  /\ pc' = [pc EXCEPT ![t] = IF pushed[t] = Eos THEN "dead"
                             ELSE IF Len(queue) <= QUEUESIZE THEN "lock"
                             ELSE "outer"]
  /\ UNCHANGED <<queuelock, queue, pushed, cancel, fillervars>>

\* The loop conditions, read without the mutex; quitflag ends the thread.
Check(t) ==
  /\ At(t, "check")
  /\ pc' = [pc EXCEPT ![t] = IF pushed[t] = Eos THEN "dead"
                             ELSE IF Len(queue) < QUEUESIZE THEN "lock"
                             ELSE "outer"]
  /\ UNCHANGED <<queuelock, queue, pushed, cancel, fillervars>>

Lock(t) ==
  /\ At(t, "lock")
  /\ queuelock = FREE
  /\ queuelock' = t
  /\ pc' = [pc EXCEPT ![t] = "fill"]
  /\ UNCHANGED <<queue, pushed, cancel, fillervars>>

\* pthread_cond_wait may return without a signal.
Spurious(t) ==
  /\ "spurious" \in Env
  /\ At(t, "waiting")
  /\ pc' = [pc EXCEPT ![t] = "signalled"]
  /\ UNCHANGED <<queuelock, queue, pushed, cancel, fillervars>>

\* Asynchronous cancellation ends the thread where it is, except inside
\* pthread_cond_wait, whose cleanup handler takes the mutex back first.
CancelDeliver(t) ==
  /\ Defined /\ cancel /\ t = created
  /\ cancel' = FALSE
  /\ \/ pc[t] # "waiting" /\ pc' = [pc EXCEPT ![t] = "dead"]
     \/ pc[t] \in {"waiting", "signalled"} /\ pc' = [pc EXCEPT ![t] = "dying"]
  /\ UNCHANGED <<queuelock, queue, pushed, fillervars>>

DyingAcquire(t) ==
  /\ At(t, "dying")
  /\ queuelock = FREE
  /\ queuelock' = t
  /\ pc' = [pc EXCEPT ![t] = "dead"]
  /\ UNCHANGED <<queue, pushed, cancel, fillervars>>

-----------------------------------------------------------------------------
MainStep == \/ TimeoutHandle \/ PushTimer \/ RacyPush \/ TeardownSleep
            \/ TeardownClose \/ EndLoop
ClientStep == \/ OtherFd \/ DownloadComplete \/ PlayBefore \/ PlayAfter
              \/ Disconnect \/ TeardownLock \/ TeardownUndefined
FillerStep(t) == \/ Wait(t) \/ Wakeup(t) \/ Fill(t) \/ Check(t) \/ Lock(t)
                 \/ CancelDeliver(t) \/ DyingAcquire(t)

Next ==
  \/ TimeoutPull
  \/ MainStep
  \/ ClientStep
  \/ \E t \in Threads : FillerStep(t) \/ Spurious(t)

Spec == Init /\ [][Next]_vars

\* select() times out again and again where it waits with a timeout again and
\* again: descriptors are not ready all the time.  The kernel schedules every
\* thread that can run.  Nothing is assumed of spurious wakeups.
Fairness ==
  /\ SF_vars(TimeoutPull)
  /\ WF_vars(MainStep)
  /\ \A t \in Threads : WF_vars(FillerStep(t))

\* Clients, or what else there is on a descriptor, do not fall silent for ever:
\* RTSP clients repeat a request to keep their session alive.
KeepAlive == WF_vars(OtherFd)

FairSpec == Spec /\ Fairness /\ KeepAlive

-----------------------------------------------------------------------------
(***************************************************************************)
(* Properties.                                                             *)
(***************************************************************************)

TypeOK ==
  /\ queuelock \in {FREE, MAIN} \cup Threads
  /\ queue \in Seq(Events)
  /\ armed \in BOOLEAN
  /\ mpc \in {"select", "handle", "fdloop", "push", "racy1", "racy2", "sleep",
              "close", "undefined"}
  /\ event \in Events
  /\ pc \in [Threads -> {"unborn", "outer", "waiting", "signalled", "fill",
                         "check", "lock", "dying", "dead"}]
  /\ pushed \in [Threads -> 0 .. Eos]
  /\ last \in [Threads -> 0 .. Eos]
  /\ ctx \in [Threads -> {"none", "open", "closed"}]
  /\ tinfo \in {"null", "live", "freed"}
  /\ created \in 0 .. MaxThreads
  /\ cancel \in BOOLEAN
  /\ downloaded \in BOOLEAN
  /\ playing \in BOOLEAN
  /\ ops \in 0 .. MaxOps

\* get_frame never reads an AVFormatContext that TEARDOWN has closed: whatever
\* clients do, a thread in the inner loop of fill_queue has an open context.
CtxSafe == \A t \in Threads : pc[t] = "fill" => ctx[t] = "open"

\* The timeout branch never pulls from an empty queue: while select() waits
\* with a timeout, nothing but that branch can take the last event away.
TimerArmed == mpc = "select" /\ armed => queue # <<>>

\* Although queue.size is tested without the lock, the fillers overshoot
\* QUEUESIZE by no more than one frame per filler beyond the first.
PlacesOf(t) == {i \in 1 .. Len(queue) : queue[i].th = t}
FillerPlaces == {i \in 1 .. Len(queue) : queue[i].th # MAIN}
FramesBounded ==
  Cardinality(FillerPlaces) <= QUEUESIZE + created - (IF created = 0 THEN 0 ELSE 1)

\* For a file whose stamps increase, what a filler has pushed leaves the queue
\* in file order, nothing lost, doubled or overtaken, ENDOFSTREAM at the end.
InOrder(t) ==
  /\ last[t] <= pushed[t]
  /\ {queue[i].n : i \in PlacesOf(t)} = last[t] + 1 .. pushed[t]
  /\ \A i, j \in PlacesOf(t) : i < j => queue[i].n < queue[j].n
StreamInOrder == \A t \in Threads : InOrder(t)

\* "Kill thread and empty queue": when TEARDOWN has slept, no filler runs and
\* the queue is empty.
TeardownStops == mpc = "close" => queue = <<>> /\ \A t \in Threads : ~Alive(t)

\* A client is sent the frames of its own session only.
SessionIsolated == \A i \in 1 .. Len(queue) : queue[i].th \in {MAIN, created}

\* fill_queue never locks queuelock while it owns it.
NoSelfDeadlock == \A t \in Threads : ~(pc[t] = "outer" /\ queuelock = t)

\* The mutex is "used when reading [or] modifying the queue": the unlocked
\* push_timeout calls of PLAY never meet a filler that is inside the queue.
NoQueueRace == ~(mpc \in {"racy1", "racy2"} /\ InQueue # {})

\* Cancelling the filler "immediately" leaves the mutex usable: no thread that
\* has ended owns queuelock.
LockReleased == \A t \in Threads : ~(pc[t] = "dead" /\ queuelock = t)

\* pthread_cond_wait has no predicate: a filler waits only while there is an
\* event whose timeout will signal it, or it would wait for ever.
NoLostWakeup ==
  mpc \in {"select", "fdloop"} /\ queue = <<>> => \A t \in Threads : pc[t] # "waiting"

\* "Dummy timeouts to start queue/timeout mechanism": once it has been started,
\* select() never waits without a timeout while there are events to send.
NoStall == mpc = "select" /\ queue # <<>> => armed

LockLost == \E t \in Threads : queuelock = t /\ pc[t] \in {"dead", "outer"}

Finished == \E t \in Threads : t = created /\ last[t] = Eos

\* The dummy timeouts of PLAY and of the download "start [the] queue/timeout
\* mechanism": a client that plays a downloaded file gets all of it, unless it
\* tears the session down or the mutex is lost to a cancelled thread.  Where
\* timers and fillers miss each other (NoStall) the next descriptor that is
\* ready sets things going again.
StreamCompletes ==
  (playing /\ downloaded) ~> (Finished \/ ~playing \/ ~Defined \/ LockLost)
=============================================================================
