# HTTP2RTSP in TLA+

Specifications of the streaming proxy HTTP2RTSP: it fetches an MP4 file over
HTTP, and streams its H.264 video and PCMA audio over RTP to an RTSP client
(`server.c`), or the video to an RTSP client and the audio to a number of SIP
clients, the "movie theatre" (`mt_server.c`). Every action is a translation of
the handler named in its comment; `PROJECT.json` gives the lines.

## The system

| Component | State | Operations | Interacts with |
|---|---|---|---|
| select loop (`start_server`, `start_mt_server`) | `timeind`, `masterfds`, `streamclient`, `mediastate`, `media_downloaded`, `tinfo`, `threadid` | one timeout or all ready descriptors per round, then the next timeout is computed | everything below |
| queue filler (`fill_queue`), a detached thread per stream | `basetime`, `prev_timestamp`, `mutlocked`, `quitflag` | wait for the signal, fill until `QUEUESIZE`, push ENDOFSTREAM and end | shares `queue`, `queuelock`, `queuecond` with the loop; reads `tinfo->ctx` |
| event queue (`push_event`, `pull_event`, `empty_queue`, `push_timeout`) | doubly linked list, `first`, `last`, `size` | insert by time from the tail, take the first | loop and fillers |
| time arithmetic (`calculate_delta`, `timecmp`, `set_timeval`) | none | | queue, loop |
| RTSP session (in the loop; `httpmsg.c`) | `streamclient`, `rtspmsg` | accept, OPTIONS, DESCRIBE, SETUP, PLAY, TEARDOWN, hang up | opens sockets, starts the download and the fillers |
| download (in the loop) | `mediafd`, `videofd`, `mediastate`, `videoleft` | header, pieces, end | starts the filler when it ends |
| SIP clients (in `start_mt_server`; `sipfunctions.c`) | `clientlist`, `nclients`, RTP sockets | INVITE, ACK, BYE, 200 OK, BYE at ENDOFSTREAM | audio frames go to the slots with `ackrecvd` |
| RTSP messages (`httpmsg.c`) | `rtspmsg`, `streamclient.cseq`, `.session` | `parse_rtsp`, `write_rtsp`, one `rtsp_*` function per reply | called by the RTSP handlers with what one recv() returned |
| media file (`parse_video.c`) | the AVFormatContext of `tinfo` | `initialize_context`, `get_frame` | opened by PLAY and the end of the download, read by the filler |
| socket helpers (`socketfunc.c`, `writestr` of `fileio.c`) | none beyond a call | open a socket from a list of addresses, send or write a whole buffer | every handler |
| RTP packetizer (`send_frame.c`) | `rtpseqno_video`, `rtpseqno_audio` of the loop | `send_video_frame`, `send_audio_frame`, `send_dummy_rtp` | called by the timeout branch and at the start of a stream |

What is hard here: fillers and the loop interleave around one mutex and one
condition variable that is waited on without a predicate; fillers are detached
and cancelled asynchronously; one timer has to serve a queue that other threads
fill, so that a signal before a wait or a push after a timeout is computed can
be missed; descriptors are numbers that are closed in one handler and remembered in
another, and RTSP sessions and SIP clients take them from the same table; SIP
runs over UDP, RTSP requests are parsed as recv() happens to cut them; system
calls and codecs fail one by one; the code has no automated tests.

What makes the components correct: nobody touches the queue without the lock
and the lock always comes back; what a filler pushes is sent in order, to its
own session, and all of it; the queue is ordered and select() wakes up for its
first event, never before it; a session owns its descriptors and leaves none
behind; the file is one download; the slot table, its counter and the sockets
agree; who listens when the media ends is dismissed; every request is answered
with its own CSeq and nobody's session but the client's; a stream is all frames
of one video and one audio stream of the file; the socket functions leak
nothing and send each byte once; packets are numbered without gaps and carry
the whole unit.

## Modules

| Module | Models | Correspondence |
|---|---|---|
| `StreamPipeline` | loop, fillers, lock | `mpc` and `pc[t]` are the program points between which the code takes, waits for or releases `queuelock`. `Timeout*` is the branch `nready == 0`, the `Teardown*` actions the TEARDOWN branch cut at `sleep(1)`, `PlayBefore`, `PlayAfter`, `DownloadComplete`, `Disconnect` what a descriptor does to the pipeline, `EndLoop` the end of a round; `Wait`, `Wakeup`, `Fill`, `Check`, `Lock` the filler |
| `Timeval` | time arithmetic | operators of the same names, seconds of `USEC` units |
| `EventQueue` | list and timeout | `list` holds the pointers of the C structures; one action per critical section |
| `TimerQueue` | what `server.h` promises | a sorted sequence whose first element is taken at its time; `EventQueue` implements it (`ImplementsTimerQueue`, with the list walked by `next` as the sequence) |
| `RtspServer` | session, download, descriptors, both loops | `fds` is the descriptor table of the process, `client` is `streamclient`; `Variant` picks the loop |
| `SipServer` | SIP side of the movie theatre | one action per message type; `toserver`, `toclients` and `caller` are the network and the clients, which are not in the repository |
| `MtServer` | the movie theatre as a whole | EXTENDS `RtspServer` and instantiates `SipServer`, whose open RTP sockets are the descriptors of use `sip` in `fds`. `Session` is a step of the RTSP side, `SipMessage` one of `siplistenfd`, `MediaFinished` the ENDOFSTREAM of a filler; `streaming` holds the streams whose ENDOFSTREAM is still to come. It implements `SipServer` (`ImplementsSipServer`) |
| `RtspDialog` | `httpmsg.c` and who is answered what | `stream` is the TCP connection, each request in two parts, `Receive(n)` one recv() and the branch of the loop it leads to; `user` is the client |
| `MediaFile` | `parse_video.c` and the type `fill_queue` gives a frame | one action per branch of `get_frame`; the file is a list of streams and of packets |
| `SocketFunc` | `socketfunc.c`, `writestr` | `pc` is the next system call, `fn` the function that makes it, `fds` and `held` what the calls have done to each descriptor and what its owner was promised |
| `RtpPacketizer` | `send_frame.c` and the counters | `frame` holds the local variables of `send_video_frame`, a packet the byte positions it carries |
| `*Proofs` | theorems | each EXTENDS the module it is about; `RtspServerProofs` covers `RtspServer` and `MtServer`, `EventQueueProofs` `Timeval` and `EventQueue` |
| `MC*` | instances for TLC | |

Abstractions. `StreamPipeline` has no clock: the events of one filler are
ordered by the stamps of the file (`Pts`, doubled to make room for the 10
microseconds of ENDOFSTREAM), those of different clocks in any order, so that
all real orders are covered. A data race on the list is either harmless or ends
the behaviour (`undefined`); so may a TEARDOWN without a filler, and one after
the filler has ended, whose detached thread need not be known any more. A file
without frames, whose ENDOFSTREAM has an uninitialised stamp, is in.
`EventQueue` has one filler, no threads and no such file. `RtspServer` keeps of a
filler its open context. An error that leaves C without a defined meaning sets
`mode` and ends the behaviour. That includes a TEARDOWN without a
filler (`no_filler`), which a client that asks in turn can send
(`TeardownIsSafe` below); with `WatchToEnd` it does not. Descriptors that never change (log file,
`siplistenfd`) are left out, and of a request all but its type, which with
CSeq, Session and Transport is in `RtspDialog`. EINTR from select() is left
out: `main.c` installs no signal handler.

`MtServer` knows of a stream only that it has started and not yet ended; how it
ends is `StreamPipeline`'s. A TEARDOWN empties the queue, so it drops the
ENDOFSTREAM of the filler it cancels and may drop others. `MediaFile` has no
time: the order of the packets is that of the file. In `SocketFunc` what fails
at an address is a property of the address, so that a list of n addresses
stands for all sequences of n outcomes; calls repeated after EINTR are no step.

`SipServer.parsesipmsg` and `RtspServer.parse_rtsp` keep the one thing about
parsing that the handlers depend on: the structure is zeroed first, and type 0
is INVITE and OPTIONS.

### Assumptions that are parameters

- `Env` of `StreamPipeline`: `repeat_play` (PLAY twice in a session),
  `fast_download` (the download ends before the PLAY), `disconnect`,
  `teardown` (at any time, before there is a filler too), `spurious` (wakeups
  of `pthread_cond_wait`).
- `Prompt`: a filler at the `lock_mutex` before `pthread_cond_wait` gets there
  before the last event in the queue is due. Timeouts are free to come before
  that, and while a filler fills: a refill takes a millisecond a frame
  (`usleep`) and overlaps many of them, whose signals are lost. A filler comes
  to that `lock_mutex` when it is launched, with a timer in the queue that is
  due in a second (`server.c:496`) or two (671), and when it finds the queue
  full, with all of it still to be sent. It then needs the mutex once, for which
  it competes with timeouts milliseconds apart. POSIX does not promise that it
  gets the mutex in this time; without `Prompt` the signal of the last event can
  be lost as well, see the deviations below.
- `Carry` of `EventQueue`: stamps may run over the second.
- `Env` of `RtspServer`: requests in any order, clients that hang up or reset,
  a download that ends before the PLAY or too early, an HTTP header in two
  segments, a source that cannot be reached, a connection aborted before
  accept().
  What is not in `Env` is a client that asks in turn: each request when the
  state of the session allows it, and TEARDOWN whenever its streams are set up,
  before PLAY, during the download or after it, since it cannot know how far
  the download is.
- `Net` of `SipServer`: loss, duplication, retransmission, unknown requests.
  Without them messages are delivered once, but in any order. `faulty` records
  that one of them has happened: two properties are about behaviours in which
  none has, yet.
- `WatchToEnd` of `MtServer`: RTSP clients play, and send TEARDOWN after the end.
- `Env` of `RtspDialog`: requests split or joined by TCP, a session without
  OPTIONS, GET_PARAMETER, clients that leave. `odd` records what has happened.
- `Env` of `MediaFile`: further streams, files without video or that cannot be
  opened, damaged packets, missing or failing coders.
- `Env` of `SocketFunc`: which system calls may fail, and that send() may take
  part of a buffer.

## Runs

Passing runs:

| Run | Shows | Bounds |
|---|---|---|
| `pipeline_any` | with everything in `Env`: contexts, the armed timer, the frame bound and the order of each stream | 2 fillers, a file of 3 frames and ENDOFSTREAM, queue of 4 (fills and is refilled), 3 descriptors |
| `pipeline_orderly` | with one PLAY per session: TEARDOWN stops a stream for good, sessions do not mix, no self-deadlock, no race, no filler waits for a signal that does not come; a played file arrives completely | 3 fillers, hence 3 sessions, 7 descriptors that change something, any number of others; 6 frames and a queue of 4: the filler meets the full queue and the half-empty signal more than once, with timeouts in between and during the refills |
| `event_queue` | list, valid timeouts, refinement of `TimerQueue` | 3 events at a time (insertion before the first, in the middle, at the end), seconds of 4 units, timers of 100 and 1000 ms, clock to 4 |
| `sip_any` | counter and sockets under any network; audio and orphan slots until it has repeated something | 2 calls, 2 slots: duplicates and unknown messages fill the table, further INVITEs are rejected; 2 messages on their way, 3 sockets (one more than slots) |
| `rtsp_any` | descriptors watched are open, the client is connected, what TEARDOWN would close is its own; a client that plays a downloaded file has a filler | `Variant = "server"`, everything in `Env`, 9 descriptors, 3 connections, file of 2 pieces: closed numbers are used again |
| `mt_orderly` | the movie theatre: no descriptor is lost or closed for another, four sockets per session, whole file, nothing left; the SIP side is a `SipServer`; the audience is dismissed | 2 RTSP sessions with 2 streams, 2 callers in 2 slots, 10 descriptors (all can be in use), file of 2 pieces; 1 SIP message on its way, so that the callers' interleaving with the sessions is what varies (their own reordering is in `sip_any`) |
| `rtsp_dialog` | sessions are private, CSeq agrees, every request is answered | 3 connections (a session after an ordinary one and after one broken off), 1 keep-alive each, requests in 2 parts |
| `sockets` | no leak, nothing half set up, every byte once, every call returns | 3 addresses of 5 kinds (each failure first, in between and last), 2 descriptors, buffers of 3 bytes |
| `media_file` | frames of one stream each, in file order, one end | 3 streams of 3 kinds, all files of up to 4 packets, played twice (nothing of the first PLAY is left in the second) |
| `rtp_any` | numbering, buffer, fragments | packets of 6 bytes, units of 1 to 20 bytes (up to 5 fragments, all remainders), numbers modulo 8 (wrap), one listener |

`CHECK_DEADLOCK FALSE` stands in every configuration but those of
`RtpPacketizer`: the bounds on descriptors, connections, time and calls make
behaviours end, and a server in select(NULL) without clients really stops.

Type invariants that `*Proofs` prove for every instance are not run again
(`StreamPipeline`, `SipServer`, `RtpPacketizer`, `SocketFunc`, `RtspServer`,
`RtspDialog`, `MediaFile`).

Violations:

| Run | The code | What is said |
|---|---|---|
| `event_queue_carry` | a timer of 100 ms pushed late in a second is put before a frame that is earlier (`server.c:147`, `187`) | "Retains the order of the queue, smallest time first" (`server.h:81`) |
| `rtp_fragments` | a fragmented unit loses its end (`send_frame.c:54`, `78`) | "Packs frame into one or more RTP packets" (`send_frame.h:11`) |

### Known deviations

The passing runs state under which assumptions the code is right. Each of these
assumptions is needed; the following changes of a configuration make TLC find
the property violated, by behaviour the code really has.

| Property | Configuration and change | Cause |
|---|---|---|
| `LockReleased` | `MCPipelineOrderly`: as invariant | a filler cancelled in `pthread_cond_wait` ends as owner of `queuelock` (`server.c:222`, `538`); `StreamCompletes` excepts it (`LockLost`) |
| `NoQueueRace` | `MCPipelineOrderly`: `fast_download` | `push_timeout` without the lock (`server.c:670`) meets a filler inside the list, against "A mutex and a conditional variable used when reading of modifying the queue" (`server.c:31`) |
| `TeardownStops`, `SessionIsolated` | `MCPipelineOrderly`: `fast_download` | PLAY launches a second filler, TEARDOWN cancels the second only |
| `NoLostWakeup` | `MCPipelineOrderly`: `Prompt = FALSE` | both dummy timers expire before the filler waits; no signal comes after them |
| `NoStall` | `MCPipelineOrderly`: as invariant | the timeout branch has no next timeout when it has handled the last event of the queue (`server.c:386`), also if it signals the filler right then (400); what the filler pushes later wakes nobody until a descriptor is ready. Both dummy timers are used up before the filler's first frame, against "Dummy timeouts to start queue/timeout mechanism" (`server.c:669`) |
| `StreamCompletes` | `MCPipelineOrderly`: `Spec /\ Fairness`, without `KeepAlive` | the same: select() without a timeout, with frames in the queue |
| `StreamInOrder` | `MCPipelineAny`: `Pts <- Interleaved` | the frame read last need not have the latest stamp, ENDOFSTREAM takes it all the same (`server.c:255`) |
| `OneClient` | `MCRtspAny`: as invariant, `Env = {"disconnect"}`, `MaxFd = 12` | the end of a download that was given up makes the server forget its client, against "we can only serve one client at a time" (`mt_server.c:213`, `412`) |
| `SessionSockets` | `MCRtspAny`: as invariant, `Env = {"disconnect"}` | `setupsreceived` survives a disconnect (`mt_server.c:412`) |
| `FileWhole` | the same | a second DESCRIBE starts a second download into `videofd` |
| `TeardownIsSafe` | `MCRtspAny`: as invariant, `Env = {}`, either `Variant` | PLAY, then TEARDOWN during the download, which RTSP allows: an unset `threadid` is cancelled and `tinfo` is NULL (`mt_server.c:419`, `server.c:534`), against "Kill thread and empty queue" (`mt_server.c:420`) |
| (mode `no_filler`) | `MCRtspAny`: `Env = {"disconnect"}` | `rtspmsg` of the session before is looked at again when a connection ends, so that a client that only hangs up runs the TEARDOWN branch (`mt_server.c:419`) |
| `SocketsClosed` | `MCRtspAny`: as invariant, `Env = {}` | `audiofds[1]` is overwritten (`server.c:623`) |
| `ClientHeard` | `MCRtspAny`: as invariant, `MaxConns = 4`, `MaxFd = 10` | `mediafd` keeps the number of a closed descriptor; it takes four connections to see |
| `ServerSurvives` | `MCRtspAny`: as invariant | a failed recv() is fatal (`socketfunc.c:260`) |
| `NoOrphanSlot`, `AudioOnlyToCalls` | `MCSipAny`: without the condition `~faulty` | a repeated INVITE takes a second slot |
| `OnlyCallers` | `MCSipAny`: as invariant | an unknown request reads as an INVITE (`sipfunctions.c:37`) |
| `EveryCallEnds` | `MCSipAny`: as property of `FairSpec`, `Net = {}`, `MaxInFlight = 9`, no symmetry | an ACK after ENDOFSTREAM: no BYE is sent |
| `AudienceDismissed` | `MCMtOrderly`: `WatchToEnd = FALSE` | TEARDOWN empties the queue (`mt_server.c:423`): callers are sent no BYE and keep their slots |
| `NoGarbage` | `MCMediaFile`: as invariant | a packet of a third stream is pushed as an audio frame without data, against "Returns: videoIdx if it's a video frame, audioIdx if it's an audio frame" (`parse_video.h:29`) |
| `CallReturns` | `MCSockets`: `udp_nosocket` | `continue` skips `res = res->ai_next` (`socketfunc.c:321`) |
| `MarkerLast` | `MCRtpFragments`: as invariant | marker tested against `spaceForData`, last fragment against `spaceForData - 2` |
| `AudioNumbered` | `MCRtpAny`: as invariant, two listeners | one counter for all SIP clients (`mt_server.c:149`) |

Comments that the code does not keep, seen while translating: `client_socket`
returns -1 and `resolve_host` too where `socketfunc.h:12-25` says that they
exit, and no caller looks at the result; the answer to PLAY loses its Session
header, since `^=` (`httpmsg.c:268`) clears a flag that the request has set;
`start_mt_server` does not compare the result of `server_socket` with
`PORTINUSE`.

### Fairness

- `StreamPipeline`: weak fairness of the steps the loop takes once it has begun
  them and of each filler: the kernel schedules threads that can run. Strong
  fairness of the timeout, which a ready descriptor or the mutex disables again
  and again: descriptors are not ready, and the mutex not taken, at every moment
  at which a timeout is due. `KeepAlive`: there is always a descriptor that
  becomes ready later, as RTSP clients repeat a request to keep a session alive.
  `StreamCompletes` needs it, see the deviations. Nothing else is assumed of
  clients.
- `SipServer`: the loop reads what has arrived and handles the end of the
  media; clients answer. Callers need not call or hang up.
- `MtServer`: the loop takes its turns, in whatever order descriptors are ready,
  the HTTP server delivers the file, fillers reach its end; callers answer.
  Nobody need call, hang up or play: `AudienceDismissed` begins where an RTSP
  client has sent PLAY and a caller listens.
- `RtspDialog`: the loop reads what has arrived, the client reads its answers.
- `SocketFunc`: a function that runs makes its next system call.

## Proofs

Every safety property that a passing run checks is also proved, for every value
of the constants, and so are the two refinements. The theorems assume the named
ASSUMEs of the modules, and where the table below gives one a hypothesis. The
hypotheses on `Env`, `Prompt` and `Carry` are no convenience: TLC finds each
property of a row violated when one of them alone is dropped.

| Theorems | Hypothesis | Why |
|---|---|---|
| `FramesLeaveInOrder` | `IncreasingPts`: the stamps of the file increase | the queue sorts frames by their stamps, so only then file order is what it promises |
| `SessionsApart`, `TeardownEndsStream` | `OneFiller`: no `repeat_play`, `fast_download`, `disconnect` | a second filler of the same session survives its TEARDOWN |
| `OwnerNeverLocks`, `PlayMeetsNoFiller` | `OneFiller`, no `spurious` | the wait has no predicate: a filler woken for nothing owns a mutex nobody expects it to own |
| `NoWakeupIsLost` | `OneFiller`, `Prompt` | the last signal is lost on a filler that is not back yet; with two fillers it may wake the other |
| `FileIsWhole`, `SessionHasSockets` | no `disconnect` | `setupsreceived` and `mediafd` survive it |
| `SocketsAreClosed`, `TheatreSessions` | no `disconnect`, `any_request`, `fast_download`; `mt_server.c` | `server.c` overwrites `audiofds[1]`; a download that ends before PLAY makes both open a context |
| `NoNegativeTimeout`, `RetainsOrder`, `TimerQueueImplemented` | `~Carry` | `event_queue_carry` |

The others need none: `CtxSafe`, `MasterOpen`, `TeardownHasFiller` or `NoForeignSession` hold
with everything in `Env`. `AudioOnlyToCalls`, `NoOrphanSlot` and `CSeqMatches` carry
their conditions (`faulty`, `odd`) themselves, as the runs check them.

- `StreamPipelineProofs`. `CtxSafe` is not inductive: TEARDOWN closes a context,
  and the filler is out of the way because it has died during the sleep.
  `FillerInv` says that a filler is unborn until it is launched, has events left
  until it has pushed ENDOFSTREAM, is inside the queue only with the mutex, and
  has an open context while it lives; `MainInv` that the loop owns the mutex
  through its locked sections and that TEARDOWN has a filler to cancel, dead
  when its context is closed. `Inv`, their conjunction with `TypeOK`, is
  preserved by every action (`MainStepInv`, `ClientStepInv`, `FillerStepInv`);
  the rest is inductive relative to it.
  `TimerArmed`: with the timer armed, fillers only add events, and every step
  that removes some disarms it. `FramesBounded` becomes inductive when fillers
  past the size test count as well (`CountInv`). `StreamInOrder`: an insertion
  keeps the relative order of what is there, and the event of a filler whose
  stamps increase goes behind its own. `SessionInv` says that the one filler of
  a session lives while the client plays and that the queue has events of no
  other; `LockInv` who can own the mutex, and that a filler is signalled only
  when it will find room; `WakeupInv` that a filler reaches its wait with
  something in the queue, and stays there only while there is an event whose
  timeout will signal it.
- `EventQueueProofs`. First the stamps: `calculate_delta` is exact; `timecmp`
  has the right sign when the second stamp is normalised and the first overruns
  by less than a second; stamps of frames are normalised, and timers of whole
  seconds. What is left is exactly the timers of 100 ms and ENDOFSTREAM.
  Then the list. `IsList(l, q, n)` says that the pointers of `l` represent the
  sequence `q` of `n` nodes: `first` and `last` are its ends, `next` and `prev`
  its neighbours. `insque` puts a node anywhere into the sequence (`LinkIn`,
  `InsqueIs`), `pull_event` takes the first (`PullList`), `push_event` finds the
  place behind the last event that is not later (`StepperAt`, `PushList`). Its
  walk along `prev`, and that of the abstraction along `next`, are recursive
  functions over a list; what they return is shown for the least position at
  which it would be wrong (`Least`), which needs no induction rule. `Inv` is
  `TypeInv`, `ListInv` (a sequence of all allocated events, in order if stamps
  do not carry) and `WakeInv` (an armed timer is valid, has an event, and does
  not expire before that is due). `WellFormed` needs no hypothesis. Each step
  lemma also names the step of `TimerQueue` that it is, which gives
  `TimerQueueImplemented`.
- `SipServerProofs`. Neither `CountExact` nor `SocketsOwned` is inductive alone:
  `Invite` writes a slot that is free only because the counter is exact
  (`FreeSlot`), and `RemoveClient` closes one socket, which leaves the others
  open only because no two slots share it. `ServerInv` is their conjunction.
  `CallInv` ties, while nothing has been lost or repeated, the state of each
  caller to the messages of its call that are on their way and to the one slot
  it has; `AudioOnlyToCalls` and `NoOrphanSlot` follow from it.
- `RtspServerProofs`. `CoreInv` says that what `masterfds` watches and what
  `streamclient` and `tinfo` remember is open and of its use, and survives that
  numbers are taken again because `socket()` returns the lowest that is free
  (`LowestFree`). `ClientConnected` has to live with `mediafd` keeping the number
  of a closed descriptor: `RetakenInv` says that a client that was given this
  number sits on the lowest one and that nothing below it is closed. For
  clients that stay, `DownloadInv` (one download, in one descriptor),
  `SessionInv` (the places for sockets are filled two by two and emptied
  together) and `NoStraySocket` are inductive together; `PlayedInv`, that
  a client that plays a downloaded file has its ThreadInfo, needs no condition,
  `ContextInv` the further ones of the table.
  Then the movie theatre. Every RTSP step leaves the descriptors of use `sip`
  alone (`Kept`), a step of the SIP side is one of `SipServer` under the mapping
  `open <- {f : fds[f].use = "sip"}`, which together is `TheatreImplementsSip`;
  `SipSocketsOwned` then is `SocketOwnership` of `SipServerProofs`, instantiated.
  `CoreInv` and the session invariants are shown to survive the steps of the SIP
  side, `ClientInv` is not: SIP clients close descriptors below the client's.
- `RtspDialogProofs`. `SessionInv`: whatever names a session, on its way or
  remembered, names one drawn for this connection, since `rtspmsg.session` does
  not outlive a request. `CSeqMatches` is hard because the CSeq of the answer to
  DESCRIBE was guessed when OPTIONS was answered: `Opening` lists what can be on
  its way until then.
- `MediaFileProofs`. `FramesInOrder` needs that the stream found last is the
  last of its kind (`MaxIsLargest`), hence one stream, and that nothing comes
  after ENDOFSTREAM (`NotEnded`).
- `SocketFuncProofs`. `HeldReady` speaks of the moments between calls only;
  `OpenInv` of `SocketInv` says what is true during one: at most one descriptor
  is in work, no caller has it, it has exactly the calls behind it that `pc`
  implies for the function running (`SoFar`), and every other descriptor is as
  its caller holds it. Each way out (`ReturnInv`, `DoneInv`, `ExitInv`) and the
  way to the next address (`NextAddrInv`) is a lemma. `SendInv` says that `sent`
  and `left` add up to `size`.
- `RtpPacketizerProofs`. The invariant adds `FrameInv`: `seqnum` is the loop's
  counter plus `numpkts`, and `firstpacket` holds exactly before the first
  packet. Lemmas about `Plus` and a case analysis of `Part` (`PartCases`) are
  stated once.

Only model-checked: liveness (`StreamCompletes`, `AudienceDismissed`,
`EveryRequestAnswered`, `CallReturns`), since fairness and ENABLED are out of
the prover's reach, and the two violations, which are counterexamples.

## Not modelled

- The text of messages: HTTP GET and the split of the URL (`http_get`,
  `parse_url`), dates, SDP, SIP headers that are copied through. They are
  fixed formatting with no state.
- What libavformat and libavcodec do inside, decoded samples, frame rates and
  the base64 of the parameter sets.
- Name resolution, the accessors of socket addresses, logging, start-up.
- The stand-alone programs `tester.c`, `rtptest.c`, `parse_example.c` and
  `timeouttest.c`, which are not linked into the server.
- Heap blocks other than the nodes of the event queue, and the length of
  strings.

## Plan

1. Done: all components modelled and checked; every safety property of the
   passing runs and both refinements proved.
2. Next: the safety half of the liveness properties, so that what is left to
   fairness is small: for `CallReturns` that every step of a call comes nearer
   to its end, for `EveryRequestAnswered` that a request on its way and an
   answer to come are the same in number. An abstract specification of one
   stream (push in order, deliver in order, stop) that `StreamPipeline`
   implements for each filler, from `StreamInOrder` and `SessionInv`.
