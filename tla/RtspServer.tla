------------------------------ MODULE RtspServer ------------------------------
(***************************************************************************)
(* The RTSP session and the download in the select loop of start_server    *)
(* (server.c) and start_mt_server (mt_server.c): which descriptors are     *)
(* open, what they are used for, which of them select() watches, and what  *)
(* the server believes about its one client.  Descriptors are numbers, the *)
(* lowest free one first, as in POSIX.                                     *)
(*                                                                         *)
(* The frames and the filler threads are in StreamPipeline; all that is    *)
(* left of them here is the ThreadInfo with its open media file.           *)
(***************************************************************************)
EXTENDS Integers, Sequences, FiniteSets

CONSTANTS
  Variant,   \* "server" or "mt_server": which of the two loops
  MaxFd,     \* bound: descriptors of the process
  MaxConns,  \* bound: RTSP connections in a run
  Chunks,    \* pieces in which recv() returns the media file
  Env        \* which unfriendly things clients and the network may do

ASSUME RtspAssumption ==
  /\ Variant \in {"server", "mt_server"}
  /\ MaxFd \in Nat /\ MaxFd >= 4
  /\ MaxConns \in Nat
  /\ Chunks \in Nat \ {0}
  /\ Env \subseteq {"any_request", "disconnect", "fast_download", "short_download",
                    "split_header", "aborted", "refused", "reset"}

Fd == 1 .. MaxFd
NoFd == -1        \* also tinfo = NULL
FREED == -2       \* tinfo dangles
videofd == 1      \* "videotemp.mp4", opened first
listenfd == 2
Unused == [use |-> "none", conn |-> 0]

\* The types of parse_rtsp, and any other request.
Types == {"OPTIONS", "DESCRIBE", "SETUP", "PLAY", "TEARDOWN", "OK"}
Messages == Types \cup {"other"}

VARIABLES
  fds,         \* what each descriptor is, and for which connection or download
  masterfds,   \* the descriptors select() watches
  client,      \* streamclient
  rtspmsg,     \* type of the RTSPMsg parsed last
  mediafd, mediastate, videoleft, media_downloaded,
  file,        \* the contents of videofd: from which download each piece is
  downloads,   \* number of downloads started
  tinfo,       \* the descriptor of tinfo->ctx
  playing,     \* history: this client has been answered a PLAY
  conns,       \* connections so far
  mode         \* "run", or why C says nothing more about the program

media == <<mediafd, mediastate, videoleft, media_downloaded, file, downloads>>
vars == <<fds, masterfds, client, rtspmsg, media, tinfo, playing, conns, mode>>

\* init_client
NewClient == [state |-> "NOCLIENT", rtspfd |-> NoFd, setups |-> 0,
              audio |-> <<NoFd, NoFd>>, video |-> <<NoFd, NoFd>>]

Init ==
  /\ fds = [f \in Fd |-> IF f = videofd THEN [use |-> "file", conn |-> 0]
                         ELSE IF f = listenfd THEN [use |-> "listen", conn |-> 0]
                         ELSE Unused]
  /\ masterfds = {listenfd}
  /\ client = NewClient
  /\ rtspmsg = "unset"
  /\ mediafd = NoFd /\ mediastate = "IDLE" /\ videoleft = 0
  /\ media_downloaded = FALSE /\ file = <<>> /\ downloads = 0
  /\ tinfo = NoFd
  /\ playing = FALSE
  /\ conns = 0
  /\ mode = "run"

-----------------------------------------------------------------------------
(***************************************************************************)
(* Descriptors.                                                            *)
(***************************************************************************)
Unopened(t) == {f \in Fd : t[f] = Unused}
Room(n) == Cardinality(Unopened(fds)) >= n
Lowest(t) == CHOOSE f \in Unopened(t) : \A g \in Unopened(t) : f <= g
Opened(t, use, conn) == [t EXCEPT ![Lowest(t)] = [use |-> use, conn |-> conn]]
Closed(t, fs) == [f \in Fd |-> IF f \in fs THEN Unused ELSE t[f]]
Open(use) == {f \in Fd : fds[f].use = use}

Undefined(why) ==
  /\ mode' = why
  /\ UNCHANGED <<fds, masterfds, client, rtspmsg, media, tinfo, playing, conns>>

-----------------------------------------------------------------------------
(***************************************************************************)
(* New connections.                                                        *)
(***************************************************************************)
Connect ==
  /\ mode = "run" /\ conns < MaxConns /\ Room(1)
  /\ conns' = conns + 1

Accept ==
  /\ Connect
  /\ client.state = "NOCLIENT"
  /\ fds' = Opened(fds, "rtsp", conns')
  /\ client' = [client EXCEPT !.rtspfd = Lowest(fds), !.state = "CLICONNECTED"]
  /\ masterfds' = masterfds \cup {Lowest(fds)}
  /\ UNCHANGED <<rtspmsg, media, tinfo, playing, mode>>

\* Accepted and closed at once.
AcceptBusy ==
  /\ Connect
  /\ client.state # "NOCLIENT"
  /\ UNCHANGED <<fds, masterfds, client, rtspmsg, media, tinfo, playing, mode>>

\* accept() fails because the connection is gone: -1 is put into the fd_set.
AcceptAborted ==
  /\ "aborted" \in Env
  /\ mode = "run" /\ client.state = "NOCLIENT"
  /\ Undefined("bad_fd")

-----------------------------------------------------------------------------
(***************************************************************************)
(* The media source.                                                       *)
(***************************************************************************)
MediaReady(state) == mode = "run" /\ mediafd \in masterfds /\ mediastate = state

\* GETSENT: peek, find the end of the header, read it, find the length.
MediaHeader ==
  /\ MediaReady("GETSENT")
  /\ mediastate' = "RECVTCP"
  /\ videoleft' = Chunks
  /\ UNCHANGED <<fds, masterfds, client, rtspmsg, mediafd, media_downloaded, file,
                 downloads, tinfo, playing, conns, mode>>

\* The header arrives in two segments: strstr finds no end of it.
MediaHeaderSplit ==
  /\ "split_header" \in Env
  /\ MediaReady("GETSENT")
  /\ Undefined("no_header")

\* RECVTCP: a piece that is not the last.
MediaBody ==
  /\ MediaReady("RECVTCP")
  /\ videoleft > 1
  /\ videoleft' = videoleft - 1
  /\ file' = Append(file, fds[mediafd].conn)
  /\ UNCHANGED <<fds, masterfds, client, rtspmsg, mediafd, mediastate,
                 media_downloaded, downloads, tinfo, playing, conns, mode>>

\* A new ThreadInfo: initialize_context opens the file.  t: the descriptors.
NewThreadInfo(t) ==
  /\ tinfo' = Lowest(t)
  /\ fds' = Opened(t, "ctx", 0)

\* Mutant: the ThreadInfo is not kept.
MediaCompleteNoInfo ==
  /\ MediaReady("RECVTCP")
  /\ videoleft <= 1
  /\ playing \/ "fast_download" \in Env
  /\ file' = Append(file, fds[mediafd].conn)
  /\ videoleft' = 0
  /\ masterfds' = masterfds \ {mediafd}
  /\ fds' = Opened(Closed(fds, {mediafd, videofd}), "ctx", 0)
  /\ media_downloaded' = TRUE
  /\ mediastate' = "STREAM"
  /\ UNCHANGED <<client, rtspmsg, mediafd, downloads, tinfo, playing, conns, mode>>

\* The last piece: both descriptors are closed, a filler is launched.
MediaComplete ==
  /\ MediaReady("RECVTCP")
  /\ videoleft <= 1
  /\ playing \/ "fast_download" \in Env
  /\ file' = Append(file, fds[mediafd].conn)
  /\ videoleft' = 0
  /\ masterfds' = masterfds \ {mediafd}
  /\ NewThreadInfo(Closed(fds, {mediafd, videofd}))
  /\ media_downloaded' = TRUE
  /\ mediastate' = "STREAM"
  /\ UNCHANGED <<client, rtspmsg, mediafd, downloads, playing, conns, mode>>

\* The source closes early: the descriptor goes, mediastate stays.
MediaShort ==
  /\ "short_download" \in Env
  /\ MediaReady("RECVTCP")
  /\ masterfds' = masterfds \ {mediafd}
  /\ fds' = Closed(fds, {mediafd})
  /\ UNCHANGED <<client, rtspmsg, media, tinfo, playing, conns, mode>>

-----------------------------------------------------------------------------
(***************************************************************************)
(* Requests.  Whatever is neither listenfd nor mediafd is taken for the    *)
(* client, also the source of a download that has been given up.           *)
(***************************************************************************)

\* A request of unknown type leaves the type at 0, which is OPTIONS.
parse_rtsp(m) == IF m = "other" THEN "OPTIONS" ELSE m

\* What the peer of descriptor i may send.  A client that asks in turn may leave
\* with a TEARDOWN once it has set up its streams, before PLAY, during the
\* download or after it: RTSP lets it, and it cannot see media_downloaded.
MaySend(i) ==
  IF fds[i].use = "media" THEN {"other"}
  ELSE IF "any_request" \in Env THEN Messages
  ELSE CASE client.state = "CLICONNECTED" -> {"OPTIONS", "DESCRIBE"}
         [] client.state = "SDPSENT" -> {"SETUP"}
         [] client.state = "SETUPCOMPLETE" /\ ~playing -> {"PLAY", "TEARDOWN"}
         [] client.state = "SETUPCOMPLETE" /\ playing -> {"TEARDOWN"}
         [] OTHER -> {}

\* A message of type `type` has been read from descriptor i.
Request(i, type) ==
  /\ mode = "run"
  /\ i \in masterfds \ {listenfd, mediafd}
  /\ \E m \in MaySend(i) : parse_rtsp(m) = type
  /\ rtspmsg' = type

\* Nothing changes: OPTIONS is answered, a request out of turn is not.
Ignored(i, type) ==
  /\ Request(i, type)
  /\ type # "TEARDOWN"
  /\ CASE client.state = "CLICONNECTED" -> type # "DESCRIBE"
       [] client.state = "SDPSENT" -> type # "SETUP"
       [] client.state = "SETUPCOMPLETE" -> type # "PLAY"
       [] OTHER -> TRUE
  /\ UNCHANGED <<fds, masterfds, client, media, tinfo, playing, conns, mode>>

\* Mutant: the file is fetched again for every client.
DescribeAgain(i) ==
  /\ Request(i, "DESCRIBE")
  /\ client.state = "CLICONNECTED"
  /\ client' = [client EXCEPT !.state = "SDPSENT"]
  /\ Room(1)
  /\ downloads' = downloads + 1
  /\ fds' = Opened(fds, "media", downloads')
  /\ mediafd' = Lowest(fds)
  /\ masterfds' = masterfds \cup {Lowest(fds)}
  /\ mediastate' = "GETSENT"
  /\ UNCHANGED <<videoleft, media_downloaded, file, tinfo, playing, conns, mode>>

\* DESCRIBE starts the download, unless the file is there already.
Describe(i) ==
  /\ Request(i, "DESCRIBE")
  /\ client.state = "CLICONNECTED"
  /\ client' = [client EXCEPT !.state = "SDPSENT"]
  /\ IF media_downloaded
       THEN /\ mediastate' = "STREAM"
            /\ UNCHANGED <<fds, masterfds, mediafd, downloads>>
       ELSE /\ Room(1)
            /\ downloads' = downloads + 1
            /\ fds' = Opened(fds, "media", downloads')
            /\ mediafd' = Lowest(fds)
            /\ masterfds' = masterfds \cup {Lowest(fds)}
            /\ mediastate' = "GETSENT"
  /\ UNCHANGED <<videoleft, media_downloaded, file, tinfo, playing, conns, mode>>

\* The media source cannot be reached: client_socket returns -1, which is put
\* into the fd_set like a descriptor.
DescribeRefused(i) ==
  /\ "refused" \in Env
  /\ mode = "run" /\ i \in masterfds \ {listenfd, mediafd}
  /\ "DESCRIBE" \in MaySend(i) /\ client.state = "CLICONNECTED"
  /\ ~media_downloaded
  /\ Undefined("bad_fd")

\* SETUP, the first for audio and any other for video: an RTP and an RTCP
\* socket to the host of rtspfd.  server.c keeps the RTCP socket of the video
\* in audiofds[1].
Setup(i) ==
  LET conn == fds[client.rtspfd].conn
      t    == Opened(fds, "rtp", conn)
      rtp  == Lowest(fds)
      rtcp == Lowest(t)
  IN  /\ Request(i, "SETUP")
      /\ client.state = "SDPSENT"
      /\ Room(2)
      /\ fds' = Opened(t, "rtp", conn)
      /\ client' =
           IF client.setups = 0
             THEN [client EXCEPT !.setups = 1, !.audio = <<rtp, rtcp>>]
           ELSE IF Variant = "server"
             THEN [client EXCEPT !.setups = @ + 1, !.video[1] = rtp, !.audio[2] = rtcp,
                                 !.state = "SETUPCOMPLETE"]
           ELSE [client EXCEPT !.setups = @ + 1, !.video = <<rtp, rtcp>>,
                               !.state = "SETUPCOMPLETE"]
      /\ UNCHANGED <<masterfds, media, tinfo, playing, conns, mode>>

\* PLAY: once the file is there, with a new ThreadInfo and a new filler.
Play(i) ==
  /\ Request(i, "PLAY")
  /\ client.state = "SETUPCOMPLETE"
  /\ playing' = TRUE
  /\ IF media_downloaded THEN Room(1) /\ NewThreadInfo(fds) ELSE UNCHANGED <<fds, tinfo>>
  /\ UNCHANGED <<masterfds, client, media, conns, mode>>

\* Mutants: the client is not reset; one of its sockets is not closed.
EndSessionNoInit(i) ==
  IF tinfo \in Fd
    THEN /\ fds' = Closed(fds, {i, client.video[1], client.video[2],
                                client.audio[1], client.audio[2], tinfo})
         /\ masterfds' = masterfds \ {i}
         /\ tinfo' = FREED
         /\ client' = [client EXCEPT !.state = "NOCLIENT"]
         /\ playing' = FALSE
         /\ UNCHANGED mode
    ELSE mode' = "no_filler" /\ UNCHANGED <<fds, masterfds, tinfo, client, playing>>
EndSessionKeepRtcp(i) ==
  IF tinfo \in Fd
    THEN /\ fds' = Closed(fds, {i, client.video[1], client.audio[1], client.audio[2], tinfo})
         /\ masterfds' = masterfds \ {i}
         /\ tinfo' = FREED
         /\ client' = NewClient
         /\ playing' = FALSE
         /\ UNCHANGED mode
    ELSE mode' = "no_filler" /\ UNCHANGED <<fds, masterfds, tinfo, client, playing>>

\* The TEARDOWN branch: close the connection, the sockets and the context.
\* Without a ThreadInfo there is no thread to cancel and no context to close:
\* before the first PLAY of a session, and until the download has ended.
EndSession(i) ==
  IF tinfo \in Fd
    THEN /\ fds' = Closed(fds, {i, client.video[1], client.video[2],
                                client.audio[1], client.audio[2], tinfo})
         /\ masterfds' = masterfds \ {i}
         /\ tinfo' = FREED
         /\ client' = NewClient
         /\ playing' = FALSE
         /\ UNCHANGED mode
    ELSE mode' = "no_filler" /\ UNCHANGED <<fds, masterfds, tinfo, client, playing>>

Teardown(i) ==
  /\ Request(i, "TEARDOWN")
  /\ EndSession(i)
  /\ UNCHANGED <<media, conns>>

\* Mutants: the descriptor stays in masterfds; the state is left alone.
HangupNoClr(i) ==
  /\ mode = "run"
  /\ i \in masterfds \ {listenfd, mediafd}
  /\ fds[i].use = "media" \/ "disconnect" \in Env
  /\ fds' = Closed(fds, {i})
  /\ client' = [client EXCEPT !.state = "NOCLIENT"]
  /\ playing' = FALSE
  /\ UNCHANGED <<masterfds, rtspmsg, media, tinfo, conns, mode>>
HangupKeepState(i) ==
  /\ mode = "run"
  /\ i \in masterfds \ {listenfd, mediafd}
  /\ fds[i].use = "media" \/ "disconnect" \in Env
  /\ fds' = Closed(fds, {i})
  /\ masterfds' = masterfds \ {i}
  /\ playing' = FALSE
  /\ UNCHANGED <<client, rtspmsg, media, tinfo, conns, mode>>

\* recv() returns 0: the descriptor is closed and the client forgotten, then
\* the type of the message parsed before is looked at again.
Hangup(i) ==
  /\ mode = "run"
  /\ i \in masterfds \ {listenfd, mediafd}
  /\ fds[i].use = "media" \/ "disconnect" \in Env
  /\ \/ /\ rtspmsg # "TEARDOWN"
        /\ fds' = Closed(fds, {i})
        /\ masterfds' = masterfds \ {i}
        /\ client' = [client EXCEPT !.state = "NOCLIENT"]
        /\ playing' = FALSE
        /\ UNCHANGED <<tinfo, mode>>
     \/ rtspmsg = "TEARDOWN" /\ EndSession(i)
     \/ /\ rtspmsg = "unset"
        /\ mode' = "no_request"
        /\ UNCHANGED <<fds, masterfds, client, tinfo, playing>>
  /\ UNCHANGED <<rtspmsg, media, conns>>

\* A connection is reset, by a client or by the media source: recv_all calls
\* fatal_error, which ends the server.
Reset(i) ==
  /\ "reset" \in Env
  /\ mode = "run" /\ i \in masterfds \ {listenfd}
  /\ Undefined("exit")

-----------------------------------------------------------------------------
Source == MediaHeader \/ MediaBody \/ MediaComplete

Next ==
  \/ Accept \/ AcceptBusy \/ AcceptAborted
  \/ Source \/ MediaHeaderSplit \/ MediaShort
  \/ \E i \in masterfds :
       \/ \E type \in Types : Ignored(i, type)
       \/ Describe(i) \/ DescribeRefused(i) \/ Setup(i)
       \/ Play(i) \/ Teardown(i) \/ Hangup(i) \/ Reset(i)

Spec == Init /\ [][Next]_vars

-----------------------------------------------------------------------------
(***************************************************************************)
(* Properties.                                                             *)
(***************************************************************************)
TypeOK ==
  /\ fds \in [Fd -> [use : {"none", "file", "listen", "rtsp", "media", "rtp", "ctx", "sip"},
                     conn : Nat]]
  /\ masterfds \subseteq Fd
  /\ client \in [state : {"NOCLIENT", "CLICONNECTED", "SDPSENT", "SETUPCOMPLETE"},
                 rtspfd : Fd \cup {NoFd}, setups : Nat,
                 audio : [1 .. 2 -> Fd \cup {NoFd}], video : [1 .. 2 -> Fd \cup {NoFd}]]
  /\ rtspmsg \in Types \cup {"unset"}
  /\ mediafd \in Fd \cup {NoFd}
  /\ mediastate \in {"IDLE", "GETSENT", "RECVTCP", "STREAM"}
  /\ videoleft \in 0 .. Chunks
  /\ media_downloaded \in BOOLEAN /\ playing \in BOOLEAN
  /\ file \in Seq(Nat) /\ downloads \in Nat
  /\ tinfo \in Fd \cup {NoFd, FREED}
  /\ conns \in 0 .. MaxConns
  /\ mode \in {"run", "exit", "bad_fd", "no_header", "no_filler", "no_request"}

\* select() watches open descriptors only; another one would end the server
\* with EBADF, and its number could belong to something else by then.
MasterOpen == \A f \in masterfds : fds[f].use \in {"listen", "rtsp", "media"}

\* While a client is served its connection is open and watched, whatever other
\* descriptors have been closed since: SETUP can ask for the address of its peer.
\* (A client that got the number mediafd still holds is another matter: see
\* ClientHeard.)
ClientConnected ==
  client.state # "NOCLIENT" /\ client.rtspfd # mediafd =>
    client.rtspfd \in masterfds /\ fds[client.rtspfd].use = "rtsp"

\* What TEARDOWN is going to close is still what it was when the number was
\* stored: the sockets of the client are RTP sockets and tinfo has an open
\* context.  A number closed before could belong to someone else by then.
RememberedOpen ==
  /\ \A k \in {1, 2} : \A f \in {client.audio[k], client.video[k]} :
       f # NoFd => fds[f].use = "rtp"
  /\ tinfo \in Fd => fds[tinfo].use = "ctx"

\* One client or the media source that resets its connection does not end the
\* service for the others.
ServerSurvives == mode # "exit"

\* What arrives at mediafd is "data from the media source": a client is not
\* given the number that mediafd still holds.
ClientHeard == client.state # "NOCLIENT" => client.rtspfd # mediafd

\* "We can only serve one client at a time."
OneClient == Cardinality(Open("rtsp")) <= 1

\* "Open up the needed ports": a client that may PLAY has its own four sockets.
SessionSockets ==
  LET sockets == IF Variant = "server"
                   THEN {client.audio[1], client.audio[2], client.video[1]}
                   ELSE {client.audio[1], client.audio[2], client.video[1], client.video[2]}
  IN  client.state = "SETUPCOMPLETE" =>
        /\ Cardinality(sockets) = IF Variant = "server" THEN 3 ELSE 4
        /\ \A f \in sockets : f \in Fd /\ fds[f] = [use |-> "rtp", conn |-> fds[client.rtspfd].conn]

\* "Closing RTSP client sockets (RTP&RTCP)": no socket, and no context, is
\* left of a session that is over.
SocketsClosed ==
  client.state = "NOCLIENT" => Open("rtp") = {} /\ (Open("ctx") # {} => tinfo \in Fd)

\* The file that is streamed is what one download has sent, in one piece.
FileWhole ==
  media_downloaded => \E d \in 1 .. downloads : file = [n \in 1 .. Chunks |-> d]

\* A client that plays a file that is there has a filler: whatever was launched,
\* overwritten, torn down or hung up before, its TEARDOWN finds a thread to
\* cancel and a context to close.
TeardownHasFiller == mode = "no_filler" => ~(playing /\ media_downloaded)

\* "Kill thread and empty queue": when a client that has been answered its PLAY
\* leaves with a TEARDOWN there is a thread to kill.
TeardownIsSafe == playing => mode # "no_filler"
=============================================================================
