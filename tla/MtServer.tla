------------------------------ MODULE MtServer ------------------------------
(***************************************************************************)
(* The movie theatre as a whole (start_mt_server): the RTSP session and    *)
(* the download of RtspServer and the client table of SipServer in one     *)
(* select loop, with one table of descriptors and one stream of frames     *)
(* between them.  Numbers that one part closes are given to the other; the *)
(* stream that an RTSP client starts is what the SIP clients listen to,    *)
(* and its end dismisses them.                                             *)
(***************************************************************************)
EXTENDS RtspServer

CONSTANTS
  MAXCLIENTS, Calls, NULL, NoCallId, MaxInFlight, MaxStreams, Net,  \* as in SipServer
  WatchToEnd   \* a RTSP client plays, and sends TEARDOWN only after the end of the media

ASSUME MtAssumption ==
  /\ WatchToEnd \in BOOLEAN
  /\ MAXCLIENTS \in Nat \ {0} /\ MaxInFlight \in Nat /\ MaxStreams \in Nat
  /\ IsFiniteSet(Calls) /\ NoCallId \notin Calls
  /\ NULL \notin [callid : Calls \cup {NoCallId}, sockfd : Fd, ackrecvd : BOOLEAN]
  /\ Net \subseteq {"lose", "duplicate", "retransmit", "unknown"}

VARIABLES
  clientlist, nclients, ended, atend, toserver, toclients, caller, faulty,  \* as in SipServer
  streaming    \* the contexts whose ENDOFSTREAM is still to be handled

sipvars == <<clientlist, nclients, ended, atend, toserver, toclients, caller, faulty>>
mtvars == <<vars, sipvars, streaming>>

\* The RTP sockets of the SIP clients are the descriptors of use "sip".
Sip == INSTANCE SipServer WITH Sockets <- Fd, open <- {f \in Fd : fds[f].use = "sip"}

MtInit == Init /\ Sip!Init /\ streaming = {}

-----------------------------------------------------------------------------
\* A new ThreadInfo starts a stream.  TEARDOWN cancels the filler that was
\* launched last and empties the queue, with whatever ENDOFSTREAM is in it; a
\* TEARDOWN before there is a filler is none of a client that watches to the end.
Streams ==
  \/ /\ tinfo' \in Fd \ {tinfo}
     /\ streaming' = streaming \cup {tinfo'}
  \/ /\ tinfo \in Fd /\ tinfo' = FREED
     /\ WatchToEnd => streaming = {}
     /\ streaming' \in SUBSET (streaming \ {tinfo})
  \/ /\ tinfo' = tinfo /\ UNCHANGED streaming
     /\ WatchToEnd /\ mode' = "no_filler" => playing /\ media_downloaded

\* A step of the RTSP side.
Session(step) == UNCHANGED sipvars /\ step /\ Streams

\* What a SIP message may do to the descriptors: INVITE opens a socket, BYE and
\* 200 OK close one.
SipDescriptors(type) ==
  \/ UNCHANGED fds
  \/ type = "INVITE" /\ Room(1) /\ fds' = Opened(fds, "sip", 0)
  \/ type \in {"BYE", "OK"} /\ \E f \in Open("sip") : fds' = Closed(fds, {f})

\* siplistenfd is ready.
SipMessage(m) ==
  /\ mode = "run"
  /\ UNCHANGED <<masterfds, client, rtspmsg, media, tinfo, playing, conns, mode, streaming>>
  /\ SipDescriptors(Sip!parsesipmsg(m).type)
  /\ Sip!Receive(m)

\* Mutant: a BYE to every caller in the table, its ACK there or not.
MediaFinishedForAll ==
  /\ mode = "run"
  /\ UNCHANGED vars
  /\ \E s \in streaming : streaming' = streaming \ {s}
  /\ ended < MaxStreams /\ ended' = ended + 1
  /\ atend' = {clientlist[k].callid : k \in Sip!Occupied} \cap Calls
  /\ toclients' = toclients \cup {Sip!Msg("BYE", clientlist[k].callid) : k \in Sip!Occupied}
  /\ UNCHANGED <<clientlist, nclients, toserver, caller, faulty>>

\* The timeout branch finds the ENDOFSTREAM of a filler.
MediaFinished ==
  /\ mode = "run"
  /\ UNCHANGED vars
  /\ \E s \in streaming : streaming' = streaming \ {s}
  /\ Sip!EndOfStream

\* Callers, and the network between them and the server.
Caller(c) ==
  /\ UNCHANGED <<vars, streaming>>
  /\ Sip!ClientStep(c)

CallerStarts(c) ==
  /\ UNCHANGED <<vars, streaming>>
  /\ Sip!Call(c) \/ Sip!HangUp(c)

MtNext ==
  \/ Session(Next)
  \/ \E m \in toserver : SipMessage(m)
  \/ MediaFinished
  \/ \E c \in Calls : Caller(c) \/ CallerStarts(c)

MtSpec == MtInit /\ [][MtNext]_mtvars

\* What the loop finds to do without an RTSP client.
Loop == MediaFinished \/ Session(Source) \/ \E m \in toserver : SipMessage(m)

\* The loop takes its turns, in whatever order its descriptors are ready, and
\* callers answer.  Nobody need call, hang up or play.
MtFairSpec ==
  /\ MtSpec
  /\ WF_mtvars(Loop)
  /\ WF_mtvars(\E c \in Calls : Caller(c))

-----------------------------------------------------------------------------
(***************************************************************************)
(* Properties.  Those of RtspServer are checked here as well.              *)
(***************************************************************************)
\* No handler of RTSP closes the socket of a SIP client, or takes its number,
\* and none of SIP leaks one: the descriptors of SIP clients are exactly those
\* in the table, each in one slot.
SipSocketsOwned == Sip!SocketsOwned

\* With the RTSP side next to it, in one loop and on one table of descriptors,
\* the SIP side does what it does alone: SipServer is implemented, with the
\* descriptors of use "sip" for its sockets.
ImplementsSipServer == Sip!Spec

\* The RTSP client has sent PLAY, and what it waits for, the end of the download
\* or of the stream, has not come.
ShowGoesOn == playing /\ (streaming # {} \/ ~media_downloaded)

\* "Sending BYE to SIP clients": a download that is waited for ends, the stream
\* starts and ends, and who listens to it is out of the table afterwards.
AudienceDismissed ==
  \A c \in Calls :
    (ShowGoesOn /\ \E k \in Sip!SlotsOf(c) : clientlist[k].ackrecvd)
      ~> (Sip!SlotsOf(c) = {})
=============================================================================
