------------------------------ MODULE MediaFile ------------------------------
(***************************************************************************)
(* How the downloaded file becomes frames: initialize_context and          *)
(* get_frame (parse_video.c) and what fill_queue (server.c) makes of their *)
(* results, for one PLAY after the other.  libavformat and libavcodec are  *)
(* external: a file is a list of streams and a list of packets, each the   *)
(* number of its stream, and every call may fail as it is documented to.   *)
(*                                                                         *)
(* Time, the queue and the threads are in StreamPipeline.                  *)
(***************************************************************************)
EXTENDS Integers, SequencesExt

CONSTANTS
  MaxStreams,  \* bound: streams of the file
  MaxPackets,  \* bound: packets of the file
  MaxPlays,    \* bound: PLAYs in a run
  Env          \* what files and libraries may do that the code does not expect

\* "streams": more than one stream of a kind, or of neither kind; "no_video":
\* no stream of video that has an SDP; "unreadable": the file cannot be opened
\* or parsed; "truncated": a packet cannot be read; "codec": a coder is missing
\* or cannot be opened; "encode": it fails.
ASSUME MediaAssumption ==
  /\ MaxStreams \in Nat /\ MaxPackets \in Nat /\ MaxPlays \in Nat
  /\ Env \subseteq {"streams", "no_video", "unreadable", "truncated", "codec", "encode"}

Kinds == {"video", "audio", "data"}
Stream == 0 .. MaxStreams - 1
NoStream == -1
EOF == [type |-> "ENDOFSTREAM", packet |-> 0]
GARBAGE == 0      \* no packet: a frame that nothing was written to

VARIABLES
  streams,   \* the kind of each stream of the file
  packets,   \* the stream of each packet, in file order
  pos,       \* packets read by av_read_frame
  videoIdx, audioIdx,
  events,    \* what the filler has pushed for this PLAY
  state,     \* "stopped", "filling", or how the program ended
  plays,     \* PLAYs so far
  faulted    \* history: libavcodec or the file have failed during this PLAY

file == <<streams, packets>>
vars == <<file, pos, videoIdx, audioIdx, events, state, plays, faulted>>

KindAt(i) == streams[i + 1]
Has(kind) == \E i \in DOMAIN streams : streams[i] = kind

Init ==
  /\ streams \in UNION {[1 .. n -> Kinds] : n \in 1 .. MaxStreams}
  /\ packets \in UNION {[1 .. n -> 0 .. Len(streams) - 1] : n \in 0 .. MaxPackets}
  /\ Has("video") \/ "no_video" \in Env
  /\ streams \in {<<"video">>, <<"video", "audio">>, <<"audio", "video">>, <<"audio">>}
       \/ "streams" \in Env
  /\ pos = 0 /\ videoIdx = NoStream /\ audioIdx = NoStream
  /\ events = <<>>
  /\ state = "stopped" /\ plays = 0
  /\ faulted = FALSE

-----------------------------------------------------------------------------
(***************************************************************************)
(* initialize_context                                                      *)
(***************************************************************************)

\* The last stream of that kind, counted from zero; -1 if there is none.
LastOf(kind) == Max({i \in DOMAIN streams : streams[i] = kind} \cup {0}) - 1

\* Without a video stream there are no sprop-parameter-sets and the program
\* ends; the context is opened anew for every PLAY.
initialize_context ==
  /\ state = "stopped" /\ plays < MaxPlays /\ plays' = plays + 1
  /\ pos' = 0 /\ events' = <<>> /\ faulted' = FALSE
  /\ videoIdx' = LastOf("video") /\ audioIdx' = LastOf("audio")
  /\ state' = IF Has("video") THEN "filling" ELSE "exit"
  /\ UNCHANGED file

\* It returns -1 and the caller goes on with the pointers it has not been given.
Unreadable ==
  /\ state = "stopped" /\ "unreadable" \in Env
  /\ state' = "undefined"
  /\ UNCHANGED <<file, pos, videoIdx, audioIdx, events, plays, faulted>>

-----------------------------------------------------------------------------
(***************************************************************************)
(* One round of fill_queue: get_frame, and the event for its result.       *)
(***************************************************************************)
Index == packets[pos + 1]
More == state = "filling" /\ pos < Len(packets)

\* Mutant: the video is taken to be the first stream.
TypeOfFirst(index) == IF index = 0 THEN "VIDEO" ELSE "AUDIO"

\* fill_queue asks of get_frame's result only whether it is the video stream.
TypeOf(index) == IF index = videoIdx THEN "VIDEO" ELSE "AUDIO"

Push(type, packet) ==
  /\ events' = Append(events, [type |-> type, packet |-> packet])
  /\ UNCHANGED <<state, faulted>>

EndOfFile == events' = Append(events, EOF) /\ state' = "stopped"

VideoFrame ==
  /\ More /\ pos' = pos + 1
  /\ Index = videoIdx
  /\ Push(TypeOf(Index), pos')
  /\ UNCHANGED <<file, videoIdx, audioIdx, plays>>

\* Decoded and encoded again.  -1 for a missing coder reads as the end of the
\* file.  A negative length of the encoder is passed on to malloc and memcpy.
AudioFrame ==
  /\ More /\ pos' = pos + 1
  /\ Index # videoIdx /\ Index = audioIdx
  /\ \/ Push(TypeOf(Index), pos')
     \/ "codec" \in Env /\ EndOfFile /\ faulted' = TRUE
     \/ "encode" \in Env /\ state' = "undefined" /\ UNCHANGED <<events, faulted>>
  /\ UNCHANGED <<file, videoIdx, audioIdx, plays>>

\* Mutant: -1 for a stream that is neither.
OtherFrameEnds ==
  /\ More /\ pos' = pos + 1
  /\ Index \notin {videoIdx, audioIdx}
  /\ EndOfFile
  /\ UNCHANGED <<file, videoIdx, audioIdx, plays, faulted>>

\* Nothing is written to the frame, and it is pushed.
OtherFrame ==
  /\ More /\ pos' = pos + 1
  /\ Index \notin {videoIdx, audioIdx}
  /\ Push(TypeOf(Index), GARBAGE)
  /\ UNCHANGED <<file, videoIdx, audioIdx, plays>>

\* av_read_frame fails, at the end of the file or at a damaged packet.
ReadFails ==
  /\ state = "filling"
  /\ \/ pos = Len(packets) /\ UNCHANGED faulted
     \/ More /\ "truncated" \in Env /\ faulted' = TRUE
  /\ EndOfFile
  /\ UNCHANGED <<file, pos, videoIdx, audioIdx, plays>>

Next == initialize_context \/ Unreadable \/ VideoFrame \/ AudioFrame \/ OtherFrame \/ ReadFails

Spec == Init /\ [][Next]_vars

-----------------------------------------------------------------------------
(***************************************************************************)
(* Properties.                                                             *)
(***************************************************************************)
TypeOK ==
  /\ streams \in Seq(Kinds) /\ packets \in Seq(Stream)
  /\ pos \in 0 .. Len(packets)
  /\ videoIdx \in Stream \cup {NoStream} /\ audioIdx \in Stream \cup {NoStream}
  /\ events \in Seq([type : {"VIDEO", "AUDIO", "ENDOFSTREAM"}, packet : 0 .. MaxPackets])
  /\ state \in {"stopped", "filling", "exit", "undefined"}
  /\ plays \in 0 .. MaxPlays /\ faulted \in BOOLEAN

\* The packets of stream i that have been read, and the places among the events
\* of the frames of a type that have data.
ReadOf(i) == {n \in 1 .. pos : packets[n] = i}
Frames(type) == {k \in 1 .. Len(events) : events[k].type = type /\ events[k].packet # GARBAGE}

\* What is sent as `type` is stream i, every packet of it that has been read, each
\* once and in file order.
Sends(type, i) ==
  /\ {events[k].packet : k \in Frames(type)} = ReadOf(i)
  /\ \A j, k \in Frames(type) : j < k => events[j].packet < events[k].packet

\* The frames sent as video are those of the one video stream, all of them and
\* in file order, and those sent as audio, where they have data at all, those of
\* the one audio stream; nothing of another stream is sent as either.  (The
\* packet of an audio frame that cannot be converted is lost.)
FramesInOrder ==
  state = "filling" =>
    /\ KindAt(videoIdx) = "video" /\ Sends("VIDEO", videoIdx)
    /\ audioIdx # NoStream => KindAt(audioIdx) = "audio"
    /\ Sends("AUDIO", audioIdx)

\* A stream ends once, and only after the whole file has been read, unless the
\* file or a coder has failed.
EndsAtEnd ==
  /\ \A k \in 1 .. Len(events) : events[k] = EOF => k = Len(events)
  /\ events # <<>> /\ Last(events) = EOF => faulted \/ pos = Len(packets)

\* No frame without data is pushed: false of the code, for a file with a third
\* stream.
NoGarbage ==
  \A k \in 1 .. Len(events) : events[k] # EOF => events[k].packet # GARBAGE
=============================================================================
