----------------------------- MODULE RtpPacketizer -----------------------------
(***************************************************************************)
(* send_frame.c: how frames become RTP packets, and how the select loops   *)
(* number them.  A NAL unit is its byte positions 1 .. size, the first of  *)
(* which is the NAL header; a packet is its number, its marker bit, which  *)
(* part of the unit it says it carries, and the positions it does carry.   *)
(***************************************************************************)
EXTENDS Integers, Sequences

CONSTANTS
  Space,      \* spaceForData: BUFSIZE without the 12 bytes of RTP header
  SEQ,        \* numbers of a uint16_t
  Sizes,      \* sizes of the NAL units of frames
  Listeners,  \* the sockets audio is sent to: one in server.c, the SIP
              \* clients in mt_server.c
  NONE

ASSUME PacketAssumption ==
  /\ Space \in Nat /\ Space >= 4
  /\ SEQ \in Nat \ {0}
  /\ Sizes \subseteq Nat \ {0}
  /\ NONE \notin Nat

VARIABLES
  rtpseqno_video, rtpseqno_audio,
  frame,      \* NONE, or the variables of send_video_frame
  sent,       \* the packets of the frame
  lastvideo,  \* history: number of the last packet on the video socket
  lastaudio,  \* history: the same for every listener
  turn        \* listeners still to be sent the audio frame

vars == <<rtpseqno_video, rtpseqno_audio, frame, sent, lastvideo, lastaudio, turn>>
audio == <<rtpseqno_audio, lastaudio, turn>>

Number == 0 .. SEQ - 1
Plus(n, k) == (n + k) % SEQ
Frame == [size : Nat, remains : Int, datastep : Nat, firstpacket : BOOLEAN,
          numpkts : Nat, seqnum : Number]
ASSUME NoneAssumption == NONE \notin Frame
Packet == [seq : Number, marker : BOOLEAN, part : {"single", "start", "middle", "end"},
           from : Nat, to : Int]

Init ==
  /\ rtpseqno_video \in Number /\ rtpseqno_audio \in Number
  /\ frame = NONE /\ sent = <<>>
  /\ lastvideo = NONE
  /\ lastaudio = [l \in Listeners |-> NONE]
  /\ turn = {}

-----------------------------------------------------------------------------
(***************************************************************************)
(* send_video_frame, one packet at a time.                                 *)
(***************************************************************************)
Idle == frame = NONE /\ turn = {}

\* A video FRAME is pulled from the queue.
SendVideo(size) ==
  /\ Idle
  /\ frame' = [size |-> size, remains |-> size, datastep |-> 1, firstpacket |-> TRUE,
               numpkts |-> 0, seqnum |-> rtpseqno_video]
  /\ sent' = <<>>
  /\ UNCHANGED <<rtpseqno_video, lastvideo, audio>>

\* Mutant: a unit that was fragmented has no last fragment.
PartAllMiddle(f) ==
  CASE f.firstpacket /\ f.remains > Space -> "start"
    [] f.firstpacket /\ f.remains <= Space -> "single"
    [] OTHER -> "middle"

\* Which part of the unit the next packet announces.
Part(f) ==
  CASE f.firstpacket /\ f.remains > Space -> "start"
    [] f.firstpacket /\ f.remains <= Space -> "single"
    [] ~f.firstpacket /\ f.remains <= Space - 2 -> "end"
    [] ~f.firstpacket /\ f.remains > Space - 2 -> "middle"

\* The bytes of FU header, the bytes copied behind it, and those that buflen
\* lets through: remains + 12, in which the FU header is not counted, or the
\* whole buffer.  Mutant: no room is left for the FU header.
HeaderLen(f) == IF Part(f) = "single" THEN 0 ELSE 2
CopiedNoHeader(f) == IF Part(f) \in {"single", "end"} THEN f.remains ELSE Space
Copied(f) == IF Part(f) \in {"single", "end"} THEN f.remains ELSE Space - 2
PayloadLen(f) == IF f.remains <= Space THEN f.remains ELSE Space

\* A fragmented unit leaves its header byte out.
From(f) == IF Part(f) = "start" THEN f.datastep + 1 ELSE f.datastep
Through(f) ==
  LET len == PayloadLen(f) - HeaderLen(f)
  IN  IF len <= 0 THEN 0 ELSE IF len <= Copied(f) THEN len ELSE Copied(f)

NextPacket(f) ==
  [seq |-> f.seqnum, marker |-> f.remains <= Space, part |-> Part(f),
   from |-> From(f), to |-> From(f) + Through(f) - 1]

\* Mutant: numpkts is not counted for the first packet.
SendPacketMiscount ==
  /\ frame # NONE /\ frame.remains > 0
  /\ sent' = Append(sent, NextPacket(frame))
  /\ lastvideo' = frame.seqnum
  /\ frame' = [frame EXCEPT !.remains = @ - Copied(frame), !.firstpacket = FALSE,
                            !.datastep = From(frame) + Copied(frame),
                            !.numpkts = IF frame.firstpacket THEN @ ELSE @ + 1,
                            !.seqnum = Plus(@, 1)]
  /\ UNCHANGED <<rtpseqno_video, audio>>

SendPacket ==
  /\ frame # NONE /\ frame.remains > 0
  /\ sent' = Append(sent, NextPacket(frame))
  /\ lastvideo' = frame.seqnum
  /\ frame' = [size |-> frame.size, remains |-> frame.remains - Copied(frame),
                datastep |-> From(frame) + Copied(frame), firstpacket |-> FALSE,
                numpkts |-> frame.numpkts + 1, seqnum |-> Plus(frame.seqnum, 1)]
  /\ UNCHANGED <<rtpseqno_video, audio>>

\* rtpseqno_video += send_video_frame(...)
FrameSent ==
  /\ frame # NONE /\ frame.remains <= 0
  /\ rtpseqno_video' = Plus(rtpseqno_video, frame.numpkts)
  /\ frame' = NONE
  /\ UNCHANGED <<sent, lastvideo, audio>>

-----------------------------------------------------------------------------
(***************************************************************************)
(* Packets that are one packet whatever happens.                           *)
(***************************************************************************)

\* The packet numbered rtpseqno_video++: send_dummy_rtp, and each of the two
\* parameter sets, which are small, when a filler is launched.
SendOne ==
  /\ Idle
  /\ lastvideo' = rtpseqno_video
  /\ rtpseqno_video' = Plus(rtpseqno_video, 1)
  /\ UNCHANGED <<frame, sent, audio>>

\* An audio FRAME is pulled from the queue, for each listener a packet.
StartAudio ==
  /\ Idle
  /\ turn' = Listeners
  /\ UNCHANGED <<rtpseqno_video, rtpseqno_audio, frame, sent, lastvideo, lastaudio>>

\* rtpseqno_audio += send_audio_frame(...)
SendAudio(l) ==
  /\ l \in turn
  /\ turn' = turn \ {l}
  /\ lastaudio' = [lastaudio EXCEPT ![l] = rtpseqno_audio]
  /\ rtpseqno_audio' = Plus(rtpseqno_audio, 1)
  /\ UNCHANGED <<rtpseqno_video, frame, sent, lastvideo>>

\* TEARDOWN: both numbers are drawn again.
Teardown ==
  /\ Idle
  /\ rtpseqno_video' \in Number
  /\ rtpseqno_audio' = Plus(rtpseqno_video', 9)
  /\ lastvideo' = NONE
  /\ lastaudio' = [l \in Listeners |-> NONE]
  /\ UNCHANGED <<frame, sent, turn>>

Next ==
  \/ \E size \in Sizes : SendVideo(size)
  \/ SendPacket \/ FrameSent \/ SendOne \/ StartAudio
  \/ \E l \in Listeners : SendAudio(l)
  \/ Teardown

Spec == Init /\ [][Next]_vars

-----------------------------------------------------------------------------
(***************************************************************************)
(* Properties.                                                             *)
(***************************************************************************)
TypeOK ==
  /\ rtpseqno_video \in Number /\ rtpseqno_audio \in Number
  /\ frame \in Frame \cup {NONE}
  /\ sent \in Seq(Packet)
  /\ lastvideo \in Number \cup {NONE}
  /\ lastaudio \in [Listeners -> Number \cup {NONE}]
  /\ turn \subseteq Listeners

\* The packets of the video socket are numbered without gap or repetition,
\* modulo 2^16, across frames, parameter sets and dummies: what send_video_frame
\* returns keeps the caller's counter in step with its own.
VideoNumbered ==
  lastvideo # NONE =>
    Plus(lastvideo, 1) = IF frame = NONE THEN rtpseqno_video ELSE frame.seqnum

\* The same for the audio packets of every listener.
AudioNumbered ==
  turn = {} => \A l \in Listeners :
    lastaudio[l] # NONE => Plus(lastaudio[l], 1) = rtpseqno_audio

\* No packet is written past the end of sendbuf, and every one makes progress.
FitsBuffer ==
  frame # NONE /\ frame.remains > 0 =>
    HeaderLen(frame) + Copied(frame) <= Space /\ Copied(frame) > 0

\* The fragments of a unit are one start, any number of intermediary ones and,
\* when all of the unit has been sent, one end; a unit that is not fragmented
\* is one packet.
Fragmented ==
  \A k \in 1 .. Len(sent) :
    /\ sent[k].part \in {"single", "start"} <=> k = 1
    /\ sent[k].part \in {"single", "end"} <=>
         k = Len(sent) /\ (frame # NONE => frame.remains <= 0)

\* send_video_frame "packs [the] frame into one or more RTP packets": when it
\* returns, they carry every byte of the unit once, the header byte apart.
Carried == UNION {sent[k].from .. sent[k].to : k \in 1 .. Len(sent)}
FramePacked ==
  frame # NONE /\ frame.remains <= 0 =>
    Carried = (IF Len(sent) = 1 THEN 1 ELSE 2) .. frame.size

\* The marker is set on the "last packet" of a frame and on no other.
MarkerLast ==
  frame # NONE =>
    \A k \in 1 .. Len(sent) : sent[k].marker <=> k = Len(sent) /\ frame.remains <= 0
=============================================================================
