-------------------------- MODULE RtpPacketizerProofs --------------------------
(***************************************************************************)
(* Proofs about RtpPacketizer for every packet size, every set of frame    *)
(* sizes, every set of listeners and every number of sequence numbers.     *)
(***************************************************************************)
EXTENDS RtpPacketizer, TLAPS

-----------------------------------------------------------------------------
(***************************************************************************)
(* Sequence numbers.                                                       *)
(***************************************************************************)

\* Division with remainder is unique.
LEMMA Remainder ==
  ASSUME NEW m \in Nat \ {0}, NEW q \in Int, NEW r \in 0 .. m - 1
  PROVE  (q * m + r) % m = r
<1> DEFINE x == q * m + r
           d == x \div m
           s == x % m
<1>1. x \in Int /\ d \in Int /\ s \in 0 .. m - 1 /\ x = d * m + s
  OBVIOUS
<1>2. (q - d) * m = s - r
  BY <1>1
<1>3. q - d < 1 /\ q - d > -1
  BY <1>1, <1>2
<1> QED
  BY <1>1, <1>2, <1>3

LEMMA PlusNumber ==
  ASSUME NEW n \in Nat, NEW k \in Nat
  PROVE  Plus(n, k) \in Number
BY PacketAssumption DEF Plus, Number

LEMMA PlusZero == \A n \in Number : Plus(n, 0) = n
BY PacketAssumption DEF Plus, Number

\* k numbers after n, and one more.
LEMMA PlusOne ==
  ASSUME NEW n \in Nat, NEW k \in Nat
  PROVE  Plus(Plus(n, k), 1) = Plus(n, k + 1)
<1> DEFINE x == n + k
           d == x \div SEQ
           s == x % SEQ
<1>1. x \in Nat /\ d \in Int /\ s \in 0 .. SEQ - 1 /\ x = d * SEQ + s
  BY PacketAssumption
<1> HIDE DEF x, d, s
<1>2. CASE s + 1 < SEQ
  <2>1. (d * SEQ + (s + 1)) % SEQ = s + 1 /\ (0 * SEQ + (s + 1)) % SEQ = s + 1
    BY <1>1, <1>2, PacketAssumption, Remainder
  <2>2. x + 1 = d * SEQ + (s + 1) /\ s + 1 = 0 * SEQ + (s + 1)
    BY <1>1, PacketAssumption
  <2>3. (x + 1) % SEQ = (s + 1) % SEQ
    BY <2>1, <2>2
  <2> QED
    BY <2>3 DEF Plus, x, s
<1>3. CASE s + 1 = SEQ
  <2>1. ((d + 1) * SEQ + 0) % SEQ = 0 /\ (1 * SEQ + 0) % SEQ = 0
    BY <1>1, PacketAssumption, Remainder
  <2>2. (d + 1) * SEQ = d * SEQ + SEQ
    BY <1>1, PacketAssumption
  <2>3. x + 1 = (d + 1) * SEQ + 0 /\ s + 1 = 1 * SEQ + 0
    BY <1>1, <1>3, <2>2, PacketAssumption
  <2>4. (x + 1) % SEQ = (s + 1) % SEQ
    BY <2>1, <2>3
  <2> QED
    BY <2>4 DEF Plus, x, s
<1> QED
  BY <1>1, <1>2, <1>3, PacketAssumption

-----------------------------------------------------------------------------
(***************************************************************************)
(* One packet.                                                             *)
(***************************************************************************)
LEMMA PartCases ==
  ASSUME NEW f \in Frame, f.remains > 0
  PROVE  /\ Part(f) \in {"single", "start", "middle", "end"}
         /\ Part(f) \in {"single", "start"} <=> f.firstpacket
         /\ Part(f) \in {"single", "end"} <=> f.remains - Copied(f) <= 0
         /\ f.remains - Copied(f) >= 0
         /\ HeaderLen(f) + Copied(f) <= Space /\ Copied(f) > 0
         /\ Copied(f) \in Nat
<1>1. /\ f.remains \in Int /\ f.firstpacket \in BOOLEAN
      /\ Space \in Nat /\ Space >= 4
  BY PacketAssumption DEF Frame
<1>2. CASE f.firstpacket /\ f.remains > Space
  <2>1. Part(f) = "start"
    BY <1>1, <1>2 DEF Part
  <2> QED
    BY <1>1, <1>2, <2>1 DEF Copied, HeaderLen
<1>3. CASE f.firstpacket /\ f.remains <= Space
  <2>1. Part(f) = "single"
    BY <1>1, <1>3 DEF Part
  <2> QED
    BY <1>1, <1>3, <2>1 DEF Copied, HeaderLen
<1>4. CASE ~f.firstpacket /\ f.remains <= Space - 2
  <2>1. Part(f) = "end"
    BY <1>1, <1>4 DEF Part
  <2> QED
    BY <1>1, <1>4, <2>1 DEF Copied, HeaderLen
<1>5. CASE ~f.firstpacket /\ f.remains > Space - 2
  <2>1. Part(f) = "middle"
    BY <1>1, <1>5 DEF Part
  <2> QED
    BY <1>1, <1>5, <2>1 DEF Copied, HeaderLen
<1> QED
  BY <1>1, <1>2, <1>3, <1>4, <1>5

LEMMA NextPacketType ==
  ASSUME NEW f \in Frame, f.remains > 0
  PROVE  /\ NextPacket(f) \in Packet
         /\ NextPacket(f).part = Part(f) /\ NextPacket(f).seq = f.seqnum
         /\ From(f) \in Nat
<1>1. Part(f) \in {"single", "start", "middle", "end"} /\ Copied(f) \in Nat
  BY PartCases
<1>2. f.datastep \in Nat /\ f.remains \in Int /\ f.seqnum \in Number /\ Space \in Nat
  BY PacketAssumption DEF Frame
<1>3. From(f) \in Nat
  BY <1>2 DEF From
<1>4. HeaderLen(f) \in Int /\ PayloadLen(f) \in Int
  BY <1>2 DEF HeaderLen, PayloadLen
<1>5. Through(f) \in Int
  BY <1>1, <1>4 DEF Through
<1>6. (f.remains <= Space) \in BOOLEAN
  BY <1>2
<1> QED
  BY <1>1, <1>2, <1>3, <1>5, <1>6 DEF NextPacket, Packet

-----------------------------------------------------------------------------
(***************************************************************************)
(* The invariant.  The caller's number and the count that send_video_frame *)
(* is going to return make up its own number; the first packet is still    *)
(* due while no packet of the frame has been sent, and then not all of the *)
(* unit can have been.                                                     *)
(***************************************************************************)
FrameInv ==
  frame # NONE =>
    /\ frame.seqnum = Plus(rtpseqno_video, frame.numpkts)
    /\ frame.firstpacket <=> sent = <<>>
    /\ frame.remains >= 0
    /\ frame.firstpacket => frame.remains > 0

Inv == TypeOK /\ FrameInv /\ VideoNumbered /\ Fragmented

LEMMA NoneFacts == /\ NONE \notin Frame /\ NONE \notin Number
                   /\ Number \subseteq Nat
<1>1. Number \subseteq Nat
  BY PacketAssumption DEF Number
<1> QED
  BY <1>1, PacketAssumption, NoneAssumption

LEMMA InitInv == Init => Inv
<1> SUFFICES ASSUME Init PROVE Inv
  OBVIOUS
<1>1. TypeOK
  BY DEF Init, TypeOK
<1> QED
  BY <1>1 DEF Init, Inv, FrameInv, VideoNumbered, Fragmented

LEMMA SendVideoInv ==
  ASSUME Inv, NEW size \in Sizes, SendVideo(size)
  PROVE  Inv'
<1>1. size \in Nat /\ size > 0
  BY PacketAssumption
<1>2. /\ frame' \in Frame /\ frame'.remains > 0 /\ frame'.firstpacket
      /\ frame'.seqnum = rtpseqno_video /\ frame'.numpkts = 0
      /\ sent' = <<>> /\ rtpseqno_video' = rtpseqno_video
  BY <1>1 DEF Inv, TypeOK, SendVideo, Frame
<1>3. TypeOK'
  BY <1>2 DEF Inv, TypeOK, SendVideo, audio
<1>4. FrameInv'
  BY <1>2, PlusZero DEF Inv, TypeOK, FrameInv, Frame
<1>5. VideoNumbered'
  <2>1. frame = NONE /\ frame' # NONE /\ lastvideo' = lastvideo
    BY <1>2, NoneFacts DEF SendVideo, Idle
  <2> QED
    BY <1>2, <2>1 DEF Inv, VideoNumbered
<1>6. Fragmented'
  BY <1>2 DEF Fragmented
<1> QED
  BY <1>3, <1>4, <1>5, <1>6 DEF Inv

LEMMA SendPacketInv ==
  ASSUME Inv, SendPacket
  PROVE  Inv'
<1> DEFINE p == NextPacket(frame)
<1>1. frame \in Frame /\ frame.remains > 0 /\ frame.remains \in Int
  BY DEF Inv, TypeOK, SendPacket, Frame
<1>2. /\ p \in Packet /\ p.part = Part(frame) /\ From(frame) \in Nat
  BY <1>1, NextPacketType
<1>3. /\ Part(frame) \in {"single", "start"} <=> frame.firstpacket
      /\ Part(frame) \in {"single", "end"} <=> frame.remains - Copied(frame) <= 0
      /\ frame.remains - Copied(frame) >= 0 /\ Copied(frame) \in Nat
  BY <1>1, PartCases
<1>4. /\ frame' \in Frame /\ frame' # NONE
      /\ frame'.remains = frame.remains - Copied(frame)
      /\ frame'.firstpacket = FALSE
      /\ frame'.numpkts = frame.numpkts + 1
      /\ frame'.seqnum = Plus(frame.seqnum, 1)
  <2>1. Plus(frame.seqnum, 1) \in Number
    BY <1>1, PlusNumber, NoneFacts DEF Frame
  <2>2. frame.size \in Nat /\ frame.datastep \in Nat /\ frame.numpkts \in Nat
    BY <1>1 DEF Frame
  <2>3. From(frame) + Copied(frame) \in Nat /\ frame.remains - Copied(frame) \in Int
    BY <1>1, <1>2, <1>3
  <2>4. frame' = [size |-> frame.size, remains |-> frame.remains - Copied(frame),
                  datastep |-> From(frame) + Copied(frame), firstpacket |-> FALSE,
                  numpkts |-> frame.numpkts + 1, seqnum |-> Plus(frame.seqnum, 1)]
    BY DEF SendPacket
  <2>5. frame' \in Frame
    BY <2>1, <2>2, <2>3, <2>4 DEF Frame
  <2> QED
    BY <2>4, <2>5, NoneFacts
<1>5. sent' = Append(sent, p) /\ sent \in Seq(Packet) /\ sent' \in Seq(Packet)
  BY <1>2 DEF SendPacket, Inv, TypeOK
<1>6. /\ lastvideo' = frame.seqnum /\ rtpseqno_video' = rtpseqno_video
      /\ UNCHANGED audio
  BY DEF SendPacket
<1>7. TypeOK'
  BY <1>1, <1>4, <1>5, <1>6 DEF Inv, TypeOK, Frame, audio
<1>8. FrameInv'
  <2>1. frame.seqnum = Plus(rtpseqno_video, frame.numpkts)
    BY DEF Inv, FrameInv, SendPacket
  <2>2. rtpseqno_video \in Nat /\ frame.numpkts \in Nat
    BY <1>1, NoneFacts DEF Inv, TypeOK, Frame
  <2>3. frame'.seqnum = Plus(rtpseqno_video', frame'.numpkts)
    BY <1>4, <1>6, <2>1, <2>2, PlusOne
  <2>4. sent' # <<>>
    BY <1>5
  <2> QED
    BY <1>3, <1>4, <2>3, <2>4 DEF FrameInv
<1>9. VideoNumbered'
  BY <1>4, <1>6 DEF VideoNumbered
<1>10. Fragmented'
  <2> SUFFICES ASSUME NEW k \in 1 .. Len(sent')
               PROVE  /\ sent'[k].part \in {"single", "start"} <=> k = 1
                      /\ sent'[k].part \in {"single", "end"} <=>
                           k = Len(sent') /\ frame'.remains <= 0
    BY <1>4 DEF Fragmented
  <2>1. Len(sent') = Len(sent) + 1 /\ Len(sent) \in Nat
    BY <1>5
  <2>2. CASE k = Len(sent')
    <3>1. sent'[k] = p
      BY <1>5, <2>1, <2>2
    <3>2. frame.firstpacket <=> Len(sent) = 0
      BY <1>5 DEF Inv, FrameInv, SendPacket
    <3> QED
      BY <1>2, <1>3, <1>4, <2>1, <2>2, <3>1, <3>2
  <2>3. CASE k # Len(sent')
    <3>1. k \in 1 .. Len(sent) /\ sent'[k] = sent[k]
      BY <1>5, <2>1, <2>3
    <3>2. /\ sent[k].part \in {"single", "start"} <=> k = 1
          /\ ~(sent[k].part \in {"single", "end"})
      BY <1>1, <3>1 DEF Inv, Fragmented, SendPacket
    <3> QED
      BY <2>3, <3>1, <3>2
  <2> QED
    BY <2>2, <2>3
<1> QED
  BY <1>7, <1>8, <1>9, <1>10 DEF Inv

LEMMA FrameSentInv ==
  ASSUME Inv, FrameSent
  PROVE  Inv'
<1>1. frame \in Frame /\ frame # NONE /\ frame.numpkts \in Nat
  BY DEF Inv, TypeOK, FrameSent, Frame
<1>2. rtpseqno_video' = frame.seqnum /\ frame' = NONE
      /\ sent' = sent /\ lastvideo' = lastvideo /\ UNCHANGED audio
  BY <1>1 DEF Inv, FrameInv, FrameSent
<1>3. TypeOK'
  BY <1>1, <1>2 DEF Inv, TypeOK, Frame, audio
<1>4. FrameInv'
  BY <1>2 DEF FrameInv
<1>5. VideoNumbered'
  BY <1>1, <1>2 DEF Inv, VideoNumbered
<1>6. Fragmented'
  BY <1>1, <1>2 DEF Inv, Fragmented, FrameSent
<1> QED
  BY <1>3, <1>4, <1>5, <1>6 DEF Inv

LEMMA SendOneInv ==
  ASSUME Inv, SendOne
  PROVE  Inv'
<1>1. /\ lastvideo' = rtpseqno_video /\ rtpseqno_video' = Plus(rtpseqno_video, 1)
      /\ frame = NONE /\ frame' = NONE /\ sent' = sent /\ UNCHANGED audio
  BY DEF SendOne, Idle
<1>2. rtpseqno_video' \in Number
  BY <1>1, PlusNumber, NoneFacts DEF Inv, TypeOK
<1>3. TypeOK'
  BY <1>1, <1>2 DEF Inv, TypeOK, audio
<1> QED
  BY <1>1, <1>3 DEF Inv, FrameInv, VideoNumbered, Fragmented

LEMMA AudioInv ==
  ASSUME Inv, StartAudio \/ \E l \in Listeners : SendAudio(l)
  PROVE  Inv'
<1>1. UNCHANGED <<rtpseqno_video, frame, sent, lastvideo>>
  BY DEF StartAudio, SendAudio
<1>2. TypeOK'
  <2>1. CASE StartAudio
    BY <1>1, <2>1 DEF Inv, TypeOK, StartAudio
  <2>2. ASSUME NEW l \in Listeners, SendAudio(l) PROVE TypeOK'
    <3>1. rtpseqno_audio' \in Number
      BY <2>2, PlusNumber, NoneFacts DEF Inv, TypeOK, SendAudio
    <3> QED
      BY <1>1, <2>2, <3>1 DEF Inv, TypeOK, SendAudio
  <2> QED
    BY <2>1, <2>2
<1> QED
  BY <1>1, <1>2 DEF Inv, FrameInv, VideoNumbered, Fragmented

LEMMA TeardownInv ==
  ASSUME Inv, Teardown
  PROVE  Inv'
<1>1. /\ rtpseqno_video' \in Number /\ lastvideo' = NONE
      /\ frame = NONE /\ UNCHANGED <<frame, sent, turn>>
      /\ rtpseqno_audio' = Plus(rtpseqno_video', 9)
      /\ lastaudio' = [l \in Listeners |-> NONE]
  BY DEF Teardown, Idle
<1>2. rtpseqno_audio' \in Number
  BY <1>1, PlusNumber, NoneFacts
<1>3. TypeOK'
  BY <1>1, <1>2 DEF Inv, TypeOK
<1> QED
  BY <1>1, <1>3 DEF Inv, FrameInv, VideoNumbered, Fragmented

LEMMA Invariance == Spec => []Inv
<1>1. Inv /\ [Next]_vars => Inv'
  <2> SUFFICES ASSUME Inv, [Next]_vars PROVE Inv'
    OBVIOUS
  <2>1. CASE \E size \in Sizes : SendVideo(size)
    BY <2>1, SendVideoInv
  <2>2. CASE SendPacket
    BY <2>2, SendPacketInv
  <2>3. CASE FrameSent
    BY <2>3, FrameSentInv
  <2>4. CASE SendOne
    BY <2>4, SendOneInv
  <2>5. CASE StartAudio \/ \E l \in Listeners : SendAudio(l)
    BY <2>5, AudioInv
  <2>6. CASE Teardown
    BY <2>6, TeardownInv
  <2>7. CASE UNCHANGED vars
    BY <2>7 DEF vars, Inv, TypeOK, FrameInv, VideoNumbered, Fragmented
  <2> QED
    BY <2>1, <2>2, <2>3, <2>4, <2>5, <2>6, <2>7 DEF Next
<1> QED
  BY InitInv, <1>1, PTL DEF Spec

-----------------------------------------------------------------------------
(***************************************************************************)
(* The theorems.                                                           *)
(***************************************************************************)

\* All variables keep their types.
THEOREM TypeCorrect == Spec => []TypeOK
<1>1. Inv => TypeOK
  BY DEF Inv
<1> QED
  BY <1>1, Invariance, PTL

\* The packets of the video socket are numbered without gap or repetition.
THEOREM NumberedVideo == Spec => []VideoNumbered
<1>1. Inv => VideoNumbered
  BY DEF Inv
<1> QED
  BY <1>1, Invariance, PTL

\* Every unit is one packet, or a start, intermediary fragments and an end.
THEOREM FragmentShape == Spec => []Fragmented
<1>1. Inv => Fragmented
  BY DEF Inv
<1> QED
  BY <1>1, Invariance, PTL

\* sendbuf is never overrun, and send_video_frame's loop always makes progress.
THEOREM BufferSafety == Spec => []FitsBuffer
<1>1. Inv => FitsBuffer
  BY PartCases DEF Inv, TypeOK, FitsBuffer
<1> QED
  BY <1>1, Invariance, PTL
=============================================================================
