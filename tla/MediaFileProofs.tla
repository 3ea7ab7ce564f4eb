---------------------------- MODULE MediaFileProofs ----------------------------
(***************************************************************************)
(* Proofs about MediaFile for every file, whatever its streams and         *)
(* packets are, and whatever may fail.                                     *)
(***************************************************************************)
EXTENDS MediaFile, SequenceTheorems, WellFoundedInduction, TLAPS

-----------------------------------------------------------------------------
(***************************************************************************)
(* The stream that initialize_context finds.                               *)
(***************************************************************************)

\* A bounded set of numbers that is not empty has a largest element.
LEMMA MaxIsLargest ==
  ASSUME NEW n \in Nat, NEW s \in SUBSET (0 .. n), s # {}
  PROVE  Max(s) \in s /\ \A i \in s : Max(s) >= i
<1> DEFINE t == {n - i : i \in s}
<1>1. t \subseteq Nat /\ t # {}
  <2>1. \A i \in s : n - i \in Nat
    OBVIOUS
  <2> QED  BY <2>1
<1>2. PICK d \in t : \A e \in t : ~ (<<e, d>> \in OpToRel(<, Nat))
  BY <1>1, WFMin, NatLessThanWellFounded, Zenon
<1>3. \A i, j \in Nat : i < j => <<i, j>> \in OpToRel(<, Nat)
  BY Zenon DEF OpToRel
<1>4. \A e \in t : ~ (e < d)
  BY <1>1, <1>2, <1>3, Zenon
<1>5. PICK x \in s : d = n - x
  BY <1>2
<1>6. \A i \in s : n - i \in t
  OBVIOUS
<1> HIDE DEF t
<1>7. \A i \in s : x >= i
  BY <1>4, <1>5, <1>6
<1> QED  BY <1>7 DEF Max

\* What the file is.
FileOK ==
  /\ streams \in Seq(Kinds) /\ Len(streams) \in 1 .. MaxStreams
  /\ packets \in Seq(Stream) /\ Len(packets) <= MaxPackets

\* The index is that of a stream of the kind, and -1 only if there is none.
LEMMA LastOfKind ==
  ASSUME FileOK, NEW kind
  PROVE  /\ LastOf(kind) \in Stream \cup {NoStream}
         /\ LastOf(kind) # NoStream => KindAt(LastOf(kind)) = kind
         /\ Has(kind) => LastOf(kind) # NoStream
<1> DEFINE n == Len(streams)
           s == {i \in DOMAIN streams : streams[i] = kind} \cup {0}
<1>1. n \in Nat /\ n <= MaxStreams /\ DOMAIN streams = 1 .. n
  BY MediaAssumption DEF FileOK
<1>2. s \in SUBSET (0 .. n) /\ s # {}
  BY <1>1
<1>3. LastOf(kind) = Max(s) - 1
  BY DEF LastOf
<1>4. Max(s) \in s /\ \A i \in s : Max(s) >= i
  BY <1>1, <1>2, MaxIsLargest
<1>5. Max(s) \in 0 .. n /\ (Max(s) # 0 => streams[Max(s)] = kind)
  BY <1>2, <1>4
<1>6. ASSUME Has(kind) PROVE Max(s) # 0
  <2>1. PICK i \in DOMAIN streams : streams[i] = kind
    BY <1>6 DEF Has
  <2>2. i \in s /\ i \in 1 .. n
    BY <1>1, <2>1
  <2>3. Max(s) >= i
    BY <1>4, <2>2
  <2> HIDE DEF s
  <2> QED  BY <1>1, <2>2, <2>3
<1> HIDE DEF s
<1> QED  BY <1>1, <1>3, <1>5, <1>6, MediaAssumption DEF Stream, NoStream, KindAt

-----------------------------------------------------------------------------
(***************************************************************************)
(* The inductive invariant.                                                *)
(***************************************************************************)

\* While the filler is at work there is a video stream, and the file has not
\* ended for it.
NotEnded ==
  state = "filling" =>
    /\ videoIdx # NoStream
    /\ \A k \in 1 .. Len(events) : events[k] # EOF

MediaInv == FileOK /\ TypeOK /\ FramesInOrder /\ NotEnded /\ EndsAtEnd

Types == {"VIDEO", "AUDIO", "ENDOFSTREAM"}
Event == [type : Types, packet : 0 .. MaxPackets]

\* Appending an event.
LEMMA Appended ==
  ASSUME events \in Seq(Event), NEW e \in Event, events' = Append(events, e)
  PROVE  /\ events' \in Seq(Event)
         /\ Len(events) \in Nat /\ Len(events') = Len(events) + 1
         /\ \A k \in 1 .. Len(events) : events'[k] = events[k]
         /\ events'[Len(events) + 1] = e
BY AppendProperties

LEMMA MediaInit == Init => MediaInv
<1> SUFFICES ASSUME Init PROVE MediaInv
  OBVIOUS
<1>1. PICK n \in 1 .. MaxStreams : streams \in [1 .. n -> Kinds]
  BY DEF Init
<1>2. streams \in Seq(Kinds) /\ Len(streams) = n /\ n \in Nat
  BY <1>1, MediaAssumption
<1>3. PICK p \in 0 .. MaxPackets : packets \in [1 .. p -> 0 .. Len(streams) - 1]
  BY DEF Init
<1>4. 0 .. Len(streams) - 1 \subseteq Stream
  BY <1>2, MediaAssumption DEF Stream
<1>5. packets \in Seq(Stream) /\ Len(packets) = p
  BY <1>3, <1>4, MediaAssumption
<1>6. FileOK
  BY <1>2, <1>3, <1>5, MediaAssumption DEF FileOK
<1>7. TypeOK
  <2>1. pos \in 0 .. Len(packets) /\ plays \in 0 .. MaxPlays
    BY <1>5, MediaAssumption DEF Init
  <2>2. events \in Seq([type : {"VIDEO", "AUDIO", "ENDOFSTREAM"}, packet : 0 .. MaxPackets])
    BY DEF Init
  <2> QED  BY <1>6, <2>1, <2>2 DEF Init, FileOK, TypeOK
<1> QED  BY <1>6, <1>7 DEF MediaInv, Init, FramesInOrder, NotEnded, EndsAtEnd

\* A PLAY opens the file from its beginning.
LEMMA ContextInv ==
  ASSUME MediaInv, initialize_context
  PROVE  MediaInv'
<1>1. FileOK'
  BY DEF MediaInv, FileOK, initialize_context, file
<1>2. FileOK
  BY DEF MediaInv
<1>3. /\ videoIdx' \in Stream \cup {NoStream} /\ audioIdx' \in Stream \cup {NoStream}
      /\ videoIdx' # NoStream => KindAt(videoIdx)' = "video"
      /\ audioIdx' # NoStream => KindAt(audioIdx)' = "audio"
      /\ state' = "filling" => videoIdx' # NoStream
  BY <1>2, LastOfKind DEF initialize_context, KindAt, file
<1>4. TypeOK'
  <2>1. pos' \in 0 .. Len(packets') /\ plays' \in 0 .. MaxPlays
    BY MediaAssumption DEF MediaInv, TypeOK, FileOK, initialize_context, file
  <2>2. events' \in Seq([type : {"VIDEO", "AUDIO", "ENDOFSTREAM"}, packet : 0 .. MaxPackets])
    BY DEF initialize_context
  <2>3. state' \in {"stopped", "filling", "exit", "undefined"} /\ faulted' \in BOOLEAN
    BY DEF initialize_context
  <2> QED  BY <1>1, <1>3, <2>1, <2>2, <2>3 DEF FileOK, TypeOK
<1>5. FramesInOrder'
  <2>1. ReadOf(videoIdx)' = {} /\ ReadOf(audioIdx)' = {}
    BY DEF initialize_context, ReadOf
  <2>2. Frames("VIDEO")' = {} /\ Frames("AUDIO")' = {}
    BY DEF initialize_context, Frames
  <2> QED  BY <1>3, <2>1, <2>2 DEF FramesInOrder, Sends
<1>6. NotEnded' /\ EndsAtEnd'
  BY <1>3 DEF initialize_context, NotEnded, EndsAtEnd
<1> QED  BY <1>1, <1>4, <1>5, <1>6 DEF MediaInv

\* A frame of one type with a packet after all those read, or without data,
\* keeps each stream whole and in order.
LEMMA FrameOrder ==
  ASSUME MediaInv, state = "filling", pos < Len(packets), pos' = pos + 1,
         UNCHANGED <<file, videoIdx, audioIdx, plays>>,
         NEW type \in {"VIDEO", "AUDIO"}, NEW n \in {GARBAGE, pos + 1},
         Push(type, n),
         NEW other \in {"VIDEO", "AUDIO"}, NEW i, Sends(other, i),
         type = other /\ n = pos + 1 <=> packets[pos + 1] = i
  PROVE  Sends(other, i)'
<1> DEFINE e == [type |-> type, packet |-> n]
           l == Len(events)
<1>1. pos \in Nat /\ pos + 1 <= MaxPackets /\ n \in 0 .. MaxPackets
  BY MediaAssumption DEF MediaInv, FileOK, TypeOK, GARBAGE
<1>2. e \in Event
  BY <1>1 DEF Event, Types
<1>3. events \in Seq(Event)
  BY DEF MediaInv, TypeOK, Event, Types
<1>4. events' = Append(events, e)
  BY DEF Push
<1> HIDE DEF e
<1>5. /\ l \in Nat /\ Len(events') = l + 1
      /\ \A k \in 1 .. l : events'[k] = events[k]
      /\ events'[l + 1] = e
  BY <1>2, <1>3, <1>4, Appended
<1> HIDE DEF l
<1>6. \A k \in Frames(other) : events[k].packet \in 1 .. pos
  BY DEF Sends, ReadOf
<1>7. CASE type = other /\ n = pos + 1
  <2>1. e.type = other /\ e.packet = pos + 1 /\ e.packet # GARBAGE
    BY <1>1, <1>7 DEF e, GARBAGE
  <2>2. Frames(other)' = Frames(other) \cup {l + 1}
    BY <1>5, <2>1 DEF Frames, l
  <2>3. ReadOf(i)' = ReadOf(i) \cup {pos + 1}
    BY <1>1, <1>7 DEF ReadOf, file
  <2>4. Frames(other) \subseteq 1 .. l
    BY DEF Frames, l
  <2>5. \A k \in Frames(other) : events'[k].packet = events[k].packet
    BY <1>5, <2>4
  <2>6. {events'[k].packet : k \in Frames(other)'} = ReadOf(i)'
    BY <1>5, <2>1, <2>2, <2>3, <2>5 DEF Sends
  <2>7. \A j, k \in Frames(other)' : j < k => events'[j].packet < events'[k].packet
    <3> SUFFICES ASSUME NEW j \in Frames(other)', NEW k \in Frames(other)', j < k
                 PROVE  events'[j].packet < events'[k].packet
      OBVIOUS
    <3>1. j \in Frames(other)
      BY <1>5, <2>2, <2>4
    <3>2. CASE k \in Frames(other)
      BY <2>5, <3>1, <3>2 DEF Sends
    <3>3. CASE k = l + 1
      <4>1. events'[j].packet \in 1 .. pos
        BY <1>6, <2>5, <3>1
      <4>2. events'[k].packet = pos + 1
        BY <1>5, <2>1, <3>3
      <4> QED  BY <1>1, <4>1, <4>2
    <3> QED  BY <2>2, <3>2, <3>3
  <2> QED  BY <2>6, <2>7 DEF Sends
<1>8. CASE ~ (type = other /\ n = pos + 1)
  <2>1. ~ (e.type = other /\ e.packet # GARBAGE)
    BY <1>8 DEF e
  <2>2. Frames(other)' = Frames(other) /\ Frames(other) \subseteq 1 .. l
    BY <1>5, <2>1 DEF Frames, l
  <2>3. ReadOf(i)' = ReadOf(i)
    BY <1>1, <1>8 DEF ReadOf, file
  <2>4. \A k \in Frames(other) : events'[k].packet = events[k].packet
    BY <1>5, <2>2
  <2> QED  BY <2>2, <2>3, <2>4 DEF Sends
<1> QED  BY <1>7, <1>8

\* A frame is pushed for a packet: of the video stream as VIDEO, of the audio
\* stream as AUDIO, of another one without data.
LEMMA FrameInv ==
  ASSUME MediaInv, More, pos' = pos + 1,
         UNCHANGED <<file, videoIdx, audioIdx, plays>>,
         NEW n \in {GARBAGE, pos + 1}, Push(TypeOf(Index), n),
         n = pos + 1 <=> Index \in {videoIdx, audioIdx}
  PROVE  MediaInv'
<1> DEFINE type == TypeOf(Index)
           e == [type |-> type, packet |-> n]
<1>1. type \in {"VIDEO", "AUDIO"} /\ (type = "VIDEO" <=> Index = videoIdx)
  BY DEF TypeOf
<1>2. state = "filling" /\ pos < Len(packets) /\ pos \in Nat
  BY DEF More, MediaInv, TypeOK
<1>3. FileOK'
  BY DEF MediaInv, FileOK, file
<1>4. n \in 0 .. MaxPackets /\ pos + 1 \in 0 .. Len(packets)
  BY <1>2, MediaAssumption DEF MediaInv, FileOK, TypeOK, GARBAGE
<1>5. e \in Event /\ e # EOF
  BY <1>1, <1>4 DEF Event, Types, EOF
<1>6. events \in Seq(Event) /\ events' = Append(events, e)
  BY DEF MediaInv, TypeOK, Event, Types, Push
<1>7. Push(type, n)
  OBVIOUS
<1> HIDE DEF e, type
<1>8. /\ events' \in Seq(Event) /\ Len(events') = Len(events) + 1 /\ Len(events) \in Nat
      /\ \A k \in 1 .. Len(events) : events'[k] = events[k]
      /\ events'[Len(events) + 1] = e
  BY <1>5, <1>6, Appended
<1>9. TypeOK'
  BY <1>4, <1>8 DEF MediaInv, TypeOK, Push, file, Event, Types
<1>10. NotEnded'
  BY <1>2, <1>5, <1>8 DEF MediaInv, NotEnded
<1>11. FramesInOrder'
  <2>1. /\ KindAt(videoIdx) = "video" /\ Sends("VIDEO", videoIdx)
        /\ audioIdx # NoStream => KindAt(audioIdx) = "audio"
        /\ Sends("AUDIO", audioIdx)
    BY <1>2 DEF MediaInv, FramesInOrder
  <2>2. videoIdx # audioIdx
    <3>1. CASE audioIdx = NoStream
      BY <1>2, <3>1 DEF MediaInv, NotEnded
    <3>2. CASE audioIdx # NoStream
      BY <2>1, <3>2
    <3> QED  BY <3>1, <3>2
  <2>3. n # pos + 1 <=> Index \notin {videoIdx, audioIdx}
    OBVIOUS
  <2>4. type = "VIDEO" /\ n = pos + 1 <=> packets[pos + 1] = videoIdx
    BY <1>1 DEF Index
  <2>5. type = "AUDIO" /\ n = pos + 1 <=> packets[pos + 1] = audioIdx
    BY <1>1, <2>2 DEF Index
  <2>6. Sends("VIDEO", videoIdx)' /\ Sends("AUDIO", audioIdx)'
    BY <1>1, <1>2, <1>7, <2>1, <2>4, <2>5, FrameOrder
  <2> QED  BY <2>1, <2>6 DEF FramesInOrder, KindAt, file
<1>12. EndsAtEnd'
  <2>1. \A k \in 1 .. Len(events') : events'[k] # EOF
    BY <1>2, <1>5, <1>8 DEF MediaInv, NotEnded
  <2>2. Last(events') # EOF
    BY <1>5, <1>8 DEF Last
  <2> QED  BY <2>1, <2>2 DEF EndsAtEnd
<1> QED  BY <1>3, <1>9, <1>10, <1>11, <1>12 DEF MediaInv

\* The end of the file is pushed after frames only.
LEMMA EndInv ==
  ASSUME MediaInv, state = "filling", EndOfFile, pos' \in 0 .. Len(packets),
         UNCHANGED <<file, videoIdx, audioIdx, plays>>,
         faulted' \in BOOLEAN, faulted' \/ pos' = Len(packets)
  PROVE  MediaInv'
<1>1. EOF \in Event
  BY MediaAssumption DEF Event, Types, EOF
<1>2. events \in Seq(Event) /\ events' = Append(events, EOF) /\ state' = "stopped"
  BY DEF MediaInv, TypeOK, Event, Types, EndOfFile
<1>3. /\ events' \in Seq(Event) /\ Len(events') = Len(events) + 1 /\ Len(events) \in Nat
      /\ \A k \in 1 .. Len(events) : events'[k] = events[k]
      /\ events'[Len(events) + 1] = EOF
  BY <1>1, <1>2, Appended
<1>4. FileOK'
  BY DEF MediaInv, FileOK, file
<1>5. TypeOK'
  BY <1>2, <1>3 DEF MediaInv, TypeOK, file, Event, Types
<1>6. EndsAtEnd'
  <2>1. \A k \in 1 .. Len(events') : events'[k] = EOF => k = Len(events')
    BY <1>3 DEF MediaInv, NotEnded
  <2> QED  BY <2>1 DEF EndsAtEnd, file
<1> QED  BY <1>2, <1>4, <1>5, <1>6 DEF MediaInv, FramesInOrder, NotEnded

LEMMA NextInv ==
  ASSUME MediaInv, [Next]_vars
  PROVE  MediaInv'
<1>1. CASE initialize_context
  BY <1>1, ContextInv
<1>2. CASE Unreadable
  BY <1>2 DEF MediaInv, FileOK, TypeOK, FramesInOrder, NotEnded, EndsAtEnd, Unreadable, file
<1>3. CASE VideoFrame
  BY <1>3, FrameInv DEF VideoFrame
<1>4. CASE AudioFrame
  <2>1. CASE Push(TypeOf(Index), pos')
    BY <1>4, <2>1, FrameInv DEF AudioFrame
  <2>2. CASE EndOfFile /\ faulted' = TRUE
    <3>1. pos' \in 0 .. Len(packets)
      BY <1>4 DEF AudioFrame, More, MediaInv, TypeOK
    <3> QED  BY <1>4, <2>2, <3>1, EndInv DEF AudioFrame, More
  <2>3. CASE state' = "undefined" /\ UNCHANGED <<events, faulted>>
    <3>1. pos' \in 0 .. Len(packets) /\ state = "filling"
      BY <1>4 DEF AudioFrame, More, MediaInv, TypeOK
    <3>2. FileOK' /\ TypeOK'
      BY <1>4, <2>3, <3>1 DEF AudioFrame, MediaInv, FileOK, TypeOK, file
    <3>3. \A k \in 1 .. Len(events) : events[k] # EOF
      BY <3>1 DEF MediaInv, NotEnded
    <3>4. events # <<>> => Last(events) # EOF
      BY <3>3 DEF Last, MediaInv, TypeOK
    <3>5. EndsAtEnd'
      BY <2>3, <3>3, <3>4 DEF EndsAtEnd
    <3> QED  BY <2>3, <3>2, <3>5 DEF MediaInv, FramesInOrder, NotEnded
  <2> QED  BY <1>4, <2>1, <2>2, <2>3 DEF AudioFrame
<1>5. CASE OtherFrame
  <2>1. GARBAGE # pos + 1
    BY DEF GARBAGE, MediaInv, TypeOK
  <2> QED  BY <1>5, <2>1, FrameInv DEF OtherFrame
<1>6. CASE ReadFails
  BY <1>6, EndInv DEF ReadFails, More, MediaInv, TypeOK
<1>7. CASE UNCHANGED vars
  BY <1>7 DEF MediaInv, FileOK, TypeOK, FramesInOrder, Sends, Frames, ReadOf, KindAt,
              NotEnded, EndsAtEnd, vars, file
<1> QED  BY <1>1, <1>2, <1>3, <1>4, <1>5, <1>6, <1>7 DEF Next

LEMMA MediaInvariant == Spec => []MediaInv
BY MediaInit, NextInv, PTL DEF Spec

-----------------------------------------------------------------------------
(***************************************************************************)
(* The theorems.                                                           *)
(***************************************************************************)

\* Every variable has its type.
THEOREM TypeCorrect == Spec => []TypeOK
<1>1. MediaInv => TypeOK
  BY DEF MediaInv
<1> QED  BY <1>1, MediaInvariant, PTL

\* What fill_queue pushes as video is the video stream, whole and in order, and
\* what it pushes as audio with data is the audio stream.
THEOREM StreamsAreWhole == Spec => []FramesInOrder
<1>1. MediaInv => FramesInOrder
  BY DEF MediaInv
<1> QED  BY <1>1, MediaInvariant, PTL

\* ENDOFSTREAM is the last event, and comes when the file has been read unless
\* something failed.
THEOREM EndComesLast == Spec => []EndsAtEnd
<1>1. MediaInv => EndsAtEnd
  BY DEF MediaInv
<1> QED  BY <1>1, MediaInvariant, PTL
=============================================================================
