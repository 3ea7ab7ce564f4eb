--------------------------- MODULE RtspDialogProofs ---------------------------
(***************************************************************************)
(* Proofs about RtspDialog for every number of connections and keep-alive  *)
(* requests, and every environment: how recv() cuts the byte stream, when  *)
(* clients come and go, and what they ask first.                           *)
(***************************************************************************)
EXTENDS RtspDialog, SequenceTheorems, TLAPS

(***************************************************************************)
(* The inductive invariants.                                               *)
(***************************************************************************)

\* Whatever names a session, on its way or remembered by the client, names one
\* drawn for this connection; what Connect starts from is empty.
OwnSessions == mine \cup {0, Absent}
SessionInv ==
  /\ NoForeignSession
  /\ user.session \in OwnSessions
  /\ \A k \in 1 .. Len(stream) : stream[k].request.session \in OwnSessions

\* A request of the given type with the given CSeq is all there is to read.
OnlyRequest(type, cseq) ==
  /\ Len(stream) = 2
  /\ stream[1].request.type = type /\ stream[1].request.cseq = cseq

\* Until it has been answered a DESCRIBE, a client that starts with OPTIONS and
\* waits for each answer has sent nothing else, and the server has predicted
\* the CSeq of that DESCRIBE.
Opening ==
  /\ user.session = Absent /\ user.cseq = user.step
  /\ \/ user.step = 0 /\ ~user.waiting /\ stream = <<>> /\ answers = <<>>
     \/ user.step = 1 /\ user.waiting /\ OnlyRequest("OPTIONS", 1) /\ answers = <<>>
     \/ /\ user.step = 1 /\ stream = <<>> /\ streamclient.cseq = 2
        /\ \/ user.waiting /\ Len(answers) = 1 /\ answers[1].ports = "none"
           \/ ~user.waiting /\ answers = <<>>
     \/ /\ user.step = 2 /\ user.waiting /\ OnlyRequest("DESCRIBE", 2)
        /\ streamclient.cseq = 2 /\ answers = <<>>

Calm == odd \subseteq {"keepalive", "disconnect"}
CSeqInv ==
  /\ CSeqMatches
  /\ Calm /\ streamclient.state = "CLICONNECTED" => Opening

-----------------------------------------------------------------------------
(***************************************************************************)
(* What is parsed, and what is written.                                    *)
(***************************************************************************)
Part == [part : {"head", "tail"}, request : Request]
Msg == [fields : SUBSET {"CSEQ", "SESSION", "TRANSPORT"}, type : Types, cseq : Nat, session : Nat]
AnswerRecord ==
  [cseq : Header, session : Header, ports : Ports \cup {"none"}, request : Request]

\* The branch that is taken for what was parsed.
Handle(msg, request) ==
  \/ Options(msg, request) \/ Describe(msg, request) \/ Setup(msg, request)
  \/ Play(msg, request) \/ Teardown(msg, request) \/ Unanswered(msg)

\* A segment begins where the stream does, and leaves the rest of it.
LEMMA Cut ==
  ASSUME stream \in Seq(Part), NEW n \in 1 .. Len(stream)
  PROVE  /\ SubSeq(stream, 1, n) \in Seq(Part) /\ Len(SubSeq(stream, 1, n)) = n
         /\ SubSeq(stream, 1, n)[1] = stream[1]
         /\ stream[1] \in Part /\ stream[1].request \in Request
         /\ SubSeq(stream, n + 1, Len(stream)) \in Seq(Part)
         /\ Len(SubSeq(stream, n + 1, Len(stream))) = Len(stream) - n
         /\ \A k \in 1 .. Len(stream) - n :
               SubSeq(stream, n + 1, Len(stream))[k] = stream[n + k]
<1>1. Len(stream) \in Nat /\ \A k \in 1 .. Len(stream) : stream[k] \in Part
  BY ElementOfSeq, LenProperties
<1>2. /\ SubSeq(stream, 1, n) \in Seq(Part) /\ Len(SubSeq(stream, 1, n)) = n
      /\ SubSeq(stream, 1, n)[1] = stream[1]
  <2>1. \A k \in 1 .. n : k \in 1 .. Len(stream)
    BY <1>1
  <2> QED  BY <1>1, <2>1, SubSeqProperties
<1>3. stream[1] \in Part /\ stream[1].request \in Request
  BY <1>1 DEF Part
<1>4. SubSeq(stream, n + 1, Len(stream)) \in Seq(Part)
  BY <1>1, SubSeqProperties
<1>5. /\ Len(SubSeq(stream, n + 1, Len(stream))) = Len(stream) - n
      /\ \A k \in 1 .. Len(stream) - n :
           SubSeq(stream, n + 1, Len(stream))[k] = stream[n + k]
  BY <1>1, SubSeqProperties
<1> QED  BY <1>2, <1>3, <1>4, <1>5

\* What parse_rtsp leaves: the structure of a whole request, or a zeroed one.
LEMMA Parsed ==
  ASSUME NEW segment \in Seq(Part), Len(segment) >= 1
  PROVE  LET msg == parse_rtsp(segment)
             r   == segment[1].request
         IN  /\ msg \in Msg
             /\ msg.session \in {0, r.session}
             /\ ~Complete(segment) => msg = Zeroed
             /\ Complete(segment) => msg.type = r.type /\ msg.cseq = r.cseq /\ "CSEQ" \in msg.fields
             /\ Complete(segment) /\ msg.type # "SETUP" => "TRANSPORT" \notin msg.fields
<1>1. Len(segment) \in Nat /\ segment[1] \in Part
  BY ElementOfSeq, LenProperties
<1>2. segment[1].request \in Request
  BY <1>1 DEF Part
<1>3. CASE ~Complete(segment)
  BY <1>3 DEF parse_rtsp, Zeroed, Msg, Types
<1>4. CASE Complete(segment)
  <2> DEFINE r == segment[1].request
  <2>1. r.type \in Types /\ r.cseq \in Nat /\ r.session \in Nat \cup {Absent}
    BY <1>2, <1>4 DEF Complete, Request, Header
  <2>2. FieldsOf(r) \in SUBSET {"CSEQ", "SESSION", "TRANSPORT"} /\ "CSEQ" \in FieldsOf(r)
        /\ (r.type # "SETUP" => "TRANSPORT" \notin FieldsOf(r))
    BY DEF FieldsOf
  <2>3. parse_rtsp(segment) =
          [fields |-> FieldsOf(r), type |-> r.type, cseq |-> r.cseq,
           session |-> IF r.session = Absent THEN 0 ELSE r.session]
    BY <1>4 DEF parse_rtsp
  <2> HIDE DEF r
  <2>4. parse_rtsp(segment) \in Msg /\ parse_rtsp(segment).session \in {0, r.session}
    BY <2>1, <2>2, <2>3 DEF Msg
  <2> QED  BY <1>4, <2>2, <2>3, <2>4 DEF r
<1> QED  BY <1>3, <1>4

\* What an answer carries.
LEMMA Written ==
  ASSUME NEW msg \in Msg, NEW ports \in Ports \cup {"none"}, NEW request \in Request
  PROVE  LET answer == write_rtsp(msg, ports, request)
         IN  /\ answer \in AnswerRecord
             /\ answer.request = request
             /\ answer.session \in {Absent, msg.session}
             /\ "CSEQ" \in msg.fields => answer.cseq = msg.cseq
             /\ "TRANSPORT" \notin msg.fields => answer.ports = "none"
BY DEF write_rtsp, Msg, AnswerRecord, Header, Absent

\* One more answer.
LEMMA OneMore ==
  ASSUME answers \in Seq(AnswerRecord), NEW answer \in AnswerRecord, Answer(answer)
  PROVE  /\ answers' \in Seq(AnswerRecord)
         /\ Len(answers) \in Nat /\ Len(answers') = Len(answers) + 1
         /\ \A k \in 1 .. Len(answers) : answers'[k] = answers[k]
         /\ answers'[Len(answers) + 1] = answer
BY AppendProperties, LenProperties DEF Answer

\* What the branch that is taken answers, if it answers at all.
LEMMA Replied ==
  ASSUME TypeOK, NEW msg \in Msg, NEW request \in Request, Handle(msg, request)
  PROVE  \/ Unanswered(msg)
         \/ \E answer \in AnswerRecord :
              /\ Answer(answer)
              /\ answer.request = request
              /\ answer.session \in {Absent, msg.session} \cup mine'
              /\ "CSEQ" \in msg.fields =>
                   answer.cseq = (IF msg.type = "DESCRIBE" THEN streamclient.cseq ELSE msg.cseq)
              /\ msg.type = "OPTIONS" /\ "TRANSPORT" \notin msg.fields => answer.ports = "none"
<1> DEFINE Good(reply, ports) ==
             /\ reply \in Msg /\ ports \in Ports \cup {"none"}
             /\ Answer(write_rtsp(reply, ports, request))
             /\ reply.session \in {msg.session} \cup mine'
             /\ "CSEQ" \in msg.fields =>
                  /\ "CSEQ" \in reply.fields
                  /\ reply.cseq = (IF msg.type = "DESCRIBE" THEN streamclient.cseq ELSE msg.cseq)
             /\ msg.type = "OPTIONS" => reply = msg
<1>1. ASSUME NEW reply, NEW ports, Good(reply, ports)
      PROVE  \E answer \in AnswerRecord :
               /\ Answer(answer)
               /\ answer.request = request
               /\ answer.session \in {Absent, msg.session} \cup mine'
               /\ "CSEQ" \in msg.fields =>
                    answer.cseq = (IF msg.type = "DESCRIBE" THEN streamclient.cseq ELSE msg.cseq)
               /\ msg.type = "OPTIONS" /\ "TRANSPORT" \notin msg.fields => answer.ports = "none"
  <2> DEFINE answer == write_rtsp(reply, ports, request)
  <2>1. /\ answer \in AnswerRecord
        /\ answer.request = request
        /\ answer.session \in {Absent, reply.session}
        /\ "CSEQ" \in reply.fields => answer.cseq = reply.cseq
        /\ "TRANSPORT" \notin reply.fields => answer.ports = "none"
    BY <1>1, Written
  <2>2. Answer(answer)
    BY <1>1
  <2> HIDE DEF answer
  <2> QED  BY <1>1, <2>1, <2>2
<1>2. CASE Options(msg, request)
  <2>1. Good(msg, "none")
    BY <1>2 DEF Options
  <2> QED  BY <1>1, <2>1
<1>3. CASE Describe(msg, request)
  <2> DEFINE reply == [msg EXCEPT !.fields = {"CSEQ"}, !.cseq = streamclient.cseq]
  <2>1. reply \in Msg /\ reply.session = msg.session
        /\ "CSEQ" \in reply.fields /\ reply.cseq = streamclient.cseq
    BY DEF TypeOK, Msg
  <2>2. Good(reply, "none")
    BY <1>3, <2>1 DEF Describe
  <2> QED  BY <1>1, <2>2
<1>4. CASE Setup(msg, request)
  <2> DEFINE reply == [msg EXCEPT !.session = drawn', !.fields = @ \cup {"SESSION"}]
             ports == IF streamclient.setups = 0 THEN "audio" ELSE "video"
  <2>1. drawn' \in Nat /\ drawn' \in mine' /\ msg.type = "SETUP"
    BY <1>4 DEF Setup, TypeOK
  <2>2. reply \in Msg /\ reply.session = drawn' /\ reply.cseq = msg.cseq
        /\ ("CSEQ" \in msg.fields => "CSEQ" \in reply.fields)
    BY <2>1 DEF Msg
  <2>3. Answer(write_rtsp(reply, ports, request))
    BY <1>4 DEF Setup
  <2>4. Good(reply, ports)
    BY <2>1, <2>2, <2>3 DEF Ports
  <2> QED  BY <1>1, <2>4
<1>5. CASE Play(msg, request)
  <2> DEFINE reply == Toggled(msg, "SESSION")
  <2>1. reply \in Msg /\ reply.session = msg.session /\ reply.cseq = msg.cseq
        /\ ("CSEQ" \in msg.fields => "CSEQ" \in reply.fields)
    BY DEF Toggled, Msg
  <2>2. Good(reply, "none")
    BY <1>5, <2>1 DEF Play
  <2> QED  BY <1>1, <2>2
<1>6. CASE Teardown(msg, request)
  <2> DEFINE reply == [msg EXCEPT !.fields = {"CSEQ", "SESSION"}]
  <2>1. reply \in Msg /\ reply.session = msg.session /\ reply.cseq = msg.cseq
        /\ "CSEQ" \in reply.fields
    BY DEF Msg
  <2>2. Good(reply, "none")
    BY <1>6, <2>1 DEF Teardown
  <2> QED  BY <1>1, <2>2
<1> QED  BY <1>2, <1>3, <1>4, <1>5, <1>6 DEF Handle

Client == [state : {"NOCLIENT", "CLICONNECTED", "SDPSENT", "SETUPCOMPLETE"},
           cseq : Nat, session : Nat, setups : Nat]

\* How the branch that is taken leaves the client and the sessions.
LEMMA Moved ==
  ASSUME TypeOK, NEW msg \in Msg, NEW request \in Request, Handle(msg, request)
  PROVE  /\ streamclient' \in Client
         /\ streamclient'.state = "SETUPCOMPLETE" => streamclient'.setups >= 2
         /\ drawn' \in Nat /\ mine' \subseteq 1 .. drawn' /\ mine \subseteq mine'
         /\ streamclient'.state = "CLICONNECTED" =>
              /\ streamclient.state = "CLICONNECTED"
              /\ Options(msg, request) \/ Unanswered(msg)
<1> USE DEF Client
<1>1. /\ streamclient \in Client
      /\ streamclient.state = "SETUPCOMPLETE" => streamclient.setups >= 2
      /\ drawn \in Nat /\ mine \subseteq 1 .. drawn /\ msg.cseq \in Nat
  BY DEF TypeOK, Msg
<1>2. CASE Options(msg, request)
  <2>1. /\ streamclient' = [streamclient EXCEPT !.cseq = msg.cseq + 1]
        /\ streamclient.state = "CLICONNECTED" /\ UNCHANGED <<drawn, mine>>
    BY <1>2 DEF Options
  <2>2. streamclient' \in Client /\ streamclient'.state = "CLICONNECTED"
    BY <1>1, <2>1
  <2> QED  BY <1>1, <1>2, <2>1, <2>2
<1>3. CASE Describe(msg, request)
  <2>1. /\ streamclient' = [streamclient EXCEPT !.state = "SDPSENT", !.cseq = @ + 1]
        /\ UNCHANGED <<drawn, mine>>
    BY <1>3 DEF Describe
  <2>2. streamclient' = [state |-> "SDPSENT", cseq |-> streamclient.cseq + 1,
                         session |-> streamclient.session, setups |-> streamclient.setups]
    BY <1>1, <2>1
  <2>3. streamclient.cseq + 1 \in Nat /\ streamclient.session \in Nat /\ streamclient.setups \in Nat
    BY <1>1
  <2>4. streamclient' \in Client /\ streamclient'.state = "SDPSENT"
    BY <2>2, <2>3
  <2> QED  BY <1>1, <2>1, <2>4
<1>4. CASE Setup(msg, request)
  <2>1. /\ drawn' = drawn + 1 /\ mine' = mine \cup {drawn'} /\ streamclient.state = "SDPSENT"
        /\ streamclient' = [streamclient EXCEPT
             !.setups = @ + 1, !.session = drawn',
             !.state = IF streamclient.setups = 0 THEN @ ELSE "SETUPCOMPLETE"]
    BY <1>4 DEF Setup
  <2>2. drawn' \in Nat /\ mine' \subseteq 1 .. drawn' /\ mine \subseteq mine'
    BY <1>1, <2>1
  <2> DEFINE next == IF streamclient.setups = 0 THEN "SDPSENT" ELSE "SETUPCOMPLETE"
  <2>3. streamclient' = [state |-> next, cseq |-> streamclient.cseq,
                         session |-> drawn', setups |-> streamclient.setups + 1]
    BY <1>1, <2>1
  <2>4. /\ streamclient.setups \in Nat /\ streamclient.cseq \in Nat
        /\ next \in {"SDPSENT", "SETUPCOMPLETE"} /\ (next = "SETUPCOMPLETE" => streamclient.setups # 0)
    BY <1>1
  <2> HIDE DEF next
  <2> QED  BY <2>2, <2>3, <2>4
<1>5. CASE Play(msg, request)
  <2>1. UNCHANGED <<streamclient, drawn, mine>> /\ streamclient.state = "SETUPCOMPLETE"
    BY <1>5 DEF Play
  <2> QED  BY <1>1, <2>1
<1>6. CASE Teardown(msg, request)
  <2>1. streamclient' = NewClient /\ UNCHANGED <<drawn, mine>>
    BY <1>6 DEF Teardown
  <2> QED  BY <1>1, <2>1 DEF NewClient
<1>7. CASE Unanswered(msg)
  <2>1. UNCHANGED <<streamclient, drawn, mine>>
    BY <1>7 DEF Unanswered
  <2> QED  BY <1>1, <1>7, <2>1
<1> QED  BY <1>2, <1>3, <1>4, <1>5, <1>6, <1>7 DEF Handle

-----------------------------------------------------------------------------
(***************************************************************************)
(* Type correctness.                                                       *)
(***************************************************************************)

\* What a client sends.
LEMMA Asked ==
  ASSUME TypeOK, NEW type \in Types \cup {"GET_PARAMETER"}, Sent(type)
  PROVE  LET request == [type |-> type, cseq |-> user.cseq + 1, session |-> user.session]
         IN  /\ request \in Request
             /\ stream' \in Seq(Part)
             /\ Len(stream) \in Nat /\ Len(stream') = Len(stream) + 2
             /\ \A k \in 1 .. Len(stream) : stream'[k] = stream[k]
             /\ stream'[Len(stream) + 1].request = request
             /\ stream'[Len(stream) + 2].request = request
<1> DEFINE request == [type |-> type, cseq |-> user.cseq + 1, session |-> user.session]
           more == <<[part |-> "head", request |-> request], [part |-> "tail", request |-> request]>>
<1>1. user.cseq \in Nat /\ user.session \in Header
  BY DEF TypeOK
<1>2. request \in Request
  BY <1>1 DEF Request
<1>3. stream \in Seq(Part)
  BY DEF TypeOK, Part
<1>4. more \in Seq(Part) /\ Len(more) = 2 /\ more[1].request = request /\ more[2].request = request
  BY <1>2 DEF Part
<1>5. stream' = stream \o more
  BY DEF Sent
<1> HIDE DEF more, request
<1>6. /\ stream' \in Seq(Part) /\ Len(stream) \in Nat /\ Len(stream') = Len(stream) + 2
      /\ \A k \in 1 .. Len(stream') : stream'[k] = IF k <= Len(stream) THEN stream[k]
                                                   ELSE more[k - Len(stream)]
  <2>1. Len(stream) \in Nat
    BY <1>3, LenProperties
  <2>2. /\ stream \o more \in Seq(Part) /\ Len(stream \o more) = Len(stream) + Len(more)
        /\ \A k \in 1 .. Len(stream) + Len(more) :
              (stream \o more)[k] = IF k <= Len(stream) THEN stream[k] ELSE more[k - Len(stream)]
    BY <1>3, <1>4, ConcatProperties
  <2> QED  BY <1>4, <1>5, <2>1, <2>2
<1>7. /\ \A k \in 1 .. Len(stream) : stream'[k] = stream[k]
      /\ stream'[Len(stream) + 1] = more[1] /\ stream'[Len(stream) + 2] = more[2]
  BY <1>6
<1> QED  BY <1>2, <1>4, <1>6, <1>7 DEF request

LEMMA TypeInit == Init => TypeOK
<1> SUFFICES ASSUME Init PROVE TypeOK
  OBVIOUS
<1>1. stream \in Seq(Part) /\ answers \in Seq(AnswerRecord)
  BY DEF Init
<1>2. streamclient \in Client /\ streamclient.state = "NOCLIENT"
  BY DEF Init, NewClient, Client
<1>3. rtspmsg \in Msg
  BY DEF Init, Zeroed, Msg, Types
<1>4. user \in [step : 0 .. Len(Session), cseq : Nat, session : Header,
               waiting : BOOLEAN, alive : 0 .. MaxAlive]
  BY DialogAssumption DEF Init, NewUser, Header, Session, Absent
<1> QED
  BY <1>1, <1>2, <1>3, <1>4, DialogAssumption
     DEF Init, TypeOK, Part, AnswerRecord, Client, Msg

\* One recv(): what has been read, and the branch taken for it.
LEMMA Received ==
  ASSUME TypeOK, NEW n \in 1 .. Len(stream), Receive(n)
  PROVE  LET segment == SubSeq(stream, 1, n)
             msg     == parse_rtsp(segment)
             request == stream[1].request
         IN  /\ msg \in Msg /\ request \in Request /\ rtspmsg' = msg
             /\ Handle(msg, request)
             /\ msg.session \in {0, request.session}
             /\ ~Complete(segment) => msg = Zeroed
             /\ Complete(segment) =>
                  msg.type = request.type /\ msg.cseq = request.cseq /\ "CSEQ" \in msg.fields
             /\ msg.type # "SETUP" => "TRANSPORT" \notin msg.fields
             /\ "segment" \notin odd' =>
                  n = 2 /\ (Complete(segment) <=> request.type \in Types)
             /\ stream' \in Seq(Part) /\ Len(stream') = Len(stream) - n
             /\ \A k \in 1 .. Len(stream') : stream'[k] = stream[n + k]
<1> DEFINE segment == SubSeq(stream, 1, n)
           msg     == parse_rtsp(segment)
           request == segment[1].request
<1>1. stream \in Seq(Part)
  BY DEF TypeOK, Part
<1>2. /\ segment \in Seq(Part) /\ Len(segment) = n
      /\ segment[1] = stream[1]
      /\ stream[1] \in Part /\ stream[1].request \in Request
      /\ SubSeq(stream, n + 1, Len(stream)) \in Seq(Part)
      /\ Len(SubSeq(stream, n + 1, Len(stream))) = Len(stream) - n
      /\ \A k \in 1 .. Len(stream) - n :
            SubSeq(stream, n + 1, Len(stream))[k] = stream[n + k]
  BY <1>1, Cut
<1>3. /\ rtspmsg' = msg /\ Handle(msg, request)
      /\ stream' = SubSeq(stream, n + 1, Len(stream))
      /\ odd' = IF n # 2 \/ segment[1].part = "tail" THEN odd \cup {"segment"} ELSE odd
  BY DEF Receive, Handle
<1> HIDE DEF segment
<1>4. Len(segment) >= 1
  BY <1>2
<1>5. /\ msg \in Msg
      /\ msg.session \in {0, request.session}
      /\ ~Complete(segment) => msg = Zeroed
      /\ Complete(segment) => msg.type = request.type /\ msg.cseq = request.cseq /\ "CSEQ" \in msg.fields
      /\ Complete(segment) /\ msg.type # "SETUP" => "TRANSPORT" \notin msg.fields
  BY <1>2, <1>4, Parsed
<1> HIDE DEF msg
<1>6. msg.type # "SETUP" => "TRANSPORT" \notin msg.fields
  BY <1>5 DEF Zeroed
<1>7. ASSUME "segment" \notin odd'
      PROVE  n = 2 /\ (Complete(segment) <=> request.type \in Types)
  <2>1. n = 2 /\ segment[1].part # "tail"
    BY <1>3, <1>7
  <2>2. segment[1].part = "head"
    BY <1>2, <2>1 DEF Part
  <2> QED  BY <1>2, <2>1, <2>2 DEF Complete
<1>8. stream' \in Seq(Part) /\ Len(stream') = Len(stream) - n
      /\ \A k \in 1 .. Len(stream') : stream'[k] = stream[n + k]
  BY <1>2, <1>3
<1>9. request = stream[1].request /\ request \in Request
  BY <1>2
<1> QED  BY <1>3, <1>5, <1>6, <1>7, <1>8, <1>9 DEF msg, segment

LEMMA TypeStep == TypeOK /\ [Next]_vars => TypeOK'
<1> SUFFICES ASSUME TypeOK, [Next]_vars PROVE TypeOK'
  OBVIOUS
<1> DEFINE User == [step : 0 .. Len(Session), cseq : Nat, session : Header,
                    waiting : BOOLEAN, alive : 0 .. MaxAlive]
           Ready == streamclient.state = "SETUPCOMPLETE" => streamclient.setups >= 2
           Typed == /\ stream \in Seq(Part) /\ answers \in Seq(AnswerRecord)
                    /\ streamclient \in Client /\ Ready
                    /\ rtspmsg \in Msg /\ user \in User
                    /\ drawn \in Nat /\ mine \subseteq 1 .. drawn
                    /\ conns \in 0 .. MaxConns /\ odd \subseteq Env
<1>1. Typed
  BY DEF TypeOK, Part, AnswerRecord, Client, Msg
<1>2. SUFFICES Typed'
  BY DEF TypeOK, Part, AnswerRecord, Client, Msg
<1>3. NewUser \in User
  BY DialogAssumption DEF NewUser, Header, Session, Absent
<1>4. CASE Connect
  <2>1. streamclient' \in Client /\ streamclient'.state = "CLICONNECTED"
    BY <1>1, <1>4 DEF Connect, Client
  <2>2. user' \in User
    <3>1. [NewUser EXCEPT !.step = 1] \in User
      BY <1>3 DEF Session
    <3> QED  BY <1>3, <1>4, <3>1 DEF Connect
  <2>3. odd' \subseteq Env /\ conns' \in 0 .. MaxConns
    BY <1>1, <1>4, DialogAssumption DEF Connect
  <2> QED  BY <1>1, <1>4, <2>1, <2>2, <2>3 DEF Connect
<1>5. CASE Ask
  <2>1. Len(Session) = 6 /\ Session[user.step + 1] \in Types
    BY <1>1, <1>5 DEF Ask, Session, Types
  <2>2. stream' \in Seq(Part)
    BY <1>5, <2>1, Asked DEF Ask
  <2>3. user' \in User
    <3>1. user' = [step |-> user.step + 1, cseq |-> user.cseq + 1, session |-> user.session,
                   waiting |-> TRUE, alive |-> user.alive]
      BY <1>1, <1>5 DEF Ask
    <3>2. /\ user.step + 1 \in 0 .. Len(Session) /\ user.cseq + 1 \in Nat
          /\ user.session \in Header /\ user.alive \in 0 .. MaxAlive
      BY <1>1, <1>5, <2>1 DEF Ask
    <3> QED  BY <3>1, <3>2
  <2> QED  BY <1>1, <1>5, <2>2, <2>3 DEF Ask
<1>6. CASE KeepAlive
  <2>1. stream' \in Seq(Part)
    BY <1>6, Asked DEF KeepAlive
  <2>2. user' \in User
    <3>1. user' = [step |-> user.step, cseq |-> user.cseq + 1, session |-> user.session,
                   waiting |-> user.waiting, alive |-> user.alive + 1]
      BY <1>1, <1>6 DEF KeepAlive
    <3>2. /\ user.step \in 0 .. Len(Session) /\ user.cseq + 1 \in Nat
          /\ user.session \in Header /\ user.waiting \in BOOLEAN
          /\ user.alive + 1 \in 0 .. MaxAlive
      BY <1>1, <1>6, DialogAssumption DEF KeepAlive
    <3> QED  BY <3>1, <3>2
  <2>3. odd' \subseteq Env
    BY <1>1, <1>6 DEF KeepAlive
  <2> QED  BY <1>1, <1>6, <2>1, <2>2, <2>3 DEF KeepAlive
<1>7. CASE ReadAnswer
  <2>1. Head(answers) \in AnswerRecord /\ Tail(answers) \in Seq(AnswerRecord)
    BY <1>1, <1>7, HeadTailProperties DEF ReadAnswer
  <2>2. user' \in User
    BY <1>1, <1>7, <2>1 DEF ReadAnswer, AnswerRecord
  <2> QED  BY <1>1, <1>7, <2>1, <2>2 DEF ReadAnswer
<1>8. CASE Leave
  <2>1. streamclient' \in Client /\ streamclient'.state = "NOCLIENT"
    BY <1>1, <1>8 DEF Leave, Forgotten, Client
  <2>2. user' \in User
    BY <1>1, <1>8 DEF Leave
  <2>3. odd' \subseteq Env
    BY <1>1, <1>8 DEF Leave
  <2> QED  BY <1>1, <1>8, <2>1, <2>2, <2>3 DEF Leave
<1>9. ASSUME NEW n \in 1 .. Len(stream), Receive(n)
      PROVE  Typed'
  <2> DEFINE msg == parse_rtsp(SubSeq(stream, 1, n))
             request == stream[1].request
  <2>1. /\ msg \in Msg /\ request \in Request /\ rtspmsg' = msg
        /\ Handle(msg, request) /\ stream' \in Seq(Part)
    BY <1>9, Received
  <2> HIDE DEF msg, request
  <2>2. /\ streamclient' \in Client /\ Ready'
        /\ drawn' \in Nat /\ mine' \subseteq 1 .. drawn'
    BY <2>1, Moved
  <2>3. answers' \in Seq(AnswerRecord)
    <3>1. \/ UNCHANGED answers
          \/ \E answer \in AnswerRecord : Answer(answer)
      BY <2>1, Replied DEF Unanswered
    <3> QED  BY <1>1, <3>1, OneMore
  <2>4. UNCHANGED <<user, conns>> /\ odd' \subseteq Env
    BY <1>1, <1>9 DEF Receive
  <2> QED  BY <1>1, <2>1, <2>2, <2>3, <2>4
<1>10. CASE UNCHANGED vars
  BY <1>1, <1>10 DEF vars
<1> QED  BY <1>4, <1>5, <1>6, <1>7, <1>8, <1>9, <1>10 DEF Next

\* Every message, answer and state of the dialog is one its type names, and the
\* server is ready to play only after two SETUPs.
THEOREM TypeCorrect == Spec => []TypeOK
BY TypeInit, TypeStep, PTL DEF Spec

-----------------------------------------------------------------------------
(***************************************************************************)
(* Sessions.                                                               *)
(***************************************************************************)

\* Reading an answer leaves the others.
LEMMA OneLess ==
  ASSUME answers \in Seq(AnswerRecord), answers # <<>>, answers' = Tail(answers)
  PROVE  /\ Len(answers) \in Nat /\ Len(answers) >= 1 /\ Head(answers) = answers[1]
         /\ Len(answers') = Len(answers) - 1
         /\ \A k \in 1 .. Len(answers') : answers'[k] = answers[k + 1]
         /\ Len(answers) = 1 => answers' = <<>>
<1>1. /\ Head(answers) \in AnswerRecord /\ Tail(answers) \in Seq(AnswerRecord)
      /\ Len(Tail(answers)) = Len(answers) - 1
      /\ \A i \in 1 .. Len(Tail(answers)) : Tail(answers)[i] = answers[i + 1]
  BY HeadTailProperties
<1>2. Len(answers) \in Nat /\ Len(answers) # 0
  BY LenProperties, EmptySeq
<1>3. ASSUME Len(answers) = 1 PROVE answers' = <<>>
  BY <1>1, <1>3, EmptySeq
<1> QED  BY <1>1, <1>2, <1>3

LEMMA SessionStep == TypeOK /\ SessionInv /\ [Next]_vars => SessionInv'
<1> SUFFICES ASSUME TypeOK, SessionInv, [Next]_vars PROVE SessionInv'
  OBVIOUS
<1>1. /\ stream \in Seq(Part) /\ answers \in Seq(AnswerRecord)
      /\ Len(answers) \in Nat /\ Len(stream) \in Nat
  BY LenProperties DEF TypeOK, Part, AnswerRecord
<1>2. /\ \A k \in 1 .. Len(answers) : answers[k].session \in OwnSessions
      /\ user.session \in OwnSessions
      /\ \A k \in 1 .. Len(stream) : stream[k].request.session \in OwnSessions
  BY DEF SessionInv, NoForeignSession, OwnSessions
<1>3. SUFFICES
      /\ \A k \in 1 .. Len(answers') : answers'[k].session \in OwnSessions'
      /\ user'.session \in OwnSessions'
      /\ \A k \in 1 .. Len(stream') : stream'[k].request.session \in OwnSessions'
  BY DEF SessionInv, NoForeignSession, OwnSessions
<1>4. CASE Connect
  <2>1. answers' = <<>> /\ stream' = <<>> /\ user'.session = Absent
    BY <1>4 DEF Connect, NewUser
  <2> QED  BY <2>1 DEF OwnSessions
<1>5. ASSUME NEW type \in Types \cup {"GET_PARAMETER"}, Sent(type),
             user'.session = user.session, UNCHANGED <<answers, mine>>
      PROVE  SessionInv'
  <2> DEFINE request == [type |-> type, cseq |-> user.cseq + 1, session |-> user.session]
  <2>1. /\ Len(stream') = Len(stream) + 2
        /\ \A k \in 1 .. Len(stream) : stream'[k] = stream[k]
        /\ stream'[Len(stream) + 1].request = request
        /\ stream'[Len(stream) + 2].request = request
    BY <1>5, Asked
  <2>2. request.session \in OwnSessions
    BY <1>2
  <2> HIDE DEF request
  <2>3. \A k \in 1 .. Len(stream') : stream'[k].request.session \in OwnSessions
    <3> TAKE k \in 1 .. Len(stream')
    <3>1. k \in 1 .. Len(stream) \/ k = Len(stream) + 1 \/ k = Len(stream) + 2
      BY <1>1, <2>1
    <3> QED  BY <1>2, <2>1, <2>2, <3>1
  <2>4. OwnSessions' = OwnSessions
    BY <1>5 DEF OwnSessions
  <2> QED  BY <1>2, <1>5, <2>3, <2>4 DEF SessionInv, NoForeignSession, OwnSessions
<1>6. CASE Ask
  <2>1. Session[user.step + 1] \in Types
    BY <1>6 DEF Ask, Session, Types, TypeOK
  <2>2. user'.session = user.session
    BY <1>6 DEF Ask, TypeOK
  <2> QED  BY <1>5, <1>6, <2>1, <2>2 DEF Ask, SessionInv, NoForeignSession, OwnSessions
<1>7. CASE KeepAlive
  <2>1. user'.session = user.session
    BY <1>7 DEF KeepAlive, TypeOK
  <2> QED  BY <1>5, <1>7, <2>1 DEF KeepAlive, SessionInv, NoForeignSession, OwnSessions
<1>8. CASE ReadAnswer
  <2>1. /\ answers # <<>> /\ answers' = Tail(answers) /\ UNCHANGED <<stream, mine>>
        /\ user'.session = user.session \/ user'.session = Head(answers).session
    BY <1>8 DEF ReadAnswer, TypeOK
  <2>2. /\ Len(answers) >= 1 /\ Head(answers) = answers[1]
        /\ Len(answers') = Len(answers) - 1
        /\ \A k \in 1 .. Len(answers') : answers'[k] = answers[k + 1]
    BY <1>1, <2>1, OneLess
  <2>3. \A k \in 1 .. Len(answers') : answers'[k].session \in OwnSessions
    BY <1>1, <1>2, <2>2
  <2>4. user'.session \in OwnSessions
    BY <1>1, <1>2, <2>1, <2>2
  <2>5. OwnSessions' = OwnSessions
    BY <2>1 DEF OwnSessions
  <2> QED  BY <1>2, <2>1, <2>3, <2>4, <2>5
<1>9. CASE Leave
  <2>1. answers' = <<>> /\ stream' = <<>> /\ UNCHANGED mine /\ user'.session = user.session
    BY <1>9 DEF Leave, TypeOK
  <2> QED  BY <1>2, <2>1 DEF OwnSessions
<1>10. ASSUME NEW n \in 1 .. Len(stream), Receive(n)
       PROVE  SessionInv'
  <2> DEFINE msg == parse_rtsp(SubSeq(stream, 1, n))
             request == stream[1].request
  <2>1. /\ msg \in Msg /\ request \in Request /\ Handle(msg, request)
        /\ msg.session \in {0, request.session}
        /\ Len(stream') = Len(stream) - n
        /\ \A k \in 1 .. Len(stream') : stream'[k] = stream[n + k]
    BY <1>10, Received
  <2>2. request.session \in OwnSessions
    BY <1>2
  <2> HIDE DEF msg, request
  <2>3. mine \subseteq mine'
    BY <2>1, Moved
  <2>4. OwnSessions \subseteq OwnSessions' /\ mine' \subseteq OwnSessions' /\ 0 \in OwnSessions'
        /\ Absent \in OwnSessions'
    BY <2>3 DEF OwnSessions
  <2>5. \A k \in 1 .. Len(answers') : answers'[k].session \in OwnSessions'
    <3>1. CASE UNCHANGED answers
      BY <1>2, <2>4, <3>1
    <3>2. ASSUME NEW answer \in AnswerRecord, Answer(answer),
                 answer.session \in {Absent, msg.session} \cup mine'
          PROVE  \A k \in 1 .. Len(answers') : answers'[k].session \in OwnSessions'
      <4>1. /\ Len(answers') = Len(answers) + 1
            /\ \A k \in 1 .. Len(answers) : answers'[k] = answers[k]
            /\ answers'[Len(answers) + 1] = answer
        BY <1>1, <3>2, OneMore
      <4>2. answer.session \in OwnSessions'
        BY <2>1, <2>2, <2>4, <3>2
      <4> TAKE k \in 1 .. Len(answers')
      <4>3. k \in 1 .. Len(answers) \/ k = Len(answers) + 1
        BY <1>1, <4>1
      <4> QED  BY <1>2, <2>4, <4>1, <4>2, <4>3
    <3>3. \/ UNCHANGED answers
          \/ \E answer \in AnswerRecord :
               Answer(answer) /\ answer.session \in {Absent, msg.session} \cup mine'
      BY <2>1, Replied DEF Unanswered
    <3> QED  BY <3>1, <3>2, <3>3
  <2>6. user'.session \in OwnSessions'
    BY <1>2, <1>10, <2>4 DEF Receive
  <2>7. \A k \in 1 .. Len(stream') : stream'[k].request.session \in OwnSessions'
    BY <1>1, <1>2, <2>1, <2>4
  <2> QED  BY <2>5, <2>6, <2>7 DEF SessionInv, NoForeignSession, OwnSessions
<1>11. CASE UNCHANGED vars
  <2>1. UNCHANGED <<answers, user, stream, OwnSessions>>
    BY <1>11 DEF vars, OwnSessions
  <2> QED  BY <1>2, <2>1
<1> QED
  BY <1>4, <1>6, <1>7, <1>8, <1>9, <1>10, <1>11 DEF Next, SessionInv, NoForeignSession, OwnSessions

\* No client is told the session of another, however recv() cuts the stream and
\* whoever has left before: parse_rtsp keeps nothing of the message before, and
\* a SETUP names a session drawn for the connection it came on.
THEOREM SessionsArePrivate == Spec => []NoForeignSession
<1>1. Init => SessionInv
  BY DEF Init, NewUser, SessionInv, NoForeignSession, OwnSessions
<1>2. Spec => []SessionInv
  BY <1>1, TypeCorrect, SessionStep, PTL DEF Spec
<1>3. SessionInv => NoForeignSession
  BY DEF SessionInv
<1> QED  BY <1>2, <1>3, PTL

-----------------------------------------------------------------------------
(***************************************************************************)
(* The CSeq of an answer.                                                  *)
(***************************************************************************)
Matching(answer) == answer.cseq = answer.request.cseq

\* In a calm dialog a request that is answered is answered with its own CSeq.
LEMMA CalmReply ==
  ASSUME TypeOK, CSeqInv, NEW n \in 1 .. Len(stream), Receive(n), Calm, Calm'
  PROVE  \/ Unanswered(rtspmsg')
         \/ \E answer \in AnswerRecord :
              /\ Answer(answer) /\ Matching(answer)
              /\ rtspmsg'.type = "OPTIONS" => answer.ports = "none"
<1> DEFINE segment == SubSeq(stream, 1, n)
           msg     == parse_rtsp(segment)
           request == stream[1].request
<1>1. /\ msg \in Msg /\ request \in Request /\ rtspmsg' = msg /\ Handle(msg, request)
      /\ ~Complete(segment) => msg = Zeroed
      /\ Complete(segment) => msg.type = request.type /\ msg.cseq = request.cseq /\ "CSEQ" \in msg.fields
      /\ msg.type # "SETUP" => "TRANSPORT" \notin msg.fields
      /\ "segment" \notin odd' => n = 2 /\ (Complete(segment) <=> request.type \in Types)
  BY Received
<1> HIDE DEF segment, msg, request
<1>2. "segment" \notin odd'
  BY DEF Calm
<1>3. CASE Complete(segment)
  <2>1. \/ Unanswered(msg)
        \/ \E answer \in AnswerRecord :
             /\ Answer(answer)
             /\ answer.request = request
             /\ answer.cseq = (IF msg.type = "DESCRIBE" THEN streamclient.cseq ELSE msg.cseq)
             /\ msg.type = "OPTIONS" => answer.ports = "none"
    BY <1>1, <1>3, Replied
  <2>2. ASSUME msg.type = "DESCRIBE", ~Unanswered(msg)
        PROVE  streamclient.cseq = msg.cseq
    <3>1. streamclient.state = "CLICONNECTED"
      BY <1>1, <2>2 DEF Handle, Options, Describe, Setup, Play, Teardown
    <3>2. Opening /\ request.type = "DESCRIBE"
      BY <1>1, <1>3, <2>2, <3>1 DEF CSeqInv
    <3>3. streamclient.cseq = 2 /\ request.cseq = 2
      <4>1. Len(stream) # 0
        OBVIOUS
      <4>2. stream # <<>>
        BY <4>1
      <4> QED  BY <3>2, <4>2 DEF Opening, OnlyRequest, request
    <3> QED  BY <1>1, <1>3, <3>3
  <2> QED  BY <1>1, <1>3, <2>1, <2>2 DEF Matching
<1>4. CASE ~Complete(segment)
  <2>1. request.type \notin Types /\ msg.type = "OPTIONS"
    BY <1>1, <1>2, <1>4 DEF Zeroed
  <2>2. streamclient.state # "CLICONNECTED"
    <3>1. SUFFICES ASSUME Opening PROVE FALSE
      BY DEF CSeqInv
    <3>2. Len(stream) # 0
      OBVIOUS
    <3>3. request.type \in {"OPTIONS", "DESCRIBE"}
      BY <3>1, <3>2 DEF Opening, OnlyRequest, request
    <3> QED  BY <2>1, <3>3 DEF Types
  <2>3. Unanswered(msg)
    BY <1>1, <2>1, <2>2 DEF Handle, Options, Describe, Setup, Play, Teardown
  <2> QED  BY <1>1, <2>3
<1> QED  BY <1>3, <1>4

LEMMA CSeqStep == TypeOK /\ CSeqInv /\ [Next]_vars => CSeqInv'
<1> SUFFICES ASSUME TypeOK, CSeqInv, [Next]_vars PROVE CSeqInv'
  OBVIOUS
<1>1. /\ stream \in Seq(Part) /\ answers \in Seq(AnswerRecord)
      /\ Len(answers) \in Nat /\ Len(stream) \in Nat
  BY LenProperties DEF TypeOK, Part, AnswerRecord
<1>2. odd \subseteq odd'
  BY DEF Next, Connect, Ask, KeepAlive, ReadAnswer, Leave, Receive, vars
<1>3. SUFFICES ASSUME Calm'
               PROVE  /\ \A k \in 1 .. Len(answers') : Matching(answers'[k])
                      /\ streamclient'.state = "CLICONNECTED" => Opening'
  BY DEF CSeqInv, CSeqMatches, Calm, Matching
<1>4. Calm
  BY <1>2, <1>3 DEF Calm
<1>5. /\ \A k \in 1 .. Len(answers) : Matching(answers[k])
      /\ streamclient.state = "CLICONNECTED" => Opening
  BY <1>4 DEF CSeqInv, CSeqMatches, Calm, Matching
<1>6. CASE Connect
  <2>1. user' = NewUser /\ answers' = <<>> /\ stream' = <<>>
    BY <1>3, <1>6 DEF Connect, Calm
  <2> QED  BY <2>1 DEF Opening, NewUser
<1>7. CASE Ask
  <2>1. UNCHANGED <<answers, streamclient>>
    BY <1>7 DEF Ask
  <2>2. ASSUME Opening PROVE Opening'
    <3> DEFINE type == Session[user.step + 1]
               request == [type |-> type, cseq |-> user.cseq + 1, session |-> user.session]
    <3>1. user.step \in {0, 1} /\ user.cseq = user.step /\ stream = <<>> /\ answers = <<>>
          /\ (user.step = 1 => streamclient.cseq = 2) /\ user.session = Absent
      BY <1>7, <2>2 DEF Opening, Ask
    <3>2. type = (IF user.step = 0 THEN "OPTIONS" ELSE "DESCRIBE") /\ type \in Types
      BY <3>1 DEF Session, Types
    <3>3. Sent(type)
      BY <1>7 DEF Ask
    <3> HIDE DEF type
    <3>4. Len(stream') = Len(stream) + 2 /\ stream'[Len(stream) + 1].request = request
      BY <3>2, <3>3, Asked
    <3>5. Len(stream') = 2 /\ stream'[1].request = request
      BY <3>1, <3>4
    <3>6. stream'[1].request.type = type /\ stream'[1].request.cseq = user.step + 1
      BY <3>1, <3>5
    <3>7. user'.step = user.step + 1 /\ user'.cseq = user.cseq + 1
          /\ user'.waiting /\ user'.session = user.session
      BY <1>7 DEF Ask, TypeOK
    <3>8. user'.session = Absent /\ user'.cseq = user'.step /\ answers' = <<>>
      BY <2>1, <3>1, <3>7
    <3>9. CASE user.step = 0
      BY <3>2, <3>5, <3>6, <3>7, <3>8, <3>9 DEF Opening, OnlyRequest
    <3>10. CASE user.step = 1
      BY <2>1, <3>1, <3>2, <3>5, <3>6, <3>7, <3>8, <3>10 DEF Opening, OnlyRequest
    <3> QED  BY <3>1, <3>9, <3>10
  <2> QED  BY <1>5, <2>1, <2>2
<1>8. CASE KeepAlive
  <2>1. UNCHANGED <<answers, streamclient>> /\ user.session # Absent
    BY <1>8 DEF KeepAlive
  <2>2. ~Opening
    BY <2>1 DEF Opening
  <2> QED  BY <1>5, <2>1, <2>2
<1>9. CASE ReadAnswer
  <2>1. /\ answers # <<>> /\ answers' = Tail(answers) /\ UNCHANGED <<stream, streamclient>>
        /\ user'.step = user.step /\ user'.cseq = user.cseq /\ ~user'.waiting
        /\ user'.session = IF Head(answers).ports # "none" THEN Head(answers).session ELSE user.session
    BY <1>9 DEF ReadAnswer, TypeOK
  <2>2. /\ Len(answers) >= 1 /\ Head(answers) = answers[1]
        /\ Len(answers') = Len(answers) - 1
        /\ \A k \in 1 .. Len(answers') : answers'[k] = answers[k + 1]
        /\ Len(answers) = 1 => answers' = <<>>
    BY <1>1, <2>1, OneLess
  <2>3. \A k \in 1 .. Len(answers') : Matching(answers'[k])
    BY <1>1, <1>5, <2>2
  <2>4. ASSUME Opening PROVE Opening'
    <3>1. /\ user.step = 1 /\ stream = <<>> /\ streamclient.cseq = 2
          /\ Len(answers) = 1 /\ answers[1].ports = "none"
          /\ user.session = Absent /\ user.cseq = user.step
      BY <2>1, <2>4 DEF Opening
    <3> QED  BY <2>1, <2>2, <3>1 DEF Opening
  <2> QED  BY <1>5, <2>1, <2>3, <2>4
<1>10. CASE Leave
  <2>1. answers' = <<>> /\ streamclient'.state = "NOCLIENT"
    BY <1>10 DEF Leave, Forgotten, TypeOK
  <2> QED  BY <2>1
<1>11. ASSUME NEW n \in 1 .. Len(stream), Receive(n)
       PROVE  /\ \A k \in 1 .. Len(answers') : Matching(answers'[k])
              /\ streamclient'.state = "CLICONNECTED" => Opening'
  <2> DEFINE msg == parse_rtsp(SubSeq(stream, 1, n))
             request == stream[1].request
  <2>1. /\ msg \in Msg /\ request \in Request /\ rtspmsg' = msg /\ Handle(msg, request)
        /\ Complete(SubSeq(stream, 1, n)) => msg.type = request.type /\ msg.cseq = request.cseq
        /\ "segment" \notin odd' =>
             n = 2 /\ (Complete(SubSeq(stream, 1, n)) <=> request.type \in Types)
        /\ stream' \in Seq(Part) /\ Len(stream') = Len(stream) - n
    BY <1>11, Received
  <2> HIDE DEF msg
  <2>2. \/ Unanswered(msg)
        \/ \E answer \in AnswerRecord :
             /\ Answer(answer) /\ Matching(answer)
             /\ msg.type = "OPTIONS" => answer.ports = "none"
    BY <1>3, <1>4, <1>11, <2>1, CalmReply
  <2>3. ASSUME NEW answer \in AnswerRecord, Answer(answer)
        PROVE  /\ Len(answers') = Len(answers) + 1
               /\ \A k \in 1 .. Len(answers) : answers'[k] = answers[k]
               /\ answers'[Len(answers) + 1] = answer
    BY <1>1, <2>3, OneMore
  <2>4. \A k \in 1 .. Len(answers') : Matching(answers'[k])
    <3>1. CASE UNCHANGED answers
      BY <1>5, <3>1
    <3>2. ASSUME NEW answer \in AnswerRecord, Answer(answer), Matching(answer)
          PROVE  \A k \in 1 .. Len(answers') : Matching(answers'[k])
      <4> TAKE k \in 1 .. Len(answers')
      <4>1. k \in 1 .. Len(answers) \/ k = Len(answers) + 1
        BY <1>1, <2>3, <3>2
      <4> QED  BY <1>5, <2>3, <3>2, <4>1
    <3>3. \/ UNCHANGED answers
          \/ \E answer \in AnswerRecord : Answer(answer) /\ Matching(answer)
      BY <2>2 DEF Unanswered
    <3> QED  BY <3>1, <3>2, <3>3
  <2>5. ASSUME streamclient'.state = "CLICONNECTED" PROVE Opening'
    <3>1. streamclient.state = "CLICONNECTED" /\ (Options(msg, request) \/ Unanswered(msg))
      BY <2>1, <2>5, Moved
    <3>2. /\ Opening /\ stream # <<>> /\ Len(stream) = 2 /\ answers = <<>>
          /\ user.step \in {1, 2} /\ user.waiting
          /\ request.cseq = user.step
          /\ request.type = IF user.step = 1 THEN "OPTIONS" ELSE "DESCRIBE"
      <4>1. Len(stream) # 0
        OBVIOUS
      <4> QED  BY <1>5, <3>1, <4>1 DEF Opening, OnlyRequest
    <3>3. n = 2 /\ msg.type = request.type /\ msg.cseq = request.cseq
      <4>1. "segment" \notin odd'
        BY <1>3 DEF Calm
      <4>2. request.type \in Types
        BY <3>2 DEF Types
      <4> QED  BY <2>1, <4>1, <4>2
    <3>4. Options(msg, request) /\ user.step = 1
      BY <3>1, <3>2, <3>3 DEF Unanswered, InTurn, Options
    <3>5. stream' = <<>>
      BY <2>1, <3>2, <3>3, EmptySeq
    <3>6. streamclient'.cseq = 2
      BY <3>2, <3>3, <3>4 DEF Options, TypeOK
    <3>7. Len(answers') = 1 /\ answers'[1].ports = "none"
      <4>1. ~Unanswered(msg) /\ msg.type = "OPTIONS"
        BY <3>1, <3>4 DEF Unanswered, InTurn, Options
      <4>2. PICK answer \in AnswerRecord : Answer(answer) /\ answer.ports = "none"
        BY <2>2, <4>1
      <4>3. Len(answers) = 0
        BY <3>2
      <4> QED  BY <2>3, <4>2, <4>3
    <3>8. UNCHANGED user
      BY <1>11 DEF Receive
    <3>9. user.session = Absent /\ user.cseq = user.step
      BY <3>2 DEF Opening
    <3> QED  BY <3>2, <3>4, <3>5, <3>6, <3>7, <3>8, <3>9 DEF Opening
  <2> QED  BY <2>4, <2>5
<1>12. CASE UNCHANGED vars
  <2>1. UNCHANGED <<answers, streamclient, user, stream>>
    BY <1>12 DEF vars
  <2>2. Opening => Opening'
    BY <2>1 DEF Opening, OnlyRequest
  <2> QED  BY <1>5, <2>1, <2>2
<1> QED  BY <1>6, <1>7, <1>8, <1>9, <1>10, <1>11, <1>12 DEF Next

\* Every answer carries the CSeq of its request, the guessed one of DESCRIBE
\* too, as long as clients start with OPTIONS and recv() returns requests
\* whole; keep-alives and clients that leave when they like change nothing.
THEOREM AnswersMatch == Spec => []CSeqMatches
<1>1. Init => CSeqInv
  BY DEF Init, NewClient, CSeqInv, CSeqMatches
<1>2. Spec => []CSeqInv
  BY <1>1, TypeCorrect, CSeqStep, PTL DEF Spec
<1>3. CSeqInv => CSeqMatches
  BY DEF CSeqInv
<1> QED  BY <1>2, <1>3, PTL
=============================================================================
