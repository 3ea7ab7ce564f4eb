----------------------------- MODULE RtspDialog -----------------------------
(***************************************************************************)
(* What the server reads from and writes to its RTSP client: parse_rtsp,   *)
(* write_rtsp and the rtsp_* functions of httpmsg.c, as the select loop    *)
(* calls them for one connection after the other.  TCP gives recv() bytes, *)
(* not messages; each recv() is parsed by itself.                          *)
(*                                                                         *)
(* Of a message the model keeps the type, CSeq, Session and Transport; the *)
(* sockets, the download and the stream are in RtspServer.                 *)
(***************************************************************************)
EXTENDS Integers, Sequences

CONSTANTS
  MaxConns,  \* bound: connections
  MaxAlive,  \* bound: keep-alive requests of a connection
  Env        \* what clients and the network may do that the server ignores

\* "segment": recv() returns part of a request, or more than one;
\* "no_options": a client starts with DESCRIBE; "keepalive": GET_PARAMETER
\* while the session lasts; "disconnect": a client leaves when it likes.
ASSUME DialogAssumption ==
  /\ MaxConns \in Nat /\ MaxAlive \in Nat
  /\ Env \subseteq {"segment", "no_options", "keepalive", "disconnect"}

\* The order of an RTSP session.
Session == <<"OPTIONS", "DESCRIBE", "SETUP", "SETUP", "PLAY", "TEARDOWN">>
Types == {"OPTIONS", "DESCRIBE", "SETUP", "PLAY", "TEARDOWN"}
Absent == -1           \* a CSeq or Session header that is not there

VARIABLES
  stream,        \* bytes on their way to the server: each request in two parts
  answers,       \* answers on their way to the client
  streamclient,  \* state, cseq, session and setupsreceived
  rtspmsg,       \* the RTSPMsg parsed last
  user,          \* the client: its step, its CSeq, its session, if it waits
  drawn,         \* the sessions drawn so far are 1 .. drawn
  mine,          \* history: those drawn for this connection
  conns,         \* connections so far
  odd            \* history: which members of Env have happened

vars == <<stream, answers, streamclient, rtspmsg, user, drawn, mine, conns, odd>>

\* init_client
NewClient == [state |-> "NOCLIENT", cseq |-> 0, session |-> 0, setups |-> 0]

\* A zeroed RTSPMsg: no field, type OPTIONS.
Zeroed == [fields |-> {}, type |-> "OPTIONS", cseq |-> 0, session |-> 0]

NewUser == [step |-> 0, cseq |-> 0, session |-> Absent, waiting |-> FALSE, alive |-> 0]

Init ==
  /\ stream = <<>> /\ answers = <<>>
  /\ streamclient = NewClient
  /\ rtspmsg = Zeroed
  /\ user = NewUser
  /\ drawn = 0 /\ mine = {}
  /\ conns = 0
  /\ odd = {}

-----------------------------------------------------------------------------
(***************************************************************************)
(* httpmsg.c                                                               *)
(***************************************************************************)

\* recv() has returned a request whole: without its end the loop over the lines
\* is not entered, without its beginning the first line has no known type.
Complete(segment) ==
  Len(segment) >= 2 /\ segment[1].part = "head" /\ segment[1].request.type \in Types

\* The fields the headers of a request set.
FieldsOf(r) == {"CSEQ"} \cup (IF r.session = Absent THEN {} ELSE {"SESSION"})
                        \cup (IF r.type = "SETUP" THEN {"TRANSPORT"} ELSE {})

\* Mutant: the structure is not zeroed; headers of the last message stay.
parse_rtsp_keep(segment) ==
  IF ~Complete(segment) THEN rtspmsg
  ELSE LET r == segment[1].request
       IN  [fields |-> rtspmsg.fields \cup FieldsOf(r), type |-> r.type, cseq |-> r.cseq,
            session |-> IF r.session = Absent THEN rtspmsg.session ELSE r.session]

\* Of two requests in one segment the second is not looked at; of what is not a
\* whole request the zeroed structure is left.
parse_rtsp(segment) ==
  IF ~Complete(segment) THEN Zeroed
  ELSE LET r == segment[1].request
       IN  [fields |-> FieldsOf(r), type |-> r.type, cseq |-> r.cseq,
            session |-> IF r.session = Absent THEN 0 ELSE r.session]

\* The headers an answer has; `request` is what it answers.
write_rtsp(msg, ports, request) ==
  [cseq    |-> IF "CSEQ" \in msg.fields THEN msg.cseq ELSE Absent,
   session |-> IF "SESSION" \in msg.fields THEN msg.session ELSE Absent,
   ports   |-> IF "TRANSPORT" \in msg.fields THEN ports ELSE "none",
   request |-> request]

\* Symmetric difference: newmsg.fields ^= F_SESSION
Toggled(msg, field) ==
  IF field \in msg.fields THEN [msg EXCEPT !.fields = @ \ {field}]
                          ELSE [msg EXCEPT !.fields = @ \cup {field}]

-----------------------------------------------------------------------------
(***************************************************************************)
(* The branches of the select loop.  msg is what was parsed, request where *)
(* the segment began.                                                      *)
(***************************************************************************)
Answer(answer) == answers' = Append(answers, answer)

\* Mutant: the CSeq of the next request is not kept.
OptionsNoCSeq(msg, request) ==
  /\ streamclient.state = "CLICONNECTED" /\ msg.type = "OPTIONS"
  /\ Answer(write_rtsp(msg, "none", request))
  /\ UNCHANGED <<streamclient, drawn, mine>>

Options(msg, request) ==
  /\ streamclient.state = "CLICONNECTED" /\ msg.type = "OPTIONS"
  /\ streamclient' = [streamclient EXCEPT !.cseq = msg.cseq + 1]
  /\ Answer(write_rtsp(msg, "none", request))
  /\ UNCHANGED <<drawn, mine>>

\* The CSeq of the answer is the one OPTIONS has predicted.
Describe(msg, request) ==
  /\ streamclient.state = "CLICONNECTED" /\ msg.type = "DESCRIBE"
  /\ streamclient' = [streamclient EXCEPT !.state = "SDPSENT", !.cseq = @ + 1]
  /\ Answer(write_rtsp([msg EXCEPT !.fields = {"CSEQ"}, !.cseq = streamclient.cseq],
                       "none", request))
  /\ UNCHANGED <<drawn, mine>>

\* A new session each time; the first SETUP is for audio, any other for video.
Setup(msg, request) ==
  LET first == streamclient.setups = 0
      ports == IF first THEN "audio" ELSE "video"
  IN  /\ streamclient.state = "SDPSENT" /\ msg.type = "SETUP"
      /\ drawn' = drawn + 1 /\ mine' = mine \cup {drawn'}
      /\ streamclient' = [streamclient EXCEPT
           !.setups = @ + 1, !.session = drawn',
           !.state = IF first THEN @ ELSE "SETUPCOMPLETE"]
      /\ Answer(write_rtsp([msg EXCEPT !.session = drawn', !.fields = @ \cup {"SESSION"}],
                           ports, request))

\* Mutant: the setups of the session before still count.
TeardownKeepsSetups(msg, request) ==
  /\ msg.type = "TEARDOWN"
  /\ Answer(write_rtsp([msg EXCEPT !.fields = {"CSEQ", "SESSION"}], "none", request))
  /\ streamclient' = [NewClient EXCEPT !.setups = streamclient.setups]
  /\ UNCHANGED <<drawn, mine>>

Play(msg, request) ==
  /\ streamclient.state = "SETUPCOMPLETE" /\ msg.type = "PLAY"
  /\ Answer(write_rtsp(Toggled(msg, "SESSION"), "none", request))
  /\ UNCHANGED <<streamclient, drawn, mine>>

\* In any state; the connection is closed.
Teardown(msg, request) ==
  /\ msg.type = "TEARDOWN"
  /\ Answer(write_rtsp([msg EXCEPT !.fields = {"CSEQ", "SESSION"}], "none", request))
  /\ streamclient' = NewClient
  /\ UNCHANGED <<drawn, mine>>

\* Everything else is left unanswered.
InTurn ==
  CASE streamclient.state = "CLICONNECTED" -> {"OPTIONS", "DESCRIBE", "TEARDOWN"}
    [] streamclient.state = "SDPSENT" -> {"SETUP", "TEARDOWN"}
    [] streamclient.state = "SETUPCOMPLETE" -> {"PLAY", "TEARDOWN"}
    [] OTHER -> {}

Unanswered(msg) ==
  /\ msg.type \notin InTurn
  /\ UNCHANGED <<answers, streamclient, drawn, mine>>

\* recv() returns the first n parts of the stream.
Receive(n) ==
  LET segment == SubSeq(stream, 1, n)
      msg     == parse_rtsp(segment)
      request == segment[1].request
  IN  /\ streamclient.state # "NOCLIENT"
      /\ n <= Len(stream)
      /\ n # 2 \/ segment[1].part = "tail" => "segment" \in Env
      /\ odd' = IF n # 2 \/ segment[1].part = "tail" THEN odd \cup {"segment"} ELSE odd
      /\ stream' = SubSeq(stream, n + 1, Len(stream))
      /\ rtspmsg' = msg
      /\ \/ Options(msg, request) \/ Describe(msg, request) \/ Setup(msg, request)
         \/ Play(msg, request) \/ Teardown(msg, request) \/ Unanswered(msg)
      /\ UNCHANGED <<user, conns>>

-----------------------------------------------------------------------------
(***************************************************************************)
(* The client (external), and its connections.                             *)
(***************************************************************************)

\* recv() returned 0: only the state is reset.
Forgotten == streamclient' = [streamclient EXCEPT !.state = "NOCLIENT"]

Connect ==
  /\ streamclient.state = "NOCLIENT" /\ answers = <<>>
  /\ conns < MaxConns /\ conns' = conns + 1
  /\ streamclient' = [streamclient EXCEPT !.state = "CLICONNECTED"]
  /\ \/ user' = NewUser /\ UNCHANGED odd
     \/ "no_options" \in Env /\ user' = [NewUser EXCEPT !.step = 1]
        /\ odd' = odd \cup {"no_options"}
  /\ stream' = <<>>
  /\ mine' = {}
  /\ UNCHANGED <<answers, rtspmsg, drawn>>

Sent(type) ==
  LET request == [type |-> type, cseq |-> user.cseq + 1, session |-> user.session]
  IN  stream' = stream \o <<[part |-> "head", request |-> request],
                            [part |-> "tail", request |-> request]>>

\* The next request of the session, when the last has been answered.
Ask ==
  /\ streamclient.state # "NOCLIENT"
  /\ ~user.waiting /\ user.step < Len(Session)
  /\ Sent(Session[user.step + 1])
  /\ user' = [user EXCEPT !.cseq = @ + 1, !.step = @ + 1, !.waiting = TRUE]
  /\ UNCHANGED <<answers, streamclient, rtspmsg, drawn, mine, conns, odd>>

KeepAlive ==
  /\ "keepalive" \in Env /\ streamclient.state # "NOCLIENT"
  /\ user.session # Absent /\ user.alive < MaxAlive
  /\ Sent("GET_PARAMETER")
  /\ user' = [user EXCEPT !.cseq = @ + 1, !.alive = @ + 1]
  /\ odd' = odd \cup {"keepalive"}
  /\ UNCHANGED <<answers, streamclient, rtspmsg, drawn, mine, conns>>

ReadAnswer ==
  /\ answers # <<>>
  /\ LET answer == Head(answers)
     IN  user' = [user EXCEPT !.waiting = FALSE,
                              !.session = IF answer.ports # "none" THEN answer.session ELSE @]
  /\ answers' = Tail(answers)
  /\ UNCHANGED <<stream, streamclient, rtspmsg, drawn, mine, conns, odd>>

\* After a TEARDOWN the end of a connection that has sent nothing is taken for
\* another one (RtspServer.Hangup).
Leave ==
  /\ "disconnect" \in Env /\ streamclient.state # "NOCLIENT"
  /\ rtspmsg.type # "TEARDOWN"
  /\ Forgotten
  /\ odd' = odd \cup {"disconnect"}
  /\ stream' = <<>> /\ answers' = <<>>
  /\ user' = [user EXCEPT !.waiting = FALSE]
  /\ UNCHANGED <<rtspmsg, drawn, mine, conns>>

Next ==
  \/ Connect \/ Ask \/ KeepAlive \/ ReadAnswer \/ Leave
  \/ \E n \in 1 .. Len(stream) : Receive(n)

Spec == Init /\ [][Next]_vars

\* The loop reads what select() reports, the client reads its answers.
FairSpec ==
  /\ Spec
  /\ WF_vars(\E n \in 1 .. Len(stream) : Receive(n))
  /\ WF_vars(ReadAnswer)

-----------------------------------------------------------------------------
(***************************************************************************)
(* Properties.                                                             *)
(***************************************************************************)
Header == Nat \cup {Absent}
Ports == {"audio", "video"}
Request == [type : Types \cup {"GET_PARAMETER"}, cseq : Nat, session : Header]

TypeOK ==
  /\ stream \in Seq([part : {"head", "tail"}, request : Request])
  /\ answers \in Seq([cseq : Header, session : Header, ports : Ports \cup {"none"}, request : Request])
  /\ streamclient \in [state : {"NOCLIENT", "CLICONNECTED", "SDPSENT", "SETUPCOMPLETE"},
                       cseq : Nat, session : Nat, setups : Nat]
  /\ rtspmsg \in [fields : SUBSET {"CSEQ", "SESSION", "TRANSPORT"}, type : Types,
                  cseq : Nat, session : Nat]
  /\ user \in [step : 0 .. Len(Session), cseq : Nat, session : Header,
               waiting : BOOLEAN, alive : 0 .. MaxAlive]
  /\ streamclient.state = "SETUPCOMPLETE" => streamclient.setups >= 2
  /\ drawn \in Nat /\ mine \subseteq 1 .. drawn
  /\ conns \in 0 .. MaxConns /\ odd \subseteq Env

\* No client is told the session of another: what an answer names was drawn for
\* its own connection, or is the 0 of a request without a Session.
NoForeignSession ==
  \A k \in 1 .. Len(answers) : answers[k].session \in mine \cup {0, Absent}

\* An answer carries the CSeq of its request, also that to DESCRIBE, whose CSeq
\* the server guesses, if the client starts with OPTIONS and recv() returns
\* whole requests.
CSeqMatches ==
  odd \subseteq {"keepalive", "disconnect"} =>
    \A k \in 1 .. Len(answers) : answers[k].cseq = answers[k].request.cseq

\* A client that sends the requests in their order, each in one piece, gets an
\* answer to every one, in every session; keep-alives do not hinder it.
Usual == odd \subseteq {"keepalive"}
EveryRequestAnswered == (user.waiting /\ Usual) ~> (~user.waiting \/ ~Usual)
=============================================================================
