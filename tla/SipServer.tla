------------------------------- MODULE SipServer -------------------------------
(***************************************************************************)
(* The SIP side of the movie theatre (mt_server.c): the table of clients   *)
(* that get the audio, the handlers of INVITE, ACK, BYE and 200 OK, and    *)
(* the BYE sent to the clients when the media ends.                        *)
(*                                                                         *)
(* The clients and the UDP network between them and the server are not     *)
(* part of the repository; they are modelled as the server must expect     *)
(* them.  Addresses and header fields other than the type, the Call-ID and *)
(* the method of CSeq are left out.                                        *)
(***************************************************************************)
EXTENDS Naturals, FiniteSets

CONSTANTS
  MAXCLIENTS,  \* slots of the client list (10 in the code)
  Sockets,     \* the descriptors an RTP socket may get
  Calls,       \* Call-IDs, one per client
  NULL,        \* a free slot
  NoCallId,    \* the empty Call-ID of a message that was not parsed
  MaxInFlight, \* bound: messages on their way to the server
  MaxStreams,  \* bound: ends of a stream that are handled
  Net          \* what the network and the clients may do to messages

ASSUME SipAssumption ==
  /\ MAXCLIENTS \in Nat \ {0}
  /\ MaxInFlight \in Nat
  /\ MaxStreams \in Nat
  /\ IsFiniteSet(Calls)
  /\ NoCallId \notin Calls
  /\ Net \subseteq {"lose", "duplicate", "retransmit", "unknown"}

Slots == 1 .. MAXCLIENTS
SIPClient == [callid : Calls \cup {NoCallId}, sockfd : Sockets, ackrecvd : BOOLEAN]
ASSUME NullAssumption == NULL \notin SIPClient

\* A message has a type, a Call-ID, and for a 200 OK the method it answers.
Message == [type : {"INVITE", "ACK", "BYE", "OK", "unknown"},
            callid : Calls \cup {NoCallId}, method : {"INVITE", "BYE", "none"}]
Msg(type, c) == [type |-> type, callid |-> c, method |-> "none"]
Ok(c, method) == [type |-> "OK", callid |-> c, method |-> method]

VARIABLES
  clientlist,  \* slot -> NULL or a SIPClient
  nclients,    \* the counter beside it
  open,        \* the RTP sockets that are open
  ended,       \* how often ENDOFSTREAM has been handled
  atend,       \* history: the calls in the table at the last of them
  toserver,    \* messages on their way to siplistenfd
  toclients,   \* messages on their way to the clients
  caller,      \* the state of the client of each call
  faulty       \* history: a message was lost or repeated, or is unknown

server == <<clientlist, nclients, open>>
vars == <<clientlist, nclients, open, ended, atend, toserver, toclients, caller, faulty>>

Init ==
  /\ clientlist = [k \in Slots |-> NULL]
  /\ nclients = 0
  /\ open = {}
  /\ ended = 0
  /\ atend = {}
  /\ toserver = {}
  /\ toclients = {}
  /\ caller = [c \in Calls |-> "idle"]
  /\ faulty = FALSE

Occupied == {k \in Slots : clientlist[k] # NULL}
SlotsOf(c) == {k \in Occupied : clientlist[k].callid = c}
Acked == {k \in Occupied : clientlist[k].ackrecvd}

-----------------------------------------------------------------------------
(***************************************************************************)
(* The handlers of the server.                                             *)
(***************************************************************************)

\* parsesipmsg: a message of another type makes it return early, and leaves
\* the zeroed structure, which reads as an INVITE without a Call-ID.
parsesipmsg(m) == IF m.type = "unknown" THEN Msg("INVITE", NoCallId) ELSE m

First(ks) == CHOOSE k \in ks : \A j \in ks : k <= j

\* Recvfrom takes a message; the network may hold another copy.
Taken(m) ==
  \/ toserver' = toserver \ {m} /\ UNCHANGED faulty
  \/ "duplicate" \in Net /\ UNCHANGED toserver /\ faulty' = TRUE

\* Mutant: the counter is not moved.
InviteNoCount(m) ==
  /\ parsesipmsg(m).type = "INVITE"
  /\ nclients < MAXCLIENTS
  /\ toclients' = toclients \cup {Ok(parsesipmsg(m).callid, "INVITE")}
  /\ \E fd \in Sockets \ open :
       /\ open' = open \cup {fd}
       /\ clientlist' = [clientlist EXCEPT ![First(Slots \ Occupied)] =
            [callid |-> parsesipmsg(m).callid, sockfd |-> fd, ackrecvd |-> FALSE]]
  /\ UNCHANGED nclients

\* INVITE: answer, open a socket to the client, take the first free slot.
Invite(m) ==
  /\ parsesipmsg(m).type = "INVITE"
  /\ nclients < MAXCLIENTS
  /\ toclients' = toclients \cup {Ok(parsesipmsg(m).callid, "INVITE")}
  /\ \E fd \in Sockets \ open :
       /\ open' = open \cup {fd}
       /\ clientlist' = [clientlist EXCEPT ![First(Slots \ Occupied)] =
            [callid |-> parsesipmsg(m).callid, sockfd |-> fd, ackrecvd |-> FALSE]]
  /\ nclients' = nclients + 1

\* INVITE when the table is full: nothing is answered.
InviteRejected(m) ==
  /\ parsesipmsg(m).type = "INVITE"
  /\ nclients >= MAXCLIENTS
  /\ UNCHANGED <<server, toclients>>

\* ACK: the first slot of the call gets audio from now on.
Ack(m) ==
  /\ parsesipmsg(m).type = "ACK"
  /\ clientlist' = IF SlotsOf(m.callid) = {} THEN clientlist
                   ELSE [clientlist EXCEPT ![First(SlotsOf(m.callid))].ackrecvd = TRUE]
  /\ UNCHANGED <<nclients, open, toclients>>

\* Mutants: the first client is removed, whatever its call; the socket of the
\* client stays open.
RemoveFirstClient(c) ==
  IF Occupied = {} THEN UNCHANGED server
  ELSE LET k == First(Occupied)
       IN  /\ open' = open \ {clientlist[k].sockfd}
           /\ clientlist' = [clientlist EXCEPT ![k] = NULL]
           /\ nclients' = nclients - 1
RemoveClientNoClose(c) ==
  IF SlotsOf(c) = {} THEN UNCHANGED server
  ELSE LET k == First(SlotsOf(c))
       IN  /\ clientlist' = [clientlist EXCEPT ![k] = NULL]
           /\ nclients' = nclients - 1
           /\ UNCHANGED open

\* "Remove client info": the first slot of the call.
RemoveClient(c) ==
  IF SlotsOf(c) = {} THEN UNCHANGED server
  ELSE LET k == First(SlotsOf(c))
       IN  /\ open' = open \ {clientlist[k].sockfd}
           /\ clientlist' = [clientlist EXCEPT ![k] = NULL]
           /\ nclients' = nclients - 1

\* Mutant: BYE is answered, the client stays.
ByeOnlyAnswered(m) ==
  /\ parsesipmsg(m).type = "BYE"
  /\ toclients' = toclients \cup {Ok(m.callid, "BYE")}
  /\ UNCHANGED server

\* BYE of a client: answer and remove.
Bye(m) ==
  /\ parsesipmsg(m).type = "BYE"
  /\ toclients' = toclients \cup {Ok(m.callid, "BYE")}
  /\ RemoveClient(m.callid)

\* Mutant: the answer to the server's BYE is ignored.
SipOkIgnored(m) ==
  /\ parsesipmsg(m).type = "OK"
  /\ UNCHANGED <<server, toclients>>

\* 200 OK, which answers the server's BYE: remove.
SipOk(m) ==
  /\ parsesipmsg(m).type = "OK"
  /\ RemoveClient(m.callid)
  /\ UNCHANGED toclients

Receive(m) ==
  /\ m \in toserver
  /\ Taken(m)
  /\ Invite(m) \/ InviteRejected(m) \/ Ack(m) \/ Bye(m) \/ SipOk(m)
  /\ UNCHANGED <<ended, atend, caller>>

\* ENDOFSTREAM: a BYE to every client that has sent its ACK.
EndOfStream ==
  /\ ended < MaxStreams
  /\ ended' = ended + 1
  /\ atend' = {clientlist[k].callid : k \in Occupied} \cap Calls
  /\ toclients' = toclients \cup {Msg("BYE", clientlist[k].callid) : k \in Acked}
  /\ UNCHANGED <<server, toserver, caller, faulty>>

-----------------------------------------------------------------------------
(***************************************************************************)
(* The clients and the network (external).                                 *)
(***************************************************************************)
Send(m) ==
  /\ Cardinality(toserver \cup {m}) <= MaxInFlight
  /\ toserver' = toserver \cup {m}

\* A client places its call, or repeats an INVITE that is not answered.
Call(c) ==
  /\ \/ caller[c] = "idle"
     \/ caller[c] = "calling" /\ "retransmit" \in Net
  /\ caller' = [caller EXCEPT ![c] = "calling"]
  /\ faulty' = (faulty \/ caller[c] = "calling")
  /\ Send(Msg("INVITE", c))
  /\ UNCHANGED <<server, ended, atend, toclients>>

\* The answer to the INVITE is acknowledged.
Answered(c) ==
  /\ Ok(c, "INVITE") \in toclients
  /\ toclients' = toclients \ {Ok(c, "INVITE")}
  /\ IF caller[c] \in {"calling", "talking"}
       THEN Send(Msg("ACK", c)) /\ caller' = [caller EXCEPT ![c] = "talking"]
       ELSE UNCHANGED <<toserver, caller>>
  /\ UNCHANGED <<server, ended, atend, faulty>>

\* The client hangs up, or repeats a BYE that is not answered.
HangUp(c) ==
  /\ \/ caller[c] = "talking"
     \/ caller[c] = "leaving" /\ "retransmit" \in Net
  /\ caller' = [caller EXCEPT ![c] = "leaving"]
  /\ faulty' = (faulty \/ caller[c] = "leaving")
  /\ Send(Msg("BYE", c))
  /\ UNCHANGED <<server, ended, atend, toclients>>

HungUp(c) ==
  /\ Ok(c, "BYE") \in toclients
  /\ toclients' = toclients \ {Ok(c, "BYE")}
  /\ caller' = [caller EXCEPT ![c] = "gone"]
  /\ UNCHANGED <<server, ended, atend, toserver, faulty>>

\* The server's BYE is answered.
Dismissed(c) ==
  /\ Msg("BYE", c) \in toclients
  /\ toclients' = toclients \ {Msg("BYE", c)}
  /\ caller' = [caller EXCEPT ![c] = "gone"]
  /\ Send(Ok(c, "BYE"))
  /\ UNCHANGED <<server, ended, atend, faulty>>

\* A request the server does not know (OPTIONS, REGISTER, CANCEL, ...).
Unknown ==
  /\ "unknown" \in Net
  /\ Send(Msg("unknown", NoCallId))
  /\ faulty' = TRUE
  /\ UNCHANGED <<server, ended, atend, toclients, caller>>

Lose ==
  /\ "lose" \in Net
  /\ faulty' = TRUE
  /\ \/ /\ \E m \in toserver : toserver' = toserver \ {m}
        /\ UNCHANGED toclients
     \/ /\ \E m \in toclients : toclients' = toclients \ {m}
        /\ UNCHANGED toserver
  /\ UNCHANGED <<server, ended, atend, caller>>

ClientStep(c) == Answered(c) \/ HungUp(c) \/ Dismissed(c)

Next ==
  \/ \E m \in toserver : Receive(m)
  \/ EndOfStream
  \/ \E c \in Calls : Call(c) \/ HangUp(c) \/ ClientStep(c)
  \/ Unknown
  \/ Lose

Spec == Init /\ [][Next]_vars

\* The select loop reads what has arrived and handles the end of the media;
\* clients answer.
FairSpec ==
  /\ Spec
  /\ \A m \in Message : WF_vars(Receive(m))
  /\ WF_vars(EndOfStream)
  /\ \A c \in Calls : WF_vars(ClientStep(c))

-----------------------------------------------------------------------------
(***************************************************************************)
(* Properties.                                                             *)
(***************************************************************************)

TypeOK ==
  /\ clientlist \in [Slots -> SIPClient \cup {NULL}]
  /\ nclients \in 0 .. MAXCLIENTS
  /\ open \subseteq Sockets
  /\ ended \in 0 .. MaxStreams
  /\ atend \subseteq Calls
  /\ toserver \subseteq Message
  /\ toclients \subseteq Message
  /\ caller \in [Calls -> {"idle", "calling", "talking", "leaving", "gone"}]
  /\ faulty \in BOOLEAN

\* nclients counts the clients of the table, so that an INVITE let in by the
\* counter finds a free slot, whatever arrives in whatever order.
CountExact == nclients = Cardinality(Occupied)

\* Every open RTP socket belongs to exactly one client of the table: none is
\* leaked, none is closed while in use.
SocketsOwned ==
  /\ open = {clientlist[k].sockfd : k \in Occupied}
  /\ \A j, k \in Occupied : j # k => clientlist[j].sockfd # clientlist[k].sockfd

InFlight(c) == \E m \in toserver \cup toclients : m.callid = c

\* While the network delivers, in any order: audio goes to clients in a call
\* only; one that has left is either out of the table or its last message is
\* still on its way.
AudioOnlyToCalls ==
  ~faulty => \A k \in Acked : LET c == clientlist[k].callid
                              IN  caller[c] \in {"talking", "leaving"} \/ InFlight(c)

\* While the network delivers, in any order: once a client has left and nothing
\* of its call is on its way, BYE has found and removed its client info.
NoOrphanSlot ==
  ~faulty => \A c \in Calls : caller[c] = "gone" /\ ~InFlight(c) => SlotsOf(c) = {}

\* The table holds clients that have placed a call: a message of an unknown
\* type is not taken for an INVITE.
OnlyCallers == \A k \in Occupied : clientlist[k].callid \in Calls

\* At the end of the media the server "sends bye to SIP clients": every client
\* that is in the table then leaves it.
EveryCallEnds == \A c \in Calls : (c \in atend) ~> (SlotsOf(c) = {})
=============================================================================
