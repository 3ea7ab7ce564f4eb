---------------------------- MODULE SipServerProofs ----------------------------
(***************************************************************************)
(* Proofs about SipServer for every number of slots and calls and every    *)
(* network.                                                                *)
(***************************************************************************)
EXTENDS SipServer, FiniteSetTheorems, WellFoundedInduction, TLAPS

\* A set of slots that is not empty has a first one.
LEMMA FirstSlot ==
  ASSUME NEW ks \in SUBSET Slots, ks # {}
  PROVE  First(ks) \in ks
<1>1. ks \subseteq Nat
  BY SipAssumption DEF Slots
<1>2. PICK k \in ks : \A j \in ks : ~ (<<j, k>> \in OpToRel(<, Nat))
  BY <1>1, WFMin, NatLessThanWellFounded, Zenon
<1>3. \A j \in ks : k <= j
  <2>1. \A i, j \in Nat : i < j => <<i, j>> \in OpToRel(<, Nat)
    BY Zenon DEF OpToRel
  <2>2. \A j \in ks : ~ (j < k)
    BY <1>1, <1>2, <2>1, Zenon
  <2> QED  BY <1>1, <2>2
<1> QED  BY <1>3 DEF First

\* The slots are finite in number, and so are those in use.
LEMMA SlotsFinite ==
  /\ IsFiniteSet(Slots) /\ Cardinality(Slots) = MAXCLIENTS
  /\ IsFiniteSet(Occupied) /\ Cardinality(Occupied) \in Nat
  /\ Cardinality(Occupied) <= MAXCLIENTS
  /\ Occupied \subseteq Slots
<1>1. MAXCLIENTS \in Nat /\ MAXCLIENTS >= 1
  BY SipAssumption
<1>2. IsFiniteSet(Slots) /\ Cardinality(Slots) = MAXCLIENTS
  BY <1>1, FS_Interval DEF Slots
<1>3. Occupied \in SUBSET Slots
  BY DEF Occupied
<1> QED  BY <1>2, <1>3, FS_Subset, FS_CardinalityType

\* The three invariants hold together: the free slot of Invite and the socket
\* that RemoveClient closes each need the other two.
ServerInv == TypeOK /\ CountExact /\ SocketsOwned

\* A counter below the limit means a free slot.
LEMMA FreeSlot ==
  ASSUME CountExact, nclients < MAXCLIENTS
  PROVE  First(Slots \ Occupied) \in Slots \ Occupied
<1>1. Slots \ Occupied # {}
  BY SlotsFinite, SipAssumption DEF CountExact
<1>2. Slots \ Occupied \in SUBSET Slots
  OBVIOUS
<1> QED  BY <1>1, <1>2, FirstSlot

\* parsesipmsg returns a message.
LEMMA ParsedIsMessage ==
  ASSUME NEW m \in Message
  PROVE  parsesipmsg(m) \in Message /\ parsesipmsg(m).callid \in Calls \cup {NoCallId}
BY DEF parsesipmsg, Message, Msg

\* Taking a message leaves the ones that were there, or fewer.
LEMMA TakenType ==
  ASSUME TypeOK, NEW m, Taken(m)
  PROVE  toserver' \subseteq Message /\ faulty' \in BOOLEAN
BY Zenon DEF Taken, TypeOK

\* A new client takes a free slot and a socket of its own.
LEMMA InviteInv ==
  ASSUME ServerInv, NEW m \in toserver, Invite(m), Taken(m),
         UNCHANGED <<ended, atend, caller>>
  PROVE  ServerInv'
<1> DEFINE k == First(Slots \ Occupied)
           new(fd) == [callid |-> parsesipmsg(m).callid, sockfd |-> fd, ackrecvd |-> FALSE]
<1>1. PICK fd \in Sockets \ open :
        /\ open' = open \cup {fd}
        /\ clientlist' = [clientlist EXCEPT ![k] = new(fd)]
  BY DEF Invite
<1>2. k \in Slots \ Occupied
  BY FreeSlot DEF ServerInv, Invite
<1>3. m \in Message
  BY DEF ServerInv, TypeOK
<1>4. new(fd) \in SIPClient
  BY <1>1, <1>3, ParsedIsMessage DEF SIPClient
<1> HIDE DEF k
<1>5. /\ clientlist' \in [Slots -> SIPClient \cup {NULL}]
      /\ \A j \in Slots : clientlist'[j] = IF j = k THEN new(fd) ELSE clientlist[j]
  BY <1>1, <1>2, <1>4 DEF ServerInv, TypeOK
<1>6. Occupied' = Occupied \cup {k}
  BY <1>2, <1>4, <1>5, NullAssumption DEF Occupied
<1>7. CountExact' /\ nclients' \in 0 .. MAXCLIENTS
  <2>1. Cardinality(Occupied') = Cardinality(Occupied) + 1
    BY <1>2, <1>6, SlotsFinite, FS_AddElement
  <2> QED  BY <2>1, SipAssumption DEF ServerInv, CountExact, TypeOK, Invite
<1>8. SocketsOwned'
  <2>1. \A j \in Occupied : clientlist'[j] = clientlist[j]
    BY <1>2, <1>5 DEF Occupied
  <2>2. clientlist'[k].sockfd = fd
    BY <1>2, <1>5
  <2>3. \A j \in Occupied : clientlist[j].sockfd \in open
    BY DEF ServerInv, SocketsOwned
  <2>4. open' = {clientlist'[j].sockfd : j \in Occupied'}
    BY <1>1, <1>6, <2>1, <2>2 DEF ServerInv, SocketsOwned
  <2>5. \A i, j \in Occupied' : i # j => clientlist'[i].sockfd # clientlist'[j].sockfd
    BY <1>1, <1>6, <2>1, <2>2, <2>3 DEF ServerInv, SocketsOwned
  <2> QED  BY <2>4, <2>5 DEF SocketsOwned
<1>9. toserver' \subseteq Message /\ toclients' \subseteq Message /\ faulty' \in BOOLEAN
  <2>1. toclients' \subseteq Message
    BY <1>3, ParsedIsMessage DEF ServerInv, TypeOK, Invite, Ok, Message
  <2> QED  BY <2>1, TakenType DEF ServerInv
<1>10. TypeOK'
  BY <1>1, <1>5, <1>7, <1>9 DEF ServerInv, TypeOK
<1> QED  BY <1>7, <1>8, <1>10 DEF ServerInv

\* Removing a client frees its slot and closes its socket, no other.
LEMMA RemoveClientInv ==
  ASSUME ServerInv, NEW c, RemoveClient(c)
  PROVE  /\ clientlist' \in [Slots -> SIPClient \cup {NULL}]
         /\ nclients' \in 0 .. MAXCLIENTS
         /\ open' \subseteq Sockets
         /\ CountExact'
         /\ SocketsOwned'
<1>1. CASE SlotsOf(c) = {}
  <2>1. UNCHANGED server
    BY <1>1 DEF RemoveClient
  <2> QED  BY <2>1 DEF ServerInv, TypeOK, CountExact, SocketsOwned, server, Occupied
<1>2. CASE SlotsOf(c) # {}
  <2> DEFINE k == First(SlotsOf(c))
  <2>1. k \in Occupied
    <3>1. SlotsOf(c) \in SUBSET Occupied /\ Occupied \subseteq Slots
      BY DEF SlotsOf, Occupied
    <3> QED  BY <1>2, <3>1, FirstSlot
  <2>2. /\ open' = open \ {clientlist[k].sockfd}
        /\ clientlist' = [clientlist EXCEPT ![k] = NULL]
        /\ nclients' = nclients - 1
    BY <1>2 DEF RemoveClient
  <2> HIDE DEF k
  <2>3. /\ clientlist' \in [Slots -> SIPClient \cup {NULL}]
        /\ \A j \in Slots : clientlist'[j] = IF j = k THEN NULL ELSE clientlist[j]
    BY <2>1, <2>2 DEF ServerInv, TypeOK, Occupied
  <2>4. Occupied' = Occupied \ {k}
    BY <2>1, <2>3 DEF Occupied
  <2>5. Cardinality(Occupied') = Cardinality(Occupied) - 1
    BY <2>1, <2>4, SlotsFinite, FS_RemoveElement
  <2>6. Cardinality(Occupied') \in Nat
    BY <2>4, SlotsFinite, FS_RemoveElement, FS_CardinalityType
  <2>7. CountExact' /\ nclients' \in 0 .. MAXCLIENTS
    BY <2>2, <2>5, <2>6, SlotsFinite, SipAssumption DEF ServerInv, CountExact
  <2>8. \A j \in Occupied' : j \in Occupied /\ j # k /\ clientlist'[j] = clientlist[j]
    BY <2>3, <2>4 DEF Occupied
  <2>9. SocketsOwned'
    <3>1. \A i, j \in Occupied' : i # j => clientlist'[i].sockfd # clientlist'[j].sockfd
      BY <2>8 DEF ServerInv, SocketsOwned
    <3>2. open' = {clientlist'[j].sockfd : j \in Occupied'}
      BY <2>1, <2>2, <2>4, <2>8 DEF ServerInv, SocketsOwned
    <3> QED  BY <3>1, <3>2 DEF SocketsOwned
  <2> QED  BY <2>2, <2>3, <2>7, <2>9 DEF ServerInv, TypeOK
<1> QED  BY <1>1, <1>2

\* ACK changes neither which slots are in use nor their sockets.
LEMMA AckInv ==
  ASSUME ServerInv, NEW m \in toserver, Ack(m), Taken(m),
         UNCHANGED <<ended, atend, caller>>
  PROVE  ServerInv'
<1>1. CASE SlotsOf(m.callid) = {}
  <2>1. /\ UNCHANGED <<server, ended, atend, caller, toclients>>
        /\ toserver' \subseteq Message /\ faulty' \in BOOLEAN
    BY <1>1, TakenType DEF Ack, server, ServerInv
  <2> QED  BY <2>1 DEF ServerInv, TypeOK, CountExact, SocketsOwned, server, Occupied
<1>2. CASE SlotsOf(m.callid) # {}
  <2> DEFINE k == First(SlotsOf(m.callid))
  <2>1. k \in Occupied
    <3>1. SlotsOf(m.callid) \in SUBSET Occupied /\ Occupied \subseteq Slots
      BY DEF SlotsOf, Occupied
    <3> QED  BY <1>2, <3>1, FirstSlot
  <2>2. clientlist' = [clientlist EXCEPT ![k].ackrecvd = TRUE]
    BY <1>2 DEF Ack
  <2> HIDE DEF k
  <2>3. clientlist[k] \in SIPClient
    BY <2>1 DEF ServerInv, TypeOK, Occupied
  <2>4. [clientlist[k] EXCEPT !.ackrecvd = TRUE] \in SIPClient
    BY <2>3 DEF SIPClient
  <2>5. /\ clientlist' \in [Slots -> SIPClient \cup {NULL}]
        /\ \A j \in Slots : clientlist'[j] =
             IF j = k THEN [clientlist[k] EXCEPT !.ackrecvd = TRUE] ELSE clientlist[j]
    BY <2>1, <2>2, <2>4 DEF ServerInv, TypeOK, Occupied
  <2>6. Occupied' = Occupied
    BY <2>1, <2>4, <2>5, NullAssumption DEF Occupied
  <2>7. \A j \in Occupied : clientlist'[j].sockfd = clientlist[j].sockfd
    BY <2>3, <2>5 DEF Occupied, SIPClient
  <2>8. /\ UNCHANGED <<nclients, open, ended, atend, caller, toclients>>
        /\ toserver' \subseteq Message /\ faulty' \in BOOLEAN
    BY TakenType DEF Ack, ServerInv
  <2>9. CountExact' /\ SocketsOwned'
    BY <2>6, <2>7, <2>8 DEF ServerInv, CountExact, SocketsOwned
  <2> QED  BY <2>5, <2>8, <2>9 DEF ServerInv, TypeOK
<1> QED  BY <1>1, <1>2

\* A step that leaves the server alone keeps the invariant if its messages are
\* messages.
LEMMA OutsideInv ==
  ASSUME ServerInv, UNCHANGED server, ended' \in 0 .. MaxStreams, atend' \subseteq Calls,
         toserver' \subseteq Message, toclients' \subseteq Message,
         caller' \in [Calls -> {"idle", "calling", "talking", "leaving", "gone"}],
         faulty' \in BOOLEAN
  PROVE  ServerInv'
BY DEF ServerInv, TypeOK, CountExact, SocketsOwned, server, Occupied

LEMMA SipInit ==
  ASSUME Init
  PROVE  ServerInv
<1>1. Occupied = {}
  BY DEF Init, Occupied
<1>2. CountExact
  BY <1>1, FS_EmptySet DEF Init, CountExact
<1>3. SocketsOwned
  BY <1>1 DEF Init, SocketsOwned
<1>4. TypeOK
  <2>1. clientlist \in [Slots -> SIPClient \cup {NULL}]
    BY DEF Init
  <2>2. nclients \in 0 .. MAXCLIENTS
    BY SipAssumption DEF Init
  <2>3. caller \in [Calls -> {"idle", "calling", "talking", "leaving", "gone"}]
    BY DEF Init
  <2>4. ended \in 0 .. MaxStreams
    BY SipAssumption DEF Init
  <2> QED  BY <2>1, <2>2, <2>3, <2>4 DEF Init, TypeOK
<1> QED  BY <1>2, <1>3, <1>4 DEF ServerInv

LEMMA ReceiveInv ==
  ASSUME ServerInv, NEW m \in toserver, Receive(m)
  PROVE  ServerInv'
<1>1. /\ m \in Message /\ toserver' \subseteq Message /\ faulty' \in BOOLEAN
      /\ Taken(m) /\ UNCHANGED <<ended, atend, caller>>
  BY TakenType DEF ServerInv, TypeOK, Receive
<1>2. CASE Invite(m)
  BY <1>1, <1>2, InviteInv
<1>3. CASE InviteRejected(m)
  BY <1>1, <1>3, OutsideInv DEF InviteRejected, ServerInv, TypeOK
<1>4. CASE Ack(m)
  BY <1>1, <1>4, AckInv
<1>5. CASE Bye(m)
  <2>1. toclients' \subseteq Message
    BY <1>1, <1>5 DEF Bye, Ok, Message, ServerInv, TypeOK
  <2> QED  BY <1>1, <1>5, <2>1, RemoveClientInv DEF Bye, ServerInv, TypeOK
<1>6. CASE SipOk(m)
  BY <1>1, <1>6, RemoveClientInv DEF SipOk, ServerInv, TypeOK
<1> QED  BY <1>2, <1>3, <1>4, <1>5, <1>6 DEF Receive

LEMMA EndOfStreamInv ==
  ASSUME ServerInv, EndOfStream
  PROVE  ServerInv'
<1>1. \A k \in Acked : clientlist[k] \in SIPClient
  BY DEF Acked, Occupied, ServerInv, TypeOK
<1>2. \A k \in Acked : Msg("BYE", clientlist[k].callid) \in Message
  BY <1>1 DEF Msg, Message, SIPClient
<1>3. toclients' \subseteq Message
  BY <1>2 DEF EndOfStream, ServerInv, TypeOK
<1>4. /\ UNCHANGED server /\ ended' \in 0 .. MaxStreams /\ atend' \subseteq Calls
      /\ toserver' \subseteq Message
      /\ caller' \in [Calls -> {"idle", "calling", "talking", "leaving", "gone"}]
      /\ faulty' \in BOOLEAN
  BY SipAssumption DEF EndOfStream, ServerInv, TypeOK
<1> QED  BY <1>3, <1>4, OutsideInv

LEMMA ClientInv ==
  ASSUME ServerInv, NEW c \in Calls, Call(c) \/ HangUp(c) \/ ClientStep(c)
  PROVE  ServerInv'
<1>1. /\ \A t \in {"INVITE", "ACK", "BYE"} : Msg(t, c) \in Message
      /\ Ok(c, "BYE") \in Message
  BY DEF Msg, Ok, Message
<1>2. /\ UNCHANGED server /\ ended' \in 0 .. MaxStreams /\ atend' \subseteq Calls
      /\ toclients' \subseteq Message
      /\ caller' \in [Calls -> {"idle", "calling", "talking", "leaving", "gone"}]
  BY DEF Call, HangUp, ClientStep, Answered, HungUp, Dismissed, ServerInv, TypeOK
<1>3. faulty' \in BOOLEAN
  BY DEF Call, HangUp, ClientStep, Answered, HungUp, Dismissed, ServerInv, TypeOK
<1>4. toserver' \subseteq Message
  BY <1>1 DEF Call, HangUp, ClientStep, Answered, HungUp, Dismissed, Send, ServerInv, TypeOK
<1> QED  BY <1>2, <1>3, <1>4, OutsideInv

LEMMA NetworkInv ==
  ASSUME ServerInv, Unknown \/ Lose
  PROVE  ServerInv'
<1>1. Msg("unknown", NoCallId) \in Message
  BY DEF Msg, Message
<1>2. UNCHANGED <<server, ended, atend, caller>>
  BY DEF Unknown, Lose
<1>3. toserver' \subseteq Message /\ toclients' \subseteq Message /\ faulty' \in BOOLEAN
  BY <1>1 DEF Unknown, Lose, Send, ServerInv, TypeOK
<1> QED  BY <1>2, <1>3, OutsideInv DEF ServerInv, TypeOK

\* ServerInv is inductive.
THEOREM ServerInvariant == Spec => []ServerInv
<1>1. Init => ServerInv
  BY SipInit
<1>2. ServerInv /\ [Next]_vars => ServerInv'
  <2> SUFFICES ASSUME ServerInv, [Next]_vars
               PROVE  ServerInv'
    OBVIOUS
  <2>1. CASE \E m \in toserver : Receive(m)
    BY <2>1, ReceiveInv
  <2>2. CASE EndOfStream
    BY <2>2, EndOfStreamInv
  <2>3. CASE \E c \in Calls : Call(c) \/ HangUp(c) \/ ClientStep(c)
    BY <2>3, ClientInv
  <2>4. CASE Unknown \/ Lose
    BY <2>4, NetworkInv
  <2>5. CASE UNCHANGED vars
    BY <2>5 DEF vars, server, ServerInv, TypeOK, CountExact, SocketsOwned, Occupied
  <2> QED  BY <2>1, <2>2, <2>3, <2>4, <2>5 DEF Next
<1> QED  BY <1>1, <1>2, PTL DEF Spec

\* The client table and the messages always have their types; nclients stays
\* between 0 and MAXCLIENTS.
THEOREM TypeCorrect == Spec => []TypeOK
<1>1. ServerInv => TypeOK
  BY DEF ServerInv
<1> QED  BY <1>1, ServerInvariant, PTL

\* nclients is always the number of clients in the table, whatever messages
\* are lost, repeated or reordered.
THEOREM CounterExact == Spec => []CountExact
<1>1. ServerInv => CountExact
  BY DEF ServerInv
<1> QED  BY <1>1, ServerInvariant, PTL

\* No RTP socket is ever leaked, shared or closed while in use.
THEOREM SocketOwnership == Spec => []SocketsOwned
<1>1. ServerInv => SocketsOwned
  BY DEF ServerInv
<1> QED  BY <1>1, ServerInvariant, PTL

-----------------------------------------------------------------------------
(***************************************************************************)
(* Calls, while the network delivers every message once, in any order.     *)
(***************************************************************************)
Early == {"idle", "calling"}

\* An INVITE finds no client info of its call; whatever else arrives is sent by
\* a client that has been answered.
ToServerInv ==
  \A m \in toserver :
    /\ m.type # "unknown" /\ m.callid \in Calls
    /\ m.type = "INVITE" => /\ m = Msg("INVITE", m.callid)
                            /\ caller[m.callid] = "calling" /\ SlotsOf(m.callid) = {}
    /\ m.type # "INVITE" => caller[m.callid] \notin Early

\* Once a BYE is answered there is no client info of its call.
ToClientsInv ==
  \A m \in toclients :
    /\ m.type = "OK" /\ m.method = "INVITE" =>
         caller[m.callid] # "idle" /\ Msg("INVITE", m.callid) \notin toserver
    /\ m.type = "BYE" => caller[m.callid] \notin Early
    /\ m.type = "OK" /\ m.method = "BYE" =>
         caller[m.callid] \notin Early /\ SlotsOf(m.callid) = {}

\* A client that has left and is still in the table has a message on its way
\* that removes it.
TableInv ==
  \A k \in Occupied :
    LET c == clientlist[k].callid
    IN  /\ c \in Calls /\ caller[c] # "idle"
        /\ clientlist[k].ackrecvd => caller[c] # "calling"
        /\ caller[c] = "gone" => \E m \in toserver : m.callid = c /\ m.type \in {"BYE", "OK"}

OneSlot ==
  \A j, k \in Occupied : clientlist[j].callid = clientlist[k].callid => j = k

CallInv == ToServerInv /\ ToClientsInv /\ TableInv /\ OneSlot

\* What is taken without a fault is gone.
LEMMA TakenOnce ==
  ASSUME NEW m \in toserver, Taken(m), ~faulty'
  PROVE  toserver' = toserver \ {m} /\ ~faulty
BY DEF Taken

\* The first slot of the call is its only one.
LEMMA RemovedAll ==
  ASSUME ServerInv, OneSlot, NEW c, RemoveClient(c)
  PROVE  /\ Occupied' = Occupied \ SlotsOf(c)
         /\ \A j \in Occupied' : clientlist'[j] = clientlist[j]
<1>1. CASE SlotsOf(c) = {}
  BY <1>1 DEF RemoveClient, server, Occupied
<1>2. CASE SlotsOf(c) # {}
  <2> DEFINE k == First(SlotsOf(c))
  <2>1. k \in SlotsOf(c) /\ SlotsOf(c) \subseteq Occupied /\ Occupied \subseteq Slots
    BY <1>2, FirstSlot DEF SlotsOf, Occupied
  <2>2. clientlist' = [clientlist EXCEPT ![k] = NULL]
    BY <1>2 DEF RemoveClient
  <2> HIDE DEF k
  <2>3. \A j \in Slots : clientlist'[j] = IF j = k THEN NULL ELSE clientlist[j]
    BY <2>2 DEF ServerInv, TypeOK
  <2>4. SlotsOf(c) = {k}
    BY <2>1 DEF OneSlot, SlotsOf
  <2> QED  BY <2>1, <2>3, <2>4 DEF Occupied
<1> QED  BY <1>1, <1>2

LEMMA InviteCalls ==
  ASSUME ServerInv, CallInv, NEW m \in toserver, Invite(m), Taken(m), ~faulty',
         caller' = caller
  PROVE  CallInv'
<1> DEFINE k == First(Slots \ Occupied)
           c == m.callid
<1>1. /\ m.type = "INVITE" /\ m = Msg("INVITE", c) /\ parsesipmsg(m) = m
      /\ caller[c] = "calling" /\ SlotsOf(c) = {} /\ c \in Calls
  BY DEF CallInv, ToServerInv, Invite, parsesipmsg, Msg
<1>2. toserver' = toserver \ {m}
  BY TakenOnce
<1>3. PICK fd \in Sockets :
        clientlist' = [clientlist EXCEPT ![k] = [callid |-> c, sockfd |-> fd, ackrecvd |-> FALSE]]
  BY <1>1 DEF Invite
<1>4. k \in Slots \ Occupied
  BY FreeSlot DEF ServerInv, Invite
<1>5. toclients' = toclients \cup {Ok(c, "INVITE")}
  BY <1>1 DEF Invite
<1> DEFINE new == [callid |-> c, sockfd |-> fd, ackrecvd |-> FALSE]
<1>6. new \in SIPClient /\ new.callid = c /\ new.ackrecvd = FALSE
  BY <1>1 DEF SIPClient
<1> HIDE DEF k, new
<1>7. /\ \A j \in Slots : clientlist'[j] = IF j = k THEN new ELSE clientlist[j]
      /\ Occupied' = Occupied \cup {k}
  <2>1. \A j \in Slots : clientlist'[j] = IF j = k THEN new ELSE clientlist[j]
    BY <1>3, <1>4 DEF ServerInv, TypeOK, new
  <2> QED  BY <1>4, <1>6, <2>1, NullAssumption DEF Occupied
<1>8. /\ clientlist'[k].callid = c /\ clientlist'[k].ackrecvd = FALSE
      /\ \A j \in Occupied : j # k /\ clientlist'[j] = clientlist[j]
      /\ \A j \in Occupied : clientlist[j].callid # c
  BY <1>1, <1>4, <1>6, <1>7 DEF Occupied, SlotsOf
<1>9. \A d : d # c => SlotsOf(d)' = SlotsOf(d)
  BY <1>7, <1>8 DEF SlotsOf
<1> HIDE DEF c
<1>10. ToServerInv'
  <2> SUFFICES ASSUME NEW n \in toserver'
               PROVE  /\ n.type # "unknown" /\ n.callid \in Calls
                      /\ n.type = "INVITE" => /\ n = Msg("INVITE", n.callid)
                                              /\ caller[n.callid] = "calling"
                                              /\ SlotsOf(n.callid)' = {}
                      /\ n.type # "INVITE" => caller[n.callid] \notin Early
    BY DEF ToServerInv
  <2>1. n \in toserver /\ n # m
    BY <1>2
  <2>2. n.type = "INVITE" => n.callid # c
    BY <1>1, <2>1 DEF CallInv, ToServerInv
  <2> QED  BY <1>9, <2>1, <2>2 DEF CallInv, ToServerInv
<1>11. ToClientsInv'
  <2> SUFFICES ASSUME NEW n \in toclients'
               PROVE  /\ n.type = "OK" /\ n.method = "INVITE" =>
                           caller[n.callid] # "idle" /\ Msg("INVITE", n.callid) \notin toserver'
                      /\ n.type = "BYE" => caller[n.callid] \notin Early
                      /\ n.type = "OK" /\ n.method = "BYE" =>
                           caller[n.callid] \notin Early /\ SlotsOf(n.callid)' = {}
    BY DEF ToClientsInv
  <2>1. CASE n \in toclients
    <3>1. n.type = "OK" /\ n.method = "BYE" => n.callid # c
      BY <1>1, <2>1 DEF CallInv, ToClientsInv, Early
    <3> QED  BY <1>2, <1>9, <2>1, <3>1 DEF CallInv, ToClientsInv
  <2>2. CASE n = Ok(c, "INVITE")
    <3>1. n.type = "OK" /\ n.method = "INVITE" /\ n.callid = c
      BY <2>2 DEF Ok
    <3> QED  BY <1>1, <1>2, <3>1
  <2> QED  BY <1>5, <2>1, <2>2
<1>12. TableInv'
  <2> SUFFICES ASSUME NEW j \in Occupied'
               PROVE  LET d == clientlist'[j].callid
                      IN  /\ d \in Calls /\ caller[d] # "idle"
                          /\ clientlist'[j].ackrecvd => caller[d] # "calling"
                          /\ caller[d] = "gone" =>
                               \E n \in toserver' : n.callid = d /\ n.type \in {"BYE", "OK"}
    BY DEF TableInv
  <2>1. CASE j = k
    BY <1>1, <1>8, <2>1
  <2>2. CASE j \in Occupied
    BY <1>1, <1>2, <1>8, <2>2 DEF CallInv, TableInv
  <2> QED  BY <1>7, <2>1, <2>2
<1>13. OneSlot'
  BY <1>7, <1>8 DEF CallInv, OneSlot
<1> QED  BY <1>10, <1>11, <1>12, <1>13 DEF CallInv

\* A message that is taken without any effect on the table.
LEMMA IgnoredCalls ==
  ASSUME CallInv, NEW m \in toserver, m.type \notin {"BYE", "OK"}, toserver' = toserver \ {m},
         UNCHANGED <<clientlist, toclients, caller>>
  PROVE  CallInv'
<1>1. Occupied' = Occupied /\ \A c : SlotsOf(c)' = SlotsOf(c)
  BY DEF Occupied, SlotsOf
<1>2. ToServerInv' /\ ToClientsInv' /\ OneSlot'
  BY <1>1 DEF CallInv, ToServerInv, ToClientsInv, OneSlot
<1>3. TableInv'
  BY <1>1 DEF CallInv, TableInv
<1> QED  BY <1>2, <1>3 DEF CallInv

\* The ACK of a client in a call.
LEMMA AckCalls ==
  ASSUME ServerInv, CallInv, NEW m \in toserver, Ack(m), toserver' = toserver \ {m},
         caller' = caller
  PROVE  CallInv'
<1>1. m.type = "ACK" /\ caller[m.callid] \notin Early /\ toclients' = toclients
  BY DEF CallInv, ToServerInv, Ack, parsesipmsg, Msg
<1>2. CASE SlotsOf(m.callid) = {}
  BY <1>1, <1>2, IgnoredCalls DEF Ack
<1>3. CASE SlotsOf(m.callid) # {}
  <2> DEFINE k == First(SlotsOf(m.callid))
  <2>1. k \in SlotsOf(m.callid) /\ SlotsOf(m.callid) \subseteq Occupied /\ Occupied \subseteq Slots
    BY <1>3, FirstSlot DEF SlotsOf, Occupied
  <2>2. clientlist' = [clientlist EXCEPT ![k].ackrecvd = TRUE]
    BY <1>3 DEF Ack
  <2> HIDE DEF k
  <2>3. clientlist[k] \in SIPClient /\ clientlist[k].callid = m.callid
    BY <2>1 DEF ServerInv, TypeOK, Occupied, SlotsOf
  <2>4. [clientlist[k] EXCEPT !.ackrecvd = TRUE] \in SIPClient
    BY <2>3 DEF SIPClient
  <2>5. \A j \in Slots : clientlist'[j] =
          IF j = k THEN [clientlist[k] EXCEPT !.ackrecvd = TRUE] ELSE clientlist[j]
    BY <2>1, <2>2 DEF ServerInv, TypeOK, Occupied
  <2>6. Occupied' = Occupied
    BY <2>1, <2>4, <2>5, NullAssumption DEF Occupied
  <2>7. /\ \A j \in Occupied : clientlist'[j].callid = clientlist[j].callid
        /\ \A j \in Occupied : j # k => clientlist'[j] = clientlist[j]
    BY <2>3, <2>5 DEF Occupied, SIPClient
  <2>8. \A c : SlotsOf(c)' = SlotsOf(c)
    BY <2>6, <2>7 DEF SlotsOf
  <2>9. ToServerInv' /\ ToClientsInv'
    BY <1>1, <2>8 DEF CallInv, ToServerInv, ToClientsInv
  <2>10. OneSlot'
    BY <2>6, <2>7 DEF CallInv, OneSlot
  <2>11. TableInv'
    <3> SUFFICES ASSUME NEW j \in Occupied
                 PROVE  LET d == clientlist[j].callid
                        IN  /\ d \in Calls /\ caller[d] # "idle"
                            /\ clientlist'[j].ackrecvd => caller[d] # "calling"
                            /\ caller[d] = "gone" =>
                                 \E n \in toserver' : n.callid = d /\ n.type \in {"BYE", "OK"}
      BY <2>6, <2>7 DEF TableInv
    <3>1. clientlist'[j].ackrecvd => caller[clientlist[j].callid] # "calling"
      BY <1>1, <2>3, <2>7 DEF CallInv, TableInv, Early
    <3> QED  BY <1>1, <3>1 DEF CallInv, TableInv
  <2> QED  BY <2>9, <2>10, <2>11 DEF CallInv
<1> QED  BY <1>2, <1>3

\* A client that leaves, or that answers the server's BYE, takes its client
\* info with it.
LEMMA RemoveCalls ==
  ASSUME ServerInv, CallInv, NEW m \in toserver, m.type \in {"BYE", "OK"},
         RemoveClient(m.callid), toserver' = toserver \ {m}, caller' = caller,
         toclients' \in {toclients, toclients \cup {Ok(m.callid, "BYE")}}
  PROVE  CallInv'
<1> DEFINE c == m.callid
<1>1. caller[c] \notin Early
  BY DEF CallInv, ToServerInv
<1>2. /\ Occupied' = Occupied \ SlotsOf(c)
      /\ \A j \in Occupied' : clientlist'[j] = clientlist[j]
  BY RemovedAll DEF CallInv
<1>3. SlotsOf(c)' = {} /\ \A d : d # c => SlotsOf(d)' = SlotsOf(d)
  BY <1>2 DEF SlotsOf
<1>4. ToServerInv'
  BY <1>1, <1>3 DEF CallInv, ToServerInv
<1>5. ToClientsInv'
  <2> SUFFICES ASSUME NEW n \in toclients'
               PROVE  /\ n.type = "OK" /\ n.method = "INVITE" =>
                           caller[n.callid] # "idle" /\ Msg("INVITE", n.callid) \notin toserver'
                      /\ n.type = "BYE" => caller[n.callid] \notin Early
                      /\ n.type = "OK" /\ n.method = "BYE" =>
                           caller[n.callid] \notin Early /\ SlotsOf(n.callid)' = {}
    BY DEF ToClientsInv
  <2>1. CASE n \in toclients
    BY <1>1, <1>3, <2>1 DEF CallInv, ToClientsInv
  <2>2. CASE n = Ok(c, "BYE")
    <3>1. n.type = "OK" /\ n.method = "BYE" /\ n.callid = c
      BY <2>2 DEF Ok
    <3> QED  BY <1>1, <1>3, <3>1
  <2> QED  BY <2>1, <2>2
<1>6. TableInv'
  <2> SUFFICES ASSUME NEW j \in Occupied'
               PROVE  LET d == clientlist[j].callid
                      IN  /\ d \in Calls /\ caller[d] # "idle"
                          /\ clientlist[j].ackrecvd => caller[d] # "calling"
                          /\ caller[d] = "gone" =>
                               \E n \in toserver' : n.callid = d /\ n.type \in {"BYE", "OK"}
    BY <1>2 DEF TableInv
  <2>1. j \in Occupied /\ clientlist[j].callid # c
    BY <1>2 DEF SlotsOf
  <2> QED  BY <2>1 DEF CallInv, TableInv
<1>7. OneSlot'
  BY <1>2 DEF CallInv, OneSlot
<1> QED  BY <1>4, <1>5, <1>6, <1>7 DEF CallInv

LEMMA ReceiveCalls ==
  ASSUME ServerInv, CallInv, NEW m \in toserver, Receive(m), ~faulty'
  PROVE  CallInv'
<1>1. toserver' = toserver \ {m} /\ Taken(m) /\ caller' = caller
  BY TakenOnce DEF Receive
<1>2. parsesipmsg(m) = m
  BY DEF CallInv, ToServerInv, parsesipmsg
<1>3. CASE Invite(m)
  BY <1>1, <1>3, InviteCalls
<1>4. CASE InviteRejected(m)
  BY <1>1, <1>2, <1>4, IgnoredCalls DEF InviteRejected, server
<1>5. CASE Ack(m)
  BY <1>1, <1>5, AckCalls
<1>6. CASE Bye(m)
  BY <1>1, <1>2, <1>6, RemoveCalls DEF Bye
<1>7. CASE SipOk(m)
  BY <1>1, <1>2, <1>7, RemoveCalls DEF SipOk
<1> QED  BY <1>3, <1>4, <1>5, <1>6, <1>7 DEF Receive

\* The BYE of the server goes to clients that have been answered.
LEMMA EndOfStreamCalls ==
  ASSUME CallInv, EndOfStream
  PROVE  CallInv'
<1>1. /\ UNCHANGED <<clientlist, toserver, caller>>
      /\ toclients' = toclients \cup {Msg("BYE", clientlist[k].callid) : k \in Acked}
  BY DEF EndOfStream, server
<1>2. Occupied' = Occupied /\ \A c : SlotsOf(c)' = SlotsOf(c)
  BY <1>1 DEF Occupied, SlotsOf
<1>3. ASSUME NEW n \in {Msg("BYE", clientlist[k].callid) : k \in Acked}
      PROVE  n.type = "BYE" /\ caller[n.callid] \notin Early
  BY <1>3 DEF Acked, Msg, CallInv, TableInv, Early
<1>4. ToClientsInv'
  BY <1>1, <1>2, <1>3 DEF CallInv, ToClientsInv
<1>5. ToServerInv' /\ TableInv' /\ OneSlot'
  BY <1>1, <1>2 DEF CallInv, ToServerInv, TableInv, OneSlot
<1> QED  BY <1>4, <1>5 DEF CallInv

\* A client moves on and sends at most one message.
LEMMA ClientCalls ==
  ASSUME ServerInv, CallInv, NEW c \in Calls, Call(c) \/ HangUp(c) \/ ClientStep(c), ~faulty'
  PROVE  CallInv'
<1>1. /\ clientlist' = clientlist
      /\ caller \in [Calls -> {"idle", "calling", "talking", "leaving", "gone"}]
      /\ Occupied' = Occupied /\ \A d : SlotsOf(d)' = SlotsOf(d)
      /\ OneSlot'
  <2>1. clientlist' = clientlist
    BY DEF Call, HangUp, ClientStep, Answered, HungUp, Dismissed, server
  <2> QED  BY <2>1 DEF ServerInv, TypeOK, Occupied, SlotsOf, CallInv, OneSlot
<1>2. CASE Call(c)
  <2> DEFINE m == Msg("INVITE", c)
  <2>1. /\ caller[c] = "idle" /\ caller'[c] = "calling"
        /\ \A d \in Calls : d # c => caller'[d] = caller[d]
        /\ toserver' = toserver \cup {m} /\ toclients' = toclients
    BY <1>1, <1>2 DEF Call, Send
  <2>2. m.type = "INVITE" /\ m.callid = c
    BY DEF Msg
  <2>3. SlotsOf(c) = {}
    BY <2>1 DEF CallInv, TableInv, SlotsOf
  <2> HIDE DEF m
  <2>4. ToServerInv'
    <3> SUFFICES ASSUME NEW n \in toserver'
                 PROVE  /\ n.type # "unknown" /\ n.callid \in Calls
                        /\ n.type = "INVITE" => /\ n = Msg("INVITE", n.callid)
                                                /\ caller'[n.callid] = "calling"
                                                /\ SlotsOf(n.callid) = {}
                        /\ n.type # "INVITE" => caller'[n.callid] \notin Early
      BY <1>1 DEF ToServerInv
    <3>1. CASE n \in toserver
      BY <2>1, <3>1 DEF CallInv, ToServerInv, Early
    <3>2. CASE n = m
      BY <2>1, <2>2, <2>3, <3>2 DEF m
    <3> QED  BY <2>1, <3>1, <3>2
  <2>5. ToClientsInv'
    <3> SUFFICES ASSUME NEW n \in toclients
                 PROVE  /\ n.type = "OK" /\ n.method = "INVITE" =>
                             caller'[n.callid] # "idle" /\ Msg("INVITE", n.callid) \notin toserver'
                        /\ n.type = "BYE" => caller'[n.callid] \notin Early
                        /\ n.type = "OK" /\ n.method = "BYE" =>
                             caller'[n.callid] \notin Early /\ SlotsOf(n.callid) = {}
      BY <1>1, <2>1 DEF ToClientsInv
    <3>1. n.callid # c => Msg("INVITE", n.callid) # m
      BY DEF Msg, m
    <3>2. n.type = "OK" /\ n.method = "INVITE" => n.callid # c
      BY <2>1 DEF CallInv, ToClientsInv
    <3>3. n.type = "BYE" \/ (n.type = "OK" /\ n.method = "BYE") => n.callid # c
      BY <2>1 DEF CallInv, ToClientsInv, Early
    <3>4. n.callid # c => caller'[n.callid] = caller[n.callid]
      BY <1>2 DEF Call
    <3> QED  BY <2>1, <3>1, <3>2, <3>3, <3>4 DEF CallInv, ToClientsInv
  <2>6. TableInv'
    BY <1>1, <2>1 DEF CallInv, TableInv
  <2> QED  BY <1>1, <2>4, <2>5, <2>6 DEF CallInv
<1>3. CASE /\ \A n \in toserver : n.type = "INVITE" => n.callid # c
           /\ caller'[c] \notin Early
           /\ \E s \in {"talking", "leaving", "gone"} : caller' = [caller EXCEPT ![c] = s]
           /\ toclients' \subseteq toclients /\ toserver \subseteq toserver'
           /\ \A n \in toserver' \ toserver :
                n.type \in {"ACK", "BYE", "OK"} /\ n.callid = c
           /\ caller'[c] = "gone" =>
                \/ SlotsOf(c) = {}
                \/ \E n \in toserver' : n.callid = c /\ n.type \in {"BYE", "OK"}
  <2>1. \A d : d # c => caller'[d] = caller[d]
    BY <1>3
  <2>2. ToServerInv'
    BY <1>1, <1>3, <2>1 DEF CallInv, ToServerInv, Early
  <2>3. ToClientsInv'
    <3> SUFFICES ASSUME NEW n \in toclients
                 PROVE  /\ n.type = "OK" /\ n.method = "INVITE" =>
                             caller'[n.callid] # "idle" /\ Msg("INVITE", n.callid) \notin toserver'
                        /\ n.type = "BYE" => caller'[n.callid] \notin Early
                        /\ n.type = "OK" /\ n.method = "BYE" =>
                             caller'[n.callid] \notin Early /\ SlotsOf(n.callid) = {}
      BY <1>1, <1>3 DEF ToClientsInv
    <3>1. Msg("INVITE", n.callid) \notin toserver' \ toserver
      BY <1>3 DEF Msg
    <3> QED  BY <1>3, <2>1, <3>1 DEF CallInv, ToClientsInv, Early
  <2>4. TableInv'
    <3> SUFFICES ASSUME NEW k \in Occupied
                 PROVE  LET d == clientlist[k].callid
                        IN  /\ d \in Calls /\ caller'[d] # "idle"
                            /\ clientlist[k].ackrecvd => caller'[d] # "calling"
                            /\ caller'[d] = "gone" =>
                                 \E n \in toserver' : n.callid = d /\ n.type \in {"BYE", "OK"}
      BY <1>1 DEF TableInv
    <3>1. CASE clientlist[k].callid = c
      BY <1>3, <3>1 DEF CallInv, TableInv, SlotsOf, Early
    <3>2. CASE clientlist[k].callid # c
      BY <1>3, <2>1, <3>2 DEF CallInv, TableInv
    <3> QED  BY <3>1, <3>2
  <2> QED  BY <1>1, <2>2, <2>3, <2>4 DEF CallInv
<1>4. ASSUME NEW n \in toserver, n.type = "INVITE", n.callid = c
      PROVE  caller[c] = "calling" /\ Ok(c, "INVITE") \notin toclients
  <2>1. caller[c] = "calling" /\ n = Msg("INVITE", c)
    BY <1>4 DEF CallInv, ToServerInv
  <2>2. /\ Ok(c, "INVITE").type = "OK" /\ Ok(c, "INVITE").method = "INVITE"
        /\ Ok(c, "INVITE").callid = c
    BY DEF Ok
  <2> QED  BY <1>4, <2>1, <2>2 DEF CallInv, ToClientsInv
<1>5. CASE HangUp(c)
  <2>1. /\ caller[c] = "talking" /\ caller' = [caller EXCEPT ![c] = "leaving"]
        /\ toserver' = toserver \cup {Msg("BYE", c)} /\ toclients' = toclients
    BY <1>1, <1>5 DEF HangUp, Send
  <2>2. Msg("BYE", c).type = "BYE" /\ Msg("BYE", c).callid = c
    BY DEF Msg
  <2>3. caller'[c] = "leaving"
    BY <1>1, <2>1
  <2>4. \A n \in toserver : n.type = "INVITE" => n.callid # c
    BY <1>4, <2>1
  <2> QED  BY <1>3, <2>1, <2>2, <2>3, <2>4 DEF Early
<1>6. CASE Answered(c) /\ caller[c] \in {"calling", "talking"}
  <2>1. /\ Ok(c, "INVITE") \in toclients /\ caller' = [caller EXCEPT ![c] = "talking"]
        /\ toserver' = toserver \cup {Msg("ACK", c)}
        /\ toclients' = toclients \ {Ok(c, "INVITE")}
    BY <1>6 DEF Answered, Send
  <2>2. Msg("ACK", c).type = "ACK" /\ Msg("ACK", c).callid = c
    BY DEF Msg
  <2>3. caller'[c] = "talking"
    BY <1>1, <2>1
  <2>4. \A n \in toserver : n.type = "INVITE" => n.callid # c
    BY <1>4, <2>1
  <2> QED  BY <1>3, <2>1, <2>2, <2>3, <2>4 DEF Early
<1>7. CASE Answered(c) /\ caller[c] \notin {"calling", "talking"}
  <2>1. UNCHANGED <<toserver, caller>> /\ toclients' \subseteq toclients
    BY <1>7 DEF Answered
  <2> QED  BY <1>1, <2>1 DEF CallInv, ToServerInv, ToClientsInv, TableInv
<1>8. ASSUME NEW n \in toclients, n \in {Ok(c, "BYE"), Msg("BYE", c)}
      PROVE  /\ \A i \in toserver : i.type = "INVITE" => i.callid # c
             /\ n = Ok(c, "BYE") => SlotsOf(c) = {}
  <2>1. /\ n.callid = c
        /\ n.type = "BYE" \/ (n.type = "OK" /\ n.method = "BYE")
        /\ n = Ok(c, "BYE") => n.type = "OK" /\ n.method = "BYE"
    BY <1>8 DEF Ok, Msg
  <2>2. caller[c] \notin Early
    BY <2>1 DEF CallInv, ToClientsInv
  <2> QED  BY <1>4, <2>1, <2>2 DEF CallInv, ToClientsInv, Early
<1>9. CASE HungUp(c)
  <2>1. /\ Ok(c, "BYE") \in toclients /\ caller' = [caller EXCEPT ![c] = "gone"]
        /\ toserver' = toserver /\ toclients' \subseteq toclients
    BY <1>9 DEF HungUp
  <2>2. caller'[c] = "gone"
    BY <1>1, <2>1
  <2> QED  BY <1>3, <1>8, <2>1, <2>2 DEF Early
<1>10. CASE Dismissed(c)
  <2>1. /\ Msg("BYE", c) \in toclients /\ caller' = [caller EXCEPT ![c] = "gone"]
        /\ toserver' = toserver \cup {Ok(c, "BYE")} /\ toclients' \subseteq toclients
    BY <1>10 DEF Dismissed, Send
  <2>2. Ok(c, "BYE").type = "OK" /\ Ok(c, "BYE").callid = c
    BY DEF Ok
  <2>3. caller'[c] = "gone"
    BY <1>1, <2>1
  <2>4. \A n \in toserver : n.type = "INVITE" => n.callid # c
    BY <1>8, <2>1
  <2> QED  BY <1>3, <2>1, <2>2, <2>3, <2>4 DEF Early
<1> QED  BY <1>2, <1>5, <1>6, <1>7, <1>9, <1>10 DEF ClientStep

\* While nothing goes wrong the calls are in step with the table.
LEMMA CallInvariant == Spec => [](~faulty => CallInv)
<1>1. Init => CallInv
  BY DEF Init, CallInv, ToServerInv, ToClientsInv, TableInv, OneSlot, Occupied
<1>2. ServerInv /\ (~faulty => CallInv) /\ [Next]_vars => (~faulty => CallInv)'
  <2> SUFFICES ASSUME ServerInv, ~faulty => CallInv, [Next]_vars, ~faulty'
               PROVE  CallInv'
    OBVIOUS
  <2>1. CASE \E m \in toserver : Receive(m)
    <3>1. PICK m \in toserver : Receive(m)
      BY <2>1
    <3>2. ~faulty
      BY <3>1, TakenOnce DEF Receive
    <3> QED  BY <3>1, <3>2, ReceiveCalls
  <2>2. CASE EndOfStream
    BY <2>2, EndOfStreamCalls DEF EndOfStream
  <2>3. CASE \E c \in Calls : Call(c) \/ HangUp(c) \/ ClientStep(c)
    <3>1. PICK c \in Calls : Call(c) \/ HangUp(c) \/ ClientStep(c)
      BY <2>3
    <3>2. ~faulty
      BY <3>1 DEF Call, HangUp, ClientStep, Answered, HungUp, Dismissed
    <3> QED  BY <3>1, <3>2, ClientCalls
  <2>4. CASE Unknown \/ Lose
    BY <2>4 DEF Unknown, Lose
  <2>5. CASE UNCHANGED vars
    <3>1. UNCHANGED <<clientlist, toserver, toclients, caller, faulty>>
      BY <2>5 DEF vars
    <3>2. Occupied' = Occupied /\ \A c : SlotsOf(c)' = SlotsOf(c)
      BY <3>1 DEF Occupied, SlotsOf
    <3> QED  BY <3>1, <3>2 DEF CallInv, ToServerInv, ToClientsInv, TableInv, OneSlot
  <2> QED  BY <2>1, <2>2, <2>3, <2>4, <2>5 DEF Next
<1> QED  BY <1>1, <1>2, ServerInvariant, PTL DEF Spec

\* Audio is sent to clients that have taken up the call and have not left it,
\* or whose leaving the server is still to hear of.
THEOREM AudioGoesToCalls == Spec => []AudioOnlyToCalls
<1>1. TypeOK /\ (~faulty => CallInv) => AudioOnlyToCalls
  <2> SUFFICES ASSUME TypeOK, CallInv, NEW k \in Acked
               PROVE  LET c == clientlist[k].callid
                      IN  caller[c] \in {"talking", "leaving"} \/ InFlight(c)
    BY DEF AudioOnlyToCalls
  <2>1. k \in Occupied /\ clientlist[k].ackrecvd
    BY DEF Acked
  <2> QED  BY <2>1 DEF CallInv, TableInv, TypeOK, InFlight
<1> QED  BY <1>1, CallInvariant, TypeCorrect, PTL

\* A client that has left for good has no client info in the table.
THEOREM NoSlotIsOrphaned == Spec => []NoOrphanSlot
<1>1. (~faulty => CallInv) => NoOrphanSlot
  BY DEF NoOrphanSlot, CallInv, TableInv, InFlight, SlotsOf
<1> QED  BY <1>1, CallInvariant, PTL
=============================================================================
