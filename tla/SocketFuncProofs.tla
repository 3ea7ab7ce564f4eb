-------------------------- MODULE SocketFuncProofs --------------------------
(***************************************************************************)
(* Proofs about SocketFunc for every number of descriptors, every list of  *)
(* addresses, every size of buffer and every way the system calls fail.    *)
(***************************************************************************)
EXTENDS SocketFunc, SequenceTheorems, TLAPS

\* The bytes taken so far and the next n are the bytes up to there.
LEMMA Extended ==
  ASSUME NEW s \in Nat, NEW n \in Nat, NEW w, w = [k \in 1 .. s |-> k]
  PROVE  w \o [k \in 1 .. n |-> s + k] = [k \in 1 .. s + n |-> k]
<1> DEFINE v == [k \in 1 .. n |-> s + k]
           u == [k \in 1 .. s + n |-> k]
<1>1. w \in Seq(Nat) /\ Len(w) = s
  OBVIOUS
<1>2. v \in Seq(Nat) /\ Len(v) = n
  OBVIOUS
<1>3. u \in Seq(Nat) /\ Len(u) = s + n
  OBVIOUS
<1>4. /\ w \o v \in Seq(Nat) /\ Len(w \o v) = s + n
      /\ \A i \in 1 .. s + n : (w \o v)[i] = IF i <= s THEN w[i] ELSE v[i - s]
  BY <1>1, <1>2, ConcatProperties
<1>5. \A i \in 1 .. s + n : (w \o v)[i] = u[i]
  BY <1>4
<1> HIDE DEF v, u
<1>6. w \o v = u
  BY <1>3, <1>4, <1>5, SeqEqual
<1> QED  BY <1>6 DEF v, u

-----------------------------------------------------------------------------
(***************************************************************************)
(* The invariant.                                                          *)
(***************************************************************************)

\* What has succeeded on sockfd when the call pc is made.
SoFar ==
  CASE pc = "bind"    -> {"open"}
    [] pc = "connect" -> {"open"} \cup (IF port THEN {"bound"} ELSE {})
    [] OTHER          -> {"open", "bound"}

\* The function that opens a socket is at work on one descriptor that no caller
\* has, or on none.
OpenInv ==
  /\ pc \in {"idle", "socket", "send"} => fds = held
  /\ pc \in {"bind", "connect", "listen"} =>
       /\ sockfd \in Fd /\ held[sockfd] = {} /\ addrs # <<>>
       /\ fds = [held EXCEPT ![sockfd] = SoFar]
  /\ pc \in {"socket", "bind", "connect", "listen"} =>
       fn \in Openers /\ (port => fn = "client_socket")
  /\ pc \in {"idle", "send"} => ~port
  /\ pc = "bind" => fn \in {"server_socket", "udp_server"} \/ port
  /\ pc = "connect" => fn \in {"client_socket", "udp_connected"}
  /\ pc = "listen" => fn = "server_socket"

\* The function that sends has some left.
SendInv ==
  pc = "send" => fn \in Senders /\ sent + left = size /\ left > 0

SocketInv == TypeOK /\ OpenInv /\ SendInv /\ Delivered

LEMMA NoAddresses == <<>> \in Seq(Addr) /\ <<>> \in Seq(1 .. MaxSize)
BY EmptySeq

LEMMA InitInv == Init => SocketInv
<1> SUFFICES ASSUME Init PROVE SocketInv
  OBVIOUS
<1>1. TypeOK
  <2>1. fds \in [Fd -> SUBSET Calls] /\ held \in [Fd -> SUBSET Calls]
    BY DEF Init
  <2>2. /\ size \in 0 .. MaxSize /\ sent \in 0 .. MaxSize /\ left \in 0 .. MaxSize
        /\ result \in 0 .. MaxSize
    BY SocketAssumption DEF Init
  <2>3. addrs \in Seq(Addr) /\ wire \in Seq(1 .. MaxSize)
    BY NoAddresses DEF Init
  <2> QED  BY <2>1, <2>2, <2>3 DEF Init, TypeOK, Senders
<1>2. OpenInv
  BY DEF Init, OpenInv
<1>3. SendInv
  BY DEF Init, SendInv
<1>4. Delivered
  <2>1. [k \in 1 .. 0 |-> k] = <<>>
    OBVIOUS
  <2> QED  BY <2>1 DEF Init, Delivered
<1> QED  BY <1>1, <1>2, <1>3, <1>4 DEF SocketInv

\* Ending the program keeps it.
LEMMA ExitInv ==
  ASSUME SocketInv, Exit
  PROVE  SocketInv'
BY DEF SocketInv, TypeOK, OpenInv, SendInv, Delivered, Exit, opening, sending

\* A promise is a set of calls.
LEMMA PromiseType == \A f : Promise(f) \in SUBSET Calls
BY DEF Promise, Calls

\* Returning a descriptor that is as promised keeps it.
LEMMA ReturnInv ==
  ASSUME SocketInv, pc \in {"bind", "connect", "listen"}, Return(Promise(fn))
  PROVE  SocketInv'
<1>1. sockfd \in Fd /\ fn \in Openers /\ held[sockfd] = {}
  BY DEF SocketInv, OpenInv
<1>2. TypeOK'
  <2>1. Promise(fn) \in SUBSET Calls
    BY PromiseType
  <2>2. fds' \in [Fd -> SUBSET Calls] /\ held' \in [Fd -> SUBSET Calls]
    BY <2>1 DEF SocketInv, TypeOK, Return
  <2> QED  BY <1>1, <2>2, NoAddresses DEF SocketInv, TypeOK, Return, Done, sending
<1>3. OpenInv'
  <2>1. fds' = held'
    BY <1>1 DEF SocketInv, OpenInv, TypeOK, Return
  <2> QED  BY <2>1 DEF OpenInv, Return, Done
<1>4. SendInv'
  BY DEF SendInv, Return, Done
<1>5. Delivered'
  BY <1>1 DEF SocketInv, Delivered, Return, Done, sending, Openers, Senders
<1> QED  BY <1>2, <1>3, <1>4, <1>5 DEF SocketInv

\* So does closing it and going on to the next address.
LEMMA NextAddrInv ==
  ASSUME SocketInv, pc \in {"bind", "connect"},
         NEW err \in {"nobind", "inuse", "other"}, NextAddr(err)
  PROVE  SocketInv'
<1>1. sockfd \in Fd /\ fn \in Openers /\ held[sockfd] = {} /\ addrs # <<>>
  BY DEF SocketInv, OpenInv
<1>2. TypeOK'
  <2>1. addrs' \in Seq(Addr)
    BY <1>1 DEF SocketInv, TypeOK, NextAddr
  <2> QED  BY <1>1, <2>1 DEF SocketInv, TypeOK, NextAddr, sending
<1>3. OpenInv'
  <2>1. fds' = held'
    BY <1>1 DEF SocketInv, OpenInv, TypeOK, NextAddr
  <2> QED  BY <2>1, <1>1 DEF SocketInv, OpenInv, NextAddr
<1>4. SendInv'
  BY DEF SendInv, NextAddr
<1>5. Delivered'
  BY <1>1 DEF SocketInv, Delivered, NextAddr, sending
<1> QED  BY <1>2, <1>3, <1>4, <1>5 DEF SocketInv

\* So does a call that returns without a descriptor.
LEMMA DoneInv ==
  ASSUME SocketInv, pc = "socket", NEW value \in {-1, -2}, Done(value),
         UNCHANGED <<fds, held>>
  PROVE  SocketInv'
<1>1. fn \in Openers /\ fds = held
  BY DEF SocketInv, OpenInv
<1>2. TypeOK'
  BY NoAddresses, SocketAssumption DEF SocketInv, TypeOK, Done, sending
<1>3. OpenInv'
  BY <1>1 DEF OpenInv, Done
<1>4. SendInv'
  BY DEF SendInv, Done
<1>5. Delivered'
  BY <1>1 DEF SocketInv, Delivered, Done, sending, Openers, Senders
<1> QED  BY <1>2, <1>3, <1>4, <1>5 DEF SocketInv

-----------------------------------------------------------------------------
(***************************************************************************)
(* The steps.                                                              *)
(***************************************************************************)

LEMMA OpenStepInv ==
  ASSUME SocketInv,
         Socket \/ SocketFails \/ Bind \/ SockConnect \/ Listen \/ NoAddrLeft
  PROVE  SocketInv'
<1>1. CASE Socket
  <2>1. PICK fd \in Fd :
          /\ fds[fd] = {} /\ fds' = [fds EXCEPT ![fd] = {"open"}] /\ sockfd' = fd
          /\ pc' = IF fn \in {"server_socket", "udp_server"} \/ port THEN "bind" ELSE "connect"
    BY <1>1 DEF Socket
  <2>2. fn \in Openers /\ fds = held /\ pc = "socket" /\ addrs # <<>>
    BY <1>1 DEF Socket, SocketInv, OpenInv
  <2>3. /\ held' = held /\ addrs' = addrs /\ port' = port /\ errno' = errno /\ fn' = fn
        /\ result' = result /\ size' = size /\ sent' = sent /\ left' = left /\ wire' = wire
    BY <1>1 DEF Socket, sending
  <2>4. TypeOK'
    BY <2>1, <2>2, <2>3 DEF SocketInv, TypeOK, Calls
  <2>5. OpenInv'
    <3>1. SoFar' = {"open"}
      BY <2>1, <2>3 DEF SoFar
    <3>2. /\ pc' = "bind" => fn \in {"server_socket", "udp_server"} \/ port
          /\ pc' = "connect" => fn \in {"client_socket", "udp_connected"} /\ ~port
          /\ pc' \in {"bind", "connect"}
      BY <2>1, <2>2 DEF Openers
    <3> QED  BY <2>1, <2>2, <2>3, <3>1, <3>2 DEF SocketInv, OpenInv
  <2>6. SendInv' /\ Delivered'
    BY <2>1, <2>2, <2>3 DEF SocketInv, SendInv, Delivered
  <2> QED  BY <2>4, <2>5, <2>6 DEF SocketInv
<1>2. CASE SocketFails
  <2>1. CASE Exit
    BY <2>1, ExitInv
  <2>2. CASE UNCHANGED vars
    BY <2>2 DEF SocketInv, TypeOK, OpenInv, SoFar, SendInv, Delivered, vars, opening, sending
  <2>3. CASE /\ addrs' = Tail(addrs) /\ errno' = "other"
             /\ UNCHANGED <<fds, held, port, sockfd, sending, fn, pc, result>>
    <3>1. pc = "socket" /\ addrs # <<>>
      BY <1>2 DEF SocketFails
    <3>2. addrs' \in Seq(Addr)
      BY <2>3, <3>1 DEF SocketInv, TypeOK
    <3> QED  BY <2>3, <3>1, <3>2 DEF SocketInv, TypeOK, OpenInv, SendInv, Delivered, sending
  <2> QED  BY <1>2, <2>1, <2>2, <2>3 DEF SocketFails
<1>3. CASE Bind
  <2> DEFINE a == Head(addrs)
             bound == fds[sockfd] \cup {"bound"}
  <2>1. /\ pc = "bind" /\ sockfd \in Fd /\ fn \in Openers /\ held[sockfd] = {}
        /\ fds = [held EXCEPT ![sockfd] = {"open"}] /\ addrs # <<>>
        /\ fn \in {"server_socket", "udp_server"} \/ (port /\ fn = "client_socket")
        /\ port => fn = "client_socket"
    BY <1>3 DEF Bind, SocketInv, OpenInv, SoFar
  <2>2. bound = {"open", "bound"}
    BY <2>1 DEF SocketInv, TypeOK
  <2>3. CASE a \in {"nobind", "inuse"} /\ fn = "client_socket"
    BY <1>3, <2>3, ExitInv DEF Bind
  <2>4. CASE a \in {"nobind", "inuse"} /\ fn # "client_socket"
    <3>1. NextAddr(a)
      BY <1>3, <2>4 DEF Bind
    <3> QED  BY <2>1, <2>4, <3>1, NextAddrInv
  <2>5. CASE a \notin {"nobind", "inuse"} /\ fn = "udp_server"
    <3>1. Return(bound)
      BY <1>3, <2>5 DEF Bind
    <3>2. bound = Promise(fn)
      BY <2>2, <2>5 DEF Promise
    <3> QED  BY <2>1, <3>1, <3>2, ReturnInv
  <2>6. CASE a \notin {"nobind", "inuse"} /\ fn \in {"client_socket", "server_socket"}
    <3>1. Goto(IF fn = "client_socket" THEN "connect" ELSE "listen", bound)
      BY <1>3, <2>6 DEF Bind
    <3>2. TypeOK'
      BY <2>1, <2>2, <3>1 DEF SocketInv, TypeOK, Goto, sending, Calls
    <3>3. OpenInv'
      <4>1. fds' = [held EXCEPT ![sockfd] = {"open", "bound"}] /\ held' = held /\ sockfd' = sockfd
        BY <2>1, <2>2, <3>1 DEF Goto, SocketInv, TypeOK
      <4>2. SoFar' = {"open", "bound"}
        BY <2>1, <2>6, <3>1 DEF SoFar, Goto
      <4> QED  BY <2>1, <2>6, <3>1, <4>1, <4>2 DEF OpenInv, Goto
    <3>4. SendInv' /\ Delivered'
      BY <2>1, <3>1 DEF SocketInv, SendInv, Delivered, Goto, sending
    <3> QED  BY <3>2, <3>3, <3>4 DEF SocketInv
  <2> QED  BY <2>1, <2>3, <2>4, <2>5, <2>6
<1>4. CASE SockConnect
  <2>1. /\ pc = "connect" /\ sockfd \in Fd /\ held[sockfd] = {}
        /\ fds = [held EXCEPT ![sockfd] = {"open"} \cup (IF port THEN {"bound"} ELSE {})]
        /\ fn \in {"client_socket", "udp_connected"} /\ (port => fn = "client_socket")
    BY <1>4 DEF SockConnect, SocketInv, OpenInv, SoFar, Openers
  <2>2. CASE Head(addrs) = "noconnect" /\ fn = "udp_connected"
    BY <1>4, <2>2, ExitInv DEF SockConnect
  <2>3. CASE Head(addrs) = "noconnect" /\ fn # "udp_connected"
    BY <1>4, <2>1, <2>3, NextAddrInv DEF SockConnect
  <2>4. CASE Head(addrs) # "noconnect"
    <3>1. Return(fds[sockfd] \cup {"connected"})
      BY <1>4, <2>4 DEF SockConnect
    <3>2. fds[sockfd] = {"open"} \cup (IF port THEN {"bound"} ELSE {})
      BY <2>1 DEF SocketInv, TypeOK
    <3>3. fds[sockfd] \cup {"connected"} = Promise(fn)
      BY <2>1, <3>2 DEF Promise
    <3> QED  BY <2>1, <3>1, <3>3, ReturnInv
  <2> QED  BY <2>2, <2>3, <2>4
<1>5. CASE Listen
  <2>1. /\ pc = "listen" /\ sockfd \in Fd /\ fn = "server_socket"
        /\ fds = [held EXCEPT ![sockfd] = {"open", "bound"}]
    BY <1>5 DEF Listen, SocketInv, OpenInv, SoFar
  <2>2. CASE Return(fds[sockfd] \cup {"listening"})
    <3>1. fds[sockfd] \cup {"listening"} = Promise(fn)
      BY <2>1 DEF Promise, SocketInv, TypeOK
    <3> QED  BY <2>1, <2>2, <3>1, ReturnInv
  <2>3. CASE Exit
    BY <2>3, ExitInv
  <2> QED  BY <1>5, <2>2, <2>3 DEF Listen
<1>6. CASE NoAddrLeft
  <2>1. CASE Exit
    BY <2>1, ExitInv
  <2>2. CASE ~Exit
    <3>1. pc = "socket" /\ UNCHANGED <<fds, held>> /\ (Done(-1) \/ Done(-2))
      BY <1>6, <2>2 DEF NoAddrLeft
    <3> QED  BY <3>1, DoneInv
  <2> QED  BY <2>1, <2>2
<1> QED  BY <1>1, <1>2, <1>3, <1>4, <1>5, <1>6

LEMMA SendStepInv ==
  ASSUME SocketInv, Send \/ SendFails
  PROVE  SocketInv'
<1>1. pc = "send" /\ fn \in Senders /\ sent + left = size /\ left > 0 /\ ~port /\ fds = held
  BY DEF Send, SendFails, SocketInv, SendInv, OpenInv
<1>2. CASE Send
  <2>1. PICK n \in 1 .. left :
          /\ sent' = sent + n /\ left' = left - n
          /\ wire' = wire \o [k \in 1 .. n |-> sent + k]
          /\ IF sent' = size THEN pc' = "idle" /\ result' = sent'
                             ELSE UNCHANGED <<pc, result>>
    BY <1>2 DEF Send
  <2>2. size' = size /\ fn' = fn /\ UNCHANGED opening
    BY <1>2 DEF Send
  <2>3. n \in Nat /\ sent \in Nat /\ left \in Nat /\ size \in Nat
    BY <2>1, SocketAssumption DEF SocketInv, TypeOK
  <2>4. wire' = [k \in 1 .. sent' |-> k]
    <3>1. wire \o [k \in 1 .. n |-> sent + k] = [k \in 1 .. sent + n |-> k]
      BY <2>3, Extended DEF SocketInv, Delivered
    <3> QED  BY <2>1, <3>1
  <2>5. sent' <= size /\ sent' + left' = size /\ sent' \in 0 .. MaxSize /\ left' \in 0 .. MaxSize
    BY <1>1, <2>1, <2>3, SocketAssumption DEF SocketInv, TypeOK
  <2>6. wire' \in Seq(1 .. MaxSize)
    BY <2>4, <2>5, SocketAssumption
  <2>7. TypeOK'
    BY <2>1, <2>2, <2>5, <2>6 DEF SocketInv, TypeOK, opening
  <2>8. OpenInv'
    BY <1>1, <2>1, <2>2 DEF OpenInv, opening
  <2>9. SendInv'
    BY <1>1, <2>1, <2>2, <2>3, <2>5 DEF SendInv
  <2>10. Delivered'
    BY <1>1, <2>1, <2>2, <2>4, <2>5 DEF Delivered
  <2> QED  BY <2>7, <2>8, <2>9, <2>10 DEF SocketInv
<1>3. CASE SendFails
  <2>1. CASE Exit
    BY <2>1, ExitInv
  <2>2. CASE Done(-1) /\ UNCHANGED <<fds, held>>
    <3>1. TypeOK'
      BY <2>2, NoAddresses DEF SocketInv, TypeOK, Done, sending
    <3>2. OpenInv' /\ SendInv'
      BY <1>1, <2>2 DEF OpenInv, SendInv, Done
    <3>3. size \in Nat /\ sent \in Nat /\ left \in Nat
      BY SocketAssumption DEF SocketInv, TypeOK
    <3>4. Delivered'
      BY <1>1, <2>2, <3>3 DEF SocketInv, Delivered, Done, sending
    <3> QED  BY <3>1, <3>2, <3>4 DEF SocketInv
  <2> QED  BY <1>3, <2>1, <2>2 DEF SendFails
<1> QED  BY <1>2, <1>3

LEMMA CallerStepInv ==
  ASSUME SocketInv,
         \/ \E f \in Openers, list \in Lists, withPort \in BOOLEAN : CallOpen(f, list, withPort)
         \/ \E f \in Senders, n \in 1 .. MaxSize : CallSend(f, n)
         \/ \E fd \in Fd : CallerCloses(fd)
  PROVE  SocketInv'
<1>1. ASSUME NEW f \in Openers, NEW list \in Lists, NEW withPort \in BOOLEAN,
             CallOpen(f, list, withPort)
      PROVE  SocketInv'
  <2>1. list \in Seq(Addr)
    BY SocketAssumption DEF Lists
  <2>2. fds = held /\ pc = "idle"
    BY <1>1 DEF CallOpen, SocketInv, OpenInv
  <2>3. 0 \in 0 .. MaxSize
    BY SocketAssumption
  <2>4. TypeOK'
    BY <1>1, <2>1, <2>3, NoAddresses DEF CallOpen, SocketInv, TypeOK
  <2>5. OpenInv' /\ SendInv'
    BY <1>1, <2>2 DEF CallOpen, OpenInv, SendInv
  <2>6. Delivered'
    <3>1. [k \in 1 .. 0 |-> k] = <<>>
      OBVIOUS
    <3> QED  BY <1>1, <3>1 DEF CallOpen, Delivered
  <2> QED  BY <2>4, <2>5, <2>6 DEF SocketInv
<1>2. ASSUME NEW f \in Senders, NEW n \in 1 .. MaxSize, CallSend(f, n)
      PROVE  SocketInv'
  <2>1. n \in Nat /\ n > 0 /\ 0 \in 0 .. MaxSize /\ n \in 0 .. MaxSize
    BY SocketAssumption
  <2>2. TypeOK'
    BY <1>2, <2>1, NoAddresses DEF CallSend, SocketInv, TypeOK, opening
  <2>3. OpenInv' /\ SendInv'
    BY <1>2, <2>1 DEF CallSend, SocketInv, OpenInv, SendInv, opening
  <2>4. Delivered'
    <3>1. [k \in 1 .. 0 |-> k] = <<>>
      OBVIOUS
    <3> QED  BY <1>2, <2>1, <3>1 DEF CallSend, Delivered
  <2> QED  BY <2>2, <2>3, <2>4 DEF SocketInv
<1>3. ASSUME NEW fd \in Fd, CallerCloses(fd)
      PROVE  SocketInv'
  <2>1. TypeOK'
    BY <1>3 DEF CallerCloses, SocketInv, TypeOK, sending
  <2>2. OpenInv' /\ SendInv' /\ Delivered'
    BY <1>3 DEF CallerCloses, SocketInv, OpenInv, SendInv, Delivered, sending
  <2> QED  BY <2>1, <2>2 DEF SocketInv
<1> QED  BY <1>1, <1>2, <1>3

LEMMA Inductive == Spec => []SocketInv
<1>1. SocketInv /\ [Next]_vars => SocketInv'
  <2>1. ASSUME SocketInv, UNCHANGED vars PROVE SocketInv'
    BY <2>1 DEF SocketInv, TypeOK, OpenInv, SoFar, SendInv, Delivered, vars, opening, sending
  <2> QED  BY <2>1, OpenStepInv, SendStepInv, CallerStepInv DEF Next, Step
<1> QED  BY <1>1, InitInv, PTL DEF Spec

\* The variables have their types whatever the system calls answer.
THEOREM TypeCorrect == Spec => []TypeOK
BY Inductive, PTL DEF SocketInv

\* client_socket, server_socket, udp_server and udp_connected leave no
\* descriptor behind and return none half set up, for every list of addresses.
THEOREM NoLeakedSocket == Spec => []HeldReady
<1>1. SocketInv => HeldReady
  BY DEF SocketInv, OpenInv, HeldReady
<1> QED  BY <1>1, Inductive, PTL

\* send_all, Sendto_all and writestr hand over a beginning of the buffer in
\* order, and say that it was all of it exactly when it was, for every size.
THEOREM DeliveredInOrder == Spec => []Delivered
BY Inductive, PTL DEF SocketInv
=============================================================================
