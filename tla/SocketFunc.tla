----------------------------- MODULE SocketFunc -----------------------------
(***************************************************************************)
(* The wrappers of socketfunc.c around the socket calls, and writestr of   *)
(* fileio.c: client_socket, server_socket, udp_server and udp_connected    *)
(* walk a list of addresses until one of them works, send_all, Sendto_all  *)
(* and writestr repeat a call until the whole buffer has been taken.  One  *)
(* system call is one step; the select loop makes one of these calls at a  *)
(* time and gets a descriptor, a count or a negative number back.          *)
(*                                                                         *)
(* What an address does to the calls is a property of the address: its     *)
(* family is not supported, its port is taken, its host does not answer.   *)
(***************************************************************************)
EXTENDS Integers, Sequences

CONSTANTS
  MaxFd,     \* bound: sockets of the process
  MaxAddrs,  \* bound: length of the list getaddrinfo returns
  MaxSize,   \* bound: bytes of a buffer
  Env        \* how the system calls may disappoint

ASSUME SocketAssumption ==
  /\ MaxFd \in Nat /\ MaxAddrs \in Nat /\ MaxSize \in Nat
  /\ Env \subseteq {"nosocket", "udp_nosocket", "nobind", "inuse", "noconnect",
                    "nolisten", "short", "eintr", "sendfail"}

Fd == 1 .. MaxFd
Openers == {"client_socket", "server_socket", "udp_server", "udp_connected"}
Senders == {"send_all", "Sendto_all", "writestr"}

\* An address works, or the first call it makes fail.
Addr == {"ok"} \cup ({"nosocket", "nobind", "inuse", "noconnect"} \cap Env)

VARIABLES
  fds,     \* for each descriptor which calls have succeeded on it; {}: it is free
  held,    \* the same, as callers were promised it; {}: no caller has it
  fn,      \* the function running, or the last one
  pc,      \* the system call it makes next; "idle" when it has returned
  addrs,   \* the rest of the list, from `step` on
  port,    \* client_socket: whether to bind to a port of our own
  sockfd,  \* the descriptor it is working on
  errno,
  size, sent, left,  \* the sending functions
  wire,    \* history: which bytes of the buffer the system has taken
  result   \* what it has returned

opening == <<fds, held, addrs, port, sockfd, errno>>
sending == <<size, sent, left, wire>>
vars == <<opening, sending, fn, pc, result>>

Init ==
  /\ fds = [fd \in Fd |-> {}] /\ held = fds
  /\ fn = "send_all" /\ pc = "idle"
  /\ addrs = <<>> /\ port = FALSE /\ sockfd = 0 /\ errno = "none"
  /\ size = 0 /\ sent = 0 /\ left = 0 /\ wire = <<>>
  /\ result = 0

\* What a function promises of the descriptor it returns.
Promise(f) ==
  CASE f = "client_socket" -> {"open", "connected"} \cup (IF port THEN {"bound"} ELSE {})
    [] f = "server_socket" -> {"open", "bound", "listening"}
    [] f = "udp_server"    -> {"open", "bound"}
    [] OTHER               -> {"open", "connected"}

Exit == pc' = "exit" /\ UNCHANGED <<opening, sending, fn, result>>

\* The locals of a function are gone when it returns.
Done(value) ==
  /\ pc' = "idle" /\ result' = value
  /\ addrs' = <<>> /\ port' = FALSE /\ sockfd' = 0 /\ errno' = "none"
  /\ UNCHANGED <<sending, fn>>

\* Returns the descriptor, on which `calls` have succeeded.
Return(calls) ==
  /\ fds' = [fds EXCEPT ![sockfd] = calls]
  /\ held' = [held EXCEPT ![sockfd] = Promise(fn)]
  /\ Done(sockfd)

\* The next call on the same descriptor.
Goto(call, calls) ==
  /\ fds' = [fds EXCEPT ![sockfd] = calls]
  /\ pc' = call
  /\ UNCHANGED <<held, addrs, port, sockfd, errno, sending, fn, result>>

\* Mutant: the next address without closing the socket of this one.
NextAddrNoClose(err) ==
  /\ addrs' = Tail(addrs) /\ pc' = "socket" /\ errno' = err
  /\ UNCHANGED <<fds, held, port, sockfd, sending, fn, result>>

\* close(), and on to the next address.
NextAddr(err) ==
  /\ fds' = [fds EXCEPT ![sockfd] = {}]
  /\ addrs' = Tail(addrs) /\ pc' = "socket" /\ errno' = err
  /\ UNCHANGED <<held, port, sockfd, sending, fn, result>>

-----------------------------------------------------------------------------
(***************************************************************************)
(* The functions that open a socket.                                       *)
(***************************************************************************)
Socket ==
  /\ pc = "socket" /\ addrs # <<>> /\ Head(addrs) # "nosocket"
  /\ \E fd \in Fd :
       /\ fds[fd] = {}
       /\ fds' = [fds EXCEPT ![fd] = {"open"}] /\ sockfd' = fd
       /\ pc' = IF fn \in {"server_socket", "udp_server"} \/ port THEN "bind" ELSE "connect"
  /\ UNCHANGED <<held, addrs, port, errno, sending, fn, result>>

\* Mutant: the address is tried once more.
SocketFailsAgain ==
  /\ pc = "socket" /\ addrs # <<>> /\ Head(addrs) = "nosocket"
  /\ IF fn = "udp_connected" THEN Exit ELSE UNCHANGED vars

\* udp_server's `continue` skips res = res->ai_next: the same address again.
SocketFails ==
  /\ pc = "socket" /\ addrs # <<>> /\ Head(addrs) = "nosocket"
  /\ CASE fn = "udp_connected" -> Exit
       [] fn = "udp_server"    -> UNCHANGED vars
       [] OTHER -> /\ addrs' = Tail(addrs) /\ errno' = "other"
                   /\ UNCHANGED <<fds, held, port, sockfd, sending, fn, pc, result>>

\* The client's own address must do; the servers go on to the next.
Bind ==
  /\ pc = "bind"
  /\ LET a == Head(addrs)
         bound == fds[sockfd] \cup {"bound"}
     IN  IF a \in {"nobind", "inuse"}
         THEN IF fn = "client_socket" THEN Exit ELSE NextAddr(a)
         ELSE CASE fn = "client_socket" -> Goto("connect", bound)
                [] fn = "server_socket" -> Goto("listen", bound)
                [] OTHER                -> Return(bound)

\* udp_connected tries once more after EINTR (no step) and gives up otherwise.
SockConnect ==
  /\ pc = "connect"
  /\ IF Head(addrs) = "noconnect"
     THEN IF fn = "udp_connected" THEN Exit ELSE NextAddr("other")
     ELSE Return(fds[sockfd] \cup {"connected"})

Listen ==
  /\ pc = "listen"
  /\ \/ Return(fds[sockfd] \cup {"listening"})
     \/ "nolisten" \in Env /\ Exit

\* No address has worked.  client_socket returns -1, although socketfunc.h:25
\* says that it exits; server_socket returns PORTINUSE if errno still says so
\* after write_log, and exits otherwise.
NoAddrLeft ==
  /\ pc = "socket" /\ addrs = <<>>
  /\ CASE fn = "client_socket" ->
            Done(-1) /\ UNCHANGED <<fds, held>>
       [] fn = "server_socket" ->
            \/ errno = "inuse" /\ Done(-2) /\ UNCHANGED <<fds, held>>
            \/ Exit
       [] OTHER -> Exit

-----------------------------------------------------------------------------
(***************************************************************************)
(* The functions that send a buffer.                                       *)
(***************************************************************************)

\* Mutant: the rest is counted from the whole size again.
SendNoLeft ==
  /\ pc = "send"
  /\ \E n \in 1 .. left :
       /\ n = left \/ ("short" \in Env /\ fn # "Sendto_all")
       /\ sent' = sent + n
       /\ wire' = wire \o [k \in 1 .. n |-> sent + k]
       /\ IF sent' >= size THEN pc' = "idle" /\ result' = sent'
                           ELSE UNCHANGED <<pc, result>>
  /\ UNCHANGED <<opening, fn, size, left>>

\* The system takes some or all of what is left; of a datagram all.
Send ==
  /\ pc = "send"
  /\ \E n \in 1 .. left :
       /\ n = left \/ ("short" \in Env /\ fn # "Sendto_all")
       /\ sent' = sent + n /\ left' = left - n
       /\ wire' = wire \o [k \in 1 .. n |-> sent + k]
       /\ IF sent' = size THEN pc' = "idle" /\ result' = sent'
                          ELSE UNCHANGED <<pc, result>>
  /\ UNCHANGED <<opening, fn, size>>

\* Sendto_all exits on any error, the others return -1; only writestr goes on
\* after EINTR, which is no step.
SendFails ==
  /\ pc = "send"
  /\ "sendfail" \in Env \/ ("eintr" \in Env /\ fn # "writestr")
  /\ IF fn = "Sendto_all" THEN Exit
     ELSE Done(-1) /\ UNCHANGED <<fds, held>>

-----------------------------------------------------------------------------
(***************************************************************************)
(* The select loop, the caller.                                            *)
(***************************************************************************)
Lists == UNION {[1 .. n -> Addr] : n \in 1 .. MaxAddrs}
Occurs(a, list) == \E k \in DOMAIN list : list[k] = a

\* udp_connected is given one address, the others what getaddrinfo returns.
CallOpen(f, list, withPort) ==
  /\ pc = "idle" /\ \E fd \in Fd : fds[fd] = {}
  /\ f = "udp_connected" => Len(list) = 1
  /\ f = "udp_server" /\ Occurs("nosocket", list) => "udp_nosocket" \in Env
  /\ withPort => f = "client_socket"
  /\ fn' = f /\ pc' = "socket"
  /\ addrs' = list /\ port' = withPort
  /\ size' = 0 /\ sent' = 0 /\ left' = 0 /\ wire' = <<>>
  /\ UNCHANGED <<fds, held, sockfd, errno, result>>

CallSend(f, n) ==
  /\ pc = "idle"
  /\ fn' = f /\ pc' = "send"
  /\ size' = n /\ sent' = 0 /\ left' = n /\ wire' = <<>>
  /\ UNCHANGED <<opening, result>>

\* The caller closes what it has been given.
CallerCloses(fd) ==
  /\ pc = "idle" /\ held[fd] # {}
  /\ fds' = [fds EXCEPT ![fd] = {}] /\ held' = [held EXCEPT ![fd] = {}]
  /\ UNCHANGED <<addrs, port, sockfd, errno, sending, fn, pc, result>>

Step ==
  \/ Socket \/ SocketFails \/ Bind \/ SockConnect \/ Listen \/ NoAddrLeft
  \/ Send \/ SendFails

Next ==
  \/ Step
  \/ \E f \in Openers, list \in Lists, withPort \in BOOLEAN : CallOpen(f, list, withPort)
  \/ \E f \in Senders, n \in 1 .. MaxSize : CallSend(f, n)
  \/ \E fd \in Fd : CallerCloses(fd)

Spec == Init /\ [][Next]_vars

\* The function runs; a call is not interrupted for ever.
FairSpec == Spec /\ WF_vars(Step)

-----------------------------------------------------------------------------
(***************************************************************************)
(* Properties.                                                             *)
(***************************************************************************)
Calls == {"open", "bound", "connected", "listening"}

TypeOK ==
  /\ fds \in [Fd -> SUBSET Calls] /\ held \in [Fd -> SUBSET Calls]
  /\ fn \in Openers \cup Senders
  /\ pc \in {"idle", "socket", "bind", "connect", "listen", "send", "exit"}
  /\ addrs \in Seq(Addr) /\ port \in BOOLEAN
  /\ sockfd \in {0} \cup Fd
  /\ errno \in {"none", "nobind", "inuse", "other"}
  /\ size \in 0 .. MaxSize /\ sent \in 0 .. MaxSize /\ left \in 0 .. MaxSize
  /\ wire \in Seq(1 .. MaxSize)
  /\ result \in {-2, -1} \cup (0 .. MaxSize) \cup Fd

\* Between calls the open sockets are those callers have, each as it was
\* promised: whatever fails on the way down a list, nothing is leaked, nothing
\* a caller has is closed, and no socket half set up is returned.
HeldReady == pc = "idle" => fds = held

\* Whatever is taken at a time, the system has the beginning of the buffer, each
\* byte once and in order; it has all of it exactly when the function says so.
Delivered ==
  /\ sent <= size /\ wire = [k \in 1 .. sent |-> k]
  /\ pc = "idle" /\ fn \in Senders => (result = size <=> sent = size)

\* Every call returns or ends the program, unless udp_server meets an address
\* without a socket.
CallReturns == pc \notin {"idle", "exit"} ~> pc \in {"idle", "exit"}
=============================================================================
