-------------------------- MODULE RtspServerProofs --------------------------
(***************************************************************************)
(* Proofs about RtspServer for every number of descriptors, connections    *)
(* and pieces of the file, both select loops and everything Env allows,    *)
(* and at the end about MtServer, which has its steps and those of         *)
(* SipServer in one loop.                                                  *)
(***************************************************************************)
EXTENDS MtServer, FiniteSetTheorems, WellFoundedInduction, TLAPS

-----------------------------------------------------------------------------
(***************************************************************************)
(* The table of descriptors.                                               *)
(***************************************************************************)
Uses == {"none", "file", "listen", "rtsp", "media", "rtp", "ctx", "sip"}
Table == [Fd -> [use : Uses, conn : Nat]]

LEMMA FdFacts ==
  /\ Fd \subseteq Nat /\ videofd \in Fd /\ listenfd \in Fd /\ NoFd \notin Fd /\ FREED \notin Fd
  /\ IsFiniteSet(Fd)
<1>1. MaxFd \in Nat /\ MaxFd >= 4
  BY RtspAssumption
<1>2. IsFiniteSet(1 .. MaxFd)
  BY <1>1, FS_Interval
<1> QED  BY <1>1, <1>2 DEF Fd, videofd, listenfd, NoFd, FREED

\* open() and its kind return the lowest number that is free.
LEMMA LowestFree ==
  ASSUME NEW t, Unopened(t) # {}
  PROVE  Lowest(t) \in Unopened(t) /\ \A g \in Unopened(t) : Lowest(t) <= g
<1> DEFINE U == Unopened(t)
<1>1. U \subseteq Nat
  BY FdFacts DEF Unopened
<1> HIDE DEF U
<1>2. U # {}
  BY DEF U
<1>3. PICK f \in U : \A g \in U : ~ (<<g, f>> \in OpToRel(<, Nat))
  BY <1>1, <1>2, WFMin, NatLessThanWellFounded, Zenon
<1>4. \A g \in U : f <= g
  <2>1. \A i, j \in Nat : i < j => <<i, j>> \in OpToRel(<, Nat)
    BY Zenon DEF OpToRel
  <2>2. \A g \in U : ~ (g < f)
    BY <1>1, <1>3, <2>1, Zenon
  <2> QED  BY <1>1, <2>2
<1> QED  BY <1>4 DEF Lowest, U

\* A descriptor that is opened was free, and nothing else changes.
LEMMA OpenedFacts ==
  ASSUME NEW t \in Table, Unopened(t) # {}, NEW use \in Uses \ {"none"}, NEW conn \in Nat
  PROVE  /\ Opened(t, use, conn) \in Table
         /\ Lowest(t) \in Fd /\ t[Lowest(t)] = Unused
         /\ \A g \in Fd : t[g] = Unused => Lowest(t) <= g
         /\ Opened(t, use, conn)[Lowest(t)] = [use |-> use, conn |-> conn]
         /\ \A f \in Fd : f # Lowest(t) => Opened(t, use, conn)[f] = t[f]
         /\ \A f \in Fd : t[f].use # "none" => f # Lowest(t)
         /\ Unopened(Opened(t, use, conn)) = Unopened(t) \ {Lowest(t)}
<1>1. Lowest(t) \in Unopened(t) /\ \A g \in Unopened(t) : Lowest(t) <= g
  BY LowestFree
<1> DEFINE low == Lowest(t)
           rec == [use |-> use, conn |-> conn]
<1>2. rec \in [use : Uses, conn : Nat] /\ rec # Unused
  BY DEF Unused
<1>3. low \in Fd /\ t[low] = Unused /\ \A g \in Fd : t[g] = Unused => low <= g
  BY <1>1 DEF Unopened
<1> HIDE DEF low, rec
<1>4. Opened(t, use, conn) = [t EXCEPT ![low] = rec]
  BY DEF Opened, low, rec
<1>5. /\ Opened(t, use, conn) \in Table
      /\ Opened(t, use, conn)[low] = rec
      /\ \A f \in Fd : f # low => Opened(t, use, conn)[f] = t[f]
  BY <1>2, <1>3, <1>4 DEF Table
<1>6. Unopened(Opened(t, use, conn)) = Unopened(t) \ {low}
  BY <1>2, <1>5 DEF Unopened
<1>7. Unused.use = "none"
  BY DEF Unused
<1> QED  BY <1>3, <1>5, <1>6, <1>7 DEF low, rec

\* What is closed is free, and nothing else changes.
LEMMA ClosedFacts ==
  ASSUME NEW t \in Table, NEW fs
  PROVE  /\ Closed(t, fs) \in Table
         /\ \A f \in Fd : Closed(t, fs)[f] = IF f \in fs THEN Unused ELSE t[f]
BY DEF Closed, Table, Unused, Uses

\* Room for one or two descriptors.
LEMMA RoomFree ==
  ASSUME NEW n \in {1, 2}, Room(n)
  PROVE  /\ Unopened(fds) # {}
         /\ n = 2 => \A f : Unopened(fds) \ {f} # {}
<1>1. Unopened(fds) \subseteq Fd
  BY DEF Unopened
<1>2. IsFiniteSet(Unopened(fds)) /\ Cardinality(Unopened(fds)) \in Nat
  BY <1>1, FdFacts, FS_Subset, FS_CardinalityType
<1>3. Unopened(fds) # {}
  <2> SUFFICES ASSUME Unopened(fds) = {} PROVE FALSE
    OBVIOUS
  <2>1. Cardinality(Unopened(fds)) = 0
    BY FS_EmptySet
  <2> QED  BY <2>1 DEF Room
<1>4. ASSUME n = 2, NEW f, Unopened(fds) \ {f} = {} PROVE FALSE
  <2>1. Unopened(fds) = {f}
    BY <1>3, <1>4
  <2>2. Cardinality(Unopened(fds)) = 1
    BY <2>1, FS_Singleton
  <2> QED  BY <1>4, <2>2 DEF Room
<1> QED  BY <1>3, <1>4

-----------------------------------------------------------------------------
(***************************************************************************)
(* The invariant.                                                          *)
(***************************************************************************)

\* The file is open for writing until the one download that completes, and none
\* is received after it.
FileInv ==
  /\ media_downloaded => mediastate = "STREAM"
  /\ ~media_downloaded => fds[videofd].use = "file"

ClientFd == client.state # "NOCLIENT" => client.rtspfd \in Fd

CoreInv == TypeOK /\ MasterOpen /\ RememberedOpen /\ FileInv /\ ClientFd

\* A client that was given the number mediafd still holds took the lowest one,
\* and nothing below it is closed while it is served.  If it is closed in the
\* name of the media source, the next DESCRIBE gets the same number again.
RetakenInv ==
  client.state # "NOCLIENT" /\ client.rtspfd = mediafd /\ ~media_downloaded =>
    /\ \A f \in Fd : f < client.rtspfd => fds[f] # Unused
    /\ client.state = "CLICONNECTED" =>
         \/ fds[client.rtspfd] = Unused
         \/ fds[client.rtspfd].use = "rtsp" /\ client.rtspfd \in masterfds

ClientInv == RetakenInv /\ ClientConnected

ServerInv == CoreInv /\ ClientInv

\* What every step keeps.  The descriptors of the SIP clients are none of its
\* business, and CoreInv does not need ClientInv: both hold in MtServer too,
\* where the SIP side closes descriptors below the client's.
Kept == CoreInv' /\ Open("sip")' = Open("sip") /\ (ClientInv => ClientInv')

\* The parts of TypeOK that the steps below need again and again.
LEMMA Types1 ==
  ASSUME TypeOK
  PROVE  /\ fds \in Table /\ masterfds \subseteq Fd
         /\ client.audio \in [1 .. 2 -> Fd \cup {NoFd}]
         /\ client.video \in [1 .. 2 -> Fd \cup {NoFd}]
         /\ mediafd \in Fd \cup {NoFd} /\ tinfo \in Fd \cup {NoFd, FREED}
BY DEF TypeOK, Table, Uses

LEMMA InitInv == Init => ServerInv
<1> SUFFICES ASSUME Init PROVE ServerInv
  OBVIOUS
<1>1. fds \in Table /\ fds[videofd].use = "file" /\ fds[listenfd].use = "listen"
  BY FdFacts DEF Init, Table, Uses, Unused, videofd, listenfd
<1>2. <<NoFd, NoFd>> \in [1 .. 2 -> Fd \cup {NoFd}]
  OBVIOUS
<1>3. TypeOK
  <2>1. client \in [state : {"NOCLIENT", "CLICONNECTED", "SDPSENT", "SETUPCOMPLETE"},
                    rtspfd : Fd \cup {NoFd}, setups : Nat,
                    audio : [1 .. 2 -> Fd \cup {NoFd}], video : [1 .. 2 -> Fd \cup {NoFd}]]
    BY <1>2 DEF Init, NewClient
  <2>2. file \in Seq(Nat)
    BY DEF Init
  <2>3. 0 \in 0 .. MaxConns /\ 0 \in 0 .. Chunks
    BY RtspAssumption
  <2>4. masterfds \subseteq Fd
    BY FdFacts DEF Init
  <2> QED  BY <1>1, <2>1, <2>2, <2>3, <2>4 DEF Init, TypeOK, Table, Uses
<1>4. MasterOpen
  BY <1>1 DEF Init, MasterOpen
<1>5. RememberedOpen
  BY FdFacts DEF Init, RememberedOpen, NewClient
<1>6. FileInv /\ ClientFd /\ ClientInv
  BY <1>1 DEF Init, FileInv, ClientFd, ClientInv, RetakenInv, ClientConnected, NewClient
<1> QED  BY <1>3, <1>4, <1>5, <1>6 DEF ServerInv, CoreInv

\* Steps that end the program, or change nothing but what has been parsed.
LEMMA UndefinedKept ==
  ASSUME CoreInv, NEW why \in {"exit", "bad_fd", "no_header"}, Undefined(why)
  PROVE  Kept
BY DEF Kept, CoreInv, TypeOK, MasterOpen, RememberedOpen, FileInv, ClientFd, ClientInv,
       RetakenInv, ClientConnected, Undefined, Open, media

LEMMA IgnoredKept ==
  ASSUME CoreInv, NEW i, NEW type \in Types, Ignored(i, type)
  PROVE  Kept
BY DEF Kept, CoreInv, TypeOK, MasterOpen, RememberedOpen, FileInv, ClientFd, ClientInv,
       RetakenInv, ClientConnected, Ignored, Request, media, Open

\* A new client: the lowest free number, watched.
LEMMA AcceptKept == ASSUME CoreInv, Accept PROVE Kept
<1> DEFINE low == Lowest(fds)
<1>1. Unopened(fds) # {}
  <2>1. Room(1)
    BY DEF Accept, Connect
  <2> QED  BY <2>1, RoomFree
<1>2. fds \in Table /\ conns' \in Nat /\ conns' \in 0 .. MaxConns
  <2>1. fds \in Table
    BY Types1 DEF CoreInv
  <2>2. conns \in 0 .. MaxConns /\ conns < MaxConns /\ conns' = conns + 1
    BY DEF CoreInv, TypeOK, Accept, Connect
  <2> QED  BY <2>1, <2>2, RtspAssumption
<1>3. /\ fds' \in Table /\ low \in Fd /\ fds[low] = Unused
      /\ fds'[low] = [use |-> "rtsp", conn |-> conns']
      /\ \A f \in Fd : f # low => fds'[f] = fds[f]
      /\ \A f \in Fd : fds[f].use # "none" => f # low
      /\ \A g \in Fd : fds[g] = Unused => low <= g
  BY <1>1, <1>2, OpenedFacts DEF Accept, Uses
<1>5. /\ client' = [client EXCEPT !.rtspfd = low, !.state = "CLICONNECTED"]
      /\ masterfds' = masterfds \cup {low}
      /\ UNCHANGED <<rtspmsg, media, tinfo, playing, mode>>
  BY DEF Accept
<1> HIDE DEF low
<1>6. TypeOK'
  BY <1>2, <1>3, <1>5, ZenonT(60) DEF CoreInv, TypeOK, media, Table, Uses
<1>7. MasterOpen'
  BY <1>3, <1>5 DEF CoreInv, TypeOK, MasterOpen
<1>8. client'.audio = client.audio /\ client'.video = client.video
  BY <1>5 DEF CoreInv, TypeOK
<1>9. RememberedOpen'
  BY <1>3, <1>5, <1>8, Types1 DEF CoreInv, RememberedOpen
<1>10. FileInv' /\ ClientFd'
  BY <1>3, <1>5, FdFacts DEF CoreInv, TypeOK, FileInv, ClientFd, media
<1>11. client'.rtspfd = low /\ low \in Nat
  BY <1>3, <1>5, FdFacts DEF CoreInv, TypeOK
<1>12. ClientInv'
  <2>1. \A f \in Fd : f < low => fds'[f] # Unused
    BY <1>3, <1>11, FdFacts
  <2> QED  BY <1>3, <1>5, <1>11, <2>1 DEF ClientInv, RetakenInv, ClientConnected
<1>13. Open("sip")' = Open("sip")
  BY <1>3 DEF Open, Unused
<1> QED  BY <1>6, <1>7, <1>9, <1>10, <1>12, <1>13 DEF Kept, CoreInv

LEMMA AcceptBusyKept == ASSUME CoreInv, AcceptBusy PROVE Kept
<1>1. conns' \in 0 .. MaxConns
  BY RtspAssumption DEF CoreInv, TypeOK, AcceptBusy, Connect
<1> QED  BY <1>1 DEF Kept, CoreInv, TypeOK, MasterOpen, RememberedOpen, FileInv, ClientFd,
                     ClientInv, RetakenInv, ClientConnected, AcceptBusy, media, Open

\* The header of the media file, and a piece of it.
LEMMA MediaHeaderKept == ASSUME CoreInv, MediaHeader PROVE Kept
<1>1. videoleft' \in 0 .. Chunks
  BY RtspAssumption DEF MediaHeader
<1> QED  BY <1>1 DEF Kept, CoreInv, TypeOK, MasterOpen, RememberedOpen, FileInv, ClientFd,
                     ClientInv, RetakenInv, ClientConnected, MediaHeader, MediaReady, Open

\* What has been received is kept track of by its connection.
LEMMA FileType ==
  ASSUME CoreInv, mediafd \in masterfds, file' = Append(file, fds[mediafd].conn)
  PROVE  file' \in Seq(Nat)
BY DEF CoreInv, TypeOK

LEMMA MediaBodyKept == ASSUME CoreInv, MediaBody PROVE Kept
<1>1. file' \in Seq(Nat)
  BY FileType DEF MediaBody, MediaReady
<1>2. videoleft' \in 0 .. Chunks
  BY RtspAssumption DEF CoreInv, TypeOK, MediaBody
<1> QED  BY <1>1, <1>2 DEF Kept, CoreInv, TypeOK, MasterOpen, RememberedOpen, FileInv, ClientFd,
                           ClientInv, RetakenInv, ClientConnected, MediaBody, MediaReady, Open

\* The end of the download: neither of the two that are closed is a socket of a
\* client, and what is opened takes the place of something that was free.
LEMMA MediaCompleteEffect ==
  ASSUME CoreInv, MediaComplete
  PROVE  /\ fds' \in Table /\ tinfo' \in Fd /\ fds'[tinfo'] = [use |-> "ctx", conn |-> 0]
         /\ \A f \in Fd : f # mediafd /\ fds[f].use \notin {"none", "file"} =>
              f # tinfo' /\ fds'[f] = fds[f]
         /\ \A f \in Fd : f # tinfo' => fds'[f] \in {fds[f], Unused}
         /\ mediafd # tinfo' => fds'[mediafd] = Unused
<1> DEFINE t == Closed(fds, {mediafd, videofd})
           low == Lowest(t)
<1>1. /\ fds \in Table /\ mediafd \in Fd /\ fds[videofd].use = "file"
  BY Types1 DEF CoreInv, FileInv, MediaComplete, MediaReady
<1>2. t \in Table /\ \A f \in Fd : t[f] = IF f \in {mediafd, videofd} THEN Unused ELSE fds[f]
  BY <1>1, ClosedFacts
<1>3. Unopened(t) # {}
  BY <1>1, <1>2 DEF Unopened
<1>4. tinfo' = low /\ fds' = Opened(t, "ctx", 0)
  BY DEF MediaComplete, NewThreadInfo
<1> HIDE DEF t
<1>5. /\ fds' \in Table /\ low \in Fd /\ t[low] = Unused
      /\ fds'[low] = [use |-> "ctx", conn |-> 0]
      /\ \A f \in Fd : f # low => fds'[f] = t[f]
      /\ \A f \in Fd : t[f].use # "none" => f # low
  BY <1>2, <1>3, <1>4, OpenedFacts DEF Uses
<1> HIDE DEF low
<1>6. ASSUME NEW f \in Fd, f # mediafd, fds[f].use \notin {"none", "file"}
      PROVE  f # low /\ fds'[f] = fds[f]
  BY <1>1, <1>2, <1>5, <1>6, FdFacts
<1>7. ASSUME NEW f \in Fd, f # low
      PROVE  fds'[f] \in {fds[f], Unused} /\ (f = mediafd => fds'[f] = Unused)
  BY <1>2, <1>5, <1>7
<1> QED  BY <1>1, <1>4, <1>5, <1>6, <1>7

LEMMA MediaCompleteKept == ASSUME CoreInv, MediaComplete PROVE Kept
<1>1. /\ masterfds \subseteq Fd /\ mediafd \in masterfds
      /\ fds[mediafd].use \in {"listen", "rtsp", "media"} /\ fds[videofd].use = "file"
  BY Types1 DEF CoreInv, FileInv, MasterOpen, MediaComplete, MediaReady
<1>2. /\ masterfds' = masterfds \ {mediafd}
      /\ media_downloaded' = TRUE /\ mediastate' = "STREAM" /\ videoleft' = 0
      /\ file' = Append(file, fds[mediafd].conn)
      /\ UNCHANGED <<client, rtspmsg, mediafd, downloads, playing, conns, mode>>
  BY DEF MediaComplete
<1>3. /\ fds' \in Table /\ tinfo' \in Fd /\ fds'[tinfo'] = [use |-> "ctx", conn |-> 0]
      /\ \A f \in Fd : f # mediafd /\ fds[f].use \notin {"none", "file"} =>
           f # tinfo' /\ fds'[f] = fds[f]
      /\ \A f \in Fd : f # tinfo' => fds'[f] \in {fds[f], Unused}
      /\ mediafd # tinfo' => fds'[mediafd] = Unused
  BY MediaCompleteEffect
<1>4. TypeOK'
  <2>1. file' \in Seq(Nat)
    BY <1>1, <1>2, FileType
  <2>2. videoleft' \in 0 .. Chunks
    BY <1>2, RtspAssumption
  <2> QED  BY <1>2, <1>3, <2>1, <2>2 DEF CoreInv, TypeOK, Table, Uses
<1>5. MasterOpen'
  BY <1>1, <1>2, <1>3 DEF CoreInv, MasterOpen
<1>6. RememberedOpen'
  <2>1. ASSUME NEW f \in Fd, fds[f].use = "rtp" PROVE fds'[f].use = "rtp"
    BY <1>1, <1>3, <2>1
  <2>2. ASSUME NEW k \in {1, 2}, NEW f \in {client.audio[k], client.video[k]}, f # NoFd
        PROVE  fds'[f].use = "rtp"
    BY <2>1, <2>2, Types1 DEF CoreInv, RememberedOpen
  <2> QED  BY <1>2, <1>3, <2>2 DEF RememberedOpen
<1>7. FileInv' /\ ClientFd'
  BY <1>2 DEF CoreInv, FileInv, ClientFd
<1>8. ClientInv => ClientInv'
  BY <1>2, <1>3 DEF CoreInv, ClientFd, ClientInv, RetakenInv, ClientConnected
<1>9. Open("sip")' = Open("sip")
  <2>1. Unused.use = "none"
    BY DEF Unused
  <2> QED  BY <1>1, <1>3, <2>1 DEF Open
<1> QED  BY <1>4, <1>5, <1>6, <1>7, <1>8, <1>9 DEF Kept, CoreInv

LEMMA MediaShortKept == ASSUME CoreInv, MediaShort PROVE Kept
<1>1. /\ fds \in Table /\ masterfds \subseteq Fd /\ mediafd \in masterfds /\ mediafd \in Fd
      /\ fds[mediafd].use \in {"listen", "rtsp", "media"}
  BY Types1 DEF CoreInv, MasterOpen, MediaShort, MediaReady
<1>2. /\ fds' \in Table
      /\ \A f \in Fd : fds'[f] = IF f = mediafd THEN Unused ELSE fds[f]
  BY <1>1, ClosedFacts DEF MediaShort
<1>3. /\ masterfds' = masterfds \ {mediafd}
      /\ UNCHANGED <<client, rtspmsg, media, tinfo, playing, conns, mode>>
  BY DEF MediaShort
<1>4. TypeOK' /\ MasterOpen'
  <2>1. masterfds' \subseteq Fd
    BY <1>1, <1>3
  <2>2. TypeOK'
    BY <1>2, <1>3, <2>1, SMTT(60) DEF CoreInv, TypeOK, media, Table, Uses
  <2> QED  BY <1>1, <1>2, <1>3, <2>2 DEF CoreInv, MasterOpen
<1>5. RememberedOpen'
  BY <1>1, <1>2, <1>3, Types1 DEF CoreInv, RememberedOpen
<1>6. FileInv' /\ ClientFd'
  BY <1>1, <1>2, <1>3, FdFacts DEF CoreInv, FileInv, ClientFd, media
<1>7. ClientInv => ClientInv'
  <2>1. ASSUME RetakenInv PROVE RetakenInv'
    <3> SUFFICES ASSUME client.state # "NOCLIENT", client.rtspfd = mediafd, ~media_downloaded
                 PROVE  /\ \A f \in Fd : f < mediafd => fds'[f] # Unused
                        /\ fds'[mediafd] = Unused
      BY <1>3 DEF RetakenInv, media
    <3>1. \A f \in Fd : f < mediafd => f # mediafd
      BY <1>1, FdFacts
    <3> QED  BY <1>1, <1>2, <2>1, <3>1 DEF RetakenInv
  <2>2. ASSUME ClientConnected PROVE ClientConnected'
    BY <1>1, <1>2, <1>3, <2>2 DEF ClientConnected, media
  <2> QED  BY <2>1, <2>2 DEF ClientInv
<1>8. Open("sip")' = Open("sip")
  BY <1>1, <1>2 DEF Open, Unused
<1> QED  BY <1>4, <1>5, <1>6, <1>7, <1>8 DEF Kept, CoreInv

-----------------------------------------------------------------------------
(***************************************************************************)
(* Requests.                                                               *)
(***************************************************************************)

\* The number that mediafd gets is the lowest: a client whose number was closed
\* in the name of the media source has no other.
LEMMA DescribeKept == ASSUME CoreInv, NEW i, Describe(i) PROVE Kept
<1> DEFINE low == Lowest(fds)
<1>1. /\ fds \in Table /\ masterfds \subseteq Fd /\ client.state = "CLICONNECTED"
      /\ rtspmsg' = "DESCRIBE"
      /\ client' = [client EXCEPT !.state = "SDPSENT"]
      /\ UNCHANGED <<videoleft, media_downloaded, file, tinfo, playing, conns, mode>>
  BY Types1 DEF CoreInv, Describe, Request
<1>2. /\ client'.state = "SDPSENT" /\ client'.rtspfd = client.rtspfd
      /\ client'.audio = client.audio /\ client'.video = client.video
      /\ client.rtspfd \in Fd
  BY <1>1 DEF CoreInv, ClientFd, TypeOK
<1>3. CASE media_downloaded
  <2>1. mediastate' = "STREAM" /\ UNCHANGED <<fds, masterfds, mediafd, downloads>>
    BY <1>3 DEF Describe
  <2>2. TypeOK' /\ MasterOpen'
    BY <1>1, <2>1 DEF CoreInv, TypeOK, MasterOpen, Types
  <2>3. RememberedOpen' /\ FileInv' /\ ClientFd' /\ Open("sip")' = Open("sip")
    BY <1>1, <1>2, <1>3, <2>1 DEF CoreInv, RememberedOpen, FileInv, ClientFd, Open
  <2>4. ClientInv => ClientInv'
    BY <1>1, <1>2, <1>3, <2>1 DEF ClientInv, RetakenInv, ClientConnected
  <2> QED  BY <2>2, <2>3, <2>4 DEF Kept, CoreInv
<1>4. CASE ~media_downloaded
  <2>1. /\ Room(1) /\ downloads' = downloads + 1
        /\ fds' = Opened(fds, "media", downloads')
        /\ mediafd' = low /\ masterfds' = masterfds \cup {low} /\ mediastate' = "GETSENT"
    BY <1>4 DEF Describe
  <2>2. downloads' \in Nat /\ Unopened(fds) # {}
    BY <2>1, RoomFree DEF CoreInv, TypeOK
  <2>3. /\ fds' \in Table /\ low \in Fd /\ fds[low] = Unused
        /\ fds'[low] = [use |-> "media", conn |-> downloads']
        /\ \A f \in Fd : f # low => fds'[f] = fds[f]
        /\ \A f \in Fd : fds[f].use # "none" => f # low
        /\ \A g \in Fd : fds[g] = Unused => low <= g
    BY <1>1, <2>1, <2>2, OpenedFacts DEF Uses
  <2> HIDE DEF low
  <2>4. TypeOK'
    BY <1>1, <2>1, <2>2, <2>3, ZenonT(60) DEF CoreInv, TypeOK, Types, Table, Uses
  <2>5. MasterOpen'
    BY <1>1, <2>1, <2>3 DEF CoreInv, MasterOpen
  <2>6. RememberedOpen'
    BY <1>1, <1>2, <2>3, Types1 DEF CoreInv, RememberedOpen
  <2>7. FileInv' /\ ClientFd'
    BY <1>1, <1>2, <1>4, <2>3, FdFacts DEF CoreInv, FileInv, ClientFd
  <2>8. ASSUME ClientInv PROVE RetakenInv'
    BY <1>2, <2>1, <2>3, FdFacts DEF RetakenInv
  <2>9. ASSUME ClientInv, client.rtspfd # low
        PROVE  client.rtspfd \in masterfds /\ fds[client.rtspfd].use = "rtsp"
    <3>1. CASE client.rtspfd # mediafd
      BY <1>1, <2>9, <3>1 DEF ClientInv, ClientConnected
    <3>2. CASE client.rtspfd = mediafd
      <4>1. fds[client.rtspfd] # Unused
        <5> SUFFICES ASSUME fds[client.rtspfd] = Unused PROVE FALSE
          OBVIOUS
        <5>1. low <= client.rtspfd
          BY <1>2, <2>3
        <5>2. low < client.rtspfd
          <6>1. low \in Nat /\ client.rtspfd \in Nat
            BY <1>2, <2>3, FdFacts
          <6> QED  BY <2>9, <5>1, <6>1
        <5>3. fds[low] # Unused
          BY <1>1, <1>4, <2>3, <2>9, <3>2, <5>2 DEF ClientInv, RetakenInv
        <5> QED  BY <2>3, <5>3
      <4> QED  BY <1>1, <1>4, <2>9, <3>2, <4>1 DEF ClientInv, RetakenInv
    <3> QED  BY <3>1, <3>2
  <2>10. ClientInv => ClientInv'
    BY <1>2, <2>1, <2>3, <2>8, <2>9 DEF ClientInv, ClientConnected
  <2>11. Open("sip")' = Open("sip")
    BY <2>3 DEF Open, Unused
  <2> QED  BY <2>4, <2>5, <2>6, <2>7, <2>10, <2>11 DEF Kept, CoreInv
<1> QED  BY <1>3, <1>4

\* What SETUP changes of the client.
States == {"NOCLIENT", "CLICONNECTED", "SDPSENT", "SETUPCOMPLETE"}
Clients(P) == [state : States, rtspfd : Fd \cup {NoFd}, setups : Nat, audio : P, video : P]

\* Where SETUP keeps the two.
Stored(rtp, rtcp) ==
  client' = IF client.setups = 0
              THEN [client EXCEPT !.setups = 1, !.audio = <<rtp, rtcp>>]
            ELSE IF Variant = "server"
              THEN [client EXCEPT !.setups = @ + 1, !.video[1] = rtp, !.audio[2] = rtcp,
                                  !.state = "SETUPCOMPLETE"]
            ELSE [client EXCEPT !.setups = @ + 1, !.video = <<rtp, rtcp>>,
                                !.state = "SETUPCOMPLETE"]

\* Two descriptors are opened, one after the other.
LEMMA SetupEffect ==
  ASSUME CoreInv, NEW i, Setup(i)
  PROVE  \E rtp, rtcp \in Fd :
           /\ rtp # rtcp /\ fds[rtp] = Unused /\ fds[rtcp] = Unused
           /\ fds' \in Table
           /\ fds'[rtp] = [use |-> "rtp", conn |-> fds[client.rtspfd].conn]
           /\ fds'[rtcp] = [use |-> "rtp", conn |-> fds[client.rtspfd].conn]
           /\ \A f \in Fd \ {rtp, rtcp} : fds'[f] = fds[f]
           /\ Stored(rtp, rtcp)
<1> DEFINE conn == fds[client.rtspfd].conn
           t    == Opened(fds, "rtp", conn)
           rtp  == Lowest(fds)
           rtcp == Lowest(t)
<1>1. fds \in Table /\ conn \in Nat /\ Room(2) /\ fds' = Opened(t, "rtp", conn)
  <2>1. client.rtspfd \in Fd
    BY DEF CoreInv, ClientFd, Setup
  <2> QED  BY <2>1, Types1 DEF CoreInv, TypeOK, Setup
<1>2. Unopened(fds) # {} /\ \A f : Unopened(fds) \ {f} # {}
  BY <1>1, RoomFree
<1>3. Stored(rtp, rtcp)
  BY DEF Setup, Stored
<1> HIDE DEF conn
<1>4. /\ t \in Table /\ rtp \in Fd /\ fds[rtp] = Unused
      /\ t[rtp] = [use |-> "rtp", conn |-> conn]
      /\ \A f \in Fd : f # rtp => t[f] = fds[f]
      /\ Unopened(t) = Unopened(fds) \ {rtp}
  BY <1>1, <1>2, OpenedFacts DEF Uses
<1> HIDE DEF t
<1>5. Unopened(t) # {}
  BY <1>2, <1>4
<1>6. /\ fds' \in Table /\ rtcp \in Fd /\ t[rtcp] = Unused
      /\ fds'[rtcp] = [use |-> "rtp", conn |-> conn]
      /\ \A f \in Fd : f # rtcp => fds'[f] = t[f]
  BY <1>1, <1>4, <1>5, OpenedFacts DEF Uses
<1> HIDE DEF rtp, rtcp
<1>7. rtp # rtcp /\ fds[rtcp] = Unused
  BY <1>4, <1>6 DEF Unused
<1> QED  BY <1>3, <1>4, <1>6, <1>7 DEF conn

\* Both are sockets of the client, whichever of its four places they are stored in.
LEMMA SetupKept == ASSUME CoreInv, NEW i, Setup(i) PROVE Kept
<1>1. PICK rtp, rtcp \in Fd :
        /\ rtp # rtcp /\ fds[rtp] = Unused /\ fds[rtcp] = Unused
        /\ fds' \in Table
        /\ fds'[rtp] = [use |-> "rtp", conn |-> fds[client.rtspfd].conn]
        /\ fds'[rtcp] = [use |-> "rtp", conn |-> fds[client.rtspfd].conn]
        /\ \A f \in Fd \ {rtp, rtcp} : fds'[f] = fds[f]
        /\ Stored(rtp, rtcp)
  BY SetupEffect
<1>2. /\ client.state = "SDPSENT" /\ client.rtspfd \in Fd /\ rtspmsg' = "SETUP"
      /\ UNCHANGED <<masterfds, media, tinfo, playing, conns, mode>>
  BY DEF CoreInv, ClientFd, Setup, Request
<1>3. /\ \A f \in Fd : fds[f].use # "none" => fds'[f] = fds[f] /\ f \notin {rtp, rtcp}
      /\ fds'[rtp].use = "rtp" /\ fds'[rtcp].use = "rtp"
      /\ fds[rtp].use = "none" /\ fds[rtcp].use = "none"
      /\ \A f \in Fd \ {rtp, rtcp} : fds'[f] = fds[f]
  BY <1>1 DEF Unused
<1>4. /\ client' \in [state : {"NOCLIENT", "CLICONNECTED", "SDPSENT", "SETUPCOMPLETE"},
                      rtspfd : Fd \cup {NoFd}, setups : Nat,
                      audio : [1 .. 2 -> Fd \cup {NoFd}], video : [1 .. 2 -> Fd \cup {NoFd}]]
      /\ client'.rtspfd = client.rtspfd /\ client'.state \in {"SDPSENT", "SETUPCOMPLETE"}
      /\ \A k \in {1, 2} : /\ client'.audio[k] \in {client.audio[k], rtp, rtcp}
                           /\ client'.video[k] \in {client.video[k], rtp, rtcp}
  <2> DEFINE P == [1 .. 2 -> Fd \cup {NoFd}]
  <2>1. /\ client \in Clients(P)
        /\ \A p \in P, f \in Fd : \A k \in {1, 2} :
             /\ [p EXCEPT ![k] = f] \in P
             /\ \A l \in {1, 2} : [p EXCEPT ![k] = f][l] = IF l = k THEN f ELSE p[l]
        /\ <<rtp, rtcp>> \in P
        /\ client.audio \in P /\ client.video \in P /\ client.setups + 1 \in Nat
    <3>1. client \in Clients(P)
      BY DEF CoreInv, TypeOK, Clients, States
    <3>2. client.audio \in P /\ client.video \in P /\ client.setups + 1 \in Nat
      BY DEF CoreInv, TypeOK
    <3>3. <<rtp, rtcp>> \in P
      OBVIOUS
    <3> QED  BY <3>1, <3>2, <3>3
  <2> DEFINE Good(a, v, s) == /\ client' \in Clients(P)
                              /\ client'.rtspfd = client.rtspfd /\ client'.state = s
                              /\ client'.audio = a /\ client'.video = v
  <2>2. CASE client.setups = 0
    <3>1. client' = [client EXCEPT !.setups = 1, !.audio = <<rtp, rtcp>>]
      BY <1>1, <2>2 DEF Stored
    <3> HIDE DEF P
    <3>2. Good(<<rtp, rtcp>>, client.video, "SDPSENT")
      BY <1>2, <2>1, <3>1 DEF Clients, States
    <3> QED  BY <3>2 DEF Clients, States, P
  <2>3. CASE client.setups # 0 /\ Variant = "server"
    <3> DEFINE a == [client.audio EXCEPT ![2] = rtcp]
               v == [client.video EXCEPT ![1] = rtp]
    <3>1. client' = [client EXCEPT !.setups = client.setups + 1, !.audio = a, !.video = v,
                                   !.state = "SETUPCOMPLETE"]
      BY <1>1, <2>3 DEF CoreInv, TypeOK, Stored
    <3>2. /\ a \in P /\ \A k \in {1, 2} : a[k] \in {client.audio[k], rtp, rtcp}
          /\ v \in P /\ \A k \in {1, 2} : v[k] \in {client.video[k], rtp, rtcp}
      BY <2>1
    <3> HIDE DEF P, a, v
    <3>3. Good(a, v, "SETUPCOMPLETE")
      BY <2>1, <3>1, <3>2 DEF Clients, States
    <3> QED  BY <3>2, <3>3 DEF Clients, States, P
  <2>4. CASE client.setups # 0 /\ Variant # "server"
    <3>1. client' = [client EXCEPT !.setups = client.setups + 1, !.video = <<rtp, rtcp>>,
                                   !.state = "SETUPCOMPLETE"]
      BY <1>1, <2>4 DEF CoreInv, TypeOK, Stored
    <3> HIDE DEF P
    <3>2. Good(client.audio, <<rtp, rtcp>>, "SETUPCOMPLETE")
      BY <2>1, <3>1 DEF Clients, States
    <3> QED  BY <3>2 DEF Clients, States, P
  <2> QED  BY <2>2, <2>3, <2>4
<1>5. TypeOK'
  BY <1>1, <1>2, <1>4, SMTT(60) DEF CoreInv, TypeOK, media, Types, Table, Uses
<1>6. MasterOpen'
  BY <1>2, <1>3 DEF CoreInv, TypeOK, MasterOpen
<1>7. RememberedOpen'
  <2>1. ASSUME NEW f \in {rtp, rtcp} PROVE fds'[f].use = "rtp"
    BY <1>3
  <2>2. ASSUME NEW k \in {1, 2}, NEW f \in {client.audio[k], client.video[k]}, f # NoFd
        PROVE  fds'[f].use = "rtp"
    BY <1>3, <2>2, Types1 DEF CoreInv, RememberedOpen
  <2>3. tinfo' \in Fd => fds'[tinfo'].use = "ctx"
    BY <1>2, <1>3 DEF CoreInv, RememberedOpen
  <2> QED  BY <1>4, <2>1, <2>2, <2>3 DEF RememberedOpen
<1>8. FileInv' /\ ClientFd'
  BY <1>2, <1>3, <1>4, FdFacts DEF CoreInv, FileInv, ClientFd, media
<1>9. ClientInv => ClientInv'
  <2>1. ASSUME RetakenInv PROVE RetakenInv'
    <3>1. \A f \in Fd : fds[f] # Unused => fds'[f] # Unused
      BY <1>1 DEF Unused
    <3> QED  BY <1>2, <1>4, <2>1, <3>1 DEF RetakenInv, media
  <2>2. ASSUME ClientConnected PROVE ClientConnected'
    BY <1>2, <1>3, <1>4, <2>2 DEF ClientConnected, media
  <2> QED  BY <2>1, <2>2 DEF ClientInv
<1>10. Open("sip")' = Open("sip")
  BY <1>3 DEF Open
<1> QED  BY <1>5, <1>6, <1>7, <1>8, <1>9, <1>10 DEF Kept, CoreInv

LEMMA PlayKept == ASSUME CoreInv, NEW i, Play(i) PROVE Kept
<1>1. /\ fds \in Table /\ rtspmsg' = "PLAY" /\ playing' = TRUE
      /\ UNCHANGED <<masterfds, client, media, conns, mode>>
  BY Types1 DEF CoreInv, Play, Request
<1>2. CASE media_downloaded
  <2> DEFINE low == Lowest(fds)
  <2>1. Room(1) /\ tinfo' = low /\ fds' = Opened(fds, "ctx", 0)
    BY <1>2 DEF Play, NewThreadInfo
  <2>2. Unopened(fds) # {}
    BY <2>1, RoomFree
  <2>3. /\ fds' \in Table /\ low \in Fd /\ fds[low] = Unused
        /\ fds'[low] = [use |-> "ctx", conn |-> 0]
        /\ \A f \in Fd : f # low => fds'[f] = fds[f]
        /\ \A f \in Fd : fds[f].use # "none" => f # low
    BY <1>1, <2>1, <2>2, OpenedFacts DEF Uses
  <2> HIDE DEF low
  <2>4. TypeOK'
    BY <1>1, <2>1, <2>3, SMTT(60) DEF CoreInv, TypeOK, media, Types, Table, Uses
  <2>5. MasterOpen'
    BY <1>1, <2>3 DEF CoreInv, TypeOK, Stored, MasterOpen
  <2>6. RememberedOpen'
    BY <1>1, <2>1, <2>3, Types1 DEF CoreInv, RememberedOpen
  <2>7. FileInv' /\ ClientFd'
    BY <1>1, <1>2 DEF CoreInv, FileInv, ClientFd, media
  <2>8. ClientInv => ClientInv'
    BY <1>1, <1>2, <2>3 DEF CoreInv, ClientFd, ClientInv, RetakenInv, ClientConnected, media
  <2>9. Open("sip")' = Open("sip")
    BY <2>3 DEF Open, Unused
  <2> QED  BY <2>4, <2>5, <2>6, <2>7, <2>8, <2>9 DEF Kept, CoreInv
<1>3. CASE ~media_downloaded
  <2>1. UNCHANGED <<fds, tinfo>>
    BY <1>3 DEF Play
  <2>2. TypeOK'
    BY <1>1, <2>1, SMTT(60) DEF CoreInv, TypeOK, media, Types
  <2> QED  BY <1>1, <2>1, <2>2 DEF Kept, CoreInv, MasterOpen, RememberedOpen, FileInv, ClientFd,
                                   ClientInv, RetakenInv, ClientConnected, media, Open
<1> QED  BY <1>2, <1>3

-----------------------------------------------------------------------------
(***************************************************************************)
(* The end of a session.                                                   *)
(***************************************************************************)

\* What is closed is the connection, which is watched, sockets of the client
\* and its context: nothing that is watched besides, and no other file.
LEMMA EndSessionEffect ==
  ASSUME CoreInv, NEW i \in masterfds, EndSession(i), tinfo \in Fd
  PROVE  /\ fds' \in Table
         /\ \A f \in Fd : fds'[f] \in {fds[f], Unused}
         /\ \A f \in Fd : fds'[f] # fds[f] =>
              fds[f].use \in {"listen", "rtsp", "media", "rtp", "ctx"}
         /\ \A f \in masterfds \ {i} : fds'[f] = fds[f]
         /\ fds'[tinfo] = Unused
         /\ \A k \in {1, 2} : \A f \in {client.audio[k], client.video[k]} :
              f \in Fd => fds'[f] = Unused
         /\ masterfds' = masterfds \ {i}
         /\ tinfo' = FREED /\ client' = NewClient /\ playing' = FALSE /\ mode' = mode
<1> DEFINE S == {i, client.video[1], client.video[2],
                 client.audio[1], client.audio[2], tinfo}
<1>1. /\ fds' = Closed(fds, S) /\ masterfds' = masterfds \ {i}
      /\ tinfo' = FREED /\ client' = NewClient /\ playing' = FALSE /\ mode' = mode
  BY DEF EndSession
<1>2. fds \in Table /\ masterfds \subseteq Fd
  BY Types1 DEF CoreInv
<1>3. \A f \in S : f \in Fd => fds[f].use \in {"listen", "rtsp", "media", "rtp", "ctx"}
  BY FdFacts DEF CoreInv, MasterOpen, RememberedOpen
<1>4. \A f \in S : f \in masterfds => f = i
  <2>1. ASSUME NEW f \in S, f # i, f \in Fd PROVE fds[f].use \in {"rtp", "ctx"}
    BY <2>1, FdFacts DEF CoreInv, RememberedOpen
  <2> QED  BY <2>1 DEF CoreInv, TypeOK, MasterOpen
<1>5. /\ tinfo \in S
      /\ \A k \in {1, 2} : client.audio[k] \in S /\ client.video[k] \in S
  OBVIOUS
<1> HIDE DEF S
<1>6. fds' \in Table /\ \A f \in Fd : fds'[f] = IF f \in S THEN Unused ELSE fds[f]
  BY <1>1, <1>2, ClosedFacts
<1>7. /\ \A f \in Fd : fds'[f] \in {fds[f], Unused}
      /\ \A f \in Fd : fds'[f] # fds[f] =>
           fds[f].use \in {"listen", "rtsp", "media", "rtp", "ctx"}
      /\ \A f \in masterfds \ {i} : fds'[f] = fds[f]
  BY <1>2, <1>3, <1>4, <1>6
<1>8. /\ fds'[tinfo] = Unused
      /\ \A k \in {1, 2} : \A f \in {client.audio[k], client.video[k]} :
           f \in Fd => fds'[f] = Unused
  BY <1>5, <1>6
<1> QED  BY <1>1, <1>6, <1>7, <1>8

LEMMA EndSessionKept ==
  ASSUME CoreInv, NEW i \in masterfds, EndSession(i), UNCHANGED <<media, conns>>,
         rtspmsg' \in Types \cup {"unset"}
  PROVE  Kept
<1>1. CASE tinfo \in Fd
  <2>1. /\ fds' \in Table
        /\ \A f \in Fd : fds'[f] \in {fds[f], Unused}
        /\ \A f \in Fd : fds'[f] # fds[f] =>
             fds[f].use \in {"listen", "rtsp", "media", "rtp", "ctx"}
        /\ \A f \in masterfds \ {i} : fds'[f] = fds[f]
        /\ masterfds' = masterfds \ {i}
        /\ tinfo' = FREED /\ client' = NewClient /\ playing' = FALSE /\ mode' = mode
    BY <1>1, EndSessionEffect
  <2>2. /\ NewClient \in [state : {"NOCLIENT", "CLICONNECTED", "SDPSENT", "SETUPCOMPLETE"},
                          rtspfd : Fd \cup {NoFd}, setups : Nat,
                          audio : [1 .. 2 -> Fd \cup {NoFd}],
                          video : [1 .. 2 -> Fd \cup {NoFd}]]
        /\ \A k \in {1, 2} : NewClient.audio[k] = NoFd /\ NewClient.video[k] = NoFd
        /\ NewClient.state = "NOCLIENT"
    <3>1. <<NoFd, NoFd>> \in [1 .. 2 -> Fd \cup {NoFd}]
      OBVIOUS
    <3> QED  BY <3>1 DEF NewClient
  <2>3. TypeOK'
    BY <2>1, <2>2, ZenonT(60) DEF CoreInv, TypeOK, media, Table, Uses
  <2>4. MasterOpen'
    BY <2>1 DEF CoreInv, TypeOK, MasterOpen
  <2>5. RememberedOpen'
    BY <2>1, <2>2, FdFacts DEF RememberedOpen
  <2>6. FileInv' /\ ClientFd'
    BY <2>1, <2>2, FdFacts DEF CoreInv, FileInv, ClientFd, media
  <2>7. ClientInv'
    BY <2>1, <2>2 DEF ClientInv, RetakenInv, ClientConnected
  <2>8. Open("sip")' = Open("sip")
    BY <2>1 DEF Open, Unused
  <2> QED  BY <2>3, <2>4, <2>5, <2>6, <2>7, <2>8 DEF Kept, CoreInv
<1>2. CASE tinfo \notin Fd
  <2>1. mode' = "no_filler" /\ UNCHANGED <<fds, masterfds, tinfo, client, playing>>
    BY <1>2 DEF EndSession
  <2> QED  BY <2>1 DEF Kept, CoreInv, TypeOK, MasterOpen, RememberedOpen, FileInv, ClientFd,
                       ClientInv, RetakenInv, ClientConnected, media, Open
<1> QED  BY <1>1, <1>2

LEMMA TeardownKept == ASSUME CoreInv, NEW i, Teardown(i) PROVE Kept
<1>1. i \in masterfds /\ rtspmsg' \in Types \cup {"unset"}
  BY DEF Teardown, Request, Types
<1> QED  BY <1>1, EndSessionKept DEF Teardown

LEMMA HangupKept == ASSUME CoreInv, NEW i, Hangup(i) PROVE Kept
<1>1. /\ i \in masterfds /\ UNCHANGED <<rtspmsg, media, conns>>
      /\ rtspmsg' \in Types \cup {"unset"}
  BY DEF CoreInv, TypeOK, Hangup
<1>2. CASE EndSession(i)
  BY <1>1, <1>2, EndSessionKept
<1>3. CASE mode' = "no_request" /\ UNCHANGED <<fds, masterfds, client, tinfo, playing>>
  BY <1>1, <1>3 DEF Kept, CoreInv, TypeOK, MasterOpen, RememberedOpen, FileInv, ClientFd,
                    ClientInv, RetakenInv, ClientConnected, media, Open
<1>4. CASE /\ fds' = Closed(fds, {i})
           /\ masterfds' = masterfds \ {i}
           /\ client' = [client EXCEPT !.state = "NOCLIENT"]
           /\ playing' = FALSE
           /\ UNCHANGED <<tinfo, mode>>
  <2>1. /\ fds \in Table /\ i \in Fd /\ fds[i].use \in {"listen", "rtsp", "media"}
        /\ client'.state = "NOCLIENT"
        /\ client'.audio = client.audio /\ client'.video = client.video
    BY <1>1, <1>4, Types1 DEF CoreInv, TypeOK, MasterOpen
  <2>2. fds' \in Table /\ \A f \in Fd : fds'[f] = IF f = i THEN Unused ELSE fds[f]
    BY <1>4, <2>1, ClosedFacts
  <2>3. TypeOK'
    BY <1>1, <1>4, <2>2, ZenonT(60) DEF CoreInv, TypeOK, media, Table, Uses
  <2>4. MasterOpen'
    BY <1>4, <2>2 DEF CoreInv, TypeOK, MasterOpen
  <2>5. RememberedOpen'
    BY <1>4, <2>1, <2>2, Types1 DEF CoreInv, RememberedOpen
  <2>6. FileInv' /\ ClientFd'
    BY <1>1, <2>1, <2>2, FdFacts DEF CoreInv, FileInv, ClientFd, media
  <2>7. ClientInv'
    BY <2>1 DEF ClientInv, RetakenInv, ClientConnected
  <2>8. Open("sip")' = Open("sip")
    BY <2>1, <2>2 DEF Open, Unused
  <2> QED  BY <2>3, <2>4, <2>5, <2>6, <2>7, <2>8 DEF Kept, CoreInv
<1> QED  BY <1>2, <1>3, <1>4 DEF Hangup

-----------------------------------------------------------------------------
\* Every step of either loop.
LEMMA NextKept == ASSUME CoreInv, Next PROVE Kept
<1>1. CASE Accept \/ AcceptBusy
  BY <1>1, AcceptKept, AcceptBusyKept
<1>2. CASE AcceptAborted \/ MediaHeaderSplit
  BY <1>2, UndefinedKept DEF AcceptAborted, MediaHeaderSplit
<1>3. CASE Source \/ MediaShort
  BY <1>3, MediaHeaderKept, MediaBodyKept, MediaCompleteKept, MediaShortKept DEF Source
<1>4. ASSUME NEW i \in masterfds,
             \/ \E type \in Types : Ignored(i, type)
             \/ Describe(i) \/ DescribeRefused(i) \/ Setup(i)
             \/ Play(i) \/ Teardown(i) \/ Hangup(i) \/ Reset(i)
      PROVE  Kept
  <2>1. CASE \E type \in Types : Ignored(i, type)
    BY <2>1, IgnoredKept
  <2>2. CASE DescribeRefused(i) \/ Reset(i)
    BY <2>2, UndefinedKept DEF DescribeRefused, Reset
  <2>3. CASE Describe(i) \/ Setup(i) \/ Play(i)
    BY <2>3, DescribeKept, SetupKept, PlayKept
  <2>4. CASE Teardown(i) \/ Hangup(i)
    BY <2>4, TeardownKept, HangupKept
  <2> QED  BY <1>4, <2>1, <2>2, <2>3, <2>4
<1> QED  BY <1>1, <1>2, <1>3, <1>4 DEF Next

LEMMA StutterKept == ASSUME CoreInv, UNCHANGED vars PROVE Kept
BY DEF vars, media, Kept, CoreInv, TypeOK, MasterOpen, RememberedOpen, FileInv, ClientFd,
       ClientInv, RetakenInv, ClientConnected, Open

LEMMA Inductive == Spec => []ServerInv
<1>1. ServerInv /\ [Next]_vars => ServerInv'
  BY NextKept, StutterKept DEF Kept, ServerInv
<1> QED  BY <1>1, InitInv, PTL DEF Spec

\* The types, which say that no number beyond the table of the process is used.
THEOREM TypeCorrect == Spec => []TypeOK
<1>1. ServerInv => TypeOK
  BY DEF ServerInv, CoreInv
<1> QED  BY <1>1, Inductive, PTL

\* select() is never given a descriptor that has been closed, or a socket.
THEOREM MasterIsOpen == Spec => []MasterOpen
<1>1. ServerInv => MasterOpen
  BY DEF ServerInv, CoreInv
<1> QED  BY <1>1, Inductive, PTL

\* TEARDOWN closes nothing but what belongs to the session.
THEOREM RememberedIsOpen == Spec => []RememberedOpen
<1>1. ServerInv => RememberedOpen
  BY DEF ServerInv, CoreInv
<1> QED  BY <1>1, Inductive, PTL

\* Nobody closes the connection of the client that is served, unless it has the
\* number that mediafd still holds.
THEOREM ClientIsConnected == Spec => []ClientConnected
<1>1. ServerInv => ClientConnected
  BY DEF ServerInv, ClientInv
<1> QED  BY <1>1, Inductive, PTL

-----------------------------------------------------------------------------
(***************************************************************************)
(* Clients that do not hang up.                                            *)
(***************************************************************************)

\* There is one download: the second DESCRIBE of a run comes after TEARDOWN,
\* for which there has to be a ThreadInfo, and that means a whole file.
DownloadInv ==
  /\ \A f \in Fd : fds[f].use = "media" => f = mediafd
  /\ ~media_downloaded => tinfo = NoFd
  /\ mediastate = "IDLE" => mediafd = NoFd /\ downloads = 0 /\ file = <<>>
  /\ mediastate # "IDLE" => downloads = 1
  /\ client.state \in {"NOCLIENT", "CLICONNECTED"} => mediastate \in {"IDLE", "STREAM"}
  /\ mediastate = "STREAM" => media_downloaded
  /\ mediastate \in {"GETSENT", "RECVTCP"} /\ mediafd \in masterfds =>
       fds[mediafd] = [use |-> "media", conn |-> 1]
  /\ mediastate = "GETSENT" => file = <<>>
  /\ mediastate = "RECVTCP" => videoleft >= 1 /\ file = [n \in 1 .. (Chunks - videoleft) |-> 1]
  /\ media_downloaded => file = [n \in 1 .. Chunks |-> 1]

Own(f) == f \in Fd /\ fds[f] = [use |-> "rtp", conn |-> fds[client.rtspfd].conn]

\* The four places for sockets are filled two by two, and emptied together.
SessionInv ==
  LET a1 == client.audio[1]   a2 == client.audio[2]
      v1 == client.video[1]   v2 == client.video[2]
  IN  /\ client.state = "NOCLIENT" => client = NewClient
      /\ client.state # "NOCLIENT" => fds[client.rtspfd].use = "rtsp"
      /\ client.state = "CLICONNECTED" => client.setups = 0
      /\ client.state = "SDPSENT" => client.setups \in {0, 1}
      /\ client.state = "SETUPCOMPLETE" => client.setups = 2
      /\ client.setups = 0 => {a1, a2} = {NoFd}
      /\ client.setups < 2 => {v1, v2} = {NoFd}
      /\ client.setups = 1 => Own(a1) /\ Own(a2) /\ a1 # a2
      /\ client.setups = 2 => /\ Own(a1) /\ Own(a2) /\ Own(v1)
                              /\ a1 # a2 /\ v1 \notin {a1, a2}
                              /\ Variant = "mt_server" => Own(v2) /\ v2 \notin {a1, a2, v1}

\* mt_server.c keeps every socket it opens.
NoStraySocket ==
  Variant = "mt_server" =>
    \A f \in Fd : fds[f].use = "rtp" =>
      f \in {client.audio[1], client.audio[2], client.video[1], client.video[2]}

\* A client that plays a file that is there has a ThreadInfo, for any clients.
PlayedInv ==
  /\ playing /\ media_downloaded => tinfo \in Fd
  /\ TeardownHasFiller

\* For clients that ask for things in turn as well, and a media source that is
\* slower than the client.
ContextInv ==
  /\ \A f \in Fd : fds[f].use = "ctx" => f = tinfo
  /\ media_downloaded /\ ~playing => tinfo \notin Fd

ServedInv == DownloadInv /\ SessionInv /\ NoStraySocket

LEMMA ServedInit == Init => ServedInv /\ PlayedInv /\ ContextInv
<1> SUFFICES ASSUME Init PROVE ServedInv /\ PlayedInv /\ ContextInv
  OBVIOUS
<1>1. \A f \in Fd : fds[f].use \notin {"media", "rtp", "ctx"}
  BY DEF Init, Unused
<1>2. DownloadInv
  BY <1>1 DEF Init, DownloadInv, NewClient
<1>3. SessionInv
  BY DEF Init, SessionInv, NewClient
<1>4. NoStraySocket /\ PlayedInv /\ ContextInv
  BY <1>1 DEF Init, NoStraySocket, PlayedInv, TeardownHasFiller, ContextInv
<1> QED  BY <1>2, <1>3, <1>4 DEF ServedInv

LEMMA Ones ==
  /\ <<>> = [n \in 1 .. 0 |-> 1]
  /\ \A k \in Nat : Append([n \in 1 .. k |-> 1], 1) = [n \in 1 .. (k + 1) |-> 1]
<1>1. <<>> = [n \in 1 .. 0 |-> 1]
  OBVIOUS
<1>2. ASSUME NEW k \in Nat
      PROVE  Append([n \in 1 .. k |-> 1], 1) = [n \in 1 .. (k + 1) |-> 1]
  OBVIOUS
<1> QED  BY <1>1, <1>2

\* The connection and the sockets are left alone, and so is what is known of them.
LEMMA SessionKeeps ==
  ASSUME CoreInv, SessionInv, client' = client,
         \A f \in Fd : fds[f].use \in {"rtp", "rtsp"} => fds'[f] = fds[f]
  PROVE  SessionInv'
<1>1. CASE client.state = "NOCLIENT"
  BY <1>1 DEF SessionInv, NewClient
<1>2. CASE client.state # "NOCLIENT"
  <2>1. client.rtspfd \in Fd /\ fds'[client.rtspfd] = fds[client.rtspfd]
    BY <1>2 DEF CoreInv, ClientFd, SessionInv
  <2>2. \A f : Own(f) => Own(f)'
    BY <2>1 DEF Own
  <2> QED  BY <1>2, <2>1, <2>2 DEF SessionInv
<1> QED  BY <1>1, <1>2

LEMMA StrayKeeps ==
  ASSUME NoStraySocket, client' = client,
         \A f \in Fd : fds'[f].use = "rtp" => fds[f].use = "rtp"
  PROVE  NoStraySocket'
BY DEF NoStraySocket

LEMMA ServedKeeps ==
  ASSUME ServedInv, UNCHANGED <<fds, masterfds, client, media, tinfo>>
  PROVE  ServedInv'
<1>1. DownloadInv'
  BY DEF ServedInv, DownloadInv, media
<1>2. \A f : Own(f)' <=> Own(f)
  BY DEF Own
<1>3. SessionInv'
  BY <1>2 DEF ServedInv, SessionInv
<1> QED  BY <1>1, <1>3 DEF ServedInv, NoStraySocket

LEMMA AcceptServed == ASSUME CoreInv, ServedInv, Accept PROVE ServedInv'
<1> DEFINE low == Lowest(fds)
<1>1. Room(1) /\ conns' \in Nat /\ client.state = "NOCLIENT"
  BY RtspAssumption DEF CoreInv, TypeOK, Accept, Connect
<1>2. /\ fds' \in Table /\ low \in Fd /\ fds[low] = Unused
      /\ fds'[low] = [use |-> "rtsp", conn |-> conns']
      /\ \A f \in Fd : f # low => fds'[f] = fds[f]
  <2>1. fds \in Table /\ Unopened(fds) # {}
    BY <1>1, RoomFree, Types1 DEF CoreInv
  <2> QED  BY <1>1, <2>1, OpenedFacts DEF Accept, Uses
<1>3. /\ client' = [client EXCEPT !.rtspfd = low, !.state = "CLICONNECTED"]
      /\ masterfds' = masterfds \cup {low}
      /\ UNCHANGED <<rtspmsg, media, tinfo, playing, mode>>
  BY DEF Accept
<1> HIDE DEF low
<1>4. /\ client'.rtspfd = low /\ client'.state = "CLICONNECTED" /\ client'.setups = 0
      /\ client'.audio = <<NoFd, NoFd>> /\ client'.video = <<NoFd, NoFd>>
      /\ client.audio = <<NoFd, NoFd>> /\ client.video = <<NoFd, NoFd>>
  BY <1>1, <1>3 DEF ServedInv, SessionInv, NewClient
<1>5. DownloadInv'
  BY <1>1, <1>2, <1>3, <1>4 DEF ServedInv, DownloadInv, media
<1>6. SessionInv'
  BY <1>2, <1>4 DEF SessionInv
<1>7. NoStraySocket'
  BY <1>2, <1>4 DEF ServedInv, NoStraySocket
<1> QED  BY <1>5, <1>6, <1>7 DEF ServedInv

LEMMA MediaHeaderServed == ASSUME CoreInv, ServedInv, MediaHeader PROVE ServedInv'
<1>1. /\ mediastate = "GETSENT" /\ mediastate' = "RECVTCP" /\ videoleft' = Chunks
      /\ UNCHANGED <<fds, masterfds, client, mediafd, media_downloaded, file, downloads, tinfo>>
  BY DEF MediaHeader, MediaReady
<1>2. videoleft' >= 1 /\ file' = [n \in 1 .. (Chunks - videoleft') |-> 1]
  <2>1. Chunks - videoleft' = 0 /\ Chunks >= 1
    BY <1>1, RtspAssumption
  <2>2. file' = <<>>
    BY <1>1 DEF ServedInv, DownloadInv
  <2> QED  BY <1>1, <2>1, <2>2, Ones
<1>3. ~media_downloaded
  BY <1>1 DEF CoreInv, FileInv
<1>4. DownloadInv'
  BY <1>1, <1>2, <1>3 DEF ServedInv, DownloadInv
<1> QED  BY <1>1, <1>4 DEF ServedInv, SessionInv, Own, NoStraySocket

\* Each piece comes from the one download.
LEMMA PieceReceived ==
  ASSUME CoreInv, ServedInv, MediaReady("RECVTCP"), file' = Append(file, fds[mediafd].conn)
  PROVE  /\ videoleft \in 1 .. Chunks /\ ~media_downloaded
         /\ fds[mediafd] = [use |-> "media", conn |-> 1]
         /\ file' = [n \in 1 .. (Chunks - (videoleft - 1)) |-> 1]
<1>1. mediastate = "RECVTCP" /\ mediafd \in masterfds /\ ~media_downloaded
  BY DEF MediaReady, CoreInv, FileInv
<1>2. /\ fds[mediafd] = [use |-> "media", conn |-> 1] /\ fds[mediafd].conn = 1
      /\ videoleft >= 1 /\ file = [n \in 1 .. (Chunks - videoleft) |-> 1]
  BY <1>1 DEF ServedInv, DownloadInv
<1>3. videoleft \in 1 .. Chunks /\ Chunks - videoleft \in Nat
      /\ Chunks - (videoleft - 1) = (Chunks - videoleft) + 1
  BY <1>2, RtspAssumption DEF CoreInv, TypeOK
<1>4. file' = [n \in 1 .. ((Chunks - videoleft) + 1) |-> 1]
  BY <1>2, <1>3, Ones
<1> QED  BY <1>1, <1>2, <1>3, <1>4

LEMMA MediaBodyServed == ASSUME CoreInv, ServedInv, MediaBody PROVE ServedInv'
<1>1. /\ mediastate = "RECVTCP" /\ MediaReady("RECVTCP")
      /\ videoleft > 1 /\ videoleft' = videoleft - 1 /\ file' = Append(file, fds[mediafd].conn)
      /\ UNCHANGED <<fds, masterfds, client, mediafd, mediastate, media_downloaded, downloads,
                     tinfo>>
  BY DEF MediaBody, MediaReady
<1>2. /\ videoleft \in 1 .. Chunks /\ ~media_downloaded
      /\ file' = [n \in 1 .. (Chunks - (videoleft - 1)) |-> 1]
  BY <1>1, PieceReceived
<1>3. videoleft' >= 1 /\ file' = [n \in 1 .. (Chunks - videoleft') |-> 1]
  BY <1>1, <1>2
<1>4. DownloadInv'
  BY <1>1, <1>2, <1>3 DEF ServedInv, DownloadInv
<1> QED  BY <1>1, <1>4 DEF ServedInv, SessionInv, Own, NoStraySocket

LEMMA MediaCompleteServed == ASSUME CoreInv, ServedInv, MediaComplete PROVE ServedInv'
<1>1. /\ MediaReady("RECVTCP") /\ mediastate = "RECVTCP" /\ mediafd \in Fd
      /\ videoleft <= 1 /\ file' = Append(file, fds[mediafd].conn)
      /\ media_downloaded' = TRUE /\ mediastate' = "STREAM"
      /\ UNCHANGED <<client, mediafd, downloads>>
  BY Types1 DEF CoreInv, MediaComplete, MediaReady
<1>2. /\ videoleft \in 1 .. Chunks
      /\ fds[mediafd] = [use |-> "media", conn |-> 1]
      /\ file' = [n \in 1 .. (Chunks - (videoleft - 1)) |-> 1]
  BY <1>1, PieceReceived
<1>3. file' = [n \in 1 .. Chunks |-> 1]
  <2>1. Chunks - (videoleft - 1) = Chunks
    BY <1>1, <1>2, RtspAssumption
  <2> QED  BY <1>2, <2>1
<1>4. /\ tinfo' \in Fd /\ fds'[tinfo'] = [use |-> "ctx", conn |-> 0]
      /\ \A f \in Fd : f # mediafd /\ fds[f].use \notin {"none", "file"} =>
           f # tinfo' /\ fds'[f] = fds[f]
      /\ \A f \in Fd : f # tinfo' => fds'[f] \in {fds[f], Unused}
      /\ mediafd # tinfo' => fds'[mediafd] = Unused
  BY MediaCompleteEffect
<1>5. DownloadInv'
  <2>1. \A f \in Fd : fds'[f].use # "media"
    BY <1>4 DEF ServedInv, DownloadInv, Unused
  <2> QED  BY <1>1, <1>3, <2>1 DEF ServedInv, DownloadInv
<1>6. SessionInv'
  <2>1. \A f \in Fd : fds[f].use \in {"rtp", "rtsp"} => fds'[f] = fds[f]
    BY <1>2, <1>4
  <2> QED  BY <1>1, <2>1, SessionKeeps DEF ServedInv
<1>7. NoStraySocket'
  <2>1. \A f \in Fd : fds'[f].use = "rtp" => fds[f].use = "rtp"
    BY <1>4 DEF Unused
  <2> QED  BY <1>1, <2>1, StrayKeeps DEF ServedInv
<1> QED  BY <1>5, <1>6, <1>7 DEF ServedInv

LEMMA MediaShortServed == ASSUME CoreInv, ServedInv, MediaShort PROVE ServedInv'
<1>1. /\ mediastate = "RECVTCP" /\ mediafd \in masterfds /\ mediafd \in Fd
      /\ masterfds' = masterfds \ {mediafd} /\ fds' = Closed(fds, {mediafd})
      /\ UNCHANGED <<client, media, tinfo>>
  BY Types1 DEF CoreInv, MediaShort, MediaReady
<1>2. \A f \in Fd : fds'[f] = IF f = mediafd THEN Unused ELSE fds[f]
  BY <1>1, ClosedFacts, Types1 DEF CoreInv
<1>3. fds[mediafd].use = "media"
  BY <1>1 DEF ServedInv, DownloadInv
<1>4. DownloadInv'
  BY <1>1, <1>2 DEF ServedInv, DownloadInv, Unused, media
<1>5. SessionInv'
  BY <1>1, <1>2, <1>3, SessionKeeps DEF ServedInv
<1>6. NoStraySocket'
  BY <1>1, <1>2, StrayKeeps DEF ServedInv, Unused
<1> QED  BY <1>4, <1>5, <1>6 DEF ServedInv

\* The only DESCRIBE that starts a download is the first.
LEMMA DescribeServed == ASSUME CoreInv, ServedInv, NEW i, Describe(i) PROVE ServedInv'
<1>1. /\ client.state = "CLICONNECTED" /\ client.setups = 0
      /\ mediastate \in {"IDLE", "STREAM"}
      /\ client' = [client EXCEPT !.state = "SDPSENT"]
      /\ UNCHANGED <<videoleft, media_downloaded, file, tinfo>>
  BY DEF ServedInv, DownloadInv, SessionInv, Describe
<1>2. /\ client'.state = "SDPSENT" /\ client'.rtspfd = client.rtspfd /\ client'.setups = 0
      /\ client'.audio = client.audio /\ client'.video = client.video
  BY <1>1 DEF CoreInv, TypeOK
<1>3. /\ client.rtspfd \in Fd /\ fds[client.rtspfd].use = "rtsp"
      /\ {client.audio[1], client.audio[2]} = {NoFd}
      /\ {client.video[1], client.video[2]} = {NoFd}
  BY <1>1 DEF CoreInv, ClientFd, ServedInv, SessionInv
<1>4. CASE media_downloaded
  <2>1. mediastate' = "STREAM" /\ UNCHANGED <<fds, masterfds, mediafd, downloads>>
    BY <1>4 DEF Describe
  <2>2. mediastate = "STREAM"
    BY <1>4 DEF CoreInv, FileInv
  <2>3. DownloadInv'
    BY <1>1, <1>2, <2>1, <2>2 DEF ServedInv, DownloadInv
  <2>4. SessionInv'
    BY <1>2, <1>3, <2>1 DEF SessionInv
  <2>5. NoStraySocket'
    BY <1>2, <2>1 DEF ServedInv, NoStraySocket
  <2> QED  BY <2>3, <2>4, <2>5 DEF ServedInv
<1>5. CASE ~media_downloaded
  <2> DEFINE low == Lowest(fds)
  <2>1. /\ Room(1) /\ downloads' = downloads + 1
        /\ fds' = Opened(fds, "media", downloads')
        /\ mediafd' = low /\ masterfds' = masterfds \cup {low} /\ mediastate' = "GETSENT"
    BY <1>5 DEF Describe
  <2>2. /\ mediastate = "IDLE" /\ mediafd = NoFd /\ downloads' = 1 /\ file = <<>>
        /\ tinfo = NoFd
    BY <1>1, <1>5, <2>1 DEF ServedInv, DownloadInv
  <2>3. /\ low \in Fd /\ fds[low] = Unused
        /\ fds'[low] = [use |-> "media", conn |-> 1]
        /\ \A f \in Fd : f # low => fds'[f] = fds[f]
    <3>1. fds \in Table /\ Unopened(fds) # {}
      BY <2>1, RoomFree, Types1 DEF CoreInv
    <3> QED  BY <2>1, <2>2, <3>1, OpenedFacts DEF Uses
  <2> HIDE DEF low
  <2>4. DownloadInv'
    <3>1. \A f \in Fd : fds[f].use # "media"
      BY <2>2, FdFacts DEF ServedInv, DownloadInv
    <3>2. \A f \in Fd : fds'[f].use = "media" => f = mediafd'
      BY <2>1, <2>3, <3>1
    <3> QED  BY <1>1, <1>2, <1>5, <2>1, <2>2, <2>3, <3>2 DEF DownloadInv
  <2>5. SessionInv'
    <3>1. fds'[client'.rtspfd].use = "rtsp"
      BY <1>2, <1>3, <2>3 DEF Unused
    <3> QED  BY <1>2, <1>3, <3>1 DEF SessionInv
  <2>6. NoStraySocket'
    BY <1>2, <2>3 DEF ServedInv, NoStraySocket
  <2> QED  BY <2>4, <2>5, <2>6 DEF ServedInv
<1> QED  BY <1>4, <1>5

\* The two sockets are new, so they are nobody else's and not each other.
LEMMA SetupServed == ASSUME CoreInv, ServedInv, NEW i, Setup(i) PROVE ServedInv'
<1>1. PICK rtp, rtcp \in Fd :
        /\ rtp # rtcp /\ fds[rtp] = Unused /\ fds[rtcp] = Unused
        /\ fds' \in Table
        /\ fds'[rtp] = [use |-> "rtp", conn |-> fds[client.rtspfd].conn]
        /\ fds'[rtcp] = [use |-> "rtp", conn |-> fds[client.rtspfd].conn]
        /\ \A f \in Fd \ {rtp, rtcp} : fds'[f] = fds[f]
        /\ Stored(rtp, rtcp)
  BY SetupEffect
<1>2. /\ client.state = "SDPSENT" /\ client.rtspfd \in Fd
      /\ fds[client.rtspfd].use = "rtsp" /\ client.setups \in {0, 1}
      /\ UNCHANGED <<masterfds, media, tinfo>>
  BY DEF CoreInv, ClientFd, ServedInv, SessionInv, Setup
<1>3. /\ fds[rtp].use = "none" /\ fds[rtcp].use = "none"
      /\ client.rtspfd \notin {rtp, rtcp}
      /\ fds'[client.rtspfd] = fds[client.rtspfd]
  BY <1>1, <1>2 DEF Unused
<1>4. /\ Own(rtp)' \/ client'.rtspfd # client.rtspfd
      /\ Own(rtcp)' \/ client'.rtspfd # client.rtspfd
      /\ \A f : Own(f) => f \notin {rtp, rtcp} /\ (Own(f)' \/ client'.rtspfd # client.rtspfd)
  BY <1>1, <1>3 DEF Own
<1>5. ASSUME client'.state \notin {"NOCLIENT", "CLICONNECTED"} PROVE DownloadInv'
  <2>1. \A f \in Fd : fds[f].use = "media" => fds'[f] = fds[f]
    BY <1>1, <1>3
  <2>2. \A f \in Fd : fds'[f].use = "media" => fds[f].use = "media"
    BY <1>1
  <2>3. /\ mediastate \in {"GETSENT", "RECVTCP"} /\ mediafd \in masterfds =>
             fds'[mediafd] = [use |-> "media", conn |-> 1]
    BY <2>1 DEF CoreInv, TypeOK, ServedInv, DownloadInv
  <2> QED  BY <1>2, <1>5, <2>2, <2>3 DEF ServedInv, DownloadInv, media
<1>6. CASE client.setups = 0
  <2>1. /\ client' = [client EXCEPT !.setups = 1, !.audio = <<rtp, rtcp>>]
        /\ {client.video[1], client.video[2]} = {NoFd}
        /\ {client.audio[1], client.audio[2]} = {NoFd}
    BY <1>1, <1>6 DEF Stored, ServedInv, SessionInv
  <2>2. /\ client'.state = "SDPSENT" /\ client'.rtspfd = client.rtspfd
        /\ client'.setups = 1
        /\ client'.audio[1] = rtp /\ client'.audio[2] = rtcp /\ client'.video = client.video
    BY <1>2, <2>1 DEF CoreInv, TypeOK
  <2>3. SessionInv'
    BY <1>1, <1>2, <1>3, <1>4, <2>1, <2>2 DEF SessionInv
  <2>4. NoStraySocket'
    BY <1>1, <2>1, <2>2, FdFacts DEF ServedInv, NoStraySocket
  <2> QED  BY <1>5, <2>2, <2>3, <2>4 DEF ServedInv
<1>7. CASE client.setups = 1
  <2>1. /\ Own(client.audio[1]) /\ Own(client.audio[2])
        /\ client.audio[1] # client.audio[2]
        /\ {client.video[1], client.video[2]} = {NoFd}
    BY <1>7 DEF ServedInv, SessionInv
  <2>2. CASE Variant = "server"
    <3>1. client' = [client EXCEPT !.setups = @ + 1, !.video[1] = rtp, !.audio[2] = rtcp,
                                   !.state = "SETUPCOMPLETE"]
      BY <1>1, <1>7, <2>2 DEF Stored
    <3>2. /\ client'.state = "SETUPCOMPLETE" /\ client'.rtspfd = client.rtspfd
          /\ client'.setups = 2
          /\ client'.audio = [client.audio EXCEPT ![2] = rtcp]
          /\ client'.video = [client.video EXCEPT ![1] = rtp]
      BY <1>7, <3>1 DEF CoreInv, TypeOK
    <3>3. /\ client'.audio[1] = client.audio[1] /\ client'.audio[2] = rtcp
          /\ client'.video[1] = rtp
      BY <3>2, Types1 DEF CoreInv
    <3>4. SessionInv'
      BY <1>1, <1>2, <1>3, <1>4, <2>1, <2>2, <3>2, <3>3 DEF SessionInv
    <3>5. NoStraySocket'
      BY <2>2 DEF NoStraySocket
    <3> QED  BY <1>5, <3>2, <3>4, <3>5 DEF ServedInv
  <2>3. CASE Variant # "server"
    <3>1. client' = [client EXCEPT !.setups = @ + 1, !.video = <<rtp, rtcp>>,
                                   !.state = "SETUPCOMPLETE"]
      BY <1>1, <1>7, <2>3 DEF Stored
    <3>2. /\ client'.state = "SETUPCOMPLETE" /\ client'.rtspfd = client.rtspfd
          /\ client'.setups = 2 /\ client'.audio = client.audio
          /\ client'.video[1] = rtp /\ client'.video[2] = rtcp
      BY <1>7, <3>1 DEF CoreInv, TypeOK
    <3>3. SessionInv'
      BY <1>1, <1>2, <1>3, <1>4, <2>1, <3>2 DEF SessionInv
    <3>4. NoStraySocket'
      BY <1>1, <2>1, <3>2, FdFacts DEF ServedInv, NoStraySocket
    <3> QED  BY <1>5, <3>2, <3>3, <3>4 DEF ServedInv
  <2> QED  BY <2>2, <2>3
<1> QED  BY <1>2, <1>6, <1>7

LEMMA PlayServed == ASSUME CoreInv, ServedInv, NEW i, Play(i) PROVE ServedInv'
<1>1. UNCHANGED <<masterfds, client, media>>
  BY DEF Play
<1>2. CASE media_downloaded
  <2> DEFINE low == Lowest(fds)
  <2>1. Room(1) /\ tinfo' = low /\ fds' = Opened(fds, "ctx", 0)
    BY <1>2 DEF Play, NewThreadInfo
  <2>2. /\ fds'[low] = [use |-> "ctx", conn |-> 0]
        /\ \A f \in Fd : f # low => fds'[f] = fds[f]
        /\ \A f \in Fd : fds[f].use # "none" => f # low
    <3>1. fds \in Table /\ Unopened(fds) # {}
      BY <2>1, RoomFree, Types1 DEF CoreInv
    <3> QED  BY <2>1, <3>1, OpenedFacts DEF Uses
  <2> HIDE DEF low
  <2>3. mediastate = "STREAM"
    BY <1>2 DEF CoreInv, FileInv
  <2>4. DownloadInv'
    BY <1>1, <1>2, <2>2, <2>3 DEF ServedInv, DownloadInv, media
  <2>5. SessionInv'
    BY <1>1, <2>2, SessionKeeps DEF ServedInv
  <2>6. NoStraySocket'
    BY <1>1, <2>2, StrayKeeps DEF ServedInv
  <2> QED  BY <2>4, <2>5, <2>6 DEF ServedInv
<1>3. CASE ~media_downloaded
  BY <1>1, <1>3, ServedKeeps DEF Play
<1> QED  BY <1>2, <1>3

\* There is a context to close only when there is a whole file.
LEMMA TeardownServed == ASSUME CoreInv, ServedInv, NEW i, Teardown(i) PROVE ServedInv'
<1>1. i \in masterfds /\ EndSession(i) /\ UNCHANGED <<media, conns>>
  BY DEF Teardown, Request
<1>2. CASE tinfo \in Fd
  <2>1. /\ \A f \in Fd : fds'[f] \in {fds[f], Unused}
        /\ \A k \in {1, 2} : \A f \in {client.audio[k], client.video[k]} :
             f \in Fd => fds'[f] = Unused
        /\ tinfo' = FREED /\ client' = NewClient
    BY <1>1, <1>2, EndSessionEffect
  <2>2. media_downloaded /\ mediastate = "STREAM"
    BY <1>2, FdFacts DEF CoreInv, FileInv, ServedInv, DownloadInv
  <2>3. DownloadInv'
    BY <1>1, <2>1, <2>2 DEF ServedInv, DownloadInv, media, Unused
  <2>4. SessionInv'
    BY <2>1 DEF SessionInv, NewClient
  <2>5. NoStraySocket'
    <3>1. Variant = "mt_server" => \A f \in Fd : fds'[f].use # "rtp"
      BY <2>1 DEF ServedInv, NoStraySocket, Unused
    <3> QED  BY <3>1 DEF NoStraySocket
  <2> QED  BY <2>3, <2>4, <2>5 DEF ServedInv
<1>3. CASE tinfo \notin Fd
  BY <1>1, <1>3, ServedKeeps DEF EndSession
<1> QED  BY <1>2, <1>3

\* Nobody is left who could hang up: not even an abandoned download.
LEMMA NoHangup ==
  ASSUME CoreInv, ServedInv, "disconnect" \notin Env, NEW i, Hangup(i)
  PROVE  FALSE
<1>1. i \in Fd /\ i # mediafd /\ fds[i].use = "media"
  BY DEF Hangup, CoreInv, TypeOK
<1> QED  BY <1>1 DEF ServedInv, DownloadInv

LEMMA ServedNext ==
  ASSUME "disconnect" \notin Env, CoreInv, ServedInv, Next
  PROVE  ServedInv'
<1>1. ASSUME NEW why, Undefined(why) PROVE ServedInv'
  BY <1>1, ServedKeeps DEF Undefined
<1>2. CASE Accept \/ AcceptBusy
  BY <1>2, AcceptServed, ServedKeeps DEF AcceptBusy
<1>3. CASE AcceptAborted \/ MediaHeaderSplit
  BY <1>1, <1>3 DEF AcceptAborted, MediaHeaderSplit
<1>4. CASE Source \/ MediaShort
  BY <1>4, MediaHeaderServed, MediaBodyServed, MediaCompleteServed, MediaShortServed DEF Source
<1>5. ASSUME NEW i \in masterfds,
             \/ \E type \in Types : Ignored(i, type)
             \/ Describe(i) \/ DescribeRefused(i) \/ Setup(i)
             \/ Play(i) \/ Teardown(i) \/ Hangup(i) \/ Reset(i)
      PROVE  ServedInv'
  <2>1. CASE \E type \in Types : Ignored(i, type)
    BY <2>1, ServedKeeps DEF Ignored
  <2>2. CASE DescribeRefused(i) \/ Reset(i)
    BY <1>1, <2>2 DEF DescribeRefused, Reset
  <2>3. CASE Describe(i) \/ Setup(i) \/ Play(i)
    BY <2>3, DescribeServed, SetupServed, PlayServed
  <2>4. CASE Teardown(i) \/ Hangup(i)
    BY <2>4, TeardownServed, NoHangup
  <2> QED  BY <1>5, <2>1, <2>2, <2>3, <2>4
<1> QED  BY <1>2, <1>3, <1>4, <1>5 DEF Next

\* A client that asks in turn sends one PLAY.
LEMMA InTurn ==
  ASSUME {"disconnect", "any_request"} \cap Env = {}, CoreInv, ServedInv,
         NEW i, Request(i, "PLAY")
  PROVE  ~playing
<1>1. i \in Fd /\ i # mediafd /\ "any_request" \notin Env
  BY DEF Request, CoreInv, TypeOK
<1>2. fds[i].use # "media"
  BY <1>1 DEF ServedInv, DownloadInv
<1>3. PICK m \in MaySend(i) : parse_rtsp(m) = "PLAY"
  BY DEF Request
<1>4. m = "PLAY"
  BY <1>3 DEF parse_rtsp
<1> QED  BY <1>1, <1>2, <1>3, <1>4 DEF MaySend

\* TEARDOWN, also one that is looked at again, ends the session or the server.
LEMMA PlayedEnd ==
  ASSUME CoreInv, PlayedInv, NEW i, EndSession(i), media_downloaded' = media_downloaded,
         mode = "run"
  PROVE  PlayedInv'
<1>1. CASE tinfo \in Fd
  <2>1. ~playing' /\ mode' = "run"
    BY <1>1 DEF EndSession
  <2> QED  BY <2>1 DEF PlayedInv, TeardownHasFiller
<1>2. CASE tinfo \notin Fd
  <2>1. UNCHANGED <<tinfo, playing>> /\ ~(playing /\ media_downloaded)
    BY <1>2 DEF EndSession, PlayedInv
  <2> QED  BY <2>1 DEF PlayedInv, TeardownHasFiller
<1> QED  BY <1>1, <1>2

\* PLAY and the end of the download each leave a ThreadInfo; only TEARDOWN takes
\* it away.
LEMMA PlayedNext ==
  ASSUME CoreInv, PlayedInv, Next
  PROVE  PlayedInv'
<1> USE DEF PlayedInv, TeardownHasFiller
<1>1. CASE \/ Accept \/ AcceptBusy \/ MediaHeader \/ MediaBody \/ MediaShort
           \/ \E i \in masterfds : \/ \E type \in Types : Ignored(i, type)
                                   \/ Describe(i) \/ Setup(i)
  BY <1>1 DEF Accept, AcceptBusy, MediaHeader, MediaBody, MediaShort, Ignored,
              Describe, Setup, media
<1>2. CASE \/ AcceptAborted \/ MediaHeaderSplit
           \/ \E i \in masterfds : DescribeRefused(i) \/ Reset(i)
  BY <1>2 DEF AcceptAborted, MediaHeaderSplit, DescribeRefused, Reset, Undefined,
              media
<1>3. CASE MediaComplete
  <2>1. tinfo' \in Fd /\ mode' = "run"
    BY <1>3, MediaCompleteEffect DEF MediaComplete, MediaReady
  <2> QED  BY <2>1
<1>4. ASSUME NEW i \in masterfds, Play(i) PROVE PlayedInv'
  <2>1. media_downloaded' = media_downloaded /\ mode' = "run"
    BY <1>4 DEF Play, Request, media
  <2>2. media_downloaded => tinfo' \in Fd
    <3> SUFFICES ASSUME media_downloaded PROVE tinfo' \in Fd
      OBVIOUS
    <3>1. Room(1) /\ tinfo' = Lowest(fds)
      BY <1>4 DEF Play, NewThreadInfo
    <3>2. Unopened(fds) # {} /\ Unopened(fds) \subseteq Fd
      BY <3>1, RoomFree DEF Unopened
    <3> QED  BY <3>1, <3>2, LowestFree
  <2> QED  BY <2>1, <2>2
<1>5. ASSUME NEW i \in masterfds, Teardown(i) PROVE PlayedInv'
  BY <1>5, PlayedEnd DEF Teardown, Request, media
<1>6. ASSUME NEW i \in masterfds, Hangup(i) PROVE PlayedInv'
  <2>1. mode = "run" /\ media_downloaded' = media_downloaded
    BY <1>6 DEF Hangup, media
  <2>2. CASE EndSession(i)
    BY <2>1, <2>2, PlayedEnd
  <2>3. CASE ~EndSession(i)
    <3>1. \/ ~playing' /\ mode' = "run"
          \/ mode' = "no_request" /\ UNCHANGED <<tinfo, playing>>
      BY <1>6, <2>1, <2>3 DEF Hangup
    <3> QED  BY <2>1, <3>1
  <2> QED  BY <2>2, <2>3
<1> QED  BY <1>1, <1>2, <1>3, <1>4, <1>5, <1>6 DEF Next, Source

LEMMA ContextNext ==
  ASSUME {"disconnect", "any_request", "fast_download"} \cap Env = {},
         CoreInv, ServedInv, ContextInv, Next
  PROVE  ContextInv'
<1>1. "disconnect" \notin Env /\ fds \in Table
  BY Types1 DEF CoreInv
<1>2. CASE UNCHANGED <<fds, tinfo, media_downloaded, playing>>
  BY <1>2 DEF ContextInv
<1>3. ASSUME NEW use \in {"rtsp", "media"}, NEW conn \in Nat, Room(1),
             fds' = Opened(fds, use, conn), UNCHANGED <<tinfo, media_downloaded, playing>>
      PROVE  ContextInv'
  <2>1. /\ fds'[Lowest(fds)] = [use |-> use, conn |-> conn]
        /\ \A f \in Fd : f # Lowest(fds) => fds'[f] = fds[f]
    BY <1>1, <1>3, RoomFree, OpenedFacts DEF Uses
  <2> QED  BY <1>3, <2>1 DEF ContextInv
<1>4. CASE Accept
  <2>1. conns' \in Nat
    BY <1>4, RtspAssumption DEF Accept, Connect, CoreInv, TypeOK
  <2> QED  BY <1>3, <1>4, <2>1 DEF Accept, Connect, media
<1>5. CASE MediaComplete
  <2>1. /\ playing /\ playing' = playing
        /\ \A f \in Fd : f # tinfo' => fds'[f] \in {fds[f], Unused}
    BY <1>5, MediaCompleteEffect DEF MediaComplete
  <2>2. tinfo \notin Fd
    BY <1>5, FdFacts DEF CoreInv, FileInv, ServedInv, DownloadInv, MediaComplete, MediaReady
  <2> QED  BY <2>1, <2>2 DEF ContextInv, Unused
<1>6. CASE MediaShort
  <2>1. \A f \in Fd : fds'[f] \in {fds[f], Unused}
    BY <1>1, <1>6, ClosedFacts DEF MediaShort
  <2> QED  BY <1>6, <2>1 DEF ContextInv, Unused, MediaShort, media
<1>7. ASSUME NEW i \in masterfds, Describe(i) PROVE ContextInv'
  <2>1. CASE media_downloaded
    BY <1>2, <1>7, <2>1 DEF Describe
  <2>2. CASE ~media_downloaded
    <3>1. downloads' \in Nat
      BY <1>7, <2>2 DEF Describe, CoreInv, TypeOK
    <3> QED  BY <1>3, <1>7, <2>2, <3>1 DEF Describe
  <2> QED  BY <2>1, <2>2
<1>8. ASSUME NEW i \in masterfds, Setup(i) PROVE ContextInv'
  <2>1. \A f \in Fd : fds'[f].use = "ctx" => fds[f].use = "ctx"
    BY <1>8, SetupEffect
  <2> QED  BY <1>8, <2>1 DEF ContextInv, Setup, media
<1>9. ASSUME NEW i \in masterfds, Play(i) PROVE ContextInv'
  <2>1. CASE media_downloaded
    <3>1. /\ Room(1) /\ tinfo' = Lowest(fds) /\ fds' = Opened(fds, "ctx", 0)
          /\ playing' = TRUE
      BY <1>9, <2>1 DEF Play, NewThreadInfo
    <3>2. /\ fds'[Lowest(fds)] = [use |-> "ctx", conn |-> 0]
          /\ \A f \in Fd : f # Lowest(fds) => fds'[f] = fds[f]
      BY <1>1, <3>1, RoomFree, OpenedFacts DEF Uses
    <3>3. ~playing
      BY <1>9, InTurn DEF Play
    <3> QED  BY <2>1, <3>1, <3>2, <3>3 DEF ContextInv
  <2>2. CASE ~media_downloaded
    BY <1>9, <2>2 DEF ContextInv, Play, media
  <2> QED  BY <2>1, <2>2
<1>10. ASSUME NEW i \in masterfds, Teardown(i) PROVE ContextInv'
  <2>1. EndSession(i) /\ media_downloaded' = media_downloaded
    BY <1>10 DEF Teardown, media
  <2>2. CASE tinfo \in Fd
    <3>1. /\ \A f \in Fd : fds'[f] \in {fds[f], Unused}
          /\ fds'[tinfo] = Unused /\ tinfo' = FREED
      BY <2>1, <2>2, EndSessionEffect
    <3> QED  BY <3>1, FdFacts DEF ContextInv, Unused
  <2>3. CASE tinfo \notin Fd
    BY <1>2, <2>1, <2>3 DEF EndSession
  <2> QED  BY <2>2, <2>3
<1>11. \A i \in masterfds : ~Hangup(i)
  BY <1>1, NoHangup
<1>12. CASE \/ AcceptBusy \/ AcceptAborted \/ MediaHeader \/ MediaHeaderSplit \/ MediaBody
            \/ \E i \in masterfds : \/ \E type \in Types : Ignored(i, type)
                                    \/ DescribeRefused(i) \/ Reset(i)
  BY <1>2, <1>12 DEF AcceptBusy, AcceptAborted, MediaHeader, MediaHeaderSplit, MediaBody,
                     Ignored, DescribeRefused, Reset, Undefined, media
<1> QED  BY <1>4, <1>5, <1>6, <1>7, <1>8, <1>9, <1>10, <1>11, <1>12 DEF Next, Source

-----------------------------------------------------------------------------
LEMMA ServedInductive ==
  ASSUME "disconnect" \notin Env
  PROVE  Spec => [](CoreInv /\ ServedInv)
<1>1. Init => CoreInv /\ ServedInv
  BY InitInv, ServedInit DEF ServerInv
<1>2. CoreInv /\ ServedInv /\ [Next]_vars => (CoreInv /\ ServedInv)'
  BY NextKept, StutterKept, ServedNext, ServedKeeps DEF Kept, vars
<1> QED  BY <1>1, <1>2, PTL DEF Spec

LEMMA PlayedInductive == Spec => [](CoreInv /\ PlayedInv)
<1>1. Init => CoreInv /\ PlayedInv
  BY InitInv, ServedInit DEF ServerInv
<1>2. CoreInv /\ PlayedInv /\ [Next]_vars => (CoreInv /\ PlayedInv)'
  BY NextKept, StutterKept, PlayedNext DEF Kept, PlayedInv, TeardownHasFiller, vars, media
<1> QED  BY <1>1, <1>2, PTL DEF Spec

LEMMA ContextInductive ==
  ASSUME {"disconnect", "any_request", "fast_download"} \cap Env = {}
  PROVE  Spec => [](CoreInv /\ ServedInv /\ ContextInv)
<1>1. Init => ContextInv
  BY ServedInit
<1>2. CoreInv /\ ServedInv /\ ContextInv /\ [Next]_vars => ContextInv'
  BY ContextNext DEF ContextInv, vars, media
<1>3. Spec => [](CoreInv /\ ServedInv)
  BY ServedInductive
<1> QED  BY <1>1, <1>2, <1>3, PTL DEF Spec

\* What the invariants say of the properties, in RtspServer and in MtServer.
LEMMA ServedFile == ASSUME CoreInv, ServedInv PROVE FileWhole
<1> SUFFICES ASSUME media_downloaded
             PROVE  \E d \in 1 .. downloads : file = [n \in 1 .. Chunks |-> d]
  BY DEF FileWhole
<1>1. downloads = 1 /\ file = [n \in 1 .. Chunks |-> 1]
  BY DEF CoreInv, FileInv, ServedInv, DownloadInv
<1> QED  BY <1>1

\* What is streamed is one download, whole, whatever else happens, as long as
\* nobody hangs up: a second DESCRIBE would append to the file of the first.
THEOREM FileIsWhole == "disconnect" \notin Env => (Spec => []FileWhole)
<1> SUFFICES ASSUME "disconnect" \notin Env PROVE Spec => []FileWhole
  OBVIOUS
<1>1. CoreInv /\ ServedInv => FileWhole
  BY ServedFile
<1> QED  BY <1>1, ServedInductive, PTL

LEMMA ThreeDistinct ==
  ASSUME NEW a, NEW b, NEW c, a # b, c \notin {a, b}
  PROVE  Cardinality({a, b, c}) = 3
<1>1. IsFiniteSet({a}) /\ Cardinality({a}) = 1
  BY FS_Singleton
<1>2. IsFiniteSet({a} \cup {b}) /\ Cardinality({a} \cup {b}) = 2
  BY <1>1, FS_AddElement
<1>3. {a, b} = {a} \cup {b} /\ {a, b, c} = {a, b} \cup {c}
  OBVIOUS
<1>4. Cardinality({a, b} \cup {c}) = 3
  BY <1>2, <1>3, FS_AddElement
<1> QED  BY <1>3, <1>4

LEMMA FourDistinct ==
  ASSUME NEW a, NEW b, NEW c, NEW d, a # b, c \notin {a, b}, d \notin {a, b, c}
  PROVE  Cardinality({a, b, c, d}) = 4
<1>1. /\ {a, b} = {a} \cup {b} /\ {a, b, c} = {a, b} \cup {c}
      /\ {a, b, c, d} = {a, b, c} \cup {d}
  OBVIOUS
<1>2. IsFiniteSet({a} \cup {b})
  BY FS_Singleton, FS_AddElement
<1>3. IsFiniteSet({a, b} \cup {c})
  BY <1>1, <1>2, FS_AddElement
<1>4. Cardinality({a, b, c}) = 3 /\ IsFiniteSet({a, b, c})
  BY <1>1, <1>3, ThreeDistinct
<1>5. Cardinality({a, b, c} \cup {d}) = 4
  BY <1>4, FS_AddElement
<1> QED  BY <1>1, <1>5

LEMMA ServedSockets == ASSUME CoreInv, ServedInv PROVE SessionSockets
<1> SUFFICES ASSUME client.state = "SETUPCOMPLETE" PROVE SessionSockets
  BY DEF SessionSockets
<1> DEFINE a1 == client.audio[1]   a2 == client.audio[2]
           v1 == client.video[1]   v2 == client.video[2]
<1>1. /\ Own(a1) /\ Own(a2) /\ Own(v1) /\ a1 # a2 /\ v1 \notin {a1, a2}
      /\ Variant # "server" => Own(v2) /\ v2 \notin {a1, a2, v1}
  BY RtspAssumption DEF ServedInv, SessionInv
<1> HIDE DEF a1, a2, v1, v2
<1>2. Cardinality({a1, a2, v1}) = 3
  BY <1>1, ThreeDistinct
<1>3. Variant # "server" => Cardinality({a1, a2, v1, v2}) = 4
  BY <1>1, FourDistinct
<1>4. \A f : Own(f) => f \in Fd /\ fds[f] = [use |-> "rtp", conn |-> fds[client.rtspfd].conn]
  BY DEF Own
<1>5. CASE Variant = "server"
  <2>1. \A f \in {a1, a2, v1} : Own(f)
    BY <1>1
  <2> QED  BY <1>2, <1>4, <1>5, <2>1 DEF SessionSockets, a1, a2, v1
<1>6. CASE Variant # "server"
  <2>1. \A f \in {a1, a2, v1, v2} : Own(f)
    BY <1>1, <1>6
  <2> QED  BY <1>1, <1>3, <1>4, <1>6, <2>1 DEF SessionSockets, a1, a2, v1, v2
<1> QED  BY <1>5, <1>6

\* A client that has been set up has its own sockets, four or three of them,
\* open and to its own host, unless one before it hung up in between.
THEOREM SessionHasSockets == "disconnect" \notin Env => (Spec => []SessionSockets)
<1> SUFFICES ASSUME "disconnect" \notin Env PROVE Spec => []SessionSockets
  OBVIOUS
<1>1. CoreInv /\ ServedInv => SessionSockets
  BY ServedSockets
<1> QED  BY <1>1, ServedInductive, PTL

\* The TEARDOWN of a client that plays a downloaded file finds a thread to cancel
\* and a context to close, whatever clients, the source and the network do.
THEOREM TeardownFindsFiller == Spec => []TeardownHasFiller
<1>1. PlayedInv => TeardownHasFiller
  BY DEF PlayedInv
<1> QED  BY <1>1, PlayedInductive, PTL

LEMMA ContextClosed ==
  ASSUME Variant = "mt_server", ServedInv, ContextInv
  PROVE  SocketsClosed
<1> SUFFICES ASSUME client.state = "NOCLIENT" PROVE SocketsClosed
  BY DEF SocketsClosed
<1>1. client = NewClient
  BY DEF ServedInv, SessionInv
<1>2. \A f \in Fd : fds[f].use # "rtp"
  BY <1>1, FdFacts DEF ServedInv, NoStraySocket, NewClient
<1>3. \A f \in Fd : fds[f].use = "ctx" => tinfo \in Fd
  BY DEF ContextInv
<1> QED  BY <1>2, <1>3 DEF SocketsClosed, Open

\* Nothing is left of a session of mt_server.c, if the file does not arrive
\* before PLAY either: the context of MediaComplete would be lost then.
THEOREM SocketsAreClosed ==
  /\ Variant = "mt_server"
  /\ {"disconnect", "any_request", "fast_download"} \cap Env = {}
  => (Spec => []SocketsClosed)
<1> SUFFICES ASSUME Variant = "mt_server",
                    {"disconnect", "any_request", "fast_download"} \cap Env = {}
             PROVE  Spec => []SocketsClosed
  OBVIOUS
<1>1. CoreInv /\ ServedInv /\ ContextInv => SocketsClosed
  BY ContextClosed
<1> QED  BY <1>1, ContextInductive, PTL

-----------------------------------------------------------------------------
(***************************************************************************)
(* The movie theatre: SIP messages between the steps of the RTSP side.     *)
(***************************************************************************)

\* SipServer with its proofs, its sockets being the descriptors of use "sip".
SipP == INSTANCE SipServerProofs
          WITH Sockets <- Fd, open <- {f \in Fd : fds[f].use = "sip"}

\* Opening and closing sockets of SIP clients touches nothing else.
LEMMA SipDescriptorsEffect ==
  ASSUME CoreInv, NEW type, SipDescriptors(type)
  PROVE  /\ fds' \in Table
         /\ \A f \in Fd : fds[f].use \notin {"none", "sip"} => fds'[f] = fds[f]
         /\ \A f \in Fd : fds'[f].use \notin {"none", "sip"} => fds'[f] = fds[f]
<1>1. fds \in Table
  BY Types1 DEF CoreInv
<1>2. CASE UNCHANGED fds
  BY <1>1, <1>2
<1>3. CASE Room(1) /\ fds' = Opened(fds, "sip", 0)
  <2>1. Unopened(fds) # {}
    BY <1>3, RoomFree
  <2>2. /\ fds' \in Table
        /\ fds'[Lowest(fds)] = [use |-> "sip", conn |-> 0]
        /\ \A f \in Fd : f # Lowest(fds) => fds'[f] = fds[f]
        /\ \A f \in Fd : fds[f].use # "none" => f # Lowest(fds)
    BY <1>1, <1>3, <2>1, OpenedFacts DEF Uses
  <2> QED  BY <2>2
<1>4. CASE \E f \in Open("sip") : fds' = Closed(fds, {f})
  <2>1. PICK g \in Open("sip") : fds' = Closed(fds, {g})
    BY <1>4
  <2>2. /\ fds' \in Table
        /\ \A f \in Fd : fds'[f] = IF f \in {g} THEN Unused ELSE fds[f]
    BY <1>1, <2>1, ClosedFacts
  <2> QED  BY <2>1, <2>2 DEF Open, Unused
<1> QED  BY <1>2, <1>3, <1>4 DEF SipDescriptors

\* A SIP message leaves the RTSP side as it is.
LEMMA SipMessageKeeps ==
  ASSUME CoreInv, NEW m, SipMessage(m)
  PROVE  /\ CoreInv'
         /\ ServedInv => ServedInv'
         /\ PlayedInv => PlayedInv'
         /\ ContextInv => ContextInv'
<1>1. /\ fds' \in Table
      /\ \A f \in Fd : fds[f].use \notin {"none", "sip"} => fds'[f] = fds[f]
      /\ \A f \in Fd : fds'[f].use \notin {"none", "sip"} => fds'[f] = fds[f]
  BY SipDescriptorsEffect DEF SipMessage
<1>2. /\ UNCHANGED <<masterfds, client, rtspmsg, tinfo, playing, conns, mode>>
      /\ UNCHANGED <<mediafd, mediastate, videoleft, media_downloaded, file, downloads>>
  BY DEF SipMessage, media
<1>3. CoreInv'
  <2>1. TypeOK' /\ ClientFd'
    <3>1. TypeOK'
      BY <1>1, <1>2, SMTT(60) DEF CoreInv, TypeOK, Table, Uses
    <3> QED  BY <1>2, <3>1 DEF CoreInv, ClientFd
  <2>2. MasterOpen'
    BY <1>1, <1>2 DEF CoreInv, TypeOK, MasterOpen
  <2>3. RememberedOpen'
    BY <1>1, <1>2, Types1 DEF CoreInv, RememberedOpen
  <2>4. FileInv'
    BY <1>1, <1>2, FdFacts DEF CoreInv, FileInv
  <2> QED  BY <2>1, <2>2, <2>3, <2>4 DEF CoreInv
<1>4. ASSUME ServedInv PROVE ServedInv'
  <2>1. \A f \in Fd : fds'[f].use = "media" => f = mediafd
    BY <1>1, <1>4 DEF ServedInv, DownloadInv
  <2>2. mediafd \in masterfds => fds'[mediafd] = fds[mediafd]
    BY <1>1 DEF CoreInv, TypeOK, MasterOpen
  <2>3. DownloadInv'
    BY <1>2, <1>4, <2>1, <2>2 DEF ServedInv, DownloadInv
  <2>4. SessionInv'
    BY <1>1, <1>2, <1>4, SessionKeeps DEF ServedInv
  <2>5. NoStraySocket'
    BY <1>1, <1>2, <1>4, StrayKeeps DEF ServedInv
  <2> QED  BY <2>3, <2>4, <2>5 DEF ServedInv
<1>5. PlayedInv => PlayedInv'
  BY <1>2 DEF PlayedInv, TeardownHasFiller
<1>6. ContextInv => ContextInv'
  BY <1>1, <1>2 DEF ContextInv
<1> QED  BY <1>3, <1>4, <1>5, <1>6

\* A step of the theatre is one of the RTSP side, a SIP message, or leaves the
\* RTSP side alone.
LEMMA MtSteps ==
  ASSUME [MtNext]_mtvars
  PROVE  \/ Next
         \/ \E m : SipMessage(m)
         \/ UNCHANGED vars
BY DEF MtNext, mtvars, Session, MediaFinished, Caller, CallerStarts

LEMMA MtCore == MtSpec => []CoreInv
<1>1. MtInit => CoreInv
  BY InitInv DEF MtInit, ServerInv
<1>2. CoreInv /\ [MtNext]_mtvars => CoreInv'
  BY MtSteps, NextKept, StutterKept, SipMessageKeeps DEF Kept
<1> QED  BY <1>1, <1>2, PTL DEF MtSpec

LEMMA MtServed ==
  ASSUME "disconnect" \notin Env
  PROVE  MtSpec => [](CoreInv /\ ServedInv)
<1>1. MtInit => ServedInv
  BY ServedInit DEF MtInit
<1>2. CoreInv /\ ServedInv /\ [MtNext]_mtvars => ServedInv'
  BY MtSteps, ServedNext, ServedKeeps, SipMessageKeeps DEF vars
<1> QED  BY <1>1, <1>2, MtCore, PTL DEF MtSpec

LEMMA MtPlayed == MtSpec => []PlayedInv
<1>1. MtInit => PlayedInv
  BY ServedInit DEF MtInit
<1>2. CoreInv /\ PlayedInv /\ [MtNext]_mtvars => PlayedInv'
  <2>1. UNCHANGED vars => UNCHANGED <<playing, media_downloaded, tinfo, mode>>
    BY DEF vars, media
  <2> QED  BY <2>1, MtSteps, PlayedNext, SipMessageKeeps DEF PlayedInv, TeardownHasFiller
<1> QED  BY <1>1, <1>2, MtCore, PTL DEF MtSpec

LEMMA MtContext ==
  ASSUME {"disconnect", "any_request", "fast_download"} \cap Env = {}
  PROVE  MtSpec => []ContextInv
<1>1. MtInit => ContextInv
  BY ServedInit DEF MtInit
<1>2. CoreInv /\ ServedInv /\ ContextInv /\ [MtNext]_mtvars => ContextInv'
  <2>1. UNCHANGED vars => UNCHANGED <<fds, playing, media_downloaded, tinfo>>
    BY DEF vars, media
  <2> QED  BY <2>1, MtSteps, ContextNext, SipMessageKeeps DEF ContextInv
<1>3. MtSpec => [](CoreInv /\ ServedInv)
  BY MtServed
<1> QED  BY <1>1, <1>2, <1>3, PTL DEF MtSpec

\* The handlers of RTSP neither close a socket of a SIP client nor open one.
LEMMA SessionKeepsSip ==
  ASSUME CoreInv, Session(Next) \/ UNCHANGED mtvars
  PROVE  UNCHANGED SipP!vars
<1>1. UNCHANGED sipvars
  BY DEF Session, mtvars
<1>2. Open("sip")' = Open("sip")
  BY NextKept, StutterKept DEF Kept, Session, mtvars
<1> QED  BY <1>1, <1>2 DEF SipP!vars, sipvars, Open

-----------------------------------------------------------------------------
\* In the theatre too select() is given open descriptors only, and TEARDOWN
\* closes nothing but what belongs to the session and finds the filler of a
\* client that plays a downloaded file, whatever RTSP and SIP clients do.
THEOREM TheatreDescriptors ==
  MtSpec => [](TypeOK /\ MasterOpen /\ RememberedOpen /\ TeardownHasFiller)
<1>1. CoreInv /\ PlayedInv => TypeOK /\ MasterOpen /\ RememberedOpen /\ TeardownHasFiller
  BY DEF CoreInv, PlayedInv
<1> QED  BY <1>1, MtCore, MtPlayed, PTL

\* What the theatre promises of its RTSP sessions when clients are served in the
\* order the loop expects: the same as without callers.
THEOREM TheatreSessions ==
  /\ Variant = "mt_server"
  /\ {"disconnect", "any_request", "fast_download"} \cap Env = {}
  => (MtSpec => [](SessionSockets /\ SocketsClosed /\ FileWhole))
<1> SUFFICES ASSUME Variant = "mt_server",
                    {"disconnect", "any_request", "fast_download"} \cap Env = {}
             PROVE  MtSpec => [](SessionSockets /\ SocketsClosed /\ FileWhole)
  OBVIOUS
<1>1. CoreInv /\ ServedInv /\ ContextInv => SessionSockets /\ SocketsClosed /\ FileWhole
  BY ServedFile, ServedSockets, ContextClosed
<1>2. MtSpec => [](CoreInv /\ ServedInv)
  BY MtServed
<1>3. MtSpec => []ContextInv
  BY MtContext
<1> QED  BY <1>1, <1>2, <1>3, PTL

\* The handlers of MtServer's instance of SipServer are those of the instance
\* with the proofs.
LEMMA SameReceive == \A m : Sip!Receive(m) <=> SipP!Receive(m)
BY Zenon DEF
  Sip!Receive, Sip!Taken, Sip!Invite, Sip!InviteRejected, Sip!Ack, Sip!Bye, Sip!SipOk,
  Sip!RemoveClient, Sip!First, Sip!SlotsOf, Sip!Occupied, Sip!Slots, Sip!server, Sip!Ok,
  Sip!Msg, Sip!parsesipmsg,
  SipP!Receive, SipP!Taken, SipP!Invite, SipP!InviteRejected, SipP!Ack, SipP!Bye, SipP!SipOk,
  SipP!RemoveClient, SipP!First, SipP!SlotsOf, SipP!Occupied, SipP!Slots, SipP!server,
  SipP!Ok, SipP!Msg, SipP!parsesipmsg

LEMMA SameEndOfStream == Sip!EndOfStream <=> SipP!EndOfStream
BY Zenon DEF
  Sip!EndOfStream, Sip!Occupied, Sip!Acked, Sip!Slots, Sip!Msg, Sip!server,
  SipP!EndOfStream, SipP!Occupied, SipP!Acked, SipP!Slots, SipP!Msg, SipP!server

LEMMA SameCaller ==
  ASSUME NEW c
  PROVE  /\ Sip!ClientStep(c) <=> SipP!ClientStep(c)
         /\ Sip!Call(c) \/ Sip!HangUp(c) <=> SipP!Call(c) \/ SipP!HangUp(c)
<1>1. Sip!server = SipP!server
  BY DEF Sip!server, SipP!server
<1>2. \A m : Sip!Send(m) <=> SipP!Send(m)
  BY Zenon DEF Sip!Send, SipP!Send, Sip!Cardinality, SipP!Cardinality
<1>3. \A type, k : Sip!Msg(type, k) = SipP!Msg(type, k) /\ Sip!Ok(type, k) = SipP!Ok(type, k)
  BY Zenon DEF Sip!Msg, SipP!Msg, Sip!Ok, SipP!Ok
<1>4. Sip!Answered(c) <=> SipP!Answered(c)
  BY <1>2, <1>3 DEF Sip!Answered, SipP!Answered, Sip!server, SipP!server
<1>5. Sip!HungUp(c) <=> SipP!HungUp(c)
  BY <1>2, <1>3 DEF Sip!HungUp, SipP!HungUp, Sip!server, SipP!server
<1>6. Sip!Dismissed(c) <=> SipP!Dismissed(c)
  BY <1>2, <1>3 DEF Sip!Dismissed, SipP!Dismissed, Sip!server, SipP!server
<1>7. Sip!Call(c) <=> SipP!Call(c)
  BY <1>2, <1>3 DEF Sip!Call, SipP!Call, Sip!server, SipP!server
<1>8. Sip!HangUp(c) <=> SipP!HangUp(c)
  BY <1>2, <1>3 DEF Sip!HangUp, SipP!HangUp, Sip!server, SipP!server
<1> QED  BY <1>4, <1>5, <1>6, <1>7, <1>8 DEF Sip!ClientStep, SipP!ClientStep

\* Every step of the theatre is one of SipServer, or none.
LEMMA SipStep ==
  ASSUME CoreInv, [MtNext]_mtvars
  PROVE  [SipP!Next]_(SipP!vars)
<1>1. CASE Session(Next) \/ UNCHANGED mtvars
  BY <1>1, SessionKeepsSip
<1>2. ASSUME NEW m \in toserver, SipMessage(m) PROVE SipP!Next
  BY <1>2, SameReceive DEF SipMessage, SipP!Next
<1>3. CASE MediaFinished
  BY <1>3, SameEndOfStream DEF MediaFinished, SipP!Next
<1>4. ASSUME NEW c \in Calls, Caller(c) \/ CallerStarts(c) PROVE SipP!Next
  BY <1>4, SameCaller DEF Caller, CallerStarts, SipP!Next
<1> QED  BY <1>1, <1>2, <1>3, <1>4 DEF MtNext

LEMMA SipStarts == MtInit => SipP!Init
<1>1. Sip!Init => SipP!Init
  BY Zenon DEF Sip!Init, SipP!Init, Sip!Slots, SipP!Slots
<1> QED  BY <1>1 DEF MtInit

LEMMA ImplementsSipP == MtSpec => SipP!Spec
BY MtCore, SipStarts, SipStep, PTL DEF MtSpec, SipP!Spec

\* The same for MtServer's instance.
LEMMA SipInstance ==
  /\ SipP!Init => Sip!Init
  /\ SipP!Next => Sip!Next
  /\ Sip!vars = SipP!vars
<1>1. SipP!Init => Sip!Init
  BY Zenon DEF Sip!Init, SipP!Init, Sip!Slots, SipP!Slots
<1>2. Sip!vars = SipP!vars
  BY DEF Sip!vars, SipP!vars
<1>3. SipP!Unknown => Sip!Unknown
  BY Zenon DEF Sip!Unknown, SipP!Unknown, Sip!Send, SipP!Send, Sip!Msg, SipP!Msg,
               Sip!server, SipP!server, Sip!Cardinality, SipP!Cardinality
<1>4. SipP!Lose => Sip!Lose
  BY Zenon DEF Sip!Lose, SipP!Lose, Sip!server, SipP!server
<1>5. SipP!Next => Sip!Next
  BY <1>3, <1>4, SameReceive, SameEndOfStream, SameCaller DEF Sip!Next, SipP!Next
<1> QED  BY <1>1, <1>2, <1>5

\* The theatre implements SipServer: with the RTSP side in the same loop and on
\* the same table of descriptors, the SIP side does what it does alone.
THEOREM TheatreImplementsSip == MtSpec => ImplementsSipServer
<1>1. SipP!Init => Sip!Init
  BY SipInstance
<1>2. [SipP!Next]_(SipP!vars) => [Sip!Next]_(Sip!vars)
  BY SipInstance DEF Sip!vars, SipP!vars
<1>3. SipP!Spec => Sip!Spec
  BY <1>1, <1>2, PTL DEF SipP!Spec, Sip!Spec
<1> QED  BY <1>3, ImplementsSipP, PTL DEF ImplementsSipServer

\* The sockets of the SIP clients are those in their table, whatever the RTSP
\* side opens and closes between two SIP messages.
THEOREM TheatreSockets == MtSpec => []SipSocketsOwned
<1>1. SipP!SipAssumption /\ SipP!NullAssumption
  BY MtAssumption DEF SipP!SipAssumption, SipP!NullAssumption, SipP!SIPClient,
                      SipP!IsFiniteSet, IsFiniteSet
<1>2. SipP!Spec => []SipP!SocketsOwned
  BY <1>1, SipP!SocketOwnership
<1>3. SipP!SocketsOwned => SipSocketsOwned
  BY Zenon DEF SipSocketsOwned, Sip!SocketsOwned, SipP!SocketsOwned, Sip!Occupied,
               SipP!Occupied, Sip!Slots, SipP!Slots
<1> QED  BY <1>2, <1>3, ImplementsSipP, PTL
=============================================================================
