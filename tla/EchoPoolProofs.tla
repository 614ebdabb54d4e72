---------------------------- MODULE EchoPoolProofs ----------------------------
(***************************************************************************)
(* Proofs about EchoPool: for any number of sockets, any sizes of the      *)
(* buffers, any number of connections and bytes, with the routing check or *)
(* without, and however pool, check, clients and chip interleave.          *)
(***************************************************************************)
EXTENDS EchoPool, StreamLemmas

-------------------------------------------------------------------------------
(* The inductive invariant: types. *)

ChipOK ==
  /\ chip \in [Socks -> SockOf(Bytes)]
  /\ \A s \in Socks : Len(chip[s].rx) <= RXMAX /\ Len(chip[s].tx) <= TXMAX

\* The shared buffer is in use exactly while the pool sends, which it stops doing when
\* nothing is left.
PoolOK ==
  /\ pc \in Pcs /\ sn \in Socks /\ sr \in Status
  /\ buf \in Seq(Bytes) /\ Len(buf) <= BUFSIZE /\ sent \in Nat
  /\ pc \in SendPcs => sent < Len(buf)
  /\ pc \notin SendPcs => buf = <<>> /\ sent = 0

MainOK ==
  /\ port \in [Socks -> 0 .. UINT16_MAX] /\ s_used_mask \subseteq Socks
  /\ main \in {"off", "scan", "open", "cl_sr", "cl_close", "done"} /\ fd \in 0 .. N
  /\ main \in {"open", "cl_sr", "cl_close"} => fd \in Socks

\* An established connection is one the socket's client made.
PeerOK ==
  /\ conn \in [Socks -> 0 .. MAXCONNS] /\ out \in [Socks -> 0 .. MAXBYTES]
  /\ got \in [Socks -> Seq(Bytes)]
  /\ \A s \in Socks : chip[s].sr = "ESTABLISHED" => conn[s] >= 1

\* A socket that was opened holds nothing until a client connects.
FreshOK ==
  \A s \in Socks : chip[s].sr \in {"INIT", "LISTEN"} =>
    chip[s].rx = <<>> /\ chip[s].tx = <<>> /\ ~chip[s].sending

TInv == ChipOK /\ PoolOK /\ MainOK /\ PeerOK /\ FreshOK

(* Where the pool is, and what the socket it is at can be doing. *)

\* A socket that listens is not the one the pool serves, and it is one that the pool's
\* first loop is through with.
ListenOK ==
  \A s \in Socks : chip[s].sr = "LISTEN" =>
    /\ s = sn => pc = "poll"
    /\ pc \in {"open0", "listen0"} => s < sn

\* The ports that socket() makes of the pool's request.
PoolPorts(s) == IF sock_port(s) = 0 THEN ANYPORTS ELSE {sock_port(s)}

\* A socket was opened as the pool requests, unless it is the check's.
PortOK ==
  \A s \in Socks : chip[s].sr \in {"INIT", "LISTEN"} =>
    port[s] \in PoolPorts(s) \/ (s = fd /\ main \in {"cl_sr", "cl_close"})

\* Between the pool's look at the received size and its read, bytes only arrive.
UnreadOK ==
  pc \in {"recv_sr", "recv_rsr", "recv_data"} /\ Connected(chip[sn]) => chip[sn].rx # <<>>

\* Once the pool has seen a socket half-closed, nothing arrives there any more.
HalfOK ==
  /\ pc = "avail" /\ sr = "CLOSE_WAIT" => chip[sn].sr # "ESTABLISHED"
  /\ pc = "cl_sr" => /\ chip[sn].sr # "ESTABLISHED"
                     /\ chip[sn].sr = "CLOSE_WAIT" => chip[sn].rx = <<>>

SInv == ListenOK /\ PortOK /\ UnreadOK /\ HalfOK

(* The bytes of the connections. *)

ConservedAt(s) ==
  Connected(chip[s]) =>
    Stream(got[s], chip[s].tx, InHand(s), chip[s].rx) = Numbered(s, conn[s], out[s])

\* What a client has got and what is on its way to it, also when its connection is no
\* longer up, is the beginning of what it sent.
PrefixAt(s) == Begins(s, conn[s], out[s], got[s] \o chip[s].tx)

FInv == \A s \in Socks : ConservedAt(s) /\ PrefixAt(s)

(* The outcome of a SEND. *)

\* On a connected socket the outcome that ioLibrary waits for is still to come or still
\* to be seen.
AnswerOK ==
  \A s \in Socks : chip[s].sending /\ Connected(chip[s]) =>
    chip[s].tx # <<>> \/ "SENDOK" \in chip[s].ir

\* toe_sock_send tries again (SOCK_BUSY) only while the chip is still sending.
BusyWhileSending ==
  [][pc = "send_ir" /\ pc' = "send_sr" /\ Connected(chip[sn]) => chip[sn].tx # <<>>]_vars

-------------------------------------------------------------------------------

USE DEF SendPcs, Pcs, poolVars, mainVars, peerVars

\* The sizes are positive numbers.
LEMMA Bounds ==
  /\ N \in Nat /\ N >= 1
  /\ RXMAX \in Nat /\ TXMAX \in Nat /\ BUFSIZE \in Nat /\ MAXCONNS \in Nat /\ MAXBYTES \in Nat
  /\ RXMAX >= 1 /\ TXMAX >= 1 /\ BUFSIZE >= 1 /\ MAXCONNS >= 1 /\ MAXBYTES >= 1
  /\ CHECKMAX \in Nat /\ UINT16_MAX \in Nat
  /\ Socks \subseteq Nat /\ 1 \in Socks /\ N \in Socks
BY BoundsAssumption DEF Socks, UINT16_MAX

\* The pool's ports are BASE, BASE + 1, ... up to the largest one and 0, 1, ... from there.
LEMMA Ports ==
  ASSUME NEW s \in Socks
  PROVE  /\ sock_port(s) \in Nat /\ sock_port(s) <= UINT16_MAX
         /\ s \in Nat /\ s >= 1 /\ s <= 7 /\ BASE \in Nat /\ BASE >= 1 /\ BASE <= UINT16_MAX
         /\ UINT16_MAX = 65535
         /\ BASE + s - 1 <= UINT16_MAX => sock_port(s) = BASE + s - 1
         /\ BASE + s - 1 > UINT16_MAX => sock_port(s) = BASE + s - 1 - (UINT16_MAX + 1)
<1> DEFINE M == UINT16_MAX
           x == BASE + s - 1
<1>1. M = 65535
  BY DEF UINT16_MAX
<1>2. BASE \in Nat /\ BASE >= 1 /\ BASE <= M
  BY Bounds, PortsAssumption
<1>3. s \in Nat /\ s >= 1 /\ s <= 7
  <2>1. N <= 7
    BY PortsAssumption
  <2> QED BY <2>1, Bounds DEF Socks
<1>4. sock_port(s) = x % (M + 1)
  BY DEF sock_port
<1> HIDE DEF M
<1>5. M \in Nat /\ M >= 7
  BY <1>1
<1>6. x \in Nat /\ x <= M + 6
  BY <1>2, <1>3, <1>5
<1> HIDE DEF x
<1>7. CASE x <= M
  <2>1. x % (M + 1) = x
    BY <1>5, <1>6, <1>7
  <2> QED BY <1>1, <1>2, <1>3, <1>4, <1>5, <1>6, <1>7, <2>1 DEF M, x
<1>8. CASE x > M
  <2>1. x % (M + 1) = x - (M + 1)
    BY <1>5, <1>6, <1>8
  <2> QED BY <1>1, <1>2, <1>3, <1>4, <1>5, <1>6, <1>8, <2>1 DEF M, x
<1> QED BY <1>5, <1>6, <1>7, <1>8

\* ioLibrary's own ports are far from those at either end.
LEMMA AnyPorts ==
  ASSUME NEW q \in ANYPORTS
  PROVE  q \in Nat /\ 49152 <= q /\ q <= 65519
BY PortsAssumption

\* Two sockets of the pool are never opened on the same port.
LEMMA PortsDiffer ==
  ASSUME NEW s \in Socks, NEW t \in Socks, s # t, NEW p \in PoolPorts(s), NEW q \in PoolPorts(t)
  PROVE  p # q
<1>1. BASE \in Nat /\ BASE >= 1 /\ BASE <= 65535
  BY Ports
<1>2. \A u \in Socks : u \in Nat /\ u >= 1 /\ u <= 7
  BY Ports
<1>3. \A u \in Socks : \/ sock_port(u) = BASE + u - 1 /\ BASE + u <= 65536
                       \/ sock_port(u) = BASE + u - 65537 /\ BASE + u >= 65537
  <2> SUFFICES ASSUME NEW u \in Socks
               PROVE  \/ sock_port(u) = BASE + u - 1 /\ BASE + u <= 65536
                      \/ sock_port(u) = BASE + u - 65537 /\ BASE + u >= 65537
    OBVIOUS
  <2>1. /\ u \in Nat /\ UINT16_MAX = 65535
        /\ BASE + u - 1 <= UINT16_MAX => sock_port(u) = BASE + u - 1
        /\ BASE + u - 1 > UINT16_MAX => sock_port(u) = BASE + u - 1 - (UINT16_MAX + 1)
    BY Ports
  <2> QED BY <1>1, <2>1
<1>4. CASE sock_port(s) # 0 /\ sock_port(t) # 0
  <2>1. p = sock_port(s) /\ q = sock_port(t)
    BY <1>4 DEF PoolPorts
  <2>2. sock_port(s) # sock_port(t)
    BY <1>1, <1>2, <1>3
  <2> QED BY <2>1, <2>2
<1>5. ASSUME NEW u \in Socks, NEW v \in Socks, u # v, sock_port(u) = 0
      PROVE  sock_port(v) # 0 /\ sock_port(v) \notin ANYPORTS
  <2>1. BASE + u = 65537
    BY <1>1, <1>2, <1>3, <1>5
  <2>2. \/ sock_port(v) >= 1 /\ sock_port(v) <= 6
        \/ sock_port(v) >= 65530
    BY <1>1, <1>2, <1>3, <1>5, <2>1
  <2> QED BY <2>2, AnyPorts
<1>6. CASE sock_port(s) = 0
  BY <1>5, <1>6 DEF PoolPorts
<1>7. CASE sock_port(t) = 0
  BY <1>5, <1>7 DEF PoolPorts
<1> QED BY <1>4, <1>6, <1>7

\* A socket that was closed or opened fits any buffers.
LEMMA Emptied ==
  /\ \A k \in {Closed, Opened} : /\ k \in SockOf(Bytes) /\ k.rx = <<>> /\ k.tx = <<>>
                                /\ ~k.sending
                                /\ Len(k.rx) <= RXMAX /\ Len(k.tx) <= TXMAX
  /\ Closed.sr = "CLOSED" /\ Opened.sr = "INIT"
  /\ <<>> \in Seq(Bytes) /\ Len(<<>>) = 0 /\ 0 <= BUFSIZE
<1>1. <<>> \in Seq(Bytes) /\ Len(<<>>) = 0
  BY EmptySeq
<1>2. /\ Closed \in SockOf(Bytes) /\ Opened \in SockOf(Bytes)
      /\ Closed.sr = "CLOSED" /\ Closed.rx = <<>> /\ Closed.tx = <<>> /\ ~Closed.sending
      /\ Opened.sr = "INIT" /\ Opened.rx = <<>> /\ Opened.tx = <<>> /\ ~Opened.sending
  BY ClosedSock
<1> QED BY <1>1, <1>2, Bounds

\* What TInv says of one socket.
LEMMA Parts ==
  ASSUME TInv, NEW s \in Socks
  PROVE  /\ chip[s] \in SockOf(Bytes) /\ chip[s].rx \in Seq(Bytes) /\ chip[s].tx \in Seq(Bytes)
         /\ Len(chip[s].rx) \in Nat /\ Len(chip[s].tx) \in Nat
         /\ conn[s] \in Nat /\ out[s] \in Nat /\ got[s] \in Seq(Bytes) /\ Len(got[s]) \in Nat
         /\ chip[s].ir \subseteq IrBits /\ chip[s].sr \in Status
<1>1. /\ chip[s] \in SockOf(Bytes) /\ got[s] \in Seq(Bytes) /\ conn[s] \in 0 .. MAXCONNS
      /\ out[s] \in 0 .. MAXBYTES
  BY DEF TInv, ChipOK, PeerOK
<1>2. /\ chip[s].rx \in Seq(Bytes) /\ chip[s].tx \in Seq(Bytes)
      /\ chip[s].ir \subseteq IrBits /\ chip[s].sr \in Status
  BY <1>1 DEF SockOf
<1> QED BY <1>1, <1>2, LenProperties, Bounds

\* A step at one socket leaves the others alone.
LEMMA OneSocket ==
  ASSUME TInv, NEW s \in Socks, NEW k, SetChip(s, k)
  PROVE  /\ chip'[s] = k /\ \A t \in Socks \ {s} : chip'[t] = chip[t]
         /\ k \in SockOf(Bytes) => chip' \in [Socks -> SockOf(Bytes)]
BY DEF TInv, ChipOK, SetChip

\* Such a step keeps what TInv says of the chip if the socket fits its buffers, and if it
\* neither establishes a connection nor opens a socket with something in it.
LEMMA ChipStep ==
  ASSUME TInv, NEW s \in Socks, NEW k \in SockOf(Bytes), SetChip(s, k),
         Len(k.rx) <= RXMAX, Len(k.tx) <= TXMAX,
         k.sr = "ESTABLISHED" => chip[s].sr = "ESTABLISHED",
         k.sr \in {"INIT", "LISTEN"} => k.rx = <<>> /\ k.tx = <<>> /\ ~k.sending,
         UNCHANGED peerVars
  PROVE  ChipOK' /\ PeerOK' /\ FreshOK'
<1>1. /\ chip'[s] = k /\ \A t \in Socks \ {s} : chip'[t] = chip[t]
      /\ chip' \in [Socks -> SockOf(Bytes)]
  BY OneSocket
<1>2. ChipOK'
  BY <1>1 DEF TInv, ChipOK
<1>3. PeerOK'
  BY <1>1 DEF TInv, PeerOK
<1>4. FreshOK'
  BY <1>1 DEF TInv, FreshOK
<1> QED BY <1>2, <1>3, <1>4

\* Going on to the next socket.
LEMMA Continued ==
  ASSUME TInv, NEW loop, Continue(loop)
  PROVE  /\ sn' \in Socks
         /\ \/ pc' = loop /\ sn' = sn + 1
            \/ pc' = "poll"
BY Bounds DEF Continue, TInv, PoolOK, Socks

\* TInv says what TypeOK does.
LEMMA TypesFollow == TInv => TypeOK
<1> SUFFICES ASSUME TInv PROVE TypeOK
  OBVIOUS
<1>1. sent \in 0 .. Len(buf)
  BY LenProperties DEF TInv, PoolOK
<1>2. \A s \in Socks :
       /\ chip[s].sr \in Status /\ chip[s].ir \subseteq IrBits /\ chip[s].sending \in BOOLEAN
       /\ chip[s].rx \in Seq(Bytes) /\ Len(chip[s].rx) <= RXMAX
       /\ chip[s].tx \in Seq(Bytes) /\ Len(chip[s].tx) <= TXMAX
       /\ conn[s] \in 0 .. MAXCONNS /\ out[s] \in 0 .. MAXBYTES /\ got[s] \in Seq(Bytes)
  BY Parts DEF TInv, ChipOK, PeerOK, SockOf
<1>3. /\ port \in [Socks -> 0 .. UINT16_MAX] /\ s_used_mask \subseteq Socks
      /\ main \in {"off", "scan", "open", "cl_sr", "cl_close", "done"} /\ fd \in 0 .. N
  BY DEF TInv, MainOK
<1>4. /\ pc \in Pcs /\ sn \in Socks /\ sr \in Status
      /\ buf \in Seq(Bytes) /\ Len(buf) <= BUFSIZE
  BY DEF TInv, PoolOK
<1> HIDE DEF Pcs, SendPcs
<1> QED BY <1>1, <1>2, <1>3, <1>4 DEF TypeOK

\* At the start every socket is closed and nobody has been served.
LEMMA TypeInit == Init => TInv
<1> SUFFICES ASSUME Init PROVE TInv
  OBVIOUS
<1>1. ChipOK /\ FreshOK
  BY Emptied DEF Init, ChipOK, FreshOK
<1>2. PoolOK
  BY Emptied, Bounds DEF Init, PoolOK, Status
<1>3. MainOK
  BY ChecksAssumption, Bounds DEF Init, MainOK
<1>4. PeerOK
  BY Emptied, Bounds DEF Init, PeerOK
<1> QED BY <1>1, <1>2, <1>3, <1>4 DEF TInv

\* When toe_sock_send returns, the buffer is done with and the pool is at some socket.
LEMMA Returned ==
  ASSUME TInv, SendReturns
  PROVE  /\ pc' = "poll" /\ sn' \in Socks /\ buf' = <<>> /\ sent' = 0
         /\ sr' = sr => PoolOK'
<1>1. pc' = "poll" /\ sn' \in Socks /\ buf' = <<>> /\ sent' = 0
  BY Continued DEF SendReturns
<1> QED BY <1>1, Emptied DEF TInv, PoolOK

\* The steps that do nothing to a socket.
LEMMA QuietStep ==
  ASSUME TInv, OpenFails \/ Poll \/ Avail \/ RecvCheck \/ SendSr \/ Scan
  PROVE  TInv'
<1>1. UNCHANGED <<chip, port, s_used_mask, peerVars>>
  BY DEF OpenFails, Poll, Avail, RecvCheck, SendSr, Scan
<1>2. ChipOK' /\ PeerOK' /\ FreshOK'
  BY <1>1 DEF TInv, ChipOK, PeerOK, FreshOK
<1>3. MainOK'
  <2>1. CASE Scan
    BY <1>1, <2>1, Bounds DEF Scan, TInv, MainOK, Socks
  <2>2. CASE UNCHANGED mainVars
    BY <1>1, <2>2 DEF TInv, MainOK
  <2> QED BY <2>1, <2>2 DEF OpenFails, Poll, Avail, RecvCheck, SendSr
<1>4. PoolOK'
  <2>1. CASE OpenFails \/ Poll \/ Avail \/ RecvCheck
    <3>1. UNCHANGED <<buf, sent>> /\ pc \notin SendPcs /\ sr' \in {sr, chip[sn].sr, "CLOSED"}
      BY <2>1 DEF OpenFails, Poll, Avail, RecvCheck
    <3>2. pc' \in Pcs \ SendPcs /\ sn' \in Socks
      BY <2>1, Continued DEF OpenFails, Poll, Avail, RecvCheck, TInv, PoolOK
    <3>3. sr' \in Status
      BY <3>1, Parts DEF TInv, PoolOK, Status
    <3> QED BY <3>1, <3>2, <3>3 DEF TInv, PoolOK
  <2>2. CASE SendSr
    <3>1. sr' = sr /\ (SendReturns \/ (pc' = "send_ir" /\ UNCHANGED <<sn, buf, sent>>))
      BY <2>2 DEF SendSr
    <3>2. CASE pc' = "send_ir" /\ UNCHANGED <<sn, buf, sent>>
      BY <2>2, <3>1, <3>2 DEF SendSr, TInv, PoolOK
    <3> QED BY <3>1, <3>2, Returned
  <2>3. CASE Scan
    BY <2>3 DEF Scan, TInv, PoolOK
  <2> QED BY <2>1, <2>2, <2>3
<1> QED BY <1>2, <1>3, <1>4 DEF TInv

\* socket(), whoever calls it.
LEMMA OpenStep ==
  ASSUME TInv, OpenOk \/ CheckOpen
  PROVE  TInv'
<1>1. CASE /\ main = "open" /\ main' = "done"
           /\ UNCHANGED <<chip, port, s_used_mask, fd, poolVars, peerVars>>
  BY <1>1 DEF TInv, ChipOK, PoolOK, MainOK, PeerOK, FreshOK
<1>2. ASSUME NEW s \in Socks, NEW p \in 0 .. UINT16_MAX, SocketOn(s, p), UNCHANGED peerVars
      PROVE  ChipOK' /\ PeerOK' /\ FreshOK' /\ port' \in [Socks -> 0 .. UINT16_MAX]
             /\ s_used_mask' \subseteq Socks
  <2>1. ChipOK' /\ PeerOK' /\ FreshOK'
    BY <1>2, Emptied, ChipStep DEF SocketOn
  <2>2. ANYPORTS \subseteq 0 .. UINT16_MAX
    <3>1. \A q \in ANYPORTS : q \in Nat /\ 0 <= q /\ q <= UINT16_MAX
      BY AnyPorts DEF UINT16_MAX
    <3> QED BY <3>1, Bounds
  <2>3. \E q \in 0 .. UINT16_MAX : port' = [port EXCEPT ![s] = q]
    BY <1>2, <2>2 DEF SocketOn
  <2> QED BY <1>2, <2>1, <2>3 DEF SocketOn, TInv, MainOK
<1>3. CASE OpenOk
  <2>1. sn \in Socks /\ sock_port(sn) \in 0 .. UINT16_MAX
    BY Ports, Bounds DEF TInv, PoolOK
  <2>2. /\ ChipOK' /\ PeerOK' /\ FreshOK' /\ port' \in [Socks -> 0 .. UINT16_MAX]
        /\ s_used_mask' \subseteq Socks
    BY <1>2, <1>3, <2>1 DEF OpenOk
  <2>3. PoolOK'
    BY <1>3 DEF OpenOk, TInv, PoolOK
  <2> QED BY <1>3, <2>2, <2>3 DEF OpenOk, TInv, MainOK
<1>4. CASE CheckOpen /\ SocketOn(fd, 0)
  <2>1. fd \in Socks /\ 0 \in 0 .. UINT16_MAX
    BY <1>4, Bounds DEF CheckOpen, TInv, MainOK
  <2>2. /\ ChipOK' /\ PeerOK' /\ FreshOK' /\ port' \in [Socks -> 0 .. UINT16_MAX]
        /\ s_used_mask' \subseteq Socks
    BY <1>2, <1>4, <2>1 DEF CheckOpen
  <2>3. PoolOK' /\ main' \in {"cl_sr", "done"} /\ fd' = fd
    BY <1>4 DEF CheckOpen, TInv, PoolOK
  <2> QED BY <2>1, <2>2, <2>3 DEF TInv, MainOK
<1> QED BY <1>1, <1>3, <1>4 DEF CheckOpen

\* listen() on the socket the pool has opened.
LEMMA ListenStep ==
  ASSUME TInv, Listen \/ ListenFails
  PROVE  TInv'
<1>1. sn \in Socks /\ chip[sn] \in SockOf(Bytes)
  BY Parts DEF TInv, PoolOK
<1>2. PICK k : /\ SetChip(sn, k) /\ k \in SockOf(Bytes)
               /\ \/ k = Closed
                  \/ /\ k.rx = chip[sn].rx /\ k.tx = chip[sn].tx
                     /\ k.sending = chip[sn].sending
                     /\ k.sr = (IF chip[sn].sr = "INIT" THEN "LISTEN" ELSE chip[sn].sr)
  <2>1. CASE Listen
    BY <1>1, <2>1, ListeningSock DEF Listen
  <2>2. CASE ListenFails
    BY <2>2, Emptied DEF ListenFails
  <2> QED BY <2>1, <2>2
<1>3. ChipOK' /\ PeerOK' /\ FreshOK'
  <2>1. Len(k.rx) <= RXMAX /\ Len(k.tx) <= TXMAX
    BY <1>1, <1>2, Emptied DEF TInv, ChipOK
  <2>2. k.sr \in {"INIT", "LISTEN"} => k.rx = <<>> /\ k.tx = <<>> /\ ~k.sending
    BY <1>1, <1>2, Emptied DEF TInv, FreshOK
  <2>3. k.sr = "ESTABLISHED" => chip[sn].sr = "ESTABLISHED"
    BY <1>2, Emptied
  <2> QED BY <1>1, <1>2, <2>1, <2>2, <2>3, ChipStep DEF Listen, ListenFails
<1>4. PoolOK'
  BY Continued DEF Listen, ListenFails, TInv, PoolOK
<1>5. MainOK'
  BY DEF Listen, ListenFails, TInv, MainOK
<1> QED BY <1>3, <1>4, <1>5 DEF TInv

\* The pool receives into the empty buffer.
LEMMA RecvStep ==
  ASSUME TInv, RecvData
  PROVE  TInv'
<1>1. sn \in Socks /\ chip[sn] \in SockOf(Bytes) /\ Len(chip[sn].rx) \in Nat
  BY Parts DEF TInv, PoolOK
<1>2. MainOK'
  BY DEF RecvData, TInv, MainOK
<1>3. CASE chip[sn].rx = <<>> /\ buf' = <<Junk>> /\ UNCHANGED chip
  <2>1. <<Junk>> \in Seq(Bytes) /\ Len(<<Junk>>) = 1
    BY DEF Bytes
  <2>2. PoolOK'
    BY <1>3, <2>1, Bounds DEF RecvData, TInv, PoolOK
  <2> QED BY <1>2, <1>3, <2>2 DEF RecvData, TInv, ChipOK, PeerOK, FreshOK
<1>4. ASSUME NEW n \in 1 .. Len(chip[sn].rx), n <= BUFSIZE,
             buf' = SubSeq(chip[sn].rx, 1, n), SetChip(sn, Drained(chip[sn], n))
      PROVE  TInv'
  <2> DEFINE k == Drained(chip[sn], n)
  <2>1. /\ k \in SockOf(Bytes) /\ k.sr = chip[sn].sr /\ k.tx = chip[sn].tx
        /\ k.sending = chip[sn].sending /\ Len(k.rx) = Len(chip[sn].rx) - n
        /\ buf' \in Seq(Bytes) /\ Len(buf') = n
    BY <1>1, <1>4, DrainedSock
  <2>2. SetChip(sn, k)
    BY <1>4
  <2> HIDE DEF k
  <2>3. Len(k.rx) <= RXMAX /\ Len(k.tx) <= TXMAX
    BY <1>1, <2>1, Bounds DEF TInv, ChipOK
  <2>4. chip[sn].sr \notin {"INIT", "LISTEN"}
    <3>1. chip[sn].rx # <<>>
      BY <1>1, Emptied
    <3> QED BY <1>1, <3>1 DEF TInv, FreshOK
  <2>5. ChipOK' /\ PeerOK' /\ FreshOK'
    BY <1>1, <2>1, <2>2, <2>3, <2>4, ChipStep DEF RecvData
  <2>6. PoolOK'
    BY <1>4, <2>1 DEF RecvData, TInv, PoolOK
  <2> QED BY <1>2, <2>5, <2>6 DEF TInv
<1> QED BY <1>3, <1>4 DEF RecvData

\* The steps of toe_sock_send that touch the socket.
LEMMA SendStep ==
  ASSUME TInv, SendIr \/ SendClr \/ SendWr
  PROVE  TInv'
<1>1. /\ sn \in Socks /\ chip[sn] \in SockOf(Bytes) /\ chip[sn].tx \in Seq(Bytes)
      /\ Len(chip[sn].tx) \in Nat
  BY Parts DEF TInv, PoolOK
<1>2. pc \in SendPcs /\ UNCHANGED <<port, s_used_mask, sr, mainVars, peerVars>>
  BY DEF SendIr, SendClr, SendWr
<1>3. buf \in Seq(Bytes) /\ Len(buf) \in Nat /\ sent \in Nat /\ sent < Len(buf)
  BY <1>2, LenProperties DEF TInv, PoolOK
<1>4. MainOK'
  BY <1>2 DEF TInv, MainOK
<1>5. CASE /\ UNCHANGED chip
           /\ SendReturns \/ (pc' \in SendPcs /\ UNCHANGED <<sn, buf, sent>>)
  <2>1. ChipOK' /\ PeerOK' /\ FreshOK'
    BY <1>2, <1>5 DEF TInv, ChipOK, PeerOK, FreshOK
  <2>2. PoolOK'
    <3>1. CASE SendReturns
      BY <1>2, <3>1, Returned
    <3>2. CASE pc' \in SendPcs /\ UNCHANGED <<sn, buf, sent>>
      BY <1>2, <3>2 DEF TInv, PoolOK
    <3> QED BY <1>5, <3>1, <3>2
  <2> QED BY <1>4, <2>1, <2>2 DEF TInv
<1>6. CASE SetChip(sn, Closed) /\ SendReturns
  <2>1. ChipOK' /\ PeerOK' /\ FreshOK'
    BY <1>1, <1>2, <1>6, Emptied, ChipStep
  <2> QED BY <1>2, <1>4, <1>6, <2>1, Returned DEF TInv
<1>7. CASE SendClr
  <2> DEFINE a == Acked(chip[sn], {"SENDOK"})
             k == [a EXCEPT !.sending = FALSE]
  <2>1. a \in SockOf(Bytes) /\ a.sr = chip[sn].sr /\ a.rx = chip[sn].rx /\ a.tx = chip[sn].tx
    BY <1>1, AckedSock
  <2> HIDE DEF a
  <2>2. /\ k \in SockOf(Bytes) /\ k.sr = chip[sn].sr /\ k.rx = chip[sn].rx
        /\ k.tx = chip[sn].tx /\ ~k.sending
    BY <2>1 DEF SockOf
  <2>3. SetChip(sn, k)
    BY <1>7 DEF SendClr, a
  <2> HIDE DEF k
  <2>4. /\ Len(k.rx) <= RXMAX /\ Len(k.tx) <= TXMAX
        /\ k.sr \in {"INIT", "LISTEN"} => k.rx = <<>> /\ k.tx = <<>> /\ ~k.sending
    BY <1>1, <2>2 DEF TInv, ChipOK, FreshOK
  <2>5. ChipOK' /\ PeerOK' /\ FreshOK'
    BY <1>1, <1>2, <2>2, <2>3, <2>4, ChipStep
  <2>6. PoolOK'
    BY <1>7 DEF SendClr, TInv, PoolOK
  <2> QED BY <1>4, <2>5, <2>6 DEF TInv
<1>8. CASE SendWr
  <2> DEFINE n == IF Len(buf) - sent < TXMAX THEN Len(buf) - sent ELSE TXMAX
             d == SubSeq(buf, sent + 1, sent + n)
             k == Sending(chip[sn], d)
  <2>1. /\ n \in Nat /\ n >= 1 /\ sent + n \in 0 .. Len(buf) /\ sent \in 0 .. sent + n
        /\ sent + n <= Len(buf)
    BY <1>3, Bounds
  <2>2. d \in Seq(Bytes) /\ Len(d) = n
    BY <1>3, <2>1, Cut
  <2>3. \/ /\ UNCHANGED chip
           /\ SendReturns \/ (pc' \in SendPcs /\ UNCHANGED <<sn, buf, sent>>)
        \/ SetChip(sn, Closed) /\ SendReturns
        \/ /\ SetChip(sn, k) /\ n <= TXMAX - Len(chip[sn].tx) /\ Connected(chip[sn])
           /\ \/ /\ pc' = "send_sr" /\ UNCHANGED <<sn, buf>> /\ sent' = sent + n
                 /\ sent + n < Len(buf)
              \/ SendReturns
    BY <1>8 DEF SendWr
  <2> HIDE DEF n, d
  <2>4. /\ k \in SockOf(Bytes) /\ k.sr = chip[sn].sr /\ k.rx = chip[sn].rx
        /\ Len(k.tx) = Len(chip[sn].tx) + n
    <3> DEFINE h == chip[sn]
    <3>1. h \in SockOf(Bytes) /\ d \in Seq(Bytes)
      BY <1>1, <2>2
    <3> HIDE DEF h
    <3>2. /\ Sending(h, d) \in SockOf(Bytes) /\ Sending(h, d).sr = h.sr
          /\ Sending(h, d).rx = h.rx /\ Len(Sending(h, d).tx) = Len(h.tx) + Len(d)
      BY <3>1, SendingSock
    <3> QED BY <2>2, <3>2 DEF h
  <2> HIDE DEF k
  <2>5. CASE /\ SetChip(sn, k) /\ n <= TXMAX - Len(chip[sn].tx) /\ Connected(chip[sn])
             /\ \/ /\ pc' = "send_sr" /\ UNCHANGED <<sn, buf>> /\ sent' = sent + n
                   /\ sent + n < Len(buf)
                \/ SendReturns
    <3>1. Len(k.rx) <= RXMAX
      BY <1>1, <2>4 DEF TInv, ChipOK
    <3>2. Len(k.tx) <= TXMAX
      BY <1>1, <2>1, <2>4, <2>5, Bounds
    <3>3. k.sr \notin {"INIT", "LISTEN"}
      BY <2>4, <2>5 DEF Connected
    <3>4. ChipOK' /\ PeerOK' /\ FreshOK'
      BY <1>1, <1>2, <2>4, <2>5, <3>1, <3>2, <3>3, ChipStep
    <3>5. PoolOK'
      <4>1. CASE pc' = "send_sr" /\ UNCHANGED <<sn, buf>> /\ sent' = sent + n
                 /\ sent + n < Len(buf)
        BY <1>2, <1>3, <2>1, <4>1 DEF TInv, PoolOK
      <4> QED BY <1>2, <2>5, <4>1, Returned
    <3> QED BY <1>4, <3>4, <3>5 DEF TInv
  <2> QED BY <1>5, <1>6, <2>3, <2>5
<1> QED BY <1>5, <1>6, <1>7, <1>8 DEF SendIr

\* toe_sock_close, whoever calls it.
LEMMA CloseStep ==
  ASSUME TInv, Close \/ CheckClose
  PROVE  TInv'
<1>1. UNCHANGED <<port, peerVars>>
  BY DEF Close, CheckClose
<1>2. PICK s \in Socks : \/ CloseSr(s) /\ UNCHANGED s_used_mask
                         \/ CloseChip(s)
  BY DEF Close, CheckClose, TInv, PoolOK, MainOK
<1>3. PICK k : k \in {chip[s], Disconnecting(chip[s]), Closed} /\ SetChip(s, k)
  BY <1>2 DEF CloseSr, CloseChip
<1>4. /\ k \in SockOf(Bytes) /\ Len(k.rx) <= RXMAX /\ Len(k.tx) <= TXMAX
      /\ k.sr = "ESTABLISHED" => chip[s].sr = "ESTABLISHED"
      /\ k.sr \in {"INIT", "LISTEN"} => k.rx = <<>> /\ k.tx = <<>> /\ ~k.sending
  <2>1. chip[s] \in SockOf(Bytes) /\ Len(chip[s].rx) <= RXMAX /\ Len(chip[s].tx) <= TXMAX
    BY Parts DEF TInv, ChipOK
  <2>2. CASE k = chip[s]
    BY <2>1, <2>2 DEF TInv, FreshOK
  <2>3. CASE k = Disconnecting(chip[s])
    BY <2>1, <2>3, DisconnectingSock
  <2>4. CASE k = Closed
    BY <2>4, Emptied
  <2> QED BY <1>3, <2>2, <2>3, <2>4
<1>5. ChipOK' /\ PeerOK' /\ FreshOK'
  BY <1>1, <1>3, <1>4, ChipStep
<1>6. PoolOK'
  BY DEF Close, CheckClose, TInv, PoolOK
<1>7. MainOK'
  BY <1>1, <1>2 DEF Close, CheckClose, CloseChip, TInv, MainOK
<1> QED BY <1>5, <1>6, <1>7 DEF TInv

\* What the client of a socket and the chip do.
LEMMA PeerStep ==
  ASSUME TInv, NEW s \in Socks, Peer(s) \/ Wire(s)
  PROVE  TInv'
<1>1. /\ chip[s] \in SockOf(Bytes) /\ chip[s].tx \in Seq(Bytes) /\ chip[s].rx \in Seq(Bytes)
      /\ Len(chip[s].rx) <= RXMAX /\ Len(chip[s].tx) <= TXMAX /\ Len(chip[s].rx) \in Nat
      /\ out[s] \in Nat /\ conn[s] \in Nat
  BY Parts DEF TInv, ChipOK
<1>2. PoolOK' /\ MainOK'
  BY DEF Peer, Wire, PeerConnect, PeerSend, PeerFin, PeerReset, ChipSendDone, ChipTimeout,
     TInv, PoolOK, MainOK
<1>3. Bound(MAXCONNS) <= MAXCONNS /\ Bound(MAXBYTES) <= MAXBYTES
  BY Bounds DEF Bound
<1>4. Bound(MAXCONNS) \in Nat /\ Bound(MAXBYTES) \in Nat
  BY Bounds DEF Bound
<1>5. CASE PeerConnect(s)
  <2> DEFINE k == GotConnection(chip[s])
  <2>1. /\ k \in SockOf(Bytes) /\ k.sr = "ESTABLISHED" /\ k.rx = chip[s].rx /\ k.tx = chip[s].tx
        /\ SetChip(s, k)
    BY <1>1, <1>5, GotConnectionSock DEF PeerConnect
  <2> HIDE DEF k
  <2>2. /\ chip'[s] = k /\ \A t \in Socks \ {s} : chip'[t] = chip[t]
        /\ chip' \in [Socks -> SockOf(Bytes)]
    BY <2>1, OneSocket
  <2>3. conn[s] + 1 \in 1 .. MAXCONNS
    BY <1>1, <1>3, <1>5, <1>4, Bounds DEF PeerConnect
  <2>4. PeerOK'
    <3>1. conn' \in [Socks -> 0 .. MAXCONNS] /\ conn'[s] >= 1
      BY <1>5, <2>3, Bounds DEF PeerConnect, TInv, PeerOK
    <3>2. out' \in [Socks -> 0 .. MAXBYTES] /\ got' \in [Socks -> Seq(Bytes)]
      BY <1>5, Emptied, Bounds DEF PeerConnect, TInv, PeerOK
    <3>3. \A t \in Socks \ {s} : conn'[t] = conn[t]
      BY <1>5 DEF PeerConnect, TInv, PeerOK
    <3> QED BY <2>2, <3>1, <3>2, <3>3 DEF TInv, PeerOK
  <2> QED BY <1>1, <1>2, <2>1, <2>2, <2>4 DEF TInv, ChipOK, FreshOK
<1>6. CASE PeerSend(s)
  <2> DEFINE b == <<s, conn[s], out[s] + 1>>
             k == GotByte(chip[s], b)
  <2>1. out' = [out EXCEPT ![s] = @ + 1] /\ conn' = conn /\ got' = got /\ SetChip(s, k)
    BY <1>6 DEF PeerSend, Byte, TInv, PeerOK
  <2>2. out[s] + 1 \in 1 .. MAXBYTES /\ conn[s] \in 1 .. MAXCONNS /\ Len(chip[s].rx) < RXMAX
    <3>1. out[s] < Bound(MAXBYTES) /\ Len(chip[s].rx) < RXMAX /\ chip[s].sr = "ESTABLISHED"
      BY <1>6 DEF PeerSend
    <3>2. conn[s] \in 0 .. MAXCONNS /\ conn[s] >= 1
      BY <3>1 DEF TInv, PeerOK
    <3> QED BY <1>1, <1>3, <1>4, <3>1, <3>2, Bounds
  <2>3. b \in Bytes
    BY <2>2 DEF Bytes
  <2> HIDE DEF b
  <2>4. /\ k \in SockOf(Bytes) /\ k.sr = chip[s].sr /\ k.tx = chip[s].tx
        /\ Len(k.rx) = Len(chip[s].rx) + 1
    BY <1>1, <2>3, GotByteSock
  <2> HIDE DEF k
  <2>5. /\ chip'[s] = k /\ \A t \in Socks \ {s} : chip'[t] = chip[t]
        /\ chip' \in [Socks -> SockOf(Bytes)]
    BY <2>1, <2>4, OneSocket
  <2>6. Len(k.rx) <= RXMAX
    BY <1>1, <2>2, <2>4, Bounds
  <2>7. PeerOK'
    <3>1. out' \in [Socks -> 0 .. MAXBYTES]
      BY <2>1, <2>2, Bounds DEF TInv, PeerOK
    <3> QED BY <2>1, <2>4, <2>5, <3>1 DEF TInv, PeerOK
  <2> QED BY <1>1, <1>2, <1>6, <2>4, <2>5, <2>6, <2>7 DEF PeerSend, TInv, ChipOK, FreshOK
<1>7. CASE PeerFin(s) \/ PeerReset(s) \/ ChipTimeout(s)
  <2>1. PICK k \in {GotFin(chip[s]), GotReset(chip[s]), SendTimeout(chip[s])} : SetChip(s, k)
    BY <1>7 DEF PeerFin, PeerReset, ChipTimeout
  <2>2. k \in SockOf(Bytes) /\ k.sr \in {"CLOSE_WAIT", "CLOSED"} /\ k.rx = chip[s].rx
        /\ k.tx \in {chip[s].tx, <<>>}
    BY <1>1, <2>1, GotFinSock, GotResetSock, SendTimeoutSock
  <2>3. Len(k.rx) <= RXMAX /\ Len(k.tx) <= TXMAX
    BY <1>1, <2>2, Emptied, Bounds
  <2>4. UNCHANGED peerVars
    BY <1>7 DEF PeerFin, PeerReset, ChipTimeout
  <2>5. ChipOK' /\ PeerOK' /\ FreshOK'
    BY <2>1, <2>2, <2>3, <2>4, ChipStep
  <2> QED BY <1>2, <2>5 DEF TInv
<1>8. CASE ChipSendDone(s)
  <2> DEFINE k == SendDone(chip[s])
             g == got[s] \o chip[s].tx
  <2>1. /\ k \in SockOf(Bytes) /\ k.sr = chip[s].sr /\ k.rx = chip[s].rx /\ k.tx = <<>>
        /\ k.sending = chip[s].sending /\ SetChip(s, k)
    BY <1>1, <1>8, SendDoneSock DEF ChipSendDone
  <2>2. g \in Seq(Bytes) /\ got' = [got EXCEPT ![s] = g]
    <3>1. got[s] \in Seq(Bytes)
      BY Parts
    <3> QED BY <1>1, <1>8, <3>1, Joined DEF ChipSendDone
  <2> HIDE DEF k, g
  <2>3. /\ chip'[s] = k /\ \A t \in Socks \ {s} : chip'[t] = chip[t]
        /\ chip' \in [Socks -> SockOf(Bytes)]
    BY <2>1, OneSocket
  <2>4. PeerOK'
    BY <1>8, <2>1, <2>2, <2>3 DEF ChipSendDone, TInv, PeerOK
  <2>5. FreshOK'
    BY <2>1, <2>3 DEF TInv, FreshOK
  <2>6. ChipOK'
    BY <1>1, <2>1, <2>3, Emptied, Bounds DEF TInv, ChipOK
  <2> QED BY <1>2, <2>4, <2>5, <2>6 DEF TInv
<1> QED BY <1>5, <1>6, <1>7, <1>8 DEF Peer, Wire

\* TInv is inductive.
LEMMA TypeStep ==
  ASSUME TInv, [Next]_vars
  PROVE  TInv'
<1>1. CASE UNCHANGED vars
  BY <1>1 DEF vars, TInv, ChipOK, PoolOK, MainOK, PeerOK, FreshOK
<1> QED BY <1>1, QuietStep, OpenStep, ListenStep, RecvStep, SendStep, CloseStep, PeerStep
        DEF Next, Pool, Check

\* Every variable of the pool, the check and the sockets has its type: the shared buffer
\* and the chip's are never overrun, and the pool never leaves its sockets (TypeOK).
THEOREM TypeCorrect == Spec => []TypeOK
BY TypeInit, TypeStep, TypesFollow, PTL DEF Spec

-------------------------------------------------------------------------------
(* Where the pool is, and what the socket it is at can be doing. *)

\* While the ports and the check stay as they are, only a socket that is opened can
\* break PortOK.
LEMMA PortsKept ==
  ASSUME SInv, UNCHANGED <<port, mainVars>>,
         \A t \in Socks : chip'[t].sr \in {"INIT", "LISTEN"} => chip[t].sr \in {"INIT", "LISTEN"}
  PROVE  PortOK'
BY DEF SInv, PortOK, PoolPorts, sock_port

\* At the start every socket is closed.
LEMMA PlaceInit == Init => SInv
BY Emptied DEF Init, SInv, ListenOK, PortOK, UnreadOK, HalfOK, Connected

\* What the pool does from the read to the end of a send or of a close changes at most
\* the status of its socket, which then neither listens nor is open.
LEMMA ServingStatus ==
  ASSUME TInv, RecvData \/ SendIr \/ SendClr \/ SendWr \/ Close
  PROVE  \A t \in Socks : chip'[t].sr \in {chip[t].sr, "CLOSED", "FIN_WAIT", "LAST_ACK"}
<1>1. sn \in Socks /\ chip[sn] \in SockOf(Bytes)
  BY Parts DEF TInv, PoolOK
<1>2. ASSUME NEW k, SetChip(sn, k), k.sr \in {chip[sn].sr, "CLOSED", "FIN_WAIT", "LAST_ACK"}
      PROVE  \A t \in Socks : chip'[t].sr \in {chip[t].sr, "CLOSED", "FIN_WAIT", "LAST_ACK"}
  BY <1>1, <1>2, OneSocket
<1>3. CASE UNCHANGED chip
  BY <1>3
<1>4. CASE SetChip(sn, Closed)
  BY <1>2, <1>4, Emptied
<1>5. CASE RecvData
  <2>1. CASE \E n \in 1 .. Len(chip[sn].rx) : SetChip(sn, Drained(chip[sn], n))
    BY <1>1, <1>2, <2>1, DrainedSock
  <2> QED BY <1>3, <1>5, <2>1 DEF RecvData
<1>6. CASE SendClr
  <2> DEFINE a == Acked(chip[sn], {"SENDOK"})
             k == [a EXCEPT !.sending = FALSE]
  <2>1. a \in SockOf(Bytes) /\ a.sr = chip[sn].sr
    BY <1>1, AckedSock
  <2>2. SetChip(sn, k)
    BY <1>6 DEF SendClr
  <2> HIDE DEF a
  <2>3. k.sr = chip[sn].sr
    BY <2>1 DEF SockOf
  <2> HIDE DEF k
  <2> QED BY <1>2, <2>2, <2>3
<1>7. CASE SendWr
  <2> DEFINE n == IF Len(buf) - sent < TXMAX THEN Len(buf) - sent ELSE TXMAX
             k == Sending(chip[sn], SubSeq(buf, sent + 1, sent + n))
  <2>1. UNCHANGED chip \/ SetChip(sn, Closed) \/ SetChip(sn, k)
    BY <1>7 DEF SendWr
  <2>2. k.sr = chip[sn].sr
    BY <1>1 DEF Sending, SockOf
  <2> HIDE DEF k
  <2> QED BY <1>2, <1>3, <1>4, <2>1, <2>2
<1>8. CASE Close
  <2>1. \/ SetChip(sn, Disconnecting(chip[sn]))
        \/ SetChip(sn, chip[sn])
        \/ SetChip(sn, Closed)
    BY <1>8 DEF Close, CloseSr, CloseChip
  <2> QED BY <1>1, <1>2, <1>4, <2>1, DisconnectingSock
<1> QED BY <1>3, <1>4, <1>5, <1>6, <1>7, <1>8 DEF SendIr

\* In those steps the pool stays at its socket, which it is serving, or goes on to poll.
LEMMA ServingPlace ==
  ASSUME TInv, SInv, RecvData \/ SendIr \/ SendClr \/ SendWr \/ Close
  PROVE  SInv'
<1>1. \A t \in Socks : chip'[t].sr \in {"INIT", "LISTEN"} => chip'[t].sr = chip[t].sr
  BY ServingStatus
<1>2. /\ UNCHANGED <<port, mainVars>> /\ pc \in SendPcs \cup {"recv_data", "cl_sr", "cl_close"}
      /\ pc' = "poll" \/ (sn' = sn /\ pc' \in SendPcs \cup {"cl_close", "open"})
  <2>1. SendReturns => pc' = "poll"
    BY Returned
  <2> QED BY <2>1 DEF RecvData, SendIr, SendClr, SendWr, Close
<1>3. ListenOK'
  BY <1>1, <1>2 DEF SInv, ListenOK
<1>4. PortOK'
  BY <1>1, <1>2, PortsKept
<1>5. UnreadOK' /\ HalfOK'
  BY <1>2 DEF UnreadOK, HalfOK
<1> QED BY <1>3, <1>4, <1>5 DEF SInv

\* The pool's looks at its socket, and an open that fails.
LEMMA LookPlace ==
  ASSUME TInv, SInv, OpenFails \/ Poll \/ Avail \/ RecvCheck \/ SendSr
  PROVE  SInv'
<1>1. UNCHANGED <<chip, port, mainVars>> /\ sn \in Socks
  BY DEF OpenFails, Poll, Avail, RecvCheck, SendSr, TInv, PoolOK
<1>2. PortOK'
  BY <1>1, PortsKept
<1>3. CASE OpenFails
  <2>1. pc' = "poll" \/ (pc = "open0" /\ pc' = "open0" /\ sn' = sn + 1)
    BY <1>3, Continued DEF OpenFails
  <2>2. sn \in Nat /\ Socks \subseteq Nat
    BY <1>1, Bounds
  <2>3. ListenOK'
    BY <1>1, <2>1, <2>2 DEF SInv, ListenOK
  <2> QED BY <1>2, <2>1, <2>3 DEF SInv, UnreadOK, HalfOK
<1>4. CASE Poll
  <2>1. CASE Connected(chip[sn]) /\ pc' = "avail" /\ sr' = chip[sn].sr /\ UNCHANGED sn
    BY <1>1, <1>2, <2>1 DEF SInv, ListenOK, UnreadOK, HalfOK, Connected
  <2>2. CASE chip[sn].sr = "CLOSED" /\ pc' = "cl_sr" /\ UNCHANGED sn
    BY <1>1, <1>2, <2>2 DEF SInv, ListenOK, UnreadOK, HalfOK, Connected
  <2>3. CASE Continue("poll")
    <3>1. pc' = "poll"
      BY <2>3, Continued
    <3> QED BY <1>1, <1>2, <3>1 DEF SInv, ListenOK, UnreadOK, HalfOK
  <2> QED BY <1>4, <2>1, <2>2, <2>3 DEF Poll
<1>5. CASE Avail
  <2>1. CASE chip[sn].rx # <<>> /\ pc' = "recv_sr" /\ UNCHANGED sn
    BY <1>1, <1>2, <1>5, <2>1 DEF Avail, SInv, ListenOK, UnreadOK, HalfOK, Connected
  <2>2. CASE chip[sn].rx = <<>> /\ sr = "CLOSE_WAIT" /\ pc' = "cl_sr" /\ UNCHANGED sn
    BY <1>1, <1>2, <1>5, <2>2 DEF Avail, SInv, ListenOK, UnreadOK, HalfOK, Connected
  <2>3. CASE Continue("poll")
    <3>1. pc' = "poll"
      BY <2>3, Continued
    <3> QED BY <1>1, <1>2, <3>1 DEF SInv, ListenOK, UnreadOK, HalfOK
  <2> QED BY <1>5, <2>1, <2>2, <2>3 DEF Avail
<1>6. CASE RecvCheck
  <2>1. CASE pc = "recv_sr"
    BY <1>1, <1>2, <1>6, <2>1 DEF RecvCheck, SInv, ListenOK, UnreadOK, HalfOK, Connected
  <2>2. CASE pc = "recv_rsr"
    BY <1>1, <1>2, <1>6, <2>2 DEF RecvCheck, SInv, ListenOK, UnreadOK, HalfOK, Connected
  <2> QED BY <1>6, <2>1, <2>2 DEF RecvCheck
<1>7. CASE SendSr
  <2>1. pc = "send_sr" /\ (pc' = "poll" \/ (pc' = "send_ir" /\ UNCHANGED sn))
    BY <1>7, Returned DEF SendSr
  <2> QED BY <1>1, <1>2, <2>1 DEF SInv, ListenOK, UnreadOK, HalfOK
<1> QED BY <1>3, <1>4, <1>5, <1>6, <1>7

\* The pool opens its socket on the socket's own port and makes it listen.
LEMMA ArmPlace ==
  ASSUME TInv, SInv, OpenOk \/ Listen \/ ListenFails
  PROVE  SInv'
<1>1. sn \in Socks /\ chip[sn] \in SockOf(Bytes) /\ Socks \subseteq Nat /\ sn \in Nat
  BY Parts, Bounds DEF TInv, PoolOK
<1>2. CASE OpenOk
  <2>1. /\ chip'[sn].sr = "INIT" /\ \A t \in Socks \ {sn} : chip'[t] = chip[t]
    BY <1>1, <1>2, OneSocket, Emptied DEF OpenOk, SocketOn
  <2>2. /\ port'[sn] \in PoolPorts(sn) /\ \A t \in Socks \ {sn} : port'[t] = port[t]
        /\ UNCHANGED <<sn, mainVars>>
    <3>1. \E q \in PoolPorts(sn) : port' = [port EXCEPT ![sn] = q]
      BY <1>2 DEF OpenOk, SocketOn, PoolPorts
    <3> QED BY <1>1, <1>2, <3>1 DEF OpenOk, TInv, MainOK
  <2>3. (pc = "open0" /\ pc' = "listen0") \/ pc' = "listen"
    BY <1>2 DEF OpenOk
  <2>4. ListenOK'
    BY <1>1, <2>1, <2>2, <2>3 DEF SInv, ListenOK
  <2>5. PortOK'
    BY <2>1, <2>2 DEF SInv, PortOK, PoolPorts, sock_port
  <2> QED BY <2>3, <2>4, <2>5 DEF SInv, UnreadOK, HalfOK
<1>3. CASE Listen \/ ListenFails
  <2>1. PICK k : /\ SetChip(sn, k)
                 /\ k.sr \in {IF chip[sn].sr = "INIT" THEN "LISTEN" ELSE chip[sn].sr, "CLOSED"}
    BY <1>1, <1>3, ListeningSock, Emptied DEF Listen, ListenFails
  <2>2. chip'[sn] = k /\ \A t \in Socks \ {sn} : chip'[t] = chip[t]
    BY <1>1, <2>1, OneSocket
  <2>3. UNCHANGED <<port, mainVars>>
    BY <1>3 DEF Listen, ListenFails
  <2>4. PortOK'
    BY <2>1, <2>2, <2>3, PortsKept
  <2>5. pc' = "poll" \/ (pc = "listen0" /\ pc' = "open0" /\ sn' = sn + 1)
    BY <1>3, Continued DEF Listen, ListenFails
  <2>6. ListenOK'
    BY <1>1, <2>1, <2>2, <2>5 DEF SInv, ListenOK
  <2> QED BY <2>4, <2>5, <2>6 DEF SInv, UnreadOK, HalfOK
<1> QED BY <1>2, <1>3

\* The check makes nothing listen, and gives back what it has opened on another port.
LEMMA CheckPlace ==
  ASSUME TInv, SInv, Check
  PROVE  SInv'
<1>1. UNCHANGED poolVars /\ sn \in Socks
  BY DEF Check, Scan, CheckOpen, CheckClose, TInv, PoolOK
<1>2. CASE UNCHANGED <<chip, port>> /\ main \notin {"cl_sr", "cl_close"}
  BY <1>1, <1>2 DEF SInv, ListenOK, PortOK, UnreadOK, HalfOK, PoolPorts, sock_port,
     Connected
<1>3. CASE (CheckOpen /\ SocketOn(fd, 0)) \/ CheckClose
  <2>1. fd \in Socks /\ UNCHANGED fd /\ chip[fd] \in SockOf(Bytes)
    BY <1>3, Parts DEF CheckOpen, CheckClose, TInv, MainOK
  <2>2. PICK k \in {Opened, Closed, Disconnecting(chip[fd]), chip[fd]} : SetChip(fd, k)
    BY <1>3 DEF SocketOn, CheckClose, CloseSr, CloseChip
  <2>3. chip'[fd] = k /\ \A t \in Socks \ {fd} : chip'[t] = chip[t]
    BY <2>1, <2>2, OneSocket
  <2>4. k = chip[fd] \/ k.sr \in {"INIT", "CLOSED", "FIN_WAIT", "LAST_ACK"}
    BY <2>1, <2>2, Emptied, DisconnectingSock
  <2>5. ListenOK'
    BY <1>1, <2>3, <2>4 DEF SInv, ListenOK
  <2>6. UnreadOK' /\ HalfOK'
    BY <1>1, <2>3, <2>4 DEF SInv, UnreadOK, HalfOK, Connected
  <2>7. PortOK'
    <3>1. CASE CheckOpen /\ SocketOn(fd, 0)
      <4>1. main' = "cl_sr" \/ (main = "open" /\ UNCHANGED <<chip, port>>)
        BY <3>1 DEF CheckOpen
      <4>2. \A t \in Socks \ {fd} : port'[t] = port[t]
        BY <3>1 DEF SocketOn, TInv, MainOK
      <4>3. main = "open"
        BY <3>1 DEF CheckOpen
      <4> QED BY <2>1, <2>3, <4>1, <4>2, <4>3 DEF SInv, PortOK, PoolPorts, sock_port
    <3>2. CASE CheckClose /\ main = "cl_sr"
      <4>1. main' = "cl_close" /\ port' = port
        BY <3>2 DEF CheckClose
      <4> QED BY <2>1, <2>3, <3>2, <4>1 DEF SInv, PortOK, PoolPorts, sock_port
    <3>3. CASE CheckClose /\ main = "cl_close"
      <4>1. chip'[fd].sr = "CLOSED" /\ port' = port /\ main' = "done"
        BY <2>1, <3>3, OneSocket, Emptied DEF CheckClose, CloseChip
      <4> QED BY <2>1, <2>3, <3>3, <4>1 DEF SInv, PortOK, PoolPorts, sock_port
    <3> QED BY <1>3, <3>1, <3>2, <3>3 DEF CheckClose
  <2> QED BY <2>5, <2>6, <2>7 DEF SInv
<1> QED BY <1>2, <1>3 DEF Check, Scan, CheckOpen

\* A client can connect only where nothing is being served, and can send only on a
\* connection that it has not half-closed.
LEMMA PeerPlace ==
  ASSUME TInv, SInv, NEW s \in Socks, Peer(s) \/ Wire(s)
  PROVE  SInv'
<1>1. UNCHANGED <<port, poolVars, mainVars>> /\ sn \in Socks
  BY DEF Peer, Wire, PeerConnect, PeerSend, PeerFin, PeerReset, ChipSendDone, ChipTimeout,
     TInv, PoolOK
<1>2. chip[s] \in SockOf(Bytes)
  BY Parts
<1>3. PICK k : /\ SetChip(s, k)
               /\ k.sr \notin {"INIT", "LISTEN"} \/ k.sr = chip[s].sr
               /\ k.sr = "ESTABLISHED" => chip[s].sr \in {"ESTABLISHED", "LISTEN"}
               /\ k.sr = "CLOSE_WAIT" => chip[s].sr \in {"ESTABLISHED", "CLOSE_WAIT"}
               /\ k.rx = chip[s].rx \/ (k.rx # <<>> /\ chip[s].sr = "ESTABLISHED")
  <2>1. CASE PeerConnect(s)
    BY <1>2, <2>1, GotConnectionSock DEF PeerConnect
  <2>2. CASE PeerSend(s)
    <3> DEFINE b == Byte(s, out[s] + 1)
    <3>1. TInv' /\ chip' = [chip EXCEPT ![s] = GotByte(chip[s], b)]
      BY <2>2, PeerStep DEF Peer, PeerSend, SetChip, Byte, TInv, PeerOK
    <3>2. GotByte(chip[s], b).rx = Append(chip[s].rx, b) /\ GotByte(chip[s], b).sr = chip[s].sr
      BY <1>2 DEF GotByte, SockOf
    <3> HIDE DEF b
    <3>3. Append(chip[s].rx, b) # <<>>
      BY <1>2 DEF SockOf
    <3> QED BY <2>2, <3>1, <3>2, <3>3 DEF PeerSend, SetChip
  <2>3. CASE PeerFin(s)
    BY <1>2, <2>3, GotFinSock DEF PeerFin
  <2>4. CASE PeerReset(s)
    BY <1>2, <2>4, GotResetSock DEF PeerReset
  <2>5. CASE ChipTimeout(s)
    BY <1>2, <2>5, SendTimeoutSock DEF ChipTimeout
  <2>6. CASE ChipSendDone(s)
    BY <1>2, <2>6, SendDoneSock DEF ChipSendDone
  <2> QED BY <2>1, <2>2, <2>3, <2>4, <2>5, <2>6 DEF Peer, Wire
<1>4. chip'[s] = k /\ \A t \in Socks \ {s} : chip'[t] = chip[t]
  BY <1>3, OneSocket
<1>5. ListenOK'
  BY <1>1, <1>3, <1>4 DEF SInv, ListenOK
<1>6. PortOK'
  BY <1>1, <1>3, <1>4, PortsKept
<1>7. UnreadOK' /\ HalfOK'
  <2>1. s # sn => chip'[sn] = chip[sn]
    BY <1>1, <1>4
  <2>2. CASE s # sn
    BY <1>1, <2>1, <2>2 DEF SInv, UnreadOK, HalfOK, Connected
  <2>3. CASE s = sn
    BY <1>1, <1>3, <1>4, <2>3 DEF SInv, ListenOK, UnreadOK, HalfOK, Connected
  <2> QED BY <2>2, <2>3
<1> QED BY <1>5, <1>6, <1>7 DEF SInv

\* SInv is inductive together with TInv.
LEMMA PlaceStep ==
  ASSUME TInv, SInv, [Next]_vars
  PROVE  SInv'
<1>1. CASE UNCHANGED vars
  BY <1>1 DEF vars, SInv, ListenOK, PortOK, UnreadOK, HalfOK, PoolPorts, sock_port,
     Connected
<1> QED BY <1>1, ServingPlace, LookPlace, ArmPlace, CheckPlace, PeerPlace DEF Next, Pool

\* For every base port that the configuration allows, each socket of the pool that listens
\* does so on a port of its own, which is base, base + 1, ... as far as there are such
\* ports, except while the routing check holds a socket that it took from under the pool
\* (OwnPort).
THEOREM OwnPortHolds == Spec => []OwnPort
<1>1. SInv => OwnPort
  <2> SUFFICES ASSUME SInv, NEW s \in Socks, ListensForPool(s)
               PROVE  /\ BASE + s - 1 <= UINT16_MAX => port[s] = BASE + s - 1
                      /\ \A t \in Socks \ {s} : ListensForPool(t) => port[t] # port[s]
    BY DEF OwnPort
  <2>1. \A t \in Socks : ListensForPool(t) => port[t] \in PoolPorts(t)
    BY DEF SInv, PortOK, ListensForPool
  <2>2. ASSUME BASE + s - 1 <= UINT16_MAX PROVE port[s] = BASE + s - 1
    <3>1. sock_port(s) = BASE + s - 1 /\ BASE + s - 1 # 0
      BY <2>2, Ports
    <3> QED BY <2>1, <3>1 DEF PoolPorts
  <2> QED BY <2>1, <2>2, PortsDiffer
<1> QED BY <1>1, TypeInit, TypeStep, PlaceInit, PlaceStep, PTL DEF Spec

\* The pool gives up a half-closed socket only when it has read all that the client has
\* sent, although it acts on a status that it read earlier (HalfCloseDrained).
THEOREM HalfClosesDrained == Spec => HalfCloseDrained
<1>1. SInv => [(pc = "cl_sr" /\ pc' # pc /\ chip[sn].sr = "CLOSE_WAIT") => chip[sn].rx = <<>>]_vars
  BY DEF SInv, HalfOK
<1> QED BY <1>1, TypeInit, TypeStep, PlaceInit, PlaceStep, PTL DEF Spec, HalfCloseDrained

-------------------------------------------------------------------------------
(* The bytes of the connections. *)

HandOK ==
  \A s \in Socks : /\ InHand(s) \in Seq(Bytes)
                   /\ s # sn \/ pc \notin SendPcs => InHand(s) = <<>>

\* The pool holds bytes only of the socket it is at, and only while it sends.
LEMMA Hands == TInv => HandOK
<1> SUFFICES ASSUME TInv, NEW s \in Socks
             PROVE  /\ InHand(s) \in Seq(Bytes)
                    /\ s # sn \/ pc \notin SendPcs => InHand(s) = <<>>
  BY DEF HandOK
<1>1. buf \in Seq(Bytes) /\ Len(buf) \in Nat /\ sent \in 0 .. Len(buf)
  BY LenProperties DEF TInv, PoolOK
<1>2. InHand(s) \in Seq(Bytes)
  <2>1. Len(buf) \in 0 .. Len(buf)
    BY <1>1
  <2> QED BY <1>1, <2>1, Cut, Emptied DEF InHand
<1>3. CASE s # sn
  BY <1>2, <1>3 DEF InHand
<1>4. CASE pc \notin SendPcs
  BY <1>1, <1>2, <1>4, Whole DEF TInv, PoolOK, InHand
<1> QED BY <1>2, <1>3, <1>4

\* So it is after a step.
LEMMA HandsNext ==
  ASSUME TInv'
  PROVE  \A s \in Socks : /\ InHand(s)' \in Seq(Bytes)
                          /\ s # sn' \/ pc' \notin SendPcs => InHand(s)' = <<>>
<1>1. (TInv => HandOK)'
  BY Hands, PTL
<1> QED BY <1>1 DEF HandOK

\* Both hold of a socket after a step that moves none of its bytes, except that it may
\* throw away what a connection that ends has not sent.
LEMMA Kept ==
  ASSUME TInv, FInv, NEW t \in Socks,
         conn'[t] = conn[t], out'[t] = out[t], got'[t] = got[t],
         chip'[t].tx \in {chip[t].tx, <<>>},
         Connected(chip'[t]) => /\ Connected(chip[t]) /\ chip'[t].rx = chip[t].rx
                                /\ chip'[t].tx = chip[t].tx /\ InHand(t)' = InHand(t)
  PROVE  ConservedAt(t)' /\ PrefixAt(t)'
<1>1. ConservedAt(t)'
  BY DEF FInv, ConservedAt, Connected
<1>2. CASE chip'[t].tx = chip[t].tx
  BY <1>1, <1>2 DEF FInv, PrefixAt
<1>3. CASE chip'[t].tx = <<>>
  <2>1. got[t] \in Seq(Bytes) /\ chip[t].tx \in Seq(Bytes) /\ out[t] \in Nat
    BY Parts
  <2>2. Begins(t, conn[t], out[t], got[t])
    BY <2>1, BeginsShorter DEF FInv, PrefixAt
  <2>3. got[t] \o <<>> = got[t]
    BY <2>1, JoinEmpty
  <2> QED BY <1>1, <1>3, <2>2, <2>3 DEF PrefixAt
<1> QED BY <1>2, <1>3

\* A step at one socket that leaves the client alone does nothing to the bytes of the
\* others.
LEMMA OthersKept ==
  ASSUME TInv, FInv, NEW s \in Socks, \A t \in Socks \ {s} : chip'[t] = chip[t],
         \A t \in Socks \ {s} : conn'[t] = conn[t] /\ out'[t] = out[t] /\ got'[t] = got[t],
         \A t \in Socks \ {s} : InHand(t)' = InHand(t),
         ConservedAt(s)' /\ PrefixAt(s)'
  PROVE  FInv'
<1>1. ASSUME NEW t \in Socks \ {s}
      PROVE  ConservedAt(t)' /\ PrefixAt(t)'
  BY <1>1, Kept
<1> QED BY <1>1 DEF FInv

\* When the bytes are conserved on a connection that is up, the client has a prefix.
LEMMA PrefixFollows ==
  TInv => \A s \in Socks : ConservedAt(s) /\ Connected(chip[s]) => PrefixAt(s)
<1> SUFFICES ASSUME TInv, NEW s \in Socks, ConservedAt(s), Connected(chip[s])
             PROVE  PrefixAt(s)
  OBVIOUS
<1>1. InHand(s) \in Seq(Bytes)
  BY Hands DEF HandOK
<1> QED BY <1>1, Parts, BeginsWhole DEF ConservedAt, PrefixAt

\* So it is after a step.
LEMMA PrefixNext ==
  ASSUME TInv'
  PROVE  \A s \in Socks : ConservedAt(s)' /\ Connected(chip'[s]) => PrefixAt(s)'
<1>1. (TInv => \A s \in Socks : ConservedAt(s) /\ Connected(chip[s]) => PrefixAt(s))'
  BY PrefixFollows, PTL
<1> QED BY <1>1 DEF Connected

\* At the start there is nothing to lose.
LEMMA FlowInit == Init => FInv
<1> SUFFICES ASSUME Init, NEW s \in Socks PROVE ConservedAt(s) /\ PrefixAt(s)
  BY DEF FInv
<1>1. /\ chip[s] = Closed /\ got[s] = <<>> /\ out[s] = 0
      /\ Closed.sr = "CLOSED" /\ Closed.tx = <<>>
  BY Emptied DEF Init
<1>2. <<>> \o <<>> = Numbered(s, conn[s], 0) /\ Len(<<>>) = 0
  BY DEF Numbered
<1> QED BY <1>1, <1>2 DEF ConservedAt, Connected, PrefixAt, Begins

\* The steps that do nothing to a socket.
LEMMA QuietFlow ==
  ASSUME TInv, FInv, OpenFails \/ Poll \/ Avail \/ RecvCheck \/ SendSr \/ Scan
  PROVE  FInv'
<1>1. TInv' /\ UNCHANGED <<chip, peerVars>>
  BY QuietStep DEF OpenFails, Poll, Avail, RecvCheck, SendSr, Scan
<1>2. ASSUME NEW t \in Socks, Connected(chip[t])
      PROVE  InHand(t)' = InHand(t)
  <2>1. CASE OpenFails \/ Poll \/ Avail \/ RecvCheck
    <3>1. pc \notin SendPcs /\ pc' \notin SendPcs
      BY <2>1, Continued DEF OpenFails, Poll, Avail, RecvCheck
    <3> QED BY <1>1, <3>1, Hands, HandsNext DEF HandOK
  <2>2. CASE SendSr
    <3>1. CASE UNCHANGED <<sn, buf, sent>>
      BY <3>1 DEF InHand
    <3>2. CASE ~Connected(chip[sn]) /\ SendReturns
      <4>1. pc' \notin SendPcs /\ t # sn
        BY <1>2, <3>2, Returned
      <4> QED BY <1>1, <4>1, Hands, HandsNext DEF HandOK
    <3> QED BY <2>2, <3>1, <3>2 DEF SendSr
  <2>3. CASE Scan
    BY <2>3 DEF Scan, InHand
  <2> QED BY <2>1, <2>2, <2>3
<1>3. ASSUME NEW t \in Socks PROVE ConservedAt(t)' /\ PrefixAt(t)'
  BY <1>1, <1>2, Kept
<1> QED BY <1>3 DEF FInv

\* Opening, listening and closing move no byte.
LEMMA ArmFlow ==
  ASSUME TInv, FInv, OpenOk \/ Listen \/ ListenFails \/ Close \/ CheckOpen \/ CheckClose
  PROVE  FInv'
<1>1. TInv' /\ UNCHANGED peerVars
  BY OpenStep, ListenStep, CloseStep DEF OpenOk, Listen, ListenFails, Close, CheckOpen, CheckClose
<1>2. \A t \in Socks : InHand(t)' = InHand(t)
  <2>1. CASE OpenOk \/ Listen \/ ListenFails \/ Close
    <3>1. pc \notin SendPcs /\ pc' \notin SendPcs
      BY <2>1, Continued DEF OpenOk, Listen, ListenFails, Close
    <3> QED BY <1>1, <3>1, Hands, HandsNext DEF HandOK
  <2>2. CASE CheckOpen \/ CheckClose
    BY <2>2 DEF CheckOpen, CheckClose, InHand
  <2> QED BY <2>1, <2>2
<1>3. CASE UNCHANGED chip
  <2>1. ASSUME NEW t \in Socks PROVE ConservedAt(t)' /\ PrefixAt(t)'
    BY <1>1, <1>2, <1>3, Kept
  <2> QED BY <2>1 DEF FInv
<1>4. ASSUME NEW s \in Socks, NEW k \in {Opened, Closed, Disconnecting(chip[s]),
                                        Listening(chip[s]), chip[s]}, SetChip(s, k)
      PROVE  FInv'
  <2>1. chip'[s] = k /\ \A t \in Socks \ {s} : chip'[t] = chip[t]
    BY <1>4, OneSocket
  <2>2. k.tx \in {chip[s].tx, <<>>} /\ (k = chip[s] \/ ~Connected(k))
    BY <1>4, Parts, Emptied, DisconnectingSock, ListeningSock DEF Connected
  <2>3. ConservedAt(s)' /\ PrefixAt(s)'
    BY <1>1, <1>2, <2>1, <2>2, Kept
  <2> QED BY <1>1, <1>2, <2>1, <2>3, OthersKept
<1>5. CASE OpenOk \/ Listen \/ ListenFails \/ Close
  <2>1. sn \in Socks
    BY DEF TInv, PoolOK
  <2>2. \E k \in {Opened, Closed, Disconnecting(chip[sn]), Listening(chip[sn]), chip[sn]} :
          SetChip(sn, k)
    BY <1>5 DEF OpenOk, SocketOn, Listen, ListenFails, Close, CloseSr, CloseChip
  <2> QED BY <1>4, <2>1, <2>2
<1>6. CASE (CheckOpen /\ SocketOn(fd, 0)) \/ CheckClose
  <2>1. fd \in Socks
    BY <1>6 DEF CheckOpen, CheckClose, TInv, MainOK
  <2>2. \E k \in {Opened, Closed, Disconnecting(chip[fd]), Listening(chip[fd]), chip[fd]} :
          SetChip(fd, k)
    BY <1>6 DEF SocketOn, CheckClose, CloseSr, CloseChip
  <2> QED BY <1>4, <2>1, <2>2
<1> QED BY <1>3, <1>5, <1>6 DEF CheckOpen

\* wiz_recv_data and RECV take from the receive buffer just what the pool gets.
LEMMA RecvFlow ==
  ASSUME TInv, SInv, FInv, RecvData
  PROVE  FInv'
<1>1. TInv' /\ UNCHANGED <<sn, sent, peerVars>> /\ sn \in Socks /\ pc \notin SendPcs
      /\ sent = 0 /\ pc = "recv_data"
  BY RecvStep DEF RecvData, TInv, PoolOK
<1>2. \A t \in Socks \ {sn} : InHand(t)' = InHand(t)
  BY <1>1, Hands, HandsNext DEF HandOK
<1>3. CASE chip[sn].rx = <<>> /\ UNCHANGED chip
  <2>1. ~Connected(chip'[sn])
    BY <1>1, <1>3 DEF SInv, UnreadOK
  <2>2. ConservedAt(sn)' /\ PrefixAt(sn)'
    BY <1>1, <1>3, <2>1, Kept
  <2> QED BY <1>1, <1>2, <1>3, <2>2, OthersKept
<1>4. ASSUME NEW n \in 1 .. Len(chip[sn].rx),
             buf' = SubSeq(chip[sn].rx, 1, n), SetChip(sn, Drained(chip[sn], n))
      PROVE  FInv'
  <2> DEFINE k == Drained(chip[sn], n)
  <2>1. chip[sn] \in SockOf(Bytes)
    BY <1>1, Parts
  <2>2. /\ k \in SockOf(Bytes) /\ k.sr = chip[sn].sr /\ k.tx = chip[sn].tx
        /\ buf' \in Seq(Bytes) /\ buf' \o k.rx = chip[sn].rx
    BY <1>4, <2>1, DrainedSock
  <2>3. SetChip(sn, k)
    BY <1>4
  <2> HIDE DEF k
  <2>4. chip'[sn] = k /\ \A t \in Socks \ {sn} : chip'[t] = chip[t]
    BY <1>1, <2>2, <2>3, OneSocket
  <2>5. InHand(sn)' = buf' /\ InHand(sn) = <<>>
    BY <1>1, <2>2, Hands, Whole DEF HandOK, InHand
  <2>6. Stream(got[sn], chip[sn].tx, InHand(sn), chip[sn].rx)
          = Stream(got[sn], k.tx, buf', k.rx)
    <3>1. got[sn] \in Seq(Bytes) /\ chip[sn].tx \in Seq(Bytes) /\ k.rx \in Seq(Bytes)
      BY <1>1, <2>2, Parts DEF SockOf
    <3>2. Cat(buf', k.rx) = chip[sn].rx
      BY <2>2 DEF Cat
    <3> QED BY <2>2, <2>5, <3>1, <3>2, Moves
  <2>7. ConservedAt(sn)'
    BY <1>1, <2>2, <2>4, <2>5, <2>6 DEF FInv, ConservedAt, Connected
  <2>8. PrefixAt(sn)'
    BY <1>1, <2>2, <2>4 DEF FInv, PrefixAt
  <2> QED BY <1>1, <1>2, <2>4, <2>7, <2>8, OthersKept
<1> QED BY <1>3, <1>4 DEF RecvData

\* toe_sock_send hands over what is left of the buffer, in order.
LEMMA SendFlow ==
  ASSUME TInv, FInv, SendIr \/ SendClr \/ SendWr
  PROVE  FInv'
<1> PICK s \in Socks : s = sn
  BY DEF TInv, PoolOK
<1>1. /\ TInv' /\ UNCHANGED peerVars /\ pc \in SendPcs /\ chip[s] \in SockOf(Bytes)
  BY SendStep, Parts DEF SendIr, SendClr, SendWr
<1>2. \A t \in Socks \ {s} : InHand(t)' = InHand(t)
  <2>1. pc' = "poll" \/ sn' = sn
    BY Returned DEF SendIr, SendClr, SendWr
  <2> QED BY <1>1, <2>1, Hands, HandsNext DEF HandOK
<1>3. ASSUME NEW k, SetChip(s, k), k.tx \in {chip[s].tx, <<>>},
             Connected(k) => /\ k.sr = chip[s].sr /\ k.rx = chip[s].rx /\ k.tx = chip[s].tx
                             /\ InHand(s)' = InHand(s)
      PROVE  FInv'
  <2>1. chip'[s] = k /\ \A t \in Socks \ {s} : chip'[t] = chip[t]
    BY <1>1, <1>3, OneSocket
  <2>2. ConservedAt(s)' /\ PrefixAt(s)'
    BY <1>1, <1>3, <2>1, Kept DEF Connected
  <2> QED BY <1>1, <1>2, <2>1, <2>2, OthersKept
<1>4. CASE UNCHANGED <<chip, sn, buf, sent>>
  <2>1. InHand(s)' = InHand(s)
    BY <1>4 DEF InHand
  <2>2. ConservedAt(s)' /\ PrefixAt(s)'
    BY <1>1, <1>4, <2>1, Kept
  <2> QED BY <1>1, <1>2, <1>4, <2>2, OthersKept
<1>5. CASE SetChip(s, Closed)
  BY <1>3, <1>5, Emptied DEF Connected
<1>6. CASE SendClr
  <2> DEFINE a == Acked(chip[s], {"SENDOK"})
             k == [a EXCEPT !.sending = FALSE]
  <2>1. a \in SockOf(Bytes) /\ a.sr = chip[s].sr /\ a.rx = chip[s].rx /\ a.tx = chip[s].tx
    BY <1>1, AckedSock
  <2>2. SetChip(s, k) /\ InHand(s)' = InHand(s)
    BY <1>6 DEF SendClr, InHand
  <2> HIDE DEF a
  <2>3. k.sr = chip[s].sr /\ k.rx = chip[s].rx /\ k.tx = chip[s].tx
    BY <2>1 DEF SockOf
  <2> HIDE DEF k
  <2> QED BY <1>3, <2>2, <2>3
<1>7. CASE SendWr
  <2> DEFINE n == IF Len(buf) - sent < TXMAX THEN Len(buf) - sent ELSE TXMAX
             d == SubSeq(buf, sent + 1, sent + n)
             k == Sending(chip[s], d)
             rest == SubSeq(buf, sent + n + 1, Len(buf))
  <2>1. \/ SetChip(s, Closed)
        \/ UNCHANGED <<chip, sn, buf, sent>>
        \/ /\ Connected(chip[s]) /\ SetChip(s, k)
           /\ \/ UNCHANGED <<sn, buf>> /\ sent' = sent + n
              \/ SendReturns /\ sent + n = Len(buf)
    BY <1>7 DEF SendWr
  <2>2. CASE /\ Connected(chip[s]) /\ SetChip(s, k)
             /\ \/ UNCHANGED <<sn, buf>> /\ sent' = sent + n
                \/ SendReturns /\ sent + n = Len(buf)
    <3>1. /\ buf \in Seq(Bytes) /\ n \in Nat /\ sent + n \in 0 .. Len(buf)
          /\ sent \in 0 .. sent + n
      BY <1>1, Bounds, LenProperties DEF TInv, PoolOK
    <3>2. d \in Seq(Bytes) /\ rest \in Seq(Bytes) /\ d \o rest = InHand(s)
      BY <3>1, Cut DEF InHand
    <3>3. InHand(s)' = rest
      <4>1. CASE UNCHANGED <<sn, buf>> /\ sent' = sent + n
        BY <4>1 DEF InHand
      <4>2. CASE SendReturns /\ sent + n = Len(buf)
        <5>1. rest = <<>>
          BY <3>1, <4>2, Whole
        <5>2. pc' \notin SendPcs
          BY <4>2, Returned
        <5> QED BY <1>1, <5>1, <5>2, HandsNext
      <4> QED BY <2>2, <4>1, <4>2
    <3> HIDE DEF n, d, rest
    <3>4. /\ k \in SockOf(Bytes) /\ k.sr = chip[s].sr /\ k.rx = chip[s].rx
          /\ k.tx = chip[s].tx \o d
      <4> DEFINE h == chip[s]
      <4>1. h \in SockOf(Bytes) /\ d \in Seq(Bytes)
        BY <1>1, <3>2
      <4> HIDE DEF h
      <4>2. /\ Sending(h, d) \in SockOf(Bytes) /\ Sending(h, d).sr = h.sr
            /\ Sending(h, d).rx = h.rx /\ Sending(h, d).tx = h.tx \o d
        BY <4>1, SendingSock
      <4> QED BY <4>2 DEF h
    <3> HIDE DEF k
    <3>5. chip'[s] = k /\ \A t \in Socks \ {s} : chip'[t] = chip[t]
      BY <1>1, <2>2, <3>4, OneSocket
    <3>6. Stream(got[s], chip[s].tx, InHand(s), chip[s].rx)
            = Stream(got[s], k.tx, rest, k.rx)
      <4>1. got[s] \in Seq(Bytes) /\ chip[s].tx \in Seq(Bytes) /\ chip[s].rx \in Seq(Bytes)
        BY <1>1, Parts
      <4>2. Cat(d, rest) = InHand(s) /\ Cat(chip[s].tx, d) = k.tx
        BY <3>2, <3>4 DEF Cat
      <4> DEFINE p == got[s]
                 t == chip[s].tx
                 r == chip[s].rx
      <4>3. p \in Seq(Bytes) /\ t \in Seq(Bytes) /\ r \in Seq(Bytes)
        BY <4>1
      <4> HIDE DEF p, t, r
      <4>4. Stream(p, t, Cat(d, rest), r) = Stream(p, Cat(t, d), rest, r)
        BY <3>2, <4>3, Moves
      <4> QED BY <3>4, <4>2, <4>4 DEF p, t, r
    <3>7. ConservedAt(s)' /\ Connected(chip'[s])
      BY <1>1, <2>2, <3>3, <3>4, <3>5, <3>6 DEF FInv, ConservedAt, Connected
    <3>8. PrefixAt(s)'
      BY <1>1, <3>7, PrefixNext
    <3> QED BY <1>1, <1>2, <3>5, <3>7, <3>8, OthersKept
  <2> QED BY <1>4, <1>5, <2>1, <2>2
<1> QED BY <1>4, <1>5, <1>6, <1>7 DEF SendIr

\* A connection starts with nothing in any buffer, a byte joins the others at the end,
\* and what the client gets is what waited in the transmit buffer.
LEMMA PeerFlow ==
  ASSUME TInv, SInv, FInv, NEW s \in Socks, Peer(s) \/ Wire(s)
  PROVE  FInv'
<1>1. /\ TInv' /\ UNCHANGED poolVars
      /\ \A t \in Socks : InHand(t)' = InHand(t)
  BY PeerStep DEF Peer, Wire, PeerConnect, PeerSend, PeerFin, PeerReset, ChipSendDone,
     ChipTimeout, InHand
<1>2. /\ chip[s] \in SockOf(Bytes) /\ chip[s].rx \in Seq(Bytes) /\ chip[s].tx \in Seq(Bytes)
      /\ got[s] \in Seq(Bytes) /\ InHand(s) \in Seq(Bytes) /\ out[s] \in Nat
  BY Parts, Hands DEF HandOK
<1>3. ASSUME NEW k, SetChip(s, k), ConservedAt(s)' /\ PrefixAt(s)',
             \A t \in Socks \ {s} : conn'[t] = conn[t] /\ out'[t] = out[t] /\ got'[t] = got[t]
      PROVE  FInv'
  <2>1. \A t \in Socks \ {s} : chip'[t] = chip[t]
    BY <1>3, OneSocket
  <2> QED BY <1>1, <1>3, <2>1, OthersKept
<1>4. CASE PeerConnect(s)
  <2> DEFINE k == GotConnection(chip[s])
  <2>1. chip[s].rx = <<>> /\ chip[s].tx = <<>> /\ (s = sn => pc \notin SendPcs)
    BY <1>4 DEF PeerConnect, TInv, FreshOK, SInv, ListenOK
  <2>2. InHand(s) = <<>>
    BY <2>1, Hands DEF HandOK
  <2>3. k.rx = <<>> /\ k.tx = <<>> /\ k.sr = "ESTABLISHED" /\ SetChip(s, k)
    BY <1>2, <1>4, <2>1, GotConnectionSock DEF PeerConnect
  <2> HIDE DEF k
  <2>4. chip'[s] = k
    BY <2>3, OneSocket
  <2>5. /\ out'[s] = 0 /\ got'[s] = <<>>
        /\ \A t \in Socks \ {s} : conn'[t] = conn[t] /\ out'[t] = out[t] /\ got'[t] = got[t]
    BY <1>4 DEF PeerConnect, TInv, PeerOK
  <2>6. Stream(<<>>, <<>>, <<>>, <<>>) = Numbered(s, conn'[s], 0)
    BY DEF Numbered, Stream
  <2>7. ConservedAt(s)' /\ Connected(chip'[s])
    BY <1>1, <2>2, <2>3, <2>4, <2>5, <2>6 DEF ConservedAt, Connected
  <2>8. PrefixAt(s)'
    BY <1>1, <2>7, PrefixNext
  <2> QED BY <1>3, <2>3, <2>5, <2>7, <2>8
<1>5. CASE PeerSend(s)
  <2> DEFINE b == <<s, conn[s], out[s] + 1>>
             k == GotByte(chip[s], b)
  <2>1. /\ Connected(chip[s]) /\ SetChip(s, k) /\ conn' = conn /\ got' = got
        /\ out'[s] = out[s] + 1 /\ \A t \in Socks \ {s} : out'[t] = out[t]
    BY <1>5 DEF PeerSend, Byte, Connected, TInv, PeerOK
  <2>2. b = <<s, conn[s], out[s] + 1>>
    OBVIOUS
  <2>3. b \in Bytes
    <3>1. out'[s] \in 0 .. MAXBYTES /\ conn[s] \in 0 .. MAXCONNS /\ conn[s] >= 1
      BY <1>1, <1>5 DEF PeerSend, TInv, PeerOK
    <3> QED BY <1>2, <2>1, <3>1, Bounds DEF Bytes
  <2> HIDE DEF b
  <2>4. k.sr = chip[s].sr /\ k.tx = chip[s].tx /\ k.rx = Append(chip[s].rx, b)
    <3>1. chip[s] \in SockOf(Bytes)
      BY <1>2
    <3> QED BY <2>3, <3>1, GotByteSock
  <2> HIDE DEF k
  <2>5. chip'[s] = k
    BY <2>1, OneSocket
  <2>6. Stream(got[s], chip[s].tx, InHand(s), chip[s].rx) = Numbered(s, conn[s], out[s])
    BY <2>1 DEF FInv, ConservedAt
  <2>7. Stream(got[s], chip[s].tx, InHand(s), k.rx) = Numbered(s, conn[s], out[s] + 1)
    BY <1>2, <2>2, <2>3, <2>4, <2>6, ByteArrives
  <2>8. ConservedAt(s)' /\ Connected(chip'[s])
    BY <1>1, <2>1, <2>4, <2>5, <2>7 DEF ConservedAt, Connected
  <2>9. PrefixAt(s)'
    BY <1>1, <2>8, PrefixNext
  <2> QED BY <1>3, <2>1, <2>8, <2>9
<1>6. CASE PeerFin(s) \/ PeerReset(s) \/ ChipTimeout(s)
  <2>1. UNCHANGED peerVars
    BY <1>6 DEF PeerFin, PeerReset, ChipTimeout
  <2>2. PICK k : /\ SetChip(s, k) /\ k.tx \in {chip[s].tx, <<>>}
                 /\ Connected(k) => /\ Connected(chip[s]) /\ k.rx = chip[s].rx
                                    /\ k.tx = chip[s].tx
    <3>1. CASE PeerFin(s)
      BY <1>2, <3>1, GotFinSock DEF PeerFin, Connected
    <3>2. CASE PeerReset(s) \/ ChipTimeout(s)
      BY <1>2, <3>2, GotResetSock, SendTimeoutSock DEF PeerReset, ChipTimeout, Connected
    <3> QED BY <1>6, <3>1, <3>2
  <2>3. chip'[s] = k
    BY <2>2, OneSocket
  <2>4. ConservedAt(s)' /\ PrefixAt(s)'
    BY <1>1, <2>1, <2>2, <2>3, Kept
  <2> QED BY <1>3, <2>1, <2>2, <2>4
<1>7. CASE ChipSendDone(s)
  <2> DEFINE k == SendDone(chip[s])
  <2>1. k.sr = chip[s].sr /\ k.rx = chip[s].rx /\ k.tx = <<>> /\ SetChip(s, k)
    BY <1>2, <1>7, SendDoneSock DEF ChipSendDone
  <2> HIDE DEF k
  <2>2. chip'[s] = k
    BY <2>1, OneSocket
  <2>3. /\ conn' = conn /\ out' = out /\ got'[s] = got[s] \o chip[s].tx
        /\ \A t \in Socks \ {s} : got'[t] = got[t]
    BY <1>7 DEF ChipSendDone, TInv, PeerOK
  <2>4. Stream(got'[s], <<>>, InHand(s), chip[s].rx)
          = Stream(got[s], chip[s].tx, InHand(s), chip[s].rx)
    <3>1. got'[s] = Cat(got[s], chip[s].tx)
      BY <2>3 DEF Cat
    <3> QED BY <1>2, <3>1, Moves
  <2>5. ConservedAt(s)'
    BY <1>1, <2>1, <2>2, <2>3, <2>4 DEF FInv, ConservedAt, Connected
  <2>6. (got[s] \o chip[s].tx) \o <<>> = got[s] \o chip[s].tx
    BY <1>2, Joined, JoinEmpty
  <2>7. PrefixAt(s)'
    BY <2>1, <2>2, <2>3, <2>6 DEF FInv, PrefixAt
  <2> QED BY <1>3, <2>1, <2>3, <2>5, <2>7
<1> QED BY <1>4, <1>5, <1>6, <1>7 DEF Peer, Wire

\* The bytes are conserved by every step.
LEMMA FlowStep ==
  ASSUME TInv, SInv, FInv, [Next]_vars
  PROVE  FInv'
<1>1. CASE UNCHANGED vars
  BY <1>1 DEF vars, FInv, ConservedAt, PrefixAt, InHand, Connected
<1> QED BY <1>1, QuietFlow, ArmFlow, RecvFlow, SendFlow, PeerFlow DEF Next, Pool, Check

\* The three invariants together.
LEMMA AllInvariant == Spec => [](TInv /\ SInv /\ FInv)
<1>1. Init => TInv /\ SInv /\ FInv
  BY TypeInit, PlaceInit, FlowInit
<1>2. TInv /\ SInv /\ FInv /\ [Next]_vars => (TInv /\ SInv /\ FInv)'
  BY TypeStep, PlaceStep, FlowStep
<1> QED BY <1>1, <1>2, PTL DEF Spec

\* While a connection is up no byte its client sent is lost, doubled, reordered, or
\* crossed with those of another socket or connection, whichever socket the pool turned
\* to in between with its one buffer (Conserved).
THEOREM NoByteLost == Spec => []Conserved
<1>1. FInv => Conserved
  BY DEF FInv, ConservedAt, Conserved, Stream, Numbered, Byte
<1> QED BY <1>1, AllInvariant, PTL

-------------------------------------------------------------------------------
(* The outcome of a SEND. *)

\* A step at one socket keeps AnswerOK if that socket's SEND is answered, over, or as it was.
LEMMA AnswerKept ==
  ASSUME TInv, AnswerOK, NEW s \in Socks, NEW k, SetChip(s, k),
         \/ ~k.sending \/ ~Connected(k) \/ k.tx # <<>> \/ "SENDOK" \in k.ir
         \/ /\ k.sending = chip[s].sending /\ k.tx = chip[s].tx /\ chip[s].ir \subseteq k.ir
            /\ Connected(chip[s])
  PROVE  AnswerOK'
<1>1. chip'[s] = k /\ \A t \in Socks \ {s} : chip'[t] = chip[t]
  BY OneSocket
<1> QED BY <1>1 DEF AnswerOK

\* What the pool and the check do to a socket.
LEMMA AnswerHere ==
  ASSUME TInv, AnswerOK, Pool \/ Check
  PROVE  AnswerOK'
<1>1. sn \in Socks /\ chip[sn] \in SockOf(Bytes)
  BY Parts DEF TInv, PoolOK
<1>2. CASE UNCHANGED chip
  BY <1>2 DEF AnswerOK
<1>3. ASSUME NEW s \in Socks, NEW k \in {chip[s], Closed, Opened, Disconnecting(chip[s])},
             SetChip(s, k)
      PROVE  AnswerOK'
  <2>1. k = chip[s] \/ ~Connected(k)
    BY <1>3, Parts, DisconnectingSock, Emptied DEF Connected
  <2>2. k = chip[s] => UNCHANGED chip
    BY <1>3 DEF SetChip, TInv, ChipOK
  <2> QED BY <1>2, <1>3, <2>1, <2>2, AnswerKept
<1>4. CASE OpenOk \/ ListenFails \/ Close
  BY <1>1, <1>3, <1>4 DEF OpenOk, SocketOn, ListenFails, Close, CloseSr, CloseChip
<1>5. CASE Check
  <2>1. main \in {"open", "cl_sr", "cl_close"} => fd \in Socks
    BY DEF TInv, MainOK
  <2> QED BY <1>2, <1>3, <1>5, <2>1 DEF Check, Scan, CheckOpen, CheckClose, SocketOn, CloseSr,
          CloseChip
<1>6. CASE Listen
  <2>1. \E k \in {chip[sn], Listening(chip[sn])} : SetChip(sn, k)
    BY <1>6 DEF Listen
  <2>2. Listening(chip[sn]).sr = "LISTEN"
    BY <1>1, ListeningSock
  <2> QED BY <1>1, <1>3, <2>1, <2>2, AnswerKept DEF Connected
<1>7. CASE RecvData
  <2>1. CASE UNCHANGED chip
    BY <1>2, <2>1
  <2>2. ASSUME NEW n \in 1 .. Len(chip[sn].rx), SetChip(sn, Drained(chip[sn], n))
        PROVE  AnswerOK'
    <3>1. /\ Drained(chip[sn], n).tx = chip[sn].tx /\ Drained(chip[sn], n).ir = chip[sn].ir
          /\ Drained(chip[sn], n).sending = chip[sn].sending
          /\ Drained(chip[sn], n).sr = chip[sn].sr
      BY <1>1, DrainedSock
    <3> QED BY <1>1, <2>2, <3>1, AnswerKept DEF Connected
  <2> QED BY <1>7, <2>1, <2>2 DEF RecvData
<1>8. CASE SendIr
  BY <1>1, <1>2, <1>3, <1>8 DEF SendIr
<1>9. CASE SendClr
  <2> DEFINE k == [Acked(chip[sn], {"SENDOK"}) EXCEPT !.sending = FALSE]
  <2>1. Acked(chip[sn], {"SENDOK"}) \in SockOf(Bytes)
    BY <1>1, AckedSock
  <2>2. ~k.sending /\ SetChip(sn, k)
    BY <1>9, <2>1 DEF SendClr, SockOf
  <2> HIDE DEF k
  <2> QED BY <1>1, <2>2, AnswerKept
<1>10. CASE SendWr
  <2> DEFINE n == IF Len(buf) - sent < TXMAX THEN Len(buf) - sent ELSE TXMAX
             d == SubSeq(buf, sent + 1, sent + n)
  <2>1. \/ SetChip(sn, Closed) \/ UNCHANGED chip \/ SetChip(sn, Sending(chip[sn], d))
    BY <1>10 DEF SendWr
  <2>2. buf \in Seq(Bytes) /\ sent \in Nat /\ sent < Len(buf) /\ Len(buf) \in Nat
    BY <1>10, LenProperties DEF SendWr, TInv, PoolOK
  <2>3. n \in Nat /\ n >= 1 /\ sent + n \in 0 .. Len(buf) /\ sent \in 0 .. sent + n
    BY <2>2, Bounds
  <2>4. d \in Seq(Bytes) /\ Len(d) >= 1
    BY <2>2, <2>3, Cut
  <2> HIDE DEF n, d
  <2>5. Len(chip[sn].tx) \in Nat /\ Len(d) \in Nat
    BY <1>1, <2>4, Parts, LenProperties
  <2>6. Len(Sending(chip[sn], d).tx) = Len(chip[sn].tx) + Len(d)
    <3> DEFINE h == chip[sn]
    <3>1. h \in SockOf(Bytes)
      BY <1>1
    <3> HIDE DEF h
    <3>2. Len(Sending(h, d).tx) = Len(h.tx) + Len(d)
      BY <2>4, <3>1, SendingSock
    <3> QED BY <3>2 DEF h
  <2>7. Sending(chip[sn], d).tx # <<>>
    BY <2>4, <2>5, <2>6, Emptied
  <2> QED BY <1>1, <1>2, <1>3, <2>1, <2>7, AnswerKept
<1>11. CASE OpenFails \/ Poll \/ Avail \/ RecvCheck \/ SendSr
  BY <1>2, <1>11 DEF OpenFails, Poll, Avail, RecvCheck, SendSr
<1> QED BY <1>4, <1>5, <1>6, <1>7, <1>8, <1>9, <1>10, <1>11 DEF Pool

\* What the client and the chip do to it.
LEMMA AnswerPeer ==
  ASSUME TInv, AnswerOK, NEW s \in Socks, Peer(s) \/ Wire(s)
  PROVE  AnswerOK'
<1>1. chip[s] \in SockOf(Bytes)
  BY Parts
<1>2. CASE PeerConnect(s)
  <2>1. ~GotConnection(chip[s]).sending
    BY <1>1, <1>2, GotConnectionSock DEF PeerConnect, TInv, FreshOK
  <2> QED BY <1>2, <2>1, AnswerKept DEF PeerConnect
<1>3. CASE PeerSend(s)
  <2> DEFINE b == Byte(s, out[s] + 1)
             k == GotByte(chip[s], b)
  <2>1. out'[s] = out[s] + 1 /\ SetChip(s, k) /\ Connected(chip[s])
    BY <1>3 DEF PeerSend, TInv, PeerOK, Connected
  <2>2. b \in Bytes
    <3>1. out'[s] \in 0 .. MAXBYTES /\ conn[s] \in 0 .. MAXCONNS /\ conn[s] >= 1
      BY <1>3, PeerStep DEF PeerSend, Peer, TInv, PeerOK
    <3> QED BY <2>1, <3>1, Parts, Bounds DEF Bytes, Byte
  <2> HIDE DEF b
  <2>3. k.tx = chip[s].tx /\ k.sending = chip[s].sending /\ k.ir = chip[s].ir \cup {"RECV"}
    BY <1>1, <2>2, GotByteSock
  <2> HIDE DEF k
  <2> QED BY <2>1, <2>3, AnswerKept
<1>4. CASE PeerFin(s)
  <2> DEFINE k == GotFin(chip[s])
  <2>1. /\ k.sr = (IF chip[s].sr = "ESTABLISHED" THEN "CLOSE_WAIT" ELSE "CLOSED")
        /\ k.tx = chip[s].tx /\ k.sending = chip[s].sending
        /\ k.ir = chip[s].ir \cup {"DISCON"} /\ SetChip(s, k)
    BY <1>1, <1>4, GotFinSock DEF PeerFin
  <2> HIDE DEF k
  <2> QED BY <2>1, AnswerKept DEF Connected
<1>5. CASE PeerReset(s) \/ ChipTimeout(s)
  <2>1. \E k : SetChip(s, k) /\ k.sr = "CLOSED"
    BY <1>1, <1>5, GotResetSock, SendTimeoutSock DEF PeerReset, ChipTimeout
  <2> QED BY <2>1, AnswerKept DEF Connected
<1>6. CASE ChipSendDone(s)
  <2>1. SetChip(s, SendDone(chip[s])) /\ "SENDOK" \in SendDone(chip[s]).ir
    BY <1>1, <1>6, SendDoneSock DEF ChipSendDone
  <2> QED BY <2>1, AnswerKept
<1> QED BY <1>2, <1>3, <1>4, <1>5, <1>6 DEF Peer, Wire

\* toe_sock_send never waits for an outcome that it has missed: it finds its socket busy
\* only while the chip is still sending, whatever the check and the clients do
\* (BusyWhileSending).
THEOREM BusyOnlyWhileSending == Spec => BusyWhileSending
<1>1. Init => AnswerOK
  BY Emptied DEF Init, AnswerOK
<1>2. TInv /\ AnswerOK /\ [Next]_vars => AnswerOK'
  <2>1. TInv /\ AnswerOK /\ UNCHANGED vars => AnswerOK'
    BY DEF vars, AnswerOK, Connected
  <2> QED BY <2>1, AnswerHere, AnswerPeer DEF Next
<1>3. TInv /\ AnswerOK /\ [Next]_vars =>
        [pc = "send_ir" /\ pc' = "send_sr" /\ Connected(chip[sn]) => chip[sn].tx # <<>>]_vars
  <2> SUFFICES ASSUME TInv, AnswerOK, Next, pc = "send_ir", pc' = "send_sr", Connected(chip[sn])
               PROVE  chip[sn].tx # <<>>
    OBVIOUS
  <2>1. SendIr
    BY DEF Next, Pool, OpenOk, OpenFails, Listen, ListenFails, Poll, Avail, RecvCheck, RecvData,
       SendSr, SendClr, SendWr, Close, Check, Scan, CheckOpen, CheckClose, Peer, Wire, PeerConnect,
       PeerSend, PeerFin, PeerReset, ChipSendDone, ChipTimeout
  <2>2. chip[sn].sending /\ "SENDOK" \notin chip[sn].ir
    BY <2>1, Continued DEF SendIr, SendReturns, Continue
  <2> QED BY <2>2 DEF AnswerOK, TInv, PoolOK
<1> QED BY <1>1, <1>2, <1>3, TypeInit, TypeStep, PTL DEF Spec, BusyWhileSending

-------------------------------------------------------------------------------
(* The echo service. *)

\* When a SEND is done the client gets the next bytes of its connection.
LEMMA ServiceEcho ==
  ASSUME TInv, FInv, NEW s \in Socks, ChipSendDone(s)
  PROVE  \E n \in 1 .. out[s] : Service!Echo(s, n)
<1> DEFINE n == Len(chip[s].tx)
<1>1. /\ got[s] \in Seq(Bytes) /\ chip[s].tx \in Seq(Bytes) /\ out[s] \in Nat
      /\ chip[s].tx # <<>> /\ Len(got[s]) \in Nat /\ n \in Nat
  BY Parts DEF ChipSendDone
<1>2. n >= 1
  BY <1>1, EmptySeq
<1>3. /\ Len(got[s] \o chip[s].tx) <= out[s]
      /\ Cat(got[s], chip[s].tx) = Numbered(s, conn[s], Len(got[s] \o chip[s].tx))
  BY DEF FInv, PrefixAt, Begins, Cat
<1>4. Len(got[s] \o chip[s].tx) = Len(got[s]) + n
  BY <1>1, Joined
<1>5. chip[s].tx = NumberedFrom(s, conn[s], Len(got[s]), n)
  <2> DEFINE g == got[s]
             x == chip[s].tx
             m == Len(g \o x)
  <2>1. g \in Seq(Bytes) /\ x \in Seq(Bytes) /\ Cat(g, x) = Numbered(s, conn[s], m)
    BY <1>1, <1>3
  <2>2. m \in Nat
    <3>1. (g \o x) \in Seq(Bytes)
      BY <2>1, Joined
    <3> QED BY <3>1, LenProperties
  <2> HIDE DEF g, x, m
  <2>3. x = NumberedFrom(s, conn[s], Len(g), Len(x))
    BY <2>1, <2>2, NumberedSplit
  <2> QED BY <2>3 DEF g, x
<1>6. got' = [got EXCEPT ![s] = @ \o chip[s].tx] /\ conn' = conn /\ out' = out
  BY DEF ChipSendDone
<1> HIDE DEF n
<1>7. n \in 1 .. out[s] /\ n \in 1 .. out[s] - Len(got[s])
  BY <1>1, <1>2, <1>3, <1>4
<1>8. Service!Echo(s, n)
  BY <1>5, <1>6, <1>7 DEF Service!Echo, Service!Byte, NumberedFrom
<1> QED BY <1>7, <1>8

\* Every other step of the system is one of a client's or does not show.
LEMMA ServiceStep ==
  ASSUME TInv, FInv, [Next]_vars
  PROVE  [Service!Next]_<<conn, out, got>>
<1>1. ASSUME NEW s \in Socks, PeerConnect(s)
      PROVE  Service!Next
  <2>1. Service!Connect(s)
    BY <1>1 DEF PeerConnect, Service!Connect
  <2> QED BY <2>1 DEF Service!Next
<1>2. ASSUME NEW s \in Socks, PeerSend(s)
      PROVE  Service!Next
  <2>1. Service!Send(s)
    BY <1>2 DEF PeerSend, Service!Send
  <2> QED BY <2>1 DEF Service!Next
<1>3. ASSUME NEW s \in Socks, ChipSendDone(s)
      PROVE  Service!Next
  <2>1. PICK n \in 1 .. out[s] : Service!Echo(s, n)
    BY <1>3, ServiceEcho
  <2> QED BY <2>1 DEF Service!Next
<1>4. CASE \A s \in Socks : ~(PeerConnect(s) \/ PeerSend(s) \/ ChipSendDone(s))
  BY <1>4 DEF Next, vars, Pool, OpenOk, OpenFails, Listen, ListenFails, Poll, Avail, RecvCheck,
     RecvData, SendSr, SendIr, SendClr, SendWr, Close, Check, Scan, CheckOpen, CheckClose, Peer,
     PeerFin, PeerReset, Wire, ChipTimeout
<1> QED BY <1>1, <1>2, <1>3, <1>4

\* The pool implements EchoService on all its sockets: every client gets back, in order and
\* each once, a prefix of what it sent on its connection, also after the connection's end
\* and also when the routing check has closed the socket (EchoesFaithfully).
THEOREM Refines == Spec => EchoesFaithfully
<1>1. Init => Service!Init
  BY DEF Init, Service!Init
<1> QED BY <1>1, AllInvariant, ServiceStep, PTL DEF Spec, EchoesFaithfully, Service!Spec
===============================================================================
