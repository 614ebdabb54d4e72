---------------------------- MODULE ToeStreamProofs ----------------------------
(***************************************************************************)
(* Proofs about ToeStream: for any sizes of the buffers, any number of     *)
(* connections and bytes, and however the client, the chip, the server and *)
(* the dispatcher interleave.                                              *)
(***************************************************************************)
EXTENDS ToeStream, StreamLemmas

-------------------------------------------------------------------------------
(* The inductive invariant. *)

Pcs  == ListenPcs \cup {"accept"} \cup RecvPcs \cup SendPcs \cup ClosePcs

ChipOK == chip \in SockOf(Bytes) /\ Len(chip.rx) <= RXMAX /\ Len(chip.tx) <= TXMAX

\* The buffer is in use exactly while the server sends, which it stops doing when
\* nothing is left.
SrvOK ==
  /\ pc \in Pcs /\ buf \in Seq(Bytes) /\ Len(buf) <= BUFSIZE /\ sent \in Nat
  /\ pc \in SendPcs => sent < Len(buf)
  /\ pc \notin SendPcs => buf = <<>> /\ sent = 0

DispOK == disp \in {"off", "idle", "latched"} /\ latch \subseteq IrBits

\* An established connection is one the client made.
PeerOK ==
  /\ conn \in 0 .. MAXCONNS /\ out \in 0 .. MAXBYTES /\ got \in Seq(Bytes)
  /\ chip.sr = "ESTABLISHED" => conn >= 1

\* A socket that was opened holds nothing until a client connects, and it is opened
\* only where the server does it.
FreshOK ==
  /\ chip.sr \in {"INIT", "LISTEN"} => chip.rx = <<>> /\ chip.tx = <<>> /\ ~chip.sending
  /\ chip.sr = "INIT" <=> pc = "re_listen"
  /\ chip.sr = "LISTEN" => pc = "accept"

TInv == ChipOK /\ SrvOK /\ DispOK /\ PeerOK /\ FreshOK

\* What the server has received and not yet handed to the chip.
Hand == SubSeq(buf, sent + 1, Len(buf))

\* What the client has got and what is on its way to it, also when the connection is
\* no longer up, is the beginning of what it sent.
Prefix == Begins(1, conn, out, got \o chip.tx)

-------------------------------------------------------------------------------

USE DEF ListenPcs, RecvPcs, SendPcs, ClosePcs, srvVars, dispVars, peerVars

\* The sizes are positive numbers.
LEMMA Bounds ==
  /\ RXMAX \in Nat /\ TXMAX \in Nat /\ BUFSIZE \in Nat /\ MAXCONNS \in Nat /\ MAXBYTES \in Nat
  /\ RXMAX >= 1 /\ TXMAX >= 1 /\ BUFSIZE >= 1 /\ MAXCONNS >= 1 /\ MAXBYTES >= 1
BY BoundsAssumption

\* A socket that was closed or opened fits any buffers.
LEMMA Emptied ==
  /\ \A k \in {Closed, Opened} : /\ k \in SockOf(Bytes) /\ k.rx = <<>> /\ k.tx = <<>>
                                /\ ~k.sending
                                /\ Len(k.rx) <= RXMAX /\ Len(k.tx) <= TXMAX
  /\ Closed.sr = "CLOSED" /\ Opened.sr = "INIT"
  /\ <<>> \in Seq(Bytes) /\ Len(<<>>) = 0 /\ 0 <= BUFSIZE
<1>1. <<>> \in Seq(Bytes) /\ Len(<<>>) = 0
  BY EmptySeq
<1>2. /\ Closed \in SockOf(Bytes) /\ Opened \in SockOf(Bytes)
      /\ Closed.sr = "CLOSED" /\ Closed.rx = <<>> /\ Closed.tx = <<>> /\ ~Closed.sending
      /\ Opened.sr = "INIT" /\ Opened.rx = <<>> /\ Opened.tx = <<>> /\ ~Opened.sending
  BY ClosedSock
<1> QED BY <1>1, <1>2, Bounds

\* TInv says what TypeOK does.
LEMMA TypesFollow == TInv => TypeOK
<1> SUFFICES ASSUME TInv PROVE TypeOK
  OBVIOUS
<1>1. sent \in 0 .. Len(buf)
  BY LenProperties DEF TInv, SrvOK
<1> QED BY <1>1 DEF TInv, ChipOK, SrvOK, DispOK, PeerOK, SockOf, Pcs, TypeOK

\* At the start the server has not opened its socket yet.
LEMMA TypeInit == Init => TInv
BY Emptied, Bounds DEF Init, TInv, ChipOK, SrvOK, DispOK, PeerOK, FreshOK, Pcs, Closed, SockOf,
   Status

\* The steps of the server between its calls of receive and send.
LEMMA ListenStep ==
  ASSUME TInv, Listen \/ Accept \/ RecvPoll \/ RecvCheck \/ Close
  PROVE  TInv'
<1>1. /\ chip \in SockOf(Bytes) /\ ClosePcs \cap SendPcs = {} /\ RecvPcs \cap SendPcs = {}
      /\ ListenPcs \cap SendPcs = {} /\ chip.sr \in Status
  BY DEF TInv, ChipOK, SockOf
<1>2. ASSUME NEW from \in ListenPcs \cup ClosePcs, NEW to \in ListenPcs \cup ClosePcs,
             from # "re_listen", to # "re_listen", CloseSr(from, to) \/ CloseChip(from, to)
      PROVE  TInv'
  <2>1. chip' \in {chip, Disconnecting(chip), Closed}
    BY <1>2 DEF CloseSr, CloseChip
  <2>2. ChipOK'
    BY <1>1, <2>1, DisconnectingSock, Emptied, Bounds DEF TInv, ChipOK
  <2>3. SrvOK' /\ DispOK'
    BY <1>2 DEF CloseSr, CloseChip, TInv, SrvOK, DispOK, Pcs
  <2>4. PeerOK' /\ FreshOK'
    BY <1>1, <1>2, <2>1, DisconnectingSock, Emptied DEF CloseSr, CloseChip, TInv, PeerOK, FreshOK
  <2> QED BY <2>2, <2>3, <2>4 DEF TInv
<1>3. CASE OpenOk \/ OpenFails
  <2>1. /\ \/ pc' = "re_listen" /\ chip' = Opened
           \/ pc' = "re_sr" /\ chip' = chip
        /\ pc = "re_open" /\ UNCHANGED <<buf, sent, dispVars, peerVars>>
    BY <1>3 DEF OpenOk, OpenFails
  <2> QED BY <2>1, Emptied, Bounds DEF TInv, ChipOK, SrvOK, DispOK, PeerOK, FreshOK, Pcs
<1>4. CASE ListenOk \/ ListenFails
  <2>1. /\ \/ pc' = "accept" /\ chip' = Listening(chip)
           \/ pc' = "re_sr" /\ chip' = Closed
        /\ pc = "re_listen" /\ UNCHANGED <<buf, sent, dispVars, peerVars>>
    BY <1>4 DEF ListenOk, ListenFails
  <2> QED BY <1>1, <2>1, ListeningSock, Emptied, Bounds
          DEF TInv, ChipOK, SrvOK, DispOK, PeerOK, FreshOK, Pcs
<1>5. CASE Accept \/ RecvPoll \/ RecvCheck
  <2>1. /\ UNCHANGED <<chip, buf, sent, dispVars, peerVars>>
        /\ pc \in RecvPcs \cup {"accept"}
        /\ pc' \in RecvPcs \cup {"accept", "shut_sr", "re_sr"}
        /\ chip.sr = "LISTEN" => pc' = pc
    BY <1>5 DEF Accept, RecvPoll, RecvCheck, TInv, FreshOK
  <2> QED BY <2>1 DEF TInv, ChipOK, SrvOK, DispOK, PeerOK, FreshOK, Pcs
<1> QED BY <1>2, <1>3, <1>4, <1>5 DEF Listen, Close

\* The server receives into its empty buffer.
LEMMA RecvStep ==
  ASSUME TInv, RecvData
  PROVE  TInv'
<1>1. chip \in SockOf(Bytes) /\ chip.rx \in Seq(Bytes) /\ Len(chip.rx) \in Nat
  BY LenProperties DEF TInv, ChipOK, SockOf
<1>2. PICK n \in 1 .. Len(chip.rx) : /\ n <= BUFSIZE /\ buf' = SubSeq(chip.rx, 1, n)
                                     /\ chip' = Drained(chip, n)
  BY DEF RecvData
<1>3. ChipOK'
  BY <1>1, <1>2, DrainedSock, Bounds DEF TInv, ChipOK
<1>4. buf' \in Seq(Bytes) /\ Len(buf') = n
  BY <1>1, <1>2, DrainedSock
<1>5. SrvOK'
  BY <1>2, <1>4 DEF RecvData, SrvOK, Pcs
<1>6. DispOK' /\ PeerOK' /\ FreshOK'
  BY <1>1, <1>2, DrainedSock DEF RecvData, TInv, DispOK, PeerOK, FreshOK
<1> QED BY <1>3, <1>5, <1>6 DEF TInv

\* The steps of toe_sock_send.
LEMMA SendStep ==
  ASSUME TInv, SendSr \/ SendIr \/ SendClr \/ SendWr
  PROVE  TInv'
<1>1. chip \in SockOf(Bytes) /\ chip.tx \in Seq(Bytes) /\ Len(chip.tx) \in Nat
  BY LenProperties DEF TInv, ChipOK, SockOf
<1>2. pc \in SendPcs /\ UNCHANGED <<dispVars, peerVars>>
  BY DEF SendSr, SendIr, SendClr, SendWr
<1>3. buf \in Seq(Bytes) /\ Len(buf) \in Nat /\ sent \in Nat /\ sent < Len(buf)
  BY <1>2, LenProperties DEF TInv, SrvOK
<1>4. DispOK'
  BY <1>2 DEF TInv, DispOK
<1>5. SendReturns => SrvOK'
  BY Emptied DEF SendReturns, SrvOK, Pcs
<1>6. CASE SendSr \/ SendIr
  <2>1. /\ chip' \in {chip, Closed}
        /\ \/ pc' \in SendPcs /\ UNCHANGED <<buf, sent>>
           \/ SendReturns
    BY <1>6 DEF SendSr, SendIr
  <2>2. ChipOK'
    BY <1>1, <2>1, Emptied, Bounds DEF TInv, ChipOK
  <2>3. SrvOK'
    BY <1>2, <1>5, <2>1 DEF TInv, SrvOK, Pcs
  <2>4. PeerOK' /\ FreshOK'
    BY <1>2, <2>1, Emptied DEF TInv, PeerOK, FreshOK, SendReturns
  <2> QED BY <1>4, <2>2, <2>3, <2>4 DEF TInv
<1>7. CASE SendClr
  <2> DEFINE k == Acked(chip, {"SENDOK"})
  <2>1. k \in SockOf(Bytes) /\ k.sr = chip.sr /\ k.rx = chip.rx /\ k.tx = chip.tx
    BY <1>1, AckedSock
  <2>2. chip' = [k EXCEPT !.sending = FALSE]
    BY <1>7 DEF SendClr
  <2> HIDE DEF k
  <2>3. /\ chip' \in SockOf(Bytes) /\ chip'.sr = chip.sr /\ chip'.rx = chip.rx
        /\ chip'.tx = chip.tx /\ ~chip'.sending
    BY <2>1, <2>2 DEF SockOf
  <2> QED BY <1>2, <1>4, <1>7, <2>3 DEF SendClr, TInv, ChipOK, SrvOK, PeerOK, FreshOK, Pcs
<1>8. CASE SendWr
  <2> DEFINE n == IF Len(buf) - sent < TXMAX THEN Len(buf) - sent ELSE TXMAX
             d == SubSeq(buf, sent + 1, sent + n)
  <2>1. /\ n \in Nat /\ n >= 1 /\ sent + n \in 0 .. Len(buf) /\ sent \in 0 .. sent + n
        /\ sent + n <= Len(buf)
    BY <1>3, Bounds
  <2>2. d \in Seq(Bytes) /\ Len(d) = n
    BY <1>3, <2>1, Cut
  <2>3. \/ chip' \in {chip, Closed}
        \/ /\ chip' = Sending(chip, d) /\ n <= TXMAX - Len(chip.tx) /\ Connected(chip)
    BY <1>8 DEF SendWr
  <2>4. \/ pc' = "send_sr" /\ buf' = buf /\ sent' = sent
        \/ pc' = "send_sr" /\ buf' = buf /\ sent' = sent + n /\ sent + n < Len(buf)
        \/ SendReturns
    BY <1>8 DEF SendWr
  <2> HIDE DEF n, d
  <2> DEFINE k == Sending(chip, d)
  <2>5. /\ k \in SockOf(Bytes) /\ k.sr = chip.sr /\ k.rx = chip.rx
        /\ Len(k.tx) = Len(chip.tx) + n
    BY <1>1, <2>2, SendingSock
  <2> HIDE DEF k
  <2>6. \/ chip' \in {chip, Closed}
        \/ chip' = k /\ n <= TXMAX - Len(chip.tx) /\ Connected(chip)
    BY <2>3 DEF k
  <2>7. ChipOK'
    <3>1. CASE chip' \in {chip, Closed}
      BY <3>1, Emptied DEF TInv, ChipOK
    <3>2. CASE chip' = k /\ n <= TXMAX - Len(chip.tx)
      <4>1. Len(chip.tx) + n <= TXMAX
        BY <1>1, <2>1, <3>2, Bounds
      <4> QED BY <2>5, <3>2, <4>1 DEF TInv, ChipOK
    <3> QED BY <2>6, <3>1, <3>2
  <2>8. SrvOK'
    BY <1>2, <1>3, <1>5, <2>1, <2>4 DEF TInv, SrvOK, Pcs
  <2>9. PeerOK' /\ FreshOK'
    <3>1. pc' \in {"send_sr", "rsr"}
      BY <2>4 DEF SendReturns
    <3> QED BY <1>2, <2>5, <2>6, <3>1, Emptied DEF TInv, PeerOK, FreshOK, Connected
  <2> QED BY <1>4, <2>7, <2>8, <2>9 DEF TInv
<1> QED BY <1>6, <1>7, <1>8

\* The dispatcher clears bits, and does nothing else to the socket.
LEMMA DispatcherStep ==
  ASSUME TInv, Dispatcher
  PROVE  TInv'
<1>1. chip \in SockOf(Bytes) /\ chip.ir \subseteq IrBits
  BY DEF TInv, ChipOK, SockOf
<1>2. CASE DispLatch
  BY <1>1, <1>2 DEF DispLatch, TInv, ChipOK, SrvOK, DispOK, PeerOK, FreshOK
<1>3. CASE DispClear
  BY <1>1, <1>3, AckedSock DEF DispClear, TInv, ChipOK, SrvOK, DispOK, PeerOK, FreshOK
<1> QED BY <1>2, <1>3 DEF Dispatcher

\* What the client and the chip do.
LEMMA PeerStep ==
  ASSUME TInv, Peer \/ Wire
  PROVE  TInv'
<1>1. chip \in SockOf(Bytes) /\ chip.tx \in Seq(Bytes) /\ chip.rx \in Seq(Bytes)
  BY DEF TInv, ChipOK, SockOf
<1>2. SrvOK' /\ DispOK'
  BY DEF Peer, Wire, PeerConnect, PeerSend, PeerFin, PeerReset, ChipSendDone, ChipTimeout,
     TInv, SrvOK, DispOK
<1>3. CASE PeerConnect
  BY <1>1, <1>2, <1>3, GotConnectionSock, EmptySeq, Bounds
     DEF PeerConnect, TInv, ChipOK, PeerOK, FreshOK
<1>4. CASE PeerSend
  <2>1. out + 1 \in 1 .. MAXBYTES /\ conn \in 1 .. MAXCONNS /\ out' = out + 1
    BY <1>4, Bounds DEF PeerSend, TInv, PeerOK
  <2>2. Byte(out + 1) \in Bytes
    BY <2>1 DEF Byte, Bytes
  <2>3. chip' = GotByte(chip, Byte(out + 1))
    BY <1>4 DEF PeerSend, Byte
  <2>4. ChipOK' /\ chip'.sr = chip.sr
    BY <1>1, <1>4, <2>2, <2>3, GotByteSock, LenProperties, Bounds DEF PeerSend, TInv, ChipOK
  <2> QED BY <1>2, <1>4, <2>1, <2>4 DEF PeerSend, TInv, PeerOK, FreshOK
<1>5. CASE PeerFin \/ PeerReset \/ ChipTimeout
  <2>1. /\ chip' \in {GotFin(chip), GotReset(chip), SendTimeout(chip)} /\ pc' = pc
        /\ chip.sr # "INIT" /\ UNCHANGED peerVars
    BY <1>5, EmptySeq DEF PeerFin, PeerReset, ChipTimeout, TInv, FreshOK
  <2> QED BY <1>1, <1>2, <2>1, GotFinSock, GotResetSock, SendTimeoutSock, EmptySeq, Bounds
          DEF TInv, ChipOK, PeerOK, FreshOK
<1>6. CASE ChipSendDone
  <2>1. (got \o chip.tx) \in Seq(Bytes)
    BY <1>1, ConcatProperties DEF TInv, PeerOK
  <2> QED BY <1>1, <1>2, <1>6, <2>1, SendDoneSock, EmptySeq, Bounds
          DEF ChipSendDone, TInv, ChipOK, PeerOK, FreshOK
<1> QED BY <1>3, <1>4, <1>5, <1>6 DEF Peer, Wire

\* TInv is inductive.
LEMMA TypeStep ==
  ASSUME TInv, [Next]_vars
  PROVE  TInv'
<1>1. CASE UNCHANGED vars
  BY <1>1 DEF vars, TInv, ChipOK, SrvOK, DispOK, PeerOK, FreshOK
<1> QED BY <1>1, ListenStep, RecvStep, SendStep, DispatcherStep, PeerStep DEF Next, Server

\* Every variable has its type: the server never sends beyond its buffer, and the
\* chip's buffers never overflow.
THEOREM TypeCorrect == Spec => []TypeOK
BY TypeInit, TypeStep, TypesFollow, PTL DEF Spec

-------------------------------------------------------------------------------
(* The bytes of a connection. *)

\* The parts of the stream are sequences.
LEMMA Parts ==
  ASSUME TInv
  PROVE  /\ chip \in SockOf(Bytes) /\ got \in Seq(Bytes) /\ Hand \in Seq(Bytes)
         /\ chip.rx \in Seq(Bytes) /\ chip.tx \in Seq(Bytes)
         /\ conn \in Nat /\ out \in Nat /\ Len(chip.tx) \in Nat /\ Len(got) \in Nat
         /\ pc \notin SendPcs => Hand = <<>>
<1>1. /\ chip \in SockOf(Bytes) /\ got \in Seq(Bytes) /\ conn \in Nat /\ out \in Nat
  BY Bounds DEF TInv, ChipOK, PeerOK
<1>2. chip.rx \in Seq(Bytes) /\ chip.tx \in Seq(Bytes)
  BY <1>1 DEF SockOf
<1>3. buf \in Seq(Bytes) /\ Len(buf) \in Nat /\ sent \in 0 .. Len(buf)
  BY LenProperties DEF TInv, SrvOK
<1>4. Hand \in Seq(Bytes)
  <2>1. Len(buf) \in 0 .. Len(buf)
    BY <1>3
  <2> QED BY <1>3, <2>1, Cut DEF Hand
<1>5. pc \notin SendPcs => Hand = <<>>
  BY <1>3, Whole DEF TInv, SrvOK, Hand
<1> QED BY <1>1, <1>2, <1>4, <1>5, LenProperties

\* Conserved, in the terms of the lemmas.
LEMMA ConservedIs ==
  /\ Conserved <=> (Connected(chip) =>
                      Stream(got, chip.tx, Hand, chip.rx) = Numbered(1, conn, out))
  /\ Conserved' <=> (Connected(chip') =>
                       Stream(got', chip'.tx, Hand', chip'.rx) = Numbered(1, conn', out'))
BY DEF Conserved, Hand, Numbered, Byte, Connected, Stream

\* Both hold after a step that moves no byte, except that it may throw away what a
\* connection that ends has not sent.
LEMMA NothingMoves ==
  ASSUME TInv, Conserved, Prefix, UNCHANGED peerVars, chip'.tx \in {chip.tx, <<>>},
         Connected(chip)' => /\ Connected(chip) /\ chip'.rx = chip.rx
                             /\ chip'.tx = chip.tx /\ Hand' = Hand
  PROVE  Conserved' /\ Prefix'
<1>1. Conserved'
  BY ConservedIs
<1>2. CASE chip'.tx = chip.tx
  BY <1>1, <1>2 DEF Prefix
<1>3. CASE chip'.tx = <<>>
  <2>1. Begins(1, conn, out, got)
    BY Parts, BeginsShorter DEF Prefix
  <2>2. got \o <<>> = got
    BY Parts, JoinEmpty
  <2> QED BY <1>1, <1>3, <2>1, <2>2 DEF Prefix
<1> QED BY <1>2, <1>3

\* When the bytes are conserved on a connection that is up, the client has a prefix.
LEMMA PrefixFollows == TInv /\ Conserved /\ Connected(chip) => Prefix
BY Parts, ConservedIs, BeginsWhole DEF Prefix

\* So it is after a step.
LEMMA PrefixNext == TInv' /\ Conserved' /\ Connected(chip') => Prefix'
<1>1. (TInv /\ Conserved /\ Connected(chip) => Prefix)'
  BY PrefixFollows, PTL
<1> QED BY <1>1 DEF Connected

\* The server's steps outside of receive and send move no byte.
LEMMA ListenFlow ==
  ASSUME TInv, Conserved, Prefix, Listen \/ Accept \/ RecvPoll \/ RecvCheck \/ Close
  PROVE  Conserved' /\ Prefix'
<1>1. /\ chip' \in {chip, Disconnecting(chip), Closed, Opened, Listening(chip)}
      /\ UNCHANGED <<buf, sent, peerVars>>
  BY DEF Listen, CloseSr, CloseChip, OpenOk, OpenFails, ListenOk, ListenFails,
     Accept, RecvPoll, RecvCheck, Close
<1>2. chip \in SockOf(Bytes)
  BY Parts
<1>3. /\ chip'.tx \in {chip.tx, <<>>} /\ Hand' = Hand
      /\ chip' = chip \/ ~Connected(chip)'
  BY <1>1, <1>2, DisconnectingSock, ListeningSock, Emptied DEF Connected, Hand
<1> QED BY <1>1, <1>3, NothingMoves

\* wiz_recv_data and RECV take from the receive buffer just what the server gets.
LEMMA RecvFlow ==
  ASSUME TInv, Conserved, Prefix, RecvData
  PROVE  Conserved' /\ Prefix'
<1>1. TInv' /\ UNCHANGED peerVars /\ pc \notin SendPcs
  BY RecvStep DEF RecvData
<1>2. PICK n \in 1 .. Len(chip.rx) : buf' = SubSeq(chip.rx, 1, n) /\ chip' = Drained(chip, n)
  BY DEF RecvData
<1>3. /\ chip'.sr = chip.sr /\ chip'.tx = chip.tx /\ buf' \in Seq(Bytes)
      /\ buf' \o chip'.rx = chip.rx
  BY <1>2, Parts, DrainedSock
<1>4. Hand' = buf' /\ Hand = <<>>
  BY <1>1, <1>3, Parts, Whole DEF Hand, RecvData
<1>5. Stream(got, chip.tx, Hand, chip.rx) = Stream(got, chip.tx, buf', chip'.rx)
  <2>1. got \in Seq(Bytes) /\ chip.tx \in Seq(Bytes) /\ chip'.rx \in Seq(Bytes)
    BY <1>1, Parts DEF TInv, ChipOK, SockOf
  <2>2. Cat(buf', chip'.rx) = chip.rx
    BY <1>3 DEF Cat
  <2> QED BY <1>3, <1>4, <2>1, <2>2, Moves
<1>6. Conserved'
  BY <1>1, <1>3, <1>4, <1>5, ConservedIs DEF Connected
<1>7. Prefix'
  BY <1>1, <1>3 DEF Prefix
<1> QED BY <1>6, <1>7

\* toe_sock_send hands over what is left of the buffer, in order.
LEMMA SendFlow ==
  ASSUME TInv, Conserved, Prefix, SendSr \/ SendIr \/ SendClr \/ SendWr
  PROVE  Conserved' /\ Prefix'
<1>1. TInv' /\ UNCHANGED peerVars /\ pc \in SendPcs
  BY SendStep DEF SendSr, SendIr, SendClr, SendWr
<1>2. ~Connected(Closed)
  BY Emptied DEF Connected
<1>3. CASE SendSr \/ SendIr
  <2>1. \/ chip' = Closed
        \/ chip' = chip /\ (~Connected(chip) \/ UNCHANGED <<buf, sent>>)
    BY <1>3 DEF SendSr, SendIr
  <2> QED BY <1>1, <1>2, <2>1, Emptied, NothingMoves DEF Hand
<1>4. CASE SendClr
  <2> DEFINE k == Acked(chip, {"SENDOK"})
  <2>1. k \in SockOf(Bytes) /\ k.sr = chip.sr /\ k.rx = chip.rx /\ k.tx = chip.tx
    BY Parts, AckedSock
  <2>2. chip' = [k EXCEPT !.sending = FALSE] /\ UNCHANGED <<buf, sent>>
    BY <1>4 DEF SendClr
  <2> HIDE DEF k
  <2>3. chip'.sr = chip.sr /\ chip'.rx = chip.rx /\ chip'.tx = chip.tx /\ Hand' = Hand
    BY <2>1, <2>2 DEF SockOf, Hand
  <2> QED BY <1>1, <2>3, NothingMoves DEF Connected
<1>5. CASE SendWr
  <2> DEFINE n == IF Len(buf) - sent < TXMAX THEN Len(buf) - sent ELSE TXMAX
             d == SubSeq(buf, sent + 1, sent + n)
  <2>1. \/ chip' = Closed
        \/ UNCHANGED <<chip, buf, sent>>
        \/ /\ Connected(chip) /\ chip' = Sending(chip, d)
           /\ \/ buf' = buf /\ sent' = sent + n
              \/ SendReturns /\ sent + n = Len(buf)
    BY <1>5 DEF SendWr
  <2>2. CASE chip' = Closed \/ UNCHANGED <<chip, buf, sent>>
    BY <1>1, <1>2, <2>2, Emptied, NothingMoves DEF Hand
  <2>3. CASE /\ Connected(chip) /\ chip' = Sending(chip, d)
             /\ \/ buf' = buf /\ sent' = sent + n
                \/ SendReturns /\ sent + n = Len(buf)
    <3> DEFINE rest == SubSeq(buf, sent + n + 1, Len(buf))
    <3>1. /\ buf \in Seq(Bytes) /\ n \in Nat /\ sent + n \in 0 .. Len(buf)
          /\ sent \in 0 .. sent + n
      BY <1>1, Bounds, LenProperties DEF TInv, SrvOK
    <3>2. d \in Seq(Bytes) /\ rest \in Seq(Bytes) /\ d \o rest = Hand
      BY <3>1, Cut DEF Hand
    <3>3. Hand' = rest
      <4>1. CASE buf' = buf /\ sent' = sent + n
        BY <4>1 DEF Hand
      <4>2. CASE SendReturns /\ sent + n = Len(buf)
        <5>1. rest = <<>>
          BY <3>1, <4>2, Whole
        <5>2. Hand' = <<>>
          BY <4>2, Emptied, Whole DEF SendReturns, Hand
        <5> QED BY <5>1, <5>2
      <4> QED BY <2>3, <4>1, <4>2
    <3> HIDE DEF n, d, rest
    <3>4. chip'.sr = chip.sr /\ chip'.rx = chip.rx /\ chip'.tx = chip.tx \o d
      BY <2>3, <3>2, Parts, SendingSock
    <3>5. Stream(got, chip.tx, Hand, chip.rx) = Stream(got, chip'.tx, rest, chip.rx)
      <4>1. got \in Seq(Bytes) /\ chip.tx \in Seq(Bytes) /\ chip.rx \in Seq(Bytes)
        BY Parts
      <4>2. Cat(d, rest) = Hand /\ Cat(chip.tx, d) = chip'.tx
        BY <3>2, <3>4 DEF Cat
      <4> QED BY <3>2, <4>1, <4>2, Moves
    <3>6. Conserved' /\ Connected(chip)'
      BY <1>1, <2>3, <3>2, <3>3, <3>4, <3>5, ConservedIs DEF Connected
    <3> QED BY <1>1, <3>6, PrefixNext
  <2> QED BY <2>1, <2>2, <2>3
<1> QED BY <1>3, <1>4, <1>5

\* A connection starts with nothing in any buffer, a byte joins the others at the end,
\* and what the client gets is what waited in the transmit buffer.
LEMMA PeerFlow ==
  ASSUME TInv, Conserved, Prefix, Peer \/ Wire
  PROVE  Conserved' /\ Prefix'
<1>1. TInv' /\ UNCHANGED srvVars /\ Hand' = Hand
  BY PeerStep DEF Peer, Wire, PeerConnect, PeerSend, PeerFin, PeerReset, ChipSendDone,
     ChipTimeout, Hand
<1>2. CASE PeerConnect
  <2>1. pc \notin SendPcs /\ chip.rx = <<>> /\ chip.tx = <<>>
    BY <1>2 DEF PeerConnect, TInv, FreshOK
  <2>2. /\ chip'.rx = <<>> /\ chip'.tx = <<>> /\ Hand' = <<>> /\ got' = <<>> /\ out' = 0
        /\ chip'.sr = "ESTABLISHED"
    BY <1>1, <1>2, <2>1, Parts, GotConnectionSock DEF PeerConnect
  <2>3. Stream(<<>>, <<>>, <<>>, <<>>) = Numbered(1, conn', 0)
    BY DEF Numbered, Stream
  <2>4. Conserved' /\ Connected(chip)'
    BY <2>2, <2>3, ConservedIs DEF Connected
  <2> QED BY <1>1, <2>4, PrefixNext
<1>3. CASE PeerSend
  <2> DEFINE b == <<1, conn, out + 1>>
  <2>1. /\ conn' = conn /\ got' = got /\ out' = out + 1 /\ Connected(chip)
        /\ chip' = GotByte(chip, b)
    BY <1>3 DEF PeerSend, Byte, Connected
  <2>2. b = <<1, conn, out + 1>>
    OBVIOUS
  <2>3. b \in Bytes
    BY <1>3, Bounds DEF PeerSend, TInv, PeerOK, Bytes
  <2> HIDE DEF b
  <2>4. /\ chip \in SockOf(Bytes) /\ chip.rx \in Seq(Bytes) /\ got \in Seq(Bytes)
        /\ chip.tx \in Seq(Bytes) /\ Hand \in Seq(Bytes) /\ out \in Nat
    BY Parts
  <2>5. chip'.sr = chip.sr /\ chip'.tx = chip.tx /\ chip'.rx = Append(chip.rx, b)
    <3>1. chip \in SockOf(Bytes) /\ chip' = GotByte(chip, b)
      BY <2>1, <2>4
    <3> QED BY <2>3, <3>1, GotByteSock
  <2>6. Stream(got, chip.tx, Hand, chip.rx) = Numbered(1, conn, out)
    BY <2>1, ConservedIs
  <2>7. Stream(got, chip.tx, Hand, chip'.rx) = Numbered(1, conn, out + 1)
    BY <2>2, <2>4, <2>5, <2>6, <2>3, ByteArrives
  <2>8. Conserved' /\ Connected(chip)'
    BY <1>1, <2>1, <2>5, <2>7, ConservedIs DEF Connected
  <2> QED BY <1>1, <2>8, PrefixNext DEF Connected
<1>4. CASE PeerFin \/ PeerReset \/ ChipTimeout
  <2>1. UNCHANGED peerVars
    BY <1>4 DEF PeerFin, PeerReset, ChipTimeout
  <2>2. CASE PeerFin
    <3>1. /\ chip.sr \in {"ESTABLISHED", "FIN_WAIT"} /\ chip'.tx = chip.tx
          /\ chip'.rx = chip.rx
          /\ chip'.sr = (IF chip.sr = "ESTABLISHED" THEN "CLOSE_WAIT" ELSE "CLOSED")
      BY <2>2, Parts, GotFinSock DEF PeerFin
    <3> QED BY <1>1, <2>1, <3>1, NothingMoves DEF Connected
  <2>3. CASE PeerReset \/ ChipTimeout
    <3>1. chip' \in {GotReset(chip), SendTimeout(chip)}
      BY <2>3 DEF PeerReset, ChipTimeout
    <3>2. chip'.sr = "CLOSED" /\ chip'.tx = <<>>
      BY <3>1, Parts, GotResetSock, SendTimeoutSock
    <3> QED BY <1>1, <2>1, <3>2, NothingMoves DEF Connected
  <2> QED BY <1>4, <2>2, <2>3
<1>5. CASE ChipSendDone
  <2>1. /\ conn' = conn /\ out' = out /\ got' = got \o chip.tx
        /\ chip'.sr = chip.sr /\ chip'.rx = chip.rx /\ chip'.tx = <<>>
    BY <1>5, Parts, SendDoneSock DEF ChipSendDone
  <2>2. Conserved'
    <3>1. /\ got \in Seq(Bytes) /\ chip.tx \in Seq(Bytes) /\ chip.rx \in Seq(Bytes)
          /\ Hand \in Seq(Bytes) /\ got' = Cat(got, chip.tx)
      BY <2>1, Parts DEF Cat
    <3>2. Stream(got', <<>>, Hand, chip.rx) = Stream(got, chip.tx, Hand, chip.rx)
      BY <3>1, Moves
    <3> QED BY <1>1, <2>1, <3>2, ConservedIs DEF Connected
  <2>3. (got \o chip.tx) \o <<>> = got \o chip.tx
    BY Parts, Joined, JoinEmpty
  <2>4. Prefix'
    BY <2>1, <2>3 DEF Prefix
  <2> QED BY <2>2, <2>4
<1> QED BY <1>2, <1>3, <1>4, <1>5 DEF Peer, Wire

\* The dispatcher moves no byte.
LEMMA DispatcherFlow ==
  ASSUME TInv, Conserved, Prefix, Dispatcher
  PROVE  Conserved' /\ Prefix'
<1>1. UNCHANGED <<srvVars, peerVars>> /\ chip' \in {chip, Acked(chip, latch)}
  BY DEF Dispatcher, DispLatch, DispClear
<1>2. chip'.sr = chip.sr /\ chip'.rx = chip.rx /\ chip'.tx = chip.tx /\ Hand' = Hand
  BY <1>1, Parts, AckedSock DEF Hand
<1> QED BY <1>1, <1>2, NothingMoves DEF Connected

\* Before the first connection there is nothing to lose.
LEMMA FlowInit == Init => Conserved /\ Prefix
<1> SUFFICES ASSUME Init PROVE Conserved /\ Prefix
  OBVIOUS
<1>1. /\ chip = Closed /\ got = <<>> /\ out = 0 /\ Closed.sr = "CLOSED" /\ Closed.tx = <<>>
  BY Emptied DEF Init
<1>2. <<>> \o <<>> = Numbered(1, conn, 0) /\ Len(<<>>) = 0
  BY DEF Numbered
<1> QED BY <1>1, <1>2 DEF Conserved, Connected, Prefix, Begins

\* The bytes are conserved by every step.
LEMMA FlowStep ==
  ASSUME TInv, Conserved, Prefix, [Next]_vars
  PROVE  Conserved' /\ Prefix'
<1>1. CASE UNCHANGED vars
  BY <1>1 DEF vars, Conserved, Prefix, Byte
<1> QED BY <1>1, ListenFlow, RecvFlow, SendFlow, PeerFlow, DispatcherFlow DEF Next, Server

\* While a connection is up no byte the client sent on it is lost, doubled, reordered or
\* mixed with another's between the receive buffer, the server, the transmit buffer and
\* the client (Conserved).
THEOREM NoByteLost == Spec => []Conserved
<1>1. Init => TInv /\ Conserved /\ Prefix
  BY TypeInit, FlowInit
<1>2. TInv /\ Conserved /\ Prefix /\ [Next]_vars => (TInv /\ Conserved /\ Prefix)'
  BY TypeStep, FlowStep
<1> QED BY <1>1, <1>2, PTL DEF Spec

-------------------------------------------------------------------------------
(* The outcome of a SEND. *)

\* The end of a SEND on a socket that stays connected is the interrupt that reports it,
\* and only toe_sock_send clears that one.
LEMMA OutcomeStep ==
  ASSUME TInv, OutcomeVisible, [Next]_vars
  PROVE  OutcomeVisible'
<1>1. chip \in SockOf(Bytes)
  BY Parts
<1>2. CASE UNCHANGED vars
  BY <1>2 DEF vars, OutcomeVisible, Connected
<1>3. CASE Listen \/ Accept \/ RecvPoll \/ RecvCheck \/ Close
  <2>1. /\ chip' \in {chip, Disconnecting(chip), Closed, Opened, Listening(chip)}
        /\ disp' = disp
    BY <1>3 DEF Listen, CloseSr, CloseChip, OpenOk, OpenFails, ListenOk, ListenFails,
       Accept, RecvPoll, RecvCheck, Close
  <2>2. chip' = chip \/ ~Connected(chip')
    BY <1>1, <2>1, DisconnectingSock, ListeningSock, Emptied DEF Connected
  <2> QED BY <2>1, <2>2 DEF OutcomeVisible, Connected
<1>4. CASE RecvData
  <2>1. PICK n \in 1 .. Len(chip.rx) : chip' = Drained(chip, n)
    BY <1>4 DEF RecvData
  <2>2. /\ chip'.sr = chip.sr /\ chip'.tx = chip.tx /\ chip'.ir = chip.ir
        /\ chip'.sending = chip.sending /\ disp' = disp
    BY <1>1, <1>4, <2>1, DrainedSock DEF RecvData
  <2> QED BY <2>2 DEF OutcomeVisible, Connected
<1>5. CASE SendSr \/ SendIr
  <2>1. chip' \in {chip, Closed} /\ disp' = disp
    BY <1>5 DEF SendSr, SendIr
  <2> QED BY <2>1, Emptied DEF OutcomeVisible, Connected
<1>6. CASE SendClr
  <2>1. Acked(chip, {"SENDOK"}) \in SockOf(Bytes)
    BY <1>1, AckedSock
  <2>2. ~chip'.sending
    BY <1>6, <2>1 DEF SendClr, SockOf
  <2> QED BY <2>2 DEF OutcomeVisible
<1>7. CASE SendWr
  <2> DEFINE n == IF Len(buf) - sent < TXMAX THEN Len(buf) - sent ELSE TXMAX
             d == SubSeq(buf, sent + 1, sent + n)
  <2>1. /\ chip' \in {chip, Closed, Sending(chip, d)} /\ disp' = disp
    BY <1>7 DEF SendWr
  <2>2. /\ buf \in Seq(Bytes) /\ sent \in Nat /\ sent < Len(buf) /\ Len(buf) \in Nat
    BY <1>7, LenProperties DEF SendWr, TInv, SrvOK
  <2>3. n \in Nat /\ n >= 1 /\ sent + n \in 0 .. Len(buf) /\ sent \in 0 .. sent + n
    BY <2>2, Bounds
  <2>4. d \in Seq(Bytes) /\ Len(d) >= 1
    BY <2>2, <2>3, Cut
  <2> HIDE DEF n, d
  <2>5. /\ Len(Sending(chip, d).tx) = Len(chip.tx) + Len(d) /\ Len(chip.tx) \in Nat
        /\ Len(d) \in Nat
    BY <1>1, <2>4, Parts, SendingSock, LenProperties
  <2>6. Sending(chip, d).tx # <<>>
    BY <2>4, <2>5, Emptied
  <2> QED BY <2>1, <2>6, Emptied DEF OutcomeVisible, Connected
<1>8. CASE Dispatcher
  <2>1. disp # "off" /\ disp' # "off"
    BY <1>8 DEF Dispatcher, DispLatch, DispClear
  <2> QED BY <2>1 DEF OutcomeVisible
<1>9. CASE Peer \/ Wire
  <2>1. disp' = disp
    BY <1>9 DEF Peer, Wire, PeerConnect, PeerSend, PeerFin, PeerReset, ChipSendDone, ChipTimeout
  <2>2. CASE PeerConnect
    <3>1. ~chip'.sending
      BY <1>1, <2>2, GotConnectionSock DEF PeerConnect, TInv, FreshOK
    <3> QED BY <3>1 DEF OutcomeVisible
  <2>3. CASE PeerSend
    <3> DEFINE b == Byte(out + 1)
    <3>1. b \in Bytes
      BY <2>3, Bounds DEF PeerSend, TInv, PeerOK, Bytes, Byte
    <3>2. chip' = GotByte(chip, b)
      BY <2>3 DEF PeerSend, Byte
    <3> HIDE DEF b
    <3>3. /\ chip'.sr = chip.sr /\ chip'.tx = chip.tx /\ chip'.sending = chip.sending
          /\ chip'.ir = chip.ir \cup {"RECV"}
      BY <1>1, <3>1, <3>2, GotByteSock
    <3> QED BY <2>1, <3>3 DEF OutcomeVisible, Connected
  <2>4. CASE PeerFin
    <3>1. /\ chip'.sr = (IF chip.sr = "ESTABLISHED" THEN "CLOSE_WAIT" ELSE "CLOSED")
          /\ chip'.tx = chip.tx /\ chip'.sending = chip.sending
          /\ chip'.ir = chip.ir \cup {"DISCON"}
      BY <1>1, <2>4, GotFinSock DEF PeerFin
    <3> QED BY <2>1, <3>1 DEF OutcomeVisible, Connected
  <2>5. CASE PeerReset \/ ChipTimeout
    <3>1. chip'.sr = "CLOSED"
      BY <1>1, <2>5, GotResetSock, SendTimeoutSock DEF PeerReset, ChipTimeout
    <3> QED BY <3>1 DEF OutcomeVisible, Connected
  <2>6. CASE ChipSendDone
    <3>1. "SENDOK" \in chip'.ir
      BY <1>1, <2>6, SendDoneSock DEF ChipSendDone
    <3> QED BY <3>1 DEF OutcomeVisible
  <2> QED BY <1>9, <2>2, <2>3, <2>4, <2>5, <2>6 DEF Peer, Wire
<1> QED BY <1>2, <1>3, <1>4, <1>5, <1>6, <1>7, <1>8, <1>9 DEF Next, Server

\* In a build without the dispatcher a server that waits for the outcome of a SEND on a
\* connection never waits for one that it has missed (OutcomeVisible).
THEOREM OutcomeNotMissed == Spec => []OutcomeVisible
<1>1. Init => OutcomeVisible
  BY Emptied DEF Init, OutcomeVisible
<1> QED BY <1>1, TypeInit, TypeStep, OutcomeStep, PTL DEF Spec

-------------------------------------------------------------------------------
(* The echo service. *)

\* What EchoService sees of the server.
serviceVars == <<[s \in {1} |-> conn], [s \in {1} |-> out], [s \in {1} |-> got]>>

\* The server's first state is the service's.
LEMMA ServiceInit == Init => Service!Init
BY DEF Init, Service!Init

\* When a SEND is done the client gets the next bytes of its connection.
LEMMA ServiceEcho ==
  ASSUME TInv, Prefix, ChipSendDone
  PROVE  \E n \in 1 .. out : Service!Echo(1, n)
<1> DEFINE n == Len(chip.tx)
<1>1. /\ got \in Seq(Bytes) /\ chip.tx \in Seq(Bytes) /\ out \in Nat /\ chip.tx # <<>>
      /\ Len(got) \in Nat /\ n \in Nat
  BY Parts DEF ChipSendDone
<1>2. n >= 1
  BY <1>1, EmptySeq
<1>3. Len(got \o chip.tx) <= out /\ Cat(got, chip.tx) = Numbered(1, conn, Len(got \o chip.tx))
  BY DEF Prefix, Begins, Cat
<1>4. Len(got \o chip.tx) = Len(got) + n
  BY <1>1, Joined
<1>5. chip.tx = NumberedFrom(1, conn, Len(got), n)
  BY <1>1, <1>3, <1>4, NumberedSplit
<1>6. got' = got \o chip.tx /\ conn' = conn /\ out' = out
  BY DEF ChipSendDone
<1> HIDE DEF n
<1>7. n \in 1 .. out /\ n \in 1 .. out - Len(got)
  BY <1>1, <1>2, <1>3, <1>4
<1>8. Service!Echo(1, n)
  BY <1>5, <1>6, <1>7 DEF Service!Echo, Service!Byte, NumberedFrom
<1> QED BY <1>7, <1>8

\* Every other step of the system is one of the client's or does not show.
LEMMA ServiceStep ==
  ASSUME TInv, Prefix, [Next]_vars
  PROVE  [Service!Next]_serviceVars
<1>1. CASE PeerConnect
  <2>1. Service!Connect(1)
    BY <1>1 DEF PeerConnect, Service!Connect
  <2> QED BY <2>1 DEF Service!Next
<1>2. CASE PeerSend
  <2>1. Service!Send(1)
    BY <1>2 DEF PeerSend, Service!Send
  <2> QED BY <2>1 DEF Service!Next
<1>3. CASE ChipSendDone
  <2>1. PICK n \in 1 .. out : Service!Echo(1, n)
    BY <1>3, ServiceEcho
  <2> QED BY <2>1 DEF Service!Next
<1>4. CASE ~(PeerConnect \/ PeerSend \/ ChipSendDone)
  <2>1. UNCHANGED peerVars
    BY <1>4 DEF Next, vars, Server, Listen, CloseSr, CloseChip, OpenOk, OpenFails, ListenOk,
       ListenFails, Accept, RecvPoll, RecvCheck, RecvData, SendSr, SendIr, SendClr, SendWr, Close,
       Dispatcher, DispLatch, DispClear, Peer, PeerFin, PeerReset, Wire, ChipTimeout
  <2> QED BY <2>1 DEF serviceVars
<1> QED BY <1>1, <1>2, <1>3, <1>4

\* The server implements EchoService on its socket: each client gets back, in order and
\* each once, a prefix of what it sent on its connection, also after the connection's end.
THEOREM Refines == Spec => EchoesFaithfully
<1>1. Init => TInv /\ Conserved /\ Prefix
  BY TypeInit, FlowInit
<1>2. TInv /\ Conserved /\ Prefix /\ [Next]_vars => (TInv /\ Conserved /\ Prefix)'
  BY TypeStep, FlowStep
<1> QED BY <1>1, <1>2, ServiceInit, ServiceStep, PTL
        DEF Spec, EchoesFaithfully, Service!Spec, serviceVars
===============================================================================
