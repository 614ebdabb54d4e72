------------------------------- MODULE EchoPool -------------------------------
(***************************************************************************)
(* The echo pool of toe_demo.c: one task that polls the TOE sockets 1..N   *)
(* in turn and serves all of them with one buffer, on toe_socket.c and the *)
(* sockets of W5500Socket, with a client per socket, and app_main's        *)
(* routing check, which opens and closes a TOE socket of its own choice    *)
(* while the pool may be starting.  The build is one without the           *)
(* dispatcher, whose effect on a socket ToeStream shows.                   *)
(*                                                                         *)
(* pc names the register access or ioLibrary call the pool makes next; sn  *)
(* is the socket it is at.  slot_take and slot_free go with the call they  *)
(* follow: only the check reads the bitmap, once (ToeSlots has them as     *)
(* steps of their own).                                                    *)
(***************************************************************************)
EXTENDS W5500Socket, Integers

CONSTANTS N,         \* the last TOE socket            (7 on the W5500)
          BASE,      \* s_port, where socket 1 listens (CONFIG_WIZNET_TOE_ECHO_PORT)
          ANYPORTS,  \* what ioLibrary takes one of when it is given port 0
          RXMAX, TXMAX, BUFSIZE,  \* as in ToeStream
          MAXCONNS,  \* bound: connections a client makes to its socket
          MAXBYTES,  \* bound: bytes it sends on each
          CHECKS,    \* whether app_main's routing check runs beside the pool
          CHECKMAX   \* bound: what both bounds are at most in a build where it does

Socks == 1 .. N

ASSUME BoundsAssumption ==
  {N, RXMAX, TXMAX, BUFSIZE, MAXCONNS, MAXBYTES, CHECKMAX} \subseteq Nat \ {0}
ASSUME ChecksAssumption == CHECKS \subseteq BOOLEAN

\* The largest port.
UINT16_MAX == 65535
\* Any BASE that Kconfig allows, and no more sockets than the chip has; ioLibrary takes
\* its own ports from a range well below the last ones.
ASSUME PortsAssumption ==
  /\ BASE \in 1 .. UINT16_MAX /\ N <= 7
  /\ ANYPORTS # {} /\ \A q \in ANYPORTS : q \in Nat /\ 49152 <= q /\ q <= 65519

VARIABLES chip,         \* the sockets
          port,         \* their local ports (Sn_PORT)
          s_used_mask,  \* the slots taken
          pc, sn,       \* where the pool is
          sr,           \* the status toe_echo_task read
          buf, sent,    \* its buffer, and how much of it send() has accepted
          main, fd,     \* where the routing check is, and the socket it was given
          conn, out, got

poolVars == <<pc, sn, sr, buf, sent>>
mainVars == <<main, fd>>
peerVars == <<conn, out, got>>
vars == <<chip, port, s_used_mask, poolVars, mainVars, peerVars>>

SendPcs == {"send_sr", "send_ir", "send_clr", "send_wr"}
Pcs == {"open0", "listen0", "poll", "avail", "recv_sr", "recv_rsr", "recv_data",
        "cl_sr", "cl_close", "open", "listen"} \cup SendPcs

Init == /\ chip = [s \in Socks |-> Closed] /\ port = [s \in Socks |-> 0]
        /\ s_used_mask = {}
        /\ pc = "open0" /\ sn = 1 /\ sr = "CLOSED" /\ buf = <<>> /\ sent = 0
        /\ main \in {IF check THEN "scan" ELSE "off" : check \in CHECKS} /\ fd = 0
        /\ conn = [s \in Socks |-> 0] /\ out = [s \in Socks |-> 0]
        /\ got = [s \in Socks |-> <<>>]

SetChip(s, k) == chip' = [chip EXCEPT ![s] = k]

-------------------------------------------------------------------------------
(* toe_socket.c, for whoever calls it. *)

\* The status test of toe_sock_close, and its disconnect().
CloseSr(s) == SetChip(s, IF Connected(chip[s]) THEN Disconnecting(chip[s]) ELSE chip[s])

\* close(), slot_free.
CloseChip(s) == SetChip(s, Closed) /\ s_used_mask' = s_used_mask \ {s}

\* socket() with a local port, where 0 lets ioLibrary choose; slot_take.
SocketOn(s, p) == /\ SetChip(s, Opened)
                  /\ \E q \in IF p = 0 THEN ANYPORTS ELSE {p} : port' = [port EXCEPT ![s] = q]
                  /\ s_used_mask' = s_used_mask \cup {s}

-------------------------------------------------------------------------------
(* The pool. *)

\* Bug: every socket is given the pool's first port.
sock_port_first(s) == BASE

\* uint16_t arithmetic: above the largest port it goes on with 0, 1, ...
sock_port(s) == (BASE + s - 1) % (UINT16_MAX + 1)

\* Bug: the loop runs one socket too far.
ContinueTooFar(loop) ==
  \/ sn <= N /\ sn' = sn + 1 /\ pc' = loop
  \/ sn > N /\ sn' = 1 /\ pc' = "poll"

\* The next iteration of the for loop over the sockets; the first loop, which opens
\* them, is followed by the polling loop.
Continue(loop) ==
  \/ sn < N /\ sn' = sn + 1 /\ pc' = loop
  \/ sn = N /\ sn' = 1 /\ pc' = "poll"

OpenOk ==
  /\ \/ pc = "open0" /\ pc' = "listen0"
     \/ pc = "open"  /\ pc' = "listen"
  /\ SocketOn(sn, sock_port(sn))
  /\ UNCHANGED <<sn, sr, buf, sent, mainVars, peerVars>>

\* socket() fails: the socket is left for the next poll.
OpenFails ==
  /\ \/ pc = "open0" /\ Continue("open0")
     \/ pc = "open"  /\ Continue("poll")
  /\ UNCHANGED <<chip, port, s_used_mask, sr, buf, sent, mainVars, peerVars>>

\* listen() wants SOCK_INIT, and changes nothing otherwise; its result is ignored.
Listen ==
  /\ \/ pc = "listen0" /\ Continue("open0")
     \/ pc = "listen"  /\ Continue("poll")
  /\ SetChip(sn, IF chip[sn].sr = "INIT" THEN Listening(chip[sn]) ELSE chip[sn])
  /\ UNCHANGED <<port, s_used_mask, sr, buf, sent, mainVars, peerVars>>

\* As in ToeStream: listen() closes a socket whose status is not LISTEN then.
ListenFails ==
  /\ \/ pc = "listen0" /\ Continue("open0")
     \/ pc = "listen"  /\ Continue("poll")
  /\ chip[sn].sr = "INIT" /\ SetChip(sn, Closed)
  /\ UNCHANGED <<port, s_used_mask, sr, buf, sent, mainVars, peerVars>>

\* Bug: a socket that was closed under the pool is passed over.
PollIgnoresClosed ==
  /\ pc = "poll"
  /\ \/ Connected(chip[sn]) /\ pc' = "avail" /\ sr' = chip[sn].sr /\ UNCHANGED sn
     \/ ~Connected(chip[sn]) /\ Continue("poll") /\ UNCHANGED sr
  /\ UNCHANGED <<chip, port, s_used_mask, buf, sent, mainVars, peerVars>>

\* Bug: a half-closed socket is re-armed without a look at what it has received.
PollDropsHalfClosed ==
  /\ pc = "poll"
  /\ \/ chip[sn].sr = "ESTABLISHED" /\ pc' = "avail" /\ sr' = chip[sn].sr /\ UNCHANGED sn
     \/ chip[sn].sr \in {"CLOSED", "CLOSE_WAIT"} /\ pc' = "cl_sr" /\ UNCHANGED <<sn, sr>>
     \/ chip[sn].sr \notin {"ESTABLISHED", "CLOSED", "CLOSE_WAIT"}
        /\ Continue("poll") /\ UNCHANGED sr
  /\ UNCHANGED <<chip, port, s_used_mask, buf, sent, mainVars, peerVars>>

\* toe_echo_task reads the status and acts on that reading.
Poll ==
  /\ pc = "poll"
  /\ \/ Connected(chip[sn]) /\ pc' = "avail" /\ sr' = chip[sn].sr /\ UNCHANGED sn
     \/ chip[sn].sr = "CLOSED" /\ pc' = "cl_sr" /\ UNCHANGED <<sn, sr>>
     \/ ~Connected(chip[sn]) /\ chip[sn].sr # "CLOSED" /\ Continue("poll") /\ UNCHANGED sr
  /\ UNCHANGED <<chip, port, s_used_mask, buf, sent, mainVars, peerVars>>

\* The received size; the status is still the one read before.
Avail ==
  /\ pc = "avail" /\ sr' = "CLOSED"
  /\ \/ chip[sn].rx # <<>> /\ pc' = "recv_sr" /\ UNCHANGED sn
     \/ chip[sn].rx = <<>> /\ sr = "CLOSE_WAIT" /\ pc' = "cl_sr" /\ UNCHANGED sn
     \/ chip[sn].rx = <<>> /\ sr # "CLOSE_WAIT" /\ Continue("poll")
  /\ UNCHANGED <<chip, port, s_used_mask, buf, sent, mainVars, peerVars>>

\* toe_sock_recv's own checks; 0 makes the pool re-arm the socket.
RecvCheck ==
  /\ \/ pc = "recv_sr"  /\ pc' = IF Connected(chip[sn]) THEN "recv_rsr" ELSE "cl_sr"
     \/ pc = "recv_rsr" /\ pc' = IF chip[sn].rx # <<>> THEN "recv_data" ELSE "cl_sr"
  /\ UNCHANGED <<chip, port, s_used_mask, sn, sr, buf, sent, mainVars, peerVars>>

\* What is read from a socket that another task has closed since.
Junk == <<0, 0, 0>>

\* Bug: the RECV command is left out.
RecvDataKeeps ==
  /\ pc = "recv_data" /\ pc' = "send_sr"
  /\ \/ \E n \in 1 .. Len(chip[sn].rx) : n <= BUFSIZE /\ buf' = SubSeq(chip[sn].rx, 1, n)
     \/ chip[sn].rx = <<>> /\ buf' = <<Junk>>
  /\ UNCHANGED <<chip, port, s_used_mask, sn, sr, sent, mainVars, peerVars>>

RecvData ==
  /\ pc = "recv_data" /\ pc' = "send_sr"
  /\ \/ \E n \in 1 .. Len(chip[sn].rx) :
          /\ n <= BUFSIZE
          /\ buf' = SubSeq(chip[sn].rx, 1, n)
          /\ SetChip(sn, Drained(chip[sn], n))
     \/ chip[sn].rx = <<>> /\ buf' = <<Junk>> /\ UNCHANGED chip
  /\ UNCHANGED <<port, s_used_mask, sn, sr, sent, mainVars, peerVars>>

\* The pool ignores what toe_sock_send returns and goes on with the next socket.
SendReturns == Continue("poll") /\ buf' = <<>> /\ sent' = 0

\* Bug: toe_sock_send goes on trying when the connection is gone.
SendSrRetries ==
  /\ pc = "send_sr"
  /\ pc' = IF Connected(chip[sn]) THEN "send_ir" ELSE "send_sr"
  /\ UNCHANGED <<chip, port, s_used_mask, sn, sr, buf, sent, mainVars, peerVars>>

SendSr ==
  /\ pc = "send_sr"
  /\ \/ Connected(chip[sn]) /\ pc' = "send_ir" /\ UNCHANGED <<sn, buf, sent>>
     \/ ~Connected(chip[sn]) /\ SendReturns
  /\ UNCHANGED <<chip, port, s_used_mask, sr, mainVars, peerVars>>

\* Bug: SOCK_BUSY is taken for an error and the rest of the buffer is dropped.
SendIrGivesUp ==
  /\ pc = "send_ir"
  /\ \/ ~chip[sn].sending /\ pc' = "send_wr" /\ UNCHANGED <<sn, buf, sent>>
     \/ chip[sn].sending /\ "SENDOK" \in chip[sn].ir
        /\ pc' = "send_clr" /\ UNCHANGED <<sn, buf, sent>>
     \/ chip[sn].sending /\ "SENDOK" \notin chip[sn].ir /\ SendReturns
  /\ UNCHANGED <<chip, port, s_used_mask, sr, mainVars, peerVars>>

\* send() looks for the outcome of the SEND before; SOCK_BUSY is tried again.
SendIr ==
  /\ pc = "send_ir"
  /\ \/ /\ ~chip[sn].sending
        /\ pc' = "send_wr" /\ UNCHANGED <<chip, sn, buf, sent>>
     \/ /\ chip[sn].sending /\ "SENDOK" \in chip[sn].ir
        /\ pc' = "send_clr" /\ UNCHANGED <<chip, sn, buf, sent>>
     \/ /\ chip[sn].sending /\ "SENDOK" \notin chip[sn].ir /\ "TIMEOUT" \in chip[sn].ir
        /\ SetChip(sn, Closed) /\ SendReturns
     \/ /\ chip[sn].sending /\ {"SENDOK", "TIMEOUT"} \cap chip[sn].ir = {}
        /\ pc' = "send_sr" /\ UNCHANGED <<chip, sn, buf, sent>>
  /\ UNCHANGED <<port, s_used_mask, sr, mainVars, peerVars>>

SendClr ==
  /\ pc = "send_clr" /\ pc' = "send_wr"
  /\ SetChip(sn, [Acked(chip[sn], {"SENDOK"}) EXCEPT !.sending = FALSE])
  /\ UNCHANGED <<port, s_used_mask, sn, sr, buf, sent, mainVars, peerVars>>

SendWr ==
  LET n == IF Len(buf) - sent < TXMAX THEN Len(buf) - sent ELSE TXMAX
      free == TXMAX - Len(chip[sn].tx)
  IN /\ pc = "send_wr"
     /\ \/ ~Connected(chip[sn]) /\ SetChip(sn, Closed) /\ SendReturns
        \/ /\ Connected(chip[sn]) /\ n > free
           /\ pc' = "send_sr" /\ UNCHANGED <<chip, sn, buf, sent>>
        \/ /\ Connected(chip[sn]) /\ n <= free
           /\ SetChip(sn, Sending(chip[sn], SubSeq(buf, sent + 1, sent + n)))
           /\ \/ sent + n < Len(buf) /\ sent' = sent + n /\ pc' = "send_sr" /\ UNCHANGED <<sn, buf>>
              \/ sent + n = Len(buf) /\ SendReturns
     /\ UNCHANGED <<port, s_used_mask, sr, mainVars, peerVars>>

\* toe_relisten: toe_sock_close, then open and listen as above.
Close ==
  /\ \/ pc = "cl_sr"    /\ pc' = "cl_close" /\ CloseSr(sn) /\ UNCHANGED s_used_mask
     \/ pc = "cl_close" /\ pc' = "open"     /\ CloseChip(sn)
  /\ UNCHANGED <<port, sn, sr, buf, sent, mainVars, peerVars>>

Pool == \/ OpenOk \/ OpenFails \/ Listen \/ ListenFails \/ Poll \/ Avail \/ RecvCheck
        \/ RecvData \/ SendSr \/ SendIr \/ SendClr \/ SendWr \/ Close

-------------------------------------------------------------------------------
(* app_main's routing check: wiz_socket, then wiz_close. *)

Scan ==
  /\ main = "scan"
  /\ \/ \E s \in Socks \ s_used_mask :
          /\ \A t \in 1 .. s - 1 : t \in s_used_mask
          /\ fd' = s /\ main' = "open"
     \/ Socks \subseteq s_used_mask /\ main' = "done" /\ UNCHANGED fd
  /\ UNCHANGED <<chip, port, s_used_mask, poolVars, peerVars>>

CheckOpen ==
  /\ main = "open"
  /\ \/ main' = "cl_sr" /\ SocketOn(fd, 0)
     \/ main' = "done" /\ UNCHANGED <<chip, port, s_used_mask>>  \* it falls back to lwIP
  /\ UNCHANGED <<fd, poolVars, peerVars>>

CheckClose ==
  /\ \/ main = "cl_sr"    /\ main' = "cl_close" /\ CloseSr(fd) /\ UNCHANGED s_used_mask
     \/ main = "cl_close" /\ main' = "done"     /\ CloseChip(fd)
  /\ UNCHANGED <<port, fd, poolVars, peerVars>>

Check == Scan \/ CheckOpen \/ CheckClose

-------------------------------------------------------------------------------
(* The client of socket s, and what the chip does on its own. *)

Bound(most) == IF main = "off" \/ most < CHECKMAX THEN most ELSE CHECKMAX

PeerConnect(s) ==
  /\ chip[s].sr = "LISTEN" /\ conn[s] < Bound(MAXCONNS)
  /\ SetChip(s, GotConnection(chip[s]))
  /\ conn' = [conn EXCEPT ![s] = @ + 1]
  /\ out' = [out EXCEPT ![s] = 0] /\ got' = [got EXCEPT ![s] = <<>>]
  /\ UNCHANGED <<port, s_used_mask, poolVars, mainVars>>

Byte(s, i) == <<s, conn[s], i>>

PeerSend(s) ==
  /\ chip[s].sr = "ESTABLISHED" /\ Len(chip[s].rx) < RXMAX /\ out[s] < Bound(MAXBYTES)
  /\ out' = [out EXCEPT ![s] = @ + 1]
  /\ SetChip(s, GotByte(chip[s], Byte(s, out'[s])))
  /\ UNCHANGED <<port, s_used_mask, poolVars, mainVars, conn, got>>

PeerFin(s) ==
  /\ chip[s].sr \in {"ESTABLISHED", "FIN_WAIT"}
  /\ SetChip(s, GotFin(chip[s]))
  /\ UNCHANGED <<port, s_used_mask, poolVars, mainVars, peerVars>>

PeerReset(s) ==
  /\ chip[s].sr \in {"ESTABLISHED", "CLOSE_WAIT", "FIN_WAIT", "LAST_ACK"}
  /\ SetChip(s, GotReset(chip[s]))
  /\ UNCHANGED <<port, s_used_mask, poolVars, mainVars, peerVars>>

ChipSendDone(s) ==
  /\ chip[s].tx # <<>>
  /\ got' = [got EXCEPT ![s] = @ \o chip[s].tx]
  /\ SetChip(s, SendDone(chip[s]))
  /\ UNCHANGED <<port, s_used_mask, poolVars, mainVars, conn, out>>

ChipTimeout(s) ==
  /\ chip[s].tx # <<>>
  /\ SetChip(s, SendTimeout(chip[s]))
  /\ UNCHANGED <<port, s_used_mask, poolVars, mainVars, peerVars>>

Peer(s) == PeerConnect(s) \/ PeerSend(s) \/ PeerFin(s) \/ PeerReset(s)
Wire(s) == ChipSendDone(s) \/ ChipTimeout(s)

-------------------------------------------------------------------------------
Next == \/ Pool \/ Check
        \/ \E s \in Socks : Peer(s) \/ Wire(s)

\* As in ToeStream.  A SEND comes to an end on every socket: clients read what they
\* are sent or are given up.  And socket(), tried forever, succeeds, and listen() fails
\* only finitely often: the pool is started after the chip has its address.
Fairness == /\ WF_vars(Pool) /\ WF_vars(Check)
            /\ \A s \in Socks : WF_vars(Wire(s)) /\ SF_vars(OpenOk /\ sn = s)
            /\ <>[][~ListenFails]_vars

Spec == Init /\ [][Next]_vars

FairSpec == Spec /\ Fairness

-------------------------------------------------------------------------------
(* Properties *)

Bytes == (Socks \X (1 .. MAXCONNS) \X (1 .. MAXBYTES)) \cup {Junk}

TypeOK ==
  /\ \A s \in Socks :
       /\ chip[s].sr \in Status /\ chip[s].ir \subseteq IrBits /\ chip[s].sending \in BOOLEAN
       /\ chip[s].rx \in Seq(Bytes) /\ Len(chip[s].rx) <= RXMAX
       /\ chip[s].tx \in Seq(Bytes) /\ Len(chip[s].tx) <= TXMAX
       /\ conn[s] \in 0 .. MAXCONNS /\ out[s] \in 0 .. MAXBYTES /\ got[s] \in Seq(Bytes)
  /\ port \in [Socks -> 0 .. UINT16_MAX] /\ s_used_mask \subseteq Socks
  /\ pc \in Pcs /\ sn \in Socks /\ sr \in Status
  /\ buf \in Seq(Bytes) /\ Len(buf) <= BUFSIZE /\ sent \in 0 .. Len(buf)
  /\ main \in {"off", "scan", "open", "cl_sr", "cl_close", "done"}
  /\ fd \in 0 .. N

\* The part of the shared buffer that is on its way to socket s.
InHand(s) == IF s = sn THEN SubSeq(buf, sent + 1, Len(buf)) ELSE <<>>

\* The sockets share one buffer and one task.  While a connection is up, the bytes its
\* client sent are neither lost nor repeated nor crossed with those of another
\* socket, whichever socket the task turned to in between.
Conserved ==
  \A s \in Socks : Connected(chip[s]) =>
    got[s] \o chip[s].tx \o InHand(s) \o chip[s].rx = [i \in 1 .. out[s] |-> Byte(s, i)]

\* Socket s waits for clients of the pool: app_main's check has not taken it.
ListensForPool(s) == chip[s].sr = "LISTEN" /\ ~(s = fd /\ main \in {"cl_sr", "cl_close"})

\* toe_demo.c:25 "Each pool socket listens on its own port (base, base+1, ...)": on base,
\* base+1, ... as far as there are such ports, and on a port that no other socket of the
\* pool listens on in any case, also for a base near the largest port, and also when
\* app_main's check takes a socket from under the pool, once it has given it back.
OwnPort ==
  \A s \in Socks : ListensForPool(s) =>
    /\ BASE + s - 1 <= UINT16_MAX => port[s] = BASE + s - 1
    /\ \A t \in Socks \ {s} : ListensForPool(t) => port[t] # port[s]

\* The pool implements EchoService on all its sockets.
Service == INSTANCE EchoService WITH SOCKETS <- Socks
EchoesFaithfully == Service!Spec

\* toe_demo.c:93 re-arms a half-closed socket because the RX size was 0; no byte of
\* the client is unread then, although the status was read earlier.
HalfCloseDrained ==
  [][(pc = "cl_sr" /\ pc' # pc /\ chip[sn].sr = "CLOSE_WAIT") => chip[sn].rx = <<>>]_vars

\* toe_demo.c:44 "A single task polls every socket (non-blocking) so one stack/buffer
\* serves them all": every client gets all it sent back, unless its connection ends.
EchoedInFull ==
  \A s \in Socks :
    Connected(chip[s]) /\ Len(got[s]) < out[s]
      ~> Len(got[s]) = out[s] \/ ~Connected(chip[s])

\* Whatever ended a connection, and also when app_main's check closed the socket, the
\* socket listens again.
Rearms ==
  \A s \in Socks : chip[s].sr \in {"CLOSED", "CLOSE_WAIT"}
                     ~> chip[s].sr = "LISTEN"
===============================================================================
