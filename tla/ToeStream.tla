------------------------------- MODULE ToeStream -------------------------------
(***************************************************************************)
(* The data path of one TOE socket: the echo server of toe_bsd_demo.c on   *)
(* toe_bsd.c on toe_socket.c, the W5500 socket below it (W5500Socket), the *)
(* client at the other end of the wire, and the dispatcher task of         *)
(* toe_dispatcher.c, which polls and clears the same interrupt register.   *)
(*                                                                         *)
(* The server is one task; pc names the register access or ioLibrary call  *)
(* it makes next.  Each is one step (SharedSpi shows that accesses are     *)
(* atomic), and the client, the chip and the dispatcher move in between.   *)
(* Delays are steps without effect, since the model has no clock.          *)
(***************************************************************************)
EXTENDS W5500Socket, Integers

CONSTANTS RXMAX,     \* bytes in the receive buffer  (2 KB on the chip)
          TXMAX,     \* bytes in the transmit buffer (2 KB on the chip)
          BUFSIZE,   \* the server's buffer          (1460 in the demo)
          MAXCONNS,  \* bound: connections the client makes
          MAXBYTES   \* bound: bytes it sends on each

ASSUME BoundsAssumption == {RXMAX, TXMAX, BUFSIZE, MAXCONNS, MAXBYTES} \subseteq Nat \ {0}

VARIABLES chip,    \* the socket
          pc,      \* where the server is
          buf,     \* what wiz_recv returned and wiz_send has to send
          sent,    \* how much of it send() has accepted
          disp,    \* the dispatcher: not built ("off"), "idle", or "latched"
          latch,   \* the Sn_IR bits it has read and not yet written back
          conn,    \* connections the client has made
          out,     \* bytes it has sent on this one
          got      \* bytes it has received on this one

srvVars  == <<pc, buf, sent>>
dispVars == <<disp, latch>>
peerVars == <<conn, out, got>>
vars == <<chip, srvVars, dispVars, peerVars>>

ListenPcs == {"re_sr", "re_close", "re_open", "re_listen"}
RecvPcs   == {"rsr", "conn", "recv_sr", "recv_rsr", "recv_data"}
SendPcs   == {"send_sr", "send_ir", "send_clr", "send_wr"}
ClosePcs  == {"shut_sr", "shut"}

Init == /\ chip = Closed
        /\ pc = "re_sr" /\ buf = <<>> /\ sent = 0
        /\ disp \in {"off", "idle"}  \* CONFIG_WIZNET_TOE_DISPATCHER_ENABLE
        /\ latch = {}
        /\ conn = 0 /\ out = 0 /\ got = <<>>

-------------------------------------------------------------------------------
(* toe_sock_close: disconnect() if the status says connected, then close(). *)

CloseSr(from, to) ==
  /\ pc = from /\ pc' = to
  /\ chip' = IF Connected(chip) THEN Disconnecting(chip) ELSE chip
  /\ UNCHANGED <<buf, sent, dispVars, peerVars>>

CloseChip(from, to) ==
  /\ pc = from /\ pc' = to
  /\ chip' = Closed
  /\ UNCHANGED <<buf, sent, dispVars, peerVars>>

(* wiz_listen: close and reopen on the bound port, then LISTEN.  When socket() or   *)
(* listen() fails the server waits 500 ms and calls wiz_listen again.               *)

OpenOk ==
  /\ pc = "re_open" /\ pc' = "re_listen"
  /\ chip' = Opened
  /\ UNCHANGED <<buf, sent, dispVars, peerVars>>

OpenFails ==
  /\ pc = "re_open" /\ pc' = "re_sr"
  /\ UNCHANGED <<chip, buf, sent, dispVars, peerVars>>

ListenOk ==
  /\ pc = "re_listen" /\ pc' = "accept"
  /\ chip' = Listening(chip)
  /\ UNCHANGED <<buf, sent, dispVars, peerVars>>

\* listen() closes a socket whose status is not LISTEN after the command.
ListenFails ==
  /\ pc = "re_listen" /\ pc' = "re_sr"
  /\ chip' = Closed
  /\ UNCHANGED <<buf, sent, dispVars, peerVars>>

Listen == \/ CloseSr("re_sr", "re_close") \/ CloseChip("re_close", "re_open")
          \/ OpenOk \/ OpenFails \/ ListenOk \/ ListenFails

\* wiz_accept: poll the status, without a time limit.
Accept ==
  /\ pc = "accept"
  /\ pc' = CASE chip.sr = "ESTABLISHED" -> "rsr"
             [] chip.sr = "CLOSED"      -> "re_sr"
             [] OTHER                   -> "accept"
  /\ UNCHANGED <<chip, buf, sent, dispVars, peerVars>>

(* wiz_recv: toe_sock_rx_available, else toe_sock_connected, else wait. *)

\* Bug: CLOSE_WAIT counts as connected.
RecvPollConnected ==
  /\ \/ pc = "rsr"  /\ pc' = IF chip.rx # <<>> THEN "recv_sr" ELSE "conn"
     \/ pc = "conn" /\ pc' = IF Connected(chip) THEN "rsr" ELSE "shut_sr"
  /\ UNCHANGED <<chip, buf, sent, dispVars, peerVars>>

RecvPoll ==
  /\ \/ pc = "rsr"  /\ pc' = IF chip.rx # <<>> THEN "recv_sr" ELSE "conn"
     \/ pc = "conn" /\ pc' = IF chip.sr = "ESTABLISHED" THEN "rsr" ELSE "shut_sr"
  /\ UNCHANGED <<chip, buf, sent, dispVars, peerVars>>

\* toe_sock_recv returns 0 on a socket that is not connected or has no data.
RecvCheck ==
  /\ \/ pc = "recv_sr"  /\ pc' = IF Connected(chip) THEN "recv_rsr" ELSE "shut_sr"
     \/ pc = "recv_rsr" /\ pc' = IF chip.rx # <<>> THEN "recv_data" ELSE "shut_sr"
  /\ UNCHANGED <<chip, buf, sent, dispVars, peerVars>>

\* Bug: all that was received is copied, whatever the buffer's size.
RecvDataWhole ==
  /\ pc = "recv_data" /\ pc' = "send_sr"
  /\ \E n \in 1 .. Len(chip.rx) : /\ buf' = SubSeq(chip.rx, 1, n)
                                 /\ chip' = Drained(chip, n)
  /\ sent' = 0
  /\ UNCHANGED <<dispVars, peerVars>>

\* Bug: the RECV command is left out.
RecvDataKeeps ==
  /\ pc = "recv_data" /\ pc' = "send_sr"
  /\ \E n \in 1 .. Len(chip.rx) : n <= BUFSIZE /\ buf' = SubSeq(chip.rx, 1, n)
  /\ sent' = 0
  /\ UNCHANGED <<chip, dispVars, peerVars>>

\* Bug: receiving clears every interrupt of the socket.
RecvDataAcksAll ==
  /\ pc = "recv_data" /\ pc' = "send_sr"
  /\ \E n \in 1 .. Len(chip.rx) :
       /\ n <= BUFSIZE
       /\ buf' = SubSeq(chip.rx, 1, n)
       /\ chip' = Acked(Drained(chip, n), IrBits)
  /\ sent' = 0
  /\ UNCHANGED <<dispVars, peerVars>>

\* wiz_recv_data and RECV, for as much as the buffer takes of what Sn_RX_RSR
\* announced; more may have arrived since, so any amount from 1 up is possible.
RecvData ==
  /\ pc = "recv_data" /\ pc' = "send_sr"
  /\ \E n \in 1 .. Len(chip.rx) :
       /\ n <= BUFSIZE
       /\ buf' = SubSeq(chip.rx, 1, n)
       /\ chip' = Drained(chip, n)
  /\ sent' = 0
  /\ UNCHANGED <<dispVars, peerVars>>

(* wiz_send: toe_sock_send's loop around ioLibrary's send(). *)

\* bsd_echo_task ignores what wiz_send returns and calls wiz_recv again.
SendReturns == pc' = "rsr" /\ buf' = <<>> /\ sent' = 0

SendSr ==
  /\ pc = "send_sr"
  /\ \/ Connected(chip) /\ pc' = "send_ir" /\ UNCHANGED <<buf, sent>>
     \/ ~Connected(chip) /\ SendReturns
  /\ UNCHANGED <<chip, dispVars, peerVars>>

\* send() first looks in Sn_IR for the outcome of the SEND before; SOCK_BUSY makes
\* toe_sock_send sleep and try again.
SendIr ==
  /\ pc = "send_ir"
  /\ \/ /\ ~chip.sending
        /\ pc' = "send_wr" /\ UNCHANGED <<chip, buf, sent>>
     \/ /\ chip.sending /\ "SENDOK" \in chip.ir
        /\ pc' = "send_clr" /\ UNCHANGED <<chip, buf, sent>>
     \/ /\ chip.sending /\ "SENDOK" \notin chip.ir /\ "TIMEOUT" \in chip.ir
        /\ chip' = Closed /\ SendReturns
     \/ /\ chip.sending /\ {"SENDOK", "TIMEOUT"} \cap chip.ir = {}
        /\ pc' = "send_sr" /\ UNCHANGED <<chip, buf, sent>>
  /\ UNCHANGED <<dispVars, peerVars>>

SendClr ==
  /\ pc = "send_clr" /\ pc' = "send_wr"
  /\ chip' = [Acked(chip, {"SENDOK"}) EXCEPT !.sending = FALSE]
  /\ UNCHANGED <<buf, sent, dispVars, peerVars>>

\* Bug: every call sends from the start of the buffer.
SendWrFromStart ==
  LET n == IF Len(buf) - sent < TXMAX THEN Len(buf) - sent ELSE TXMAX
  IN /\ pc = "send_wr"
     /\ \/ ~Connected(chip) /\ chip' = Closed /\ SendReturns
        \/ /\ Connected(chip) /\ n > TXMAX - Len(chip.tx)
           /\ pc' = "send_sr" /\ UNCHANGED <<chip, buf, sent>>
        \/ /\ Connected(chip) /\ n <= TXMAX - Len(chip.tx)
           /\ chip' = Sending(chip, SubSeq(buf, 1, n))
           /\ \/ sent + n < Len(buf) /\ sent' = sent + n /\ pc' = "send_sr" /\ UNCHANGED buf
              \/ sent + n = Len(buf) /\ SendReturns
     /\ UNCHANGED <<dispVars, peerVars>>

\* At most a whole transmit buffer is accepted per call.
SendWr ==
  LET n == IF Len(buf) - sent < TXMAX THEN Len(buf) - sent ELSE TXMAX
      free == TXMAX - Len(chip.tx)
  IN /\ pc = "send_wr"
     /\ \/ ~Connected(chip) /\ chip' = Closed /\ SendReturns
        \/ /\ Connected(chip) /\ n > free
           /\ pc' = "send_sr" /\ UNCHANGED <<chip, buf, sent>>
        \/ /\ Connected(chip) /\ n <= free
           /\ chip' = Sending(chip, SubSeq(buf, sent + 1, sent + n))
           /\ \/ sent + n < Len(buf) /\ sent' = sent + n /\ pc' = "send_sr" /\ UNCHANGED buf
              \/ sent + n = Len(buf) /\ SendReturns
     /\ UNCHANGED <<dispVars, peerVars>>

\* wiz_close, after which the server listens again.
Close == CloseSr("shut_sr", "shut") \/ CloseChip("shut", "re_sr")

Server == \/ Listen \/ Accept \/ RecvPoll \/ RecvCheck \/ RecvData
          \/ SendSr \/ SendIr \/ SendClr \/ SendWr \/ Close

-------------------------------------------------------------------------------
(* The dispatcher: latch Sn_IR, write the same bits back, call the handler. *)

DispLatch ==
  /\ disp = "idle" /\ chip.ir # {}
  /\ disp' = "latched" /\ latch' = chip.ir
  /\ UNCHANGED <<chip, srvVars, peerVars>>

DispClear ==
  /\ disp = "latched"
  /\ chip' = Acked(chip, latch)
  /\ disp' = "idle" /\ latch' = {}
  /\ UNCHANGED <<srvVars, peerVars>>

Dispatcher == DispLatch \/ DispClear

-------------------------------------------------------------------------------
(* The client, and what the chip does on its own. *)

PeerConnect ==
  /\ chip.sr = "LISTEN" /\ conn < MAXCONNS
  /\ chip' = GotConnection(chip)
  /\ conn' = conn + 1 /\ out' = 0 /\ got' = <<>>
  /\ UNCHANGED <<srvVars, dispVars>>

\* A byte is told by its socket, its connection and its number.
Byte(i) == <<1, conn, i>>

PeerSend ==
  /\ chip.sr = "ESTABLISHED" /\ Len(chip.rx) < RXMAX /\ out < MAXBYTES
  /\ out' = out + 1
  /\ chip' = GotByte(chip, Byte(out'))
  /\ UNCHANGED <<srvVars, dispVars, conn, got>>

PeerFin ==
  /\ chip.sr \in {"ESTABLISHED", "FIN_WAIT"}
  /\ chip' = GotFin(chip)
  /\ UNCHANGED <<srvVars, dispVars, peerVars>>

\* RST, or the last ACK of a close the server began.
PeerReset ==
  /\ chip.sr \in {"ESTABLISHED", "CLOSE_WAIT", "FIN_WAIT", "LAST_ACK"}
  /\ chip' = GotReset(chip)
  /\ UNCHANGED <<srvVars, dispVars, peerVars>>

ChipSendDone ==
  /\ chip.tx # <<>>
  /\ got' = got \o chip.tx
  /\ chip' = SendDone(chip)
  /\ UNCHANGED <<srvVars, dispVars, conn, out>>

\* The client is gone: eight retransmissions without an answer.
ChipTimeout ==
  /\ chip.tx # <<>>
  /\ chip' = SendTimeout(chip)
  /\ UNCHANGED <<srvVars, dispVars, peerVars>>

Peer == PeerConnect \/ PeerSend \/ PeerFin \/ PeerReset
Wire == ChipSendDone \/ ChipTimeout

-------------------------------------------------------------------------------
Next == Server \/ Dispatcher \/ Peer \/ Wire

\* The server and the dispatcher are tasks that keep running; the chip brings each
\* SEND to an end; socket() and listen() may fail any number of times, but tried
\* forever they succeed.  Nothing is assumed of the client.
Fairness == /\ WF_vars(Server) /\ WF_vars(Dispatcher) /\ WF_vars(Wire)
            /\ SF_vars(OpenOk) /\ SF_vars(ListenOk)

Spec == Init /\ [][Next]_vars

FairSpec == Spec /\ Fairness

-------------------------------------------------------------------------------
(* Properties *)

Bytes == {<<1, c, i>> : c \in 1 .. MAXCONNS, i \in 1 .. MAXBYTES}

TypeOK ==
  /\ chip.sr \in Status /\ chip.ir \subseteq IrBits /\ chip.sending \in BOOLEAN
  /\ chip.rx \in Seq(Bytes) /\ Len(chip.rx) <= RXMAX
  /\ chip.tx \in Seq(Bytes) /\ Len(chip.tx) <= TXMAX
  /\ pc \in ListenPcs \cup {"accept"} \cup RecvPcs \cup SendPcs \cup ClosePcs
  /\ buf \in Seq(Bytes) /\ Len(buf) <= BUFSIZE /\ sent \in 0 .. Len(buf)
  /\ disp \in {"off", "idle", "latched"} /\ latch \subseteq IrBits
  /\ conn \in 0 .. MAXCONNS /\ out \in 0 .. MAXBYTES /\ got \in Seq(Bytes)

\* While a connection is up, no byte the client sent on it is lost, duplicated or
\* reordered, and none of another connection is mixed in: what it got back, what
\* waits in the transmit buffer, what the server holds and what waits in the
\* receive buffer are together exactly what it sent.
Conserved ==
  Connected(chip) =>
    got \o chip.tx \o SubSeq(buf, sent + 1, Len(buf)) \o chip.rx = [i \in 1 .. out |-> Byte(i)]

\* The server implements EchoService on its one socket: what the client gets back is
\* at every moment a prefix of what it sent on this connection, up to and beyond the
\* end of the connection.
Service == INSTANCE EchoService WITH SOCKETS <- {1}, conn <- [s \in {1} |-> conn],
                                    out <- [s \in {1} |-> out], got <- [s \in {1} |-> got]
EchoesFaithfully == Service!Spec

\* Without the dispatcher, when ioLibrary waits for the outcome of a SEND on a
\* connected socket the outcome is still to come or still to be seen.
OutcomeVisible ==
  disp = "off" /\ chip.sending /\ Connected(chip) => chip.tx # <<>> \/ "SENDOK" \in chip.ir

\* toe_socket.h:54 "TCP send-all. Returns bytes sent (== len) or a negative
\* ioLibrary error": toe_sock_send always returns.
SendCompletes == pc \in SendPcs ~> pc \notin SendPcs

\* ... which it does in a build without the dispatcher.
SendCompletesAlone == pc \in SendPcs /\ disp = "off" ~> pc \notin SendPcs

\* When the client is gone from a connection the server was handling, the server
\* gets back to waiting for the next one, however often wiz_listen fails before it
\* succeeds (in a build without the dispatcher).
Rearms == pc \in RecvPcs \cup SendPcs /\ chip.sr # "ESTABLISHED" /\ disp = "off" ~> pc = "accept"

\* toe_bsd.c:91 wiz_recv returns 0 "only once the peer has closed AND the RX buffer
\* is drained".
ZeroMeansDrained ==
  [][(pc \in RecvPcs /\ pc' = "shut_sr" /\ chip.sr = "CLOSE_WAIT") => Len(chip.rx) = 0]_vars

\* toe_bsd.c:152 wiz_accept waits "until a client connects": once one has, it
\* returns.
AcceptReturns == pc = "accept" /\ Connected(chip) ~> pc # "accept"
===============================================================================
