----------------------------- MODULE W5500Socket -----------------------------
(***************************************************************************)
(* One TCP socket of the W5500, with the ioLibrary calls the code makes on *)
(* it, as far as src/ relies on them.  Neither is part of the repository   *)
(* (ioLibrary_Driver is a submodule); both are taken from how              *)
(* toe_socket.c, toe_demo.c and toe_dispatcher.c use them.                 *)
(*                                                                         *)
(* A socket is a record: sr the status register, rx the bytes received and *)
(* not yet read, tx the bytes handed over by SEND and not yet              *)
(* acknowledged, ir the latched interrupt bits, sending ioLibrary's        *)
(* sock_is_sending bit, which remembers that a SEND's outcome is awaited.  *)
(***************************************************************************)
EXTENDS Sequences, Naturals

Status == {"CLOSED", "INIT", "LISTEN", "ESTABLISHED", "CLOSE_WAIT", "FIN_WAIT", "LAST_ACK"}
IrBits == {"CON", "DISCON", "RECV", "SENDOK", "TIMEOUT"}

Connected(k) == k.sr \in {"ESTABLISHED", "CLOSE_WAIT"}

\* CLOSE: everything the socket held is gone, its interrupts are cleared.
Closed == [sr |-> "CLOSED", rx |-> <<>>, tx |-> <<>>, ir |-> {}, sending |-> FALSE]

\* socket() closes the socket and then opens it.
Opened == [Closed EXCEPT !.sr = "INIT"]

\* listen() wants SOCK_INIT; on any other status it reports an error.
Listening(k) == [k EXCEPT !.sr = "LISTEN"]

\* disconnect() in non-blocking mode: a FIN is queued, the call does not wait.
Disconnecting(k) ==
  [k EXCEPT !.sr = IF @ = "ESTABLISHED" THEN "FIN_WAIT" ELSE "LAST_ACK"]

\* wiz_recv_data and the RECV command: the first n bytes leave the buffer.
Drained(k, n) == [k EXCEPT !.rx = SubSeq(@, n + 1, Len(@))]

\* The bits of Sn_IR that are written back are cleared.
Acked(k, bits) == [k EXCEPT !.ir = @ \ bits]

\* The SEND command with data in the TX buffer.
Sending(k, data) == [k EXCEPT !.tx = @ \o data, !.sending = TRUE]

(* What the chip does by itself. *)

\* A client's handshake with the listening socket completes.
GotConnection(k) == [k EXCEPT !.sr = "ESTABLISHED", !.ir = @ \cup {"CON"}]
GotByte(k, b)    == [k EXCEPT !.rx = Append(@, b), !.ir = @ \cup {"RECV"}]
GotFin(k)        == [k EXCEPT !.sr = IF @ = "ESTABLISHED" THEN "CLOSE_WAIT" ELSE "CLOSED",
                              !.ir = @ \cup {"DISCON"}]
GotReset(k)      == [k EXCEPT !.sr = "CLOSED", !.tx = <<>>, !.ir = @ \cup {"DISCON"}]
SendDone(k)      == [k EXCEPT !.tx = <<>>, !.ir = @ \cup {"SENDOK"}]
SendTimeout(k)   == [k EXCEPT !.sr = "CLOSED", !.tx = <<>>, !.ir = @ \cup {"TIMEOUT"}]
===============================================================================
