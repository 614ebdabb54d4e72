----------------------------- MODULE EchoService -----------------------------
(***************************************************************************)
(* What the TOE echo servers promise their clients, whatever happens in    *)
(* between: a client gets back the bytes it sent on its connection, in     *)
(* order, each once, and nothing of another connection or another socket.  *)
(* How much comes back is left open, since a connection may end at any     *)
(* moment with bytes on their way.                                         *)
(***************************************************************************)
EXTENDS Naturals, Sequences

CONSTANT SOCKETS

VARIABLES conn,  \* conn[s]: connections made to socket s so far
          out,   \* out[s]: bytes sent on the present one
          got    \* got[s]: bytes received on it, the client's end included

\* The i-th byte of the c-th connection to socket s.
Byte(s, c, i) == <<s, c, i>>

Init == /\ conn = [s \in SOCKETS |-> 0]
        /\ out  = [s \in SOCKETS |-> 0]
        /\ got  = [s \in SOCKETS |-> <<>>]

Connect(s) == /\ conn' = [conn EXCEPT ![s] = @ + 1]
              /\ out' = [out EXCEPT ![s] = 0]
              /\ got' = [got EXCEPT ![s] = <<>>]

Send(s) == /\ out' = [out EXCEPT ![s] = @ + 1]
           /\ UNCHANGED <<conn, got>>

\* The next n bytes of what was sent come back.
Echo(s, n) ==
  /\ n \in 1 .. out[s] - Len(got[s])
  /\ got' = [got EXCEPT ![s] =
               @ \o [i \in 1 .. n |-> Byte(s, conn[s], Len(@) + i)]]
  /\ UNCHANGED <<conn, out>>

Next == \E s \in SOCKETS :
          Connect(s) \/ Send(s) \/ \E n \in 1 .. out[s] : Echo(s, n)

Spec == Init /\ [][Next]_<<conn, out, got>>
===============================================================================
