----------------------------- MODULE StreamLemmas -----------------------------
(***************************************************************************)
(* What the proofs about ToeStream and EchoPool need to know of byte       *)
(* sequences and of the W5500's sockets.                                   *)
(***************************************************************************)
EXTENDS W5500Socket, Integers, SequenceTheorems, TLAPS

\* The first n bytes of a client's c-th connection to socket s.
Numbered(s, c, n) == [i \in 1 .. n |-> <<s, c, i>>]

\* Those from the one after m on.
NumberedFrom(s, c, m, n) == [i \in 1 .. n |-> <<s, c, m + i>>]

\* A sequence of numbered bytes is a sequence of that many bytes.
LEMMA NumberedProperties ==
  ASSUME NEW s, NEW c, NEW n \in Nat
  PROVE  /\ Len(Numbered(s, c, n)) = n /\ DOMAIN Numbered(s, c, n) = 1 .. n
         /\ \A B : (\A i \in 1 .. n : <<s, c, i>> \in B) => Numbered(s, c, n) \in Seq(B)
BY DEF Numbered

\* One byte more.
LEMMA NumberedAppend ==
  ASSUME NEW s, NEW c, NEW n \in Nat
  PROVE  Append(Numbered(s, c, n), <<s, c, n + 1>>) = Numbered(s, c, n + 1)
<1>1. Numbered(s, c, n) \in Seq({<<s, c, i>> : i \in Nat})
  BY NumberedProperties
<1> QED BY <1>1, NumberedProperties, SeqEqual, AppendProperties DEF Numbered

\* Joining without its definition, which the provers are better off not knowing when
\* all they need is that the order of joining does not matter.
Cat(p, q) == p \o q

\* What comes before and after a point in a connection's bytes are again such bytes.
LEMMA NumberedSplit ==
  ASSUME NEW s, NEW c, NEW n \in Nat, NEW B, NEW a \in Seq(B), NEW b \in Seq(B),
         Cat(a, b) = Numbered(s, c, n)
  PROVE  /\ Len(a) + Len(b) = n
         /\ a = Numbered(s, c, Len(a)) /\ b = NumberedFrom(s, c, Len(a), Len(b))
<1>1. /\ Len(a \o b) = Len(a) + Len(b)
      /\ \A i \in 1 .. Len(a) + Len(b) :
           (a \o b)[i] = IF i <= Len(a) THEN a[i] ELSE b[i - Len(a)]
  BY ConcatProperties
<1>2. a \o b = Numbered(s, c, n)
  BY DEF Cat
<1>3. Len(a) + Len(b) = n
  BY <1>1, <1>2, NumberedProperties
<1>4. Len(a) \in Nat /\ Len(b) \in Nat /\ DOMAIN a = 1 .. Len(a) /\ DOMAIN b = 1 .. Len(b)
      /\ a = [i \in 1 .. Len(a) |-> a[i]] /\ b = [i \in 1 .. Len(b) |-> b[i]]
  BY LenProperties
<1>5. \A i \in 1 .. n : (a \o b)[i] = <<s, c, i>>
  BY <1>2 DEF Numbered
<1>6. \A i \in 1 .. Len(a) : a[i] = <<s, c, i>>
  BY <1>1, <1>3, <1>4, <1>5
<1>7. \A i \in 1 .. Len(b) : b[i] = <<s, c, Len(a) + i>>
  <2> SUFFICES ASSUME NEW i \in 1 .. Len(b) PROVE b[i] = <<s, c, Len(a) + i>>
    OBVIOUS
  <2>1. Len(a) + i \in 1 .. n /\ ~(Len(a) + i <= Len(a)) /\ (Len(a) + i) - Len(a) = i
    BY <1>3, <1>4
  <2> QED BY <1>1, <1>3, <1>5, <2>1
<1> QED BY <1>3, <1>4, <1>6, <1>7 DEF Numbered, NumberedFrom

\* Nothing is lost where the rest of a sequence is cut in two.
LEMMA Cut ==
  ASSUME NEW B, NEW q \in Seq(B), NEW n \in 0 .. Len(q), NEW m \in 0 .. n
  PROVE  /\ SubSeq(q, m + 1, n) \in Seq(B) /\ Len(SubSeq(q, m + 1, n)) = n - m
         /\ SubSeq(q, n + 1, Len(q)) \in Seq(B) /\ Len(SubSeq(q, n + 1, Len(q))) = Len(q) - n
         /\ SubSeq(q, m + 1, n) \o SubSeq(q, n + 1, Len(q)) = SubSeq(q, m + 1, Len(q))
<1>1. Len(q) \in Nat /\ \A i \in 1 .. Len(q) : q[i] \in B
  BY LenProperties, ElementOfSeq
<1>2. /\ m + 1 \in 1 .. Len(q) + 1 /\ n \in (m + 1) - 1 .. Len(q) /\ Len(q) \in n .. Len(q)
  BY <1>1
<1>3. SubSeq(q, m + 1, n) \o SubSeq(q, n + 1, Len(q)) = SubSeq(q, m + 1, Len(q))
  BY <1>2, ConcatAdjacentSubSeq
<1>4. SubSeq(q, m + 1, n) \in Seq(B) /\ Len(SubSeq(q, m + 1, n)) = n - m
  <2>1. m + 1 \in Int /\ n \in Int /\ m <= n /\ \A i \in m + 1 .. n : q[i] \in B
    BY <1>1
  <2> QED BY <2>1, SubSeqProperties
<1>5. SubSeq(q, n + 1, Len(q)) \in Seq(B) /\ Len(SubSeq(q, n + 1, Len(q))) = Len(q) - n
  <2>1. n + 1 \in Int /\ Len(q) \in Int /\ \A i \in n + 1 .. Len(q) : q[i] \in B
    BY <1>1
  <2> QED BY <1>1, <2>1, SubSeqProperties
<1> QED BY <1>3, <1>4, <1>5

\* The whole of a sequence is its rest from the start, and nothing is the rest from the end.
LEMMA Whole ==
  ASSUME NEW B, NEW q \in Seq(B)
  PROVE  SubSeq(q, 1, Len(q)) = q /\ SubSeq(q, Len(q) + 1, Len(q)) = <<>>
<1>1. Len(q) \in Nat
  BY LenProperties
<1> QED BY <1>1, SubSeqFull, SubSeqEmpty

\* Joining with nothing.
LEMMA JoinEmpty ==
  ASSUME NEW B, NEW q \in Seq(B)
  PROVE  q \o <<>> = q /\ <<>> \o q = q
BY ConcatEmptySeq

\* The order of joining does not matter.
LEMMA Joined ==
  ASSUME NEW B, NEW p \in Seq(B), NEW q \in Seq(B), NEW r \in Seq(B)
  PROVE  /\ p \o q \in Seq(B) /\ Len(p \o q) = Len(p) + Len(q)
         /\ (p \o q) \o r = p \o (q \o r)
BY ConcatProperties, ConcatAssociative

\* A byte that is appended to the last part is appended to the whole.
LEMMA JoinAppend ==
  ASSUME NEW B, NEW p \in Seq(B), NEW q \in Seq(B), NEW e \in B
  PROVE  p \o Append(q, e) = Append(p \o q, e) /\ Append(q, e) \in Seq(B)
         /\ Len(Append(q, e)) = Len(q) + 1
<1>1. Append(q, e) = q \o <<e>> /\ Append(p \o q, e) = (p \o q) \o <<e>> /\ <<e>> \in Seq(B)
  BY AppendIsConcat, ConcatProperties
<1> QED BY <1>1, ConcatAssociative, AppendProperties

\* q is the beginning of the first n bytes of a connection.
Begins(s, c, n, q) == Len(q) <= n /\ q = Numbered(s, c, Len(q))

\* The first part of a beginning is one.
LEMMA BeginsShorter ==
  ASSUME NEW s, NEW c, NEW n \in Nat, NEW B, NEW a \in Seq(B), NEW b \in Seq(B),
         Begins(s, c, n, a \o b)
  PROVE  Begins(s, c, n, a)
<1> DEFINE m == Len(a \o b)
<1>1. m \in Nat /\ Len(a) \in Nat /\ Len(b) \in Nat
  BY ConcatProperties, LenProperties
<1>2. m <= n /\ Cat(a, b) = Numbered(s, c, m)
  BY DEF Begins, Cat
<1> HIDE DEF m
<1>3. Len(a) + Len(b) = m /\ a = Numbered(s, c, Len(a))
  BY <1>1, <1>2, NumberedSplit
<1> QED BY <1>1, <1>2, <1>3 DEF Begins

\* Joining is associative and has <<>> as its unit.
LEMMA CatProperties ==
  ASSUME NEW B
  PROVE  \A p, q, r \in Seq(B) :
           /\ Cat(p, q) \in Seq(B)
           /\ Cat(Cat(p, q), r) = Cat(p, Cat(q, r))
           /\ Cat(p, <<>>) = p
<1> SUFFICES ASSUME NEW p \in Seq(B), NEW q \in Seq(B), NEW r \in Seq(B)
             PROVE  /\ p \o q \in Seq(B) /\ (p \o q) \o r = p \o (q \o r)
                    /\ p \o <<>> = p
  BY DEF Cat
<1> QED BY Joined, JoinEmpty

\* The stream of a connection in its four parts: what the client has got, what waits in
\* the transmit buffer, what the server holds, and what waits in the receive buffer.
Stream(p, t, h, r) == p \o t \o h \o r

\* The first two parts of a connection's bytes are a beginning of them.
LEMMA BeginsWhole ==
  ASSUME NEW s, NEW c, NEW n \in Nat, NEW B, NEW p \in Seq(B), NEW t \in Seq(B),
         NEW h \in Seq(B), NEW r \in Seq(B), Stream(p, t, h, r) = Numbered(s, c, n)
  PROVE  Begins(s, c, n, p \o t)
<1> DEFINE x == Cat(p, t)
           y == Cat(h, r)
<1>1. x \in Seq(B) /\ y \in Seq(B) /\ Cat(Cat(x, h), r) = Cat(x, y)
  BY CatProperties
<1>2. Cat(Cat(x, h), r) = Numbered(s, c, n)
  BY DEF Cat, Stream
<1> HIDE DEF x, y
<1>3. Cat(x, y) = Numbered(s, c, n)
  BY <1>1, <1>2
<1>4. Len(x) + Len(y) = n /\ x = Numbered(s, c, Len(x))
  BY <1>1, <1>3, NumberedSplit
<1>5. Len(x) \in Nat /\ Len(y) \in Nat
  BY <1>1, LenProperties
<1>6. Begins(s, c, n, x)
  BY <1>4, <1>5 DEF Begins
<1> QED BY <1>6 DEF x, Cat

\* Bytes that move from the front of one part to the end of the part before it leave
\* the stream as it is: d from the receive buffer to an empty hand, d from there to the
\* transmit buffer, and all of the transmit buffer to the client.
LEMMA Moves ==
  ASSUME NEW B, NEW p \in Seq(B), NEW t \in Seq(B), NEW d \in Seq(B), NEW h \in Seq(B),
         NEW r \in Seq(B)
  PROVE  /\ Stream(p, t, <<>>, Cat(d, r)) = Stream(p, t, d, r)
         /\ Stream(p, t, Cat(d, h), r) = Stream(p, Cat(t, d), h, r)
         /\ Stream(Cat(p, t), <<>>, h, r) = Stream(p, t, h, r)
<1>1. Cat(p, t) \in Seq(B) /\ Cat(Cat(p, t), <<>>) = Cat(p, t)
  BY CatProperties
<1>2. Cat(Cat(p, t), Cat(d, r)) = Cat(Cat(Cat(p, t), d), r)
  BY <1>1, CatProperties
<1>3. Cat(Cat(p, t), Cat(d, h)) = Cat(Cat(p, Cat(t, d)), h)
  BY <1>1, CatProperties
<1>4. /\ Cat(Cat(Cat(p, t), <<>>), Cat(d, r)) = Cat(Cat(Cat(p, t), d), r)
      /\ Cat(Cat(Cat(p, t), Cat(d, h)), r) = Cat(Cat(Cat(p, Cat(t, d)), h), r)
      /\ Cat(Cat(Cat(Cat(p, t), <<>>), h), r) = Cat(Cat(Cat(p, t), h), r)
  BY <1>1, <1>2, <1>3
<1> QED BY <1>4 DEF Cat, Stream

\* One more byte of the connection arrives behind the others.
LEMMA ByteArrives ==
  ASSUME NEW s, NEW c, NEW n \in Nat, NEW B, NEW p \in Seq(B), NEW t \in Seq(B),
         NEW h \in Seq(B), NEW r \in Seq(B), NEW b \in B, b = <<s, c, n + 1>>,
         Stream(p, t, h, r) = Numbered(s, c, n)
  PROVE  Stream(p, t, h, Append(r, b)) = Numbered(s, c, n + 1)
<1> DEFINE q == p \o t \o h
<1>1. q \in Seq(B) /\ q \o r = Numbered(s, c, n)
  BY Joined DEF Stream
<1>2. q \in Seq(B)
  BY <1>1
<1> HIDE DEF q
<1>3. q \o Append(r, b) = Append(q \o r, b)
  BY <1>2, JoinAppend, Z3
<1>4. q \o Append(r, b) = Numbered(s, c, n + 1)
  BY <1>1, <1>3, NumberedAppend
<1> QED BY <1>4 DEF q, Stream

-------------------------------------------------------------------------------
(* The sockets of the W5500. *)

\* A socket that holds bytes of B.
SockOf(B) == [sr : Status, rx : Seq(B), tx : Seq(B), ir : SUBSET IrBits, sending : BOOLEAN]

\* A socket that was closed or opened is one, with nothing in it.
LEMMA ClosedSock ==
  ASSUME NEW B
  PROVE  /\ Closed \in SockOf(B) /\ Opened \in SockOf(B)
         /\ Closed.sr = "CLOSED" /\ Closed.rx = <<>> /\ Closed.tx = <<>>
         /\ Closed.ir = {} /\ Closed.sending = FALSE
         /\ Opened.sr = "INIT" /\ Opened.rx = <<>> /\ Opened.tx = <<>>
         /\ Opened.ir = {} /\ Opened.sending = FALSE
         /\ <<>> \in Seq(B) /\ Len(<<>>) = 0
<1>1. <<>> \in Seq(B) /\ Len(<<>>) = 0
  BY EmptySeq
<1>2. /\ Closed \in SockOf(B)
      /\ Closed.sr = "CLOSED" /\ Closed.rx = <<>> /\ Closed.tx = <<>>
      /\ Closed.ir = {} /\ Closed.sending = FALSE
  BY <1>1 DEF SockOf, Status, Closed
<1> QED BY <1>1, <1>2 DEF SockOf, Status, Opened

\* listen() leaves the buffers and interrupts alone.
LEMMA ListeningSock ==
  ASSUME NEW B, NEW k \in SockOf(B)
  PROVE  /\ Listening(k) \in SockOf(B)
         /\ Listening(k).sr = "LISTEN"
         /\ Listening(k).rx = k.rx
         /\ Listening(k).tx = k.tx
         /\ Listening(k).ir = k.ir
         /\ Listening(k).sending = k.sending
<1>1. <<>> \in Seq(B)
  BY EmptySeq
<1> QED BY <1>1 DEF SockOf, Status, IrBits, Listening

\* So does disconnect(): what waits in the buffers is still sent and can still be read.
LEMMA DisconnectingSock ==
  ASSUME NEW B, NEW k \in SockOf(B)
  PROVE  /\ Disconnecting(k) \in SockOf(B)
         /\ Disconnecting(k).sr \in {"FIN_WAIT", "LAST_ACK"}
         /\ Disconnecting(k).rx = k.rx
         /\ Disconnecting(k).tx = k.tx
         /\ Disconnecting(k).ir = k.ir
         /\ Disconnecting(k).sending = k.sending
<1>1. <<>> \in Seq(B)
  BY EmptySeq
<1> QED BY <1>1 DEF SockOf, Status, IrBits, Disconnecting

\* Clearing interrupts does nothing else.
LEMMA AckedSock ==
  ASSUME NEW B, NEW k \in SockOf(B), NEW bits
  PROVE  /\ Acked(k, bits) \in SockOf(B)
         /\ Acked(k, bits).sr = k.sr
         /\ Acked(k, bits).rx = k.rx
         /\ Acked(k, bits).tx = k.tx
         /\ Acked(k, bits).sending = k.sending
         /\ Acked(k, bits).ir = k.ir \ bits
<1>1. <<>> \in Seq(B)
  BY EmptySeq
<1> QED BY <1>1 DEF SockOf, Status, IrBits, Acked

\* A handshake leaves the buffers alone.
LEMMA GotConnectionSock ==
  ASSUME NEW B, NEW k \in SockOf(B)
  PROVE  /\ GotConnection(k) \in SockOf(B)
         /\ GotConnection(k).sr = "ESTABLISHED"
         /\ GotConnection(k).rx = k.rx
         /\ GotConnection(k).tx = k.tx
         /\ GotConnection(k).sending = k.sending
<1>1. <<>> \in Seq(B)
  BY EmptySeq
<1> QED BY <1>1 DEF SockOf, Status, IrBits, GotConnection

\* A FIN ends one direction, and the connection if the other was ended before.
LEMMA GotFinSock ==
  ASSUME NEW B, NEW k \in SockOf(B)
  PROVE  /\ GotFin(k) \in SockOf(B)
         /\ GotFin(k).sr = (IF k.sr = "ESTABLISHED" THEN "CLOSE_WAIT" ELSE "CLOSED")
         /\ GotFin(k).rx = k.rx
         /\ GotFin(k).tx = k.tx
         /\ GotFin(k).sending = k.sending
         /\ GotFin(k).ir = k.ir \cup {"DISCON"}
<1>1. <<>> \in Seq(B)
  BY EmptySeq
<1> QED BY <1>1 DEF SockOf, Status, IrBits, GotFin

\* An RST throws away what waits to be sent, not what was received.
LEMMA GotResetSock ==
  ASSUME NEW B, NEW k \in SockOf(B)
  PROVE  /\ GotReset(k) \in SockOf(B)
         /\ GotReset(k).sr = "CLOSED"
         /\ GotReset(k).tx = <<>>
         /\ GotReset(k).rx = k.rx
         /\ GotReset(k).sending = k.sending
<1>1. <<>> \in Seq(B)
  BY EmptySeq
<1> QED BY <1>1 DEF SockOf, Status, IrBits, GotReset

\* A SEND that ends well empties the transmit buffer and says so.
LEMMA SendDoneSock ==
  ASSUME NEW B, NEW k \in SockOf(B)
  PROVE  /\ SendDone(k) \in SockOf(B)
         /\ SendDone(k).tx = <<>>
         /\ SendDone(k).ir = k.ir \cup {"SENDOK"}
         /\ SendDone(k).sr = k.sr
         /\ SendDone(k).rx = k.rx
         /\ SendDone(k).sending = k.sending
<1>1. <<>> \in Seq(B)
  BY EmptySeq
<1> QED BY <1>1 DEF SockOf, Status, IrBits, SendDone

\* One that does not ends the connection.
LEMMA SendTimeoutSock ==
  ASSUME NEW B, NEW k \in SockOf(B)
  PROVE  /\ SendTimeout(k) \in SockOf(B)
         /\ SendTimeout(k).sr = "CLOSED"
         /\ SendTimeout(k).tx = <<>>
         /\ SendTimeout(k).rx = k.rx
         /\ SendTimeout(k).sending = k.sending
<1>1. <<>> \in Seq(B)
  BY EmptySeq
<1> QED BY <1>1 DEF SockOf, Status, IrBits, SendTimeout

\* A byte that arrives goes to the end of the receive buffer.
LEMMA GotByteSock ==
  ASSUME NEW B, NEW k \in SockOf(B), NEW b \in B
  PROVE  LET h == GotByte(k, b)
         IN  /\ h \in SockOf(B) /\ h.sr = k.sr /\ h.rx = Append(k.rx, b) /\ h.tx = k.tx
             /\ h.sending = k.sending /\ Len(h.rx) = Len(k.rx) + 1 /\ h.ir = k.ir \cup {"RECV"}
<1>1. k.rx \in Seq(B)
  BY DEF SockOf
<1>2. Append(k.rx, b) \in Seq(B) /\ Len(Append(k.rx, b)) = Len(k.rx) + 1
  BY <1>1, AppendProperties
<1> QED BY <1>2 DEF SockOf, IrBits, GotByte

\* RECV takes bytes off the front of the receive buffer.
LEMMA DrainedSock ==
  ASSUME NEW B, NEW k \in SockOf(B), NEW n \in 1 .. Len(k.rx)
  PROVE  LET h == Drained(k, n)
         IN  /\ h \in SockOf(B) /\ h.sr = k.sr /\ h.tx = k.tx /\ h.sending = k.sending
             /\ h.ir = k.ir /\ Len(h.rx) = Len(k.rx) - n
             /\ SubSeq(k.rx, 1, n) \in Seq(B) /\ Len(SubSeq(k.rx, 1, n)) = n
             /\ SubSeq(k.rx, 1, n) \o h.rx = k.rx
<1> DEFINE rest == SubSeq(k.rx, n + 1, Len(k.rx))
<1>1. k.rx \in Seq(B) /\ n \in 0 .. Len(k.rx) /\ 0 \in 0 .. n /\ 0 + 1 = 1 /\ n - 0 = n
  BY LenProperties DEF SockOf
<1>2. /\ rest \in Seq(B) /\ Len(rest) = Len(k.rx) - n
      /\ SubSeq(k.rx, 0 + 1, n) \in Seq(B) /\ Len(SubSeq(k.rx, 0 + 1, n)) = n - 0
      /\ SubSeq(k.rx, 0 + 1, n) \o rest = SubSeq(k.rx, 0 + 1, Len(k.rx))
  BY <1>1, Cut
<1>3. Drained(k, n) = [k EXCEPT !.rx = rest]
  BY DEF Drained
<1> HIDE DEF rest
<1>4. LET h == Drained(k, n)
      IN  /\ h \in SockOf(B) /\ h.sr = k.sr /\ h.tx = k.tx /\ h.sending = k.sending
          /\ h.ir = k.ir /\ h.rx = rest
  BY <1>2, <1>3 DEF SockOf
<1>5. SubSeq(k.rx, 1, n) \o rest = k.rx
  BY <1>1, <1>2, Whole
<1> QED BY <1>1, <1>2, <1>4, <1>5

\* SEND puts bytes behind those that wait in the transmit buffer.
LEMMA SendingSock ==
  ASSUME NEW B, NEW k \in SockOf(B), NEW d \in Seq(B)
  PROVE  LET h == Sending(k, d)
         IN  /\ h \in SockOf(B) /\ h.sr = k.sr /\ h.rx = k.rx /\ h.tx = k.tx \o d
             /\ h.sending /\ h.ir = k.ir /\ Len(h.tx) = Len(k.tx) + Len(d)
<1>1. k.tx \o d \in Seq(B) /\ Len(k.tx \o d) = Len(k.tx) + Len(d)
  BY ConcatProperties DEF SockOf
<1> QED BY <1>1 DEF SockOf, Sending
===============================================================================
