------------------------------- MODULE ToeSlots -------------------------------
(***************************************************************************)
(* The hardware sockets as a resource: the bitmap of toe_socket.c, the     *)
(* descriptors toe_bsd.c makes of it, and the three tasks of the program   *)
(* that call wiz_socket: the echo server of toe_bsd_demo.c, the client     *)
(* demo and app_main's routing check.                                      *)
(*                                                                         *)
(* Nothing guards the bitmap.  alloc_slot reads it once per socket number, *)
(* and slot_take and slot_free read it, change a bit and write it back.    *)
(* call says which wiz_ function a task is in, pc where it is.             *)
(***************************************************************************)
EXTENDS Naturals

CONSTANTS Servers, Clients, Checkers,  \* tasks that run each of the three programs
          Builds,  \* the sets of tasks that run together (Kconfig)
          SERIAL,  \* a task starts a call only while no other is in one or re-arming
          N,       \* the last socket number (7 on the W5500)
          PORT,    \* what the servers bind
          NoFd, LwipFd

Tasks == Servers \cup Clients \cup Checkers
Socks == 1 .. N

ASSUME NAssumption == N \in 1 .. 7
ASSUME FdAssumption == NoFd # LwipFd /\ {NoFd, LwipFd} \cap Socks = {}
ASSUME KindsAssumption == Servers \cap Clients = {} /\ Checkers \cap (Servers \cup Clients) = {}
ASSUME PortAssumption == PORT \in 1 .. 65535
ASSUME BuildsAssumption == Builds \subseteq SUBSET Tasks /\ SERIAL \in BOOLEAN

VARIABLES
  s_used_mask,  \* the sockets whose bit is set
  s_bind_port,  \* what wiz_bind stored for each socket
  chip,         \* status and local port of each hardware socket
  call, pc,     \* the call each task is in, and where
  sn,           \* the socket number the call works on
  port,         \* the local port it opens it with
  loaded,       \* the bitmap it has read and not yet written back
  fd            \* the descriptor the task has

chipVars == <<s_bind_port, chip>>
callVars == <<call, sn, port>>
vars == <<s_used_mask, chipVars, callVars, pc, loaded, fd>>

Init ==
  /\ s_used_mask = {} /\ s_bind_port = [s \in Socks |-> 0]
  /\ chip = [s \in Socks |-> [sr |-> "CLOSED", port |-> 0]]
  /\ \E build \in Builds : pc = [t \in Tasks |-> IF t \in build THEN "begin" ELSE "off"]
  /\ call = [t \in Tasks |-> "none"] /\ sn = [t \in Tasks |-> 1] /\ port = [t \in Tasks |-> 0]
  /\ loaded = [t \in Tasks |-> {}] /\ fd = [t \in Tasks |-> NoFd]

Goto(t, next) == pc' = [pc EXCEPT ![t] = next]
SetSr(s, sr) == chip' = [chip EXCEPT ![s].sr = sr]
Connected(s) == chip[s].sr \in {"ESTABLISHED", "CLOSE_WAIT"}

\* The task is between two calls and has an open TOE descriptor, or has none.
Holding(t) == pc[t] \in {"holds", "accept", "connect", "connected"}
Without(t) == pc[t] \in {"off", "begin", "lwip", "done"}
MayCall(t) == SERIAL => \A u \in Tasks : u = t \/ Holding(u) \/ Without(u)

-------------------------------------------------------------------------------
(* toe_socket.c *)

\* Bug: the loop runs to N + 1.
AllocSlotTooFar(t) ==
  /\ pc[t] = "alloc"
  /\ IF sn[t] \in s_used_mask
       THEN sn' = [sn EXCEPT ![t] = @ + 1] /\ UNCHANGED pc
       ELSE Goto(t, "open") /\ UNCHANGED sn
  /\ UNCHANGED <<s_used_mask, chipVars, call, port, loaded, fd>>

\* alloc_slot, one socket number per step; wiz_socket falls back to lwIP when
\* there is none.
AllocSlot(t) ==
  /\ pc[t] = "alloc"
  /\ \/ /\ sn[t] \notin s_used_mask
        /\ Goto(t, "open") /\ UNCHANGED <<sn, fd>>
     \/ /\ sn[t] \in s_used_mask /\ sn[t] < N
        /\ sn' = [sn EXCEPT ![t] = @ + 1] /\ UNCHANGED <<pc, fd>>
     \/ /\ sn[t] \in s_used_mask /\ sn[t] = N
        /\ fd' = [fd EXCEPT ![t] = LwipFd] /\ Goto(t, "lwip") /\ UNCHANGED sn
  /\ UNCHANGED <<s_used_mask, chipVars, call, port, loaded>>

\* Bug: the slot is taken before socket() is known to have worked.
OpenAfterTake(t) ==
  /\ pc[t] = "open"
  /\ \/ /\ chip' = [chip EXCEPT ![sn[t]] = [sr |-> "INIT", port |-> port[t]]]
        /\ Goto(t, "take") /\ UNCHANGED fd
     \/ /\ call[t] = "listen"
        /\ Goto(t, "listen_failed") /\ UNCHANGED <<chip, fd>>
     \/ /\ call[t] = "socket"
        /\ fd' = [fd EXCEPT ![t] = LwipFd] /\ Goto(t, "lwip") /\ UNCHANGED chip
  /\ s_used_mask' = s_used_mask \cup {sn[t]}
  /\ UNCHANGED <<s_bind_port, callVars, loaded>>

\* ioLibrary's socket(): closes and opens, or fails (no IP address yet, no memory
\* for the socket), which is -1 to wiz_listen and lwIP's turn to wiz_socket.
Open(t) ==
  /\ pc[t] = "open"
  /\ \/ /\ chip' = [chip EXCEPT ![sn[t]] = [sr |-> "INIT", port |-> port[t]]]
        /\ Goto(t, "take") /\ UNCHANGED fd
     \/ /\ call[t] = "listen"
        /\ Goto(t, "listen_failed") /\ UNCHANGED <<chip, fd>>
     \/ /\ call[t] = "socket"
        /\ fd' = [fd EXCEPT ![t] = LwipFd] /\ Goto(t, "lwip") /\ UNCHANGED chip
  /\ UNCHANGED <<s_used_mask, s_bind_port, callVars, loaded>>

LoadMask(t) ==
  /\ loaded' = [loaded EXCEPT ![t] = s_used_mask]
  /\ \/ pc[t] = "take" /\ Goto(t, "take_store")
     \/ pc[t] = "free" /\ Goto(t, "free_store")
  /\ UNCHANGED <<s_used_mask, chipVars, callVars, fd>>

StoreMask(t, mask) ==
  /\ s_used_mask' = mask
  /\ loaded' = [loaded EXCEPT ![t] = {}]

\* slot_take, and the end of toe_sock_open_n.
SlotTake(t) ==
  /\ pc[t] = "take_store"
  /\ StoreMask(t, loaded[t] \cup {sn[t]})
  /\ \/ call[t] = "socket" /\ Goto(t, "holds") /\ fd' = [fd EXCEPT ![t] = sn[t]]
     \/ call[t] = "listen" /\ Goto(t, "listen") /\ UNCHANGED fd
  /\ UNCHANGED <<chipVars, callVars>>

\* toe_sock_close: disconnect if connected, close, slot_free.
CloseSr(t) ==
  /\ pc[t] = "close_sr" /\ Goto(t, "close")
  /\ IF Connected(sn[t]) THEN SetSr(sn[t], "FIN_WAIT") ELSE UNCHANGED chip
  /\ UNCHANGED <<s_used_mask, s_bind_port, callVars, loaded, fd>>

CloseChip(t) ==
  /\ pc[t] = "close" /\ Goto(t, "free")
  /\ SetSr(sn[t], "CLOSED")
  /\ UNCHANGED <<s_used_mask, s_bind_port, callVars, loaded, fd>>

\* Bug: the bit is cleared only for a socket the chip still shows in use.
SlotFreeForgets(t) ==
  /\ pc[t] = "free_store"
  /\ StoreMask(t, IF chip[sn[t]].sr = "CLOSED" THEN loaded[t] ELSE loaded[t] \ {sn[t]})
  /\ \/ call[t] = "listen" /\ Goto(t, "open")
     \/ call[t] = "close" /\ t \in Servers /\ Goto(t, "relisten")
     \/ call[t] = "close" /\ t \in Clients /\ Goto(t, "begin")
     \/ call[t] = "close" /\ t \in Checkers /\ Goto(t, "done")
  /\ UNCHANGED <<chipVars, callVars, fd>>

\* The server goes straight on from wiz_close to wiz_listen.
SlotFree(t) ==
  /\ pc[t] = "free_store"
  /\ StoreMask(t, loaded[t] \ {sn[t]})
  /\ \/ /\ call[t] = "listen" /\ Goto(t, "open")
     \/ /\ call[t] = "close" /\ t \in Servers /\ Goto(t, "relisten")
     \/ /\ call[t] = "close" /\ t \in Clients /\ Goto(t, "begin")
     \/ /\ call[t] = "close" /\ t \in Checkers /\ Goto(t, "done")
  /\ UNCHANGED <<chipVars, callVars, fd>>

-------------------------------------------------------------------------------
(* toe_bsd.c *)

WizSocket(t) ==
  /\ pc[t] = "begin" /\ MayCall(t) /\ Goto(t, "alloc")
  /\ call' = [call EXCEPT ![t] = "socket"]
  /\ sn' = [sn EXCEPT ![t] = 1] /\ port' = [port EXCEPT ![t] = 0]
  /\ fd' = [fd EXCEPT ![t] = NoFd]
  /\ UNCHANGED <<s_used_mask, chipVars, loaded>>

WizBind(t) ==
  /\ t \in Servers /\ pc[t] = "holds" /\ Goto(t, "relisten")
  /\ s_bind_port' = [s_bind_port EXCEPT ![fd[t]] = PORT]
  /\ UNCHANGED <<s_used_mask, chip, callVars, loaded, fd>>

\* Bug: the socket is put into LISTEN as it is.
WizListenAsIs(t) ==
  /\ pc[t] \in {"relisten", "listen_failed"} /\ MayCall(t) /\ Goto(t, "listen")
  /\ call' = [call EXCEPT ![t] = "listen"]
  /\ sn' = [sn EXCEPT ![t] = fd[t]] /\ port' = [port EXCEPT ![t] = s_bind_port[fd[t]]]
  /\ UNCHANGED <<s_used_mask, chipVars, loaded, fd>>

\* wiz_listen reads the port, closes the socket and opens it again.
WizListen(t) ==
  /\ pc[t] \in {"relisten", "listen_failed"} /\ MayCall(t) /\ Goto(t, "close_sr")
  /\ call' = [call EXCEPT ![t] = "listen"]
  /\ sn' = [sn EXCEPT ![t] = fd[t]] /\ port' = [port EXCEPT ![t] = s_bind_port[fd[t]]]
  /\ UNCHANGED <<s_used_mask, chipVars, loaded, fd>>

\* listen() wants a socket in SOCK_INIT, and may fail.
Listen(t) ==
  /\ pc[t] = "listen"
  /\ \/ /\ chip[sn[t]].sr = "INIT" /\ SetSr(sn[t], "LISTEN") /\ Goto(t, "accept")
     \/ Goto(t, "listen_failed") /\ UNCHANGED chip
  /\ UNCHANGED <<s_used_mask, s_bind_port, callVars, loaded, fd>>

WizAccept(t) ==
  /\ pc[t] = "accept"
  /\ \/ chip[fd[t]].sr = "ESTABLISHED" /\ Goto(t, "connected")
     \/ chip[fd[t]].sr = "CLOSED" /\ Goto(t, "relisten")
  /\ UNCHANGED <<s_used_mask, chipVars, callVars, loaded, fd>>

\* connect(), which wants SOCK_INIT too and may fail, and five seconds of waiting for
\* ESTABLISHED, which may run out.
WizConnect(t) ==
  /\ t \in Clients
  /\ \/ /\ pc[t] = "holds" /\ chip[fd[t]].sr = "INIT"
        /\ SetSr(fd[t], "SYNSENT") /\ Goto(t, "connect")
     \/ pc[t] \in {"holds", "connect"} /\ Goto(t, "connected") /\ UNCHANGED chip
  /\ UNCHANGED <<s_used_mask, s_bind_port, callVars, loaded, fd>>

\* After sending and receiving (ToeStream), after a failed connect, or, in
\* app_main's check, right after wiz_socket.
WizClose(t) ==
  /\ \/ pc[t] = "connected"
     \/ t \in Checkers /\ pc[t] = "holds"
  /\ MayCall(t) /\ Goto(t, "close_sr")
  /\ call' = [call EXCEPT ![t] = "close"] /\ sn' = [sn EXCEPT ![t] = fd[t]]
  /\ UNCHANGED <<s_used_mask, chipVars, port, loaded, fd>>

\* A descriptor of lwIP: the server keeps it for good, the others close it.
LwipClose(t) ==
  /\ pc[t] = "lwip"
  /\ \/ t \in Clients /\ Goto(t, "begin")
     \/ t \in Checkers /\ Goto(t, "done")
  /\ UNCHANGED <<s_used_mask, chipVars, callVars, loaded, fd>>

-------------------------------------------------------------------------------
\* What the other end makes of a socket.
Peer ==
  \E s \in Socks :
    /\ \/ chip[s].sr \in {"LISTEN", "SYNSENT"} /\ SetSr(s, "ESTABLISHED")
       \/ chip[s].sr = "ESTABLISHED" /\ SetSr(s, "CLOSE_WAIT")
       \/ chip[s].sr \in {"SYNSENT", "ESTABLISHED", "CLOSE_WAIT"} /\ SetSr(s, "CLOSED")
    /\ UNCHANGED <<s_used_mask, s_bind_port, callVars, pc, loaded, fd>>

TaskStep(t) ==
  \/ AllocSlot(t) \/ Open(t) \/ LoadMask(t) \/ SlotTake(t)
  \/ CloseSr(t) \/ CloseChip(t) \/ SlotFree(t)
  \/ WizSocket(t) \/ WizBind(t) \/ WizListen(t) \/ Listen(t) \/ WizAccept(t)
  \/ WizConnect(t) \/ WizClose(t) \/ LwipClose(t)

Next == Peer \/ \E t \in Tasks : TaskStep(t)

Spec == Init /\ [][Next]_vars

-------------------------------------------------------------------------------
(* Properties *)

TypeOK ==
  /\ s_used_mask \subseteq Socks
  /\ s_bind_port \in [Socks -> {0, PORT}]
  /\ chip \in [Socks -> [sr : {"CLOSED", "INIT", "LISTEN", "SYNSENT", "ESTABLISHED",
                               "CLOSE_WAIT", "FIN_WAIT"}, port : {0, PORT}]]
  /\ call \in [Tasks -> {"none", "socket", "listen", "close"}]
  /\ pc \in [Tasks -> {"off", "begin", "alloc", "open", "take", "take_store", "holds",
                       "relisten", "listen", "listen_failed", "accept", "connect",
                       "connected", "close_sr", "close", "free", "free_store", "lwip",
                       "done"}]
  /\ sn \in [Tasks -> Socks] /\ port \in [Tasks -> {0, PORT}]
  /\ loaded \in [Tasks -> SUBSET Socks]
  /\ fd \in [Tasks -> Socks \cup {NoFd, LwipFd}]

\* toe_socket.c:15 "Bitmap of W5500 sockets currently allocated to the TOE layer":
\* between calls the bits that are set are those of the open descriptors, so that no
\* socket is leaked by failed opens, failed listens or repeated re-arming.
MaskExact ==
  (\A t \in Tasks : Holding(t) \/ Without(t)) =>
    s_used_mask = {fd[t] : t \in {u \in Tasks : Holding(u)}}

\* toe_bsd.c:118 the bound port is "applied at wiz_listen", on every re-arm: a
\* server waits for clients on the port it bound.
ListensOnBound == \A t \in Servers : pc[t] = "accept" => chip[fd[t]].port = PORT

\* toe_bsd.c:49 lwIP is the fallback when there is no TOE slot: a caller is sent there
\* by alloc_slot only while every socket really is somebody's, who has bound it or
\* is about to re-arm it, or is using it.
FallbackWhenFull ==
  [][\A t \in Tasks : pc[t] = "alloc" /\ pc'[t] = "lwip" =>
       \A s \in Socks : \E u \in Tasks : (Holding(u) \/ pc[u] = "relisten") /\ fd[u] = s]_vars

\* toe_socket.h:30 toe_sock_open allocates a hardware socket: two tasks never have
\* the same one.
Exclusive ==
  \A t, u \in Tasks : Holding(t) /\ Holding(u) /\ fd[t] = fd[u] => t = u
===============================================================================
