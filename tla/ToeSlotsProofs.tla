---------------------------- MODULE ToeSlotsProofs ----------------------------
(***************************************************************************)
(* What the bitmap of toe_socket.c guarantees, for any number of tasks and *)
(* sockets.  The type invariant holds of every interleaving.  The rest     *)
(* holds when calls do not overlap (SERIAL); the run slots_shared shows    *)
(* that it fails when they do.                                             *)
(***************************************************************************)
EXTENDS ToeSlots, TLAPS

-------------------------------------------------------------------------------
(* Types *)

Closing(t) == pc[t] \in {"close_sr", "close", "free", "free_store"}
Opening(t) == pc[t] \in {"open", "take", "take_store"}

\* The task's fd is a hardware socket's, whether or not its bit is set now.
Has(t) ==
  \/ Holding(t) \/ Closing(t) \/ pc[t] \in {"relisten", "listen_failed", "listen"}
  \/ (Opening(t) /\ call[t] = "listen")

FdOK    == \A t \in Tasks : Has(t) => fd[t] \in Socks
AllocOK == \A t \in Tasks : pc[t] = "alloc" => call[t] = "socket"

\* TypeOK is not inductive: wiz_bind, wiz_listen and wiz_close index by fd.
TInv == TypeOK /\ FdOK /\ AllocOK

(* The bitmap *)

InCall(t) == pc[t] \in {"alloc", "listen"} \/ Opening(t) \/ Closing(t)

\* Beside a task in a call all others are between two calls, and what they have is
\* still set in the bitmap.
Alone ==
  \A t, u \in Tasks : InCall(t) /\ u # t =>
    Holding(u) \/ Without(u) \/ (pc[u] = "relisten" /\ fd[u] \in s_used_mask)

\* A bit that is set has a task that answers for it, ...
Accounted == \A s \in s_used_mask : \E t \in Tasks : Has(t) /\ fd[t] = s

\* ... and a task that uses a descriptor has its bit set.
Backed == \A t \in Tasks : Holding(t) \/ pc[t] = "listen" => fd[t] \in s_used_mask

\* No two tasks have the same socket, even while it is closed for a moment.
Apart == \A t, u \in Tasks : Has(t) /\ Has(u) /\ fd[t] = fd[u] => t = u

\* What a task has read of the bitmap is still so when it writes it back.
Fresh ==
  \A t \in Tasks :
    /\ pc[t] = "alloc" => \A s \in Socks : s < sn[t] => s \in s_used_mask
    /\ Opening(t) => sn[t] \notin s_used_mask
    /\ pc[t] \in {"take_store", "free_store"} => loaded[t] = s_used_mask

\* A call on a descriptor works on that descriptor's socket.
Aimed ==
  \A t \in Tasks :
    Closing(t) \/ pc[t] = "listen" \/ (Opening(t) /\ call[t] = "listen") => sn[t] = fd[t]

SInv == Alone /\ Accounted /\ Backed /\ Apart /\ Fresh /\ Aimed

(* The bound port *)

Reopened(t) == pc[t] \in {"take", "take_store", "listen"} /\ call[t] = "listen"

\* The bound port stays with the descriptor, wiz_listen hands it to socket(), and
\* the chip's socket keeps it.
BindKept(t) == Has(t) /\ pc[t] # "holds" => s_bind_port[fd[t]] = PORT
PortGiven(t) == Has(t) /\ InCall(t) /\ call[t] = "listen" => port[t] = PORT
PortOpen(t) == Reopened(t) \/ pc[t] = "accept" => chip[fd[t]].port = PORT
Rearming(t) == pc[t] = "listen" => call[t] = "listen"

Ported == \A t \in Servers : BindKept(t) /\ PortGiven(t) /\ PortOpen(t) /\ Rearming(t)

-------------------------------------------------------------------------------

USE DEF Goto, SetSr, chipVars, callVars, StoreMask

\* TypeOK taken apart, so that each step needs only the part it disturbs.
Pcs == {"off", "begin", "alloc", "open", "take", "take_store", "holds", "relisten",
        "listen", "listen_failed", "accept", "connect", "connected", "close_sr", "close",
        "free", "free_store", "lwip", "done"}
Srs == {"CLOSED", "INIT", "LISTEN", "SYNSENT", "ESTABLISHED", "CLOSE_WAIT", "FIN_WAIT"}

PcType   == pc \in [Tasks -> Pcs]
CallType == call \in [Tasks -> {"none", "socket", "listen", "close"}]
SnType   == sn \in [Tasks -> Socks]
FdType   == fd \in [Tasks -> Socks \cup {NoFd, LwipFd}]
PortType == s_bind_port \in [Socks -> {0, PORT}] /\ port \in [Tasks -> {0, PORT}]
ChipType == chip \in [Socks -> [sr : Srs, port : {0, PORT}]]
MaskType == s_used_mask \subseteq Socks /\ loaded \in [Tasks -> SUBSET Socks]

\* The parts are the whole.
LEMMA TypeParts ==
  TypeOK <=> PcType /\ CallType /\ SnType /\ FdType /\ PortType /\ ChipType /\ MaskType
BY Zenon DEF TypeOK, PcType, CallType, SnType, FdType, PortType, ChipType, MaskType, Pcs, Srs

\* A task is always at a point of its program and in a call or none.
LEMMA PcStep ==
  ASSUME PcType, CallType, NEW t \in Tasks, TaskStep(t)
  PROVE  PcType' /\ CallType' /\ (AllocOK => AllocOK')
<1> USE DEF PcType, CallType, Pcs, AllocOK
<1>1. CASE AllocSlot(t) \/ Open(t) \/ LoadMask(t) \/ SlotTake(t) \/ CloseSr(t)
  BY <1>1 DEF AllocSlot, Open, LoadMask, SlotTake, CloseSr
<1>2. CASE CloseChip(t) \/ SlotFree(t) \/ WizSocket(t) \/ WizBind(t) \/ WizListen(t)
  BY <1>2 DEF CloseChip, SlotFree, WizSocket, WizBind, WizListen
<1>3. CASE Listen(t) \/ WizAccept(t) \/ WizConnect(t) \/ WizClose(t) \/ LwipClose(t)
  BY <1>3 DEF Listen, WizAccept, WizConnect, WizClose, LwipClose
<1> QED BY <1>1, <1>2, <1>3 DEF TaskStep

\* Socket numbers stay within the chip's sockets: alloc_slot stops at the last one.
LEMMA SnStep ==
  ASSUME SnType, FdOK, NEW t \in Tasks, TaskStep(t)
  PROVE  SnType'
<1> USE DEF SnType
<1>1. sn[t] \in 1 .. N /\ N \in Nat /\ 1 \in Socks
  BY NAssumption DEF Socks
<1>2. sn[t] < N => sn[t] + 1 \in Socks
  BY <1>1 DEF Socks
<1>3. CASE AllocSlot(t) \/ Open(t) \/ LoadMask(t) \/ SlotTake(t) \/ CloseSr(t)
  BY <1>2, <1>3 DEF AllocSlot, Open, LoadMask, SlotTake, CloseSr
<1>4. CASE CloseChip(t) \/ SlotFree(t) \/ WizSocket(t) \/ WizBind(t)
  BY <1>1, <1>4 DEF CloseChip, SlotFree, WizSocket, WizBind
<1>5. CASE WizListen(t) \/ WizClose(t)
  BY <1>5 DEF WizListen, WizClose, FdOK, Has, Holding
<1>6. CASE Listen(t) \/ WizAccept(t) \/ WizConnect(t) \/ LwipClose(t)
  BY <1>6 DEF Listen, WizAccept, WizConnect, LwipClose
<1> QED BY <1>3, <1>4, <1>5, <1>6 DEF TaskStep

\* A descriptor is a socket's where the code uses it as one.
LEMMA FdStep ==
  ASSUME PcType, CallType, SnType, FdType, FdOK, AllocOK, NEW t \in Tasks, TaskStep(t)
  PROVE  FdType' /\ FdOK'
<1> USE DEF PcType, CallType, SnType, FdType, FdOK, Has, Holding, Closing, Opening
<1>1. CASE LoadMask(t) \/ CloseSr(t)
  BY <1>1 DEF LoadMask, CloseSr
<1>2. CASE AllocSlot(t)
  <2>1. pc'[t] \in {"alloc", "open", "lwip"} /\ UNCHANGED call
    BY <1>2 DEF AllocSlot
  <2>2. FdType' /\ \A u \in Tasks : u # t => pc'[u] = pc[u] /\ fd'[u] = fd[u]
    BY <1>2 DEF AllocSlot
  <2>3. fd'[t] = fd[t] \/ pc'[t] = "lwip"
    BY <1>2 DEF AllocSlot
  <2>4. Has(t)' => fd'[t] \in Socks
    BY <1>2, <2>1, <2>3 DEF AllocSlot, AllocOK
  <2> QED BY <2>1, <2>2, <2>4
<1>3. CASE Open(t)
  BY <1>3 DEF Open
<1>4. CASE SlotTake(t)
  BY <1>4 DEF SlotTake
<1>5. CASE CloseChip(t) \/ SlotFree(t) \/ WizSocket(t) \/ WizBind(t) \/ WizListen(t)
  BY <1>5 DEF CloseChip, SlotFree, WizSocket, WizBind, WizListen
<1>6. CASE Listen(t) \/ WizAccept(t) \/ WizConnect(t) \/ WizClose(t) \/ LwipClose(t)
  BY <1>6 DEF Listen, WizAccept, WizConnect, WizClose, LwipClose
<1> QED BY <1>1, <1>5, <1>6, <1>3, <1>4, <1>2 DEF TaskStep

\* The ports are those the servers bind, or none.
LEMMA PortStep ==
  ASSUME PortType, FdOK, NEW t \in Tasks, TaskStep(t)
  PROVE  PortType'
<1> USE DEF PortType
<1>1. CASE AllocSlot(t) \/ Open(t) \/ LoadMask(t) \/ SlotTake(t) \/ CloseSr(t)
  BY <1>1 DEF AllocSlot, Open, LoadMask, SlotTake, CloseSr
<1>2. CASE CloseChip(t) \/ SlotFree(t) \/ WizSocket(t) \/ WizBind(t) \/ LwipClose(t)
  BY <1>2 DEF CloseChip, SlotFree, WizSocket, WizBind, LwipClose
<1>3. CASE WizListen(t)
  BY <1>3 DEF WizListen, FdOK, Has
<1>4. CASE Listen(t) \/ WizAccept(t) \/ WizConnect(t) \/ WizClose(t)
  BY <1>4 DEF Listen, WizAccept, WizConnect, WizClose
<1> QED BY <1>1, <1>2, <1>3, <1>4 DEF TaskStep

\* The sockets of the chip are in one of their states, on one of those ports.
LEMMA ChipStep ==
  ASSUME ChipType, PortType, SnType, FdOK, Peer \/ \E t \in Tasks : TaskStep(t)
  PROVE  ChipType'
<1>1. CASE Peer
  BY <1>1 DEF Peer, ChipType, Srs
<1>2. ASSUME NEW t \in Tasks, TaskStep(t)
      PROVE  ChipType'
  <2> USE DEF ChipType, Srs
  <2>1. CASE AllocSlot(t) \/ LoadMask(t) \/ SlotTake(t) \/ SlotFree(t)
    BY <2>1 DEF AllocSlot, LoadMask, SlotTake, SlotFree
  <2>2. CASE Open(t)
    BY <2>2 DEF Open, SnType, PortType
  <2>3. CASE CloseSr(t) \/ CloseChip(t) \/ Listen(t)
    BY <2>3 DEF CloseSr, CloseChip, Listen, SnType
  <2>4. CASE WizConnect(t)
    BY <2>4 DEF WizConnect
  <2>5. CASE WizSocket(t) \/ WizBind(t) \/ WizListen(t) \/ WizAccept(t)
    BY <2>5 DEF WizSocket, WizBind, WizListen, WizAccept
  <2>6. CASE WizClose(t) \/ LwipClose(t)
    BY <2>6 DEF WizClose, LwipClose
  <2> QED BY <1>2, <2>1, <2>2, <2>3, <2>4, <2>5, <2>6 DEF TaskStep
<1> QED BY <1>1, <1>2

\* Only sockets of the chip are ever marked.
LEMMA MaskStep ==
  ASSUME MaskType, SnType, NEW t \in Tasks, TaskStep(t)
  PROVE  MaskType'
<1> USE DEF MaskType
<1>1. CASE AllocSlot(t) \/ Open(t) \/ CloseSr(t) \/ CloseChip(t) \/ LwipClose(t)
  BY <1>1 DEF AllocSlot, Open, CloseSr, CloseChip, LwipClose
<1>2. CASE LoadMask(t) \/ SlotTake(t) \/ SlotFree(t)
  BY <1>2 DEF LoadMask, SlotTake, SlotFree, SnType
<1>3. CASE WizSocket(t) \/ WizBind(t) \/ WizListen(t) \/ WizAccept(t)
  BY <1>3 DEF WizSocket, WizBind, WizListen, WizAccept
<1>4. CASE Listen(t) \/ WizConnect(t) \/ WizClose(t)
  BY <1>4 DEF Listen, WizConnect, WizClose
<1> QED BY <1>1, <1>2, <1>3, <1>4 DEF TaskStep

\* TInv is inductive.
LEMMA TypeStep ==
  ASSUME TInv, [Next]_vars
  PROVE  TInv'
<1>1. /\ PcType /\ CallType /\ SnType /\ FdType
      /\ PortType /\ ChipType /\ MaskType /\ FdOK /\ AllocOK
  BY TypeParts DEF TInv
<1>2. SUFFICES (/\ PcType /\ CallType /\ SnType /\ FdType
                /\ PortType /\ ChipType /\ MaskType /\ FdOK /\ AllocOK)'
  BY TypeParts, PTL DEF TInv
<1>3. CASE UNCHANGED vars
  BY <1>1, <1>3 DEF vars, PcType, CallType, SnType, FdType, PortType, ChipType, MaskType,
     FdOK, AllocOK, Has, Holding, Closing, Opening
<1>4. CASE Peer
  <2>1. ChipType'
    BY <1>1, <1>4, ChipStep
  <2>2. UNCHANGED <<s_used_mask, s_bind_port, callVars, pc, loaded, fd>>
    BY <1>4 DEF Peer
  <2> QED BY <1>1, <2>1, <2>2 DEF PcType, CallType, SnType, FdType, PortType, MaskType,
             FdOK, AllocOK, Has, Holding, Closing, Opening
<1>5. ASSUME NEW t \in Tasks, TaskStep(t)
      PROVE  (/\ PcType /\ CallType /\ SnType /\ FdType
              /\ PortType /\ ChipType /\ MaskType /\ FdOK /\ AllocOK)'
  BY <1>1, <1>5, PcStep, SnStep, FdStep, PortStep, ChipStep, MaskStep
<1> QED BY <1>3, <1>4, <1>5 DEF Next

\* At the start no task has a descriptor and every socket is closed.
LEMMA TypeInit == Init => TInv
<1> SUFFICES ASSUME Init PROVE TInv
  OBVIOUS
<1>1. 1 \in Socks
  BY NAssumption DEF Socks
<1>2. \A t \in Tasks : pc[t] \in {"begin", "off"}
  BY DEF Init
<1>3. PcType /\ CallType /\ SnType /\ FdType
  BY <1>1 DEF Init, PcType, CallType, SnType, FdType, Pcs
<1>4. PortType /\ ChipType /\ MaskType
  BY DEF Init, PortType, ChipType, MaskType, Srs
<1>5. FdOK /\ AllocOK
  BY <1>2 DEF FdOK, AllocOK, Has, Holding, Closing, Opening
<1> QED BY <1>3, <1>4, <1>5, TypeParts DEF TInv

\* Every variable has its type, whatever the interleaving of the calls.
THEOREM TypeCorrect == Spec => []TypeOK
<1>1. TInv => TypeOK
  BY DEF TInv
<1> QED BY <1>1, TypeInit, TypeStep, PTL DEF Spec

-------------------------------------------------------------------------------
(* The bitmap, step by step *)

\* A step of a task leaves the other tasks where they are.
LEMMA OthersStay ==
  ASSUME TInv, NEW t \in Tasks, TaskStep(t), NEW u \in Tasks, u # t
  PROVE  /\ pc'[u] = pc[u] /\ call'[u] = call[u] /\ sn'[u] = sn[u]
         /\ port'[u] = port[u] /\ loaded'[u] = loaded[u] /\ fd'[u] = fd[u]
<1>1. /\ PcType /\ CallType /\ SnType /\ FdType /\ PortType /\ MaskType
  BY TypeParts DEF TInv
<1> USE <1>1 DEF PcType, CallType, SnType, FdType, PortType, MaskType
<1>2. CASE AllocSlot(t) \/ Open(t) \/ LoadMask(t) \/ SlotTake(t)
  BY <1>2 DEF AllocSlot, Open, LoadMask, SlotTake
<1>3. CASE CloseSr(t) \/ CloseChip(t) \/ SlotFree(t) \/ WizSocket(t) \/ WizBind(t)
  BY <1>3 DEF CloseSr, CloseChip, SlotFree, WizSocket, WizBind
<1>4. CASE WizListen(t) \/ Listen(t) \/ WizAccept(t)
  BY <1>4 DEF WizListen, Listen, WizAccept
<1>5. CASE WizConnect(t) \/ WizClose(t) \/ LwipClose(t)
  BY <1>5 DEF WizConnect, WizClose, LwipClose
<1> QED BY <1>2, <1>3, <1>4, <1>5 DEF TaskStep

\* Beside slot_take and slot_free there are three kinds of steps: those that start a
\* call, those of a task between two calls, and those in a call.
Begins(t)  == WizSocket(t) \/ WizListen(t) \/ WizClose(t)
Between(t) == WizBind(t) \/ WizAccept(t) \/ WizConnect(t) \/ LwipClose(t)
Quiet(t)   == \/ AllocSlot(t) \/ Open(t) \/ LoadMask(t)
              \/ CloseSr(t) \/ CloseChip(t) \/ Listen(t)

\* They leave the bitmap and what the task has as they are.
Still(t) == /\ s_used_mask' = s_used_mask
            /\ Has(t)' <=> Has(t)
            /\ Has(t) => fd'[t] = fd[t]

\* A call starts only while every other task is between calls.
LEMMA BeginsStep ==
  ASSUME TInv, SERIAL, NEW t \in Tasks, Begins(t)
  PROVE  /\ ~InCall(t) /\ InCall(t)' /\ Still(t)
         /\ \A u \in Tasks : u # t => Holding(u) \/ Without(u)
         /\ \/ pc'[t] = "alloc" /\ sn'[t] = 1
            \/ pc'[t] = "close_sr" /\ sn'[t] = fd'[t]
<1>1. PcType /\ CallType /\ SnType /\ FdType
  BY TypeParts DEF TInv
<1> USE <1>1 DEF PcType, CallType, SnType, FdType, InCall, Has, Holding, Closing, Opening, Still
<1>2. MayCall(t) => \A u \in Tasks : u # t => Holding(u) \/ Without(u)
  BY DEF MayCall
<1>3. CASE WizSocket(t)
  BY <1>2, <1>3 DEF WizSocket
<1>4. CASE WizListen(t)
  BY <1>2, <1>4 DEF WizListen
<1>5. CASE WizClose(t)
  BY <1>2, <1>5 DEF WizClose
<1> QED BY <1>3, <1>4, <1>5 DEF Begins

\* Between calls a task goes on using its descriptor or prepares to listen on it.
LEMMA BetweenStep ==
  ASSUME TInv, NEW t \in Tasks, Between(t)
  PROVE  /\ ~InCall(t) /\ ~InCall(t)' /\ Still(t)
         /\ \/ Holding(t) /\ (Holding(t)' \/ pc'[t] = "relisten")
            \/ Without(t)'
<1>1. PcType
  BY TypeParts DEF TInv
<1> USE <1>1 DEF PcType, InCall, Has, Holding, Without, Closing, Opening, Still
<1>2. CASE WizBind(t) \/ WizAccept(t)
  BY <1>2 DEF WizBind, WizAccept
<1>3. CASE WizConnect(t)
  BY <1>3 DEF WizConnect
<1>4. CASE LwipClose(t)
  BY <1>4 DEF LwipClose
<1> QED BY <1>2, <1>3, <1>4 DEF Between

\* Where a step in a call leads, and what it knows of the bitmap.
LEMMA QuietStep ==
  ASSUME TInv, NEW t \in Tasks, Quiet(t)
  PROVE  /\ InCall(t) /\ Still(t) /\ UNCHANGED call
         /\ \/ pc'[t] \in {"alloc", "open", "lwip"} /\ AllocSlot(t)
            \/ pc'[t] \in {"take", "listen_failed", "lwip"} /\ Open(t)
            \/ pc'[t] = "take_store" /\ pc[t] = "take" /\ LoadMask(t)
            \/ pc'[t] = "free_store" /\ pc[t] = "free" /\ LoadMask(t)
            \/ Closing(t) /\ pc'[t] \in {"close", "free"} /\ UNCHANGED <<sn, fd>>
            \/ pc'[t] \in {"accept", "listen_failed"} /\ Listen(t)
<1>1. PcType /\ FdType /\ AllocOK
  BY TypeParts DEF TInv
<1> USE <1>1 DEF PcType, FdType, InCall, Has, Holding, Closing, Opening, Still
<1>2. CASE AllocSlot(t)
  BY <1>2 DEF AllocSlot, AllocOK
<1>3. CASE Open(t)
  BY <1>3 DEF Open
<1>4. CASE LoadMask(t)
  BY <1>4 DEF LoadMask
<1>5. CASE CloseSr(t) \/ CloseChip(t)
  BY <1>5 DEF CloseSr, CloseChip
<1>6. CASE Listen(t)
  BY <1>6 DEF Listen
<1> QED BY <1>2, <1>3, <1>4, <1>5, <1>6 DEF Quiet

\* slot_take sets the bit of the socket it was given and no other.
LEMMA TakeStep ==
  ASSUME TInv, Fresh, Aimed, NEW t \in Tasks, SlotTake(t)
  PROVE  /\ InCall(t) /\ Has(t)'
         /\ Holding(t)' \/ pc'[t] = "listen"
         /\ s_used_mask' = s_used_mask \cup {fd'[t]} /\ fd'[t] \notin s_used_mask
         /\ Has(t) => fd'[t] = fd[t]
         /\ pc'[t] = "listen" => sn'[t] = fd'[t]
<1>1. PcType /\ FdType /\ SnType
  BY TypeParts DEF TInv
<1> USE <1>1 DEF PcType, FdType, SnType
<1>2. /\ pc[t] = "take_store" /\ Opening(t) /\ InCall(t)
      /\ s_used_mask' = s_used_mask \cup {sn[t]} /\ sn[t] \notin s_used_mask
  BY DEF SlotTake, Fresh, InCall, Opening
<1>3. CASE call[t] = "socket"
  BY <1>2, <1>3 DEF SlotTake, Has, Holding, InCall, Opening, Closing
<1>4. CASE call[t] = "listen"
  BY <1>2, <1>4 DEF SlotTake, Has, Holding, InCall, Opening, Closing, Aimed
<1> QED BY <1>3, <1>4 DEF SlotTake

\* slot_free clears the bit of the socket the task has and no other.
LEMMA FreeStep ==
  ASSUME TInv, Fresh, Aimed, NEW t \in Tasks, SlotFree(t)
  PROVE  /\ InCall(t) /\ Has(t) /\ UNCHANGED <<fd, sn, call>>
         /\ s_used_mask' = s_used_mask \ {fd[t]} /\ sn[t] = fd[t]
         /\ \/ pc'[t] = "open" /\ call[t] = "listen"
            \/ pc'[t] \in {"relisten", "begin", "done"}
<1>1. PcType
  BY TypeParts DEF TInv
<1>2. pc[t] = "free_store" /\ Closing(t)
  BY DEF SlotFree, Closing
<1>3. loaded[t] = s_used_mask /\ sn[t] = fd[t]
  BY <1>2 DEF Fresh, Aimed
<1> QED BY <1>1, <1>2, <1>3 DEF PcType, SlotFree, InCall, Has, Closing

\* The five kinds of steps are all there are.
LEMMA StepKinds ==
  ASSUME NEW t \in Tasks, TaskStep(t)
  PROVE  Begins(t) \/ Between(t) \/ Quiet(t) \/ SlotTake(t) \/ SlotFree(t)
BY DEF TaskStep, Begins, Between, Quiet

\* The other tasks keep their place among the predicates above, too.
LEMMA OthersSame ==
  ASSUME TInv, NEW t \in Tasks, TaskStep(t), NEW u \in Tasks, u # t
  PROVE  /\ fd'[u] = fd[u] /\ pc'[u] = pc[u]
         /\ Has(u)' <=> Has(u)
         /\ InCall(u)' <=> InCall(u)
         /\ Holding(u)' <=> Holding(u)
         /\ Without(u)' <=> Without(u)
BY OthersStay DEF Has, InCall, Holding, Without, Closing, Opening

\* Whoever has a descriptor and is not in a call beside one that is: the bit is set.
LEMMA AloneStep ==
  ASSUME TInv, SInv, SERIAL, NEW t \in Tasks, TaskStep(t)
  PROVE  Alone'
<1> SUFFICES ASSUME NEW p \in Tasks, NEW q \in Tasks, InCall(p)', q # p
             PROVE  Holding(q)' \/ Without(q)' \/ (pc'[q] = "relisten" /\ fd'[q] \in s_used_mask')
  BY DEF Alone
<1>1. InCall(t) => \A u \in Tasks : u # t =>
         Holding(u) \/ Without(u) \/ (pc[u] = "relisten" /\ fd[u] \in s_used_mask)
  BY DEF SInv, Alone
<1>2. \A u \in Tasks : Holding(u) \/ Without(u) \/ pc[u] = "relisten" => ~InCall(u)
  BY DEF InCall, Holding, Without, Opening, Closing
<1>3. CASE p = t
  <2>1. /\ Holding(q)' <=> Holding(q)
        /\ Without(q)' <=> Without(q)
        /\ pc'[q] = pc[q] /\ fd'[q] = fd[q]
    BY <1>3, OthersSame
  <2>2. CASE Begins(t)
    BY <1>3, <2>1, <2>2, BeginsStep
  <2>3. CASE Between(t)
    BY <1>3, <2>3, BetweenStep
  <2>4. CASE Quiet(t)
    BY <1>1, <1>3, <2>1, <2>4, QuietStep DEF Still
  <2>5. CASE SlotTake(t)
    BY <1>1, <1>3, <2>1, <2>5, TakeStep DEF SInv
  <2>6. CASE SlotFree(t)
    <3>1. pc[q] = "relisten" => fd[q] # fd[t]
      BY <1>3, <2>6, FreeStep DEF SInv, Apart, Has
    <3> QED BY <1>1, <1>3, <2>1, <2>6, <3>1, FreeStep DEF SInv
  <2> QED BY <2>2, <2>3, <2>4, <2>5, <2>6, StepKinds
<1>4. CASE p # t
  <2>1. InCall(p)
    BY <1>4, OthersSame
  <2>2. Holding(t) \/ Without(t) \/ pc[t] = "relisten"
    BY <1>4, <2>1 DEF SInv, Alone
  <2>3. ~InCall(t)
    BY <1>2, <2>2
  <2>4. Between(t)
    BY <1>2, <1>4, <2>1, <2>3, StepKinds, BeginsStep, QuietStep, TakeStep, FreeStep DEF SInv
  <2>5. s_used_mask' = s_used_mask
    BY <2>4, BetweenStep DEF Still
  <2>6. CASE q = t
    <3>1. Holding(t) => Has(t) /\ fd[t] \in s_used_mask
      BY DEF SInv, Backed, Has
    <3> QED BY <2>4, <2>5, <2>6, <3>1, BetweenStep DEF Still
  <2>7. CASE q # t
    <3>1. Holding(q) \/ Without(q) \/ (pc[q] = "relisten" /\ fd[q] \in s_used_mask)
      BY <2>1 DEF SInv, Alone
    <3> QED BY <2>5, <2>7, <3>1, OthersSame
  <2> QED BY <2>6, <2>7
<1> QED BY <1>3, <1>4

\* A bit that is cleared was the closing task's, one that is set the opening task's.
LEMMA AccountedStep ==
  ASSUME TInv, SInv, SERIAL, NEW t \in Tasks, TaskStep(t)
  PROVE  Accounted'
<1> SUFFICES ASSUME NEW s \in s_used_mask'
             PROVE  \E u \in Tasks : Has(u)' /\ fd'[u] = s
  BY DEF Accounted
<1>1. s \in s_used_mask => \E u \in Tasks : Has(u) /\ fd[u] = s
  BY DEF SInv, Accounted
<1>2. CASE Begins(t) \/ Between(t) \/ Quiet(t)
  BY <1>1, <1>2, BeginsStep, BetweenStep, QuietStep, OthersSame DEF Still
<1>3. CASE SlotTake(t)
  BY <1>1, <1>3, TakeStep, OthersSame DEF SInv
<1>4. CASE SlotFree(t)
  BY <1>1, <1>4, FreeStep, OthersSame DEF SInv
<1> QED BY <1>2, <1>3, <1>4, StepKinds

\* Two tasks get one socket only if alloc_slot sees a clear bit of somebody's socket.
LEMMA ApartStep ==
  ASSUME TInv, SInv, SERIAL, NEW t \in Tasks, TaskStep(t)
  PROVE  Apart'
<1>1. SUFFICES ASSUME NEW u \in Tasks, u # t, Has(t)', Has(u)'
               PROVE  fd'[t] # fd'[u]
  <2> SUFFICES ASSUME NEW p \in Tasks, NEW q \in Tasks, Has(p)', Has(q)', p # q
               PROVE  fd'[p] # fd'[q]
    BY DEF Apart
  <2>1. CASE p = t \/ q = t
    BY <1>1, <2>1
  <2>2. CASE p # t /\ q # t
    BY <2>2, OthersSame DEF SInv, Apart
  <2> QED BY <2>1, <2>2
<1>2. Has(u) /\ fd'[u] = fd[u]
  BY <1>1, OthersSame
<1>3. CASE Begins(t) \/ Between(t) \/ Quiet(t) \/ SlotFree(t)
  <2>1. Has(t) /\ fd'[t] = fd[t]
    BY <1>1, <1>3, BeginsStep, BetweenStep, QuietStep, FreeStep DEF Still, SInv
  <2> QED BY <1>1, <1>2, <2>1 DEF SInv, Apart
<1>4. CASE SlotTake(t)
  <2>1. fd'[t] \notin s_used_mask
    BY <1>4, TakeStep DEF SInv
  <2>2. Holding(u) \/ Without(u) \/ (pc[u] = "relisten" /\ fd[u] \in s_used_mask)
    BY <1>1, <1>4, TakeStep DEF SInv, Alone
  <2>3. fd[u] \in s_used_mask
    BY <1>2, <2>2 DEF SInv, Backed, Has, Without, Holding, Closing, Opening
  <2> QED BY <1>2, <2>1, <2>3
<1> QED BY <1>3, <1>4, StepKinds

\* While a task is in a call the others only do what leaves the bitmap as it is.
LEMMA Undisturbed ==
  ASSUME TInv, SInv, SERIAL, NEW t \in Tasks, TaskStep(t), NEW u \in Tasks, u # t, InCall(u)
  PROVE  Between(t) /\ s_used_mask' = s_used_mask
<1>1. Holding(t) \/ Without(t) \/ pc[t] = "relisten"
  BY DEF SInv, Alone
<1>2. ~InCall(t) /\ ~Holding(u) /\ ~Without(u)
  BY <1>1 DEF InCall, Holding, Without, Opening, Closing
<1>3. Between(t)
  BY <1>2, StepKinds, BeginsStep, QuietStep, TakeStep, FreeStep DEF SInv
<1> QED BY <1>3, BetweenStep DEF Still

\* A descriptor in use is not freed by another task's close.
LEMMA BackedStep ==
  ASSUME TInv, SInv, SERIAL, NEW t \in Tasks, TaskStep(t)
  PROVE  Backed'
<1> SUFFICES ASSUME NEW u \in Tasks, Holding(u)' \/ pc'[u] = "listen"
             PROVE  fd'[u] \in s_used_mask'
  BY DEF Backed
<1>1. CASE u = t
  <2>1. CASE Begins(t) \/ SlotFree(t)
    BY <1>1, <2>1, BeginsStep, FreeStep DEF SInv, Holding
  <2>2. CASE Between(t)
    <3>1. Holding(t) /\ Has(t)
      BY <1>1, <2>2, BetweenStep DEF Without, Holding, InCall, Has
    <3> QED BY <1>1, <2>2, <3>1, BetweenStep DEF SInv, Backed, Still
  <2>3. CASE Quiet(t)
    <3>1. Listen(t)
      BY <1>1, <2>3, QuietStep DEF Holding
    <3>2. pc[t] = "listen" /\ fd'[t] = fd[t]
      BY <3>1 DEF Listen
    <3> QED BY <1>1, <2>3, <3>2, QuietStep DEF SInv, Backed, Still
  <2>4. CASE SlotTake(t)
    BY <1>1, <2>4, TakeStep DEF SInv
  <2> QED BY <2>1, <2>2, <2>3, <2>4, StepKinds
<1>2. CASE u # t
  <2>1. /\ Holding(u) \/ pc[u] = "listen"
        /\ fd'[u] = fd[u] /\ Has(u)
    BY <1>2, OthersSame DEF Has
  <2>2. fd[u] \in s_used_mask
    BY <2>1 DEF SInv, Backed
  <2>3. CASE SlotFree(t)
    BY <1>2, <2>1, <2>2, <2>3, FreeStep DEF SInv, Apart
  <2>4. CASE ~SlotFree(t)
    BY <2>1, <2>2, <2>4, StepKinds, BeginsStep, BetweenStep, QuietStep, TakeStep DEF SInv, Still
  <2> QED BY <2>3, <2>4
<1> QED BY <1>1, <1>2

\* What alloc_slot saw, and what slot_take and slot_free have read, is still so.
LEMMA FreshStep ==
  ASSUME TInv, SInv, SERIAL, NEW t \in Tasks, TaskStep(t)
  PROVE  Fresh'
<1> DEFINE Seen(u) == /\ pc[u] = "alloc" => \A s \in Socks : s < sn[u] => s \in s_used_mask
                      /\ Opening(u) => sn[u] \notin s_used_mask
                      /\ pc[u] \in {"take_store", "free_store"} => loaded[u] = s_used_mask
<1>1. ASSUME NEW u \in Tasks, u # t
      PROVE  Seen(u)'
  <2>1. /\ pc'[u] = pc[u] /\ sn'[u] = sn[u] /\ loaded'[u] = loaded[u]
        /\ Opening(u)' <=> Opening(u)
    BY <1>1, OthersStay DEF Opening
  <2>2. CASE InCall(u)
    BY <1>1, <2>1, <2>2, Undisturbed DEF SInv, Fresh
  <2>3. CASE ~InCall(u)
    BY <2>1, <2>3 DEF InCall, Closing, Opening
  <2> QED BY <2>2, <2>3
<1>2. Seen(t)'
  <2>1. PcType /\ SnType /\ MaskType
    BY TypeParts DEF TInv
  <2>2. Seen(t) /\ sn[t] \in 1 .. N /\ N \in Nat
    BY <2>1, NAssumption DEF SInv, Fresh, SnType, Socks
  <2>3. CASE Begins(t)
    BY <2>3, BeginsStep DEF Opening, Socks
  <2>4. CASE Between(t)
    BY <2>4, BetweenStep DEF InCall, Closing, Opening
  <2>5. CASE AllocSlot(t)
    <3>1. \/ pc'[t] = "alloc" /\ sn'[t] = sn[t] + 1 /\ sn[t] \in s_used_mask
          \/ pc'[t] = "open" /\ sn'[t] = sn[t] /\ sn[t] \notin s_used_mask
          \/ pc'[t] = "lwip"
      BY <2>1, <2>5 DEF AllocSlot, PcType, SnType
    <3>2. pc[t] = "alloc" /\ s_used_mask' = s_used_mask /\ pc'[t] \in {"alloc", "open", "lwip"}
      BY <2>1, <2>5 DEF AllocSlot, PcType
    <3> QED BY <2>2, <3>1, <3>2 DEF Opening, Socks
  <2>6. CASE Open(t)
    BY <2>1, <2>2, <2>6 DEF Open, Opening, PcType
  <2>7. CASE LoadMask(t)
    BY <2>1, <2>2, <2>7 DEF LoadMask, Opening, PcType, MaskType
  <2>8. CASE CloseSr(t) \/ CloseChip(t) \/ Listen(t)
    BY <2>1, <2>8 DEF CloseSr, CloseChip, Listen, Opening, PcType
  <2>9. CASE SlotTake(t)
    BY <2>9, TakeStep DEF SInv, Opening, Holding
  <2>10. CASE SlotFree(t)
    BY <2>10, FreeStep DEF SInv, Opening
  <2> QED BY <2>3, <2>4, <2>5, <2>6, <2>7, <2>8, <2>9, <2>10, StepKinds DEF Quiet
<1> HIDE DEF Seen
<1>3. \A u \in Tasks : Seen(u)'
  BY <1>1, <1>2
<1> QED BY <1>3 DEF Seen, Fresh

\* wiz_listen and wiz_close pass on the descriptor they were given.
LEMMA AimedStep ==
  ASSUME TInv, SInv, SERIAL, NEW t \in Tasks, TaskStep(t)
  PROVE  Aimed'
<1> DEFINE Aim(u) == Closing(u) \/ pc[u] = "listen" \/ (Opening(u) /\ call[u] = "listen")
<1>1. ASSUME NEW u \in Tasks, u # t, Aim(u)'
      PROVE  sn'[u] = fd'[u]
  BY <1>1, OthersStay DEF Closing, Opening, SInv, Aimed
<1>2. ASSUME Aim(t)'
      PROVE  sn'[t] = fd'[t]
  <2>1. PcType /\ SnType
    BY TypeParts DEF TInv
  <2>2. Aim(t) => sn[t] = fd[t]
    BY DEF SInv, Aimed
  <2>3. CASE Begins(t)
    BY <1>2, <2>3, BeginsStep DEF Closing, Opening
  <2>4. CASE Between(t)
    BY <1>2, <2>4, BetweenStep DEF InCall
  <2>5. CASE AllocSlot(t)
    BY <1>2, <2>1, <2>5 DEF AllocSlot, PcType, Closing, Opening, TInv, AllocOK
  <2>6. CASE Open(t)
    BY <1>2, <2>1, <2>2, <2>6 DEF Open, PcType, Closing, Opening
  <2>7. CASE LoadMask(t)
    BY <1>2, <2>1, <2>2, <2>7 DEF LoadMask, PcType, Closing, Opening
  <2>8. CASE CloseSr(t) \/ CloseChip(t) \/ Listen(t)
    BY <1>2, <2>1, <2>2, <2>8 DEF CloseSr, CloseChip, Listen, PcType, Closing, Opening
  <2>9. CASE SlotTake(t)
    BY <1>2, <2>9, TakeStep DEF SInv, Holding, Closing, Opening
  <2>10. CASE SlotFree(t)
    BY <2>10, FreeStep DEF SInv
  <2> QED BY <2>3, <2>4, <2>5, <2>6, <2>7, <2>8, <2>9, <2>10, StepKinds DEF Quiet
<1> HIDE DEF Aim
<1>3. \A u \in Tasks : Aim(u)' => sn'[u] = fd'[u]
  BY <1>1, <1>2
<1> QED BY <1>3 DEF Aim, Aimed

\* SInv is inductive, when calls do not overlap.
LEMMA SlotsStep ==
  ASSUME TInv, SInv, SERIAL, [Next]_vars
  PROVE  SInv'
<1>1. CASE UNCHANGED vars \/ Peer
  <2>1. UNCHANGED <<s_used_mask, callVars, pc, loaded, fd>>
    BY <1>1 DEF vars, Peer
  <2> QED BY <2>1 DEF SInv, Alone, Accounted, Backed, Apart, Fresh, Aimed,
             InCall, Has, Holding, Without, Closing, Opening
<1>2. ASSUME NEW t \in Tasks, TaskStep(t)
      PROVE  SInv'
  BY <1>2, AloneStep, AccountedStep, BackedStep, ApartStep, FreshStep, AimedStep DEF SInv
<1> QED BY <1>1, <1>2 DEF Next

\* At the start nobody has anything and no bit is set.
LEMMA SlotsInit == Init => SInv
<1> SUFFICES ASSUME Init PROVE SInv
  OBVIOUS
<1>1. \A t \in Tasks : pc[t] \in {"begin", "off"}
  BY DEF Init
<1>2. s_used_mask = {}
  BY DEF Init
<1> QED BY <1>1, <1>2 DEF SInv, Alone, Accounted, Backed, Apart, Fresh, Aimed,
           InCall, Has, Holding, Without, Closing, Opening

\* With calls that do not overlap both invariants hold throughout.
LEMMA SlotsInv ==
  ASSUME SERIAL
  PROVE  Spec => [](TInv /\ SInv)
<1>1. Init => TInv /\ SInv
  BY TypeInit, SlotsInit
<1>2. TInv /\ SInv /\ [Next]_vars => (TInv /\ SInv)'
  BY TypeStep, SlotsStep
<1> QED BY <1>1, <1>2, PTL DEF Spec

\* Between calls s_used_mask is exactly the sockets of the open descriptors.
THEOREM MaskExactHolds ==
  ASSUME SERIAL
  PROVE  Spec => []MaskExact
<1>1. SInv => MaskExact
  <2> SUFFICES ASSUME SInv, \A t \in Tasks : Holding(t) \/ Without(t)
               PROVE  s_used_mask = {fd[t] : t \in {u \in Tasks : Holding(u)}}
    BY DEF MaskExact
  <2>1. \A t \in Tasks : Has(t) => Holding(t)
    BY DEF Has, Holding, Without, Closing, Opening
  <2>2. \A s \in s_used_mask : \E t \in Tasks : Holding(t) /\ fd[t] = s
    BY <2>1 DEF SInv, Accounted
  <2>3. \A t \in Tasks : Holding(t) => fd[t] \in s_used_mask
    BY DEF SInv, Backed
  <2> QED BY <2>2, <2>3
<1> QED BY <1>1, SlotsInv, PTL

\* wiz_socket goes to lwIP for want of a slot only when every socket has its task.
THEOREM FallbackOnlyWhenFull ==
  ASSUME SERIAL
  PROVE  Spec => FallbackWhenFull
<1> DEFINE Full == \A t \in Tasks : pc[t] = "alloc" /\ pc'[t] = "lwip" =>
              \A s \in Socks : \E u \in Tasks : (Holding(u) \/ pc[u] = "relisten") /\ fd[u] = s
<1>1. TInv /\ SInv /\ [Next]_vars => Full
  <2> SUFFICES ASSUME TInv, SInv, [Next]_vars, NEW t \in Tasks, pc[t] = "alloc",
                      pc'[t] = "lwip", NEW s \in Socks
               PROVE  \E u \in Tasks : (Holding(u) \/ pc[u] = "relisten") /\ fd[u] = s
    OBVIOUS
  <2>1. PICK w \in Tasks : TaskStep(w)
    BY DEF Next, vars, Peer
  <2>2. w = t
    BY <2>1, OthersSame
  <2>3. AllocSlot(t)
    <3>1. ~InCall(t)' /\ InCall(t)
      BY DEF InCall, Opening, Closing
    <3>2. ~Begins(t) /\ ~Between(t)
      BY <3>1, BeginsStep, BetweenStep
    <3>3. ~SlotTake(t) /\ ~SlotFree(t)
      BY DEF SlotTake, SlotFree
    <3>4. Quiet(t)
      BY <2>1, <2>2, <3>2, <3>3, StepKinds
    <3> QED BY <3>4 DEF Quiet, Open, LoadMask, CloseSr, CloseChip, Listen
  <2>4. sn[t] = N /\ N \in s_used_mask
    BY <2>3, TypeParts DEF AllocSlot, TInv, PcType
  <2>5. s \in s_used_mask
    BY <2>4, NAssumption DEF SInv, Fresh, Socks
  <2>6. PICK u \in Tasks : Has(u) /\ fd[u] = s
    BY <2>5 DEF SInv, Accounted
  <2>7. u # t /\ ~Without(u)
    BY <2>6 DEF Has, Without, Holding, Closing, Opening, TInv, AllocOK
  <2>8. Holding(u) \/ pc[u] = "relisten"
    BY <2>7 DEF SInv, Alone, InCall
  <2> QED BY <2>6, <2>8
<1>2. [][TInv /\ SInv /\ [Next]_vars => Full]_vars
  BY <1>1, PTL
<1> QED BY <1>1, SlotsInv, PTL DEF Spec, FallbackWhenFull

-------------------------------------------------------------------------------
(* The bound port, step by step *)

\* Only socket() gives a hardware socket another port.
LEMMA PortStays ==
  ASSUME TInv, NEW t \in Tasks, TaskStep(t), NEW s \in Socks
  PROVE  chip'[s].port = IF Open(t) /\ s = sn[t] /\ pc'[t] = "take" THEN port[t]
                                                                    ELSE chip[s].port
<1>1. ChipType /\ PcType /\ SnType
  BY TypeParts DEF TInv
<1> USE <1>1 DEF ChipType, PcType, SnType
<1>2. CASE Open(t)
  BY <1>2 DEF Open
<1>3. CASE CloseSr(t) \/ CloseChip(t) \/ Listen(t)
  BY <1>3 DEF CloseSr, CloseChip, Listen, Open
<1>4. CASE WizConnect(t)
  BY <1>4 DEF WizConnect, Open
<1>5. CASE AllocSlot(t) \/ LoadMask(t) \/ SlotTake(t) \/ SlotFree(t) \/ WizSocket(t)
  BY <1>5 DEF AllocSlot, LoadMask, SlotTake, SlotFree, WizSocket, Open
<1>6. CASE WizBind(t) \/ WizListen(t) \/ WizAccept(t) \/ WizClose(t) \/ LwipClose(t)
  BY <1>6 DEF WizBind, WizListen, WizAccept, WizClose, LwipClose, Open
<1> QED BY <1>2, <1>3, <1>4, <1>5, <1>6 DEF TaskStep

\* s_bind_port is written by wiz_bind alone, for the descriptor that is being bound.
LEMMA BindStays ==
  ASSUME TInv, NEW t \in Tasks, TaskStep(t), NEW s \in Socks
  PROVE  s_bind_port'[s] = IF WizBind(t) /\ s = fd[t] THEN PORT ELSE s_bind_port[s]
<1>1. PortType
  BY TypeParts DEF TInv
<1>2. CASE WizBind(t)
  BY <1>1, <1>2 DEF WizBind, PortType
<1>3. CASE ~WizBind(t)
  <2>1. s_bind_port' = s_bind_port
    <3>1. CASE AllocSlot(t) \/ Open(t) \/ LoadMask(t) \/ SlotTake(t) \/ CloseSr(t)
      BY <3>1 DEF AllocSlot, Open, LoadMask, SlotTake, CloseSr
    <3>2. CASE CloseChip(t) \/ SlotFree(t) \/ WizSocket(t) \/ WizListen(t) \/ Listen(t)
      BY <3>2 DEF CloseChip, SlotFree, WizSocket, WizListen, Listen
    <3>3. CASE WizAccept(t) \/ WizConnect(t) \/ WizClose(t) \/ LwipClose(t)
      BY <3>3 DEF WizAccept, WizConnect, WizClose, LwipClose
    <3> QED BY <1>3, <3>1, <3>2, <3>3 DEF TaskStep
  <2> QED BY <1>3, <2>1
<1> QED BY <1>2, <1>3

\* A server's own step keeps its port: bind stores it, listen hands it on.
LEMMA OwnPortStep ==
  ASSUME TInv, SInv, SERIAL, Ported, NEW t \in Servers, TaskStep(t)
  PROVE  (BindKept(t) /\ PortGiven(t) /\ PortOpen(t) /\ Rearming(t))'
<1>1. t \in Tasks /\ t \notin Clients /\ t \notin Checkers
  BY KindsAssumption DEF Tasks
<1>2. PcType /\ CallType /\ SnType /\ FdType /\ PortType /\ FdOK /\ AllocOK
  BY TypeParts DEF TInv
<1>3. BindKept(t) /\ PortGiven(t) /\ PortOpen(t) /\ Rearming(t) /\ (Has(t) => fd[t] \in Socks)
  BY <1>1, <1>2 DEF Ported, FdOK
<1>4. BindKept(t)'
  <2>1. ASSUME Has(t)', pc'[t] # "holds", ~WizBind(t)
        PROVE  Has(t) /\ pc[t] # "holds" /\ fd'[t] = fd[t]
    <3>1. CASE Begins(t)
      BY <1>1, <2>1, <3>1, BeginsStep DEF Still, Begins, WizSocket, WizListen, WizClose
    <3>2. CASE Between(t)
      BY <1>1, <2>1, <3>2, BetweenStep DEF Still, Between, WizAccept, WizConnect, LwipClose
    <3>3. CASE Quiet(t)
      BY <1>1, <2>1, <3>3, QuietStep DEF Still, InCall, Opening, Closing
    <3>4. CASE SlotTake(t)
      BY <1>1, <1>2, <2>1, <3>4 DEF SlotTake, PcType, Has, Opening
    <3>5. CASE SlotFree(t)
      BY <1>1, <3>5, FreeStep DEF SInv, SlotFree
    <3> QED BY <1>1, <3>1, <3>2, <3>3, <3>4, <3>5, StepKinds
  <2>2. CASE WizBind(t)
    <3>1. Has(t) /\ fd' = fd
      BY <2>2 DEF WizBind, Has, Holding
    <3> QED BY <1>1, <1>3, <2>2, <3>1, BindStays DEF BindKept
  <2>3. CASE ~WizBind(t)
    BY <1>1, <1>3, <2>1, <2>3, BindStays DEF BindKept
  <2> QED BY <2>2, <2>3
<1>5. PortGiven(t)'
  <2>1. CASE WizListen(t)
    <3>1. Has(t) /\ pc[t] # "holds" /\ port'[t] = s_bind_port[fd[t]]
      BY <1>1, <1>2, <2>1 DEF WizListen, Has, PortType
    <3> QED BY <1>3, <3>1 DEF BindKept, PortGiven
  <2>2. CASE WizSocket(t) \/ WizClose(t)
    BY <1>1, <1>2, <2>2 DEF WizSocket, WizClose, CallType, PortGiven
  <2>3. CASE Between(t)
    BY <1>1, <2>3, BetweenStep DEF PortGiven
  <2>4. CASE Quiet(t)
    <3>1. port' = port
      BY <2>4 DEF Quiet, AllocSlot, Open, LoadMask, CloseSr, CloseChip, Listen
    <3> QED BY <1>1, <1>3, <2>4, <3>1, QuietStep DEF Still, PortGiven
  <2>5. CASE SlotTake(t)
    BY <1>1, <1>3, <2>5 DEF SlotTake, Has, InCall, Opening, PortGiven
  <2>6. CASE SlotFree(t)
    BY <1>1, <1>3, <2>6 DEF SlotFree, Has, InCall, Closing, PortGiven
  <2> QED BY <1>1, <2>1, <2>2, <2>3, <2>4, <2>5, <2>6, StepKinds DEF Begins
<1>6. PortOpen(t)'
  <2>1. CASE Open(t)
    <3>1. CASE pc'[t] = "take" /\ call[t] = "listen"
      <4>1. Has(t) /\ InCall(t) /\ sn[t] = fd[t] /\ fd'[t] = fd[t]
        BY <1>1, <2>1, <3>1 DEF Open, Has, InCall, Opening, SInv, Aimed
      <4> QED BY <1>1, <1>3, <2>1, <3>1, <4>1, PortStays DEF PortGiven, PortOpen
    <3>2. CASE ~(pc'[t] = "take" /\ call[t] = "listen")
      BY <1>1, <1>2, <2>1, <3>2 DEF Open, PcType, PortOpen, Reopened
    <3> QED BY <3>1, <3>2
  <2>2. CASE ~Open(t)
    <3> SUFFICES ASSUME Reopened(t)' \/ pc'[t] = "accept"
                 PROVE  (Reopened(t) \/ pc[t] = "accept") /\ Has(t) /\ fd'[t] = fd[t]
      BY <1>1, <1>3, <2>2, PortStays DEF PortOpen
    <3>1. CASE Begins(t) \/ AllocSlot(t) \/ CloseSr(t) \/ CloseChip(t) \/ SlotFree(t)
      BY <1>1, <1>2, <3>1 DEF Begins, WizSocket, WizListen, WizClose, AllocSlot, CloseSr,
         CloseChip, SlotFree, PcType, Reopened
    <3>2. CASE Between(t)
      BY <1>1, <1>2, <3>2 DEF Between, WizBind, WizAccept, WizConnect, LwipClose, PcType, Reopened
    <3>3. CASE LoadMask(t)
      BY <1>1, <1>2, <3>3 DEF LoadMask, PcType, Reopened, Has, Opening
    <3>4. CASE SlotTake(t)
      BY <1>1, <1>2, <3>4 DEF SlotTake, PcType, Reopened, Has, Opening
    <3>5. CASE Listen(t)
      BY <1>1, <1>2, <1>3, <3>5 DEF Listen, PcType, Reopened, Rearming, Has
    <3> QED BY <1>1, <2>2, <3>1, <3>2, <3>3, <3>4, <3>5, StepKinds DEF Quiet
  <2> QED BY <2>1, <2>2
<1>7. Rearming(t)'
  <2>1. CASE Quiet(t) \/ SlotFree(t) \/ Between(t)
    BY <1>1, <2>1, QuietStep, FreeStep, BetweenStep DEF SInv, InCall, Rearming
  <2>2. CASE Begins(t)
    BY <1>1, <1>2, <2>2 DEF Begins, WizSocket, WizListen, WizClose, PcType, Rearming
  <2>3. CASE SlotTake(t)
    BY <1>1, <1>2, <2>3 DEF SlotTake, PcType, Rearming
  <2> QED BY <1>1, <2>1, <2>2, <2>3, StepKinds
<1> QED BY <1>4, <1>5, <1>6, <1>7

\* No other task writes a server's bound port or reopens its socket.
LEMMA OtherPortStep ==
  ASSUME TInv, SInv, SERIAL, Ported, NEW t \in Servers, NEW w \in Tasks, TaskStep(w), w # t
  PROVE  (BindKept(t) /\ PortGiven(t) /\ PortOpen(t) /\ Rearming(t))'
<1>1. t \in Tasks
  BY DEF Tasks
<1>2. BindKept(t) /\ PortGiven(t) /\ PortOpen(t) /\ Rearming(t)
  BY DEF Ported
<1>3. Has(t) => fd[t] \in Socks
  BY <1>1 DEF TInv, FdOK
<1>4. /\ pc'[t] = pc[t] /\ fd'[t] = fd[t] /\ call'[t] = call[t] /\ port'[t] = port[t]
      /\ Has(t)' <=> Has(t)
      /\ InCall(t)' <=> InCall(t)
  BY <1>1, OthersStay, OthersSame
<1>5. Has(t) => s_bind_port'[fd[t]] = s_bind_port[fd[t]]
  <2>1. Has(t) /\ WizBind(w) => fd[w] # fd[t]
    BY <1>1 DEF WizBind, Has, Holding, SInv, Apart
  <2> QED BY <1>3, <2>1, BindStays
<1>6. ASSUME Reopened(t) \/ pc[t] = "accept"
      PROVE  chip'[fd[t]].port = chip[fd[t]].port
  <2>1. Has(t)
    BY <1>6 DEF Reopened, Has, Holding, Opening
  <2>2. CASE Open(w)
    <3>1. sn[w] \notin s_used_mask /\ InCall(w)
      BY <2>2 DEF Open, SInv, Fresh, Opening, InCall
    <3>2. Holding(t) \/ Without(t) \/ pc[t] = "relisten"
      BY <1>1, <3>1 DEF SInv, Alone
    <3>3. fd[t] \in s_used_mask
      BY <1>1, <1>6, <3>2 DEF Reopened, Holding, Without, SInv, Backed
    <3> QED BY <1>3, <2>1, <3>1, <3>3, PortStays
  <2>3. CASE ~Open(w)
    BY <1>3, <2>1, <2>3, PortStays
  <2> QED BY <2>2, <2>3
<1>7. BindKept(t)' /\ PortGiven(t)'
  BY <1>2, <1>4, <1>5 DEF BindKept, PortGiven
<1>8. PortOpen(t)' /\ Rearming(t)'
  BY <1>2, <1>4, <1>6 DEF PortOpen, Rearming, Reopened
<1> QED BY <1>7, <1>8

\* A server that waits for clients waits on the port it bound, however often it has
\* closed and reopened the socket.
THEOREM ListensOnBoundPort ==
  ASSUME SERIAL
  PROVE  Spec => []ListensOnBound
<1>1. Init => Ported
  BY DEF Init, Ported, BindKept, PortGiven, PortOpen, Rearming, Reopened, Has, Holding,
     Opening, Closing, Tasks
<1>2. ASSUME TInv, SInv, Ported, [Next]_vars
      PROVE  Ported'
  <2>1. CASE UNCHANGED vars
    BY <1>2, <2>1 DEF vars, Ported, BindKept, PortGiven, PortOpen, Rearming, Reopened, Has,
       Holding, InCall, Opening, Closing
  <2>2. CASE Peer
    <3>1. UNCHANGED <<s_used_mask, s_bind_port, callVars, pc, loaded, fd>>
      BY <2>2 DEF Peer
    <3>2. \A s \in Socks : chip'[s].port = chip[s].port
      BY <1>2, <2>2, TypeParts DEF Peer, TInv, ChipType
    <3>3. \A t \in Tasks : Has(t) => fd[t] \in Socks
      BY <1>2 DEF TInv, FdOK
    <3>4. \A t \in Servers : t \in Tasks /\ (Reopened(t) \/ pc[t] = "accept" => Has(t))
      BY DEF Reopened, Has, Holding, Opening, Tasks
    <3>5. \A t \in Servers : PortOpen(t)'
      BY <1>2, <3>1, <3>2, <3>3, <3>4 DEF Ported, PortOpen, Reopened
    <3>6. \A t \in Servers : (BindKept(t) /\ PortGiven(t) /\ Rearming(t))'
      BY <1>2, <3>1 DEF Ported, BindKept, PortGiven, Rearming, Has, Holding, InCall, Opening,
         Closing
    <3> QED BY <3>5, <3>6 DEF Ported
  <2>3. ASSUME NEW w \in Tasks, TaskStep(w)
        PROVE  Ported'
    BY <1>2, <2>3, OwnPortStep, OtherPortStep DEF Ported
  <2> QED BY <1>2, <2>1, <2>2, <2>3 DEF Next
<1>3. Ported => ListensOnBound
  BY DEF Ported, PortOpen, ListensOnBound
<1>4. Spec => [](TInv /\ SInv)
  BY SlotsInv
<1> QED BY <1>1, <1>2, <1>3, <1>4, PTL DEF Spec
===============================================================================
