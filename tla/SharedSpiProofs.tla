---------------------------- MODULE SharedSpiProofs ----------------------------
(***************************************************************************)
(* Proofs about SharedSpi, for any number of tasks and any headers.        *)
(***************************************************************************)
EXTENDS SharedSpi, TLAPS

USE TasksAssumption, BytesAssumption, HeadersAssumption, ValsAssumption,
    OpsAssumption, DeinitAssumption DEF Tasks, Actors, Kinds

\* What an access's header is made of.
LEMMA OpsFacts ==
  ASSUME NEW o \in Ops
  PROVE  /\ o.kind \in Kinds /\ o.val \in Vals /\ o.hdr \in Headers
         /\ o.hdr[1] \in Bytes /\ o.hdr[2] \in Bytes /\ o.hdr[3] \in Bytes
         /\ o.hdr[1] \in Nat /\ o.hdr[2] \in Nat /\ o.hdr[3] \in Nat
         /\ o.hdr[1] * 256 \in Nat /\ o.hdr[1] * 256 + o.hdr[2] \in Nat
         /\ RegOf(o.hdr) = <<o.hdr[1] * 256 + o.hdr[2], o.hdr[3]>>
         /\ RegOf(o.hdr) \in Regs
         /\ RegOf(o.hdr) \in Nat \X Bytes
<1>1. o.kind \in Kinds /\ o.val \in Vals /\ o.hdr \in Headers
  OBVIOUS
<1>2. o.hdr[1] \in Bytes /\ o.hdr[2] \in Bytes /\ o.hdr[3] \in Bytes
  BY <1>1
<1>3. o.hdr[1] \in Nat /\ o.hdr[2] \in Nat /\ o.hdr[3] \in Nat
  <2>1. \A b \in Bytes : b \in Nat
    OBVIOUS
  <2> QED BY <1>2, <2>1
<1>4. o.hdr[1] * 256 \in Nat /\ o.hdr[1] * 256 + o.hdr[2] \in Nat
  BY <1>3
<1> QED BY <1>1, <1>2, <1>3, <1>4 DEF RegOf, Regs

\* Nothing exists at boot: every conjunct holds.
THEOREM InitIInv == Init => IInv
<1> SUFFICES ASSUME Init PROVE IInv
  OBVIOUS
<1> USE DEF Init, Diag
<1>1. TypeOK
  <2>1. s_cmd \in Nat /\ s_ctrl \in Bytes /\ s_hdr_len \in 0 .. 3 /\ depth \in Nat
    OBVIOUS
  <2>2. pc \in [Tasks -> {"idle"} \cup IoPcs \cup EthPcs]
    OBVIOUS
  <2>3. bus \in [Actors -> (Nat \X Bytes) \cup {None}]
    OBVIOUS
  <2>4. /\ op \in [Tasks -> Ops \cup {None}] /\ fed \in [Tasks -> 0 .. 3]
        /\ result \in [Tasks -> Vals \cup {None}]
    OBVIOUS
  <2> QED BY <2>1, <2>2, <2>3, <2>4 DEF TypeOK, MainPcs
<1>2. PointersOK
  BY DEF PointersOK, TearDown
<1>3. TasksOK
  BY DEF TasksOK
<1>4. LockOK
  BY DEF LockOK
<1>5. HeaderOK
  BY DEF HeaderOK
<1>6. OneTransfer
  BY DEF OneTransfer, Transferring
<1>7. Addressed
  BY DEF Addressed, Transferring
<1> QED BY <1>1, <1>2, <1>3, <1>4, <1>5, <1>6, <1>7 DEF IInv

\* Beginning an access touches neither the lock, nor the bus, nor the header.
LEMMA BeginInv == ASSUME IInv, NEW t \in Tasks, Begin(t) PROVE IInv'
<1> USE DEF IInv, Begin, Goto, ptrVars, lockVars, hdrVars, opVars
<1>1. TypeOK'
  BY DEF TypeOK, IoPcs, EthPcs
<1>2. PointersOK'
  BY DEF PointersOK
<1>3. TasksOK'
  BY DEF TasksOK, IoUp, EthUp, IoPcs, EthPcs, TypeOK
<1>4. LockOK'
  BY DEF LockOK, Level, TypeOK
<1>5. HeaderOK'
  BY DEF HeaderOK, TypeOK
<1>6. OneTransfer'
  BY DEF OneTransfer, Transferring, TypeOK
<1>7. Addressed'
  BY DEF Addressed, Transferring, TypeOK
<1> QED BY <1>1, <1>2, <1>3, <1>4, <1>5, <1>6, <1>7 DEF IInv

\* wiznet_shared_spi_lock's look at the pointer: finding NULL is possible only when
\* the mutex does not exist.
LEMMA LockCallInv == ASSUME IInv, NEW t \in Tasks, LockCall(t) PROVE IInv'
<1> USE DEF IInv, LockCall, AfterLock, Goto, ptrVars, lockVars, hdrVars, opVars
<1>1. TypeOK'
  BY DEF TypeOK, IoPcs, EthPcs
<1>2. PointersOK'
  BY DEF PointersOK
<1>3. TasksOK'
  BY DEF TasksOK, IoUp, EthUp, IoPcs, EthPcs, TypeOK
<1>4. LockOK'
  BY DEF LockOK, Level, TypeOK, PointersOK
<1>5. HeaderOK'
  BY DEF HeaderOK, TypeOK, PointersOK
<1>6. OneTransfer'
  BY DEF OneTransfer, Transferring, TypeOK
<1>7. Addressed'
  BY DEF Addressed, Transferring, TypeOK
<1> QED BY <1>1, <1>2, <1>3, <1>4, <1>5, <1>6, <1>7 DEF IInv

\* A task that gets the mutex is at the level its label says; without a mutex LockOK
\* says nothing of it.
LEMMA TakeInv == ASSUME IInv, NEW t \in Tasks, Take(t) PROVE IInv'
<1> USE DEF IInv, Take, AfterLock, Goto, ptrVars, lockVars, hdrVars, opVars
<1>1. TypeOK'
  BY DEF TypeOK, IoPcs
<1>2. PointersOK'
  BY DEF PointersOK
<1>3. TasksOK'
  BY DEF TasksOK, IoUp, EthUp, IoPcs, EthPcs
<1>4. LockOK'
  <2>1. CASE mutex
    <3>1. /\ holder \in {None, t} /\ holder' = t /\ depth' = depth + 1
          /\ mutex' /\ mainPc' = mainPc
      BY <2>1
    <3>2. pc' = [pc EXCEPT ![t] = AfterLock(pc[t])] /\ pc \in [Tasks -> {"idle"} \cup IoPcs \cup EthPcs]
      BY DEF TypeOK
    <3>3. depth = Level(t) /\ Level(t)' = Level(t) + 1
      BY <2>1, <3>1, <3>2 DEF Level, LockOK, TasksOK, TearDown, IoPcs, EthPcs, EthUp, TypeOK
    <3>4. ASSUME NEW u \in Tasks, u # t PROVE Level(u)' = Level(u) /\ Level(u) = 0
      BY <2>1, <3>1, <3>2, <3>4 DEF Level, LockOK
    <3>5. Level(t)' > 0 /\ depth' # 0
      BY <3>1, <3>3 DEF TypeOK, Level
    <3>6. mainPc \notin {"add_device", "create_lock", "failed"}
      BY <2>1 DEF PointersOK
    <3> QED BY <3>1, <3>3, <3>4, <3>5, <3>6 DEF LockOK
  <2>2. CASE ~mutex
    BY <2>2 DEF LockOK
  <2> QED BY <2>1, <2>2
<1>5. HeaderOK'
  <2> SUFFICES ASSUME mutex', NEW u \in IoTasks
               PROVE  /\ pc'[u] = "feed" => pc[u] = "feed"
                      /\ pc'[u] = "raw" => pc[u] = "raw"
    BY DEF HeaderOK
  <2>1. pc' = [pc EXCEPT ![t] = AfterLock(pc[t])] /\ pc \in [Tasks -> {"idle"} \cup IoPcs \cup EthPcs]
    BY DEF TypeOK
  <2>2. t \in IoTasks => pc[t] \in IoPcs
    BY DEF TasksOK
  <2> QED BY <2>1, <2>2 DEF IoPcs
<1>6. OneTransfer'
  BY DEF OneTransfer, Transferring
<1>7. Addressed'
  BY DEF Addressed, Transferring
<1> QED BY <1>1, <1>2, <1>3, <1>4, <1>5, <1>6, <1>7 DEF IInv

\* Only the owner resets the header, so no other task's is lost.
LEMMA HdrResetInv == ASSUME IInv, NEW t \in Tasks, HdrReset(t) PROVE IInv'
<1> USE DEF IInv, HdrReset, Goto, ptrVars, lockVars, hdrVars, opVars
<1>1. TypeOK'
  BY DEF TypeOK, IoPcs
<1>2. PointersOK'
  BY DEF PointersOK
<1>3. TasksOK'
  BY DEF TasksOK, IoUp, EthUp, IoPcs, EthPcs
<1>4. LockOK'
  BY DEF LockOK, Level
<1>5. HeaderOK'
  <2> SUFFICES ASSUME mutex', NEW u \in IoTasks
               PROVE  /\ pc'[u] = "feed" => fed'[u] = 0 /\ s_hdr_len' = 0 /\ s_cmd' = 0
                      /\ pc'[u] # "raw"
    BY DEF HeaderOK
  <2>1. pc' = [pc EXCEPT ![t] = "feed"] /\ pc \in [Tasks -> {"idle"} \cup IoPcs \cup EthPcs]
    BY DEF TypeOK
  <2>2. mutex /\ Level(t) > 0 /\ holder = t
    BY <2>1 DEF Level, LockOK
  <2>3. u # t => pc[u] \notin {"feed", "raw"}
    BY <2>2, TasksOK DEF LockOK, Level, TasksOK
  <2>4. fed[t] = 0
    BY DEF TasksOK
  <2> QED BY <2>1, <2>3, <2>4
<1>6. OneTransfer'
  BY DEF OneTransfer, Transferring
<1>7. Addressed'
  BY DEF Addressed, Transferring
<1> QED BY <1>1, <1>2, <1>3, <1>4, <1>5, <1>6, <1>7 DEF IInv

\* Only the owner feeds the header, and its third byte completes the address.
LEMMA HdrFeedInv == ASSUME IInv, NEW t \in Tasks, HdrFeed(t) PROVE IInv'
<1> USE DEF IInv, HdrFeed, Goto, ptrVars, lockVars, hdrVars, opVars
<1>1. TypeOK'
  <2>1. op[t] \in Ops /\ fed[t] \in 0 .. 2
    BY DEF TasksOK, TypeOK
  <2>2. op[t].hdr[fed[t] + 1] \in Bytes /\ op[t].hdr[fed[t] + 1] \in Nat
    BY <2>1, OpsFacts
  <2>3. s_cmd' \in Nat /\ s_ctrl' \in Bytes /\ s_hdr_len' \in 0 .. 3
    BY <2>2 DEF TypeOK
  <2>4. pc' \in [Tasks -> {"idle"} \cup IoPcs \cup EthPcs] /\ fed' \in [Tasks -> 0 .. 3]
    BY <2>1 DEF TypeOK, IoPcs
  <2> QED BY <2>3, <2>4 DEF TypeOK
<1>2. PointersOK'
  BY DEF PointersOK
<1>3. TasksOK'
  BY DEF TasksOK, IoUp, EthUp, IoPcs, EthPcs, TypeOK
<1>4. LockOK'
  BY DEF LockOK, Level
<1>5. HeaderOK'
  <2> SUFFICES ASSUME mutex', NEW u \in IoTasks PROVE
         /\ pc'[u] = "feed" =>
              /\ s_hdr_len' = fed'[u]
              /\ fed'[u] = 0 => s_cmd' = 0
              /\ fed'[u] = 1 => s_cmd' = op'[u].hdr[1] * 256
              /\ fed'[u] = 2 => s_cmd' = op'[u].hdr[1] * 256 + op'[u].hdr[2]
         /\ pc'[u] = "raw" => <<s_cmd', s_ctrl'>> = RegOf(op'[u].hdr)
    BY DEF HeaderOK
  <2>1. t \in IoTasks /\ mutex /\ op[t] \in Ops /\ fed[t] \in 0 .. 2
    BY DEF TasksOK, TypeOK, EthPcs
  <2>2. /\ s_hdr_len = fed[t]
        /\ fed[t] = 1 => s_cmd = op[t].hdr[1] * 256
        /\ fed[t] = 2 => s_cmd = op[t].hdr[1] * 256 + op[t].hdr[2]
    BY <2>1 DEF HeaderOK
  <2>3. /\ pc' = [pc EXCEPT ![t] = IF fed[t] = 2 THEN "raw" ELSE "feed"]
        /\ fed' = [fed EXCEPT ![t] = fed[t] + 1] /\ op' = op
        /\ pc \in [Tasks -> {"idle"} \cup IoPcs \cup EthPcs] /\ fed \in [Tasks -> 0 .. 3]
    BY DEF TypeOK
  <2>4. CASE u = t
    <3>1. CASE fed[t] = 0
      BY <2>1, <2>2, <2>3, <2>4, <3>1, OpsFacts
    <3>2. CASE fed[t] = 1
      BY <2>1, <2>2, <2>3, <2>4, <3>2, OpsFacts
    <3>3. CASE fed[t] = 2
      BY <2>1, <2>2, <2>3, <2>4, <3>3, OpsFacts
    <3> QED BY <2>1, <3>1, <3>2, <3>3
  <2>5. CASE u # t
    <3>1. Level(t) > 0 /\ holder = t
      BY <2>1 DEF Level, LockOK
    <3>2. pc[u] \notin {"feed", "raw"}
      BY <2>1, <2>5, <3>1 DEF LockOK, Level
    <3> QED BY <2>3, <2>5, <3>2
  <2> QED BY <2>4, <2>5
<1>6. OneTransfer'
  BY DEF OneTransfer, Transferring
<1>7. Addressed'
  BY DEF Addressed, Transferring
<1> QED BY <1>1, <1>2, <1>3, <1>4, <1>5, <1>6, <1>7 DEF IInv

\* A transfer starts only at level 2 or 1 of the lock, or after every other user of
\* the mutex is past it; the address latched is the one gathered.
LEMMA CheckHandleInv == ASSUME IInv, NEW t \in Tasks, CheckHandle(t) PROVE IInv'
<1> USE DEF IInv, CheckHandle, AddressOf, RegOf, Goto, ptrVars, lockVars, hdrVars, opVars
<1>1. TypeOK'
  <2>1. AddressOf(t) \in Nat \X Bytes
    BY OpsFacts DEF AddressOf, TypeOK, TasksOK
  <2>2. bus' \in [Actors -> (Nat \X Bytes) \cup {None}]
    BY <2>1 DEF TypeOK
  <2>3. pc' \in [Tasks -> {"idle"} \cup IoPcs \cup EthPcs]
    BY DEF TypeOK, IoPcs
  <2> QED BY <2>2, <2>3 DEF TypeOK
<1>2. PointersOK'
  BY DEF PointersOK
<1>3. TasksOK'
  BY DEF TasksOK, IoUp, EthUp, IoPcs, EthPcs
<1>4. LockOK'
  BY DEF LockOK, Level
<1>5. HeaderOK'
  BY DEF HeaderOK
<1>6. OneTransfer'
  <2>1. mutex /\ Level(t) > 0 /\ mainPc # "diag_xfer"
    BY DEF PointersOK, TasksOK, IoUp, EthUp, Level
  <2>2. holder = t
    BY <2>1 DEF LockOK
  <2>3. ASSUME NEW u \in Tasks, u # t PROVE pc[u] \notin {"start", "xfer"}
    BY <2>1, <2>2, <2>3 DEF LockOK, Level
  <2>4. \A a \in Actors : Transferring(a)' => a = t
    BY <2>1, <2>3 DEF Transferring, TypeOK
  <2> QED BY <2>4 DEF OneTransfer
<1>7. Addressed'
  <2>1. op[t] \in Ops /\ mutex
    BY DEF PointersOK, TasksOK, TypeOK, IoUp, EthUp
  <2>2. AddressOf(t) = RegOf(op[t].hdr)
    BY <2>1 DEF HeaderOK, AddressOf
  <2>3. ASSUME NEW u \in Tasks, Transferring(u)' PROVE bus'[u] = RegOf(op'[u].hdr)
    <3>1. CASE u = t
      BY <2>2, <3>1 DEF TypeOK
    <3>2. CASE u # t
      BY <2>3, <3>2 DEF Addressed, Transferring, TypeOK
    <3> QED BY <3>1, <3>2
  <2> QED BY <2>3 DEF Addressed
<1> QED BY <1>1, <1>2, <1>3, <1>4, <1>5, <1>6, <1>7 DEF IInv

\* Going on with the transfer changes nothing the invariant speaks of.
LEMMA StartTransferInv == ASSUME IInv, NEW t \in Tasks, StartTransfer(t) PROVE IInv'
<1> USE DEF IInv, StartTransfer, Goto, ptrVars, lockVars, hdrVars, opVars
<1>1. TypeOK'
  BY DEF TypeOK, IoPcs
<1>2. PointersOK'
  BY DEF PointersOK
<1>3. TasksOK'
  BY DEF TasksOK, IoUp, EthUp, IoPcs, EthPcs
<1>4. LockOK'
  BY DEF LockOK, Level
<1>5. HeaderOK'
  BY DEF HeaderOK
<1>6. OneTransfer'
  BY DEF OneTransfer, Transferring, TypeOK
<1>7. Addressed'
  BY DEF Addressed, Transferring, TypeOK
<1> QED BY <1>1, <1>2, <1>3, <1>4, <1>5, <1>6, <1>7 DEF IInv

\* A refused access leaves nothing on the bus.
LEMMA RawRefusedInv == ASSUME IInv, NEW t \in Tasks, RawRefused(t) PROVE IInv'
<1> USE DEF IInv, RawRefused, AfterRaw, Goto, ptrVars, lockVars, hdrVars, opVars
<1>1. TypeOK'
  BY DEF TypeOK, IoPcs, EthPcs
<1>2. PointersOK'
  BY DEF PointersOK
<1>3. TasksOK'
  BY DEF TasksOK, IoUp, EthUp, IoPcs, EthPcs, TypeOK
<1>4. LockOK'
  BY DEF LockOK, Level
<1>5. HeaderOK'
  BY DEF HeaderOK
<1>6. OneTransfer'
  BY DEF OneTransfer, Transferring
<1>7. Addressed'
  BY DEF Addressed, Transferring, TypeOK
<1> QED BY <1>1, <1>2, <1>3, <1>4, <1>5, <1>6, <1>7 DEF IInv

\* The end of a transfer frees the bus and writes at a known register.
LEMMA EndTransferInv == ASSUME IInv, NEW t \in Tasks, EndTransfer(t) PROVE IInv'
<1> USE DEF IInv, EndTransfer, AfterRaw, Goto, ptrVars, lockVars, hdrVars, opVars
<1>1. TypeOK'
  <2>1. op[t] \in Ops /\ bus[t] = RegOf(op[t].hdr)
    BY DEF TasksOK, TypeOK, Addressed, Transferring
  <2>2. bus[t] \in Regs /\ op[t].val \in Vals
    BY <2>1, OpsFacts
  <2>3. chip' \in [Regs -> Vals] /\ result' \in [Tasks -> Vals \cup {None}]
    BY <2>2 DEF TypeOK
  <2>4. bus' \in [Actors -> (Nat \X Bytes) \cup {None}]
    BY DEF TypeOK
  <2>5. pc' \in [Tasks -> {"idle"} \cup IoPcs \cup EthPcs]
    BY DEF TypeOK, IoPcs, EthPcs
  <2> QED BY <2>3, <2>4, <2>5 DEF TypeOK
<1>2. PointersOK'
  BY DEF PointersOK
<1>3. TasksOK'
  BY DEF TasksOK, IoUp, EthUp, IoPcs, EthPcs, TypeOK
<1>4. LockOK'
  BY DEF LockOK, Level
<1>5. HeaderOK'
  BY DEF HeaderOK
<1>6. OneTransfer'
  BY DEF OneTransfer, Transferring
<1>7. Addressed'
  BY DEF Addressed, Transferring, TypeOK
<1> QED BY <1>1, <1>2, <1>3, <1>4, <1>5, <1>6, <1>7 DEF IInv

\* The inner unlock brings the owner from level 2 to 1.
LEMMA DeselectInv == ASSUME IInv, NEW t \in Tasks, Deselect(t) PROVE IInv'
<1> USE DEF IInv, Deselect, Give, Goto, ptrVars, lockVars, hdrVars, opVars
<1>1. TypeOK'
  BY DEF TypeOK, IoPcs, LockOK
<1>2. PointersOK'
  BY DEF PointersOK
<1>3. TasksOK'
  BY DEF TasksOK, IoUp, EthUp, IoPcs, EthPcs
<1>4. LockOK'
  <2>1. pc' = [pc EXCEPT ![t] = "cris_exit"] /\ pc \in [Tasks -> {"idle"} \cup IoPcs \cup EthPcs]
    BY DEF TypeOK
  <2>2. CASE mutex
    <3>1. holder = t /\ depth = Level(t) /\ depth = 2 /\ s_lock
      BY <2>2 DEF Level, LockOK, PointersOK, TasksOK, IoPcs, EthPcs
    <3>2. depth' = 1 /\ holder' = t /\ mutex' = mutex /\ mainPc' = mainPc
      BY <2>2, <3>1
    <3>3. Level(t)' = 1
      BY <2>1 DEF Level, TasksOK, EthPcs
    <3>4. ASSUME NEW u \in Tasks, u # t PROVE Level(u)' = Level(u) /\ Level(u) = 0
      BY <2>1, <2>2, <3>1, <3>4 DEF Level, LockOK
    <3>5. mainPc \notin {"add_device", "create_lock", "failed"}
      BY <2>2 DEF PointersOK
    <3> QED BY <3>1, <3>2, <3>3, <3>4, <3>5 DEF LockOK
  <2>3. CASE ~mutex
    BY <2>3 DEF LockOK
  <2> QED BY <2>2, <2>3
<1>5. HeaderOK'
  BY DEF HeaderOK
<1>6. OneTransfer'
  BY DEF OneTransfer, Transferring
<1>7. Addressed'
  BY DEF Addressed, Transferring
<1> QED BY <1>1, <1>2, <1>3, <1>4, <1>5, <1>6, <1>7 DEF IInv

\* The outer unlock brings the owner to level 0 and frees the mutex.
LEMMA ReturnInv == ASSUME IInv, NEW t \in Tasks, Return(t) PROVE IInv'
<1> USE DEF IInv, Return, Give, Goto, ptrVars, lockVars, hdrVars, opVars
<1>1. TypeOK'
  BY DEF TypeOK, LockOK
<1>2. PointersOK'
  BY DEF PointersOK
<1>3. TasksOK'
  BY DEF TasksOK, IoUp, EthUp, TypeOK
<1>4. LockOK'
  <2>1. pc' = [pc EXCEPT ![t] = "idle"] /\ pc \in [Tasks -> {"idle"} \cup IoPcs \cup EthPcs]
    BY DEF TypeOK
  <2>2. CASE mutex
    <3>1. holder = t /\ depth = Level(t) /\ depth = 1 /\ s_lock
      BY <2>2 DEF Level, LockOK, PointersOK, TasksOK, IoPcs, EthPcs
    <3>2. depth' = 0 /\ holder' = None /\ mutex' = mutex /\ mainPc' = mainPc
      BY <2>2, <3>1
    <3>3. Level(t)' = 0
      BY <2>1 DEF Level, TasksOK, EthPcs
    <3>4. ASSUME NEW u \in Tasks, u # t PROVE Level(u)' = Level(u) /\ Level(u) = 0
      BY <2>1, <2>2, <3>1, <3>4 DEF Level, LockOK
    <3>5. mainPc \notin {"add_device", "create_lock", "failed"}
      BY <2>2 DEF PointersOK
    <3> QED BY <3>1, <3>2, <3>3, <3>4, <3>5 DEF LockOK
  <2>3. CASE ~mutex
    BY <2>3 DEF LockOK
  <2> QED BY <2>2, <2>3
<1>5. HeaderOK'
  BY DEF HeaderOK
<1>6. OneTransfer'
  BY DEF OneTransfer, Transferring
<1>7. Addressed'
  BY DEF Addressed, Transferring
<1> QED BY <1>1, <1>2, <1>3, <1>4, <1>5, <1>6, <1>7 DEF IInv

\* The device appears before any task uses it.
LEMMA AddDeviceInv == ASSUME IInv, AddDevice PROVE IInv'
<1> USE DEF IInv, AddDevice, Goto, ptrVars, lockVars, hdrVars, opVars
<1>1. TypeOK'
  BY DEF TypeOK, MainPcs
<1>2. PointersOK'
  BY DEF PointersOK, TearDown
<1>3. TasksOK'
  BY DEF TasksOK, IoUp, EthUp
<1>4. LockOK'
  BY DEF LockOK, Level
<1>5. HeaderOK'
  BY DEF HeaderOK
<1>6. OneTransfer'
  BY DEF OneTransfer, Transferring
<1>7. Addressed'
  BY DEF Addressed, Transferring
<1> QED BY <1>1, <1>2, <1>3, <1>4, <1>5, <1>6, <1>7 DEF IInv

\* The mutex appears free, and a failure takes the device away again.
LEMMA CreateLockInv == ASSUME IInv, CreateLock PROVE IInv'
<1> USE DEF IInv, CreateLock, Goto, ptrVars, lockVars, hdrVars, opVars
<1>1. TypeOK'
  BY DEF TypeOK, MainPcs
<1>2. PointersOK'
  <2>1. CASE mainPc' = "diag"
    BY <2>1 DEF PointersOK, TypeOK, TearDown
  <2>2. CASE mainPc' = "failed"
    BY <2>2 DEF PointersOK, TypeOK, TearDown
  <2> QED BY <2>1, <2>2
<1>3. TasksOK'
  BY DEF TasksOK, IoUp, EthUp
<1>4. LockOK'
  <2>1. \A u \in Tasks : pc[u] = "idle"
    BY DEF TasksOK, IoUp, EthUp
  <2>2. holder = None
    BY DEF LockOK
  <2> QED BY <2>1, <2>2 DEF LockOK, Level
<1>5. HeaderOK'
  <2>1. \A u \in Tasks : pc[u] = "idle"
    BY DEF TasksOK, IoUp, EthUp
  <2> QED BY <2>1 DEF HeaderOK
<1>6. OneTransfer'
  BY DEF OneTransfer, Transferring
<1>7. Addressed'
  BY DEF Addressed, Transferring
<1> QED BY <1>1, <1>2, <1>3, <1>4, <1>5, <1>6, <1>7 DEF IInv

\* The unlocked diagnostic read starts when no task has begun an access.
LEMMA StartDiagInv == ASSUME IInv, StartDiag PROVE IInv'
<1> USE DEF IInv, StartDiag, Diag, RegOf, Goto, ptrVars, lockVars, hdrVars, opVars
<1>1. TypeOK'
  BY DEF TypeOK, MainPcs
<1>2. PointersOK'
  BY DEF PointersOK, TearDown
<1>3. TasksOK'
  BY DEF TasksOK, IoUp, EthUp
<1>4. LockOK'
  BY DEF LockOK, Level, TearDown
<1>5. HeaderOK'
  BY DEF HeaderOK
<1>6. OneTransfer'
  <2>1. \A u \in Tasks : pc[u] = "idle"
    BY DEF TasksOK, IoUp, EthUp
  <2> QED BY <2>1 DEF OneTransfer, Transferring
<1>7. Addressed'
  BY DEF Addressed, Transferring
<1> QED BY <1>1, <1>2, <1>3, <1>4, <1>5, <1>6, <1>7 DEF IInv

\* The diagnostic read leaves the bus free.
LEMMA EndDiagInv == ASSUME IInv, EndDiag PROVE IInv'
<1> USE DEF IInv, EndDiag, Goto, ptrVars, lockVars, hdrVars, opVars
<1>1. TypeOK'
  BY DEF TypeOK, MainPcs
<1>2. PointersOK'
  BY DEF PointersOK, TearDown
<1>3. TasksOK'
  BY DEF TasksOK, IoUp, EthUp
<1>4. LockOK'
  BY DEF LockOK, Level, TearDown
<1>5. HeaderOK'
  BY DEF HeaderOK
<1>6. OneTransfer'
  BY DEF OneTransfer, Transferring
<1>7. Addressed'
  BY DEF Addressed, Transferring
<1> QED BY <1>1, <1>2, <1>3, <1>4, <1>5, <1>6, <1>7 DEF IInv

\* The port finds the device there.
LEMMA PortInitInv == ASSUME IInv, PortInit PROVE IInv'
<1> USE DEF IInv, PortInit, Goto, ptrVars, lockVars, hdrVars, opVars
<1>1. TypeOK'
  BY DEF TypeOK, MainPcs
<1>2. PointersOK'
  BY DEF PointersOK, TearDown
<1>3. TasksOK'
  BY DEF TasksOK, IoUp, EthUp, PointersOK
<1>4. LockOK'
  BY DEF LockOK, Level, TearDown, PointersOK
<1>5. HeaderOK'
  BY DEF HeaderOK
<1>6. OneTransfer'
  BY DEF OneTransfer, Transferring
<1>7. Addressed'
  BY DEF Addressed, Transferring
<1> QED BY <1>1, <1>2, <1>3, <1>4, <1>5, <1>6, <1>7 DEF IInv

\* A restart is Init again, but for the registers.
LEMMA RebootInv == ASSUME IInv, Reboot PROVE IInv'
<1> USE DEF IInv, Reboot, Goto, ptrVars, lockVars, hdrVars, opVars
<1>1. TypeOK'
  <2>1. s_cmd' \in Nat /\ s_ctrl' \in Bytes /\ s_hdr_len' \in 0 .. 3 /\ depth' \in Nat
    OBVIOUS
  <2>2. pc' \in [Tasks -> {"idle"} \cup IoPcs \cup EthPcs]
    OBVIOUS
  <2>3. bus' \in [Actors -> (Nat \X Bytes) \cup {None}]
    OBVIOUS
  <2>4. /\ op' \in [Tasks -> Ops \cup {None}] /\ fed' \in [Tasks -> 0 .. 3]
        /\ result' \in [Tasks -> Vals \cup {None}]
    OBVIOUS
  <2> QED BY <2>1, <2>2, <2>3, <2>4 DEF TypeOK, MainPcs
<1>2. PointersOK'
  BY DEF PointersOK, TearDown
<1>3. TasksOK'
  BY DEF TasksOK
<1>4. LockOK'
  BY DEF LockOK
<1>5. HeaderOK'
  BY DEF HeaderOK
<1>6. OneTransfer'
  BY DEF OneTransfer, Transferring
<1>7. Addressed'
  BY DEF Addressed, Transferring
<1> QED BY <1>1, <1>2, <1>3, <1>4, <1>5, <1>6, <1>7 DEF IInv

\* The decision to tear down changes no object.
LEMMA StartDeinitInv == ASSUME IInv, StartDeinit PROVE IInv'
<1> USE DEF IInv, StartDeinit, Goto, ptrVars, lockVars, hdrVars, opVars
<1>1. TypeOK'
  BY DEF TypeOK, MainPcs
<1>2. PointersOK'
  BY DEF PointersOK
<1>3. TasksOK'
  BY DEF TasksOK, IoUp, EthUp
<1>4. LockOK'
  BY DEF LockOK, Level, TearDown
<1>5. HeaderOK'
  BY DEF HeaderOK
<1>6. OneTransfer'
  BY DEF OneTransfer, Transferring
<1>7. Addressed'
  BY DEF Addressed, Transferring
<1> QED BY <1>1, <1>2, <1>3, <1>4, <1>5, <1>6, <1>7 DEF IInv

\* Deleting esp_eth's tasks may leave the mutex with a dead owner, which LockOK allows.
LEMMA DeleteEthTasksInv == ASSUME IInv, DeleteEthTasks PROVE IInv'
<1> USE DEF IInv, DeleteEthTasks, Goto, ptrVars, lockVars, hdrVars, opVars
<1>1. TypeOK'
  BY DEF TypeOK, MainPcs
<1>2. PointersOK'
  BY DEF PointersOK, TearDown
<1>3. TasksOK'
  <2> SUFFICES ASSUME NEW u \in Tasks PROVE
        /\ op'[u] = None <=> pc'[u] = "idle"
        /\ u \in IoTasks => /\ pc'[u] \in {"idle"} \cup IoPcs
                            /\ pc'[u] # "idle" => IoUp'
        /\ u \in EthTasks => pc'[u] = "idle"
        /\ pc'[u] \notin {"deselect", "cris_exit", "unlock"} => result'[u] = None
        /\ u \in EthTasks => fed'[u] = 0
        /\ pc'[u] = "feed" => fed'[u] \in 0 .. 2
        /\ pc'[u] \in {"idle", "cris", "cris_wait", "cs", "cs_wait", "reset"} => fed'[u] = 0
    BY DEF TasksOK
  <2>1. CASE u \in EthTasks
    BY <2>1 DEF TasksOK
  <2>2. CASE u \notin EthTasks
    <3>1. /\ pc'[u] = pc[u] /\ op'[u] = op[u] /\ fed'[u] = fed[u]
          /\ result'[u] = result[u] /\ u \in IoTasks
      BY <2>2
    <3> QED BY <2>2, <3>1 DEF TasksOK, IoUp
  <2> QED BY <2>1, <2>2
<1>4. LockOK'
  BY DEF LockOK, Level, TearDown
<1>5. HeaderOK'
  BY DEF HeaderOK
<1>6. OneTransfer'
  BY DEF OneTransfer, Transferring
<1>7. Addressed'
  BY DEF Addressed, Transferring
<1> QED BY <1>1, <1>2, <1>3, <1>4, <1>5, <1>6, <1>7 DEF IInv

\* The device pointer goes before the mutex does, so that no transfer starts once the
\* mutex is gone.
LEMMA SharedSpiDeinitInv == ASSUME IInv, SharedSpiDeinit PROVE IInv'
<1> USE DEF IInv, SharedSpiDeinit, Deinit, Goto, ptrVars, lockVars, hdrVars, opVars
<1>1. TypeOK'
  BY DEF TypeOK, MainPcs
<1>2. PointersOK'
  BY DEF PointersOK, TearDown
<1>3. TasksOK'
  BY DEF TasksOK, IoUp, EthUp
<1>4. LockOK'
  BY DEF LockOK, Level, TearDown
<1>5. HeaderOK'
  <2>1. mutex' => mutex
    OBVIOUS
  <2> QED BY <2>1 DEF HeaderOK
<1>6. OneTransfer'
  BY DEF OneTransfer, Transferring
<1>7. Addressed'
  BY DEF Addressed, Transferring
<1> QED BY <1>1, <1>2, <1>3, <1>4, <1>5, <1>6, <1>7 DEF IInv

-------------------------------------------------------------------------------
\* Every step of the layer preserves the invariant.
THEOREM NextIInv == ASSUME IInv, [Next]_vars PROVE IInv'
<1>1. CASE MainStep
  BY <1>1, AddDeviceInv, CreateLockInv, StartDiagInv, EndDiagInv, PortInitInv,
     RebootInv, StartDeinitInv, DeleteEthTasksInv, SharedSpiDeinitInv DEF MainStep
<1>2. ASSUME NEW t \in Tasks, Begin(t) \/ TaskStep(t) PROVE IInv'
  BY <1>2, BeginInv, LockCallInv, TakeInv, HdrResetInv, HdrFeedInv, CheckHandleInv,
     StartTransferInv, RawRefusedInv, EndTransferInv, DeselectInv, ReturnInv DEF TaskStep
<1>3. CASE UNCHANGED vars
  BY <1>3 DEF vars, ptrVars, lockVars, hdrVars, opVars, IInv, TypeOK, PointersOK,
     TasksOK, IoUp, EthUp, LockOK, Level, HeaderOK, OneTransfer, Addressed, Transferring
<1> QED BY <1>1, <1>2, <1>3 DEF Next

\* The invariant holds in every reachable state.
THEOREM Inductive == Spec => []IInv
BY InitIInv, NextIInv, PTL DEF Spec

\* The variables always have their types.
THEOREM TypeCorrect == Spec => []TypeOK
<1>1. IInv => TypeOK
  BY DEF IInv
<1> QED BY Inductive, <1>1, PTL

\* Transfers never overlap on the bus, tear-down included.
THEOREM OneTransferAlways == Spec => []OneTransfer
<1>1. IInv => OneTransfer
  BY DEF IInv
<1> QED BY Inductive, <1>1, PTL

\* Each transfer carries the address its caller asked for.
THEOREM AddressedAlways == Spec => []Addressed
<1>1. IInv => Addressed
  BY DEF IInv
<1> QED BY Inductive, <1>1, PTL

\* If the network is never torn down, whoever is on the bus owns the lock.
THEOREM GuardedWithoutDeinit == ~DEINIT => (Spec => []GuardedByLock)
<1>1. ASSUME ~DEINIT PROVE IInv => GuardedByLock
  <2> SUFFICES ASSUME IInv, NEW t \in Tasks, Transferring(t)
               PROVE  mutex /\ holder = t
    BY DEF GuardedByLock
  <2>1. pc[t] \in {"start", "xfer"}
    BY DEF Transferring
  <2>2. mutex
    BY <1>1, <2>1 DEF IInv, TasksOK, PointersOK, IoUp, EthUp, TearDown
  <2> QED BY <2>1, <2>2 DEF IInv, LockOK, Level
<1>2. ASSUME ~DEINIT PROVE Spec => []GuardedByLock
  BY <1>1, <1>2, Inductive, PTL
<1> QED BY <1>2

-------------------------------------------------------------------------------
(* Refinement: without tear-down the detailed layer implements ChipAccess. *)

Done(t) == pc[t] \in {"deselect", "cris_exit", "unlock"}

\* What an access looks like to ChipAccess.
LEMMA RequestFacts ==
  ASSUME NEW t \in Tasks, op[t] \in Ops
  PROVE  /\ Request(t) \in Requests /\ Request(t) # None
         /\ Request(t).kind = IF op[t].kind = "write" THEN "write" ELSE "read"
         /\ Request(t).reg = RegOf(op[t].hdr) /\ Request(t).val = op[t].val
<1>1. op[t] # None
  OBVIOUS
<1>2. /\ op[t].kind \in Kinds /\ op[t].val \in Vals /\ RegOf(op[t].hdr) \in Regs
  BY OpsFacts
<1> QED BY <1>1, <1>2 DEF Request, Requests

\* An access is requested when its caller begins it.
LEMMA BeginRefines ==
  ASSUME IInv, NEW t \in Tasks, Begin(t) PROVE Abstract!Invoke(t)
<1> USE DEF Begin, Goto
<1>1. op[t] = None /\ op \in [Tasks -> Ops \cup {None}] /\ pc \in [Tasks -> {"idle"} \cup IoPcs \cup EthPcs]
  BY DEF IInv, TypeOK, TasksOK
<1>2. PICK o \in Ops : op' = [op EXCEPT ![t] = o]
  OBVIOUS
<1>3. Request(t)' \in Requests
  BY <1>1, <1>2, OpsFacts DEF Request, Requests
<1>4. \A u \in Tasks : u # t => Request(u)' = Request(u)
  BY <1>1, <1>2 DEF Request
<1>5. [u \in Tasks |-> Request(u)'] = [[u \in Tasks |-> Request(u)] EXCEPT ![t] = Request(t)']
  BY <1>4
<1>6. \A u \in Tasks : Done(u)' = Done(u)
  BY <1>1 DEF Done
<1>7. Request(t) = None
  BY <1>1 DEF Request
<1> QED BY <1>3, <1>5, <1>6, <1>7 DEF Abstract!Invoke, Done

\* It takes effect when its transfer ends.
LEMMA EndTransferRefines ==
  ASSUME IInv, ~DEINIT, NEW t \in Tasks, EndTransfer(t) PROVE Abstract!Apply(t)
<1> USE DEF EndTransfer, Goto, opVars, ptrVars
<1>1. op[t] \in Ops /\ op' = op /\ pc \in [Tasks -> {"idle"} \cup IoPcs \cup EthPcs]
  BY DEF IInv, TypeOK, TasksOK
<1>2. bus[t] = RegOf(op[t].hdr) /\ device
  BY DEF IInv, Addressed, Transferring, PointersOK, TasksOK, IoUp, EthUp, TearDown
<1>3. /\ Request(t).kind = IF op[t].kind = "write" THEN "write" ELSE "read"
      /\ Request(t).reg = bus[t] /\ Request(t).val = op[t].val /\ Request(t) # None
  BY <1>1, <1>2, RequestFacts
<1>4. \A u \in Tasks : Request(u)' = Request(u)
  BY <1>1 DEF Request
<1>5. ~Done(t) /\ Done(t)' /\ \A u \in Tasks : u # t => Done(u)' = Done(u)
  BY <1>1 DEF Done, AfterRaw
<1>6. [u \in Tasks |-> Done(u)'] = [[u \in Tasks |-> Done(u)] EXCEPT ![t] = TRUE]
  BY <1>5
<1>7. \/ op[t].kind = "write" /\ chip' = [chip EXCEPT ![bus[t]] = op[t].val] /\ result' = result
      \/ op[t].kind # "write" /\ result' = [result EXCEPT ![t] = chip[bus[t]]] /\ chip' = chip
  BY <1>2
<1> QED BY <1>3, <1>4, <1>5, <1>6, <1>7 DEF Abstract!Apply, Done

\* It returns when the lock's last level is given back.
LEMMA ReturnRefines ==
  ASSUME IInv, NEW t \in Tasks, Return(t) PROVE Abstract!Return(t)
<1> USE DEF Return, Goto
<1>1. op[t] \in Ops /\ op \in [Tasks -> Ops \cup {None}] /\ pc \in [Tasks -> {"idle"} \cup IoPcs \cup EthPcs]
  BY DEF IInv, TypeOK, TasksOK
<1>2. Request(t) # None /\ Request(t)' = None
  BY <1>1, RequestFacts DEF Request
<1>3. \A u \in Tasks : u # t => Request(u)' = Request(u)
  BY <1>1 DEF Request
<1>4. [u \in Tasks |-> Request(u)'] = [[u \in Tasks |-> Request(u)] EXCEPT ![t] = None]
  BY <1>2, <1>3
<1>5. Done(t) = TRUE /\ Done(t)' = FALSE /\ \A u \in Tasks : u # t => Done(u)' = Done(u)
  BY <1>1 DEF Done
<1>6. [u \in Tasks |-> Done(u)'] = [[u \in Tasks |-> Done(u)] EXCEPT ![t] = FALSE]
  BY <1>5, Zenon
<1> QED BY <1>2, <1>4, <1>5, <1>6 DEF Abstract!Return, Done

\* Nothing else is visible to the callers; without tear-down no access is refused
\* and nobody waits on a mutex that is gone.
LEMMA OthersStutter ==
  ASSUME IInv, ~DEINIT,
         MainStep \/ \E t \in Tasks : \/ LockCall(t) \/ Take(t) \/ HdrReset(t) \/ HdrFeed(t)
                                    \/ CheckHandle(t) \/ StartTransfer(t) \/ RawRefused(t) \/ Deselect(t)
                                    \/ UNCHANGED vars
  PROVE  /\ UNCHANGED chip
         /\ \A t \in Tasks : /\ Request(t)' = Request(t) /\ Done(t)' = Done(t)
                            /\ result'[t] = result[t]
<1> USE DEF Goto, ptrVars, lockVars, hdrVars, opVars
<1>1. ASSUME MainStep
      PROVE  chip' = chip /\ op' = op /\ result' = result /\ pc' = pc
  <2>1. ASSUME Reboot
        PROVE  chip' = chip /\ op' = op /\ result' = result /\ pc' = pc
    <3>1. \A t \in Tasks : pc[t] = "idle" /\ op[t] = None /\ result[t] = None
      BY <2>1 DEF Reboot, IInv, TasksOK, IoUp, EthUp
    <3> QED BY <2>1, <3>1 DEF Reboot, IInv, TypeOK
  <2>2. ~DeleteEthTasks
    BY DEF DeleteEthTasks, IInv, PointersOK, TearDown
  <2> QED BY <1>1, <2>1, <2>2 DEF MainStep, AddDevice, CreateLock, StartDiag, EndDiag,
             PortInit, StartDeinit, SharedSpiDeinit
<1>2. ASSUME NEW t \in Tasks,
             \/ LockCall(t) \/ Take(t) \/ HdrReset(t) \/ HdrFeed(t)
             \/ CheckHandle(t) \/ StartTransfer(t) \/ RawRefused(t) \/ Deselect(t) \/ UNCHANGED vars
      PROVE  /\ chip' = chip /\ op' = op /\ result' = result
             /\ \A u \in Tasks : Done(u)' = Done(u)
  <2>1. ~RawRefused(t)
    BY DEF RawRefused, IInv, TasksOK, IoUp, EthUp, PointersOK, TearDown
  <2>2. chip' = chip /\ op' = op /\ result' = result
    BY <1>2, <2>1 DEF LockCall, Take, HdrReset, HdrFeed, CheckHandle, StartTransfer, Deselect, vars
  <2>3. pc \in [Tasks -> {"idle"} \cup IoPcs \cup EthPcs]
    BY DEF IInv, TypeOK
  <2>4. \A u \in Tasks : Done(u)' = Done(u)
    BY <1>2, <2>1, <2>3 DEF LockCall, Take, HdrReset, HdrFeed, CheckHandle, StartTransfer, Deselect,
       vars, Done, AfterLock
  <2> QED BY <2>2, <2>4
<1> QED BY <1>1, <1>2 DEF Request, Done

\* At boot nothing is requested.
LEMMA InitRefines == Init => Abstract!Init
<1> SUFFICES ASSUME Init PROVE Abstract!Init
  OBVIOUS
<1>1. [t \in Tasks |-> Request(t)] = [t \in Tasks |-> None]
  BY DEF Init, Request
<1>2. [t \in Tasks |-> pc[t] \in {"deselect", "cris_exit", "unlock"}] = [t \in Tasks |-> FALSE]
  <2>1. \A t \in Tasks : (pc[t] \in {"deselect", "cris_exit", "unlock"}) = FALSE
    BY DEF Init
  <2> QED BY <2>1, Zenon
<1> QED BY <1>1, <1>2 DEF Init, Abstract!Init

\* Every step is a step of ChipAccess or invisible there.
LEMMA StepRefines ==
  ASSUME IInv, ~DEINIT, [Next]_vars PROVE [Abstract!Next]_(Abstract!vars)
<1>1. ASSUME NEW t \in Tasks, Begin(t) \/ EndTransfer(t) \/ Return(t) PROVE Abstract!Next
  BY <1>1, BeginRefines, EndTransferRefines, ReturnRefines DEF Abstract!Next
<1>2. CASE \/ MainStep
           \/ \E t \in Tasks : \/ LockCall(t) \/ Take(t) \/ HdrReset(t) \/ HdrFeed(t)
                              \/ CheckHandle(t) \/ StartTransfer(t) \/ RawRefused(t) \/ Deselect(t)
                              \/ UNCHANGED vars
  <2>1. result \in [Tasks -> Vals \cup {None}] /\ result' \in [Tasks -> Vals \cup {None}]
    BY NextIInv DEF IInv, TypeOK
  <2>2. result' = result
    BY <1>2, <2>1, OthersStutter
  <2> QED BY <1>2, <2>2, OthersStutter DEF Abstract!vars, Done
<1>3. CASE UNCHANGED vars
  BY <1>3 DEF vars, opVars, Abstract!vars, Request
<1> QED BY <1>1, <1>2, <1>3 DEF Next, TaskStep

\* If the network is never torn down, the two drivers sharing the device behave as
\* atomic register accesses.
THEOREM Refinement == ~DEINIT => (Spec => AtomicAccess)
<1>1. ASSUME ~DEINIT PROVE Spec => AtomicAccess
  <2>1. IInv /\ [Next]_vars => [Abstract!Next]_(Abstract!vars)
    BY <1>1, StepRefines
  <2> QED BY <2>1, InitRefines, Inductive, PTL DEF Spec, AtomicAccess, Abstract!Spec
<1> QED BY <1>1
===============================================================================
