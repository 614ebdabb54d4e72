------------------------------- MODULE SharedSpi -------------------------------
(***************************************************************************)
(* wiznet_spi_shared.c and wiznet_spi_port.c: one W5500, one SPI device,   *)
(* and two drivers that use it from different tasks.                       *)
(*                                                                         *)
(*  - esp_eth (EthTasks) calls shared_spi_read/write: lock, one            *)
(*    transaction, unlock.                                                 *)
(*  - ioLibrary (IoTasks) makes an access as a stream of callbacks:        *)
(*    cris_enter, cs_select, three header bytes, data, cs_deselect,        *)
(*    cris_exit.  The header bytes are gathered in three file-scope        *)
(*    variables (s_hdr_len, s_cmd, s_ctrl) shared by all tasks; what keeps *)
(*    them apart is the recursive lock.                                    *)
(*                                                                         *)
(* A transaction has a beginning (the address is latched, StartTransfer)   *)
(* and an end (EndTransfer), so that two of them can overlap if nothing    *)
(* forbids it.  app_main's part is mainPc: creating and destroying the     *)
(* device and the lock, whose two pointers (s_hdl, s_lock) are kept apart  *)
(* from the objects they point to (device, mutex).                         *)
(***************************************************************************)
EXTENDS Integers, FiniteSets

CONSTANTS IoTasks,   \* tasks that call into ioLibrary
          EthTasks,  \* task contexts of the esp_eth W5500 driver
          Main,      \* app_main
          None,      \* no access, no result, no lock holder
          Bytes,     \* the byte values a header is made of
          Headers,   \* <<address high, address low, control>> in use
          Vals,      \* what a register holds
          Ops,       \* the accesses callers make: [kind, hdr, val]
          DEINIT     \* EXAMPLE_ETH_DEINIT_AFTER_S >= 0

Tasks == IoTasks \cup EthTasks
Actors == Tasks \cup {Main}
Kinds == {"readbyte", "readburst", "write"}

\* The address a W5500 frame carries: 16-bit offset and control byte.
RegOf(h) == <<h[1] * 256 + h[2], h[3]>>
Regs == {RegOf(h) : h \in Headers}

Diag == RegOf(<<0, 0, 0>>)  \* stands for VERSIONR, which nothing writes

\* An access as ChipAccess sees it.
Requests == [kind : {"read", "write"}, reg : Regs, val : Vals]

ASSUME TasksAssumption == /\ IoTasks \cap EthTasks = {}
                          /\ Main \notin Tasks
                          /\ None \notin Tasks \cup {Main}
ASSUME BytesAssumption == Bytes \subseteq 0 .. 255 /\ 0 \in Bytes
ASSUME HeadersAssumption == Headers \subseteq Bytes \X Bytes \X Bytes
ASSUME ValsAssumption == 0 \in Vals /\ None \notin Vals
ASSUME OpsAssumption == /\ Ops \subseteq [kind : Kinds, hdr : Headers, val : Vals]
                        /\ None \notin Ops \cup Requests
ASSUME DeinitAssumption == DEINIT \in BOOLEAN

VARIABLES
  mainPc,    \* where app_main is in bringing the layer up and down
  s_hdl,     \* the device pointer is not NULL
  s_lock,    \* the lock pointer is not NULL
  device,    \* the SPI device exists
  mutex,     \* the recursive mutex exists
  holder,    \* the task that owns the mutex, or None
  depth,     \* how often the owner has taken it
  s_hdr_len, s_cmd, s_ctrl,  \* the header gathered so far
  pc,        \* where each task is in its access
  op,        \* the access it makes
  fed,       \* header bytes it has handed to the port
  bus,       \* the address of each actor's transfer, or None
  result,    \* what the access returned
  chip       \* the registers

ptrVars  == <<mainPc, s_hdl, s_lock, device, mutex>>
lockVars == <<holder, depth>>
hdrVars  == <<s_hdr_len, s_cmd, s_ctrl>>
opVars   == <<op, fed>>
vars == <<ptrVars, lockVars, hdrVars, pc, opVars, bus, result, chip>>

IoPcs  == {"cris", "cris_wait", "cs", "cs_wait", "reset", "feed", "raw", "start",
           "xfer", "deselect", "cris_exit"}
EthPcs == {"lock", "lock_wait", "raw", "start", "xfer", "unlock"}
MainPcs == {"add_device", "create_lock", "diag", "diag_xfer", "port_init", "running",
            "del_tasks", "del_device", "null_hdl", "del_lock", "null_lock", "off", "failed"}

\* esp_eth's own tasks run from the end of example_eth_init to their deletion;
\* ioLibrary's callbacks are registered by wiznet_spi_port_init and stay.
EthUp == mainPc \in {"port_init", "running", "del_tasks"}
\* Bug: wiznet_spi_port_init does not wait for the device to be ready.
IoUpEarly == mainPc # "failed"
IoUp  == mainPc \in {"running", "del_tasks", "del_device", "null_hdl", "del_lock",
                     "null_lock", "off"}

Init ==
  /\ mainPc = "add_device"
  /\ s_hdl = FALSE /\ s_lock = FALSE /\ device = FALSE /\ mutex = FALSE
  /\ holder = None /\ depth = 0
  /\ s_hdr_len = 0 /\ s_cmd = 0 /\ s_ctrl = 0
  /\ pc = [t \in Tasks |-> "idle"]
  /\ op = [t \in Tasks |-> None]
  /\ fed = [t \in Tasks |-> 0]
  /\ bus = [a \in Actors |-> None]
  /\ result = [t \in Tasks |-> None]
  /\ chip \in [Regs -> Vals]

Goto(t, next) == pc' = [pc EXCEPT ![t] = next]

-------------------------------------------------------------------------------
(* A caller starts an access. *)

Begin(t) ==
  /\ pc[t] = "idle"
  /\ \/ t \in IoTasks /\ IoUp /\ Goto(t, "cris")
     \/ t \in EthTasks /\ EthUp /\ Goto(t, "lock")
  /\ \E o \in Ops : op' = [op EXCEPT ![t] = o]
  /\ fed' = [fed EXCEPT ![t] = 0]
  /\ UNCHANGED <<ptrVars, lockVars, hdrVars, bus, result, chip>>

(* wiznet_shared_spi_lock: look at the pointer, then block on the mutex. *)

AfterLock(p) == CASE p \in {"cris", "cris_wait"} -> "cs"
                  [] p \in {"cs", "cs_wait"}     -> "reset"
                  [] OTHER                       -> "raw"

LockCall(t) ==
  /\ \/ pc[t] = "cris" /\ Goto(t, IF s_lock THEN "cris_wait" ELSE AfterLock("cris"))
     \/ pc[t] = "cs"   /\ Goto(t, IF s_lock THEN "cs_wait" ELSE AfterLock("cs"))
     \/ pc[t] = "lock" /\ Goto(t, IF s_lock THEN "lock_wait" ELSE AfterLock("lock"))
  /\ UNCHANGED <<ptrVars, lockVars, hdrVars, opVars, bus, result, chip>>

\* Bug: the mutex is waited for with a limit, and the outcome ignored.
TakeOrGoOn(t) ==
  /\ pc[t] \in {"cris_wait", "cs_wait", "lock_wait"}
  /\ IF mutex /\ holder \in {None, t}
       THEN holder' = t /\ depth' = depth + 1
       ELSE UNCHANGED lockVars
  /\ Goto(t, AfterLock(pc[t]))
  /\ UNCHANGED <<ptrVars, hdrVars, opVars, bus, result, chip>>

\* xSemaphoreTakeRecursive.  A mutex deleted under the waiting task is undefined
\* behaviour: the call may return without the lock, or never.
Take(t) ==
  /\ pc[t] \in {"cris_wait", "cs_wait", "lock_wait"}
  /\ \/ mutex /\ holder \in {None, t} /\ holder' = t /\ depth' = depth + 1
     \/ ~mutex /\ UNCHANGED lockVars
  /\ Goto(t, AfterLock(pc[t]))
  /\ UNCHANGED <<ptrVars, hdrVars, opVars, bus, result, chip>>

(* wiznet_shared_spi_unlock; xSemaphoreGiveRecursive refuses a task that is
   not the owner. *)
Give(t) ==
  IF s_lock /\ mutex /\ holder = t
    THEN /\ depth' = depth - 1
         /\ holder' = IF depth = 1 THEN None ELSE holder
    ELSE UNCHANGED lockVars

(* The header: cb_cs_select resets it, cb_writeburst feeds it byte by byte. *)

\* Bug: hdr_reset forgets the length.
HdrResetKeepsLen(t) ==
  /\ pc[t] = "reset"
  /\ s_cmd' = 0 /\ s_ctrl' = 0 /\ UNCHANGED s_hdr_len
  /\ Goto(t, "feed")
  /\ UNCHANGED <<ptrVars, lockVars, opVars, bus, result, chip>>

HdrReset(t) ==
  /\ pc[t] = "reset"
  /\ s_hdr_len' = 0 /\ s_cmd' = 0 /\ s_ctrl' = 0
  /\ Goto(t, "feed")
  /\ UNCHANGED <<ptrVars, lockVars, opVars, bus, result, chip>>

HdrFeed(t) ==
  LET b == op[t].hdr[fed[t] + 1]
  IN /\ pc[t] = "feed"
     /\ fed' = [fed EXCEPT ![t] = @ + 1]
     /\ Goto(t, IF fed[t] = 2 THEN "raw" ELSE "feed")
     /\ \/ /\ s_hdr_len = 0 /\ s_cmd' = b * 256 /\ UNCHANGED s_ctrl
        \/ /\ s_hdr_len = 1 /\ s_cmd' = s_cmd + b /\ UNCHANGED s_ctrl
        \/ /\ s_hdr_len = 2 /\ s_ctrl' = b /\ UNCHANGED s_cmd
        \/ /\ s_hdr_len >= 3 /\ UNCHANGED <<s_cmd, s_ctrl>>
     /\ s_hdr_len' = IF s_hdr_len < 3 THEN s_hdr_len + 1 ELSE s_hdr_len
     /\ UNCHANGED <<ptrVars, lockVars, op, bus, result, chip>>

(* wiznet_shared_spi_raw *)

AddressOf(t) == IF t \in IoTasks THEN <<s_cmd, s_ctrl>> ELSE RegOf(op[t].hdr)
AfterRaw(t) == IF t \in IoTasks THEN "deselect" ELSE "unlock"

\* The arguments are read and the pointer is looked at ...
CheckHandle(t) ==
  /\ pc[t] = "raw" /\ s_hdl
  /\ bus' = [bus EXCEPT ![t] = AddressOf(t)]
  /\ Goto(t, "start")
  /\ UNCHANGED <<ptrVars, lockVars, hdrVars, opVars, result, chip>>

\* ... and read again for spi_device_polling_transmit.
StartTransfer(t) ==
  /\ pc[t] = "start" /\ s_hdl
  /\ Goto(t, "xfer")
  /\ UNCHANGED <<ptrVars, lockVars, hdrVars, opVars, bus, result, chip>>

\* A NULL pointer is an error at either place.  cb_readbyte turns it into 0 and
\* cb_readburst into whatever the caller's buffer held; a write is dropped.
RawRefused(t) ==
  /\ pc[t] \in {"raw", "start"} /\ ~s_hdl
  /\ bus' = [bus EXCEPT ![t] = None]
  /\ \/ /\ op[t].kind = "write" /\ UNCHANGED result
     \/ /\ op[t].kind = "readbyte" /\ result' = [result EXCEPT ![t] = 0]
     \/ /\ op[t].kind = "readburst"
        /\ \E v \in Vals : result' = [result EXCEPT ![t] = v]
  /\ Goto(t, AfterRaw(t))
  /\ UNCHANGED <<ptrVars, lockVars, hdrVars, opVars, chip>>

\* The end of spi_device_polling_transmit.  On a device that was removed
\* meanwhile the transfer may or may not reach the chip.
EndTransfer(t) ==
  /\ pc[t] = "xfer"
  /\ bus' = [bus EXCEPT ![t] = None]
  /\ \/ /\ op[t].kind = "write"
        /\ \/ chip' = [chip EXCEPT ![bus[t]] = op[t].val]
           \/ ~device /\ UNCHANGED chip
        /\ UNCHANGED result
     \/ /\ op[t].kind # "write"
        /\ \E v \in IF device THEN {chip[bus[t]]} ELSE Vals :
             result' = [result EXCEPT ![t] = v]
        /\ UNCHANGED chip
  /\ Goto(t, AfterRaw(t))
  /\ UNCHANGED <<ptrVars, lockVars, hdrVars, opVars>>

(* cb_cs_deselect, cb_cris_exit and the unlock of shared_spi_read/write; the
   last one returns to the caller. *)

\* Bug: cb_cs_deselect does not give back what cb_cs_select took.
DeselectKeepsLock(t) ==
  /\ pc[t] = "deselect"
  /\ Goto(t, "cris_exit")
  /\ UNCHANGED <<ptrVars, lockVars, hdrVars, opVars, bus, result, chip>>

Deselect(t) ==
  /\ pc[t] = "deselect"
  /\ Give(t)
  /\ Goto(t, "cris_exit")
  /\ UNCHANGED <<ptrVars, hdrVars, opVars, bus, result, chip>>

\* Bug: cb_cris_exit gives the lock back to the last level at once.
ReturnGivesTwice(t) ==
  /\ pc[t] \in {"cris_exit", "unlock"}
  /\ depth' = depth - 2 /\ holder' = None
  /\ Goto(t, "idle")
  /\ op' = [op EXCEPT ![t] = None]
  /\ fed' = [fed EXCEPT ![t] = 0]
  /\ result' = [result EXCEPT ![t] = None]
  /\ UNCHANGED <<ptrVars, hdrVars, bus, chip>>

Return(t) ==
  /\ pc[t] \in {"cris_exit", "unlock"}
  /\ Give(t)
  /\ Goto(t, "idle")
  /\ op' = [op EXCEPT ![t] = None]
  /\ fed' = [fed EXCEPT ![t] = 0]
  /\ result' = [result EXCEPT ![t] = None]
  /\ UNCHANGED <<ptrVars, hdrVars, bus, chip>>

-------------------------------------------------------------------------------
(* app_main.  eth_init_spi makes esp_eth call shared_spi_init, then reads
   VERSIONR raw and without the lock; wiznet_toe_init registers the port. *)

AddDevice ==
  /\ mainPc = "add_device"
  /\ \/ mainPc' = "create_lock" /\ s_hdl' = TRUE /\ device' = TRUE
     \/ mainPc' = "failed" /\ UNCHANGED <<s_hdl, device>>
  /\ UNCHANGED <<s_lock, mutex, lockVars, hdrVars, pc, opVars, bus, result, chip>>

\* Bug: a failure to create the mutex leaves the device behind.
CreateLockLeaks ==
  /\ mainPc = "create_lock"
  /\ \/ mainPc' = "diag" /\ s_lock' = TRUE /\ mutex' = TRUE
     \/ mainPc' = "failed" /\ UNCHANGED <<s_lock, mutex>>
  /\ UNCHANGED <<s_hdl, device, lockVars, hdrVars, pc, opVars, bus, result, chip>>

CreateLock ==
  /\ mainPc = "create_lock"
  /\ \/ /\ mainPc' = "diag" /\ s_lock' = TRUE /\ mutex' = TRUE
        /\ UNCHANGED <<s_hdl, device>>
     \/ /\ mainPc' = "failed" /\ s_hdl' = FALSE /\ device' = FALSE
        /\ UNCHANGED <<s_lock, mutex>>
  /\ UNCHANGED <<lockVars, hdrVars, pc, opVars, bus, result, chip>>

StartDiag ==
  /\ mainPc = "diag"
  /\ mainPc' = "diag_xfer"
  /\ bus' = [bus EXCEPT ![Main] = Diag]
  /\ UNCHANGED <<s_hdl, s_lock, device, mutex, lockVars, hdrVars, pc, opVars, result, chip>>

EndDiag ==
  /\ mainPc = "diag_xfer"
  /\ mainPc' = "port_init"
  /\ bus' = [bus EXCEPT ![Main] = None]
  /\ UNCHANGED <<s_hdl, s_lock, device, mutex, lockVars, hdrVars, pc, opVars, result, chip>>

PortInit ==
  /\ mainPc = "port_init"
  /\ mainPc' = IF s_hdl THEN "running" ELSE "failed"
  /\ UNCHANGED <<s_hdl, s_lock, device, mutex, lockVars, hdrVars, pc, opVars, bus,
                 result, chip>>

\* ESP_ERROR_CHECK aborts and the board starts again; the W5500 keeps its state.
Reboot ==
  /\ mainPc = "failed"
  /\ mainPc' = "add_device"
  /\ s_hdl' = FALSE /\ s_lock' = FALSE /\ device' = FALSE /\ mutex' = FALSE
  /\ holder' = None /\ depth' = 0
  /\ s_hdr_len' = 0 /\ s_cmd' = 0 /\ s_ctrl' = 0
  /\ pc' = [t \in Tasks |-> "idle"]
  /\ op' = [t \in Tasks |-> None] /\ fed' = [t \in Tasks |-> 0]
  /\ bus' = [a \in Actors |-> None]
  /\ result' = [t \in Tasks |-> None]
  /\ UNCHANGED chip

(* Tear-down: esp_eth deletes its own tasks wherever they are, then calls
   shared_spi_deinit, which takes no lock; the ioLibrary tasks run on. *)

StartDeinit ==
  /\ DEINIT /\ mainPc = "running" /\ mainPc' = "del_tasks"
  /\ UNCHANGED <<s_hdl, s_lock, device, mutex, lockVars, hdrVars, pc, opVars, bus,
                 result, chip>>

DeleteEthTasks ==
  /\ mainPc = "del_tasks"
  /\ mainPc' = "del_device"
  /\ pc' = [t \in Tasks |-> IF t \in EthTasks THEN "idle" ELSE pc[t]]
  /\ op' = [t \in Tasks |-> IF t \in EthTasks THEN None ELSE op[t]]
  /\ result' = [t \in Tasks |-> IF t \in EthTasks THEN None ELSE result[t]]
  /\ bus' = [a \in Actors |-> IF a \in EthTasks THEN None ELSE bus[a]]
  /\ UNCHANGED <<s_hdl, s_lock, device, mutex, lockVars, hdrVars, fed, chip>>

Deinit(from, to) == mainPc = from /\ mainPc' = to

\* Bug: the device pointer is cleared last.
DeinitHandleLast ==
  /\ \/ /\ Deinit("del_device", "null_hdl") /\ device' = FALSE
        /\ UNCHANGED <<s_hdl, s_lock, mutex>>
     \/ /\ Deinit("null_hdl", "del_lock") /\ mutex' = FALSE
        /\ UNCHANGED <<s_hdl, s_lock, device>>
     \/ /\ Deinit("del_lock", "null_lock") /\ s_lock' = FALSE
        /\ UNCHANGED <<s_hdl, device, mutex>>
     \/ /\ Deinit("null_lock", "off") /\ s_hdl' = FALSE
        /\ UNCHANGED <<s_lock, device, mutex>>
  /\ UNCHANGED <<lockVars, hdrVars, pc, opVars, bus, result, chip>>

SharedSpiDeinit ==
  /\ \/ /\ Deinit("del_device", "null_hdl") /\ device' = FALSE
        /\ UNCHANGED <<s_hdl, s_lock, mutex>>
     \/ /\ Deinit("null_hdl", "del_lock") /\ s_hdl' = FALSE
        /\ UNCHANGED <<s_lock, device, mutex>>
     \/ /\ Deinit("del_lock", "null_lock") /\ mutex' = FALSE
        /\ UNCHANGED <<s_hdl, s_lock, device>>
     \/ /\ Deinit("null_lock", "off") /\ s_lock' = FALSE
        /\ UNCHANGED <<s_hdl, device, mutex>>
  /\ UNCHANGED <<lockVars, hdrVars, pc, opVars, bus, result, chip>>

-------------------------------------------------------------------------------
TaskStep(t) == \/ LockCall(t) \/ Take(t) \/ HdrReset(t) \/ HdrFeed(t)
               \/ CheckHandle(t) \/ StartTransfer(t) \/ RawRefused(t) \/ EndTransfer(t)
               \/ Deselect(t) \/ Return(t)
MainStep == \/ AddDevice \/ CreateLock \/ StartDiag \/ EndDiag \/ PortInit
            \/ Reboot \/ StartDeinit \/ DeleteEthTasks \/ SharedSpiDeinit

Next == MainStep \/ \E t \in Tasks : Begin(t) \/ TaskStep(t)

Spec == Init /\ [][Next]_vars

\* A task inside an access keeps running, and one blocked on the mutex gets it if
\* it is free again and again: FreeRTOS wakes the waiter of highest priority, and
\* no task sleeps while it holds the lock, so each has its turn when the ones of
\* higher priority are between two polls.
Fairness == \A t \in Tasks : WF_vars(TaskStep(t)) /\ SF_vars(Take(t))

FairSpec == Spec /\ Fairness

-------------------------------------------------------------------------------
(* Properties *)

\* A transfer counts from the check of the device pointer on.
Transferring(a) == IF a = Main THEN mainPc = "diag_xfer" ELSE pc[a] \in {"start", "xfer"}

TypeOK ==
  /\ mainPc \in MainPcs
  /\ s_hdl \in BOOLEAN /\ s_lock \in BOOLEAN /\ device \in BOOLEAN /\ mutex \in BOOLEAN
  /\ holder \in Tasks \cup {None} /\ depth \in Nat
  /\ s_hdr_len \in 0 .. 3 /\ s_cmd \in Nat /\ s_ctrl \in Bytes
  /\ pc \in [Tasks -> {"idle"} \cup IoPcs \cup EthPcs]
  /\ op \in [Tasks -> Ops \cup {None}]
  /\ fed \in [Tasks -> 0 .. 3]
  /\ bus \in [Actors -> (Nat \X Bytes) \cup {None}]
  /\ result \in [Tasks -> Vals \cup {None}]
  /\ chip \in [Regs -> Vals]

\* At most one actor is on the SPI bus at any time: neither the two drivers nor
\* app_main's unlocked diagnostic read ever overlap, and tear-down keeps it so
\* although it deletes the lock under its users.
OneTransfer == \A a, b \in Actors : Transferring(a) /\ Transferring(b) => a = b

\* The address on the bus is the one the caller asked for, although ioLibrary's
\* goes through file-scope variables all its callers share.
Addressed == \A t \in Tasks : Transferring(t) => bus[t] = RegOf(op[t].hdr)

\* wiznet_spi_shared.h:37 "Recursive lock guarding every access to the shared
\* W5500 SPI device": whoever is on the bus, other than app_main before the other
\* tasks exist, owns the lock.
GuardedByLock == \A t \in Tasks : Transferring(t) => mutex /\ holder = t

\* Every access that is begun returns to its caller.
AccessReturns == \A t \in Tasks : pc[t] # "idle" ~> pc[t] = "idle"

\* The two drivers together behave as atomic accesses to one register file
\* (ChipAccess): a task's request is what it asked for, whatever was fed to the
\* shared header meanwhile, and takes effect when its transfer ends.
Request(t) == IF op[t] = None THEN None
              ELSE [kind |-> IF op[t].kind = "write" THEN "write" ELSE "read",
                    reg  |-> RegOf(op[t].hdr),
                    val  |-> op[t].val]
Abstract == INSTANCE ChipAccess
  WITH request  <- [t \in Tasks |-> Request(t)],
       reply    <- result,
       done     <- [t \in Tasks |-> pc[t] \in {"deselect", "cris_exit", "unlock"}]
AtomicAccess == Abstract!Spec

-------------------------------------------------------------------------------
(* The inductive invariant behind the safety properties. *)

TearDown == {"del_tasks", "del_device", "null_hdl", "del_lock", "null_lock", "off"}

\* Which objects and pointers exist at each point of app_main: the device pointer
\* is dropped before the lock is.
PointersOK ==
  /\ s_hdl  <=> mainPc \in {"create_lock", "diag", "diag_xfer", "port_init", "running",
                            "del_tasks", "del_device", "null_hdl"}
  /\ device <=> mainPc \in {"create_lock", "diag", "diag_xfer", "port_init", "running",
                            "del_tasks", "del_device"}
  /\ mutex  <=> mainPc \in {"diag", "diag_xfer", "port_init", "running", "del_tasks",
                            "del_device", "null_hdl", "del_lock"}
  /\ s_lock <=> (mutex \/ mainPc = "null_lock")
  /\ DEINIT \/ mainPc \notin TearDown

\* Tasks make accesses only while their driver is up, each at its own labels.
TasksOK ==
  \A t \in Tasks :
    /\ op[t] = None <=> pc[t] = "idle"
    /\ t \in IoTasks => /\ pc[t] \in {"idle"} \cup IoPcs
                        /\ pc[t] # "idle" => IoUp
    /\ t \in EthTasks => /\ pc[t] \in {"idle"} \cup EthPcs
                         /\ pc[t] # "idle" => EthUp
                         /\ fed[t] = 0
    /\ pc[t] \notin {"deselect", "cris_exit", "unlock"} => result[t] = None
    /\ pc[t] = "feed" => fed[t] \in 0 .. 2
    /\ pc[t] \in {"idle", "cris", "cris_wait", "cs", "cs_wait", "reset"} => fed[t] = 0

\* How many times a task has taken the lock at each label.
Level(t) == IF pc[t] \in {"idle", "cris", "cris_wait", "lock", "lock_wait"} THEN 0
            ELSE IF t \in EthTasks \/ pc[t] \in {"cs", "cs_wait", "cris_exit"} THEN 1
            ELSE 2

\* The mutex belongs to the task whose label says so, with the depth it says; an
\* esp_eth task deleted while it owned the mutex stays its owner.
LockOK ==
  /\ holder = None <=> depth = 0
  /\ mainPc \in {"add_device", "create_lock", "failed"} => holder = None
  /\ mutex => \A t \in Tasks :
       /\ Level(t) > 0 => holder = t /\ depth = Level(t)
       /\ holder = t /\ Level(t) = 0 => /\ t \in EthTasks
                                        /\ mainPc \in TearDown \ {"del_tasks"}

\* While the mutex exists the header holds what its owner has fed so far.
HeaderOK ==
  mutex => \A t \in IoTasks :
    /\ pc[t] = "feed" =>
         /\ s_hdr_len = fed[t]
         /\ fed[t] = 0 => s_cmd = 0
         /\ fed[t] = 1 => s_cmd = op[t].hdr[1] * 256
         /\ fed[t] = 2 => s_cmd = op[t].hdr[1] * 256 + op[t].hdr[2]
    /\ pc[t] = "raw" => <<s_cmd, s_ctrl>> = RegOf(op[t].hdr)

IInv == /\ TypeOK
        /\ PointersOK
        /\ TasksOK
        /\ LockOK
        /\ HeaderOK
        /\ OneTransfer
        /\ Addressed
===============================================================================
