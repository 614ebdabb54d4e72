----------------------------- MODULE ToeDispatcher -----------------------------
(***************************************************************************)
(* toe_dispatcher.c: the task that polls the socket interrupts of the      *)
(* W5500 and hands them to a registered callback, and the calls that       *)
(* start it, stop it and register the callback.                            *)
(*                                                                         *)
(* The callback's context is an opaque pointer, which this module leaves   *)
(* out.  Calls come from one task (app_main), one at a time.  A dispatcher task  *)
(* is one of Tasks: wiznet_toe_dispatcher_stop only clears a flag and      *)
(* waits a bounded time, so an old task may still be there when a new one  *)
(* is created.  The chip raises interrupt bits at any moment.              *)
(***************************************************************************)
EXTENDS Naturals, FiniteSets

CONSTANTS Socks,      \* hardware sockets; 0 belongs to esp_eth
          Bits,       \* bits of Sn_IR
          Tasks,      \* dispatcher tasks; their number bounds the starts
          NoTask,     \* the handle is NULL
          Handlers,   \* callbacks that can be registered
          NoHandler,  \* NULL
          WAITS       \* rounds wiznet_toe_dispatcher_stop waits (20)

ASSUME SocksAssumption == Socks \subseteq 0 .. 7 /\ 0 \in Socks
ASSUME NullAssumption == NoTask \notin Tasks /\ NoHandler \notin Handlers
ASSUME WaitsAssumption == WAITS \in Nat \ {0}

ToeSocks == Socks \ {0}
Last == CHOOSE n \in Socks : \A m \in Socks : m <= n

VARIABLES
  ir,                    \* Sn_IR of every socket
  unseen,                \* history: bits the registered callback is still to be told of
  s_dispatcher_running, s_dispatcher_task,
  s_event_cb,            \* the callback, or NULL
  caller,                \* the call app_main is in, or "none"
  waited,                \* rounds waited in stop
  pc,                    \* where each dispatcher task is
  mask,                  \* toe_mask of each task: sockets it has to look at
  sn,                    \* the socket it is at
  sn_ir                  \* the bits it has read

chipVars == <<ir, unseen>>
runVars  == <<s_dispatcher_running, s_dispatcher_task>>
callVars == <<caller, waited>>
loopVars == <<mask, sn, sn_ir>>
vars == <<chipVars, runVars, s_event_cb, callVars, pc, loopVars>>

\* "none": not created; "deleted": has called vTaskDelete, its control block may
\* or may not have been freed by the idle task.
Live(t) == pc[t] \notin {"none", "deleted"}

Init ==
  /\ ir = [s \in Socks |-> {}] /\ unseen = [s \in Socks |-> {}]
  /\ s_dispatcher_running = FALSE /\ s_dispatcher_task = NoTask
  /\ s_event_cb = NoHandler
  /\ caller = "none" /\ waited = 0
  /\ pc = [t \in Tasks |-> "none"]
  /\ mask = [t \in Tasks |-> {}]
  /\ sn = [t \in Tasks |-> 1]
  /\ sn_ir = [t \in Tasks |-> {}]

-------------------------------------------------------------------------------
(* The dispatcher task. *)

Goto(t, next) == pc' = [pc EXCEPT ![t] = next]

\* Bug: for (;;).
LoopForever(t) ==
  /\ pc[t] = "check" /\ Goto(t, "sir")
  /\ UNCHANGED <<chipVars, runVars, s_event_cb, callVars, loopVars>>

\* while (s_dispatcher_running) ... vTaskDelete
LoopCheck(t) ==
  /\ pc[t] = "check"
  /\ Goto(t, IF s_dispatcher_running THEN "sir" ELSE "deleted")
  /\ UNCHANGED <<chipVars, runVars, s_event_cb, callVars, loopVars>>

\* Bug: SIR is not masked and the loop begins at 0.
ReadSirFrom0(t) ==
  /\ pc[t] = "sir"
  /\ mask' = [mask EXCEPT ![t] = {s \in Socks : ir[s] # {}}]
  /\ sn' = [sn EXCEPT ![t] = 0]
  /\ Goto(t, "ir")
  /\ UNCHANGED <<chipVars, runVars, s_event_cb, callVars, sn_ir>>

\* Bug: the mask misses the last socket.
ReadSirMissesLast(t) ==
  /\ pc[t] = "sir"
  /\ mask' = [mask EXCEPT ![t] = {s \in ToeSocks \ {Last} : ir[s] # {}}]
  /\ Goto(t, "ir")
  /\ UNCHANGED <<chipVars, runVars, s_event_cb, callVars, sn, sn_ir>>

\* SIR shows which sockets have interrupts; bit 0 is masked out.
ReadSir(t) ==
  /\ pc[t] = "sir"
  /\ mask' = [mask EXCEPT ![t] = {s \in ToeSocks : ir[s] # {}}]
  /\ Goto(t, "ir")
  /\ UNCHANGED <<chipVars, runVars, s_event_cb, callVars, sn, sn_ir>>

\* On to the next socket; after the last one, vTaskDelay and the loop again, whose
\* variables start afresh.
Advance(t) ==
  IF sn[t] >= Last
    THEN /\ Goto(t, "check")
         /\ sn' = [sn EXCEPT ![t] = 1] /\ mask' = [mask EXCEPT ![t] = {}]
    ELSE /\ Goto(t, "ir")
         /\ sn' = [sn EXCEPT ![t] = @ + 1] /\ UNCHANGED mask

ReadIr(t) ==
  /\ pc[t] = "ir"
  /\ IF sn[t] \in mask[t] /\ ir[sn[t]] # {}
       THEN /\ sn_ir' = [sn_ir EXCEPT ![t] = ir[sn[t]]]
            /\ Goto(t, "clear")
            /\ UNCHANGED <<sn, mask>>
       ELSE Advance(t) /\ UNCHANGED sn_ir
  /\ UNCHANGED <<chipVars, runVars, s_event_cb, callVars>>

\* Bug: all bits are cleared, the ones raised since they were read included.
ClearAllIr(t) ==
  /\ pc[t] = "clear"
  /\ ir' = [ir EXCEPT ![sn[t]] = {}]
  /\ Goto(t, "notify")
  /\ UNCHANGED <<unseen, runVars, s_event_cb, callVars, loopVars>>

\* setSn_IR: writing ones clears these bits.
ClearIr(t) ==
  /\ pc[t] = "clear"
  /\ ir' = [ir EXCEPT ![sn[t]] = @ \ sn_ir[t]]
  /\ Goto(t, "notify")
  /\ UNCHANGED <<unseen, runVars, s_event_cb, callVars, loopVars>>

\* The callback, if there is one; without one nobody learns of the bits.
Notify(t) ==
  /\ pc[t] = "notify"
  /\ \/ s_event_cb # NoHandler /\ unseen' = [unseen EXCEPT ![sn[t]] = @ \ sn_ir[t]]
     \/ s_event_cb = NoHandler /\ UNCHANGED unseen
  /\ sn_ir' = [sn_ir EXCEPT ![t] = {}]
  /\ Advance(t)
  /\ UNCHANGED <<ir, runVars, s_event_cb, callVars>>

TaskStep(t) == LoopCheck(t) \/ ReadSir(t) \/ ReadIr(t) \/ ClearIr(t) \/ Notify(t)

-------------------------------------------------------------------------------
(* The calls. *)

\* wiznet_toe_dispatcher_start does nothing when the flag is already set.
Start ==
  /\ caller = "none" /\ ~s_dispatcher_running
  /\ s_dispatcher_running' = TRUE
  /\ caller' = "create"
  /\ UNCHANGED <<chipVars, s_dispatcher_task, s_event_cb, waited, pc, loopVars>>

\* xTaskCreate, which may run out of memory.
Create ==
  /\ caller = "create" /\ caller' = "none"
  /\ \/ \E t \in Tasks : /\ pc[t] = "none"
                         /\ Goto(t, "check")
                         /\ s_dispatcher_task' = t
                         /\ UNCHANGED s_dispatcher_running
     \/ /\ s_dispatcher_running' = FALSE /\ s_dispatcher_task' = NoTask
        /\ UNCHANGED pc
  /\ UNCHANGED <<chipVars, s_event_cb, waited, loopVars>>

Stop ==
  /\ caller = "none" /\ s_dispatcher_running
  /\ s_dispatcher_running' = FALSE
  /\ caller' = "stop" /\ waited' = 0
  /\ UNCHANGED <<chipVars, s_dispatcher_task, s_event_cb, pc, loopVars>>

\* Bug: stop waits until it sees the task gone.
StopWaitsOn ==
  /\ caller = "stop"
  /\ \/ /\ ~Live(s_dispatcher_task)
        /\ caller' = "none" /\ waited' = 0 /\ s_dispatcher_task' = NoTask
     \/ /\ waited' = (waited + 1) % WAITS
        /\ UNCHANGED <<caller, s_dispatcher_task>>
  /\ UNCHANGED <<chipVars, s_dispatcher_running, s_event_cb, pc, loopVars>>

\* eTaskGetState on a task that is gone reads a control block that may have been
\* freed: it may or may not say eDeleted.
StopWait ==
  /\ caller = "stop"
  /\ \/ /\ ~Live(s_dispatcher_task)
        /\ caller' = "none" /\ waited' = 0 /\ s_dispatcher_task' = NoTask
     \/ /\ waited + 1 < WAITS /\ waited' = waited + 1
        /\ UNCHANGED <<caller, s_dispatcher_task>>
     \/ /\ waited + 1 = WAITS
        /\ caller' = "none" /\ waited' = 0 /\ s_dispatcher_task' = NoTask
  /\ UNCHANGED <<chipVars, s_dispatcher_running, s_event_cb, pc, loopVars>>

\* A callback that is registered for the first time, or again after none was, is to be
\* told of what the chip shows at this moment; one that replaces another, of what the
\* other was; when NULL is registered there is nobody to tell.
RegisterCb ==
  /\ caller = "none"
  /\ \E h \in Handlers \cup {NoHandler} :
       /\ s_event_cb' = h
       /\ \/ h = NoHandler /\ unseen' = [s \in Socks |-> {}]
          \/ h # NoHandler /\ unseen' = IF s_event_cb = NoHandler THEN ir ELSE unseen
  /\ UNCHANGED <<ir, runVars, callVars, pc, loopVars>>

Caller == Start \/ Create \/ Stop \/ StopWait \/ RegisterCb

\* The chip raises a bit; a bit that is still set stays set.
Raise ==
  \E s \in Socks, b \in Bits :
    /\ ir' = [ir EXCEPT ![s] = @ \cup {b}]
    /\ \/ s_event_cb # NoHandler /\ unseen' = [unseen EXCEPT ![s] = @ \cup {b}]
       \/ s_event_cb = NoHandler /\ UNCHANGED unseen
    /\ UNCHANGED <<runVars, s_event_cb, callVars, pc, loopVars>>

-------------------------------------------------------------------------------
Next == Raise \/ Caller \/ \E t \in Tasks : TaskStep(t)

Spec == Init /\ [][Next]_vars

\* A dispatcher task keeps running, and a call that has been made goes on.
Fairness == /\ \A t \in Tasks : WF_vars(TaskStep(t))
            /\ WF_vars(Create \/ StopWait)

FairSpec == Spec /\ Fairness

-------------------------------------------------------------------------------
(* Properties *)

TypeOK ==
  /\ ir \in [Socks -> SUBSET Bits] /\ unseen \in [Socks -> SUBSET Bits]
  /\ s_dispatcher_running \in BOOLEAN /\ s_dispatcher_task \in Tasks \cup {NoTask}
  /\ s_event_cb \in Handlers \cup {NoHandler}
  /\ caller \in {"none", "create", "stop"} /\ waited \in 0 .. WAITS - 1
  /\ pc \in [Tasks -> {"none", "check", "sir", "ir", "clear", "notify", "deleted"}]
  /\ mask \in [Tasks -> SUBSET ToeSocks]
  /\ sn \in [Tasks -> 1 .. 7]
  /\ sn_ir \in [Tasks -> SUBSET Bits]

InHand(t, s) == IF pc[t] \in {"clear", "notify"} /\ sn[t] = s THEN sn_ir[t] ELSE {}

\* Once a callback is registered, no interrupt of a TOE socket is lost on the way to
\* it, however the chip raises bits between the read and the write-back and however
\* many dispatchers are alive: a bit it has not been told of is still set in the
\* chip, or a dispatcher has read it and is about to tell.  Without a callback the
\* dispatcher clears every bit and nobody learns of it; of that this says nothing.
NoEventLost ==
  \A s \in ToeSocks : unseen[s] \subseteq ir[s] \cup UNION {InHand(t, s) : t \in Tasks}

\* toe_dispatcher.c:35 "socket 0 reserved for MACRAW": no step of a dispatcher
\* clears an interrupt of socket 0, which esp_eth waits for.
Socket0Untouched == [][ir[0] \subseteq ir'[0]]_ir

\* The registered callback is told of every interrupt of a TOE socket in the end,
\* unless the dispatcher is stopped or the callback is taken away.
EventsHandled ==
  \A s \in ToeSocks, b \in Bits :
    b \in unseen[s] /\ s_dispatcher_running ~> b \notin unseen[s] \/ ~s_dispatcher_running

\* wiznet_toe_dispatcher_stop returns, whatever the task does.
StopReturns == caller = "stop" ~> caller = "none"

\* toe_dispatcher.c:97 "Let task self-delete on next loop pass": a dispatcher that
\* is alive when it is stopped goes away, unless it is started again before it has
\* looked at the flag; then it runs on, beside the new one.
StoppedTaskExitsAlone ==
  \A t \in Tasks : Live(t) /\ ~s_dispatcher_running ~> ~Live(t) \/ s_dispatcher_running
===============================================================================
