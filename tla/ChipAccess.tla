------------------------------ MODULE ChipAccess ------------------------------
(***************************************************************************)
(* What the shared SPI layer promises to its callers: the W5500 looks like *)
(* a memory of registers that every task reads and writes atomically.  A   *)
(* task hands in an access, the access takes effect once, at one instant   *)
(* between the call and the return, at the register the caller named, and  *)
(* the caller gets back what that register held at that instant.           *)
(*                                                                         *)
(* Registers the chip changes on its own (Sn_SR, Sn_IR, RSR) are the       *)
(* subject of ToeStream; here a register changes only when it is written.  *)
(***************************************************************************)
CONSTANTS Tasks,    \* everything that issues register accesses
          Regs,     \* <<16-bit offset, 8-bit control>> pairs
          Vals,     \* what a register can hold
          Requests, \* [kind : {"read", "write"}, reg : Regs, val : Vals]
          None      \* no request, no result

VARIABLES chip,     \* contents of the registers
          request,  \* the access each task is making, or None
          reply,    \* what the access returned, once it took effect
          done      \* whether the access has taken effect

vars == <<chip, request, reply, done>>

Init == /\ chip \in [Regs -> Vals]
        /\ request = [t \in Tasks |-> None]
        /\ reply = [t \in Tasks |-> None]
        /\ done = [t \in Tasks |-> FALSE]

Invoke(t) == /\ request[t] = None
             /\ \E r \in Requests : request' = [request EXCEPT ![t] = r]
             /\ UNCHANGED <<chip, reply, done>>

\* The one instant at which the access takes effect.
Apply(t) == /\ request[t] # None
            /\ ~done[t]
            /\ done' = [done EXCEPT ![t] = TRUE]
            /\ \/ /\ request[t].kind = "read"
                  /\ reply' = [reply EXCEPT ![t] = chip[request[t].reg]]
                  /\ UNCHANGED chip
               \/ /\ request[t].kind = "write"
                  /\ chip' = [chip EXCEPT ![request[t].reg] = request[t].val]
                  /\ UNCHANGED reply
            /\ UNCHANGED request

Return(t) == /\ request[t] # None
             /\ done[t]
             /\ request' = [request EXCEPT ![t] = None]
             /\ reply' = [reply EXCEPT ![t] = None]
             /\ done' = [done EXCEPT ![t] = FALSE]
             /\ UNCHANGED chip

Next == \E t \in Tasks : Invoke(t) \/ Apply(t) \/ Return(t)

Spec == Init /\ [][Next]_vars
===============================================================================
