-------------------------- MODULE ToeDispatcherProofs --------------------------
(***************************************************************************)
(* Proofs about ToeDispatcher, for any sockets, interrupt bits, callbacks, *)
(* number of dispatcher tasks that outlive a stop, and bound on the wait.  *)
(***************************************************************************)
EXTENDS ToeDispatcher, TLAPS

USE SocksAssumption, NullAssumption, WaitsAssumption DEF ToeSocks

\* A task that has bits in hand is at a TOE socket.  Without this an action on
\* ir[sn[t]] would be one on no socket at all.
AtToeSocket == \A t \in Tasks : pc[t] \in {"clear", "notify"} => sn[t] \in ToeSocks

\* Nothing is to be told when nobody is registered, so a task that finds no callback
\* lets nothing go.
NobodyToTell == s_event_cb = NoHandler => \A s \in ToeSocks : unseen[s] = {}

\* The inductive invariant.
DInv == TypeOK /\ AtToeSocket /\ NobodyToTell /\ NoEventLost

\* The loop bound is the highest socket, and the sockets end at 7.
LEMMA LastSocket == Last \in Socks /\ Last \in 0 .. 7
<1> DEFINE Highest(n) == n \in Socks /\ \A m \in Socks : m <= n
<1>1. \E n \in Socks : \A m \in Socks : m <= n
  <2> SUFFICES ASSUME \A n \in Socks : \E m \in Socks : n < m PROVE FALSE
    OBVIOUS
  <2>1. 7 \notin Socks
    OBVIOUS
  <2>2. 6 \notin Socks
    BY <2>1
  <2>3. 5 \notin Socks
    BY <2>1, <2>2
  <2>4. 4 \notin Socks
    BY <2>1, <2>2, <2>3
  <2>5. 3 \notin Socks
    BY <2>1, <2>2, <2>3, <2>4
  <2>6. 2 \notin Socks
    BY <2>1, <2>2, <2>3, <2>4, <2>5
  <2>7. 1 \notin Socks
    BY <2>1, <2>2, <2>3, <2>4, <2>5, <2>6
  <2> QED BY <2>1, <2>2, <2>3, <2>4, <2>5, <2>6, <2>7
<1> QED BY <1>1 DEF Last

\* Nothing is raised and nobody runs.
LEMMA InitDInv == Init => DInv
<1> SUFFICES ASSUME Init PROVE DInv
  OBVIOUS
<1>1. TypeOK
  <2>1. ir \in [Socks -> SUBSET Bits] /\ unseen \in [Socks -> SUBSET Bits]
    BY DEF Init
  <2>2. /\ mask \in [Tasks -> SUBSET ToeSocks] /\ sn_ir \in [Tasks -> SUBSET Bits]
        /\ sn \in [Tasks -> 1 .. 7] /\ pc \in [Tasks -> {"none"}]
    BY DEF Init
  <2>3. waited \in 0 .. WAITS - 1
    BY DEF Init
  <2> QED BY <2>1, <2>2, <2>3 DEF Init, TypeOK
<1>2. \A s \in ToeSocks : unseen[s] = {}
  BY DEF Init
<1>3. NoEventLost
  BY <1>2 DEF NoEventLost
<1>4. AtToeSocket /\ NobodyToTell
  BY <1>2 DEF Init, AtToeSocket, NobodyToTell
<1> QED BY <1>1, <1>3, <1>4 DEF DInv

\* A step after which everybody has the same bits in hand loses none.
LEMMA HandsKept ==
  ASSUME NoEventLost, UNCHANGED chipVars,
         \A u \in Tasks, s \in ToeSocks : InHand(u, s)' = InHand(u, s)
  PROVE  NoEventLost'
<1>1. ASSUME NEW s \in ToeSocks
      PROVE  UNION {InHand(u, s)' : u \in Tasks} = UNION {InHand(u, s) : u \in Tasks}
  OBVIOUS
<1> QED BY <1>1 DEF NoEventLost, chipVars

\* The calls change neither interrupts nor what a dispatcher has in hand; a new task
\* begins with its flag.  A callback that is registered is to be told of no more than
\* the chip shows.
LEMMA CallerInv == ASSUME DInv, Caller PROVE DInv' /\ ir' = ir
<1> USE DEF DInv, chipVars, runVars, callVars, loopVars, Goto
<1>1. /\ ir' = ir /\ sn' = sn /\ sn_ir' = sn_ir /\ mask' = mask
      /\ \/ pc' = pc
         \/ \E t \in Tasks : pc[t] = "none" /\ pc' = [pc EXCEPT ![t] = "check"]
  BY DEF Caller, Start, Create, Stop, StopWait, RegisterCb
<1>2. /\ s_dispatcher_running' \in BOOLEAN /\ s_dispatcher_task' \in Tasks \cup {NoTask}
      /\ s_event_cb' \in Handlers \cup {NoHandler}
      /\ caller' \in {"none", "create", "stop"}
  BY DEF Caller, Start, Create, Stop, StopWait, RegisterCb, TypeOK
<1>3. waited' \in 0 .. WAITS - 1
  BY DEF Caller, Start, Create, Stop, StopWait, RegisterCb, TypeOK
<1>4. \/ unseen' = unseen /\ s_event_cb' = s_event_cb
      \/ unseen' = [s \in Socks |-> {}]
      \/ unseen' \in {ir, unseen} /\ s_event_cb' # NoHandler
  BY DEF Caller, Start, Create, Stop, StopWait, RegisterCb
<1>5. TypeOK'
  BY <1>1, <1>2, <1>3, <1>4 DEF TypeOK
<1>6. AtToeSocket' /\ NobodyToTell'
  BY <1>1, <1>4 DEF AtToeSocket, NobodyToTell, TypeOK
<1>7. \A t \in Tasks, s \in ToeSocks : InHand(t, s)' = InHand(t, s)
  BY <1>1 DEF InHand, TypeOK
<1>8. NoEventLost'
  <2>1. ASSUME NEW s \in ToeSocks
        PROVE  /\ UNION {InHand(t, s)' : t \in Tasks} = UNION {InHand(t, s) : t \in Tasks}
               /\ unseen'[s] \in {ir[s], unseen[s], {}}
    BY <1>4, <1>7
  <2> QED BY <1>1, <2>1 DEF NoEventLost
<1> QED BY <1>1, <1>5, <1>6, <1>8

\* A raised bit is set in the chip before anybody is told of it.
LEMMA RaiseInv == ASSUME DInv, Raise PROVE DInv' /\ ir[0] \subseteq ir'[0]
<1> USE DEF DInv, runVars, callVars, loopVars
<1>1. PICK r \in Socks, b \in Bits :
        /\ ir' = [ir EXCEPT ![r] = @ \cup {b}]
        /\ \/ /\ s_event_cb # NoHandler
              /\ unseen' = [unseen EXCEPT ![r] = @ \cup {b}]
           \/ s_event_cb = NoHandler /\ unseen' = unseen
        /\ UNCHANGED <<runVars, s_event_cb, callVars, pc, loopVars>>
  BY DEF Raise
<1>2. TypeOK'
  BY <1>1 DEF TypeOK
<1>3. AtToeSocket' /\ NobodyToTell'
  BY <1>1 DEF AtToeSocket, NobodyToTell
<1>4. \A t \in Tasks, s \in ToeSocks : InHand(t, s)' = InHand(t, s)
  BY <1>1 DEF InHand
<1>5. \A s \in Socks : ir[s] \subseteq ir'[s] /\ unseen'[s] \subseteq unseen[s] \cup ir'[s]
  BY <1>1 DEF TypeOK
<1>6. NoEventLost'
  <2> SUFFICES ASSUME NEW s \in ToeSocks
               PROVE  unseen'[s] \subseteq ir'[s] \cup UNION {InHand(t, s)' : t \in Tasks}
    BY DEF NoEventLost
  <2>1. UNION {InHand(t, s)' : t \in Tasks} = UNION {InHand(t, s) : t \in Tasks}
    BY <1>4
  <2> QED BY <1>5, <2>1 DEF NoEventLost
<1> QED BY <1>2, <1>3, <1>5, <1>6

\* Going on to the next socket stays within the sockets' numbers, with no bits in
\* hand.
LEMMA AdvanceType ==
  ASSUME TypeOK, NEW t \in Tasks, Advance(t)
  PROVE  /\ sn' \in [Tasks -> 1 .. 7] /\ mask' \in [Tasks -> SUBSET ToeSocks]
         /\ \E p \in {"check", "ir"} : pc' = [pc EXCEPT ![t] = p]
         /\ \A u \in Tasks : u # t => sn'[u] = sn[u] /\ pc'[u] = pc[u]
<1>1. CASE sn[t] >= Last
  BY <1>1 DEF Advance, Goto, TypeOK
<1>2. CASE ~(sn[t] >= Last)
  <2>1. sn[t] + 1 \in 1 .. 7
    BY <1>2, LastSocket DEF TypeOK
  <2> QED BY <1>2, <2>1 DEF Advance, Goto, TypeOK
<1> QED BY <1>1, <1>2

\* The steps of a dispatcher.
LEMMA TaskInv == ASSUME DInv, NEW t \in Tasks, TaskStep(t) PROVE DInv' /\ ir[0] \subseteq ir'[0]
<1> USE DEF DInv, chipVars, runVars, callVars, loopVars
<1>1. CASE LoopCheck(t)
  <2> USE <1>1 DEF LoopCheck, Goto
  <2>1. TypeOK' /\ AtToeSocket' /\ NobodyToTell'
    BY DEF TypeOK, AtToeSocket, NobodyToTell
  <2>2. \A u \in Tasks, s \in ToeSocks : InHand(u, s)' = InHand(u, s)
    BY DEF InHand, TypeOK
  <2>3. NoEventLost'
    BY <2>2, HandsKept
  <2> QED BY <2>1, <2>3
<1>2. CASE ReadSir(t)
  <2> USE <1>2 DEF ReadSir, Goto
  <2>1. TypeOK' /\ AtToeSocket' /\ NobodyToTell'
    BY DEF TypeOK, AtToeSocket, NobodyToTell
  <2>2. \A u \in Tasks, s \in ToeSocks : InHand(u, s)' = InHand(u, s)
    BY DEF InHand, TypeOK
  <2>3. NoEventLost'
    BY <2>2, HandsKept
  <2> QED BY <2>1, <2>3
<1>3. CASE ReadIr(t)
  <2>1. ir' = ir /\ unseen' = unseen /\ s_event_cb' = s_event_cb /\ pc[t] = "ir"
    BY <1>3 DEF ReadIr
  <2>2. TypeOK' /\ AtToeSocket'
    <3>1. CASE sn[t] \in mask[t] /\ ir[sn[t]] # {}
      <4>1. sn[t] \in ToeSocks /\ ir[sn[t]] \in SUBSET Bits
        BY <3>1 DEF TypeOK
      <4> QED BY <1>3, <3>1, <4>1 DEF ReadIr, Goto, TypeOK, AtToeSocket
    <3>2. CASE ~(sn[t] \in mask[t] /\ ir[sn[t]] # {})
      <4>1. Advance(t) /\ UNCHANGED <<sn_ir, runVars, s_event_cb, callVars>>
        BY <1>3, <3>2 DEF ReadIr
      <4> QED BY <2>1, <4>1, AdvanceType DEF TypeOK, AtToeSocket
    <3> QED BY <3>1, <3>2
  <2>3. \A u \in Tasks, s \in ToeSocks : InHand(u, s) \subseteq InHand(u, s)'
    <3>1. \A s \in ToeSocks : InHand(t, s) = {}
      BY <2>1 DEF InHand
    <3>2. \A u \in Tasks : u # t => pc'[u] = pc[u] /\ sn'[u] = sn[u] /\ sn_ir'[u] = sn_ir[u]
      <4>1. CASE sn[t] \in mask[t] /\ ir[sn[t]] # {}
        BY <1>3, <4>1 DEF ReadIr, Goto, TypeOK
      <4>2. CASE ~(sn[t] \in mask[t] /\ ir[sn[t]] # {})
        BY <1>3, <4>2, AdvanceType DEF ReadIr
      <4> QED BY <4>1, <4>2
    <3> QED BY <3>1, <3>2 DEF InHand
  <2>4. NoEventLost'
    <3> SUFFICES ASSUME NEW s \in ToeSocks
                 PROVE  unseen[s] \subseteq ir[s] \cup UNION {InHand(u, s)' : u \in Tasks}
      BY <2>1 DEF NoEventLost
    <3>1. UNION {InHand(u, s) : u \in Tasks} \subseteq UNION {InHand(u, s)' : u \in Tasks}
      BY <2>3
    <3> QED BY <3>1 DEF NoEventLost
  <2>5. NobodyToTell'
    BY <2>1 DEF NobodyToTell
  <2> QED BY <2>1, <2>2, <2>4, <2>5
<1>4. CASE ClearIr(t)
  <2> USE <1>4 DEF ClearIr, Goto
  <2>1. sn[t] \in ToeSocks /\ sn_ir[t] \in SUBSET Bits
    BY DEF TypeOK, AtToeSocket
  <2>2. TypeOK' /\ AtToeSocket' /\ NobodyToTell'
    BY <2>1 DEF TypeOK, AtToeSocket, NobodyToTell
  <2>3. \A u \in Tasks, s \in ToeSocks : InHand(u, s)' = InHand(u, s)
    BY DEF InHand, TypeOK
  <2>4. \A s \in ToeSocks : ir[s] \subseteq ir'[s] \cup InHand(t, s)
    BY <2>1 DEF InHand, TypeOK
  <2>5. NoEventLost'
    <3> SUFFICES ASSUME NEW s \in ToeSocks
                 PROVE  unseen[s] \subseteq ir'[s] \cup UNION {InHand(u, s) : u \in Tasks}
      BY <2>3 DEF NoEventLost
    <3> QED BY <2>4 DEF NoEventLost
  <2>6. ir'[0] = ir[0]
    BY <2>1 DEF TypeOK
  <2> QED BY <2>2, <2>5, <2>6
<1>5. CASE Notify(t)
  <2> USE <1>5 DEF Notify
  <2>1. sn[t] \in ToeSocks /\ sn_ir[t] \in SUBSET Bits
    BY DEF TypeOK, AtToeSocket
  <2>2. \A s \in ToeSocks : unseen'[s] \subseteq unseen[s] /\ unseen'[s] \cap InHand(t, s) = {}
    <3>1. CASE s_event_cb # NoHandler
      BY <2>1, <3>1 DEF InHand, TypeOK
    <3>2. CASE s_event_cb = NoHandler
      BY <3>2 DEF NobodyToTell
    <3> QED BY <3>1, <3>2
  <2>3. TypeOK' /\ AtToeSocket'
    <3>1. unseen' \in [Socks -> SUBSET Bits]
      BY DEF TypeOK
    <3> QED BY <2>1, <3>1, AdvanceType DEF TypeOK, AtToeSocket
  <2>4. NobodyToTell'
    BY <2>2 DEF NobodyToTell
  <2>5. \A u \in Tasks, s \in ToeSocks : u # t => InHand(u, s)' = InHand(u, s)
    BY AdvanceType DEF InHand, TypeOK
  <2>6. NoEventLost'
    <3> SUFFICES ASSUME NEW s \in ToeSocks, NEW b \in unseen'[s], b \notin ir[s]
                 PROVE  \E u \in Tasks : b \in InHand(u, s)'
      BY DEF NoEventLost
    <3>1. PICK u \in Tasks : b \in InHand(u, s)
      BY <2>2 DEF NoEventLost
    <3>2. u # t
      BY <2>2, <3>1
    <3> QED BY <2>5, <3>1, <3>2
  <2> QED BY <2>3, <2>4, <2>6
<1> QED BY <1>1, <1>2, <1>3, <1>4, <1>5 DEF TaskStep

\* Every step keeps the invariant and leaves the interrupts of socket 0 set.
LEMMA NextDInv == ASSUME DInv, [Next]_vars PROVE DInv' /\ ir[0] \subseteq ir'[0]
<1>1. CASE Next
  BY <1>1, CallerInv, RaiseInv, TaskInv DEF Next
<1>2. CASE UNCHANGED vars
  BY <1>2 DEF vars, chipVars, runVars, callVars, loopVars,
     DInv, TypeOK, AtToeSocket, NobodyToTell, NoEventLost, InHand
<1> QED BY <1>1, <1>2

\* The invariant holds in every reachable state.
THEOREM DispatcherInductive == Spec => []DInv
BY InitDInv, NextDInv, PTL DEF Spec

\* The dispatcher's variables have their types, with any number of tasks left over
\* from earlier starts; the socket number never leaves 1..7.
THEOREM DispatcherTypeCorrect == Spec => []TypeOK
BY DispatcherInductive, PTL DEF DInv

\* toe_dispatcher.c:43-54: what the chip raises while a callback is registered, or
\* shows when it is, is not lost between the read of Sn_IR, its write-back and the
\* call, with any number of dispatchers.
THEOREM NoEventLostAlways == Spec => []NoEventLost
BY DispatcherInductive, PTL DEF DInv

\* toe_dispatcher.c:35: the dispatcher never clears an interrupt of socket 0.
THEOREM Socket0UntouchedAlways == Spec => Socket0Untouched
<1>1. DInv /\ [Next]_vars => [ir[0] \subseteq ir'[0]]_ir
  BY NextDInv
<1> QED BY <1>1, DispatcherInductive, PTL DEF Spec, Socket0Untouched
===============================================================================
