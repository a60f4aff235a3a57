------------------------ MODULE RuntimeManagerProofs ------------------------
(***************************************************************************)
(* Proofs about RuntimeManager, for any number of workers, any capacities  *)
(* of the queues and any number of respawns.                               *)
(***************************************************************************)
EXTENDS RuntimeManager, FiniteSetTheorems, TLAPS

(* Inside a work window its curfew hook is registered, so that the branch  *)
(* of execute_curfew_transition_locked that sleeps at once is never taken. *)
HookRegistered == state \in ActiveStates => hooks = 1

(* The inductive invariant: the safety properties need each other.         *)
(* SleepQuiet keeps a sleeping watch from clearing the abort flags,        *)
(* HookRegistered keeps the curfew from sleeping without setting them, and *)
(* WatchdogOwned bounds where a hard expiry can strike.                    *)
IInv ==
  /\ TypeOK
  /\ HookRegistered
  /\ DeadlineArmed
  /\ SleepQuiet
  /\ WatchdogOwned
  /\ AbortDelivered

USE RuntimeAssumption
    DEF LoopLabels, WorkerLabels, MaintLabels, MaintItems, Threads, ActiveStates,
        CountedLabels, InFlight, watchdogs

(* The initial state of runtime_manager_init satisfies the invariant. *)
LEMMA InitIInv == Init => IInv
  BY DEF Init, worker_pool_init, IInv, TypeOK, HookRegistered, DeadlineArmed, SleepQuiet,
         WatchdogOwned, AbortDelivered

(* Steps that change nothing keep it. *)
LEMMA StutterIInv == IInv /\ UNCHANGED vars => IInv'
  BY DEF vars, IInv, TypeOK, HookRegistered, DeadlineArmed, SleepQuiet,
         WatchdogOwned, AbortDelivered

-----------------------------------------------------------------------------
(* The curfew, whichever context runs it.  The caller's own thread may have *)
(* moved from the end of the early-curfew evaluation to its loop head.      *)
LEMMA CurfewIInv ==
  ASSUME IInv, state \in ActiveStates,
         NEW p \in [Threads -> LoopLabels \cup WorkerLabels \cup MaintLabels],
         p[Maint] \in LoopLabels \cup MaintLabels,
         \A w \in Workers : p[w] = pc[w] \/ (pc[w] = "ev_arm" /\ p[w] = "get"),
         ExecuteCurfew(p),
         UNCHANGED <<pending, active, watchdogs, tick, respawns>>
  PROVE  IInv'
<1>1. /\ hooks = 1
      /\ timers' = CurfewTimers /\ state' = "GRACE_PERIOD" /\ hooks' = 0
      /\ suspended' = suspended /\ PutMaint(p, "hook")
  BY DEF IInv, HookRegistered, ExecuteCurfew
<1>2. \A w \in Workers : pc'[w] = p[w]
  BY <1>1 DEF PutMaint
<1>3. TypeOK'
  BY SMTT(40), <1>1 DEF IInv, TypeOK, PutMaint, CurfewTimers
<1>4. HookRegistered' /\ DeadlineArmed' /\ SleepQuiet'
  BY <1>1 DEF HookRegistered, DeadlineArmed, SleepQuiet, CurfewTimers
<1>5. WatchdogOwned' /\ AbortDelivered'
  BY <1>1, <1>2 DEF IInv, WatchdogOwned, AbortDelivered
<1> QED
  BY <1>3, <1>4, <1>5 DEF IInv

(* The tick's transition. *)
LEMMA TickStateIInv ==
  ASSUME IInv, NEW target \in ActiveTargets, TickState(target)
  PROVE  IInv'
  BY ZenonT(60) DEF TickState, RegisterHooks, worker_pool_resume_all, IInv, TypeOK, HookRegistered, DeadlineArmed,
         SleepQuiet, WatchdogOwned, AbortDelivered

(* The tick's add_system_work. *)
LEMMA TickQueueIInv ==
  ASSUME IInv, TickQueue
  PROVE  IInv'
  BY SMTT(40) DEF TickQueue, PutMaint, IInv, TypeOK, HookRegistered, DeadlineArmed,
         SleepQuiet, WatchdogOwned, AbortDelivered

(* The end of the work window. *)
LEMMA WindowExpiryIInv ==
  ASSUME IInv, WindowExpiry
  PROVE  IInv'
<1>1. CASE state \in ActiveStates
  <2>1. ExecuteCurfew(pc) /\ UNCHANGED <<pending, active, watchdogs, tick, respawns>>
    BY <1>1 DEF WindowExpiry
  <2>2. /\ pc \in [Threads -> LoopLabels \cup WorkerLabels \cup MaintLabels]
        /\ pc[Maint] \in LoopLabels \cup MaintLabels
    BY DEF IInv, TypeOK
  <2> QED
    BY <1>1, <2>1, <2>2, CurfewIInv
<1>2. CASE state \notin ActiveStates
  BY ZenonT(60), <1>2 DEF WindowExpiry, IInv, TypeOK, HookRegistered, DeadlineArmed,
              SleepQuiet, WatchdogOwned, AbortDelivered
<1> QED
  BY <1>1, <1>2

(* Emptying the queue wakes the workers that wait for an item, and moves no *)
(* other thread.                                                            *)
LEMMA PurgeMoves ==
  ASSUME IInv, worker_pool_purge_queue
  PROVE  /\ pending' = 0
         /\ pc' \in [Threads -> LoopLabels \cup WorkerLabels \cup MaintLabels]
         /\ pc'[Maint] = pc[Maint]
         /\ \A w \in Workers : pc'[w] = pc[w] \/ (pc[w] = "pend" /\ pc'[w] = "get")
  BY DEF worker_pool_purge_queue, IInv, TypeOK

(* The step from the grace period to sleep, by either timer. *)
LEMMA SleepIInv ==
  ASSUME IInv, state = "GRACE_PERIOD", state' = "SLEEP", timers' \in SUBSET timers,
         AbortAndSuspendAll, worker_pool_purge_queue,
         UNCHANGED <<hooks, maintq, active, soft, hard, tick, respawns>>
  PROVE  IInv'
<1>1. /\ pending' = 0
      /\ pc' \in [Threads -> LoopLabels \cup WorkerLabels \cup MaintLabels]
      /\ pc'[Maint] = pc[Maint]
      /\ \A w \in Workers : pc'[w] = pc[w] \/ (pc[w] = "pend" /\ pc'[w] = "get")
  BY PurgeMoves
<1>2. abort' = Workers /\ suspended' = Workers
  BY DEF AbortAndSuspendAll
<1>3. TypeOK'
  BY <1>1, <1>2 DEF IInv, TypeOK
<1>4. HookRegistered' /\ DeadlineArmed' /\ SleepQuiet' /\ AbortDelivered'
  BY <1>1, <1>2 DEF IInv, TypeOK, HookRegistered, DeadlineArmed, SleepQuiet, AbortDelivered
<1>5. WatchdogOwned'
  BY <1>1, <1>2 DEF IInv, WatchdogOwned
<1> QED
  BY <1>3, <1>4, <1>5 DEF IInv

(* The end of the grace period. *)
LEMMA GraceExpiryIInv ==
  ASSUME IInv, GraceExpiry
  PROVE  IInv'
<1>1. CASE state = "GRACE_PERIOD"
  BY <1>1, SleepIInv DEF GraceExpiry
<1>2. CASE state # "GRACE_PERIOD"
  BY <1>2 DEF GraceExpiry, IInv, TypeOK, HookRegistered, DeadlineArmed,
              SleepQuiet, WatchdogOwned, AbortDelivered
<1> QED
  BY <1>1, <1>2

(* The settlement timer. *)
LEMMA SettlementExpiryIInv ==
  ASSUME IInv, SettlementExpiry
  PROVE  IInv'
<1>1. CASE state \in ActiveStates /\ is_system_completely_idle
  <2>1. ExecuteCurfew(pc) /\ UNCHANGED <<pending, active, watchdogs, tick, respawns>>
    BY <1>1 DEF SettlementExpiry
  <2>2. /\ pc \in [Threads -> LoopLabels \cup WorkerLabels \cup MaintLabels]
        /\ pc[Maint] \in LoopLabels \cup MaintLabels
    BY DEF IInv, TypeOK
  <2> QED
    BY <1>1, <2>1, <2>2, CurfewIInv
<1>2. CASE state = "GRACE_PERIOD" /\ is_system_completely_idle
  <2>1. /\ timers' = {} /\ AbortAndSuspendAll /\ worker_pool_purge_queue
        /\ state' = "SLEEP"
        /\ UNCHANGED <<hooks, maintq, active, soft, hard, tick, respawns>>
    BY <1>2 DEF SettlementExpiry
  <2> QED
    BY <1>2, <2>1, SleepIInv
<1>3. CASE state = "SLEEP" \/ ~is_system_completely_idle
  <2>1. /\ timers' = timers \ {"settlement"}
        /\ UNCHANGED <<state, hooks, pending, maintq, abort, suspended, pc, active,
                       soft, hard, tick, respawns>>
    BY <1>3 DEF SettlementExpiry
  <2> QED
    BY <2>1 DEF IInv, TypeOK, HookRegistered, DeadlineArmed, SleepQuiet,
                WatchdogOwned, AbortDelivered
<1> QED
  BY <1>1, <1>2, <1>3 DEF IInv, TypeOK

(* A soft watchdog. *)
LEMMA SoftExpiryIInv ==
  ASSUME IInv, NEW w \in Workers, SoftExpiry(w)
  PROVE  IInv'
  BY DEF SoftExpiry, IInv, TypeOK, HookRegistered, DeadlineArmed,
         SleepQuiet, WatchdogOwned, AbortDelivered

(* A hard watchdog and the respawn. *)
LEMMA HardExpiryIInv ==
  ASSUME IInv, NEW w \in Workers, HardExpiry(w)
  PROVE  IInv'
  BY DEF HardExpiry, worker_pool_recover_stalled_runner, Goto, IInv, TypeOK,
         HookRegistered, DeadlineArmed, SleepQuiet, WatchdogOwned, AbortDelivered

(* The early-curfew evaluation reads the state. *)
LEMMA EvalStateIInv ==
  ASSUME IInv, NEW t \in Threads, EvalState(t)
  PROVE  IInv'
  BY DEF EvalState, Runnable, Goto, IInv, TypeOK, HookRegistered, DeadlineArmed,
         SleepQuiet, WatchdogOwned, AbortDelivered

(* The early-curfew evaluation reads the user queue and the counter. *)
LEMMA EvalWorkIInv ==
  ASSUME IInv, NEW t \in Threads, EvalWork(t)
  PROVE  IInv'
  BY DEF EvalWork, Runnable, Goto, IInv, TypeOK, HookRegistered, DeadlineArmed,
         SleepQuiet, WatchdogOwned, AbortDelivered

(* The early-curfew evaluation reads the maintenance queue. *)
LEMMA EvalMaintIInv ==
  ASSUME IInv, NEW t \in Threads, EvalMaint(t)
  PROVE  IInv'
  BY DEF EvalMaint, Runnable, Goto, IInv, TypeOK, HookRegistered, DeadlineArmed,
         SleepQuiet, WatchdogOwned, AbortDelivered

(* The early-curfew evaluation arms the settlement timer or demotes. *)
LEMMA EvalArmIInv ==
  ASSUME IInv, NEW t \in Threads, EvalArm(t)
  PROVE  IInv'
<1> DEFINE p == Goto(t, "get")
<1>1. /\ p \in [Threads -> LoopLabels \cup WorkerLabels \cup MaintLabels]
      /\ p[Maint] \in LoopLabels \cup MaintLabels
      /\ \A w \in Workers : p[w] = pc[w] \/ (pc[w] = "ev_arm" /\ p[w] = "get")
  BY DEF IInv, TypeOK, EvalArm, Goto
<1>2. CASE state \in ActiveStates /\ DemoteToCurfew(p)
  <2>1. ExecuteCurfew(p) /\ UNCHANGED <<pending, active, watchdogs, tick, respawns>>
    BY <1>2 DEF EvalArm, DemoteToCurfew
  <2> QED
    BY <1>1, <1>2, <2>1, CurfewIInv
<1>3. CASE ~(state \in ActiveStates /\ DemoteToCurfew(p))
  <2>1. /\ pc' = p
        /\ timers' = timers \/ timers' = timers \cup {"settlement"}
        /\ UNCHANGED <<state, hooks, maintq, suspended, pending, active,
                       watchdogs, tick, respawns>>
    BY <1>3 DEF EvalArm, DemoteToCurfew
  <2>2. t \notin suspended /\ pc[t] = "ev_arm"
    BY DEF EvalArm, Runnable
  <2> QED
    BY <2>1, <2>2 DEF Goto, IInv, TypeOK, HookRegistered, DeadlineArmed, SleepQuiet,
                      WatchdogOwned, AbortDelivered
<1> QED
  BY <1>2, <1>3

(* A worker takes an item or blocks. *)
LEMMA WorkerGetIInv ==
  ASSUME IInv, NEW w \in Workers, WorkerGet(w)
  PROVE  IInv'
  BY DEF WorkerGet, Runnable, Goto, IInv, TypeOK, HookRegistered, DeadlineArmed,
         SleepQuiet, WatchdogOwned, AbortDelivered

(* A worker reads the state. *)
LEMMA WorkerCheckStateIInv ==
  ASSUME IInv, NEW w \in Workers, WorkerCheckState(w)
  PROVE  IInv'
  BY DEF WorkerCheckState, Runnable, Goto, IInv, TypeOK, HookRegistered, DeadlineArmed,
         SleepQuiet, WatchdogOwned, AbortDelivered

(* A worker stops the settlement timer. *)
LEMMA WorkerInterruptSettlementIInv ==
  ASSUME IInv, NEW w \in Workers, WorkerInterruptSettlement(w)
  PROVE  IInv'
  BY DEF WorkerInterruptSettlement, Runnable, Goto, IInv, TypeOK, HookRegistered, DeadlineArmed,
         SleepQuiet, WatchdogOwned, AbortDelivered

(* A worker counts itself in. *)
LEMMA WorkerIncIInv ==
  ASSUME IInv, NEW w \in Workers, WorkerInc(w)
  PROVE  IInv'
  BY DEF WorkerInc, Runnable, Goto, IInv, TypeOK, HookRegistered, DeadlineArmed,
         SleepQuiet, WatchdogOwned, AbortDelivered

(* A worker starts its watchdog. *)
LEMMA WatchdogStartIInv ==
  ASSUME IInv, NEW w \in Workers, WatchdogStart(w)
  PROVE  IInv'
  BY DEF WatchdogStart, Runnable, Goto, IInv, TypeOK, HookRegistered, DeadlineArmed,
         SleepQuiet, WatchdogOwned, AbortDelivered

(* A handler returns. *)
LEMMA HandlerReturnsIInv ==
  ASSUME IInv, NEW w \in Workers, HandlerReturns(w)
  PROVE  IInv'
  BY DEF HandlerReturns, Runnable, Goto, IInv, TypeOK, HookRegistered, DeadlineArmed,
         SleepQuiet, WatchdogOwned, AbortDelivered

(* A worker stops its watchdog. *)
LEMMA WatchdogStopIInv ==
  ASSUME IInv, NEW w \in Workers, WatchdogStop(w)
  PROVE  IInv'
  BY DEF WatchdogStop, Runnable, Goto, IInv, TypeOK, HookRegistered, DeadlineArmed,
         SleepQuiet, WatchdogOwned, AbortDelivered

(* A worker counts itself out. *)
LEMMA WorkerDecIInv ==
  ASSUME IInv, NEW w \in Workers, WorkerDec(w)
  PROVE  IInv'
  BY DEF WorkerDec, Runnable, Goto, IInv, TypeOK, HookRegistered, DeadlineArmed,
         SleepQuiet, WatchdogOwned, AbortDelivered

(* A worker reads the counter. *)
LEMMA WorkerCountIInv ==
  ASSUME IInv, NEW w \in Workers, WorkerCount(w)
  PROVE  IInv'
  BY DEF WorkerCount, Runnable, Goto, IInv, TypeOK, HookRegistered, DeadlineArmed,
         SleepQuiet, WatchdogOwned, AbortDelivered

(* The maintenance thread takes an item or blocks. *)
LEMMA MaintGetIInv ==
  ASSUME IInv, MaintGet
  PROVE  IInv'
  BY DEF MaintGet, Goto, IInv, TypeOK, HookRegistered, DeadlineArmed,
         SleepQuiet, WatchdogOwned, AbortDelivered

(* add_user_work reads the state. *)
LEMMA AddUserWorkCheckIInv ==
  ASSUME IInv, AddUserWorkCheck
  PROVE  IInv'
  BY DEF AddUserWorkCheck, Goto, IInv, TypeOK, HookRegistered, DeadlineArmed,
         SleepQuiet, WatchdogOwned, AbortDelivered

(* add_user_work puts the item. *)
LEMMA AddUserWorkPutIInv ==
  ASSUME IInv, AddUserWorkPut
  PROVE  IInv'
  BY DEF AddUserWorkPut, RoomInQueue, Goto, IInv, TypeOK, HookRegistered, DeadlineArmed,
         SleepQuiet, WatchdogOwned, AbortDelivered

(* A maintenance handler returns. *)
LEMMA MaintReturnsIInv ==
  ASSUME IInv, MaintReturns
  PROVE  IInv'
  BY DEF MaintReturns, Goto, IInv, TypeOK, HookRegistered, DeadlineArmed,
         SleepQuiet, WatchdogOwned, AbortDelivered

(* The maintenance thread reads its queue. *)
LEMMA MaintCheckQueueIInv ==
  ASSUME IInv, MaintCheckQueue
  PROVE  IInv'
  BY DEF MaintCheckQueue, Goto, IInv, TypeOK, HookRegistered, DeadlineArmed,
         SleepQuiet, WatchdogOwned, AbortDelivered

(* The maintenance thread may put the watch to sleep. *)
LEMMA MaintDrainIInv ==
  ASSUME IInv, MaintDrain
  PROVE  IInv'
  BY ZenonT(60) DEF MaintDrain, AbortAndSuspendAll, Goto, IInv, TypeOK, HookRegistered, DeadlineArmed,
         SleepQuiet, WatchdogOwned, AbortDelivered

(* The maintenance thread reads the state. *)
LEMMA MaintGateIInv ==
  ASSUME IInv, MaintGate
  PROVE  IInv'
  BY DEF MaintGate, Goto, IInv, TypeOK, HookRegistered, DeadlineArmed,
         SleepQuiet, WatchdogOwned, AbortDelivered

-----------------------------------------------------------------------------
(* Every step keeps the inductive invariant. *)
LEMMA NextIInv == IInv /\ [Next]_vars => IInv'
<1> SUFFICES ASSUME IInv, [Next]_vars
             PROVE  IInv'
  OBVIOUS
<1>1. ASSUME NEW target \in ActiveTargets, TickState(target)
      PROVE  IInv'
  BY <1>1, TickStateIInv
<1>2. CASE TickQueue
  BY <1>2, TickQueueIInv
<1>3. CASE Timers
  BY <1>3, WindowExpiryIInv, GraceExpiryIInv, SettlementExpiryIInv DEF Timers
<1>4. ASSUME NEW t \in Threads, Eval(t)
      PROVE  IInv'
  BY <1>4, EvalStateIInv, EvalWorkIInv, EvalMaintIInv, EvalArmIInv DEF Eval
<1>5. ASSUME NEW w \in Workers,
             SoftExpiry(w) \/ HardExpiry(w) \/ WorkerCode(w) \/ HandlerReturns(w)
      PROVE  IInv'
  BY <1>4, <1>5, SoftExpiryIInv, HardExpiryIInv, HandlerReturnsIInv, WorkerGetIInv,
     WorkerCheckStateIInv, WorkerInterruptSettlementIInv, WorkerIncIInv,
     WatchdogStartIInv, WatchdogStopIInv, WorkerDecIInv, WorkerCountIInv
     DEF WorkerCode
<1>6. CASE MaintThread
  BY <1>4, <1>6, MaintGetIInv, AddUserWorkCheckIInv, AddUserWorkPutIInv,
     MaintReturnsIInv, MaintCheckQueueIInv, MaintDrainIInv, MaintGateIInv
     DEF MaintThread
<1>7. CASE UNCHANGED vars
  BY <1>7, StutterIInv
<1> QED
  BY <1>1, <1>2, <1>3, <1>5, <1>6, <1>7 DEF Next

(* The inductive invariant holds in every reachable state. *)
THEOREM RuntimeInvariant == Spec => []IInv
  BY InitIInv, NextIInv, PTL DEF Spec

(* The type invariant. *)
THEOREM RuntimeTypeOK == Spec => []TypeOK
  BY RuntimeInvariant, PTL DEF IInv

(* No window and no grace period is left without the timer that ends it. *)
THEOREM RuntimeDeadlineArmed == Spec => []DeadlineArmed
  BY RuntimeInvariant, PTL DEF IInv

(* No handler advances while the watch sleeps. *)
THEOREM RuntimeSleepQuiet == Spec => []SleepQuiet
  BY RuntimeInvariant, PTL DEF IInv

(* Watchdog timers belong to the item they guard, and every running handler *)
(* is guarded.                                                              *)
THEOREM RuntimeWatchdogOwned == Spec => []WatchdogOwned
  BY RuntimeInvariant, PTL DEF IInv

(* No worker is killed unasked, and sleep leaves the abort flags set. *)
THEOREM RuntimeAbortDelivered == Spec => []AbortDelivered
  BY RuntimeInvariant, PTL DEF IInv

-----------------------------------------------------------------------------
(* The account of active_worker_count *)

(* The set of workers inside an item is finite, so its size is a number. *)
LEMMA InFlightFinite == IsFiniteSet(InFlight) /\ Cardinality(InFlight) \in Nat
<1>1. InFlight \subseteq Workers
  OBVIOUS
<1> QED
  BY <1>1, FS_Subset, FS_CardinalityType

(* Where no worker enters or leaves its item, the account stands. *)
LEMMA SameInFlight ==
  ASSUME CountExact, active' = active, respawns' = respawns,
         \A w \in Workers : pc'[w] \in CountedLabels <=> pc[w] \in CountedLabels
  PROVE  CountExact'
<1>1. InFlight' = InFlight
  OBVIOUS
<1> QED
  BY <1>1 DEF CountExact

(* A worker that counts itself in is one more worker inside an item. *)
LEMMA IncCount ==
  ASSUME IInv, CountExact, NEW w \in Workers, WorkerInc(w)
  PROVE  CountExact'
<1>1. InFlight' = InFlight \cup {w} /\ w \notin InFlight
  BY DEF WorkerInc, Goto, IInv, TypeOK
<1>2. Cardinality(InFlight') = Cardinality(InFlight) + 1
  BY <1>1, InFlightFinite, FS_AddElement
<1>3. active' = active + 1 /\ respawns' = respawns
  BY DEF WorkerInc
<1> QED
  BY <1>2, <1>3, InFlightFinite DEF CountExact, IInv, TypeOK

(* A worker that counts itself out is one fewer. *)
LEMMA DecCount ==
  ASSUME IInv, CountExact, NEW w \in Workers, WorkerDec(w)
  PROVE  CountExact'
<1>1. InFlight' = InFlight \ {w} /\ w \in InFlight
  BY DEF WorkerDec, Goto, IInv, TypeOK
<1>2. Cardinality(InFlight') = Cardinality(InFlight) - 1
  BY <1>1, InFlightFinite, FS_RemoveElement
<1>3. active' = active - 1 /\ respawns' = respawns
  BY DEF WorkerDec
<1> QED
  BY <1>2, <1>3, InFlightFinite DEF CountExact, IInv, TypeOK

(* A worker that the watchdog kills is inside its item (WatchdogOwned); it  *)
(* leaves the set and stays in the counter, as one more respawn.            *)
LEMMA HardExpiryCount ==
  ASSUME IInv, CountExact, NEW w \in Workers, HardExpiry(w)
  PROVE  CountExact'
<1>1. InFlight' = InFlight \ {w} /\ w \in InFlight
  BY DEF HardExpiry, worker_pool_recover_stalled_runner, Goto, IInv, TypeOK, WatchdogOwned
<1>2. Cardinality(InFlight') = Cardinality(InFlight) - 1
  BY <1>1, InFlightFinite, FS_RemoveElement
<1>3. active' = active /\ respawns' = respawns + 1
  BY DEF HardExpiry, worker_pool_recover_stalled_runner
<1> QED
  BY <1>2, <1>3, InFlightFinite DEF CountExact, IInv, TypeOK

(* Workers' program counters through a curfew. *)
LEMMA CurfewCount ==
  ASSUME NEW p \in [Threads -> LoopLabels \cup WorkerLabels \cup MaintLabels],
         ExecuteCurfew(p)
  PROVE  \A w \in Workers : pc'[w] = p[w]
  BY DEF ExecuteCurfew, PutMaint

(* The evaluation of the early curfew moves a thread only between labels    *)
(* outside an item.                                                         *)
LEMMA EvalCount ==
  ASSUME IInv, CountExact, NEW t \in Threads, Eval(t)
  PROVE  CountExact'
<1>1. active' = active /\ respawns' = respawns
  BY DEF Eval, EvalState, EvalWork, EvalMaint, EvalArm
<1>2. CASE EvalState(t) \/ EvalWork(t) \/ EvalMaint(t)
  <2>1. \A w \in Workers : pc'[w] \in CountedLabels <=> pc[w] \in CountedLabels
    BY <1>2 DEF EvalState, EvalWork, EvalMaint, Goto, IInv, TypeOK
  <2> QED
    BY <1>1, <2>1, SameInFlight
<1>3. CASE EvalArm(t)
  <2> DEFINE p == Goto(t, "get")
  <2>1. p \in [Threads -> LoopLabels \cup WorkerLabels \cup MaintLabels]
    BY DEF Goto, IInv, TypeOK
  <2>2. \A w \in Workers : pc'[w] = p[w]
    BY <1>3, <2>1, CurfewCount DEF EvalArm, DemoteToCurfew
  <2>3. \A w \in Workers : pc'[w] \in CountedLabels <=> pc[w] \in CountedLabels
    BY <1>3, <2>2 DEF EvalArm, Goto, IInv, TypeOK
  <2> QED
    BY <1>1, <2>3, SameInFlight
<1> QED
  BY <1>2, <1>3 DEF Eval

(* Every step keeps the account. *)
LEMMA NextCount == IInv /\ CountExact /\ [Next]_vars => CountExact'
<1> SUFFICES ASSUME IInv, CountExact, [Next]_vars
             PROVE  CountExact'
  OBVIOUS
<1> DEFINE Same == /\ active' = active /\ respawns' = respawns
                   /\ \A w \in Workers : pc'[w] \in CountedLabels <=> pc[w] \in CountedLabels
<1>0. Same => CountExact'
  BY SameInFlight
<1>1. ASSUME NEW target \in ActiveTargets, TickState(target)
      PROVE  CountExact'
  <2>1. Same
    BY <1>1 DEF TickState, RegisterHooks
  <2> QED BY <1>0, <2>1
<1>2. CASE TickQueue
  <2>1. Same
    BY <1>2 DEF TickQueue, PutMaint, IInv, TypeOK
  <2> QED BY <1>0, <2>1
<1>3. CASE Timers
  <2>1. pc \in [Threads -> LoopLabels \cup WorkerLabels \cup MaintLabels]
    BY DEF IInv, TypeOK
  <2>2. ExecuteCurfew(pc) => \A w \in Workers : pc'[w] = pc[w]
    BY <2>1, CurfewCount
  <2>3. worker_pool_purge_queue =>
          \A w \in Workers : pc'[w] \in CountedLabels <=> pc[w] \in CountedLabels
    BY PurgeMoves
  <2>4. active' = active /\ respawns' = respawns
    BY <1>3 DEF Timers, WindowExpiry, GraceExpiry, SettlementExpiry
  <2>5. ExecuteCurfew(pc) \/ worker_pool_purge_queue \/ pc' = pc
    BY <1>3 DEF Timers, WindowExpiry, GraceExpiry, SettlementExpiry
  <2>6. Same
    BY <2>2, <2>3, <2>4, <2>5
  <2> QED BY <1>0, <2>6
<1>4. ASSUME NEW w \in Workers, SoftExpiry(w) \/ HandlerReturns(w)
      PROVE  CountExact'
  <2>1. Same
    BY <1>4 DEF SoftExpiry, HandlerReturns, Goto, IInv, TypeOK
  <2> QED BY <1>0, <2>1
<1>5. ASSUME NEW w \in Workers, HardExpiry(w)
      PROVE  CountExact'
  BY <1>5, HardExpiryCount
<1>6. ASSUME NEW w \in Workers, WorkerCode(w)
      PROVE  CountExact'
  <2>1. CASE WorkerGet(w) \/ WorkerCheckState(w) \/ WorkerInterruptSettlement(w)
             \/ WatchdogStart(w) \/ WatchdogStop(w) \/ WorkerCount(w)
    <3>1. Same
      BY <2>1 DEF WorkerGet, WorkerCheckState, WorkerInterruptSettlement, WatchdogStart,
                  WatchdogStop, WorkerCount, Goto, IInv, TypeOK
    <3> QED BY <1>0, <3>1
  <2>2. CASE WorkerInc(w) \/ WorkerDec(w) \/ Eval(w)
    BY <2>2, IncCount, DecCount, EvalCount
  <2> QED
    BY <1>6, <2>1, <2>2 DEF WorkerCode
<1>7. CASE MaintThread
  <2>1. CASE Eval(Maint)
    BY <2>1, EvalCount
  <2>2. CASE ~Eval(Maint)
    <3>1. Same
      BY <1>7, <2>2 DEF MaintThread, MaintGet, AddUserWorkCheck, AddUserWorkPut,
                        MaintReturns, MaintCheckQueue, MaintDrain, MaintGate, Goto,
                        IInv, TypeOK
    <3> QED BY <1>0, <3>1
  <2> QED BY <2>1, <2>2
<1>8. CASE UNCHANGED vars
  BY <1>0, <1>8 DEF vars
<1> QED
  BY <1>1, <1>2, <1>3, <1>4, <1>5, <1>6, <1>7, <1>8 DEF Next

(* active_worker_count is exact up to the workers the watchdog killed. *)
THEOREM RuntimeCountExact == Spec => []CountExact
<1>1. Init => CountExact
  <2> SUFFICES ASSUME Init PROVE CountExact
    OBVIOUS
  <2>1. InFlight = {}
    BY DEF Init, worker_pool_init
  <2>2. Cardinality(InFlight) = 0
    BY <2>1, FS_EmptySet
  <2>3. active = 0 /\ respawns = 0
    BY DEF Init, worker_pool_init
  <2> QED
    BY <2>2, <2>3 DEF CountExact
<1> QED
  BY <1>1, NextCount, RuntimeInvariant, PTL DEF Spec

-----------------------------------------------------------------------------
(* Falling asleep *)

(* Sleep is entered from the grace period only, and by another step than    *)
(* the grace timer only when there is no work.                              *)
LEMMA FallAsleep ==
  ASSUME IInv, [Next]_vars, state # "SLEEP", state' = "SLEEP"
  PROVE  state = "GRACE_PERIOD" /\ (GraceExpiry \/ ~worker_pool_has_work)
<1>1. ASSUME NEW p, state \in ActiveStates, ExecuteCurfew(p)
      PROVE  FALSE
  BY <1>1 DEF ExecuteCurfew, IInv, HookRegistered
<1>2. \A target \in ActiveTargets : ~TickState(target)
  BY DEF TickState, RegisterHooks
<1>3. ~TickQueue /\ ~UNCHANGED vars
  BY DEF TickQueue, vars
<1>4. CASE Timers
  BY <1>1, <1>4 DEF Timers, WindowExpiry, GraceExpiry, SettlementExpiry,
                    is_system_completely_idle
<1>5. \A t \in Threads : ~Eval(t)
  BY <1>1 DEF Eval, EvalState, EvalWork, EvalMaint, EvalArm, DemoteToCurfew
<1>6. \A w \in Workers :
        ~(SoftExpiry(w) \/ HardExpiry(w) \/ WorkerCode(w) \/ HandlerReturns(w))
  BY <1>5 DEF SoftExpiry, HardExpiry, worker_pool_recover_stalled_runner,
              HandlerReturns, WorkerCode, WorkerGet,
              WorkerCheckState, WorkerInterruptSettlement, WorkerInc, WatchdogStart,
              WatchdogStop, WorkerDec, WorkerCount
<1>7. CASE MaintThread
  BY <1>5, <1>7 DEF MaintThread, MaintGet, AddUserWorkCheck, AddUserWorkPut,
                    MaintReturns, MaintCheckQueue, MaintDrain, MaintGate
<1> QED
  BY <1>2, <1>3, <1>4, <1>6, <1>7 DEF Next

(* Only the grace timer sleeps over a worker that is inside its item. *)
THEOREM RuntimeEarlySleepDrains == Spec => EarlySleepDrains
<1>1. IInv /\ CountExact /\ [Next]_vars =>
        [state # "SLEEP" /\ state' = "SLEEP" /\ InFlight # {} => GraceExpiry]_vars
  <2> SUFFICES ASSUME IInv, CountExact, [Next]_vars, state # "SLEEP", state' = "SLEEP",
                      ~GraceExpiry
               PROVE  InFlight = {}
    OBVIOUS
  <2>1. ~(active > 0)
    BY FallAsleep DEF worker_pool_has_work
  <2>2. Cardinality(InFlight) = 0
    BY <2>1, InFlightFinite DEF CountExact, IInv, TypeOK
  <2> QED
    BY <2>2, InFlightFinite, FS_EmptySet
<1> QED
  BY <1>1, RuntimeInvariant, RuntimeCountExact, PTL DEF Spec, EarlySleepDrains
-----------------------------------------------------------------------------
(* The duty cycle *)

USE DEF Told

(* The deadline of a mode is armed exactly when the watch does not sleep. *)
LEMMA EndsNext ==
  ASSUME IInv, IInv'
  PROVE  Ends = (state # "SLEEP") /\ Ends' = (state' # "SLEEP")
<1>1. Ends = (state # "SLEEP")
  BY DEF IInv, TypeOK, DeadlineArmed, Ends
<1>2. Ends' = (state' # "SLEEP")
  BY DEF IInv, TypeOK, DeadlineArmed, Ends
<1> QED
  BY <1>1, <1>2

(* A step that leaves the mode, the hook and the workers alone is none of   *)
(* the cycle.                                                               *)
LEMMA CycleStutters ==
  ASSUME IInv, IInv', Mode' = Mode, hooks' = hooks, InFlight' = InFlight,
         abort' \cap InFlight = abort \cap InFlight
  PROVE  UNCHANGED Cycle!vars
<1>1. Ends' = Ends
  <2>1. state # "SLEEP" <=> state' # "SLEEP"
    BY DEF Mode
  <2> QED
    BY <2>1, EndsNext
<1> QED
  BY <1>1 DEF Cycle!vars, Cycle!cycle, Cycle!workers

(* A worker that is not suspended and has something to do is not asleep. *)
LEMMA MovesAwake ==
  ASSUME IInv, NEW w \in Workers, Runnable(w), pc[w] \notin {"get", "pend", "got"}
  PROVE  Mode # "asleep"
  BY DEF IInv, SleepQuiet, Runnable, Mode

(* The curfew closes the window, whichever context runs it. *)
LEMMA CurfewCloses ==
  ASSUME IInv, IInv', state \in ActiveStates, abort' = abort,
         NEW p \in [Threads -> LoopLabels \cup WorkerLabels \cup MaintLabels],
         \A w \in Workers : p[w] = pc[w] \/ (pc[w] = "ev_arm" /\ p[w] = "get"),
         ExecuteCurfew(p)
  PROVE  Cycle!CloseWindow
<1>1. hooks = 1 /\ hooks' = 0 /\ state' = "GRACE_PERIOD"
  BY DEF IInv, HookRegistered, ExecuteCurfew
<1>2. InFlight' = InFlight
  BY CurfewCount
<1>3. Mode = "awake" /\ Mode' = "draining"
  BY <1>1 DEF Mode
<1>4. Ends'
  BY <1>1, EndsNext
<1> QED
  BY <1>1, <1>2, <1>3, <1>4 DEF Cycle!CloseWindow, Cycle!workers

(* Everybody is told when the watch falls asleep. *)
LEMMA SleepFalls ==
  ASSUME IInv, IInv', state = "GRACE_PERIOD", state' = "SLEEP", AbortAndSuspendAll,
         hooks' = hooks, InFlight' = InFlight
  PROVE  Cycle!FallAsleep
<1>1. Mode = "draining" /\ Mode' = "asleep"
  BY DEF Mode
<1>2. ~Ends'
  BY EndsNext
<1>3. (abort \cap InFlight)' = InFlight
  BY DEF AbortAndSuspendAll
<1> QED
  BY <1>1, <1>2, <1>3 DEF Cycle!FallAsleep

(* The timers of the state machine. *)
LEMMA TimersCycle ==
  ASSUME IInv, IInv', Timers
  PROVE  [Cycle!Next]_Cycle!vars
<1> USE DEF Cycle!Next
<1>0. pc \in [Threads -> LoopLabels \cup WorkerLabels \cup MaintLabels]
  BY DEF IInv, TypeOK
<1>1. CASE state \in ActiveStates /\ (WindowExpiry \/ SettlementExpiry) /\ ExecuteCurfew(pc)
           /\ abort' = abort
  BY <1>0, <1>1, CurfewCloses
<1>2. CASE state = "GRACE_PERIOD" /\ state' = "SLEEP" /\ (GraceExpiry \/ SettlementExpiry)
  <2>1. AbortAndSuspendAll /\ hooks' = hooks /\ worker_pool_purge_queue
    BY <1>2 DEF GraceExpiry, SettlementExpiry
  <2>2. InFlight' = InFlight
    BY <2>1, PurgeMoves
  <2> QED
    BY <1>2, <2>1, <2>2, SleepFalls
<1>3. CASE UNCHANGED <<state, hooks, abort, pc>>
  BY <1>3, CycleStutters DEF Mode
<1> QED
  BY <1>1, <1>2, <1>3 DEF Timers, WindowExpiry, GraceExpiry, SettlementExpiry, IInv, TypeOK

(* The evaluation of the early curfew, on a worker or on the maintenance    *)
(* thread.                                                                  *)
LEMMA EvalCycle ==
  ASSUME IInv, IInv', NEW t \in Threads, Eval(t)
  PROVE  [Cycle!Next]_Cycle!vars
<1>1. CASE EvalState(t) \/ EvalWork(t) \/ EvalMaint(t)
  <2>1. InFlight' = InFlight
    BY <1>1 DEF EvalState, EvalWork, EvalMaint, Goto, IInv, TypeOK
  <2>2. UNCHANGED <<state, hooks, abort>>
    BY <1>1 DEF EvalState, EvalWork, EvalMaint
  <2> QED
    BY <2>1, <2>2, CycleStutters DEF Mode
<1>2. CASE EvalArm(t)
  <2> DEFINE p == Goto(t, "get")
  <2>1. /\ p \in [Threads -> LoopLabels \cup WorkerLabels \cup MaintLabels]
        /\ \A w \in Workers : p[w] = pc[w] \/ (pc[w] = "ev_arm" /\ p[w] = "get")
    BY <1>2 DEF EvalArm, Goto, IInv, TypeOK
  <2>2. CASE state \in ActiveStates /\ ExecuteCurfew(p)
    BY <1>2, <2>1, <2>2, CurfewCloses DEF EvalArm, Cycle!Next
  <2>3. CASE UNCHANGED <<state, hooks>> /\ pc' = p
    <3>1. InFlight' = InFlight
      BY <2>1, <2>3
    <3> QED
      BY <1>2, <2>3, <3>1, CycleStutters DEF Mode, EvalArm
  <2> QED
    BY <1>2, <2>2, <2>3 DEF EvalArm, DemoteToCurfew
<1> QED
  BY <1>1, <1>2 DEF Eval

(* One worker on its way through an item. *)
LEMMA WorkerCycle ==
  ASSUME IInv, IInv', NEW w \in Workers, UNCHANGED <<state, hooks>>
  PROVE  /\ WorkerInc(w) => Cycle!Enter(w)
         /\ WorkerDec(w) => Cycle!Leave(w)
         /\ WatchdogStart(w) \/ WatchdogStop(w) => Cycle!Clear(w) \/ UNCHANGED Cycle!vars
         /\ SoftExpiry(w) => Cycle!Tell(w)
         /\ HardExpiry(w) => Cycle!Kill(w)
<1>0. UNCHANGED Cycle!cycle
  BY EndsNext DEF Cycle!cycle, Mode
<1>1. ASSUME WorkerInc(w) PROVE Cycle!Enter(w)
  <2>1. InFlight' = InFlight \cup {w} /\ w \notin InFlight /\ abort' = abort
    BY <1>1 DEF WorkerInc, Goto, IInv, TypeOK
  <2>2. Mode # "asleep"
    BY <1>1, MovesAwake DEF WorkerInc
  <2> QED
    BY <1>0, <2>1, <2>2 DEF Cycle!Enter
<1>2. ASSUME WorkerDec(w) PROVE Cycle!Leave(w)
  <2>1. InFlight' = InFlight \ {w} /\ w \in InFlight /\ abort' = abort
    BY <1>2 DEF WorkerDec, Goto, IInv, TypeOK
  <2>2. Mode # "asleep"
    BY <1>2, MovesAwake DEF WorkerDec
  <2> QED
    BY <1>0, <2>1, <2>2 DEF Cycle!Leave
<1>3. ASSUME WatchdogStart(w) \/ WatchdogStop(w)
      PROVE  Cycle!Clear(w) \/ UNCHANGED Cycle!vars
  <2>1. InFlight' = InFlight /\ w \in InFlight /\ (abort' = abort \/ abort' = abort \ {w})
    BY <1>3 DEF WatchdogStart, WatchdogStop, Goto, IInv, TypeOK
  <2>2. Mode # "asleep"
    BY <1>3, MovesAwake DEF WatchdogStart, WatchdogStop
  <2>3. CASE abort' = abort
    BY <2>1, <2>3, CycleStutters DEF Mode
  <2>4. CASE abort' = abort \ {w}
    BY <1>0, <2>1, <2>2, <2>4 DEF Cycle!Clear
  <2> QED
    BY <2>1, <2>3, <2>4
<1>4. ASSUME SoftExpiry(w) PROVE Cycle!Tell(w)
  <2>1. InFlight' = InFlight /\ w \in InFlight /\ abort' = abort \cup {w}
    BY <1>4 DEF SoftExpiry, IInv, WatchdogOwned
  <2> QED
    BY <1>0, <2>1 DEF Cycle!Tell
<1>5. ASSUME HardExpiry(w) PROVE Cycle!Kill(w)
  <2>1. w \in InFlight /\ w \in abort
    BY <1>5 DEF HardExpiry, IInv, WatchdogOwned, AbortDelivered
  <2>2. InFlight' = InFlight \ {w} /\ abort' = abort \ {w}
    BY <1>5 DEF HardExpiry, worker_pool_recover_stalled_runner, Goto, IInv, TypeOK
  <2> QED
    BY <1>0, <2>1, <2>2 DEF Cycle!Kill
<1> QED
  BY <1>1, <1>2, <1>3, <1>4, <1>5

(* Every step of the runtime is one of the cycle or none. *)
LEMMA NextCycle ==
  ASSUME IInv, IInv', [Next]_vars
  PROVE  [Cycle!Next]_Cycle!vars
<1>1. ASSUME NEW target \in ActiveTargets, TickState(target)
      PROVE  [Cycle!Next]_Cycle!vars
  <2>1. InFlight' = InFlight /\ abort' = abort
    BY <1>1 DEF TickState
  <2>2. state' = target /\ Mode' = "awake"
    BY <1>1 DEF TickState, Mode
  <2>3. CASE Mode = "awake"
    <3>1. hooks' = 1 /\ hooks = 1
      BY <2>2, <2>3 DEF IInv, HookRegistered, Mode
    <3> QED
      BY <2>1, <2>2, <2>3, <3>1, CycleStutters
  <2>4. CASE Mode # "awake"
    <3>1. hooks' = 1 /\ Ends'
      BY <2>2, EndsNext DEF IInv, HookRegistered
    <3> QED
      BY <2>1, <2>2, <2>4, <3>1 DEF Cycle!Next, Cycle!Wake, Cycle!workers
  <2> QED
    BY <2>3, <2>4
<1>2. CASE TickQueue
  <2>1. InFlight' = InFlight /\ UNCHANGED <<state, hooks, abort>>
    BY <1>2 DEF TickQueue, PutMaint, IInv, TypeOK
  <2> QED
    BY <2>1, CycleStutters DEF Mode
<1>3. ASSUME NEW w \in Workers, SoftExpiry(w) \/ HardExpiry(w)
      PROVE  [Cycle!Next]_Cycle!vars
  <2>1. UNCHANGED <<state, hooks>>
    BY <1>3 DEF SoftExpiry, HardExpiry
  <2> QED
    BY <1>3, <2>1, WorkerCycle DEF Cycle!Next
<1>4. ASSUME NEW w \in Workers, WorkerCode(w) \/ HandlerReturns(w)
      PROVE  [Cycle!Next]_Cycle!vars
  <2>1. CASE Eval(w)
    BY <2>1, EvalCycle
  <2>2. CASE WorkerInc(w) \/ WorkerDec(w) \/ WatchdogStart(w) \/ WatchdogStop(w)
    <3>1. UNCHANGED <<state, hooks>>
      BY <2>2 DEF WorkerInc, WorkerDec, WatchdogStart, WatchdogStop
    <3> QED
      BY <2>2, <3>1, WorkerCycle DEF Cycle!Next
  <2>3. CASE WorkerGet(w) \/ WorkerCheckState(w) \/ WorkerInterruptSettlement(w)
             \/ WorkerCount(w) \/ HandlerReturns(w)
    <3>1. InFlight' = InFlight
      BY <2>3 DEF WorkerGet, WorkerCheckState, WorkerInterruptSettlement, WorkerCount,
                  HandlerReturns, Goto, IInv, TypeOK
    <3>2. UNCHANGED <<state, hooks, abort>>
      BY <2>3 DEF WorkerGet, WorkerCheckState, WorkerInterruptSettlement, WorkerCount,
                  HandlerReturns
    <3> QED
      BY <3>1, <3>2, CycleStutters DEF Mode
  <2> QED
    BY <1>4, <2>1, <2>2, <2>3 DEF WorkerCode
<1>5. CASE MaintDrain
  <2>1. InFlight' = InFlight /\ hooks' = hooks
    BY <1>5 DEF MaintDrain, Goto, IInv, TypeOK
  <2>2. CASE state = "GRACE_PERIOD" /\ state' = "SLEEP"
    <3>1. AbortAndSuspendAll
      BY <1>5, <2>2 DEF MaintDrain
    <3> QED
      BY <2>1, <2>2, <3>1, SleepFalls DEF Cycle!Next
  <2>3. CASE UNCHANGED <<state, abort>>
    BY <2>1, <2>3, CycleStutters DEF Mode
  <2> QED
    BY <1>5, <2>2, <2>3 DEF MaintDrain
<1>6. CASE MaintThread /\ ~MaintDrain /\ ~Eval(Maint)
  <2>1. InFlight' = InFlight
    BY <1>6 DEF MaintThread, MaintGet, AddUserWorkCheck, AddUserWorkPut, MaintReturns,
                MaintCheckQueue, MaintGate, Goto, IInv, TypeOK
  <2>2. UNCHANGED <<state, hooks, abort>>
    BY <1>6 DEF MaintThread, MaintGet, AddUserWorkCheck, AddUserWorkPut, MaintReturns,
                MaintCheckQueue, MaintGate
  <2> QED
    BY <2>1, <2>2, CycleStutters DEF Mode
<1>7. CASE UNCHANGED vars
  BY <1>7, CycleStutters DEF vars, Mode
<1> QED
  BY <1>1, <1>2, <1>3, <1>4, <1>5, <1>6, <1>7, TimersCycle, EvalCycle DEF Next

(* The runtime, with all its threads and timers, keeps the duty cycle: for  *)
(* any number of workers, whatever expires, is killed, suspended or resumed *)
(* between any two of their steps.                                          *)
THEOREM RuntimeRunsDutyCycle == Spec => RunsDutyCycle
<1>1. Init => Cycle!Init
  BY DEF Init, worker_pool_init, Cycle!Init, Mode, Ends
<1>2. IInv /\ IInv' /\ [Next]_vars => [Cycle!Next]_Cycle!vars
  BY NextCycle
<1> QED
  BY <1>1, <1>2, RuntimeInvariant, PTL DEF Spec, RunsDutyCycle, Cycle!Spec
=============================================================================
