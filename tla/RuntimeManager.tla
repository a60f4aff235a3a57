--------------------------- MODULE RuntimeManager ---------------------------
(***************************************************************************)
(* The runtime of the watch: the four-state power machine of               *)
(* managers/runtime_manager.c, the worker pool (worker_pool.c), the two    *)
(* watchdog timers of every worker (watchdog.c), the early curfew          *)
(* (worker_mgmt.c) and the once-a-second work tick (event_manager.c).      *)
(*                                                                         *)
(* Contexts that interleave: the pool workers, the maintenance thread, the *)
(* system work queue that runs the tick, and the timer interrupts.  The    *)
(* board has one CPU, so a spin-locked section and a timer callback are    *)
(* each one atomic step; everything else a thread does is cut at every     *)
(* access to state that another context shares.  Timers are untimed: an    *)
(* armed one may expire at any moment.                                     *)
(***************************************************************************)
EXTENDS Integers, Sequences, FiniteSets

CONSTANTS
  Workers,        \* the slots of worker_threads[]
  Maint,          \* the sys_maintenance thread
  ActiveTargets,  \* states the work tick may ask for
  QueueCap,       \* capacity of runtime_msgq
  MaintCap,       \* capacity of sys_maint_msgq
  MaxRespawns     \* bound: hard watchdog expiries in one behaviour

ActiveStates == {"UI_ACTIVE", "BACKGROUND_ACTIVE"}

ASSUME RuntimeAssumption ==
  /\ IsFiniteSet(Workers) /\ Maint \notin Workers
  /\ ActiveTargets \subseteq ActiveStates
  /\ QueueCap \in Nat \ {0} /\ MaintCap \in Nat \ {0} /\ MaxRespawns \in Nat

VARIABLES
  state,      \* current_state
  hooks,      \* active_hook_count
  timers,     \* the armed timers among window, grace and settlement
  pending,    \* messages stored in runtime_msgq
  maintq,     \* messages stored in sys_maint_msgq
  active,     \* active_worker_count
  suspended,  \* workers suspended by the pool
  soft,       \* workers whose soft watchdog is armed
  hard,       \* workers whose hard watchdog is armed
  abort,      \* workers whose abort flag is set
  pc,         \* where each thread is
  tick,       \* where the work tick handler is
  respawns    \* history: workers re-created by the hard watchdog

vars == <<state, hooks, timers, pending, maintq, active, suspended,
          soft, hard, abort, pc, tick, respawns>>
watchdogs == <<soft, hard, abort>>

-----------------------------------------------------------------------------
(* Program counters *)

(* Both thread loops call k_msgq_get at "get", and block at "pend" when the *)
(* queue is empty: a later put hands its message to a blocked thread        *)
(* without storing it, also when that thread is suspended.                  *)
LoopLabels == {"get", "pend", "ev_state", "ev_work", "ev_maint", "ev_arm"}
WorkerLabels == {"got", "interrupt", "inc", "clear_flag", "start_soft", "run",
                 "stop_soft", "stop_hard", "stop_flag", "dec", "count"}
MaintItems == {"rx", "hook"}
MaintLabels == MaintItems \cup {"rx_put", "check", "drain", "gate"}

Threads == Workers \cup {Maint}

(* Labels between atomic_inc and atomic_dec of active_worker_count. *)
CountedLabels == {"clear_flag", "start_soft", "run", "stop_soft", "stop_hard",
                  "stop_flag", "dec"}
InFlight == {w \in Workers : pc[w] \in CountedLabels}

Runnable(t) == t \notin suspended
Goto(t, label) == [pc EXCEPT ![t] = label]

-----------------------------------------------------------------------------
(* Queues *)

has_work_queue_only == pending > 0  \* mutant: the running workers forgotten
(* The counter is read, then the queue; where worker_pool_has_work is used  *)
(* without the lock the two reads are one step.                             *)
worker_pool_has_work == active > 0 \/ pending > 0
is_system_completely_idle == ~worker_pool_has_work /\ maintq = <<>>

(* k_msgq_put on sys_maint_msgq, given the program counters p of the step   *)
(* that makes the call: hand over to a blocked maintenance thread, else     *)
(* store, else (full, K_NO_WAIT) drop.                                      *)
PutMaint(p, item) ==
  \/ /\ p[Maint] = "pend"
     /\ pc' = [p EXCEPT ![Maint] = item]
     /\ UNCHANGED maintq
  \/ /\ p[Maint] # "pend"
     /\ pc' = p
     /\ maintq' = IF Len(maintq) < MaintCap THEN Append(maintq, item) ELSE maintq

-----------------------------------------------------------------------------
(* Transitions of the state machine; each is a spin-locked section *)

(* Mutants: one of the two calls missing *)
AbortAllOnly == abort' = Workers /\ UNCHANGED suspended
SuspendAllOnly == suspended' = Workers /\ UNCHANGED abort

(* watchdog_force_all_cooperative_abort and worker_pool_suspend_all *)
AbortAndSuspendAll == abort' = Workers /\ suspended' = Workers

(* k_msgq_purge drops the messages; a thread that waits for one comes out   *)
(* of k_msgq_get with -ENOMSG, and goes back to it once it runs again.      *)
worker_pool_purge_queue ==
  /\ pending' = 0
  /\ pc' = [t \in Threads |-> IF t \in Workers /\ pc[t] = "pend" THEN "get" ELSE pc[t]]

CurfewTimersNoGrace == timers \ {"window", "settlement"}  \* mutant
CurfewTimers == (timers \ {"window", "settlement"}) \cup {"grace"}

(* execute_curfew_transition_locked called by a step with counters p *)
ExecuteCurfew(p) ==
  IF hooks = 0 /\ ~worker_pool_has_work
  THEN /\ timers' = timers \ {"window", "settlement"}
       /\ state' = "SLEEP"
       /\ suspended' = Workers
       /\ pc' = p
       /\ UNCHANGED <<hooks, maintq>>
  ELSE /\ timers' = CurfewTimers
       /\ state' = "GRACE_PERIOD"
       /\ IF hooks = 0 THEN pc' = p /\ UNCHANGED maintq ELSE PutMaint(p, "hook")
       /\ hooks' = 0
       /\ UNCHANGED suspended

(* runtime_manager_demote_to_curfew *)
DemoteToCurfew(p) ==
  IF state \in ActiveStates
  THEN ExecuteCurfew(p)
  ELSE pc' = p /\ UNCHANGED <<state, hooks, timers, maintq, suspended>>

-----------------------------------------------------------------------------
(* The work tick, on the system work queue *)

(* Mutant: only the workers that wait for an item *)
ResumeWaitingOnly == suspended' = {w \in suspended : pc[w] \notin {"get", "pend"}}
worker_pool_resume_all == suspended' = {}

(* The hooks of the request replace the registered ones.  Mutant: they are  *)
(* not copied.                                                              *)
RegisterNoHooks(count) == UNCHANGED hooks
RegisterHooks(count) == hooks' = count

(* set_runtime_state_with_hooks(target, {populate_tx_buffers}, 1) *)
TickState(target) ==
  /\ tick = "idle"
  /\ tick' = "queue"
  /\ IF state = target
     THEN UNCHANGED <<state, timers, suspended, hooks>>
     ELSE /\ state' = target
          /\ timers' = (timers \ {"settlement"}) \cup {"window"}
          /\ worker_pool_resume_all
          /\ RegisterHooks(1)
  /\ UNCHANGED <<pending, maintq, active, watchdogs, pc, respawns>>

(* add_system_work(process_rx_buffers) *)
TickQueue ==
  /\ tick = "queue"
  /\ tick' = "idle"
  /\ PutMaint(pc, "rx")
  /\ UNCHANGED <<state, hooks, timers, pending, active, suspended, watchdogs,
                 respawns>>

-----------------------------------------------------------------------------
(* Timer interrupts *)

WindowExpiry ==
  /\ "window" \in timers
  /\ IF state \in ActiveStates
     THEN ExecuteCurfew(pc)
     ELSE /\ timers' = timers \ {"window"}
          /\ UNCHANGED <<state, hooks, maintq, suspended, pc>>
  /\ UNCHANGED <<pending, active, watchdogs, tick, respawns>>

GraceExpiry ==
  /\ "grace" \in timers
  /\ timers' = timers \ {"grace"}
  /\ IF state = "GRACE_PERIOD"
     THEN AbortAndSuspendAll /\ worker_pool_purge_queue /\ state' = "SLEEP"
     ELSE UNCHANGED <<abort, suspended, pending, pc, state>>
  /\ UNCHANGED <<hooks, maintq, active, soft, hard, tick, respawns>>

(* curfew_settlement_expiry; in GRACE_PERIOD it calls                       *)
(* set_runtime_state_with_hooks(STATE_SLEEP, NULL, 0).                      *)
SettlementExpiry ==
  /\ "settlement" \in timers
  /\ \/ /\ state \in ActiveStates /\ is_system_completely_idle
        /\ ExecuteCurfew(pc)
        /\ UNCHANGED <<pending, abort>>
     \/ /\ state = "GRACE_PERIOD" /\ is_system_completely_idle
        /\ timers' = {}
        /\ AbortAndSuspendAll /\ worker_pool_purge_queue /\ state' = "SLEEP"
        /\ UNCHANGED <<hooks, maintq>>
     \/ /\ state = "SLEEP" \/ ~is_system_completely_idle
        /\ timers' = timers \ {"settlement"}
        /\ UNCHANGED <<state, hooks, pending, maintq, abort, suspended, pc>>
  /\ UNCHANGED <<active, soft, hard, tick, respawns>>

(* Mutant: the hard timer is not started *)
SoftExpiryNoHard(w) ==
  /\ w \in soft
  /\ soft' = soft \ {w}
  /\ abort' = abort \cup {w}
  /\ UNCHANGED <<state, hooks, timers, pending, maintq, active, suspended, pc,
                 tick, respawns, hard>>

(* user_app_soft_wd_expiry *)
SoftExpiry(w) ==
  /\ w \in soft
  /\ soft' = soft \ {w}
  /\ hard' = hard \cup {w}
  /\ abort' = abort \cup {w}
  /\ UNCHANGED <<state, hooks, timers, pending, maintq, active, suspended, pc,
                 tick, respawns>>

(* The slot of a killed worker starts again, with its timers stopped and    *)
(* not suspended.                                                           *)
worker_pool_recover_stalled_runner(w) ==
  /\ soft' = soft \ {w}
  /\ hard' = hard \ {w}
  /\ abort' = abort \ {w}
  /\ pc' = Goto(w, "get")
  /\ suspended' = suspended \ {w}
  /\ respawns' = respawns + 1

(* user_app_hard_wd_expiry *)
HardExpiry(w) ==
  /\ w \in hard
  /\ respawns < MaxRespawns
  /\ worker_pool_recover_stalled_runner(w)
  /\ UNCHANGED <<state, hooks, timers, pending, maintq, active, tick>>

-----------------------------------------------------------------------------
(* runtime_manager_evaluate_early_curfew, on any thread; it reads the state *)
(* and the queues without the lock, then acts on what it read.              *)

EvalState(t) ==
  /\ Runnable(t) /\ pc[t] = "ev_state"
  /\ pc' = Goto(t, IF state = "SLEEP" THEN "get" ELSE "ev_work")
  /\ UNCHANGED <<state, hooks, timers, pending, maintq, active, suspended,
                 watchdogs, tick, respawns>>

EvalWork(t) ==
  /\ Runnable(t) /\ pc[t] = "ev_work"
  /\ pc' = Goto(t, IF worker_pool_has_work THEN "get" ELSE "ev_maint")
  /\ UNCHANGED <<state, hooks, timers, pending, maintq, active, suspended,
                 watchdogs, tick, respawns>>

EvalMaint(t) ==
  /\ Runnable(t) /\ pc[t] = "ev_maint"
  /\ pc' = Goto(t, IF maintq = <<>> THEN "ev_arm" ELSE "get")
  /\ UNCHANGED <<state, hooks, timers, pending, maintq, active, suspended,
                 watchdogs, tick, respawns>>

(* An armed settlement timer ends the evaluation, unless less than a        *)
(* millisecond remains on it, which k_timer_remaining_get reads as 0.       *)
(* Whether the window has time left is a choice, time being abstract.       *)
EvalArm(t) ==
  /\ Runnable(t) /\ pc[t] = "ev_arm"
  /\ \/ /\ timers' = timers \cup {"settlement"}
        /\ pc' = Goto(t, "get")
        /\ UNCHANGED <<state, hooks, maintq, suspended>>
     \/ DemoteToCurfew(Goto(t, "get"))
  /\ UNCHANGED <<pending, active, watchdogs, tick, respawns>>

Eval(t) == EvalState(t) \/ EvalWork(t) \/ EvalMaint(t) \/ EvalArm(t)

-----------------------------------------------------------------------------
(* pool_worker_entry *)

WorkerGet(w) ==
  /\ Runnable(w) /\ pc[w] = "get"
  /\ \/ pending = 0 /\ pc' = Goto(w, "pend") /\ UNCHANGED pending
     \/ pending > 0 /\ pc' = Goto(w, "got") /\ pending' = pending - 1
  /\ UNCHANGED <<state, hooks, timers, maintq, active, suspended, watchdogs,
                 tick, respawns>>

(* Mutant: a refused item leaves through the end of the loop body *)
WorkerCheckStateFallThrough(w) ==
  /\ Runnable(w) /\ pc[w] = "got"
  /\ pc' = Goto(w, IF state = "SLEEP" THEN "dec" ELSE "interrupt")
  /\ UNCHANGED <<state, hooks, timers, pending, maintq, active, suspended,
                 watchdogs, tick, respawns>>

WorkerCheckState(w) ==
  /\ Runnable(w) /\ pc[w] = "got"
  /\ pc' = Goto(w, IF state = "SLEEP" THEN "get" ELSE "interrupt")
  /\ UNCHANGED <<state, hooks, timers, pending, maintq, active, suspended,
                 watchdogs, tick, respawns>>

WorkerInterruptSettlement(w) ==
  /\ Runnable(w) /\ pc[w] = "interrupt"
  /\ timers' = timers \ {"settlement"}
  /\ pc' = Goto(w, "inc")
  /\ UNCHANGED <<state, hooks, pending, maintq, active, suspended, watchdogs,
                 tick, respawns>>

WorkerInc(w) ==
  /\ Runnable(w) /\ pc[w] = "inc"
  /\ active' = active + 1
  /\ pc' = Goto(w, "clear_flag")
  /\ UNCHANGED <<state, hooks, timers, pending, maintq, suspended, watchdogs,
                 tick, respawns>>

(* watchdog_start_user_app: first the flag, then the timer *)
WatchdogStart(w) ==
  /\ Runnable(w)
  /\ \/ /\ pc[w] = "clear_flag"
        /\ abort' = abort \ {w}
        /\ pc' = Goto(w, "start_soft")
        /\ UNCHANGED soft
     \/ /\ pc[w] = "start_soft"
        /\ soft' = soft \cup {w}
        /\ pc' = Goto(w, "run")
        /\ UNCHANGED abort
  /\ UNCHANGED <<state, hooks, timers, pending, maintq, active, suspended,
                 hard, tick, respawns>>

(* Mutant: the soft timer is not stopped *)
HandlerReturnsSoftArmed(w) ==
  /\ Runnable(w) /\ pc[w] = "run"
  /\ pc' = Goto(w, "stop_hard")
  /\ UNCHANGED <<state, hooks, timers, pending, maintq, active, suspended,
                 watchdogs, tick, respawns>>

(* item.handler returns *)
HandlerReturns(w) ==
  /\ Runnable(w) /\ pc[w] = "run"
  /\ pc' = Goto(w, "stop_soft")
  /\ UNCHANGED <<state, hooks, timers, pending, maintq, active, suspended,
                 watchdogs, tick, respawns>>

(* watchdog_stop_user_app: soft timer, hard timer, flag, in this order *)
WatchdogStop(w) ==
  /\ Runnable(w)
  /\ \/ /\ pc[w] = "stop_soft"
        /\ soft' = soft \ {w}
        /\ pc' = Goto(w, "stop_hard")
        /\ UNCHANGED <<hard, abort>>
     \/ /\ pc[w] = "stop_hard"
        /\ hard' = hard \ {w}
        /\ pc' = Goto(w, "stop_flag")
        /\ UNCHANGED <<soft, abort>>
     \/ /\ pc[w] = "stop_flag"
        /\ abort' = abort \ {w}
        /\ pc' = Goto(w, "dec")
        /\ UNCHANGED <<soft, hard>>
  /\ UNCHANGED <<state, hooks, timers, pending, maintq, active, suspended,
                 tick, respawns>>

WorkerDec(w) ==
  /\ Runnable(w) /\ pc[w] = "dec"
  /\ active' = active - 1
  /\ pc' = Goto(w, "count")
  /\ UNCHANGED <<state, hooks, timers, pending, maintq, suspended, watchdogs,
                 tick, respawns>>

WorkerCount(w) ==
  /\ Runnable(w) /\ pc[w] = "count"
  /\ pc' = Goto(w, IF active = 0 THEN "ev_state" ELSE "get")
  /\ UNCHANGED <<state, hooks, timers, pending, maintq, active, suspended,
                 watchdogs, tick, respawns>>

(* The worker's own code, the handler of its item apart *)
WorkerCode(w) ==
  \/ WorkerGet(w) \/ WorkerCheckState(w) \/ WorkerInterruptSettlement(w)
  \/ WorkerInc(w) \/ WatchdogStart(w) \/ WatchdogStop(w)
  \/ WorkerDec(w) \/ WorkerCount(w) \/ Eval(w)

-----------------------------------------------------------------------------
(* sys_maint_thread_entry *)

MaintGet ==
  /\ pc[Maint] = "get"
  /\ \/ maintq = <<>> /\ pc' = Goto(Maint, "pend") /\ UNCHANGED maintq
     \/ maintq # <<>> /\ pc' = Goto(Maint, Head(maintq)) /\ maintq' = Tail(maintq)
  /\ UNCHANGED <<state, hooks, timers, pending, active, suspended, watchdogs,
                 tick, respawns>>

(* While process_rx_buffers parses messages, an application's answer is     *)
(* scheduled with add_user_work, which refuses it in STATE_SLEEP and        *)
(* otherwise puts it on runtime_msgq, after the state was read.             *)
AddUserWorkCheck ==
  /\ pc[Maint] = "rx" /\ state # "SLEEP"
  /\ pc' = Goto(Maint, "rx_put")
  /\ UNCHANGED <<state, hooks, timers, pending, maintq, active, suspended,
                 watchdogs, tick, respawns>>

RoomOffByOne == pending <= QueueCap  \* mutant
RoomInQueue == pending < QueueCap

AddUserWorkPut ==
  /\ pc[Maint] = "rx_put"
  /\ \/ \E w \in Workers :
          /\ pc[w] = "pend"
          /\ pc' = [pc EXCEPT ![Maint] = "rx", ![w] = "got"]
          /\ UNCHANGED pending
     \/ /\ \A w \in Workers : pc[w] # "pend"
        /\ pc' = Goto(Maint, "rx")
        /\ pending' = IF RoomInQueue THEN pending + 1 ELSE pending
  /\ UNCHANGED <<state, hooks, timers, maintq, active, suspended, watchdogs,
                 tick, respawns>>

(* The item's handler, process_rx_buffers or the curfew hook, returns. *)
MaintReturns ==
  /\ pc[Maint] \in MaintItems
  /\ pc' = Goto(Maint, "check")
  /\ UNCHANGED <<state, hooks, timers, pending, maintq, active, suspended,
                 watchdogs, tick, respawns>>

MaintCheckQueue ==
  /\ pc[Maint] = "check"
  /\ pc' = Goto(Maint, IF maintq = <<>> THEN "drain" ELSE "gate")
  /\ UNCHANGED <<state, hooks, timers, pending, maintq, active, suspended,
                 watchdogs, tick, respawns>>

(* The locked section that goes to sleep early when nothing is left. *)
MaintDrain ==
  /\ pc[Maint] = "drain"
  /\ pc' = Goto(Maint, "gate")
  /\ IF state = "GRACE_PERIOD" /\ ~worker_pool_has_work
     THEN /\ timers' = timers \ {"grace"}
          /\ AbortAndSuspendAll
          /\ state' = "SLEEP"
     ELSE UNCHANGED <<timers, abort, suspended, state>>
  /\ UNCHANGED <<hooks, pending, maintq, active, soft, hard, tick, respawns>>

MaintGate ==
  /\ pc[Maint] = "gate"
  /\ pc' = Goto(Maint, IF state \in ActiveStates THEN "ev_state" ELSE "get")
  /\ UNCHANGED <<state, hooks, timers, pending, maintq, active, suspended,
                 watchdogs, tick, respawns>>

MaintThread ==
  \/ MaintGet \/ AddUserWorkCheck \/ AddUserWorkPut \/ MaintReturns
  \/ MaintCheckQueue \/ MaintDrain \/ MaintGate \/ Eval(Maint)

-----------------------------------------------------------------------------
(* runtime_manager_init: every worker created, then suspended before it ran *)
worker_pool_init ==
  /\ active = 0 /\ suspended = Workers

Init ==
  /\ state = "SLEEP" /\ hooks = 0 /\ timers = {}
  /\ pending = 0 /\ maintq = <<>>
  /\ worker_pool_init
  /\ soft = {} /\ hard = {} /\ abort = {}
  /\ pc = [t \in Threads |-> "get"]
  /\ tick = "idle" /\ respawns = 0

Timers == WindowExpiry \/ GraceExpiry \/ SettlementExpiry

Next ==
  \/ \E target \in ActiveTargets : TickState(target)
  \/ TickQueue
  \/ Timers
  \/ \E w \in Workers : SoftExpiry(w) \/ HardExpiry(w) \/ WorkerCode(w)
                        \/ HandlerReturns(w)
  \/ MaintThread

Spec == Init /\ [][Next]_vars

(* Fairness.  A started kernel timer expires unless it is stopped, the tick  *)
(* re-arms itself before it does anything else (timers.c), and a worker that *)
(* is resumed window after window gets the CPU in one of them: windows last  *)
(* 160 ms or more and the other threads block.  Nothing is assumed of the    *)
(* handlers: they may never return.                                          *)
FairSpec ==
  /\ Spec
  /\ WF_vars(WindowExpiry) /\ WF_vars(GraceExpiry) /\ WF_vars(TickQueue)
  /\ \A w \in Workers : /\ WF_vars(SoftExpiry(w)) /\ WF_vars(HardExpiry(w))
                        /\ SF_vars(WorkerCode(w))

-----------------------------------------------------------------------------
(* Properties *)

(* Every variable stays in its range; in particular neither message queue   *)
(* (worker_pool.c:13, runtime_manager.c:12) holds more than its capacity.   *)
TypeOK ==
  /\ state \in ActiveStates \cup {"SLEEP", "GRACE_PERIOD"}
  /\ hooks \in {0, 1}
  /\ timers \subseteq {"window", "grace", "settlement"}
  /\ pending \in 0..QueueCap
  /\ maintq \in Seq(MaintItems) /\ Len(maintq) <= MaintCap
  /\ active \in Int /\ respawns \in Nat
  /\ suspended \subseteq Workers
  /\ soft \subseteq Workers /\ hard \subseteq Workers /\ abort \subseteq Workers
  /\ pc \in [Threads -> LoopLabels \cup WorkerLabels \cup MaintLabels]
  /\ pc[Maint] \in LoopLabels \cup MaintLabels
  /\ \A w \in Workers : pc[w] \in LoopLabels \cup WorkerLabels
  /\ tick \in {"idle", "queue"}

(* A state that must end has the timer that ends it armed: no interleaving  *)
(* of early curfew, tick, drain and expiries leaves a work window or a      *)
(* grace period that nothing terminates.                                    *)
DeadlineArmed ==
  /\ state \in ActiveStates => "window" \in timers
  /\ state = "GRACE_PERIOD" => "grace" \in timers

(* In STATE_SLEEP the only unsuspended workers are ones the hard watchdog   *)
(* re-created, and they are still at the head of their loop: no handler     *)
(* advances while the watch sleeps.                                         *)
SleepQuiet ==
  state = "SLEEP" =>
    \A w \in Workers : w \in suspended \/ pc[w] \in {"get", "pend", "got"}

(* The watchdog timers of a slot are armed only while that slot is inside   *)
(* its item, never both, and every running handler has one of them armed:   *)
(* a late expiry cannot kill a worker that is between two items, and no     *)
(* handler runs unwatched, suspended ones included.                         *)
WatchdogOwned ==
  \A w \in Workers :
    /\ w \in soft => pc[w] \in {"run", "stop_soft"}
    /\ w \in hard => pc[w] \in {"run", "stop_soft", "stop_hard"}
    /\ w \notin soft \cap hard
    /\ pc[w] = "run" => w \in soft \cup hard

(* A worker is never killed without having been asked to stop, and one that *)
(* the system put to sleep inside its item finds its abort flag set when it *)
(* is resumed.                                                              *)
AbortDelivered ==
  /\ hard \subseteq abort
  /\ state = "SLEEP" => InFlight \subseteq abort

(* active_worker_count is the number of workers inside an item plus the     *)
(* number of workers the hard watchdog ever re-created: the exact account,  *)
(* whatever the order of increments, decrements, suspensions and kills.     *)
CountExact == active = Cardinality(InFlight) + respawns

(* Only the expiry of the grace period puts the watch to sleep over a       *)
(* worker that is inside its item; the early ways (drained maintenance      *)
(* queue, settlement) never do.                                             *)
EarlySleepDrains ==
  [][state # "SLEEP" /\ state' = "SLEEP" /\ InFlight # {} => GraceExpiry]_vars

(* The duty cycle seen from outside: the two active states are one mode,    *)
(* and its deadline is the timer that ends it.                              *)
Mode ==
  IF state = "SLEEP" THEN "asleep"
  ELSE IF state \in ActiveStates THEN "awake" ELSE "draining"

Ends ==
  \/ state \in ActiveStates /\ "window" \in timers
  \/ state = "GRACE_PERIOD" /\ "grace" \in timers

Told == abort \cap InFlight

Cycle == INSTANCE DutyCycle WITH
  mode <- Mode, ends <- Ends, hook <- hooks = 1, inside <- InFlight, told <- Told

(* The runtime keeps this cycle: a window ends by handing its hook over, in *)
(* the grace period, never straight in sleep; asleep no worker gets into or *)
(* out of an item unless killed, and nobody is killed or left inside who    *)
(* has not been told, whatever expires or interleaves.                      *)
RunsDutyCycle == Cycle!Spec

TicksForever == []<><<\E target \in ActiveTargets : TickState(target)>>_vars

(* If the ticks cease, the watch ends asleep, whatever the handlers do.     *)
QuietSleeps == TicksForever \/ <>[](state = "SLEEP")

(* A handler that never returns is reclaimed by the watchdog pair, also     *)
(* when its worker is suspended (up to the bound on respawns).              *)
StuckHandlerReclaimed ==
  \A w \in Workers :
    pc[w] = "run" ~> (pc[w] # "run" \/ respawns = MaxRespawns)

(* As long as the ticks go on, an item handed to a worker, even a suspended *)
(* one, is started or refused in the end.                                   *)
HeldItemResolved ==
  TicksForever => \A w \in Workers : pc[w] = "got" ~> pc[w] \in {"run", "get"}

(* What "Re-initializing" a slot (watchdog.c:26) would mean for the         *)
(* counter that counts the busy slots: a re-created worker is not busy.     *)
CountMatchesBusySlots == active = Cardinality(InFlight)
=============================================================================
