----------------------------- MODULE LiveRunner -----------------------------
(***************************************************************************)
(* LiveRunner (packages/agent/runner/live.py) over the order path: its     *)
(* state, its kill switch flag, the reconciliation of journal and broker   *)
(* that must pass before it runs and again while it runs                   *)
(* (packages/agent/reconciliation/reconciler.py), and the batch of intents *)
(* of a tick, executed one after the other.                                *)
(*                                                                         *)
(* A LIVE run with reconciliation and kill switch enabled, the defaults.   *)
(* Ticks come one after the other, on an element of Threads; control calls *)
(* and portfolio updates come from Callers, kill switch callbacks among    *)
(* them.  The runner holds no lock, so each check of the flag or the state *)
(* and each assignment of them is a step of its own, and all of them       *)
(* interleave.  Flag and state live in memory: a restarted process has a   *)
(* new runner.                                                             *)
(***************************************************************************)
EXTENDS LiveExecution

CONSTANTS
    KillErrors,   \* hard_caps.kill_switch_error_count
    Callers       \* threads that call the runner, other than for ticks

ASSUME KillErrorsAssumption == KillErrors \in Nat \ {0}

ASSUME CallersAssumption == Callers \cap Threads = {}

Actors == Callers \cup Threads

VARIABLES
    rstate,     \* RunnerState
    ready,      \* a strategy was given to initialize()
    pc,         \* where each thread is in start, pause, resume, process_tick
    kill,       \* where it is in _trigger_kill_switch: the write that is next
    killed,     \* _kill_switch_triggered
    errors,     \* _errors_today, counted up to KillErrors
    batch,      \* intents of the current tick still to be executed
    raced,      \* history: the flag was set while a start() or resume() had
                \* checked it and not yet assigned RUNNING
    slipped     \* history: the flag was cleared while a start() that failed to
                \* reconcile had not checked it; until a reconciliation passes

control == <<rstate, ready, pc, kill, killed>>
history == <<raced, slipped>>
runnerVars == <<control, errors, batch, history>>
liveVars == <<vars, runnerVars>>

RunnerState == {"idle", "running", "paused", "stopped", "error"}
Place == {"idle", "startFlag", "reconcile", "passed", "halted", "run", "pause",
          "resumeFlag", "tickState", "tickReconcile", "tickFlag"}

RunnerTypeOK ==
    /\ TypeOK
    /\ rstate \in RunnerState
    /\ ready \in BOOLEAN
    /\ pc \in [Actors -> Place]
    /\ kill \in [Actors -> {"no", "flag", "state"}]
    /\ killed \in BOOLEAN
    /\ errors \in 0..KillErrors
    /\ batch \in SUBSET Orders
    /\ raced \in BOOLEAN
    /\ slipped \in BOOLEAN

LiveInit ==
    /\ Init
    /\ rstate = "idle"
    /\ ready = FALSE
    /\ pc = [a \in Actors |-> "idle"]
    /\ kill = [a \in Actors |-> "no"]
    /\ killed = FALSE
    /\ errors = 0
    /\ batch = {}
    /\ raced = FALSE
    /\ slipped = FALSE

\* A thread outside the runner, and one inside at l that may go on from there.
Free(a) == pc[a] = "idle" /\ kill[a] = "no"
At(a, l) == pc[a] = l /\ kill[a] = "no"
Move(a, l) == pc' = [pc EXCEPT ![a] = l]

\* No intent is being executed.
BetweenIntents == \A t \in Threads : Free(t) /\ at[t] = "idle"

-----------------------------------------------------------------------------
(* _trigger_kill_switch: it returns if the flag is set; otherwise it sets   *)
(* the flag, then the state.  The caller goes on when it has returned.      *)

trigger_kill_switch(a) ==
    kill' = [kill EXCEPT ![a] = IF killed THEN "no" ELSE "flag"]

KillFlag(a) ==
    /\ kill[a] = "flag"
    /\ kill' = [kill EXCEPT ![a] = "state"]
    /\ killed' = TRUE
    /\ raced' = (raced \/ \E b \in Actors : pc[b] = "run")
    /\ UNCHANGED <<rstate, ready, pc, errors, batch, slipped, vars>>

KillState(a) ==
    /\ kill[a] = "state"
    /\ kill' = [kill EXCEPT ![a] = "no"]
    /\ rstate' = "error"
    /\ UNCHANGED <<ready, pc, killed, errors, batch, history, vars>>

-----------------------------------------------------------------------------
(* PositionReconciler.reconcile_orders.                                     *)

Unresolved == {c \in Orders : journal[c] \in UnresolvedStatus}

\* What the status callback makes of the broker's record (external).  An
\* order the broker does not know is None, which is written as UNKNOWN.
BrokerAnswer(c) ==
    CASE broker[c].st = "none" -> "unknown"
      [] broker[c].st = "open" -> "submitted"
      [] broker[c].st = "filled" -> "confirmed"
      [] broker[c].st \in {"cancelled", "expired"} -> "cancelled"
      [] broker[c].st = "rejected" -> "rejected"

Resolve(S) == journal' = [c \in Orders |-> IF c \in S THEN BrokerAnswer(c)
                                           ELSE journal[c]]

\* Every unresolved row got a final status.
ReconcilePasses ==
    /\ \A c \in Unresolved : BrokerAnswer(c) \notin UnresolvedStatus
    /\ Resolve(Unresolved)

\* The rows S were rewritten before a callback raised (positions, or the
\* status of a row outside S), before a row the broker does not know ended
\* the loop, or all of them were and one is still unresolved.
ReconcileHalts ==
    \E S \in SUBSET Unresolved :
        /\ Cardinality({c \in S : broker[c].st = "none"}) <= 1
        /\ \/ S # Unresolved
           \/ S = {}
           \/ \E c \in S : BrokerAnswer(c) \in UnresolvedStatus
        /\ Resolve(S)

\* The engine is not involved.
EngineIdle == UNCHANGED <<entryOf, memory, broker, sends, threadVars,
                          crashes>>

-----------------------------------------------------------------------------
(* Control operations.                                                      *)

\* Callers initialize a runner that is not trading.
initialize ==
    /\ rstate \notin {"running", "paused"}
    /\ batch = {} /\ BetweenIntents /\ \A u \in Callers : pc[u] = "idle"
    /\ ready' = TRUE
    /\ \E s \in {"idle", "error"} : rstate' = s
    /\ UNCHANGED <<pc, kill, killed, errors, batch, history, vars>>

\* start(): state and strategy, the flag, reconciliation, the flag again, and
\* the assignment of RUNNING.
StartCall(u) ==
    /\ Free(u)
    /\ rstate \in {"idle", "stopped"}
    /\ ready
    /\ Move(u, "startFlag")
    /\ UNCHANGED <<rstate, ready, kill, killed, errors, batch, history, vars>>

StartFlag(u) ==
    /\ At(u, "startFlag")
    /\ Move(u, IF killed THEN "idle" ELSE "reconcile")
    /\ UNCHANGED <<rstate, ready, kill, killed, errors, batch, history, vars>>

\* Mutant: start() does not reconcile.
StartReconcileBlind(u) ==
    /\ At(u, "reconcile")
    /\ Move(u, "passed")
    /\ UNCHANGED <<rstate, ready, kill, killed, errors, batch, history, vars>>

StartReconcile(u) ==
    /\ At(u, "reconcile")
    /\ \/ /\ ReconcilePasses
          /\ Move(u, "passed")
          /\ slipped' = FALSE
          /\ UNCHANGED kill
       \/ /\ ReconcileHalts
          /\ Move(u, "halted")
          /\ trigger_kill_switch(u)
          /\ UNCHANGED slipped
    /\ UNCHANGED <<rstate, ready, killed, errors, batch, raced>>
    /\ EngineIdle

\* Mutant: start() does not look at the flag again after reconciling.
StartCheckUnflagged(u) ==
    /\ At(u, "passed")
    /\ Move(u, "run")
    /\ UNCHANGED <<rstate, ready, kill, killed, errors, batch, history, vars>>

StartCheck(u) ==
    /\ At(u, "passed") \/ At(u, "halted")
    /\ Move(u, IF killed THEN "idle" ELSE "run")
    /\ UNCHANGED <<rstate, ready, kill, killed, errors, batch, history, vars>>

\* The last step of start() and of resume().
AssignRunning(u) ==
    /\ At(u, "run")
    /\ rstate' = "running"
    /\ Move(u, "idle")
    /\ UNCHANGED <<ready, kill, killed, errors, batch, history, vars>>

\* Its two assignments, STOPPING and STOPPED, have no check between them.
stop(u) ==
    /\ Free(u)
    /\ rstate # "stopped"
    /\ rstate' = "stopped"
    /\ UNCHANGED <<ready, pc, kill, killed, errors, batch, history, vars>>

pause(u) ==
    /\ Free(u)
    /\ rstate = "running"
    /\ Move(u, "pause")
    /\ UNCHANGED <<rstate, ready, kill, killed, errors, batch, history, vars>>

AssignPaused(u) ==
    /\ At(u, "pause")
    /\ rstate' = "paused"
    /\ Move(u, "idle")
    /\ UNCHANGED <<ready, kill, killed, errors, batch, history, vars>>

resume(u) ==
    /\ Free(u)
    /\ rstate = "paused"
    /\ Move(u, "resumeFlag")
    /\ UNCHANGED <<rstate, ready, kill, killed, errors, batch, history, vars>>

ResumeFlag(u) ==
    /\ At(u, "resumeFlag")
    /\ Move(u, IF killed THEN "idle" ELSE "run")
    /\ UNCHANGED <<rstate, ready, kill, killed, errors, batch, history, vars>>

\* update_portfolio() with a loss or drawdown beyond the hard cap.
PortfolioAlarm(u) ==
    /\ Free(u)
    /\ trigger_kill_switch(u)
    /\ UNCHANGED <<rstate, ready, pc, killed, errors, batch, history, vars>>

\* The flag is cleared; the state stays what it is.
reset_kill_switch ==
    /\ killed
    /\ killed' = FALSE
    /\ raced' = FALSE
    /\ slipped' = (slipped \/ \E u \in Callers : pc[u] = "halted" /\ kill[u] # "flag")
    /\ UNCHANGED <<rstate, ready, pc, kill, errors, batch, vars>>

-----------------------------------------------------------------------------
(* process_tick and process_intents.                                        *)

\* The flag, then state and strategy.
TickCheck(t) ==
    /\ batch = {} /\ BetweenIntents
    /\ ~killed
    /\ Move(t, "tickState")
    /\ UNCHANGED <<rstate, ready, kill, killed, errors, batch, history, vars>>

TickState(t) ==
    /\ At(t, "tickState")
    /\ Move(t, IF rstate = "running" /\ ready THEN "tickReconcile" ELSE "idle")
    /\ UNCHANGED <<rstate, ready, kill, killed, errors, batch, history, vars>>

\* Reconciliation may be due.
TickReconcile(t) ==
    /\ At(t, "tickReconcile")
    /\ Move(t, "tickFlag")
    /\ \/ UNCHANGED <<journal, kill, slipped>>
       \/ ReconcilePasses /\ slipped' = FALSE /\ UNCHANGED kill
       \/ ReconcileHalts /\ trigger_kill_switch(t) /\ UNCHANGED slipped
    /\ UNCHANGED <<rstate, ready, killed, errors, batch, raced>>
    /\ EngineIdle

\* The flag again, and the strategy answers with some intents.
TickIntents(t) ==
    /\ At(t, "tickFlag")
    /\ Move(t, "idle")
    /\ IF killed THEN UNCHANGED batch ELSE \E S \in SUBSET Orders : batch' = S
    /\ UNCHANGED <<rstate, ready, kill, killed, errors, history, vars>>

\* The next intent goes to the engine.  Nothing is looked at in between.
NextIntent(t) ==
    /\ BetweenIntents
    /\ \E c \in batch : ExecuteCall(t, c) /\ batch' = batch \ {c}
    /\ UNCHANGED <<control, errors, history>>

\* The policy firewall refuses it, and a critical violation kills.
RefuseIntent(t) ==
    /\ BetweenIntents
    /\ \E c \in batch : batch' = batch \ {c}
    /\ UNCHANGED kill \/ trigger_kill_switch(t)
    /\ UNCHANGED <<rstate, ready, pc, killed, errors, history, vars>>

\* An exception is counted; at the threshold the kill switch is triggered.
record_error(t) ==
    /\ errors' = IF errors < KillErrors THEN errors + 1 ELSE errors
    /\ IF errors + 1 >= KillErrors THEN trigger_kill_switch(t)
       ELSE UNCHANGED kill

\* A step of execute().  It may raise (broker_submit, or the UNIQUE column),
\* and so may the callbacks that follow a success.
IntentStep(t) ==
    /\ kill[t] = "no"
    /\ ExecuteStep(t)
    /\ LET returned == at[t] # "idle" /\ at'[t] = "idle"
           raised == returned /\ at[t] \in {"log", "send"}
           success == returned /\ at[t] \in {"lookup", "recover", "ackOk"}
       IN \/ raised /\ record_error(t)
          \/ success /\ record_error(t)
          \/ ~raised /\ UNCHANGED <<kill, errors>>
    /\ UNCHANGED <<rstate, ready, pc, killed, batch, history>>

-----------------------------------------------------------------------------
(* The broker, its callback, and a crash.                                   *)

\* What the callback reports of the order.
CallbackStatus(c) ==
    CASE broker[c].st = "open" ->
            IF broker[c].cum = 0 THEN "accepted" ELSE "partially_filled"
      [] OTHER -> broker[c].st

BrokerCallback(c) ==
    /\ broker[c].st # "none"
    /\ order[c] # CallbackStatus(c)
    /\ update_order_status(c, CallbackStatus(c))
    /\ UNCHANGED <<entryOf, qty, orphan, broker, sends, threadVars,
                   crashes, runnerVars>>

BrokerMoves == BrokerNext /\ UNCHANGED runnerVars

LiveCrash ==
    /\ Crash
    /\ rstate' = "idle"
    /\ ready' = FALSE
    /\ pc' = [a \in Actors |-> "idle"]
    /\ kill' = [a \in Actors |-> "no"]
    /\ killed' = FALSE
    /\ errors' = 0
    /\ batch' = {}
    /\ raced' = FALSE
    /\ slipped' = FALSE

-----------------------------------------------------------------------------
CallerStep(u) ==
    \/ StartCall(u) \/ StartFlag(u) \/ StartReconcile(u) \/ StartCheck(u)
    \/ AssignRunning(u) \/ stop(u) \/ pause(u) \/ AssignPaused(u)
    \/ resume(u) \/ ResumeFlag(u) \/ PortfolioAlarm(u)

ControlNext ==
    \/ initialize \/ reset_kill_switch
    \/ \E u \in Callers : CallerStep(u)
    \/ \E a \in Actors : KillFlag(a) \/ KillState(a)

TickStep(t) ==
    \/ TickCheck(t) \/ TickState(t) \/ TickReconcile(t) \/ TickIntents(t)
    \/ NextIntent(t) \/ RefuseIntent(t) \/ IntentStep(t)

LiveNext ==
    \/ ControlNext
    \/ \E t \in Threads : TickStep(t)
    \/ BrokerMoves
    \/ \E c \in Orders : BrokerCallback(c)
    \/ LiveCrash

LiveSpec == LiveInit /\ [][LiveNext]_liveVars

-----------------------------------------------------------------------------
(* Properties.                                                              *)

\* A runner that runs owns every order whose outcome is open: what an earlier
\* process left unresolved was settled by reconciliation before it could
\* trade, whatever calls came in between.  One thing escapes: a reset of the
\* kill switch that comes after a start() failed to reconcile and before that
\* start() looks at the flag, since nothing else tells it of the failure.
NoForeignRows ==
    rstate = "running" => slipped \/ Unresolved \subseteq entryOf

\* A killed runner does not run, once the kill has written the state: also
\* when the switch goes off while start() reconciles, and after any stops,
\* pauses and resumes.  One thing escapes: a start() or resume() that checked
\* the flag before it was set and assigns RUNNING after the kill's ERROR.
KilledIsDown ==
    killed /\ (\A a \in Actors : kill[a] # "state") => raced \/ rstate # "running"

=============================================================================
