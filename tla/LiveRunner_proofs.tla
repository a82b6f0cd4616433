------------------------- MODULE LiveRunner_proofs -------------------------
(***************************************************************************)
(* A runner trades only when every open row of the journal is its own, and *)
(* a killed one is down, with the two races that escape named: for any     *)
(* orders, threads, callers, crashes and errors.                           *)
(* The types build on LiveExecution_proofs: a step of the runner is a step *)
(* of the engine, or rewrites rows, or leaves the order path alone.        *)
(***************************************************************************)
EXTENDS LiveRunner, LiveExecution_proofs

\* A thread that has inserted a row, and may still write it, holds its id.
OwnsEntry == \A t \in Threads :
    at[t] \in {"send", "ackOk", "ackFail"} => on[t] \in entryOf

\* Every row whose outcome is open is of this process.  Once a reconciliation
\* has passed, that stays so until the process ends.
Settled == Unresolved \subseteq entryOf

\* Before that, nobody is on the way to RUNNING but a start() that failed to
\* reconcile, and the flag is set, or is about to be, when it looks at it.
\* Neither pause() nor resume() reconciles, so they count as well.
NotYet ==
    /\ rstate \notin {"running", "paused"}
    /\ \A u \in Callers : /\ pc[u] \notin {"passed", "run", "pause", "resumeFlag"}
                          /\ pc[u] = "halted" => killed \/ kill[u] = "flag"

OwnRows == slipped \/ Settled \/ NotYet

\* While the flag is set nobody is past its check, unless it was set too late.
KillInv ==
    killed /\ ~raced =>
        /\ \A a \in Actors : pc[a] # "run"
        /\ (\A a \in Actors : kill[a] # "state") => rstate # "running"

RunnerInv == RunnerTypeOK /\ BusyOnOrder /\ OwnsEntry /\ OwnRows /\ KillInv

\* The types of what the runner adds to the order path.
ControlType ==
    /\ rstate \in RunnerState
    /\ ready \in BOOLEAN
    /\ pc \in [Actors -> Place]
    /\ kill \in [Actors -> {"no", "flag", "state"}]
    /\ killed \in BOOLEAN
    /\ errors \in 0..KillErrors
    /\ batch \in SUBSET Orders
    /\ raced \in BOOLEAN
    /\ slipped \in BOOLEAN

\* Reconciliation writes journal words, and only over unresolved rows.
LEMMA ResolveEffect ==
    ASSUME NEW S \in SUBSET Unresolved, RunnerTypeOK, Resolve(S)
    PROVE  /\ journal' \in [Orders -> JournalStatus \cup {"absent"}]
           /\ Unresolved' \subseteq Unresolved
<1>1. ASSUME NEW c \in Orders PROVE BrokerAnswer(c) \in JournalStatus
  <2>1. broker[c].st \in BrokerStatus
        BY DEF RunnerTypeOK, TypeOK, BrokerRecord
  <2> QED BY <2>1 DEF BrokerAnswer, BrokerStatus, JournalStatus
<1>2. journal' \in [Orders -> JournalStatus \cup {"absent"}]
      BY <1>1 DEF Resolve, RunnerTypeOK, TypeOK
<1>3. ASSUME NEW c \in Orders, c \in Unresolved' PROVE c \in Unresolved
      BY <1>3 DEF Resolve, Unresolved
<1> QED BY <1>2, <1>3 DEF Unresolved

\* A reconciliation that passes leaves no row unresolved.
LEMMA PassesEffect ==
    ASSUME RunnerTypeOK, ReconcilePasses
    PROVE  /\ journal' \in [Orders -> JournalStatus \cup {"absent"}]
           /\ Unresolved' = {}
<1>1. journal' \in [Orders -> JournalStatus \cup {"absent"}]
      BY ResolveEffect DEF ReconcilePasses
<1>2. ASSUME NEW c \in Orders, c \in Unresolved' PROVE FALSE
      BY <1>2 DEF ReconcilePasses, Resolve, Unresolved
<1> QED BY <1>1, <1>2 DEF Unresolved

\* One that halts the runner leaves no row unresolved that was not before.
LEMMA HaltsEffect ==
    ASSUME RunnerTypeOK, ReconcileHalts
    PROVE  /\ journal' \in [Orders -> JournalStatus \cup {"absent"}]
           /\ Unresolved' \subseteq Unresolved
BY ResolveEffect DEF ReconcileHalts

\* Steps that leave the order path alone.
LEMMA QuietEngine ==
    ASSUME RunnerInv, UNCHANGED vars
    PROVE  TypeOK' /\ BusyOnOrder' /\ OwnsEntry' /\ Unresolved' = Unresolved
           /\ entryOf' = entryOf
<1>1. IndType'
      BY NextType DEF RunnerInv, RunnerTypeOK, IndType
<1> QED BY <1>1 DEF IndType, RunnerInv, OwnsEntry, vars, Unresolved

\* Steps of reconciliation.
LEMMA EngineIdleType ==
    ASSUME RunnerInv, EngineIdle,
           journal' \in [Orders -> JournalStatus \cup {"absent"}]
    PROVE  TypeOK' /\ BusyOnOrder' /\ OwnsEntry' /\ entryOf' = entryOf
BY DEF RunnerInv, RunnerTypeOK, TypeOK, EngineIdle, BusyOnOrder, OwnsEntry,
       memory, threadVars

\* The rows a step of execute() leaves open are its process's own.
LEMMA ExecuteKeepsRows ==
    ASSUME RunnerInv, NEW t \in Threads, ExecuteStep(t)
    PROVE  /\ TypeOK' /\ BusyOnOrder' /\ OwnsEntry'
           /\ Unresolved \subseteq entryOf => Unresolved' \subseteq entryOf'
<1> USE DEF RunnerInv, RunnerTypeOK, OwnsEntry, BusyOnOrder
<1>1. IndType'
      BY NextType DEF IndType, Next, EngineNext
<1>2. CASE ExecuteCheck(t)
      BY <1>1, <1>2 DEF ExecuteCheck, Goto, journalVars, Unresolved, IndType, TypeOK
<1>3. CASE ExecuteLookup(t)
      BY <1>1, <1>3 DEF ExecuteLookup, Goto, Return, journalVars, Unresolved, IndType, TypeOK
<1>4. CASE ExecuteRecover(t)
      BY <1>1, <1>4 DEF ExecuteRecover, Return, journalVars, Unresolved, IndType, TypeOK
<1>5. CASE ExecuteLog(t)
      BY <1>1, <1>5 DEF ExecuteLog, log_order, Goto, Return, journalVars, Unresolved,
                        IndType, TypeOK
<1>6. CASE ExecuteSend(t)
      BY <1>1, <1>6 DEF ExecuteSend, Goto, Return, journalVars, Unresolved, IndType, TypeOK
<1>7. CASE ExecuteAckOk(t)
      BY <1>1, <1>7 DEF ExecuteAckOk, update_status, Return, Unresolved, IndType, TypeOK
<1>8. CASE ExecuteAckFail(t)
      BY <1>1, <1>8 DEF ExecuteAckFail, update_status, Return, Unresolved, IndType, TypeOK,
                        UnresolvedStatus
<1> QED BY <1>2, <1>3, <1>4, <1>5, <1>6, <1>7, <1>8 DEF ExecuteStep

\* A counted error stays within the threshold, and may trigger the switch.
LEMMA ErrorEffect ==
    ASSUME RunnerInv, NEW t \in Threads, record_error(t)
    PROVE  /\ errors' \in 0..KillErrors
           /\ kill' = kill \/ trigger_kill_switch(t)
<1>1. errors' \in 0..KillErrors
      BY KillErrorsAssumption DEF RunnerInv, RunnerTypeOK, record_error
<1>2. kill' = kill \/ trigger_kill_switch(t)
      BY DEF record_error
<1> QED BY <1>1, <1>2

\* Calling the kill switch writes nothing yet, so a thread that is not in a
\* start() disturbs neither invariant.
LEMMA TriggerStep ==
    ASSUME RunnerInv, NEW a \in Actors, kill[a] = "no", pc[a] = "idle" \/ a \in Threads,
           kill' = kill \/ trigger_kill_switch(a),
           UNCHANGED <<rstate, ready, killed, history>>,
           \A b \in Callers : pc'[b] = pc[b],
           \A b \in Actors : pc'[b] = "run" => pc[b] = "run",
           Settled => Settled'
    PROVE  /\ OwnRows' /\ KillInv'
           /\ kill' \in [Actors -> {"no", "flag", "state"}]
<1>1. kill' \in [Actors -> {"no", "flag", "state"}]
      BY DEF trigger_kill_switch, RunnerInv, RunnerTypeOK
<1>2. \A b \in Actors : b # a => kill'[b] = kill[b]
      BY DEF trigger_kill_switch, RunnerInv, RunnerTypeOK
<1>3. kill'[a] # "state"
      BY DEF trigger_kill_switch, RunnerInv, RunnerTypeOK
<1>4. \A u \in Callers : u = a => pc[u] = "idle"
      BY CallersAssumption
<1>5. NotYet => NotYet'
      BY <1>2, <1>4 DEF NotYet, Actors
<1>6. OwnRows'
      BY <1>5 DEF OwnRows, RunnerInv, history
<1>7. KillInv'
      BY <1>2, <1>3 DEF KillInv, RunnerInv, history
<1> QED BY <1>1, <1>6, <1>7

\* Init establishes the invariant.
LEMMA InitRunner == LiveInit => RunnerInv
<1> SUFFICES ASSUME LiveInit PROVE RunnerInv
    OBVIOUS
<1>1. TypeOK /\ BusyOnOrder
      BY InitType DEF LiveInit, IndType
<1>2. OwnsEntry
      BY DEF LiveInit, Init, OwnsEntry
<1>3. ControlType
  <2>1. 0 \in 0..KillErrors
        BY KillErrorsAssumption
  <2>2. errors \in 0..KillErrors /\ batch \in SUBSET Orders
        BY <2>1 DEF LiveInit
  <2>3. pc \in [Actors -> Place] /\ kill \in [Actors -> {"no", "flag", "state"}]
        BY DEF LiveInit, Place
  <2> QED BY <2>2, <2>3 DEF LiveInit, ControlType, RunnerState
<1>4. OwnRows /\ KillInv
      BY DEF LiveInit, OwnRows, NotYet, KillInv, Actors
<1> QED BY <1>1, <1>2, <1>3, <1>4 DEF RunnerInv, RunnerTypeOK, ControlType

\* What is left to show of a step that leaves the order path alone.
LEMMA QuietStep ==
    ASSUME RunnerInv, UNCHANGED vars, ControlType', KillInv',
           slipped => slipped', NotYet => NotYet' \/ slipped'
    PROVE  RunnerInv'
<1>1. TypeOK' /\ BusyOnOrder' /\ OwnsEntry' /\ Unresolved' = Unresolved /\ entryOf' = entryOf
      BY QuietEngine
<1>2. OwnRows'
      BY <1>1 DEF RunnerInv, OwnRows, Settled
<1> QED BY <1>1, <1>2 DEF RunnerInv, RunnerTypeOK, ControlType

\* The steps of a caller.
LEMMA CallerKeeps ==
    ASSUME RunnerInv, NEW u \in Callers, CallerStep(u)
    PROVE  RunnerInv'
<1> USE DEF RunnerInv, RunnerTypeOK, Move, history
<1>1. u \in Actors /\ \A v \in Callers : v \in Actors
      BY DEF Actors
<1>2. CASE StartCall(u)
  <2>1. ControlType'
        BY <1>1, <1>2 DEF StartCall, Free, ControlType, RunnerState, Place
  <2>2. NotYet => NotYet'
        BY <1>1, <1>2 DEF StartCall, Free, NotYet
  <2>3. KillInv'
        BY <1>1, <1>2 DEF StartCall, Free, KillInv
  <2> QED BY <1>2, <2>1, <2>2, <2>3, QuietStep DEF StartCall
<1>3. CASE StartFlag(u)
  <2>1. ControlType'
        BY <1>1, <1>3 DEF StartFlag, At, ControlType, RunnerState, Place
  <2>2. NotYet => NotYet'
        BY <1>1, <1>3 DEF StartFlag, At, NotYet
  <2>3. KillInv'
        BY <1>1, <1>3 DEF StartFlag, At, KillInv
  <2> QED BY <1>3, <2>1, <2>2, <2>3, QuietStep DEF StartFlag
<1>4. CASE StartCheck(u)
  <2>1. ControlType'
        BY <1>1, <1>4 DEF StartCheck, At, ControlType, RunnerState, Place
  <2>2. NotYet => NotYet'
        BY <1>1, <1>4 DEF StartCheck, At, NotYet
  <2>3. KillInv'
        BY <1>1, <1>4 DEF StartCheck, At, KillInv
  <2> QED BY <1>4, <2>1, <2>2, <2>3, QuietStep DEF StartCheck
<1>5. CASE AssignRunning(u)
  <2>1. ControlType'
        BY <1>1, <1>5 DEF AssignRunning, At, ControlType, RunnerState, Place
  <2>2. NotYet => NotYet'
        BY <1>1, <1>5 DEF AssignRunning, At, NotYet
  <2>3. KillInv'
        BY <1>1, <1>5 DEF AssignRunning, At, KillInv
  <2> QED BY <1>5, <2>1, <2>2, <2>3, QuietStep DEF AssignRunning
<1>6. CASE stop(u)
  <2>1. ControlType'
        BY <1>1, <1>6 DEF stop, Free, ControlType, RunnerState, Place
  <2>2. NotYet => NotYet'
        BY <1>1, <1>6 DEF stop, Free, NotYet
  <2>3. KillInv'
        BY <1>1, <1>6 DEF stop, Free, KillInv
  <2> QED BY <1>6, <2>1, <2>2, <2>3, QuietStep DEF stop
<1>7. CASE pause(u)
  <2>1. ControlType'
        BY <1>1, <1>7 DEF pause, Free, ControlType, RunnerState, Place
  <2>2. NotYet => NotYet'
        BY <1>1, <1>7 DEF pause, Free, NotYet
  <2>3. KillInv'
        BY <1>1, <1>7 DEF pause, Free, KillInv
  <2> QED BY <1>7, <2>1, <2>2, <2>3, QuietStep DEF pause
<1>8. CASE AssignPaused(u)
  <2>1. ControlType'
        BY <1>1, <1>8 DEF AssignPaused, At, ControlType, RunnerState, Place
  <2>2. NotYet => NotYet'
        BY <1>1, <1>8 DEF AssignPaused, At, NotYet
  <2>3. KillInv'
        BY <1>1, <1>8 DEF AssignPaused, At, KillInv
  <2> QED BY <1>8, <2>1, <2>2, <2>3, QuietStep DEF AssignPaused
<1>9. CASE resume(u)
  <2>1. ControlType'
        BY <1>1, <1>9 DEF resume, Free, ControlType, RunnerState, Place
  <2>2. NotYet => NotYet'
        BY <1>1, <1>9 DEF resume, Free, NotYet
  <2>3. KillInv'
        BY <1>1, <1>9 DEF resume, Free, KillInv
  <2> QED BY <1>9, <2>1, <2>2, <2>3, QuietStep DEF resume
<1>10. CASE ResumeFlag(u)
  <2>1. ControlType'
        BY <1>1, <1>10 DEF ResumeFlag, At, ControlType, RunnerState, Place
  <2>2. NotYet => NotYet'
        BY <1>1, <1>10 DEF ResumeFlag, At, NotYet
  <2>3. KillInv'
        BY <1>1, <1>10 DEF ResumeFlag, At, KillInv
  <2> QED BY <1>10, <2>1, <2>2, <2>3, QuietStep DEF ResumeFlag
<1>11. CASE PortfolioAlarm(u)
  <2>1. ControlType'
        BY <1>1, <1>11 DEF PortfolioAlarm, trigger_kill_switch, ControlType
  <2>2. OwnRows' /\ KillInv'
    <3>1. Settled => Settled'
          BY <1>11 DEF PortfolioAlarm, vars, Settled, Unresolved
    <3> QED BY <1>1, <1>11, <3>1, TriggerStep DEF PortfolioAlarm, Free
  <2>3. TypeOK' /\ BusyOnOrder' /\ OwnsEntry'
        BY <1>11, QuietEngine DEF PortfolioAlarm
  <2> QED BY <2>1, <2>2, <2>3 DEF ControlType
<1>12. CASE StartReconcile(u)
  <2>1. CASE ReconcilePasses /\ Move(u, "passed") /\ slipped' = FALSE /\ UNCHANGED kill
    <3>1. /\ journal' \in [Orders -> JournalStatus \cup {"absent"}]
          /\ Unresolved' = {}
          BY <2>1, PassesEffect
    <3>2. TypeOK' /\ BusyOnOrder' /\ OwnsEntry'
          BY <1>12, <3>1, EngineIdleType DEF StartReconcile
    <3>3. ControlType'
          BY <1>1, <1>12, <2>1 DEF StartReconcile, ControlType, Place
    <3>4. KillInv'
          BY <1>1, <1>12, <2>1 DEF StartReconcile, KillInv
    <3> QED BY <3>1, <3>2, <3>3, <3>4 DEF ControlType, OwnRows, Settled
  <2>2. CASE ReconcileHalts /\ Move(u, "halted") /\ trigger_kill_switch(u) /\ UNCHANGED slipped
    <3>1. /\ journal' \in [Orders -> JournalStatus \cup {"absent"}]
          /\ Unresolved' \subseteq Unresolved
          BY <2>2, HaltsEffect
    <3>2. TypeOK' /\ BusyOnOrder' /\ OwnsEntry' /\ entryOf' = entryOf
          BY <1>12, <3>1, EngineIdleType DEF StartReconcile
    <3>3. ControlType'
          BY <1>1, <1>12, <2>2 DEF StartReconcile, trigger_kill_switch, ControlType, Place
    <3>4. KillInv'
          BY <1>1, <1>12, <2>2 DEF StartReconcile, At, trigger_kill_switch, KillInv
    <3>5. NotYet => NotYet'
          BY <1>1, <1>12, <2>2 DEF StartReconcile, At, trigger_kill_switch, NotYet
    <3>6. OwnRows'
          BY <2>2, <3>1, <3>2, <3>5 DEF OwnRows, Settled
    <3> QED BY <3>2, <3>3, <3>4, <3>6 DEF ControlType
  <2> QED BY <1>12, <2>1, <2>2 DEF StartReconcile
<1> QED BY <1>2, <1>3, <1>4, <1>5, <1>6, <1>7, <1>8, <1>9, <1>10, <1>11, <1>12 DEF CallerStep

\* Control calls.
LEMMA ControlKeeps == RunnerInv /\ ControlNext => RunnerInv'
<1> SUFFICES ASSUME RunnerInv, ControlNext PROVE RunnerInv'
    OBVIOUS
<1> USE DEF RunnerInv, RunnerTypeOK, history
<1>1. \A v \in Callers : v \in Actors
      BY DEF Actors
<1>2. CASE initialize
  <2>1. ControlType'
        BY <1>2 DEF initialize, ControlType, RunnerState
  <2>2. NotYet => NotYet'
        BY <1>2 DEF initialize, NotYet
  <2>3. KillInv'
        BY <1>2 DEF initialize, KillInv
  <2> QED BY <1>2, <2>1, <2>2, <2>3, QuietStep DEF initialize
<1>3. CASE reset_kill_switch
  <2>1. ControlType'
        BY <1>3 DEF reset_kill_switch, ControlType
  <2>2. NotYet => NotYet' \/ slipped'
        BY <1>3 DEF reset_kill_switch, NotYet
  <2>3. KillInv'
        BY <1>3 DEF reset_kill_switch, KillInv
  <2> QED BY <1>3, <2>1, <2>2, <2>3, QuietStep DEF reset_kill_switch
<1>4. ASSUME NEW a \in Actors, KillFlag(a) PROVE RunnerInv'
  <2>1. ControlType'
        BY <1>4 DEF KillFlag, ControlType
  <2>2. NotYet => NotYet'
        BY <1>1, <1>4 DEF KillFlag, NotYet
  <2>3. KillInv'
        BY <1>4 DEF KillFlag, KillInv
  <2> QED BY <1>4, <2>1, <2>2, <2>3, QuietStep DEF KillFlag
<1>5. ASSUME NEW a \in Actors, KillState(a) PROVE RunnerInv'
  <2>1. ControlType'
        BY <1>5 DEF KillState, ControlType, RunnerState
  <2>2. NotYet => NotYet'
        BY <1>1, <1>5 DEF KillState, NotYet
  <2>3. KillInv'
        BY <1>5 DEF KillState, KillInv
  <2> QED BY <1>5, <2>1, <2>2, <2>3, QuietStep DEF KillState
<1> QED BY <1>2, <1>3, <1>4, <1>5, CallerKeeps DEF ControlNext

\* Ticks and the intents of a batch.
LEMMA TickKeeps ==
    ASSUME RunnerInv, NEW t \in Threads, TickStep(t)
    PROVE  RunnerInv'
<1> USE DEF RunnerInv, RunnerTypeOK, Move, history
<1>1. t \in Actors /\ \A v \in Callers : v \in Actors /\ v # t
      BY CallersAssumption DEF Actors
<1>2. CASE TickCheck(t)
  <2>1. ControlType'
        BY <1>1, <1>2 DEF TickCheck, ControlType, Place
  <2>2. NotYet => NotYet'
        BY <1>1, <1>2 DEF TickCheck, NotYet
  <2>3. KillInv'
        BY <1>1, <1>2 DEF TickCheck, KillInv
  <2> QED BY <1>2, <2>1, <2>2, <2>3, QuietStep DEF TickCheck
<1>3. CASE TickState(t)
  <2>1. ControlType'
        BY <1>1, <1>3 DEF TickState, ControlType, Place
  <2>2. NotYet => NotYet'
        BY <1>1, <1>3 DEF TickState, NotYet
  <2>3. KillInv'
        BY <1>1, <1>3 DEF TickState, KillInv
  <2> QED BY <1>3, <2>1, <2>2, <2>3, QuietStep DEF TickState
<1>4. CASE TickIntents(t)
  <2>1. ControlType'
        BY <1>1, <1>4 DEF TickIntents, ControlType, Place
  <2>2. NotYet => NotYet'
        BY <1>1, <1>4 DEF TickIntents, NotYet
  <2>3. KillInv'
        BY <1>1, <1>4 DEF TickIntents, KillInv
  <2> QED BY <1>4, <2>1, <2>2, <2>3, QuietStep DEF TickIntents
<1>5. CASE TickReconcile(t)
  <2>1. pc' \in [Actors -> Place] /\ \A b \in Actors : b # t => pc'[b] = pc[b]
        BY <1>1, <1>5 DEF TickReconcile, Place
  <2>2. \A b \in Actors : pc'[b] = "run" => pc[b] = "run"
        BY <1>1, <1>5 DEF TickReconcile
  <2>3. CASE UNCHANGED <<journal, kill, slipped>>
    <3>1. journal' \in [Orders -> JournalStatus \cup {"absent"}] /\ Unresolved' = Unresolved
          BY <2>3 DEF TypeOK, Unresolved
    <3>2. TypeOK' /\ BusyOnOrder' /\ OwnsEntry' /\ entryOf' = entryOf
          BY <1>5, <3>1, EngineIdleType DEF TickReconcile
    <3>3. OwnRows' /\ KillInv' /\ kill' \in [Actors -> {"no", "flag", "state"}]
          BY <1>1, <1>5, <2>1, <2>2, <2>3, <3>1, <3>2, TriggerStep DEF TickReconcile, At, Settled
    <3> QED BY <1>5, <2>1, <2>3, <3>2, <3>3 DEF TickReconcile
  <2>4. CASE ReconcilePasses /\ slipped' = FALSE /\ UNCHANGED kill
    <3>1. journal' \in [Orders -> JournalStatus \cup {"absent"}] /\ Unresolved' = {}
          BY <2>4, PassesEffect
    <3>2. TypeOK' /\ BusyOnOrder' /\ OwnsEntry'
          BY <1>5, <3>1, EngineIdleType DEF TickReconcile
    <3>3. KillInv'
          BY <1>5, <2>2, <2>4 DEF TickReconcile, KillInv
    <3> QED BY <1>5, <2>1, <2>4, <3>1, <3>2, <3>3 DEF TickReconcile, OwnRows, Settled
  <2>5. CASE ReconcileHalts /\ trigger_kill_switch(t) /\ UNCHANGED slipped
    <3>1. /\ journal' \in [Orders -> JournalStatus \cup {"absent"}]
          /\ Unresolved' \subseteq Unresolved
          BY <2>5, HaltsEffect
    <3>2. TypeOK' /\ BusyOnOrder' /\ OwnsEntry' /\ entryOf' = entryOf
          BY <1>5, <3>1, EngineIdleType DEF TickReconcile
    <3>3. OwnRows' /\ KillInv' /\ kill' \in [Actors -> {"no", "flag", "state"}]
          BY <1>1, <1>5, <2>1, <2>2, <2>5, <3>1, <3>2, TriggerStep DEF TickReconcile, At, Settled
    <3> QED BY <1>5, <2>1, <2>5, <3>2, <3>3 DEF TickReconcile
  <2> QED BY <1>5, <2>3, <2>4, <2>5 DEF TickReconcile
<1>6. CASE RefuseIntent(t)
  <2>1. TypeOK' /\ BusyOnOrder' /\ OwnsEntry' /\ (Settled => Settled')
        BY <1>6, QuietEngine DEF RefuseIntent, Settled
  <2>2. OwnRows' /\ KillInv' /\ kill' \in [Actors -> {"no", "flag", "state"}]
        BY <1>1, <1>6, <2>1, TriggerStep DEF RefuseIntent, BetweenIntents, Free
  <2> QED BY <1>6, <2>1, <2>2 DEF RefuseIntent
<1>7. CASE NextIntent(t)
  <2>1. PICK c \in batch : ExecuteCall(t, c) /\ batch' = batch \ {c}
        BY <1>7 DEF NextIntent
  <2>2. IndType'
        BY <2>1, NextType DEF IndType, Next, EngineNext
  <2>3. OwnsEntry' /\ Unresolved' = Unresolved /\ entryOf' = entryOf
        BY <2>1 DEF ExecuteCall, journalVars, TypeOK, OwnsEntry, Unresolved
  <2>4. OwnRows' /\ KillInv'
        BY <1>7, <2>3 DEF NextIntent, control, OwnRows, Settled, NotYet, KillInv
  <2> QED BY <1>7, <2>1, <2>2, <2>3, <2>4 DEF NextIntent, IndType, control
<1>8. CASE IntentStep(t)
  <2>1. /\ TypeOK' /\ BusyOnOrder' /\ OwnsEntry'
        /\ Settled => Settled'
        BY <1>8, ExecuteKeepsRows DEF IntentStep, Settled
  <2>2. /\ errors' \in 0..KillErrors
        /\ kill' = kill \/ trigger_kill_switch(t)
        BY <1>8, ErrorEffect DEF IntentStep
  <2>3. kill[t] = "no"
        BY <1>8 DEF IntentStep
  <2>4. OwnRows' /\ KillInv' /\ kill' \in [Actors -> {"no", "flag", "state"}]
        BY <1>1, <1>8, <2>1, <2>2, <2>3, TriggerStep DEF IntentStep
  <2> QED BY <1>8, <2>1, <2>2, <2>4 DEF IntentStep
<1> QED BY <1>2, <1>3, <1>4, <1>5, <1>6, <1>7, <1>8 DEF TickStep

\* The broker, its callback, and a crash.
LEMMA WorldStep ==
    ASSUME RunnerInv,
           BrokerMoves \/ (\E c \in Orders : BrokerCallback(c)) \/ LiveCrash
    PROVE  RunnerInv'
<1>1. CASE BrokerMoves
  <2>1. IndType'
        BY <1>1, NextType DEF BrokerMoves, RunnerInv, RunnerTypeOK, IndType, Next
  <2>2. /\ OwnsEntry' /\ Unresolved' = Unresolved /\ entryOf' = entryOf
        BY <1>1 DEF BrokerMoves, BrokerNext, BrokerFill, BrokerClose, journalVars,
                    threadVars, RunnerInv, OwnsEntry, Unresolved
  <2>3. OwnRows' /\ KillInv'
        BY <1>1, <2>2 DEF BrokerMoves, runnerVars, control, history, RunnerInv, OwnRows, Settled,
                          NotYet, KillInv
  <2> QED BY <1>1, <2>1, <2>2, <2>3
          DEF BrokerMoves, runnerVars, control, history, IndType, RunnerInv, RunnerTypeOK
<1>2. ASSUME NEW c \in Orders, BrokerCallback(c) PROVE RunnerInv'
  <2>1. CallbackStatus(c) \in OrderStatus
    <3>1. broker[c].st \in BrokerStatus
          BY DEF RunnerInv, RunnerTypeOK, TypeOK, BrokerRecord
    <3> QED BY <1>2, <3>1 DEF BrokerCallback, CallbackStatus, BrokerStatus, OrderStatus
  <2>2. CallbackStatus(c) # "pending"
    <3>1. broker[c].st \in BrokerStatus
          BY DEF RunnerInv, RunnerTypeOK, TypeOK, BrokerRecord
    <3> QED BY <1>2, <3>1 DEF BrokerCallback, CallbackStatus, BrokerStatus, OrderStatus
  <2>3. JournalFor(CallbackStatus(c)) \in JournalStatus
        BY <2>1, <2>2 DEF JournalFor, OrderStatus, JournalStatus
  <2>4. /\ order' \in [Orders -> OrderStatus \cup {"none"}]
        /\ journal' \in [Orders -> JournalStatus \cup {"absent"}]
        BY <1>2, <2>1, <2>3
        DEF BrokerCallback, update_order_status, update_status, RunnerInv, RunnerTypeOK, TypeOK
  <2>5. Unresolved' \subseteq Unresolved \cup entryOf
        BY <1>2 DEF BrokerCallback, update_order_status, update_status, Unresolved,
                    RunnerInv, RunnerTypeOK, TypeOK
  <2>6. OwnRows' /\ KillInv'
        BY <1>2, <2>5 DEF BrokerCallback, runnerVars, control, history, RunnerInv, OwnRows,
                          Settled, NotYet, KillInv
  <2> QED BY <1>2, <2>4, <2>6
          DEF BrokerCallback, runnerVars, control, history, threadVars, RunnerInv, RunnerTypeOK,
              TypeOK, BusyOnOrder, OwnsEntry
<1>3. CASE LiveCrash
  <2>1. IndType'
        BY <1>3, NextType DEF LiveCrash, RunnerInv, RunnerTypeOK, IndType, Next
  <2>2. OwnsEntry'
        BY <1>3 DEF LiveCrash, Crash, OwnsEntry
  <2>3. ControlType'
    <3>1. 0 \in 0..KillErrors
          BY KillErrorsAssumption
    <3>2. errors' \in 0..KillErrors /\ batch' \in SUBSET Orders
          BY <1>3, <3>1 DEF LiveCrash
    <3>3. pc' \in [Actors -> Place] /\ kill' \in [Actors -> {"no", "flag", "state"}]
          BY <1>3 DEF LiveCrash, Place
    <3> QED BY <1>3, <3>2, <3>3 DEF LiveCrash, ControlType, RunnerState
  <2>4. OwnRows' /\ KillInv'
        BY <1>3 DEF LiveCrash, OwnRows, NotYet, KillInv, Actors
  <2> QED BY <2>1, <2>2, <2>3, <2>4 DEF IndType, RunnerInv, RunnerTypeOK, ControlType
<1> QED BY <1>1, <1>2, <1>3

\* The invariant holds in every behaviour of the runner.
THEOREM RunnerInvariant == LiveSpec => []RunnerInv
<1>1. RunnerInv /\ [LiveNext]_liveVars => RunnerInv'
  <2> SUFFICES ASSUME RunnerInv, [LiveNext]_liveVars PROVE RunnerInv'
      OBVIOUS
  <2>1. CASE UNCHANGED liveVars
    <3> USE DEF liveVars, runnerVars, control, history, RunnerInv, RunnerTypeOK
    <3>1. ControlType' /\ KillInv' /\ (NotYet => NotYet')
          BY <2>1 DEF ControlType, KillInv, NotYet
    <3> QED BY <2>1, <3>1, QuietStep
  <2>2. CASE LiveNext
        BY <2>2, ControlKeeps, TickKeeps, WorldStep DEF LiveNext
  <2> QED BY <2>1, <2>2
<1> QED BY <1>1, InitRunner, PTL DEF LiveSpec

\* Every variable of runner and order path keeps its type.
THEOREM RunnerIsTyped == LiveSpec => []RunnerTypeOK
<1>1. RunnerInv => RunnerTypeOK
      BY DEF RunnerInv
<1> QED BY <1>1, RunnerInvariant, PTL

\* What an earlier process left open is settled before a runner trades, unless
\* the kill switch is reset under a start() that failed to reconcile.
THEOREM OpenRowsAreOwn == LiveSpec => []NoForeignRows
<1>1. RunnerInv => NoForeignRows
      BY DEF RunnerInv, OwnRows, Settled, NotYet, NoForeignRows
<1> QED BY <1>1, RunnerInvariant, PTL

\* A killed runner does not run, unless the kill came between the check and the
\* assignment of a start() or resume().
THEOREM KilledRunnerIsDown == LiveSpec => []KilledIsDown
<1>1. RunnerInv => KilledIsDown
      BY DEF RunnerInv, RunnerTypeOK, KillInv, KilledIsDown
<1> QED BY <1>1, RunnerInvariant, PTL

-----------------------------------------------------------------------------
(***************************************************************************)
(* The order path under the runner.  The runner adds two writers to it:    *)
(* reconciliation rewrites journal rows while a batch may be half way      *)
(* through execute(), and broker callbacks rewrite the order table.  What  *)
(* the engine guarantees on its own survives both: a row that is rewritten *)
(* stays a row, so no order is submitted again.                            *)
(***************************************************************************)
PathInv == RunnerInv /\ SafeInv

\* Reconciliation rewrites rows and removes or adds none.
LEMMA ResolveKeepsRows ==
    ASSUME NEW S \in SUBSET Unresolved, RunnerTypeOK, Resolve(S)
    PROVE  \A c \in Orders : journal'[c] = "absent" <=> journal[c] = "absent"
<1>1. ASSUME NEW c \in Orders PROVE BrokerAnswer(c) # "absent"
  <2>1. broker[c].st \in BrokerStatus
        BY DEF RunnerTypeOK, TypeOK, BrokerRecord
  <2> QED BY <2>1 DEF BrokerAnswer, BrokerStatus
<1>2. \A c \in S : c \in Orders /\ journal[c] # "absent"
      BY DEF Unresolved, UnresolvedStatus
<1> QED BY <1>1, <1>2 DEF Resolve

\* A reconciliation, whether it passes or halts the runner, keeps the order
\* path safe and every order at its stage.
LEMMA ReconcileKeepsPath ==
    ASSUME PathInv, EngineIdle, UNCHANGED journal \/ ReconcilePasses \/ ReconcileHalts
    PROVE  SafeInv' /\ Stage' = Stage
<1>1. \A c \in Orders : journal'[c] = "absent" <=> journal[c] = "absent"
      BY ResolveKeepsRows DEF ReconcilePasses, ReconcileHalts, PathInv, RunnerInv
<1> QED BY <1>1, RewriteStep
        DEF EngineIdle, memory, threadVars, PathInv, RunnerInv, RunnerTypeOK, IndType

\* So does a broker callback.
LEMMA CallbackKeepsPath ==
    ASSUME PathInv, NEW c \in Orders, BrokerCallback(c)
    PROVE  SafeInv' /\ Stage' = Stage
<1>1. broker[c].st \in BrokerStatus \ {"none"}
      BY DEF BrokerCallback, PathInv, RunnerInv, RunnerTypeOK, TypeOK, BrokerRecord
<1>2. /\ JournalFor(CallbackStatus(c)) # "absent"
      /\ CallbackStatus(c) = "cancelled" => broker[c].st = "cancelled"
      BY <1>1 DEF CallbackStatus, JournalFor, BrokerStatus
<1>3. \A d \in Orders : journal'[d] = "absent" <=> journal[d] = "absent"
      BY <1>2 DEF BrokerCallback, update_order_status, update_status, PathInv, RunnerInv,
                  RunnerTypeOK, TypeOK, SafeInv, AckHasRow
<1>4. \A d \in Orders :
         \/ order'[d] = order[d]
         \/ order[d] # "none" /\ (order'[d] = "cancelled" => broker[d].st = "cancelled")
      BY <1>2 DEF BrokerCallback, update_order_status, PathInv, RunnerInv, RunnerTypeOK, TypeOK
<1> QED BY <1>3, <1>4, RewriteStep
        DEF BrokerCallback, threadVars, PathInv, RunnerInv, RunnerTypeOK, IndType

\* Every step of the runner keeps the order path safe, and is a step of
\* SubmitOnce or leaves it unchanged.
LEMMA LiveStepKeepsPath ==
    ASSUME PathInv, [LiveNext]_liveVars
    PROVE  SafeInv' /\ [Once!Next]_Stage
<1>1. ASSUME [Next]_vars PROVE SafeInv' /\ [Once!Next]_Stage
      BY <1>1, NextSafe, NextRefines DEF PathInv, RunnerInv, RunnerTypeOK, IndType
<1>2. ASSUME EngineIdle, UNCHANGED journal \/ ReconcilePasses \/ ReconcileHalts
      PROVE  SafeInv' /\ [Once!Next]_Stage
      BY <1>2, ReconcileKeepsPath
<1>3. CASE ControlNext
  <2>1. ASSUME NEW u \in Callers, StartReconcile(u) PROVE SafeInv' /\ [Once!Next]_Stage
        BY <1>2, <2>1 DEF StartReconcile
  <2>2. CASE UNCHANGED vars
        BY <1>1, <2>2
  <2>3. (\E u \in Callers : StartReconcile(u)) \/ UNCHANGED vars
        BY <1>3
        DEF ControlNext, CallerStep, initialize, StartCall, StartFlag, StartCheck, AssignRunning,
            stop, pause, AssignPaused, resume, ResumeFlag, PortfolioAlarm, reset_kill_switch,
            KillFlag, KillState
  <2> QED BY <2>1, <2>2, <2>3
<1>4. ASSUME NEW t \in Threads, TickStep(t) PROVE SafeInv' /\ [Once!Next]_Stage
  <2>1. CASE TickReconcile(t)
        BY <1>2, <2>1 DEF TickReconcile
  <2>2. CASE TickCheck(t) \/ TickState(t) \/ TickIntents(t) \/ RefuseIntent(t)
        BY <1>1, <2>2 DEF TickCheck, TickState, TickIntents, RefuseIntent
  <2>3. CASE NextIntent(t)
    <3>1. batch \subseteq Orders
          BY DEF PathInv, RunnerInv, RunnerTypeOK
    <3> QED BY <1>1, <2>3, <3>1 DEF NextIntent, Next, EngineNext
  <2>4. CASE IntentStep(t)
        BY <1>1, <2>4 DEF IntentStep, Next, EngineNext
  <2> QED BY <1>4, <2>1, <2>2, <2>3, <2>4 DEF TickStep
<1>5. CASE BrokerMoves
      BY <1>1, <1>5 DEF BrokerMoves, Next
<1>6. CASE \E c \in Orders : BrokerCallback(c)
      BY <1>6, CallbackKeepsPath
<1>7. CASE LiveCrash
      BY <1>1, <1>7 DEF LiveCrash, Next
<1>8. CASE UNCHANGED liveVars
      BY <1>1, <1>8 DEF liveVars
<1> QED BY <1>3, <1>4, <1>5, <1>6, <1>7, <1>8 DEF LiveNext

\* The order path stays safe in every behaviour of the runner.
LEMMA PathInvariant == LiveSpec => []PathInv
<1>1. LiveInit => SafeInv
      BY InitSafe DEF LiveInit
<1>2. RunnerInv /\ SafeInv /\ [LiveNext]_liveVars => SafeInv'
      BY LiveStepKeepsPath DEF PathInv
<1>3. LiveSpec => []SafeInv
      BY <1>1, <1>2, RunnerInvariant, PTL DEF LiveSpec
<1> QED BY <1>3, RunnerInvariant, PTL DEF PathInv

\* Under the runner too, whatever reconciliation rewrites while orders are on
\* their way, an order is recorded, then sent, once.
THEOREM RunnerSubmitsOnce == LiveSpec => RefinesSubmitOnce
<1>1. LiveInit => Once!Init
      BY InitRefines DEF LiveInit
<1>2. PathInv /\ [LiveNext]_liveVars => [Once!Next]_Stage
      BY LiveStepKeepsPath
<1> QED BY <1>1, <1>2, PathInvariant, PTL DEF LiveSpec, RefinesSubmitOnce, Once!Spec

\* Reconciliation leaves no order of the broker without a row.
THEOREM RunnerKeepsRows == LiveSpec => []WriteAhead
<1>1. PathInv => WriteAhead
      BY DEF PathInv, RunnerInv, RunnerTypeOK, TypeOK, SafeInv, WriteAhead, HeldWasSent,
             UnloggedUnsent
<1> QED BY <1>1, PathInvariant, PTL

\* No callback makes the engine believe that a live order is cancelled.
THEOREM RunnerCancelsAreReal == LiveSpec => []NoFalseCancel
<1>1. PathInv => NoFalseCancel
      BY DEF PathInv, SafeInv
<1> QED BY <1>1, PathInvariant, PTL

=============================================================================
