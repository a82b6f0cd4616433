----------------------- MODULE CommandDelivery_proofs -----------------------
(***************************************************************************)
(* What holds of the delivery of commands for any number of commands,      *)
(* faults, crashes and open transactions: the types and the consent behind *)
(* every execution for any number of heartbeat threads, the bound on       *)
(* executions and the truth of the results for one.                        *)
(***************************************************************************)
EXTENDS CommandDelivery, TLAPS

-----------------------------------------------------------------------------
(* The inductive invariants.                                                *)

\* Consent was given, or nobody asks for it.
Granted(c) == kind[c] = "impacting" => c \in local \cup remote

\* The statuses a command may have, or get, without consent.
Harmless == {"none", "pending_approval", "rejected", "expired"}

\* Consent is behind everything on the way to an execution: the rows, the
\* writes of open transactions, the approvals on their way, what was polled,
\* the command a thread works on, and so the executions.
CloudConsents == \A c \in Commands : cloud[c] \in Harmless \/ Granted(c)
OpenConsents == \A w \in open : w.to \in Harmless \/ Granted(w.id)
LateConsents == \A m \in late : m.op = "approval" /\ m.ok => Granted(m.id)
DecisionConsents == decision # NoDecision /\ decision.ok => Granted(decision.id)
BatchConsents == \A h \in Heartbeats : \A p \in batch[h] :
    p.status = "pending_approval" \/ Granted(p.id)

RunSteps == {"ack", "log", "progress", "execute", "mark", "result"}
RefuseSteps == {"refuseMark", "refuseAck", "refuseResult"}

ThreadConsents == \A h \in Heartbeats :
    /\ at[h] # "idle" => Granted(cur[h])
    /\ at[h] \in RunSteps => kind[cur[h]] # "unguarded"
    /\ at[h] \in RefuseSteps => kind[cur[h]] = "unguarded"

RunConsents == \A c \in Commands :
    /\ ran[c] > 0 => Granted(c) /\ kind[c] # "unguarded"
    /\ kind[c] = "unguarded" => outcome[c] = "none"

ConsentInv == /\ CloudConsents /\ OpenConsents /\ LateConsents /\ DecisionConsents
              /\ BatchConsents /\ ThreadConsents /\ RunConsents

\* A thread that is about to execute a command, or has just done so, works on
\* one whose row is not finished.
NotFinished == \A h \in Heartbeats :
    at[h] \in {"ack", "log", "progress", "execute", "mark"} => journal[cur[h]] \notin Finished

\* An execution is recorded, about to be recorded, or lost.
Marks(c) == \E h \in Heartbeats : at[h] = "mark" /\ cur[h] = c

Recorded == \A c \in Commands :
    IF journal[c] \in Finished \/ Marks(c) THEN ran[c] <= lost[c] + 1 ELSE ran[c] <= lost[c]

OnceInv == NotFinished /\ Recorded

\* A word for the result of c agrees with its execution and with the journal.
Told(c, s) == /\ s = "executed" => outcome[c] = "ok" /\ journal[c] = "completed"
              /\ s = "failed" => outcome[c] # "ok" /\ journal[c] = "failed"

Word(ok) == IF ok THEN "executed" ELSE "failed"

CloudTold == \A c \in Commands : c \in byHand \/ Told(c, cloud[c])
OpenTold == \A w \in open : w.id \in byHand \/ Told(w.id, w.to)
LateTold == \A m \in late : m.op = "result" => Told(m.id, Word(m.ok))
ThreadTold == \A h \in Heartbeats :
    /\ at[h] = "mark" => (outcome[cur[h]] = "ok" <=> okay[h])
    /\ at[h] = "result" => Told(cur[h], Word(okay[h]))
    /\ at[h] \in {"refuseAck", "refuseResult"} => Told(cur[h], "failed")

ToldInv == CloudTold /\ OpenTold /\ LateTold /\ ThreadTold

Inv == /\ DeliveryTypeOK /\ ConsentInv
       /\ Alone => OnceInv /\ ToldInv

-----------------------------------------------------------------------------
(* Types.                                                                   *)

\* The requests the Agent makes, and what the Cloud writes for them.
LEMMA RequestType ==
    ASSUME DeliveryTypeOK, NEW h \in Heartbeats, at[h] # "idle"
    PROVE  /\ RequestOf(h) \in Requests
           /\ RequestOf(h).id = cur[h]
<1>1. cur[h] \in Commands /\ okay[h] \in BOOLEAN
      BY DEF DeliveryTypeOK
<1>2. RequestOf(h).op \in {"ack", "result", "approval"}
      BY DEF RequestOf
<1>3. RequestOf(h).ok \in BOOLEAN
      BY DEF RequestOf
<1> QED BY <1>1, <1>2, <1>3 DEF RequestOf, Requests

LEMMA WriteType ==
    ASSUME NEW m \in Requests
    PROVE  /\ WriteOf(m) \in Writes
           /\ WriteOf(m).id = m.id
           /\ m.op = "ack" => WriteOf(m).to = "acknowledged"
           /\ m.op = "result" => WriteOf(m).to = Word(m.ok)
           /\ m.op = "approval" => WriteOf(m).to = IF m.ok THEN "approved" ELSE "rejected"
<1>1. m.id \in Commands /\ m.op \in {"ack", "result", "approval"}
      BY DEF Requests
<1>2. WriteOf(m).to \in CommandStatus
      BY <1>1 DEF WriteOf, CommandStatus
<1> QED BY <1>1, <1>2 DEF WriteOf, Writes, Word

LEMMA DecidedType ==
    ASSUME DeliveryTypeOK, decision # NoDecision
    PROVE  /\ Decided \in Requests
           /\ Decided.id = decision.id /\ decision.id \in Commands
           /\ decision.passed \in BOOLEAN
           /\ Decided.op = "approval" /\ Decided.ok = decision.ok
BY DEF DeliveryTypeOK, Decisions, Decided, Requests

LEMMA DecisionPassed ==
    ASSUME DeliveryTypeOK, decision.passed
    PROVE  decision # NoDecision
BY DEF NoDecision

\* A thread's command ends: its fields go back.
LEMMA EndType ==
    ASSUME DeliveryTypeOK, NEW h \in Heartbeats, EndCommand(h)
    PROVE  /\ at' \in [Heartbeats -> Steps]
           /\ cur' \in [Heartbeats -> Commands \cup {0}]
           /\ \A g \in Heartbeats : at'[g] # "idle" => cur'[g] \in Commands
           /\ okay' \in [Heartbeats -> BOOLEAN]
           /\ passed' \in [Heartbeats -> BOOLEAN]
           /\ at'[h] = "idle"
           /\ \A g \in Heartbeats : g # h => at'[g] = at[g] /\ cur'[g] = cur[g]
                                           /\ okay'[g] = okay[g] /\ passed'[g] = passed[g]
BY DEF DeliveryTypeOK, EndCommand, Goto, Steps

LEMMA PolledType ==
    ASSUME DeliveryTypeOK
    PROVE  {[id |-> c, status |-> cloud[c]] : c \in PollResult} \subseteq Polled
<1>1. ASSUME NEW c \in PollResult PROVE [id |-> c, status |-> cloud[c]] \in Polled
  <2>1. c \in Commands /\ cloud[c] \in CommandStatus
        BY DEF DeliveryTypeOK, PollResult
  <2> QED BY <2>1 DEF Polled
<1> QED BY <1>1

\* Every step of the specification keeps the types.
LEMMA TypeProcess ==
    ASSUME DeliveryTypeOK, NEW h \in Heartbeats, ProcessCommand(h)
    PROVE  DeliveryTypeOK'
<1> USE DEF cloudVars, database, memory, thread, consents, runs
<1>1. CASE poll_commands(h)
      BY <1>1, PolledType DEF poll_commands, DeliveryTypeOK
<1>2. ASSUME NEW p \in batch[h], SkipExecuted(h, p) PROVE DeliveryTypeOK'
      BY <1>2 DEF SkipExecuted, Takes, DeliveryTypeOK, Polled
<1>3. ASSUME NEW p \in batch[h], Refuse(h, p) PROVE DeliveryTypeOK'
      BY <1>3 DEF Refuse, Takes, Begin, Goto, log_received, DeliveryTypeOK, Polled,
                  JournalStatus, Steps, CallSteps
<1>4. ASSUME NEW p \in batch[h], AwaitApproval(h, p) PROVE DeliveryTypeOK'
      BY <1>4 DEF AwaitApproval, Takes, Begin, Goto, DeliveryTypeOK, Polled, Steps, CallSteps
<1>5. ASSUME NEW p \in batch[h], StartExecution(h, p) PROVE DeliveryTypeOK'
      BY <1>5 DEF StartExecution, Takes, Begin, Goto, DeliveryTypeOK, Polled, Steps, CallSteps
<1>6. CASE RefuseMark(h)
      BY <1>6 DEF RefuseMark, Goto, mark, DeliveryTypeOK, JournalStatus, Steps, CallSteps
<1>7. CASE LogReceived(h)
      BY <1>7 DEF LogReceived, Goto, log_received, DeliveryTypeOK, JournalStatus, Steps
<1>8. CASE MarkInProgress(h)
      BY <1>8 DEF MarkInProgress, Goto, mark, DeliveryTypeOK, JournalStatus, Steps
<1>9. ASSUME NEW success \in BOOLEAN, Execute(h, success) PROVE DeliveryTypeOK'
      BY <1>9 DEF Execute, Goto, DeliveryTypeOK, Steps
<1>10. CASE MarkDone(h)
      BY <1>10 DEF MarkDone, Goto, mark, DeliveryTypeOK, JournalStatus, Steps, CallSteps
<1>11. CASE JournalFails(h)
  <2>1. faults' \in 0..MaxFaults
        BY <1>11, BoundAssumption DEF JournalFails, DeliveryTypeOK
  <2>2. lost' \in [Commands -> Nat]
        BY <1>11 DEF JournalFails, DeliveryTypeOK
  <2>3. batch' \in [Heartbeats -> SUBSET Polled]
        BY <1>11 DEF JournalFails, DeliveryTypeOK
  <2> QED BY <1>11, <2>1, <2>2, <2>3, EndType DEF JournalFails, DeliveryTypeOK
<1>12. CASE CallPasses(h)
      BY <1>12 DEF CallPasses, DeliveryTypeOK
<1>13. CASE CallAnswered(h)
  <2> DEFINE m == RequestOf(h)
  <2>1. at[h] # "idle"
        BY <1>13 DEF CallAnswered
  <2>2. m \in Requests /\ m.id = cur[h] /\ cur[h] \in Commands
        BY <2>1, RequestType DEF DeliveryTypeOK
  <2> HIDE DEF m
  <2>3. WriteOf(m) \in Writes
        BY <2>2, WriteType
  <2>4. cloud' \in [Commands -> CommandStatus]
        BY <1>13, <2>3 DEF CallAnswered, Commit, Writes, DeliveryTypeOK, m
  <2>5. CASE at[h] \in {"ack", "refuseAck"}
    <3>1. /\ UNCHANGED <<cur, okay, executedIds, submitted>>
          /\ Goto(h, IF at[h] = "ack" THEN "log" ELSE "refuseResult")
          /\ passed' = [passed EXCEPT ![h] = FALSE]
          BY <1>13, <2>5 DEF CallAnswered
    <3> QED BY <1>13, <2>1, <2>4, <2>5, <3>1
            DEF CallAnswered, Goto, DeliveryTypeOK, Steps, CallSteps
  <2>6. CASE at[h] \notin {"ack", "refuseAck"}
    <3>1. EndCommand(h) /\ executedIds' \in SUBSET Commands /\ submitted' \in SUBSET Commands
          BY <1>13, <2>6, <2>2 DEF CallAnswered, DeliveryTypeOK
    <3> QED BY <1>13, <3>1, <2>4, EndType DEF CallAnswered, DeliveryTypeOK
  <2> QED BY <2>5, <2>6
<1>14. CASE CallRaises(h)
  <2>1. at[h] # "idle"
        BY <1>14 DEF CallRaises, CallSteps
  <2>2. RequestOf(h) \in Requests
        BY <2>1, RequestType
  <2>3. WriteOf(RequestOf(h)) \in Writes
        BY <2>2, WriteType
  <2>4. late' \in SUBSET Requests /\ open' \in SUBSET Writes
        BY <1>14, <2>2, <2>3 DEF CallRaises, DeliveryTypeOK
  <2>5. faults' \in 0..MaxFaults
        BY <1>14, BoundAssumption DEF CallRaises, DeliveryTypeOK
  <2>6. EndCommand(h)
        BY <1>14 DEF CallRaises
  <2> QED BY <1>14, <2>4, <2>5, <2>6, EndType DEF CallRaises, DeliveryTypeOK
<1> QED BY <1>1, <1>2, <1>3, <1>4, <1>5, <1>6, <1>7, <1>8, <1>9, <1>10, <1>11, <1>12,
           <1>13, <1>14 DEF ProcessCommand

LEMMA TypeOperator ==
    ASSUME DeliveryTypeOK, Operator
    PROVE  DeliveryTypeOK'
<1> USE DEF cloudVars, database, memory, thread, consents, runs
<1>1. ASSUME NEW c \in Commands, RequestTimesOut(c) PROVE DeliveryTypeOK'
      BY <1>1 DEF RequestTimesOut, DeliveryTypeOK
<1>2. ASSUME NEW c \in Commands, NEW yes \in BOOLEAN, Decide(c, yes) PROVE DeliveryTypeOK'
  <2>1. [id |-> c, ok |-> yes, passed |-> FALSE] \in Decisions
        BY DEF Decisions
  <2>2. decision' \in Decisions \cup {NoDecision} /\ local' \in SUBSET Commands
        BY <1>2, <2>1 DEF Decide, DeliveryTypeOK
  <2>3. request' \in [Commands -> {"none", "pending", "overdue", "expired"}]
        BY <1>2 DEF Decide, DeliveryTypeOK
  <2> QED BY <1>2, <2>2, <2>3 DEF Decide, DeliveryTypeOK
<1>3. CASE DecisionPasses
  <2>1. decision' \in Decisions
        BY <1>3 DEF DecisionPasses, DeliveryTypeOK, Decisions
  <2> QED BY <1>3, <2>1 DEF DecisionPasses, DeliveryTypeOK
<1>4. CASE DecisionAnswered
  <2>1. decision # NoDecision
        BY <1>4, DecisionPassed DEF DecisionAnswered
  <2>2. Decided \in Requests /\ decision.id \in Commands
        BY <2>1, DecidedType
  <2>3. WriteOf(Decided) \in Writes
        BY <2>2, WriteType
  <2>4. cloud' \in [Commands -> CommandStatus]
        BY <1>4, <2>3 DEF DecisionAnswered, Commit, Writes, DeliveryTypeOK
  <2> QED BY <1>4, <2>2, <2>4 DEF DecisionAnswered, DeliveryTypeOK
<1>5. CASE DecisionRaises
  <2>1. Decided \in Requests
        BY <1>5, DecidedType DEF DecisionRaises
  <2>2. WriteOf(Decided) \in Writes
        BY <2>1, WriteType
  <2>3. late' \in SUBSET Requests /\ open' \in SUBSET Writes
        BY <1>5, <2>1, <2>2 DEF DecisionRaises, DeliveryTypeOK
  <2>4. faults' \in 0..MaxFaults
        BY <1>5, BoundAssumption DEF DecisionRaises, DeliveryTypeOK
  <2> QED BY <1>5, <2>3, <2>4 DEF DecisionRaises, DeliveryTypeOK
<1> QED BY <1>1, <1>2, <1>3, <1>4, <1>5 DEF Operator

LEMMA TypeControlPlane ==
    ASSUME DeliveryTypeOK, ControlPlane
    PROVE  DeliveryTypeOK'
<1> USE DEF cloudVars, database, memory, thread, consents, runs
<1>1. ASSUME NEW c \in Commands, create_command(c) PROVE DeliveryTypeOK'
      BY <1>1 DEF create_command, DeliveryTypeOK, CommandStatus
<1>2. ASSUME NEW c \in Commands, NEW yes \in BOOLEAN, create_approval(c, yes)
      PROVE DeliveryTypeOK'
      BY <1>2 DEF create_approval, UserBegins, DeliveryTypeOK, CommandStatus, Writes
<1>3. ASSUME NEW c \in Commands, NEW s \in CommandStatus, transition_command(c, s)
      PROVE DeliveryTypeOK'
  <2>1. [id |-> c, to |-> s] \in Writes
        BY DEF Writes
  <2> QED BY <1>3, <2>1 DEF transition_command, UserBegins, DeliveryTypeOK
<1>4. ASSUME NEW c \in Commands, DeadlinePasses(c) PROVE DeliveryTypeOK'
      BY <1>4 DEF DeadlinePasses, DeliveryTypeOK
<1>5. CASE expire_stale_commands
      BY <1>5 DEF expire_stale_commands, UserBegins, DeliveryTypeOK, CommandStatus, Writes
<1>6. ASSUME NEW m \in late, LateArrives(m) PROVE DeliveryTypeOK'
  <2>1. m \in Requests
        BY DEF DeliveryTypeOK
  <2>2. WriteOf(m) \in Writes
        BY <2>1, WriteType
  <2> QED BY <1>6, <2>2 DEF LateArrives, DeliveryTypeOK
<1>7. ASSUME NEW w \in open, CommitOpen(w) PROVE DeliveryTypeOK'
  <2>1. w \in Writes
        BY DEF DeliveryTypeOK
  <2> QED BY <1>7, <2>1 DEF CommitOpen, Commit, Writes, DeliveryTypeOK
<1> QED BY <1>1, <1>2, <1>3, <1>4, <1>5, <1>6, <1>7 DEF ControlPlane

LEMMA TypeCrash ==
    ASSUME DeliveryTypeOK, Crash
    PROVE  DeliveryTypeOK'
<1> USE DEF cloudVars, database, memory, thread, consents, runs
<1>1. \A h \in Heartbeats : at[h] \in CallSteps =>
        RequestOf(h) \in Requests /\ WriteOf(RequestOf(h)) \in Writes
      BY RequestType, WriteType DEF CallSteps
<1>2. decision # NoDecision => Decided \in Requests /\ WriteOf(Decided) \in Writes
      BY DecidedType, WriteType
<1>3. late' \in SUBSET Requests
      BY <1>1, <1>2 DEF Crash, DeliveryTypeOK
<1>4. open' \in SUBSET Writes
      BY <1>1, <1>2 DEF Crash, DeliveryTypeOK
<1>5. lost' \in [Commands -> Nat]
      BY DEF Crash, DeliveryTypeOK
<1>6. crashes' \in 0..MaxCrashes
      BY BoundAssumption DEF Crash, DeliveryTypeOK
<1>7. /\ executedIds' \in SUBSET Commands
      /\ batch' \in [Heartbeats -> SUBSET Polled]
      /\ at' \in [Heartbeats -> Steps]
      /\ cur' \in [Heartbeats -> Commands \cup {0}]
      /\ \A h \in Heartbeats : at'[h] = "idle"
      BY DEF Crash, Steps
<1>8. /\ request' \in [Commands -> {"none", "pending", "overdue", "expired"}]
      /\ okay' \in [Heartbeats -> BOOLEAN]
      /\ passed' \in [Heartbeats -> BOOLEAN]
      /\ submitted' \in SUBSET Commands
      /\ decision' = NoDecision
      BY DEF Crash
<1> QED BY <1>3, <1>4, <1>5, <1>6, <1>7, <1>8 DEF Crash, DeliveryTypeOK

LEMMA TypeNext ==
    ASSUME DeliveryTypeOK, [Next]_vars
    PROVE  DeliveryTypeOK'
<1>1. CASE UNCHANGED vars
      BY <1>1 DEF vars, cloudVars, database, memory, thread, consents, runs, DeliveryTypeOK
<1> QED BY <1>1, TypeProcess, TypeOperator, TypeControlPlane, TypeCrash DEF Next

LEMMA TypeInit == Init => DeliveryTypeOK
BY BoundAssumption DEF Init, DeliveryTypeOK, CommandStatus, JournalStatus, Steps

\* The rows, queues and fields keep their type and a thread that is not idle
\* works on a command, whatever crosses, fails or crashes.
THEOREM DeliveryIsTyped == Spec => []DeliveryTypeOK
BY TypeInit, TypeNext, PTL DEF Spec

-----------------------------------------------------------------------------
(* Consent.                                                                 *)

\* Nothing takes consent back.
LEMMA GrantedStays ==
    ASSUME DeliveryTypeOK, [Next]_vars
    PROVE  /\ kind' = kind
           /\ \A c \in Commands : Granted(c) => Granted(c)'
<1> USE DEF cloudVars, database, memory, thread, consents, runs
<1>1. CASE UNCHANGED vars
      BY <1>1 DEF vars, Granted
<1>2. ASSUME NEW h \in Heartbeats, ProcessCommand(h)
      PROVE  UNCHANGED <<kind, local, remote>>
      BY <1>2 DEF ProcessCommand, poll_commands, SkipExecuted, Refuse, RefuseMark,
            AwaitApproval, StartExecution, LogReceived, MarkInProgress, Execute, MarkDone,
            JournalFails, CallPasses, CallAnswered, CallRaises
<1>3. CASE Operator
  <2>1. UNCHANGED <<kind, remote>> /\ local \subseteq local'
        BY <1>3 DEF Operator, RequestTimesOut, Decide, DecisionPasses, DecisionAnswered,
                    DecisionRaises
  <2> QED BY <2>1 DEF Granted
<1>4. CASE ControlPlane
  <2>1. UNCHANGED <<kind, local>> /\ remote \subseteq remote'
        BY <1>4 DEF ControlPlane, create_command, create_approval, transition_command,
              UserBegins, DeadlinePasses, expire_stale_commands, LateArrives, CommitOpen
  <2> QED BY <2>1 DEF Granted
<1>5. CASE Crash
      BY <1>5 DEF Crash, Granted
<1> QED BY <1>1, <1>2, <1>3, <1>4, <1>5 DEF Next, Granted

\* A request the Cloud accepts writes what consent is behind.
LEMMA AcceptedConsents ==
    ASSUME DeliveryTypeOK, ConsentInv, NEW m \in Requests, Accepts(m),
           m.op = "approval" /\ m.ok => Granted(m.id)
    PROVE  WriteOf(m).to \in Harmless \/ Granted(m.id)
<1>1. m.id \in Commands
      BY DEF Requests
<1>2. CASE m.op = "approval"
      BY <1>2, WriteType DEF Harmless
<1>3. CASE m.op # "approval"
  <2>1. cloud[m.id] \in {"pending", "approved", "sent", "acknowledged"}
        BY <1>3 DEF Accepts, AckAllowed, ResultAllowed
  <2> QED BY <1>1, <2>1 DEF ConsentInv, CloudConsents, Harmless
<1> QED BY <1>2, <1>3

LEMMA ThreadRequestConsents ==
    ASSUME DeliveryTypeOK, ConsentInv, NEW h \in Heartbeats, at[h] # "idle"
    PROVE  Granted(RequestOf(h).id) /\ Granted(WriteOf(RequestOf(h)).id)
BY RequestType, WriteType DEF ConsentInv, ThreadConsents

LEMMA DecidedConsents ==
    ASSUME DeliveryTypeOK, ConsentInv, decision # NoDecision
    PROVE  /\ Decided.ok => Granted(Decided.id)
           /\ WriteOf(Decided).to \in Harmless \/ Granted(Decided.id)
           /\ WriteOf(Decided).id = Decided.id
<1>1. Decided \in Requests /\ Decided.op = "approval" /\ Decided.id = decision.id
      /\ Decided.ok = decision.ok
      BY DecidedType
<1>2. Decided.ok => Granted(Decided.id)
      BY <1>1 DEF ConsentInv, DecisionConsents
<1>3. /\ WriteOf(Decided).to = IF Decided.ok THEN "approved" ELSE "rejected"
      /\ WriteOf(Decided).id = Decided.id
      BY <1>1, WriteType
<1> QED BY <1>2, <1>3 DEF Harmless

\* The command a thread takes from its batch.
LEMMA TakenType ==
    ASSUME DeliveryTypeOK, NEW h \in Heartbeats, NEW p \in batch[h]
    PROVE  p.id \in Commands /\ p.status \in CommandStatus
BY DEF DeliveryTypeOK, Polled

\* Steps of a heartbeat thread.
LEMMA ConsentProcess ==
    ASSUME DeliveryTypeOK, DeliveryTypeOK', ConsentInv, NEW h \in Heartbeats, ProcessCommand(h),
           kind' = kind, \A c \in Commands : Granted(c) => Granted(c)'
    PROVE  ConsentInv'
<1> USE DEF cloudVars, database, memory, thread, consents, runs
<1> DEFINE OthersStay == \A g \in Heartbeats : g # h => at'[g] = at[g] /\ cur'[g] = cur[g]
<1> DEFINE CloudSide == UNCHANGED <<cloud, late, open, decision>>
<1>a. CloudSide => CloudConsents' /\ OpenConsents' /\ LateConsents' /\ DecisionConsents'
  <2>1. CloudSide => CloudConsents'
        BY DEF CloudConsents, ConsentInv
  <2>2. CloudSide => OpenConsents'
        BY DEF OpenConsents, ConsentInv, DeliveryTypeOK, Writes
  <2>3. CloudSide => LateConsents'
        BY DEF LateConsents, ConsentInv, DeliveryTypeOK, Requests
  <2>4. CloudSide => DecisionConsents'
        BY DEF DecisionConsents, ConsentInv, DeliveryTypeOK, Decisions
  <2> QED BY <2>1, <2>2, <2>3, <2>4
<1>b. (\A g \in Heartbeats : batch'[g] \subseteq batch[g]) => BatchConsents'
      BY DEF BatchConsents, ConsentInv, DeliveryTypeOK, Polled
<1>c. UNCHANGED <<ran, outcome>> => RunConsents'
      BY DEF RunConsents, ConsentInv
<1>d. ASSUME OthersStay,
             \/ at'[h] = "idle"
             \/ at'[h] = at[h] /\ cur'[h] = cur[h]
             \/ /\ cur'[h] \in Commands /\ Granted(cur'[h])
                /\ at'[h] \in RunSteps => kind[cur'[h]] # "unguarded"
                /\ at'[h] \in RefuseSteps => kind[cur'[h]] = "unguarded"
      PROVE  ThreadConsents'
      BY <1>d DEF ThreadConsents, ConsentInv, DeliveryTypeOK, RunSteps, RefuseSteps
<1> HIDE DEF OthersStay, CloudSide
<1>1. CASE poll_commands(h)
  <2>1. BatchConsents'
    <3>1. ASSUME NEW c \in PollResult PROVE cloud[c] = "pending_approval" \/ Granted(c)'
      <4>1. c \in Commands /\ cloud[c] \in {"pending", "pending_approval", "approved", "sent"}
            BY DEF PollResult, Pollable
      <4> QED BY <4>1 DEF ConsentInv, CloudConsents, Harmless
    <3>2. \A g \in Heartbeats : \A p \in batch[g] : p.status = "pending_approval" \/ Granted(p.id)'
          BY DEF ConsentInv, BatchConsents, DeliveryTypeOK, Polled
    <3>3. \A g \in Heartbeats : g # h => batch'[g] = batch[g]
          BY <1>1 DEF poll_commands, DeliveryTypeOK
    <3>4. batch'[h] = {[id |-> c, status |-> cloud[c]] : c \in PollResult}
          BY <1>1 DEF poll_commands, DeliveryTypeOK
    <3> QED BY <3>1, <3>2, <3>3, <3>4 DEF BatchConsents, Granted
  <2>2. OthersStay /\ CloudSide /\ UNCHANGED <<ran, outcome, at, cur>>
        BY <1>1 DEF poll_commands, OthersStay, CloudSide
  <2> QED BY <1>a, <1>c, <1>d, <2>1, <2>2 DEF ConsentInv
<1>2. ASSUME NEW p \in batch[h], SkipExecuted(h, p) PROVE ConsentInv'
  <2>1. OthersStay /\ CloudSide /\ UNCHANGED <<ran, outcome, at, cur>>
        BY <1>2 DEF SkipExecuted, OthersStay, CloudSide
  <2>2. \A g \in Heartbeats : batch'[g] \subseteq batch[g]
        BY <1>2 DEF SkipExecuted, Takes, DeliveryTypeOK
  <2> QED BY <1>a, <1>b, <1>c, <1>d, <2>1, <2>2 DEF ConsentInv
<1>3. ASSUME NEW p \in batch[h], Refuse(h, p) PROVE ConsentInv'
  <2>1. OthersStay /\ CloudSide /\ UNCHANGED <<ran, outcome>>
        BY <1>3 DEF Refuse, Begin, Goto, OthersStay, CloudSide, DeliveryTypeOK
  <2>2. \A g \in Heartbeats : batch'[g] \subseteq batch[g]
        BY <1>3 DEF Refuse, Takes, DeliveryTypeOK
  <2>3. at'[h] = "refuseMark" /\ cur'[h] = p.id /\ p.id \in Commands
        BY <1>3, TakenType DEF Refuse, Begin, Goto, DeliveryTypeOK
  <2>4. kind[p.id] = "unguarded"
        BY <1>3, <2>3 DEF Refuse, Refused, TradingImpacting, RequiresApproval
  <2>5. Granted(p.id)
        BY <2>4 DEF Granted
  <2> QED BY <1>a, <1>b, <1>c, <1>d, <2>1, <2>2, <2>3, <2>4, <2>5 DEF ConsentInv, RunSteps
<1>4. ASSUME NEW p \in batch[h], AwaitApproval(h, p) PROVE ConsentInv'
  <2>1. OthersStay /\ CloudSide /\ UNCHANGED <<ran, outcome>>
        BY <1>4 DEF AwaitApproval, Begin, Goto, OthersStay, CloudSide, DeliveryTypeOK
  <2>2. \A g \in Heartbeats : batch'[g] \subseteq batch[g]
        BY <1>4 DEF AwaitApproval, Takes, DeliveryTypeOK
  <2>3. CASE UNCHANGED <<at, cur>>
        BY <1>a, <1>b, <1>c, <1>d, <2>1, <2>2, <2>3 DEF ConsentInv
  <2>4. CASE ~UNCHANGED <<at, cur>>
    <3>1. AutoApproved(p.id) /\ Begin(h, p, "approve")
          BY <1>4, <2>4 DEF AwaitApproval
    <3>2. at'[h] = "approve" /\ cur'[h] = p.id /\ p.id \in Commands
          BY <3>1, TakenType DEF Begin, Goto, DeliveryTypeOK
    <3>3. Granted(p.id)
          BY <3>1 DEF AutoApproved, TradingImpacting, Granted
    <3> QED BY <1>a, <1>b, <1>c, <1>d, <2>1, <2>2, <3>2, <3>3
            DEF ConsentInv, RunSteps, RefuseSteps
  <2> QED BY <2>3, <2>4
<1>5. ASSUME NEW p \in batch[h], StartExecution(h, p) PROVE ConsentInv'
  <2>1. OthersStay /\ CloudSide /\ UNCHANGED <<ran, outcome>>
        BY <1>5 DEF StartExecution, Begin, Goto, OthersStay, CloudSide, DeliveryTypeOK
  <2>2. \A g \in Heartbeats : batch'[g] \subseteq batch[g]
        BY <1>5 DEF StartExecution, Takes, DeliveryTypeOK
  <2>3. at'[h] = "ack" /\ cur'[h] = p.id /\ p.id \in Commands
        BY <1>5, TakenType DEF StartExecution, Begin, Goto, DeliveryTypeOK
  <2>4. kind[p.id] # "unguarded"
        BY <1>5 DEF StartExecution, Refused, TradingImpacting, RequiresApproval
  <2>5. Granted(p.id)
        BY <1>5 DEF StartExecution, ConsentInv, BatchConsents
  <2> QED BY <1>a, <1>b, <1>c, <1>d, <2>1, <2>2, <2>3, <2>4, <2>5 DEF ConsentInv, RefuseSteps
<1>6. ASSUME \/ RefuseMark(h) \/ LogReceived(h) \/ MarkInProgress(h) \/ MarkDone(h)
      PROVE  ConsentInv'
  <2>1. OthersStay /\ CloudSide /\ UNCHANGED <<ran, outcome, cur, batch>>
        BY <1>6 DEF RefuseMark, LogReceived, MarkInProgress, MarkDone, Goto, OthersStay,
                    CloudSide, DeliveryTypeOK
  <2>2. /\ at[h] \in {"refuseMark", "log", "progress", "mark"}
        /\ at[h] = "refuseMark" => at'[h] = "refuseAck"
        /\ at[h] # "refuseMark" => at'[h] \in RunSteps
        BY <1>6 DEF RefuseMark, LogReceived, MarkInProgress, MarkDone, Goto, RunSteps,
                    DeliveryTypeOK
  <2>3. /\ cur'[h] \in Commands /\ Granted(cur'[h])
        /\ at'[h] \in RunSteps => kind[cur'[h]] # "unguarded"
        /\ at'[h] \in RefuseSteps => kind[cur'[h]] = "unguarded"
        BY <2>1, <2>2 DEF ConsentInv, ThreadConsents, DeliveryTypeOK, RunSteps, RefuseSteps
  <2> QED BY <1>a, <1>b, <1>c, <1>d, <2>1, <2>3 DEF ConsentInv
<1>7. ASSUME NEW success \in BOOLEAN, Execute(h, success) PROVE ConsentInv'
  <2>1. OthersStay /\ CloudSide /\ UNCHANGED <<cur, batch>>
        BY <1>7 DEF Execute, Goto, OthersStay, CloudSide, DeliveryTypeOK
  <2>2. at[h] = "execute" /\ at'[h] = "mark"
        BY <1>7 DEF Execute, Goto, DeliveryTypeOK
  <2>3. cur[h] \in Commands /\ Granted(cur[h]) /\ kind[cur[h]] # "unguarded"
        BY <2>2 DEF ConsentInv, ThreadConsents, DeliveryTypeOK, RunSteps
  <2>4. RunConsents'
        BY <1>7, <2>3 DEF Execute, RunConsents, ConsentInv, DeliveryTypeOK
  <2> QED BY <1>a, <1>b, <1>d, <2>1, <2>2, <2>3, <2>4 DEF ConsentInv, RefuseSteps
<1>8. CASE JournalFails(h)
  <2>1. EndCommand(h) /\ CloudSide /\ UNCHANGED <<ran, outcome>>
        BY <1>8 DEF JournalFails, CloudSide
  <2>2. \A g \in Heartbeats : batch'[g] \subseteq batch[g]
        BY <1>8 DEF JournalFails, DeliveryTypeOK
  <2>3. OthersStay /\ at'[h] = "idle"
        BY <2>1, EndType DEF OthersStay
  <2> QED BY <1>a, <1>b, <1>c, <1>d, <2>1, <2>2, <2>3 DEF ConsentInv
<1>9. CASE CallPasses(h)
  <2>1. OthersStay /\ CloudSide /\ UNCHANGED <<ran, outcome, at, cur, batch>>
        BY <1>9 DEF CallPasses, OthersStay, CloudSide
  <2> QED BY <1>a, <1>b, <1>c, <1>d, <2>1 DEF ConsentInv
<1>10. CASE CallAnswered(h)
  <2>1. at[h] \in CallSteps
        BY <1>10 DEF CallAnswered, CallSteps
  <2>2. /\ Granted(cur[h]) /\ cur[h] \in Commands
        /\ WriteOf(RequestOf(h)).id = cur[h]
        BY <2>1, RequestType, WriteType DEF ConsentInv, ThreadConsents, CallSteps, DeliveryTypeOK
  <2>3. CloudConsents'
        BY <1>10, <2>2 DEF CallAnswered, Commit, ConsentInv, CloudConsents, DeliveryTypeOK
  <2>4. UNCHANGED <<late, open, decision, ran, outcome, batch>>
        BY <1>10 DEF CallAnswered
  <2>5. OpenConsents' /\ LateConsents' /\ DecisionConsents'
    <3>1. OpenConsents'
          BY <2>4 DEF OpenConsents, ConsentInv, DeliveryTypeOK, Writes
    <3>2. LateConsents'
          BY <2>4 DEF LateConsents, ConsentInv, DeliveryTypeOK, Requests
    <3>3. DecisionConsents'
          BY <2>4 DEF DecisionConsents, ConsentInv, DeliveryTypeOK, Decisions
    <3> QED BY <3>1, <3>2, <3>3
  <2>6. CASE at[h] \in {"ack", "refuseAck"}
    <3>1. OthersStay /\ cur' = cur
          BY <1>10, <2>6 DEF CallAnswered, Goto, OthersStay, DeliveryTypeOK
    <3>2. at'[h] = IF at[h] = "ack" THEN "log" ELSE "refuseResult"
          BY <1>10, <2>6 DEF CallAnswered, Goto, DeliveryTypeOK
    <3>3. /\ at'[h] \in RunSteps => kind[cur'[h]] # "unguarded"
          /\ at'[h] \in RefuseSteps => kind[cur'[h]] = "unguarded"
          BY <3>1, <3>2, <2>6 DEF ConsentInv, ThreadConsents, RunSteps, RefuseSteps
    <3> QED BY <1>b, <1>c, <1>d, <2>2, <2>3, <2>4, <2>5, <3>1, <3>3 DEF ConsentInv
  <2>7. CASE at[h] \notin {"ack", "refuseAck"}
    <3>1. EndCommand(h)
          BY <1>10, <2>7 DEF CallAnswered
    <3>2. OthersStay /\ at'[h] = "idle"
          BY <3>1, EndType DEF OthersStay
    <3> QED BY <1>b, <1>c, <1>d, <2>3, <2>4, <2>5, <3>2 DEF ConsentInv
  <2> QED BY <2>6, <2>7
<1>11. CASE CallRaises(h)
  <2>1. at[h] # "idle" /\ EndCommand(h) /\ UNCHANGED <<cloud, decision, ran, outcome, batch>>
        BY <1>11 DEF CallRaises, CallSteps
  <2>2. /\ Granted(cur[h]) /\ cur[h] \in Commands /\ RequestOf(h).id = cur[h]
        /\ WriteOf(RequestOf(h)).id = cur[h]
        BY <2>1, RequestType, WriteType DEF ConsentInv, ThreadConsents, DeliveryTypeOK
  <2>3. late' \subseteq late \cup {RequestOf(h)} /\ open' \subseteq open \cup {WriteOf(RequestOf(h))}
        BY <1>11 DEF CallRaises
  <2>4. OpenConsents'
    <3>1. \A w \in open : w.to \in Harmless \/ Granted(w.id)'
          BY DEF ConsentInv, OpenConsents, DeliveryTypeOK, Writes
    <3> QED BY <2>2, <2>3, <3>1 DEF OpenConsents
  <2>5. LateConsents'
    <3>1. \A m \in late : m.op = "approval" /\ m.ok => Granted(m.id)'
          BY DEF ConsentInv, LateConsents, DeliveryTypeOK, Requests
    <3> QED BY <2>2, <2>3, <3>1 DEF LateConsents
  <2>6. CloudConsents' /\ DecisionConsents'
        BY <2>1 DEF CloudConsents, DecisionConsents, ConsentInv, DeliveryTypeOK, Decisions
  <2>7. OthersStay /\ at'[h] = "idle"
        BY <2>1, EndType DEF OthersStay
  <2> QED BY <1>b, <1>c, <1>d, <2>1, <2>4, <2>5, <2>6, <2>7 DEF ConsentInv
<1> QED BY <1>1, <1>2, <1>3, <1>4, <1>5, <1>6, <1>7, <1>8, <1>9, <1>10, <1>11 DEF ProcessCommand

\* Steps that leave the threads alone: what remains is the Cloud's side.
LEMMA ConsentFrame ==
    ASSUME DeliveryTypeOK, ConsentInv, kind' = kind,
           \A c \in Commands : Granted(c) => Granted(c)',
           UNCHANGED thread, UNCHANGED runs
    PROVE  /\ BatchConsents' /\ ThreadConsents' /\ RunConsents'
           /\ UNCHANGED cloud => CloudConsents'
           /\ open' \subseteq open => OpenConsents'
           /\ late' \subseteq late => LateConsents'
           /\ UNCHANGED decision => DecisionConsents'
<1> USE DEF thread, runs
<1>1. BatchConsents'
      BY DEF ConsentInv, BatchConsents, DeliveryTypeOK, Polled
<1>2. ThreadConsents'
      BY DEF ConsentInv, ThreadConsents, DeliveryTypeOK
<1>3. RunConsents'
      BY DEF ConsentInv, RunConsents
<1>4. UNCHANGED cloud => CloudConsents'
      BY DEF ConsentInv, CloudConsents
<1>5. open' \subseteq open => OpenConsents'
      BY DEF ConsentInv, OpenConsents, DeliveryTypeOK, Writes
<1>6. late' \subseteq late => LateConsents'
      BY DEF ConsentInv, LateConsents, DeliveryTypeOK, Requests
<1>7. UNCHANGED decision => DecisionConsents'
      BY DEF ConsentInv, DecisionConsents, DeliveryTypeOK, Decisions
<1> QED BY <1>1, <1>2, <1>3, <1>4, <1>5, <1>6, <1>7

\* Consent stays behind the writes and requests that were there already.
LEMMA OldConsents ==
    ASSUME DeliveryTypeOK, ConsentInv, \A c \in Commands : Granted(c) => Granted(c)'
    PROVE  /\ \A c \in Commands : cloud[c] \in Harmless \/ Granted(c)'
           /\ \A w \in open : w.to \in Harmless \/ Granted(w.id)'
           /\ \A m \in late : m.op = "approval" /\ m.ok => Granted(m.id)'
BY DEF ConsentInv, CloudConsents, OpenConsents, LateConsents, DeliveryTypeOK, Writes, Requests

\* Steps of the operator and of the decision that is being submitted.
LEMMA ConsentOperator ==
    ASSUME DeliveryTypeOK, DeliveryTypeOK', ConsentInv, Operator,
           kind' = kind, \A c \in Commands : Granted(c) => Granted(c)'
    PROVE  ConsentInv'
<1> USE DEF cloudVars, database, memory
<1>1. ASSUME NEW c \in Commands, RequestTimesOut(c) PROVE ConsentInv'
      BY <1>1, ConsentFrame DEF RequestTimesOut, ConsentInv
<1>2. ASSUME NEW c \in Commands, NEW yes \in BOOLEAN, Decide(c, yes) PROVE ConsentInv'
  <2>1. DecisionConsents'
        BY <1>2 DEF Decide, ConsentInv, DecisionConsents, Granted, NoDecision
  <2> QED BY <1>2, <2>1, ConsentFrame DEF Decide, ConsentInv
<1>3. CASE DecisionPasses
  <2>1. decision \in Decisions /\ decision' = [decision EXCEPT !.passed = TRUE]
        BY <1>3 DEF DecisionPasses, DeliveryTypeOK
  <2>2. decision'.id = decision.id /\ decision'.ok = decision.ok /\ decision.id \in Commands
        BY <2>1 DEF Decisions
  <2>3. DecisionConsents'
        BY <1>3, <2>2 DEF DecisionPasses, ConsentInv, DecisionConsents
  <2> QED BY <1>3, <2>3, ConsentFrame DEF DecisionPasses, ConsentInv
<1>4. CASE DecisionAnswered
  <2>1. decision # NoDecision
        BY <1>4, DecisionPassed DEF DecisionAnswered
  <2>2. /\ WriteOf(Decided).to \in Harmless \/ Granted(Decided.id)
        /\ WriteOf(Decided).id = Decided.id
        BY <2>1, DecidedConsents
  <2>3. Decided.id \in Commands
        BY <2>1, DecidedType
  <2>4. CloudConsents'
        BY <1>4, <2>2, <2>3, OldConsents DEF DecisionAnswered, Commit, CloudConsents, DeliveryTypeOK
  <2>5. DecisionConsents'
        BY <1>4 DEF DecisionAnswered, DecisionConsents
  <2> QED BY <1>4, <2>4, <2>5, ConsentFrame DEF DecisionAnswered, ConsentInv
<1>5. CASE DecisionRaises
  <2>1. /\ Decided.ok => Granted(Decided.id)
        /\ WriteOf(Decided).to \in Harmless \/ Granted(Decided.id)
        /\ WriteOf(Decided).id = Decided.id /\ Decided.id \in Commands
        BY <1>5, DecidedConsents, DecidedType DEF DecisionRaises
  <2>2. late' \subseteq late \cup {Decided} /\ open' \subseteq open \cup {WriteOf(Decided)}
        BY <1>5 DEF DecisionRaises
  <2>3. LateConsents'
        BY <2>1, <2>2, OldConsents DEF LateConsents
  <2>4. OpenConsents'
        BY <2>1, <2>2, OldConsents DEF OpenConsents
  <2>5. DecisionConsents'
        BY <1>5 DEF DecisionRaises, DecisionConsents
  <2> QED BY <1>5, <2>3, <2>4, <2>5, ConsentFrame DEF DecisionRaises, ConsentInv
<1> QED BY <1>1, <1>2, <1>3, <1>4, <1>5 DEF Operator

\* Steps of the control plane and its users.
LEMMA ConsentControlPlane ==
    ASSUME DeliveryTypeOK, DeliveryTypeOK', ConsentInv, ControlPlane,
           kind' = kind, \A c \in Commands : Granted(c) => Granted(c)'
    PROVE  ConsentInv'
<1> USE DEF cloudVars, database, memory
<1>1. ASSUME NEW c \in Commands, create_command(c) PROVE ConsentInv'
  <2>1. CloudConsents'
    <3>1. cloud'[c] \in Harmless \/ kind[c] # "impacting"
          BY <1>1 DEF create_command, RequiresApproval, Harmless, DeliveryTypeOK
    <3>2. \A d \in Commands : d # c => cloud'[d] = cloud[d]
          BY <1>1 DEF create_command, DeliveryTypeOK
    <3> QED BY <3>1, <3>2, OldConsents DEF CloudConsents, Granted
  <2> QED BY <1>1, <2>1, ConsentFrame DEF create_command, ConsentInv
<1>2. ASSUME NEW c \in Commands, NEW yes \in BOOLEAN, create_approval(c, yes)
      PROVE ConsentInv'
  <2>1. open' = open \cup {[id |-> c, to |-> IF yes THEN "approved" ELSE "rejected"]}
        BY <1>2 DEF create_approval, UserBegins
  <2>2. yes => Granted(c)'
        BY <1>2 DEF create_approval, Granted
  <2>3. OpenConsents'
        BY <2>1, <2>2, OldConsents DEF OpenConsents, Harmless
  <2> QED BY <1>2, <2>3, ConsentFrame DEF create_approval, UserBegins, ConsentInv
<1>3. ASSUME NEW c \in Commands, NEW s \in CommandStatus, transition_command(c, s)
      PROVE ConsentInv'
  <2>1. open' = open \cup {[id |-> c, to |-> s]}
        BY <1>3 DEF transition_command, UserBegins
  <2>2. s = "approved" => Granted(c)'
        BY <1>3 DEF transition_command, Granted
  <2>3. cloud[c] = "pending_approval" => s \in {"approved", "rejected", "expired"}
        BY <1>3 DEF transition_command, COMMAND_STATE_TRANSITIONS
  <2>4. cloud[c] \in {"pending", "pending_approval", "approved", "sent", "acknowledged"}
        BY <1>3 DEF transition_command, COMMAND_STATE_TRANSITIONS
  <2>5. cloud[c] # "pending_approval" => Granted(c)'
        BY <2>4, OldConsents DEF Harmless
  <2>6. s \in Harmless \/ Granted(c)'
        BY <2>2, <2>3, <2>5 DEF Harmless
  <2>7. OpenConsents'
        BY <2>1, <2>6, OldConsents DEF OpenConsents
  <2> QED BY <1>3, <2>7, ConsentFrame DEF transition_command, UserBegins, ConsentInv
<1>4. ASSUME NEW c \in Commands, DeadlinePasses(c) PROVE ConsentInv'
      BY <1>4, ConsentFrame DEF DeadlinePasses, ConsentInv
<1>5. CASE expire_stale_commands
  <2>1. \A w \in open' : w \in open \/ w.to = "expired"
        BY <1>5 DEF expire_stale_commands, UserBegins
  <2>2. OpenConsents'
        BY <2>1, OldConsents DEF OpenConsents, Harmless
  <2> QED BY <1>5, <2>2, ConsentFrame DEF expire_stale_commands, UserBegins, ConsentInv
<1>6. ASSUME NEW m \in late, LateArrives(m) PROVE ConsentInv'
  <2>1. m \in Requests /\ m.id \in Commands
        BY DEF DeliveryTypeOK, Requests
  <2>2. Accepts(m) => WriteOf(m).to \in Harmless \/ Granted(m.id)
        BY <2>1, AcceptedConsents DEF ConsentInv, LateConsents
  <2>3. WriteOf(m).id = m.id
        BY <2>1, WriteType
  <2>4. OpenConsents'
        BY <1>6, <2>1, <2>2, <2>3, OldConsents DEF LateArrives, OpenConsents
  <2> QED BY <1>6, <2>4, ConsentFrame DEF LateArrives, ConsentInv
<1>7. ASSUME NEW w \in open, CommitOpen(w) PROVE ConsentInv'
  <2>1. w.id \in Commands
        BY DEF DeliveryTypeOK, Writes
  <2>2. CloudConsents'
        BY <1>7, <2>1, OldConsents DEF CommitOpen, Commit, CloudConsents, DeliveryTypeOK
  <2> QED BY <1>7, <2>2, ConsentFrame DEF CommitOpen, ConsentInv
<1> QED BY <1>1, <1>2, <1>3, <1>4, <1>5, <1>6, <1>7 DEF ControlPlane

LEMMA ConsentCrash ==
    ASSUME DeliveryTypeOK, DeliveryTypeOK', ConsentInv, Crash,
           kind' = kind, \A c \in Commands : Granted(c) => Granted(c)'
    PROVE  ConsentInv'
<1> USE DEF database
<1>1. ASSUME NEW h \in Heartbeats, at[h] \in CallSteps, NEW c,
             c = RequestOf(h).id \/ c = WriteOf(RequestOf(h)).id
      PROVE  Granted(c)'
  <2>1. at[h] # "idle"
        BY <1>1 DEF CallSteps
  <2>2. Granted(c) /\ c \in Commands
        BY <1>1, <2>1, ThreadRequestConsents, RequestType, WriteType DEF DeliveryTypeOK
  <2> QED BY <2>2
<1>2. ASSUME decision # NoDecision, NEW c, c = Decided.id
      PROVE  /\ Decided.ok => Granted(c)'
             /\ WriteOf(Decided).to \in Harmless \/ Granted(c)'
             /\ WriteOf(Decided).id = c
      BY <1>2, DecidedConsents, DecidedType
<1>3. ASSUME NEW m \in late', m.op = "approval", m.ok PROVE Granted(m.id)'
  <2>1. \/ m \in late
        \/ \E h \in Heartbeats : at[h] \in CallSteps /\ m = RequestOf(h)
        \/ decision # NoDecision /\ m = Decided
        BY DEF Crash
  <2>2. CASE m \in late
        BY <1>3, <2>2, OldConsents
  <2>3. CASE \E h \in Heartbeats : at[h] \in CallSteps /\ m = RequestOf(h)
        BY <1>1, <2>3
  <2>4. CASE decision # NoDecision /\ m = Decided
        BY <1>2, <1>3, <2>4
  <2> QED BY <2>1, <2>2, <2>3, <2>4
<1>4. ASSUME NEW w \in open' PROVE w.to \in Harmless \/ Granted(w.id)'
  <2>1. \/ w \in open
        \/ \E h \in Heartbeats : at[h] \in CallSteps /\ w = WriteOf(RequestOf(h))
        \/ decision # NoDecision /\ w = WriteOf(Decided)
        BY DEF Crash
  <2>2. CASE w \in open
        BY <2>2, OldConsents
  <2>3. CASE \E h \in Heartbeats : at[h] \in CallSteps /\ w = WriteOf(RequestOf(h))
        BY <1>1, <2>3
  <2>4. CASE decision # NoDecision /\ w = WriteOf(Decided)
        BY <1>2, <2>4
  <2> QED BY <2>1, <2>2, <2>3, <2>4
<1>5. LateConsents' /\ OpenConsents'
      BY <1>3, <1>4 DEF LateConsents, OpenConsents
<1>6. CloudConsents' /\ RunConsents'
      BY DEF Crash, ConsentInv, CloudConsents, RunConsents
<1>7. BatchConsents' /\ ThreadConsents' /\ DecisionConsents'
      BY DEF Crash, BatchConsents, ThreadConsents, DecisionConsents, RunSteps, RefuseSteps
<1> QED BY <1>5, <1>6, <1>7 DEF ConsentInv

LEMMA ConsentNext ==
    ASSUME DeliveryTypeOK, ConsentInv, [Next]_vars
    PROVE  ConsentInv'
<1>1. DeliveryTypeOK'
      BY TypeNext
<1>2. kind' = kind /\ \A c \in Commands : Granted(c) => Granted(c)'
      BY GrantedStays
<1>3. CASE UNCHANGED vars
      BY <1>2, <1>3, ConsentFrame DEF vars, cloudVars, database, ConsentInv
<1> QED BY <1>1, <1>2, <1>3, ConsentProcess, ConsentOperator, ConsentControlPlane,
           ConsentCrash DEF Next

LEMMA ConsentInit == Init => ConsentInv
BY DEF Init, ConsentInv, CloudConsents, OpenConsents, LateConsents, DecisionConsents,
       BatchConsents, ThreadConsents, RunConsents, RunSteps, RefuseSteps, Harmless

\* A trading-impacting command that ran asked for consent and got it, of the
\* operator or of a user of the control plane, for any number of heartbeat
\* threads and whatever requests cross or come late.
THEOREM RunsAreConsented == Spec => []RunsWithConsent
<1>1. Init => DeliveryTypeOK /\ ConsentInv
      BY TypeInit, ConsentInit
<1>2. DeliveryTypeOK /\ ConsentInv /\ [Next]_vars => (DeliveryTypeOK /\ ConsentInv)'
      BY TypeNext, ConsentNext
<1>3. DeliveryTypeOK /\ ConsentInv => RunsWithConsent
      BY DEF DeliveryTypeOK, ConsentInv, RunConsents, RunsWithConsent, Granted, Kinds,
             RequiresApproval, TradingImpacting
<1> QED BY <1>1, <1>2, <1>3, PTL DEF Spec

-----------------------------------------------------------------------------
(* At most one execution, with one heartbeat thread.                        *)

\* The places of NotFinished.
BeforeMark == {"ack", "log", "progress", "execute", "mark"}

LEMMA OnceProcess ==
    ASSUME DeliveryTypeOK, DeliveryTypeOK', Alone, OnceInv, NEW h \in Heartbeats,
           ProcessCommand(h)
    PROVE  OnceInv'
<1> USE DEF cloudVars, database, memory, thread, consents, runs
<1>a. \A g \in Heartbeats : g = h
      BY DEF Alone
<1>b. /\ at[h] \in BeforeMark => cur[h] \in Commands /\ journal[cur[h]] \notin Finished
      /\ \A c \in Commands :
            IF journal[c] \in Finished \/ (at[h] = "mark" /\ cur[h] = c)
            THEN ran[c] <= lost[c] + 1 ELSE ran[c] <= lost[c]
      BY <1>a DEF OnceInv, NotFinished, Recorded, Marks, BeforeMark, DeliveryTypeOK
<1>c. ASSUME at'[h] \in BeforeMark => journal'[cur'[h]] \notin Finished,
             \A c \in Commands :
                IF journal'[c] \in Finished \/ (at'[h] = "mark" /\ cur'[h] = c)
                THEN ran'[c] <= lost'[c] + 1 ELSE ran'[c] <= lost'[c]
      PROVE  OnceInv'
      BY <1>a, <1>c DEF OnceInv, NotFinished, Recorded, Marks, BeforeMark
<1>d. \A c \in Commands : ran[c] \in Nat /\ lost[c] \in Nat
      BY DEF DeliveryTypeOK
\* The rows and counts stay; the thread does not get, or leave, a place where
\* they matter.
<1>e. ASSUME UNCHANGED <<journal, ran, lost>>, at[h] # "mark",
             at'[h] \notin BeforeMark \/ (at[h] \in BeforeMark /\ at'[h] # "mark" /\ cur'[h] = cur[h])
      PROVE  OnceInv'
  <2>1. at'[h] # "mark"
        BY <1>e DEF BeforeMark
  <2> QED BY <1>b, <1>c, <1>e, <2>1
<1> USE DEF BeforeMark
<1>1. CASE poll_commands(h)
      BY <1>1, <1>e DEF poll_commands
<1>2. ASSUME NEW p \in batch[h], SkipExecuted(h, p) PROVE OnceInv'
      BY <1>2, <1>e DEF SkipExecuted, Takes
<1>3. ASSUME NEW p \in batch[h], Refuse(h, p) PROVE OnceInv'
  <2>1. at[h] = "idle" /\ at'[h] = "refuseMark" /\ UNCHANGED <<ran, lost>>
        BY <1>3 DEF Refuse, Takes, Begin, Goto, DeliveryTypeOK
  <2>2. p.id \in Commands
        BY TakenType
  <2>3. \A c \in Commands : journal'[c] \in Finished <=> journal[c] \in Finished
        BY <1>3, <2>2 DEF Refuse, log_received, Finished, DeliveryTypeOK
  <2> QED BY <1>b, <1>c, <2>1, <2>3
<1>4. ASSUME NEW p \in batch[h], AwaitApproval(h, p) PROVE OnceInv'
  <2>1. at[h] = "idle" /\ at'[h] \in {"idle", "approve"} /\ UNCHANGED <<journal, ran, lost>>
        BY <1>4 DEF AwaitApproval, Takes, Begin, Goto, DeliveryTypeOK
  <2> QED BY <1>e, <2>1
<1>5. ASSUME NEW p \in batch[h], StartExecution(h, p) PROVE OnceInv'
  <2>1. at[h] = "idle" /\ at'[h] = "ack" /\ cur'[h] = p.id /\ UNCHANGED <<journal, ran, lost>>
        BY <1>5 DEF StartExecution, Takes, Begin, Goto, DeliveryTypeOK
  <2>2. journal[p.id] \notin Finished
        BY <1>5 DEF StartExecution, Seen, is_executed
  <2> QED BY <1>b, <1>c, <2>1, <2>2
<1>6. CASE RefuseMark(h)
  <2>1. at[h] = "refuseMark" /\ at'[h] = "refuseAck" /\ UNCHANGED <<ran, lost>>
        BY <1>6 DEF RefuseMark, Goto, DeliveryTypeOK
  <2>2. \A c \in Commands : journal[c] \in Finished => journal'[c] \in Finished
        BY <1>6 DEF RefuseMark, mark, Finished, DeliveryTypeOK
  <2>3. ASSUME NEW c \in Commands
        PROVE  IF journal'[c] \in Finished \/ (at'[h] = "mark" /\ cur'[h] = c)
               THEN ran'[c] <= lost'[c] + 1 ELSE ran'[c] <= lost'[c]
        BY <1>b, <1>d, <2>1, <2>2
  <2> QED BY <1>c, <2>1, <2>3
<1>7. ASSUME LogReceived(h) \/ MarkInProgress(h) PROVE OnceInv'
  <2>1. /\ at[h] \in {"log", "progress"} /\ at'[h] \in {"progress", "execute"}
        /\ UNCHANGED <<ran, lost, cur>>
        BY <1>7 DEF LogReceived, MarkInProgress, Goto, DeliveryTypeOK
  <2>2. \A c \in Commands : c # cur[h] => journal'[c] = journal[c]
        BY <1>7 DEF LogReceived, MarkInProgress, log_received, mark, DeliveryTypeOK
  <2>3. journal'[cur[h]] \notin Finished
        BY <1>7, <1>b, <2>1 DEF LogReceived, MarkInProgress, log_received, mark, Finished, DeliveryTypeOK
  <2> QED BY <1>b, <1>c, <2>1, <2>2, <2>3
<1>8. ASSUME NEW success \in BOOLEAN, Execute(h, success) PROVE OnceInv'
  <2>1. at[h] = "execute" /\ at'[h] = "mark" /\ UNCHANGED <<lost, cur, journal>>
        BY <1>8 DEF Execute, Goto, DeliveryTypeOK
  <2>2. \A c \in Commands : ran'[c] = IF c = cur[h] THEN ran[c] + 1 ELSE ran[c]
        BY <1>8 DEF Execute, DeliveryTypeOK
  <2> QED BY <1>b, <1>c, <1>d, <2>1, <2>2
<1>9. CASE MarkDone(h)
  <2>1. at[h] = "mark" /\ at'[h] = "result" /\ UNCHANGED <<ran, lost, cur>>
        BY <1>9 DEF MarkDone, Goto, DeliveryTypeOK
  <2>2. \A c \in Commands : IF c = cur[h] THEN journal'[c] \in Finished ELSE journal'[c] = journal[c]
        BY <1>9 DEF MarkDone, mark, Finished, DeliveryTypeOK
  <2> QED BY <1>b, <1>c, <2>1, <2>2
<1>10. CASE JournalFails(h)
  <2>1. at'[h] = "idle" /\ UNCHANGED <<ran, journal>>
        BY <1>10, EndType DEF JournalFails
  <2>2. \A c \in Commands : lost'[c] = IF at[h] = "mark" /\ cur[h] = c THEN lost[c] + 1 ELSE lost[c]
        BY <1>10 DEF JournalFails, DeliveryTypeOK
  <2>3. ASSUME NEW c \in Commands
        PROVE  IF journal'[c] \in Finished THEN ran'[c] <= lost'[c] + 1 ELSE ran'[c] <= lost'[c]
        BY <1>b, <1>d, <2>1, <2>2
  <2> QED BY <1>c, <2>1, <2>3
<1>11. CASE CallPasses(h)
      BY <1>11, <1>e DEF CallPasses, CallSteps
<1>12. CASE CallAnswered(h)
  <2>1. at[h] \in CallSteps /\ UNCHANGED <<journal, ran, lost>>
        BY <1>12 DEF CallAnswered, CallSteps
  <2>2. CASE at[h] \in {"ack", "refuseAck"}
    <3>1. /\ at[h] = "ack" => at'[h] = "log" /\ cur'[h] = cur[h]
          /\ at[h] = "refuseAck" => at'[h] = "refuseResult"
          BY <1>12, <2>2 DEF CallAnswered, Goto, DeliveryTypeOK
    <3> QED BY <1>e, <2>1, <2>2, <3>1
  <2>3. CASE at[h] \notin {"ack", "refuseAck"}
    <3>1. EndCommand(h)
          BY <1>12, <2>3 DEF CallAnswered
    <3>2. at'[h] = "idle"
          BY <3>1, EndType
    <3> QED BY <1>e, <2>1, <3>2 DEF CallSteps
  <2> QED BY <2>2, <2>3
<1>13. CASE CallRaises(h)
  <2>1. at[h] \in CallSteps /\ EndCommand(h) /\ UNCHANGED <<journal, ran, lost>>
        BY <1>13 DEF CallRaises
  <2>2. at'[h] = "idle"
        BY <2>1, EndType
  <2> QED BY <1>e, <2>1, <2>2 DEF CallSteps
<1> QED BY <1>1, <1>2, <1>3, <1>4, <1>5, <1>6, <1>7, <1>8, <1>9, <1>10, <1>11, <1>12, <1>13
        DEF ProcessCommand

\* Users, the operator and the Cloud touch neither the journal nor the thread.
LEMMA QuietSides ==
    ASSUME Operator \/ ControlPlane \/ UNCHANGED vars
    PROVE  UNCHANGED <<journal, thread, runs>> /\ byHand \subseteq byHand'
<1>1. CASE Operator
      BY <1>1 DEF Operator, RequestTimesOut, Decide, DecisionPasses, DecisionAnswered,
                  DecisionRaises, consents
<1>2. CASE ControlPlane
      BY <1>2 DEF ControlPlane, create_command, create_approval, transition_command,
            UserBegins, DeadlinePasses, expire_stale_commands, LateArrives, CommitOpen, consents
<1>3. CASE UNCHANGED vars
      BY <1>3 DEF vars, consents
<1> QED BY <1>1, <1>2, <1>3

LEMMA OnceNext ==
    ASSUME DeliveryTypeOK, Alone, OnceInv, [Next]_vars
    PROVE  OnceInv'
<1>1. DeliveryTypeOK'
      BY TypeNext
<1>2. ASSUME Operator \/ ControlPlane \/ UNCHANGED vars PROVE OnceInv'
      BY <1>2, QuietSides DEF OnceInv, NotFinished, Recorded, Marks, thread, runs
<1>3. CASE Crash
  <2>1. \A h \in Heartbeats : at'[h] = "idle"
        BY <1>3 DEF Crash
  <2>2. ASSUME NEW c \in Commands PROVE lost'[c] = lost[c] + (IF Marks(c) THEN 1 ELSE 0)
    <3>1. {h \in Heartbeats : at[h] = "mark" /\ cur[h] = c} = {} <=> ~Marks(c)
          BY DEF Marks
    <3> QED BY <1>3, <3>1 DEF Crash
  <2>3. ASSUME NEW c \in Commands
        PROVE  IF journal'[c] \in Finished THEN ran'[c] <= lost'[c] + 1 ELSE ran'[c] <= lost'[c]
    <3>1. ran'[c] = ran[c] /\ journal'[c] = journal[c]
          BY <1>3 DEF Crash
    <3>2. IF journal[c] \in Finished \/ Marks(c) THEN ran[c] <= lost[c] + 1 ELSE ran[c] <= lost[c]
          BY DEF OnceInv, Recorded
    <3>3. ran[c] \in Nat /\ lost[c] \in Nat
          BY DEF DeliveryTypeOK
    <3> QED BY <2>2, <3>1, <3>2, <3>3
  <2> QED BY <2>1, <2>3 DEF OnceInv, NotFinished, Recorded, Marks
<1> QED BY <1>1, <1>2, <1>3, OnceProcess DEF Next

LEMMA OnceInit == Init => OnceInv
BY DEF Init, OnceInv, NotFinished, Recorded, Marks

\* With one heartbeat thread a command runs once, and once more for each
\* execution the journal did not get to record.
THEOREM CommandRunsAtMostOnce == Spec => []RunsAtMostOnce
<1>1. Init => DeliveryTypeOK /\ (Alone => OnceInv)
      BY TypeInit, OnceInit
<1>2. DeliveryTypeOK /\ (Alone => OnceInv) /\ [Next]_vars => (DeliveryTypeOK /\ (Alone => OnceInv))'
      BY TypeNext, OnceNext DEF Alone
<1>3. DeliveryTypeOK /\ (Alone => OnceInv) => RunsAtMostOnce
      BY DEF DeliveryTypeOK, OnceInv, Recorded, RunsAtMostOnce
<1> QED BY <1>1, <1>2, <1>3, PTL DEF Spec

-----------------------------------------------------------------------------
(* Results are true, with one heartbeat thread.                             *)

\* The result a thread sends agrees with the execution, also as written.
LEMMA ThreadRequestTold ==
    ASSUME DeliveryTypeOK, ThreadTold, NEW h \in Heartbeats, at[h] \in CallSteps
    PROVE  /\ RequestOf(h).op = "result" => Told(cur[h], Word(RequestOf(h).ok))
           /\ Told(cur[h], WriteOf(RequestOf(h)).to)
<1>1. RequestOf(h) \in Requests
      BY RequestType DEF CallSteps
<1>2. /\ at[h] = "result" => RequestOf(h).op = "result" /\ RequestOf(h).ok = okay[h]
      /\ at[h] = "refuseResult" => RequestOf(h).op = "result" /\ RequestOf(h).ok = FALSE
      /\ at[h] \in {"ack", "refuseAck"} => RequestOf(h).op = "ack"
      /\ at[h] = "approve" => RequestOf(h).op = "approval"
      BY DEF RequestOf, DeliveryTypeOK
<1>3. RequestOf(h).op = "result" => Told(cur[h], Word(RequestOf(h).ok))
      BY <1>2 DEF ThreadTold, CallSteps, Word
<1>4. RequestOf(h).op = "result" => WriteOf(RequestOf(h)).to = Word(RequestOf(h).ok)
      BY <1>1, WriteType
<1>5. RequestOf(h).op # "result" => WriteOf(RequestOf(h)).to \notin {"executed", "failed"}
  <2>1. RequestOf(h).op \in {"ack", "result", "approval"}
        BY <1>1 DEF Requests
  <2> QED BY <1>1, <2>1, WriteType
<1> QED BY <1>3, <1>4, <1>5 DEF Told

LEMMA DecidedTold ==
    ASSUME DeliveryTypeOK, decision # NoDecision, NEW c
    PROVE  Decided.op = "approval" /\ Told(c, WriteOf(Decided).to)
<1>1. Decided.op = "approval" /\ Decided \in Requests
      BY DecidedType
<1>2. WriteOf(Decided).to \in {"approved", "rejected"}
      BY <1>1, WriteType
<1> QED BY <1>1, <1>2 DEF Told

\* A finished row stays, and so does what its execution answered.
LEMMA ToldStays ==
    ASSUME DeliveryTypeOK, ConsentInv, Alone, OnceInv, [Next]_vars,
           NEW c \in Commands, NEW s, Told(c, s)
    PROVE  Told(c, s)'
<1> SUFFICES ASSUME s \in {"executed", "failed"} PROVE Told(c, s)'
    BY DEF Told
<1> USE DEF cloudVars, database, memory, thread, consents, runs
<1>1. journal[c] \in Finished
      BY DEF Told, Finished
<1>2. ASSUME UNCHANGED <<journal, outcome>> PROVE Told(c, s)'
      BY <1>2 DEF Told
<1>3. CASE Operator \/ ControlPlane \/ UNCHANGED vars
      BY <1>2, <1>3, QuietSides
<1>4. CASE Crash
      BY <1>2, <1>4 DEF Crash
<1>5. ASSUME NEW h \in Heartbeats, ProcessCommand(h) PROVE Told(c, s)'
  <2>1. ASSUME NEW d \in Commands, log_received(d), UNCHANGED outcome PROVE Told(c, s)'
        BY <1>1, <2>1 DEF log_received, Told, DeliveryTypeOK, Finished
  <2>2. at[h] \in {"log", "progress", "execute", "mark"} => cur[h] # c
        BY <1>1 DEF OnceInv, NotFinished
  <2>3. CASE RefuseMark(h)
    <3>1. cur[h] \in Commands /\ outcome[cur[h]] = "none"
          BY <2>3 DEF RefuseMark, ConsentInv, ThreadConsents, RunConsents, RefuseSteps, DeliveryTypeOK
    <3> QED BY <2>3, <3>1 DEF RefuseMark, mark, Told, DeliveryTypeOK
  <2>4. CASE MarkInProgress(h)
        BY <2>2, <2>4 DEF MarkInProgress, mark, Told, DeliveryTypeOK
  <2>5. CASE MarkDone(h)
        BY <2>2, <2>5 DEF MarkDone, mark, Told, DeliveryTypeOK
  <2>6. ASSUME NEW success \in BOOLEAN, Execute(h, success) PROVE Told(c, s)'
        BY <2>2, <2>6 DEF Execute, Told, DeliveryTypeOK
  <2>7. ASSUME NEW p \in batch[h], Refuse(h, p) PROVE Told(c, s)'
        BY <2>1, <2>7, TakenType DEF Refuse
  <2>8. CASE LogReceived(h)
        BY <2>1, <2>8 DEF LogReceived, DeliveryTypeOK
  <2>9. ASSUME \/ poll_commands(h) \/ JournalFails(h)
               \/ \E p \in batch[h] : \/ SkipExecuted(h, p) \/ AwaitApproval(h, p)
                                      \/ StartExecution(h, p)
               \/ CallPasses(h) \/ CallAnswered(h) \/ CallRaises(h)
        PROVE  Told(c, s)'
        BY <1>2, <2>9 DEF poll_commands, JournalFails, SkipExecuted, AwaitApproval,
              StartExecution, CallPasses, CallAnswered, CallRaises
  <2> QED BY <1>5, <2>3, <2>4, <2>5, <2>6, <2>7, <2>8, <2>9 DEF ProcessCommand
<1> QED BY <1>3, <1>4, <1>5 DEF Next

\* What a step adds to the Cloud's side is true, so that side stays true.
LEMMA CloudSideTold ==
    ASSUME DeliveryTypeOK, DeliveryTypeOK', ToldInv, byHand \subseteq byHand',
           \A c \in Commands, s \in CommandStatus : Told(c, s) => Told(c, s)',
           \A c \in Commands, s \in CommandStatus :
               cloud'[c] = s => s = cloud[c] \/ c \in byHand' \/ Told(c, s),
           \A w \in open' : w \in open \/ w.id \in byHand' \/ Told(w.id, w.to),
           \A m \in late' : m \in late \/ (m.op = "result" => Told(m.id, Word(m.ok)))
    PROVE  CloudTold' /\ OpenTold' /\ LateTold'
<1>1. CloudTold'
  <2>1. ASSUME NEW c \in Commands, NEW s \in CommandStatus, cloud'[c] = s
        PROVE  c \in byHand' \/ Told(c, s)'
        BY <2>1 DEF ToldInv, CloudTold
  <2> QED BY <2>1 DEF CloudTold, Told, DeliveryTypeOK
<1>2. OpenTold'
  <2>1. ASSUME NEW w \in open' PROVE w.id \in byHand' \/ Told(w.id, w.to)'
    <3>1. w.id \in Commands /\ w.to \in CommandStatus
          BY DEF DeliveryTypeOK, Writes
    <3>2. w.id \in byHand' \/ Told(w.id, w.to)
          BY DEF ToldInv, OpenTold
    <3> QED BY <3>1, <3>2
  <2> QED BY <2>1 DEF OpenTold
<1>3. LateTold'
  <2>1. ASSUME NEW m \in late', m.op = "result" PROVE Told(m.id, Word(m.ok))'
    <3>1. m.id \in Commands /\ Word(m.ok) \in CommandStatus
          BY DEF DeliveryTypeOK, Requests, Word, CommandStatus
    <3>2. Told(m.id, Word(m.ok))
          BY <2>1 DEF ToldInv, LateTold
    <3> QED BY <3>1, <3>2
  <2> QED BY <2>1 DEF LateTold
<1> QED BY <1>1, <1>2, <1>3

\* The steps that write to the Cloud, or send to it.
LEMMA CloudToldNext ==
    ASSUME DeliveryTypeOK, ConsentInv, Alone, OnceInv, ToldInv, [Next]_vars
    PROVE  CloudTold' /\ OpenTold' /\ LateTold'
<1> USE DEF cloudVars, database, memory, thread, consents, runs
<1>a. DeliveryTypeOK' /\ \A c \in Commands, s \in CommandStatus : Told(c, s) => Told(c, s)'
      BY TypeNext, ToldStays
<1>b. ASSUME byHand \subseteq byHand',
             UNCHANGED cloud, open' \subseteq open, late' \subseteq late
      PROVE  CloudTold' /\ OpenTold' /\ LateTold'
      BY <1>a, <1>b, CloudSideTold
<1>1. CASE UNCHANGED vars
      BY <1>1, <1>b DEF vars
<1>2. ASSUME NEW h \in Heartbeats, ProcessCommand(h) PROVE CloudTold' /\ OpenTold' /\ LateTold'
  <2>1. CASE CallAnswered(h)
    <3>1. at[h] \in CallSteps
          BY <2>1 DEF CallAnswered, CallSteps
    <3>2. Told(cur[h], WriteOf(RequestOf(h)).to) /\ WriteOf(RequestOf(h)).id = cur[h]
          BY <3>1, ThreadRequestTold, RequestType, WriteType DEF ToldInv, CallSteps
    <3>3. \A c \in Commands, s \in CommandStatus :
            cloud'[c] = s => s = cloud[c] \/ c \in byHand' \/ Told(c, s)
          BY <2>1, <3>2 DEF CallAnswered, Commit, DeliveryTypeOK
    <3> QED BY <1>a, <2>1, <3>3, CloudSideTold DEF CallAnswered
  <2>2. CASE CallRaises(h)
    <3>1. at[h] \in CallSteps
          BY <2>2 DEF CallRaises
    <3>2. /\ Told(cur[h], WriteOf(RequestOf(h)).to) /\ WriteOf(RequestOf(h)).id = cur[h]
          /\ RequestOf(h).op = "result" => Told(cur[h], Word(RequestOf(h).ok))
          /\ RequestOf(h).id = cur[h]
          BY <3>1, ThreadRequestTold, RequestType, WriteType DEF ToldInv, CallSteps
    <3>3. late' \subseteq late \cup {RequestOf(h)} /\ open' \subseteq open \cup {WriteOf(RequestOf(h))}
          BY <2>2 DEF CallRaises
    <3> QED BY <1>a, <2>2, <3>2, <3>3, CloudSideTold DEF CallRaises
  <2>3. CASE ~CallAnswered(h) /\ ~CallRaises(h)
    <3>1. UNCHANGED <<cloud, open, late, byHand>>
          BY <1>2, <2>3 DEF ProcessCommand, poll_commands, SkipExecuted, Refuse, RefuseMark,
                AwaitApproval, StartExecution, LogReceived, MarkInProgress, Execute, MarkDone,
                JournalFails, CallPasses
    <3> QED BY <1>b, <3>1
  <2> QED BY <2>1, <2>2, <2>3
<1>3. CASE Operator
  <2>1. ASSUME NEW c \in Commands, RequestTimesOut(c) PROVE UNCHANGED <<cloud, open, late, byHand>>
        BY <2>1 DEF RequestTimesOut
  <2>2. ASSUME NEW c \in Commands, NEW yes \in BOOLEAN, Decide(c, yes)
        PROVE  UNCHANGED <<cloud, open, late, byHand>>
        BY <2>2 DEF Decide
  <2>3. CASE DecisionPasses
        BY <1>b, <2>3 DEF DecisionPasses
  <2>4. CASE DecisionAnswered
    <3>1. \A c : Told(c, WriteOf(Decided).to)
          BY <2>4, DecisionPassed, DecidedTold DEF DecisionAnswered
    <3>2. \A c \in Commands, s \in CommandStatus :
            cloud'[c] = s => s = cloud[c] \/ c \in byHand' \/ Told(c, s)
          BY <2>4, <3>1 DEF DecisionAnswered, Commit, DeliveryTypeOK
    <3> QED BY <1>a, <2>4, <3>2, CloudSideTold DEF DecisionAnswered
  <2>5. CASE DecisionRaises
    <3>1. Decided.op = "approval" /\ \A c : Told(c, WriteOf(Decided).to)
          BY <2>5, DecidedTold DEF DecisionRaises
    <3>2. late' \subseteq late \cup {Decided} /\ open' \subseteq open \cup {WriteOf(Decided)}
          BY <2>5 DEF DecisionRaises
    <3> QED BY <1>a, <2>5, <3>1, <3>2, CloudSideTold DEF DecisionRaises
  <2> QED BY <1>3, <1>b, <2>1, <2>2, <2>3, <2>4, <2>5 DEF Operator
<1>4. CASE ControlPlane
  <2>1. ASSUME NEW c \in Commands, create_command(c) PROVE CloudTold' /\ OpenTold' /\ LateTold'
    <3>1. \A d \in Commands, s \in CommandStatus :
            cloud'[d] = s => s = cloud[d] \/ d \in byHand' \/ Told(d, s)
          BY <2>1 DEF create_command, DeliveryTypeOK, Told
    <3> QED BY <1>a, <2>1, <3>1, CloudSideTold DEF create_command
  <2>2. ASSUME NEW c \in Commands, NEW yes \in BOOLEAN, create_approval(c, yes)
        PROVE CloudTold' /\ OpenTold' /\ LateTold'
    <3>1. \A w \in open' : w \in open \/ w.id \in byHand' \/ Told(w.id, w.to)
          BY <2>2 DEF create_approval, UserBegins, Told
    <3> QED BY <1>a, <2>2, <3>1, CloudSideTold DEF create_approval, UserBegins
  <2>3. ASSUME NEW c \in Commands, NEW s \in CommandStatus, transition_command(c, s)
        PROVE CloudTold' /\ OpenTold' /\ LateTold'
    <3>1. open' = open \cup {[id |-> c, to |-> s]} /\ byHand \subseteq byHand'
          BY <2>3 DEF transition_command, UserBegins
    <3>2. c \in byHand' \/ Told(c, s)
          BY <2>3 DEF transition_command, Told
    <3>3. \A w \in open' : w \in open \/ w.id \in byHand' \/ Told(w.id, w.to)
          BY <3>1, <3>2
    <3> QED BY <1>a, <2>3, <3>1, <3>3, CloudSideTold DEF transition_command, UserBegins
  <2>4. ASSUME NEW c \in Commands, DeadlinePasses(c) PROVE UNCHANGED <<cloud, open, late, byHand>>
        BY <2>4 DEF DeadlinePasses
  <2>5. CASE expire_stale_commands
    <3>1. \A w \in open' : w \in open \/ w.to = "expired"
          BY <2>5 DEF expire_stale_commands, UserBegins
    <3>2. \A w \in open' : w \in open \/ w.id \in byHand' \/ Told(w.id, w.to)
          BY <3>1 DEF Told
    <3> QED BY <1>a, <2>5, <3>2, CloudSideTold DEF expire_stale_commands, UserBegins
  <2>6. ASSUME NEW m \in late, LateArrives(m) PROVE CloudTold' /\ OpenTold' /\ LateTold'
    <3>1. m \in Requests /\ m.op \in {"ack", "result", "approval"}
          BY DEF DeliveryTypeOK, Requests
    <3>2. WriteOf(m).id = m.id /\ Told(m.id, WriteOf(m).to)
          BY <3>1, WriteType DEF ToldInv, LateTold, Told
    <3>3. open' \subseteq open \cup {WriteOf(m)} /\ late' \subseteq late
          BY <2>6 DEF LateArrives
    <3> QED BY <1>a, <2>6, <3>2, <3>3, CloudSideTold DEF LateArrives
  <2>7. ASSUME NEW w \in open, CommitOpen(w) PROVE CloudTold' /\ OpenTold' /\ LateTold'
    <3>1. w.id \in byHand \/ Told(w.id, w.to)
          BY DEF ToldInv, OpenTold
    <3>2. \A c \in Commands, s \in CommandStatus :
            cloud'[c] = s => s = cloud[c] \/ c \in byHand' \/ Told(c, s)
          BY <2>7, <3>1 DEF CommitOpen, Commit, DeliveryTypeOK
    <3> QED BY <1>a, <2>7, <3>2, CloudSideTold DEF CommitOpen
  <2> QED BY <1>4, <1>b, <2>1, <2>2, <2>3, <2>4, <2>5, <2>6, <2>7 DEF ControlPlane
<1>5. CASE Crash
  <2>1. ASSUME NEW h \in Heartbeats, at[h] \in CallSteps
        PROVE  /\ Told(cur[h], WriteOf(RequestOf(h)).to) /\ WriteOf(RequestOf(h)).id = cur[h]
               /\ RequestOf(h).op = "result" => Told(cur[h], Word(RequestOf(h).ok))
               /\ RequestOf(h).id = cur[h]
        BY <2>1, ThreadRequestTold, RequestType, WriteType DEF ToldInv, CallSteps
  <2>2. decision # NoDecision => Decided.op = "approval" /\ \A c : Told(c, WriteOf(Decided).to)
        BY DecidedTold
  <2>3. ASSUME NEW w \in open' PROVE w \in open \/ Told(w.id, w.to)
    <3>1. \/ w \in open
          \/ \E h \in Heartbeats : at[h] \in CallSteps /\ w = WriteOf(RequestOf(h))
          \/ decision # NoDecision /\ w = WriteOf(Decided)
          BY <1>5 DEF Crash
    <3> QED BY <2>1, <2>2, <3>1
  <2>4. ASSUME NEW m \in late' PROVE m \in late \/ (m.op = "result" => Told(m.id, Word(m.ok)))
    <3>1. \/ m \in late
          \/ \E h \in Heartbeats : at[h] \in CallSteps /\ m = RequestOf(h)
          \/ decision # NoDecision /\ m = Decided
          BY <1>5 DEF Crash
    <3> QED BY <2>1, <2>2, <3>1
  <2>5. UNCHANGED <<cloud, byHand>>
        BY <1>5 DEF Crash
  <2> QED BY <1>a, <2>3, <2>4, <2>5, CloudSideTold
<1> QED BY <1>1, <1>2, <1>3, <1>4, <1>5 DEF Next

\* What the thread is about to send.
LEMMA ThreadToldNext ==
    ASSUME DeliveryTypeOK, ConsentInv, Alone, OnceInv, ToldInv, [Next]_vars
    PROVE  ThreadTold'
<1> USE DEF cloudVars, database, memory, thread, consents, runs
<1>a. DeliveryTypeOK' /\ \A c \in Commands, s \in CommandStatus : Told(c, s) => Told(c, s)'
      BY TypeNext, ToldStays
<1>1. CASE Operator \/ ControlPlane \/ UNCHANGED vars
      BY <1>1, QuietSides DEF ToldInv, ThreadTold, Told
<1>2. CASE Crash
      BY <1>2 DEF Crash, ThreadTold
<1>3. ASSUME NEW h \in Heartbeats, ProcessCommand(h) PROVE ThreadTold'
  <2>a. \A g \in Heartbeats : g = h
        BY DEF Alone
  <2>b. ASSUME at'[h] \notin {"mark", "result", "refuseAck", "refuseResult"} PROVE ThreadTold'
        BY <2>a, <2>b DEF ThreadTold
  <2>c. /\ at[h] = "mark" => (outcome[cur[h]] = "ok" <=> okay[h])
        /\ at[h] = "result" => Told(cur[h], Word(okay[h]))
        /\ at[h] \in {"refuseAck", "refuseResult"} => Told(cur[h], "failed")
        BY DEF ToldInv, ThreadTold
  <2>1. ASSUME \/ poll_commands(h)
               \/ \E p \in batch[h] : \/ SkipExecuted(h, p) \/ Refuse(h, p)
                                      \/ AwaitApproval(h, p) \/ StartExecution(h, p)
        PROVE  ThreadTold'
    <3>1. at'[h] \in {"idle", "refuseMark", "approve", "ack"}
          BY <2>1 DEF poll_commands, SkipExecuted, Refuse, AwaitApproval, StartExecution,
                      Takes, Begin, Goto, DeliveryTypeOK
    <3> QED BY <2>b, <3>1
  <2>2. ASSUME LogReceived(h) \/ MarkInProgress(h) PROVE ThreadTold'
    <3>1. at'[h] \in {"progress", "execute"}
          BY <2>2 DEF LogReceived, MarkInProgress, Goto, DeliveryTypeOK
    <3> QED BY <2>b, <3>1
  <2>3. CASE RefuseMark(h)
    <3>1. cur[h] \in Commands /\ outcome[cur[h]] = "none"
          BY <2>3 DEF RefuseMark, ConsentInv, ThreadConsents, RunConsents, RefuseSteps, DeliveryTypeOK
    <3>2. /\ at'[h] = "refuseAck" /\ UNCHANGED <<cur, outcome>> /\ journal'[cur[h]] = "failed"
          BY <2>3, <3>1 DEF RefuseMark, mark, Goto, DeliveryTypeOK
    <3> QED BY <2>a, <3>1, <3>2 DEF ThreadTold, Told
  <2>4. ASSUME NEW success \in BOOLEAN, Execute(h, success) PROVE ThreadTold'
    <3>1. cur[h] \in Commands
          BY <2>4 DEF Execute, DeliveryTypeOK
    <3>2. /\ at'[h] = "mark" /\ UNCHANGED cur /\ okay'[h] = success
          /\ outcome'[cur[h]] = IF success THEN "ok" ELSE "error"
          BY <2>4, <3>1 DEF Execute, Goto, DeliveryTypeOK
    <3> QED BY <2>a, <3>2 DEF ThreadTold
  <2>5. CASE MarkDone(h)
    <3>1. cur[h] \in Commands /\ (outcome[cur[h]] = "ok" <=> okay[h])
          BY <2>5, <2>c DEF MarkDone, DeliveryTypeOK
    <3>2. /\ at'[h] = "result" /\ UNCHANGED <<cur, okay, outcome>>
          /\ journal'[cur[h]] = IF okay[h] THEN "completed" ELSE "failed"
          BY <2>5, <3>1 DEF MarkDone, mark, Goto, DeliveryTypeOK
    <3> QED BY <2>a, <3>1, <3>2 DEF ThreadTold, Told, Word
  <2>6. ASSUME JournalFails(h) \/ CallRaises(h) PROVE ThreadTold'
        BY <2>6, <2>b, EndType DEF JournalFails, CallRaises
  <2>7. CASE CallPasses(h)
        BY <2>7 DEF CallPasses, ToldInv, ThreadTold, Told
  <2>8. CASE CallAnswered(h)
    <3>1. CASE at[h] = "refuseAck"
      <4>1. at'[h] = "refuseResult" /\ UNCHANGED <<cur, outcome, journal>>
            BY <2>8, <3>1 DEF CallAnswered, Goto, DeliveryTypeOK
      <4> QED BY <2>a, <2>c, <3>1, <4>1 DEF ThreadTold, Told
    <3>2. CASE at[h] = "ack"
      <4>1. at'[h] = "log"
            BY <2>8, <3>2 DEF CallAnswered, Goto, DeliveryTypeOK
      <4> QED BY <2>b, <4>1
    <3>3. CASE at[h] \notin {"ack", "refuseAck"}
      <4>1. EndCommand(h)
            BY <2>8, <3>3 DEF CallAnswered
      <4> QED BY <2>b, <4>1, EndType
    <3> QED BY <3>1, <3>2, <3>3
  <2> QED BY <1>3, <2>1, <2>2, <2>3, <2>4, <2>5, <2>6, <2>7, <2>8 DEF ProcessCommand
<1> QED BY <1>1, <1>2, <1>3 DEF Next

LEMMA ToldInit == Init => ToldInv
BY DEF Init, ToldInv, CloudTold, OpenTold, LateTold, ThreadTold, Told

\* With one heartbeat thread the Cloud's result of a command is the outcome of
\* its latest execution and the journal's, unless a user entered one by hand.
THEOREM ReportsAreTrue == Spec => []ReportIsTrue
<1>1. Init => Inv
      BY TypeInit, ConsentInit, OnceInit, ToldInit DEF Inv
<1>2. Inv /\ [Next]_vars => Inv'
      BY TypeNext, ConsentNext, OnceNext, CloudToldNext, ThreadToldNext DEF Inv, ToldInv, Alone
<1>3. Inv => ReportIsTrue
      BY DEF Inv, ToldInv, CloudTold, Told, ReportIsTrue
<1> QED BY <1>1, <1>2, <1>3, PTL DEF Spec

=============================================================================
