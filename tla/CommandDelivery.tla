-------------------------- MODULE CommandDelivery --------------------------
(***************************************************************************)
(* Cloud commands from their creation to their result: the control plane   *)
(* (packages/cloud/control_plane: CommandService and the routers commands  *)
(* and agent_lifecycle), the Agent that polls, approves, executes and      *)
(* answers them (AgentDaemon._process_cloud_commands,                      *)
(* decide_cloud_command_approval), its durable CommandJournal and its      *)
(* ApprovalManager.                                                        *)
(*                                                                         *)
(* A request to the Cloud is a transaction that reads the command, checks  *)
(* its status and later writes a new one.  No row is locked (there is no   *)
(* with_for_update, and sessions are READ COMMITTED), so other requests    *)
(* get in between, and the write goes out whatever the status is by then.  *)
(* A call of the Agent that raises was refused, or may never arrive, or    *)
(* may arrive, or be written, after the Agent gave up on it.  Heartbeat    *)
(* threads process polled commands, one operator decides on approvals.     *)
(* Only the Cloud and the journal survive a crash of the Agent.            *)
(***************************************************************************)
EXTENDS Naturals, FiniteSets

CONSTANTS
    MaxCommands,   \* commands, numbered in the order of their creation
    PollLimit,     \* commands one poll returns (10 in _heartbeat_loop)
    KindsOf,       \* kinds each command may have
    Heartbeats,    \* heartbeat threads: start() from PAUSED adds one
    MaxOpen,       \* bound: a user's transaction begins with fewer open ones
    MaxFaults,     \* bound: calls and journal accesses that fail
    MaxCrashes     \* bound: crashes of the Agent

ASSUME CountAssumption == /\ MaxCommands \in Nat
                          /\ PollLimit \in Nat \ {0}
ASSUME BoundAssumption == MaxOpen \in Nat /\ MaxFaults \in Nat /\ MaxCrashes \in Nat

Commands == 1..MaxCommands

\* Trading-impacting with the approval flag; approved by local policy
\* (operational or data-sensitive with the flag); operational without it;
\* trading-impacting, or not parsable, without it, which this control plane
\* does not create and the Agent refuses.
Kinds == {"impacting", "auto", "operational", "unguarded"}

ASSUME KindAssumption == KindsOf \in [Commands -> SUBSET Kinds]

VARIABLES
    cloud,        \* commands.status in the control plane's database
    kind,         \* change class and approval flag of each command
    overdue,      \* commands whose expires_at has passed
    late,         \* requests the Agent gave up on that the Cloud has not read
    open,         \* writes of transactions that passed their check and whose
                  \* caller is a user or gave up; equal ones are one
    journal,      \* commands.status in CommandJournal, "none" without a row
    executedIds,  \* _executed_command_ids
    submitted,    \* _submitted_cloud_approvals
    request,      \* the ApprovalRequest mapped to each command
    decision,     \* an operator's decision being submitted
    batch,        \* per thread: polled commands to be processed, as polled
    at,           \* per thread: step it is about to take
    cur,          \* per thread: command it works on
    okay,         \* per thread: what executing it answered
    passed,       \* per thread: the Cloud let its request pass and will write
    local,        \* history: commands the operator at the Agent consented to
    remote,       \* history: commands a user of the control plane consented to
    byHand,       \* history: commands a user reported on by hand
    ran,          \* history: how often each command was executed
    outcome,      \* history: what the latest execution answered
    lost,         \* history: executions the journal did not get to record
    faults, crashes

database == <<cloud, kind, overdue>>
cloudVars == <<database, late, open>>
memory == <<executedIds, submitted, request>>
thread == <<batch, at, cur, okay, passed>>
consents == <<local, remote, byHand>>
runs == <<ran, outcome, lost>>
vars == <<cloudVars, journal, memory, decision, thread, consents, runs, faults, crashes>>

CommandStatus == {"none", "pending", "pending_approval", "approved", "rejected",
                  "sent", "acknowledged", "executed", "failed", "expired"}
JournalStatus == {"none", "received", "in_progress", "completed", "failed"}

Requests == [op : {"ack", "result", "approval"}, id : Commands, ok : BOOLEAN]
Writes == [id : Commands, to : CommandStatus]
Decisions == [id : Commands, ok : BOOLEAN, passed : BOOLEAN]
NoDecision == [id |-> 0, ok |-> FALSE, passed |-> FALSE]
Polled == [id : Commands, status : CommandStatus]

\* The steps at which a thread waits for an answer of the Cloud.
CallSteps == {"refuseAck", "refuseResult", "approve", "ack", "result"}
Steps == CallSteps \cup {"idle", "refuseMark", "log", "progress", "execute", "mark"}

\* The rows and fields keep their type; a thread works on a command unless it
\* is idle.
DeliveryTypeOK ==
    /\ cloud \in [Commands -> CommandStatus]
    /\ kind \in [Commands -> Kinds]
    /\ overdue \in SUBSET Commands
    /\ late \in SUBSET Requests
    /\ open \in SUBSET Writes
    /\ journal \in [Commands -> JournalStatus]
    /\ executedIds \in SUBSET Commands
    /\ submitted \in SUBSET Commands
    /\ request \in [Commands -> {"none", "pending", "overdue", "expired"}]
    /\ decision \in Decisions \cup {NoDecision}
    /\ batch \in [Heartbeats -> SUBSET Polled]
    /\ at \in [Heartbeats -> Steps]
    /\ cur \in [Heartbeats -> Commands \cup {0}]
    /\ \A h \in Heartbeats : at[h] # "idle" => cur[h] \in Commands
    /\ okay \in [Heartbeats -> BOOLEAN]
    /\ passed \in [Heartbeats -> BOOLEAN]
    /\ local \in SUBSET Commands
    /\ remote \in SUBSET Commands
    /\ byHand \in SUBSET Commands
    /\ ran \in [Commands -> Nat]
    /\ outcome \in [Commands -> {"none", "ok", "error"}]
    /\ lost \in [Commands -> Nat]
    /\ faults \in 0..MaxFaults
    /\ crashes \in 0..MaxCrashes

Init ==
    /\ cloud = [c \in Commands |-> "none"]
    /\ kind \in [Commands -> Kinds]
    /\ \A c \in Commands : kind[c] \in KindsOf[c]
    /\ overdue = {}
    /\ late = {}
    /\ open = {}
    /\ journal = [c \in Commands |-> "none"]
    /\ executedIds = {}
    /\ submitted = {}
    /\ request = [c \in Commands |-> "none"]
    /\ decision = NoDecision
    /\ batch = [h \in Heartbeats |-> {}]
    /\ at = [h \in Heartbeats |-> "idle"]
    /\ cur = [h \in Heartbeats |-> 0]
    /\ okay = [h \in Heartbeats |-> FALSE]
    /\ passed = [h \in Heartbeats |-> FALSE]
    /\ local = {} /\ remote = {} /\ byHand = {}
    /\ ran = [c \in Commands |-> 0]
    /\ outcome = [c \in Commands |-> "none"]
    /\ lost = [c \in Commands |-> 0]
    /\ faults = 0 /\ crashes = 0

-----------------------------------------------------------------------------
(* The control plane.                                                       *)

RequiresApproval(c) == kind[c] \in {"impacting", "auto"}
TradingImpacting(c) == kind[c] \in {"impacting", "unguarded"}

\* A command is created; consent is asked for when its flag says so.
create_command(c) ==
    /\ cloud[c] = "none"
    /\ \A d \in 1..(c - 1) : cloud[d] # "none"
    /\ cloud' = [cloud EXCEPT ![c] = IF RequiresApproval(c)
                                     THEN "pending_approval" ELSE "pending"]
    /\ UNCHANGED <<kind, overdue, late, open, journal, memory, decision, thread,
                   consents, runs, faults, crashes>>

\* What each endpoint of the Agent looks at, and the status it writes.
AckAllowed(c) == cloud[c] \in {"pending", "approved", "sent"}

ResultAllowed(c) == cloud[c] = "acknowledged"

ApprovalAllowed(c) == cloud[c] = "pending_approval" /\ c \notin overdue

Accepts(m) == \/ m.op = "ack" /\ AckAllowed(m.id)
              \/ m.op = "result" /\ ResultAllowed(m.id)
              \/ m.op = "approval" /\ ApprovalAllowed(m.id)

WriteOf(m) == [id |-> m.id,
               to |-> CASE m.op = "ack" -> "acknowledged"
                        [] m.op = "result" -> IF m.ok THEN "executed" ELSE "failed"
                        [] OTHER -> IF m.ok THEN "approved" ELSE "rejected"]

Commit(w) == cloud' = [cloud EXCEPT ![w.id] = w.to]

\* A transaction writes, and its caller is not waiting for it.
CommitOpen(w) ==
    /\ w \in open
    /\ open' = open \ {w}
    /\ Commit(w)
    /\ UNCHANGED <<kind, overdue, late, journal, memory, decision, thread, consents,
                   runs, faults, crashes>>

\* The Cloud reads a request the Agent gave up on.
LateArrives(m) ==
    /\ m \in late
    /\ late' = late \ {m}
    /\ open' = IF Accepts(m) THEN open \cup {WriteOf(m)} ELSE open
    /\ UNCHANGED <<database, journal, memory, decision, thread, consents, runs,
                   faults, crashes>>

\* A user's request passes its check: a decision on a command ...
UserBegins(W) ==
    /\ Cardinality(open) < MaxOpen
    /\ open' = open \cup W
    /\ UNCHANGED <<database, late, journal, memory, decision, thread, local, runs,
                   faults, crashes>>

create_approval(c, yes) ==
    /\ ApprovalAllowed(c)
    /\ UserBegins({[id |-> c, to |-> IF yes THEN "approved" ELSE "rejected"]})
    /\ remote' = IF yes THEN remote \cup {c} ELSE remote
    /\ UNCHANGED byHand

\* ... a transition by hand ...
COMMAND_STATE_TRANSITIONS ==
    [pending |-> {"pending_approval", "sent", "expired"},
     pending_approval |-> {"approved", "rejected", "expired"},
     approved |-> {"sent", "expired"},
     sent |-> {"acknowledged", "failed", "expired"},
     acknowledged |-> {"executed", "failed", "expired"}]

transition_command(c, s) ==
    /\ cloud[c] \in DOMAIN COMMAND_STATE_TRANSITIONS
    /\ s \in COMMAND_STATE_TRANSITIONS[cloud[c]]
    /\ c \in overdue => s = "expired"
    /\ s = "pending_approval" => RequiresApproval(c)
    /\ s = "sent" /\ RequiresApproval(c) => cloud[c] = "approved"
    /\ UserBegins({[id |-> c, to |-> s]})
    /\ remote' = IF s = "approved" THEN remote \cup {c} ELSE remote
    /\ byHand' = IF s \in {"executed", "failed"} THEN byHand \cup {c} ELSE byHand

\* ... or a sweep of the commands whose expires_at has passed.
NonTerminal == DOMAIN COMMAND_STATE_TRANSITIONS

expire_stale_commands ==
    LET Stale == {c \in overdue : cloud[c] \in NonTerminal}
    IN /\ Stale # {}
       /\ UserBegins({[id |-> c, to |-> "expired"] : c \in Stale})
       /\ UNCHANGED <<remote, byHand>>

DeadlinePasses(c) ==
    /\ cloud[c] \in NonTerminal /\ c \notin overdue
    /\ overdue' = overdue \cup {c}
    /\ UNCHANGED <<cloud, kind, late, open, journal, memory, decision, thread,
                   consents, runs, faults, crashes>>

-----------------------------------------------------------------------------
(* CommandJournal.                                                          *)

Finished == {"completed", "failed"}

is_executed(c) == journal[c] \in Finished

\* INSERT; an existing row is left as it is.
log_received(c) ==
    journal' = IF journal[c] = "none" THEN [journal EXCEPT ![c] = "received"] ELSE journal

mark(c, status) == journal' = [journal EXCEPT ![c] = status]

-----------------------------------------------------------------------------
(* _process_cloud_commands.                                                 *)

Pollable(c) ==
    /\ cloud[c] \in {"pending", "pending_approval", "approved", "sent"}
    /\ c \notin overdue

\* The oldest commands, at most PollLimit of them.
PollResult ==
    {c \in Commands : /\ Pollable(c)
                      /\ Cardinality({d \in 1..(c - 1) : Pollable(d)}) < PollLimit}

poll_commands(h) ==
    /\ at[h] = "idle" /\ batch[h] = {}
    /\ PollResult # {}
    /\ batch' = [batch EXCEPT ![h] = {[id |-> c, status |-> cloud[c]] : c \in PollResult}]
    /\ UNCHANGED <<cloudVars, journal, memory, decision, at, cur, okay, passed, consents,
                   runs, faults, crashes>>

\* The thread takes the next command of its batch.
Takes(h, p) == /\ at[h] = "idle"
               /\ \A q \in batch[h] : p.id <= q.id
               /\ batch' = [batch EXCEPT ![h] = @ \ {p}]

\* Mutant: the journal is not asked.
SeenInMemory(c) == c \in executedIds

Seen(c) == c \in executedIds \/ is_executed(c)

Goto(h, step) == at' = [at EXCEPT ![h] = step]

Begin(h, p, step) == /\ Goto(h, step)
                     /\ cur' = [cur EXCEPT ![h] = p.id]
                     /\ UNCHANGED <<okay, passed>>

EndCommand(h) == /\ Goto(h, "idle")
                 /\ cur' = [cur EXCEPT ![h] = 0]
                 /\ okay' = [okay EXCEPT ![h] = FALSE]
                 /\ passed' = [passed EXCEPT ![h] = FALSE]

SkipExecuted(h, p) ==
    /\ Takes(h, p) /\ Seen(p.id)
    /\ executedIds' = executedIds \cup {p.id}
    /\ UNCHANGED <<cloudVars, journal, submitted, request, decision, at, cur, okay,
                   passed, consents, runs, faults, crashes>>

\* A trading-impacting command without the flag is refused.
Refused(c) == TradingImpacting(c) /\ ~RequiresApproval(c)

Refuse(h, p) ==
    /\ Takes(h, p) /\ ~Seen(p.id)
    /\ Refused(p.id)
    /\ log_received(p.id)
    /\ Begin(h, p, "refuseMark")
    /\ UNCHANGED <<cloudVars, memory, decision, consents, runs, faults, crashes>>

RefuseMark(h) ==
    /\ at[h] = "refuseMark" /\ Goto(h, "refuseAck")
    /\ mark(cur[h], "failed")
    /\ UNCHANGED <<cloudVars, memory, decision, batch, cur, okay, passed, consents, runs,
                   faults, crashes>>

\* Approval phase: wait, ask the operator, or approve by local policy.
\* Mutant: every class is approved by local policy.
AutoApprovedAlways(c) == TRUE

AutoApproved(c) == ~TradingImpacting(c)

AwaitApproval(h, p) ==
    LET c == p.id
    IN /\ Takes(h, p) /\ ~Seen(c) /\ ~Refused(c)
       /\ p.status = "pending_approval"
       /\ \/ /\ c \in submitted \/ request[c] # "none"
             /\ UNCHANGED <<request, at, cur, okay, passed>>
          \/ /\ c \notin submitted /\ request[c] = "none"
             /\ IF AutoApproved(c)
                THEN Begin(h, p, "approve") /\ UNCHANGED request
                ELSE /\ request' = [request EXCEPT ![c] = "pending"]
                     /\ UNCHANGED <<at, cur, okay, passed>>
       /\ UNCHANGED <<cloudVars, journal, executedIds, submitted, decision, consents,
                      runs, faults, crashes>>

\* Execution phase: acknowledge, then journal, execute, journal, answer.
StartExecution(h, p) ==
    /\ Takes(h, p) /\ ~Seen(p.id) /\ ~Refused(p.id)
    /\ p.status # "pending_approval"
    /\ Begin(h, p, "ack")
    /\ UNCHANGED <<cloudVars, journal, memory, decision, consents, runs, faults, crashes>>

LogReceived(h) ==
    /\ at[h] = "log" /\ Goto(h, "progress")
    /\ log_received(cur[h])
    /\ UNCHANGED <<cloudVars, memory, decision, batch, cur, okay, passed, consents, runs,
                   faults, crashes>>

MarkInProgress(h) ==
    /\ at[h] = "progress" /\ Goto(h, "execute")
    /\ mark(cur[h], "in_progress")
    /\ UNCHANGED <<cloudVars, memory, decision, batch, cur, okay, passed, consents, runs,
                   faults, crashes>>

\* _execute_cloud_command turns exceptions into a failed result.
Execute(h, success) ==
    /\ at[h] = "execute" /\ Goto(h, "mark")
    /\ okay' = [okay EXCEPT ![h] = success]
    /\ ran' = [ran EXCEPT ![cur[h]] = @ + 1]
    /\ outcome' = [outcome EXCEPT ![cur[h]] = IF success THEN "ok" ELSE "error"]
    /\ UNCHANGED <<cloudVars, journal, memory, decision, batch, cur, passed, consents,
                   lost, faults, crashes>>

\* Mutant: the row gets the Cloud's word for the result.
MarkDoneForeignWord(h) ==
    /\ at[h] = "mark" /\ Goto(h, "result")
    /\ mark(cur[h], IF okay[h] THEN "executed" ELSE "failed")
    /\ UNCHANGED <<cloudVars, memory, decision, batch, cur, okay, passed, consents, runs,
                   faults, crashes>>

\* Mutant: the row says completed whatever the execution answered.
MarkDoneCompleted(h) ==
    /\ at[h] = "mark" /\ Goto(h, "result")
    /\ mark(cur[h], "completed")
    /\ UNCHANGED <<cloudVars, memory, decision, batch, cur, okay, passed, consents, runs,
                   faults, crashes>>

MarkDone(h) ==
    /\ at[h] = "mark" /\ Goto(h, "result")
    /\ mark(cur[h], IF okay[h] THEN "completed" ELSE "failed")
    /\ UNCHANGED <<cloudVars, memory, decision, batch, cur, okay, passed, consents, runs,
                   faults, crashes>>

\* A journal access raises: only the refusal is inside a try, elsewhere the
\* rest of the batch is given up.
JournalFails(h) ==
    /\ at[h] \in {"refuseMark", "log", "progress", "mark"} \/ batch[h] # {}
    /\ at[h] \in {"idle", "refuseMark", "log", "progress", "mark"}
    /\ faults < MaxFaults /\ faults' = faults + 1
    /\ lost' = IF at[h] = "mark" THEN [lost EXCEPT ![cur[h]] = @ + 1] ELSE lost
    /\ EndCommand(h)
    /\ batch' = IF at[h] = "refuseMark" THEN batch ELSE [batch EXCEPT ![h] = {}]
    /\ UNCHANGED <<cloudVars, journal, memory, decision, consents, ran, outcome, crashes>>

-----------------------------------------------------------------------------
(* Calls of CloudClient.                                                    *)

RequestOf(h) ==
    [op |-> CASE at[h] \in {"ack", "refuseAck"} -> "ack"
              [] at[h] = "approve" -> "approval"
              [] OTHER -> "result",
     id |-> cur[h],
     ok |-> at[h] \in {"ack", "refuseAck", "approve"} \/ (at[h] = "result" /\ okay[h])]

\* The Cloud reads the command and lets the request pass.
CallPasses(h) ==
    /\ at[h] \in CallSteps /\ ~passed[h]
    /\ Accepts(RequestOf(h))
    /\ passed' = [passed EXCEPT ![h] = TRUE]
    /\ UNCHANGED <<cloudVars, journal, memory, decision, batch, at, cur, okay, consents,
                   runs, faults, crashes>>

\* It writes and answers, and the thread goes on.
CallAnswered(h) ==
    /\ passed[h]
    /\ Commit(WriteOf(RequestOf(h)))
    /\ \/ /\ at[h] \in {"ack", "refuseAck"}
          /\ Goto(h, IF at[h] = "ack" THEN "log" ELSE "refuseResult")
          /\ passed' = [passed EXCEPT ![h] = FALSE]
          /\ UNCHANGED <<cur, okay, executedIds, submitted>>
       \/ /\ at[h] = "approve"
          /\ submitted' = submitted \cup {cur[h]}
          /\ EndCommand(h)
          /\ UNCHANGED executedIds
       \/ /\ at[h] \in {"result", "refuseResult"}
          /\ executedIds' = executedIds \cup {cur[h]}
          /\ EndCommand(h)
          /\ UNCHANGED submitted
    /\ UNCHANGED <<kind, overdue, late, open, journal, request, decision, batch, consents,
                   runs, faults, crashes>>

\* It refuses, or the Agent gives up on the call: the command is left.
CallRaises(h) ==
    /\ at[h] \in CallSteps
    /\ \/ ~passed[h] /\ ~Accepts(RequestOf(h)) /\ UNCHANGED <<late, open, faults>>
       \/ /\ faults < MaxFaults /\ faults' = faults + 1
          /\ late' = IF passed[h] THEN late ELSE late \cup {RequestOf(h)}
          /\ open' = IF passed[h] THEN open \cup {WriteOf(RequestOf(h))} ELSE open
    /\ EndCommand(h)
    /\ UNCHANGED <<database, journal, memory, decision, batch, consents, runs, crashes>>

-----------------------------------------------------------------------------
(* ApprovalManager and decide_cloud_command_approval.                       *)

RequestTimesOut(c) ==
    /\ request[c] = "pending"
    /\ request' = [request EXCEPT ![c] = "overdue"]
    /\ UNCHANGED <<cloudVars, journal, executedIds, submitted, decision, thread,
                   consents, runs, faults, crashes>>

\* approve refuses an overdue request and marks it EXPIRED; deny does not look
\* at the time.  A decided request leaves the manager's table.
Decide(c, yes) ==
    /\ decision = NoDecision
    /\ \/ /\ request[c] = "pending" \/ (request[c] = "overdue" /\ ~yes)
          /\ request' = [request EXCEPT ![c] = "none"]
          /\ decision' = [id |-> c, ok |-> yes, passed |-> FALSE]
          /\ local' = IF yes THEN local \cup {c} ELSE local
       \/ /\ request[c] = "overdue" /\ yes
          /\ request' = [request EXCEPT ![c] = "expired"]
          /\ UNCHANGED <<decision, local>>
    /\ UNCHANGED <<cloudVars, journal, executedIds, submitted, thread, remote, byHand,
                   runs, faults, crashes>>

\* The decision is submitted, in the same three ways as the calls above; on
\* success the mapping is deleted, also when the processing thread meanwhile
\* asked again.
Decided == [op |-> "approval", id |-> decision.id, ok |-> decision.ok]

DecisionPasses ==
    /\ decision # NoDecision /\ ~decision.passed
    /\ Accepts(Decided)
    /\ decision' = [decision EXCEPT !.passed = TRUE]
    /\ UNCHANGED <<cloudVars, journal, memory, thread, consents, runs, faults, crashes>>

DecisionAnswered ==
    /\ decision.passed /\ decision' = NoDecision
    /\ Commit(WriteOf(Decided))
    /\ submitted' = submitted \cup {decision.id}
    /\ request' = [request EXCEPT ![decision.id] = "none"]
    /\ UNCHANGED <<kind, overdue, late, open, journal, executedIds, thread, consents,
                   runs, faults, crashes>>

DecisionRaises ==
    /\ decision # NoDecision /\ decision' = NoDecision
    /\ \/ ~decision.passed /\ ~Accepts(Decided) /\ UNCHANGED <<late, open, faults>>
       \/ /\ faults < MaxFaults /\ faults' = faults + 1
          /\ late' = IF decision.passed THEN late ELSE late \cup {Decided}
          /\ open' = IF decision.passed THEN open \cup {WriteOf(Decided)} ELSE open
    /\ UNCHANGED <<database, journal, memory, thread, consents, runs, crashes>>

-----------------------------------------------------------------------------
(* The Agent dies, while its requests are on their way or being handled;    *)
(* _init_command_journal restores the executed ids.                         *)

Crash ==
    LET Calling == {h \in Heartbeats : at[h] \in CallSteps}
        Marking(c) == {h \in Heartbeats : at[h] = "mark" /\ cur[h] = c}
        Deciding == IF decision = NoDecision THEN {} ELSE {decision}
    IN /\ crashes < MaxCrashes /\ crashes' = crashes + 1
       /\ executedIds' = {c \in Commands : journal[c] \in Finished}
       /\ submitted' = {}
       /\ request' = [c \in Commands |-> "none"]
       /\ decision' = NoDecision
       /\ batch' = [h \in Heartbeats |-> {}]
       /\ at' = [h \in Heartbeats |-> "idle"]
       /\ cur' = [h \in Heartbeats |-> 0]
       /\ okay' = [h \in Heartbeats |-> FALSE]
       /\ passed' = [h \in Heartbeats |-> FALSE]
       /\ late' = late \cup {RequestOf(h) : h \in {g \in Calling : ~passed[g]}}
                       \cup {Decided : d \in {e \in Deciding : ~e.passed}}
       /\ open' = open \cup {WriteOf(RequestOf(h)) : h \in {g \in Calling : passed[g]}}
                       \cup {WriteOf(Decided) : d \in {e \in Deciding : e.passed}}
       /\ lost' = [c \in Commands |-> lost[c] + (IF Marking(c) = {} THEN 0 ELSE 1)]
       /\ UNCHANGED <<database, journal, consents, ran, outcome, faults>>

ProcessCommand(h) ==
    \/ poll_commands(h)
    \/ \E p \in batch[h] : \/ SkipExecuted(h, p) \/ Refuse(h, p)
                           \/ AwaitApproval(h, p) \/ StartExecution(h, p)
    \/ RefuseMark(h) \/ LogReceived(h) \/ MarkInProgress(h)
    \/ \E success \in BOOLEAN : Execute(h, success)
    \/ MarkDone(h) \/ JournalFails(h)
    \/ CallPasses(h) \/ CallAnswered(h) \/ CallRaises(h)

Operator == \/ \E c \in Commands : \/ RequestTimesOut(c)
                                   \/ \E yes \in BOOLEAN : Decide(c, yes)
            \/ DecisionPasses \/ DecisionAnswered \/ DecisionRaises

ControlPlane == \/ \E c \in Commands :
                     \/ create_command(c)
                     \/ \E yes \in BOOLEAN : create_approval(c, yes)
                     \/ \E s \in CommandStatus : transition_command(c, s)
                     \/ DeadlinePasses(c)
                \/ expire_stale_commands
                \/ \E m \in late : LateArrives(m)
                \/ \E w \in open : CommitOpen(w)

Next == \/ \E h \in Heartbeats : ProcessCommand(h)
        \/ Operator
        \/ ControlPlane
        \/ Crash

Spec == Init /\ [][Next]_vars

-----------------------------------------------------------------------------
(* Properties.                                                              *)

\* One heartbeat thread: nobody resumed the daemon with start().
Alone == \A g, h \in Heartbeats : g = h

\* With one heartbeat thread a command is executed again only if the journal
\* did not get to record its execution: the process died, or the write raised,
\* between the two.  Lost and late answers, crossing transactions that make the
\* command pollable again, transitions by hand and restarts are no reason.
RunsAtMostOnce == Alone => \A c \in Commands : ran[c] <= 1 + lost[c]

\* With one heartbeat thread, what the Cloud shows as a command's result is
\* what its latest execution answered and what the journal says: EXECUTED ran
\* with success, FAILED did not.  Only a user who enters a result by hand can
\* make it say anything else.
ReportIsTrue ==
    Alone => \A c \in Commands \ byHand :
        /\ cloud[c] = "executed" => outcome[c] = "ok" /\ journal[c] = "completed"
        /\ cloud[c] = "failed" => outcome[c] # "ok" /\ journal[c] = "failed"

\* A trading-impacting command that ran was consented to, by the operator at
\* the Agent or by a user of the control plane, and one that does not ask for
\* consent never runs: whatever requests cross, come late or repeat.
RunsWithConsent ==
    \A c \in Commands : ran[c] > 0 /\ TradingImpacting(c) =>
        RequiresApproval(c) /\ c \in local \cup remote

\* command_service.py:756, "Agent can safely re-poll without duplicate
\* execution": without crashes and faults, no command runs twice.
RepollRunsOnce == \A c \in Commands : crashes + faults = 0 => ran[c] <= 1

=============================================================================
