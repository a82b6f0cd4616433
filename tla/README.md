# Verification of the CCEA Agent: orders, safety controls and cloud link

TLA+ modules, TLC configurations and TLAPS proofs for the parts of the platform
that send orders to a broker, that stop it from doing so, and that carry commands
and telemetry between the Cloud and the Agent; and for the Cloud's job scheduler. Paths below are
relative to the repository root; `agent/` abbreviates `packages/agent/` and
`cloud/` abbreviates `packages/cloud/`.

## 1. The system

The platform is split in zones. The **Cloud** (`packages/cloud`, `ccea/`) holds
research, strategy lifecycle, a control plane and jobs; it never sees broker
keys and sends no orders. The **Agent** (`packages/agent`) runs at the customer:
it owns the credentials, runs the strategy, enforces limits, talks to the broker
and polls the Cloud for commands. **Shared contracts** (`packages/shared`) define
intents, runner states and configuration. Around them are legacy research
modules (training, simulation, order book), enterprise services, adapters and a
user interface.

A mistake in the Agent costs money, and the Agent is where threads, an
unreliable broker, crashes and durable state meet. The project starts there and
goes on to the Agent's link with the Cloud and to the Cloud's own concurrent part.

### Inventory

| Component | State | Operations | Hard behaviour | What makes it correct |
|---|---|---|---|---|
| `LiveExecutionEngine` (`agent/execution/engine.py`) | order table, entry ids, sequence | `execute`, `cancel_order`, `replace_order`, `update_order_status` | no lock, several OMS threads; broker answers get lost; crash at any call | an intent is sent at most once, is on disk before it is sent, and a cancelled order is really cancelled |
| `OrderJournal` (`agent/reconciliation/journal.py`) | SQLite rows with a status, audit chain | `log_order`, `update_status`, queries | the only memory across restarts | a row exists for every order the broker may hold |
| Broker adapters (`agent/execution/live_factory.py`) | none | submit, cancel, replace, fetch | exceptions become "not accepted" | – |
| Fill pipeline (`agent/execution/fill_handler.py`, `agent_client.py`) | tracked orders with last signature; cumulative quantity and terminal flag per order | `track`, `poll`, `handle_event`, `pump` | events handled late, beside cancels and amendments; writes that fail after the counters moved | fills are neither invented, doubled, undone nor lost |
| `PnLLedger` (`agent/accounting/pnl_ledger.py`) | durable fills, positions, cash | `on_fill`, `_recover` | durable bookings driven by counters in memory | nothing is booked that was not executed |
| `LiveRunner` (`agent/runner/live.py`) | state, kill flag, error count, strategy | `initialize`, `start`, `stop`, `pause`, `resume`, `process_tick`, `process_intents`, `update_portfolio`, `reset_kill_switch` | no lock: control calls beside a start or a batch; reconciliation rewrites the journal | it trades only after what an earlier process left open is settled, and not while killed |
| `PositionReconciler` (`agent/reconciliation/reconciler.py`) | last report | `reconcile`, `reconcile_orders` | stops half-way when a callback raises | – |
| `KillSwitchManager` (`agent/daemon/kill_switch.py`) | halt in force, history, history file | `trigger`, `acknowledge`, `reset` | a second trigger during a halt; restart; a failing write | the worst reason rules; release needs an approval; the record is complete |
| `AgentDaemon` (`agent/daemon/agentd.py`) | lifecycle state, stop event, threads | `initialize`, `start`, `stop`, `pause`, `resume`, `halt`, `acknowledge_halt`, `reset_halt`, loops | calls in any order; threads that outlive or miss a stop | it is down while the switch is triggered, and can be brought back |
| Sliced execution (`agent/execution/child_executor.py`, `agent_client.py`) | parents, children with status and filled quantity, tracked orders | `send_intents`, `step`, `on_child_fill`, `pump` | quantities known from the last poll; cancels and submissions whose answer is lost | one open order per slice, no plan beyond the parent's quantity, every parent completes |
| Cloud commands, Agent side (`agentd.py`, `CommandJournal`, `agent/cloud/client.py`, `agent/approval/manager.py`) | executed ids, journal rows, approval requests and submitted approvals | poll, refuse, approve, acknowledge, execute, record, report, decide | lost and late calls; crash between any two steps; two heartbeat threads | a command runs once, with consent, and is reported as it ran |
| Cloud commands, control plane (`cloud/control_plane`) | `commands.status`, deadline | `create_command`, `poll_commands`, `acknowledge_command`, `submit_result`, `submit_local_approval`, `create_approval`, `transition_command`, `expire_stale_commands` | status read and written later without a row lock, so requests of Agent and users cross | a decision holds, and a result is the one of the execution |
| Telemetry buffer (`agent/daemon/telemetry_buffer.py`) | memory, rows with sent flag and retry count | `add`, `flush`, `cleanup_old_events`, `close` | two uploading threads; write fails; crash between upload and mark | events are kept, uploaded or accounted for, and the backlog clears |
| Job scheduler (`cloud/jobs/scheduler.py`) | jobs, heap, dependency graph, running sets, quotas | `submit_job`, `cancel_job`, `_process_queue`, `_run_job`, `cleanup_expired`, `set_quota`, `start`, `stop` | jobs cancelled, expired or cleaned up while others wait for them | dependencies first, quotas kept, no job forgotten, the queue drains |
| Circuit breaker (`agent/execution/resilience.py`) | state, failures, probes | `allow`, `record_*`, `call` | a probe that never reports | it recovers |
| Degraded mode, kill switch executor, live trading authorization, audit hash chain, allocation and routing, FIX session | – | – | expiry, retries, sequence gaps | not modelled, see 5 |
| State machines of `ccea/`, job monitor | – | – | – | not modelled, see 5 |
| Policy firewall, caps, risk checker, preflight, sandbox, keychain, artifacts, time sync | mostly none | checks | – | pure comparisons, cryptography and OS isolation |

`AgentClient` or `LiveRunner` calls `execute`; the engine writes the journal and
calls the broker; the broker's fills come back through the pump, or through a
callback into `update_order_status`; the ledger is called by the fill handler.
The reconciler reads the journal and the broker and rewrites rows while nobody
else looks at them. The daemon owns a kill switch of its own; the runner has a
separate flag. The two are connected by configuration only. The daemon's
heartbeat thread polls and executes cloud commands (a `REQUEST_STOP_RUN` calls
`stop()`) and uploads telemetry; every call to the Cloud goes out from the Agent.
The job scheduler shares nothing with the Agent.

## 2. The modules

| Module | Models | Extends |
|---|---|---|
| `LiveExecution` | engine, order journal, adapters, and the broker (external) | – |
| `SubmitOnce` | the abstract promise: recorded, then sent, once | – |
| `FillPipeline` | polling feed, fill handler, ledger quantity | `LiveExecution` |
| `LiveRunner` | runner, reconciliation, batches | `LiveExecution` |
| `KillSwitch` | kill switch manager and its file | – |
| `AgentDaemon` | daemon lifecycle, heartbeat threads | `KillSwitch` |
| `CommandDelivery` | control plane, command processing, command journal, approvals | – |
| `ChildExecutor` | agent client in sliced mode, child executor, polling feed | – |
| `TelemetryBuffer` | telemetry buffer and its upload | – |
| `JobScheduler` | the Cloud's job scheduler | – |
| `LiveExecution_proofs`, `FillPipeline_proofs`, `LiveRunner_proofs`, `AgentDaemon_proofs` (with the kill switch), `CommandDelivery_proofs`, `ChildExecutor_proofs`, `TelemetryBuffer_proofs`, `JobScheduler_proofs` | theorems | |
| `MC…` | instances for TLC | |

**`LiveExecution`.** The client order id is a hash of broker, strategy and
intent, so an intent and its order are one element of `Orders`. `journal` and
`broker` survive a crash; `entryOf` (`_journal_entry_by_client_id`), `order` and
`qty` (the order table) do not. A thread's program counter `at` splits
`execute()` into the idempotency check, the lookup and rebuilding of a
duplicate, the INSERT (whose UNIQUE column decides a race), the broker call and
the two ways its answer is recorded; `cancel_order` and `replace_order` likewise.
A refusal by the policy firewall, the caps, the risk checker or the price collar
changes nothing and takes no step. A broker call has four outcomes: accepted and
answered, accepted with the answer lost, and not accepted, the last two with an
adapter that reports failure or with a bare function that raises. Replacing the
`Order` object in the table while an amendment holds the old one is modelled by
`orphan`. `sends` is a history variable.

**`FillPipeline`** adds what `build_live_stack` wires for a broker without push
feed, amendments included (`live_factory.py:388`). One pump thread polls and then
handles; fetching an event, updating the handler's counters, writing the status and
booking the increment are separate steps, because `cancel_order`, `replace_order` and
re-executions run on other threads. Both writes may fail after the counters have moved:
the journal's raises out of `consume()` and takes the rest of the fetched batch with it
(`StatusRaises`), the ledger's is logged and forgotten (`BookFails`). `booked` is the
durable fill log; `asks` (the quantities an order was asked for) and `spoilt` (orders
of which a failing write lost a report) are history variables.

**`LiveRunner`** adds the runner of a LIVE run with default configuration. The runner
holds no lock, so every check and every assignment of its state and its kill switch
flag is a step of its own: `start()` is the check of the state, of the flag, the
reconciliation, the flag again and the assignment; `pause()` and `resume()` likewise;
`_trigger_kill_switch` sets the flag and then the state, while its caller waits
(`kill`). Any number of callers run these beside the thread that processes ticks; a
kill switch callback is one of them. Reconciliation rewrites any subset of the
unresolved rows before it fails (a callback raised or the broker does not know the
order), or all of them. A tick's batch is executed one intent at a time. `raced` and
`slipped` are history variables that mark the two windows the code leaves open.

**`KillSwitch`** has one action per operation, since each holds one `RLock`.
The current halt is the last event of the history (the same object in Python).
Severities are compared as the code compares them, as words. `ManualReset` is
`require_manual_reset`: without it `reset()` does not ask for the acknowledgment. With
`StorageFaults` a write of the file may fail, leaving the old content or
nothing readable, and a crash may tear it. `asked`, `halts` and `sound` (no write has
failed yet) are history variables.

**`AgentDaemon`** drives the switch through `halt`, `acknowledge_halt` and
`reset_halt`, includes failing initializations, starts and stops, and follows
each heartbeat thread from the `start` that launched it.

**`CommandDelivery`** has both ends of a command. `cloud` is the status column of
the control plane, `journal` that of `CommandJournal`; both survive a crash of the
Agent, `executedIds`, `submitted` and `request` do not (the first is rebuilt from
the journal). A command is one of four kinds, by what the Agent does with its
change class and approval flag. A request to the Cloud is two steps, because nothing
locks the row: it reads the command and passes its check (`AckAllowed`,
`ResultAllowed`, `ApprovalAllowed`, the transition table), and later writes a status,
whatever the status is by then. `open` holds the writes of users, of sweeps and of
calls the Agent gave up on; `late` the requests that have not been read yet and may
never be; `passed` says that the call a thread waits for has passed its check. All
transitions by hand are there, the ones that answer in the Agent's place included.
`at` splits `_process_cloud_commands` at every journal write and every call, for each
heartbeat thread (`start()` from PAUSED makes a second one).
`decide_cloud_command_approval` runs on the operator's thread. `local`, `remote`,
`byHand`, `ran`, `outcome` and `lost` are history variables. The first journal write
of a refusal is not made to fail: that leaves the command as it was, to be polled
again.

**`ChildExecutor`** follows one `pump()` through its three loops: stragglers are
cancelled and rolled, due children are released, tracked orders are polled. The
broker moves between any two calls. A child is named by the send that made it,
its slice and its number of replacements. Time is what matters of it: how many
slices are due and which children are past their budget. A failing cancel reached
the broker or not; a failing submission left an order or not; the journal may
raise, and then the step is given up.

**`TelemetryBuffer`** numbers events in the order they are added. Reading the
rows, the upload and the update after it are separate steps of each thread;
`stop()` waits only five seconds for a heartbeat thread and `start()` makes
another, so there are two. `gone` records what a failed write or a crash took
with the memory, `tries` how often an event was uploaded. The UPDATE after an upload
(`telemetry_buffer.py:544-553`) is not made to fail; a failing one would forget a try,
like a crash between the two, which is modelled.

**`JobScheduler`** has one action per coroutine: everything runs on one event loop
and nothing inside the lock suspends. A pass over the queue is computed whole:
`Leaving` are the jobs that leave the top of the heap until one has to stay.

## 3. Runs

Passing runs, with the distinct states of the last run:

| Run | Bounds | States | Shows |
|---|---|---|---|
| `order_path` | 1 order of 2, 2 threads and the pump, amendments, failing writes, 1 crash | 1.8 M | `AtMostOneSubmission`, `WriteAhead`, `NoFalseCancel`, `NeverOverCounts`, `ClosedIsReal`, `FilledIsReal`, `FilledIsFinal`, `BookedOnce`; the engine implements `SubmitOnce` |
| `fill_pipeline` | the same without crash, with fairness | 911 k | `FillsArrive` |
| `live_runner` | 1 order, 2 callers and a tick thread, 1 crash, a kill at the first error | 3.1 M | `NoForeignRows`, `KilledIsDown` |
| `agent_daemon` | 2 requests, 3 halts, history of 2, 2 starts, faulty storage, manual reset | 736 k | `RecoveredWasApproved`, `SevereStays`, `TriggeredIsDown`, `HaltedIsTriggered`, `TraceIsComplete`, `StoppedHeartsEnd` |
| `command_delivery` | 1 command of any kind, 1 heartbeat thread, 2 open transactions, 1 fault, 1 crash | 3.2 M | `RunsAtMostOnce`, `ReportIsTrue`, `RunsWithConsent` |
| `child_executor` | parent of 3 in 2 slices, 2 replacements, residue of 1, 1 fault | 83 k | `OneOpenPerSlice`, `PlannedWithinTotal`, `CompleteIsOver`, `Settles` |
| `telemetry_buffer` | 3 events, batches of 2, 2 retries, 2 threads, 1 crash or failed write | 990 k | `NothingVanishes`, `LossIsBounded`, `AttemptsBounded`, `BacklogClears` |
| `job_scheduler` | 3 jobs, 2 workspaces, 2 queued each, quotas 1 and 2 | 431 k | `DependenciesFirst`, `NoneForgotten`, `StartsWithinQuota`, `QueueDrains` |

Two threads are enough for a race on one row, and one crash separates two
processes; the proofs cover any number of both. The engine is checked together with
the fill pipeline. Its orders do not interact, nor do their rows, so one is enough (the
proofs cover any number), also for the runner, whose properties are about rows; the
runner amends nothing. Two callers put a start and a
reset, or a start and a kill, between each other's steps. A quantity of 2 has a
partial fill and an amendment to less than what is asked for. A history of 2 overflows
at the third halt. A cooldown of one tick lets a reset come early and in time; the two
requests are the pair whose order matters to `SevereStays`.
Commands interact only through the poll window, about which no property is stated, so
one command is enough; two open transactions cross each other and the Agent's own. A
parent of 3 has slices above and at the residue that is given up, and a replacement
that is itself replaced. Three events fill a batch and leave one in memory. Three jobs
make a chain, a fork and a join, and two of them share a quota. Symmetry is used for
safety only.

What the properties except is real, and the code does it:

* `FillsArrive`: a status write or a booking that raised (`spoilt`) is not made up for;
  with a lost amendment answer the handler takes an order for complete before it is
  and ignores the rest (`TakenForComplete`); after a restart an order is followed again
  only when its intent is executed again.
* `FilledIsFinal`: a duplicate found by a second thread rebuilds an order, the answer
  to its submission overtakes it, and an amendment sets it to ACCEPTED (`Overwrites`).
* `BookedOnce` counts per process: after a restart the first cumulative report is
  booked whole, against `pnl_ledger.py:613-614` and `18-19`, so the ledger may hold an
  execution once for every process that ran, and never more often.
* `NoForeignRows` (`slipped`): only the kill switch flag tells `start()` that its
  reconciliation failed, so a reset before it looks lets it run.
* `KilledIsDown` (`raced`): a kill between the check of the flag and the assignment of
  RUNNING, in `start()` or `resume()`, leaves a killed runner RUNNING.
* `RunsAtMostOnce`, `ReportIsTrue`: for one heartbeat thread (`Alone`; with two see
  `repoll_twice`); an execution the journal did not record may be repeated; a user may
  enter any result by hand.
* `RecoveredWasApproved`: under `require_manual_reset`, the default.
* `TraceIsComplete`: until a write of the history fails or is torn (`sound`).
* `NoneForgotten` says that a waiting job is on the lists of those it waits for, not
  that these will still end; see `late_dependent`.
* `Settles`: a child whose order expired at the broker, or was never tracked, keeps its
  parent open for ever, because nobody calls `on_order_terminal`.

Violation runs state what a comment says and exhibit the counterexample:

| Run | Claim | What happens |
|---|---|---|
| `stale_leaves` | `child_executor.py:18-20` | leaves are read before the cancel, and what fills in between is bought twice |
| `resent_batch` | `agent_client.py:21-23` | in sliced mode a batch sent again releases a second set of orders |
| `repoll_twice` | `command_service.py:756` | two heartbeat threads acknowledge the same command at once, both are granted, and it runs twice |
| `late_dependent` | `scheduler.py:477` | a job submitted after its dependency succeeded is never queued |

Further places where a comment says more than the code does, read off the models
or the source while writing them; they are hazards of `PROJECT.json`, not runs:

* `docs/runbooks/KILL_SWITCH.md:7`: the rest of a batch is executed after a kill,
  because `process_intents()` does not look at the flag.
* `runner/live.py:241`: a submission whose answer was lost is REJECTED, which is not
  reconciled, and the next runner runs beside a live order it does not know.
* `kill_switch.py:264`: a restart releases a triggered switch without approval.
* `commands.py:931`: there is no lock; a crossing rejection overwrites the approval of a
  command that ran, which is then shown REJECTED.
* `agentd.py:1819`: the approval of a cloud user is enough for a trading-impacting
  command; `RunsWithConsent` therefore accepts either consent.
* `scheduler.py:469`: a job that fails because of its dependency, or expires in the
  queue, does not tell its own dependents.
* `engine.py:206-207`: after a crash between row and submission the repeated
  `execute()` returns success for an order never sent.
* `fill_handler.py:279`: executions first reported by a cancel or expire event are
  never counted.
* `fill_handler.py:282`: a recovered order has no entry id, so its row does not
  advance until the next reconciliation.
* `fill_handler.py:340`: an event under way reopens an order that
  `cancel_order` closed.
* `kill_switch.py:59`: a CRITICAL request to cancel orders during a HALT_ONLY halt
  cancels nothing.
* `kill_switch.py:349`: severities are compared as words, so LOW replaces
  MEDIUM; the acknowledgment and the evidence hash of the old reason stay.
* `kill_switch.py:263` and `146`: the only copy of the history is rewritten in
  place, and the approval code is not read back.
* `agentd.py:882-883`: `start()` never clears the stop event, so a daemon started
  again runs without heartbeat.
* `agentd.py:1292`: outside HALTED `reset_halt()` answers True while the switch
  may be triggered; after `stop()` from HALTED only a restart leads out.
* `agentd.py:1529-1531`: a command whose execution the journal did not record may run
  again, when a crossing transaction makes it pollable; one acknowledged before a crash
  is otherwise neither executed nor answered.
* `journal.py:682` and `client.py:347`: the command journal refuses the heartbeat
  thread, and nobody negotiates the version that polling requires; commands are
  modelled as the code means them. Nothing makes a command be taken in the end, so no
  liveness of delivery is stated.
* `broker/…/binance.py:542`: `get_order` always answers None, so fills of that
  connector are never fetched.
* `telemetry_buffer.py`: `max_buffer_size` and `retry_delay_seconds` are never
  read; the events of a batch are given up after three failed heartbeats, and an
  upload whose answer was lost is sent again.
* `scheduler.py:382`, `519`: the top of the heap blocks all workspaces until it
  expires; a cancelled job counts against the workspace for ever.

### Fairness

`FillsArrive` assumes that events that were fetched are handled (`consume()` goes
through them before it returns). That `pump()` is called for ever and the connector
answers is not the code's to promise: it is the hypothesis `Fed` of the property.
`Settles` assumes that the live loop calls `pump()` on a clock and that time passes.
`StoppedHeartsEnd` assumes that each heartbeat thread is scheduled and that its timed
wait ends. For `BacklogClears` only a flush that has begun is assumed to end: an upload
is answered or times out, with any answer, and the rows are updated. That heartbeats
reach the flush is its hypothesis `HeartbeatsPass`, since the loop does not see to it:
`agentd.py:1658-1675` skips the flush whenever `heartbeat()`, `poll_commands()` or the
processing of a command raises (and polling always raises while the version is not
negotiated), and after `stop()` there are no heartbeats. `QueueDrains` assumes that the
loop looks at the queue every second while it runs, that tasks end and that every
job's expiry comes. No fairness is assumed of the broker, of operators, of users or of
control calls.

## 4. Proofs

`LiveExecution_proofs` proves, for any set of orders and threads, any quantities
and any number of crashes:

* `TypeInvariant`, `SubmittedAtMostOnce`, `LoggedBeforeHeld`, `CancelIsReal`:
  type correctness and the engine's invariants in `order_path`;
* `ImplementsSubmitOnce`: its refinement of `SubmitOnce`.

`AtMostOneSubmission` is not inductive. The argument is about who owns a row:
an order without a row was not sent (`UnloggedUnsent`); a thread about to send
has a row that was not sent (`OwnsRow`); two threads are never about to send the
same order (`OneSender`); what the broker holds was sent (`HeldWasSent`); a
thread that records an answer works on an order with a row (`AckHasRow`). For
cancellation, a thread about to record one has the broker's word, and closed
orders do not reopen (`CancelConfirmed`). `SafeInv` is their conjunction.

`AgentDaemon_proofs` starts with the kill switch: `SwitchTypeOK`,
`RecoveredWasApproved` (whose hypothesis is `ManualReset`) and `SevereStays` for any
requests, cooldown, history length and storage. Lemmas say what replacing the last event and recording-and-trimming do
to a history; `HistoryOK` is what every write, load and loss preserves.
`FileIsTheRecord` (`TraceIsComplete`) adds that both histories carry the numbers of
the latest halts without a gap (`Records`) until a write fails or is torn. The second part shows that every step
of the daemon is a step of the switch or leaves it alone, so that both invariants
carry over (`DaemonRecoveryApproved`, `DaemonFileIsTheRecord`), and proves
`TriggeredIsDown` and `HaltedIsTriggered` together with the fact that a daemon
without a switch is never triggered.

`CommandDelivery_proofs` proves, for any commands and kinds, poll limit, open
transactions, faults and crashes, `DeliveryTypeOK` and `RunsWithConsent` for any number
of heartbeat threads, and `RunsAtMostOnce` and `ReportIsTrue` for one. `Inv` has one
part per idea. Consent is behind everything that leads to an execution (`ConsentInv`):
the status of a row, the write of an open transaction, an approval on its way, what was
polled, and the command a thread works on. Checks that were passed long ago do not
matter to it, since a consent once given stays given. With one thread, what it is about
to execute, or has just executed, has no finished row, and every execution is recorded,
about to be recorded, or lost (`OnceInv`): the journal, not the Cloud, keeps the count.
Every word for a result, in a row, an open write, a late request or the thread's own
variables, agrees with the latest execution and with the journal (`ToldInv`); a word
once true stays so, because a finished row is never left.

`FillPipeline_proofs` and `LiveRunner_proofs` build on `LiveExecution_proofs`: a
step of either is a step of the engine or the broker, to which the engine's lemmas
apply, or one of its own. For the pipeline the broker only moves on
(`BrokerOnward`, which needs that an order is submitted once: a second acceptance
would set its quantity back), so an event that was true when it was fetched stays
true (`EventsAreReal`), and so does the update made from it (`UpdatesAreReal`);
`FillTypeOK`, `NeverOverCounts` and `ClosedIsReal` follow. For the runner, rows a
thread may still write are of its own process (`OwnsEntry`), reconciliation only
closes rows, and a paused runner owns the open rows too, because `resume()` does
not reconcile (`OwnRows`): until a reconciliation has passed, nobody is on the way to
RUNNING but a start that failed to reconcile, and the flag is set, or about to be, when
it looks at it. While the flag is set nobody is past its check, unless it was set too
late (`KillInv`). `NoForeignRows` and `KilledIsDown` follow, with their exceptions.

What the engine promises on its own survives both compositions. They add writers
the engine does not know: reconciliation rewrites rows of orders that are on their
way, callbacks and fill updates rewrite the order table. `RewriteStep` says why that
is harmless: a row that is rewritten stays a row, so it still keeps a second INSERT
out, and a status becomes CANCELLED only where the broker cancelled.
`RunnerSubmitsOnce` and `FillsSubmitOnce` prove the refinement of `SubmitOnce` for the
composed systems, `RunnerKeepsRows` and `RunnerCancelsAreReal` the other two.

For the ledger (`BooksAreReal`), what is booked and the increment under way stay
within the handler's counter and what earlier processes may have booked, the broker's
executions once for each of them (`BookInv`); this needs that an order has one event
or update under way (`OneUnderWay`). Until the first restart nothing is booked that
was not executed (`LedgerHoldsExecutions`).

What FILLED means is proved without hypotheses, for any threads, amendments, lost
answers, failing writes and restarts:

* `FillsAreReal` (`FilledIsReal`): engine, amendments under way and broker each hold a
  quantity that was asked for (`AskInv`), so a cumulative quantity that reaches the
  engine's has reached one of them, and the only one if the order was never amended
  (`FilledInv`).
* `FilledStaysFilled` (`FilledIsFinal`): the update that makes an order FILLED is the
  handler's last for it, whatever threads do to the order table (`LastUpdate`); and the
  broker confirms no cancel of an order that is filled.

`JobScheduler_proofs` proves `DependenciesFirst` and `NoneForgotten` for any jobs,
priorities, quotas and expiries. A job in the queue or running waits for nothing
and its dependencies are done (`QueuedIsFree`); what a waiting job no longer waits
for is done (`WaitingIsHonest`); nothing can still write the state of a job that
succeeded (`SuccessIsFinal`), which is what makes "done" last. A
pending job of the table is queued or waits (`Placed`), whoever it waits for has it on
the list (`Registered`), and only an expired one leaves the table (`CleanedIsExpired`). `PassKeepsQuotas`
proves the action property `StartsWithinQuota`: of the jobs a pass starts there is a
last one in heap order, all the others were counted when it was let through, and its
own quota check bounds them all.

`ChildExecutor_proofs` proves the four safety properties of `ChildExecutor` for any
quantity, number of slices, replacements, sends and faults. `ExecInv` relates a child
to its order at the broker (`Agree`), says that whoever has a successor was replaced
after its cancel was confirmed (`Chains`), and what the three loops of a `pump()` may
still meet (`LoopOK`, `TrackedOK`); `OneOpenPerSlice` follows. `PlannedWithinTotal` and
`CompleteIsOver` are about sums: `PlanInv` keeps the recorded fills and the open
quantities of the current parent within its total, and each step changes one or two
summands.

`TelemetryBuffer_proofs` proves `NothingVanishes` and `LossIsBounded` for any
events, batch size, retries, threads and faults: an accepted upload has arrived
(`AcceptedArrived`), rows are those of added events, and the memory is always
shorter than a batch (`MemoryIsShort`). `UploadsAreBounded` (`AttemptsBounded`)
accounts for every try of an event: it is in `retry_count`, or its answer is not
written yet, or a crash forgot it (`TriesAreCounted`); with the uploads still to be
sent this stays below the bound (`TriesToCome`).

The prover cannot use the library's induction theorems. Where a proof needs induction
over data it takes a least counterexample instead: a set of naturals that is not empty
has a least element (`LeastNat`, from the well-foundedness of `<`), hence a family of
subsets of a finite set that is closed under adding an element holds the whole
set (`SubsetInduction`). That gives the lemmas on sums (`SumType`, `SumRemove`,
`SumAgree`, `SumChange`, `SumBounds`) and the last job of a pass.

Assumptions are the named `ASSUME`s of the modules: bounds are naturals, the
initial quantity is positive and at most the maximum, flags are Booleans,
`NoOrder` is not an order, requests are pairs of a severity and an action, batch
size, retries and the error threshold are positive, and the threads that upload
are finitely many.

Only model-checked: the liveness properties (`FillsArrive`, `StoppedHeartsEnd`,
`Settles`, `BacklogClears`, `QueueDrains`), because fairness and ENABLED are outside the
prover's reach; and the claims the violation runs refute. Every invariant and action
property of the passing runs is stated by a theorem.

## 5. Not modelled

* Numbers: prices, notionals, P&L, limits. The checks that use them are choices.
* The engine without broker function (it stops after the journal row).
* The push feed; allocation of a quantity to accounts and venues.
* `RunController`, artifact upgrade and configuration update; the audit hash
  chain; degraded mode (nothing reads what it recommends); the circuit breaker;
  the kill switch executor, whose answer the switch ignores.
* Of commands: idempotency keys (one key is one command), signatures and version
  negotiation.
* A failing UPDATE after an upload of telemetry.
* The executor after a restart: it has no recovery code.
* What the Cloud does with telemetry it accepted.
* The FIX session, which no live stack of the repository is wired to, and the
  control plane under `ccea/`, which the Agent's client does not talk to.
* The wall clock stepping back during a cooldown.
* Direct calls of `KillSwitchManager.trigger` beside the daemon. The daemon's
  own code only triggers through `halt()`; a direct call would take the two
  locks in the opposite order.
* Research, training, simulation, services and user interface: numerical and
  presentation code without a protocol between actors. It is by far the largest
  part of the repository's lines.

## 6. Plan

1. What holds of commands with two heartbeat threads, once acknowledgments lock the
   row; `FillPipeline` with the executions that cancel and expire events report.
2. The circuit breaker with its retry loop; `KillSwitchExecutor`.
3. `RunController` over `LiveExecution`; the push feed in `FillPipeline`; the audit
   chain with the journal.
4. The FIX session, when it is wired.
