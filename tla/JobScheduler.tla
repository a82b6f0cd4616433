---------------------------- MODULE JobScheduler ----------------------------
(***************************************************************************)
(* The Cloud's job scheduler (packages/cloud/jobs/scheduler.py): a heap of *)
(* jobs ordered by priority and time, quotas per workspace and in all,     *)
(* dependencies between jobs, expiry, cancellation and cleanup.            *)
(*                                                                         *)
(* Everything runs on one event loop and nothing inside the lock suspends, *)
(* so each coroutine is one action; only the task of a job runs between    *)
(* its start and its end.  The counters kept for display (current_running, *)
(* current_queued) decide nothing and are left out.                        *)
(***************************************************************************)
EXTENDS Naturals, FiniteSets

CONSTANTS
    MaxJobs,       \* jobs, numbered in the order of their submission
    Workspaces,
    WorkspaceOf,   \* workspace_id of each job
    PriorityOf,    \* priority of each job, lower first
    MaxQueued,     \* max_queued_jobs per workspace
    QuotasOf,      \* values each workspace's max_concurrent_jobs may be given
    MaxGlobal,     \* max_concurrent_global
    TimesOf,       \* schedule_at each job may ask for, 0 for none
    MaxTime        \* bound: the last moment

Jobs == 1..MaxJobs

ASSUME JobAssumption == /\ MaxJobs \in Nat
                        /\ WorkspaceOf \in [Jobs -> Workspaces]
                        /\ PriorityOf \in [Jobs -> Nat]
                        /\ TimesOf \in [Jobs -> SUBSET Nat]
ASSUME QuotaAssumption == /\ QuotasOf \in [Workspaces -> SUBSET Nat]
                          /\ MaxQueued \in Nat /\ MaxGlobal \in Nat
                          /\ MaxTime \in Nat

VARIABLES
    state,        \* ScheduledJob.state, "none" before submission
    depends,      \* ScheduledJob.dependencies
    scheduledAt,  \* ScheduledJob.scheduled_at
    now,          \* the clock
    expired,      \* jobs whose expires_at has passed
    known,        \* keys of _jobs, and of _workspace_jobs
    queue,        \* _job_queue
    waiting,      \* _waiting_for, {} without an entry
    dependents,   \* _dependents, as pairs <<job, dependent>>
    running,      \* _workspace_running: jobs with a task
    quota,        \* max_concurrent_jobs per workspace
    up            \* _running: the loop processes the queue

table == <<depends, scheduledAt, known>>
graph == <<waiting, dependents>>
vars == <<state, table, now, expired, queue, graph, running, quota, up>>

TaskState == {"none", "pending", "started", "success", "failure", "revoked"}
Terminal == {"success", "failure", "revoked"}

\* Fields keep their type.
SchedulerTypeOK ==
    /\ state \in [Jobs -> TaskState]
    /\ depends \in [Jobs -> SUBSET Jobs]
    /\ scheduledAt \in [Jobs -> Nat]
    /\ now \in 0..MaxTime
    /\ expired \in SUBSET Jobs
    /\ known \in SUBSET Jobs
    /\ queue \in SUBSET Jobs
    /\ waiting \in [Jobs -> SUBSET Jobs]
    /\ dependents \in SUBSET (Jobs \X Jobs)
    /\ running \in SUBSET Jobs
    /\ quota \in [Workspaces -> Nat]
    /\ up \in BOOLEAN

Init ==
    /\ state = [j \in Jobs |-> "none"]
    /\ depends = [j \in Jobs |-> {}]
    /\ scheduledAt = [j \in Jobs |-> 0]
    /\ now = 0
    /\ expired = {} /\ known = {} /\ queue = {}
    /\ waiting = [j \in Jobs |-> {}]
    /\ dependents = {}
    /\ running = {}
    /\ quota \in {q \in [Workspaces -> UNION {QuotasOf[w] : w \in Workspaces}] :
                     \A w \in Workspaces : q[w] \in QuotasOf[w]}
    /\ up = FALSE

In(w, S) == {j \in S : WorkspaceOf[j] = w}

-----------------------------------------------------------------------------
(* Submission and cancellation.                                             *)

submit_job(j, D, t) ==
    /\ state[j] = "none" /\ \A i \in 1..(j - 1) : state[i] # "none"
    /\ Cardinality(In(WorkspaceOf[j], known)) < MaxQueued
    /\ state' = [state EXCEPT ![j] = "pending"]
    /\ depends' = [depends EXCEPT ![j] = D]
    /\ scheduledAt' = [scheduledAt EXCEPT ![j] = IF t = 0 THEN now ELSE t]
    /\ known' = known \cup {j}
    /\ waiting' = [waiting EXCEPT ![j] = D]
    /\ dependents' = dependents \cup (D \X {j})
    /\ queue' = IF D = {} THEN queue \cup {j} ELSE queue
    /\ UNCHANGED <<now, expired, running, quota, up>>

\* The dependents of j that still wait.
Notified(j) == {d \in Jobs : <<j, d>> \in dependents /\ waiting[d] # {}}

\* Mutant: a job whose last dependency succeeded is not queued.
FreedNone(j) == {}

\* Those that wait for nothing else.
Freed(j) == {d \in Notified(j) : waiting[d] = {j}}

\* Mutant: the dependents of a job that failed go on.
_notify_dependents_ignores(j, success, st) ==
    /\ dependents' = {p \in dependents : p[1] # j}
    /\ waiting' = [d \in Jobs |-> IF d \in Notified(j) THEN waiting[d] \ {j} ELSE waiting[d]]
    /\ state' = st
    /\ queue' = queue \cup {d \in Freed(j) \cap known : st[d] = "pending"}

\* Job j ended: its dependents fail with it, or are queued when j was the last
\* they waited for.  st is the state of the jobs once j's own is set.
_notify_dependents(j, success, st) ==
    /\ dependents' = {p \in dependents : p[1] # j}
    /\ waiting' = [d \in Jobs |-> IF d \notin Notified(j) THEN waiting[d]
                                  ELSE IF success THEN waiting[d] \ {j} ELSE {}]
    /\ state' = [d \in Jobs |-> IF d \in Notified(j) \cap known /\ ~success
                                THEN "failure" ELSE st[d]]
    /\ queue' = IF success
                THEN queue \cup {d \in Freed(j) \cap known : st[d] = "pending"}
                ELSE queue

\* A job that runs is marked and runs on; a queued one stays in the heap.
cancel_job(j) ==
    /\ j \in known
    /\ state[j] \notin Terminal
    /\ _notify_dependents(j, FALSE, [state EXCEPT ![j] = "revoked"])
    /\ UNCHANGED <<table, now, expired, running, quota, up>>

-----------------------------------------------------------------------------
(* _process_queue: jobs leave the top of the heap until one has to stay.    *)

Before(i, j) ==
    \/ PriorityOf[i] < PriorityOf[j]
    \/ /\ PriorityOf[i] = PriorityOf[j]
       /\ scheduledAt[i] < scheduledAt[j] \/ (scheduledAt[i] = scheduledAt[j] /\ i < j)

Ahead(j) == {i \in queue : Before(i, j)}

is_ready(j) == state[j] = "pending" /\ scheduledAt[j] <= now

\* Mutant: the jobs this pass already started are not counted.
MayLeaveStaleCount(j) ==
    /\ Cardinality(running) < MaxGlobal
    /\ \/ j \in expired
       \/ /\ is_ready(j) /\ waiting[j] = {}
          /\ Cardinality(In(WorkspaceOf[j], running)) < quota[WorkspaceOf[j]]

\* Mutant: expiry is looked at only for a job that may be started.
MayLeaveReadyFirst(j) ==
    LET busy == running \cup (Ahead(j) \ expired)
    IN /\ Cardinality(busy) < MaxGlobal
       /\ is_ready(j) /\ waiting[j] = {}
       /\ Cardinality(In(WorkspaceOf[j], busy)) < quota[WorkspaceOf[j]]

\* Job j at the top is dropped when expired, started when ready and within the
\* quotas, which count the jobs this pass started.
MayLeave(j) ==
    LET busy == running \cup (Ahead(j) \ expired)
    IN /\ Cardinality(busy) < MaxGlobal
       /\ \/ j \in expired
          \/ /\ is_ready(j) /\ waiting[j] = {}
             /\ Cardinality(In(WorkspaceOf[j], busy)) < quota[WorkspaceOf[j]]

Leaving == {j \in queue : \A i \in Ahead(j) \cup {j} : MayLeave(i)}

_process_queue ==
    /\ up
    /\ Leaving # {}
    /\ queue' = queue \ Leaving
    /\ state' = [j \in Jobs |-> IF j \notin Leaving THEN state[j]
                                ELSE IF j \in expired THEN "failure" ELSE "started"]
    /\ running' = running \cup (Leaving \ expired)
    /\ UNCHANGED <<table, now, expired, graph, quota, up>>

ResultState(success) == IF success THEN "success" ELSE "failure"

\* The task of j ends, whatever became of j's state meanwhile.
_run_job(j, success) ==
    /\ running' = running \ {j}
    /\ _notify_dependents(j, success, [state EXCEPT ![j] = ResultState(success)])
    /\ UNCHANGED <<table, now, expired, quota, up>>

-----------------------------------------------------------------------------
(* Cleanup, quotas, the loop and the clock.                                 *)

cleanup_expired ==
    LET old == {j \in known \cap expired : state[j] \in {"pending", "success", "failure"}}
    IN /\ old # {}
       /\ known' = known \ old
       /\ UNCHANGED <<state, depends, scheduledAt, now, expired, queue, graph, running,
                      quota, up>>

\* max_queued_jobs, which only submission reads, stays as it is.
set_quota(w, n) ==
    /\ quota[w] # n
    /\ quota' = [quota EXCEPT ![w] = n]
    /\ UNCHANGED <<state, table, now, expired, queue, graph, running, up>>

start == /\ ~up /\ up' = TRUE
         /\ UNCHANGED <<state, table, now, expired, queue, graph, running, quota>>

stop == /\ up /\ up' = FALSE
        /\ UNCHANGED <<state, table, now, expired, queue, graph, running, quota>>

Tick == /\ now < MaxTime /\ now' = now + 1
        /\ UNCHANGED <<state, table, expired, queue, graph, running, quota, up>>

JobExpires(j) ==
    /\ state[j] # "none" /\ j \notin expired
    /\ expired' = expired \cup {j}
    /\ UNCHANGED <<state, table, now, queue, graph, running, quota, up>>

Next ==
    \/ \E j \in Jobs :
          \/ \E D \in SUBSET (1..(j - 1)), t \in TimesOf[j] : submit_job(j, D, t)
          \/ cancel_job(j)
          \/ JobExpires(j)
    \/ _process_queue
    \/ \E j \in running, success \in BOOLEAN : _run_job(j, success)
    \/ cleanup_expired
    \/ \E w \in Workspaces : \E n \in QuotasOf[w] : set_quota(w, n)
    \/ start \/ stop \/ Tick

Spec == Init /\ [][Next]_vars

\* The loop looks at the queue every second while it runs, tasks end, and
\* every job reaches its expiry.
FairSpec ==
    /\ Spec
    /\ WF_vars(_process_queue)
    /\ \A j \in Jobs : /\ WF_vars(\E success \in BOOLEAN : j \in running /\ _run_job(j, success))
                       /\ WF_vars(JobExpires(j))

-----------------------------------------------------------------------------
(* Properties.                                                              *)

\* No pass over the queue starts a job beyond the quota of its workspace or of
\* the scheduler, however many jobs it starts and whatever the quota was.
StartsWithinQuota ==
    [][/\ running' \ running # {} => Cardinality(running') <= MaxGlobal
       /\ \A w \in Workspaces :
             In(w, running' \ running) # {} => Cardinality(In(w, running')) <= quota[w]
      ]_vars

\* A job that is running has all its dependencies behind it, and all of them
\* succeeded, whatever was cancelled, expired or cleaned up meanwhile.
DependenciesFirst ==
    \A j \in running : \A d \in depends[j] : state[d] = "success"

\* No job falls between the tables: one that is still pending is in the queue,
\* or the jobs it waits for have it on their lists, so the end of each reaches
\* it, or it was cleaned up after its expiry.  That those jobs will end, or
\* have not ended already, is not said: see SatisfiedIsQueued.
NoneForgotten ==
    \A j \in Jobs : state[j] = "pending" =>
        \/ j \in queue
        \/ waiting[j] # {} /\ \A i \in waiting[j] : <<i, j>> \in dependents
        \/ j \notin known /\ j \in expired

\* scheduler.py:477, "All dependencies satisfied - add to queue": a pending job
\* whose dependencies have all succeeded is in the queue.
SatisfiedIsQueued ==
    \A j \in known : state[j] = "pending" /\ (\A d \in depends[j] : state[d] = "success")
                        => j \in queue

\* While the loop keeps running the queue drains, whatever is at its top: a
\* cancelled, delayed or over-quota job does not block it for good.  Each job
\* is queued at most once, so every one of them leaves.
QueueDrains == <>[]up => <>[](queue = {})

=============================================================================
