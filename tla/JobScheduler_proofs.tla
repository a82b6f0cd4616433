------------------------- MODULE JobScheduler_proofs -------------------------
(***************************************************************************)
(* No job is forgotten, none starts before its dependencies succeeded, and no   *)
(* pass over the queue starts one beyond the quotas: for any number of     *)
(* jobs, workspaces, priorities, quotas and expiries.                      *)
(***************************************************************************)
EXTENDS JobScheduler, FiniteSetTheorems, TLAPS

Succeeded(j) == state[j] = "success"

\* A pending job of the table is queued or waits.
Placed == \A j \in known : state[j] = "pending" => j \in queue \/ waiting[j] # {}

\* The jobs a job waits for have it on their lists.
Registered == \A j \in Jobs : \A i \in waiting[j] : <<i, j>> \in dependents

\* Only an expired job leaves the table while it is pending.
CleanedIsExpired == \A j \in Jobs : state[j] = "pending" => j \in known \cup expired

\* A job that is queued or runs waits for nothing, and its dependencies are done.
QueuedIsFree == \A j \in queue \cup running :
    waiting[j] = {} /\ \A d \in depends[j] : Succeeded(d)

\* What a waiting job no longer waits for is done.
WaitingIsHonest == \A j \in Jobs : waiting[j] # {} =>
    \A d \in depends[j] \ waiting[j] : Succeeded(d)

\* A success is final: nothing can still write the state of the job.
SuccessIsFinal == \A j \in Jobs : Succeeded(j) =>
    j \notin queue \cup running /\ waiting[j] = {}

\* A job is started once.
LeavesOnce == queue \cap running = {}

\* Before its submission a job is nowhere.
FreshIsNowhere == \A j \in Jobs : state[j] = "none" =>
    j \notin queue \cup running \cup known

SchedulerInv == /\ SchedulerTypeOK /\ Placed
                /\ QueuedIsFree /\ WaitingIsHonest /\ SuccessIsFinal
                /\ LeavesOnce /\ FreshIsNowhere
                /\ Registered /\ CleanedIsExpired

\* Init establishes the invariant.
LEMMA InitScheduler == Init => SchedulerInv
<1> SUFFICES ASSUME Init PROVE SchedulerInv
    OBVIOUS
<1>1. quota \in [Workspaces -> Nat]
      BY QuotaAssumption DEF Init
<1>2. SchedulerTypeOK
  <2>1. state \in [Jobs -> TaskState] /\ depends \in [Jobs -> SUBSET Jobs]
        /\ waiting \in [Jobs -> SUBSET Jobs] /\ scheduledAt \in [Jobs -> Nat]
        BY DEF Init, TaskState
  <2>2. now \in 0..MaxTime
        BY QuotaAssumption DEF Init
  <2>3. up \in BOOLEAN
        BY DEF Init
  <2> QED BY <1>1, <2>1, <2>2, <2>3 DEF Init, SchedulerTypeOK
<1>3. Placed /\ QueuedIsFree /\ WaitingIsHonest /\ SuccessIsFinal
      BY DEF Init, Placed, QueuedIsFree, WaitingIsHonest, SuccessIsFinal, Succeeded
<1>4. LeavesOnce /\ FreshIsNowhere
      BY DEF Init, LeavesOnce, FreshIsNowhere
<1>5. Registered /\ CleanedIsExpired
      BY DEF Init, Registered, CleanedIsExpired
<1> QED BY <1>2, <1>3, <1>4, <1>5 DEF SchedulerInv

\* A step that leaves states, queue, tasks and graph alone, and forgets jobs
\* at most, keeps everything but the types of the rest.
LEMMA QuietStep ==
    ASSUME SchedulerInv, SchedulerTypeOK', known' \subseteq known,
           expired \subseteq expired', known \ known' \subseteq expired,
           UNCHANGED <<state, depends, queue, waiting, dependents, running>>
    PROVE  SchedulerInv'
<1>1. Placed'
      BY DEF SchedulerInv, Placed
<1>2. QueuedIsFree' /\ WaitingIsHonest' /\ SuccessIsFinal'
      BY DEF SchedulerInv, QueuedIsFree, WaitingIsHonest, SuccessIsFinal, Succeeded
<1>3. LeavesOnce' /\ FreshIsNowhere'
      BY DEF SchedulerInv, LeavesOnce, FreshIsNowhere
<1>4. Registered' /\ CleanedIsExpired'
      BY DEF SchedulerInv, Registered, CleanedIsExpired
<1> QED BY <1>1, <1>2, <1>3, <1>4 DEF SchedulerInv

\* The end of job j, which nothing can have relied on: its dependents are told.
LEMMA NotifyStep ==
    ASSUME SchedulerInv, NEW j \in Jobs, NEW success \in BOOLEAN,
           NEW s \in Terminal, success <=> s = "success",
           state[j] # "none", ~Succeeded(j), success => waiting[j] = {},
           _notify_dependents(j, success, [state EXCEPT ![j] = s]),
           running' \subseteq running, success => j \notin queue \cup running',
           UNCHANGED <<table, now, expired, quota, up>>
    PROVE  SchedulerInv'
<1> DEFINE st == [state EXCEPT ![j] = s]
<1> USE DEF SchedulerInv
<1>0. /\ st \in [Jobs -> TaskState] /\ st[j] = s
      /\ \A i \in Jobs \ {j} : st[i] = state[i]
      BY DEF SchedulerTypeOK, TaskState, Terminal
<1>1. SchedulerTypeOK'
  <2>1. state' \in [Jobs -> TaskState]
        BY <1>0 DEF _notify_dependents, TaskState
  <2>2. waiting' \in [Jobs -> SUBSET Jobs] /\ queue' \in SUBSET Jobs
        BY DEF _notify_dependents, SchedulerTypeOK, Notified, Freed
  <2>3. dependents' \in SUBSET (Jobs \X Jobs)
        BY DEF _notify_dependents, SchedulerTypeOK
  <2> QED BY <2>1, <2>2, <2>3 DEF SchedulerTypeOK, table
<1>2. ASSUME NEW d \in Jobs, Succeeded(d) PROVE state'[d] = "success" /\ waiting'[d] = {}
      BY <1>0, <1>2 DEF SuccessIsFinal, Succeeded, _notify_dependents, Notified
<1>3. ASSUME NEW d \in Jobs, state'[d] = "success"
      PROVE  Succeeded(d) \/ (d = j /\ success)
      BY <1>0, <1>3 DEF _notify_dependents, Succeeded
<1>4. success => state'[j] = "success"
      BY <1>0 DEF _notify_dependents
<1>5. Placed'
  <2> SUFFICES ASSUME NEW d \in known, state'[d] = "pending"
               PROVE  d \in queue' \/ waiting'[d] # {}
      BY DEF Placed, table
  <2>1. d \in Jobs /\ d # j /\ state[d] = "pending" /\ st[d] = "pending"
        BY <1>0 DEF SchedulerTypeOK, _notify_dependents, Terminal
  <2>2. d \in queue \/ waiting[d] # {}
        BY <2>1 DEF Placed
  <2>3. CASE d \in Notified(j) /\ success
        BY <1>0, <2>1, <2>2, <2>3 DEF _notify_dependents, Freed
  <2>4. CASE d \in Notified(j) /\ ~success
        BY <2>1, <2>4 DEF _notify_dependents
  <2>5. CASE d \notin Notified(j)
        BY <2>1, <2>2, <2>5 DEF _notify_dependents
  <2> QED BY <2>3, <2>4, <2>5
<1>6. QueuedIsFree'
  <2> SUFFICES ASSUME NEW i \in queue' \cup running'
               PROVE  waiting'[i] = {} /\ \A d \in depends[i] : state'[d] = "success"
      BY DEF QueuedIsFree, Succeeded, table
  <2>1. CASE i \in queue \cup running
    <3>1. i \in Jobs /\ depends[i] \subseteq Jobs
          BY <2>1 DEF SchedulerTypeOK
    <3>2. waiting[i] = {} /\ \A d \in depends[i] : Succeeded(d)
          BY <2>1 DEF QueuedIsFree
    <3> QED BY <1>2, <3>1, <3>2 DEF _notify_dependents, Notified
  <2>2. CASE i \notin queue \cup running
    <3>1. success /\ i \in Freed(j) /\ i \in Jobs
          BY <2>2 DEF _notify_dependents, Freed, Notified
    <3>2. waiting[i] = {j} /\ waiting'[i] = {} /\ depends[i] \subseteq Jobs
          BY <3>1 DEF Freed, _notify_dependents, SchedulerTypeOK
    <3>3. \A d \in depends[i] \ {j} : Succeeded(d)
          BY <3>1, <3>2 DEF WaitingIsHonest
    <3> QED BY <1>2, <1>4, <3>1, <3>2, <3>3
  <2> QED BY <2>1, <2>2
<1>7. WaitingIsHonest'
  <2> SUFFICES ASSUME NEW i \in Jobs, waiting'[i] # {}, NEW d \in depends[i] \ waiting'[i]
               PROVE  state'[d] = "success"
      BY DEF WaitingIsHonest, Succeeded, table
  <2>1. waiting[i] # {} /\ depends[i] \subseteq Jobs
        BY DEF _notify_dependents, SchedulerTypeOK
  <2>2. d \notin waiting[i] \/ (d = j /\ success)
        BY DEF _notify_dependents
  <2>3. CASE d \notin waiting[i]
        BY <1>2, <2>1, <2>3 DEF WaitingIsHonest
  <2> QED BY <1>4, <2>2, <2>3
<1>8. SuccessIsFinal'
  <2> SUFFICES ASSUME NEW i \in Jobs, state'[i] = "success"
               PROVE  i \notin queue' \cup running' /\ waiting'[i] = {}
      BY DEF SuccessIsFinal, Succeeded
  <2>1. CASE Succeeded(i)
    <3>1. i \notin queue \cup running /\ i # j
          BY <2>1 DEF SuccessIsFinal
    <3>2. st[i] # "pending"
          BY <1>0, <2>1, <3>1 DEF Succeeded
    <3> QED BY <1>2, <2>1, <3>1, <3>2 DEF _notify_dependents
  <2>2. CASE i = j /\ success
    <3>1. st[j] # "pending" /\ waiting'[j] = {}
          BY <1>0, <2>2 DEF _notify_dependents, Notified, Terminal
    <3> QED BY <2>2, <3>1 DEF _notify_dependents
  <2> QED BY <1>3, <2>1, <2>2
<1>9. LeavesOnce'
  <2>1. ASSUME NEW i \in queue', i \in running' PROVE FALSE
    <3>1. i \in running /\ i \in Jobs
          BY <2>1 DEF SchedulerTypeOK
    <3>2. waiting[i] = {} /\ i \notin queue
          BY <3>1 DEF QueuedIsFree, LeavesOnce
    <3> QED BY <2>1, <3>1, <3>2 DEF _notify_dependents, Freed, Notified
  <2> QED BY <2>1 DEF LeavesOnce
<1>10. FreshIsNowhere'
  <2> SUFFICES ASSUME NEW i \in Jobs, state'[i] = "none"
               PROVE  i \notin queue' \cup running' \cup known'
      BY DEF FreshIsNowhere
  <2>1. state[i] = "none" /\ st[i] = "none"
        BY <1>0 DEF _notify_dependents, Terminal
  <2>2. i \notin queue \cup running \cup known
        BY <2>1 DEF FreshIsNowhere
  <2> QED BY <2>1, <2>2 DEF _notify_dependents, table
<1>11. Registered'
  <2> SUFFICES ASSUME NEW d \in Jobs, NEW i \in waiting'[d] PROVE <<i, d>> \in dependents'
      BY DEF Registered
  <2>1. i \in waiting[d] /\ <<i, d>> \in dependents
        BY DEF _notify_dependents, Registered
  <2>2. i # j
        BY <2>1 DEF _notify_dependents, Notified
  <2> QED BY <2>1, <2>2 DEF _notify_dependents
<1>12. CleanedIsExpired'
  <2> SUFFICES ASSUME NEW d \in Jobs, state'[d] = "pending" PROVE d \in known \cup expired
      BY DEF CleanedIsExpired, table
  <2>1. state[d] = "pending"
        BY <1>0 DEF _notify_dependents, Terminal
  <2> QED BY <2>1 DEF CleanedIsExpired
<1> QED BY <1>1, <1>5, <1>6, <1>7, <1>8, <1>9, <1>10, <1>11, <1>12

\* Submission.
LEMMA SubmitStep ==
    ASSUME SchedulerInv, NEW j \in Jobs, NEW D \in SUBSET (1..(j - 1)), NEW t \in TimesOf[j],
           submit_job(j, D, t)
    PROVE  SchedulerInv'
<1> USE DEF SchedulerInv
<1>0. /\ D \subseteq Jobs /\ j \notin D /\ state[j] = "none" /\ t \in Nat
      /\ j \notin queue \cup running \cup known
      BY JobAssumption DEF submit_job, Jobs, FreshIsNowhere
<1>1. SchedulerTypeOK'
  <2>1. state' \in [Jobs -> TaskState] /\ depends' \in [Jobs -> SUBSET Jobs]
        /\ waiting' \in [Jobs -> SUBSET Jobs]
        BY <1>0 DEF submit_job, SchedulerTypeOK, TaskState
  <2>2. scheduledAt' \in [Jobs -> Nat]
        BY <1>0, QuotaAssumption DEF submit_job, SchedulerTypeOK
  <2>3. known' \in SUBSET Jobs /\ queue' \in SUBSET Jobs
        /\ dependents' \in SUBSET (Jobs \X Jobs)
        BY <1>0 DEF submit_job, SchedulerTypeOK
  <2> QED BY <2>1, <2>2, <2>3 DEF submit_job, SchedulerTypeOK
<1>2. /\ \A i \in Jobs \ {j} : /\ state'[i] = state[i] /\ waiting'[i] = waiting[i]
                               /\ depends'[i] = depends[i]
      /\ state'[j] = "pending" /\ waiting'[j] = D /\ depends'[j] = D
      BY DEF submit_job, SchedulerTypeOK
<1>3. \A d \in Jobs : Succeeded(d) => d # j /\ state'[d] = "success"
      BY <1>0, <1>2 DEF Succeeded
<1>4. queue' \subseteq queue \cup {j} /\ (D # {} => queue' = queue) /\ running' = running
      /\ known' = known \cup {j} /\ queue \subseteq queue' /\ (D = {} => j \in queue')
      BY DEF submit_job
<1>5. queue \subseteq Jobs /\ running \subseteq Jobs /\ known \subseteq Jobs
      /\ \A i \in Jobs : depends[i] \subseteq Jobs
      BY DEF SchedulerTypeOK
<1>6. Placed'
      BY <1>0, <1>2, <1>4, <1>5 DEF Placed
<1>7. QueuedIsFree'
      BY <1>0, <1>2, <1>3, <1>4, <1>5 DEF QueuedIsFree, Succeeded
<1>8. WaitingIsHonest'
      BY <1>2, <1>3, <1>5 DEF WaitingIsHonest, Succeeded
<1>9. SuccessIsFinal'
      BY <1>2, <1>3, <1>4 DEF SuccessIsFinal, Succeeded
<1>10. LeavesOnce' /\ FreshIsNowhere'
      BY <1>0, <1>2, <1>4 DEF LeavesOnce, FreshIsNowhere
<1>11. Registered'
  <2>1. \A i \in D : <<i, j>> \in dependents'
        BY DEF submit_job
  <2>2. dependents \subseteq dependents'
        BY DEF submit_job
  <2> QED BY <1>2, <2>1, <2>2 DEF Registered
<1>12. CleanedIsExpired'
      BY <1>2, <1>4 DEF CleanedIsExpired, submit_job
<1> QED BY <1>1, <1>6, <1>7, <1>8, <1>9, <1>10, <1>11, <1>12

\* A pass over the queue.
LEMMA ProcessStep ==
    ASSUME SchedulerInv, _process_queue
    PROVE  SchedulerInv'
<1> USE DEF SchedulerInv
<1>0. Leaving \subseteq queue /\ queue \subseteq Jobs /\ running \subseteq Jobs
      /\ known \subseteq Jobs /\ \A i \in Jobs : depends[i] \subseteq Jobs
      BY DEF Leaving, SchedulerTypeOK
<1>1. SchedulerTypeOK'
      BY <1>0 DEF _process_queue, SchedulerTypeOK, TaskState, table, graph
<1>2. /\ \A i \in Jobs \ Leaving : state'[i] = state[i]
      /\ \A i \in Leaving : state'[i] \in {"failure", "started"}
      BY <1>0 DEF _process_queue
<1>3. /\ queue' = queue \ Leaving /\ running' = running \cup (Leaving \ expired)
      /\ UNCHANGED <<depends, known, waiting>>
      BY DEF _process_queue, table, graph
<1>4. \A d \in Jobs : Succeeded(d) <=> state'[d] = "success"
      BY <1>0, <1>2 DEF SuccessIsFinal, Succeeded
<1>5. Placed'
      BY <1>0, <1>2, <1>3 DEF Placed
<1>6. QueuedIsFree'
      BY <1>0, <1>3, <1>4 DEF QueuedIsFree, Succeeded
<1>7. WaitingIsHonest'
      BY <1>0, <1>3, <1>4 DEF WaitingIsHonest, Succeeded
<1>8. SuccessIsFinal'
      BY <1>0, <1>3, <1>4 DEF SuccessIsFinal, Succeeded
<1>9. LeavesOnce' /\ FreshIsNowhere'
      BY <1>0, <1>2, <1>3 DEF LeavesOnce, FreshIsNowhere
<1>10. Registered' /\ CleanedIsExpired'
      BY <1>0, <1>2, <1>3 DEF Registered, CleanedIsExpired, _process_queue, graph
<1> QED BY <1>1, <1>5, <1>6, <1>7, <1>8, <1>9, <1>10

\* The invariant holds in every behaviour of the scheduler.
THEOREM SchedulerInvariant == Spec => []SchedulerInv
<1>1. SchedulerInv /\ [Next]_vars => SchedulerInv'
  <2> SUFFICES ASSUME SchedulerInv, [Next]_vars PROVE SchedulerInv'
      OBVIOUS
  <2>1. ASSUME NEW j \in Jobs, NEW D \in SUBSET (1..(j - 1)), NEW t \in TimesOf[j],
               submit_job(j, D, t)
        PROVE  SchedulerInv'
        BY <2>1, SubmitStep
  <2>2. ASSUME NEW j \in Jobs, cancel_job(j) PROVE SchedulerInv'
    <3>1. state[j] # "none" /\ ~Succeeded(j)
          BY <2>2 DEF cancel_job, SchedulerInv, FreshIsNowhere, Succeeded, Terminal
    <3> QED BY <2>2, <3>1, NotifyStep DEF cancel_job, Terminal
  <2>3. ASSUME NEW j \in running, NEW success \in BOOLEAN, _run_job(j, success)
        PROVE  SchedulerInv'
    <3>1. j \in Jobs /\ state[j] # "none" /\ ~Succeeded(j) /\ waiting[j] = {} /\ j \notin queue
          BY DEF SchedulerInv, SchedulerTypeOK, FreshIsNowhere, SuccessIsFinal,
                 QueuedIsFree, LeavesOnce
    <3>2. ResultState(success) \in Terminal /\ (success <=> ResultState(success) = "success")
          BY DEF ResultState, Terminal
    <3>3. running' \subseteq running /\ j \notin running'
          BY <2>3 DEF _run_job
    <3>4. _notify_dependents(j, success, [state EXCEPT ![j] = ResultState(success)])
          /\ UNCHANGED <<table, now, expired, quota, up>>
          BY <2>3 DEF _run_job
    <3> QED BY <3>1, <3>2, <3>3, <3>4, NotifyStep
  <2>4. ASSUME NEW j \in Jobs, JobExpires(j) PROVE SchedulerInv'
        BY <2>4, QuietStep DEF JobExpires, SchedulerInv, SchedulerTypeOK, table, graph
  <2>5. CASE _process_queue
        BY <2>5, ProcessStep
  <2>6. CASE cleanup_expired
    <3>1. known' \subseteq known /\ known \ known' \subseteq expired
          BY <2>6 DEF cleanup_expired
    <3> QED BY <2>6, <3>1, QuietStep
            DEF cleanup_expired, SchedulerInv, SchedulerTypeOK, graph
  <2>7. ASSUME NEW w \in Workspaces, NEW n \in QuotasOf[w], set_quota(w, n)
        PROVE  SchedulerInv'
    <3>1. quota' \in [Workspaces -> Nat]
          BY <2>7, QuotaAssumption DEF set_quota, SchedulerInv, SchedulerTypeOK
    <3> QED BY <2>7, <3>1, QuietStep DEF set_quota, SchedulerInv, SchedulerTypeOK, table, graph
  <2>8. CASE start \/ stop
    <3>1. up' \in BOOLEAN
          BY <2>8 DEF start, stop
    <3> QED BY <2>8, <3>1, QuietStep
            DEF start, stop, SchedulerInv, SchedulerTypeOK, table, graph
  <2>9. CASE Tick
    <3>1. now' \in 0..MaxTime
          BY <2>9, QuotaAssumption DEF Tick, SchedulerInv, SchedulerTypeOK
    <3> QED BY <2>9, <3>1, QuietStep DEF Tick, SchedulerInv, SchedulerTypeOK, table, graph
  <2>10. CASE UNCHANGED vars
         BY <2>10, QuietStep DEF vars, SchedulerInv, SchedulerTypeOK, table, graph
  <2> QED BY <2>1, <2>2, <2>3, <2>4, <2>5, <2>6, <2>7, <2>8, <2>9, <2>10 DEF Next
<1> QED BY <1>1, InitScheduler, PTL DEF Spec

\* A job runs only after everything it depends on succeeded.
THEOREM RunsAfterItsDependencies == Spec => []DependenciesFirst
<1>1. SchedulerInv => DependenciesFirst
      BY DEF SchedulerInv, QueuedIsFree, DependenciesFirst, Succeeded
<1> QED BY <1>1, SchedulerInvariant, PTL

\* A pending job is in the queue, or on the lists of all it waits for, or it
\* was cleaned up after its expiry.
THEOREM NoJobIsForgotten == Spec => []NoneForgotten
<1>1. SchedulerInv => NoneForgotten
      BY DEF SchedulerInv, Placed, Registered, CleanedIsExpired, NoneForgotten
<1> QED BY <1>1, SchedulerInvariant, PTL

-----------------------------------------------------------------------------
(* The quotas.  A pass starts many jobs; the one that left the heap last    *)
(* was held against all the others.                                         *)

\* A set of naturals that is not empty has a least element.
LEMMA LeastNat ==
    ASSUME NEW C, C \subseteq Nat, C # {}
    PROVE  \E n \in C : \A m \in C : n <= m
<1> DEFINE R == OpToRel(<, Nat)
<1>1. IsWellFoundedOn(R, Nat)
      BY NatLessThanWellFounded
<1>2. \A m, n \in Nat : <<m, n>> \in R <=> m < n
      BY DEF OpToRel
<1> HIDE DEF R
<1>3. PICK n \in C : \A m \in C : ~(<<m, n>> \in R)
      BY <1>1, WFMin
<1>4. ASSUME NEW m \in C PROVE n <= m
  <2>1. m \in Nat /\ n \in Nat
        OBVIOUS
  <2>2. ~(m < n)
        BY <1>2, <1>3, <2>1, Zenon
  <2> QED BY <2>1, <2>2
<1> QED BY <1>4

\* The heap's order is a strict total order on the jobs.
LEMMA HeapOrder ==
    ASSUME SchedulerTypeOK
    PROVE  /\ \A i \in Jobs : ~Before(i, i)
           /\ \A i, j \in Jobs : i = j \/ Before(i, j) \/ Before(j, i)
           /\ \A i, j, k \in Jobs : Before(i, j) /\ Before(j, k) => Before(i, k)
<1>1. \A i \in Jobs : PriorityOf[i] \in Nat /\ scheduledAt[i] \in Nat /\ i \in Nat
      BY JobAssumption DEF Jobs, SchedulerTypeOK
<1>2. \A i \in Jobs : ~Before(i, i)
      BY <1>1 DEF Before
<1>3. \A i, j \in Jobs : i = j \/ Before(i, j) \/ Before(j, i)
      BY <1>1 DEF Before
<1>4. \A i, j, k \in Jobs : Before(i, j) /\ Before(j, k) => Before(i, k)
      BY <1>1 DEF Before
<1> QED BY <1>2, <1>3, <1>4

\* Sets of jobs are finite.
LEMMA FiniteJobs ==
    ASSUME NEW S \in SUBSET Jobs
    PROVE  IsFiniteSet(S) /\ Cardinality(S) \in Nat
<1>1. IsFiniteSet(Jobs)
      BY JobAssumption, FS_Interval DEF Jobs
<1>2. IsFiniteSet(S)
      BY <1>1, FS_Subset
<1> QED BY <1>2, FS_CardinalityType

Behind(i, S) == {k \in S : Before(i, k)}

\* Some job of S is behind all the others: one with the fewest behind it.
LEMMA LastOf ==
    ASSUME SchedulerTypeOK, NEW S \in SUBSET Jobs, S # {}
    PROVE  \E j \in S : \A i \in S : i = j \/ Before(i, j)
<1> DEFINE C == {Cardinality(Behind(i, S)) : i \in S}
<1>1. \A i \in S : /\ IsFiniteSet(Behind(i, S)) /\ Cardinality(Behind(i, S)) \in Nat
                   /\ Behind(i, S) \in SUBSET Jobs
  <2> SUFFICES ASSUME NEW i \in S
               PROVE  /\ IsFiniteSet(Behind(i, S)) /\ Cardinality(Behind(i, S)) \in Nat
                      /\ Behind(i, S) \in SUBSET Jobs
      OBVIOUS
  <2>1. Behind(i, S) \in SUBSET Jobs
        BY DEF Behind
  <2> QED BY <2>1, FiniteJobs
<1>2. PICK n \in C : \A m \in C : n <= m
  <2>1. C \subseteq Nat /\ C # {}
        BY <1>1
  <2> HIDE DEF C
  <2> QED BY <2>1, LeastNat
<1>3. PICK j \in S : Cardinality(Behind(j, S)) = n
      OBVIOUS
<1>4. ASSUME NEW i \in S, Before(j, i) PROVE FALSE
  <2>1. Behind(i, S) \subseteq Behind(j, S)
        BY <1>4, HeapOrder DEF Behind
  <2>2. i \in Behind(j, S) /\ i \notin Behind(i, S)
        BY <1>4, HeapOrder DEF Behind
  <2>3. Cardinality(Behind(i, S)) <= Cardinality(Behind(j, S) \ {i})
    <3>1. Behind(i, S) \in SUBSET (Behind(j, S) \ {i}) /\ IsFiniteSet(Behind(j, S) \ {i})
          BY <1>1, <2>1, <2>2, FS_Subset
    <3> QED BY <3>1, FS_Subset
  <2>4. Cardinality(Behind(j, S) \ {i}) = Cardinality(Behind(j, S)) - 1
        BY <1>1, <2>2, FS_RemoveElement
  <2>5. n <= Cardinality(Behind(i, S))
        BY <1>2
  <2> QED BY <1>1, <1>3, <2>3, <2>4, <2>5
<1>5. ASSUME NEW i \in S PROVE i = j \/ Before(i, j)
      BY <1>4, HeapOrder
<1> QED BY <1>5

\* What MayLeave counted for the last job of S covers S without it.
LEMMA CountedAll ==
    ASSUME NEW All \in SUBSET Jobs, NEW Seen \in SUBSET Jobs, NEW j \in Jobs,
           All \subseteq Seen \cup {j}, NEW limit \in Nat, Cardinality(Seen) < limit
    PROVE  Cardinality(All) <= limit
<1>1. IsFiniteSet(Seen) /\ Cardinality(Seen) \in Nat /\ Cardinality(All) \in Nat
      BY FiniteJobs
<1>2. IsFiniteSet(Seen \cup {j}) /\ Cardinality(Seen \cup {j}) \in Nat
      BY FiniteJobs
<1>3. Cardinality(Seen \cup {j}) <= Cardinality(Seen) + 1
  <2>1. CASE j \in Seen
    <3>1. Seen \cup {j} = Seen
          BY <2>1
    <3> QED BY <1>1, <3>1
  <2>2. CASE j \notin Seen
    <3>1. Cardinality(Seen \cup {j}) = Cardinality(Seen) + 1
          BY <1>1, <2>2, FS_AddElement
    <3> QED BY <1>1, <3>1
  <2> QED BY <2>1, <2>2
<1>4. Cardinality(All) <= Cardinality(Seen \cup {j})
      BY <1>2, FS_Subset
<1> QED BY <1>1, <1>2, <1>3, <1>4

\* A pass over the queue stays within the quotas.
LEMMA QuotaStep ==
    ASSUME SchedulerTypeOK, _process_queue
    PROVE  /\ running' \ running # {} => Cardinality(running') <= MaxGlobal
           /\ \A w \in Workspaces :
                 In(w, running' \ running) # {} => Cardinality(In(w, running')) <= quota[w]
<1> DEFINE Started == Leaving \ expired
           Busy(j) == running \cup (Ahead(j) \ expired)
<1>1. /\ running' = running \cup Started /\ Started \in SUBSET Jobs /\ Started \subseteq queue
      /\ running \in SUBSET Jobs /\ queue \in SUBSET Jobs
      BY DEF _process_queue, Leaving, SchedulerTypeOK
<1>2. ASSUME NEW j \in Started
      PROVE  /\ Cardinality(Busy(j)) < MaxGlobal
             /\ Cardinality(In(WorkspaceOf[j], Busy(j))) < quota[WorkspaceOf[j]]
             /\ Busy(j) \in SUBSET Jobs
  <2>1. MayLeave(j) /\ j \notin expired
        BY DEF Leaving
  <2>2. Busy(j) \in SUBSET Jobs
        BY <1>1 DEF Ahead
  <2> QED BY <2>1, <2>2 DEF MayLeave
<1>3. ASSUME NEW S \in SUBSET Started, NEW j \in S, \A i \in S : i = j \/ Before(i, j)
      PROVE  running \cup S \subseteq Busy(j) \cup {j}
  <2>1. ASSUME NEW i \in S, i # j PROVE i \in Busy(j)
        BY <1>1, <1>3, <2>1 DEF Ahead
  <2> QED BY <2>1
<1> HIDE DEF Started, Busy
<1>4. ASSUME running' \ running # {} PROVE Cardinality(running') <= MaxGlobal
  <2>1. Started # {}
        BY <1>1, <1>4
  <2>2. PICK j \in Started : \A i \in Started : i = j \/ Before(i, j)
        BY <1>1, <2>1, LastOf
  <2>3. running' \subseteq Busy(j) \cup {j} /\ running' \in SUBSET Jobs /\ j \in Jobs
        BY <1>1, <1>3, <2>2
  <2>4. Cardinality(Busy(j)) < MaxGlobal /\ Busy(j) \in SUBSET Jobs
        BY <1>2
  <2> QED BY <2>3, <2>4, CountedAll, QuotaAssumption
<1>5. ASSUME NEW w \in Workspaces, In(w, running' \ running) # {}
      PROVE  Cardinality(In(w, running')) <= quota[w]
  <2>1. In(w, Started) # {} /\ In(w, Started) \in SUBSET Started
        /\ In(w, Started) \in SUBSET Jobs
        BY <1>1, <1>5 DEF In
  <2>2. PICK j \in In(w, Started) : \A i \in In(w, Started) : i = j \/ Before(i, j)
        BY <2>1, LastOf
  <2>3. j \in Started /\ WorkspaceOf[j] = w /\ j \in Jobs
        BY <2>1 DEF In
  <2>4. running \cup In(w, Started) \subseteq Busy(j) \cup {j}
        BY <1>3, <2>1, <2>2
  <2>5. In(w, running') \subseteq In(w, Busy(j)) \cup {j}
        BY <1>1, <2>4 DEF In
  <2>6. Cardinality(In(w, Busy(j))) < quota[w] /\ Busy(j) \in SUBSET Jobs
        BY <1>2, <2>3
  <2>7. In(w, running') \in SUBSET Jobs /\ In(w, Busy(j)) \in SUBSET Jobs
        BY <1>1, <2>6 DEF In
  <2>8. quota[w] \in Nat
        BY DEF SchedulerTypeOK
  <2> QED BY <2>3, <2>5, <2>6, <2>7, <2>8, CountedAll
<1> QED BY <1>4, <1>5

\* _process_queue never starts a job beyond max_concurrent_jobs of its
\* workspace or max_concurrent_global, however many it starts in one pass.
THEOREM PassKeepsQuotas == Spec => StartsWithinQuota
<1> DEFINE Within == /\ running' \ running # {} => Cardinality(running') <= MaxGlobal
                     /\ \A w \in Workspaces :
                           In(w, running' \ running) # {}
                               => Cardinality(In(w, running')) <= quota[w]
<1>1. SchedulerInv /\ [Next]_vars => Within
  <2> SUFFICES ASSUME SchedulerInv, [Next]_vars PROVE Within
      OBVIOUS
  <2>1. CASE _process_queue
        BY <2>1, QuotaStep DEF SchedulerInv
  <2>2. CASE ~_process_queue
    <3>1. running' \subseteq running
          BY <2>2 DEF Next, vars, submit_job, cancel_job, JobExpires, _run_job, cleanup_expired,
                      set_quota, start, stop, Tick
    <3>2. running' \ running = {}
          BY <3>1
    <3> QED BY <3>2 DEF In
  <2> QED BY <2>1, <2>2
<1>2. SchedulerInv /\ [Next]_vars => [Within]_vars
      BY <1>1
<1> HIDE DEF Within
<1>3. Spec => [][Within]_vars
      BY <1>2, SchedulerInvariant, PTL DEF Spec
<1> QED BY <1>3 DEF StartsWithinQuota, Within

=============================================================================
