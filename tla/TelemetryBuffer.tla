-------------------------- MODULE TelemetryBuffer --------------------------
(***************************************************************************)
(* The daemon's telemetry buffer (daemon/telemetry_buffer.py): events are  *)
(* kept in memory, written to SQLite in batches and uploaded, oldest       *)
(* first, by the heartbeat loop (agentd.py).  An upload that is not        *)
(* accepted counts against every event of its batch; an event that failed  *)
(* too often is not tried again.                                           *)
(*                                                                         *)
(* stop() waits five seconds for the heartbeat thread and start() makes a  *)
(* new one, so two threads may upload at once: the lock covers the memory  *)
(* and not the upload.  Reading the rows, the upload and the update that   *)
(* follows it are three steps; the process may die between any two.        *)
(***************************************************************************)
EXTENDS Naturals, FiniteSets

CONSTANTS
    MaxEvents,    \* bound: events, numbered in the order they are added
    BatchSize,    \* batch_size
    MaxRetries,   \* max_retries
    Flushers,     \* threads that upload
    MaxFaults     \* bound: crashes and failed writes

ASSUME TelemetryAssumption ==
    /\ MaxEvents \in Nat /\ BatchSize \in Nat \ {0} /\ MaxRetries \in Nat \ {0}
    /\ IsFiniteSet(Flushers) /\ MaxFaults \in Nat

Events == 1..MaxEvents

VARIABLES
    added,      \* how many events were added
    memory,     \* _memory_buffer
    row,        \* an event's row in telemetry_events
    retries,    \* its retry_count
    old,        \* the last event older than max_age_days
    batch,      \* rows a thread has read and is uploading, {} between flushes
    answer,     \* what send_fn returned
    received,   \* events the Cloud has received
    tries,      \* history: uploads an event was part of
    gone,       \* history: events lost with the memory or a failed write
    faults

table == <<row, retries>>
upload == <<batch, answer>>
vars == <<added, memory, table, old, upload, received, tries, gone, faults>>

\* Uploads of one event: each failure is counted once, and a crash forgets
\* the failures of the uploads under way.
MaxTries == MaxRetries - 1 + Cardinality(Flushers) * (1 + MaxFaults)

\* Fields keep their type, and a thread has an answer only for a batch.
TelemetryTypeOK ==
    /\ added \in 0..MaxEvents
    /\ memory \subseteq 1..added
    /\ row \in [Events -> {"none", "pending", "sent", "deleted"}]
    /\ retries \in [Events -> Nat]
    /\ old \in 0..added
    /\ batch \in [Flushers -> SUBSET (1..added)]
    /\ answer \in [Flushers -> {"none", "accepted", "failed"}]
    /\ \A f \in Flushers : batch[f] = {} => answer[f] = "none"
    /\ received \subseteq 1..added
    /\ tries \in [Events -> 0..MaxTries + 1]
    /\ gone \subseteq 1..added
    /\ faults \in 0..MaxFaults

Init ==
    /\ added = 0
    /\ memory = {}
    /\ row = [e \in Events |-> "none"]
    /\ retries = [e \in Events |-> 0]
    /\ old = 0
    /\ batch = [f \in Flushers |-> {}]
    /\ answer = [f \in Flushers |-> "none"]
    /\ received = {}
    /\ tries = [e \in Events |-> 0]
    /\ gone = {}
    /\ faults = 0

-----------------------------------------------------------------------------
(* Adding and persisting.                                                   *)

\* The rows once those of M are inserted, or the write rolled back.
Inserted(r, M) == [e \in Events |-> IF e \in M THEN "pending" ELSE r[e]]

\* _persist_batch on memory M: the memory is cleared before the write, and a
\* write that fails loses what was in it.  r are the rows before.
_persist_batch(M, r) ==
    /\ memory' = {}
    /\ \/ /\ row' = Inserted(r, M)
          /\ UNCHANGED <<gone, faults>>
       \/ /\ faults < MaxFaults
          /\ M # {}
          /\ row' = r
          /\ gone' = gone \cup M
          /\ faults' = faults + 1

\* Mutant: the batch is written one event late.
IsFullLate(M) == Cardinality(M) > BatchSize

IsFull(M) == Cardinality(M) >= BatchSize

\* One more event; r are the rows before.
AddEvent(r) ==
    /\ added < MaxEvents
    /\ added' = added + 1
    /\ LET M == memory \cup {added + 1}
       IN IF IsFull(M)
          THEN _persist_batch(M, r)
          ELSE memory' = M /\ row' = r /\ UNCHANGED <<gone, faults>>

add == AddEvent(row) /\ UNCHANGED <<retries, old, upload, received, tries>>

\* flush() without a send function, close() and get_pending_count().
persist == /\ memory # {}
           /\ _persist_batch(memory, row)
           /\ UNCHANGED <<added, retries, old, upload, received, tries>>

-----------------------------------------------------------------------------
(* Uploading.                                                               *)

Unsent(r) == {e \in Events : r[e] = "pending" /\ retries[e] < MaxRetries}

\* The first rows of R, by time.
Oldest(R) == {e \in R : Cardinality({d \in R : d < e}) < BatchSize}

\* flush(): what is in memory is written and the rows are read; or the write
\* fails, and the daemon logs that as one more event.
flush(f) ==
    /\ batch[f] = {}
    /\ \/ /\ row' = Inserted(row, memory)
          /\ memory' = {}
          /\ batch' = [batch EXCEPT ![f] = Oldest(Unsent(row'))]
          /\ UNCHANGED <<added, gone, faults>>
       \/ /\ faults < MaxFaults
          /\ memory # {}
          /\ memory' = {added + 1} \cap Events
          /\ added' = added + Cardinality(memory')
          /\ gone' = gone \cup memory
          /\ faults' = faults + 1
          /\ UNCHANGED <<row, batch>>
    /\ UNCHANGED <<retries, old, answer, received, tries>>

\* The request or its answer may be lost: send_telemetry() returns False.
send_fn(f, arrives, answered) ==
    /\ batch[f] # {} /\ answer[f] = "none"
    /\ answered => arrives
    /\ received' = IF arrives THEN received \cup batch[f] ELSE received
    /\ answer' = [answer EXCEPT ![f] = IF answered THEN "accepted" ELSE "failed"]
    /\ tries' = [e \in Events |-> IF e \in batch[f] /\ tries[e] <= MaxTries
                                  THEN tries[e] + 1 ELSE tries[e]]
    /\ UNCHANGED <<added, memory, table, old, batch, gone, faults>>

FlushEnds(f) == /\ batch' = [batch EXCEPT ![f] = {}]
                /\ answer' = [answer EXCEPT ![f] = "none"]

\* Mutant: every unsent row is marked, the ones written meanwhile too.
MarkSentAll(B) == [e \in Events |-> IF row[e] = "pending" THEN "sent" ELSE row[e]]

MarkSent(B) == [e \in Events |-> IF e \in B /\ row[e] = "pending" THEN "sent" ELSE row[e]]

\* The batch was accepted; the daemon logs the flush as one more event.
mark_sent(f) ==
    /\ answer[f] = "accepted"
    /\ FlushEnds(f)
    /\ \/ AddEvent(MarkSent(batch[f]))
       \/ /\ added = MaxEvents
          /\ row' = MarkSent(batch[f])
          /\ UNCHANGED <<added, memory, gone, faults>>
    /\ UNCHANGED <<retries, old, received, tries>>

\* Mutant: the count is written from the value read, and the failure another
\* upload of the same event counted meanwhile is overwritten.
CountedOnce(f, e) ==
    IF \E g \in Flushers : g # f /\ e \in batch[g] THEN retries[e] ELSE retries[e] + 1

\* Mutant: failures are not counted.
CountedNever(f, e) == retries[e]

\* retry_count + 1, computed by the database.
Counted(f, e) == retries[e] + 1

retry(f) ==
    /\ answer[f] = "failed"
    /\ FlushEnds(f)
    /\ retries' = [e \in Events |-> IF e \in batch[f] /\ row[e] # "deleted"
                                    THEN Counted(f, e) ELSE retries[e]]
    /\ UNCHANGED <<added, memory, row, old, received, tries, gone, faults>>

-----------------------------------------------------------------------------
(* Age, cleanup and crashes.                                                *)

Ages == /\ old < added
        /\ old' = old + 1
        /\ UNCHANGED <<added, memory, table, upload, received, tries, gone, faults>>

ExpiredRows == {e \in 1..old : row[e] = "sent"}

cleanup_old_events ==
    /\ ExpiredRows # {}
    /\ row' = [e \in Events |-> IF e \in ExpiredRows THEN "deleted" ELSE row[e]]
    /\ UNCHANGED <<added, memory, retries, old, upload, received, tries, gone, faults>>

\* The process dies and is started again.
Crash ==
    /\ faults < MaxFaults
    /\ faults' = faults + 1
    /\ memory' = {}
    /\ gone' = gone \cup memory
    /\ batch' = [f \in Flushers |-> {}]
    /\ answer' = [f \in Flushers |-> "none"]
    /\ UNCHANGED <<added, table, old, received, tries>>

Next ==
    \/ add \/ persist
    \/ \E f \in Flushers :
          \/ flush(f)
          \/ \E arrives, answered \in BOOLEAN : send_fn(f, arrives, answered)
          \/ mark_sent(f) \/ retry(f)
    \/ Ages \/ cleanup_old_events \/ Crash

Spec == Init /\ [][Next]_vars

\* A flush that has begun ends: send_telemetry() answers or times out, and the
\* update follows.  That there is a next flush is not assumed.
FairSpec ==
    /\ Spec
    /\ \A f \in Flushers :
          /\ WF_vars(\E arrives, answered \in BOOLEAN : send_fn(f, arrives, answered))
          /\ WF_vars(mark_sent(f)) /\ WF_vars(retry(f))

-----------------------------------------------------------------------------
(* Properties.                                                              *)

\* No event vanishes: one that is neither in memory nor waiting in the table
\* has reached the Cloud, unless the memory or the write that held it failed.
\* Uploads that race, crashes and the removal of old rows lose nothing.
NothingVanishes ==
    \A e \in 1..added : \/ e \in memory \cup received \cup gone
                        \/ row[e] = "pending"

\* A fault costs at most one batch of events.
LossIsBounded == Cardinality(gone) <= BatchSize * faults

\* An event is not uploaded for ever: the failures two threads meet at once
\* are all counted, and a crash forgets only those of the uploads under way.
AttemptsBounded ==
    \A e \in Events : tries[e] <= MaxRetries - 1 + Cardinality(Flushers) * (1 + faults)

\* A thread's heartbeats keep reaching the flush.  The code does not see to
\* that: a heartbeat(), poll_commands() or command that raises skips the flush,
\* each time, and after stop() there are no heartbeats.
HeartbeatsPass == \E f \in Flushers : WF_vars(flush(f))

\* As long as heartbeats reach the flush the backlog is worked off: whatever
\* fails ahead of it, and whatever the other threads do, an event in the table
\* is uploaded in the end, or has failed as often as it may.
BacklogClears == HeartbeatsPass => []<>(Unsent(row) = {})

=============================================================================
