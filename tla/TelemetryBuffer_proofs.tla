----------------------- MODULE TelemetryBuffer_proofs -----------------------
(***************************************************************************)
(* No telemetry event vanishes, a fault costs at most one batch, and the   *)
(* uploads of an event are bounded: for any number of events, threads that *)
(* upload, retries, crashes and failed writes.                             *)
(***************************************************************************)
EXTENDS TelemetryBuffer, FiniteSetTheorems, TLAPS

RowState == {"none", "pending", "sent", "deleted"}

\* An upload that was accepted has reached the Cloud.
AcceptedArrived == \A f \in Flushers : answer[f] = "accepted" => batch[f] \subseteq received

\* The memory is written before it holds a whole batch.
MemoryIsShort == Cardinality(memory) < BatchSize

\* Rows are those of events that were added.
RowsWereAdded == \A e \in Events : row[e] # "none" => e \in 1..added

TelemetryInv == /\ TelemetryTypeOK /\ NothingVanishes /\ RowsWereAdded
                /\ AcceptedArrived /\ MemoryIsShort /\ LossIsBounded

\* The part of the invariant about uploads.
UploadsOK == /\ batch \in [Flushers -> SUBSET (1..added)]
             /\ answer \in [Flushers -> {"none", "accepted", "failed"}]
             /\ \A f \in Flushers : batch[f] = {} => answer[f] = "none"
             /\ AcceptedArrived

\* Sets of events are finite.
LEMMA FiniteEvents ==
    ASSUME NEW n \in Nat, NEW S \in SUBSET (1..n)
    PROVE  IsFiniteSet(S) /\ Cardinality(S) \in Nat
<1>1. IsFiniteSet(1..n)
      BY FS_Interval
<1>2. IsFiniteSet(S)
      BY <1>1, FS_Subset
<1> QED BY <1>2, FS_CardinalityType

\* The bound of the history counter is a number.
LEMMA MaxTriesType == MaxTries \in Nat
<1>1. Cardinality(Flushers) \in Nat
      BY TelemetryAssumption, FS_CardinalityType
<1>2. Cardinality(Flushers) * (1 + MaxFaults) \in Nat
      BY <1>1, TelemetryAssumption
<1>3. MaxRetries - 1 \in Nat
      BY TelemetryAssumption
<1> QED BY <1>2, <1>3 DEF MaxTries

\* One more fault that loses at most a batch.
LEMMA LossStep ==
    ASSUME NEW n \in Nat, NEW G \in SUBSET (1..n), NEW M \in SUBSET (1..n), NEW k \in Nat,
           Cardinality(M) <= BatchSize, Cardinality(G) <= BatchSize * k
    PROVE  Cardinality(G \cup M) <= BatchSize * (k + 1)
<1>1. /\ IsFiniteSet(G) /\ Cardinality(G) \in Nat /\ IsFiniteSet(M) /\ Cardinality(M) \in Nat
      /\ IsFiniteSet(G \cap M) /\ Cardinality(G \cap M) \in Nat
      BY FiniteEvents
<1>2. Cardinality(G \cup M) = Cardinality(G) + Cardinality(M) - Cardinality(G \cap M)
      BY <1>1, FS_Union
<1>3. Cardinality(G \cup M) <= BatchSize * k + BatchSize
      BY <1>1, <1>2, TelemetryAssumption
<1>4. BatchSize * (k + 1) = BatchSize * k + BatchSize
      BY TelemetryAssumption
<1> QED BY <1>3, <1>4

\* Writing the memory M: the events in it become rows, or are lost with a fault.
LEMMA PersistEffect ==
    ASSUME TelemetryInv, NEW n \in 0..MaxEvents, n >= added, NEW M \in SUBSET (1..n),
           Cardinality(M) <= BatchSize, NEW r \in [Events -> RowState], _persist_batch(M, r)
    PROVE  /\ memory' = {} /\ row' \in [Events -> RowState]
           /\ gone' \in SUBSET (1..n) /\ faults' \in 0..MaxFaults
           /\ gone \subseteq gone' /\ LossIsBounded'
           /\ \A e \in M : row'[e] = "pending" \/ e \in gone'
           /\ \A e \in Events \ M : row'[e] = r[e]
<1>0. /\ n \in Nat /\ M \subseteq Events /\ gone \in SUBSET (1..n) /\ faults \in Nat
      BY TelemetryAssumption DEF TelemetryInv, TelemetryTypeOK, Events
<1>1. CASE row' = Inserted(r, M) /\ UNCHANGED <<gone, faults>>
  <2>1. row' \in [Events -> RowState]
        BY <1>1 DEF Inserted, RowState
  <2>2. /\ \A e \in M : row'[e] = "pending"
        /\ \A e \in Events \ M : row'[e] = r[e]
        BY <1>0, <1>1 DEF Inserted
  <2>3. LossIsBounded'
        BY <1>1 DEF TelemetryInv, LossIsBounded
  <2> QED BY <1>0, <1>1, <2>1, <2>2, <2>3 DEF _persist_batch, TelemetryInv, TelemetryTypeOK
<1>2. CASE row' = r /\ gone' = gone \cup M /\ faults' = faults + 1 /\ faults < MaxFaults
  <2>1. LossIsBounded'
        BY <1>0, <1>2, LossStep DEF TelemetryInv, LossIsBounded
  <2>2. faults' \in 0..MaxFaults
        BY <1>0, <1>2, TelemetryAssumption
  <2> QED BY <1>0, <1>2, <2>1, <2>2 DEF _persist_batch
<1> QED BY <1>1, <1>2 DEF _persist_batch

\* What a step that adds an event, or writes the memory, leaves behind.
Stored == /\ added' \in 0..MaxEvents /\ added <= added'
          /\ memory' \in SUBSET (1..added') /\ row' \in [Events -> RowState]
          /\ gone' \in SUBSET (1..added') /\ faults' \in 0..MaxFaults
          /\ MemoryIsShort' /\ LossIsBounded' /\ RowsWereAdded'
          /\ \A e \in 1..added' : e \in memory' \cup received \cup gone' \/ row'[e] = "pending"

\* One more event, on rows r that hold what is nowhere else.
LEMMA AddEffect ==
    ASSUME TelemetryInv, NEW r \in [Events -> RowState], AddEvent(r),
           \A e \in 1..added : e \in memory \cup received \cup gone \/ r[e] = "pending",
           \A e \in Events : r[e] # "none" => e \in 1..added
    PROVE  Stored
<1> DEFINE M == memory \cup {added + 1}
<1>0. /\ added \in Nat /\ added' = added + 1 /\ added' \in 0..MaxEvents /\ added' >= added
      /\ M \in SUBSET (1..added') /\ memory \in SUBSET (1..added)
      /\ 1..added' = (1..added) \cup {added + 1} /\ 1..added' \subseteq Events
  <2>1. added \in Nat /\ added' = added + 1 /\ added < MaxEvents /\ MaxEvents \in Nat
        BY TelemetryAssumption DEF AddEvent, TelemetryInv, TelemetryTypeOK
  <2>2. memory \in SUBSET (1..added)
        BY DEF TelemetryInv, TelemetryTypeOK
  <2>3. 1..added' = (1..added) \cup {added + 1} /\ 1..added' \subseteq Events
        BY <2>1 DEF Events
  <2> QED BY <2>1, <2>2, <2>3
<1>1. Cardinality(M) \in Nat /\ Cardinality(M) <= BatchSize
  <2>1. IsFiniteSet(memory) /\ Cardinality(memory) \in Nat
        BY <1>0, FiniteEvents
  <2>2. Cardinality(M) = Cardinality(memory) + 1
    <3>1. added + 1 \notin memory
          BY <1>0
    <3> QED BY <2>1, <3>1, FS_AddElement
  <2> QED BY <2>1, <2>2, TelemetryAssumption DEF TelemetryInv, MemoryIsShort
<1>2. CASE IsFull(M)
  <2>1. _persist_batch(M, r)
        BY <1>2 DEF AddEvent
  <2>2. /\ memory' = {} /\ row' \in [Events -> RowState]
        /\ gone' \in SUBSET (1..added') /\ faults' \in 0..MaxFaults
        /\ gone \subseteq gone' /\ LossIsBounded'
        /\ \A e \in M : row'[e] = "pending" \/ e \in gone'
        /\ \A e \in Events \ M : row'[e] = r[e]
        BY <1>0, <1>1, <2>1, PersistEffect
  <2>3. MemoryIsShort'
        BY <2>2, FS_EmptySet, TelemetryAssumption DEF MemoryIsShort
  <2> HIDE DEF M
  <2>4. ASSUME NEW e \in 1..added'
        PROVE  e \in memory' \cup received \cup gone' \/ row'[e] = "pending"
    <3>1. CASE e \in M
          BY <2>2, <3>1
    <3>2. CASE e \notin M
      <4>1. e \in 1..added /\ e \notin memory /\ e \in Events
            BY <1>0, <3>2 DEF M
      <4> QED BY <2>2, <3>2, <4>1
    <3> QED BY <3>1, <3>2
  <2>5. RowsWereAdded'
    <3>1. M \subseteq 1..added'
          BY <1>0
    <3> QED BY <1>0, <2>2, <3>1 DEF RowsWereAdded
  <2> QED BY <1>0, <2>2, <2>3, <2>4, <2>5 DEF Stored
<1>3. CASE ~IsFull(M)
  <2>1. memory' = M /\ row' = r /\ UNCHANGED <<gone, faults>>
        BY <1>3 DEF AddEvent
  <2>2. MemoryIsShort' /\ LossIsBounded'
        BY <1>1, <1>3, <2>1, TelemetryAssumption
        DEF IsFull, MemoryIsShort, LossIsBounded, TelemetryInv
  <2>3. gone' \in SUBSET (1..added') /\ faults' \in 0..MaxFaults
        BY <1>0, <2>1 DEF TelemetryInv, TelemetryTypeOK
  <2>4. ASSUME NEW e \in 1..added'
        PROVE  e \in memory' \cup received \cup gone' \/ row'[e] = "pending"
        BY <1>0, <2>1
  <2>5. RowsWereAdded'
        BY <1>0, <2>1 DEF RowsWereAdded
  <2> QED BY <1>0, <2>1, <2>2, <2>3, <2>4, <2>5 DEF Stored
<1> QED BY <1>2, <1>3

\* Such a step keeps the invariant when no upload is touched, or one ends.
LEMMA StoredStep ==
    ASSUME TelemetryInv, Stored, UNCHANGED <<retries, old, received, tries>>,
           UNCHANGED upload \/ \E f \in Flushers : FlushEnds(f)
    PROVE  TelemetryInv'
<1> USE DEF TelemetryInv
<1>1. UploadsOK'
  <2>0. 1..added \subseteq 1..added'
        BY DEF Stored, TelemetryTypeOK
  <2>1. CASE UNCHANGED upload
        BY <2>0, <2>1 DEF upload, UploadsOK, TelemetryTypeOK, AcceptedArrived
  <2>2. ASSUME NEW f \in Flushers, FlushEnds(f) PROVE UploadsOK'
        BY <2>0, <2>2 DEF FlushEnds, UploadsOK, TelemetryTypeOK, AcceptedArrived
  <2> QED BY <2>1, <2>2
<1>2. old' \in 0..added' /\ received' \in SUBSET (1..added')
      BY TelemetryAssumption DEF Stored, TelemetryTypeOK
<1>3. TelemetryTypeOK'
      BY <1>1, <1>2 DEF Stored, UploadsOK, TelemetryTypeOK, RowState
<1>4. NothingVanishes'
      BY DEF Stored, NothingVanishes
<1> QED BY <1>1, <1>3, <1>4 DEF Stored, UploadsOK

\* The invariant holds in every behaviour of the buffer.
THEOREM TelemetryInvariant == Spec => []TelemetryInv
<1>1. Init => TelemetryInv
  <2> SUFFICES ASSUME Init PROVE TelemetryInv
      OBVIOUS
  <2>1. TelemetryTypeOK
        BY TelemetryAssumption, MaxTriesType DEF Init, TelemetryTypeOK
  <2>2. MemoryIsShort /\ LossIsBounded
        BY TelemetryAssumption, FS_EmptySet DEF Init, MemoryIsShort, LossIsBounded
  <2>3. NothingVanishes /\ AcceptedArrived /\ RowsWereAdded
        BY DEF Init, NothingVanishes, AcceptedArrived, RowsWereAdded
  <2> QED BY <2>1, <2>2, <2>3 DEF TelemetryInv
<1>2. TelemetryInv /\ [Next]_vars => TelemetryInv'
  <2> SUFFICES ASSUME TelemetryInv, [Next]_vars PROVE TelemetryInv'
      OBVIOUS
  <2> USE DEF TelemetryInv
  <2>0. /\ row \in [Events -> RowState] /\ added \in Nat /\ 1..added \subseteq Events
        /\ gone \in SUBSET (1..added) /\ memory \in SUBSET (1..added)
        /\ faults \in Nat /\ added \in 0..MaxEvents
        /\ Cardinality(memory) \in Nat /\ Cardinality(memory) <= BatchSize
    <3>1. added \in Nat /\ memory \in SUBSET (1..added)
          BY TelemetryAssumption DEF TelemetryTypeOK
    <3>2. Cardinality(memory) \in Nat
          BY <3>1, FiniteEvents
    <3> QED BY <3>1, <3>2, TelemetryAssumption
            DEF TelemetryTypeOK, RowState, Events, MemoryIsShort
  <2>1. CASE add
    <3>1. Stored
          BY <2>0, <2>1, AddEffect DEF add, NothingVanishes, RowsWereAdded
    <3> QED BY <2>1, <3>1, StoredStep DEF add
  <2>2. CASE persist
    <3>1. /\ memory' = {} /\ row' \in [Events -> RowState]
          /\ gone' \in SUBSET (1..added) /\ faults' \in 0..MaxFaults
          /\ gone \subseteq gone' /\ LossIsBounded'
          /\ \A e \in memory : row'[e] = "pending" \/ e \in gone'
          /\ \A e \in Events \ memory : row'[e] = row[e]
          BY <2>0, <2>2, PersistEffect DEF persist
    <3>2. MemoryIsShort'
          BY <3>1, FS_EmptySet, TelemetryAssumption DEF MemoryIsShort
    <3>3. Stored
      <4>1. added' = added /\ memory' \in SUBSET (1..added')
            BY <2>2, <3>1 DEF persist
      <4>2. RowsWereAdded'
            BY <2>0, <3>1, <4>1 DEF RowsWereAdded
      <4>3. ASSUME NEW e \in 1..added
            PROVE  e \in memory' \cup received \cup gone' \/ row'[e] = "pending"
            BY <2>0, <3>1 DEF NothingVanishes
      <4> QED BY <2>0, <3>1, <3>2, <4>1, <4>2, <4>3 DEF Stored
    <3> QED BY <2>2, <3>3, StoredStep DEF persist
  <2>3. ASSUME NEW f \in Flushers, flush(f) PROVE TelemetryInv'
    <3>1. CASE /\ row' = Inserted(row, memory)
               /\ memory' = {}
               /\ batch' = [batch EXCEPT ![f] = Oldest(Unsent(row'))]
               /\ UNCHANGED <<added, gone, faults>>
      <4>1. row' \in [Events -> RowState]
            BY <2>0, <3>1 DEF Inserted, RowState
      <4>2. \A e \in Events : row'[e] = IF e \in memory THEN "pending" ELSE row[e]
            BY <3>1 DEF Inserted
      <4>3. Oldest(Unsent(row')) \subseteq 1..added
        <5>1. ASSUME NEW e \in Events, row'[e] = "pending" PROVE e \in 1..added
              BY <2>0, <4>2, <5>1 DEF RowsWereAdded
        <5> QED BY <5>1 DEF Oldest, Unsent
      <4>4. UploadsOK'
            BY <2>3, <3>1, <4>3 DEF flush, UploadsOK, TelemetryTypeOK, AcceptedArrived
      <4>5. MemoryIsShort' /\ LossIsBounded'
            BY <3>1, FS_EmptySet, TelemetryAssumption DEF MemoryIsShort, LossIsBounded
      <4>6. NothingVanishes' /\ RowsWereAdded'
            BY <2>0, <2>3, <3>1, <4>2 DEF flush, NothingVanishes, RowsWereAdded
      <4>7. TelemetryTypeOK'
            BY <2>3, <3>1, <4>1, <4>4 DEF flush, UploadsOK, TelemetryTypeOK, RowState
      <4> QED BY <4>4, <4>5, <4>6, <4>7 DEF UploadsOK
    <3>2. CASE /\ faults < MaxFaults
               /\ memory # {}
               /\ memory' = {added + 1} \cap Events
               /\ added' = added + Cardinality(memory')
               /\ gone' = gone \cup memory
               /\ faults' = faults + 1
               /\ UNCHANGED <<row, batch>>
      <4>1. /\ added' \in 0..MaxEvents /\ added <= added' /\ memory' \in SUBSET (1..added')
            /\ 1..added' = (1..added) \cup memory'
            /\ Cardinality(memory') <= 1
        <5>1. CASE added = MaxEvents
          <6>1. memory' = {}
                BY <2>0, <3>2, <5>1, TelemetryAssumption DEF Events
          <6>2. Cardinality(memory') = 0
                BY <6>1, FS_EmptySet
          <6>3. added' = added
                BY <2>0, <3>2, <6>2
          <6> QED BY <2>0, <6>1, <6>2, <6>3
        <5>2. CASE added # MaxEvents
          <6>1. memory' = {added + 1} /\ Cardinality(memory') = 1 /\ added' = added + 1
            <7>1. memory' = {added + 1}
                  BY <2>0, <3>2, <5>2, TelemetryAssumption DEF Events
            <7>2. Cardinality(memory') = 1
                  BY <7>1, FS_Singleton
            <7> QED BY <3>2, <7>1, <7>2
          <6> QED BY <2>0, <5>2, <6>1, TelemetryAssumption
        <5> QED BY <5>1, <5>2
      <4>2. MemoryIsShort'
        <5>1. IsFiniteSet(memory) /\ Cardinality(memory) >= 1
          <6>1. IsFiniteSet(memory)
                BY <2>0, FiniteEvents
          <6>2. Cardinality(memory) # 0
                BY <3>2, <6>1, FS_EmptySet
          <6> QED BY <2>0, <6>1, <6>2
        <5>2. Cardinality(memory') \in Nat
              BY <4>1, FiniteEvents
        <5> QED BY <2>0, <4>1, <5>1, <5>2, TelemetryAssumption DEF MemoryIsShort
      <4>3. LossIsBounded'
            BY <2>0, <3>2, LossStep DEF LossIsBounded
      <4>4. gone' \in SUBSET (1..added') /\ faults' \in 0..MaxFaults
            BY <2>0, <3>2, <4>1, TelemetryAssumption
      <4>5. Stored
            BY <2>0, <3>2, <4>1, <4>2, <4>3, <4>4 DEF Stored, NothingVanishes, RowsWereAdded
      <4> QED BY <2>3, <3>2, <4>5, StoredStep DEF flush, upload
    <3> QED BY <2>3, <3>1, <3>2 DEF flush
  <2>4. ASSUME NEW f \in Flushers, NEW arrives \in BOOLEAN, NEW answered \in BOOLEAN,
               send_fn(f, arrives, answered)
        PROVE  TelemetryInv'
    <3>1. /\ received \subseteq received' /\ received' \in SUBSET (1..added)
          /\ answered => batch[f] \subseteq received'
          BY <2>4 DEF send_fn, TelemetryTypeOK
    <3>2. UploadsOK'
          BY <2>4, <3>1 DEF send_fn, UploadsOK, TelemetryTypeOK, AcceptedArrived
    <3>3. tries' \in [Events -> 0..MaxTries + 1]
          BY <2>4, MaxTriesType DEF send_fn, TelemetryTypeOK
    <3>4. TelemetryTypeOK'
          BY <2>4, <3>1, <3>2, <3>3 DEF send_fn, table, UploadsOK, TelemetryTypeOK
    <3>5. NothingVanishes' /\ RowsWereAdded' /\ MemoryIsShort' /\ LossIsBounded'
          BY <2>4, <3>1
          DEF send_fn, table, NothingVanishes, RowsWereAdded, MemoryIsShort, LossIsBounded
    <3> QED BY <3>2, <3>4, <3>5 DEF UploadsOK
  <2>5. ASSUME NEW f \in Flushers, mark_sent(f) PROVE TelemetryInv'
    <3> DEFINE r == MarkSent(batch[f])
    <3>1. r \in [Events -> RowState]
          BY <2>0 DEF MarkSent, RowState
    <3>2. \A e \in 1..added : e \in memory \cup received \cup gone \/ r[e] = "pending"
          BY <2>0, <2>5 DEF mark_sent, MarkSent, NothingVanishes, AcceptedArrived
    <3>3. \A e \in Events : r[e] # "none" => e \in 1..added
          BY <2>0 DEF MarkSent, RowsWereAdded
    <3> HIDE DEF r
    <3>4. CASE AddEvent(r)
      <4>1. Stored
            BY <3>1, <3>2, <3>3, <3>4, AddEffect
      <4> QED BY <2>5, <4>1, StoredStep DEF mark_sent
    <3>5. CASE row' = r /\ UNCHANGED <<added, memory, gone, faults>>
      <4>1. Stored
            BY <2>0, <3>1, <3>2, <3>3, <3>5
            DEF Stored, TelemetryTypeOK, MemoryIsShort, LossIsBounded, RowsWereAdded
      <4> QED BY <2>5, <4>1, StoredStep DEF mark_sent
    <3> QED BY <2>5, <3>4, <3>5 DEF mark_sent, r
  <2>6. ASSUME NEW f \in Flushers, retry(f) PROVE TelemetryInv'
    <3>1. retries' \in [Events -> Nat]
          BY <2>6 DEF retry, Counted, TelemetryTypeOK
    <3>2. UploadsOK'
          BY <2>6 DEF retry, FlushEnds, UploadsOK, TelemetryTypeOK, AcceptedArrived
    <3>3. TelemetryTypeOK'
          BY <2>6, <3>1, <3>2 DEF retry, UploadsOK, TelemetryTypeOK
    <3>4. NothingVanishes' /\ RowsWereAdded' /\ MemoryIsShort' /\ LossIsBounded'
          BY <2>6 DEF retry, NothingVanishes, RowsWereAdded, MemoryIsShort, LossIsBounded
    <3> QED BY <3>2, <3>3, <3>4 DEF UploadsOK
  <2>7. CASE Ages
    <3>1. old' \in 0..added
          BY <2>0, <2>7 DEF Ages, TelemetryTypeOK
    <3>2. TelemetryTypeOK'
          BY <2>7, <3>1 DEF Ages, table, upload, TelemetryTypeOK
    <3> QED BY <2>7, <3>2 DEF Ages, table, upload, NothingVanishes, RowsWereAdded,
                              AcceptedArrived, MemoryIsShort, LossIsBounded
  <2>8. CASE cleanup_old_events
    <3>1. row' \in [Events -> RowState]
          BY <2>0, <2>8 DEF cleanup_old_events, RowState
    <3>2. \A e \in Events : row'[e] = row[e] \/ (row[e] = "sent" /\ row'[e] = "deleted")
          BY <2>8 DEF cleanup_old_events, ExpiredRows
    <3>3. TelemetryTypeOK'
          BY <2>8, <3>1 DEF cleanup_old_events, upload, TelemetryTypeOK, RowState
    <3>4. NothingVanishes' /\ RowsWereAdded'
          BY <2>0, <2>8, <3>2 DEF cleanup_old_events, NothingVanishes, RowsWereAdded
    <3> QED BY <2>8, <3>3, <3>4
            DEF cleanup_old_events, upload, AcceptedArrived, MemoryIsShort, LossIsBounded
  <2>9. CASE Crash
    <3>1. MemoryIsShort'
          BY <2>9, FS_EmptySet, TelemetryAssumption DEF Crash, MemoryIsShort
    <3>2. LossIsBounded'
          BY <2>0, <2>9, LossStep DEF Crash, LossIsBounded
    <3>3. UploadsOK'
          BY <2>9 DEF Crash, UploadsOK, AcceptedArrived
    <3>4. gone' \in SUBSET (1..added) /\ faults' \in 0..MaxFaults
          BY <2>0, <2>9, TelemetryAssumption DEF Crash
    <3>5. TelemetryTypeOK'
          BY <2>9, <3>3, <3>4 DEF Crash, table, UploadsOK, TelemetryTypeOK
    <3>6. NothingVanishes' /\ RowsWereAdded'
          BY <2>9 DEF Crash, table, NothingVanishes, RowsWereAdded
    <3> QED BY <3>1, <3>2, <3>3, <3>5, <3>6 DEF UploadsOK
  <2>10. CASE UNCHANGED vars
         BY <2>10 DEF vars, table, upload, TelemetryTypeOK, NothingVanishes, RowsWereAdded,
                      AcceptedArrived, MemoryIsShort, LossIsBounded
  <2> QED BY <2>1, <2>2, <2>3, <2>4, <2>5, <2>6, <2>7, <2>8, <2>9, <2>10 DEF Next
<1> QED BY <1>1, <1>2, PTL DEF Spec

\* An event that is in no buffer and no row has reached the Cloud, unless the
\* memory or the write that held it failed.
THEOREM NoEventVanishes == Spec => []NothingVanishes
<1>1. TelemetryInv => NothingVanishes
      BY DEF TelemetryInv
<1> QED BY <1>1, TelemetryInvariant, PTL

\* A crash or a failed write loses at most batch_size events.
THEOREM FaultsLoseABatch == Spec => []LossIsBounded
<1>1. TelemetryInv => LossIsBounded
      BY DEF TelemetryInv
<1> QED BY <1>1, TelemetryInvariant, PTL

-----------------------------------------------------------------------------
(* How often an event is uploaded.                                          *)

Fresh == {"none", "pending"}

\* The uploads of e under way: those with an answer that is not yet written
\* to the table, and those still to be sent.
Answered(e) == {f \in Flushers : e \in batch[f] /\ answer[f] # "none"}
Untried(e) == {f \in Flushers : e \in batch[f] /\ answer[f] = "none"}

Threads == Cardinality(Flushers)

\* Every try of an event that is not marked yet was counted, is about to be,
\* or was forgotten in a crash.
TriesAreCounted ==
    \A e \in Events : row[e] \in Fresh =>
        tries[e] <= retries[e] + Cardinality(Answered(e)) + Threads * faults

\* The tries there were and the ones under way.
TriesToCome ==
    \A e \in Events :
        tries[e] + Cardinality(Untried(e)) <= (MaxRetries - 1) + (Threads * faults + Threads)

\* An event has its row once it left the memory, and only then.
RowsAfterMemory == /\ \A e \in memory : row[e] = "none"
                   /\ \A f \in Flushers : \A e \in batch[f] : row[e] # "none"

AttemptInv == RowsAfterMemory /\ TriesAreCounted /\ TriesToCome

\* The products in the bound.
LEMMA FaultCost ==
    ASSUME NEW k \in Nat
    PROVE  /\ Threads \in Nat /\ Threads * k \in Nat /\ MaxRetries - 1 \in Nat
           /\ Threads * (k + 1) = Threads * k + Threads
           /\ Threads * (1 + k) = Threads * k + Threads
<1>1. Threads \in Nat
      BY TelemetryAssumption, FS_CardinalityType DEF Threads
<1>2. MaxRetries - 1 \in Nat
      BY TelemetryAssumption
<1> QED BY <1>1, <1>2

\* Two disjoint sets of threads.
LEMMA ThreadSets ==
    ASSUME NEW A \in SUBSET Flushers, NEW U \in SUBSET Flushers, A \cap U = {}
    PROVE  /\ IsFiniteSet(A) /\ IsFiniteSet(U)
           /\ Cardinality(A) \in Nat /\ Cardinality(U) \in Nat
           /\ Cardinality(A) + Cardinality(U) <= Threads
<1>1. IsFiniteSet(Flushers)
      BY TelemetryAssumption
<1>2. IsFiniteSet(A) /\ IsFiniteSet(U)
      BY <1>1, FS_Subset
<1>3. Cardinality(A) \in Nat /\ Cardinality(U) \in Nat
      BY <1>2, FS_CardinalityType
<1>4. Cardinality(A \cap U) = 0
      BY FS_EmptySet
<1>5. Cardinality(A \cup U) = Cardinality(A) + Cardinality(U) - Cardinality(A \cap U)
      BY <1>2, FS_Union
<1>6. Cardinality(A \cup U) <= Cardinality(Flushers)
  <2>1. A \cup U \in SUBSET Flushers
        OBVIOUS
  <2> QED BY <1>1, <2>1, FS_Subset
<1> QED BY <1>2, <1>3, <1>4, <1>5, <1>6 DEF Threads

\* The numbers in the invariant.
LEMMA AttemptTypes ==
    ASSUME TelemetryInv, NEW e \in Events
    PROVE  /\ tries[e] \in Nat /\ retries[e] \in Nat
           /\ IsFiniteSet(Answered(e)) /\ IsFiniteSet(Untried(e))
           /\ Cardinality(Answered(e)) \in Nat /\ Cardinality(Untried(e)) \in Nat
           /\ Cardinality(Answered(e)) + Cardinality(Untried(e)) <= Threads
           /\ faults \in Nat /\ Threads \in Nat /\ Threads * faults \in Nat
           /\ MaxRetries - 1 \in Nat
<1>1. /\ tries[e] \in Nat /\ retries[e] \in Nat /\ faults \in Nat
      BY TelemetryAssumption, MaxTriesType DEF TelemetryInv, TelemetryTypeOK
<1>2. /\ Answered(e) \in SUBSET Flushers /\ Untried(e) \in SUBSET Flushers
      /\ Answered(e) \cap Untried(e) = {}
      BY DEF Answered, Untried
<1> QED BY <1>1, <1>2, ThreadSets, FaultCost

\* What a step does to rows that are not marked.
RowsMove == /\ \A e \in memory' : row'[e] = "none"
            /\ \A e \in Events : row'[e] \in Fresh => row[e] \in Fresh
            /\ \A e \in Events : row[e] # "none" => row'[e] # "none"
            /\ faults' \in {faults, faults + 1}

\* A step that touches no upload keeps every count.
LEMMA AttemptsKept ==
    ASSUME TelemetryInv, AttemptInv, RowsMove, UNCHANGED <<retries, batch, answer, tries>>
    PROVE  AttemptInv'
<1>1. RowsAfterMemory'
  <2>1. \A f \in Flushers : batch[f] \subseteq Events
        BY TelemetryAssumption DEF TelemetryInv, TelemetryTypeOK, Events
  <2> QED BY <2>1 DEF AttemptInv, RowsAfterMemory, RowsMove
<1>2. ASSUME NEW e \in Events
      PROVE  /\ row'[e] \in Fresh =>
                   tries'[e] <= retries'[e] + Cardinality(Answered(e)') + Threads * faults'
             /\ tries'[e] + Cardinality(Untried(e)')
                   <= (MaxRetries - 1) + (Threads * faults' + Threads)
  <2>1. /\ tries[e] \in Nat /\ retries[e] \in Nat
        /\ Cardinality(Answered(e)) \in Nat /\ Cardinality(Untried(e)) \in Nat
        /\ faults \in Nat /\ Threads \in Nat /\ Threads * faults \in Nat
        /\ MaxRetries - 1 \in Nat
        BY AttemptTypes
  <2>2. Answered(e)' = Answered(e) /\ Untried(e)' = Untried(e)
        BY DEF Answered, Untried
  <2>3. Threads * faults' \in Nat /\ Threads * faults <= Threads * faults'
    <3>1. CASE faults' = faults
          BY <2>1, <3>1
    <3>2. CASE faults' = faults + 1
          BY <2>1, <3>2, FaultCost
    <3> QED BY <3>1, <3>2 DEF RowsMove
  <2>4. row'[e] \in Fresh =>
            tries[e] <= retries[e] + Cardinality(Answered(e)) + Threads * faults
        BY DEF AttemptInv, TriesAreCounted, RowsMove
  <2>5. tries[e] + Cardinality(Untried(e)) <= (MaxRetries - 1) + (Threads * faults + Threads)
        BY DEF AttemptInv, TriesToCome
  <2>6. tries'[e] = tries[e] /\ retries'[e] = retries[e]
        OBVIOUS
  <2> QED BY <2>1, <2>2, <2>3, <2>4, <2>5, <2>6
<1>3. TriesAreCounted' /\ TriesToCome'
      BY <1>2 DEF TriesAreCounted, TriesToCome, Threads
<1> QED BY <1>1, <1>3 DEF AttemptInv

\* Writing a memory M without rows.
LEMMA PersistRows ==
    ASSUME NEW M, NEW r \in [Events -> RowState], _persist_batch(M, r),
           \A e \in M : r[e] = "none"
    PROVE  /\ memory' = {} /\ faults' \in {faults, faults + 1}
           /\ \A e \in Events : row'[e] = r[e] \/ (r[e] = "none" /\ row'[e] = "pending")
<1>1. memory' = {} /\ faults' \in {faults, faults + 1}
      BY DEF _persist_batch
<1>2. CASE row' = r
      BY <1>1, <1>2
<1>3. CASE row' = Inserted(r, M)
  <2>1. ASSUME NEW e \in Events
        PROVE  row'[e] = r[e] \/ (r[e] = "none" /\ row'[e] = "pending")
        BY <1>3 DEF Inserted
  <2> QED BY <1>1, <2>1
<1> QED BY <1>2, <1>3 DEF _persist_batch

\* One more event, on rows r.
LEMMA AddRows ==
    ASSUME TelemetryInv, NEW r \in [Events -> RowState], AddEvent(r),
           \A e \in memory : r[e] = "none",
           \A e \in Events : r[e] # "none" => e \in 1..added
    PROVE  /\ \A e \in memory' : row'[e] = "none"
           /\ faults' \in {faults, faults + 1}
           /\ \A e \in Events : row'[e] = r[e] \/ (r[e] = "none" /\ row'[e] = "pending")
<1> DEFINE M == memory \cup {added + 1}
<1>1. \A e \in M : r[e] = "none"
  <2>1. added \in Nat /\ added < MaxEvents /\ MaxEvents \in Nat
        BY TelemetryAssumption DEF TelemetryInv, TelemetryTypeOK, AddEvent
  <2>2. added + 1 \in Events /\ added + 1 \notin 1..added
        BY <2>1 DEF Events
  <2> QED BY <2>2
<1>2. CASE IsFull(M)
  <2>1. _persist_batch(M, r)
        BY <1>2 DEF AddEvent
  <2> HIDE DEF M
  <2> QED BY <1>1, <2>1, PersistRows
<1>3. CASE ~IsFull(M)
  <2>1. memory' = M /\ row' = r /\ faults' = faults
        BY <1>3 DEF AddEvent
  <2> HIDE DEF M
  <2> QED BY <1>1, <2>1
<1> QED BY <1>2, <1>3

\* Rows are read and an upload of them begins: an event that is read failed
\* less often than it may.
LEMMA ReadStep ==
    ASSUME TelemetryInv, AttemptInv, NEW f \in Flushers, batch[f] = {},
           row' = Inserted(row, memory), memory' = {},
           batch' = [batch EXCEPT ![f] = Oldest(Unsent(row'))],
           UNCHANGED <<retries, answer, tries, faults>>
    PROVE  AttemptInv'
<1> DEFINE B == Oldest(Unsent(row'))
<1>1. /\ answer[f] = "none" /\ memory \subseteq Events
      /\ batch \in [Flushers -> SUBSET Events]
      BY TelemetryAssumption DEF TelemetryInv, TelemetryTypeOK, Events
<1>2. \A e \in B : e \in Events /\ row'[e] = "pending" /\ retries[e] < MaxRetries
      BY DEF Oldest, Unsent
<1>3. \A e \in Events : row'[e] = IF e \in memory THEN "pending" ELSE row[e]
      BY DEF Inserted
<1>4. batch' = [batch EXCEPT ![f] = B]
      OBVIOUS
<1> HIDE DEF B
<1>5. \A g \in Flushers : batch'[g] = IF g = f THEN B ELSE batch[g]
      BY <1>1, <1>4
<1>6. RowsAfterMemory'
  <2>1. ASSUME NEW g \in Flushers, NEW e \in batch'[g] PROVE row'[e] # "none"
    <3>1. CASE g = f
          BY <1>2, <1>5, <2>1, <3>1
    <3>2. CASE g # f
      <4>1. e \in batch[g] /\ e \in Events
            BY <1>1, <1>5, <2>1, <3>2
      <4> QED BY <1>3, <4>1 DEF AttemptInv, RowsAfterMemory
    <3> QED BY <3>1, <3>2
  <2> QED BY <2>1 DEF RowsAfterMemory
<1>7. ASSUME NEW e \in Events
      PROVE  /\ row'[e] \in Fresh =>
                   tries[e] <= retries[e] + Cardinality(Answered(e)') + Threads * faults
             /\ tries[e] + Cardinality(Untried(e)')
                   <= (MaxRetries - 1) + (Threads * faults + Threads)
  <2>1. /\ tries[e] \in Nat /\ retries[e] \in Nat /\ IsFiniteSet(Untried(e))
        /\ Cardinality(Answered(e)) \in Nat /\ Cardinality(Untried(e)) \in Nat
        /\ Threads \in Nat /\ Threads * faults \in Nat /\ MaxRetries - 1 \in Nat
        BY AttemptTypes
  <2>2. Answered(e)' = Answered(e)
        BY <1>1, <1>5 DEF Answered
  <2>3. row'[e] \in Fresh => row[e] \in Fresh
        BY <1>3 DEF Fresh, AttemptInv, RowsAfterMemory
  <2>4. row'[e] \in Fresh =>
            tries[e] <= retries[e] + Cardinality(Answered(e)) + Threads * faults
        BY <2>3 DEF AttemptInv, TriesAreCounted
  <2>5. CASE e \in B
    <3>1. Untried(e)' = Untried(e) \cup {f} /\ f \notin Untried(e)
          BY <1>1, <1>5, <2>5 DEF Untried
    <3>2. Cardinality(Untried(e)') = Cardinality(Untried(e)) + 1
          BY <2>1, <3>1, FS_AddElement
    <3>3. Cardinality(Answered(e)) + Cardinality(Untried(e)') <= Threads
      <4>1. /\ Answered(e) \in SUBSET Flushers /\ Untried(e)' \in SUBSET Flushers
            /\ Answered(e) \cap Untried(e)' = {}
            BY <1>1, <3>1 DEF Answered, Untried
      <4> QED BY <4>1, ThreadSets
    <3>4. row'[e] \in Fresh /\ retries[e] < MaxRetries
          BY <1>2, <2>5 DEF Fresh
    <3>5. retries[e] <= MaxRetries - 1
          BY <2>1, <3>4, TelemetryAssumption
    <3> QED BY <2>1, <2>2, <2>4, <3>2, <3>3, <3>4, <3>5
  <2>6. CASE e \notin B
    <3>1. Untried(e)' = Untried(e)
          BY <1>5, <2>6 DEF Untried
    <3>2. tries[e] + Cardinality(Untried(e)) <= (MaxRetries - 1) + (Threads * faults + Threads)
          BY DEF AttemptInv, TriesToCome
    <3> QED BY <2>2, <2>4, <3>1, <3>2
  <2> QED BY <2>5, <2>6
<1>8. TriesAreCounted' /\ TriesToCome'
      BY <1>7 DEF TriesAreCounted, TriesToCome, Threads
<1> QED BY <1>6, <1>8 DEF AttemptInv

\* A try is made, and waits to be counted.
LEMMA TryStep ==
    ASSUME TelemetryInv, AttemptInv, NEW f \in Flushers, NEW arrives \in BOOLEAN,
           NEW answered \in BOOLEAN, send_fn(f, arrives, answered)
    PROVE  AttemptInv'
<1>1. /\ answer[f] = "none" /\ answer'[f] # "none"
      /\ \A g \in Flushers \ {f} : answer'[g] = answer[g]
      /\ \A e \in Events : tries'[e] = IF e \in batch[f] /\ tries[e] <= MaxTries
                                       THEN tries[e] + 1 ELSE tries[e]
      /\ UNCHANGED <<memory, row, retries, batch, faults>>
      BY DEF send_fn, table, TelemetryInv, TelemetryTypeOK
<1>2. RowsAfterMemory'
      BY <1>1 DEF AttemptInv, RowsAfterMemory
<1>3. ASSUME NEW e \in Events
      PROVE  /\ row[e] \in Fresh =>
                   tries'[e] <= retries[e] + Cardinality(Answered(e)') + Threads * faults
             /\ tries'[e] + Cardinality(Untried(e)')
                   <= (MaxRetries - 1) + (Threads * faults + Threads)
  <2>1. /\ tries[e] \in Nat /\ retries[e] \in Nat
        /\ IsFiniteSet(Answered(e)) /\ IsFiniteSet(Untried(e))
        /\ Cardinality(Answered(e)) \in Nat /\ Cardinality(Untried(e)) \in Nat
        /\ Threads \in Nat /\ Threads * faults \in Nat /\ MaxRetries - 1 \in Nat
        BY AttemptTypes
  <2>2. row[e] \in Fresh =>
            tries[e] <= retries[e] + Cardinality(Answered(e)) + Threads * faults
        BY DEF AttemptInv, TriesAreCounted
  <2>3. tries[e] + Cardinality(Untried(e)) <= (MaxRetries - 1) + (Threads * faults + Threads)
        BY DEF AttemptInv, TriesToCome
  <2>4. CASE e \in batch[f]
    <3>1. /\ Answered(e)' = Answered(e) \cup {f} /\ f \notin Answered(e)
          /\ Untried(e)' = Untried(e) \ {f} /\ f \in Untried(e)
          BY <1>1, <2>4 DEF Answered, Untried
    <3>2. Cardinality(Answered(e)') = Cardinality(Answered(e)) + 1
          BY <2>1, <3>1, FS_AddElement
    <3>3. Cardinality(Untried(e)') = Cardinality(Untried(e)) - 1
          BY <2>1, <3>1, FS_RemoveElement
    <3>4. tries'[e] \in {tries[e], tries[e] + 1}
          BY <1>1
    <3> QED BY <2>1, <2>2, <2>3, <3>2, <3>3, <3>4
  <2>5. CASE e \notin batch[f]
    <3>1. Answered(e)' = Answered(e) /\ Untried(e)' = Untried(e) /\ tries'[e] = tries[e]
          BY <1>1, <2>5 DEF Answered, Untried
    <3> QED BY <2>2, <2>3, <3>1
  <2> QED BY <2>4, <2>5
<1>4. TriesAreCounted' /\ TriesToCome'
      BY <1>1, <1>3 DEF TriesAreCounted, TriesToCome, Threads
<1> QED BY <1>2, <1>4 DEF AttemptInv

\* An upload ends: its events are marked, or their failure is counted.
LEMMA EndStep ==
    ASSUME TelemetryInv, AttemptInv, NEW f \in Flushers, answer[f] # "none",
           FlushEnds(f), RowsMove, UNCHANGED tries, retries' \in [Events -> Nat],
           \A e \in Events \ batch[f] : retries'[e] = retries[e],
           \A e \in batch[f] : row'[e] \in Fresh => retries'[e] = retries[e] + 1
    PROVE  AttemptInv'
<1>1. /\ \A g \in Flushers : batch'[g] = IF g = f THEN {} ELSE batch[g]
      /\ \A g \in Flushers \ {f} : answer'[g] = answer[g]
      /\ \A g \in Flushers : batch[g] \subseteq Events
      BY TelemetryAssumption DEF FlushEnds, TelemetryInv, TelemetryTypeOK, Events
<1>2. RowsAfterMemory'
      BY <1>1 DEF AttemptInv, RowsAfterMemory, RowsMove
<1>3. ASSUME NEW e \in Events
      PROVE  /\ row'[e] \in Fresh =>
                   tries[e] <= retries'[e] + Cardinality(Answered(e)') + Threads * faults'
             /\ tries[e] + Cardinality(Untried(e)')
                   <= (MaxRetries - 1) + (Threads * faults' + Threads)
  <2>1. /\ tries[e] \in Nat /\ retries[e] \in Nat /\ faults \in Nat
        /\ IsFiniteSet(Answered(e)) /\ IsFiniteSet(Untried(e))
        /\ Cardinality(Answered(e)) \in Nat /\ Cardinality(Untried(e)) \in Nat
        /\ Threads \in Nat /\ Threads * faults \in Nat /\ MaxRetries - 1 \in Nat
        BY AttemptTypes
  <2>2. row'[e] \in Fresh =>
            tries[e] <= retries[e] + Cardinality(Answered(e)) + Threads * faults
        BY DEF AttemptInv, TriesAreCounted, RowsMove
  <2>3. tries[e] + Cardinality(Untried(e)) <= (MaxRetries - 1) + (Threads * faults + Threads)
        BY DEF AttemptInv, TriesToCome
  <2>4. Threads * faults' \in Nat /\ Threads * faults <= Threads * faults'
    <3>1. CASE faults' = faults
          BY <2>1, <3>1
    <3>2. CASE faults' = faults + 1
          BY <2>1, <3>2, FaultCost
    <3> QED BY <3>1, <3>2 DEF RowsMove
  <2>5. Untried(e)' = Untried(e)
        BY <1>1 DEF Untried
  <2>6. CASE e \in batch[f]
    <3>1. Answered(e)' = Answered(e) \ {f} /\ f \in Answered(e)
          BY <1>1, <2>6 DEF Answered
    <3>2. Cardinality(Answered(e)') = Cardinality(Answered(e)) - 1
          BY <2>1, <3>1, FS_RemoveElement
    <3>3. row'[e] \in Fresh => retries'[e] = retries[e] + 1
          BY <2>6
    <3> QED BY <2>1, <2>2, <2>3, <2>4, <2>5, <3>2, <3>3
  <2>7. CASE e \notin batch[f]
    <3>1. Answered(e)' = Answered(e) /\ retries'[e] = retries[e]
          BY <1>1, <2>7 DEF Answered
    <3> QED BY <2>1, <2>2, <2>3, <2>4, <2>5, <3>1
  <2> QED BY <2>6, <2>7
<1>4. TriesAreCounted' /\ TriesToCome'
      BY <1>3 DEF TriesAreCounted, TriesToCome, Threads
<1> QED BY <1>2, <1>4 DEF AttemptInv

\* A crash forgets at most one try of each thread.
LEMMA CrashStep ==
    ASSUME TelemetryInv, AttemptInv, Crash
    PROVE  AttemptInv'
<1>1. /\ faults' = faults + 1 /\ memory' = {}
      /\ \A f \in Flushers : batch'[f] = {}
      /\ UNCHANGED <<row, retries, tries>>
      BY DEF Crash, table
<1>2. RowsAfterMemory'
      BY <1>1 DEF RowsAfterMemory
<1>3. ASSUME NEW e \in Events
      PROVE  /\ row[e] \in Fresh =>
                   tries[e] <= retries[e] + Cardinality(Answered(e)') + Threads * faults'
             /\ tries[e] + Cardinality(Untried(e)')
                   <= (MaxRetries - 1) + (Threads * faults' + Threads)
  <2>1. /\ tries[e] \in Nat /\ retries[e] \in Nat /\ faults \in Nat
        /\ Cardinality(Answered(e)) \in Nat /\ Cardinality(Untried(e)) \in Nat
        /\ Cardinality(Answered(e)) + Cardinality(Untried(e)) <= Threads
        /\ Threads \in Nat /\ Threads * faults \in Nat /\ MaxRetries - 1 \in Nat
        BY AttemptTypes
  <2>2. row[e] \in Fresh =>
            tries[e] <= retries[e] + Cardinality(Answered(e)) + Threads * faults
        BY DEF AttemptInv, TriesAreCounted
  <2>3. tries[e] + Cardinality(Untried(e)) <= (MaxRetries - 1) + (Threads * faults + Threads)
        BY DEF AttemptInv, TriesToCome
  <2>4. Threads * faults' = Threads * faults + Threads
        BY <1>1, <2>1, FaultCost
  <2>5. Answered(e)' = {} /\ Untried(e)' = {}
        BY <1>1 DEF Answered, Untried
  <2>6. Cardinality(Answered(e)') = 0 /\ Cardinality(Untried(e)') = 0
        BY <2>5, FS_EmptySet
  <2> QED BY <2>1, <2>2, <2>3, <2>4, <2>6
<1>4. TriesAreCounted' /\ TriesToCome'
      BY <1>1, <1>3 DEF TriesAreCounted, TriesToCome, Threads
<1> QED BY <1>2, <1>4 DEF AttemptInv

\* Every step keeps the counts, one case for each operation of the buffer.
LEMMA AttemptStep ==
    ASSUME TelemetryInv, TelemetryInv', AttemptInv, [Next]_vars
    PROVE  AttemptInv'
<1>1. /\ row \in [Events -> RowState] /\ memory \subseteq Events
      /\ \A f \in Flushers : batch[f] \subseteq Events
      /\ \A e \in memory : row[e] = "none"
      /\ \A f \in Flushers : \A e \in batch[f] : row[e] # "none"
      /\ \A e \in Events : row[e] # "none" => e \in 1..added
      BY TelemetryAssumption DEF TelemetryInv, TelemetryTypeOK, RowState, Events, AttemptInv,
         RowsAfterMemory, RowsWereAdded
<1>2. CASE add
  <2>1. /\ \A e \in memory' : row'[e] = "none"
        /\ faults' \in {faults, faults + 1}
        /\ \A e \in Events : row'[e] = row[e] \/ (row[e] = "none" /\ row'[e] = "pending")
        BY <1>1, <1>2, AddRows DEF add
  <2>2. RowsMove
        BY <2>1 DEF RowsMove, Fresh
  <2> QED BY <1>2, <2>2, AttemptsKept DEF add, upload
<1>3. CASE persist
  <2>1. /\ memory' = {} /\ faults' \in {faults, faults + 1}
        /\ \A e \in Events : row'[e] = row[e] \/ (row[e] = "none" /\ row'[e] = "pending")
        BY <1>1, <1>3, PersistRows DEF persist
  <2>2. RowsMove
        BY <2>1 DEF RowsMove, Fresh
  <2> QED BY <1>3, <2>2, AttemptsKept DEF persist, upload
<1>4. ASSUME NEW f \in Flushers, flush(f) PROVE AttemptInv'
  <2>1. CASE /\ row' = Inserted(row, memory)
             /\ memory' = {}
             /\ batch' = [batch EXCEPT ![f] = Oldest(Unsent(row'))]
             /\ UNCHANGED <<added, gone, faults>>
        BY <1>4, <2>1, ReadStep DEF flush
  <2>2. CASE /\ memory' = {added + 1} \cap Events
             /\ faults' = faults + 1
             /\ UNCHANGED <<row, batch>>
    <3>1. added \in Nat
          BY TelemetryAssumption DEF TelemetryInv, TelemetryTypeOK
    <3>2. added + 1 \notin 1..added
          BY <3>1
    <3>3. RowsMove
          BY <1>1, <2>2, <3>2 DEF RowsMove
    <3> QED BY <1>4, <2>2, <3>3, AttemptsKept DEF flush
  <2> QED BY <1>4, <2>1, <2>2 DEF flush
<1>5. ASSUME NEW f \in Flushers, mark_sent(f) PROVE AttemptInv'
  <2> DEFINE r == MarkSent(batch[f])
  <2>1. /\ r \in [Events -> RowState]
        /\ \A e \in Events : r[e] = IF e \in batch[f] /\ row[e] = "pending"
                                    THEN "sent" ELSE row[e]
        BY <1>1 DEF MarkSent, RowState
  <2> HIDE DEF r
  <2>2. /\ \A e \in memory : r[e] = "none"
        /\ \A e \in Events : r[e] # "none" => e \in 1..added
        BY <1>1, <2>1
  <2>3. /\ \A e \in memory' : row'[e] = "none"
        /\ faults' \in {faults, faults + 1}
        /\ \A e \in Events : row'[e] = r[e] \/ (r[e] = "none" /\ row'[e] = "pending")
    <3>1. CASE AddEvent(r)
          BY <2>1, <2>2, <3>1, AddRows
    <3>2. CASE row' = r /\ UNCHANGED <<added, memory, gone, faults>>
          BY <2>2, <3>2
    <3> QED BY <1>5, <3>1, <3>2 DEF mark_sent, r
  <2>4. RowsMove
        BY <2>1, <2>3 DEF RowsMove, Fresh
  <2>5. \A e \in batch[f] : row'[e] \notin Fresh
        BY <1>1, <2>1, <2>3 DEF Fresh
  <2>6. retries' = retries /\ retries \in [Events -> Nat]
        BY <1>5 DEF mark_sent, TelemetryInv, TelemetryTypeOK
  <2> QED BY <1>5, <2>4, <2>5, <2>6, EndStep DEF mark_sent
<1>6. ASSUME NEW f \in Flushers, retry(f) PROVE AttemptInv'
  <2>1. RowsMove
        BY <1>1, <1>6 DEF retry, RowsMove
  <2>2. /\ retries' \in [Events -> Nat]
        /\ \A e \in Events \ batch[f] : retries'[e] = retries[e]
        /\ \A e \in batch[f] : row'[e] \in Fresh => retries'[e] = retries[e] + 1
        BY <1>1, <1>6 DEF retry, Counted, TelemetryInv, TelemetryTypeOK, Fresh
  <2> QED BY <1>6, <2>1, <2>2, EndStep DEF retry
<1>7. CASE cleanup_old_events
  <2>1. \A e \in Events : row'[e] = row[e] \/ (row[e] = "sent" /\ row'[e] = "deleted")
        BY <1>7 DEF cleanup_old_events, ExpiredRows
  <2>2. \A e \in memory : row'[e] = "none"
        BY <1>1, <2>1
  <2>3. RowsMove
        BY <1>7, <2>1, <2>2 DEF cleanup_old_events, RowsMove, Fresh
  <2> QED BY <1>7, <2>3, AttemptsKept DEF cleanup_old_events, upload
<1>8. CASE Ages \/ UNCHANGED vars
  <2>1. RowsMove
        BY <1>1, <1>8 DEF Ages, vars, table, RowsMove
  <2> QED BY <1>8, <2>1, AttemptsKept DEF Ages, vars, table, upload
<1> QED BY <1>2, <1>3, <1>4, <1>5, <1>6, <1>7, <1>8, TryStep, CrashStep DEF Next

\* However many threads upload at once and however often the process dies, an
\* event is tried at most max_retries - 1 times and once more for each thread,
\* and again once for each thread and each fault: retry_count + 1 in the
\* database loses no failure.
THEOREM UploadsAreBounded == Spec => []AttemptsBounded
<1>1. Init => AttemptInv
  <2> SUFFICES ASSUME Init PROVE AttemptInv
      OBVIOUS
  <2>1. /\ Threads \in Nat /\ Threads * faults \in Nat /\ MaxRetries - 1 \in Nat
        BY FaultCost DEF Init
  <2>2. \A e \in Events : /\ tries[e] = 0 /\ retries[e] = 0
                          /\ Answered(e) = {} /\ Untried(e) = {}
        BY DEF Init, Answered, Untried
  <2>3. Cardinality({}) = 0
        BY FS_EmptySet
  <2>4. ASSUME NEW e \in Events
        PROVE  /\ tries[e] <= retries[e] + Cardinality(Answered(e)) + Threads * faults
               /\ tries[e] + Cardinality(Untried(e))
                     <= (MaxRetries - 1) + (Threads * faults + Threads)
    <3>1. /\ tries[e] = 0 /\ retries[e] = 0
          /\ Cardinality(Answered(e)) = 0 /\ Cardinality(Untried(e)) = 0
          BY <2>2, <2>3
    <3> QED BY <2>1, <3>1
  <2>5. TriesAreCounted /\ TriesToCome
        BY <2>4 DEF TriesAreCounted, TriesToCome
  <2> QED BY <2>5 DEF Init, AttemptInv, RowsAfterMemory
<1>2. TelemetryInv /\ TelemetryInv' /\ AttemptInv /\ [Next]_vars => AttemptInv'
      BY AttemptStep
<1>3. TelemetryInv /\ AttemptInv => AttemptsBounded
  <2> SUFFICES ASSUME TelemetryInv, AttemptInv, NEW e \in Events
               PROVE  tries[e] <= MaxRetries - 1 + Threads * (1 + faults)
      BY DEF AttemptsBounded, Threads
  <2>1. /\ tries[e] \in Nat /\ Cardinality(Untried(e)) \in Nat /\ faults \in Nat
        /\ Threads \in Nat /\ Threads * faults \in Nat /\ MaxRetries - 1 \in Nat
        BY AttemptTypes
  <2>2. tries[e] + Cardinality(Untried(e)) <= (MaxRetries - 1) + (Threads * faults + Threads)
        BY DEF AttemptInv, TriesToCome
  <2>3. Threads * (1 + faults) = Threads * faults + Threads
        BY <2>1, FaultCost
  <2> QED BY <2>1, <2>2, <2>3
<1> QED BY <1>1, <1>2, <1>3, TelemetryInvariant, PTL DEF Spec

=============================================================================
