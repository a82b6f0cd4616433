------------------------ MODULE FillPipeline_proofs ------------------------
(***************************************************************************)
(* Fills are not overcounted and a closed order was closed that way, for   *)
(* any orders, threads, quantities, amendments and crashes: an event is    *)
(* stale when it is handled, but the broker only moves on.  The order path *)
(* under the pipeline still implements SubmitOnce.                         *)
(*                                                                         *)
(* The ledger is bounded for any number of restarts and lost bookings.     *)
(* FILLED is real in terms of the quantities that were asked for, and the  *)
(* fill handler never undoes it.                                           *)
(***************************************************************************)
EXTENDS FillPipeline, LiveExecution_proofs

Closed == {"cancelled", "expired", "rejected"}

PipeType == /\ tracked \in SUBSET Orders
            /\ sig \in [Orders -> Signature]
            /\ inbox \in SUBSET Event
            /\ updates \in SUBSET Update
            /\ fcum \in [Orders -> 0..MaxQty]
            /\ fterm \in SUBSET Orders
            /\ booked \in [Orders -> Nat]
            /\ asks \in [Orders -> SUBSET (1..MaxQty)]
            /\ spoilt \in SUBSET Orders

\* What the broker does not hold was not executed.
NoneUnfilled == \A c \in Orders : broker[c].st = "none" => broker[c].cum = 0

\* An event under way is behind the broker, never ahead of it.
EventsAreReal == \A e \in inbox :
    /\ e.cum <= broker[e.ord].cum
    /\ e.kind = "canceled" => broker[e.ord].st = "cancelled"
    /\ e.kind \in {"expired", "rejected"} => broker[e.ord].st = e.kind

UpdatesAreReal == \A u \in updates :
    /\ u.status # "pending"
    /\ u.status \in Closed => broker[u.ord].st = u.status

EngineInv == IndType /\ SafeInv /\ NoneUnfilled

FillInv == /\ EngineInv /\ PipeType /\ EventsAreReal /\ UpdatesAreReal
           /\ NeverOverCounts /\ ClosedIsReal

\* The broker only moves on: executions grow and a closed order stays as it is.
BrokerOnward == \A c \in Orders :
    /\ broker[c].cum <= broker'[c].cum
    /\ broker[c].st \in Closed => broker'[c].st = broker[c].st

\* The steps of the engine and the broker, by what they do to an order.
LEMMA EngineStep ==
    ASSUME EngineInv, [Next]_vars
    PROVE  /\ EngineInv' /\ BrokerOnward
           /\ \A c \in Orders : order'[c] \in {"expired", "rejected"} => order'[c] = order[c]
<1>1. IndType' /\ SafeInv'
      BY NextType, NextSafe DEF EngineInv
<1> USE DEF EngineInv, IndType, TypeOK, BusyOnOrder, BrokerOnward, NoneUnfilled, Closed
<1>2. \A c \in Orders : broker[c] \in BrokerRecord
      OBVIOUS
<1>3. ASSUME UNCHANGED broker PROVE BrokerOnward /\ NoneUnfilled'
      BY <1>2, <1>3 DEF BrokerRecord
<1> DEFINE OrderKept == \A c \in Orders :
               order'[c] \in {"expired", "rejected"} => order'[c] = order[c]
<1>4. ASSUME NEW t \in Threads, ExecuteStep(t)
      PROVE  BrokerOnward /\ NoneUnfilled' /\ OrderKept
  <2>1. CASE ExecuteCheck(t) \/ ExecuteLookup(t)
        BY <1>3, <2>1 DEF ExecuteCheck, ExecuteLookup, memory
  <2>2. CASE ExecuteRecover(t) \/ ExecuteAckOk(t)
        BY <1>3, <2>2 DEF ExecuteRecover, ExecuteAckOk, Track
  <2>3. CASE ExecuteLog(t) \/ ExecuteAckFail(t)
        BY <1>3, <2>3 DEF ExecuteLog, ExecuteAckFail, memory
  <2>4. CASE ExecuteSend(t)
    <3>1. on[t] \in Orders /\ broker[on[t]].st = "none" /\ broker[on[t]].cum = 0
          BY <2>4 DEF ExecuteSend, SafeInv, OwnsRow, HeldWasSent
    <3>2. OrderKept
          BY <2>4 DEF ExecuteSend, memory
    <3>3. CASE UNCHANGED broker
          BY <1>3, <3>2, <3>3
    <3>4. CASE BrokerAccepts(on[t])
      <4>1. \A c \in Orders : broker'[c] =
               IF c = on[t] THEN [st |-> "open", cum |-> 0, qty |-> InitQty] ELSE broker[c]
            BY <3>1, <3>4 DEF BrokerAccepts
      <4>2. /\ \A c \in Orders \ {on[t]} : broker'[c] = broker[c]
            /\ broker'[on[t]].cum = 0 /\ broker'[on[t]].st = "open"
            BY <3>1, <4>1
      <4>3. BrokerOnward
            BY <1>2, <3>1, <4>2 DEF BrokerRecord
      <4>4. NoneUnfilled'
            BY <4>2
      <4> QED BY <3>2, <4>3, <4>4
    <3> QED BY <2>4, <3>3, <3>4 DEF ExecuteSend
  <2> QED BY <1>4, <2>1, <2>2, <2>3, <2>4 DEF ExecuteStep
<1>5. ASSUME NEW t \in Threads, AmendStep(t)
      PROVE  BrokerOnward /\ NoneUnfilled' /\ OrderKept
  <2>1. CASE CancelSend(t)
    <3>1. OrderKept
          BY <2>1 DEF CancelSend, memory
    <3>2. CASE UNCHANGED broker
          BY <1>3, <3>1, <3>2
    <3>3. CASE broker[on[t]].st = "open" /\ broker' = [broker EXCEPT ![on[t]].st = "cancelled"]
          BY <1>2, <2>1, <3>1, <3>3 DEF CancelSend, BrokerRecord
    <3> QED BY <2>1, <3>2, <3>3 DEF CancelSend
  <2>2. CASE CancelAck(t)
        BY <1>3, <2>2 DEF CancelAck, update_order_status
  <2>3. CASE ReplaceSend(t)
    <3>1. OrderKept
          BY <2>3 DEF ReplaceSend
    <3>2. CASE UNCHANGED broker
          BY <1>3, <3>1, <3>2
    <3>3. CASE broker[on[t]].st = "open" /\ broker' = [broker EXCEPT ![on[t]].qty = asked[t]]
          BY <1>2, <2>3, <3>1, <3>3 DEF ReplaceSend, BrokerRecord
    <3> QED BY <2>3, <3>2, <3>3 DEF ReplaceSend
  <2>4. CASE ReplaceAck(t)
        BY <1>3, <2>4 DEF ReplaceAck, update_order_status
  <2> QED BY <1>5, <2>1, <2>2, <2>3, <2>4 DEF AmendStep
<1>6. ASSUME NEW t \in Threads, NEW c \in Orders, NEW q \in 1..MaxQty,
             ExecuteCall(t, c) \/ CancelCall(t, c) \/ ReplaceCall(t, c, q)
      PROVE  BrokerOnward /\ NoneUnfilled' /\ OrderKept
      BY <1>3, <1>6 DEF ExecuteCall, CancelCall, ReplaceCall, memory
<1>7. ASSUME NEW c \in Orders, BrokerFill(c)
      PROVE  BrokerOnward /\ NoneUnfilled' /\ OrderKept
  <2>1. OrderKept
        BY <1>7 DEF BrokerFill, memory
  <2>2. PICK n \in 1..MaxQty : broker' = [broker EXCEPT ![c] =
                [st |-> IF @.cum + n = @.qty THEN "filled" ELSE "open",
                 cum |-> @.cum + n, qty |-> @.qty]]
        BY <1>7 DEF BrokerFill
  <2>3. /\ \A d \in Orders \ {c} : broker'[d] = broker[d]
        /\ broker'[c].cum = broker[c].cum + n /\ broker'[c].st \in {"filled", "open"}
        /\ broker[c].st = "open"
        BY <1>7, <2>2 DEF BrokerFill
  <2>4. \A d \in Orders : broker[d].cum \in Nat
        BY <1>2, QtyAssumption DEF BrokerRecord
  <2>5. BrokerOnward
        BY <2>3, <2>4
  <2>6. NoneUnfilled'
        BY <2>3
  <2> QED BY <2>1, <2>5, <2>6
<1>8. ASSUME NEW c \in Orders, BrokerClose(c)
      PROVE  BrokerOnward /\ NoneUnfilled' /\ OrderKept
  <2>1. OrderKept
        BY <1>8 DEF BrokerClose, memory
  <2> QED BY <1>2, <1>8, <2>1 DEF BrokerClose, BrokerRecord
<1>9. ASSUME Crash PROVE BrokerOnward /\ NoneUnfilled' /\ OrderKept
  <2>1. OrderKept
        BY <1>9 DEF Crash
  <2>2. UNCHANGED broker
        BY <1>9 DEF Crash
  <2> QED BY <1>3, <2>1, <2>2
<1>10. ASSUME UNCHANGED vars PROVE BrokerOnward /\ NoneUnfilled' /\ OrderKept
  <2>1. OrderKept
        BY <1>10 DEF vars
  <2>2. UNCHANGED broker
        BY <1>10 DEF vars
  <2> QED BY <1>3, <2>1, <2>2
<1>11. BrokerOnward /\ NoneUnfilled' /\ OrderKept
      BY <1>4, <1>5, <1>6, <1>7, <1>8, <1>9, <1>10, QtyAssumption DEF Next, EngineNext, BrokerNext
<1> QED BY <1>1, <1>11

\* What is true of events, updates and counters stays true while the broker
\* moves on and the pump does nothing.
LEMMA Stale ==
    ASSUME FillInv, [Next]_vars,
           inbox' \subseteq inbox, updates' \subseteq updates,
           PipeType', \A c \in Orders : fcum'[c] <= fcum[c]
    PROVE  FillInv'
<1>1. /\ EngineInv' /\ BrokerOnward
      /\ \A c \in Orders : order'[c] \in {"expired", "rejected"} => order'[c] = order[c]
      BY EngineStep DEF FillInv
<1>2. \A c \in Orders : broker[c].cum \in Nat /\ broker'[c].cum \in Nat /\ fcum[c] \in Nat
                        /\ fcum'[c] \in Nat
      BY <1>1, QtyAssumption
      DEF FillInv, EngineInv, IndType, TypeOK, PipeType, BrokerRecord
<1>3. NeverOverCounts'
      BY <1>1, <1>2 DEF FillInv, NeverOverCounts, BrokerOnward
<1>4. ClosedIsReal'
      BY <1>1 DEF FillInv, EngineInv, SafeInv, NoFalseCancel, ClosedIsReal, BrokerOnward, Closed
<1>5. \A e \in inbox : e.ord \in Orders /\ e.cum \in Nat
      BY QtyAssumption DEF FillInv, PipeType, Event
<1>6. EventsAreReal'
      BY <1>1, <1>2, <1>5 DEF FillInv, EventsAreReal, BrokerOnward, Closed
<1>7. \A u \in updates : u.ord \in Orders
      BY DEF FillInv, PipeType, Update
<1>8. UpdatesAreReal'
      BY <1>1, <1>7 DEF FillInv, UpdatesAreReal, BrokerOnward, Closed
<1> QED BY <1>1, <1>3, <1>4, <1>6, <1>8 DEF FillInv

\* A poll reports what the broker has just said.
LEMMA PollStep ==
    ASSUME FillInv, NEW c \in Orders, Poll(c)
    PROVE  FillInv'
<1>1. PICK k \in Reported(broker[c]) :
          LET new == [kind |-> k, cum |-> broker[c].cum] IN
          /\ sig[c] # new
          /\ inbox' = inbox \cup {[ord |-> c, kind |-> k, cum |-> broker[c].cum]}
          /\ IF k \in TerminalKind
             THEN /\ tracked' = tracked \ {c}
                  /\ sig' = [sig EXCEPT ![c] = NoSignature]
             ELSE /\ sig' = [sig EXCEPT ![c] = new]
                  /\ UNCHANGED tracked
      BY DEF Poll
<1>2. broker[c] \in BrokerRecord
      BY DEF FillInv, EngineInv, IndType, TypeOK
<1>3. broker[c].cum \in 0..MaxQty /\ broker[c].st \in BrokerStatus
      BY <1>2 DEF BrokerRecord
<1>4. /\ k \in EventKind
      /\ k = "canceled" => broker[c].st = "cancelled"
      /\ k \in {"expired", "rejected"} => broker[c].st = k
      BY <1>3, QtyAssumption DEF Reported, EventKind, BrokerStatus
<1>5. [ord |-> c, kind |-> k, cum |-> broker[c].cum] \in Event
      BY <1>3, <1>4 DEF Event
<1>6. sig' \in [Orders -> Signature]
      BY <1>1, <1>3, <1>4, QtyAssumption DEF Signature, NoSignature, FillInv, PipeType
<1>7. PipeType'
      BY <1>1, <1>5, <1>6 DEF Poll, handler, history, FillInv, PipeType
<1>8. EngineInv' /\ NeverOverCounts' /\ ClosedIsReal'
      BY DEF Poll, handler, vars, FillInv, EngineInv, IndType, TypeOK, BusyOnOrder, SafeInv,
             UnloggedUnsent, OwnsRow, OneSender, HeldWasSent, AckHasRow, CancelConfirmed,
             AtMostOneSubmission, NoFalseCancel, NoneUnfilled, NeverOverCounts, ClosedIsReal
<1>9. EventsAreReal'
      BY <1>1, <1>3, <1>4 DEF Poll, vars, FillInv, EventsAreReal
<1>10. UpdatesAreReal'
      BY DEF Poll, vars, FillInv, UpdatesAreReal
<1> QED BY <1>7, <1>8, <1>9, <1>10 DEF FillInv

\* Handling an event moves the handler's own counters and leaves an update.
LEMMA EventStep ==
    ASSUME FillInv, NEW e \in inbox, HandleEvent(e)
    PROVE  FillInv'
<1> DEFINE cum == NewCum(e)
           status == StatusOf(e.kind, cum, qty[e.ord])
           upd == [ord |-> e.ord, status |-> status, inc |-> cum - fcum[e.ord],
                   step |-> "status"]
<1>1. EngineInv' /\ ClosedIsReal' /\ EventsAreReal'
  <2>1. EngineInv' /\ ClosedIsReal'
        BY DEF HandleEvent, vars, FillInv, EngineInv, IndType, TypeOK, BusyOnOrder, SafeInv,
               UnloggedUnsent, OwnsRow, OneSender, HeldWasSent, AckHasRow, CancelConfirmed,
               AtMostOneSubmission, NoFalseCancel, NoneUnfilled, ClosedIsReal
  <2>2. EventsAreReal'
        BY DEF HandleEvent, vars, FillInv, EventsAreReal
  <2> QED BY <2>1, <2>2
<1>2. /\ e.ord \in Orders /\ e.kind \in EventKind /\ e.cum \in 0..MaxQty
      BY DEF FillInv, PipeType, Event
<1>3. CASE Ignored(e)
  <2>1. PipeType'
        BY <1>3 DEF HandleEvent, source, handler, history, FillInv, PipeType
  <2>2. NeverOverCounts' /\ UpdatesAreReal'
        BY <1>3 DEF HandleEvent, vars, handler, FillInv, NeverOverCounts, UpdatesAreReal
  <2> QED BY <1>1, <2>1, <2>2 DEF FillInv
<1>4. CASE ~Ignored(e)
  <2>0. /\ fcum' = [fcum EXCEPT ![e.ord] = cum]
        /\ fterm' = IF status \in TerminalStatus THEN fterm \cup {e.ord} ELSE fterm
        /\ updates' = updates \cup {upd}
        /\ UNCHANGED broker
        BY <1>4 DEF HandleEvent, vars
  <2>1. /\ cum \in 0..MaxQty /\ fcum[e.ord] \in 0..MaxQty /\ cum >= fcum[e.ord]
        /\ cum <= broker[e.ord].cum
        BY <1>2, QtyAssumption
        DEF NewCum, FillInv, PipeType, EventsAreReal, NeverOverCounts
  <2>2. /\ status \in OrderStatus /\ status # "pending"
        /\ status \in Closed => broker[e.ord].st = status
    <3>1. e.kind # "other"
          BY <1>4 DEF Ignored
    <3>2. /\ e.kind = "canceled" => broker[e.ord].st = "cancelled"
          /\ e.kind \in {"expired", "rejected"} => broker[e.ord].st = e.kind
          BY DEF FillInv, EventsAreReal
    <3> QED BY <1>2, <3>1, <3>2 DEF StatusOf, EventKind, Closed, OrderStatus
  <2> HIDE DEF cum, status
  <2>3. cum - fcum[e.ord] \in 0..MaxQty
        BY <2>1, QtyAssumption
  <2>4. upd \in Update
        BY <1>2, <2>2, <2>3 DEF Update
  <2>5. fcum' \in [Orders -> 0..MaxQty] /\ fterm' \in SUBSET Orders
        BY <1>2, <2>0, <2>1 DEF FillInv, PipeType
  <2>6. PipeType'
        BY <2>0, <2>4, <2>5 DEF HandleEvent, source, history, FillInv, PipeType
  <2>7. NeverOverCounts'
        BY <1>2, <2>0, <2>1 DEF FillInv, PipeType, NeverOverCounts
  <2>8. UpdatesAreReal'
        BY <2>0, <2>2 DEF FillInv, UpdatesAreReal
  <2> QED BY <1>1, <2>6, <2>7, <2>8 DEF FillInv
<1> QED BY <1>3, <1>4

\* Writing a status keeps what the engine relies on: rows stay, and an order
\* closed by an update was closed that way.
LEMMA StatusStep ==
    ASSUME FillInv, NEW u \in updates, HandleStatus(u)
    PROVE  FillInv'
<1>1. /\ u.ord \in Orders /\ u.status \in OrderStatus /\ u.status # "pending"
      /\ u.status \in Closed => broker[u.ord].st = u.status
      BY DEF FillInv, PipeType, Update, UpdatesAreReal
<1>2. JournalFor(u.status) \in JournalStatus
      BY <1>1 DEF JournalFor, OrderStatus, JournalStatus
<1>3. /\ order' \in [Orders -> OrderStatus \cup {"none"}]
      /\ journal' \in [Orders -> JournalStatus \cup {"absent"}]
      BY <1>1, <1>2 DEF HandleStatus, update_order_status, update_status, FillInv,
                        EngineInv, IndType, TypeOK
<1>4. /\ \A c \in Orders : journal[c] # "absent" => journal'[c] # "absent"
      /\ \A c \in Orders : order'[c] # "none" => order[c] # "none"
      /\ \A c \in Orders : order'[c] = order[c] \/ (c = u.ord /\ order'[c] = u.status)
      BY <1>1, <1>2 DEF HandleStatus, update_order_status, update_status, FillInv,
                        EngineInv, IndType, TypeOK, JournalStatus
<1>5. UNCHANGED <<entryOf, qty, orphan, broker, sends, at, on, asked, crashes>>
      BY DEF HandleStatus, threadVars
<1>6. IndType' /\ NoneUnfilled'
      BY <1>3, <1>5 DEF FillInv, EngineInv, IndType, TypeOK, BusyOnOrder, NoneUnfilled
<1>7. ClosedIsReal'
      BY <1>1, <1>4, <1>5 DEF FillInv, ClosedIsReal, Closed
<1>8. SafeInv'
  <2>1. \A c \in Orders : order[c] # "none" => journal[c] # "absent"
        BY DEF FillInv, EngineInv, SafeInv, AckHasRow
  <2>2. \A c \in Orders : journal'[c] = "absent" <=> journal[c] = "absent"
        BY <1>1, <1>4, <2>1 DEF HandleStatus, update_order_status, update_status, FillInv,
                                EngineInv, IndType, TypeOK
  <2>3. \A c \in Orders :
           \/ order'[c] = order[c]
           \/ order[c] # "none" /\ (order'[c] = "cancelled" => broker[c].st = "cancelled")
        BY <1>1, <1>4 DEF FillInv, PipeType, Update, Closed
  <2> QED BY <1>5, <2>2, <2>3, RewriteStep DEF FillInv, EngineInv
<1>9. [u EXCEPT !.step = "book"] \in Update
      BY DEF FillInv, PipeType, Update
<1>10. PipeType'
      BY <1>9 DEF HandleStatus, source, handler, history, FillInv, PipeType
<1>11. UpdatesAreReal'
  <2>1. /\ [u EXCEPT !.step = "book"].ord = u.ord
        /\ [u EXCEPT !.step = "book"].status = u.status
        BY DEF FillInv, PipeType, Update
  <2> QED BY <1>5, <2>1 DEF HandleStatus, FillInv, UpdatesAreReal
<1>12. EventsAreReal' /\ NeverOverCounts'
      BY <1>5 DEF HandleStatus, handler, FillInv, EventsAreReal, NeverOverCounts
<1> QED BY <1>6, <1>7, <1>8, <1>10, <1>11, <1>12 DEF FillInv, EngineInv

\* A journal write that raises has changed the order table as well.
LEMMA RaiseStep ==
    ASSUME FillInv, NEW u \in updates, StatusRaises(u)
    PROVE  FillInv'
<1>1. /\ u.ord \in Orders /\ u.status \in OrderStatus
      /\ u.status \in Closed => broker[u.ord].st = u.status
      BY DEF FillInv, PipeType, Update, UpdatesAreReal
<1>2. /\ order' \in [Orders -> OrderStatus \cup {"none"}]
      /\ \A c \in Orders :
            \/ order'[c] = order[c]
            \/ c = u.ord /\ order'[c] = u.status /\ order[c] # "none"
      BY <1>1 DEF StatusRaises, FillInv, EngineInv, IndType, TypeOK
<1>3. UNCHANGED <<journal, entryOf, qty, orphan, broker, sends, at, on, asked, crashes>>
      BY DEF StatusRaises, journalVars, threadVars
<1>4. IndType' /\ NoneUnfilled'
      BY <1>2, <1>3 DEF FillInv, EngineInv, IndType, TypeOK, BusyOnOrder, NoneUnfilled
<1>5. ClosedIsReal'
      BY <1>1, <1>2, <1>3 DEF FillInv, ClosedIsReal, Closed
<1>6. \A c \in Orders :
         \/ order'[c] = order[c]
         \/ order[c] # "none" /\ (order'[c] = "cancelled" => broker[c].st = "cancelled")
      BY <1>1, <1>2 DEF Closed
<1>7. \A c \in Orders : journal'[c] = "absent" <=> journal[c] = "absent"
      BY <1>3
<1>8. SafeInv'
      BY <1>3, <1>6, <1>7, RewriteStep DEF FillInv, EngineInv
<1>9. spoilt' \in SUBSET Orders
      BY <1>1 DEF StatusRaises, FillInv, PipeType, Event
<1>10. PipeType'
      BY <1>9 DEF StatusRaises, source, handler, FillInv, PipeType
<1>11. UpdatesAreReal' /\ EventsAreReal' /\ NeverOverCounts'
      BY <1>3 DEF StatusRaises, handler, FillInv, UpdatesAreReal, EventsAreReal, NeverOverCounts
<1> QED BY <1>4, <1>5, <1>8, <1>10, <1>11 DEF FillInv, EngineInv

\* The invariant holds in every behaviour of the pipeline.
THEOREM FillInvariant == FillSpec => []FillInv
<1>1. FillInit => FillInv
  <2> SUFFICES ASSUME FillInit PROVE FillInv
      OBVIOUS
  <2>1. IndType /\ SafeInv
        BY InitType, InitSafe DEF FillInit
  <2>2. NoneUnfilled
        BY DEF FillInit, Init, NoBrokerOrder, NoneUnfilled
  <2>3. PipeType
        BY QtyAssumption DEF FillInit, PipeType, Signature, NoSignature
  <2>4. EventsAreReal /\ UpdatesAreReal
        BY DEF FillInit, EventsAreReal, UpdatesAreReal
  <2>5. NeverOverCounts /\ ClosedIsReal
        BY DEF FillInit, Init, NoBrokerOrder, NeverOverCounts, ClosedIsReal
  <2> QED BY <2>1, <2>2, <2>3, <2>4, <2>5 DEF FillInv, EngineInv
<1>2. FillInv /\ [FillNext]_fillVars => FillInv'
  <2> SUFFICES ASSUME FillInv, [FillNext]_fillVars PROVE FillInv'
      OBVIOUS
  <2>0. \A c \in Orders : fcum[c] \in Nat
        BY QtyAssumption DEF FillInv, PipeType
  <2>1. ASSUME NEW t \in Threads, ClientExecute(t) PROVE FillInv'
    <3>1. Next
          BY <2>1 DEF ClientExecute, Next, EngineNext
    <3>2. tracked' \in SUBSET Orders
      <4>1. Succeeds(t) => on[t] \in Orders
            BY DEF Succeeds, FillInv, EngineInv, IndType, BusyOnOrder
      <4> QED BY <2>1, <4>1 DEF ClientExecute, FillInv, PipeType
    <3>3. PipeType'
          BY <2>1, <3>2 DEF ClientExecute, handler, history, FillInv, PipeType
    <3>4. fcum' = fcum /\ inbox' = inbox /\ updates' = updates
          BY <2>1 DEF ClientExecute, handler
    <3> QED BY <2>0, <3>1, <3>3, <3>4, Stale
  <2>2. ASSUME EngineOther \/ BrokerMoves \/ UNCHANGED fillVars PROVE FillInv'
    <3>1. [Next]_vars
          BY <2>2 DEF EngineOther, BrokerMoves, fillVars, Next, EngineNext
    <3>2. UNCHANGED pipeVars
          BY <2>2 DEF EngineOther, BrokerMoves, fillVars
    <3>3. PipeType' /\ fcum' = fcum /\ inbox' = inbox /\ updates' = updates
          BY <3>2 DEF pipeVars, FillInv, PipeType
    <3> QED BY <2>0, <3>1, <3>3, Stale
  <2>3. CASE FillCrash
    <3>1. Next
          BY <2>3 DEF FillCrash, Next
    <3>2. PipeType'
          BY <2>3, QtyAssumption DEF FillCrash, history, FillInv, PipeType, Signature, NoSignature
    <3>3. inbox' = {} /\ updates' = {} /\ \A c \in Orders : fcum'[c] <= fcum[c]
          BY <2>0, <2>3 DEF FillCrash
    <3> QED BY <3>1, <3>2, <3>3, Stale
  <2>4. ASSUME NEW u \in updates, HandleBook(u) PROVE FillInv'
    <3>1. u \in Update
          BY DEF FillInv, PipeType
    <3>2. booked' \in [Orders -> Nat]
          BY <2>4, <3>1, QtyAssumption DEF HandleBook, FillInv, PipeType, Update
    <3>3. PipeType'
          BY <2>4, <3>2 DEF HandleBook, source, handler, history, FillInv, PipeType
    <3>4. fcum' = fcum /\ inbox' = inbox /\ updates' \subseteq updates /\ UNCHANGED vars
          BY <2>4 DEF HandleBook, handler
    <3> QED BY <2>0, <3>3, <3>4, Stale
  <2>5. ASSUME NEW u \in updates, BookFails(u) PROVE FillInv'
    <3>1. PipeType'
          BY <2>5 DEF BookFails, source, handler, FillInv, PipeType, Update
    <3>2. fcum' = fcum /\ inbox' = inbox /\ updates' \subseteq updates /\ UNCHANGED vars
          BY <2>5 DEF BookFails, handler
    <3> QED BY <2>0, <3>1, <3>2, Stale
  <2>6. ASSUME NEW t \in Threads, NEW c \in Orders, NEW q \in 1..MaxQty, ClientReplace(t, c, q)
        PROVE  FillInv'
    <3>1. Next
          BY <2>6 DEF ClientReplace, Next, EngineNext
    <3>2. asks' \in [Orders -> SUBSET (1..MaxQty)]
          BY <2>6 DEF ClientReplace, FillInv, PipeType
    <3>3. PipeType'
          BY <2>6, <3>2 DEF ClientReplace, source, handler, FillInv, PipeType
    <3>4. fcum' = fcum /\ inbox' = inbox /\ updates' = updates
          BY <2>6 DEF ClientReplace, handler
    <3> QED BY <2>0, <3>1, <3>3, <3>4, Stale
  <2> QED BY <2>1, <2>2, <2>3, <2>4, <2>5, <2>6, PollStep, EventStep, StatusStep, RaiseStep
          DEF FillNext, Handle
<1> QED BY <1>1, <1>2, PTL DEF FillSpec

\* Order path and pipeline keep their types.
THEOREM FillIsTyped == FillSpec => []FillTypeOK
<1>1. FillInv => FillTypeOK
      BY DEF FillInv, EngineInv, IndType, PipeType, FillTypeOK
<1> QED BY <1>1, FillInvariant, PTL

\* The handler never counts more than the broker executed.
THEOREM CountsAreReal == FillSpec => []NeverOverCounts
<1>1. FillInv => NeverOverCounts
      BY DEF FillInv
<1> QED BY <1>1, FillInvariant, PTL

\* An order the OMS shows closed was closed that way at the broker.
THEOREM ClosureIsReal == FillSpec => []ClosedIsReal
<1>1. FillInv => ClosedIsReal
      BY DEF FillInv
<1> QED BY <1>1, FillInvariant, PTL

\* Fill reports rewrite rows and statuses and start nothing: with the pump and
\* the client beside it the engine still records an order, then sends it, once.
THEOREM FillsSubmitOnce == FillSpec => RefinesSubmitOnce
<1>1. FillInit => Once!Init
      BY InitRefines DEF FillInit
<1>2. FillInv /\ [FillNext]_fillVars => [Once!Next]_Stage
  <2> SUFFICES ASSUME FillInv, [FillNext]_fillVars PROVE [Once!Next]_Stage
      OBVIOUS
  <2>1. CASE [Next]_vars
        BY <2>1, NextRefines DEF FillInv, EngineInv
  <2>2. ASSUME NEW u \in updates, HandleStatus(u) PROVE Stage' = Stage
    <3>1. u.ord \in Orders /\ u.status \in OrderStatus \ {"pending"}
          BY DEF FillInv, PipeType, Update, UpdatesAreReal
    <3>2. JournalFor(u.status) # "absent" /\ sends' = sends
          BY <2>2, <3>1 DEF HandleStatus, JournalFor, OrderStatus
    <3>3. \A c \in Orders : journal'[c] = "absent" <=> journal[c] = "absent"
          BY <2>2, <3>1, <3>2 DEF HandleStatus, update_order_status, update_status, FillInv,
                                  EngineInv, IndType, TypeOK, SafeInv, AckHasRow
    <3> QED BY <3>2, <3>3 DEF Stage
  <2>3. ASSUME NEW u \in updates, StatusRaises(u) PROVE Stage' = Stage
        BY <2>3 DEF StatusRaises, journalVars, Stage
  <2>4. CASE Handle \/ \E c \in Orders : Poll(c)
        BY <2>1, <2>2, <2>3, <2>4 DEF Handle, Poll, HandleEvent, HandleBook, BookFails
  <2>5. CASE (\E t \in Threads : ClientExecute(t)) \/ EngineOther
        BY <2>1, <2>5 DEF ClientExecute, EngineOther, Next, EngineNext
  <2>6. ASSUME NEW t \in Threads, NEW c \in Orders, NEW q \in 1..MaxQty, ClientReplace(t, c, q)
        PROVE  Next
        BY <2>6 DEF ClientReplace, Next, EngineNext
  <2>7. CASE BrokerMoves \/ FillCrash \/ UNCHANGED fillVars
        BY <2>1, <2>7 DEF BrokerMoves, FillCrash, fillVars, Next
  <2> QED BY <2>1, <2>4, <2>5, <2>6, <2>7 DEF FillNext
<1> QED BY <1>1, <1>2, FillInvariant, PTL DEF FillSpec, RefinesSubmitOnce, Once!Spec

-----------------------------------------------------------------------------
(***************************************************************************)
(* One thing at a time: the pump has at most one event or update of an     *)
(* order under way, whatever else happens.                                 *)
(***************************************************************************)
OneUnderWay == /\ \A e, f \in inbox : e.ord = f.ord => e = f
               /\ \A u, v \in updates : u.ord = v.ord => u = v
               /\ \A e \in inbox, u \in updates : e.ord # u.ord

\* The engine or the broker moves and the pump does nothing.
Elsewhere == /\ [EngineNext \/ BrokerNext]_vars
             /\ UNCHANGED <<inbox, updates, fcum, fterm, booked>>

\* A step of the system, by the part of the pipeline that takes it.
LEMMA FillSteps ==
    ASSUME [FillNext]_fillVars
    PROVE  \/ Elsewhere
           \/ \E c \in Orders : Poll(c)
           \/ \E e \in inbox : HandleEvent(e)
           \/ \E u \in updates : HandleStatus(u)
           \/ \E u \in updates : StatusRaises(u)
           \/ \E u \in updates : HandleBook(u)
           \/ \E u \in updates : BookFails(u)
           \/ FillCrash
<1>1. ASSUME NEW t \in Threads, ClientExecute(t) PROVE Elsewhere
      BY <1>1 DEF ClientExecute, handler, Elsewhere, EngineNext
<1>2. ASSUME EngineOther PROVE Elsewhere
      BY <1>2 DEF EngineOther, pipeVars, Elsewhere, EngineNext
<1>3. ASSUME BrokerMoves PROVE Elsewhere
      BY <1>3 DEF BrokerMoves, pipeVars, Elsewhere
<1>4. ASSUME UNCHANGED fillVars PROVE Elsewhere
      BY <1>4 DEF fillVars, pipeVars, Elsewhere
<1>5. ASSUME NEW t \in Threads, NEW c \in Orders, NEW q \in 1..MaxQty, ClientReplace(t, c, q)
      PROVE  Elsewhere
      BY <1>5 DEF ClientReplace, handler, Elsewhere, EngineNext
<1> QED BY <1>1, <1>2, <1>3, <1>4, <1>5 DEF FillNext, Handle

\* Only the polling of an order with nothing under way starts something.
LEMMA OneUnderWayStep ==
    ASSUME FillInv, OneUnderWay, [FillNext]_fillVars
    PROVE  OneUnderWay'
<1>1. ASSUME Elsewhere PROVE OneUnderWay'
      BY <1>1 DEF Elsewhere, OneUnderWay
<1>2. ASSUME NEW c \in Orders, Poll(c) PROVE OneUnderWay'
  <2>1. PICK k \in Reported(broker[c]) :
            inbox' = inbox \cup {[ord |-> c, kind |-> k, cum |-> broker[c].cum]}
        BY <1>2 DEF Poll
  <2>2. updates' = updates /\ (\A e \in inbox : e.ord # c) /\ (\A u \in updates : u.ord # c)
        BY <1>2 DEF Poll, Idle
  <2> QED BY <2>1, <2>2 DEF OneUnderWay
<1>3. ASSUME NEW e \in inbox, HandleEvent(e) PROVE OneUnderWay'
  <2>1. inbox' = inbox \ {e}
        BY <1>3 DEF HandleEvent
  <2>2. updates' = updates \/ \E u : u.ord = e.ord /\ updates' = updates \cup {u}
    <3>1. CASE Ignored(e)
          BY <1>3, <3>1 DEF HandleEvent
    <3>2. CASE ~Ignored(e)
      <4> DEFINE upd == [ord |-> e.ord, status |-> StatusOf(e.kind, NewCum(e), qty[e.ord]),
                         inc |-> NewCum(e) - fcum[e.ord], step |-> "status"]
      <4>1. updates' = updates \cup {upd} /\ upd.ord = e.ord
            BY <1>3, <3>2 DEF HandleEvent
      <4> QED BY <4>1
    <3> QED BY <3>1, <3>2
  <2> QED BY <2>1, <2>2 DEF OneUnderWay
<1>4. ASSUME NEW u \in updates, HandleStatus(u) PROVE OneUnderWay'
  <2> DEFINE v == [u EXCEPT !.step = "book"]
  <2>1. v.ord = u.ord
        BY DEF FillInv, PipeType, Update
  <2>2. inbox' = inbox /\ updates' = (updates \ {u}) \cup {v}
        BY <1>4 DEF HandleStatus
  <2> HIDE DEF v
  <2> QED BY <2>1, <2>2 DEF OneUnderWay
<1>5. ASSUME NEW u \in updates, HandleBook(u) \/ BookFails(u) PROVE OneUnderWay'
      BY <1>5 DEF HandleBook, BookFails, OneUnderWay
<1>6. ASSUME NEW u \in updates, StatusRaises(u) PROVE OneUnderWay'
      BY <1>6 DEF StatusRaises, OneUnderWay
<1>7. ASSUME FillCrash PROVE OneUnderWay'
      BY <1>7 DEF FillCrash, OneUnderWay
<1> QED BY <1>1, <1>2, <1>3, <1>4, <1>5, <1>6, <1>7, FillSteps

\* In every behaviour, an order has at most one event or update under way.
LEMMA OneUnderWayInvariant == FillSpec => [](FillInv /\ OneUnderWay)
<1>1. FillInit => OneUnderWay
      BY DEF FillInit, OneUnderWay
<1>2. FillInv /\ OneUnderWay /\ [FillNext]_fillVars => OneUnderWay'
      BY OneUnderWayStep
<1> QED BY <1>1, <1>2, FillInvariant, PTL DEF FillSpec

-----------------------------------------------------------------------------
(***************************************************************************)
(* The ledger.  A process books what its handler counts, less the          *)
(* increment of the update under way.  A restart empties the counters and  *)
(* not the ledger, so what earlier processes booked comes on top: at most  *)
(* what the broker executed, once for each of them.                        *)
(***************************************************************************)
Earlier(c) == crashes * broker[c].cum

BookInv == /\ \A c \in Orders : (\A u \in updates : u.ord # c)
                                   => booked[c] <= Earlier(c) + fcum[c]
           /\ \A u \in updates :
                 booked[u.ord] + u.inc <= Earlier(u.ord) + fcum[u.ord]

\* The numbers in the invariant.
LEMMA BookTypes ==
    ASSUME FillInv
    PROVE  /\ crashes \in Nat
           /\ \A c \in Orders : /\ fcum[c] \in Nat /\ booked[c] \in Nat
                                 /\ broker[c].cum \in Nat /\ Earlier(c) \in Nat
           /\ \A u \in updates : u.ord \in Orders /\ u.inc \in Nat
<1>1. crashes \in Nat /\ \A c \in Orders : broker[c].cum \in Nat
      BY QtyAssumption, CrashAssumption
      DEF FillInv, EngineInv, IndType, TypeOK, BrokerRecord
<1>2. \A m, n \in Nat : m * n \in Nat
      OBVIOUS
<1>3. \A c \in Orders : Earlier(c) \in Nat
      BY <1>1, <1>2 DEF Earlier
<1> QED BY <1>1, <1>3, QtyAssumption DEF FillInv, PipeType, Update

\* Whether or not an update is under way, the ledger is within the account.
LEMMA Accounted ==
    ASSUME FillInv, BookInv, NEW c \in Orders
    PROVE  booked[c] <= Earlier(c) + fcum[c]
<1>1. CASE \A u \in updates : u.ord # c
      BY <1>1 DEF BookInv
<1>2. ASSUME NEW u \in updates, u.ord = c PROVE booked[c] <= Earlier(c) + fcum[c]
      BY <1>2, BookTypes DEF BookInv
<1> QED BY <1>1, <1>2

\* What earlier processes may have booked grows with the broker's executions,
\* and by all of them at a restart.
LEMMA EarlierGrows ==
    ASSUME NEW k \in Nat, NEW m \in Nat, NEW n \in Nat, m <= n
    PROVE  k * m <= k * n /\ (k + 1) * m = k * m + m
<1>1. PICK d \in Nat : n = m + d
  <2>1. n - m \in Nat /\ n = m + (n - m)
        OBVIOUS
  <2> QED BY <2>1
<1>2. k * (m + d) = k * m + k * d /\ k * d \in Nat /\ k * m \in Nat
      OBVIOUS
<1>3. k * m <= k * n
      BY <1>1, <1>2
<1>4. (k + 1) * m = k * m + m
      OBVIOUS
<1> QED BY <1>3, <1>4

\* Counting, writing the status, booking and restarting keep the account.
LEMMA BookStep ==
    ASSUME FillInv, OneUnderWay, BookInv, [FillNext]_fillVars, FillInv'
    PROVE  BookInv'
<1>0. /\ \A c \in Orders : fcum[c] \in Nat /\ booked[c] \in Nat /\ Earlier(c) \in Nat
      /\ \A c \in Orders : Earlier(c)' \in Nat
      /\ \A u \in updates : u.ord \in Orders /\ u.inc \in Nat
  <2>1. \A c \in Orders : Earlier(c)' \in Nat
    <3>1. crashes' \in Nat /\ \A c \in Orders : broker'[c].cum \in Nat
          BY QtyAssumption, CrashAssumption
          DEF FillInv, EngineInv, IndType, TypeOK, BrokerRecord
    <3>2. \A m, n \in Nat : m * n \in Nat
          OBVIOUS
    <3> QED BY <3>1, <3>2 DEF Earlier
  <2> QED BY <2>1, BookTypes
<1>1. ASSUME Elsewhere PROVE BookInv'
  <2>1. crashes' = crashes
    <3>1. ASSUME NEW t \in Threads, ExecuteStep(t) PROVE crashes' = crashes
          BY <3>1 DEF ExecuteStep, ExecuteCheck, ExecuteLookup, ExecuteRecover, ExecuteLog,
                      ExecuteSend, ExecuteAckOk, ExecuteAckFail
    <3>2. ASSUME NEW t \in Threads, AmendStep(t) PROVE crashes' = crashes
          BY <3>2 DEF AmendStep, CancelSend, CancelAck, ReplaceSend, ReplaceAck
    <3>3. ASSUME NEW t \in Threads, NEW c \in Orders, NEW q \in 1..MaxQty,
                 ExecuteCall(t, c) \/ CancelCall(t, c) \/ ReplaceCall(t, c, q)
          PROVE  crashes' = crashes
          BY <3>3 DEF ExecuteCall, CancelCall, ReplaceCall
    <3>4. ASSUME BrokerNext PROVE crashes' = crashes
          BY <3>4 DEF BrokerNext, BrokerFill, BrokerClose
    <3>5. 1 \in 1..MaxQty
          BY QtyAssumption
    <3> QED BY <1>1, <3>1, <3>2, <3>3, <3>4, <3>5 DEF Elsewhere, EngineNext, vars
  <2>2. \A c \in Orders : broker[c].cum <= broker'[c].cum
        BY <1>1, EngineStep DEF Elsewhere, Next, FillInv, BrokerOnward
  <2>3. ASSUME NEW c \in Orders PROVE Earlier(c) <= Earlier(c)'
    <3>1. crashes \in Nat /\ broker[c].cum \in Nat /\ broker'[c].cum \in Nat
      <4>1. broker'[c].cum \in Nat
            BY QtyAssumption DEF FillInv, EngineInv, IndType, TypeOK, BrokerRecord
      <4> QED BY <4>1, BookTypes
    <3>2. crashes * broker[c].cum <= crashes * broker'[c].cum
          BY <2>2, <3>1, EarlierGrows
    <3> QED BY <2>1, <3>2 DEF Earlier
  <2>4. UNCHANGED <<updates, fcum, booked>>
        BY <1>1 DEF Elsewhere
  <2>5. ASSUME NEW c \in Orders, \A u \in updates : u.ord # c
        PROVE  booked'[c] <= Earlier(c)' + fcum'[c]
    <3>1. booked[c] <= Earlier(c) + fcum[c]
          BY <2>5 DEF BookInv
    <3> QED BY <1>0, <2>3, <2>4, <3>1
  <2>6. ASSUME NEW u \in updates
        PROVE  booked'[u.ord] + u.inc <= Earlier(u.ord)' + fcum'[u.ord]
    <3>1. booked[u.ord] + u.inc <= Earlier(u.ord) + fcum[u.ord] /\ u.ord \in Orders
          BY <1>0 DEF BookInv
    <3> QED BY <1>0, <2>3, <2>4, <3>1
  <2> QED BY <2>4, <2>5, <2>6 DEF BookInv
<1>2. ASSUME NEW c \in Orders, Poll(c) PROVE BookInv'
      BY <1>2 DEF Poll, vars, handler, BookInv, Earlier
<1>3. ASSUME NEW e \in inbox, HandleEvent(e) PROVE BookInv'
  <2>1. CASE Ignored(e)
        BY <1>3, <2>1 DEF HandleEvent, vars, handler, BookInv, Earlier
  <2>2. CASE ~Ignored(e)
    <3> DEFINE cum == NewCum(e)
               status == StatusOf(e.kind, cum, qty[e.ord])
               upd == [ord |-> e.ord, status |-> status, inc |-> cum - fcum[e.ord],
                       step |-> "status"]
    <3>1. /\ fcum' = [fcum EXCEPT ![e.ord] = cum] /\ updates' = updates \cup {upd}
          /\ booked' = booked /\ \A c \in Orders : Earlier(c)' = Earlier(c)
          BY <1>3, <2>2 DEF HandleEvent, vars, Earlier
    <3>2. upd.ord = e.ord /\ upd.inc = cum - fcum[e.ord]
          OBVIOUS
    <3>3. e.ord \in Orders /\ cum \in Nat
          BY QtyAssumption DEF NewCum, FillInv, PipeType, Event
    <3> HIDE DEF cum, status, upd
    <3>4. \A u \in updates : u.ord # e.ord
          BY DEF OneUnderWay
    <3>5. booked[e.ord] <= Earlier(e.ord) + fcum[e.ord]
          BY <3>3, <3>4 DEF BookInv
    <3>6. /\ fcum'[e.ord] = cum
          /\ \A c \in Orders \ {e.ord} : fcum'[c] = fcum[c]
          BY <3>1, <3>3 DEF FillInv, PipeType
    <3>7. ASSUME NEW u \in updates'
          PROVE  booked'[u.ord] + u.inc <= Earlier(u.ord)' + fcum'[u.ord]
      <4>1. booked[e.ord] + upd.inc <= Earlier(e.ord) + cum
            BY <1>0, <3>2, <3>3, <3>5
      <4>2. CASE u = upd
            BY <3>1, <3>2, <3>3, <3>6, <4>1, <4>2
      <4>3. CASE u \in updates
            BY <1>0, <3>1, <3>4, <3>6, <4>3 DEF BookInv
      <4> QED BY <3>1, <4>2, <4>3
    <3>8. ASSUME NEW c \in Orders, \A u \in updates' : u.ord # c
          PROVE  booked'[c] <= Earlier(c)' + fcum'[c]
      <4>1. c # e.ord /\ \A u \in updates : u.ord # c
            BY <3>1, <3>2, <3>8
      <4> QED BY <3>1, <3>6, <4>1 DEF BookInv
    <3> QED BY <3>7, <3>8 DEF BookInv
  <2> QED BY <2>1, <2>2
<1>4. ASSUME NEW u \in updates, HandleStatus(u) PROVE BookInv'
  <2> DEFINE v == [u EXCEPT !.step = "book"]
  <2>1. v.ord = u.ord /\ v.inc = u.inc
        BY DEF FillInv, PipeType, Update
  <2>2. /\ updates' = (updates \ {u}) \cup {v}
        /\ UNCHANGED <<fcum, booked, broker, crashes>>
        BY <1>4 DEF HandleStatus, handler
  <2> HIDE DEF v
  <2> QED BY <2>1, <2>2 DEF BookInv, Earlier
<1>5. ASSUME NEW u \in updates, HandleBook(u) PROVE BookInv'
  <2>1. /\ updates' = updates \ {u} /\ UNCHANGED fcum
        /\ booked' = [booked EXCEPT ![u.ord] = @ + u.inc]
        /\ \A c \in Orders : Earlier(c)' = Earlier(c)
        BY <1>5 DEF HandleBook, handler, vars, Earlier
  <2>2. /\ booked'[u.ord] = booked[u.ord] + u.inc
        /\ \A c \in Orders \ {u.ord} : booked'[c] = booked[c]
        BY <1>0, <2>1 DEF FillInv, PipeType
  <2>3. \A v \in updates' : v \in updates /\ v.ord # u.ord
        BY <2>1 DEF OneUnderWay
  <2>4. ASSUME NEW v \in updates'
        PROVE  booked'[v.ord] + v.inc <= Earlier(v.ord)' + fcum'[v.ord]
    <3>1. v \in updates /\ v.ord \in Orders \ {u.ord}
          BY <1>0, <2>3
    <3> QED BY <2>1, <2>2, <3>1 DEF BookInv
  <2>5. ASSUME NEW c \in Orders, \A v \in updates' : v.ord # c
        PROVE  booked'[c] <= Earlier(c)' + fcum'[c]
    <3>1. CASE c = u.ord
          BY <2>1, <2>2, <3>1 DEF BookInv
    <3>2. CASE c # u.ord
      <4>1. \A v \in updates : v.ord # c
            BY <2>1, <2>5, <3>2
      <4> QED BY <2>1, <2>2, <3>2, <4>1 DEF BookInv
    <3> QED BY <3>1, <3>2
  <2> QED BY <2>4, <2>5 DEF BookInv
<1>6. ASSUME FillCrash PROVE BookInv'
  <2>1. /\ updates' = {} /\ UNCHANGED <<booked, broker>> /\ crashes' = crashes + 1
        BY <1>6 DEF FillCrash, Crash
  <2>2. ASSUME NEW c \in Orders PROVE booked'[c] <= Earlier(c)' + fcum'[c]
    <3>1. fcum'[c] = 0
          BY <1>6 DEF FillCrash
    <3>2. crashes \in Nat /\ broker[c].cum \in Nat
          BY BookTypes
    <3>3. (crashes + 1) * broker[c].cum = crashes * broker[c].cum + broker[c].cum
          BY <3>2, EarlierGrows
    <3>4. Earlier(c)' = Earlier(c) + broker[c].cum
          BY <2>1, <3>3 DEF Earlier
    <3>5. booked[c] <= Earlier(c) + fcum[c] /\ fcum[c] <= broker[c].cum
          BY Accounted DEF FillInv, NeverOverCounts
    <3> QED BY <1>0, <2>1, <3>1, <3>2, <3>4, <3>5
  <2> QED BY <2>1, <2>2 DEF BookInv
<1>7. ASSUME NEW u \in updates, StatusRaises(u) \/ BookFails(u) PROVE BookInv'
  <2>1. /\ updates' = updates \ {u} /\ UNCHANGED <<fcum, booked>>
        /\ \A c \in Orders : Earlier(c)' = Earlier(c)
        BY <1>7 DEF StatusRaises, BookFails, handler, vars, Earlier
  <2>2. \A v \in updates' : v \in updates /\ v.ord \in Orders
        BY <1>0, <2>1
  <2>3. \A v \in updates' : booked'[v.ord] + v.inc <= Earlier(v.ord)' + fcum'[v.ord]
        BY <2>1, <2>2 DEF BookInv
  <2>4. \A c \in Orders : booked'[c] <= Earlier(c)' + fcum'[c]
        BY <2>1, Accounted
  <2> QED BY <2>3, <2>4 DEF BookInv
<1> QED BY <1>1, <1>2, <1>3, <1>4, <1>5, <1>6, <1>7, FillSteps

\* The account is kept in every behaviour of the pipeline.
LEMMA BookInvariant == FillSpec => [](FillInv /\ BookInv)
<1>1. FillInit => BookInv
  <2> SUFFICES ASSUME FillInit PROVE BookInv
      OBVIOUS
  <2>1. \A c \in Orders : booked[c] = 0 /\ fcum[c] = 0 /\ Earlier(c) = 0
    <3>1. \A c \in Orders : crashes = 0 /\ broker[c].cum = 0
          BY DEF FillInit, Init, NoBrokerOrder
    <3>2. 0 * 0 = 0
          OBVIOUS
    <3> QED BY <3>1, <3>2 DEF FillInit, Earlier
  <2> QED BY <2>1 DEF FillInit, BookInv
<1>2. FillInv /\ OneUnderWay /\ BookInv /\ [FillNext]_fillVars /\ FillInv' => BookInv'
      BY BookStep
<1> QED BY <1>1, <1>2, OneUnderWayInvariant, PTL DEF FillSpec

\* A process books an execution at most once, for any orders, threads,
\* amendments and restarts.
THEOREM BooksAreReal == FillSpec => []BookedOnce
<1>1. FillInv /\ BookInv => BookedOnce
  <2> SUFFICES ASSUME FillInv, BookInv, NEW c \in Orders
               PROVE  booked[c] <= (crashes + 1) * broker[c].cum
      BY DEF BookedOnce
  <2>1. booked[c] <= Earlier(c) + fcum[c] /\ fcum[c] <= broker[c].cum
        BY Accounted DEF FillInv, NeverOverCounts
  <2>2. /\ crashes \in Nat /\ fcum[c] \in Nat /\ booked[c] \in Nat
        /\ broker[c].cum \in Nat /\ Earlier(c) \in Nat
        BY BookTypes
  <2>3. (crashes + 1) * broker[c].cum = crashes * broker[c].cum + broker[c].cum
        BY <2>2, EarlierGrows
  <2>4. (crashes + 1) * broker[c].cum = Earlier(c) + broker[c].cum
        BY <2>3 DEF Earlier
  <2> QED BY <2>1, <2>2, <2>4
<1> QED BY <1>1, BookInvariant, PTL

\* As long as the process is not restarted, the ledger holds no quantity the
\* broker did not execute.
THEOREM LedgerHoldsExecutions ==
    FillSpec => [](crashes = 0 => \A c \in Orders : booked[c] <= broker[c].cum)
<1>1. FillInv /\ BookedOnce => (crashes = 0 => \A c \in Orders : booked[c] <= broker[c].cum)
  <2> SUFFICES ASSUME FillInv, BookedOnce, crashes = 0, NEW c \in Orders
               PROVE  booked[c] <= broker[c].cum
      OBVIOUS
  <2>1. booked[c] <= (0 + 1) * broker[c].cum /\ broker[c].cum \in Nat
        BY BookTypes DEF BookedOnce
  <2>2. (0 + 1) * broker[c].cum = broker[c].cum
        BY <2>1
  <2> QED BY <2>1, <2>2
<1> QED BY <1>1, FillInvariant, BooksAreReal, PTL

-----------------------------------------------------------------------------
(***************************************************************************)
(* FILLED.  The handler compares the broker's cumulative quantity with the *)
(* quantity the engine remembers.  Amendments make the two parties differ, *)
(* but each of them holds a quantity that was asked for.                   *)
(***************************************************************************)
Amending == {"replaceSend", "replaceAck"}

\* What engine, amendments and broker believe the quantity to be was asked for.
QtyAsked == \A c \in Orders : /\ InitQty \in asks[c] /\ broker[c].qty \in asks[c]
                              /\ order[c] # "none" => qty[c] \in asks[c]
AmendAsked == \A t \in Threads : at[t] \in Amending => asked[t] \in asks[on[t]]

\* The broker executes what it holds, and an order it has not filled has
\* something left.
LeavesOpen == \A c \in Orders :
    /\ broker[c].cum <= broker[c].qty
    /\ broker[c].st # "filled" => broker[c].cum # broker[c].qty

AskInv == QtyAsked /\ AmendAsked /\ LeavesOpen

\* The executions of c have reached a quantity asked for.
Reached(c) == \E q \in asks[c] : broker[c].cum >= q

FilledInv == /\ \A c \in Orders : order[c] = "filled" => Reached(c)
             /\ \A u \in updates : u.status = "filled" => Reached(u.ord)

\* A step of the engine other than the call of replace_order keeps AskInv.
LEMMA AskEngineStep ==
    ASSUME EngineInv, AskInv, UNCHANGED asks, NEW t \in Threads,
           \/ ExecuteStep(t) \/ AmendStep(t)
           \/ \E c \in Orders : ExecuteCall(t, c) \/ CancelCall(t, c)
    PROVE  AskInv'
<1> USE DEF EngineInv, IndType, TypeOK, BusyOnOrder, AskInv, QtyAsked, AmendAsked,
            LeavesOpen, Amending
<1>0. \A c \in Orders : broker[c] \in BrokerRecord
      OBVIOUS
<1>1. CASE ExecuteCheck(t)
      BY <1>1 DEF ExecuteCheck, Goto, memory
<1>2. CASE ExecuteLookup(t)
      BY <1>2 DEF ExecuteLookup, Goto, Return, memory
<1>3. CASE ExecuteRecover(t)
      BY <1>3 DEF ExecuteRecover, Track, Return
<1>4. CASE ExecuteLog(t)
      BY <1>4 DEF ExecuteLog, Goto, Return, memory
<1>5. CASE ExecuteSend(t)
  <2>1. on[t] \in Orders
        BY <1>5 DEF ExecuteSend
  <2>2. UNCHANGED <<order, qty>> /\ AmendAsked'
        BY <1>5 DEF ExecuteSend, memory, Goto, Return
  <2>3. CASE UNCHANGED broker
        BY <2>2, <2>3
  <2>4. CASE BrokerAccepts(on[t])
    <3>1. /\ broker'[on[t]] = [st |-> "open", cum |-> 0, qty |-> InitQty]
          /\ \A c \in Orders \ {on[t]} : broker'[c] = broker[c]
          BY <2>1, <2>4 DEF BrokerAccepts
    <3>2. /\ broker'[on[t]].qty = InitQty /\ broker'[on[t]].cum = 0 /\ 0 <= InitQty
          /\ 0 # InitQty
          BY <3>1, QtyAssumption
    <3> QED BY <2>2, <3>1, <3>2
  <2> QED BY <1>5, <2>3, <2>4 DEF ExecuteSend
<1>6. CASE ExecuteAckOk(t)
      BY <1>6 DEF ExecuteAckOk, Track, Return
<1>7. CASE ExecuteAckFail(t)
      BY <1>7 DEF ExecuteAckFail, Return, memory
<1>8. CASE CancelSend(t)
  <2>1. UNCHANGED <<order, qty>> /\ AmendAsked' /\ on[t] \in Orders
        BY <1>8 DEF CancelSend, memory, Goto, Return
  <2>2. CASE UNCHANGED broker
        BY <2>1, <2>2
  <2>3. CASE broker[on[t]].st = "open" /\ broker' = [broker EXCEPT ![on[t]].st = "cancelled"]
    <3>1. /\ \A c \in Orders : broker'[c].qty = broker[c].qty /\ broker'[c].cum = broker[c].cum
          /\ \A c \in Orders : c # on[t] => broker'[c].st = broker[c].st
          BY <1>0, <2>1, <2>3 DEF BrokerRecord
    <3>2. broker[on[t]].st # "filled"
          BY <2>3
    <3> QED BY <2>1, <3>1, <3>2
  <2> QED BY <1>8, <2>2, <2>3 DEF CancelSend
<1>9. CASE CancelAck(t)
      BY <1>9 DEF CancelAck, update_order_status, Return
<1>10. CASE ReplaceSend(t)
  <2>1. UNCHANGED <<order, qty>> /\ AmendAsked' /\ on[t] \in Orders
        /\ asked[t] \in asks[on[t]]
        BY <1>10 DEF ReplaceSend, Goto, Return
  <2>2. CASE UNCHANGED broker
        BY <2>1, <2>2
  <2>3. CASE /\ asked[t] > broker[on[t]].cum
             /\ broker' = [broker EXCEPT ![on[t]].qty = asked[t]]
    <3>1. /\ broker'[on[t]].qty = asked[t] /\ broker'[on[t]].cum = broker[on[t]].cum
          /\ \A c \in Orders \ {on[t]} : broker'[c] = broker[c]
          BY <1>0, <2>1, <2>3 DEF BrokerRecord
    <3>2. asked[t] \in Nat /\ broker[on[t]].cum \in Nat
          BY <1>0, <2>1, QtyAssumption DEF BrokerRecord
    <3>3. broker'[on[t]].cum <= broker'[on[t]].qty /\ broker'[on[t]].cum # broker'[on[t]].qty
          BY <2>3, <3>1, <3>2
    <3> QED BY <2>1, <3>1, <3>3
  <2> QED BY <1>10, <2>2, <2>3 DEF ReplaceSend
<1>11. CASE ReplaceAck(t)
  <2>1. on[t] \in Orders /\ asked[t] \in asks[on[t]] /\ UNCHANGED broker
        BY <1>11 DEF ReplaceAck
  <2>2. AmendAsked'
        BY <1>11 DEF ReplaceAck, Return
  <2>3. \A c \in Orders : /\ order'[c] # "none" => order[c] # "none"
                          /\ qty'[c] = qty[c] \/ (c = on[t] /\ qty'[c] = asked[t])
        BY <1>11, <2>1 DEF ReplaceAck, update_order_status
  <2> QED BY <2>1, <2>2, <2>3
<1>12. ASSUME NEW c \in Orders, ExecuteCall(t, c) \/ CancelCall(t, c) PROVE AskInv'
      BY <1>12 DEF ExecuteCall, CancelCall, memory
<1> QED BY <1>1, <1>2, <1>3, <1>4, <1>5, <1>6, <1>7, <1>8, <1>9, <1>10, <1>11, <1>12
        DEF ExecuteStep, AmendStep

\* The broker's own moves keep AskInv.
LEMMA AskBrokerStep ==
    ASSUME EngineInv, AskInv, UNCHANGED asks, BrokerNext
    PROVE  AskInv'
<1> USE DEF EngineInv, IndType, TypeOK, AskInv, QtyAsked, AmendAsked, LeavesOpen
<1>0. \A c \in Orders : broker[c] \in BrokerRecord
      OBVIOUS
<1>1. UNCHANGED <<order, qty, at, on, asked>>
      BY DEF BrokerNext, BrokerFill, BrokerClose, memory, threadVars
<1>2. ASSUME NEW c \in Orders, BrokerFill(c) PROVE AskInv'
  <2>1. PICK n \in 1..MaxQty :
              /\ broker[c].cum + n <= broker[c].qty
              /\ broker' = [broker EXCEPT ![c] =
                   [st |-> IF @.cum + n = @.qty THEN "filled" ELSE "open",
                    cum |-> @.cum + n, qty |-> @.qty]]
        BY <1>2 DEF BrokerFill
  <2>2. /\ \A d \in Orders \ {c} : broker'[d] = broker[d]
        /\ broker'[c].cum = broker[c].cum + n /\ broker'[c].qty = broker[c].qty
        /\ broker[c].cum + n = broker[c].qty => broker'[c].st = "filled"
        BY <2>1
  <2> QED BY <1>1, <2>1, <2>2
<1>3. ASSUME NEW c \in Orders, BrokerClose(c) PROVE AskInv'
  <2>1. /\ \A d \in Orders : broker'[d].qty = broker[d].qty /\ broker'[d].cum = broker[d].cum
        /\ \A d \in Orders : d # c => broker'[d].st = broker[d].st
        /\ broker[c].st = "open"
        BY <1>0, <1>3 DEF BrokerClose, BrokerRecord
  <2> QED BY <1>1, <2>1
<1> QED BY <1>2, <1>3 DEF BrokerNext

\* What is asked for only grows, and every step keeps AskInv.
LEMMA AskStep ==
    ASSUME FillInv, AskInv, [FillNext]_fillVars
    PROVE  AskInv' /\ \A c \in Orders : asks[c] \subseteq asks'[c]
<1>1. ASSUME NEW t \in Threads, ClientExecute(t) PROVE AskInv' /\ UNCHANGED asks
      BY <1>1, AskEngineStep DEF ClientExecute, history, FillInv
<1>2. ASSUME EngineOther PROVE AskInv' /\ UNCHANGED asks
      BY <1>2, AskEngineStep DEF EngineOther, pipeVars, FillInv
<1>3. ASSUME BrokerMoves PROVE AskInv' /\ UNCHANGED asks
      BY <1>3, AskBrokerStep DEF BrokerMoves, pipeVars, FillInv
<1>4. ASSUME NEW t \in Threads, NEW c \in Orders, NEW q \in 1..MaxQty, ClientReplace(t, c, q)
      PROVE  AskInv' /\ \A d \in Orders : asks[d] \subseteq asks'[d]
  <2>1. /\ at' = [at EXCEPT ![t] = "replaceSend"] /\ on' = [on EXCEPT ![t] = c]
        /\ asked' = [asked EXCEPT ![t] = q] /\ UNCHANGED <<order, qty, broker>>
        /\ asks' = [asks EXCEPT ![c] = @ \cup {q}]
        BY <1>4 DEF ClientReplace, ReplaceCall, memory
  <2>2. /\ at \in [Threads -> Steps] /\ on \in [Threads -> Orders \cup {NoOrder}]
        /\ asked \in [Threads -> 0..MaxQty] /\ asks \in [Orders -> SUBSET (1..MaxQty)]
        /\ \A u \in Threads : at[u] # "idle" => on[u] \in Orders
        BY DEF FillInv, EngineInv, IndType, TypeOK, BusyOnOrder, PipeType
  <2>3. q \in asks'[c] /\ \A d \in Orders : asks[d] \subseteq asks'[d]
        BY <2>1, <2>2
  <2>4. AmendAsked'
    <3>1. ASSUME NEW u \in Threads, at'[u] \in Amending PROVE asked'[u] \in asks'[on'[u]]
      <4>1. CASE u = t
            BY <2>1, <2>2, <2>3, <4>1
      <4>2. CASE u # t
        <5>1. at'[u] = at[u] /\ on'[u] = on[u] /\ asked'[u] = asked[u]
              BY <2>1, <2>2, <4>2
        <5>2. on[u] \in Orders /\ asked[u] \in asks[on[u]]
              BY <2>2, <3>1, <5>1 DEF AskInv, AmendAsked, Amending
        <5> QED BY <2>3, <5>1, <5>2
      <4> QED BY <4>1, <4>2
    <3> QED BY <3>1 DEF AmendAsked
  <2>5. QtyAsked' /\ LeavesOpen'
        BY <2>1, <2>3 DEF AskInv, QtyAsked, LeavesOpen
  <2> QED BY <2>3, <2>4, <2>5 DEF AskInv
<1>5. ASSUME FillCrash PROVE AskInv' /\ UNCHANGED asks
      BY <1>5 DEF FillCrash, Crash, history, AskInv, QtyAsked, AmendAsked, LeavesOpen, Amending
<1>6. ASSUME UNCHANGED <<order, qty, broker, at, on, asked, asks>> PROVE AskInv'
      BY <1>6 DEF AskInv, QtyAsked, AmendAsked, LeavesOpen
<1>7. ASSUME NEW c \in Orders, Poll(c) PROVE AskInv' /\ UNCHANGED asks
      BY <1>6, <1>7 DEF Poll, vars, history
<1>8. ASSUME NEW e \in inbox, HandleEvent(e) PROVE AskInv' /\ UNCHANGED asks
      BY <1>6, <1>8 DEF HandleEvent, vars, history
<1>9. ASSUME NEW u \in updates, HandleBook(u) \/ BookFails(u) PROVE AskInv' /\ UNCHANGED asks
      BY <1>6, <1>9 DEF HandleBook, BookFails, vars, history
<1>10. ASSUME NEW u \in updates, HandleStatus(u) \/ StatusRaises(u)
       PROVE  AskInv' /\ UNCHANGED asks
  <2>1. UNCHANGED <<qty, broker, at, on, asked, asks>>
        BY <1>10 DEF HandleStatus, StatusRaises, threadVars, history
  <2>2. \A c \in Orders : order'[c] # "none" => order[c] # "none"
        BY <1>10 DEF HandleStatus, update_order_status, StatusRaises, FillInv, PipeType, Update,
                     EngineInv, IndType, TypeOK
  <2> QED BY <2>1, <2>2 DEF AskInv, QtyAsked, AmendAsked, LeavesOpen
<1>11. ASSUME UNCHANGED fillVars PROVE AskInv' /\ UNCHANGED asks
      BY <1>6, <1>11 DEF fillVars, vars, pipeVars
<1> QED BY <1>1, <1>2, <1>3, <1>4, <1>5, <1>7, <1>8, <1>9, <1>10, <1>11 DEF FillNext, Handle

\* No step of the engine or of the broker makes an order FILLED.
LEMMA EngineMakesNoFill ==
    ASSUME EngineInv, [EngineNext \/ BrokerNext]_vars
    PROVE  \A c \in Orders : order'[c] = "filled" => order[c] = "filled"
<1> USE DEF EngineInv, IndType, TypeOK, BusyOnOrder
<1>1. ASSUME NEW t \in Threads, ExecuteStep(t)
      PROVE  \A c \in Orders : order'[c] = "filled" => order[c] = "filled"
      BY <1>1 DEF ExecuteStep, ExecuteCheck, ExecuteLookup, ExecuteRecover, ExecuteLog,
                  ExecuteSend, ExecuteAckOk, ExecuteAckFail, Track, memory
<1>2. ASSUME NEW t \in Threads, AmendStep(t)
      PROVE  \A c \in Orders : order'[c] = "filled" => order[c] = "filled"
      BY <1>2 DEF AmendStep, CancelSend, CancelAck, ReplaceSend, ReplaceAck,
                  update_order_status, memory
<1>3. ASSUME NEW t \in Threads, NEW c \in Orders, NEW q \in 1..MaxQty,
             ExecuteCall(t, c) \/ CancelCall(t, c) \/ ReplaceCall(t, c, q)
      PROVE  UNCHANGED order
      BY <1>3 DEF ExecuteCall, CancelCall, ReplaceCall, memory
<1>4. ASSUME BrokerNext PROVE UNCHANGED order
      BY <1>4 DEF BrokerNext, BrokerFill, BrokerClose, memory
<1>5. ASSUME UNCHANGED vars PROVE UNCHANGED order
      BY <1>5 DEF vars
<1>6. 1 \in 1..MaxQty
      BY QtyAssumption
<1> QED BY <1>1, <1>2, <1>3, <1>4, <1>5, <1>6 DEF EngineNext

\* A status FILLED is decided only when a quantity asked for was executed.
LEMMA FilledStep ==
    ASSUME FillInv, AskInv, FilledInv, [FillNext]_fillVars
    PROVE  FilledInv'
<1>0. \A u \in updates : u.ord \in Orders
      BY DEF FillInv, PipeType, Update
<1>1. ASSUME [Next]_vars, updates' \subseteq updates,
             \A c \in Orders : order'[c] = "filled" => order[c] = "filled"
      PROVE  FilledInv'
  <2>1. \A c \in Orders : /\ broker[c].cum <= broker'[c].cum
                          /\ broker[c].cum \in Nat /\ broker'[c].cum \in Nat
    <3>1. EngineInv' /\ BrokerOnward
          BY <1>1, EngineStep DEF FillInv
    <3> QED BY <3>1, QtyAssumption
            DEF BrokerOnward, FillInv, EngineInv, IndType, TypeOK, BrokerRecord
  <2>2. \A c \in Orders : asks[c] \subseteq asks'[c] /\ asks[c] \subseteq Nat
        BY AskStep, QtyAssumption DEF FillInv, PipeType
  <2>3. \A c \in Orders : Reached(c) => Reached(c)'
    <3> SUFFICES ASSUME NEW c \in Orders, NEW q \in asks[c], broker[c].cum >= q
                 PROVE  Reached(c)'
        BY DEF Reached
    <3>1. q \in asks'[c] /\ q \in Nat /\ broker'[c].cum >= q
          BY <2>1, <2>2
    <3> QED BY <3>1 DEF Reached
  <2> QED BY <1>0, <1>1, <2>3 DEF FilledInv
<1>2. ASSUME Elsewhere PROVE FilledInv'
  <2>1. \A c \in Orders : order'[c] = "filled" => order[c] = "filled"
        BY <1>2, EngineMakesNoFill DEF Elsewhere, FillInv
  <2> QED BY <1>1, <1>2, <2>1 DEF Elsewhere, Next
<1>3. ASSUME NEW c \in Orders, Poll(c) PROVE FilledInv'
      BY <1>1, <1>3 DEF Poll, vars
<1>4. ASSUME NEW e \in inbox, HandleEvent(e) PROVE FilledInv'
  <2>1. UNCHANGED <<vars, asks>>
        BY <1>4 DEF HandleEvent, history
  <2>2. CASE Ignored(e)
        BY <1>1, <1>4, <2>1, <2>2 DEF HandleEvent, vars
  <2>3. CASE ~Ignored(e)
    <3> DEFINE cum == NewCum(e)
               status == StatusOf(e.kind, cum, qty[e.ord])
               upd == [ord |-> e.ord, status |-> status, inc |-> cum - fcum[e.ord],
                       step |-> "status"]
    <3>1. updates' = updates \cup {upd} /\ upd.ord = e.ord /\ upd.status = status
          BY <1>4, <2>3 DEF HandleEvent
    <3>2. /\ e.ord \in Orders /\ e.kind \in EventKind /\ e.cum \in Nat /\ fcum[e.ord] \in Nat
          /\ e.cum <= broker[e.ord].cum /\ fcum[e.ord] <= broker[e.ord].cum
          BY QtyAssumption DEF FillInv, PipeType, Event, EventsAreReal, NeverOverCounts
    <3>3. qty[e.ord] \in asks[e.ord] /\ qty[e.ord] \in Nat /\ broker[e.ord].cum \in Nat
      <4>1. qty[e.ord] \in asks[e.ord]
            BY <2>3, <3>2 DEF Ignored, AskInv, QtyAsked
      <4> QED BY <3>2, <4>1, QtyAssumption
              DEF FillInv, EngineInv, IndType, TypeOK, BrokerRecord
    <3>4. cum <= broker[e.ord].cum /\ cum \in Nat
          BY <3>2 DEF NewCum
    <3> HIDE DEF cum
    <3>5. status = "filled" => cum >= qty[e.ord]
          BY <3>2 DEF StatusOf, EventKind
    <3>6. status = "filled" => Reached(e.ord)
          BY <3>3, <3>4, <3>5 DEF Reached
    <3> HIDE DEF status, upd
    <3>7. \A u \in updates' : u.status = "filled" => Reached(u.ord)
          BY <3>1, <3>6 DEF FilledInv
    <3> QED BY <2>1, <3>7 DEF vars, FilledInv, Reached
  <2> QED BY <2>2, <2>3
<1>5. ASSUME NEW u \in updates, HandleStatus(u) PROVE FilledInv'
  <2> DEFINE v == [u EXCEPT !.step = "book"]
  <2>1. v.ord = u.ord /\ v.status = u.status
        BY DEF FillInv, PipeType, Update
  <2>2. updates' = (updates \ {u}) \cup {v} /\ UNCHANGED <<broker, asks>>
        BY <1>5 DEF HandleStatus, history
  <2> HIDE DEF v
  <2>3. \A c \in Orders : order'[c] = order[c] \/ (c = u.ord /\ order'[c] = u.status)
        BY <1>0, <1>5 DEF HandleStatus, update_order_status, FillInv, EngineInv, IndType, TypeOK
  <2> QED BY <2>1, <2>2, <2>3 DEF FilledInv, Reached
<1>6. ASSUME NEW u \in updates, StatusRaises(u) PROVE FilledInv'
  <2>1. updates' = updates \ {u} /\ UNCHANGED <<broker, asks>>
        BY <1>6 DEF StatusRaises
  <2>2. \A c \in Orders : order'[c] = order[c] \/ (c = u.ord /\ order'[c] = u.status)
        BY <1>0, <1>6 DEF StatusRaises, FillInv, EngineInv, IndType, TypeOK
  <2> QED BY <2>1, <2>2 DEF FilledInv, Reached
<1>7. ASSUME NEW u \in updates, HandleBook(u) \/ BookFails(u) PROVE FilledInv'
      BY <1>1, <1>7 DEF HandleBook, BookFails, vars
<1>8. ASSUME FillCrash PROVE FilledInv'
  <2>1. updates' = {} /\ \A c \in Orders : order'[c] = "none"
        BY <1>8 DEF FillCrash, Crash
  <2> QED BY <2>1 DEF FilledInv
<1> QED BY <1>2, <1>3, <1>4, <1>5, <1>6, <1>7, <1>8, FillSteps

\* The quantities and the FILLED statuses stay within what was asked for.
LEMMA FilledInvariant == FillSpec => [](FillInv /\ AskInv /\ FilledInv)
<1>1. FillInit => AskInv /\ FilledInv
      BY QtyAssumption
      DEF FillInit, Init, NoBrokerOrder, AskInv, QtyAsked, AmendAsked, LeavesOpen, Amending,
          FilledInv
<1>2. FillInv /\ AskInv /\ [FillNext]_fillVars => AskInv'
      BY AskStep
<1>3. FillInv /\ AskInv /\ FilledInv /\ [FillNext]_fillVars => FilledInv'
      BY FilledStep
<1> QED BY <1>1, <1>2, <1>3, FillInvariant, PTL DEF FillSpec

\* An order shown FILLED whose quantity never changed is filled at the broker.
LEMMA FilledMeans ==
    ASSUME FillInv, AskInv, FilledInv
    PROVE  FilledIsReal
<1> SUFFICES ASSUME NEW c \in Orders, order[c] = "filled"
             PROVE  /\ \E q \in asks[c] : broker[c].cum >= q
                    /\ asks[c] = {InitQty} => broker[c].st = "filled"
    BY DEF FilledIsReal
<1>1. PICK q \in asks[c] : broker[c].cum >= q
      BY DEF FilledInv, Reached
<1>2. ASSUME asks[c] = {InitQty} PROVE broker[c].st = "filled"
  <2>1. broker[c].qty = InitQty /\ q = InitQty
        BY <1>1, <1>2 DEF AskInv, QtyAsked
  <2>2. broker[c].cum \in Nat
        BY QtyAssumption DEF FillInv, EngineInv, IndType, TypeOK, BrokerRecord
  <2>3. broker[c].cum <= broker[c].qty
        BY DEF AskInv, LeavesOpen
  <2>4. broker[c].cum = broker[c].qty
        BY <1>1, <2>1, <2>2, <2>3, QtyAssumption
  <2> QED BY <2>4 DEF AskInv, LeavesOpen
<1> QED BY <1>1, <1>2

\* An order the OMS shows FILLED was executed to a quantity it was asked for,
\* and to all of it if it was never amended, for any orders, threads,
\* amendments, lost answers and writes and crashes.
THEOREM FillsAreReal == FillSpec => []FilledIsReal
<1>1. FillInv /\ AskInv /\ FilledInv => FilledIsReal
      BY FilledMeans
<1> QED BY <1>1, FilledInvariant, PTL

-----------------------------------------------------------------------------
(***************************************************************************)
(* FILLED is final for the handler: the update that makes an order FILLED  *)
(* is the last one of that order, whatever threads do to the order table.  *)
(***************************************************************************)
LastUpdate == /\ \A c \in Orders : order[c] = "filled" => c \in fterm
              /\ \A u \in updates :
                    /\ u.status = "filled" => u.ord \in fterm
                    /\ u.step = "status" => order[u.ord] # "filled"

\* The steps of the engine that take an order out of FILLED.
LEMMA EngineOverwrites ==
    ASSUME FillInv, AskInv, FilledInv, [EngineNext \/ BrokerNext]_vars,
           NEW c \in Orders, order[c] = "filled", order'[c] # "filled"
    PROVE  \E t \in Threads : Overwrites(t, c)
<1> USE DEF FillInv, EngineInv, IndType, TypeOK, BusyOnOrder
<1>0. ASSUME UNCHANGED order PROVE FALSE
      BY <1>0
<1>1. ASSUME NEW t \in Threads, ExecuteStep(t) PROVE Overwrites(t, c)
  <2>1. CASE ExecuteRecover(t)
        BY <2>1 DEF ExecuteRecover, Track, Return, Overwrites
  <2>2. CASE ExecuteAckOk(t)
        BY <2>2 DEF ExecuteAckOk, Track, Return, Overwrites
  <2>3. CASE ~(ExecuteRecover(t) \/ ExecuteAckOk(t))
        BY <1>0, <1>1, <2>3 DEF ExecuteStep, ExecuteCheck, ExecuteLookup, ExecuteLog,
                                ExecuteSend, ExecuteAckFail, memory
  <2> QED BY <2>1, <2>2, <2>3
<1>2. ASSUME NEW t \in Threads, AmendStep(t) PROVE Overwrites(t, c)
  <2>1. CASE CancelAck(t)
    <3>1. on[t] = c /\ at[t] = "cancelAck" /\ at'[t] = "idle"
          BY <2>1 DEF CancelAck, update_order_status, Return
    <3>2. broker[c].st = "cancelled"
          BY <3>1 DEF SafeInv, CancelConfirmed
    <3>3. asks[c] # {InitQty}
          BY <3>2, FilledMeans DEF FilledIsReal
    <3> QED BY <3>1, <3>3 DEF Overwrites
  <2>2. CASE ReplaceAck(t)
        BY <2>2 DEF ReplaceAck, update_order_status, Return, Overwrites
  <2>3. CASE CancelSend(t) \/ ReplaceSend(t)
        BY <1>0, <2>3 DEF CancelSend, ReplaceSend, memory
  <2> QED BY <1>2, <2>1, <2>2, <2>3 DEF AmendStep
<1>3. ASSUME NEW t \in Threads, NEW d \in Orders, NEW q \in 1..MaxQty,
             ExecuteCall(t, d) \/ CancelCall(t, d) \/ ReplaceCall(t, d, q)
      PROVE  FALSE
      BY <1>0, <1>3 DEF ExecuteCall, CancelCall, ReplaceCall, memory
<1>4. ASSUME BrokerNext PROVE FALSE
      BY <1>0, <1>4 DEF BrokerNext, BrokerFill, BrokerClose, memory
<1>5. ASSUME UNCHANGED vars PROVE FALSE
      BY <1>0, <1>5 DEF vars
<1>6. 1 \in 1..MaxQty
      BY QtyAssumption
<1> QED BY <1>1, <1>2, <1>3, <1>4, <1>5, <1>6 DEF EngineNext

\* No report takes an order out of FILLED.
LEMMA FinalStep ==
    ASSUME FillInv, OneUnderWay, AskInv, FilledInv, LastUpdate, [FillNext]_fillVars
    PROVE  /\ LastUpdate'
           /\ \A c \in Orders : order[c] = "filled" =>
                 \/ order'[c] \in {"filled", "none"}
                 \/ \E t \in Threads : Overwrites(t, c)
<1> DEFINE Final == \A c \in Orders : order[c] = "filled" =>
                 \/ order'[c] \in {"filled", "none"}
                 \/ \E t \in Threads : Overwrites(t, c)
<1>0. \A u \in updates : u.ord \in Orders
      BY DEF FillInv, PipeType, Update
<1>1. ASSUME Elsewhere PROVE LastUpdate' /\ Final
  <2>1. Final
        BY <1>1, EngineOverwrites DEF Elsewhere
  <2>2. \A c \in Orders : order'[c] = "filled" => order[c] = "filled"
        BY <1>1, EngineMakesNoFill DEF Elsewhere, FillInv
  <2>3. UNCHANGED <<updates, fterm>>
        BY <1>1 DEF Elsewhere
  <2> QED BY <1>0, <2>1, <2>2, <2>3 DEF LastUpdate
<1>2. ASSUME NEW c \in Orders, Poll(c) PROVE LastUpdate' /\ Final
      BY <1>2 DEF Poll, vars, handler, LastUpdate
<1>3. ASSUME NEW e \in inbox, HandleEvent(e) PROVE LastUpdate' /\ Final
  <2>1. UNCHANGED order
        BY <1>3 DEF HandleEvent, vars
  <2>2. CASE Ignored(e)
        BY <1>3, <2>1, <2>2 DEF HandleEvent, handler, LastUpdate
  <2>3. CASE ~Ignored(e)
    <3> DEFINE cum == NewCum(e)
               status == StatusOf(e.kind, cum, qty[e.ord])
               upd == [ord |-> e.ord, status |-> status, inc |-> cum - fcum[e.ord],
                       step |-> "status"]
    <3>1. /\ updates' = updates \cup {upd}
          /\ fterm' = IF status \in TerminalStatus THEN fterm \cup {e.ord} ELSE fterm
          /\ upd.ord = e.ord /\ upd.status = status
          BY <1>3, <2>3 DEF HandleEvent
    <3>2. e.ord \in Orders /\ e.ord \notin fterm
          BY <2>3 DEF Ignored, FillInv, PipeType, Event
    <3> HIDE DEF cum, status, upd
    <3>3. order[e.ord] # "filled"
          BY <3>2 DEF LastUpdate
    <3>4. fterm \subseteq fterm' /\ (status = "filled" => e.ord \in fterm')
          BY <3>1 DEF TerminalStatus
    <3>5. LastUpdate'
          BY <2>1, <3>1, <3>3, <3>4 DEF LastUpdate
    <3> QED BY <2>1, <3>5
  <2> QED BY <2>2, <2>3
<1>4. ASSUME NEW u \in updates, HandleStatus(u) PROVE LastUpdate' /\ Final
  <2> DEFINE v == [u EXCEPT !.step = "book"]
  <2>1. v.ord = u.ord /\ v.status = u.status /\ v.step = "book"
        BY DEF FillInv, PipeType, Update
  <2>2. /\ updates' = (updates \ {u}) \cup {v} /\ UNCHANGED fterm
        BY <1>4 DEF HandleStatus, handler
  <2> HIDE DEF v
  <2>3. \A c \in Orders : order'[c] = order[c] \/ (c = u.ord /\ order'[c] = u.status)
        BY <1>0, <1>4 DEF HandleStatus, update_order_status, FillInv, EngineInv, IndType, TypeOK
  <2>4. order[u.ord] # "filled"
        BY <1>4 DEF HandleStatus, LastUpdate
  <2>5. \A c \in Orders : order'[c] = "filled" => c \in fterm'
        BY <2>2, <2>3 DEF LastUpdate
  <2>6. \A w \in updates' : w.status = "filled" => w.ord \in fterm'
        BY <2>1, <2>2 DEF LastUpdate
  <2>7. \A w \in updates' : w.step = "status" => w \in updates /\ w.ord # u.ord /\ w.ord \in Orders
        BY <1>0, <2>1, <2>2 DEF OneUnderWay
  <2>8. \A w \in updates' : w.step = "status" => order'[w.ord] # "filled"
        BY <2>3, <2>7 DEF LastUpdate
  <2> QED BY <2>3, <2>4, <2>5, <2>6, <2>8 DEF LastUpdate
<1>5. ASSUME NEW u \in updates, StatusRaises(u) PROVE LastUpdate' /\ Final
  <2>1. /\ updates' = updates \ {u} /\ UNCHANGED fterm
        BY <1>5 DEF StatusRaises, handler
  <2>2. \A c \in Orders : order'[c] = order[c] \/ (c = u.ord /\ order'[c] = u.status)
        BY <1>0, <1>5 DEF StatusRaises, FillInv, EngineInv, IndType, TypeOK
  <2>3. order[u.ord] # "filled"
        BY <1>5 DEF StatusRaises, LastUpdate
  <2>4. \A w \in updates' : w \in updates /\ w.ord # u.ord /\ w.ord \in Orders
        BY <1>0, <2>1 DEF OneUnderWay
  <2>5. LastUpdate'
        BY <2>1, <2>2, <2>4 DEF LastUpdate
  <2> QED BY <2>2, <2>3, <2>5
<1>6. ASSUME NEW u \in updates, HandleBook(u) \/ BookFails(u) PROVE LastUpdate' /\ Final
      BY <1>6 DEF HandleBook, BookFails, vars, handler, LastUpdate
<1>7. ASSUME FillCrash PROVE LastUpdate' /\ Final
  <2>1. updates' = {} /\ \A c \in Orders : order'[c] = "none"
        BY <1>7 DEF FillCrash, Crash
  <2> QED BY <2>1 DEF LastUpdate
<1> QED BY <1>1, <1>2, <1>3, <1>4, <1>5, <1>6, <1>7, FillSteps

\* No report of the broker, however late, takes an order out of FILLED, and
\* no cancel of an order that was never amended does: for any orders, threads,
\* amendments, lost answers and writes and crashes.
THEOREM FilledStaysFilled == FillSpec => FilledIsFinal
<1>1. FillInit => LastUpdate
      BY DEF FillInit, Init, LastUpdate
<1>2. FillInv /\ OneUnderWay /\ AskInv /\ FilledInv /\ LastUpdate /\ [FillNext]_fillVars
         => LastUpdate'
      BY FinalStep
<1>3. FillInv /\ OneUnderWay /\ AskInv /\ FilledInv /\ LastUpdate /\ [FillNext]_fillVars
         => [\A c \in Orders : order[c] = "filled" =>
                 \/ order'[c] \in {"filled", "none"}
                 \/ \E t \in Threads : Overwrites(t, c)]_fillVars
      BY FinalStep
<1> QED BY <1>1, <1>2, <1>3, FilledInvariant, OneUnderWayInvariant, PTL
        DEF FillSpec, FilledIsFinal

=============================================================================
