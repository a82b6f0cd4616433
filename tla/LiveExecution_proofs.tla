------------------------ MODULE LiveExecution_proofs ------------------------
(***************************************************************************)
(* Proofs about LiveExecution, for any number of orders, threads and       *)
(* crashes and any quantities.                                             *)
(***************************************************************************)
EXTENDS LiveExecution, TLAPS

USE DEF JournalStatus, OrderStatus, TerminalStatus, BrokerStatus, Steps

\* A thread inside an operation works on an order.
BusyOnOrder == \A t \in Threads : at[t] # "idle" => on[t] \in Orders

IndType == TypeOK /\ BusyOnOrder

\* What update_order_status may write keeps the two tables well typed.
LEMMA UpdateType ==
    ASSUME NEW c \in Orders, NEW s \in {"cancelled", "accepted"},
           order \in [Orders -> OrderStatus \cup {"none"}],
           journal \in [Orders -> JournalStatus \cup {"absent"}],
           update_order_status(c, s)
    PROVE  /\ order' \in [Orders -> OrderStatus \cup {"none"}]
           /\ journal' \in [Orders -> JournalStatus \cup {"absent"}]
BY DEF update_order_status, update_status, JournalFor

\* Init establishes the types.
LEMMA InitType == Init => IndType
BY QtyAssumption, CrashAssumption
   DEF Init, IndType, TypeOK, BusyOnOrder, BrokerRecord, NoBrokerOrder

\* Every step of the system keeps the types.
LEMMA NextType == IndType /\ [Next]_vars => IndType'
<1> SUFFICES ASSUME IndType, [Next]_vars PROVE IndType'
    OBVIOUS
<1> USE QtyAssumption, CrashAssumption DEF IndType, TypeOK, BusyOnOrder
<1>1. ASSUME NEW t \in Threads, ExecuteStep(t) PROVE IndType'
  <2>1. CASE ExecuteCheck(t)
        BY <2>1 DEF ExecuteCheck, Goto, journalVars, memory
  <2>2. CASE ExecuteLookup(t)
        BY <2>2 DEF ExecuteLookup, Goto, Return, journalVars, memory
  <2>3. CASE ExecuteRecover(t)
        BY <2>3 DEF ExecuteRecover, Track, Return, journalVars
  <2>4. CASE ExecuteLog(t)
        BY <2>4 DEF ExecuteLog, log_order, Goto, Return, journalVars, memory
  <2>5. CASE ExecuteSend(t)
    <3>1. broker' \in [Orders -> BrokerRecord]
          BY <2>5 DEF ExecuteSend, BrokerAccepts, BrokerRecord
    <3>2. sends' \in [Orders -> Nat]
          BY <2>5 DEF ExecuteSend
    <3> QED BY <2>5, <3>1, <3>2
            DEF ExecuteSend, Goto, Return, journalVars, memory
  <2>6. CASE ExecuteAckOk(t)
        BY <2>6 DEF ExecuteAckOk, update_status, Track, Return
  <2>7. CASE ExecuteAckFail(t)
        BY <2>7 DEF ExecuteAckFail, update_status, Return, memory
  <2> QED BY <1>1, <2>1, <2>2, <2>3, <2>4, <2>5, <2>6, <2>7 DEF ExecuteStep
<1>2. ASSUME NEW t \in Threads, AmendStep(t) PROVE IndType'
  <2>1. CASE CancelSend(t)
    <3>1. broker' \in [Orders -> BrokerRecord]
          BY <2>1 DEF CancelSend, BrokerRecord
    <3> QED BY <2>1, <3>1 DEF CancelSend, Goto, Return, journalVars, memory
  <2>2. CASE CancelAck(t)
    <3>1. /\ order' \in [Orders -> OrderStatus \cup {"none"}]
          /\ journal' \in [Orders -> JournalStatus \cup {"absent"}]
          BY <2>2, UpdateType DEF CancelAck
    <3> QED BY <2>2, <3>1 DEF CancelAck, Return
  <2>3. CASE ReplaceSend(t)
    <3>1. broker' \in [Orders -> BrokerRecord]
          BY <2>3 DEF ReplaceSend, BrokerRecord
    <3> QED BY <2>3, <3>1 DEF ReplaceSend, Goto, Return, journalVars
  <2>4. CASE ReplaceAck(t)
    <3>1. /\ order' \in [Orders -> OrderStatus \cup {"none"}]
          /\ journal' \in [Orders -> JournalStatus \cup {"absent"}]
          BY <2>4, UpdateType DEF ReplaceAck
    <3> QED BY <2>4, <3>1 DEF ReplaceAck, Return
  <2> QED BY <1>2, <2>1, <2>2, <2>3, <2>4 DEF AmendStep
<1>3. ASSUME NEW t \in Threads, NEW c \in Orders,
             ExecuteCall(t, c) \/ CancelCall(t, c)
                \/ \E q \in 1..MaxQty : ReplaceCall(t, c, q)
      PROVE  IndType'
      BY <1>3 DEF ExecuteCall, CancelCall, ReplaceCall, journalVars, memory
<1>4. ASSUME NEW c \in Orders, BrokerFill(c) PROVE IndType'
  <2>1. broker' \in [Orders -> BrokerRecord]
        BY <1>4 DEF BrokerFill, BrokerRecord
  <2> QED BY <1>4, <2>1 DEF BrokerFill, journalVars, memory, threadVars
<1>5. ASSUME NEW c \in Orders, BrokerClose(c) PROVE IndType'
  <2>1. broker' \in [Orders -> BrokerRecord]
        BY <1>5 DEF BrokerClose, BrokerRecord
  <2> QED BY <1>5, <2>1 DEF BrokerClose, journalVars, memory, threadVars
<1>6. CASE Crash
      BY <1>6 DEF Crash
<1>7. CASE UNCHANGED vars
      BY <1>7 DEF vars
<1> QED BY <1>1, <1>2, <1>3, <1>4, <1>5, <1>6, <1>7
        DEF Next, EngineNext, BrokerNext

\* Every variable of the order path keeps its type.
THEOREM TypeInvariant == Spec => []TypeOK
<1>1. IndType => TypeOK
      BY DEF IndType
<1> QED BY <1>1, InitType, NextType, PTL DEF Spec

-----------------------------------------------------------------------------
(***************************************************************************)
(* The safety invariant.  AtMostOneSubmission is not inductive: it needs   *)
(* that a thread about to send owns the row it inserted (OwnsRow) and that *)
(* no other thread does (OneSender), because the UNIQUE column lets one    *)
(* INSERT through.                                                         *)
(***************************************************************************)
RowWriters == {"lookup", "recover", "ackOk", "ackFail", "cancelSend",
               "cancelAck", "replaceSend", "replaceAck"}

UnloggedUnsent == \A c \in Orders : journal[c] = "absent" => sends[c] = 0

OwnsRow == \A t \in Threads :
    at[t] = "send" => sends[on[t]] = 0 /\ journal[on[t]] # "absent"

OneSender == \A t, u \in Threads :
    at[t] = "send" /\ at[u] = "send" /\ on[t] = on[u] => t = u

HeldWasSent == \A c \in Orders : broker[c].st # "none" => sends[c] > 0

\* A thread that will write a row found one: the one it inserted, or the one
\* of the order in the table it amends.
AckHasRow == /\ \A t \in Threads : at[t] \in RowWriters => journal[on[t]] # "absent"
             /\ \A c \in Orders : order[c] # "none" => journal[c] # "absent"

\* A cancel confirmed by the broker and not yet applied.
CancelConfirmed == \A t \in Threads :
    at[t] = "cancelAck" => broker[on[t]].st = "cancelled"

SafeInv == /\ UnloggedUnsent
           /\ OwnsRow
           /\ OneSender
           /\ HeldWasSent
           /\ AckHasRow
           /\ CancelConfirmed
           /\ AtMostOneSubmission
           /\ NoFalseCancel

\* Init establishes the safety invariant.
LEMMA InitSafe == Init => SafeInv
BY DEF Init, SafeInv, UnloggedUnsent, OwnsRow, OneSender, HeldWasSent, AckHasRow,
       RowWriters, CancelConfirmed, AtMostOneSubmission, NoFalseCancel, NoBrokerOrder

\* What update_order_status writes never removes a row.
LEMMA UpdateKeepsRows ==
    ASSUME NEW c \in Orders, NEW s \in {"cancelled", "accepted"},
           journal \in [Orders -> JournalStatus \cup {"absent"}],
           update_order_status(c, s),
           NEW d \in Orders
    PROVE  journal[d] # "absent" => journal'[d] # "absent"
BY DEF update_order_status, update_status, JournalFor

\* Every step of the system keeps the safety invariant.
LEMMA NextSafe == IndType /\ SafeInv /\ [Next]_vars => SafeInv'
<1> SUFFICES ASSUME IndType, SafeInv, [Next]_vars PROVE SafeInv'
    OBVIOUS
<1> USE DEF IndType, TypeOK, BusyOnOrder, SafeInv, UnloggedUnsent, OwnsRow,
            OneSender, HeldWasSent, AckHasRow, RowWriters,
            CancelConfirmed, AtMostOneSubmission, NoFalseCancel
<1>1. ASSUME NEW t \in Threads, ExecuteStep(t) PROVE SafeInv'
  <2>1. CASE ExecuteCheck(t)
        BY <2>1 DEF ExecuteCheck, Goto, is_duplicate, journalVars, memory
  <2>2. CASE ExecuteLookup(t)
        BY <2>2 DEF ExecuteLookup, Goto, Return, journalVars, memory
  <2>3. CASE ExecuteRecover(t)
        BY <2>3 DEF ExecuteRecover, Track, Return, journalVars
  <2>4. CASE ExecuteLog(t)
    <3>1. CASE is_duplicate(on[t])
          BY <2>4, <3>1 DEF ExecuteLog, log_order, Return, journalVars, memory
    <3>2. CASE ~is_duplicate(on[t])
          BY <2>4, <3>2 DEF ExecuteLog, log_order, Goto, is_duplicate, memory
    <3> QED BY <3>1, <3>2
  <2>5. CASE ExecuteSend(t)
    <3>1. broker[on[t]].st = "none" /\ sends[on[t]] = 0 /\ on[t] \in Orders
          BY <2>5 DEF ExecuteSend
    <3>2. /\ sends' = [sends EXCEPT ![on[t]] = 1]
          /\ UNCHANGED <<journal, order>>
          BY <2>5, <3>1 DEF ExecuteSend, journalVars, memory
    <3>3. \A c \in Orders : c # on[t] => broker'[c] = broker[c]
          BY <2>5, <3>1 DEF ExecuteSend, BrokerAccepts
    <3>4. /\ at' \in [Threads -> Steps] /\ at'[t] \in {"ackOk", "ackFail", "idle"}
          /\ \A u \in Threads : u # t => at'[u] = at[u] /\ on'[u] = on[u]
          BY <2>5 DEF ExecuteSend, Goto, Return
    <3>5. \A u \in Threads : u # t /\ at[u] = "send" => on[u] # on[t]
          BY <2>5 DEF ExecuteSend
    <3>6. OwnsRow'
      <4>1. SUFFICES ASSUME NEW u \in Threads, at'[u] = "send"
                     PROVE  sends'[on'[u]] = 0 /\ journal'[on'[u]] # "absent"
            BY DEF OwnsRow
      <4>2. u # t /\ at[u] = "send" /\ on'[u] = on[u]
            BY <3>4, <4>1
      <4>3. on[u] \in Orders /\ on[u] # on[t] /\ sends[on[u]] = 0
            BY <3>5, <4>2
      <4> QED BY <3>2, <4>2, <4>3
    <3>7. UnloggedUnsent' /\ AtMostOneSubmission'
          BY <2>5, <3>1, <3>2 DEF ExecuteSend
    <3>8. OneSender'
          BY <3>4
    <3>9. HeldWasSent' /\ CancelConfirmed' /\ NoFalseCancel'
          BY <3>1, <3>2, <3>3, <3>4
    <3>10. AckHasRow'
      <4>1. on'[t] = on[t] \/ at'[t] = "idle"
            BY <2>5 DEF ExecuteSend, Goto, Return
      <4> QED BY <2>5, <3>2, <3>4, <4>1 DEF ExecuteSend
    <3> QED BY <3>6, <3>7, <3>8, <3>9, <3>10
  <2>6. CASE ExecuteAckOk(t)
        BY <2>6 DEF ExecuteAckOk, update_status, Track, Return
  <2>7. CASE ExecuteAckFail(t)
        BY <2>7 DEF ExecuteAckFail, update_status, Return, memory
  <2> QED BY <1>1, <2>1, <2>2, <2>3, <2>4, <2>5, <2>6, <2>7 DEF ExecuteStep
<1>2. ASSUME NEW t \in Threads, AmendStep(t) PROVE SafeInv'
  <2>0. ASSUME NEW c \in Orders, NEW s \in {"cancelled", "accepted"},
               update_order_status(c, s)
        PROVE  \A d \in Orders : journal[d] # "absent" => journal'[d] # "absent"
        BY <2>0, UpdateKeepsRows
  <2>1. CASE CancelSend(t)
    <3>1. /\ on[t] \in Orders
          /\ \A d \in Orders : \/ broker'[d] = broker[d]
                               \/ /\ d = on[t] /\ broker[d].st = "open"
                                  /\ broker'[d].st = "cancelled"
          BY <2>1 DEF CancelSend, BrokerRecord
    <3>2. /\ at' \in [Threads -> Steps] /\ at'[t] \in {"cancelAck", "idle"}
          /\ \A u \in Threads : u # t => at'[u] = at[u] /\ on'[u] = on[u]
          BY <2>1 DEF CancelSend, Goto, Return
    <3>3. UNCHANGED <<journal, sends, order>>
          BY <2>1 DEF CancelSend, journalVars, memory
    <3>4. NoFalseCancel' /\ HeldWasSent'
          BY <3>1, <3>3
    <3>5. /\ UnloggedUnsent' /\ OwnsRow' /\ OneSender' /\ AtMostOneSubmission'
          /\ AckHasRow'
      <4>1. on'[t] = on[t] \/ at'[t] = "idle"
            BY <2>1 DEF CancelSend, Goto, Return
      <4>2. AckHasRow'
            BY <2>1, <3>2, <3>3, <4>1 DEF CancelSend
      <4> QED BY <3>2, <3>3, <4>2
    <3>6. CASE at'[t] = "cancelAck"
      <4>1. broker[on[t]].st = "open" /\ Goto(t, "cancelAck")
            /\ broker' = [broker EXCEPT ![on[t]].st = "cancelled"]
            BY <2>1, <3>6 DEF CancelSend, Return
      <4>2. on'[t] = on[t] /\ broker'[on[t]].st = "cancelled"
            BY <3>1, <4>1 DEF Goto, BrokerRecord
      <4>3. CancelConfirmed'
            BY <3>1, <3>2, <4>2
      <4> QED BY <3>4, <3>5, <4>3
    <3>7. CASE at'[t] # "cancelAck"
      <4>1. CancelConfirmed'
            BY <3>1, <3>2, <3>7
      <4> QED BY <3>4, <3>5, <4>1
    <3> QED BY <3>6, <3>7
  <2>2. CASE CancelAck(t)
    <3>1. \A d \in Orders : journal[d] # "absent" => journal'[d] # "absent"
          BY <2>0, <2>2 DEF CancelAck
    <3>2. NoFalseCancel'
          BY <2>2 DEF CancelAck, update_order_status, update_status
    <3>3. \A d \in Orders : order'[d] # "none" => order[d] # "none"
          BY <2>2 DEF CancelAck, update_order_status, update_status
    <3> QED BY <2>2, <3>1, <3>2, <3>3 DEF CancelAck, Return
  <2>3. CASE ReplaceSend(t)
    <3>1. UNCHANGED <<journal, sends, order>>
          BY <2>3 DEF ReplaceSend, journalVars
    <3>2. \A d \in Orders : broker'[d].st = broker[d].st
          BY <2>3 DEF ReplaceSend, BrokerRecord
    <3>3. /\ at' \in [Threads -> Steps] /\ at'[t] \in {"replaceAck", "idle"}
          /\ on'[t] = on[t] \/ at'[t] = "idle"
          /\ \A u \in Threads : u # t => at'[u] = at[u] /\ on'[u] = on[u]
          BY <2>3 DEF ReplaceSend, Goto, Return
    <3>4. /\ UnloggedUnsent' /\ HeldWasSent' /\ AtMostOneSubmission'
          /\ NoFalseCancel'
          BY <3>1, <3>2
    <3>5. OwnsRow' /\ OneSender'
          BY <3>1, <3>3
    <3>6. CancelConfirmed'
          BY <3>2, <3>3
    <3>7. AckHasRow'
          BY <2>3, <3>1, <3>3 DEF ReplaceSend
    <3> QED BY <3>4, <3>5, <3>6, <3>7
  <2>4. CASE ReplaceAck(t)
    <3>1. \A d \in Orders : journal[d] # "absent" => journal'[d] # "absent"
          BY <2>0, <2>4 DEF ReplaceAck
    <3>2. NoFalseCancel'
          BY <2>4 DEF ReplaceAck, update_order_status, update_status
    <3>3. \A d \in Orders : order'[d] # "none" => order[d] # "none"
          BY <2>4 DEF ReplaceAck, update_order_status, update_status
    <3> QED BY <2>4, <3>1, <3>2, <3>3 DEF ReplaceAck, Return
  <2> QED BY <1>2, <2>1, <2>2, <2>3, <2>4 DEF AmendStep
<1>3. ASSUME NEW t \in Threads, NEW c \in Orders,
             ExecuteCall(t, c) \/ CancelCall(t, c)
                \/ \E q \in 1..MaxQty : ReplaceCall(t, c, q)
      PROVE  SafeInv'
      BY <1>3 DEF ExecuteCall, CancelCall, ReplaceCall, Working, journalVars,
             memory
<1>4. ASSUME NEW c \in Orders, BrokerFill(c) PROVE SafeInv'
  <2>1. \A d \in Orders : \/ broker'[d] = broker[d]
                          \/ d = c /\ broker'[c].st \in {"open", "filled"}
                             /\ broker[c].st = "open"
        BY <1>4 DEF BrokerFill
  <2> QED BY <1>4, <2>1 DEF BrokerFill, journalVars, memory, threadVars
<1>5. ASSUME NEW c \in Orders, BrokerClose(c) PROVE SafeInv'
  <2>1. \A d \in Orders : \/ broker'[d] = broker[d]
                          \/ d = c /\ broker[c].st = "open"
        BY <1>5 DEF BrokerClose
  <2> QED BY <1>5, <2>1 DEF BrokerClose, journalVars, memory, threadVars
<1>6. CASE Crash
      BY <1>6 DEF Crash
<1>7. CASE UNCHANGED vars
      BY <1>7 DEF vars
<1> QED BY <1>1, <1>2, <1>3, <1>4, <1>5, <1>6, <1>7
        DEF Next, EngineNext, BrokerNext

\* The two invariants hold together in every reachable state.
LEMMA SafeInvariant == Spec => [](IndType /\ SafeInv)
<1>1. Init => IndType /\ SafeInv
      BY InitType, InitSafe
<1>2. IndType /\ SafeInv /\ [Next]_vars => (IndType /\ SafeInv)'
      BY NextType, NextSafe
<1> QED BY <1>1, <1>2, PTL DEF Spec

\* However often, on however many threads and across however many restarts
\* an intent is executed, broker_submit is called at most once for it.
THEOREM SubmittedAtMostOnce == Spec => []AtMostOneSubmission
<1>1. SafeInv => AtMostOneSubmission
      BY DEF SafeInv
<1> QED BY <1>1, SafeInvariant, PTL

\* No order the broker may hold is without a journal row.
THEOREM LoggedBeforeHeld == Spec => []WriteAhead
<1>1. IndType /\ SafeInv => WriteAhead
      BY DEF IndType, TypeOK, SafeInv, WriteAhead, HeldWasSent, UnloggedUnsent
<1> QED BY <1>1, SafeInvariant, PTL

\* The engine never believes a live order cancelled.
THEOREM CancelIsReal == Spec => []NoFalseCancel
<1>1. SafeInv => NoFalseCancel
      BY DEF SafeInv
<1> QED BY <1>1, SafeInvariant, PTL

\* What a broker report or a reconciliation may do to the order path: rewrite
\* rows that exist, and the status of orders in the table.  It keeps the safety
\* invariant and the stage of every order.
LEMMA RewriteStep ==
    ASSUME IndType, SafeInv,
           UNCHANGED <<sends, at, on, broker>>,
           \A c \in Orders : journal'[c] = "absent" <=> journal[c] = "absent",
           \A c \in Orders :
              \/ order'[c] = order[c]
              \/ /\ order[c] # "none"
                 /\ order'[c] = "cancelled" => broker[c].st = "cancelled"
    PROVE  SafeInv' /\ Stage' = Stage
<1>1. UnloggedUnsent' /\ HeldWasSent' /\ OneSender' /\ AtMostOneSubmission'
      BY DEF SafeInv, UnloggedUnsent, HeldWasSent, OneSender, AtMostOneSubmission
<1>2. OwnsRow'
      BY DEF IndType, BusyOnOrder, SafeInv, OwnsRow
<1>3. AckHasRow'
      BY DEF IndType, BusyOnOrder, SafeInv, AckHasRow, RowWriters
<1>4. CancelConfirmed' /\ NoFalseCancel'
      BY DEF SafeInv, CancelConfirmed, NoFalseCancel
<1>5. Stage' = Stage
      BY DEF Stage
<1> QED BY <1>1, <1>2, <1>3, <1>4, <1>5 DEF SafeInv

-----------------------------------------------------------------------------
(***************************************************************************)
(* The refinement.  Only two steps move an order to another stage: the     *)
(* INSERT of its row (ExecuteLog) and the call of the broker (ExecuteSend).*)
(***************************************************************************)
SameStage == /\ sends' = sends
             /\ \A c \in Orders : journal'[c] = "absent" <=> journal[c] = "absent"

\* Every other step leaves the stage of every order alone.
LEMMA OtherStepsKeepStage ==
    ASSUME IndType, SafeInv, [Next]_vars
    PROVE  SameStage \/ \E t \in Threads : ExecuteLog(t) \/ ExecuteSend(t)
<1> USE DEF IndType, TypeOK, BusyOnOrder, SameStage
<1>1. ASSUME NEW t \in Threads, ExecuteStep(t)
      PROVE  SameStage \/ ExecuteLog(t) \/ ExecuteSend(t)
  <2>1. CASE ExecuteCheck(t) \/ ExecuteLookup(t) \/ ExecuteRecover(t)
        BY <2>1 DEF ExecuteCheck, ExecuteLookup, ExecuteRecover, journalVars
  <2>2. CASE ExecuteAckOk(t) \/ ExecuteAckFail(t)
    <3>1. journal[on[t]] # "absent"
          BY <2>2 DEF ExecuteAckOk, update_status, ExecuteAckFail, SafeInv, AckHasRow, RowWriters
    <3> QED BY <2>2, <3>1 DEF ExecuteAckOk, update_status, ExecuteAckFail
  <2> QED BY <1>1, <2>1, <2>2 DEF ExecuteStep
<1>2. ASSUME NEW t \in Threads, AmendStep(t) PROVE SameStage
  <2>1. CASE CancelSend(t) \/ ReplaceSend(t)
        BY <2>1 DEF CancelSend, ReplaceSend, journalVars
  <2>2. CASE CancelAck(t) \/ ReplaceAck(t)
    <3>1. journal[on[t]] # "absent" /\ on[t] \in Orders
          BY <2>2 DEF CancelAck, ReplaceAck, SafeInv, AckHasRow, RowWriters
    <3> QED BY <2>2, <3>1
            DEF CancelAck, ReplaceAck, update_order_status, update_status, JournalFor
  <2> QED BY <1>2, <2>1, <2>2 DEF AmendStep
<1>3. ASSUME NEW t \in Threads, NEW c \in Orders,
             ExecuteCall(t, c) \/ CancelCall(t, c)
                \/ \E q \in 1..MaxQty : ReplaceCall(t, c, q)
      PROVE  SameStage
      BY <1>3 DEF ExecuteCall, CancelCall, ReplaceCall, journalVars
<1>4. ASSUME NEW c \in Orders, BrokerFill(c) \/ BrokerClose(c)
      PROVE  SameStage
      BY <1>4 DEF BrokerFill, BrokerClose, journalVars
<1>5. CASE Crash
      BY <1>5 DEF Crash
<1>6. CASE UNCHANGED vars
      BY <1>6 DEF vars
<1> QED BY <1>1, <1>2, <1>3, <1>4, <1>5, <1>6 DEF Next, EngineNext, BrokerNext

\* The initial states of the order path are initial states of SubmitOnce.
LEMMA InitRefines == Init => Once!Init
BY DEF Init, Once!Init, Stage

\* A step of the order path is a step of SubmitOnce or leaves it unchanged.
LEMMA NextRefines ==
    IndType /\ SafeInv /\ [Next]_vars => [Once!Next]_Stage
<1> SUFFICES ASSUME IndType, SafeInv, [Next]_vars
             PROVE  Once!Next \/ Stage' = Stage
    OBVIOUS
<1>1. CASE SameStage
      BY <1>1 DEF SameStage, Stage
<1>2. ASSUME NEW t \in Threads, ExecuteLog(t)
      PROVE  Once!Next \/ Stage' = Stage
  <2>1. CASE is_duplicate(on[t])
        BY <1>2, <2>1 DEF ExecuteLog, log_order, journalVars, Stage
  <2>2. CASE ~is_duplicate(on[t])
    <3>1. on[t] \in Orders /\ journal[on[t]] = "absent" /\ sends[on[t]] = 0
          BY <1>2, <2>2 DEF ExecuteLog, log_order, is_duplicate, IndType, BusyOnOrder,
                            SafeInv, UnloggedUnsent
    <3>2. sends' = sends /\ journal' = [journal EXCEPT ![on[t]] = "pending"]
          BY <1>2, <2>2 DEF ExecuteLog, log_order
    <3>3. Stage[on[t]] = "new" /\ Stage' = [Stage EXCEPT ![on[t]] = "recorded"]
          BY <3>1, <3>2 DEF Stage, IndType, TypeOK
    <3> QED BY <3>1, <3>3 DEF Once!Next, Once!Record
  <2> QED BY <2>1, <2>2
<1>3. ASSUME NEW t \in Threads, ExecuteSend(t)
      PROVE  Once!Next \/ Stage' = Stage
  <2>1. on[t] \in Orders /\ journal[on[t]] # "absent" /\ sends[on[t]] = 0
        BY <1>3 DEF ExecuteSend, IndType, BusyOnOrder, SafeInv, OwnsRow
  <2>2. journal' = journal /\ sends' = [sends EXCEPT ![on[t]] = 1]
        BY <1>3, <2>1 DEF ExecuteSend, journalVars, IndType, TypeOK
  <2>3. Stage[on[t]] = "recorded" /\ Stage' = [Stage EXCEPT ![on[t]] = "sent"]
    <3>1. /\ sends'[on[t]] = 1 /\ 1 # 0
          /\ \A c \in Orders : c # on[t] => sends'[c] = sends[c]
          BY <2>1, <2>2 DEF IndType, TypeOK
    <3>2. \A c \in Orders : Stage'[c] = IF c = on[t] THEN "sent" ELSE Stage[c]
          BY <2>1, <2>2, <3>1 DEF Stage
    <3> QED BY <2>1, <3>2 DEF Stage
  <2> QED BY <2>1, <2>3 DEF Once!Next, Once!Send
<1> QED BY <1>1, <1>2, <1>3, OtherStepsKeepStage

\* The engine with its journal implements SubmitOnce: whatever the threads,
\* the broker and the crashes do, an order is recorded, then sent, once.
THEOREM ImplementsSubmitOnce == Spec => RefinesSubmitOnce
BY InitRefines, NextRefines, SafeInvariant, PTL DEF Spec, RefinesSubmitOnce, Once!Spec

=============================================================================
