--------------------------- MODULE LiveExecution ---------------------------
(***************************************************************************)
(* The order path of the Agent: LiveExecutionEngine                        *)
(* (packages/agent/execution/engine.py), the durable OrderJournal it       *)
(* writes ahead of every submission (packages/agent/reconciliation/        *)
(* journal.py) and the broker adapters that turn exceptions into "not      *)
(* accepted" (packages/agent/execution/live_factory.py).                   *)
(*                                                                         *)
(* The client order id is a hash of (broker, strategy_id, intent_id), so   *)
(* an intent and its order are the same element of Orders.  The engine has *)
(* no lock; OMS requests arrive on several threads (journal.py:151-154),   *)
(* so every operation is split where another thread, the broker or a crash *)
(* can get in between: at each journal access, broker call and use of the  *)
(* shared order table.  Only the journal and the broker survive a crash.   *)
(***************************************************************************)
EXTENDS Naturals, FiniteSets

CONSTANTS
    Orders,      \* client order ids (one per intent)
    NoOrder,     \* what an idle thread works on
    Threads,     \* threads calling the engine
    InitQty,     \* the quantity every intent asks for
    MaxQty,      \* largest quantity an amendment may ask for
    ReplaceWired,\* whether a broker_replace function is configured
    MaxCrashes   \* bound: number of process crashes explored

ASSUME OrdersAssumption == NoOrder \notin Orders
ASSUME QtyAssumption == /\ InitQty \in Nat \ {0}
                        /\ MaxQty \in Nat
                        /\ InitQty <= MaxQty
ASSUME WiringAssumption == ReplaceWired \in BOOLEAN
ASSUME CrashAssumption == MaxCrashes \in Nat

VARIABLES
    journal,   \* orders.status per client_order_id, "absent" when no row
    entryOf,   \* keys of engine._journal_entry_by_client_id
    order,     \* status in engine._orders_by_client_id, "none" when untracked
    qty,       \* Order.quantity of the tracked order
    orphan,    \* threads amending an Order object no longer in the table
    broker,    \* the broker's own record of the order
    sends,     \* history: submit calls made to the broker per order
    at,        \* step each thread is about to take
    on,        \* order each thread works on
    asked,     \* new quantity a thread's amendment asks for
    crashes    \* number of crashes so far

journalVars == <<journal, entryOf>>
memory == <<order, qty, orphan>>
threadVars == <<at, on, asked>>
vars == <<journal, entryOf, order, qty, orphan, broker, sends, at, on,
          asked, crashes>>

JournalStatus == {"pending", "submitted", "confirmed", "rejected",
                  "cancelled", "unknown"}
OrderStatus == {"pending", "submitted", "accepted", "partially_filled",
                "filled", "cancelled", "rejected", "expired"}
TerminalStatus == {"filled", "cancelled", "rejected", "expired"}

\* get_unresolved_orders: rows whose outcome must still be learned.
UnresolvedStatus == {"pending", "submitted", "unknown"}

BrokerStatus == {"none", "open", "filled", "cancelled", "expired", "rejected"}
BrokerRecord == [st : BrokerStatus, cum : 0..MaxQty, qty : 1..MaxQty]
NoBrokerOrder == [st |-> "none", cum |-> 0, qty |-> InitQty]

Steps == {"idle", "check", "lookup", "recover", "log", "send", "ackOk",
          "ackFail", "cancelSend", "cancelAck", "replaceSend", "replaceAck"}

TypeOK ==
    /\ journal \in [Orders -> JournalStatus \cup {"absent"}]
    /\ entryOf \in SUBSET Orders
    /\ order \in [Orders -> OrderStatus \cup {"none"}]
    /\ qty \in [Orders -> 0..MaxQty]
    /\ orphan \in SUBSET Threads
    /\ broker \in [Orders -> BrokerRecord]
    /\ sends \in [Orders -> Nat]
    /\ at \in [Threads -> Steps]
    /\ on \in [Threads -> Orders \cup {NoOrder}]
    /\ asked \in [Threads -> 0..MaxQty]
    /\ crashes \in 0..MaxCrashes

Init ==
    /\ journal = [c \in Orders |-> "absent"]
    /\ entryOf = {}
    /\ order = [c \in Orders |-> "none"]
    /\ qty = [c \in Orders |-> 0]
    /\ orphan = {}
    /\ broker = [c \in Orders |-> NoBrokerOrder]
    /\ sends = [c \in Orders |-> 0]
    /\ at = [t \in Threads |-> "idle"]
    /\ on = [t \in Threads |-> NoOrder]
    /\ asked = [t \in Threads |-> 0]
    /\ crashes = 0

-----------------------------------------------------------------------------
(* Thread bookkeeping.                                                      *)

Goto(t, step) == /\ at' = [at EXCEPT ![t] = step]
                 /\ UNCHANGED <<on, asked>>

Return(t) == /\ at' = [at EXCEPT ![t] = "idle"]
             /\ on' = [on EXCEPT ![t] = NoOrder]
             /\ asked' = [asked EXCEPT ![t] = 0]

-----------------------------------------------------------------------------
(* OrderJournal and update_order_status.                                    *)

is_duplicate(c) == journal[c] # "absent"

\* INSERT of the order's row, and UPDATE of its status; both commit at once.
log_order(c) == journal' = [journal EXCEPT ![c] = "pending"]
update_status(c, status) == journal' = [journal EXCEPT ![c] = status]

\* The journal status update_order_status writes for an order status.
JournalFor(status) ==
    CASE status \in {"submitted", "accepted", "partially_filled"} -> "submitted"
      [] status = "filled" -> "confirmed"
      [] status \in {"cancelled", "expired"} -> "cancelled"
      [] status = "rejected" -> "rejected"

\* No order of the table: nothing happens.  Otherwise the status is
\* overwritten whatever it was, and the row too, when this process holds its
\* entry id.
update_order_status(c, status) ==
    /\ order' = IF order[c] = "none" THEN order
                ELSE [order EXCEPT ![c] = status]
    /\ IF order[c] # "none" /\ c \in entryOf
       THEN update_status(c, JournalFor(status))
       ELSE UNCHANGED journal

\* A new Order object takes the table's entry for c: an amendment under way
\* still holds the old object.
Track(c, status) ==
    /\ order' = [order EXCEPT ![c] = status]
    /\ qty' = [qty EXCEPT ![c] = InitQty]
    /\ orphan' = orphan \cup
          {t \in Threads : at[t] \in {"replaceSend", "replaceAck"} /\ on[t] = c}

-----------------------------------------------------------------------------
(* execute(intent).                                                         *)

\* The call, up to the idempotency check.  An intent refused by the origin
\* check, the policy firewall, the hard caps, the risk checker or the price
\* collar returns before any state changes, and takes no step here.
ExecuteCall(t, c) ==
    /\ at[t] = "idle"
    /\ at' = [at EXCEPT ![t] = "check"]
    /\ on' = [on EXCEPT ![t] = c]
    /\ UNCHANGED <<journalVars, memory, broker, sends, asked, crashes>>

\* Mutant: the order goes out before its row is written.
ExecuteCheckUnlogged(t) ==
    /\ at[t] = "check"
    /\ Goto(t, IF is_duplicate(on[t]) THEN "lookup" ELSE "send")
    /\ UNCHANGED <<journalVars, memory, broker, sends, crashes>>

ExecuteCheck(t) ==
    /\ at[t] = "check"
    /\ Goto(t, IF is_duplicate(on[t]) THEN "lookup" ELSE "log")
    /\ UNCHANGED <<journalVars, memory, broker, sends, crashes>>

\* A duplicate still in the order table is returned as it is.
ExecuteLookup(t) ==
    /\ at[t] = "lookup"
    /\ IF order[on[t]] # "none"
       THEN Return(t)
       ELSE Goto(t, "recover")
    /\ UNCHANGED <<journalVars, memory, broker, sends, crashes>>

\* Otherwise a fresh Order (status PENDING, the row's original quantity) is
\* put in the table.  The entry id of the row is not restored.
ExecuteRecover(t) ==
    /\ at[t] = "recover"
    /\ Track(on[t], "pending")
    /\ Return(t)
    /\ UNCHANGED <<journalVars, broker, sends, crashes>>

\* Mutant: no UNIQUE constraint on client_order_id.
ExecuteLogWithoutUnique(t) ==
    /\ at[t] = "log"
    /\ log_order(on[t])
    /\ entryOf' = entryOf \cup {on[t]}
    /\ Goto(t, "send")
    /\ UNCHANGED <<memory, broker, sends, crashes>>

\* The UNIQUE column decides a race between two threads that both found no
\* row: the loser's INSERT raises IntegrityError out of execute().
ExecuteLog(t) ==
    /\ at[t] = "log"
    /\ IF is_duplicate(on[t])
       THEN Return(t) /\ UNCHANGED journalVars
       ELSE /\ log_order(on[t])
            /\ entryOf' = entryOf \cup {on[t]}
            /\ Goto(t, "send")
    /\ UNCHANGED <<memory, broker, sends, crashes>>

BrokerAccepts(c) ==
    broker' = [broker EXCEPT ![c] = [st |-> "open", cum |-> 0, qty |-> InitQty]]

\* One call of broker_submit.  The broker may accept and answer, accept while
\* the answer is lost, or not accept.  Both failures look the same to the
\* caller: the adapters return (False, None, error), while a bare submit
\* function raises through execute() and leaves the row PENDING.
ExecuteSend(t) ==
    /\ at[t] = "send"
    /\ sends' = [sends EXCEPT ![on[t]] = @ + 1]
    /\ \/ BrokerAccepts(on[t]) /\ Goto(t, "ackOk")
       \/ BrokerAccepts(on[t]) /\ (Goto(t, "ackFail") \/ Return(t))
       \/ UNCHANGED broker /\ (Goto(t, "ackFail") \/ Return(t))
    /\ UNCHANGED <<journalVars, memory, crashes>>

ExecuteAckOk(t) ==
    /\ at[t] = "ackOk"
    /\ update_status(on[t], "submitted")
    /\ Track(on[t], "submitted")
    /\ Return(t)
    /\ UNCHANGED <<entryOf, broker, sends, crashes>>

\* The order is not put in the table.
ExecuteAckFail(t) ==
    /\ at[t] = "ackFail"
    /\ update_status(on[t], "rejected")
    /\ Return(t)
    /\ UNCHANGED <<entryOf, memory, broker, sends, crashes>>

-----------------------------------------------------------------------------
(* cancel_order and replace_order.                                          *)

Working(c) == order[c] \notin TerminalStatus \cup {"none"}

CancelCall(t, c) ==
    /\ at[t] = "idle"
    /\ Working(c)
    /\ at' = [at EXCEPT ![t] = "cancelSend"]
    /\ on' = [on EXCEPT ![t] = c]
    /\ UNCHANGED <<journalVars, memory, broker, sends, asked, crashes>>

\* Mutant: a lost answer reads as success.
CancelSendOptimistic(t) ==
    /\ at[t] = "cancelSend"
    /\ \/ /\ broker[on[t]].st = "open"
          /\ broker' = [broker EXCEPT ![on[t]].st = "cancelled"]
       \/ UNCHANGED broker
    /\ Goto(t, "cancelAck")
    /\ UNCHANGED <<journalVars, memory, sends, crashes>>

\* make_broker_cancel answers True only when the broker says so; an exception
\* (the answer is lost) reads as False.
CancelSend(t) ==
    /\ at[t] = "cancelSend"
    /\ \/ /\ broker[on[t]].st = "open"
          /\ broker' = [broker EXCEPT ![on[t]].st = "cancelled"]
          /\ (Goto(t, "cancelAck") \/ Return(t))
       \/ Return(t) /\ UNCHANGED broker
    /\ UNCHANGED <<journalVars, memory, sends, crashes>>

CancelAck(t) ==
    /\ at[t] = "cancelAck"
    /\ update_order_status(on[t], "cancelled")
    /\ Return(t)
    /\ UNCHANGED <<entryOf, qty, orphan, broker, sends, crashes>>

ReplaceCall(t, c, q) ==
    /\ at[t] = "idle"
    /\ ReplaceWired
    /\ Working(c)
    /\ at' = [at EXCEPT ![t] = "replaceSend"]
    /\ on' = [on EXCEPT ![t] = c]
    /\ asked' = [asked EXCEPT ![t] = q]
    /\ UNCHANGED <<journalVars, memory, broker, sends, crashes>>

ReplaceSend(t) ==
    /\ at[t] = "replaceSend"
    /\ \/ /\ broker[on[t]].st = "open"
          /\ asked[t] > broker[on[t]].cum
          /\ broker' = [broker EXCEPT ![on[t]].qty = asked[t]]
          /\ \/ Goto(t, "replaceAck") /\ UNCHANGED orphan
             \/ Return(t) /\ orphan' = orphan \ {t}
       \/ Return(t) /\ orphan' = orphan \ {t} /\ UNCHANGED broker
    /\ UNCHANGED <<journalVars, order, qty, sends, crashes>>

\* The new quantity goes to the Order object the call started with, the
\* status ACCEPTED to the one in the table, whatever it was before.
ReplaceAck(t) ==
    /\ at[t] = "replaceAck"
    /\ update_order_status(on[t], "accepted")
    /\ qty' = IF t \in orphan THEN qty ELSE [qty EXCEPT ![on[t]] = asked[t]]
    /\ orphan' = orphan \ {t}
    /\ Return(t)
    /\ UNCHANGED <<entryOf, broker, sends, crashes>>

-----------------------------------------------------------------------------
(* The broker (external): it fills, cancels and expires the orders it holds.*)

BrokerFill(c) ==
    /\ broker[c].st = "open"
    /\ \E n \in 1..MaxQty :
          /\ broker[c].cum + n <= broker[c].qty
          /\ broker' = [broker EXCEPT ![c] =
                [st |-> IF @.cum + n = @.qty THEN "filled" ELSE "open",
                 cum |-> @.cum + n, qty |-> @.qty]]
    /\ UNCHANGED <<journalVars, memory, sends, threadVars, crashes>>

BrokerClose(c) ==
    /\ broker[c].st = "open"
    /\ \E s \in {"cancelled", "expired", "rejected"} :
          broker' = [broker EXCEPT ![c].st = s]
    /\ UNCHANGED <<journalVars, memory, sends, threadVars, crashes>>

-----------------------------------------------------------------------------
(* The process dies and starts again: the engine is rebuilt empty.          *)

Crash ==
    /\ crashes < MaxCrashes
    /\ crashes' = crashes + 1
    /\ entryOf' = {}
    /\ order' = [c \in Orders |-> "none"]
    /\ qty' = [c \in Orders |-> 0]
    /\ orphan' = {}
    /\ at' = [t \in Threads |-> "idle"]
    /\ on' = [t \in Threads |-> NoOrder]
    /\ asked' = [t \in Threads |-> 0]
    /\ UNCHANGED <<journal, broker, sends>>

-----------------------------------------------------------------------------
ExecuteStep(t) ==
    \/ ExecuteCheck(t) \/ ExecuteLookup(t) \/ ExecuteRecover(t)
    \/ ExecuteLog(t) \/ ExecuteSend(t) \/ ExecuteAckOk(t) \/ ExecuteAckFail(t)

AmendStep(t) ==
    CancelSend(t) \/ CancelAck(t) \/ ReplaceSend(t) \/ ReplaceAck(t)

EngineNext ==
    \E t \in Threads :
        \/ ExecuteStep(t)
        \/ AmendStep(t)
        \/ \E c \in Orders :
              \/ ExecuteCall(t, c)
              \/ CancelCall(t, c)
              \/ \E q \in 1..MaxQty : ReplaceCall(t, c, q)

BrokerNext == \E c \in Orders : BrokerFill(c) \/ BrokerClose(c)

Next == EngineNext \/ BrokerNext \/ Crash

Spec == Init /\ [][Next]_vars

-----------------------------------------------------------------------------
(* Properties.                                                              *)

\* execute() of one intent, repeated by several threads and after restarts,
\* calls broker_submit at most once ("stable across retries/restarts",
\* engine.py:294; test_order_idempotency.py).
AtMostOneSubmission == \A c \in Orders : sends[c] <= 1

\* An order the broker may hold has a journal row (log_order precedes
\* broker_submit), so a restart can find it: also when its answer was lost.
WriteAhead == \A c \in Orders :
    broker[c].st # "none" => journal[c] # "absent"

\* cancel_order marks an order CANCELLED only when the broker really closed
\* it: a lost answer, a racing amendment or a racing duplicate never makes
\* the engine believe that a live order is gone.
NoFalseCancel == \A c \in Orders :
    order[c] = "cancelled" => broker[c].st = "cancelled"

\* The stage of SubmitOnce an order is at.
Stage == [c \in Orders |->
            IF sends[c] = 0
            THEN IF journal[c] = "absent" THEN "new" ELSE "recorded"
            ELSE IF sends[c] = 1 THEN "sent" ELSE "sent again"]

Once == INSTANCE SubmitOnce WITH stage <- Stage

\* The engine and its journal implement SubmitOnce.
RefinesSubmitOnce == Once!Spec

=============================================================================
