---------------------------- MODULE FillPipeline ----------------------------
(***************************************************************************)
(* How fills come back, as build_live_stack wires it: AgentClient tracks   *)
(* an order once execute() succeeded, PollingFillSource diffs the broker's *)
(* view of the tracked orders into events, FillHandler turns an event into *)
(* a status of the order table and the journal and a quantity, and         *)
(* ledger_fill_callback books the increment in the durable PnLLedger.      *)
(*                                                                         *)
(* The pump runs on one thread, beside the engine's: consume() polls, then *)
(* handles every event before it polls again, so an order has at most one  *)
(* event under way.  Fetching it, updating the handler's own counters,     *)
(* writing the status and booking the increment are separate steps, and    *)
(* each of the two writes may fail after the counters have moved.          *)
(***************************************************************************)
EXTENDS LiveExecution

VARIABLES
    tracked,   \* keys of PollingFillSource._tracked
    sig,       \* their last signature (status, cumulative quantity)
    inbox,     \* events fetched and not yet handled
    updates,   \* what handle_event still has to write to engine and ledger
    fcum,      \* _FillState.cum_qty
    fterm,     \* orders whose _FillState.terminal is set
    booked,    \* quantity per order in the ledger's fills table (durable)
    asks,      \* history: quantities the intent and amendments asked for
    spoilt     \* history: orders of which a failing write lost a report

source == <<tracked, sig>>
handler == <<fcum, fterm>>
history == <<asks, spoilt>>
pipeVars == <<tracked, sig, inbox, updates, fcum, fterm, booked, asks, spoilt>>
fillVars == <<vars, pipeVars>>

\* FillEvent.kind of what the broker reports.  "other" stands for the
\* statuses ("submitted", "pending") that have no entry in _KIND_TO_STATUS.
EventKind == {"other", "accepted", "partial_fill", "fill", "canceled",
              "expired", "rejected"}
\* Mutant: a partial fill ends the tracking of its order.
TerminalKindPartial == {"partial_fill", "fill", "canceled", "expired", "rejected"}

TerminalKind == {"fill", "canceled", "expired", "rejected"}

Event == [ord : Orders, kind : EventKind, cum : 0..MaxQty]
Update == [ord : Orders, status : OrderStatus, inc : 0..MaxQty,
           step : {"status", "book"}]
Signature == [kind : EventKind \cup {"none"}, cum : 0..MaxQty]
NoSignature == [kind |-> "none", cum |-> 0]

FillTypeOK ==
    /\ TypeOK
    /\ tracked \in SUBSET Orders
    /\ sig \in [Orders -> Signature]
    /\ inbox \in SUBSET Event
    /\ updates \in SUBSET Update
    /\ fcum \in [Orders -> 0..MaxQty]
    /\ fterm \in SUBSET Orders
    /\ booked \in [Orders -> Nat]
    /\ asks \in [Orders -> SUBSET (1..MaxQty)]
    /\ spoilt \in SUBSET Orders

FillInit ==
    /\ Init
    /\ tracked = {}
    /\ sig = [c \in Orders |-> NoSignature]
    /\ inbox = {}
    /\ updates = {}
    /\ fcum = [c \in Orders |-> 0]
    /\ fterm = {}
    /\ booked = [c \in Orders |-> 0]
    /\ asks = [c \in Orders |-> {InitQty}]
    /\ spoilt = {}

-----------------------------------------------------------------------------
(* AgentClient.send_intents: execute, then track the order of a success.    *)

Succeeds(t) == \/ at[t] \in {"recover", "ackOk"}
               \/ at[t] = "lookup" /\ order[on[t]] # "none"

ClientExecute(t) ==
    /\ ExecuteStep(t)
    /\ tracked' = IF Succeeds(t) THEN tracked \cup {on[t]} ELSE tracked
    /\ UNCHANGED <<sig, inbox, updates, handler, booked, history>>

\* replace_order leaves the pipeline alone too; what it asks for is noted.
ClientReplace(t, c, q) ==
    /\ ReplaceCall(t, c, q)
    /\ asks' = [asks EXCEPT ![c] = @ \cup {q}]
    /\ UNCHANGED <<source, inbox, updates, handler, booked, spoilt>>

\* Every other operation of the engine leaves the pipeline alone.
EngineOther ==
    /\ \E t \in Threads :
          \/ AmendStep(t)
          \/ \E c \in Orders : ExecuteCall(t, c) \/ CancelCall(t, c)
    /\ UNCHANGED pipeVars

BrokerMoves == BrokerNext /\ UNCHANGED pipeVars

-----------------------------------------------------------------------------
(* PollingFillSource.poll.                                                  *)

\* The kinds a connector may report for the broker's record of an order.
Reported(b) ==
    CASE b.st = "open" /\ b.cum = 0 -> {"other", "accepted"}
      [] b.st = "open" /\ b.cum > 0 -> {"partial_fill"}
      [] b.st = "filled" -> {"fill"}
      [] b.st = "cancelled" -> {"canceled"}
      [] b.st = "none" -> {}
      [] OTHER -> {b.st}

Idle(c) == /\ \A e \in inbox : e.ord # c
           /\ \A u \in updates : u.ord # c

\* One fetch.  A failed fetch, an unknown order and an unchanged signature
\* change nothing.  A terminal report is the last: the order is untracked.
Poll(c) ==
    /\ c \in tracked
    /\ Idle(c)
    /\ \E k \in Reported(broker[c]) :
          LET new == [kind |-> k, cum |-> broker[c].cum] IN
          /\ sig[c] # new
          /\ inbox' = inbox \cup {[ord |-> c, kind |-> k, cum |-> broker[c].cum]}
          /\ IF k \in TerminalKind
             THEN /\ tracked' = tracked \ {c}
                  /\ sig' = [sig EXCEPT ![c] = NoSignature]
             ELSE /\ sig' = [sig EXCEPT ![c] = new]
                  /\ UNCHANGED tracked
    /\ UNCHANGED <<vars, updates, handler, booked, history>>

-----------------------------------------------------------------------------
(* FillHandler._handle_event_locked.                                        *)

\* Mutant: the broker's word is kept as the status.
StatusOfRaw(kind, cum, q) == kind

\* Mutant: any quantity makes the order FILLED.
StatusOfAnyFill(kind, cum, q) ==
    CASE kind \in {"partial_fill", "fill"} -> "filled"
      [] kind = "canceled" -> "cancelled"
      [] OTHER -> kind

\* _KIND_TO_STATUS, corrected by comparing the cumulative fill cum with the
\* quantity q the engine believes the order has.
StatusOf(kind, cum, q) ==
    CASE kind = "accepted" -> "accepted"
      [] kind = "partial_fill" ->
            IF cum >= q THEN "filled" ELSE "partially_filled"
      [] kind = "fill" -> IF cum >= q THEN "filled"
                          ELSE IF cum > 0 THEN "partially_filled" ELSE "accepted"
      [] kind = "canceled" -> "cancelled"
      [] OTHER -> kind

\* Mutant: a fill report counts as a fill of the whole order.
NewCumWhole(e) == IF e.kind \in {"partial_fill", "fill"}
                  THEN qty[e.ord] ELSE fcum[e.ord]

\* A fill report moves the cumulative quantity, never backwards; reports of
\* any other kind leave it alone, whatever quantity they carry.
NewCum(e) == IF e.kind \in {"partial_fill", "fill"} /\ e.cum > fcum[e.ord]
             THEN e.cum ELSE fcum[e.ord]

\* Mutant: events after the terminal one are handled.
IgnoredUnknown(e) == order[e.ord] = "none" \/ e.kind = "other"

Ignored(e) == order[e.ord] = "none" \/ e.ord \in fterm \/ e.kind = "other"

HandleEvent(e) ==
    /\ e \in inbox
    /\ inbox' = inbox \ {e}
    /\ IF Ignored(e)
       THEN UNCHANGED <<handler, updates>>
       ELSE LET cum == NewCum(e)
                status == StatusOf(e.kind, cum, qty[e.ord])
            IN /\ fcum' = [fcum EXCEPT ![e.ord] = cum]
               /\ fterm' = IF status \in TerminalStatus
                           THEN fterm \cup {e.ord} ELSE fterm
               /\ updates' = updates \cup
                     {[ord |-> e.ord, status |-> status,
                       inc |-> cum - fcum[e.ord], step |-> "status"]}
    /\ UNCHANGED <<vars, source, booked, history>>

\* engine.update_order_status, whatever the status is by now.
HandleStatus(u) ==
    /\ u \in updates
    /\ u.step = "status"
    /\ update_order_status(u.ord, u.status)
    /\ updates' = (updates \ {u}) \cup {[u EXCEPT !.step = "book"]}
    /\ UNCHANGED <<entryOf, qty, orphan, broker, sends, threadVars,
                   crashes, source, inbox, handler, booked, history>>

\* The journal write raises, after the status in memory, out of handle_event
\* and consume: the rest of the event and of the fetched batch is lost, while
\* counters and signatures have moved.
StatusRaises(u) ==
    /\ u \in updates
    /\ u.step = "status"
    /\ order[u.ord] # "none" /\ u.ord \in entryOf
    /\ order' = [order EXCEPT ![u.ord] = u.status]
    /\ updates' = updates \ {u}
    /\ inbox' = {}
    /\ spoilt' = spoilt \cup {u.ord} \cup {e.ord : e \in inbox}
    /\ UNCHANGED <<journalVars, qty, orphan, broker, sends, threadVars, crashes,
                   source, handler, booked, asks>>

\* Mutant: the cumulative quantity is booked.
HandleBookCumulative(u) ==
    /\ u \in updates
    /\ u.step = "book"
    /\ booked' = [booked EXCEPT ![u.ord] = @ + fcum[u.ord]]
    /\ updates' = updates \ {u}
    /\ UNCHANGED <<vars, source, inbox, handler, history>>

\* on_fill: the ledger inserts and commits the increment, if there is one.
HandleBook(u) ==
    /\ u \in updates
    /\ u.step = "book"
    /\ booked' = [booked EXCEPT ![u.ord] = @ + u.inc]
    /\ updates' = updates \ {u}
    /\ UNCHANGED <<vars, source, inbox, handler, history>>

\* The ledger raises, and _handle_event_locked logs it and goes on; a report
\* without a price is not booked either.
BookFails(u) ==
    /\ u \in updates
    /\ u.step = "book" /\ u.inc > 0
    /\ updates' = updates \ {u}
    /\ spoilt' = spoilt \cup {u.ord}
    /\ UNCHANGED <<vars, source, inbox, handler, booked, asks>>

-----------------------------------------------------------------------------
\* Source and handler are rebuilt empty; the ledger replays its fills.
FillCrash ==
    /\ Crash
    /\ tracked' = {}
    /\ sig' = [c \in Orders |-> NoSignature]
    /\ inbox' = {}
    /\ updates' = {}
    /\ fcum' = [c \in Orders |-> 0]
    /\ fterm' = {}
    /\ UNCHANGED <<booked, history>>

Handle == \/ \E e \in inbox : HandleEvent(e)
          \/ \E u \in updates : \/ HandleStatus(u) \/ StatusRaises(u)
                                \/ HandleBook(u) \/ BookFails(u)

FillNext ==
    \/ \E t \in Threads : \/ ClientExecute(t)
                          \/ \E c \in Orders, q \in 1..MaxQty : ClientReplace(t, c, q)
    \/ EngineOther
    \/ BrokerMoves
    \/ \E c \in Orders : Poll(c)
    \/ Handle
    \/ FillCrash

FillSpec == FillInit /\ [][FillNext]_fillVars

\* consume() goes through the events it has fetched; nothing is said of when,
\* or whether, pump() is called.
FairFillSpec == FillSpec /\ WF_fillVars(Handle)

-----------------------------------------------------------------------------
(* Properties.                                                              *)

\* However stale the event it acts on, the handler never counts more than
\* the broker executed.
NeverOverCounts == \A c \in Orders : fcum[c] <= broker[c].cum

\* An order the OMS shows closed was closed that way at the broker, whether
\* the engine's own cancel or a report of the broker closed it.
ClosedIsReal == \A c \in Orders :
    order[c] \in {"cancelled", "expired", "rejected"} => broker[c].st = order[c]

\* An order the OMS shows FILLED was executed to one of the quantities that it
\* was asked for, and one that was never amended is filled at the broker,
\* although events are handled late and "filled" is decided from a quantity
\* the engine remembers.
FilledIsReal == \A c \in Orders : order[c] = "filled" =>
    /\ \E q \in asks[c] : broker[c].cum >= q
    /\ asks[c] = {InitQty} => broker[c].st = "filled"

\* A process books an execution at most once: increments of a sequence of
\* cumulative reports never add up to more than the broker executed.  Each
\* restart may book it once more, because the ledger is durable and the
\* counters are not; without one the ledger holds nothing but executions.
BookedOnce == \A c \in Orders : booked[c] <= (crashes + 1) * broker[c].cum

\* The returning call of thread t takes an order out of the status the fill
\* handler gave it: a duplicate that rebuilds it or is overtaken by the answer
\* to its submission, an amendment, or the cancel of an amended order.
Overwrites(t, c) ==
    /\ on[t] = c
    /\ at'[t] = "idle"
    /\ \/ at[t] \in {"recover", "ackOk", "replaceAck"}
       \/ at[t] = "cancelAck" /\ asks[c] # {InitQty}

\* FILLED is final for the fill handler: no report, however late, takes an
\* order out of it, and no cancel of an order as it was asked for.  Only a
\* restart and the calls of Overwrites do.
FilledIsFinal ==
    [][\A c \in Orders :
          order[c] = "filled" =>
             \/ order'[c] \in {"filled", "none"}
             \/ \E t \in Threads : Overwrites(t, c)]_fillVars

\* pump() is called for ever and the connector's get_order answers: what is
\* there to fetch is fetched.
Fed == \A c \in Orders : WF_fillVars(Poll(c))

\* The handler took the order for complete before it was: an amendment raised
\* the quantity and the engine did not know it.
TakenForComplete(c) == \E q \in asks[c] : q < broker[c].cum

\* While fills are fetched, an execution is not lost: an order in the OMS that
\* the broker filled has its whole quantity in the ledger in the end.  The
\* exceptions are a write that failed, an amended order that was taken for
\* complete, and a restart, after which nobody follows the order.
FillsArrive == Fed => \A c \in Orders :
    (order[c] # "none" /\ broker[c].st = "filled")
        ~> \/ booked[c] >= broker[c].cum
           \/ c \in spoilt \/ TakenForComplete(c) \/ order[c] = "none"

=============================================================================
