--------------------------- MODULE ChildExecutor ---------------------------
(***************************************************************************)
(* Sliced execution: AgentClient.send_intents registers a parent order     *)
(* with ClockDrivenChildExecutor, and AgentClient.pump releases its slices *)
(* on a clock through the engine, cancels stragglers at the broker, rolls  *)
(* their leaves into replacements, and feeds the fills it polls back into  *)
(* the children.                                                           *)
(*                                                                         *)
(* One symbol and one batch of intents, which may be sent more than once;  *)
(* one thread calls send_intents and pump.  The broker is external and     *)
(* moves between any two of that thread's calls.  A cancel that the broker *)
(* confirms closes the order.  An engine.execute that fails leaves no      *)
(* order, or one at the broker whose answer was lost.                      *)
(***************************************************************************)
EXTENDS Integers, Functions

CONSTANTS
    MaxSends,      \* bound: how often the batch is sent
    MaxSlices,     \* n_slices
    Target,        \* quantity that reaches the target exposure from zero
    MaxReplaces,   \* max_replaces
    MinChildQty,   \* min_child_qty
    MaxFaults      \* bound: calls of engine or broker that fail

ASSUME SliceAssumption == /\ MaxSends \in Nat /\ MaxSlices \in Nat
                          /\ MaxReplaces \in Nat
ASSUME QtyAssumption == Target \in Nat /\ MinChildQty \in Nat /\ MaxFaults \in Nat

Sends == 1..MaxSends
Slices == 1..MaxSlices

\* A ChildOrder is named by the send, its slice_index and its replaces.
Children == Sends \X Slices \X (0..MaxReplaces)

VARIABLES
    sent,       \* how often the batch was sent; the last parent is current
    total,      \* total_qty of the current parent
    due,        \* slices of it whose release_at has passed
    child,      \* the ChildOrders
    overdue,    \* released children past straggler_timeout_s
    broker,     \* the broker's record of each child's order
    tracked,    \* children whose order PollingFillSource polls
    phase,      \* what pump is doing
    todo,       \* children the loop of this phase still has to visit
    released,   \* children released by this step and not yet tracked
    faults

clock == <<due, overdue>>
loop == <<phase, todo, released>>
vars == <<sent, total, clock, child, broker, tracked, loop, faults>>

ChildState == {"none", "pending", "working", "filled", "cancelled", "replaced",
               "rejected"}
BrokerState == {"none", "open", "filled", "cancelled", "expired"}
NoChild == [st |-> "none", qty |-> 0, filled |-> 0]

\* Fields keep their type; nothing is left to visit between two steps.
ExecutorTypeOK ==
    /\ sent \in 0..MaxSends
    /\ total \in Nat
    /\ due \in 0..MaxSlices
    /\ child \in [Children -> [st : ChildState, qty : Nat, filled : Nat]]
    /\ overdue \in SUBSET Children
    /\ broker \in [Children -> [st : BrokerState, cum : Nat]]
    /\ tracked \in SUBSET Children
    /\ phase \in {"idle", "cancel", "release", "poll"}
    /\ todo \in SUBSET Children
    /\ released \in SUBSET Children
    /\ phase = "idle" => todo = {} /\ released = {}
    /\ faults \in 0..MaxFaults

Init ==
    /\ sent = 0 /\ total = 0 /\ due = 0
    /\ child = [k \in Children |-> NoChild]
    /\ overdue = {}
    /\ broker = [k \in Children |-> [st |-> "none", cum |-> 0]]
    /\ tracked = {}
    /\ phase = "idle" /\ todo = {} /\ released = {}
    /\ faults = 0

-----------------------------------------------------------------------------
(* Parent and children.                                                     *)

Current == {k \in Children : k[1] = sent}

filled_qty == SumFunction([k \in Current |-> child[k].filled])

\* ChildOrder.leaves
leaves(k) == IF child[k].qty > child[k].filled THEN child[k].qty - child[k].filled ELSE 0

Live == {"pending", "working"}

is_complete == \/ filled_qty >= total
               \/ \A k \in Current : child[k].st \notin Live

\* What the broker has traded: the position send_intents reads.
Position == SumFunction([k \in Children |-> broker[k].cum])

\* The quantities submit_parent may give the slices: any weights, the
\* remainder on the last slice, slices of no quantity left out.
Schedules(q) == {w \in [Slices -> 0..q] : SumFunction(w) = q}

\* send_intents buys what is missing to the target.  Sending the batch again
\* registers a parent under the same id: the earlier one is forgotten.
send_intents(w) ==
    /\ phase = "idle"
    /\ sent < MaxSends /\ Position < Target
    /\ sent' = sent + 1
    /\ total' = Target - Position
    /\ due' = 1
    /\ child' = [k \in Children |->
                    IF k[1] = sent + 1 /\ k[3] = 0 /\ w[k[2]] > 0
                    THEN [st |-> "pending", qty |-> w[k[2]], filled |-> 0]
                    ELSE child[k]]
    /\ UNCHANGED <<overdue, broker, tracked, loop, faults>>

\* Time passes: the next slice is due, a working child is a straggler.
SliceDue ==
    /\ sent > 0
    /\ due < MaxSlices /\ due' = due + 1
    /\ UNCHANGED <<sent, total, child, overdue, broker, tracked, loop, faults>>

BudgetEnds(k) ==
    /\ child[k].st = "working" /\ k \notin overdue
    /\ overdue' = overdue \cup {k}
    /\ UNCHANGED <<sent, total, due, child, broker, tracked, loop, faults>>

-----------------------------------------------------------------------------
(* step: first the stragglers of the current parent ...                     *)

StepBegins ==
    /\ phase = "idle" /\ sent > 0
    /\ ~is_complete
    /\ phase' = "cancel"
    /\ todo' = {k \in Current : child[k].st = "working" /\ k \in overdue /\ leaves(k) > 0}
    /\ UNCHANGED <<sent, total, clock, child, broker, tracked, released, faults>>

Successor(k) == <<k[1], k[2], k[3] + 1>>

\* Mutant: the whole child is rolled over.
RollWhole(k) ==
    IF k[3] + 1 <= MaxReplaces /\ leaves(k) > MinChildQty
    THEN child' = [child EXCEPT ![k].st = "replaced",
                                ![Successor(k)] = [st |-> "pending", qty |-> child[k].qty,
                                                   filled |-> 0]]
    ELSE child' = [child EXCEPT ![k].st = "cancelled"]

\* The leaves of a cancelled child go to a replacement, or are given up.
Roll(k) ==
    IF k[3] + 1 <= MaxReplaces /\ leaves(k) > MinChildQty
    THEN child' = [child EXCEPT ![k].st = "replaced",
                                ![Successor(k)] = [st |-> "pending", qty |-> leaves(k),
                                                   filled |-> 0]]
    ELSE child' = [child EXCEPT ![k].st = "cancelled"]

CloseOrder(k) == broker[k].st = "open" /\ broker' = [broker EXCEPT ![k].st = "cancelled"]

Fault == faults < MaxFaults /\ faults' = faults + 1

\* Mutant: a cancel that failed counts as done.
CancelStragglerOptimistic(k) ==
    /\ phase = "cancel"
    /\ todo' = todo \ {k}
    /\ Roll(k)
    /\ \/ CloseOrder(k) /\ UNCHANGED faults
       \/ broker[k].st # "open" /\ UNCHANGED <<broker, faults>>
       \/ Fault /\ (CloseOrder(k) \/ UNCHANGED broker)
    /\ UNCHANGED <<sent, total, clock, tracked, phase, released>>

\* The cancel is confirmed; or the order was over already; or the call fails,
\* before or after it reached the broker.
CancelStraggler(k) ==
    /\ phase = "cancel"
    /\ todo' = todo \ {k}
    /\ \/ CloseOrder(k) /\ Roll(k) /\ UNCHANGED faults
       \/ broker[k].st # "open" /\ UNCHANGED <<child, broker, faults>>
       \/ Fault /\ (CloseOrder(k) \/ UNCHANGED broker) /\ UNCHANGED child
    /\ UNCHANGED <<sent, total, clock, tracked, phase, released>>

-----------------------------------------------------------------------------
(* ... then the children that are due, replacements at once.                *)

\* Mutant: replacements wait for a slice that never comes.
IsDueOriginal(k) == k[2] <= due /\ k[3] = 0

IsDue(k) == k[2] <= due \/ k[3] > 0

ReleaseBegins ==
    /\ phase = "cancel" /\ todo = {}
    /\ phase' = "release"
    /\ todo' = {k \in Current : child[k].st = "pending" /\ IsDue(k)}
    /\ UNCHANGED <<sent, total, clock, child, broker, tracked, released, faults>>

OpenOrder(k) == broker' = [broker EXCEPT ![k].st = "open"]

\* The engine refuses; or submits, and the answer is lost.
ReleaseFails(k) ==
    /\ \/ UNCHANGED <<broker, faults>>
       \/ OpenOrder(k) /\ Fault
    /\ child' = [child EXCEPT ![k].st = "rejected"]

ReleaseChild(k) ==
    /\ phase = "release"
    /\ todo' = todo \ {k}
    /\ \/ /\ child[k].qty <= MinChildQty
          /\ child' = [child EXCEPT ![k].st = "cancelled"]
          /\ UNCHANGED <<broker, released, faults>>
       \/ /\ child[k].qty > MinChildQty
          /\ child' = [child EXCEPT ![k].st = "working"]
          /\ OpenOrder(k)
          /\ released' = released \cup {k}
          /\ UNCHANGED faults
       \/ child[k].qty > MinChildQty /\ ReleaseFails(k) /\ UNCHANGED released
    /\ UNCHANGED <<sent, total, clock, tracked, phase>>

\* The journal raises before the order is submitted: the step is given up,
\* and pump tracks none of the orders it released.
ExecuteRaises(k) ==
    /\ phase = "release" /\ child[k].qty > MinChildQty
    /\ Fault
    /\ phase' = "idle" /\ todo' = {} /\ released' = {}
    /\ UNCHANGED <<sent, total, clock, child, broker, tracked>>

\* Mutant: the list of released children is not cleared.
StepEndsKeepsReleased ==
    /\ phase = "release" /\ todo = {}
    /\ tracked' = tracked \cup released
    /\ phase' = "poll" /\ todo' = tracked \cup released /\ UNCHANGED released
    /\ UNCHANGED <<sent, total, clock, child, broker, faults>>

StepEnds ==
    /\ phase = "release" /\ todo = {}
    /\ tracked' = tracked \cup released
    /\ phase' = "poll" /\ todo' = tracked \cup released /\ released' = {}
    /\ UNCHANGED <<sent, total, clock, child, broker, faults>>

\* step has nothing to do with a complete parent.
StepSkips ==
    /\ phase = "idle" /\ sent > 0 /\ tracked # {}
    /\ is_complete
    /\ phase' = "poll" /\ todo' = tracked
    /\ UNCHANGED <<sent, total, clock, child, broker, tracked, released, faults>>

-----------------------------------------------------------------------------
(* ... and pump polls the tracked orders until nothing is new.              *)

\* Mutant: the reported total is added to what is known.
on_child_fill_adds(k) ==
    LET cum == child[k].filled + broker[k].cum
    IN child' = [child EXCEPT ![k].filled = cum,
                              ![k].st = IF cum >= child[k].qty /\ @ = "working"
                                        THEN "filled" ELSE @]

\* FillHandler hands the cumulative quantity on.
on_child_fill(k) ==
    LET cum == broker[k].cum
    IN child' = [child EXCEPT ![k].filled = cum,
                              ![k].st = IF cum >= child[k].qty /\ @ = "working"
                                        THEN "filled" ELSE @]

\* A closed order is reported as such, with no call of on_child_fill for the
\* quantity that traded since the last poll; nobody calls on_order_terminal.
Poll(k) ==
    /\ phase = "poll"
    /\ \/ /\ broker[k].st = "open" /\ broker[k].cum # child[k].filled
          /\ on_child_fill(k) /\ UNCHANGED <<tracked, todo>>
       \/ /\ broker[k].st = "filled"
          /\ on_child_fill(k) /\ tracked' = tracked \ {k} /\ todo' = todo \ {k}
       \/ /\ broker[k].st \in {"cancelled", "expired"}
          /\ tracked' = tracked \ {k} /\ todo' = todo \ {k} /\ UNCHANGED child
    /\ UNCHANGED <<sent, total, clock, broker, phase, released, faults>>

\* Nothing is new, or the fetch fails.
PollNothing(k) ==
    /\ phase = "poll"
    /\ \/ /\ broker[k].st = "open" /\ broker[k].cum = child[k].filled
          /\ UNCHANGED faults
       \/ Fault
    /\ todo' = todo \ {k}
    /\ UNCHANGED <<sent, total, clock, child, broker, tracked, phase, released>>

PollEnds ==
    /\ phase = "poll" /\ todo = {}
    /\ phase' = "idle"
    /\ UNCHANGED <<sent, total, clock, child, broker, tracked, todo, released, faults>>

-----------------------------------------------------------------------------
(* The broker (external).                                                   *)

BrokerFills(k, n) ==
    /\ broker[k].st = "open"
    /\ LET cum == broker[k].cum + n
       IN /\ cum <= child[k].qty
          /\ broker' = [broker EXCEPT ![k] =
                           [st |-> IF cum = child[k].qty THEN "filled" ELSE "open",
                            cum |-> cum]]
    /\ UNCHANGED <<sent, total, clock, child, tracked, loop, faults>>

BrokerExpires(k) ==
    /\ broker[k].st = "open"
    /\ broker' = [broker EXCEPT ![k].st = "expired"]
    /\ UNCHANGED <<sent, total, clock, child, tracked, loop, faults>>

Pump == \/ StepBegins \/ ReleaseBegins \/ StepEnds \/ StepSkips \/ PollEnds
        \/ \E k \in todo : \/ CancelStraggler(k)
                           \/ ReleaseChild(k) \/ ExecuteRaises(k)
                           \/ Poll(k) \/ PollNothing(k)

Time == SliceDue \/ \E k \in Current : BudgetEnds(k)

Broker == \E k \in Children : \/ \E n \in 1..Target : BrokerFills(k, n)
                              \/ BrokerExpires(k)

Next == \/ \E w \in Schedules(Target - Position) : send_intents(w)
        \/ Pump \/ Time \/ Broker

Spec == Init /\ [][Next]_vars

\* The live loop calls pump for ever, and time passes.
FairSpec == /\ Spec
            /\ WF_vars(Pump)
            /\ WF_vars(Time)

-----------------------------------------------------------------------------
(* Properties.                                                              *)

\* A slice has at most one order open at the broker: a replacement goes out
\* only when the order it replaces is closed, whichever calls failed.
OneOpenPerSlice ==
    \A j, k \in Children :
        /\ broker[j].st = "open" /\ broker[k].st = "open"
        /\ j[1] = k[1] /\ j[2] = k[2]
        => j = k

Leaves(k) == IF child[k].st \in Live THEN leaves(k) ELSE 0

\* What the executor knows to be filled and what it still means to trade
\* never exceed the parent's quantity, through any chain of replacements.
PlannedWithinTotal ==
    filled_qty + SumFunction([k \in Current |-> Leaves(k)]) <= total

\* step ignores a complete parent, so no child of it may still be waiting or
\* working.
CompleteIsOver ==
    sent > 0 /\ is_complete => \A k \in Current : child[k].st \notin Live

\* The order of a working child is over and no report of it will come.
Orphaned(k) == /\ child[k].st = "working"
               /\ k \notin tracked \cup released
               /\ broker[k].st # "open"

\* A parent completes, unless one of its orders ended and the executor cannot
\* learn of it.
Settles == (sent > 0) ~> (is_complete \/ \E k \in Current : Orphaned(k))

\* The leaves of a straggler are what is left of it: the broker never trades
\* more than the target.
NeverOverfilled == Position <= Target

\* Sending the same batch again adds no order to those of the first.
ResendAddsNothing ==
    \A j, k \in Children :
        broker[j].st # "none" /\ broker[k].st # "none" => j[1] = k[1]

=============================================================================
