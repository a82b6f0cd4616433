----------------------------- MODULE SubmitOnce -----------------------------
(***************************************************************************)
(* What the order path promises about each order, whatever the threads,    *)
(* the broker and the crashes do: it is recorded before it is sent, it is  *)
(* sent at most once, and a record never disappears.                       *)
(***************************************************************************)
CONSTANT Orders

VARIABLE stage   \* how far each order has come

Stages == {"new", "recorded", "sent"}

Init == stage = [c \in Orders |-> "new"]

Record(c) == /\ stage[c] = "new"
             /\ stage' = [stage EXCEPT ![c] = "recorded"]

Send(c) == /\ stage[c] = "recorded"
           /\ stage' = [stage EXCEPT ![c] = "sent"]

Next == \E c \in Orders : Record(c) \/ Send(c)

Spec == Init /\ [][Next]_stage

=============================================================================
