------------------------- MODULE MCCommandDelivery -------------------------
(* A small instance of CommandDelivery for TLC. *)
EXTENDS CommandDelivery

\* A command of any kind.
OneCommand == [c \in {1} |-> Kinds]
=============================================================================
