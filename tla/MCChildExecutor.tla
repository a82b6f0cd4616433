-------------------------- MODULE MCChildExecutor --------------------------
(* Sliced execution of one target quantity, small enough to be exhausted.  *)
EXTENDS ChildExecutor
=============================================================================
