---------------------------- MODULE MCLiveRunner ----------------------------
(* A small instance of LiveRunner for TLC. *)
EXTENDS LiveRunner, TLC

\* Orders are interchangeable, and so are the threads that call the runner.
OrderSymmetry == Permutations(Orders) \cup Permutations(Callers)
=============================================================================
