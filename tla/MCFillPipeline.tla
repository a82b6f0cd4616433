--------------------------- MODULE MCFillPipeline ---------------------------
(* A small instance of FillPipeline for TLC. *)
EXTENDS FillPipeline, TLC

\* Threads are interchangeable.
ThreadSymmetry == Permutations(Threads)
=============================================================================
