---------------------------- MODULE MCLifecycle -----------------------------
(***************************************************************************)
(* Lifecycle with finite sets of requests for TLC.                         *)
(***************************************************************************)
EXTENDS Lifecycle, TLC

\* Requests of one kind are interchangeable.
Symmetry == Permutations(Spawners) \cup Permutations(Stoppers)
=============================================================================
