---------------------------- MODULE MCDashboard ----------------------------
(***************************************************************************)
(* Dashboard with two groups for TLC.                                      *)
(***************************************************************************)
EXTENDS Dashboard, TLC

\* Calls are interchangeable, and so are groups.
Symmetry == Permutations(Slots) \cup Permutations(Groups)
=============================================================================
