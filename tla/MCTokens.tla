------------------------------ MODULE MCTokens ------------------------------
(***************************************************************************)
(* Tokens with two installs for TLC.                                       *)
(***************************************************************************)
EXTENDS Tokens, TLC

\* An ordinary token and one whose lifetime saturates.
Granted == [ttl : {1, 7}, caps : {{"msg"}}]

\* Installs are interchangeable, and so are ids.
Symmetry == Permutations(Nodes) \cup Permutations(Ids)
=============================================================================
