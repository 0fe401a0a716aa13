----------------------------- MODULE MCDelivery -----------------------------
(***************************************************************************)
(* Delivery with finite sets for TLC.  The configurations choose the kinds *)
(* of faults and the bounds.                                               *)
(***************************************************************************)
EXTENDS DeliveryRefinement, TLC

\* Peers are interchangeable, and so are the slots of a stream.
Symmetry == Permutations(Peers) \cup Permutations(Slots)
=============================================================================
