---------------------------- MODULE MCReviewLedger ----------------------------
(* Instances of ReviewLedger for TLC.                                      *)
EXTENDS ReviewLedger, TLC

Symmetry == Permutations(Items) \cup Permutations(Clients)
=============================================================================
