---------------------------- MODULE MCTwoFactor ----------------------------
(* Instances of TwoFactor for TLC.  Requests are interchangeable, and so   *)
(* are the recovery codes of a batch.                                      *)
EXTENDS TwoFactor, TLC

Symmetry == Permutations(Requests) \cup Permutations(Places)
=============================================================================
