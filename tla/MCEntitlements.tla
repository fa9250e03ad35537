--------------------------- MODULE MCEntitlements ---------------------------
(* Instances of Entitlements for TLC.                                      *)
EXTENDS Entitlements, TLC

Symmetry == Permutations(Requests) \cup Permutations(Users) \cup Permutations(Keys)
=============================================================================
