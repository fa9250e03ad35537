--------------------------- MODULE MCSsoSessions ---------------------------
(* Instances of SsoSessions for TLC.                                       *)
EXTENDS SsoSessions, TLC

Symmetry == Permutations(Redeemers) \cup Permutations(Codes)
=============================================================================
