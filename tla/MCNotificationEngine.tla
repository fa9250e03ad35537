------------------------- MODULE MCNotificationEngine -------------------------
(* Instances of NotificationEngine for TLC.                                *)
EXTENDS NotificationEngine, TLC

Symmetry == Permutations(Emitters) \cup Permutations(Targets)
=============================================================================
