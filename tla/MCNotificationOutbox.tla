------------------------ MODULE MCNotificationOutbox ------------------------
(* Instances of NotificationOutbox for TLC.                                *)
EXTENDS NotificationOutbox, TLC

CONSTANTS n1, n2

NoFallback == [r \in Rows |-> NoRow]

(* n1 is a row whose rule has a fallback channel; n2 is its fallback.      *)
OneFallback == [r \in Rows |-> IF r = n1 THEN n2 ELSE NoRow]

SameRank == [r \in Rows |-> 0]

(* n1 sorts before n2.                                                     *)
FirstRank == [r \in Rows |-> IF r = n1 THEN 0 ELSE 1]

Symmetry == Permutations(Workers) \cup Permutations(Dispatchers)
=============================================================================
