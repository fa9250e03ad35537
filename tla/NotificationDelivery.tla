------------------------ MODULE NotificationDelivery ------------------------
(***************************************************************************)
(* What the outbox promises for one notification, without the dispatcher,  *)
(* the broker, the worker or the recovery: it is recorded, the provider    *)
(* takes it in charge at most once, and it is concluded as sent only when  *)
(* the provider has it and as failed only when the provider has not.       *)
(***************************************************************************)
CONSTANT Rows

VARIABLES
    phase,   \* "none", "open", "sent" or "failed"
    taken    \* the provider has taken the notification in charge

TypeOK ==
    /\ phase \in [Rows -> {"none", "open", "sent", "failed"}]
    /\ taken \in [Rows -> BOOLEAN]

Init ==
    /\ phase = [r \in Rows |-> "none"]
    /\ taken = [r \in Rows |-> FALSE]

Record(r) ==
    /\ phase[r] = "none"
    /\ phase' = [phase EXCEPT ![r] = "open"]
    /\ UNCHANGED taken

Deliver(r) ==
    /\ phase[r] = "open"
    /\ ~taken[r]
    /\ taken' = [taken EXCEPT ![r] = TRUE]
    /\ UNCHANGED phase

Conclude(r) ==
    /\ phase[r] = "open"
    /\ phase' = [phase EXCEPT ![r] = IF taken[r] THEN "sent" ELSE "failed"]
    /\ UNCHANGED taken

Next == \E r \in Rows : Record(r) \/ Deliver(r) \/ Conclude(r)

Spec == Init /\ [][Next]_<<phase, taken>>
=============================================================================
