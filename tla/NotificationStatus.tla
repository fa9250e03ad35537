------------------------- MODULE NotificationStatus -------------------------
(***************************************************************************)
(* The status machine of an outbox row: notifications/enums.py and         *)
(* assert_transition of notifications/models/outbox.py.                     *)
(***************************************************************************)

OutboxStatus == {"pending", "dispatching", "queued", "processing",
                 "retry", "sent", "failed", "cancelled"}

(* A row the table does not hold (not created yet, or deleted).            *)
Absent == "absent"

ValidTransitions ==
    [s \in OutboxStatus |->
        CASE s = "pending"     -> {"dispatching", "cancelled"}
          [] s = "dispatching" -> {"queued", "pending", "retry", "cancelled"}
          [] s = "queued"      -> {"processing", "pending", "cancelled"}
          [] s = "processing"  -> {"sent", "retry", "failed"}
          [] s = "retry"       -> {"dispatching", "pending", "failed", "cancelled"}
          [] s = "failed"      -> {"pending"}
          [] OTHER             -> {}]

(* assert_transition: what NotificationOutbox.transition() accepts, given  *)
(* the status held in memory.                                              *)
Allowed(old, new) == new \in ValidTransitions[old]

(* The two claims: OutboxDispatcher.try_dispatch and process_notification. *)
Dispatchable == {"pending", "retry"}
Claimable    == {"queued", "pending", "retry"}

(* _CANCELLABLE_STATUSES of the outbox view.                               *)
Cancellable  == {"pending", "retry", "dispatching", "queued"}

(* The statuses process_notification returns on before it claims.          *)
Delivered    == {"sent", "cancelled"}

Settled      == {"sent", "failed", "cancelled"}
=============================================================================
