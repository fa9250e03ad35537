------------------------- MODULE NotificationOutbox -------------------------
(***************************************************************************)
(* The durable notification outbox of django_resaas: rows of               *)
(* NotificationOutbox, the dispatcher that claims and enqueues them        *)
(* (notifications/outbox_dispatcher.py), the Celery worker that delivers   *)
(* them (process_notification in notifications/tasks.py), the periodic     *)
(* recovery, and the retry and cancel requests of an operator              *)
(* (notifications/views/outbox.py).                                        *)
(*                                                                         *)
(* Every database statement, broker call and provider call is a step of    *)
(* its own; two processes interleave between any two of them.  The broker, *)
(* the clock and the faults are the environment.                           *)
(***************************************************************************)
EXTENDS Naturals, FiniteSets, NotificationStatus

CONSTANTS
    Rows,          \* outbox rows (idempotency keys)
    NoRow,         \* the value of an empty row reference
    Workers,       \* Celery worker processes
    Dispatchers,   \* on_commit callbacks and beat batches in progress
    Operators,     \* retry / cancel requests in progress
    Fallback,      \* the row create_fallback_outbox creates for a row, or NoRow
    Rank,          \* position in the batch order (priority, scheduled_at)
    BatchSize,     \* NOTIFICATION_OUTBOX_BATCH_SIZE
    MaxAttempts,   \* outbox.max_attempts
    MaxMessages,   \* bound: copies of a row's task in the broker
    MaxFaults,     \* bound: faults of one behaviour
    MaxManual,     \* bound: manual retries of one row
    FaultKinds,    \* the faults that may happen
    CrashPoints,   \* the worker steps a crash may follow
    MaySlow,       \* a live process may outlast the recovery timeout
    EagerWorkers   \* a worker may run the task before delay() has returned

AllFaults == {"broker_down", "broker_unsure", "loss", "duplicate", "callback_lost",
              "dispatcher_crash", "worker_crash", "ambiguous_send"}

WorkerSteps == {"idle", "loaded", "claimed", "open", "opened", "finish", "save", "fallback"}

DispatcherSteps == {"idle", "claim", "enqueue", "mark", "release"}

OperatorSteps == {"idle", "save_retry", "save_cancel"}

(* What the worker is about to write on the row.                           *)
Ends == {"none", "sent", "retry", "failed", "rejected"}

ASSUME ConstantsAssumption ==
    /\ NoRow \notin Rows
    /\ Fallback \in [Rows -> Rows \cup {NoRow}]
    /\ Rank \in [Rows -> Nat]
    /\ BatchSize \in Nat \ {0}
    /\ MaxAttempts \in Nat \ {0}
    /\ MaxMessages \in Nat \ {0}
    /\ MaxFaults \in Nat
    /\ MaxManual \in Nat
    /\ FaultKinds \subseteq AllFaults
    /\ CrashPoints \subseteq WorkerSteps
    /\ MaySlow \in BOOLEAN
    /\ EagerWorkers \in BOOLEAN

(* The key of a fallback is its primary's key and the channel: no two      *)
(* primaries share one.                                                    *)
ASSUME FallbackAssumption ==
    \A p, q \in Rows : Fallback[p] = Fallback[q] /\ Fallback[p] # NoRow => p = q

VARIABLES
    \* the table NotificationOutbox
    status,      \* status, or Absent
    attempts,    \* attempts
    due,         \* scheduled_at <= now
    backoff,     \* next_retry_at > now
    expired,     \* dispatching_at / processing_at is past its timeout
    \* the table NotificationDeliveryAttempt: attempt numbers of each row
    created,     \* a record exists
    succeeded,   \* success = True
    refused,     \* success = False
    \* broker and on_commit callbacks
    queue,       \* messages process_notification(row)
    callbacks,   \* try_dispatch registered by a commit, not run yet
    \* workers
    wpc, wrow, wnum, wseen, wend,
    \* dispatchers
    dpc, drow, dtodo,
    \* operators
    opc, orow,
    \* what the environment has seen
    called,      \* attempt numbers handed to provider.send
    receipts,    \* times the provider took the notification in charge
    manual,      \* manual retries of the row
    faults       \* faults so far

rowVars    == <<status, attempts, due, backoff, expired>>
ledgerVars == <<created, succeeded, refused>>
workVars   == <<wpc, wrow, wnum, wseen, wend>>
dispVars   == <<dpc, drow, dtodo>>
opVars     == <<opc, orow>>
sendVars   == <<called, receipts>>

vars == <<rowVars, ledgerVars, queue, callbacks, workVars, dispVars, opVars,
          sendVars, manual, faults>>

RowsTyped ==
    /\ status \in [Rows -> OutboxStatus \cup {Absent}]
    /\ attempts \in [Rows -> Nat]
    /\ due \in [Rows -> BOOLEAN]
    /\ backoff \in [Rows -> BOOLEAN]
    /\ expired \in [Rows -> BOOLEAN]

LedgerTyped ==
    /\ created \in [Rows -> SUBSET (Nat \ {0})]
    /\ succeeded \in [Rows -> SUBSET Nat]
    /\ refused \in [Rows -> SUBSET Nat]

WorkersTyped ==
    /\ wpc \in [Workers -> WorkerSteps]
    /\ wrow \in [Workers -> Rows \cup {NoRow}]
    /\ wnum \in [Workers -> Nat]
    /\ wseen \in [Workers -> OutboxStatus \cup {Absent}]
    /\ wend \in [Workers -> Ends]

DispatchersTyped ==
    /\ dpc \in [Dispatchers -> DispatcherSteps]
    /\ drow \in [Dispatchers -> Rows \cup {NoRow}]
    /\ dtodo \in [Dispatchers -> SUBSET Rows]

OperatorsTyped ==
    /\ opc \in [Operators -> OperatorSteps]
    /\ orow \in [Operators -> Rows \cup {NoRow}]

EnvironmentTyped ==
    /\ queue \in [Rows -> Nat]
    /\ callbacks \in [Rows -> BOOLEAN]
    /\ called \in [Rows -> SUBSET Nat]
    /\ receipts \in [Rows -> Nat]
    /\ manual \in [Rows -> Nat]
    /\ faults \in Nat

TypeOK ==
    /\ RowsTyped
    /\ LedgerTyped
    /\ WorkersTyped
    /\ DispatchersTyped
    /\ OperatorsTyped
    /\ EnvironmentTyped

Init ==
    /\ status = [r \in Rows |-> Absent]
    /\ attempts = [r \in Rows |-> 0]
    /\ due = [r \in Rows |-> FALSE]
    /\ backoff = [r \in Rows |-> FALSE]
    /\ expired = [r \in Rows |-> FALSE]
    /\ created = [r \in Rows |-> {}]
    /\ succeeded = [r \in Rows |-> {}]
    /\ refused = [r \in Rows |-> {}]
    /\ queue = [r \in Rows |-> 0]
    /\ callbacks = [r \in Rows |-> FALSE]
    /\ wpc = [w \in Workers |-> "idle"]
    /\ wrow = [w \in Workers |-> NoRow]
    /\ wnum = [w \in Workers |-> 0]
    /\ wseen = [w \in Workers |-> Absent]
    /\ wend = [w \in Workers |-> "none"]
    /\ dpc = [d \in Dispatchers |-> "idle"]
    /\ drow = [d \in Dispatchers |-> NoRow]
    /\ dtodo = [d \in Dispatchers |-> {}]
    /\ opc = [o \in Operators |-> "idle"]
    /\ orow = [o \in Operators |-> NoRow]
    /\ called = [r \in Rows |-> {}]
    /\ receipts = [r \in Rows |-> 0]
    /\ manual = [r \in Rows |-> 0]
    /\ faults = 0

-----------------------------------------------------------------------------
(* Faults.                                                                 *)

Fault(kind) ==
    /\ kind \in FaultKinds
    /\ faults < MaxFaults
    /\ faults' = faults + 1

(* A process is at work on row r: a worker that has loaded it, or a        *)
(* dispatcher between its claim and its last update.                       *)
WorkerOn(r) == \E w \in Workers : wpc[w] # "idle" /\ wrow[w] = r

DispatcherOn(r) ==
    \E d \in Dispatchers : drow[d] = r /\ dpc[d] \in {"enqueue", "mark", "release"}

-----------------------------------------------------------------------------
(* Creation: the business transaction commits with the row in it, and its  *)
(* on_commit callback is registered.  scheduled_at may be in the future.   *)

IsFallback(r) == \E p \in Rows : Fallback[p] = r

CreateOutbox(r) ==
    /\ status[r] = Absent
    /\ ~IsFallback(r)
    /\ status' = [status EXCEPT ![r] = "pending"]
    /\ \E now \in BOOLEAN : due' = [due EXCEPT ![r] = now]
    /\ callbacks' = [callbacks EXCEPT ![r] = TRUE]
    /\ UNCHANGED <<attempts, backoff, expired, ledgerVars, queue, workVars, dispVars,
                   opVars, sendVars, manual, faults>>

-----------------------------------------------------------------------------
(* OutboxDispatcher.                                                       *)

Ready(d, r, rest) ==
    /\ dpc' = [dpc EXCEPT ![d] = "claim"]
    /\ drow' = [drow EXCEPT ![d] = r]
    /\ dtodo' = [dtodo EXCEPT ![d] = rest]

(* The batch loop takes its rows in the order they were selected in.       *)
StartFirst(d, S) ==
    \E r \in S : /\ \A q \in S : Rank[r] <= Rank[q]
                 /\ Ready(d, r, S \ {r})

(* A try_dispatch call returns: the next row of the batch, or the end.     *)
Proceed(d) ==
    \/ StartFirst(d, dtodo[d])
    \/ /\ dtodo[d] = {}
       /\ dpc' = [dpc EXCEPT ![d] = "idle"]
       /\ drow' = [drow EXCEPT ![d] = NoRow]
       /\ UNCHANGED dtodo

(* transaction.on_commit(try_dispatch): no look at scheduled_at.           *)
RunCallback(d, r) ==
    /\ dpc[d] = "idle"
    /\ callbacks[r]
    /\ callbacks' = [callbacks EXCEPT ![r] = FALSE]
    /\ Ready(d, r, {})
    /\ UNCHANGED <<rowVars, ledgerVars, queue, workVars, opVars, sendVars, manual, faults>>

Eligible == {r \in Rows : status[r] \in Dispatchable /\ due[r] /\ ~backoff[r]}

Least(k, S) ==
    {T \in SUBSET S : /\ Cardinality(T) = (IF Cardinality(S) < k THEN Cardinality(S) ELSE k)
                      /\ \A t \in T, u \in S \ T : Rank[t] <= Rank[u]}

(* dispatch_pending_notifications: select a batch of eligible ids.         *)
SelectBatch(d) ==
    /\ dpc[d] = "idle"
    /\ Eligible # {}
    /\ \E T \in Least(BatchSize, Eligible) : StartFirst(d, T)
    /\ UNCHANGED <<rowVars, ledgerVars, queue, callbacks, workVars, opVars, sendVars,
                   manual, faults>>

(* The conditional UPDATE of try_dispatch; a losing claim returns.         *)
ClaimDispatch(d) ==
    /\ dpc[d] = "claim"
    /\ \/ /\ status[drow[d]] \in Dispatchable
          /\ status' = [status EXCEPT ![drow[d]] = "dispatching"]
          /\ expired' = [expired EXCEPT ![drow[d]] = FALSE]
          /\ dpc' = [dpc EXCEPT ![d] = "enqueue"]
          /\ UNCHANGED <<drow, dtodo>>
       \/ /\ status[drow[d]] \notin Dispatchable
          /\ Proceed(d)
          /\ UNCHANGED <<status, expired>>
    /\ UNCHANGED <<attempts, due, backoff, ledgerVars, queue, callbacks, workVars,
                   opVars, sendVars, manual, faults>>

(* process_notification.delay(row).                                        *)
Enqueue(d) ==
    /\ dpc[d] = "enqueue"
    /\ queue[drow[d]] < MaxMessages
    /\ queue' = [queue EXCEPT ![drow[d]] = @ + 1]
    /\ dpc' = [dpc EXCEPT ![d] = "mark"]
    /\ UNCHANGED <<rowVars, ledgerVars, callbacks, workVars, drow, dtodo, opVars,
                   sendVars, manual, faults>>

(* delay() raises: the broker was down, or the connection dropped after    *)
(* the message was published.                                              *)
EnqueueRaises(d) ==
    /\ dpc[d] = "enqueue"
    /\ \/ Fault("broker_down") /\ UNCHANGED queue
       \/ /\ Fault("broker_unsure")
          /\ queue[drow[d]] < MaxMessages
          /\ queue' = [queue EXCEPT ![drow[d]] = @ + 1]
    /\ dpc' = [dpc EXCEPT ![d] = "release"]
    /\ UNCHANGED <<rowVars, ledgerVars, callbacks, workVars, drow, dtodo, opVars,
                   sendVars, manual>>

Closing(d) == IF dpc[d] = "mark" THEN "queued" ELSE "pending"

Closed_IgnoresException(d) ==
    IF status[drow[d]] = "dispatching" THEN "queued" ELSE status[drow[d]]

Closed(d) ==
    IF status[drow[d]] = "dispatching" THEN Closing(d) ELSE status[drow[d]]

(* The closing conditional UPDATE of _enqueue_or_release, to queued or,    *)
(* after an exception, back to pending.                                    *)
CloseDispatch(d) ==
    /\ dpc[d] \in {"mark", "release"}
    /\ status' = [status EXCEPT ![drow[d]] = Closed(d)]
    /\ Proceed(d)
    /\ UNCHANGED <<attempts, due, backoff, expired, ledgerVars, queue, callbacks,
                   workVars, opVars, sendVars, manual, faults>>

Recovered_OnlyWorkers(r) ==
    IF expired[r] /\ status[r] = "processing" THEN "retry" ELSE status[r]

Recovered(r) ==
    CASE expired[r] /\ status[r] = "dispatching" -> "pending"
      [] expired[r] /\ status[r] = "processing" -> "retry"
      [] OTHER -> status[r]

(* recover_stuck: rows past their timeout, whoever holds them.             *)
RecoverStuck ==
    /\ \E r \in Rows : expired[r] /\ status[r] \in {"dispatching", "processing"}
    /\ status' = [r \in Rows |-> Recovered(r)]
    /\ backoff' = [r \in Rows |->
                     IF expired[r] /\ status[r] = "processing" THEN FALSE ELSE backoff[r]]
    /\ UNCHANGED <<attempts, due, expired, ledgerVars, queue, callbacks, workVars,
                   dispVars, opVars, sendVars, manual, faults>>

-----------------------------------------------------------------------------
(* process_notification.                                                   *)

Idle(w) ==
    /\ wpc' = [wpc EXCEPT ![w] = "idle"]
    /\ wrow' = [wrow EXCEPT ![w] = NoRow]
    /\ wnum' = [wnum EXCEPT ![w] = 0]
    /\ wseen' = [wseen EXCEPT ![w] = Absent]
    /\ wend' = [wend EXCEPT ![w] = "none"]

Goto(w, step) ==
    /\ wpc' = [wpc EXCEPT ![w] = step]
    /\ UNCHANGED <<wrow, wnum, wseen>>

(* The task is taken from the broker and the row read.  Without            *)
(* EagerWorkers no message outruns the dispatcher that published it.       *)
Receive(w, r) ==
    /\ wpc[w] = "idle"
    /\ queue[r] > 0
    /\ EagerWorkers \/ ~ \E d \in Dispatchers : dpc[d] = "mark" /\ drow[d] = r
    /\ queue' = [queue EXCEPT ![r] = @ - 1]
    /\ \/ /\ status[r] \in Delivered \cup {Absent}
          /\ UNCHANGED workVars
       \/ /\ status[r] \notin Delivered \cup {Absent}
          /\ wpc' = [wpc EXCEPT ![w] = "loaded"]
          /\ wrow' = [wrow EXCEPT ![w] = r]
          /\ UNCHANGED <<wnum, wseen, wend>>
    /\ UNCHANGED <<rowVars, ledgerVars, callbacks, dispVars, opVars, sendVars, manual,
                   faults>>

ClaimWins_AnyStatus(w) == TRUE

ClaimWins(w) == status[wrow[w]] \in Claimable

(* The conditional UPDATE to processing; a losing claim returns.           *)
ClaimProcessing(w) ==
    /\ wpc[w] = "loaded"
    /\ \/ /\ ClaimWins(w)
          /\ status' = [status EXCEPT ![wrow[w]] = "processing"]
          /\ expired' = [expired EXCEPT ![wrow[w]] = FALSE]
          /\ Goto(w, "claimed")
          /\ UNCHANGED wend
       \/ /\ ~ClaimWins(w)
          /\ Idle(w)
          /\ UNCHANGED <<status, expired>>
    /\ UNCHANGED <<attempts, due, backoff, ledgerVars, queue, callbacks, dispVars,
                   opVars, sendVars, manual, faults>>

AttemptNumber_FromZero(r) == attempts[r]

AttemptNumber(r) == attempts[r] + 1

(* refresh_from_db, and attempt_number computed from what it read.         *)
RefreshRow(w) ==
    /\ wpc[w] = "claimed"
    /\ wpc' = [wpc EXCEPT ![w] = "open"]
    /\ wseen' = [wseen EXCEPT ![w] = status[wrow[w]]]
    /\ wnum' = [wnum EXCEPT ![w] = AttemptNumber(wrow[w])]
    /\ UNCHANGED <<rowVars, ledgerVars, queue, callbacks, wrow, wend, dispVars, opVars,
                   sendVars, manual, faults>>

NumberFree_NoConstraint(w) == TRUE

NumberFree(w) == wnum[w] \notin created[wrow[w]]

(* NotificationDeliveryAttempt.objects.create: unique per row and attempt  *)
(* number; the IntegrityError ends the task with the row as it is.         *)
OpenAttempt(w) ==
    /\ wpc[w] = "open"
    /\ \/ /\ NumberFree(w)
          /\ created' = [created EXCEPT ![wrow[w]] = @ \cup {wnum[w]}]
          /\ Goto(w, "opened")
          /\ UNCHANGED wend
       \/ /\ ~NumberFree(w)
          /\ Idle(w)
          /\ UNCHANGED created
    /\ UNCHANGED <<rowVars, succeeded, refused, queue, callbacks, dispVars, opVars,
                   sendVars, manual, faults>>

(* An invalid recipient or a missing provider: no provider call, and the   *)
(* attempt is closed before the row is saved.                              *)
RejectRow(w) ==
    /\ wpc[w] = "opened"
    /\ refused' = [refused EXCEPT ![wrow[w]] = @ \cup {wnum[w]}]
    /\ wend' = [wend EXCEPT ![w] = "rejected"]
    /\ Goto(w, "save")
    /\ UNCHANGED <<rowVars, created, succeeded, queue, callbacks, dispVars, opVars,
                   sendVars, manual, faults>>

(* provider.send and classify_exception.  A provider may have taken the    *)
(* notification in charge although the call raised (a timeout).            *)
Send(w, end) ==
    /\ wpc[w] = "opened"
    /\ called' = [called EXCEPT ![wrow[w]] = @ \cup {wnum[w]}]
    /\ wend' = [wend EXCEPT ![w] = end]
    /\ Goto(w, "finish")
    /\ UNCHANGED <<rowVars, ledgerVars, queue, callbacks, dispVars, opVars, manual>>

Take(w) == receipts' = [receipts EXCEPT ![wrow[w]] = @ + 1]

SendAccepted(w) == Send(w, "sent") /\ Take(w) /\ UNCHANGED faults

AttemptsLeft_OneTooMany(w) == wnum[w] <= MaxAttempts

AttemptsLeft(w) == wnum[w] < MaxAttempts

SendTemporaryError(w) ==
    /\ Send(w, IF AttemptsLeft(w) THEN "retry" ELSE "failed")
    /\ \/ UNCHANGED <<receipts, faults>>
       \/ Take(w) /\ Fault("ambiguous_send")

SendPermanentError(w) == Send(w, "failed") /\ UNCHANGED <<receipts, faults>>

(* The attempt record is saved with its result.                            *)
FinishAttempt(w) ==
    /\ wpc[w] = "finish"
    /\ IF wend[w] = "sent"
       THEN /\ succeeded' = [succeeded EXCEPT ![wrow[w]] = @ \cup {wnum[w]}]
            /\ UNCHANGED refused
       ELSE /\ refused' = [refused EXCEPT ![wrow[w]] = @ \cup {wnum[w]}]
            /\ UNCHANGED succeeded
    /\ Goto(w, "save")
    /\ UNCHANGED <<rowVars, created, queue, callbacks, wend, dispVars, opVars, sendVars,
                   manual, faults>>

(* transition() checks the status in memory; the save that follows is      *)
(* unconditional.  _fail_outbox of a rejected row leaves attempts alone.   *)
Target(w) == IF wend[w] = "rejected" THEN "failed" ELSE wend[w]

SavedAttempts_NotOnRetry(w) == IF wend[w] = "retry" THEN wnum[w] - 1 ELSE wnum[w]
SavedAttempts_NotOnSuccess(w) == IF wend[w] = "sent" THEN wnum[w] - 1 ELSE wnum[w]
SavedAttempts_Twice(w) == wnum[w] + 1
SavedAttempts_Reset(w) == IF wend[w] = "rejected" THEN 0 ELSE wnum[w]

SavedAttempts(w) == IF wend[w] = "rejected" THEN wnum[w] - 1 ELSE wnum[w]

FallsBack_NotWhenRejected(w) == wend[w] = "failed"
FallsBack_OnRetry(w) == Target(w) \in {"failed", "retry"}

FallsBack(w) == Target(w) = "failed"

SaveOutcome(w) ==
    /\ wpc[w] = "save"
    /\ \/ /\ Allowed(wseen[w], Target(w))
          /\ status' = [status EXCEPT ![wrow[w]] = Target(w)]
          /\ attempts' = [attempts EXCEPT ![wrow[w]] = SavedAttempts(w)]
          /\ backoff' = IF Target(w) = "retry"
                        THEN [backoff EXCEPT ![wrow[w]] = TRUE] ELSE backoff
          /\ IF FallsBack(w) THEN Goto(w, "fallback") /\ UNCHANGED wend
                             ELSE Idle(w)
       \/ /\ ~Allowed(wseen[w], Target(w))
          /\ Idle(w)
          /\ UNCHANGED <<status, attempts, backoff>>
    /\ UNCHANGED <<due, expired, ledgerVars, queue, callbacks, dispVars, opVars,
                   sendVars, manual, faults>>

(* create_fallback_outbox, in the transaction that follows the save:       *)
(* get_or_create, and an on_commit callback when the row is new.           *)
CreateFallback(w) ==
    /\ wpc[w] = "fallback"
    /\ LET f == Fallback[wrow[w]] IN
          IF f # NoRow /\ status[f] = Absent
          THEN /\ status' = [status EXCEPT ![f] = "pending"]
               /\ due' = [due EXCEPT ![f] = TRUE]
               /\ callbacks' = [callbacks EXCEPT ![f] = TRUE]
          ELSE UNCHANGED <<status, due, callbacks>>
    /\ Idle(w)
    /\ UNCHANGED <<attempts, backoff, expired, ledgerVars, queue, dispVars, opVars,
                   sendVars, manual, faults>>

-----------------------------------------------------------------------------
(* NotificationOutboxAPIView.retry and .cancel: the row is read, its       *)
(* status checked, and then saved without a condition.                     *)

RequestRetry(o, r) ==
    /\ opc[o] = "idle"
    /\ manual[r] < MaxManual
    /\ status[r] # Absent
    /\ Allowed(status[r], "pending")
    /\ opc' = [opc EXCEPT ![o] = "save_retry"]
    /\ orow' = [orow EXCEPT ![o] = r]
    /\ UNCHANGED <<rowVars, ledgerVars, queue, callbacks, workVars, dispVars, sendVars,
                   manual, faults>>

SaveManualRetry(o) ==
    /\ opc[o] = "save_retry"
    /\ status' = [status EXCEPT ![orow[o]] = "pending"]
    /\ backoff' = [backoff EXCEPT ![orow[o]] = FALSE]
    /\ callbacks' = [callbacks EXCEPT ![orow[o]] = TRUE]
    /\ manual' = [manual EXCEPT ![orow[o]] = @ + 1]
    /\ opc' = [opc EXCEPT ![o] = "idle"]
    /\ orow' = [orow EXCEPT ![o] = NoRow]
    /\ UNCHANGED <<attempts, due, expired, ledgerVars, queue, workVars, dispVars,
                   sendVars, faults>>

RequestCancel(o, r) ==
    /\ opc[o] = "idle"
    /\ status[r] \in Cancellable
    /\ opc' = [opc EXCEPT ![o] = "save_cancel"]
    /\ orow' = [orow EXCEPT ![o] = r]
    /\ UNCHANGED <<rowVars, ledgerVars, queue, callbacks, workVars, dispVars, sendVars,
                   manual, faults>>

SaveCancel(o) ==
    /\ opc[o] = "save_cancel"
    /\ status' = [status EXCEPT ![orow[o]] = "cancelled"]
    /\ opc' = [opc EXCEPT ![o] = "idle"]
    /\ orow' = [orow EXCEPT ![o] = NoRow]
    /\ UNCHANGED <<attempts, due, backoff, expired, ledgerVars, queue, callbacks, workVars,
                   dispVars, sendVars, manual, faults>>

-----------------------------------------------------------------------------
(* The clock.                                                              *)

BecomeDue(r) ==
    /\ status[r] # Absent
    /\ ~due[r]
    /\ due' = [due EXCEPT ![r] = TRUE]
    /\ UNCHANGED <<status, attempts, backoff, expired, ledgerVars, queue, callbacks,
                   workVars, dispVars, opVars, sendVars, manual, faults>>

BackoffElapses(r) ==
    /\ backoff[r]
    /\ backoff' = [backoff EXCEPT ![r] = FALSE]
    /\ UNCHANGED <<status, attempts, due, expired, ledgerVars, queue, callbacks,
                   workVars, dispVars, opVars, sendVars, manual, faults>>

(* OUTBOX_DISPATCH_TIMEOUT or OUTBOX_PROCESSING_TIMEOUT passes.  Without   *)
(* MaySlow only a process that died lets it pass.                          *)
TimeoutPasses(r) ==
    /\ ~expired[r]
    /\ \/ status[r] = "dispatching" /\ (MaySlow \/ ~DispatcherOn(r))
       \/ status[r] = "processing" /\ (MaySlow \/ ~WorkerOn(r))
    /\ expired' = [expired EXCEPT ![r] = TRUE]
    /\ UNCHANGED <<status, attempts, due, backoff, ledgerVars, queue, callbacks,
                   workVars, dispVars, opVars, sendVars, manual, faults>>

(* The broker and the processes.  A crash forgets the process; Celery has  *)
(* acknowledged the message before the task runs, so nothing redelivers it *)
(* but a broker that delivers twice.                                       *)

LoseMessage(r) ==
    /\ queue[r] > 0
    /\ Fault("loss")
    /\ queue' = [queue EXCEPT ![r] = @ - 1]
    /\ UNCHANGED <<rowVars, ledgerVars, callbacks, workVars, dispVars, opVars, sendVars,
                   manual>>

DuplicateMessage(r) ==
    /\ queue[r] > 0 /\ queue[r] < MaxMessages
    /\ Fault("duplicate")
    /\ queue' = [queue EXCEPT ![r] = @ + 1]
    /\ UNCHANGED <<rowVars, ledgerVars, callbacks, workVars, dispVars, opVars, sendVars,
                   manual>>

LoseCallback(r) ==
    /\ callbacks[r]
    /\ Fault("callback_lost")
    /\ callbacks' = [callbacks EXCEPT ![r] = FALSE]
    /\ UNCHANGED <<rowVars, ledgerVars, queue, workVars, dispVars, opVars, sendVars, manual>>

CrashDispatcher(d) ==
    /\ dpc[d] # "idle"
    /\ Fault("dispatcher_crash")
    /\ dpc' = [dpc EXCEPT ![d] = "idle"]
    /\ drow' = [drow EXCEPT ![d] = NoRow]
    /\ dtodo' = [dtodo EXCEPT ![d] = {}]
    /\ UNCHANGED <<rowVars, ledgerVars, queue, callbacks, workVars, opVars, sendVars, manual>>

CrashWorker(w) ==
    /\ wpc[w] \in CrashPoints \ {"idle"}
    /\ Fault("worker_crash")
    /\ Idle(w)
    /\ UNCHANGED <<rowVars, ledgerVars, queue, callbacks, dispVars, opVars, sendVars, manual>>

-----------------------------------------------------------------------------

WorkerStep(w) ==
    \/ ClaimProcessing(w) \/ RefreshRow(w) \/ OpenAttempt(w) \/ RejectRow(w)
    \/ SendAccepted(w) \/ SendTemporaryError(w) \/ SendPermanentError(w)
    \/ FinishAttempt(w) \/ SaveOutcome(w) \/ CreateFallback(w)

DispatcherStep(d) ==
    ClaimDispatch(d) \/ Enqueue(d) \/ EnqueueRaises(d) \/ CloseDispatch(d)

OperatorStep(o) ==
    \/ SaveManualRetry(o) \/ SaveCancel(o)
    \/ \E r \in Rows : RequestRetry(o, r) \/ RequestCancel(o, r)

Clock(r) == BecomeDue(r) \/ BackoffElapses(r) \/ TimeoutPasses(r)

Failures ==
    \/ \E r \in Rows : LoseMessage(r) \/ DuplicateMessage(r) \/ LoseCallback(r)
    \/ \E d \in Dispatchers : CrashDispatcher(d)
    \/ \E w \in Workers : CrashWorker(w)

Next ==
    \/ \E r \in Rows : CreateOutbox(r) \/ Clock(r)
    \/ \E d \in Dispatchers :
          SelectBatch(d) \/ DispatcherStep(d) \/ \E r \in Rows : RunCallback(d, r)
    \/ \E w \in Workers : WorkerStep(w) \/ \E r \in Rows : Receive(w, r)
    \/ RecoverStuck
    \/ \E o \in Operators : OperatorStep(o)
    \/ Failures

Spec == Init /\ [][Next]_vars

(* Beat runs dispatch_pending_notifications and recover_stuck_notifications *)
(* for ever, a process that has started goes on unless it crashes, the      *)
(* broker delivers what it holds, and time passes.  Nothing makes the       *)
(* on_commit callback run, an operator act, or a fault happen.              *)
Fairness ==
    /\ \A d \in Dispatchers : WF_vars(DispatcherStep(d))
    /\ WF_vars(\E d \in Dispatchers : SelectBatch(d))
    /\ WF_vars(RecoverStuck)
    /\ \A w \in Workers : WF_vars(WorkerStep(w))
    /\ \A r \in Rows : WF_vars(\E w \in Workers : Receive(w, r))
    /\ \A r \in Rows : WF_vars(Clock(r))

FairSpec == Spec /\ Fairness

-----------------------------------------------------------------------------
(* Safety.                                                                 *)

(* A worker between the creation of its attempt record and the save of the *)
(* row: the process that owns the delivery.                                *)
Holds(w, r) == wrow[w] = r /\ wpc[w] \in {"opened", "finish", "save"}

(* The unique (outbox, attempt_number) of NotificationDeliveryAttempt is   *)
(* what keeps two workers off one delivery when a slow one has been        *)
(* recovered under it: at most one worker owns a row, and the number it    *)
(* owns has not been handed to the provider before.                        *)
OneOwner ==
    /\ \A v, w \in Workers, r \in Rows : Holds(v, r) /\ Holds(w, r) => v = w
    /\ \A w \in Workers : wpc[w] = "opened" => wnum[w] \notin called[wrow[w]]

(* The attempt records and the row's counter agree: records are numbered   *)
(* 1, 2, ... without a gap, and at most one is ahead of `attempts`.        *)
LedgerContiguous ==
    \A r \in Rows : created[r] \in {1 .. attempts[r], 1 .. (attempts[r] + 1)}

(* A row that says `sent` was taken in charge by the provider, in the      *)
(* attempt its counter names, and that attempt's record says success.      *)
SentMeansAccepted ==
    \A r \in Rows : status[r] = "sent" =>
        receipts[r] > 0 /\ attempts[r] \in succeeded[r]

(* Providers that raise only when they did not take the notification:      *)
(* whatever crashes, duplicates and timeouts do, the recipient gets it     *)
(* once at most.                                                           *)
DeliveredOnce == \A r \in Rows : receipts[r] <= 1

(* max_attempts bounds the attempts; each manual retry buys one more.      *)
AttemptsBounded == \A r \in Rows : attempts[r] <= MaxAttempts + manual[r]

(* Without an operator a settled row is never touched again: no late       *)
(* claim, recovery or duplicate takes it.                                  *)
SettledIsFinal ==
    [][\A r \in Rows : status[r] \in Settled => status'[r] = status[r]]_vars

(* The counter of attempts never goes back, whoever saves the row.         *)
AttemptsNeverDecrease == [][\A r \in Rows : attempts'[r] >= attempts[r]]_vars

(* A row in `queued` has a message on its way: nothing but a message gets  *)
(* a row out of `queued`, recovery looks at dispatching and processing.    *)
QueuedHasMessage ==
    \A r \in Rows : status[r] = "queued" =>
        queue[r] > 0 \/ \E w \in Workers : wpc[w] = "loaded" /\ wrow[w] = r

(* A row that can be dispatched again can be delivered: the number its     *)
(* next attempt will take is free.                                         *)
NextAttemptIsFree ==
    \A r \in Rows :
        /\ status[r] \in Dispatchable
        /\ ~ \E w \in Workers : wpc[w] # "idle" /\ wrow[w] = r
        => attempts[r] + 1 \notin created[r]

(* A row that failed for good has its fallback, once its worker is done.   *)
FailureHasFallback ==
    \A r \in Rows :
        /\ status[r] = "failed" /\ Fallback[r] # NoRow
        /\ ~ \E w \in Workers : wpc[w] = "fallback" /\ wrow[w] = r
        => status[Fallback[r]] # Absent

(* A fallback exists only because its primary ran out of ways to deliver:  *)
(* the provider has not taken the primary when the fallback appears.       *)
FallbackAfterFailure ==
    [][\A r \in Rows : Fallback[r] # NoRow =>
          (status[Fallback[r]] = Absent /\ status'[Fallback[r]] # Absent
             => status[r] = "failed" /\ receipts[r] = 0)]_vars

(* The outbox as the abstract delivery: every status short of a settled    *)
(* one is "open", and the provider's acceptances are counted as one.       *)
Delivery == INSTANCE NotificationDelivery WITH
    phase <- [r \in Rows |-> CASE status[r] = Absent -> "none"
                               [] status[r] \in {"sent", "failed"} -> status[r]
                               [] OTHER -> "open"],
    taken <- [r \in Rows |-> receipts[r] > 0]

(* The refinement: with a provider that raises only when it did not take   *)
(* the notification and processes that do not outlast the timeout, no      *)
(* crash, lost or duplicated message makes a row say more than happened.   *)
ImplementsDelivery == Delivery!Spec

(* Liveness: the durable row is settled in the end.                        *)
EventuallySettled ==
    \A r \in Rows : (status[r] # Absent) ~> (status[r] \in Settled)
=============================================================================
