---------------------- MODULE NotificationOutboxProofs ----------------------
(* Proofs about NotificationOutbox, for any rows, processes and bounds.    *)
EXTENDS NotificationOutbox, TLAPS

(* A process that is at work refers to a row, and carries what its next    *)
(* step will write.                                                        *)
WorkersReady ==
    \A w \in Workers :
        /\ wpc[w] # "idle" => wrow[w] \in Rows
        /\ wpc[w] \in {"open", "opened", "finish", "save"} => wnum[w] \in Nat \ {0}
        /\ wpc[w] = "finish" => wend[w] \in {"sent", "retry", "failed"}
        /\ wpc[w] = "save" => wend[w] \in {"sent", "retry", "failed", "rejected"}

DispatchersReady == \A d \in Dispatchers : dpc[d] # "idle" => drow[d] \in Rows

OperatorsReady == \A o \in Operators : opc[o] # "idle" => orow[o] \in Rows

WorkersOK == WorkersTyped /\ WorkersReady
DispatchersOK == DispatchersTyped /\ DispatchersReady
OperatorsOK == OperatorsTyped /\ OperatorsReady

TypeInv ==
    RowsTyped /\ LedgerTyped /\ WorkersOK /\ DispatchersOK /\ OperatorsOK /\ EnvironmentTyped

LEMMA TypeInit == Init => TypeInv
  BY ConstantsAssumption DEF Init, TypeInv, RowsTyped, LedgerTyped, WorkersOK, WorkersTyped,
     WorkersReady, DispatchersOK, DispatchersTyped, DispatchersReady, OperatorsOK,
     OperatorsTyped, OperatorsReady, EnvironmentTyped, OutboxStatus, WorkerSteps,
     DispatcherSteps, OperatorSteps, Ends

(* What a process leaves alone stays well typed.                           *)
LEMMA Frames ==
  /\ RowsTyped /\ UNCHANGED rowVars => RowsTyped'
  /\ LedgerTyped /\ UNCHANGED ledgerVars => LedgerTyped'
  /\ WorkersOK /\ UNCHANGED workVars => WorkersOK'
  /\ DispatchersOK /\ UNCHANGED dispVars => DispatchersOK'
  /\ OperatorsOK /\ UNCHANGED opVars => OperatorsOK'
  /\ EnvironmentTyped /\ UNCHANGED <<queue, callbacks, sendVars, manual, faults>>
       => EnvironmentTyped'
  BY DEF RowsTyped, LedgerTyped, WorkersOK, WorkersTyped, WorkersReady, DispatchersOK,
     DispatchersTyped, DispatchersReady, OperatorsOK, OperatorsTyped, OperatorsReady,
     EnvironmentTyped, rowVars, ledgerVars, workVars, dispVars, opVars, sendVars

(* The moves of a worker and of a dispatcher between their steps.          *)
LEMMA IdleTyped ==
  ASSUME WorkersOK, NEW w \in Workers, Idle(w)
  PROVE  WorkersOK'
  BY DEF WorkersOK, WorkersTyped, WorkersReady, Idle, WorkerSteps, Ends

LEMMA GotoTyped ==
  ASSUME WorkersOK, NEW w \in Workers, NEW step \in WorkerSteps, Goto(w, step),
         wpc[w] # "idle",
         step \in {"open", "opened", "finish", "save"} => wnum[w] \in Nat \ {0},
         wend' \in [Workers -> Ends],
         \A v \in Workers \ {w} : wend'[v] = wend[v],
         step = "finish" => wend'[w] \in {"sent", "retry", "failed"},
         step = "save" => wend'[w] \in {"sent", "retry", "failed", "rejected"}
  PROVE  WorkersOK'
  BY DEF WorkersOK, WorkersTyped, WorkersReady, Goto

LEMMA ReadyTyped ==
  ASSUME DispatchersOK, NEW d \in Dispatchers, NEW r \in Rows, NEW S \in SUBSET Rows,
         Ready(d, r, S)
  PROVE  DispatchersOK'
  BY DEF DispatchersOK, DispatchersTyped, DispatchersReady, Ready, DispatcherSteps

LEMMA ProceedTyped ==
  ASSUME DispatchersOK, NEW d \in Dispatchers, Proceed(d)
  PROVE  DispatchersOK'
<1>1. dtodo[d] \in SUBSET Rows
  BY DEF DispatchersOK, DispatchersTyped
<1>2. CASE StartFirst(d, dtodo[d])
  BY <1>1, <1>2, ReadyTyped DEF StartFirst
<1>3. CASE ~StartFirst(d, dtodo[d])
  BY <1>3 DEF Proceed, DispatchersOK, DispatchersTyped, DispatchersReady, DispatcherSteps
<1> QED
  BY <1>2, <1>3

(* The values the helpers compute are statuses.                            *)
LEMMA ClosedTyped ==
  ASSUME TypeInv, NEW d \in Dispatchers, dpc[d] # "idle"
  PROVE  Closed(d) \in OutboxStatus \cup {Absent}
  BY DEF TypeInv, RowsTyped, DispatchersOK, DispatchersReady, Closed, Closing, OutboxStatus

LEMMA RecoveredTyped ==
  ASSUME RowsTyped, NEW r \in Rows
  PROVE  Recovered(r) \in OutboxStatus \cup {Absent}
  BY DEF RowsTyped, Recovered, OutboxStatus

LEMMA OutcomeTyped ==
  ASSUME WorkersOK, NEW w \in Workers, wpc[w] = "save"
  PROVE  /\ Target(w) \in {"sent", "retry", "failed"}
         /\ SavedAttempts(w) \in Nat
  BY DEF WorkersOK, WorkersReady, Target, SavedAttempts

LEMMA TypeStep == TypeInv /\ [Next]_vars => TypeInv'
<1> SUFFICES ASSUME TypeInv, [Next]_vars PROVE TypeInv'
  OBVIOUS
<1> USE ConstantsAssumption, Frames
    DEF rowVars, ledgerVars, workVars, dispVars, opVars, sendVars, TypeInv
<1>1. ASSUME NEW r \in Rows, CreateOutbox(r) PROVE TypeInv'
  BY <1>1 DEF CreateOutbox, RowsTyped, EnvironmentTyped, OutboxStatus
<1>2. ASSUME NEW r \in Rows, Clock(r) PROVE TypeInv'
  BY <1>2 DEF Clock, BecomeDue, BackoffElapses, TimeoutPasses, RowsTyped
<1>3. ASSUME NEW d \in Dispatchers, SelectBatch(d) PROVE TypeInv'
  BY <1>3, ReadyTyped DEF SelectBatch, StartFirst, Least, Eligible
<1>4. ASSUME NEW d \in Dispatchers, NEW r \in Rows, RunCallback(d, r) PROVE TypeInv'
  BY <1>4, ReadyTyped DEF RunCallback, EnvironmentTyped
<1>5. ASSUME NEW d \in Dispatchers, ClaimDispatch(d) PROVE TypeInv'
  <2>1. DispatchersOK'
    BY <1>5, ProceedTyped DEF ClaimDispatch, DispatchersOK, DispatchersTyped,
       DispatchersReady, DispatcherSteps
  <2>2. RowsTyped'
    BY <1>5 DEF ClaimDispatch, RowsTyped, OutboxStatus
  <2> QED
    BY <1>5, <2>1, <2>2 DEF ClaimDispatch
<1>6. ASSUME NEW d \in Dispatchers, Enqueue(d) PROVE TypeInv'
  BY <1>6 DEF Enqueue, DispatchersOK, DispatchersTyped, DispatchersReady, DispatcherSteps,
     EnvironmentTyped
<1>7. ASSUME NEW d \in Dispatchers, EnqueueRaises(d) PROVE TypeInv'
  BY <1>7 DEF EnqueueRaises, Fault, DispatchersOK, DispatchersTyped, DispatchersReady,
     DispatcherSteps, EnvironmentTyped
<1>8. ASSUME NEW d \in Dispatchers, CloseDispatch(d) PROVE TypeInv'
  <2>1. DispatchersOK'
    BY <1>8, ProceedTyped DEF CloseDispatch
  <2>2. RowsTyped'
    BY <1>8, ClosedTyped DEF CloseDispatch, RowsTyped
  <2> QED
    BY <1>8, <2>1, <2>2 DEF CloseDispatch
<1>9. ASSUME NEW w \in Workers, NEW r \in Rows, Receive(w, r) PROVE TypeInv'
  <2>1. WorkersOK'
    BY <1>9 DEF Receive, WorkersOK, WorkersTyped, WorkersReady, WorkerSteps
  <2>2. EnvironmentTyped'
    BY <1>9 DEF Receive, EnvironmentTyped
  <2> QED
    BY <1>9, <2>1, <2>2 DEF Receive
<1>10. ASSUME NEW w \in Workers, ClaimProcessing(w) PROVE TypeInv'
  <2>1. WorkersOK'
    BY <1>10, IdleTyped, GotoTyped DEF ClaimProcessing, WorkerSteps, WorkersOK, WorkersTyped
  <2>2. RowsTyped'
    BY <1>10 DEF ClaimProcessing, RowsTyped, OutboxStatus
  <2> QED
    BY <1>10, <2>1, <2>2 DEF ClaimProcessing
<1>11. ASSUME NEW w \in Workers, RefreshRow(w) PROVE TypeInv'
  <2>1. WorkersOK'
    BY <1>11 DEF RefreshRow, AttemptNumber, RowsTyped, WorkersOK, WorkersTyped, WorkersReady,
       WorkerSteps
  <2> QED
    BY <1>11, <2>1 DEF RefreshRow
<1>12. ASSUME NEW w \in Workers, OpenAttempt(w) PROVE TypeInv'
  <2>1. WorkersOK'
    <3>1. CASE Idle(w)
      BY <3>1, IdleTyped
    <3>2. CASE Goto(w, "opened") /\ UNCHANGED wend
      BY <1>12, <3>2, GotoTyped DEF OpenAttempt, WorkersOK, WorkersTyped, WorkersReady,
         WorkerSteps
    <3> QED
      BY <1>12, <3>1, <3>2 DEF OpenAttempt
  <2>2. LedgerTyped'
    BY <1>12 DEF OpenAttempt, LedgerTyped, WorkersOK, WorkersReady
  <2> QED
    BY <1>12, <2>1, <2>2 DEF OpenAttempt
<1>13. ASSUME NEW w \in Workers, RejectRow(w) PROVE TypeInv'
  <2>1. WorkersOK'
    BY <1>13, GotoTyped DEF RejectRow, WorkersOK, WorkersTyped, WorkersReady, WorkerSteps, Ends
  <2>2. LedgerTyped'
    BY <1>13 DEF RejectRow, LedgerTyped, WorkersOK, WorkersTyped
  <2> QED
    BY <1>13, <2>1, <2>2 DEF RejectRow
<1>14. ASSUME NEW w \in Workers, NEW end \in {"sent", "retry", "failed"}, Send(w, end),
              Take(w) \/ UNCHANGED receipts,
              faults' \in Nat
       PROVE  TypeInv'
  <2>1. WorkersOK'
    BY <1>14, GotoTyped DEF Send, WorkersOK, WorkersTyped, WorkersReady, WorkerSteps, Ends
  <2>2. EnvironmentTyped'
    <3>1. wnum[w] \in Nat
      BY DEF WorkersOK, WorkersTyped
    <3>2. called' \in [Rows -> SUBSET Nat]
      BY <1>14, <3>1 DEF Send, EnvironmentTyped
    <3>3. receipts' \in [Rows -> Nat]
      BY <1>14 DEF Take, EnvironmentTyped
    <3> QED
      BY <1>14, <3>2, <3>3 DEF Send, EnvironmentTyped
  <2> QED
    BY <1>14, <2>1, <2>2 DEF Send
<1>15. ASSUME NEW w \in Workers,
              SendAccepted(w) \/ SendTemporaryError(w) \/ SendPermanentError(w)
       PROVE  TypeInv'
  <2>1. faults \in Nat
    BY DEF EnvironmentTyped
  <2> QED
    BY <1>14, <1>15, <2>1 DEF SendAccepted, SendTemporaryError, SendPermanentError, Fault
<1>16. ASSUME NEW w \in Workers, FinishAttempt(w) PROVE TypeInv'
  <2>1. WorkersOK'
    BY <1>16, GotoTyped DEF FinishAttempt, WorkersOK, WorkersTyped, WorkersReady, WorkerSteps
  <2>2. LedgerTyped'
    BY <1>16 DEF FinishAttempt, LedgerTyped, WorkersOK, WorkersTyped
  <2> QED
    BY <1>16, <2>1, <2>2 DEF FinishAttempt
<1>17. ASSUME NEW w \in Workers, SaveOutcome(w) PROVE TypeInv'
  <2>1. WorkersOK'
    <3>1. CASE Idle(w)
      BY <3>1, IdleTyped
    <3>2. CASE Goto(w, "fallback") /\ UNCHANGED wend
      BY <1>17, <3>2, GotoTyped DEF SaveOutcome, WorkersOK, WorkersTyped, WorkerSteps
    <3> QED
      BY <1>17, <3>1, <3>2 DEF SaveOutcome
  <2>2. RowsTyped'
    <3>1. Target(w) \in OutboxStatus /\ SavedAttempts(w) \in Nat
      BY <1>17, OutcomeTyped DEF SaveOutcome, OutboxStatus
    <3>2. /\ status' \in [Rows -> OutboxStatus \cup {Absent}]
          /\ attempts' \in [Rows -> Nat]
      BY <1>17, <3>1 DEF SaveOutcome, RowsTyped
    <3>3. backoff' \in [Rows -> BOOLEAN]
      BY <1>17 DEF SaveOutcome, RowsTyped
    <3> QED
      BY <1>17, <3>2, <3>3 DEF SaveOutcome, RowsTyped
  <2> QED
    BY <1>17, <2>1, <2>2 DEF SaveOutcome
<1>18. ASSUME NEW w \in Workers, CreateFallback(w) PROVE TypeInv'
  <2>1. WorkersOK'
    BY <1>18, IdleTyped DEF CreateFallback
  <2>2. RowsTyped' /\ EnvironmentTyped'
    BY <1>18 DEF CreateFallback, RowsTyped, EnvironmentTyped, OutboxStatus
  <2> QED
    BY <1>18, <2>1, <2>2 DEF CreateFallback
<1>19. CASE RecoverStuck
  <2>1. RowsTyped'
    BY <1>19, RecoveredTyped DEF RecoverStuck, RowsTyped
  <2> QED
    BY <1>19, <2>1 DEF RecoverStuck
<1>20. ASSUME NEW o \in Operators, OperatorStep(o) PROVE TypeInv'
  <2>1. OperatorsOK'
    BY <1>20 DEF OperatorStep, RequestRetry, SaveManualRetry, RequestCancel, SaveCancel,
       OperatorsOK, OperatorsTyped, OperatorsReady, OperatorSteps
  <2>2. RowsTyped'
    BY <1>20 DEF OperatorStep, RequestRetry, SaveManualRetry, RequestCancel, SaveCancel,
       RowsTyped, OutboxStatus
  <2>3. EnvironmentTyped'
    <3>1. CASE SaveManualRetry(o)
      BY <3>1 DEF SaveManualRetry, EnvironmentTyped
    <3>2. CASE UNCHANGED <<queue, callbacks, sendVars, manual, faults>>
      BY <3>2
    <3> QED
      BY <1>20, <3>1, <3>2 DEF OperatorStep, RequestRetry, RequestCancel, SaveCancel
  <2> QED
    BY <1>20, <2>1, <2>2, <2>3 DEF OperatorStep, RequestRetry, SaveManualRetry, RequestCancel,
       SaveCancel
<1>21. ASSUME NEW r \in Rows, LoseMessage(r) \/ DuplicateMessage(r) \/ LoseCallback(r)
       PROVE  TypeInv'
  <2>1. EnvironmentTyped'
    <3>1. CASE LoseMessage(r)
      BY <3>1 DEF LoseMessage, Fault, EnvironmentTyped
    <3>2. CASE DuplicateMessage(r)
      BY <3>2 DEF DuplicateMessage, Fault, EnvironmentTyped
    <3>3. CASE LoseCallback(r)
      BY <3>3 DEF LoseCallback, Fault, EnvironmentTyped
    <3> QED
      BY <1>21, <3>1, <3>2, <3>3
  <2> QED
    BY <1>21, <2>1 DEF LoseMessage, DuplicateMessage, LoseCallback
<1>22. ASSUME NEW d \in Dispatchers, CrashDispatcher(d) PROVE TypeInv'
  BY <1>22 DEF CrashDispatcher, Fault, EnvironmentTyped, DispatchersOK, DispatchersTyped,
     DispatchersReady, DispatcherSteps
<1>23. ASSUME NEW w \in Workers, CrashWorker(w) PROVE TypeInv'
  BY <1>23, IdleTyped DEF CrashWorker, Fault, EnvironmentTyped
<1>24. CASE UNCHANGED vars
  BY <1>24 DEF vars
<1> QED
  BY <1>1, <1>2, <1>3, <1>4, <1>5, <1>6, <1>7, <1>8, <1>9, <1>10, <1>11, <1>12, <1>13,
     <1>15, <1>16, <1>17, <1>18, <1>19, <1>20, <1>21, <1>22, <1>23, <1>24
     DEF Next, WorkerStep, DispatcherStep, Failures

(* Whatever the rows, the processes and the bounds, every variable of the  *)
(* outbox keeps its type.                                                  *)
THEOREM TypeCorrect == Spec => []TypeOK
<1>1. Spec => []TypeInv
  BY TypeInit, TypeStep, PTL DEF Spec
<1>2. TypeInv => TypeOK
  BY DEF TypeInv, TypeOK, WorkersOK, DispatchersOK, OperatorsOK
<1> QED
  BY <1>1, <1>2, PTL

-----------------------------------------------------------------------------
(* Who owns a delivery.                                                    *)

(* What keeps OneOwner and LedgerContiguous true: a worker about to open   *)
(* an attempt has a number that is at most one ahead of the row; the       *)
(* owner's number is exactly one ahead and has a record; and the provider  *)
(* is only called with recorded numbers.                                   *)
OpenNumbers == \A w \in Workers : wpc[w] = "open" => wnum[w] <= attempts[wrow[w]] + 1

HeldNumbers ==
    \A w \in Workers, r \in Rows :
        Holds(w, r) => wnum[w] = attempts[r] + 1 /\ wnum[w] \in created[r]

CalledRecorded == \A r \in Rows : called[r] \subseteq created[r]

OwnerInv == LedgerContiguous /\ OpenNumbers /\ HeldNumbers /\ CalledRecorded /\ OneOwner

ownerVars == <<attempts, created, workVars, called>>

LEMMA OwnerInit == Init => OwnerInv
  BY DEF Init, OwnerInv, LedgerContiguous, OpenNumbers, HeldNumbers, CalledRecorded, OneOwner,
     Holds

LEMMA OwnerFrame == OwnerInv /\ UNCHANGED ownerVars => OwnerInv'
  BY DEF OwnerInv, LedgerContiguous, OpenNumbers, HeldNumbers, CalledRecorded, OneOwner,
     Holds, ownerVars, workVars

(* A worker that moves on without touching a record, the counter or the    *)
(* provider, to a step that owns nothing or from a step that owned.        *)
LEMMA OwnerMoves ==
  ASSUME TypeInv, OwnerInv, NEW w \in Workers, NEW step \in WorkerSteps,
         wpc' = [wpc EXCEPT ![w] = step],
         UNCHANGED <<attempts, created, called>>,
         \A v \in Workers \ {w} : wrow'[v] = wrow[v] /\ wnum'[v] = wnum[v],
         \/ step \in {"idle", "loaded", "claimed", "fallback"}
         \/ /\ step \in {"finish", "save"}
            /\ wpc[w] \in {"opened", "finish", "save"}
            /\ wrow'[w] = wrow[w] /\ wnum'[w] = wnum[w]
  PROVE  OwnerInv'
<1> USE DEF TypeInv, WorkersOK, WorkersTyped
<1>1. \A v \in Workers, r \in Rows : Holds(v, r)' => Holds(v, r) /\ wnum'[v] = wnum[v]
  BY DEF Holds
<1>2. \A v \in Workers : wpc'[v] \in {"open", "opened"} =>
         wpc'[v] = wpc[v] /\ wrow'[v] = wrow[v] /\ wnum'[v] = wnum[v]
  OBVIOUS
<1>3. LedgerContiguous' /\ CalledRecorded'
  BY DEF OwnerInv, LedgerContiguous, CalledRecorded
<1>4. OpenNumbers'
  BY <1>2 DEF OwnerInv, OpenNumbers
<1>5. HeldNumbers'
  BY <1>1 DEF OwnerInv, HeldNumbers
<1>6. OneOwner'
  BY <1>1, <1>2 DEF OwnerInv, OneOwner
<1> QED
  BY <1>3, <1>4, <1>5, <1>6 DEF OwnerInv

LEMMA OpenKeepsOwner ==
  ASSUME TypeInv, OwnerInv, NEW w \in Workers, wpc[w] = "open", NumberFree(w),
         created' = [created EXCEPT ![wrow[w]] = @ \cup {wnum[w]}],
         Goto(w, "opened"), UNCHANGED <<attempts, called>>
  PROVE  OwnerInv'
<1> DEFINE r == wrow[w]
<1> USE DEF TypeInv, RowsTyped, LedgerTyped, WorkersOK, WorkersTyped, WorkersReady, Goto
<1>1. r \in Rows /\ wnum[w] \in Nat \ {0} /\ wnum[w] <= attempts[r] + 1
  BY DEF OwnerInv, OpenNumbers
<1>2. attempts[r] \in Nat /\ created[r] \in {1 .. attempts[r], 1 .. (attempts[r] + 1)}
  BY <1>1 DEF OwnerInv, LedgerContiguous
<1>3. wnum[w] = attempts[r] + 1 /\ created[r] = 1 .. attempts[r]
  BY <1>1, <1>2 DEF NumberFree
<1>4. created'[r] = 1 .. (attempts[r] + 1)
  BY <1>1, <1>2, <1>3
<1>5. \A q \in Rows : created[q] \subseteq created'[q]
  OBVIOUS
<1>6. LedgerContiguous'
  BY <1>4 DEF OwnerInv, LedgerContiguous
<1>7. CalledRecorded'
  BY <1>5 DEF OwnerInv, CalledRecorded
<1>8. OpenNumbers'
  BY DEF OwnerInv, OpenNumbers
<1>9. \A v \in Workers : ~Holds(v, r)
  BY <1>1, <1>3 DEF OwnerInv, HeldNumbers
<1>10. \A v \in Workers, q \in Rows : Holds(v, q)' => Holds(v, q) \/ (v = w /\ q = r)
  BY DEF Holds
<1>11. HeldNumbers'
  BY <1>1, <1>3, <1>4, <1>5, <1>10 DEF OwnerInv, HeldNumbers
<1>12. OneOwner'
  <2>1. \A v, u \in Workers, q \in Rows : Holds(v, q)' /\ Holds(u, q)' => v = u
    BY <1>9, <1>10 DEF OwnerInv, OneOwner
  <2>2. wnum[w] \notin called[r]
    BY <1>1 DEF OwnerInv, CalledRecorded, NumberFree
  <2>3. \A v \in Workers : wpc'[v] = "opened" => wnum'[v] \notin called'[wrow'[v]]
    BY <2>2 DEF OwnerInv, OneOwner
  <2> QED
    BY <2>1, <2>3 DEF OneOwner
<1> QED
  BY <1>6, <1>7, <1>8, <1>11, <1>12 DEF OwnerInv

LEMMA SendKeepsOwner ==
  ASSUME TypeInv, OwnerInv, NEW w \in Workers, wpc[w] = "opened", Goto(w, "finish"),
         called' = [called EXCEPT ![wrow[w]] = @ \cup {wnum[w]}],
         UNCHANGED <<attempts, created>>
  PROVE  OwnerInv'
<1> DEFINE r == wrow[w]
<1> USE DEF TypeInv, RowsTyped, WorkersOK, WorkersTyped, WorkersReady, EnvironmentTyped, Goto
<1>1. r \in Rows /\ Holds(w, r)
  BY DEF Holds
<1>2. \A v \in Workers, q \in Rows : Holds(v, q)' => Holds(v, q)
  BY DEF Holds
<1>3. LedgerContiguous' /\ OpenNumbers'
  BY DEF OwnerInv, LedgerContiguous, OpenNumbers
<1>4. HeldNumbers'
  BY <1>2 DEF OwnerInv, HeldNumbers
<1>5. CalledRecorded'
  BY <1>1 DEF OwnerInv, CalledRecorded, HeldNumbers
<1>6. \A v \in Workers : wpc'[v] = "opened" => v # w /\ wpc[v] = "opened" /\ wrow[v] # r
  BY <1>1 DEF OwnerInv, OneOwner, Holds
<1>7. OneOwner'
  BY <1>2, <1>6 DEF OwnerInv, OneOwner
<1> QED
  BY <1>3, <1>4, <1>5, <1>7 DEF OwnerInv

(* The save of an owner is the only step that moves the counter, by one at *)
(* most, and there is no other owner to see it.                            *)
LEMMA SaveMoves ==
  ASSUME TypeInv, OwnerInv, NEW w \in Workers, wpc[w] = "save"
  PROVE  /\ wrow[w] \in Rows
         /\ wnum[w] = attempts[wrow[w]] + 1
         /\ created[wrow[w]] = 1 .. wnum[w]
         /\ SavedAttempts(w) \in {attempts[wrow[w]], attempts[wrow[w]] + 1}
<1> DEFINE r == wrow[w]
<1>1. r \in Rows /\ Holds(w, r) /\ attempts[r] \in Nat
  BY DEF TypeInv, RowsTyped, WorkersOK, WorkersReady, Holds
<1>2. wnum[w] = attempts[r] + 1 /\ wnum[w] \in created[r]
  BY <1>1 DEF OwnerInv, HeldNumbers
<1>3. created[r] \in {1 .. attempts[r], 1 .. (attempts[r] + 1)}
  BY <1>1 DEF OwnerInv, LedgerContiguous
<1>4. created[r] = 1 .. wnum[w]
  BY <1>1, <1>2, <1>3
<1> QED
  BY <1>1, <1>2, <1>4 DEF SavedAttempts

LEMMA SaveKeepsOwner ==
  ASSUME TypeInv, OwnerInv, NEW w \in Workers, SaveOutcome(w)
  PROVE  OwnerInv'
<1> DEFINE r == wrow[w]
<1> USE DEF TypeInv, RowsTyped, WorkersOK, WorkersTyped, WorkersReady, ledgerVars, sendVars,
        Goto, Idle
<1>1. wpc[w] = "save" /\ r \in Rows /\ Holds(w, r) /\ attempts[r] \in Nat
  BY DEF SaveOutcome, Holds
<1>2. /\ wnum[w] = attempts[r] + 1
      /\ created[r] = 1 .. wnum[w]
      /\ SavedAttempts(w) \in {attempts[r], attempts[r] + 1}
  BY <1>1, SaveMoves
<1>3. /\ UNCHANGED <<created, called>>
      /\ attempts' \in [Rows -> Nat]
      /\ attempts'[r] \in {attempts[r], attempts[r] + 1}
      /\ \A q \in Rows \ {r} : attempts'[q] = attempts[q]
  <2>1. UNCHANGED <<created, called>>
    BY DEF SaveOutcome
  <2>2. attempts' \in {attempts, [attempts EXCEPT ![r] = SavedAttempts(w)]}
    BY DEF SaveOutcome
  <2>3. attempts \in [Rows -> Nat]
    OBVIOUS
  <2>4. CASE attempts' = attempts
    BY <1>1, <2>1, <2>3, <2>4
  <2>5. CASE attempts' = [attempts EXCEPT ![r] = SavedAttempts(w)]
    <3>1. SavedAttempts(w) \in Nat
      BY <1>1, <1>2
    <3> QED
      BY <1>1, <1>2, <2>1, <2>3, <2>5, <3>1
  <2> QED
    BY <2>2, <2>4, <2>5
<1>4. /\ wpc'[w] \in {"idle", "fallback"}
      /\ \A v \in Workers \ {w} :
            wpc'[v] = wpc[v] /\ wrow'[v] = wrow[v] /\ wnum'[v] = wnum[v]
  BY DEF SaveOutcome
<1>5. \A v \in Workers, q \in Rows :
         Holds(v, q)' => v # w /\ Holds(v, q) /\ q # r /\ wnum'[v] = wnum[v]
  BY <1>1, <1>4 DEF OwnerInv, OneOwner, Holds
<1>6. LedgerContiguous'
  BY <1>1, <1>2, <1>3 DEF OwnerInv, LedgerContiguous
<1>7. CalledRecorded'
  BY <1>3 DEF OwnerInv, CalledRecorded
<1>8. OpenNumbers'
  <2> SUFFICES ASSUME NEW v \in Workers, wpc'[v] = "open"
               PROVE  wnum'[v] <= attempts'[wrow'[v]] + 1
    BY DEF OpenNumbers
  <2>1. v # w /\ wpc[v] = "open" /\ wrow'[v] = wrow[v] /\ wnum'[v] = wnum[v]
    BY <1>4
  <2>2. wrow[v] \in Rows /\ wnum[v] \in Nat /\ wnum[v] <= attempts[wrow[v]] + 1
    BY <2>1 DEF OwnerInv, OpenNumbers
  <2> QED
    BY <1>1, <1>3, <2>1, <2>2
<1>9. HeldNumbers'
  BY <1>3, <1>5 DEF OwnerInv, HeldNumbers
<1>10. OneOwner'
  BY <1>3, <1>4, <1>5 DEF OwnerInv, OneOwner
<1> QED
  BY <1>6, <1>7, <1>8, <1>9, <1>10 DEF OwnerInv

LEMMA OwnerStep == TypeInv /\ OwnerInv /\ [Next]_vars => OwnerInv'
<1> SUFFICES ASSUME TypeInv, OwnerInv, [Next]_vars PROVE OwnerInv'
  OBVIOUS
<1> USE DEF rowVars, ledgerVars, workVars, sendVars
<1>1. CASE UNCHANGED ownerVars
  BY <1>1, OwnerFrame
<1>2. ASSUME NEW w \in Workers, NEW r \in Rows, Receive(w, r) PROVE OwnerInv'
  <2>1. CASE UNCHANGED workVars
    BY <1>2, <2>1, OwnerFrame DEF Receive, ownerVars
  <2>2. CASE wpc' = [wpc EXCEPT ![w] = "loaded"] /\ wrow' = [wrow EXCEPT ![w] = r]
             /\ UNCHANGED wnum
    BY <1>2, <2>2, OwnerMoves DEF Receive, WorkerSteps, TypeInv, WorkersOK, WorkersTyped
  <2> QED
    BY <1>2, <2>1, <2>2 DEF Receive
<1>3. ASSUME NEW w \in Workers, Idle(w), UNCHANGED <<attempts, created, called>>
      PROVE  OwnerInv'
  BY <1>3, OwnerMoves DEF Idle, WorkerSteps, TypeInv, WorkersOK, WorkersTyped
<1>4. ASSUME NEW w \in Workers, ClaimProcessing(w) PROVE OwnerInv'
  <2>1. CASE Goto(w, "claimed")
    BY <1>4, <2>1, OwnerMoves DEF ClaimProcessing, Goto, WorkerSteps
  <2> QED
    BY <1>3, <1>4, <2>1 DEF ClaimProcessing
<1>5. ASSUME NEW w \in Workers, RefreshRow(w) PROVE OwnerInv'
  <2> USE <1>5 DEF RefreshRow, TypeInv, RowsTyped, WorkersOK, WorkersTyped, WorkersReady
  <2>1. \A v \in Workers, r \in Rows : Holds(v, r)' => Holds(v, r) /\ wnum'[v] = wnum[v]
    BY DEF Holds
  <2>2. LedgerContiguous' /\ CalledRecorded'
    BY DEF OwnerInv, LedgerContiguous, CalledRecorded
  <2>3. OpenNumbers'
    BY DEF OwnerInv, OpenNumbers, AttemptNumber
  <2>4. HeldNumbers'
    BY <2>1 DEF OwnerInv, HeldNumbers
  <2>5. OneOwner'
    BY <2>1 DEF OwnerInv, OneOwner
  <2> QED
    BY <2>2, <2>3, <2>4, <2>5 DEF OwnerInv
<1>6. ASSUME NEW w \in Workers, OpenAttempt(w) PROVE OwnerInv'
  BY <1>3, <1>6, OpenKeepsOwner DEF OpenAttempt
<1>7. ASSUME NEW w \in Workers, RejectRow(w) PROVE OwnerInv'
  BY <1>7, OwnerMoves DEF RejectRow, Goto, WorkerSteps
<1>8. ASSUME NEW w \in Workers, NEW end, Send(w, end) PROVE OwnerInv'
  BY <1>8, SendKeepsOwner DEF Send
<1>9. ASSUME NEW w \in Workers, FinishAttempt(w) PROVE OwnerInv'
  BY <1>9, OwnerMoves DEF FinishAttempt, Goto, WorkerSteps
<1>10. ASSUME NEW w \in Workers, SaveOutcome(w) PROVE OwnerInv'
  BY <1>10, SaveKeepsOwner
<1>11. ASSUME NEW w \in Workers, WorkerStep(w) PROVE OwnerInv'
  BY <1>3, <1>4, <1>5, <1>6, <1>7, <1>8, <1>9, <1>10, <1>11
     DEF WorkerStep, SendAccepted, SendTemporaryError, SendPermanentError, CreateFallback
<1>12. ASSUME NEW r \in Rows, CreateOutbox(r) \/ Clock(r) PROVE UNCHANGED ownerVars
  BY <1>12 DEF ownerVars, CreateOutbox, Clock, BecomeDue, BackoffElapses, TimeoutPasses
<1>13. ASSUME NEW d \in Dispatchers,
              SelectBatch(d) \/ DispatcherStep(d) \/ \E r \in Rows : RunCallback(d, r)
       PROVE  UNCHANGED ownerVars
  BY <1>13 DEF ownerVars, SelectBatch, DispatcherStep, RunCallback, ClaimDispatch, Enqueue,
     EnqueueRaises, CloseDispatch
<1>14. ASSUME NEW o \in Operators, OperatorStep(o) PROVE UNCHANGED ownerVars
  BY <1>14 DEF ownerVars, OperatorStep, RequestRetry, SaveManualRetry, RequestCancel, SaveCancel
<1>15. CASE Failures
  BY <1>1, <1>3, <1>15 DEF ownerVars, Failures, LoseMessage, DuplicateMessage, LoseCallback,
     CrashDispatcher, CrashWorker
<1> QED
  BY <1>1, <1>2, <1>11, <1>12, <1>13, <1>14, <1>15 DEF Next, RecoverStuck, ownerVars, vars

LEMMA Owned == Spec => [](TypeInv /\ OwnerInv)
  BY TypeInit, TypeStep, OwnerInit, OwnerStep, PTL DEF Spec

(* Two workers never own one delivery, and no attempt number reaches the   *)
(* provider twice, however slow the workers and whoever recovers, retries  *)
(* or cancels the row meanwhile.                                           *)
THEOREM OwnerUnique == Spec => []OneOwner
<1>1. OwnerInv => OneOwner
  BY DEF OwnerInv
<1> QED
  BY <1>1, Owned, PTL

(* The attempt records of a row are numbered without a gap, at most one    *)
(* ahead of its counter.                                                   *)
THEOREM LedgerFollowsCounter == Spec => []LedgerContiguous
<1>1. OwnerInv => LedgerContiguous
  BY DEF OwnerInv
<1> QED
  BY <1>1, Owned, PTL

(* Nobody's save takes the counter of attempts back.                       *)
THEOREM AttemptsMonotone == Spec => AttemptsNeverDecrease
<1>1. TypeInv /\ OwnerInv /\ [Next]_vars
        => [\A r \in Rows : attempts'[r] >= attempts[r]]_vars
  <2> SUFFICES ASSUME TypeInv, OwnerInv, Next
               PROVE  \A r \in Rows : attempts'[r] >= attempts[r]
    OBVIOUS
  <2> USE DEF rowVars
  <2>1. attempts \in [Rows -> Nat]
    BY DEF TypeInv, RowsTyped
  <2>2. CASE UNCHANGED attempts
    BY <2>1, <2>2
  <2>3. ASSUME NEW w \in Workers, SaveOutcome(w), ~UNCHANGED attempts
        PROVE  \A r \in Rows : attempts'[r] >= attempts[r]
    <3>1. attempts' = [attempts EXCEPT ![wrow[w]] = SavedAttempts(w)] /\ wpc[w] = "save"
      BY <2>3 DEF SaveOutcome
    <3>2. SavedAttempts(w) \in {attempts[wrow[w]], attempts[wrow[w]] + 1}
      BY <3>1, SaveMoves
    <3> QED
      BY <2>1, <3>1, <3>2
  <2>4. ASSUME NEW w \in Workers, WorkerStep(w) \/ \E r \in Rows : Receive(w, r)
        PROVE  SaveOutcome(w) \/ UNCHANGED attempts
    BY <2>4 DEF WorkerStep, Receive, ClaimProcessing, RefreshRow, OpenAttempt, RejectRow,
       SendAccepted, SendTemporaryError, SendPermanentError, Send, FinishAttempt, CreateFallback
  <2>5. ASSUME NEW d \in Dispatchers,
               SelectBatch(d) \/ DispatcherStep(d) \/ \E r \in Rows : RunCallback(d, r)
        PROVE  UNCHANGED attempts
    BY <2>5 DEF SelectBatch, DispatcherStep, RunCallback, ClaimDispatch, Enqueue,
       EnqueueRaises, CloseDispatch
  <2>6. ASSUME NEW r \in Rows, CreateOutbox(r) \/ Clock(r) PROVE UNCHANGED attempts
    BY <2>6 DEF CreateOutbox, Clock, BecomeDue, BackoffElapses, TimeoutPasses
  <2>7. ASSUME NEW o \in Operators, OperatorStep(o) PROVE UNCHANGED attempts
    BY <2>7 DEF OperatorStep, RequestRetry, SaveManualRetry, RequestCancel, SaveCancel
  <2>8. CASE Failures
    BY <2>2, <2>8 DEF Failures, LoseMessage, DuplicateMessage, LoseCallback,
       CrashDispatcher, CrashWorker
  <2> QED
    BY <2>2, <2>3, <2>4, <2>5, <2>6, <2>7, <2>8 DEF Next, RecoverStuck
<1> QED
  BY <1>1, Owned, PTL DEF Spec, AttemptsNeverDecrease

-----------------------------------------------------------------------------
(* Proofs of what a settled row of NotificationOutbox says, and of how     *)
(* often it is attempted.                                                  *)

(* A worker that is about to write `sent` holds a notification the         *)
(* provider has taken, and has noted it in the attempt's record first.     *)
SentIsTaken ==
    \A w \in Workers :
        wpc[w] \in {"finish", "save"} /\ wend[w] = "sent" => receipts[wrow[w]] > 0

SentIsNoted ==
    \A w \in Workers :
        wpc[w] = "save" /\ wend[w] = "sent" => wnum[w] \in succeeded[wrow[w]]

SentInv == SentIsTaken /\ SentIsNoted /\ SentMeansAccepted

LEMMA SentInit == Init => SentInv
  BY DEF Init, SentInv, SentIsTaken, SentIsNoted, SentMeansAccepted, Absent

(* A step that adds no `sent` row, keeps the counter of the sent ones,     *)
(* forgets nothing, and leads no worker into the steps that write `sent`.  *)
LEMMA SentFrame ==
  ASSUME TypeInv, SentInv,
         \A r \in Rows : status'[r] = "sent" => status[r] = "sent" /\ attempts'[r] = attempts[r],
         \A r \in Rows : receipts'[r] >= receipts[r] /\ succeeded[r] \subseteq succeeded'[r],
         \A w \in Workers : wpc'[w] \in {"finish", "save"} /\ wend'[w] = "sent" =>
             /\ wpc'[w] = wpc[w] /\ wend'[w] = wend[w]
             /\ wrow'[w] = wrow[w] /\ wnum'[w] = wnum[w],
         receipts' \in [Rows -> Nat]
  PROVE  SentInv'
<1> USE DEF TypeInv, RowsTyped, EnvironmentTyped, WorkersOK, WorkersReady
<1>1. SentIsTaken'
  BY DEF SentInv, SentIsTaken
<1>2. SentIsNoted'
  BY DEF SentInv, SentIsNoted
<1>3. SentMeansAccepted'
  BY DEF SentInv, SentMeansAccepted
<1> QED
  BY <1>1, <1>2, <1>3 DEF SentInv

LEMMA SentStep == TypeInv /\ TypeInv' /\ OwnerInv /\ SentInv /\ [Next]_vars => SentInv'
<1> SUFFICES ASSUME TypeInv, TypeInv', OwnerInv, SentInv, [Next]_vars PROVE SentInv'
  OBVIOUS
<1> USE DEF rowVars, ledgerVars, workVars, sendVars
<1>0. /\ status \in [Rows -> OutboxStatus \cup {Absent}]
      /\ attempts \in [Rows -> Nat]
      /\ receipts \in [Rows -> Nat] /\ receipts' \in [Rows -> Nat]
      /\ succeeded \in [Rows -> SUBSET Nat]
      /\ wpc \in [Workers -> WorkerSteps] /\ wend \in [Workers -> Ends]
      /\ wrow \in [Workers -> Rows \cup {NoRow}] /\ wnum \in [Workers -> Nat]
  BY DEF TypeInv, RowsTyped, LedgerTyped, WorkersOK, WorkersTyped, EnvironmentTyped
<1>1. ASSUME UNCHANGED <<attempts, succeeded, receipts, workVars>>,
             \A r \in Rows : status'[r] = "sent" => status[r] = "sent"
      PROVE  SentInv'
  BY <1>0, <1>1, SentFrame
<1>2. ASSUME NEW w \in Workers, UNCHANGED <<attempts, succeeded, receipts>>,
             \A r \in Rows : status'[r] = "sent" => status[r] = "sent",
             Idle(w)
      PROVE  SentInv'
  BY <1>0, <1>2, SentFrame DEF Idle
<1>3. ASSUME NEW r \in Rows, CreateOutbox(r) \/ Clock(r) PROVE SentInv'
  BY <1>0, <1>1, <1>3 DEF CreateOutbox, Clock, BecomeDue, BackoffElapses, TimeoutPasses
<1>4. ASSUME NEW d \in Dispatchers,
             SelectBatch(d) \/ DispatcherStep(d) \/ \E r \in Rows : RunCallback(d, r)
      PROVE  SentInv'
  <2>1. CASE UNCHANGED status
    BY <1>1, <1>4, <2>1 DEF SelectBatch, DispatcherStep, RunCallback, ClaimDispatch, Enqueue,
       EnqueueRaises, CloseDispatch
  <2>2. CASE ClaimDispatch(d)
    BY <1>0, <1>1, <2>2 DEF ClaimDispatch
  <2>3. CASE CloseDispatch(d)
    BY <1>0, <1>1, <2>3 DEF CloseDispatch, Closed, Closing
  <2> QED
    BY <1>4, <2>1, <2>2, <2>3 DEF SelectBatch, DispatcherStep, RunCallback, Enqueue,
       EnqueueRaises
<1>5. ASSUME NEW w \in Workers, NEW r \in Rows, Receive(w, r) PROVE SentInv'
  BY <1>0, <1>5, SentFrame DEF Receive
<1>6. ASSUME NEW w \in Workers, ClaimProcessing(w) PROVE SentInv'
  <2>1. CASE Goto(w, "claimed") /\ UNCHANGED wend
    BY <1>0, <1>6, <2>1, SentFrame DEF ClaimProcessing, Goto
  <2> QED
    BY <1>0, <1>2, <1>6, <2>1 DEF ClaimProcessing
<1>7. ASSUME NEW w \in Workers, RefreshRow(w) PROVE SentInv'
  BY <1>0, <1>7, SentFrame DEF RefreshRow
<1>8. ASSUME NEW w \in Workers, OpenAttempt(w) PROVE SentInv'
  <2>1. CASE Goto(w, "opened") /\ UNCHANGED wend
    BY <1>0, <1>8, <2>1, SentFrame DEF OpenAttempt, Goto
  <2> QED
    BY <1>2, <1>8, <2>1 DEF OpenAttempt
<1>9. ASSUME NEW w \in Workers, RejectRow(w) PROVE SentInv'
  BY <1>0, <1>9, SentFrame DEF RejectRow, Goto
<1>10. ASSUME NEW w \in Workers, SendAccepted(w) PROVE SentInv'
  <2>1. wrow[w] \in Rows
    BY <1>10 DEF SendAccepted, Send, TypeInv, WorkersOK, WorkersReady
  <2>2. receipts'[wrow[w]] > 0 /\ \A r \in Rows : receipts'[r] >= receipts[r]
    BY <1>0, <1>10, <2>1 DEF SendAccepted, Take
  <2>3. SentIsTaken'
    BY <1>0, <1>10, <2>2
       DEF SendAccepted, Send, Goto, SentInv, SentIsTaken, TypeInv, WorkersOK, WorkersReady
  <2>4. SentIsNoted'
    BY <1>0, <1>10 DEF SendAccepted, Send, Goto, SentInv, SentIsNoted
  <2>5. SentMeansAccepted'
    BY <1>0, <1>10, <2>2 DEF SendAccepted, Send, SentInv, SentMeansAccepted
  <2> QED
    BY <2>3, <2>4, <2>5 DEF SentInv
<1>11. ASSUME NEW w \in Workers, NEW end \in {"retry", "failed"}, Send(w, end),
              UNCHANGED receipts \/ Take(w)
       PROVE  SentInv'
  <2>1. \A r \in Rows : receipts'[r] >= receipts[r]
    BY <1>0, <1>11 DEF Take
  <2> QED
    BY <1>0, <1>11, <2>1, SentFrame DEF Send, Goto
<1>12. ASSUME NEW w \in Workers, SendTemporaryError(w) \/ SendPermanentError(w)
       PROVE  SentInv'
  BY <1>11, <1>12 DEF SendTemporaryError, SendPermanentError
<1>13. ASSUME NEW w \in Workers, FinishAttempt(w) PROVE SentInv'
  <2>1. wrow[w] \in Rows
    BY <1>13 DEF FinishAttempt, TypeInv, WorkersOK, WorkersReady
  <2>2. /\ \A r \in Rows : succeeded[r] \subseteq succeeded'[r]
        /\ wend[w] = "sent" => wnum[w] \in succeeded'[wrow[w]]
    BY <1>0, <1>13, <2>1 DEF FinishAttempt
  <2>3. SentIsTaken'
    BY <1>0, <1>13 DEF FinishAttempt, Goto, SentInv, SentIsTaken
  <2>4. SentIsNoted'
    BY <1>0, <1>13, <2>2
       DEF FinishAttempt, Goto, SentInv, SentIsNoted, TypeInv, WorkersOK, WorkersReady
  <2>5. SentMeansAccepted'
    BY <1>0, <1>13, <2>2 DEF FinishAttempt, SentInv, SentMeansAccepted
  <2> QED
    BY <2>3, <2>4, <2>5 DEF SentInv
<1>14. ASSUME NEW w \in Workers, SaveOutcome(w) PROVE SentInv'
  <2>1. CASE UNCHANGED <<status, attempts>> /\ Idle(w)
    BY <1>2, <1>14, <2>1 DEF SaveOutcome
  <2>2. CASE /\ status' = [status EXCEPT ![wrow[w]] = Target(w)]
             /\ attempts' = [attempts EXCEPT ![wrow[w]] = SavedAttempts(w)]
    <3>1. wpc[w] = "save" /\ wrow[w] \in Rows /\ UNCHANGED <<succeeded, receipts>>
      BY <1>14 DEF SaveOutcome, TypeInv, WorkersOK, WorkersReady
    <3>2. wpc'[w] \in {"idle", "fallback"}
          /\ \A v \in Workers \ {w} : /\ wpc'[v] = wpc[v] /\ wend'[v] = wend[v]
                                      /\ wrow'[v] = wrow[v] /\ wnum'[v] = wnum[v]
      BY <1>0, <1>14 DEF SaveOutcome, Goto, Idle
    <3>3. SentIsTaken' /\ SentIsNoted'
      BY <3>1, <3>2 DEF SentInv, SentIsTaken, SentIsNoted
    <3>4. ASSUME Target(w) = "sent"
          PROVE  receipts[wrow[w]] > 0 /\ SavedAttempts(w) \in succeeded[wrow[w]]
      BY <3>1, <3>4 DEF Target, SavedAttempts, SentInv, SentIsTaken, SentIsNoted
    <3>5. SentMeansAccepted'
      BY <1>0, <2>2, <3>1, <3>4 DEF SentInv, SentMeansAccepted
    <3> QED
      BY <3>3, <3>5 DEF SentInv
  <2> QED
    BY <1>14, <2>1, <2>2 DEF SaveOutcome
<1>15. ASSUME NEW w \in Workers, CreateFallback(w) PROVE SentInv'
  BY <1>0, <1>2, <1>15 DEF CreateFallback
<1>16. CASE RecoverStuck
  BY <1>0, <1>1, <1>16 DEF RecoverStuck, Recovered
<1>17. ASSUME NEW o \in Operators, OperatorStep(o) PROVE SentInv'
  BY <1>0, <1>1, <1>17 DEF OperatorStep, RequestRetry, SaveManualRetry, RequestCancel, SaveCancel
<1>18. CASE Failures
  BY <1>1, <1>2, <1>18 DEF Failures, LoseMessage, DuplicateMessage, LoseCallback,
     CrashDispatcher, CrashWorker
<1>19. CASE UNCHANGED vars
  BY <1>1, <1>19 DEF vars
<1> QED
  BY <1>3, <1>4, <1>5, <1>6, <1>7, <1>8, <1>9, <1>10, <1>12, <1>13, <1>14, <1>15, <1>16,
     <1>17, <1>18, <1>19 DEF Next, WorkerStep

(* A row that says `sent` was taken by the provider, in the attempt its    *)
(* counter names, and that attempt's record says so.                       *)
THEOREM SentIsTrue == Spec => []SentMeansAccepted
<1>1. SentInv => SentMeansAccepted
  BY DEF SentInv
<1> QED
  BY <1>1, SentInit, SentStep, Owned, PTL DEF Spec

-----------------------------------------------------------------------------
(* How often a row is attempted.                                           *)

Limit(r) == MaxAttempts + manual[r]

Unsettled == OutboxStatus \ Settled

(* A row that can still be claimed has an attempt left; a worker that has  *)
(* read an unsettled row has a number within the limit, and one that has   *)
(* read a settled row cannot save.                                         *)
RoomLeft ==
    \A r \in Rows :
        /\ status[r] = Absent => attempts[r] = 0
        /\ status[r] \in Unsettled => attempts[r] < Limit(r)

WorkersBounded ==
    \A w \in Workers :
        /\ wpc[w] # "idle" => status[wrow[w]] # Absent
        /\ wpc[w] \in {"open", "opened", "finish", "save"} =>
              /\ wseen[w] # Absent
              /\ wseen[w] \in Unsettled => wnum[w] <= Limit(wrow[w])
        /\ wpc[w] \in {"finish", "save"} /\ wend[w] = "retry" => wnum[w] < MaxAttempts

BoundInv == RoomLeft /\ WorkersBounded /\ AttemptsBounded

LEMMA BoundInit == Init => BoundInv
  BY ConstantsAssumption DEF Init, BoundInv, RoomLeft, WorkersBounded, AttemptsBounded,
     Unsettled, OutboxStatus, Absent

LEMMA StatusFacts ==
  /\ Absent \notin OutboxStatus
  /\ Dispatchable \subseteq Unsettled /\ Claimable \subseteq Unsettled
  /\ {"pending", "dispatching", "queued", "processing", "retry"} \subseteq Unsettled
  /\ \A s \in OutboxStatus : s \in Unsettled \/ s \in Settled
  /\ Settled \cap Unsettled = {}
  BY DEF Absent, OutboxStatus, Dispatchable, Claimable, Unsettled, Settled

(* transition() raises for an object read in a settled status, unless it   *)
(* goes back to pending.                                                   *)
LEMMA SettledCannotSave ==
  ASSUME NEW s \in Settled, NEW t \in {"sent", "retry", "failed"}
  PROVE  ~Allowed(s, t)
<1>1. CASE s = "sent"
  BY <1>1 DEF Allowed, ValidTransitions, OutboxStatus
<1>2. CASE s = "failed"
  BY <1>2 DEF Allowed, ValidTransitions, OutboxStatus
<1>3. CASE s = "cancelled"
  BY <1>3 DEF Allowed, ValidTransitions, OutboxStatus
<1> QED
  BY <1>1, <1>2, <1>3 DEF Settled

(* A step that takes no row from settled to unsettled, and one that gives  *)
(* no worker a row, a number or a result.                                  *)
RowsStay ==
    \A r \in Rows :
        \/ status'[r] = status[r]
        \/ status'[r] # Absent /\ attempts[r] < Limit(r)
        \/ status'[r] \in Settled

WorkersStay ==
    \A w \in Workers : wpc'[w] # "idle" =>
        /\ wpc[w] # "idle" /\ wrow'[w] = wrow[w]
        /\ wpc'[w] \in {"open", "opened", "finish", "save"} =>
              /\ wpc[w] \in {"open", "opened", "finish", "save"}
              /\ wnum'[w] = wnum[w] /\ wseen'[w] = wseen[w]
        /\ wpc'[w] \in {"finish", "save"} /\ wend'[w] = "retry" => wnum[w] < MaxAttempts

LEMMA BoundFrame ==
  ASSUME TypeInv, BoundInv, UNCHANGED <<attempts, manual>>, RowsStay, WorkersStay
  PROVE  BoundInv'
<1> USE StatusFacts
    DEF TypeInv, RowsTyped, WorkersOK, WorkersTyped, WorkersReady, Limit, RowsStay, WorkersStay
<1>1. RoomLeft'
  <2> SUFFICES ASSUME NEW r \in Rows
               PROVE  /\ status'[r] = Absent => attempts[r] = 0
                      /\ status'[r] \in Unsettled => attempts[r] < Limit(r)
    BY DEF RoomLeft
  <2>1. CASE status'[r] = status[r]
    BY <2>1 DEF BoundInv, RoomLeft
  <2>2. CASE status'[r] # Absent /\ attempts[r] < Limit(r)
    BY <2>2
  <2>3. CASE status'[r] \in Settled
    BY <2>3 DEF Settled, Unsettled, Absent
  <2> QED
    BY <2>1, <2>2, <2>3
<1>2. \A w \in Workers : wpc'[w] # "idle" => status'[wrow'[w]] # Absent
  BY DEF BoundInv, WorkersBounded, Settled, Absent
<1>3. WorkersBounded'
  BY <1>2 DEF BoundInv, WorkersBounded
<1>4. AttemptsBounded'
  BY DEF BoundInv, AttemptsBounded
<1> QED
  BY <1>1, <1>3, <1>4 DEF BoundInv

LEMMA SaveKeepsBound ==
  ASSUME TypeInv, TypeInv', OwnerInv, BoundInv, NEW w \in Workers, SaveOutcome(w)
  PROVE  BoundInv'
<1> DEFINE r == wrow[w]
<1> USE DEF rowVars
<1>0. /\ wpc[w] = "save" /\ r \in Rows /\ UNCHANGED manual
      /\ status \in [Rows -> OutboxStatus \cup {Absent}]
      /\ attempts \in [Rows -> Nat] /\ manual \in [Rows -> Nat]
      /\ wnum[w] \in Nat /\ MaxAttempts \in Nat
  BY ConstantsAssumption DEF SaveOutcome, TypeInv, RowsTyped, EnvironmentTyped, WorkersOK,
     WorkersTyped, WorkersReady
<1>1. \A v \in Workers : wpc'[v] # "idle" =>
         /\ wpc[v] # "idle" /\ wrow'[v] = wrow[v]
         /\ v = w => wpc'[v] = "fallback"
         /\ v # w =>
              /\ wpc'[v] = wpc[v] /\ wnum'[v] = wnum[v]
              /\ wseen'[v] = wseen[v] /\ wend'[v] = wend[v]
  BY DEF SaveOutcome, Goto, Idle, TypeInv, WorkersOK, WorkersTyped
<1>2. CASE UNCHANGED <<status, attempts>>
  BY <1>0, <1>1, <1>2, BoundFrame DEF BoundInv, WorkersBounded, RowsStay, WorkersStay
<1>3. CASE /\ Allowed(wseen[w], Target(w))
           /\ status' = [status EXCEPT ![r] = Target(w)]
           /\ attempts' = [attempts EXCEPT ![r] = SavedAttempts(w)]
  <2>1. Target(w) \in {"sent", "retry", "failed"} /\ SavedAttempts(w) \in Nat
        /\ SavedAttempts(w) <= wnum[w]
    BY <1>0, OutcomeTyped DEF TypeInv, SavedAttempts
  <2>2. wnum[w] <= Limit(r)
    <3>1. wseen[w] \in Unsettled
      BY <1>0, <1>3, <2>1, SettledCannotSave, StatusFacts
         DEF BoundInv, WorkersBounded, TypeInv, WorkersOK, WorkersTyped
    <3> QED
      BY <1>0, <3>1 DEF BoundInv, WorkersBounded
  <2>3. Target(w) = "retry" => wnum[w] < MaxAttempts
    BY <1>0 DEF Target, BoundInv, WorkersBounded
  <2>4. RoomLeft'
    BY <1>0, <1>3, <2>1, <2>3, StatusFacts
       DEF BoundInv, RoomLeft, Limit, Unsettled, Settled, OutboxStatus, Absent
  <2>5. AttemptsBounded'
    BY <1>0, <1>3, <2>1, <2>2 DEF BoundInv, AttemptsBounded, Limit
  <2>6. \A q \in Rows : status[q] # Absent => status'[q] # Absent
    BY <1>0, <1>3, <2>1 DEF Absent
  <2>7. WorkersBounded'
    BY <1>0, <1>1, <2>6 DEF BoundInv, WorkersBounded, Limit, TypeInv, WorkersOK, WorkersReady
  <2> QED
    BY <2>4, <2>5, <2>7 DEF BoundInv
<1> QED
  BY <1>2, <1>3 DEF SaveOutcome

LEMMA BoundStep == TypeInv /\ TypeInv' /\ OwnerInv /\ BoundInv /\ [Next]_vars => BoundInv'
<1> SUFFICES ASSUME TypeInv, TypeInv', OwnerInv, BoundInv, [Next]_vars PROVE BoundInv'
  OBVIOUS
<1> USE DEF rowVars, ledgerVars, workVars, sendVars
<1>0. /\ status \in [Rows -> OutboxStatus \cup {Absent}]
      /\ attempts \in [Rows -> Nat] /\ manual \in [Rows -> Nat]
      /\ wpc \in [Workers -> WorkerSteps] /\ wend \in [Workers -> Ends]
      /\ wseen \in [Workers -> OutboxStatus \cup {Absent}]
      /\ wrow \in [Workers -> Rows \cup {NoRow}] /\ wnum \in [Workers -> Nat]
      /\ MaxAttempts \in Nat \ {0}
  BY ConstantsAssumption DEF TypeInv, RowsTyped, WorkersOK, WorkersTyped, EnvironmentTyped
<1>00. \A r \in Rows :
          status[r] \in {Absent, "pending", "dispatching", "queued", "processing", "retry"}
            => attempts[r] < Limit(r)
  <2> SUFFICES ASSUME NEW r \in Rows,
                      status[r] \in {Absent, "pending", "dispatching", "queued", "processing",
                                     "retry"}
               PROVE  attempts[r] < Limit(r)
    OBVIOUS
  <2>1. CASE status[r] = Absent
    BY <1>0, <2>1 DEF BoundInv, RoomLeft, Limit
  <2>2. CASE status[r] # Absent
    <3>1. status[r] \in Unsettled
      BY <2>2, StatusFacts
    <3> QED
      BY <3>1 DEF BoundInv, RoomLeft
  <2> QED
    BY <2>1, <2>2
<1>01. \A w \in Workers : wpc[w] \in {"finish", "save"} /\ wend[w] = "retry" =>
          wnum[w] < MaxAttempts
  BY DEF BoundInv, WorkersBounded
<1>02. UNCHANGED status => RowsStay
  BY DEF RowsStay
<1>03. UNCHANGED workVars => WorkersStay
  BY <1>01 DEF WorkersStay
<1>04. ASSUME NEW w \in Workers, Idle(w) PROVE WorkersStay
  BY <1>0, <1>01, <1>04 DEF Idle, WorkersStay
<1>1. ASSUME UNCHANGED <<attempts, manual, workVars>>, RowsStay PROVE BoundInv'
  BY <1>03, <1>1, BoundFrame
<1>2. ASSUME NEW w \in Workers, UNCHANGED <<attempts, manual>>, RowsStay, Idle(w)
      PROVE  BoundInv'
  BY <1>04, <1>2, BoundFrame
<1>3. ASSUME NEW r \in Rows, CreateOutbox(r) \/ Clock(r) PROVE BoundInv'
  <2>1. RowsStay
    <3>1. CASE CreateOutbox(r)
      BY <1>0, <1>00, <3>1 DEF CreateOutbox, RowsStay, Absent
    <3> QED
      BY <1>02, <1>3, <3>1 DEF Clock, BecomeDue, BackoffElapses, TimeoutPasses
  <2> QED
    BY <1>1, <1>3, <2>1 DEF CreateOutbox, Clock, BecomeDue, BackoffElapses, TimeoutPasses
<1>4. ASSUME NEW d \in Dispatchers,
             SelectBatch(d) \/ DispatcherStep(d) \/ \E r \in Rows : RunCallback(d, r)
      PROVE  BoundInv'
  <2>1. CASE UNCHANGED status
    BY <1>02, <1>1, <1>4, <2>1 DEF SelectBatch, DispatcherStep, RunCallback, ClaimDispatch, Enqueue,
       EnqueueRaises, CloseDispatch
  <2>2. CASE ClaimDispatch(d)
    <3>1. RowsStay
      BY <1>0, <1>00, <2>2 DEF ClaimDispatch, RowsStay, Absent, Dispatchable
    <3> QED
      BY <1>1, <2>2, <3>1 DEF ClaimDispatch
  <2>3. CASE CloseDispatch(d)
    <3>1. Closed(d) = status[drow[d]] \/
            (status[drow[d]] = "dispatching" /\ Closed(d) \in {"queued", "pending"})
      BY DEF Closed, Closing
    <3>2. RowsStay
      BY <1>0, <1>00, <2>3, <3>1 DEF CloseDispatch, RowsStay, Absent
    <3> QED
      BY <1>1, <2>3, <3>2 DEF CloseDispatch
  <2> QED
    BY <1>4, <2>1, <2>2, <2>3 DEF SelectBatch, DispatcherStep, RunCallback, Enqueue,
       EnqueueRaises
<1>5. ASSUME NEW w \in Workers, NEW r \in Rows, Receive(w, r) PROVE BoundInv'
  <2>1. CASE UNCHANGED workVars
    BY <1>02, <1>1, <1>5, <2>1 DEF Receive
  <2>2. CASE /\ status[r] \notin Delivered \cup {Absent}
             /\ wpc' = [wpc EXCEPT ![w] = "loaded"]
             /\ wrow' = [wrow EXCEPT ![w] = r]
             /\ UNCHANGED <<wnum, wseen, wend>>
    <3>1. UNCHANGED <<status, attempts, manual>>
      BY <1>5 DEF Receive
    <3>2. RoomLeft' /\ AttemptsBounded'
      BY <3>1 DEF BoundInv, RoomLeft, AttemptsBounded, Limit
    <3>3. WorkersBounded'
      BY <1>0, <2>2, <3>1 DEF BoundInv, WorkersBounded, Limit
    <3> QED
      BY <3>2, <3>3 DEF BoundInv
  <2> QED
    BY <1>5, <2>1, <2>2 DEF Receive
<1>6. ASSUME NEW w \in Workers, ClaimProcessing(w) PROVE BoundInv'
  <2>1. CASE Idle(w) /\ UNCHANGED status
    BY <1>02, <1>2, <1>6, <2>1 DEF ClaimProcessing
  <2>2. CASE ClaimWins(w) /\ status' = [status EXCEPT ![wrow[w]] = "processing"]
             /\ Goto(w, "claimed")
    <3>1. RowsStay
      BY <1>0, <1>00, <2>2 DEF ClaimWins, RowsStay, Absent, Claimable
    <3>2. WorkersStay
      BY <1>0, <1>01, <1>6, <2>2 DEF ClaimProcessing, Goto, WorkersStay
    <3> QED
      BY <1>6, <3>1, <3>2, BoundFrame DEF ClaimProcessing
  <2> QED
    BY <1>6, <2>1, <2>2 DEF ClaimProcessing
<1>7. ASSUME NEW w \in Workers, RefreshRow(w) PROVE BoundInv'
  <2>1. UNCHANGED <<status, attempts, manual>>
    BY <1>7 DEF RefreshRow
  <2>2. RoomLeft' /\ AttemptsBounded'
    BY <2>1 DEF BoundInv, RoomLeft, AttemptsBounded, Limit
  <2>3. wrow[w] \in Rows /\ status[wrow[w]] # Absent
    BY <1>7 DEF RefreshRow, BoundInv, WorkersBounded, TypeInv, WorkersOK, WorkersReady
  <2>4. status[wrow[w]] \in Unsettled => attempts[wrow[w]] + 1 <= Limit(wrow[w])
    BY <1>0, <2>3 DEF BoundInv, RoomLeft, Limit
  <2>5. WorkersBounded'
    BY <1>0, <1>7, <2>1, <2>3, <2>4
       DEF RefreshRow, AttemptNumber, BoundInv, WorkersBounded, Limit
  <2> QED
    BY <2>2, <2>5 DEF BoundInv
<1>8. ASSUME NEW w \in Workers, OpenAttempt(w) PROVE BoundInv'
  <2>1. CASE Goto(w, "opened") /\ UNCHANGED wend
    <3>1. WorkersStay
      BY <1>0, <1>01, <1>8, <2>1 DEF OpenAttempt, Goto, WorkersStay
    <3> QED
      BY <1>02, <1>8, <3>1, BoundFrame DEF OpenAttempt
  <2> QED
    BY <1>02, <1>2, <1>8, <2>1 DEF OpenAttempt
<1>9. ASSUME NEW w \in Workers, RejectRow(w) \/ FinishAttempt(w) PROVE BoundInv'
  <2>1. WorkersStay
    BY <1>0, <1>01, <1>9 DEF RejectRow, FinishAttempt, Goto, WorkersStay
  <2> QED
    BY <1>02, <1>9, <2>1, BoundFrame DEF RejectRow, FinishAttempt
<1>10. ASSUME NEW w \in Workers, NEW end \in {"sent", "retry", "failed"}, Send(w, end),
              end = "retry" => wnum[w] < MaxAttempts
       PROVE  BoundInv'
  <2>1. WorkersStay
    BY <1>0, <1>01, <1>10 DEF Send, Goto, WorkersStay
  <2> QED
    BY <1>02, <1>10, <2>1, BoundFrame DEF Send
<1>11. ASSUME NEW w \in Workers,
              SendAccepted(w) \/ SendTemporaryError(w) \/ SendPermanentError(w)
       PROVE  BoundInv'
  BY <1>10, <1>11 DEF SendAccepted, SendTemporaryError, SendPermanentError, AttemptsLeft
<1>12. ASSUME NEW w \in Workers, SaveOutcome(w) PROVE BoundInv'
  BY <1>12, SaveKeepsBound
<1>13. ASSUME NEW w \in Workers, CreateFallback(w) PROVE BoundInv'
  <2>1. RowsStay
    BY <1>0, <1>00, <1>13 DEF CreateFallback, RowsStay, Absent
  <2> QED
    BY <1>2, <1>13, <2>1 DEF CreateFallback
<1>14. CASE RecoverStuck
  <2>1. ASSUME NEW r \in Rows
        PROVE  Recovered(r) = status[r] \/
               /\ Recovered(r) \in {"pending", "retry"}
               /\ status[r] \in {"dispatching", "processing"}
    BY DEF Recovered
  <2>2. RowsStay
    BY <1>00, <1>14, <2>1 DEF RecoverStuck, RowsStay, Absent
  <2> QED
    BY <1>1, <1>14, <2>2 DEF RecoverStuck
<1>15. ASSUME NEW o \in Operators, SaveManualRetry(o) PROVE BoundInv'
  <2>1. orow[o] \in Rows
    BY <1>15 DEF SaveManualRetry, TypeInv, OperatorsOK, OperatorsReady
  <2>2. \A r \in Rows : manual'[r] >= manual[r] /\ manual'[r] \in Nat
    BY <1>0, <1>15, <2>1 DEF SaveManualRetry
  <2>3. AttemptsBounded'
    BY <1>0, <1>15, <2>2 DEF SaveManualRetry, BoundInv, AttemptsBounded
  <2>4. RoomLeft'
    BY <1>0, <1>15, <2>1, <2>2 DEF SaveManualRetry, BoundInv, RoomLeft, AttemptsBounded, Limit,
       Absent
  <2>5. \A r \in Rows : status[r] # Absent => status'[r] # Absent
    BY <1>0, <1>15, <2>1 DEF SaveManualRetry, Absent
  <2>6. WorkersBounded'
    BY <1>0, <1>15, <2>2, <2>5
       DEF SaveManualRetry, BoundInv, WorkersBounded, Limit, TypeInv, WorkersOK, WorkersReady
  <2> QED
    BY <2>3, <2>4, <2>6 DEF BoundInv
<1>16. ASSUME NEW o \in Operators, OperatorStep(o), ~SaveManualRetry(o) PROVE BoundInv'
  <2>1. RowsStay
    BY <1>0, <1>02, <1>16 DEF OperatorStep, RequestRetry, RequestCancel, SaveCancel, Settled,
       RowsStay
  <2> QED
    BY <1>1, <1>16, <2>1 DEF OperatorStep, RequestRetry, RequestCancel, SaveCancel
<1>17. CASE Failures
  BY <1>02, <1>1, <1>2, <1>17 DEF Failures, LoseMessage, DuplicateMessage, LoseCallback,
     CrashDispatcher, CrashWorker
<1>18. CASE UNCHANGED vars
  BY <1>02, <1>1, <1>18 DEF vars
<1> QED
  BY <1>3, <1>4, <1>5, <1>6, <1>7, <1>8, <1>9, <1>11, <1>12, <1>13, <1>14, <1>15, <1>16,
     <1>17, <1>18 DEF Next, WorkerStep

(* No row is attempted more often than max_attempts and its manual         *)
(* retries allow, however slow the workers and whoever recovers it.        *)
THEOREM AttemptsLimited == Spec => []AttemptsBounded
<1>1. BoundInv => AttemptsBounded
  BY DEF BoundInv
<1> QED
  BY <1>1, BoundInit, BoundStep, Owned, PTL DEF Spec

-----------------------------------------------------------------------------
(* Without operators, and with processes that do not outlast the timeout.  *)

BusySteps == {"claimed", "open", "opened", "finish", "save"}

ReadSteps == {"open", "opened", "finish", "save"}

Busy(w, r) == wrow[w] = r /\ wpc[w] \in BusySteps

(* A row at a worker past its claim says `processing`, has time left, and  *)
(* has no second worker; that worker has read `processing`, so transition  *)
(* () lets it save; and a worker that failed a row left it failed.         *)
LoneWorker ==
    \A w \in Workers, r \in Rows : Busy(w, r) =>
        /\ status[r] = "processing" /\ ~expired[r]
        /\ \A v \in Workers : Busy(v, r) => v = w

SeenProcessing == \A w \in Workers : wpc[w] \in ReadSteps => wseen[w] = "processing"

FailedFirst == \A w \in Workers : wpc[w] = "fallback" => status[wrow[w]] = "failed"

LoneInv == LoneWorker /\ SeenProcessing /\ FailedFirst

LEMMA LoneInit == Init => LoneInv
  BY DEF Init, LoneInv, LoneWorker, SeenProcessing, FailedFirst, Busy, BusySteps, ReadSteps

(* What a save needs of the status the worker has read.                    *)
LEMMA ProcessingCanSave ==
  ASSUME NEW t \in {"sent", "retry", "failed"}
  PROVE  Allowed("processing", t)
  BY DEF Allowed, ValidTransitions, OutboxStatus

(* A step that leads no worker into a step past its claim, and one that    *)
(* leaves the rows of the busy workers and the settled rows as they are.   *)
NoneJoins ==
    \A v \in Workers :
        /\ wpc'[v] \in BusySteps => wpc[v] \in BusySteps /\ wrow'[v] = wrow[v]
        /\ wpc'[v] \in ReadSteps => wpc[v] \in ReadSteps /\ wseen'[v] = wseen[v]
        /\ wpc'[v] = "fallback" => wpc[v] = "fallback" /\ wrow'[v] = wrow[v]

BusyRowsKept ==
    \A w \in Workers, r \in Rows : Busy(w, r) => status'[r] = "processing" /\ ~expired'[r]

SettledRowsKept == \A r \in Rows : status[r] \in Settled => status'[r] = status[r]

LEMMA LoneFrame ==
  ASSUME TypeInv, LoneInv, NoneJoins, BusyRowsKept, SettledRowsKept
  PROVE  LoneInv'
<1> USE DEF TypeInv, WorkersOK, WorkersTyped, WorkersReady
<1>1. \A v \in Workers, r \in Rows : Busy(v, r)' => Busy(v, r)
  BY DEF NoneJoins, Busy
<1>2. LoneWorker'
  BY <1>1 DEF LoneInv, LoneWorker, BusyRowsKept
<1>3. SeenProcessing'
  BY DEF LoneInv, SeenProcessing, NoneJoins
<1>4. FailedFirst'
  BY DEF LoneInv, FailedFirst, NoneJoins, SettledRowsKept, Settled
<1> QED
  BY <1>2, <1>3, <1>4 DEF LoneInv

(* No step but a save takes a row away from its worker, and none touches a *)
(* settled row.                                                            *)
LEMMA LoneRows ==
  ASSUME MaySlow = FALSE, Operators = {}, TypeInv, LoneInv, [Next]_vars
  PROVE  /\ SettledRowsKept
         /\ (\E w \in Workers : SaveOutcome(w)) \/ BusyRowsKept
<1> USE DEF rowVars, ledgerVars, workVars, dispVars, sendVars
<1>0. /\ status \in [Rows -> OutboxStatus \cup {Absent}]
      /\ expired \in [Rows -> BOOLEAN]
      /\ \A w \in Workers : wpc[w] # "idle" => wrow[w] \in Rows
      /\ \A d \in Dispatchers : dpc[d] # "idle" => drow[d] \in Rows
  BY DEF TypeInv, RowsTyped, WorkersOK, WorkersReady, DispatchersOK, DispatchersReady
<1>1. \A w \in Workers, r \in Rows : Busy(w, r) =>
         status[r] = "processing" /\ ~expired[r] /\ WorkerOn(r)
  BY DEF LoneInv, LoneWorker, Busy, BusySteps, WorkerOn
<1>2. CASE UNCHANGED <<status, expired>>
  BY <1>1, <1>2 DEF SettledRowsKept, BusyRowsKept
<1>3. ASSUME NEW r \in Rows, CreateOutbox(r) PROVE SettledRowsKept /\ BusyRowsKept
  BY <1>0, <1>1, <1>3 DEF CreateOutbox, SettledRowsKept, BusyRowsKept, Settled, Absent
<1>4. ASSUME NEW r \in Rows, TimeoutPasses(r) PROVE SettledRowsKept /\ BusyRowsKept
  BY <1>0, <1>1, <1>4 DEF TimeoutPasses, SettledRowsKept, BusyRowsKept
<1>5. ASSUME NEW d \in Dispatchers, ClaimDispatch(d) PROVE SettledRowsKept /\ BusyRowsKept
  BY <1>0, <1>1, <1>5 DEF ClaimDispatch, Dispatchable, SettledRowsKept, BusyRowsKept, Settled
<1>6. ASSUME NEW d \in Dispatchers, CloseDispatch(d) PROVE SettledRowsKept /\ BusyRowsKept
  BY <1>0, <1>1, <1>6 DEF CloseDispatch, Closed, SettledRowsKept, BusyRowsKept, Settled
<1>7. ASSUME NEW w \in Workers, ClaimProcessing(w) PROVE SettledRowsKept /\ BusyRowsKept
  BY <1>0, <1>1, <1>7
     DEF ClaimProcessing, ClaimWins, Claimable, SettledRowsKept, BusyRowsKept, Settled
<1>8. ASSUME NEW w \in Workers, SaveOutcome(w) PROVE SettledRowsKept
  <2>1. wrow[w] \in Rows /\ status[wrow[w]] = "processing"
    BY <1>0, <1>1, <1>8 DEF SaveOutcome, Busy, BusySteps
  <2> QED
    BY <1>0, <1>8, <2>1 DEF SaveOutcome, SettledRowsKept, Settled
<1>9. ASSUME NEW w \in Workers, CreateFallback(w) PROVE SettledRowsKept /\ BusyRowsKept
  BY <1>0, <1>1, <1>9 DEF CreateFallback, SettledRowsKept, BusyRowsKept, Settled, Absent
<1>10. CASE RecoverStuck
  BY <1>0, <1>1, <1>10 DEF RecoverStuck, Recovered, SettledRowsKept, BusyRowsKept, Settled
<1>11. ASSUME NEW w \in Workers, WorkerStep(w) \/ \E r \in Rows : Receive(w, r)
       PROVE  \/ UNCHANGED <<status, expired>>
              \/ ClaimProcessing(w) \/ SaveOutcome(w) \/ CreateFallback(w)
  BY <1>11 DEF WorkerStep, Receive, RefreshRow, OpenAttempt, RejectRow, SendAccepted,
     SendTemporaryError, SendPermanentError, Send, FinishAttempt
<1>12. ASSUME NEW d \in Dispatchers,
              SelectBatch(d) \/ DispatcherStep(d) \/ \E r \in Rows : RunCallback(d, r)
       PROVE  UNCHANGED <<status, expired>> \/ ClaimDispatch(d) \/ CloseDispatch(d)
  BY <1>12 DEF SelectBatch, DispatcherStep, RunCallback, Enqueue, EnqueueRaises
<1>13. ASSUME NEW r \in Rows, Clock(r) PROVE UNCHANGED <<status, expired>> \/ TimeoutPasses(r)
  BY <1>13 DEF Clock, BecomeDue, BackoffElapses
<1>14. CASE Failures
  BY <1>2, <1>14 DEF Failures, LoseMessage, DuplicateMessage, LoseCallback,
     CrashDispatcher, CrashWorker
<1>15. CASE UNCHANGED vars
  BY <1>2, <1>15 DEF vars
<1> QED
  BY <1>2, <1>3, <1>4, <1>5, <1>6, <1>7, <1>8, <1>9, <1>10, <1>11, <1>12, <1>13, <1>14,
     <1>15 DEF Next

LEMMA LoneSave ==
  ASSUME TypeInv, LoneInv, NEW w \in Workers, SaveOutcome(w)
  PROVE  /\ wrow[w] \in Rows /\ Busy(w, wrow[w])
         /\ status[wrow[w]] = "processing"
         /\ Target(w) \in {"sent", "retry", "failed"}
         /\ status' = [status EXCEPT ![wrow[w]] = Target(w)]
         /\ attempts' = [attempts EXCEPT ![wrow[w]] = SavedAttempts(w)]
         /\ IF Target(w) = "failed" THEN Goto(w, "fallback") /\ UNCHANGED wend ELSE Idle(w)
<1>1. wpc[w] = "save" /\ wrow[w] \in Rows /\ Busy(w, wrow[w])
  BY DEF SaveOutcome, TypeInv, WorkersOK, WorkersReady, Busy, BusySteps
<1>2. status[wrow[w]] = "processing" /\ wseen[w] = "processing"
  BY <1>1 DEF LoneInv, LoneWorker, SeenProcessing, ReadSteps
<1>3. Target(w) \in {"sent", "retry", "failed"}
  BY <1>1, OutcomeTyped DEF TypeInv
<1>4. Allowed(wseen[w], Target(w))
  BY <1>2, <1>3, ProcessingCanSave
<1> QED
  BY <1>1, <1>2, <1>3, <1>4 DEF SaveOutcome, FallsBack

LEMMA SaveKeepsLone ==
  ASSUME TypeInv, LoneInv, NEW w \in Workers, SaveOutcome(w)
  PROVE  LoneInv'
<1> DEFINE r == wrow[w]
<1>1. /\ r \in Rows /\ Busy(w, r) /\ status[r] = "processing"
      /\ status' = [status EXCEPT ![r] = Target(w)] /\ UNCHANGED expired
      /\ IF Target(w) = "failed" THEN Goto(w, "fallback") ELSE Idle(w)
  BY LoneSave DEF SaveOutcome
<1>2. /\ status \in [Rows -> OutboxStatus \cup {Absent}]
      /\ wpc \in [Workers -> WorkerSteps] /\ wrow \in [Workers -> Rows \cup {NoRow}]
      /\ wseen \in [Workers -> OutboxStatus \cup {Absent}]
      /\ \A v \in Workers : wpc[v] # "idle" => wrow[v] \in Rows
  BY DEF TypeInv, RowsTyped, WorkersOK, WorkersTyped, WorkersReady
<1>3. /\ wpc'[w] \in {"idle", "fallback"}
      /\ wpc'[w] = "fallback" => wrow'[w] = r /\ Target(w) = "failed"
      /\ \A v \in Workers \ {w} :
            wpc'[v] = wpc[v] /\ wrow'[v] = wrow[v] /\ wseen'[v] = wseen[v]
  BY <1>1, <1>2 DEF Goto, Idle
<1>4. \A v \in Workers, q \in Rows : Busy(v, q)' => Busy(v, q) /\ q # r
  BY <1>1, <1>2, <1>3 DEF Busy, BusySteps, LoneInv, LoneWorker
<1>5. LoneWorker'
  BY <1>1, <1>2, <1>4 DEF LoneInv, LoneWorker
<1>6. SeenProcessing'
  BY <1>3 DEF LoneInv, SeenProcessing, ReadSteps
<1>7. FailedFirst'
  BY <1>1, <1>2, <1>3 DEF LoneInv, FailedFirst
<1> QED
  BY <1>5, <1>6, <1>7 DEF LoneInv

LEMMA ClaimKeepsLone ==
  ASSUME TypeInv, LoneInv, SettledRowsKept, NEW w \in Workers, ClaimProcessing(w), ClaimWins(w)
  PROVE  LoneInv'
<1> DEFINE r == wrow[w]
<1>1. /\ wpc[w] = "loaded" /\ r \in Rows /\ status[r] \in Claimable
      /\ status' = [status EXCEPT ![r] = "processing"]
      /\ expired' = [expired EXCEPT ![r] = FALSE]
      /\ Goto(w, "claimed")
  BY DEF ClaimProcessing, ClaimWins, TypeInv, WorkersOK, WorkersReady
<1>2. /\ status \in [Rows -> OutboxStatus \cup {Absent}] /\ expired \in [Rows -> BOOLEAN]
      /\ wpc \in [Workers -> WorkerSteps]
      /\ \A v \in Workers : wpc[v] # "idle" => wrow[v] \in Rows
  BY DEF TypeInv, RowsTyped, WorkersOK, WorkersTyped, WorkersReady
<1>3. \A v \in Workers : ~Busy(v, r)
  BY <1>1 DEF LoneInv, LoneWorker, Claimable
<1>4. \A v \in Workers, q \in Rows : Busy(v, q)' => (v = w /\ q = r) \/ (q # r /\ Busy(v, q))
  BY <1>1, <1>2, <1>3 DEF Busy, BusySteps, Goto
<1>5. LoneWorker'
  BY <1>1, <1>2, <1>4 DEF LoneInv, LoneWorker
<1>6. SeenProcessing'
  BY <1>1, <1>2 DEF LoneInv, SeenProcessing, ReadSteps, Goto
<1>7. FailedFirst'
  BY <1>1, <1>2 DEF LoneInv, FailedFirst, Goto, SettledRowsKept, Settled
<1> QED
  BY <1>5, <1>6, <1>7 DEF LoneInv

LEMMA LoneStep ==
  ASSUME MaySlow = FALSE, Operators = {}
  PROVE  TypeInv /\ LoneInv /\ [Next]_vars => LoneInv'
<1> SUFFICES ASSUME TypeInv, LoneInv, [Next]_vars PROVE LoneInv'
  OBVIOUS
<1> USE DEF rowVars, ledgerVars, workVars, sendVars
<1>0. /\ SettledRowsKept
      /\ (\E w \in Workers : SaveOutcome(w)) \/ BusyRowsKept
  BY LoneRows
<1>1. ASSUME NEW w \in Workers, SaveOutcome(w) PROVE LoneInv'
  BY <1>1, SaveKeepsLone
<1>2. ASSUME NEW w \in Workers, ClaimProcessing(w), ClaimWins(w) PROVE LoneInv'
  BY <1>0, <1>2, ClaimKeepsLone
<1>3. ASSUME NEW w \in Workers, RefreshRow(w), BusyRowsKept PROVE LoneInv'
  <2> USE DEF TypeInv, WorkersOK, WorkersTyped, WorkersReady
  <2>1. Busy(w, wrow[w]) /\ wrow[w] \in Rows
    BY <1>3 DEF RefreshRow, Busy, BusySteps
  <2>2. \A v \in Workers, r \in Rows : Busy(v, r)' => Busy(v, r)
    BY <1>3 DEF RefreshRow, Busy, BusySteps
  <2>3. LoneWorker'
    BY <1>3, <2>2 DEF LoneInv, LoneWorker, BusyRowsKept
  <2>4. status[wrow[w]] = "processing"
    BY <2>1 DEF LoneInv, LoneWorker
  <2>5. SeenProcessing'
    BY <1>3, <2>4 DEF RefreshRow, LoneInv, SeenProcessing, ReadSteps
  <2>6. FailedFirst'
    BY <1>3 DEF RefreshRow, LoneInv, FailedFirst
  <2> QED
    BY <2>3, <2>5, <2>6 DEF LoneInv
<1>4. ASSUME NoneJoins, BusyRowsKept PROVE LoneInv'
  BY <1>0, <1>4, LoneFrame
<1>5. CASE UNCHANGED workVars
  BY <1>0, <1>1, <1>4, <1>5 DEF NoneJoins
<1>6. ASSUME NEW w \in Workers, Idle(w) PROVE NoneJoins
  BY <1>6 DEF Idle, NoneJoins, TypeInv, WorkersOK, WorkersTyped, BusySteps, ReadSteps
<1>7. ASSUME NEW w \in Workers, NEW step \in {"opened", "finish", "save"}, Goto(w, step),
             wpc[w] \in ReadSteps
      PROVE  NoneJoins
  BY <1>7 DEF Goto, NoneJoins, TypeInv, WorkersOK, WorkersTyped, BusySteps, ReadSteps
<1>8. ASSUME NEW w \in Workers, NEW r \in Rows, Receive(w, r) PROVE NoneJoins
  BY <1>8 DEF Receive, NoneJoins, TypeInv, WorkersOK, WorkersTyped, BusySteps, ReadSteps
<1>9. ASSUME NEW w \in Workers, WorkerStep(w)
      PROVE  \/ SaveOutcome(w) \/ (ClaimProcessing(w) /\ ClaimWins(w)) \/ RefreshRow(w)
             \/ NoneJoins
  BY <1>6, <1>7, <1>9 DEF WorkerStep, ClaimProcessing, OpenAttempt, RejectRow, SendAccepted,
     SendTemporaryError, SendPermanentError, Send, FinishAttempt, CreateFallback, ReadSteps
<1>10. ASSUME NEW d \in Dispatchers,
              SelectBatch(d) \/ DispatcherStep(d) \/ \E r \in Rows : RunCallback(d, r)
       PROVE  UNCHANGED workVars
  BY <1>10 DEF SelectBatch, DispatcherStep, RunCallback, ClaimDispatch, Enqueue,
     EnqueueRaises, CloseDispatch
<1>11. ASSUME NEW r \in Rows, CreateOutbox(r) \/ Clock(r) PROVE UNCHANGED workVars
  BY <1>11 DEF CreateOutbox, Clock, BecomeDue, BackoffElapses, TimeoutPasses
<1>12. CASE Failures
  <2>1. UNCHANGED workVars \/ NoneJoins
    BY <1>6, <1>12 DEF Failures, LoseMessage, DuplicateMessage, LoseCallback,
       CrashDispatcher, CrashWorker
  <2> QED
    BY <1>0, <1>1, <1>4, <1>5, <2>1
<1>13. CASE UNCHANGED vars
  BY <1>5, <1>13 DEF vars
<1> QED
  BY <1>0, <1>1, <1>2, <1>3, <1>4, <1>5, <1>8, <1>9, <1>10, <1>11, <1>12, <1>13
     DEF Next, RecoverStuck

LEMMA Alone ==
  ASSUME MaySlow = FALSE, Operators = {}
  PROVE  Spec => [](TypeInv /\ OwnerInv /\ LoneInv)
  BY Owned, LoneInit, LoneStep, PTL DEF Spec

(* Without an operator, and with processes that do not outlast the         *)
(* timeout, no worker, dispatcher, recovery or fallback touches a row that *)
(* is settled.                                                             *)
THEOREM SettledRowsAreFinal ==
  ASSUME MaySlow = FALSE, Operators = {}
  PROVE  Spec => SettledIsFinal
<1>1. TypeInv /\ LoneInv /\ [Next]_vars
        => [\A r \in Rows : status[r] \in Settled => status'[r] = status[r]]_vars
  BY LoneRows DEF SettledRowsKept
<1> QED
  BY <1>1, Alone, PTL DEF Spec, SettledIsFinal

-----------------------------------------------------------------------------
(* A provider that raises only when it did not take the notification.      *)

(* A row the provider has taken is `sent`, or its next attempt number is   *)
(* used up: by the worker that will write `sent`, or by one that died      *)
(* before it could.  A worker that owns a row knows which.                 *)
TakenRows ==
    \A r \in Rows :
        /\ receipts[r] <= 1
        /\ receipts[r] > 0 => status[r] = "sent" \/ attempts[r] + 1 \in created[r]
        /\ status[r] \in {"failed", Absent} => receipts[r] = 0

OwnersKnow ==
    \A w \in Workers, r \in Rows : Holds(w, r) =>
        (receipts[r] > 0 <=> wpc[w] \in {"finish", "save"} /\ wend[w] = "sent")

TakenInv == TakenRows /\ OwnersKnow

LEMMA TakenInit == Init => TakenInv
  BY DEF Init, TakenInv, TakenRows, OwnersKnow, Holds

(* A step that keeps the receipts and the records, moves a row only into a *)
(* status that says nothing of the provider, and makes no worker an owner  *)
(* or changes what it will write.                                          *)
RowsSayNoMore ==
    \A r \in Rows :
        \/ status'[r] = status[r]
        \/ /\ status[r] # "sent"
           /\ status'[r] \notin {"failed", Absent}

OwnersStay ==
    \A w \in Workers, r \in Rows : Holds(w, r)' =>
        /\ Holds(w, r)
        /\ (wpc'[w] \in {"finish", "save"} /\ wend'[w] = "sent")
             <=> (wpc[w] \in {"finish", "save"} /\ wend[w] = "sent")

LEMMA TakenFrame ==
  ASSUME TypeInv, TakenInv, UNCHANGED <<attempts, created, receipts>>, RowsSayNoMore, OwnersStay
  PROVE  TakenInv'
<1>1. TakenRows'
  BY DEF TakenInv, TakenRows, RowsSayNoMore
<1>2. OwnersKnow'
  BY DEF TakenInv, OwnersKnow, OwnersStay
<1> QED
  BY <1>1, <1>2 DEF TakenInv

LEMMA OpenIsFresh ==
  ASSUME TypeInv, OwnerInv, LoneInv, TakenInv, NEW w \in Workers, wpc[w] = "open",
         NumberFree(w)
  PROVE  wrow[w] \in Rows /\ receipts[wrow[w]] = 0
<1> DEFINE r == wrow[w]
<1>1. /\ r \in Rows /\ wnum[w] \in Nat \ {0} /\ wnum[w] <= attempts[r] + 1
      /\ attempts[r] \in Nat /\ receipts[r] \in Nat
  BY DEF TypeInv, RowsTyped, EnvironmentTyped, WorkersOK, WorkersReady, OwnerInv, OpenNumbers
<1>2. status[r] = "processing"
  BY <1>1 DEF LoneInv, LoneWorker, Busy, BusySteps
<1>3. created[r] \in {1 .. attempts[r], 1 .. (attempts[r] + 1)}
  BY <1>1 DEF OwnerInv, LedgerContiguous
<1>4. attempts[r] + 1 \notin created[r]
  BY <1>1, <1>3 DEF NumberFree
<1> QED
  BY <1>1, <1>2, <1>4 DEF TakenInv, TakenRows

LEMMA OpenKeepsTaken ==
  ASSUME TypeInv, OwnerInv, OwnerInv', LoneInv, TakenInv, NEW w \in Workers, OpenAttempt(w),
         NumberFree(w)
  PROVE  TakenInv'
<1> DEFINE r == wrow[w]
<1> USE DEF rowVars, sendVars
<1>1. /\ wpc[w] = "open" /\ r \in Rows /\ receipts[r] = 0
      /\ created' = [created EXCEPT ![r] = @ \cup {wnum[w]}]
      /\ Goto(w, "opened") /\ UNCHANGED <<status, attempts, receipts, wend>>
  BY OpenIsFresh DEF OpenAttempt
<1>2. /\ wpc \in [Workers -> WorkerSteps] /\ created \in [Rows -> SUBSET (Nat \ {0})]
  BY DEF TypeInv, LedgerTyped, WorkersOK, WorkersTyped
<1>3. \A q \in Rows : created[q] \subseteq created'[q]
  BY <1>1, <1>2
<1>4. TakenRows'
  BY <1>1, <1>3 DEF TakenInv, TakenRows
<1>5. OwnersKnow'
  BY <1>1, <1>2 DEF TakenInv, OwnersKnow, Holds, Goto
<1> QED
  BY <1>4, <1>5 DEF TakenInv

LEMMA SendKeepsTaken ==
  ASSUME TypeInv, OwnerInv, LoneInv, TakenInv, NEW w \in Workers, NEW end \in Ends, Send(w, end),
         IF end = "sent" THEN Take(w) ELSE UNCHANGED receipts
  PROVE  /\ TakenInv'
         /\ receipts[wrow[w]] = 0 /\ status[wrow[w]] = "processing" /\ wrow[w] \in Rows
<1> DEFINE r == wrow[w]
<1> USE DEF rowVars, ledgerVars
<1>1. /\ wpc[w] = "opened" /\ r \in Rows /\ Holds(w, r) /\ Busy(w, r)
      /\ wend' = [wend EXCEPT ![w] = end] /\ Goto(w, "finish")
      /\ UNCHANGED <<status, attempts, created>>
  BY DEF Send, TypeInv, WorkersOK, WorkersReady, Holds, Busy, BusySteps
<1>2. /\ wpc \in [Workers -> WorkerSteps] /\ wend \in [Workers -> Ends]
      /\ receipts \in [Rows -> Nat]
  BY DEF TypeInv, EnvironmentTyped, WorkersOK, WorkersTyped
<1>3. receipts[r] = 0 /\ status[r] = "processing" /\ attempts[r] + 1 \in created[r]
  BY <1>1, <1>2 DEF TakenInv, OwnersKnow, LoneInv, LoneWorker, OwnerInv, HeldNumbers
<1>4. /\ end = "sent" => receipts' = [receipts EXCEPT ![r] = 1]
      /\ end # "sent" => receipts' = receipts
  BY <1>1, <1>2, <1>3 DEF Take
<1>5. TakenRows'
  BY <1>1, <1>2, <1>3, <1>4 DEF TakenInv, TakenRows, Absent
<1>6. \A v \in Workers, q \in Rows : Holds(v, q)' => (v = w /\ q = r) \/ (q # r /\ v # w /\ Holds(v, q))
  BY <1>1, <1>2 DEF Holds, Goto, OwnerInv, OneOwner
<1>7. OwnersKnow'
  BY <1>1, <1>2, <1>3, <1>4, <1>6 DEF TakenInv, OwnersKnow, Goto
<1> QED
  BY <1>1, <1>3, <1>5, <1>7 DEF TakenInv

LEMMA SaveKeepsTaken ==
  ASSUME TypeInv, OwnerInv, LoneInv, TakenInv, NEW w \in Workers, SaveOutcome(w)
  PROVE  /\ TakenInv'
         /\ Target(w) = "sent" <=> receipts[wrow[w]] > 0
<1> DEFINE r == wrow[w]
<1>1. /\ wpc[w] = "save" /\ r \in Rows /\ status[r] = "processing"
      /\ Target(w) \in {"sent", "retry", "failed"}
      /\ status' = [status EXCEPT ![r] = Target(w)]
      /\ attempts' = [attempts EXCEPT ![r] = SavedAttempts(w)]
      /\ UNCHANGED <<created, receipts>>
  BY LoneSave DEF SaveOutcome, ledgerVars, sendVars
<1>2. /\ wpc \in [Workers -> WorkerSteps] /\ wend \in [Workers -> Ends]
      /\ status \in [Rows -> OutboxStatus \cup {Absent}]
      /\ attempts \in [Rows -> Nat] /\ receipts \in [Rows -> Nat]
  BY DEF TypeInv, RowsTyped, EnvironmentTyped, WorkersOK, WorkersTyped
<1>3. Holds(w, r)
  BY <1>1 DEF Holds
<1>4. Target(w) = "sent" <=> receipts[r] > 0
  BY <1>1, <1>3 DEF TakenInv, OwnersKnow, Target
<1>5. TakenRows'
  BY <1>1, <1>2, <1>4 DEF TakenInv, TakenRows, Absent
<1>55. /\ wpc'[w] \in {"idle", "fallback"}
       /\ \A v \in Workers \ {w} :
             wpc'[v] = wpc[v] /\ wrow'[v] = wrow[v] /\ wend'[v] = wend[v]
  BY <1>2 DEF SaveOutcome, Goto, Idle, TypeInv, WorkersOK, WorkersTyped
<1>6. \A v \in Workers, q \in Rows : Holds(v, q)' =>
         Holds(v, q) /\ wpc'[v] = wpc[v] /\ wend'[v] = wend[v]
  BY <1>55 DEF Holds
<1>7. OwnersKnow'
  BY <1>1, <1>6 DEF TakenInv, OwnersKnow
<1> QED
  BY <1>4, <1>5, <1>7 DEF TakenInv

LEMMA TakenStep ==
  ASSUME MaySlow = FALSE, Operators = {}, "ambiguous_send" \notin FaultKinds
  PROVE  TypeInv /\ OwnerInv /\ OwnerInv' /\ LoneInv /\ TakenInv /\ [Next]_vars => TakenInv'
<1> SUFFICES ASSUME TypeInv, OwnerInv, OwnerInv', LoneInv, TakenInv, [Next]_vars
             PROVE  TakenInv'
  OBVIOUS
<1> USE DEF rowVars, ledgerVars, workVars, sendVars
<1>0. /\ status \in [Rows -> OutboxStatus \cup {Absent}]
      /\ wpc \in [Workers -> WorkerSteps] /\ wend \in [Workers -> Ends]
      /\ wrow \in [Workers -> Rows \cup {NoRow}]
      /\ \A w \in Workers : wpc[w] # "idle" => wrow[w] \in Rows
      /\ \A d \in Dispatchers : dpc[d] # "idle" => drow[d] \in Rows
  BY DEF TypeInv, RowsTyped, WorkersOK, WorkersTyped, WorkersReady, DispatchersOK,
     DispatchersReady
<1>1. ASSUME UNCHANGED <<attempts, created, receipts>>, RowsSayNoMore, OwnersStay PROVE TakenInv'
  BY <1>1, TakenFrame
<1>2. UNCHANGED status => RowsSayNoMore
  BY DEF RowsSayNoMore
<1>3. UNCHANGED workVars => OwnersStay
  BY DEF OwnersStay, Holds
<1>4. ASSUME NEW w \in Workers, Idle(w) PROVE OwnersStay
  BY <1>0, <1>4 DEF Idle, OwnersStay, Holds
<1>5. ASSUME NEW r \in Rows, CreateOutbox(r) PROVE TakenInv'
  <2>1. RowsSayNoMore
    BY <1>0, <1>5 DEF CreateOutbox, RowsSayNoMore, Absent
  <2> QED
    BY <1>1, <1>3, <1>5, <2>1 DEF CreateOutbox
<1>6. ASSUME NEW r \in Rows, Clock(r) PROVE TakenInv'
  BY <1>1, <1>2, <1>3, <1>6 DEF Clock, BecomeDue, BackoffElapses, TimeoutPasses
<1>7. ASSUME NEW d \in Dispatchers, ClaimDispatch(d) PROVE TakenInv'
  <2>1. RowsSayNoMore
    BY <1>0, <1>7 DEF ClaimDispatch, Dispatchable, RowsSayNoMore, Absent
  <2> QED
    BY <1>1, <1>3, <1>7, <2>1 DEF ClaimDispatch
<1>8. ASSUME NEW d \in Dispatchers, CloseDispatch(d) PROVE TakenInv'
  <2>1. RowsSayNoMore
    BY <1>0, <1>8 DEF CloseDispatch, Closed, Closing, RowsSayNoMore, Absent
  <2> QED
    BY <1>1, <1>3, <1>8, <2>1 DEF CloseDispatch
<1>9. ASSUME NEW d \in Dispatchers,
             SelectBatch(d) \/ Enqueue(d) \/ EnqueueRaises(d) \/ \E r \in Rows : RunCallback(d, r)
      PROVE  TakenInv'
  BY <1>1, <1>2, <1>3, <1>9 DEF SelectBatch, RunCallback, Enqueue, EnqueueRaises
<1>10. ASSUME NEW w \in Workers, NEW r \in Rows, Receive(w, r) PROVE TakenInv'
  <2>1. OwnersStay
    BY <1>0, <1>10 DEF Receive, OwnersStay, Holds
  <2> QED
    BY <1>1, <1>2, <1>10, <2>1 DEF Receive
<1>11. ASSUME NEW w \in Workers, ClaimProcessing(w) PROVE TakenInv'
  <2>1. OwnersStay
    BY <1>0, <1>4, <1>11 DEF ClaimProcessing, Goto, OwnersStay, Holds
  <2>2. RowsSayNoMore
    BY <1>0, <1>11 DEF ClaimProcessing, ClaimWins, Claimable, RowsSayNoMore, Absent
  <2> QED
    BY <1>1, <1>11, <2>1, <2>2 DEF ClaimProcessing
<1>12. ASSUME NEW w \in Workers, RefreshRow(w) PROVE TakenInv'
  <2>1. OwnersStay
    BY <1>0, <1>12 DEF RefreshRow, OwnersStay, Holds
  <2> QED
    BY <1>1, <1>2, <1>12, <2>1 DEF RefreshRow
<1>13. ASSUME NEW w \in Workers, OpenAttempt(w) PROVE TakenInv'
  BY <1>1, <1>2, <1>4, <1>13, OpenKeepsTaken DEF OpenAttempt
<1>14. ASSUME NEW w \in Workers, RejectRow(w) PROVE TakenInv'
  <2>1. OwnersStay
    BY <1>0, <1>14 DEF RejectRow, Goto, OwnersStay, Holds
  <2> QED
    BY <1>1, <1>2, <1>14, <2>1 DEF RejectRow
<1>15. ASSUME NEW w \in Workers, SendAccepted(w) PROVE TakenInv'
  BY <1>15, SendKeepsTaken DEF SendAccepted, Ends
<1>16. ASSUME NEW w \in Workers, SendTemporaryError(w) \/ SendPermanentError(w)
       PROVE  TakenInv'
  BY <1>16, SendKeepsTaken DEF SendTemporaryError, SendPermanentError, Fault, Ends
<1>17. ASSUME NEW w \in Workers, FinishAttempt(w) PROVE TakenInv'
  <2>1. OwnersStay
    BY <1>0, <1>17 DEF FinishAttempt, Goto, OwnersStay, Holds
  <2> QED
    BY <1>1, <1>2, <1>17, <2>1 DEF FinishAttempt
<1>18. ASSUME NEW w \in Workers, SaveOutcome(w) PROVE TakenInv'
  BY <1>18, SaveKeepsTaken
<1>19. ASSUME NEW w \in Workers, CreateFallback(w) PROVE TakenInv'
  <2>1. RowsSayNoMore
    BY <1>0, <1>19 DEF CreateFallback, RowsSayNoMore, Absent
  <2> QED
    BY <1>1, <1>4, <1>19, <2>1 DEF CreateFallback
<1>20. CASE RecoverStuck
  <2>1. RowsSayNoMore
    BY <1>0, <1>20 DEF RecoverStuck, Recovered, RowsSayNoMore, Absent
  <2> QED
    BY <1>1, <1>3, <1>20, <2>1 DEF RecoverStuck
<1>21. CASE Failures
  BY <1>1, <1>2, <1>3, <1>4, <1>21 DEF Failures, LoseMessage, DuplicateMessage, LoseCallback,
     CrashDispatcher, CrashWorker
<1>22. CASE UNCHANGED vars
  BY <1>1, <1>2, <1>3, <1>22 DEF vars
<1> QED
  BY <1>5, <1>6, <1>7, <1>8, <1>9, <1>10, <1>11, <1>12, <1>13, <1>14, <1>15, <1>16, <1>17,
     <1>18, <1>19, <1>20, <1>21, <1>22 DEF Next, WorkerStep, DispatcherStep

LEMMA Honest ==
  ASSUME MaySlow = FALSE, Operators = {}, "ambiguous_send" \notin FaultKinds
  PROVE  Spec => [](TypeInv /\ OwnerInv /\ LoneInv /\ TakenInv)
  BY Alone, TakenInit, TakenStep, PTL DEF Spec

(* With a provider that raises only when it did not take the notification, *)
(* no crash, duplicate, lost message or recovery delivers a row twice.     *)
THEOREM DeliveredAtMostOnce ==
  ASSUME MaySlow = FALSE, Operators = {}, "ambiguous_send" \notin FaultKinds
  PROVE  Spec => []DeliveredOnce
<1>1. TakenInv => DeliveredOnce
  BY DEF TakenInv, TakenRows, DeliveredOnce
<1> QED
  BY <1>1, Honest, PTL

(* What a step can make appear: the row an event creates, or the fallback  *)
(* of a row that a worker has failed.                                      *)
LEMMA RowsAppear ==
  ASSUME Operators = {}, TypeInv, LoneInv, [Next]_vars, NEW f \in Rows, status[f] = Absent, status'[f] # Absent
  PROVE  \/ ~IsFallback(f)
         \/ \E w \in Workers : /\ wpc[w] = "fallback" /\ wrow[w] \in Rows
                               /\ Fallback[wrow[w]] = f
<1> USE DEF rowVars
<1>0. /\ status \in [Rows -> OutboxStatus \cup {Absent}]
      /\ \A w \in Workers : wpc[w] # "idle" => wrow[w] \in Rows
      /\ \A d \in Dispatchers : dpc[d] # "idle" => drow[d] \in Rows
      /\ \A w \in Workers : wpc[w] = "fallback" => status[wrow[w]] = "failed"
  BY DEF TypeInv, RowsTyped, WorkersOK, WorkersReady, DispatchersOK, DispatchersReady, LoneInv,
     FailedFirst
<1>1. ASSUME NEW r \in Rows, CreateOutbox(r) PROVE ~IsFallback(f)
  BY <1>0, <1>1 DEF CreateOutbox
<1>2. ASSUME NEW w \in Workers, CreateFallback(w)
      PROVE  wpc[w] = "fallback" /\ wrow[w] \in Rows /\ Fallback[wrow[w]] = f
  BY <1>0, <1>2 DEF CreateFallback
<1>3. ASSUME UNCHANGED status PROVE FALSE
  BY <1>3
<1>4. ASSUME NEW d \in Dispatchers,
             SelectBatch(d) \/ DispatcherStep(d) \/ \E r \in Rows : RunCallback(d, r)
      PROVE  FALSE
  <2>1. ASSUME ClaimDispatch(d) PROVE FALSE
    BY <1>0, <2>1 DEF ClaimDispatch, Dispatchable, Absent
  <2>2. ASSUME CloseDispatch(d) PROVE FALSE
    BY <1>0, <2>2 DEF CloseDispatch, Closed, Absent
  <2> QED
    BY <1>3, <1>4, <2>1, <2>2 DEF SelectBatch, DispatcherStep, RunCallback, Enqueue,
       EnqueueRaises
<1>5. ASSUME NEW w \in Workers, WorkerStep(w) \/ \E r \in Rows : Receive(w, r),
             ~CreateFallback(w)
      PROVE  FALSE
  <2>1. ASSUME ClaimProcessing(w) PROVE FALSE
    BY <1>0, <2>1 DEF ClaimProcessing, ClaimWins, Claimable, Absent
  <2>2. ASSUME SaveOutcome(w) PROVE FALSE
    BY <1>0, <2>2, LoneSave DEF Absent
  <2> QED
    BY <1>3, <1>5, <2>1, <2>2 DEF WorkerStep, Receive, RefreshRow, OpenAttempt, RejectRow,
       SendAccepted, SendTemporaryError, SendPermanentError, Send, FinishAttempt
<1>6. ASSUME RecoverStuck PROVE FALSE
  BY <1>0, <1>6 DEF RecoverStuck, Recovered, Absent
<1>7. ASSUME NEW r \in Rows, Clock(r) PROVE FALSE
  BY <1>3, <1>7 DEF Clock, BecomeDue, BackoffElapses, TimeoutPasses
<1>8. ASSUME Failures PROVE FALSE
  BY <1>3, <1>8 DEF Failures, LoseMessage, DuplicateMessage, LoseCallback, CrashDispatcher,
     CrashWorker
<1>9. ASSUME UNCHANGED vars PROVE FALSE
  BY <1>3, <1>9 DEF vars
<1> QED
  BY <1>1, <1>2, <1>4, <1>5, <1>6, <1>7, <1>8, <1>9 DEF Next

(* A fallback appears only after its own primary has failed, and then the  *)
(* provider has not taken the primary.                                     *)
THEOREM FallbackIsEarned ==
  ASSUME MaySlow = FALSE, Operators = {}, "ambiguous_send" \notin FaultKinds
  PROVE  Spec => FallbackAfterFailure
<1>1. TypeInv /\ LoneInv /\ TakenInv /\ [Next]_vars
        => [\A r \in Rows : Fallback[r] # NoRow =>
               (status[Fallback[r]] = Absent /\ status'[Fallback[r]] # Absent
                  => status[r] = "failed" /\ receipts[r] = 0)]_vars
  <2> SUFFICES ASSUME TypeInv, LoneInv, TakenInv, [Next]_vars,
                      NEW r \in Rows, Fallback[r] # NoRow,
                      status[Fallback[r]] = Absent, status'[Fallback[r]] # Absent
               PROVE  status[r] = "failed" /\ receipts[r] = 0
    OBVIOUS
  <2>1. Fallback[r] \in Rows /\ IsFallback(Fallback[r])
    BY ConstantsAssumption DEF IsFallback
  <2>2. PICK w \in Workers : wpc[w] = "fallback" /\ wrow[w] \in Rows
                             /\ Fallback[wrow[w]] = Fallback[r]
    BY <2>1, RowsAppear
  <2>3. wrow[w] = r
    BY <2>2, FallbackAssumption
  <2> QED
    BY <2>2, <2>3 DEF LoneInv, FailedFirst, TakenInv, TakenRows
<1> QED
  BY <1>1, Honest, PTL DEF Spec, FallbackAfterFailure

-----------------------------------------------------------------------------
(* What a failed row leaves behind, whoever else is at work on it.         *)

(* Until its worker has run create_fallback_outbox, a failed row without   *)
(* its fallback still has that worker.                                     *)
FallbackDue ==
    \A r \in Rows : status[r] = "failed" /\ Fallback[r] # NoRow =>
        \/ \E w \in Workers : wpc[w] = "fallback" /\ wrow[w] = r
        \/ status[Fallback[r]] # Absent

LEMMA FallbackInit == Init => FallbackDue
  BY DEF Init, FallbackDue, Absent

(* A row that exists goes on existing; a row fails only by the hand of a   *)
(* worker, who goes on to its fallback, and who leaves only after that.    *)
LEMMA FailedRows ==
  ASSUME TypeInv, [Next]_vars
  PROVE  /\ \A q \in Rows : status[q] # Absent => status'[q] # Absent
         /\ \A r \in Rows : status'[r] = "failed" =>
               \/ status[r] = "failed"
               \/ \E w \in Workers : wpc'[w] = "fallback" /\ wrow'[w] = r
<1> DEFINE P == /\ \A q \in Rows : status[q] # Absent => status'[q] # Absent
                /\ \A r \in Rows : status'[r] = "failed" => status[r] = "failed"
<1> USE DEF rowVars
<1>0. /\ status \in [Rows -> OutboxStatus \cup {Absent}]
      /\ wpc \in [Workers -> WorkerSteps]
  BY DEF TypeInv, RowsTyped, WorkersOK, WorkersTyped
<1>1. CASE UNCHANGED status
  BY <1>1
<1>2. ASSUME NEW r \in Rows, CreateOutbox(r) \/ Clock(r) PROVE P
  BY <1>0, <1>2 DEF CreateOutbox, Clock, BecomeDue, BackoffElapses, TimeoutPasses, Absent
<1>3. ASSUME NEW d \in Dispatchers,
             SelectBatch(d) \/ DispatcherStep(d) \/ \E r \in Rows : RunCallback(d, r)
      PROVE  P
  <2>1. CASE ClaimDispatch(d)
    BY <1>0, <2>1 DEF ClaimDispatch, Absent
  <2>2. CASE CloseDispatch(d)
    BY <1>0, <2>2 DEF CloseDispatch, Closed, Closing, Absent
  <2> QED
    BY <1>1, <1>3, <2>1, <2>2 DEF SelectBatch, DispatcherStep, RunCallback, Enqueue,
       EnqueueRaises
<1>4. ASSUME NEW w \in Workers, ClaimProcessing(w) \/ CreateFallback(w) PROVE P
  BY <1>0, <1>4 DEF ClaimProcessing, CreateFallback, Absent
<1>5. ASSUME NEW w \in Workers, SaveOutcome(w), ~UNCHANGED status
      PROVE  /\ \A q \in Rows : status[q] # Absent => status'[q] # Absent
             /\ \A r \in Rows : status'[r] = "failed" =>
                   status[r] = "failed" \/ (wpc'[w] = "fallback" /\ wrow'[w] = r)
  <2>1. /\ status' = [status EXCEPT ![wrow[w]] = Target(w)]
        /\ Target(w) \in {"sent", "retry", "failed"}
        /\ Target(w) = "failed" => Goto(w, "fallback")
    BY <1>5, OutcomeTyped DEF SaveOutcome, FallsBack, TypeInv
  <2>2. Target(w) = "failed" => wpc'[w] = "fallback" /\ wrow'[w] = wrow[w]
    BY <1>0, <2>1 DEF Goto
  <2>3. \A q \in Rows : status'[q] = status[q] \/ (q = wrow[w] /\ status'[q] = Target(w))
    BY <1>0, <2>1
  <2> QED
    BY <2>1, <2>2, <2>3 DEF Absent
<1>6. ASSUME NEW w \in Workers, WorkerStep(w) \/ \E r \in Rows : Receive(w, r)
      PROVE  UNCHANGED status \/ ClaimProcessing(w) \/ SaveOutcome(w) \/ CreateFallback(w)
  BY <1>6 DEF WorkerStep, Receive, RefreshRow, OpenAttempt, RejectRow, SendAccepted,
     SendTemporaryError, SendPermanentError, Send, FinishAttempt
<1>7. CASE RecoverStuck
  BY <1>0, <1>7 DEF RecoverStuck, Recovered, Absent
<1>8. ASSUME NEW o \in Operators, OperatorStep(o) PROVE P
  BY <1>0, <1>8 DEF OperatorStep, RequestRetry, SaveManualRetry, RequestCancel, SaveCancel,
     Absent
<1>9. CASE Failures
  BY <1>1, <1>9 DEF Failures, LoseMessage, DuplicateMessage, LoseCallback, CrashDispatcher,
     CrashWorker
<1>10. CASE UNCHANGED vars
  BY <1>1, <1>10 DEF vars
<1> QED
  BY <1>1, <1>2, <1>3, <1>4, <1>5, <1>6, <1>7, <1>8, <1>9, <1>10 DEF Next

LEMMA FallbackPending ==
  ASSUME "fallback" \notin CrashPoints, TypeInv, [Next]_vars,
         NEW w \in Workers, wpc[w] = "fallback"
  PROVE  CreateFallback(w) \/ (wpc'[w] = "fallback" /\ wrow'[w] = wrow[w])
<1> USE DEF workVars
<1>0. wpc \in [Workers -> WorkerSteps] /\ wrow \in [Workers -> Rows \cup {NoRow}]
  BY DEF TypeInv, WorkersOK, WorkersTyped
<1>1. CASE UNCHANGED workVars
  BY <1>1
<1>2. ASSUME NEW v \in Workers, WorkerStep(v) \/ \E r \in Rows : Receive(v, r),
             ~CreateFallback(w)
      PROVE  wpc'[w] = "fallback" /\ wrow'[w] = wrow[w]
  BY <1>0, <1>2 DEF WorkerStep, Receive, ClaimProcessing, RefreshRow, OpenAttempt, RejectRow,
     SendAccepted, SendTemporaryError, SendPermanentError, Send, FinishAttempt, SaveOutcome,
     CreateFallback, Goto, Idle
<1>3. ASSUME NEW d \in Dispatchers,
             SelectBatch(d) \/ DispatcherStep(d) \/ \E r \in Rows : RunCallback(d, r)
      PROVE  UNCHANGED workVars
  BY <1>3 DEF SelectBatch, DispatcherStep, RunCallback, ClaimDispatch, Enqueue,
     EnqueueRaises, CloseDispatch
<1>4. ASSUME NEW r \in Rows, CreateOutbox(r) \/ Clock(r) PROVE UNCHANGED workVars
  BY <1>4 DEF CreateOutbox, Clock, BecomeDue, BackoffElapses, TimeoutPasses
<1>5. ASSUME NEW o \in Operators, OperatorStep(o) PROVE UNCHANGED workVars
  BY <1>5 DEF OperatorStep, RequestRetry, SaveManualRetry, RequestCancel, SaveCancel
<1>6. CASE Failures
  BY <1>0, <1>6 DEF Failures, LoseMessage, DuplicateMessage, LoseCallback, CrashDispatcher,
     CrashWorker, Idle
<1> QED
  BY <1>1, <1>2, <1>3, <1>4, <1>5, <1>6 DEF Next, RecoverStuck, vars

LEMMA FallbackStep ==
  ASSUME "fallback" \notin CrashPoints
  PROVE  TypeInv /\ FallbackDue /\ [Next]_vars => FallbackDue'
<1> SUFFICES ASSUME TypeInv, FallbackDue, [Next]_vars,
                    NEW r \in Rows, status'[r] = "failed", Fallback[r] # NoRow
             PROVE  \/ \E w \in Workers : wpc'[w] = "fallback" /\ wrow'[w] = r
                    \/ status'[Fallback[r]] # Absent
  BY DEF FallbackDue
<1>1. Fallback[r] \in Rows /\ status \in [Rows -> OutboxStatus \cup {Absent}]
  BY ConstantsAssumption DEF TypeInv, RowsTyped
<1>2. CASE status[r] # "failed"
  BY <1>2, FailedRows
<1>3. CASE status[Fallback[r]] # Absent
  BY <1>1, <1>3, FailedRows
<1>4. ASSUME NEW w \in Workers, wpc[w] = "fallback", wrow[w] = r, status[Fallback[r]] = Absent
      PROVE  \/ wpc'[w] = "fallback" /\ wrow'[w] = r
             \/ status'[Fallback[r]] # Absent
  <2>1. CASE CreateFallback(w)
    BY <1>1, <1>4, <2>1 DEF CreateFallback, Absent
  <2> QED
    BY <1>4, <2>1, FallbackPending
<1> QED
  BY <1>2, <1>3, <1>4 DEF FallbackDue

(* Whatever operators, recoveries and slow workers do meanwhile, a row     *)
(* that failed for good has its fallback once its worker is done with it,  *)
(* as long as no worker dies between the save and create_fallback_outbox.  *)
THEOREM FailedRowsHaveFallback ==
  ASSUME "fallback" \notin CrashPoints
  PROVE  Spec => []FailureHasFallback
<1>1. FallbackDue => FailureHasFallback
  BY DEF FallbackDue, FailureHasFallback
<1> QED
  BY <1>1, TypeInit, TypeStep, FallbackInit, FallbackStep, PTL DEF Spec

-----------------------------------------------------------------------------
(* A row in `queued` and the message that will take it out.                *)

(* A dispatcher that has enqueued a row and not marked it yet still has    *)
(* the message in the broker.                                              *)
MarkedHasMessage == \A d \in Dispatchers : dpc[d] = "mark" => queue[drow[d]] > 0

MessageInv == MarkedHasMessage /\ QueuedHasMessage

LoadedOn(w, r) == wpc[w] = "loaded" /\ wrow[w] = r

LEMMA MessageInit == Init => MessageInv
  BY DEF Init, MessageInv, MarkedHasMessage, QueuedHasMessage, Absent

(* A step that marks no dispatcher, queues no row, takes no message and    *)
(* takes no worker off a row it has loaded.                                *)
LEMMA MessageFrame ==
  ASSUME TypeInv, MessageInv,
         \A d \in Dispatchers : dpc'[d] = "mark" => dpc[d] = "mark" /\ drow'[d] = drow[d],
         \A r \in Rows : status'[r] = "queued" => status[r] = "queued",
         \A r \in Rows : queue[r] > 0 => queue'[r] > 0,
         \A w \in Workers, r \in Rows :
            LoadedOn(w, r) => LoadedOn(w, r)' \/ status'[r] # "queued"
  PROVE  MessageInv'
<1>1. MarkedHasMessage'
  BY DEF MessageInv, MarkedHasMessage, TypeInv, DispatchersOK, DispatchersReady
<1>2. QueuedHasMessage'
  BY DEF MessageInv, QueuedHasMessage, LoadedOn
<1> QED
  BY <1>1, <1>2 DEF MessageInv

LEMMA MessageStep ==
  ASSUME "loss" \notin FaultKinds, EagerWorkers = FALSE, "loaded" \notin CrashPoints
  PROVE  TypeInv /\ MessageInv /\ [Next]_vars => MessageInv'
<1> SUFFICES ASSUME TypeInv, MessageInv, [Next]_vars PROVE MessageInv'
  OBVIOUS
<1> USE DEF rowVars, workVars, dispVars
<1>0. /\ status \in [Rows -> OutboxStatus \cup {Absent}]
      /\ queue \in [Rows -> Nat]
      /\ wpc \in [Workers -> WorkerSteps] /\ wrow \in [Workers -> Rows \cup {NoRow}]
      /\ \A w \in Workers : wpc[w] # "idle" => wrow[w] \in Rows
      /\ dpc \in [Dispatchers -> DispatcherSteps] /\ drow \in [Dispatchers -> Rows \cup {NoRow}]
      /\ \A d \in Dispatchers : dpc[d] # "idle" => drow[d] \in Rows
  BY DEF TypeInv, RowsTyped, EnvironmentTyped, WorkersOK, WorkersTyped, WorkersReady,
     DispatchersOK, DispatchersTyped, DispatchersReady
<1>1. ASSUME UNCHANGED <<dispVars, workVars>>,
             \A r \in Rows : status'[r] = "queued" => status[r] = "queued",
             \A r \in Rows : queue[r] > 0 => queue'[r] > 0
      PROVE  MessageInv'
  BY <1>1, MessageFrame DEF LoadedOn
<1>2. ASSUME NEW d \in Dispatchers, NEW r \in Rows, NEW S, Ready(d, r, S),
             UNCHANGED <<status, queue, workVars>>
      PROVE  MessageInv'
  BY <1>0, <1>2, MessageFrame DEF Ready, LoadedOn
<1>3. ASSUME NEW d \in Dispatchers, Proceed(d)
      PROVE  \A e \in Dispatchers : dpc'[e] = "mark" => dpc[e] = "mark" /\ drow'[e] = drow[e]
  BY <1>0, <1>3 DEF Proceed, StartFirst, Ready
<1>4. ASSUME NEW r \in Rows, CreateOutbox(r) \/ Clock(r) PROVE MessageInv'
  BY <1>0, <1>1, <1>4 DEF CreateOutbox, Clock, BecomeDue, BackoffElapses, TimeoutPasses
<1>5. ASSUME NEW d \in Dispatchers, SelectBatch(d) \/ \E r \in Rows : RunCallback(d, r)
      PROVE  MessageInv'
  BY <1>2, <1>5 DEF SelectBatch, RunCallback, StartFirst, Least, Eligible
<1>6. ASSUME NEW d \in Dispatchers, ClaimDispatch(d) PROVE MessageInv'
  <2>1. \A e \in Dispatchers : dpc'[e] = "mark" => dpc[e] = "mark" /\ drow'[e] = drow[e]
    BY <1>0, <1>3, <1>6 DEF ClaimDispatch
  <2>2. \A r \in Rows : status'[r] = "queued" => status[r] = "queued"
    BY <1>0, <1>6 DEF ClaimDispatch
  <2> QED
    BY <1>6, <2>1, <2>2, MessageFrame DEF ClaimDispatch, LoadedOn
<1>7. ASSUME NEW d \in Dispatchers, Enqueue(d) PROVE MessageInv'
  <2>1. /\ drow[d] \in Rows /\ queue'[drow[d]] > 0
        /\ \A r \in Rows : queue[r] > 0 => queue'[r] > 0
    BY <1>0, <1>7 DEF Enqueue
  <2>2. MarkedHasMessage'
    BY <1>0, <1>7, <2>1 DEF Enqueue, MessageInv, MarkedHasMessage
  <2>3. QueuedHasMessage'
    BY <1>7, <2>1 DEF Enqueue, MessageInv, QueuedHasMessage
  <2> QED
    BY <2>2, <2>3 DEF MessageInv
<1>8. ASSUME NEW d \in Dispatchers, EnqueueRaises(d) PROVE MessageInv'
  <2>1. \A r \in Rows : queue[r] > 0 => queue'[r] > 0
    BY <1>0, <1>8 DEF EnqueueRaises
  <2>2. \A e \in Dispatchers : dpc'[e] = "mark" => dpc[e] = "mark" /\ drow'[e] = drow[e]
    BY <1>0, <1>8 DEF EnqueueRaises
  <2> QED
    BY <1>8, <2>1, <2>2, MessageFrame DEF EnqueueRaises, LoadedOn
<1>9. ASSUME NEW d \in Dispatchers, CloseDispatch(d) PROVE MessageInv'
  <2>1. \A e \in Dispatchers : dpc'[e] = "mark" => dpc[e] = "mark" /\ drow'[e] = drow[e]
    BY <1>3, <1>9 DEF CloseDispatch
  <2>2. MarkedHasMessage'
    BY <1>0, <1>9, <2>1 DEF CloseDispatch, MessageInv, MarkedHasMessage
  <2>3. ASSUME NEW r \in Rows, status'[r] = "queued", status[r] # "queued" PROVE queue[r] > 0
    <3>1. r = drow[d] /\ dpc[d] = "mark"
      BY <1>0, <1>9, <2>3 DEF CloseDispatch, Closed, Closing
    <3> QED
      BY <3>1 DEF MessageInv, MarkedHasMessage
  <2>4. QueuedHasMessage'
    BY <1>9, <2>3 DEF CloseDispatch, MessageInv, QueuedHasMessage
  <2> QED
    BY <2>2, <2>4 DEF MessageInv
<1>10. ASSUME NEW w \in Workers, NEW r \in Rows, Receive(w, r) PROVE MessageInv'
  <2>1. MarkedHasMessage'
    BY <1>0, <1>10 DEF Receive, MessageInv, MarkedHasMessage
  <2>2. ASSUME NEW q \in Rows, status'[q] = "queued"
        PROVE  queue'[q] > 0 \/ \E v \in Workers : LoadedOn(v, q)'
    <3>1. status[q] = "queued" /\ (queue[q] > 0 \/ \E v \in Workers : LoadedOn(v, q))
      BY <1>10, <2>2 DEF Receive, MessageInv, QueuedHasMessage, LoadedOn
    <3>2. \A v \in Workers : LoadedOn(v, q) => LoadedOn(v, q)'
      BY <1>0, <1>10 DEF Receive, LoadedOn
    <3>3. CASE q # r
      BY <1>0, <1>10, <3>1, <3>2, <3>3 DEF Receive
    <3>4. CASE q = r
      <4>1. LoadedOn(w, r)'
        BY <1>0, <1>10, <3>1, <3>4 DEF Receive, LoadedOn, Delivered, Absent
      <4> QED
        BY <3>4, <4>1
    <3> QED
      BY <3>3, <3>4
  <2>3. QueuedHasMessage'
    BY <2>2 DEF QueuedHasMessage, LoadedOn
  <2> QED
    BY <2>1, <2>3 DEF MessageInv
<1>11. ASSUME NEW w \in Workers, ClaimProcessing(w) PROVE MessageInv'
  <2>1. \A r \in Rows : status'[r] = "queued" => status[r] = "queued"
    BY <1>0, <1>11 DEF ClaimProcessing
  <2>2. \A v \in Workers, r \in Rows :
           LoadedOn(v, r) => LoadedOn(v, r)' \/ status'[r] # "queued"
    BY <1>0, <1>11 DEF ClaimProcessing, ClaimWins, Claimable, LoadedOn, Goto, Idle
  <2> QED
    BY <1>11, <2>1, <2>2, MessageFrame DEF ClaimProcessing
<1>12. ASSUME NEW w \in Workers, WorkerStep(w), ~ClaimProcessing(w) PROVE MessageInv'
  <2>1. \A v \in Workers, r \in Rows : LoadedOn(v, r) => LoadedOn(v, r)'
    BY <1>0, <1>12 DEF WorkerStep, RefreshRow, OpenAttempt, RejectRow, SendAccepted,
       SendTemporaryError, SendPermanentError, Send, FinishAttempt, SaveOutcome,
       CreateFallback, LoadedOn, Goto, Idle
  <2>2. UNCHANGED <<queue, dispVars>>
    BY <1>12 DEF WorkerStep, RefreshRow, OpenAttempt, RejectRow, SendAccepted,
       SendTemporaryError, SendPermanentError, Send, FinishAttempt, SaveOutcome, CreateFallback
  <2>3. CASE SaveOutcome(w)
    <3>1. wpc[w] = "save" => Target(w) # "queued"
      BY OutcomeTyped DEF TypeInv
    <3>2. \A r \in Rows : status'[r] = "queued" => status[r] = "queued"
      BY <1>0, <2>3, <3>1 DEF SaveOutcome
    <3> QED
      BY <2>1, <2>2, <3>2, MessageFrame
  <2>4. CASE CreateFallback(w)
    <3>1. \A r \in Rows : status'[r] = "queued" => status[r] = "queued"
      BY <1>0, <2>4 DEF CreateFallback
    <3> QED
      BY <2>1, <2>2, <3>1, MessageFrame
  <2>5. CASE UNCHANGED status
    BY <2>1, <2>2, <2>5, MessageFrame
  <2> QED
    BY <1>12, <2>3, <2>4, <2>5 DEF WorkerStep, RefreshRow, OpenAttempt, RejectRow, SendAccepted,
       SendTemporaryError, SendPermanentError, Send, FinishAttempt
<1>13. CASE RecoverStuck
  BY <1>0, <1>1, <1>13 DEF RecoverStuck, Recovered
<1>14. ASSUME NEW o \in Operators, OperatorStep(o) PROVE MessageInv'
  BY <1>0, <1>1, <1>14 DEF OperatorStep, RequestRetry, SaveManualRetry, RequestCancel, SaveCancel
<1>15. ASSUME NEW r \in Rows, LoseMessage(r) \/ DuplicateMessage(r) \/ LoseCallback(r)
       PROVE  MessageInv'
  BY <1>0, <1>1, <1>15 DEF LoseMessage, DuplicateMessage, LoseCallback, Fault
<1>16. ASSUME NEW d \in Dispatchers, CrashDispatcher(d) PROVE MessageInv'
  BY <1>0, <1>16, MessageFrame DEF CrashDispatcher, LoadedOn
<1>17. ASSUME NEW w \in Workers, CrashWorker(w) PROVE MessageInv'
  <2>1. \A v \in Workers, r \in Rows : LoadedOn(v, r) => LoadedOn(v, r)'
    BY <1>0, <1>17 DEF CrashWorker, LoadedOn, Idle
  <2> QED
    BY <1>17, <2>1, MessageFrame DEF CrashWorker
<1>18. CASE UNCHANGED vars
  BY <1>1, <1>18 DEF vars
<1> QED
  BY <1>4, <1>5, <1>6, <1>7, <1>8, <1>9, <1>10, <1>11, <1>12, <1>13, <1>14, <1>15, <1>16,
     <1>17, <1>18 DEF Next, DispatcherStep, Failures

(* With a broker that loses nothing, workers that start a task only once   *)
(* delay() has returned and none that dies with a message in hand, a       *)
(* queued row has its message, slow processes and operators or not.        *)
THEOREM QueuedRowsHaveMessage ==
  ASSUME "loss" \notin FaultKinds, EagerWorkers = FALSE, "loaded" \notin CrashPoints
  PROVE  Spec => []QueuedHasMessage
<1>1. MessageInv => QueuedHasMessage
  BY DEF MessageInv
<1> QED
  BY <1>1, TypeInit, TypeStep, MessageInit, MessageStep, PTL DEF Spec

-----------------------------------------------------------------------------
(* The number a row's next attempt will take.                              *)

(* Only a failed row, or one that a worker owns, has a record of the       *)
(* attempt after its counter.                                              *)
UsedNumberIsHeld ==
    \A r \in Rows : attempts[r] + 1 \in created[r] =>
        status[r] = "failed" \/ \E w \in Workers : Holds(w, r)

LEMMA HeldInit == Init => UsedNumberIsHeld
  BY DEF Init, UsedNumberIsHeld

LEMMA HeldFrame ==
  ASSUME UsedNumberIsHeld, UNCHANGED <<attempts, created>>, SettledRowsKept,
         \A w \in Workers, r \in Rows : Holds(w, r) => Holds(w, r)'
  PROVE  UsedNumberIsHeld'
  BY DEF UsedNumberIsHeld, SettledRowsKept, Settled

LEMMA SaveKeepsHeld ==
  ASSUME TypeInv, OwnerInv, LoneInv, UsedNumberIsHeld, NEW w \in Workers, SaveOutcome(w)
  PROVE  UsedNumberIsHeld'
<1> DEFINE r == wrow[w]
<1>1. /\ r \in Rows /\ wpc[w] = "save" /\ UNCHANGED created
      /\ status' = [status EXCEPT ![r] = Target(w)]
      /\ attempts' = [attempts EXCEPT ![r] = SavedAttempts(w)]
  BY LoneSave DEF SaveOutcome, ledgerVars
<1>2. /\ status \in [Rows -> OutboxStatus \cup {Absent}] /\ attempts \in [Rows -> Nat]
      /\ wnum[w] \in Nat /\ wpc \in [Workers -> WorkerSteps]
  BY DEF TypeInv, RowsTyped, WorkersOK, WorkersTyped
<1>3. created[r] = 1 .. wnum[w]
  BY <1>1, SaveMoves
<1>4. ASSUME NEW q \in Rows, attempts'[q] + 1 \in created'[q], status'[q] # "failed"
      PROVE  \E v \in Workers : Holds(v, q)'
  <2>1. CASE q = r
    <3>1. wend[w] # "rejected"
      BY <1>1, <1>2, <1>4, <2>1 DEF Target
    <3>2. attempts'[q] = wnum[w]
      BY <1>1, <1>2, <2>1, <3>1 DEF SavedAttempts
    <3> QED
      BY <1>1, <1>2, <1>3, <1>4, <2>1, <3>2
  <2>2. CASE q # r
    <3>1. PICK v \in Workers : Holds(v, q)
      BY <1>1, <1>2, <1>4, <2>2 DEF UsedNumberIsHeld
    <3>2. v # w
      BY <2>2, <3>1 DEF Holds
    <3>3. wpc'[v] = wpc[v] /\ wrow'[v] = wrow[v]
      BY <3>2, LoneSave DEF Goto, Idle, TypeInv, WorkersOK, WorkersTyped
    <3> QED
      BY <3>1, <3>3 DEF Holds
  <2> QED
    BY <2>1, <2>2
<1> QED
  BY <1>4 DEF UsedNumberIsHeld

LEMMA HeldStep ==
  ASSUME MaySlow = FALSE, Operators = {}, CrashPoints \cap {"opened", "finish", "save"} = {}
  PROVE  TypeInv /\ OwnerInv /\ LoneInv /\ UsedNumberIsHeld /\ [Next]_vars => UsedNumberIsHeld'
<1> SUFFICES ASSUME TypeInv, OwnerInv, LoneInv, UsedNumberIsHeld, [Next]_vars
             PROVE  UsedNumberIsHeld'
  OBVIOUS
<1> USE DEF rowVars, ledgerVars, workVars
<1>0. /\ wpc \in [Workers -> WorkerSteps] /\ wrow \in [Workers -> Rows \cup {NoRow}]
      /\ created \in [Rows -> SUBSET (Nat \ {0})]
  BY DEF TypeInv, LedgerTyped, WorkersOK, WorkersTyped
<1>1. SettledRowsKept
  BY LoneRows
<1>2. CASE UNCHANGED <<attempts, created, workVars>>
  BY <1>1, <1>2, HeldFrame DEF Holds
<1>3. ASSUME NEW w \in Workers, wpc[w] \notin {"opened", "finish", "save"}, Idle(w),
             UNCHANGED <<attempts, created>>
      PROVE  UsedNumberIsHeld'
  BY <1>0, <1>1, <1>3, HeldFrame DEF Holds, Idle
<1>4. ASSUME NEW w \in Workers, NEW step \in {"claimed", "finish", "save"}, Goto(w, step),
             wpc[w] = "loaded" \/ step # "claimed", UNCHANGED <<attempts, created>>
      PROVE  UsedNumberIsHeld'
  BY <1>0, <1>1, <1>4, HeldFrame DEF Holds, Goto
<1>5. ASSUME NEW w \in Workers, NEW r \in Rows, Receive(w, r) PROVE UsedNumberIsHeld'
  BY <1>0, <1>1, <1>5, HeldFrame DEF Receive, Holds
<1>6. ASSUME NEW w \in Workers, RefreshRow(w) PROVE UsedNumberIsHeld'
  BY <1>0, <1>1, <1>6, HeldFrame DEF RefreshRow, Holds
<1>7. ASSUME NEW w \in Workers, OpenAttempt(w), NumberFree(w) PROVE UsedNumberIsHeld'
  <2>1. /\ created' = [created EXCEPT ![wrow[w]] = @ \cup {wnum[w]}] /\ UNCHANGED attempts
        /\ Goto(w, "opened") /\ wpc[w] = "open"
    BY <1>7 DEF OpenAttempt
  <2>2. \A v \in Workers, r \in Rows : Holds(v, r) => Holds(v, r)'
    BY <1>0, <2>1 DEF Goto, Holds
  <2>3. wpc'[w] = "opened" /\ wrow'[w] = wrow[w]
    BY <1>0, <2>1 DEF Goto
  <2>4. ASSUME NEW r \in Rows, attempts'[r] + 1 \in created'[r], status'[r] # "failed"
        PROVE  \E v \in Workers : Holds(v, r)'
    <3>1. CASE r = wrow[w]
      BY <2>3, <3>1 DEF Holds
    <3>2. CASE r # wrow[w]
      BY <1>0, <1>1, <2>1, <2>2, <2>4, <3>2 DEF UsedNumberIsHeld, SettledRowsKept, Settled
    <3> QED
      BY <3>1, <3>2
  <2> QED
    BY <2>4 DEF UsedNumberIsHeld
<1>8. ASSUME NEW w \in Workers, WorkerStep(w) PROVE UsedNumberIsHeld'
  BY <1>3, <1>4, <1>6, <1>7, <1>8, SaveKeepsHeld
     DEF WorkerStep, ClaimProcessing, OpenAttempt, RejectRow, SendAccepted,
     SendTemporaryError, SendPermanentError, Send, FinishAttempt, CreateFallback
<1>9. ASSUME NEW r \in Rows, CreateOutbox(r) \/ Clock(r) PROVE UsedNumberIsHeld'
  BY <1>2, <1>9 DEF CreateOutbox, Clock, BecomeDue, BackoffElapses, TimeoutPasses
<1>10. ASSUME NEW d \in Dispatchers,
              SelectBatch(d) \/ DispatcherStep(d) \/ \E r \in Rows : RunCallback(d, r)
       PROVE  UsedNumberIsHeld'
  BY <1>2, <1>10 DEF SelectBatch, DispatcherStep, RunCallback, ClaimDispatch, Enqueue,
     EnqueueRaises, CloseDispatch
<1>11. CASE Failures
  BY <1>2, <1>3, <1>11 DEF Failures, LoseMessage, DuplicateMessage, LoseCallback,
     CrashDispatcher, CrashWorker
<1>12. CASE UNCHANGED vars
  BY <1>2, <1>12 DEF vars
<1> QED
  BY <1>2, <1>5, <1>8, <1>9, <1>10, <1>11, <1>12 DEF Next, RecoverStuck

(* A row that can be dispatched again and that no worker has can be        *)
(* delivered: as long as no worker dies between the attempt's record and   *)
(* the save of the row, the number of its next attempt is free.            *)
THEOREM NextNumberIsFree ==
  ASSUME MaySlow = FALSE, Operators = {}, CrashPoints \cap {"opened", "finish", "save"} = {}
  PROVE  Spec => []NextAttemptIsFree
<1>1. UsedNumberIsHeld => NextAttemptIsFree
  BY DEF UsedNumberIsHeld, NextAttemptIsFree, Holds, Dispatchable
<1> QED
  BY <1>1, Alone, HeldInit, HeldStep, PTL DEF Spec

-----------------------------------------------------------------------------
(* The outbox implements the delivery it promises.                         *)

Phase(r) == CASE status[r] = Absent -> "none"
              [] status[r] \in {"sent", "failed"} -> status[r]
              [] OTHER -> "open"

(* A step that leaves every row's phase as it is.                          *)
PhasesStay ==
    \A r \in Rows :
        \/ status'[r] = status[r]
        \/ /\ status[r] \notin {Absent, "sent", "failed"}
           /\ status'[r] \notin {Absent, "sent", "failed"}

LEMMA PhasesStutter ==
  ASSUME PhasesStay, UNCHANGED receipts
  PROVE  /\ [r \in Rows |-> Phase(r)]' = [r \in Rows |-> Phase(r)]
         /\ [r \in Rows |-> receipts[r] > 0]' = [r \in Rows |-> receipts[r] > 0]
<1>1. \A r \in Rows : Phase(r)' = Phase(r)
  BY DEF PhasesStay, Phase
<1> QED
  BY <1>1

(* The steps that say something about a row: it is recorded, the provider  *)
(* takes it, or it is concluded by what the provider did.                  *)
LEMMA StepsMap ==
  ASSUME MaySlow = FALSE, Operators = {}, "ambiguous_send" \notin FaultKinds,
         TypeInv, OwnerInv, LoneInv, TakenInv, [Next]_vars
  PROVE  \/ PhasesStay /\ UNCHANGED receipts
         \/ \E r \in Rows : /\ status[r] = Absent
                            /\ status' = [status EXCEPT ![r] = "pending"]
                            /\ UNCHANGED receipts
         \/ \E r \in Rows : /\ status[r] = "processing" /\ UNCHANGED status
                            /\ receipts[r] = 0
                            /\ receipts' = [receipts EXCEPT ![r] = 1]
         \/ \E r \in Rows : /\ status[r] = "processing"
                            /\ status' = [status EXCEPT
                                            ![r] = IF receipts[r] > 0 THEN "sent" ELSE "failed"]
                            /\ UNCHANGED receipts
<1> DEFINE Record(r) == /\ status[r] = Absent
                        /\ status' = [status EXCEPT ![r] = "pending"]
                        /\ UNCHANGED receipts
           Deliver(r) == /\ status[r] = "processing" /\ UNCHANGED status
                         /\ receipts[r] = 0
                         /\ receipts' = [receipts EXCEPT ![r] = 1]
           Conclude(r) == /\ status[r] = "processing"
                          /\ status' = [status EXCEPT
                                          ![r] = IF receipts[r] > 0 THEN "sent" ELSE "failed"]
                          /\ UNCHANGED receipts
           Stutter == PhasesStay /\ UNCHANGED receipts
<1> USE DEF rowVars, sendVars
<1>0. /\ status \in [Rows -> OutboxStatus \cup {Absent}] /\ receipts \in [Rows -> Nat]
      /\ \A w \in Workers : wpc[w] # "idle" => wrow[w] \in Rows
      /\ \A d \in Dispatchers : dpc[d] # "idle" => drow[d] \in Rows
  BY DEF TypeInv, RowsTyped, EnvironmentTyped, WorkersOK, WorkersReady, DispatchersOK,
     DispatchersReady
<1>1. ASSUME UNCHANGED <<status, receipts>> PROVE Stutter
  BY <1>1 DEF PhasesStay
<1>2. ASSUME NEW r \in Rows, CreateOutbox(r) PROVE Record(r)
  BY <1>2 DEF CreateOutbox
<1>3. ASSUME NEW r \in Rows, Clock(r) PROVE Stutter
  BY <1>1, <1>3 DEF Clock, BecomeDue, BackoffElapses, TimeoutPasses
<1>4. ASSUME NEW d \in Dispatchers,
             SelectBatch(d) \/ DispatcherStep(d) \/ \E r \in Rows : RunCallback(d, r)
      PROVE  Stutter
  <2>1. CASE ClaimDispatch(d)
    BY <1>0, <2>1 DEF ClaimDispatch, Dispatchable, PhasesStay, Absent
  <2>2. CASE CloseDispatch(d)
    BY <1>0, <2>2 DEF CloseDispatch, Closed, Closing, PhasesStay, Absent
  <2> QED
    BY <1>1, <1>4, <2>1, <2>2 DEF SelectBatch, DispatcherStep, RunCallback, Enqueue,
       EnqueueRaises
<1>5. ASSUME NEW w \in Workers, ClaimProcessing(w) PROVE Stutter
  BY <1>0, <1>5 DEF ClaimProcessing, ClaimWins, Claimable, PhasesStay, Absent
<1>6. ASSUME NEW w \in Workers, SendAccepted(w) PROVE \E r \in Rows : Deliver(r)
  <2>1. wrow[w] \in Rows /\ receipts[wrow[w]] = 0 /\ status[wrow[w]] = "processing"
    BY <1>6, SendKeepsTaken DEF SendAccepted, Ends
  <2>2. receipts' = [receipts EXCEPT ![wrow[w]] = 1] /\ UNCHANGED status
    BY <1>0, <1>6, <2>1 DEF SendAccepted, Send, Take
  <2> QED
    BY <2>1, <2>2
<1>7. ASSUME NEW w \in Workers, SaveOutcome(w) PROVE Stutter \/ \E r \in Rows : Conclude(r)
  <2>1. /\ wrow[w] \in Rows /\ status[wrow[w]] = "processing"
        /\ Target(w) \in {"sent", "retry", "failed"}
        /\ status' = [status EXCEPT ![wrow[w]] = Target(w)]
        /\ UNCHANGED receipts
    BY <1>7, LoneSave DEF SaveOutcome
  <2>2. Target(w) = "sent" <=> receipts[wrow[w]] > 0
    BY <1>7, SaveKeepsTaken
  <2>3. CASE Target(w) = "retry"
    BY <1>0, <2>1, <2>3 DEF PhasesStay, Absent
  <2>4. CASE Target(w) # "retry"
    BY <2>1, <2>2, <2>4
  <2> QED
    BY <2>3, <2>4
<1>8. ASSUME NEW w \in Workers, CreateFallback(w) PROVE Stutter \/ \E r \in Rows : Record(r)
  <2>1. Fallback[wrow[w]] \in Rows \cup {NoRow}
    BY <1>0, <1>8, ConstantsAssumption DEF CreateFallback
  <2> QED
    BY <1>1, <1>8, <2>1 DEF CreateFallback
<1>9. ASSUME NEW w \in Workers, SendTemporaryError(w) \/ SendPermanentError(w) PROVE Stutter
  BY <1>1, <1>9 DEF SendTemporaryError, SendPermanentError, Send, Fault
<1>10. ASSUME NEW w \in Workers, WorkerStep(w) \/ \E r \in Rows : Receive(w, r)
       PROVE  \/ Stutter \/ ClaimProcessing(w) \/ SendAccepted(w) \/ SaveOutcome(w)
              \/ CreateFallback(w)
  BY <1>1, <1>9, <1>10 DEF WorkerStep, Receive, RefreshRow, OpenAttempt, RejectRow,
     FinishAttempt
<1>11. ASSUME RecoverStuck PROVE Stutter
  BY <1>0, <1>11 DEF RecoverStuck, Recovered, PhasesStay, Absent
<1>12. ASSUME Failures PROVE Stutter
  BY <1>1, <1>12 DEF Failures, LoseMessage, DuplicateMessage, LoseCallback, CrashDispatcher,
     CrashWorker
<1>13. ASSUME UNCHANGED vars PROVE Stutter
  BY <1>1, <1>13 DEF vars
<1> HIDE DEF Record, Deliver, Conclude, Stutter
<1>14. Stutter \/ \E r \in Rows : Record(r) \/ Deliver(r) \/ Conclude(r)
  BY <1>2, <1>3, <1>4, <1>5, <1>6, <1>7, <1>8, <1>10, <1>11, <1>12, <1>13 DEF Next
<1> QED
  BY <1>14 DEF Record, Deliver, Conclude, Stutter

(* The refinement: with such a provider, with processes that do not        *)
(* outlast the timeout and without an operator, every step of the outbox   *)
(* is a step of the delivery of one notification, or none.                 *)
THEOREM OutboxImplementsDelivery ==
  ASSUME MaySlow = FALSE, Operators = {}, "ambiguous_send" \notin FaultKinds
  PROVE  Spec => ImplementsDelivery
<1> DEFINE phase == [r \in Rows |-> Phase(r)]
           taken == [r \in Rows |-> receipts[r] > 0]
<1>1. ASSUME Init PROVE Delivery!Init
  <2>1. \A r \in Rows : Phase(r) = "none"
    BY <1>1 DEF Init, Phase, Absent
  <2>2. \A r \in Rows : (receipts[r] > 0) = FALSE
    BY <1>1 DEF Init
  <2> HIDE DEF Phase
  <2>3. taken = [r \in Rows |-> FALSE]
    BY <2>2, Zenon
  <2>4. phase = [r \in Rows |-> "none"]
    BY <2>1
  <2> QED
    BY <2>3, <2>4 DEF Delivery!Init, Phase
<1>2. TypeInv /\ OwnerInv /\ LoneInv /\ TakenInv /\ [Next]_vars
        => [Delivery!Next]_<<phase, taken>>
  <2> SUFFICES ASSUME TypeInv, OwnerInv, LoneInv, TakenInv, [Next]_vars
               PROVE  [Delivery!Next]_<<phase, taken>>
    OBVIOUS
  <2>0. status \in [Rows -> OutboxStatus \cup {Absent}] /\ receipts \in [Rows -> Nat]
    BY DEF TypeInv, RowsTyped, EnvironmentTyped
  <2>1. CASE PhasesStay /\ UNCHANGED receipts
    BY <2>1, PhasesStutter
  <2>2. ASSUME NEW r \in Rows, status[r] = Absent,
               status' = [status EXCEPT ![r] = "pending"], UNCHANGED receipts
        PROVE  Delivery!Record(r)
    BY <2>0, <2>2 DEF Delivery!Record, Absent
  <2>3. ASSUME NEW r \in Rows, status[r] = "processing", UNCHANGED status, receipts[r] = 0,
               receipts' = [receipts EXCEPT ![r] = 1]
        PROVE  Delivery!Deliver(r)
    <3>1. /\ receipts'[r] > 0 /\ ~(receipts[r] > 0)
          /\ \A q \in Rows : q # r => receipts'[q] = receipts[q]
      BY <2>0, <2>3
    <3>2. taken' = [taken EXCEPT ![r] = TRUE]
      BY <3>1, Zenon
    <3>3. Phase(r) = "open"
      BY <2>3 DEF Phase, Absent
    <3>4. phase' = phase
      BY <2>3 DEF Phase
    <3> QED
      BY <3>1, <3>2, <3>3, <3>4 DEF Delivery!Deliver, Phase
  <2>4. ASSUME NEW r \in Rows, status[r] = "processing",
               status' = [status EXCEPT ![r] = IF receipts[r] > 0 THEN "sent" ELSE "failed"],
               UNCHANGED receipts
        PROVE  Delivery!Conclude(r)
    BY <2>0, <2>4 DEF Delivery!Conclude, Absent
  <2> QED
    BY <2>1, <2>2, <2>3, <2>4, StepsMap DEF Delivery!Next
<1> QED
  BY <1>1, <1>2, Honest, PTL DEF Spec, ImplementsDelivery, Delivery!Spec, Phase

-----------------------------------------------------------------------------
(* What is left of one delivery when nothing is assumed.                   *)

(* Slow workers, lost answers and manual retries make a provider take a    *)
(* row again, but never more often than its attempts allow: one more than  *)
(* the limit, for the worker that has read a row which was settled under   *)
(* it, and sends before transition() stops its save.                       *)
DeliveriesBounded == \A r \in Rows : receipts[r] <= MaxAttempts + manual[r] + 1

(* The receipts are behind the counter, or just ahead of it by the number  *)
(* that has been handed to the provider and not saved.                     *)
ReceiptsFollow ==
    \A r \in Rows :
        /\ receipts[r] <= attempts[r] + 1
        /\ receipts[r] = attempts[r] + 1 => attempts[r] + 1 \in called[r]

LEMMA ReceiptsInit == Init => ReceiptsFollow
  BY DEF Init, ReceiptsFollow

LEMMA ReceiptsSend ==
  ASSUME TypeInv, OwnerInv, ReceiptsFollow, NEW w \in Workers, NEW end, Send(w, end),
         Take(w) \/ UNCHANGED receipts
  PROVE  ReceiptsFollow'
<1> DEFINE r == wrow[w]
<1>1. /\ r \in Rows /\ wnum[w] = attempts[r] + 1 /\ wnum[w] \notin called[r]
      /\ called' = [called EXCEPT ![r] = @ \cup {wnum[w]}] /\ UNCHANGED attempts
  BY DEF Send, TypeInv, WorkersOK, WorkersReady, OwnerInv, HeldNumbers, OneOwner, Holds, rowVars
<1>2. /\ attempts \in [Rows -> Nat] /\ receipts \in [Rows -> Nat]
      /\ called \in [Rows -> SUBSET Nat]
  BY DEF TypeInv, RowsTyped, EnvironmentTyped
<1>3. receipts[r] <= attempts[r]
  BY <1>1, <1>2 DEF ReceiptsFollow
<1>4. /\ attempts[r] + 1 \in called'[r]
      /\ \A q \in Rows : called[q] \subseteq called'[q]
  BY <1>1, <1>2
<1>5. /\ receipts'[r] <= attempts[r] + 1
      /\ \A q \in Rows : q # r => receipts'[q] = receipts[q]
  BY <1>1, <1>2, <1>3 DEF Take
<1> QED
  BY <1>1, <1>4, <1>5 DEF ReceiptsFollow

LEMMA ReceiptsStep == TypeInv /\ OwnerInv /\ ReceiptsFollow /\ [Next]_vars => ReceiptsFollow'
<1> SUFFICES ASSUME TypeInv, OwnerInv, ReceiptsFollow, [Next]_vars PROVE ReceiptsFollow'
  OBVIOUS
<1> USE DEF rowVars, sendVars
<1>1. CASE UNCHANGED <<attempts, called, receipts>>
  BY <1>1 DEF ReceiptsFollow
<1>2. ASSUME NEW w \in Workers,
             SendAccepted(w) \/ SendTemporaryError(w) \/ SendPermanentError(w)
      PROVE  ReceiptsFollow'
  BY <1>2, ReceiptsSend DEF SendAccepted, SendTemporaryError, SendPermanentError
<1>3. ASSUME NEW w \in Workers, SaveOutcome(w) PROVE ReceiptsFollow'
  <2>1. /\ attempts \in [Rows -> Nat] /\ receipts \in [Rows -> Nat]
        /\ wpc[w] = "save" /\ UNCHANGED <<called, receipts>>
    BY <1>3 DEF SaveOutcome, TypeInv, RowsTyped, EnvironmentTyped
  <2>2. SavedAttempts(w) \in {attempts[wrow[w]], attempts[wrow[w]] + 1}
    BY <2>1, SaveMoves
  <2>3. \A q \in Rows : attempts'[q] \in {attempts[q], attempts[q] + 1}
    BY <1>3, <2>1, <2>2 DEF SaveOutcome
  <2> QED
    BY <2>1, <2>3 DEF ReceiptsFollow
<1>4. ASSUME NEW w \in Workers, WorkerStep(w) \/ \E r \in Rows : Receive(w, r)
      PROVE  \/ UNCHANGED <<attempts, called, receipts>> \/ SaveOutcome(w)
             \/ SendAccepted(w) \/ SendTemporaryError(w) \/ SendPermanentError(w)
  BY <1>4 DEF WorkerStep, Receive, ClaimProcessing, RefreshRow, OpenAttempt, RejectRow,
     FinishAttempt, CreateFallback
<1>5. ASSUME NEW r \in Rows, CreateOutbox(r) \/ Clock(r)
      PROVE  UNCHANGED <<attempts, called, receipts>>
  BY <1>5 DEF CreateOutbox, Clock, BecomeDue, BackoffElapses, TimeoutPasses
<1>6. ASSUME NEW d \in Dispatchers,
             SelectBatch(d) \/ DispatcherStep(d) \/ \E r \in Rows : RunCallback(d, r)
      PROVE  UNCHANGED <<attempts, called, receipts>>
  BY <1>6 DEF SelectBatch, DispatcherStep, RunCallback, ClaimDispatch, Enqueue,
     EnqueueRaises, CloseDispatch
<1>7. ASSUME NEW o \in Operators, OperatorStep(o) PROVE UNCHANGED <<attempts, called, receipts>>
  BY <1>7 DEF OperatorStep, RequestRetry, SaveManualRetry, RequestCancel, SaveCancel
<1>8. CASE Failures
  BY <1>1, <1>8 DEF Failures, LoseMessage, DuplicateMessage, LoseCallback, CrashDispatcher,
     CrashWorker
<1> QED
  BY <1>1, <1>2, <1>3, <1>4, <1>5, <1>6, <1>7, <1>8 DEF Next, RecoverStuck, vars

(* Whatever crashes, is slow, is lost, and is retried by hand, a provider  *)
(* takes a row once more than the limit of its attempts at most.           *)
THEOREM DeliveriesAreBounded == Spec => []DeliveriesBounded
<1>1. TypeInv /\ BoundInv /\ ReceiptsFollow => DeliveriesBounded
  <2> SUFFICES ASSUME TypeInv, BoundInv, ReceiptsFollow, NEW r \in Rows
               PROVE  receipts[r] <= MaxAttempts + manual[r] + 1
    BY DEF DeliveriesBounded
  <2>1. /\ receipts[r] \in Nat /\ attempts[r] \in Nat /\ manual[r] \in Nat
        /\ MaxAttempts \in Nat
    BY ConstantsAssumption DEF TypeInv, RowsTyped, EnvironmentTyped
  <2>2. receipts[r] <= attempts[r] + 1 /\ attempts[r] <= MaxAttempts + manual[r]
    BY DEF ReceiptsFollow, BoundInv, AttemptsBounded
  <2> QED
    BY <2>1, <2>2
<1> QED
  BY <1>1, BoundInit, BoundStep, Owned, ReceiptsInit, ReceiptsStep, PTL DEF Spec
=============================================================================
