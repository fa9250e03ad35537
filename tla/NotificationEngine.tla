-------------------------- MODULE NotificationEngine --------------------------
(***************************************************************************)
(* How events become rows of the outbox (core/events/dispatcher.py,        *)
(* notifications/engine.py) and how old rows leave it                      *)
(* (notifications/tasks.py, cleanup_notifications).                        *)
(*                                                                         *)
(* A business transaction emits its event to the engine, which creates the *)
(* rows in that transaction; others see them when it commits.  What        *)
(* happens to a row between its creation and its end is NotificationOutbox.*)
(***************************************************************************)
EXTENDS Naturals

CONSTANTS
    Emitters,      \* business transactions in progress
    Occurrences,   \* what happened: occurrence_id, or event and object
    NoOccurrence,  \* of an emitter at rest
    Targets,       \* a rule with one of its recipients
    NoTarget       \* no insert under way

ASSUME EngineAssumption == NoOccurrence \notin Occurrences /\ NoTarget \notin Targets

(* idempotency_key, of a row and of its fallback.                          *)
Keys == [of: Occurrences, to: Targets, fallback: BOOLEAN]

Key(o, t) == [of |-> o, to |-> t, fallback |-> FALSE]

FallbackKey(k) == [k EXCEPT !.fallback = TRUE]

VARIABLES
    rows,       \* number of committed rows with a key
    status,     \* what has become of them
    committed,  \* occurrences whose business change is committed
    promised,   \* keys a committed transaction took as notified, until they are deleted
    picked,     \* rows the clean-up has selected
    pc,         \* step of an emitter
    occ,        \* its occurrence
    todo,       \* targets of its event the engine has not come to
    want,       \* the target whose row it inserts while another one does
    held,       \* keys it has inserted
    seen        \* keys it has inserted, or found and nobody has deleted since

outbox  == <<rows, status, committed, promised>>
cleanup == <<picked>>
emitter == <<pc, occ, todo, want, held, seen>>
vars    == <<outbox, cleanup, emitter>>

TypeOK ==
    /\ rows \in [Keys -> Nat]
    /\ status \in [Keys -> {"none", "open", "ended"}]
    /\ \A k \in Keys : rows[k] = 0 <=> status[k] = "none"
    /\ committed \subseteq Occurrences /\ promised \subseteq Keys
    /\ picked \subseteq Keys
    /\ pc \in [Emitters -> {"idle", "engine", "insert", "emitted"}]
    /\ occ \in [Emitters -> Occurrences \cup {NoOccurrence}]
    /\ \A e \in Emitters : pc[e] # "idle" => occ[e] \in Occurrences
    /\ \A e \in Emitters : pc[e] = "insert" => want[e] \in Targets
    /\ todo \in [Emitters -> SUBSET Targets]
    /\ want \in [Emitters -> Targets \cup {NoTarget}]
    /\ held \in [Emitters -> SUBSET Keys] /\ seen \in [Emitters -> SUBSET Keys]

Init ==
    /\ rows = [k \in Keys |-> 0] /\ status = [k \in Keys |-> "none"]
    /\ committed = {} /\ promised = {}
    /\ picked = {}
    /\ pc = [e \in Emitters |-> "idle"]
    /\ occ = [e \in Emitters |-> NoOccurrence]
    /\ todo = [e \in Emitters |-> {}]
    /\ want = [e \in Emitters |-> NoTarget]
    /\ held = [e \in Emitters |-> {}] /\ seen = [e \in Emitters |-> {}]

-----------------------------------------------------------------------------
(* The engine inside a business transaction.                               *)

(* emit(): the enabled rules of the entity that ask for this event.  A     *)
(* transaction may tell of its occurrence twice.                           *)
Emit(e, o) ==
    /\ pc[e] = "idle" \/ (pc[e] = "emitted" /\ occ[e] = o)
    /\ pc' = [pc EXCEPT ![e] = "engine"]
    /\ occ' = [occ EXCEPT ![e] = o]
    /\ todo' = [todo EXCEPT ![e] = Targets]
    /\ UNCHANGED <<outbox, cleanup, want, held, seen>>

(* A row another transaction has inserted is not visible before it commits.*)
Exists_Uncommitted(k) == rows[k] > 0 \/ \E e \in Emitters : k \in held[e]

Exists(k) == rows[k] > 0

(* The unique constraint on idempotency_key makes an insert wait for the   *)
(* transaction that has inserted the same key.                             *)
Free_NotUnique(e, k) == e \in Emitters

Free(e, k) == \A other \in Emitters \ {e} : k \notin held[other]

(* get_or_create: the row is found, its own included, or made.             *)
GetOrCreate(e, t) ==
    LET k == Key(occ[e], t)
    IN /\ Exists(k) \/ Free(e, k)
       /\ held' = [held EXCEPT ![e] = IF Exists(k) THEN @ ELSE @ \cup {k}]
       /\ seen' = [seen EXCEPT ![e] = @ \cup {k}]
       /\ todo' = [todo EXCEPT ![e] = @ \ {t}]
       /\ pc' = [pc EXCEPT ![e] = "engine"]
       /\ want' = [want EXCEPT ![e] = NoTarget]

(* One recipient of one rule: its gates are shut (module, conditions,      *)
(* channel, consent, address, template), or its row is found or made, or   *)
(* somebody else is making it.  Neither rules nor recipients are ordered.  *)
ProcessRecipient(e, t) ==
    /\ pc[e] = "engine"
    /\ t \in todo[e]
    /\ \/ /\ todo' = [todo EXCEPT ![e] = @ \ {t}]
          /\ UNCHANGED <<pc, want, held, seen>>
       \/ GetOrCreate(e, t)
       \/ /\ ~Exists(Key(occ[e], t)) /\ ~Free(e, Key(occ[e], t))
          /\ pc' = [pc EXCEPT ![e] = "insert"]
          /\ want' = [want EXCEPT ![e] = t]
          /\ UNCHANGED <<todo, held, seen>>
    /\ UNCHANGED <<outbox, cleanup, occ>>

(* The other transaction has ended: with a row of that key, or without.    *)
Resume(e) ==
    /\ pc[e] = "insert"
    /\ GetOrCreate(e, want[e])
    /\ UNCHANGED <<outbox, cleanup, occ>>

(* The listener raises: a rule is broken, the database ends a deadlock of  *)
(* two inserts, or the row another one has made is deleted before it is    *)
(* read.  The dispatcher logs it; the savepoint of the insert in progress  *)
(* is undone, the rows made before it stay, the other targets get none.    *)
ListenerRaises(e) ==
    /\ pc[e] \in {"engine", "insert"}
    /\ pc' = [pc EXCEPT ![e] = "emitted"]
    /\ todo' = [todo EXCEPT ![e] = {}]
    /\ want' = [want EXCEPT ![e] = NoTarget]
    /\ UNCHANGED <<outbox, cleanup, occ, held, seen>>

ListenerReturns(e) ==
    /\ pc[e] = "engine"
    /\ todo[e] = {}
    /\ pc' = [pc EXCEPT ![e] = "emitted"]
    /\ UNCHANGED <<outbox, cleanup, occ, todo, want, held, seen>>

End(e) ==
    /\ pc' = [pc EXCEPT ![e] = "idle"]
    /\ occ' = [occ EXCEPT ![e] = NoOccurrence]
    /\ todo' = [todo EXCEPT ![e] = {}]
    /\ want' = [want EXCEPT ![e] = NoTarget]
    /\ held' = [held EXCEPT ![e] = {}]
    /\ seen' = [seen EXCEPT ![e] = {}]

(* The business change and the rows commit together; try_dispatch follows. *)
Commit_NoStatus(e) ==
    /\ pc[e] = "emitted"
    /\ rows' = [k \in Keys |-> IF k \in held[e] THEN rows[k] + 1 ELSE rows[k]]
    /\ committed' = committed \cup {occ[e]}
    /\ promised' = promised \cup seen[e]
    /\ End(e)
    /\ UNCHANGED <<status, cleanup>>

Commit(e) ==
    /\ pc[e] = "emitted"
    /\ rows' = [k \in Keys |-> IF k \in held[e] THEN rows[k] + 1 ELSE rows[k]]
    /\ status' = [k \in Keys |-> IF k \in held[e] THEN "open" ELSE status[k]]
    /\ committed' = committed \cup {occ[e]}
    /\ promised' = promised \cup seen[e]
    /\ End(e)
    /\ UNCHANGED cleanup

(* The business code raises after the event, or the process dies.          *)
RollBack_KeepsRows(e) ==
    /\ pc[e] # "idle"
    /\ rows' = [k \in Keys |-> IF k \in held[e] THEN rows[k] + 1 ELSE rows[k]]
    /\ status' = [k \in Keys |-> IF k \in held[e] THEN "open" ELSE status[k]]
    /\ End(e)
    /\ UNCHANGED <<committed, promised, cleanup>>

RollBack(e) ==
    /\ pc[e] # "idle"
    /\ End(e)
    /\ UNCHANGED <<outbox, cleanup>>

-----------------------------------------------------------------------------
(* The life of a committed row, and its end.                               *)

(* A worker has delivered it, an operator has cancelled it.                *)
Close(k) ==
    /\ status[k] = "open"
    /\ status' = [status EXCEPT ![k] = "ended"]
    /\ UNCHANGED <<rows, committed, promised, cleanup, emitter>>

(* A fallback has none of its own.                                         *)
HasFallback(k) == ~k.fallback

(* The worker gives up, on a row that may have ended meanwhile: it fails,  *)
(* and create_fallback_outbox makes one row for another channel, once, if  *)
(* its gates are open.                                                     *)
Fail(k) ==
    /\ Exists(k)
    /\ LET f == FallbackKey(k)
       IN \/ /\ HasFallback(k) /\ ~Exists(f)
             /\ rows' = [rows EXCEPT ![f] = @ + 1]
             /\ status' = [status EXCEPT ![k] = "ended", ![f] = "open"]
          \/ /\ status' = [status EXCEPT ![k] = "ended"]
             /\ UNCHANGED rows
    /\ UNCHANGED <<committed, promised, cleanup, emitter>>

(* An operator retries a row that failed, or somebody who read the row     *)
(* before it ended saves what that called for: a worker that was recovered *)
(* under saves retry whatever the row says now.                            *)
Reopen(k) ==
    /\ Exists(k)
    /\ status' = [status EXCEPT ![k] = "open"]
    /\ UNCHANGED <<rows, committed, promised, cleanup, emitter>>

Ended(k) == status[k] = "ended"

(* delete() reads the rows the filter selects: ended, and old enough ...   *)
Select ==
    /\ picked = {}
    /\ picked' \in SUBSET {k \in Keys : Ended(k)}
    /\ UNCHANGED <<outbox, emitter>>

Remove(K) ==
    /\ rows' = [k \in Keys |-> IF k \in K THEN 0 ELSE rows[k]]
    /\ status' = [k \in Keys |-> IF k \in K THEN "none" ELSE status[k]]
    /\ promised' = promised \ K
    /\ picked' = picked \ K
    /\ seen' = [e \in Emitters |-> seen[e] \ K]

(* ... and deletes them by primary key, whatever they have become: a row   *)
(* that is open again goes too, against the comment of the task.           *)
Delete ==
    /\ picked # {}
    /\ Remove(picked)
    /\ UNCHANGED <<committed, pc, occ, todo, want, held>>

(* DELETE outbox/<id>/hard_delete/, inherited from the base view.          *)
HardDelete(k) ==
    /\ Exists(k)
    /\ Remove({k})
    /\ UNCHANGED <<committed, pc, occ, todo, want, held>>

-----------------------------------------------------------------------------

Business(e) ==
    \/ \E o \in Occurrences : Emit(e, o)
    \/ \E t \in Targets : ProcessRecipient(e, t)
    \/ Resume(e) \/ ListenerRaises(e) \/ ListenerReturns(e) \/ Commit(e) \/ RollBack(e)

Life(k) == Close(k) \/ Fail(k) \/ Reopen(k) \/ HardDelete(k)

Next == Select \/ Delete \/ (\E e \in Emitters : Business(e)) \/ (\E k \in Keys : Life(k))

Spec == Init /\ [][Next]_vars

-----------------------------------------------------------------------------

(* However many transactions emit one occurrence at a time, and whichever  *)
(* of them roll back, a rule tells a recipient of it by one row.           *)
OneRowPerKey == \A k \in Keys : rows[k] <= 1

(* No notification of a change that was rolled back.                       *)
RowsFollowCommit == \A k \in Keys : Exists(k) => k.of \in committed

(* A transaction that left a recipient to the row of somebody else does    *)
(* not lose it when the other one rolls back: once it has committed, the   *)
(* row is there until the clean-up or an operator deletes it.              *)
PromisedIsKept == \A k \in promised : Exists(k)
=============================================================================
