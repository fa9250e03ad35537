--------------------------- MODULE RecordLifecycle ---------------------------
(***************************************************************************)
(* One record of a model with a soft delete under the generic endpoints    *)
(* (core/base/models.py, core/base/views.py, core/events/lifecycle.py).    *)
(*                                                                         *)
(* A request reads the record outside a transaction.  The write and its    *)
(* event then share one, in which the listeners run; the record stays      *)
(* locked from the write to the end of that transaction.                   *)
(***************************************************************************)
CONSTANTS
    Requests,     \* requests in progress
    Fields,       \* what an update may set, one at a time
    Values,       \* what a field may hold
    Default,      \* what it holds when nobody has set it
    NoPatch       \* of a request that is not an update

(* "none": its primary key is not drawn yet; "gone": it has been deleted.  *)
Rows == [state: {"none", "alive", "deleted", "gone"}, vals: [Fields -> Values]]

Patches == [field: Fields, value: Values]

ASSUME RecordAssumption == Default \in Values /\ NoPatch \notin Patches

Blank(s) == [state |-> s, vals |-> [f \in Fields |-> Default]]

VARIABLES
    row,        \* the record, as committed
    told,       \* what the events of the committed writes make of it
    overtaken,  \* an update has saved a copy that was not the record any more
    pc,         \* step of a request
    act,        \* its event
    patch,      \* what its update sets
    copy,       \* the record as the request has read it
    new,        \* the record as its transaction leaves it
    holds       \* its transaction has changed the record

record  == <<row, told, overtaken>>
request == <<pc, act, patch, copy, new, holds>>
vars    == <<record, request>>

TypeOK ==
    /\ row \in Rows /\ told \in Rows /\ overtaken \in BOOLEAN
    /\ pc \in [Requests -> {"idle", "loaded", "insert", "written"}]
    /\ act \in [Requests -> {"created", "updated", "deleted", "restored", "hard_deleted"}]
    /\ patch \in [Requests -> Patches \cup {NoPatch}]
    /\ \A r \in Requests : act[r] = "updated" => patch[r] \in Patches
    /\ \A r \in Requests : pc[r] = "insert" => act[r] = "updated"
    /\ copy \in [Requests -> Rows] /\ new \in [Requests -> Rows]
    /\ holds \in [Requests -> BOOLEAN]
    /\ \A r, s \in Requests : holds[r] /\ holds[s] => r = s

Init ==
    /\ row = Blank("none") /\ told = Blank("none") /\ overtaken = FALSE
    /\ pc = [r \in Requests |-> "idle"]
    /\ act = [r \in Requests |-> "created"]
    /\ patch = [r \in Requests |-> NoPatch]
    /\ copy = [r \in Requests |-> Blank("none")]
    /\ new = [r \in Requests |-> Blank("none")]
    /\ holds = [r \in Requests |-> FALSE]

-----------------------------------------------------------------------------
(* The database: a statement finds the committed row, and waits for the    *)
(* transaction that has changed it.                                        *)

Found == row.state \in {"alive", "deleted"}

Unlocked_Read == \A r \in Requests : pc[r] # "insert"

Unlocked == \A r \in Requests : ~holds[r]

Patched(x, p) == [x EXCEPT !.vals[p.field] = p.value]

WriteRow(r, x) ==
    /\ pc' = [pc EXCEPT ![r] = "written"]
    /\ new' = [new EXCEPT ![r] = x]
    /\ holds' = [holds EXCEPT ![r] = TRUE]

(* What is left of a request that has ended.                               *)
End(r) ==
    /\ pc' = [pc EXCEPT ![r] = "idle"]
    /\ act' = [act EXCEPT ![r] = "created"]
    /\ patch' = [patch EXCEPT ![r] = NoPatch]
    /\ copy' = [copy EXCEPT ![r] = Blank("none")]
    /\ new' = [new EXCEPT ![r] = Blank("none")]
    /\ holds' = [holds EXCEPT ![r] = FALSE]

-----------------------------------------------------------------------------
(* The endpoints.                                                          *)

(* perform_create: a new primary key is inserted.                          *)
Create(r) ==
    /\ pc[r] = "idle"
    /\ row.state = "none" /\ Unlocked
    /\ WriteRow(r, Blank("alive"))
    /\ UNCHANGED <<record, act, patch, copy>>

(* get_object: an update or a deletion looks among the records it asks for *)
(* (?objects=all, ?objects=deleted), a restore or a hard delete among all. *)
Load(r, a) ==
    /\ pc[r] = "idle"
    /\ Found
    /\ pc' = [pc EXCEPT ![r] = "loaded"]
    /\ act' = [act EXCEPT ![r] = a]
    /\ copy' = [copy EXCEPT ![r] = row]
    /\ \/ a \in {"deleted", "restored", "hard_deleted"} /\ UNCHANGED patch
       \/ a = "updated" /\ \E p \in Patches : patch' = [patch EXCEPT ![r] = p]
    /\ UNCHANGED <<record, new, holds>>

(* serializer.save() writes every field of the object that was read, its   *)
(* deleted_at included; an UPDATE that finds no row goes on to an INSERT.  *)
Update(r) ==
    /\ pc[r] = "loaded" /\ act[r] = "updated"
    /\ \/ /\ Found /\ Unlocked
          /\ WriteRow(r, Patched(copy[r], patch[r]))
       \/ /\ ~Found
          /\ pc' = [pc EXCEPT ![r] = "insert"]
          /\ UNCHANGED <<new, holds>>
    /\ UNCHANGED <<record, act, patch, copy>>

Insert(r) ==
    /\ pc[r] = "insert"
    /\ ~Found /\ Unlocked
    /\ WriteRow(r, Patched(copy[r], patch[r]))
    /\ UNCHANGED <<record, act, patch, copy>>

(* Another update has inserted the row meanwhile: IntegrityError.          *)
InsertFails(r) ==
    /\ pc[r] = "insert"
    /\ Found /\ Unlocked
    /\ End(r)
    /\ UNCHANGED record

Marked(a) == IF a = "deleted" THEN "deleted" ELSE "alive"

(* delete() and restore() write deleted_at and updated_by only ...         *)
SavedMark_Whole(r) == [copy[r] EXCEPT !.state = Marked(act[r])]

SavedMark(r) == [row EXCEPT !.state = Marked(act[r])]

(* ... and save(update_fields=...) raises when it finds no row.            *)
Mark_Upsert(r) ==
    /\ pc[r] = "loaded" /\ act[r] \in {"deleted", "restored"}
    /\ Unlocked
    /\ WriteRow(r, [copy[r] EXCEPT !.state = Marked(act[r])])
    /\ UNCHANGED <<record, act, patch, copy>>

Mark(r) ==
    /\ pc[r] = "loaded" /\ act[r] \in {"deleted", "restored"}
    /\ \/ /\ Found /\ Unlocked
          /\ WriteRow(r, SavedMark(r))
          /\ UNCHANGED <<act, patch, copy>>
       \/ ~Found /\ End(r)
    /\ UNCHANGED record

(* Model.delete() says nothing when there was no row to delete.            *)
HardDelete(r) ==
    /\ pc[r] = "loaded" /\ act[r] = "hard_deleted"
    /\ \/ /\ Found /\ Unlocked
          /\ WriteRow(r, Blank("gone"))
       \/ /\ ~Found
          /\ pc' = [pc EXCEPT ![r] = "written"]
          /\ UNCHANGED <<new, holds>>
    /\ UNCHANGED <<record, act, patch, copy>>

(* What an event says of the record.                                       *)
Tell(x, r) ==
    CASE act[r] = "created" -> Blank("alive")
      [] act[r] = "updated" -> Patched(x, patch[r])
      [] act[r] \in {"deleted", "restored"} -> [x EXCEPT !.state = Marked(act[r])]
      [] act[r] = "hard_deleted" -> Blank("gone")

(* emit_lifecycle in the transaction of the write, which commits.          *)
Commit(r) ==
    /\ pc[r] = "written"
    /\ row' = IF holds[r] THEN new[r] ELSE row
    /\ told' = Tell(told, r)
    /\ overtaken' = (overtaken \/ (act[r] = "updated" /\ copy[r] # row))
    /\ End(r)

(* A propagating listener raises, or the process dies.                     *)
RollBack(r) ==
    /\ pc[r] # "idle"
    /\ End(r)
    /\ UNCHANGED record

-----------------------------------------------------------------------------

Step(r) ==
    \/ Create(r)
    \/ \E a \in {"updated", "deleted", "restored", "hard_deleted"} : Load(r, a)
    \/ Update(r) \/ Insert(r) \/ InsertFails(r) \/ Mark(r) \/ HardDelete(r)
    \/ Commit(r) \/ RollBack(r)

Next == \E r \in Requests : Step(r)

Spec == Init /\ [][Next]_vars

-----------------------------------------------------------------------------

(* The events of a record, played one after the other, make the record:    *)
(* they come in the order of the writes, none is told of a write that was  *)
(* undone, none is missing.  Holds up to the first update that saves a     *)
(* copy of a record somebody else has changed since.                       *)
EventsTellRecord == overtaken \/ told = row

(* A record that was deleted for good comes back by an update only, and by *)
(* one that had read it before: never by a deletion or a restore.          *)
GoneStaysGone ==
    [][row.state = "gone" /\ row'.state # "gone" =>
         \E r \in Requests : pc[r] = "written" /\ act[r] = "updated" /\ copy[r].state # "gone"]_vars
=============================================================================
