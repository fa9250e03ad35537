----------------------------- MODULE Credentials -----------------------------
(***************************************************************************)
(* The password of one account, the row that keeps a recoverable copy of a *)
(* temporary one (core/services/temporary_password_service.py), and the    *)
(* requests that replace the password, reveal the copy or sign in with it. *)
(*                                                                         *)
(* A stored password is a number, given out when it is stored: two hashes  *)
(* are never equal, even of one text.  Every request proves the password   *)
(* or the link it uses; one that proves nothing changes nothing.           *)
(***************************************************************************)
EXTENDS Naturals

CONSTANTS
    Requests,      \* requests in progress
    NoRow,         \* the account has no UserTemporaryPassword
    NoCopy,        \* `encrypted` is null
    MaxPasswords   \* bound: passwords stored after the first

Passwords == 0 .. MaxPasswords

ASSUME CredentialsAssumption ==
    /\ MaxPasswords \in Nat
    /\ NoCopy \notin Passwords

VARIABLES
    hash,        \* User.password
    last,        \* the password stored last
    temporary,   \* passwords that were issued by an administrator
    row,         \* the UserTemporaryPassword of the account
    leftover,    \* a request died between a new password and the end of the row
    overlap,     \* what was under way when somebody else stored a password
    outrun,      \* temporary ones replaced under a sign-in that had proved them
    challenges,  \* proofs of a password that still wait for a second factor
    entered,     \* temporary ones that gave a session
    pc,          \* step of a request
    seen         \* the password it proved or read; the row it is about to retire

account == <<hash, last, temporary, row, leftover, overlap, outrun>>
request == <<pc, seen>>
vars    == <<account, challenges, entered, request>>

(* A request that is about to ask for the state, by what it asks it for.   *)
Askers == {"login", "first_change", "reveal", "expire"}

Steps == Askers \cup {"idle", "retire", "read", "complete", "gate", "save", "discard", "store"}

(* `id` is the primary key: the password the row was created for.          *)
Row == [id: Passwords, copy: Passwords \cup {NoCopy}, overdue: BOOLEAN]

ASSUME NoRowAssumption == NoRow \notin Row

TypeOK ==
    /\ hash \in 0 .. last /\ last \in Passwords
    /\ temporary \subseteq 1 .. last
    /\ row \in Row \cup {NoRow}
    /\ row # NoRow => row.id \in temporary /\ row.copy \in temporary \cup {NoCopy}
    /\ leftover \in BOOLEAN
    /\ overlap \subseteq {"change", "retire", "save"}
    /\ outrun \subseteq temporary
    /\ challenges \subseteq 0 .. last
    /\ entered \subseteq temporary
    /\ pc \in [Requests -> Steps]
    /\ seen \in [Requests -> 0 .. last]

(* An account whose owner chose the password when registering.             *)
Init ==
    /\ hash = 0 /\ last = 0 /\ temporary = {}
    /\ row = NoRow /\ leftover = FALSE /\ overlap = {}
    /\ outrun = {} /\ challenges = {} /\ entered = {}
    /\ pc = [p \in Requests |-> "idle"]
    /\ seen = [p \in Requests |-> 0]

-----------------------------------------------------------------------------
(* The administrator and the clock.                                        *)

(* What a password stored now comes in between of.                         *)
During(step, name) == IF \E p \in Requests : pc[p] = step THEN {name} ELSE {}

(* The copy taken before the new password is stored.                       *)
IssuedRow_OldCopy(v) == [id |-> IF row = NoRow THEN v ELSE row.id, copy |-> hash, overdue |-> FALSE]

(* update_or_create: a row that exists keeps its primary key.              *)
IssuedRow(v) == [id |-> IF row = NoRow THEN v ELSE row.id, copy |-> v, overdue |-> FALSE]

NewPassword(during) ==
    /\ last < MaxPasswords
    /\ last' = last + 1
    /\ hash' = last + 1
    /\ overlap' = overlap \cup during \cup During("store", "save")
    /\ outrun' = outrun \cup (temporary \cap {seen[p] : p \in {q \in Requests : pc[q] = "login"}})

(* issue(): the hash, the row and the audit record in one transaction that *)
(* the row of the user serialises with every other new password.           *)
Issue ==
    /\ NewPassword(During("discard", "change") \cup During("retire", "retire"))
    /\ temporary' = temporary \cup {last + 1}
    /\ row' = IssuedRow(last + 1)
    /\ leftover' = FALSE
    /\ UNCHANGED <<challenges, entered, request>>

(* expires_at passes.                                                      *)
Expire ==
    /\ row # NoRow
    /\ ~row.overdue
    /\ row' = [row EXCEPT !.overdue = TRUE]
    /\ UNCHANGED <<hash, last, temporary, leftover, overlap, outrun, challenges, entered, request>>

-----------------------------------------------------------------------------
(* state_of and what follows it: sign-in, the first change, reveal, sweep. *)

(* The next step of a request, and the value it takes there.               *)
Goto(p, step, v) ==
    /\ pc' = [pc EXCEPT ![p] = step]
    /\ seen' = [seen EXCEPT ![p] = v]

Done(p) == Goto(p, "idle", 0)

(* The request has read the user: what it goes on with is this password.   *)
Begin(p, step) ==
    /\ pc[p] = "idle"
    /\ Goto(p, step, hash)
    /\ UNCHANGED <<account, challenges, entered>>

(* authenticate(): the password is checked against the hash just read.     *)
Authenticate(p) == \E o \in {"login", "first_change"} : Begin(p, o)

(* viewTemporaryPassword; the sweep, and passwordSecurity, which ask for   *)
(* the state and do nothing with it.                                       *)
AskState(p) == \E o \in {"reveal", "expire"} : Begin(p, o)

(* A row without a copy taken for a password of the owner's.               *)
Permanent_WithoutCopy(r) == IF r = NoRow THEN TRUE ELSE r.copy = NoCopy

Permanent(r) == r = NoRow

(* Every row retired the first time somebody looks.                        *)
Overdue_Always(r) == r # NoRow

Overdue(r) == r # NoRow /\ r.overdue

(* EXPIRED: the copy goes if it is still there, and the request is refused.*)
Expired(p) == IF row.copy = NoCopy THEN Done(p) ELSE Goto(p, "retire", row.id)

(* A temporary password may be replaced or revealed, but not signed in by. *)
Temporary(p) ==
    CASE pc[p] = "first_change" -> Goto(p, "complete", seen[p])
      [] pc[p] = "reveal"       -> Goto(p, "read", seen[p])
      [] OTHER                  -> Done(p)

StateOf(p) ==
    /\ pc[p] \in Askers
    /\ \/ Permanent(row) /\ (IF pc[p] = "login" THEN Goto(p, "gate", seen[p]) ELSE Done(p))
       \/ ~Permanent(row) /\ Overdue(row) /\ Expired(p)
       \/ ~Permanent(row) /\ ~Overdue(row) /\ Temporary(p)
    /\ UNCHANGED <<account, challenges, entered>>

(* Expiry that removes the row with the copy.                              *)
Retired_Deleted(r) == NoRow

Retired(r) == [r EXCEPT !.copy = NoCopy]

(* _retire: the save writes the column of the row that was read, which may *)
(* be gone by now (the save fails) or hold a newer copy.                   *)
Retire(p) ==
    /\ pc[p] = "retire"
    /\ row' = IF row # NoRow /\ row.id = seen[p] THEN Retired(row) ELSE row
    /\ Done(p)
    /\ UNCHANGED <<hash, last, temporary, leftover, overlap, outrun, challenges, entered>>

(* reveal() reads the row again, and fails where it finds no copy.         *)
Reveal(p) ==
    /\ pc[p] = "read"
    /\ Done(p)
    /\ UNCHANGED <<account, challenges, entered>>

-----------------------------------------------------------------------------
(* Passwords the owner chooses.                                            *)

Discarded_Kept == row

(* discard_on_password_change                                              *)
Discarded == NoRow

(* complete(): hash and row in one transaction, whatever both have become  *)
(* since the temporary password was proved; then the sign-in goes on.      *)
Complete(p) ==
    /\ pc[p] = "complete"
    /\ NewPassword({})
    /\ row' = Discarded
    /\ leftover' = FALSE
    /\ Goto(p, "gate", last + 1)
    /\ UNCHANGED <<temporary, challenges, entered>>

(* The new password is refused: too short, too common, or the old one.     *)
Refuse(p) ==
    /\ pc[p] \in {"complete", "save"}
    /\ Done(p)
    /\ UNCHANGED <<account, challenges, entered>>

(* A reset by link or by code, a change by the signed-in owner: the link,  *)
(* the code or the current password is good now.                           *)
Prove(p) == Begin(p, "save")

(* set_password and save(): the hash is stored ...                         *)
Save(p) ==
    /\ pc[p] = "save"
    /\ NewPassword({})
    /\ Goto(p, "discard", 0)
    /\ UNCHANGED <<temporary, row, leftover, challenges, entered>>

(* ... and the row deleted by a second statement of its own.               *)
Discard(p) ==
    /\ pc[p] = "discard"
    /\ row' = Discarded
    /\ leftover' = FALSE
    /\ Done(p)
    /\ UNCHANGED <<hash, last, temporary, overlap, outrun, challenges, entered>>

(* The process dies between the two.                                       *)
Die(p) ==
    /\ pc[p] = "discard"
    /\ leftover' = TRUE
    /\ Done(p)
    /\ UNCHANGED <<hash, last, temporary, row, overlap, outrun, challenges, entered>>

(* A save of the whole user, its password included, from an object read    *)
(* earlier: sync_user, the update of a user by an administrator.           *)
LoadProfile(p) == Begin(p, "store")

StoreProfile(p) ==
    /\ pc[p] = "store"
    /\ hash' = seen[p]
    /\ Done(p)
    /\ UNCHANGED <<last, temporary, row, leftover, overlap, outrun, challenges, entered>>

-----------------------------------------------------------------------------
(* sign_in_payload and the second step.                                    *)

(* Tokens exist: the password v was proved for them, whatever the password *)
(* of the account is by now.                                               *)
Enter(v) == entered' = entered \cup ({v} \cap temporary)

(* sign_in_gate: a session now, or a signed challenge; what the second     *)
(* factor itself asks for is in TwoFactor.                                 *)
SignIn(p) ==
    /\ pc[p] = "gate"
    /\ \/ Enter(seen[p]) /\ UNCHANGED challenges
       \/ challenges' = challenges \cup {seen[p]} /\ UNCHANGED entered
    /\ Done(p)
    /\ UNCHANGED account

(* A challenge is good until it expires, any number of times.              *)
SecondStep(v) ==
    /\ v \in challenges
    /\ \/ Enter(v) /\ UNCHANGED challenges
       \/ challenges' = challenges \ {v} /\ UNCHANGED entered
    /\ UNCHANGED <<account, request>>

-----------------------------------------------------------------------------

Step(p) ==
    \/ Authenticate(p) \/ AskState(p) \/ StateOf(p) \/ Retire(p) \/ Reveal(p)
    \/ Complete(p) \/ Refuse(p) \/ Prove(p) \/ Save(p) \/ Discard(p) \/ Die(p)
    \/ LoadProfile(p) \/ StoreProfile(p) \/ SignIn(p)

Next == Issue \/ Expire \/ (\E p \in Requests : Step(p)) \/ (\E v \in Passwords : SecondStep(v))

Spec == Init /\ [][Next]_vars

-----------------------------------------------------------------------------

(* "The row's existence is what `must change password' means".             *)
TemporaryHasRow == hash \in temporary => row # NoRow

(* A password an administrator issued has its row, unless it was issued    *)
(* after a change had stored its hash and before that change deleted the   *)
(* row, or a whole save put back an old hash.                              *)
TemporaryMustChange == overlap \cap {"change", "save"} = {} => TemporaryHasRow

(* What an administrator can reveal opens the account, except from the     *)
(* moment a new password is stored to the moment the row is deleted, which *)
(* never comes when the process dies there.                                *)
Changing == \E p \in Requests : pc[p] = "discard"

CopyOpensAccount ==
    \/ row = NoRow
    \/ row.copy \in {NoCopy, hash}
    \/ Changing \/ leftover \/ "save" \in overlap

(* A temporary password gives no session before its owner has chosen       *)
(* another one; and then only to a sign-in that had proved it earlier and  *)
(* asks for the state of the account too late, when the row has gone.      *)
(* "the user must replace it before getting any session"                   *)
(* (temporary_password_service.py:8) is true of the account, and not of    *)
(* that sign-in (same two exceptions).                                     *)
Replaced(v) == \E w \in (v + 1) .. last : w \notin temporary

NoSessionByTemporary ==
    overlap \cap {"change", "save"} = {} =>
        \A v \in entered : Replaced(v) /\ v \in outrun

(* Until it expires, a temporary password can be read back: an expiry that *)
(* acts on an older row hits a newer copy only if that was issued between  *)
(* its read and its save.                                                  *)
TemporaryHasCopy ==
    \/ row = NoRow
    \/ row.overdue
    \/ row.copy # NoCopy
    \/ "retire" \in overlap
=============================================================================
