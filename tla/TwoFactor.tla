----------------------------- MODULE TwoFactor -----------------------------
(***************************************************************************)
(* The second factor of one user (core/services/two_factor_service.py):    *)
(* enrolment, verification of time-step and recovery codes, disabling,     *)
(* new recovery codes, and the counter of failures.                        *)
(*                                                                         *)
(* Requests interleave between any two statements outside a transaction;   *)
(* a transaction that locks the row keeps every other writer of the row    *)
(* waiting until it ends.  Time is left out: it only decides which codes   *)
(* are still taken, and one that is not is like none.  The policy of the   *)
(* organisation is left out too.                                           *)
(***************************************************************************)
EXTENDS Naturals, FiniteSets

CONSTANTS
    Requests,     \* requests in progress
    NoRequest,    \* nobody holds the lock of the row
    Places,       \* the codes of a batch, RECOVERY_CODES of them
    MaxFailures,  \* MAX_FAILURES
    MaxSecrets,   \* bound: secrets issued
    MaxBatches,   \* bound: batches of recovery codes issued
    MaxStep       \* bound: time steps

ASSUME BoundsAssumption ==
    /\ NoRequest \notin Requests
    /\ MaxFailures \in Nat \ {0} /\ MaxSecrets \in Nat
    /\ MaxBatches \in Nat /\ MaxStep \in Nat \ {0}

ASSUME RequestsAssumption == IsFiniteSet(Requests)

None == 0

(* A code by what it was generated from: a secret and a time step, or a    *)
(* batch and its place in it; or neither.                                  *)
Totp     == [kind : {"totp"}, of : 1 .. MaxSecrets, at : 1 .. MaxStep]
Recovery == [kind : {"recovery"}, of : 1 .. MaxBatches, at : Places]
NoCode   == [kind |-> "none", of |-> None, at |-> None]
Codes    == Totp \cup Recovery \cup {NoCode}

VARIABLES
    secrets,   \* number of secrets issued
    batches,   \* number of batches of recovery codes handed out
    \* the row of the user
    pk,        \* None when there is none; else the first secret it held
    secret,    \* secret_encrypted
    active,    \* confirmed_at is not null
    lastStep,  \* last_used_step
    recovery,  \* recovery_hashes
    lock,      \* the request whose transaction has locked the row
    \* the cache
    counting,  \* the counter of failures exists
    failures,  \* its value
    \* requests
    pc, rpk, code, hashes,
    \* ghosts
    accepted,  \* codes accepted
    twice,     \* a code has been accepted twice
    undone,    \* a setup has overwritten an active factor
    wrong      \* refusals since the counter was last cleared

row     == <<pk, secret, active, lastStep, recovery>>
cache   == <<counting, failures>>
request == <<pc, rpk, code, hashes>>
ghosts  == <<accepted, twice, undone, wrong>>
vars    == <<secrets, batches, row, lock, cache, request, ghosts>>

Steps == {"idle", "issue", "confirm", "read", "claim", "recover", "burn", "verified",
          "delete", "renew", "replace", "add", "incr", "set"}

TypeOK ==
    /\ secrets \in 0 .. MaxSecrets
    /\ batches \in 0 .. MaxBatches
    /\ pk \in 0 .. secrets
    /\ secret \in 0 .. secrets
    /\ active \in BOOLEAN
    /\ lastStep \in 0 .. MaxStep
    /\ recovery \subseteq Recovery
    /\ lock \in Requests \cup {NoRequest}
    /\ counting \in BOOLEAN
    /\ failures \in Nat
    /\ pc \in [Requests -> Steps]
    /\ rpk \in [Requests -> 0 .. MaxSecrets]
    /\ code \in [Requests -> Codes]
    /\ hashes \in [Requests -> SUBSET Recovery]
    /\ accepted \subseteq Codes
    /\ twice \in BOOLEAN
    /\ undone \in BOOLEAN
    /\ wrong \in Nat

Init ==
    /\ secrets = 0 /\ batches = 0
    /\ pk = None /\ secret = None /\ active = FALSE /\ lastStep = 0 /\ recovery = {}
    /\ lock = NoRequest
    /\ counting = FALSE /\ failures = 0
    /\ pc = [r \in Requests |-> "idle"]
    /\ rpk = [r \in Requests |-> None]
    /\ code = [r \in Requests |-> NoCode] /\ hashes = [r \in Requests |-> {}]
    /\ accepted = {} /\ twice = FALSE /\ undone = FALSE /\ wrong = 0

-----------------------------------------------------------------------------
(* Helpers.                                                                *)

Goto(r, step) == pc' = [pc EXCEPT ![r] = step]

(* A request answers and forgets what it carried.                          *)
Done(r) ==
    /\ Goto(r, "idle")
    /\ rpk' = [rpk EXCEPT ![r] = None]
    /\ code' = [code EXCEPT ![r] = NoCode]
    /\ hashes' = [hashes EXCEPT ![r] = {}]

Unlocked_NotAsked(r) == TRUE

Unlocked(r) == lock \in {r, NoRequest}

Release(r) == lock' = IF lock = r THEN NoRequest ELSE lock

Blocked_OneLater == failures > MaxFailures

Blocked == failures >= MaxFailures

(* _matching_step: the code was generated from the secret.                 *)
Matches(c, s) == c.kind = "totp" /\ c.of = s

Accept(c) ==
    /\ accepted' = accepted \cup {c}
    /\ twice' = (twice \/ c \in accepted)

Batch(b) == {c \in Recovery : c.of = b}

ClearFailures == counting' = FALSE /\ failures' = 0 /\ wrong' = 0

-----------------------------------------------------------------------------
(* Enrolment.                                                              *)

(* begin_setup asks whether a factor is active ...                         *)
BeginSetup(r) ==
    /\ pc[r] = "idle"
    /\ ~active
    /\ Goto(r, "issue")
    /\ UNCHANGED <<secrets, batches, row, lock, cache, rpk, code, hashes, ghosts>>

Row_Another == secrets + 2

Row == IF pk = None THEN secrets + 1 ELSE pk

(* ... and then creates the row or resets the one there is.                *)
IssueSecret(r) ==
    /\ pc[r] = "issue"
    /\ Unlocked(r)
    /\ secrets < MaxSecrets
    /\ secrets' = secrets + 1
    /\ pk' = Row
    /\ secret' = secrets + 1
    /\ active' = FALSE /\ lastStep' = 0 /\ recovery' = {}
    /\ undone' = (undone \/ active)
    /\ Done(r)
    /\ UNCHANGED <<batches, lock, cache, accepted, twice, wrong>>

(* confirm_setup, and every verification, first looks at the counter.      *)
StartConfirm(r) ==
    /\ pc[r] = "idle"
    /\ ~Blocked
    /\ Goto(r, "confirm")
    /\ UNCHANGED <<secrets, batches, row, lock, cache, rpk, code, hashes, ghosts>>

(* The transaction of confirm_setup: no row to confirm; the code of        *)
(* another secret or step, counted as a failure before it ends; or the     *)
(* factor becomes active.                                                  *)
Pending == pk # None /\ ~active

Confirm(r, c) ==
    /\ pc[r] = "confirm"
    /\ Unlocked(r)
    /\ Pending
    /\ Matches(c, secret)
    /\ batches < MaxBatches
    /\ active' = TRUE
    /\ lastStep' = c.at
    /\ batches' = batches + 1
    /\ recovery' = Batch(batches + 1)
    /\ Accept(c)
    /\ ClearFailures
    /\ Done(r)
    /\ UNCHANGED <<secrets, pk, secret, lock, undone>>

RefuseConfirm(r, c) ==
    /\ pc[r] = "confirm"
    /\ Unlocked(r)
    /\ \/ ~Pending /\ Done(r) /\ UNCHANGED <<lock, wrong>>
       \/ /\ Pending
          /\ ~Matches(c, secret)
          /\ lock' = r
          /\ Goto(r, "add")
          /\ wrong' = wrong + 1
          /\ UNCHANGED <<rpk, code, hashes>>
    /\ UNCHANGED <<secrets, batches, row, cache, accepted, twice, undone>>

-----------------------------------------------------------------------------
(* verify.                                                                 *)

StartVerify(r) ==
    /\ pc[r] = "idle"
    /\ ~Blocked
    /\ Goto(r, "read")
    /\ UNCHANGED <<secrets, batches, row, lock, cache, rpk, code, hashes, ghosts>>

(* The row is read: the code is checked with the secret it holds.          *)
ReadFactor(r, c) ==
    /\ pc[r] = "read"
    /\ \/ /\ active
          /\ rpk' = [rpk EXCEPT ![r] = pk]
          /\ code' = [code EXCEPT ![r] = c]
          /\ Goto(r, IF Matches(c, secret) THEN "claim" ELSE "recover")
          /\ UNCHANGED hashes
       \/ ~active /\ Done(r)
    /\ UNCHANGED <<secrets, batches, row, lock, cache, ghosts>>

ClaimWins_AnyStep(r) == pk = rpk[r]

ClaimWins(r) == pk = rpk[r] /\ lastStep < code[r].at

(* UPDATE ... WHERE last_used_step < step                                  *)
ClaimStep(r) ==
    /\ pc[r] = "claim"
    /\ Unlocked(r)
    /\ \/ /\ ClaimWins(r)
          /\ lastStep' = code[r].at
          /\ Accept(code[r])
          /\ Goto(r, "verified")
       \/ /\ ~ClaimWins(r)
          /\ Goto(r, "recover")
          /\ UNCHANGED <<lastStep, accepted, twice>>
    /\ UNCHANGED <<secrets, batches, pk, secret, active, recovery, lock, cache,
                   rpk, code, hashes, undone, wrong>>

(* _consume_recovery_code locks the row and reads the hashes ...           *)
LockRecovery(r) ==
    /\ pc[r] = "recover"
    /\ Unlocked(r)
    /\ \/ pk # rpk[r] /\ Done(r) /\ UNCHANGED <<lock, wrong>>
       \/ /\ pk = rpk[r] /\ code[r] \in recovery
          /\ lock' = r
          /\ hashes' = [hashes EXCEPT ![r] = recovery]
          /\ Goto(r, "burn")
          /\ UNCHANGED <<rpk, code, wrong>>
       \/ /\ pk = rpk[r] /\ code[r] \notin recovery
          /\ Goto(r, "add")
          /\ wrong' = wrong + 1
          /\ UNCHANGED <<lock, rpk, code, hashes>>
    /\ UNCHANGED <<secrets, batches, row, cache, accepted, twice, undone>>

(* ... and saves them without the one that was used.                       *)
BurnRecovery(r) ==
    /\ pc[r] = "burn"
    /\ Unlocked(r)
    /\ recovery' = hashes[r] \ {code[r]}
    /\ Release(r)
    /\ hashes' = [hashes EXCEPT ![r] = {}]
    /\ Accept(code[r])
    /\ Goto(r, "verified")
    /\ UNCHANGED <<secrets, batches, pk, secret, active, lastStep, cache, rpk, code,
                    undone, wrong>>

(* A sign-in goes on to its session, disable and regenerate to their       *)
(* transaction.                                                            *)
Verified(r) ==
    /\ pc[r] = "verified"
    /\ ClearFailures
    /\ \/ Done(r)
       \/ \E step \in {"delete", "renew"} : Goto(r, step) /\ UNCHANGED <<rpk, code, hashes>>
    /\ UNCHANGED <<secrets, batches, row, lock, accepted, twice, undone>>

-----------------------------------------------------------------------------
(* _register_failure: cache.add, cache.incr, and cache.set when the        *)
(* counter has gone between the two.                                       *)

AddCounter(r) ==
    /\ pc[r] = "add"
    /\ counting' = TRUE
    /\ Goto(r, "incr")
    /\ UNCHANGED <<secrets, batches, row, lock, failures, rpk, code, hashes, ghosts>>

IncrCounter(r) ==
    /\ pc[r] = "incr"
    /\ \/ counting /\ failures' = failures + 1 /\ Done(r) /\ Release(r)
       \/ ~counting /\ Goto(r, "set") /\ UNCHANGED <<lock, failures, rpk, code, hashes>>
    /\ UNCHANGED <<secrets, batches, row, counting, ghosts>>

SetCounter(r) ==
    /\ pc[r] = "set"
    /\ counting' = TRUE /\ failures' = 1
    /\ Done(r)
    /\ Release(r)
    /\ UNCHANGED <<secrets, batches, row, ghosts>>

(* LOCK_SECONDS after its creation the counter is gone.                    *)
ExpireCounter ==
    /\ counting
    /\ ClearFailures
    /\ UNCHANGED <<secrets, batches, row, lock, request, accepted, twice, undone>>

-----------------------------------------------------------------------------
(* disable and regenerate_recovery_codes, after their verification.        *)

(* The row of the user, whichever it is by now.                            *)
DeleteFactor(r) ==
    /\ pc[r] = "delete"
    /\ Unlocked(r)
    /\ pk' = None /\ secret' = None /\ active' = FALSE /\ lastStep' = 0 /\ recovery' = {}
    /\ Done(r)
    /\ UNCHANGED <<secrets, batches, lock, cache, ghosts>>

ReadForCodes(r) ==
    /\ pc[r] = "renew"
    /\ \/ pk = None /\ Done(r)
       \/ pk # None /\ Goto(r, "replace") /\ rpk' = [rpk EXCEPT ![r] = pk]
          /\ UNCHANGED <<code, hashes>>
    /\ UNCHANGED <<secrets, batches, row, lock, cache, ghosts>>

(* The save fails when the row is gone.                                    *)
ReplaceCodes(r) ==
    /\ pc[r] = "replace"
    /\ Unlocked(r)
    /\ \/ /\ pk = rpk[r]
          /\ batches < MaxBatches
          /\ batches' = batches + 1
          /\ recovery' = Batch(batches + 1)
       \/ pk # rpk[r] /\ UNCHANGED <<batches, recovery>>
    /\ Done(r)
    /\ UNCHANGED <<secrets, pk, secret, active, lastStep, lock, cache, accepted, twice,
                   undone, wrong>>

(* A process dies; its transaction is rolled back.  A death between a      *)
(* refusal and its count, which loses that count, is left out.             *)
Die(r) ==
    /\ pc[r] \notin {"idle", "add", "incr", "set"}
    /\ Release(r)
    /\ Done(r)
    /\ UNCHANGED <<secrets, batches, row, cache, ghosts>>

-----------------------------------------------------------------------------

(* The codes that can be shown to a request: those that exist.             *)
Shown ==
    {c \in Totp : c.of <= secrets} \cup {c \in Recovery : c.of <= batches} \cup {NoCode}

Enrol(r) ==
    \/ BeginSetup(r) \/ IssueSecret(r) \/ StartConfirm(r)
    \/ \E c \in Shown : Confirm(r, c) \/ RefuseConfirm(r, c)

Verify(r) ==
    \/ StartVerify(r) \/ ClaimStep(r) \/ LockRecovery(r) \/ BurnRecovery(r) \/ Verified(r)
    \/ \E c \in Shown : ReadFactor(r, c)

Fail(r) == AddCounter(r) \/ IncrCounter(r) \/ SetCounter(r)

Manage(r) == DeleteFactor(r) \/ ReadForCodes(r) \/ ReplaceCodes(r)

Next ==
    \/ ExpireCounter
    \/ \E r \in Requests : Enrol(r) \/ Verify(r) \/ Fail(r) \/ Manage(r) \/ Die(r)

Spec == Init /\ [][Next]_vars

-----------------------------------------------------------------------------

(* A time-step code and a recovery code are accepted once, by whichever    *)
(* requests show them and whatever happens to the factor meanwhile, as     *)
(* long as no setup has overwritten an active factor.                      *)
CodesAcceptedOnce == ~undone => ~twice

(* New recovery codes replace every old one: no request that has read the  *)
(* old ones brings them back.                                              *)
OldCodesDie == recovery \subseteq Batch(batches)

(* A step is claimed after the ones claimed before it only, so a code is   *)
(* never accepted after one of a later step.                               *)
StepsAdvance == [][~undone /\ secret' = secret => lastStep' >= lastStep]_vars

(* Between two moments at which the counter is cleared, the refusals are   *)
(* bounded, although a failure is looked for, created, counted or set by   *)
(* separate calls.  A request late with its cache.set puts the counter     *)
(* back to one, so each of the n requests can open one round: MAX_FAILURES *)
(* - 1 refusals in each, those of the requests that were past the check    *)
(* when it closed (n - 1, n - 2, ... of them), and one more in all.        *)
RefusalsBounded ==
    LET n == Cardinality(Requests)
    IN  2 * wrong <= 2 + n * (2 * (MaxFailures - 1) + (n - 1))
=============================================================================
