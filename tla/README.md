# TLA+ models of django_resaas

This directory models parts of django_resaas, a multi-tenant SaaS framework for
Django, as TLA+ modules that TLC checks on small instances and about which TLAPS
checks theorems. Every definition is translated from the Python source; paths
below are relative to `src/django_resaas/`. `PROJECT.json` lists the components,
the runs, the mutants each property was tried against, the source lines every
definition models, the findings, the hazards and the theorems.

## 1. Inventory of the system

The framework is a library of Django apps. Requests, Celery workers, beat and
management commands are processes that share one relational database, a cache
and a broker. A request is not one transaction: only the blocks written
`transaction.atomic()` are, so two requests interleave between any two
statements outside such a block.

| Part | State it keeps | Operations | What is hard about it | What makes it correct |
|---|---|---|---|---|
| Notification outbox (`notifications/outbox_dispatcher.py`, `tasks.py`, `views/outbox.py`) | rows with a status, attempt counter and three time stamps; one attempt record per provider call | create, dispatch, deliver, recover, retry, cancel, fall back | three kinds of process write a row without a lock; broker and provider are unreliable; a slow process is indistinguishable from a dead one | one owner per delivery, attempts numbered without a gap and bounded, `sent` is true, every row settles |
| Notification engine (`engine.py`, `conditions.py`, `recipients.py`, `rendering.py`) | rules, settings, preferences, templates (read), outbox rows (created) | an event goes through its rules, recipients, consent and template | two scopes of every setting, deduplication of an occurrence | one row per occurrence, rule, channel and recipient, for committed changes only |
| Providers and tenant credentials (`providers/`, `tenant_credentials.py`) | encrypted credentials | choose a provider, send | outside services | a branch's credential wins over its entity's |
| Events (`saas/core/events/`) | listener table | emit in the process of the save | a listener that raises, in the transaction of the write | the events a listener is told are those of the writes that were committed, in their order |
| Single sign-on and sessions (`saas/core/services/sso_service.py`, `session_service.py`) | codes, refresh tokens, blacklist, logins with a family | issue, redeem, join, sign out, terminate | a redemption is four transactions; families are merged while others are extended | a code works once; a family ends together |
| Two-factor authentication (`two_factor_service.py`) | secret, last used step, recovery codes, failure counter | set up, confirm, verify, recover, disable | conditional updates, a row read outside its lock | a code is accepted once; an active factor is not reset |
| Temporary passwords (`temporary_password_service.py`) | one row per account with an encrypted copy and an expiry | issue, reveal, expire, complete, discard | a row object read early and saved late; a reset in two statements | a temporary password keeps its row and its copy, and opens no session before it is replaced |
| One-time codes, reset, registration (`otp_service.py`, ...) | code secret, failure counter in the cache | send, verify | read-then-write of a counter | the failures of a code are bounded |
| Entitlements and membership (`entitlements/service.py`, `data/entity`, `data/user`, `data/branch`) | memberships, limits | count and create under a lock of the entity | which rows are counted, what is checked before the lock; entities are counted without one; an update brings a deleted row back | no create exceeds the limits of an entity; what updates and unlocked creates add is bounded |
| Groups and guest profile (`group_access_service.py`, `guest_profile_service.py`) | memberships of groups | grant, revoke, ensure | who may manage whom | nobody grants more than they have |
| Tenant context and permissions (`tenant/context.py`, `base/permissions.py`) | none (derived per request) | resolve entity, branch and group | several sources of one fact | a request sees its own tenant only |
| Base models and views (`base/models.py`, `base/views.py`) | `deleted_at`, `state` | create, update, soft delete, restore, hard delete | an update writes every field of the object it read, whatever the row has become | the events make the record; a record that is gone stays gone |
| Permission and action synchronisation | permission rows | start-up synchronisation | idempotence | running twice changes nothing |
| Languages, sites, manifest, people matching, files, dashboards, doctor, commands, demo | content | read-only or one-off | - | - |

How they interact: a save through a base view emits an event, the engine (a
listener) creates outbox rows in the same transaction, an `on_commit` callback
and beat dispatch them through Celery, a worker delivers them and may ask the
engine for a fallback row. A sign-in passes the temporary-password and
two-factor gates, mints a refresh token and records a login; single sign-on adds
sessions to the family of another one; the account pages end sessions. Every
other request is put in a tenant context, checked for a permission, and limited
by the entitlements when it creates users or branches.

## 2. Modules

| Module | What it is |
|---|---|
| `NotificationStatus` | the statuses and `VALID_TRANSITIONS` |
| `NotificationOutbox` | the outbox: state, actions, fairness, properties, and the mapping to the abstract delivery |
| `NotificationDelivery` | the abstract specification of one delivery |
| `MCNotificationOutbox` | instances for TLC |
| `NotificationOutboxProofs` | types, ownership of a delivery, attempt records, what `sent` means, the bound on attempts, one delivery, settled rows, fallbacks, queued rows, the refinement of `NotificationDelivery` |
| `NotificationEngine` | how events become rows of the outbox, and how old rows leave it |
| `MCNotificationEngine` | instances for TLC |
| `NotificationEngineProofs` | types, one row per key, rows and changes |
| `SsoSessions` | the sessions of one user, their families and the single sign-on codes |
| `MCSsoSessions` | instances for TLC |
| `SsoSessionsProofs` | types, one session per code |
| `SsoFamilyProofs` | a sign-out reaches the sessions of its own browser only, all of them, and for good |
| `Entitlements` | the limits of one entity and of the installation, and the requests that use them up |
| `MCEntitlements` | instances for TLC |
| `EntitlementsProofs` | types, the limits |
| `TwoFactor` | the second factor of one user, its codes and its counter of failures |
| `MCTwoFactor` | instances for TLC |
| `TwoFactorProofs` | types, recovery codes, one use of a code, order of the steps, the bound of refusals |
| `Credentials` | the password of one account, its temporary copy, the requests that replace, reveal or use it |
| `MCCredentials` | instances for TLC |
| `CredentialsProofs` | types, the row and the copy of a temporary password, and which sessions come of one |
| `RecordLifecycle` | one record under the generic endpoints, and its events |
| `MCRecordLifecycle` | instances for TLC |
| `RecordLifecycleProofs` | types, what the events tell, what stays gone |

How they fit. `NotificationEngine` ends where `NotificationOutbox` begins: its
committed rows are the ones `CreateOutbox` makes, and `Close`, `Fail` and
`Reopen` are what the other one shows of a row here: a row that has ended may be
open again, by a manual retry or by the save of a worker that was recovered under. `Credentials` decides that a
password lets somebody in, `TwoFactor` accepts the second factor its challenge
waits for, and `SsoSessions` starts with the session that comes of it.
`RecordLifecycle` and `NotificationEngine` are the two ends of an event: who
tells it, with a listener that undoes the write, and who is told, as a listener
that does not.

### NotificationOutbox

The variables `status`, `attempts`, `due`, `backoff`, `expired` are the columns
of a row that a decision reads (`scheduled_at <= now`, `next_retry_at > now`,
and whether the time stamp of the current claim is past its timeout);
`created`, `succeeded`, `refused` are its attempt records by number; `queue` and
`callbacks` are the messages in the broker and the `on_commit` callbacks not run
yet. A worker has a program counter over the database statements and provider
calls of `process_notification`: `loaded` (row read), `claimed` (conditional
UPDATE won), `open` (row refreshed), `opened` (attempt record created), `finish`
(provider answered), `save` (record saved), `fallback`. It carries the status
and the attempt number it read (`wseen`, `wnum`), because the code saves from
that copy. A dispatcher is one `try_dispatch` or one batch (`claim`, `enqueue`,
`mark`, `release`); an operator is one retry or cancel request between its read
and its save.

| Action | Code |
|---|---|
| `CreateOutbox` | `NotificationEngine._create_outbox` and its `on_commit` |
| `RunCallback`, `SelectBatch`, `ClaimDispatch`, `Enqueue`, `EnqueueRaises`, `CloseDispatch` | `OutboxDispatcher.try_dispatch`, `dispatch_eligible_batch` |
| `RecoverStuck` | `OutboxDispatcher.recover_stuck` |
| `Receive` ... `SaveOutcome`, `CreateFallback` | `process_notification`, `_fail_outbox`, `create_fallback_outbox` |
| `RequestRetry`/`SaveManualRetry`, `RequestCancel`/`SaveCancel` | the `retry` and `cancel` actions of the view |
| `BecomeDue`, `BackoffElapses`, `TimeoutPasses` | the clock |
| `LoseMessage`, `DuplicateMessage`, `LoseCallback`, `CrashDispatcher`, `CrashWorker` | the broker and the processes |

`MaySlow` lets a live process outlast the recovery timeout. `EagerWorkers` lets
a worker run a task before the dispatcher that published it has written
`queued`. `FaultKinds` and `CrashPoints` choose the faults of an instance, so
that each run says under which faults its properties hold.

What the model abstracts: texts, identities and templates; the kind of provider
error is a free choice; `recover_stuck` is one step although it is two updates
over disjoint sets of rows; `RejectRow` stands for the two early rejections
(invalid recipient, provider missing) which close the attempt and fail the row
without counting the attempt. The order of a batch is the string order of
`priority` in the code (critical, high, low, normal), in the model any rank.
`dispatch_eligible_batch` returns the number of rows it selected, not of those
it claimed; nothing reads that number.

### SsoSessions

One user. `minted`, `recorded` and `ended` are the refresh tokens, the
`UserLogin` rows and the blacklist; `family` is `UserLogin.sso_family`;
`issued`, `source`, `spent` are the authorization codes. A redeemer is one
sign-in or one `POST sso/token/` and walks through `sso_family_of` (`family`,
`give`), `previous_session` (`previous`), `join_sso_family` (`join`, `join_one`,
`join_all`), `user.tokens()` (`mint`) and `record_login` (`record`). An ender is
one `sso/logout/` or `terminate_others/`: it reads its family, lists it, and
blacklists the tokens one after the other. An issuer is one `sso/code/` between
`session_ended` and the creation of the code.

| Action | Code |
|---|---|
| `StartIssue`, `CreateCode` | `sso_service.issue_code` |
| `Redeem` | `sso_service.redeem`, one transaction under the row lock |
| `ReadFamily`, `GiveFamily` | `session_service.sso_family_of` |
| `CheckPrevious`, `ReadPrevious`, `JoinFamily` | `previous_session`, `join_sso_family` |
| `StartSignIn`, `Mint`, `RecordLogin` | `_Public.session`, `record_login` |
| `SignOut`, `ListFamily`, `EndOne`, `FinishEnd` | `sign_out`, `terminate_sso_family` |
| `EndOthers`, `Terminate` | `terminate_others`, `terminate` and the plain logout |

The ghost `kin` ties a session to those that single sign-on connects it with,
independently of the family ids, so the families can be compared with it. `born`
lists the sessions minted for a code. A session with the number 0 is a token
issued before tokens carried a session id. The expiry of a code or of a token
only takes steps away and is left out; a wrong verifier, a wrong redirect and an
inactive user give the refused branch of `Redeem`, which spends the code.

### NotificationEngine

`rows` counts the committed outbox rows of each idempotency key (an occurrence,
a rule with one of its recipients, and whether the row is a fallback), `status`
is what has become of them. An emitter is one business transaction: it may tell
of its occurrence more than once, `held` is what it has inserted, invisible to
the others until it commits, `want` the key it waits for because another
transaction has inserted it. `picked` are the rows the clean-up has read and not
deleted yet. The ghost `promised` collects the keys a committed transaction
found or made, so that a row somebody else made, and then undid, is missed.

| Action | Code |
|---|---|
| `Emit`, `ListenerRaises`, `ListenerReturns` | `EventDispatcher.emit` with `NotificationEngine.on_event` |
| `ProcessRecipient`, `Resume` | `_process_rule`, `_process_recipient`, `_create_outbox` with its `get_or_create` |
| `Commit`, `RollBack` | the end of the business transaction |
| `Close`, `Fail`, `Reopen` | the worker, a late one included, `create_fallback_outbox`, the view |
| `Select`, `Delete` | the two statements of `cleanup_notifications` |
| `HardDelete` | the endpoint inherited from the base view |

Abstracted: whether the gates of a recipient are open (module, conditions,
channel, consent, address, template) is a free choice for each recipient each
time, since each of them is a read; a rule and a recipient are one target,
because nothing but the key depends on which is which; the ages the clean-up
looks at are a free choice among the ended rows.

### RecordLifecycle

`row` is the committed record: not created, alive, deleted or gone, with its
fields. A request reads it (`copy`) in a statement of its own; its write and its
event are one transaction that keeps the row locked (`new`, `holds`). `told` is
a reader that knows the record by its events only. `overtaken` notes that an
update has saved a copy that was not the record any more.

| Action | Code |
|---|---|
| `Create` | `perform_create` |
| `Load` | `get_object` and the `get_object_or_404` of `restore` and `hard_delete` |
| `Update`, `Insert`, `InsertFails` | `perform_update`: `save()` writes every field, and inserts a row it does not find |
| `Mark` | `SoftBaseModel.delete` and `restore`, which save two columns only |
| `HardDelete` | `hard_delete` |
| `Commit`, `RollBack` | `emit_lifecycle` and the end of the transaction |

A row is created once: a new record has a new primary key, so only an update can
bring a number back. The tenant filter, permissions and validation come before
the read and only refuse.

### Entitlements

One entity with a limit of users and one of branches, in an installation with a
limit of entities. `accounts`, `members` and `active` are the users, the
`EntityUser` rows and those of them in state Active, which is what `get_usage`
counts; `branches` and `entities` are the keys of the live rows. A request is one
of the five endpoints that call `require_capacity`, or an update. The first kind
looks at the membership before its transaction (`idle`), waits for the row of the
entity (`lock`), counts (`count`) and writes (`write`); the lock is released when
the transaction ends. A request for a further entity goes straight to its count,
and its transaction is seen by nobody before it commits. An update reads a live
row and saves every column of it later (`save`), with no lock and without asking
the limit; `undone` is a ghost, the branches that were deleted in between and are
alive again. A new row gets a new key in the code; the model lets it have that of
a deleted row no update has in hand, which can never come back, so that a finite
set of keys is enough.

| Action | Code |
|---|---|
| `CreateUser`, `AddGroup`, `AddUser`, `CreateBranch` | the code before the transaction of `UserAPIView.create`, `UserAPIView.addGroup`, `EntityAPIView.addUser`, `BranchAPIView.perform_create` |
| `CreateEntity` | `EntityAPIView.create` up to its count |
| `LockEntity` | `Entity.objects.select_for_update()` |
| `RequireCapacity` | `require_capacity` with `get_usage` and `get_capacity` |
| `WriteMember`, `WriteBranch`, `WriteEntity` | the creation, which may find the row taken (`Taken`) or the new entity too small for its first administrators (`AdminsFit`) |
| `RollBack` | a refused write, or a process that dies |
| `DeleteBranch`, `DeleteEntity` | the soft delete, without the lock |
| `LoadBranch`, `SaveBranch`, `LoadEntity`, `SaveEntity` | `get_object()` and the save of `PUT` and `PATCH` of `branchs/<id>/` (a `ModelViewSet`) and `entitys/<id>/` |

Left out: a limit of `None` asks nothing; entity types are counted and created
like the entities; the set-up of an installation asks for no capacity
(`docs/security/entitlements.md:179` says so); the administration site may
write any state; `removeUser` saves the row without a change, so it frees no
seat.

### TwoFactor

One user. `pk`, `secret`, `active`, `lastStep`, `recovery` are the columns of the
`UserTwoFactor` row (`pk` tells a row from one created after a deletion);
`counting` and `failures` are the cache entry of `_fail_key`. A code is the
secret and the time step it was generated from, or a batch of recovery codes and
a place in it. `lock` is the row lock of a transaction that does more than one
thing before it ends: the use of a recovery code, which saves the list it has
read, and a refused confirmation, which counts its failure inside. A transaction
that is one step takes and releases the lock within it, and every write of the
row waits for the lock (`Unlocked`).

| Action | Code |
|---|---|
| `BeginSetup`, `IssueSecret` | `begin_setup`: the check, then `update_or_create` |
| `StartConfirm`, `Confirm`, `RefuseConfirm` | `confirm_setup` |
| `StartVerify`, `ReadFactor`, `ClaimStep` | `verify`: the lock-out, the row, the conditional `UPDATE` of the step |
| `LockRecovery`, `BurnRecovery` | `_consume_recovery_code` |
| `Verified`, `DeleteFactor`, `ReadForCodes`, `ReplaceCodes` | what a verified request does: sign in, `disable`, `regenerate_recovery_codes` |
| `AddCounter`, `IncrCounter`, `SetCounter` | the three cache calls of `_register_failure` |
| `ExpireCounter`, `Die` | the cache entry times out, a process dies |

Time is left out: which steps are within the window only decides which codes are
taken, so any code that exists may be shown at any moment. A code is chosen when
it is compared, and what a verified request is for when it is verified; both are
earlier in the code and read nothing in between. Which of a user's requests are
allowed by the policy of an organisation, and the signed challenge of a sign-in,
are read-only and left out. A death between a refusal and its count loses that
count, as any process death may, and is left out of `Die`.

### Credentials

One account. A stored password is a number, `hash` the current one, `temporary`
those an administrator has issued; `row` is the `UserTemporaryPassword` with its
copy and whether it is overdue. A request has a program counter and one value:
the password it proved or read, or the row it is about to retire. `challenges`
are the signed proofs of a password that wait for a second factor. `overlap`,
`leftover`, `outrun` and `entered` are ghosts: what was under way when somebody
else stored a password, a death between the new password and the end of the row,
the temporary passwords that were replaced while a sign-in had proved them and
not asked for the state of the account yet, and the temporary passwords that have
given a session, before or after they were replaced.

| Action | Code |
|---|---|
| `Issue`, `Expire` | `issue`, and `expires_at` passing |
| `Authenticate`, `AskState`, `StateOf` | `authenticate`, `state_of` and what sign-in, first change, `viewTemporaryPassword`, `passwordSecurity` and the command do with it |
| `Retire`, `Reveal`, `Complete`, `Refuse` | `_retire`, `reveal`, `complete` |
| `Prove`, `Save`, `Discard`, `Die` | a reset by link or code and a change by the owner: the proof, `User.save` with the hash, the deletion of the row by a second statement |
| `LoadProfile`, `StoreProfile` | saves of the whole user from an object read earlier (`UserAPIView.update`, `sync_user`) |
| `SignIn`, `SecondStep` | `sign_in_gate`, the challenge, `sign_in_payload` |

Abstracted: who needs a second factor is a free choice; the links and codes of a
reset are good or not when they are asked; the encryption of the copy, hashing
and the audit records are left out.

## 3. The runs, and what they show

| Run | Instance | What it shows |
|---|---|---|
| `outbox_safety` | one row, two workers, a dispatcher, an operator with one manual retry, processes that may outlast the timeout | `OneOwner`, `LedgerContiguous`, `SentMeansAccepted`, `AttemptsBounded`, `AttemptsNeverDecrease`: a slow worker that was recovered under, and its successor, cannot both own an attempt, and none of their saves makes the row contradict its attempt records |
| `outbox_once` | a row and its fallback, two workers, two faults of any kind but the lost provider answer, a crash at every worker step but the last | `ImplementsDelivery` (refinement of `NotificationDelivery`), `DeliveredOnce`, `SettledIsFinal`, `FailureHasFallback`, `FallbackAfterFailure` |
| `outbox_progress` | two rows of different priority, batches of one, one fault, fair specification | `EventuallySettled` under the faults recovery is made for; `QueuedHasMessage`; `NextAttemptIsFree` |
| `outbox_eager_worker` | no fault at all, workers may be fast | violates `EventuallySettled` |
| `sso_families` | one redeemer, one ender, one issuer, three sessions, two codes, two families | `SignOutTouchesKinOnly`, `SignedOutForGood` |
| `sso_race` | two redeemers that may die at every step, sessions terminated under them | `CodeStartsOneSession`, `KinShareFamily` |
| `entitlements_limits` | three requests, two users, four keys, limits of one seat, one branch and one entity | `EntityWithinLimits`: no seat and no branch is created twice; `BranchesNearLimit`, `EntitiesNearLimit`: with what updates bring back and what nobody locks for, a limit is exceeded by less than the number of requests |
| `entitlements_last_seat` | two requests, two users, one seat | violates `MembersWithinLimit` |
| `two_factor` | two requests, two secrets, two batches of two codes, two steps, locked at the second failure | `CodesAcceptedOnce`, `OldCodesDie`, `StepsAdvance`, `RefusalsBounded` |
| `credentials` | two requests, three passwords after the first | `TemporaryMustChange`, `CopyOpensAccount`, `TemporaryHasCopy`: what the row of a temporary password says is true; `NoSessionByTemporary`: of all orders of sign-ins, first changes, resets and second steps, one alone gives a session for one, a sign-in that its replacement overtakes |
| `notification_engine` | two transactions, one occurrence, two recipients | `OneRowPerKey`, `PromisedIsKept`: who relies on the row of another transaction has one after it, and never two; `RowsFollowCommit`: nobody is told of a change that was rolled back |
| `record_lifecycle` | three requests, one field of two values | `EventsTellRecord`: the events played in order make the record; `GoneStaysGone` |

The bounds. Two workers are enough for every race of the outbox: a row is owned
by the worker of its current claim, and the others are former owners that all
behave alike. `MaxAttempts = 2` has a first attempt, a last one and the
boundary between them. `MaxMessages = 2` has a duplicate. Two rows with a batch
of one are one row that waits for another. `MaxFaults` bounds how often the
environment fails, which a fair run needs anyway: a broker that is down for
ever settles nothing. Three sessions are the smallest number with a source, a
replaced session and a session that belongs to neither; with a code of unknown
source, three also reach the merge of two families (the last branch of
`join_sso_family`). Two codes allow a redemption after a sign-out and two
overlapping redemptions. `sso_families` leaves the death of a sign-in out and
`sso_race` leaves the multi-step sign-out out, each to keep the other one's
interleavings complete. Two requests for one seat or one branch are one that
takes it and one that must be refused, and the third deletes, updates or creates
something else under them; four keys are one more than the three rows the bounds
allow, so that exceeding them would be seen. Two
requests on a factor are the one that carries something stale and the one that
changes the row under it; two secrets are an old and a new one, two batches and
two steps likewise, and two codes in a batch are one that is used and one that
must stay; a limit of two failures is the smallest that a late `cache.set` takes
back to an open counter. Three requests over a limit of one are two that exceed it: the bound
is attained for entities and for branches. Two
requests on a password are one that carries something stale and one that changes
the account under it, while issuing and expiry belong to neither; three new
passwords are one issued, one chosen and one that comes after both. Two
transactions and two recipients are enough for each to wait for the other, which
the database ends; a second occurrence shares no key with the first. Three
requests on a record are the one that deletes it for good and two late updates,
of which the second finds the row the first has inserted. The bounds of
`notification_engine` and `record_lifecycle` are sets only: their specifications
have no counter to cap.

The findings (quoted in full in `PROJECT.json`):

- `outbox_eager_worker`: the message is published before the row says `queued`.
  A worker that is faster than that UPDATE drops the task, and the row is then
  `queued` without a message, which neither dispatch nor recovery looks at.
- `entitlements_last_seat`: a user created by `POST users/` or `addGroup` gets a
  membership in the default state `Inactive`, which the limit does not count;
  the "last seat" can be taken any number of times that way.

Behaviour the models show that is not counted as a finding, because no document
promises otherwise, because the code's comments accept it, or because no run is
spent on it:

- `RequestRetry` accepts a row that is `dispatching`, `queued` or `retry`, as
  `VALID_TRANSITIONS` does; `docs/features/notifications.md` says `failed` only.
- `DeliveredOnce` and `ImplementsDelivery` fail with `MaySlow`: a worker that
  pauses between its claim and its refresh, is recovered under, and wakes after
  the row was sent, sends it again under the next number. They also fail when a
  provider takes a notification and its answer is lost (`ambiguous_send`).
- `FailureHasFallback` fails when the worker dies between the save of `failed`
  and the creation of the fallback row: nothing looks at the row again.
- A worker that dies after recording its attempt leaves a row recovery hands out
  without counting that attempt: every later worker computes the same number and
  fails on the unique constraint, so the row is never delivered.
  `outbox_progress` checks `NextAttemptIsFree` and `EventuallySettled` without
  that crash.
- A cancel saves over a row that was sent after it was read.
- A message the broker loses leaves its row in `queued` for ever.
- The `on_commit` fast path does not look at `scheduled_at`.
- A redemption that has passed the check of its source records its session after
  a sign-out has listed the family: the session outlives it. `SignedOutForGood`
  is about sign-outs no redemption overlaps.
- Two overlapping redemptions of one session that has no family yet may leave
  their sessions in two families; `KinShareFamily` assumes they do not overlap.
- `begin_setup` looks whether a factor is active and resets the row in a later
  statement: a confirmation in between is undone. The last step is then 0 again,
  and a request that had matched a code with the old secret may claim its step once more;
  `CodesAcceptedOnce` and `StepsAdvance` assume that race away (`~undone`).
- `disable` deletes the row the user has when it gets there, which may be one set
  up after its verification.
- `cache.set` in `_register_failure` may take the counter back to 1: each request
  in progress may open a round of refusals that way, so that three requests
  against a limit of two get seven wrong codes refused before the lock-out
  holds. `RefusalsBounded` states the bound, which is attained.
- A change of password stores the hash and deletes the row of the temporary one
  by two statements. A temporary password issued between them loses its row and
  is then an ordinary password; a death between them leaves a row with a copy
  that opens nothing. A save of the whole user from an older object brings an
  old hash back. `overlap` and `leftover` name these cases.
- A sign-in checks the password and asks for the state of the account later
  (`login.py:88`). When the owner of a temporary password replaces it in between,
  the row is gone, the sign-in takes its proof for one of a permanent password,
  and gets a session by the password that was replaced. "The user must replace it
  before getting any session" (`temporary_password_service.py:8`) holds of the
  account, not of that sign-in; `outrun` names it.
- An expiry that read its row before a new password was issued clears the new
  copy (`_retire`, temporary_password_service.py:101).
- A branch that is deleted while an update has it in hand is alive again after the
  save, which asks no limit: with a limit of one, the branch created in its place
  and the one brought back are two. `EntityWithinLimits` is about the branches
  that were created; `BranchesNearLimit` bounds all of them.
- The limit of entities is soft: two requests at a time may both create the last
  one, as `docs/security/entitlements.md:190`
  says.
- `core/events/dispatcher.py:27-33` says the engine is registered with
  `propagate=True`; `notifications/apps.py:32` registers it without, and explains
  why. The model follows the code: the engine's failure is logged and the
  transaction goes on, without the rows it had not come to.
- `cleanup_notifications` says it never deletes a row that is still to be sent
  (`tasks.py:243-246`). A row that is open again between its select and its
  delete goes all the same: an operator has retried it, or a worker that was
  recovered under has saved `retry` over a row cancelled or sent meanwhile. No
  property speaks of it, since the filter of the select is all that is left to say.
- `perform_update` writes every field of the object it read, `deleted_at`
  included: an update that overlaps a deletion undoes it, and one that overlaps a
  hard delete inserts the record again, after "Permanently deleted successfully"
  (`core/base/views.py:758`). A second hard delete of the same record tells its
  event again.

## 4. Fairness

Only `FairSpec` of `NotificationOutbox` has fairness. Beat runs the dispatch and
recovery tasks periodically (`WF` of `SelectBatch` and `RecoverStuck`), a
process that has started a request or a task goes on unless it crashes (`WF` of
each dispatcher's and each worker's next step), the broker delivers what it
holds to some worker (`WF` per row of `Receive`), and time passes (`WF` of
`Clock`). Weak fairness is enough because each of these stays enabled until it
is taken. Nothing is assumed that would make the `on_commit` callback run, an
operator act or a fault happen: the fast path may always fail.

## 5. What is proved

The proofs about the outbox hold for any finite or infinite set of rows, workers,
dispatchers and operators, any fallback mapping and any bounds, under
`ConstantsAssumption` of `NotificationOutbox` (the bounds are naturals,
`MaxAttempts` is positive, `NoRow` is no row, a fallback is a row or `NoRow`)
and `FallbackAssumption` (two rows share no fallback, because its key is made of
the key of its primary and the channel);
those about the sessions for any redeemers, issuers, enders and codes under
`BoundsAssumption` (naturals, room for one session, 0 is no code); those about
the limits for any requests and users, finite or not, under `LimitsAssumption`;
those about the second factor for any requests and codes under its own
`BoundsAssumption` (naturals, one step and one failure at least); those about the password, the
engine and the record for any requests, transactions, occurrences, targets,
fields and values, finite or not, under `CredentialsAssumption` and
`NoRowAssumption`, `EngineAssumption` and `RecordAssumption`, which say that what
stands for "none" is not one of the values. Only the bounds on all branches and
entities and the bound of refusals need a `RequestsAssumption`: the requests are
finitely many (and there is one, for the former).

Some theorems about the outbox have premises on the environment, which are those
of the run that checks the property, or weaker. They are constants of the
specification, so a premise is about an instance and not about a state. The
premises are needed: section 3 says what happens without them.

| Premise | What it says | Theorems |
|---|---|---|
| `MaySlow = FALSE` | a live process ends before the recovery timeout; one that died does not | `SettledRowsAreFinal`, `DeliveredAtMostOnce`, `FallbackIsEarned`, `NextNumberIsFree`, `OutboxImplementsDelivery` |
| `Operators = {}` | nobody retries or cancels by hand | the same |
| `"ambiguous_send" \notin FaultKinds` | a provider raises only when it did not take the notification | `DeliveredAtMostOnce`, `FallbackIsEarned`, `OutboxImplementsDelivery` |
| `"fallback" \notin CrashPoints` | no worker dies between the save of `failed` and the fallback | `FailedRowsHaveFallback` |
| no crash after the attempt record | no worker dies between the record and the save | `NextNumberIsFree` |
| no loss, `EagerWorkers = FALSE`, no crash at `loaded` | the broker loses no message, no task outruns the dispatcher that published it, no worker dies with a message it has not claimed for | `QueuedRowsHaveMessage` |

| Module | Theorem | Statement |
|---|---|---|
| `NotificationOutboxProofs` | `TypeCorrect` | `Spec => []TypeOK` |
| | `OwnerUnique` | `Spec => []OneOwner` |
| | `LedgerFollowsCounter` | `Spec => []LedgerContiguous` |
| | `AttemptsMonotone` | `Spec => AttemptsNeverDecrease` |
| | `SentIsTrue` | `Spec => []SentMeansAccepted` |
| | `AttemptsLimited` | `Spec => []AttemptsBounded` |
| | `SettledRowsAreFinal` | `Spec => SettledIsFinal` |
| | `DeliveredAtMostOnce` | `Spec => []DeliveredOnce` |
| | `FallbackIsEarned` | `Spec => FallbackAfterFailure` |
| | `FailedRowsHaveFallback` | `Spec => []FailureHasFallback` |
| | `QueuedRowsHaveMessage` | `Spec => []QueuedHasMessage` |
| | `NextNumberIsFree` | `Spec => []NextAttemptIsFree` |
| | `OutboxImplementsDelivery` | `Spec => ImplementsDelivery` |
| | `DeliveriesAreBounded` | `Spec => []DeliveriesBounded` |
| `SsoSessionsProofs` | `TypeCorrect` | `Spec => []TypeOK` |
| | `OneSessionPerCode` | `Spec => []CodeStartsOneSession` |
| `SsoFamilyProofs` | `SignOutStaysHome` | `Spec => []SignOutTouchesKinOnly` |
| | `KinStayTogether` | `Spec => []KinShareFamily` |
| | `SignOutIsForGood` | `Spec => []SignedOutForGood` |
| `EntitlementsProofs` | `TypeCorrect` | `Spec => []TypeOK` |
| | `EntityLimited` | `Spec => []EntityWithinLimits` |
| | `BranchesLimited` | `Spec => []BranchesNearLimit` |
| | `EntitiesLimited` | `Spec => []EntitiesNearLimit` |
| `TwoFactorProofs` | `TypeCorrect` | `Spec => []TypeOK` |
| | `OldCodesStayDead` | `Spec => []OldCodesDie` |
| | `NoReplay` | `Spec => []CodesAcceptedOnce` |
| | `NoStepBack` | `Spec => StepsAdvance` |
| | `RefusalsAreBounded` | `Spec => []RefusalsBounded` |
| `CredentialsProofs` | `TypeCorrect` | `Spec => []TypeOK` |
| | `TemporaryKeepsRow` | `Spec => []TemporaryMustChange` |
| | `CopyIsCurrent` | `Spec => []CopyOpensAccount` |
| | `CopyUntilExpiry` | `Spec => []TemporaryHasCopy` |
| | `NoTemporarySession` | `Spec => []NoSessionByTemporary` |
| `NotificationEngineProofs` | `TypeCorrect` | `Spec => []TypeOK` |
| | `KeyUnique` | `Spec => []OneRowPerKey` |
| | `NoRowWithoutChange` | `Spec => []RowsFollowCommit` |
| | `PromiseKept` | `Spec => []PromisedIsKept` |
| `RecordLifecycleProofs` | `TypeCorrect` | `Spec => []TypeOK` |
| | `EventsAreTrue` | `Spec => []EventsTellRecord` |
| | `GoneForGood` | `Spec => GoneStaysGone` |

In each module `TypeInv` strengthens `TypeOK` with what the program counters say of the other
variables (a worker that is not idle has a row, and so on); every other proof
starts from it.

`OneOwner` is not inductive: it must be known why a worker that opens an attempt
finds its number taken when somebody holds the row. `OwnerInv` adds that a
worker about to open has a number at most one ahead of the counter
(`OpenNumbers`), that a holder's number is exactly one ahead and recorded
(`HeldNumbers`), that the records have no gap (`LedgerContiguous`), and that the
provider is only called with recorded numbers (`CalledRecorded`). The unique
constraint then makes the second holder impossible, and a save by the only
holder moves the counter to its own number, which also proves
`AttemptsMonotone`.

`SentInv` adds to `SentMeansAccepted` that a worker about to write `sent` holds
a notification the provider has taken and has noted it in its record.
`BoundInv` adds to `AttemptsBounded` that an unsettled row has an attempt left
(`RoomLeft`) and that a worker which read an unsettled row carries a number
within the limit (`WorkersBounded`): a retry is chosen below `MaxAttempts` only,
and a manual retry raises the limit by the one attempt it buys.

With prompt processes and no operator, a row at a worker past its claim says
`processing`, its time stamp is fresh, and no second worker is past a claim of it
(`LoneWorker`): every claim asks for another status, recovery asks for an expired
row, and time passes only over a worker that died. What the worker has read is
then `processing` (`SeenProcessing`), so `transition()` lets it save, and the row
it saves was not settled: this is `SettledRowsAreFinal`. Once is enough for a
provider because of the attempt record and not of the status: a row it has taken
is `sent`, or the number after its counter is used up (`TakenRows`), by the
worker that will write `sent` or by one that died before it could. A later worker
computes that number again and fails on the constraint. A worker that owns a row
is about to write `sent` exactly when the provider has it (`OwnersKnow`), which
also makes every save a `Conclude` of `NotificationDelivery`, the creation of a
row or of a fallback a `Record`, an accepted send a `Deliver`, and every other
step a stutter (`StepsMap`).

`FailureHasFallback` needs none of this: a failed row without its fallback still
has its worker (`FallbackDue`), and a row that exists goes on existing. Neither
does `QueuedHasMessage`: a dispatcher between its publication and its last update
still has the message in the broker (`MarkedHasMessage`), and a queued row is one
that a worker with a message can claim. `NextAttemptIsFree` is what the crashes
of its run leave of `TakenRows`: a used number belongs to a failed row or to a
worker (`UsedNumberIsHeld`).

Without any premise a provider may take a row again: a provider that raised may
have taken it, and once a slow worker has saved, the next number is free for the
worker that has claimed the row meanwhile. How often is bounded all the
same. Two workers are never given the same number of a row, so the receipts are
behind the counter, or ahead of it by the one number that has been handed to the
provider and not saved (`ReceiptsFollow`); `AttemptsBounded` does the rest. The
one above the limit in `DeliveriesBounded` is real: with one attempt allowed, a
recovered worker saves `sent` after the next one has claimed the row, and that
one reads the counter, computes a number of its own and sends before
`transition()` refuses its save.

`CodeStartsOneSession` follows from `CodeInv`: a code is carried by one redeemer
at most, and only if it is spent (`Carried`); what is unspent or still carried
before its mint has started nothing (`Unborn`); a session is minted for one code
(`BornOnce`). A crash forgets the code without making it unspent.

`SignOutTouchesKinOnly` says nothing of how family ids spread, and a sign-out
uses nothing else. `FamilyInv` therefore says who is bound to a family: the
sessions that carry its id, and those a request is about to give it, or runs
for, having read it (`Bound`). All that are bound to one family are kin
(`BoundInv`). A redemption whose code has no source holds a family nobody is
bound to (`LonelyInv`), so that its id cannot be taken twice. `FamilyGrows` is
the one lemma behind the two steps that write families and tie sessions
(`JoinFamily`, `RecordLogin`): if whatever is newly bound to a family is kin of
a session being tied, the invariant survives the merge.

The two properties of redemptions that follow one another share `OrderlyInv`,
which holds until two of them overlap. Then one at most is under way (`Alone`),
its source and the session it replaces are in the family it has read (`Placed`),
and sessions tied to each other carry one family at every statement, not only
between redemptions (`Together`). For a sign-out it says that nothing it has
signed out is left alive (`SignedInv`), that what a redemption knows is not tied
to it (`Apart`), which is what asking the source again at the redemption is for,
and that a sign-out in progress that no redemption overlaps has on its list
whatever is still alive of its browser (`Reached`). `OriginsInv` says that a
source is always a recorded session, and that a session not recorded yet is tied
to nothing.

The limits of an entity follow from `LimitInv`: a request past the lock holds it
(`LockHeld`), and between its count and its write there is still room
(`StillFits`), because whoever else would create something needs the lock, and
what an update brings back is in `undone`. `active` and `branches` are finite in
every state, which `Cardinality` needs. `RowsInv` is about all rows, of branches
and of entities alike (`Bounded`). It counts the rows in use, live or in the hand
of an update, and those who have found room and not written yet: deletions and
saves add to neither, who writes moves from one to the other, and who counts
finds the live rows below the limit, so that only the requests that update
(`HeldBound`) or have counted, which are not the same (`RoomForAll`), come on
top. The lock is not needed for this.

A request that is about to burn a recovery code holds the lock, has read the list
as it still is, and its code is in it (`BurnInv`): nobody else can write the list
meanwhile, so it brings nothing back. `OnceInv` holds until a setup overwrites an
active factor. Every accepted code is behind the last step of the current secret,
or of an earlier secret, or burnt (`Spent`), and a claim in progress is about the
active factor or about a row that has gone (`Claims`); what is accepted next is
then new. The premise is needed: a reset keeps the row and takes its last step
back to 0, under a claim that was made for the old secret.

`RefusalsBounded` counts two things against each other. `wrong` grows when a code
is refused; what can still be refused depends on who is where: requests past the
check of the counter and not yet refused (`Past`), those that have been refused
and not counted it yet (`Counting`), and among these the ones that will set the
counter instead of adding to it (`Late`). `Left` bounds the refusals still to
come by these numbers and the counter, `Rounds` being what the late ones add by
opening the counter again one after the other; `RefusalInv` says that their sum
stays within the bound. A step moves one request, so a set grows or shrinks by one element
(`Parties`, `PartiesNext`) and the rest is arithmetic (`RoundsGrow`).

The properties of `Credentials` share one obstacle, a save of the whole user:
until the first one is overlapped, what it is about to save is the current hash
(`StoreCurrent`). `RowInv` adds that a change which still has to delete the row
has stored a chosen password (`DiscardChosen`), so the row it deletes is not
needed. `RetireInv` says what an expiry knows of the row it will clear: it is
overdue, unless a password was issued under it (`RetireKnows`). `EnterInv`
says that the password a sign-in has proved, if it is temporary, is still the
account's or has been noted in `outrun` (`LoginKnows`). So a sign-in which
finds no row, and with it a password that is not temporary, goes on with one
that was replaced under it (`Late`), and the challenges it leaves carry no other
(`ProofsHold`). The premise is that of `TemporaryMustChange`.

In `NotificationEngine` uniqueness rests on the two facts the constraint gives:
what a transaction has inserted has no committed row (`HeldIsNew`), and no other
transaction has inserted it (`HeldIsOwn`). `PromisedIsKept` needs that a
transaction has seen only what it holds or what is committed (`SeenIsThere`):
the insert that waits takes the row of the other one or makes its own when that
one has rolled back.

In `RecordLifecycle`, `LockInv` says what a transaction has written is due, while
it holds the row: its own copy for an update, the present row with a new mark
for a deletion or a restore (`WrittenIsDue`). Its event does to `told` what its
commit does to `row`, so the two stay equal until an update writes a copy that
is no longer the row. A mark is made of a row that exists, and a row that exists
stays while it is locked, hence `GoneForGood`.

## 6. What is only model-checked, and what is not modelled

Liveness (`EventuallySettled`) is checked by TLC only: the proof system does not
treat fairness and `ENABLED`. Every other property of a passing run is the
statement of a theorem. Both violations (`outbox_eager_worker`,
`entitlements_last_seat`) are counterexamples of TLC.

Not modelled: the components with that status in `PROJECT.json`, each with its
reason. Most of the source is not control: migrations, dictionaries of texts,
field definitions, serializers, exports, pages and read-only views. Of the parts
that are modelled: what the clean-up of attempt records takes from a row that is
still open; the rows a hard delete takes along by a foreign key; a listener that
catches a database error inside the transaction it was called in, which leaves
that transaction unable to commit; the order of several listeners; branch users
and groups; which user an organisation asks for a second factor.

## 7. Plan

1. The gate of a sign-in: the policy of the organisations and the challenge, in
   front of `TwoFactor` and `SsoSessions`.
2. The counter of failures of the one-time codes, next to that of `TwoFactor`.
3. `TenantContext`: which entity, branch and group a signed context stands for,
   and what a membership that ends in the meantime changes.
4. `GroupAccess`: who may change a profile that entities share.

Theorems to add: how far `SettledIsFinal` and `DeliveredOnce` survive slow
processes, with the races of section 3 as ghosts instead of a premise.
