---------------------------- MODULE Entitlements ----------------------------
(***************************************************************************)
(* The limits of one entity and of the installation                        *)
(* (core/entitlements/service.py) and the requests that create what they   *)
(* count: members (data/user/views/user.py, data/entity/views/entity.py),  *)
(* branches (data/branch/views/branch.py) and further entities; and the    *)
(* requests that update a branch or an entity, which save every column of  *)
(* the row they read, the mark of its deletion included.                   *)
(*                                                                         *)
(* A request looks at the membership first, then opens a transaction that  *)
(* locks the row of the entity, counts, and writes.  What a transaction    *)
(* has written is seen by others, and the lock released, when it commits.  *)
(* The entities are counted and created without any lock, and an update    *)
(* takes none.                                                             *)
(***************************************************************************)
EXTENDS Naturals, FiniteSets

CONSTANTS
    Requests,     \* requests in progress
    NoRequest,    \* nobody holds the lock of the entity's row
    Users,        \* persons that may get an account and a membership
    Keys,         \* keys a branch or an entity may have
    NoTarget,     \* the target of a request that concerns no row
    UserLimit,    \* get_capacity(context, "users")
    BranchLimit,  \* get_capacity(context, "branches")
    EntityLimit   \* get_capacity(context, "entities"), of the installation

ASSUME LimitsAssumption ==
    /\ NoRequest \notin Requests
    /\ NoTarget \notin Users \cup Keys
    /\ UserLimit \in Nat
    /\ BranchLimit \in Nat
    /\ EntityLimit \in Nat

ASSUME RequestsAssumption == IsFiniteSet(Requests) /\ Requests # {}

VARIABLES
    accounts,   \* users with an account
    members,    \* users with an EntityUser row of the entity
    active,     \* those whose row is in state Active
    branches,   \* live branches of the entity
    undone,     \* those that were deleted and that an update brought back
    entities,   \* live entities of the installation
    lock,       \* the transaction that holds the entity's row
    pc,         \* step of a request
    op,         \* what it does
    target      \* to whom, or to which row

rows    == <<accounts, members, active, branches, undone, entities>>
request == <<pc, op, target>>
vars    == <<rows, lock, request>>

(* POST users/, users/<id>/addGroup/, entitys/<id>/addUser/, POST branchs/, *)
(* POST entitys/, PUT and PATCH branchs/<id>/ and entitys/<id>/.           *)
MemberOps  == {"create_user", "add_group", "add_user"}
Operations ==
    MemberOps \cup {"create_branch", "create_entity", "update_branch", "update_entity"}

TypeOK ==
    /\ accounts \subseteq Users
    /\ members \subseteq accounts
    /\ active \subseteq members
    /\ branches \subseteq Keys
    /\ undone \subseteq branches
    /\ entities \subseteq Keys
    /\ lock \in Requests \cup {NoRequest}
    /\ pc \in [Requests -> {"idle", "lock", "count", "write", "save"}]
    /\ op \in [Requests -> Operations]
    /\ target \in [Requests -> Users \cup Keys \cup {NoTarget}]
    /\ \A p \in Requests :
          /\ pc[p] # "idle" /\ op[p] \in MemberOps => target[p] \in Users
          /\ pc[p] = "save" => op[p] \in {"update_branch", "update_entity"}
          /\ op[p] = "update_branch" => pc[p] = "save" /\ target[p] \in Keys
          /\ op[p] = "update_entity" => pc[p] = "save" /\ target[p] \in Keys

AtMost(S, n) == {A \in SUBSET S : IsFiniteSet(A) /\ Cardinality(A) <= n}

(* An entity after its set-up: its first administrators are members.       *)
Init ==
    /\ accounts \in SUBSET Users
    /\ active \in AtMost(accounts, UserLimit)
    /\ members = active
    /\ branches \in AtMost(Keys, BranchLimit)
    /\ undone = {}
    /\ entities \in AtMost(Keys, EntityLimit)
    /\ lock = NoRequest
    /\ pc = [p \in Requests |-> "idle"]
    /\ op = [p \in Requests |-> "create_user"]
    /\ target = [p \in Requests |-> NoTarget]

-----------------------------------------------------------------------------
(* What is decided before the lock.                                        *)

Begin_NoTarget(p, o, u) ==
    /\ pc[p] = "idle"
    /\ pc' = [pc EXCEPT ![p] = "lock"]
    /\ op' = [op EXCEPT ![p] = o]
    /\ UNCHANGED <<rows, lock, target>>

Begin(p, o, u) ==
    /\ pc[p] = "idle"
    /\ pc' = [pc EXCEPT ![p] = "lock"]
    /\ op' = [op EXCEPT ![p] = o]
    /\ target' = [target EXCEPT ![p] = u]
    /\ UNCHANGED <<rows, lock>>

(* The serializer refuses a name that is taken.                            *)
CreateUser(p, u) == u \in Users \ accounts /\ Begin(p, "create_user", u)

(* addGroup and addUser go to the transaction for somebody who is not a    *)
(* member; for a member they have no seat to ask for.                      *)
AddGroup(p, u) == u \in accounts \ members /\ Begin(p, "add_group", u)

AddUser(p, u) == u \in accounts \ members /\ Begin(p, "add_user", u)

CreateBranch(p) == Begin(p, "create_branch", NoTarget)

(* A further entity, straight to its count: the row that could be locked   *)
(* for it does not exist.                                                  *)
StartEntity(p, step) ==
    /\ pc[p] = "idle"
    /\ pc' = [pc EXCEPT ![p] = step]
    /\ op' = [op EXCEPT ![p] = "create_entity"]
    /\ UNCHANGED <<rows, lock, target>>

CreateEntity_Uncounted(p) == StartEntity(p, "write")

CreateEntity(p) == StartEntity(p, "count")

-----------------------------------------------------------------------------
(* The transaction.                                                        *)

Free_NotAsked(p) == TRUE

Free(p) == lock = NoRequest

(* Entity.objects.select_for_update()                                      *)
LockEntity(p) ==
    /\ pc[p] = "lock"
    /\ Free(p)
    /\ lock' = p
    /\ pc' = [pc EXCEPT ![p] = "count"]
    /\ UNCHANGED <<rows, op, target>>

(* USAGE_COUNTERS: active memberships, live branches, live entities.       *)
Usage(p) ==
    CASE op[p] \in MemberOps      -> Cardinality(active)
      [] op[p] = "create_branch" -> Cardinality(branches)
      [] op[p] = "create_entity" -> Cardinality(entities)

Limit(p) ==
    CASE op[p] \in MemberOps      -> UserLimit
      [] op[p] = "create_branch" -> BranchLimit
      [] op[p] = "create_entity" -> EntityLimit

Fits_AtLimit(p) == Usage(p) <= Limit(p)

Fits(p) == Usage(p) + 1 <= Limit(p)

(* The transaction ends, and with it the lock.                             *)
End(p) ==
    /\ lock' = IF lock = p THEN NoRequest ELSE lock
    /\ pc' = [pc EXCEPT ![p] = "idle"]
    /\ op' = [op EXCEPT ![p] = "create_user"]
    /\ target' = [target EXCEPT ![p] = NoTarget]

(* require_capacity: goes on, or raises CapacityExceeded.                  *)
RequireCapacity(p) ==
    /\ pc[p] = "count"
    /\ \/ /\ Fits(p)
          /\ pc' = [pc EXCEPT ![p] = "write"]
          /\ UNCHANGED <<lock, op, target>>
       \/ ~Fits(p) /\ End(p)
    /\ UNCHANGED rows

(* What the write itself refuses: an account or a membership that somebody *)
(* else has created since the first look.  get_or_create refuses nothing.  *)
Taken(p) ==
    \/ op[p] = "create_user" /\ target[p] \in accounts
    \/ op[p] = "add_user" /\ target[p] \in members

(* addUser names the state of the membership, the others leave it to the   *)
(* default of the column.                                                  *)
Activates(p) == op[p] = "add_user"

WriteMember(p) ==
    /\ pc[p] = "write"
    /\ op[p] \in MemberOps
    /\ ~Taken(p)
    /\ accounts' = accounts \cup {target[p]}
    /\ members' = members \cup {target[p]}
    /\ active' = IF Activates(p) THEN active \cup {target[p]} ELSE active
    /\ End(p)
    /\ UNCHANGED <<branches, undone, entities>>

(* A new row has a new key.  A deleted row that no update has in hand      *)
(* never comes back, so that its key serves as a new one.                  *)
Held(o) == {target[p] : p \in {q \in Requests : op[q] = o}}

WriteBranch(p) ==
    /\ pc[p] = "write"
    /\ op[p] = "create_branch"
    /\ \E b \in Keys \ (branches \cup Held("update_branch")) :
          branches' = branches \cup {b}
    /\ End(p)
    /\ UNCHANGED <<accounts, members, active, undone, entities>>

(* Each first administrator takes a seat and gets a branch of the new      *)
(* entity, which has the same limits; without one the creation fails.      *)
AdminsFit == 1 <= UserLimit /\ 1 <= BranchLimit

WriteEntity(p) ==
    /\ pc[p] = "write"
    /\ op[p] = "create_entity"
    /\ AdminsFit
    /\ \E e \in Keys \ (entities \cup Held("update_entity")) :
          entities' = entities \cup {e}
    /\ End(p)
    /\ UNCHANGED <<accounts, members, active, branches, undone>>

(* The write is refused, or the process dies: nothing of it remains.       *)
RollBack(p) ==
    /\ pc[p] # "idle"
    /\ End(p)
    /\ UNCHANGED rows

-----------------------------------------------------------------------------
(* Deletions and updates, neither of which takes the lock.                 *)

(* DELETE branchs/<id>/ is a soft delete.                                  *)
DeleteBranch(b) ==
    /\ b \in branches
    /\ branches' = branches \ {b}
    /\ undone' = undone \ {b}
    /\ UNCHANGED <<accounts, members, active, entities, lock, request>>

(* DELETE entitys/<id>/, of another entity than this one.                  *)
DeleteEntity(e) ==
    /\ e \in entities
    /\ entities' = entities \ {e}
    /\ UNCHANGED <<accounts, members, active, branches, undone, lock, request>>

(* get_object() of an update finds the row alive.                          *)
Load(p, o, live) ==
    /\ pc[p] = "idle"
    /\ pc' = [pc EXCEPT ![p] = "save"]
    /\ op' = [op EXCEPT ![p] = o]
    /\ \E t \in live : target' = [target EXCEPT ![p] = t]
    /\ UNCHANGED <<rows, lock>>

LoadBranch(p) == Load(p, "update_branch", branches)

LoadEntity(p) == Load(p, "update_entity", entities)

(* save() writes back every column: a row that was deleted meanwhile is    *)
(* alive again, and nobody has asked the limit.                            *)
SaveBranch(p) ==
    /\ pc[p] = "save"
    /\ op[p] = "update_branch"
    /\ branches' = branches \cup {target[p]}
    /\ undone' = undone \cup ({target[p]} \ branches)
    /\ End(p)
    /\ UNCHANGED <<accounts, members, active, entities>>

SaveEntity(p) ==
    /\ pc[p] = "save"
    /\ op[p] = "update_entity"
    /\ entities' = entities \cup {target[p]}
    /\ End(p)
    /\ UNCHANGED <<accounts, members, active, branches, undone>>

-----------------------------------------------------------------------------

Transaction(p) ==
    \/ LockEntity(p) \/ RequireCapacity(p)
    \/ WriteMember(p) \/ WriteBranch(p) \/ WriteEntity(p) \/ RollBack(p)

Ask(p) ==
    \/ CreateBranch(p) \/ CreateEntity(p)
    \/ \E u \in Users : CreateUser(p, u) \/ AddGroup(p, u) \/ AddUser(p, u)

Update(p) == LoadBranch(p) \/ LoadEntity(p) \/ SaveBranch(p) \/ SaveEntity(p)

Next ==
    \/ \E b \in Keys : DeleteBranch(b)
    \/ \E e \in Keys : DeleteEntity(e)
    \/ \E p \in Requests : Ask(p) \/ Transaction(p) \/ Update(p)

Spec == Init /\ [][Next]_vars

-----------------------------------------------------------------------------

SeatsWithinLimit == Cardinality(active) <= UserLimit

BranchesWithinLimit == Cardinality(branches \ undone) <= BranchLimit

(* Requests that count at the same time never take the last seat or the    *)
(* last branch twice: what the entity has of either stays within its       *)
(* limit, whichever endpoints ask and whatever is deleted meanwhile.  Not  *)
(* counted are the deleted branches an update that had read them brings    *)
(* back by its save (branch.py:61, a ModelViewSet), which asks no limit.   *)
EntityWithinLimits == SeatsWithinLimit /\ BranchesWithinLimit

(* With those that are brought back the limit can be exceeded, but a       *)
(* create that counts them is refused, so that the excess never adds up:   *)
(* it is less than the number of requests that run at a time.              *)
BranchesNearLimit == Cardinality(branches) < BranchLimit + Cardinality(Requests)

(* The entities are not serialised ("Two administrators creating the last  *)
(* Entity at the same instant could both succeed", docs/security/          *)
(* entitlements.md:190), and an update brings back a deleted one, but that *)
(* is all: what the limit is exceeded by is less than the number of        *)
(* requests that run at a time, however many follow and whatever is        *)
(* deleted.                                                                *)
EntitiesNearLimit == Cardinality(entities) < EntityLimit + Cardinality(Requests)

(* "two concurrent creates cannot both take the last seat" (user.py:118):  *)
(* who was let in by the limit is counted by it afterwards.                *)
MembersWithinLimit == Cardinality(members) <= UserLimit
=============================================================================
