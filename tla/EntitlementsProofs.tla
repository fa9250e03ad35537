------------------------- MODULE EntitlementsProofs -------------------------
(* Proofs that the limits of Entitlements hold for any number of requests, *)
(* users and any limits, and that what updates bring back and what is      *)
(* created without a lock exceeds a limit by what runs at the same time.   *)
EXTENDS Entitlements, FiniteSetTheorems, TLAPS

LEMMA TypeInit == Init => TypeOK
  BY LimitsAssumption DEF Init, AtMost, TypeOK, Operations, MemberOps

LEMMA TypeStep == TypeOK /\ [Next]_vars => TypeOK'
<1> SUFFICES ASSUME TypeOK, [Next]_vars PROVE TypeOK'
  OBVIOUS
<1> USE LimitsAssumption DEF TypeOK, Operations, MemberOps
<1>1. ASSUME UNCHANGED vars PROVE TypeOK'
  BY <1>1 DEF vars, rows, request
<1>2. ASSUME NEW b \in Keys, DeleteBranch(b) PROVE TypeOK'
  BY <1>2 DEF DeleteBranch, request
<1>7. ASSUME NEW e \in Keys, DeleteEntity(e) PROVE TypeOK'
  BY <1>7 DEF DeleteEntity, request
<1>3. ASSUME NEW p \in Requests, NEW o \in MemberOps \cup {"create_branch"},
             NEW u \in Users \cup {NoTarget}, o \in MemberOps => u \in Users, Begin(p, o, u)
      PROVE  TypeOK'
  BY <1>3 DEF Begin, rows
<1>8. ASSUME NEW p \in Requests, CreateEntity(p) PROVE TypeOK'
  BY <1>8 DEF CreateEntity, StartEntity, rows
<1>4. ASSUME NEW p \in Requests, Ask(p) PROVE TypeOK'
  BY <1>3, <1>4, <1>8 DEF Ask, CreateBranch, CreateUser, AddGroup, AddUser
<1>5. ASSUME NEW p \in Requests, End(p),
             accounts' \subseteq Users, members' \subseteq accounts', active' \subseteq members',
             branches' \subseteq Keys, undone' \subseteq branches', entities' \subseteq Keys
      PROVE  TypeOK'
  BY <1>5 DEF End
<1>6. ASSUME NEW p \in Requests, Transaction(p) PROVE TypeOK'
  <2>1. CASE LockEntity(p)
    BY <2>1 DEF LockEntity, rows
  <2>2. CASE RequireCapacity(p)
    BY <2>2, <1>5 DEF RequireCapacity, rows
  <2>3. CASE WriteMember(p)
    <3>1. target[p] \in Users
      BY <2>3 DEF WriteMember
    <3> QED
      BY <2>3, <3>1, <1>5 DEF WriteMember
  <2>4. CASE WriteBranch(p)
    BY <2>4, <1>5 DEF WriteBranch
  <2>5. CASE RollBack(p)
    BY <2>5, <1>5 DEF RollBack, rows
  <2>6. CASE WriteEntity(p)
    BY <2>6, <1>5 DEF WriteEntity
  <2> QED
    BY <1>6, <2>1, <2>2, <2>3, <2>4, <2>5, <2>6 DEF Transaction
<1>9. ASSUME NEW p \in Requests, Update(p) PROVE TypeOK'
  <2>1. CASE LoadBranch(p)
    BY <2>1 DEF LoadBranch, Load, rows
  <2>2. CASE LoadEntity(p)
    BY <2>2 DEF LoadEntity, Load, rows
  <2>3. CASE SaveBranch(p)
    <3>1. target[p] \in Keys
      BY <2>3 DEF SaveBranch
    <3> QED
      BY <2>3, <3>1, <1>5 DEF SaveBranch
  <2>4. CASE SaveEntity(p)
    <3>1. target[p] \in Keys
      BY <2>4 DEF SaveEntity
    <3> QED
      BY <2>4, <3>1, <1>5 DEF SaveEntity
  <2> QED
    BY <1>9, <2>1, <2>2, <2>3, <2>4 DEF Update
<1> QED
  BY <1>1, <1>2, <1>4, <1>6, <1>7, <1>9 DEF Next

(* Whatever the requests, every variable keeps its type; in particular a   *)
(* member has an account and an active member is one.                      *)
THEOREM TypeCorrect == Spec => []TypeOK
  BY TypeInit, TypeStep, PTL DEF Spec

-----------------------------------------------------------------------------
(* The limits.  The transaction that has counted holds the lock, and what  *)
(* it counted still has room for one more: the others cannot add, what an  *)
(* update brings back is not meant, and a deletion only makes room.        *)

Asked == branches \ undone

Locks(p) == pc[p] \in {"count", "write"} /\ op[p] # "create_entity"

LockHeld == \A p \in Requests : Locks(p) => lock = p

StillFits ==
    \A p \in Requests : pc[p] = "write" =>
        /\ op[p] \in MemberOps => Cardinality(active) + 1 <= UserLimit
        /\ op[p] = "create_branch" => Cardinality(Asked) + 1 <= BranchLimit

LimitInv ==
    /\ LockHeld /\ StillFits
    /\ IsFiniteSet(active) /\ SeatsWithinLimit
    /\ IsFiniteSet(branches) /\ BranchesWithinLimit

LEMMA LimitInit == Init => LimitInv
<1> SUFFICES ASSUME Init PROVE LimitInv
  OBVIOUS
<1>1. branches \ undone = branches
  BY DEF Init
<1> QED
  BY <1>1, LimitsAssumption
  DEF Init, AtMost, LimitInv, LockHeld, StillFits, Locks, SeatsWithinLimit, BranchesWithinLimit

(* One more element at most.                                               *)
LEMMA AddOne ==
  ASSUME NEW S, IsFiniteSet(S), NEW x
  PROVE  /\ IsFiniteSet(S \cup {x}) /\ Cardinality(S \cup {x}) \in Nat
         /\ Cardinality(S \cup {x}) <= Cardinality(S) + 1
<1>1. IsFiniteSet(S \cup {x})
  BY FS_AddElement
<1>2. Cardinality(S \cup {x}) = IF x \in S THEN Cardinality(S) ELSE Cardinality(S) + 1
  BY FS_AddElement
<1>3. Cardinality(S) \in Nat
  BY FS_CardinalityType
<1> QED
  BY <1>1, <1>2, <1>3

(* Of the branches, those that count for the limit.                        *)
LEMMA AskedCount ==
  ASSUME LimitInv
  PROVE  /\ IsFiniteSet(Asked) /\ Cardinality(Asked) \in Nat
         /\ Cardinality(Asked) <= Cardinality(branches)
         /\ Cardinality(branches) \in Nat
         /\ Cardinality(active) \in Nat
  BY FS_Subset, FS_CardinalityType DEF LimitInv, Asked

(* What a step must do to the counts when nobody gets the right to write.  *)
LEMMA NoMoreCounted ==
  ASSUME TypeOK, LimitInv, LockHeld',
         active' = active, IsFiniteSet(branches'), Asked' \subseteq Asked,
         \A p \in Requests : pc'[p] = "write" => pc[p] = "write" /\ op'[p] = op[p]
  PROVE  LimitInv'
<1>1. Cardinality(Asked') <= Cardinality(Asked) /\ Cardinality(Asked') \in Nat
  BY AskedCount, FS_Subset, FS_CardinalityType
<1>2. BranchesWithinLimit' /\ SeatsWithinLimit'
  BY <1>1, AskedCount, LimitsAssumption DEF LimitInv, BranchesWithinLimit, SeatsWithinLimit, Asked
<1>3. StillFits'
  BY <1>1, AskedCount, LimitsAssumption DEF LimitInv, StillFits
<1> QED
  BY <1>2, <1>3 DEF LimitInv

(* A transaction that ends leaves the lock to nobody or to who has it.     *)
LEMMA EndKeepsLock ==
  ASSUME TypeOK, LockHeld, NEW p \in Requests, End(p)
  PROVE  LockHeld'
  BY LimitsAssumption DEF TypeOK, LockHeld, Locks, End

(* When one that had the lock ends, nobody else is about to write.         *)
LEMMA EndKeepsCounts ==
  ASSUME TypeOK, LockHeld, NEW p \in Requests, Locks(p), End(p)
  PROVE  StillFits'
  BY LimitsAssumption DEF TypeOK, LockHeld, StillFits, Locks, End, MemberOps

LEMMA LimitStep == TypeOK /\ LimitInv /\ [Next]_vars => LimitInv'
<1> SUFFICES ASSUME TypeOK, LimitInv, [Next]_vars PROVE LimitInv'
  OBVIOUS
<1> USE LimitsAssumption
<1>1. ASSUME UNCHANGED vars PROVE LimitInv'
  BY <1>1, NoMoreCounted DEF vars, rows, request, LimitInv, LockHeld, Locks, Asked
<1>2. ASSUME NEW b \in Keys, DeleteBranch(b) PROVE LimitInv'
  <2>1. IsFiniteSet(branches \ {b})
    BY FS_RemoveElement DEF LimitInv
  <2> QED
    BY <1>2, <2>1, NoMoreCounted DEF DeleteBranch, request, LimitInv, LockHeld, Locks, Asked
<1>3. ASSUME NEW e \in Keys, DeleteEntity(e) PROVE LimitInv'
  BY <1>3, NoMoreCounted DEF DeleteEntity, request, LimitInv, LockHeld, Locks, Asked
<1>4. ASSUME NEW p \in Requests, Ask(p) PROVE LimitInv'
  <2>1. ASSUME NEW o, NEW u, Begin(p, o, u) PROVE LimitInv'
    BY <2>1, NoMoreCounted DEF Begin, rows, TypeOK, LimitInv, LockHeld, Locks, Asked
  <2>2. CASE CreateEntity(p)
    BY <2>2, NoMoreCounted
    DEF CreateEntity, StartEntity, rows, TypeOK, LimitInv, LockHeld, Locks, Asked
  <2> QED
    BY <1>4, <2>1, <2>2 DEF Ask, CreateBranch, CreateUser, AddGroup, AddUser
<1>5. ASSUME NEW p \in Requests, LockEntity(p) PROVE LimitInv'
  BY <1>5, NoMoreCounted DEF LockEntity, Free, rows, TypeOK, LimitInv, LockHeld, Locks, Asked
<1>6. ASSUME NEW p \in Requests, End(p), active' = active, IsFiniteSet(branches'), Asked' \subseteq Asked
      PROVE  LimitInv'
  <2>1. LockHeld'
    BY <1>6, EndKeepsLock DEF LimitInv
  <2>2. \A q \in Requests : pc'[q] = "write" => pc[q] = "write" /\ op'[q] = op[q]
    BY <1>6 DEF End, TypeOK
  <2> QED
    BY <1>6, <2>1, <2>2, NoMoreCounted
<1>7. ASSUME NEW p \in Requests, RequireCapacity(p) PROVE LimitInv'
  <2>1. CASE End(p)
    BY <1>6, <1>7, <2>1 DEF RequireCapacity, rows, LimitInv, Asked
  <2>2. CASE Fits(p) /\ pc' = [pc EXCEPT ![p] = "write"] /\ UNCHANGED <<lock, op, target>>
    <3>1. UNCHANGED rows
      BY <1>7 DEF RequireCapacity
    <3>2. LockHeld'
      BY <1>7, <2>2 DEF RequireCapacity, TypeOK, LimitInv, LockHeld, Locks
    <3>3. op[p] \in MemberOps => Cardinality(active) + 1 <= UserLimit
      BY <2>2 DEF Fits, Usage, Limit, MemberOps
    <3>4. op[p] = "create_branch" => Cardinality(Asked) + 1 <= BranchLimit
      BY <2>2, AskedCount DEF Fits, Usage, Limit, MemberOps
    <3>5. StillFits'
      BY <2>2, <3>1, <3>3, <3>4 DEF rows, TypeOK, LimitInv, StillFits, Asked
    <3> QED
      BY <3>1, <3>2, <3>5 DEF rows, LimitInv, SeatsWithinLimit, BranchesWithinLimit
  <2> QED
    BY <1>7, <2>1, <2>2 DEF RequireCapacity
<1>8. ASSUME NEW p \in Requests, WriteMember(p) PROVE LimitInv'
  <2>1. LockHeld' /\ StillFits'
    BY <1>8, EndKeepsLock, EndKeepsCounts DEF WriteMember, MemberOps, Locks, LimitInv
  <2>2. Cardinality(active) + 1 <= UserLimit
    BY <1>8 DEF WriteMember, LimitInv, StillFits
  <2>3. /\ IsFiniteSet(active \cup {target[p]})
        /\ Cardinality(active \cup {target[p]}) <= Cardinality(active) + 1
    BY AddOne DEF LimitInv
  <2>4. IsFiniteSet(active') /\ Cardinality(active') <= UserLimit
    <3>1. CASE Activates(p)
      <4>1. Cardinality(active \cup {target[p]}) \in Nat
        BY <2>3, FS_CardinalityType
      <4> QED
        BY <1>8, <2>2, <2>3, <3>1, <4>1, AskedCount DEF WriteMember
    <3>2. CASE ~Activates(p)
      BY <1>8, <3>2 DEF WriteMember, LimitInv, SeatsWithinLimit
    <3> QED
      BY <3>1, <3>2
  <2> QED
    BY <1>8, <2>1, <2>4 DEF WriteMember, LimitInv, SeatsWithinLimit, BranchesWithinLimit
<1>9. ASSUME NEW p \in Requests, WriteBranch(p) PROVE LimitInv'
  <2>1. LockHeld' /\ StillFits'
    BY <1>9, EndKeepsLock, EndKeepsCounts DEF WriteBranch, Locks, LimitInv
  <2>2. Cardinality(Asked) + 1 <= BranchLimit
    BY <1>9 DEF WriteBranch, LimitInv, StillFits
  <2>3. PICK b \in Keys : branches' = branches \cup {b} /\ undone' = undone /\ active' = active
    BY <1>9 DEF WriteBranch
  <2>4. IsFiniteSet(branches')
    BY <2>3, FS_AddElement DEF LimitInv
  <2>5. Asked' \subseteq Asked \cup {b}
    BY <2>3 DEF Asked
  <2>6. /\ IsFiniteSet(Asked \cup {b}) /\ Cardinality(Asked \cup {b}) \in Nat
        /\ Cardinality(Asked \cup {b}) <= Cardinality(Asked) + 1
    BY AskedCount, AddOne
  <2>7. Cardinality(Asked') <= Cardinality(Asked \cup {b}) /\ Cardinality(Asked') \in Nat
    BY <2>5, <2>6, FS_Subset, FS_CardinalityType
  <2> QED
    BY <2>1, <2>2, <2>3, <2>4, <2>6, <2>7, AskedCount
    DEF LimitInv, SeatsWithinLimit, BranchesWithinLimit, Asked
<1>10. ASSUME NEW p \in Requests, WriteEntity(p) \/ RollBack(p) \/ SaveEntity(p) PROVE LimitInv'
  BY <1>6, <1>10 DEF WriteEntity, RollBack, SaveEntity, rows, LimitInv, Asked
<1>11. ASSUME NEW p \in Requests, LoadBranch(p) \/ LoadEntity(p) PROVE LimitInv'
  BY <1>11, NoMoreCounted
  DEF LoadBranch, LoadEntity, Load, rows, TypeOK, LimitInv, LockHeld, Locks, Asked
<1>12. ASSUME NEW p \in Requests, SaveBranch(p) PROVE LimitInv'
  <2>1. IsFiniteSet(branches \cup {target[p]})
    BY FS_AddElement DEF LimitInv
  <2> QED
    BY <1>6, <1>12, <2>1 DEF SaveBranch, Asked
<1> QED
  BY <1>1, <1>2, <1>3, <1>4, <1>5, <1>7, <1>8, <1>9, <1>10, <1>11, <1>12
  DEF Next, Transaction, Update

LEMMA Limited == Spec => []LimitInv
  BY TypeCorrect, LimitInit, LimitStep, PTL DEF Spec

(* However many requests ask and branches are deleted at a time, the       *)
(* active members and the branches created under the limit stay within it; *)
(* not counted is a branch whose deletion an update has undone.            *)
THEOREM EntityLimited == Spec => []EntityWithinLimits
<1>1. LimitInv => EntityWithinLimits
  BY DEF LimitInv, EntityWithinLimits
<1> QED
  BY <1>1, Limited, PTL

-----------------------------------------------------------------------------
(* The rows in use: those alive and those an update may bring back.  Who   *)
(* counts the live ones finds room for one more; everybody who has counted *)
(* before may still write, and everybody who has read a row save.          *)

BranchesInUse == branches \cup Held("update_branch")

EntitiesInUse == entities \cup Held("update_entity")

Creating(o) == {p \in Requests : pc[p] = "write" /\ op[p] = o}

Updating(o) == {p \in Requests : op[p] = o}

(* Rows in use, requests about to create one more, and a limit.            *)
Bounded(S, R, n) ==
    IsFiniteSet(S) /\ Cardinality(S) + Cardinality(R) <= n + Cardinality(Requests) - 1

BranchesInv == Bounded(BranchesInUse, Creating("create_branch"), BranchLimit)

EntitiesInv == Bounded(EntitiesInUse, Creating("create_entity"), EntityLimit)

RowsInv == BranchesInv /\ EntitiesInv

LEMMA RequestsCount == Cardinality(Requests) \in Nat \ {0}
  BY RequestsAssumption, FS_CardinalityType, FS_EmptySet

(* A set of requests has at most as many as there are.                     *)
LEMMA SomeRequests ==
  ASSUME NEW R \in SUBSET Requests
  PROVE  IsFiniteSet(R) /\ Cardinality(R) \in 0 .. Cardinality(Requests)
  BY RequestsAssumption, FS_Subset, FS_CardinalityType, RequestsCount

(* An update has one row in hand.                                          *)
LEMMA HeldBound ==
  ASSUME NEW o
  PROVE  IsFiniteSet(Held(o)) /\ Cardinality(Held(o)) <= Cardinality(Updating(o))
<1> DEFINE f == [p \in Updating(o) |-> target[p]]
<1>1. f \in Surjection(Updating(o), Held(o))
  BY DEF Updating, Held, Surjection
<1>2. IsFiniteSet(Updating(o))
  BY SomeRequests DEF Updating
<1> QED
  BY <1>1, <1>2, FS_Surjection

(* A step that adds neither a row in use nor somebody about to create one. *)
LEMMA FewerRows ==
  ASSUME NEW A, NEW B \in SUBSET A, NEW R \in SUBSET Requests, NEW T \in SUBSET R,
         NEW n \in Nat, Bounded(A, R, n)
  PROVE  Bounded(B, T, n)
<1>1. /\ IsFiniteSet(B) /\ Cardinality(B) <= Cardinality(A)
      /\ Cardinality(B) \in Nat /\ Cardinality(A) \in Nat
  BY FS_Subset, FS_CardinalityType DEF Bounded
<1>2. Cardinality(T) <= Cardinality(R) /\ Cardinality(T) \in Nat /\ Cardinality(R) \in Nat
  BY SomeRequests, FS_Subset, FS_CardinalityType
<1> QED
  BY <1>1, <1>2, RequestsCount DEF Bounded

(* Somebody who was about to create a row has created it.                  *)
LEMMA OneMoreRow ==
  ASSUME NEW A, NEW b, NEW B \in SUBSET (A \cup {b}), NEW R \in SUBSET Requests,
         NEW p \in R, NEW n \in Nat, Bounded(A, R, n)
  PROVE  Bounded(B, R \ {p}, n)
<1>1. IsFiniteSet(A) /\ Cardinality(A) \in Nat
  BY FS_CardinalityType DEF Bounded
<1>2. IsFiniteSet(A \cup {b}) /\ Cardinality(A \cup {b}) <= Cardinality(A) + 1
  BY <1>1, AddOne
<1>3. /\ IsFiniteSet(B) /\ Cardinality(B) <= Cardinality(A \cup {b})
      /\ Cardinality(B) \in Nat /\ Cardinality(A \cup {b}) \in Nat
  BY <1>2, FS_Subset, FS_CardinalityType
<1>4. Cardinality(R \ {p}) = Cardinality(R) - 1 /\ Cardinality(R) \in Nat
  BY SomeRequests, FS_RemoveElement
<1> QED
  BY <1>1, <1>2, <1>3, <1>4, RequestsCount DEF Bounded

(* Somebody has counted the live rows A and found room: those who update   *)
(* and those who create are not the same requests.                         *)
LEMMA RoomForAll ==
  ASSUME NEW A, IsFiniteSet(A), NEW n \in Nat, Cardinality(A) + 1 <= n,
         NEW H, IsFiniteSet(H), NEW U \in SUBSET Requests, NEW R \in SUBSET (Requests \ U),
         Cardinality(H) <= Cardinality(U)
  PROVE  Bounded(A \cup H, R, n)
<1>1. Cardinality(A) \in Nat /\ Cardinality(H) \in Nat
  BY FS_CardinalityType
<1>2. /\ IsFiniteSet(A \cup H) /\ Cardinality(A \cup H) \in Nat
      /\ Cardinality(A \cup H) <= Cardinality(A) + Cardinality(H)
  <2>1. Cardinality(A \cap H) \in Nat
    BY FS_Intersection, FS_CardinalityType
  <2> QED
    BY <1>1, <2>1, FS_Union, FS_CardinalityType
<1>3. Cardinality(U) + Cardinality(R) <= Cardinality(Requests)
  <2>1. IsFiniteSet(U) /\ IsFiniteSet(R) /\ U \cap R = {}
    BY SomeRequests
  <2>2. Cardinality(U \cup R) = Cardinality(U) + Cardinality(R)
    <3>1. Cardinality(U \cup R) = Cardinality(U) + Cardinality(R) - Cardinality(U \cap R)
      BY <2>1, FS_Union
    <3>2. Cardinality(U \cap R) = 0
      BY <2>1, FS_EmptySet
    <3>3. Cardinality(U) \in Nat /\ Cardinality(R) \in Nat
      BY SomeRequests
    <3> QED
      BY <3>1, <3>2, <3>3
  <2>3. Cardinality(U \cup R) \in 0 .. Cardinality(Requests)
    BY SomeRequests
  <2> QED
    BY <2>2, <2>3
<1>4. Cardinality(U) \in Nat /\ Cardinality(R) \in Nat
  BY SomeRequests
<1> QED
  BY <1>1, <1>2, <1>3, <1>4, RequestsCount DEF Bounded

(* A step in which nobody reads a row, creates one or is let through.      *)
LEMMA NoMoreRows ==
  ASSUME TypeOK, RowsInv,
         BranchesInUse' \subseteq BranchesInUse, EntitiesInUse' \subseteq EntitiesInUse,
         \A o \in {"create_branch", "create_entity"} : Creating(o)' \subseteq Creating(o)
  PROVE  RowsInv'
<1>1. Creating("create_branch") \subseteq Requests /\ Creating("create_entity") \subseteq Requests
  BY DEF Creating
<1>2. BranchesInv'
  BY <1>1, FewerRows, LimitsAssumption DEF RowsInv, BranchesInv
<1>3. EntitiesInv'
  BY <1>1, FewerRows, LimitsAssumption DEF RowsInv, EntitiesInv
<1> QED
  BY <1>2, <1>3 DEF RowsInv

(* A request that ends has nothing in hand any more.                       *)
LEMMA EndLetsGo ==
  ASSUME TypeOK, NEW p \in Requests, End(p)
  PROVE  /\ \A o \in {"update_branch", "update_entity"} : Held(o)' \subseteq Held(o)
         /\ \A o \in {"create_branch", "create_entity"} : Creating(o)' = Creating(o) \ {p}
  BY DEF TypeOK, End, Held, Creating

LEMMA RowsInit == Init => RowsInv
<1> SUFFICES ASSUME Init PROVE RowsInv
  OBVIOUS
<1>1. Creating("create_branch") = {} /\ Creating("create_entity") = {}
  BY DEF Init, Creating
<1>2. BranchesInUse = branches /\ EntitiesInUse = entities
  BY DEF Init, BranchesInUse, EntitiesInUse, Held
<1>3. /\ IsFiniteSet(branches) /\ Cardinality(branches) <= BranchLimit
      /\ IsFiniteSet(entities) /\ Cardinality(entities) <= EntityLimit
  BY DEF Init, AtMost
<1>4. Cardinality(branches) \in Nat /\ Cardinality(entities) \in Nat
  BY <1>3, FS_CardinalityType
<1>5. Cardinality(Creating("create_branch")) = 0 /\ Cardinality(Creating("create_entity")) = 0
  BY <1>1, FS_EmptySet
<1> QED
  BY <1>2, <1>3, <1>4, <1>5, RequestsCount, LimitsAssumption
  DEF RowsInv, BranchesInv, EntitiesInv, Bounded

LEMMA RowsStep == TypeOK /\ RowsInv /\ [Next]_vars => RowsInv'
<1> SUFFICES ASSUME TypeOK, RowsInv, [Next]_vars PROVE RowsInv'
  OBVIOUS
<1> USE LimitsAssumption
<1> USE DEF BranchesInUse, EntitiesInUse
<1>1. ASSUME UNCHANGED vars PROVE RowsInv'
  BY <1>1, NoMoreRows DEF vars, rows, request, Held, Creating
<1>2. ASSUME NEW b \in Keys, DeleteBranch(b) \/ DeleteEntity(b) PROVE RowsInv'
  BY <1>2, NoMoreRows DEF DeleteBranch, DeleteEntity, request, Held, Creating
<1>3. ASSUME NEW p \in Requests, Ask(p) PROVE RowsInv'
  <2>1. ASSUME NEW o \in MemberOps \cup {"create_branch"}, NEW u, Begin(p, o, u) PROVE RowsInv'
    <3>1. \A h \in {"update_branch", "update_entity"} : Held(h)' \subseteq Held(h)
      BY <2>1 DEF Begin, TypeOK, Held, MemberOps
    <3>2. \A c \in {"create_branch", "create_entity"} : Creating(c)' \subseteq Creating(c)
      BY <2>1 DEF Begin, TypeOK, Creating
    <3> QED
      BY <2>1, <3>1, <3>2, NoMoreRows DEF Begin, rows
  <2>2. CASE CreateEntity(p)
    <3>1. \A h \in {"update_branch", "update_entity"} : Held(h)' \subseteq Held(h)
      BY <2>2 DEF CreateEntity, StartEntity, TypeOK, Held
    <3>2. \A c \in {"create_branch", "create_entity"} : Creating(c)' \subseteq Creating(c)
      BY <2>2 DEF CreateEntity, StartEntity, TypeOK, Creating
    <3> QED
      BY <2>2, <3>1, <3>2, NoMoreRows DEF CreateEntity, StartEntity, rows
  <2> QED
    BY <1>3, <2>1, <2>2 DEF Ask, CreateBranch, CreateUser, AddGroup, AddUser, MemberOps
<1>4. ASSUME NEW p \in Requests, LockEntity(p) PROVE RowsInv'
  BY <1>4, NoMoreRows DEF LockEntity, rows, TypeOK, Held, Creating
<1>5. ASSUME NEW p \in Requests, End(p),
             branches' \subseteq BranchesInUse, entities' \subseteq EntitiesInUse
      PROVE  RowsInv'
  BY <1>5, EndLetsGo, NoMoreRows
<1>6. ASSUME NEW p \in Requests, RequireCapacity(p) PROVE RowsInv'
  <2>1. CASE End(p)
    BY <1>5, <1>6, <2>1 DEF RequireCapacity, rows
  <2>2. CASE Fits(p) /\ pc' = [pc EXCEPT ![p] = "write"] /\ UNCHANGED <<lock, op, target>>
    <3>1. UNCHANGED rows /\ \A o : Held(o)' = Held(o)
      BY <1>6, <2>2 DEF RequireCapacity, Held
    <3>2. \A o : op[p] # o => Creating(o)' \subseteq Creating(o)
      BY <2>2 DEF TypeOK, Creating
    <3>3. Updating("update_branch") \in SUBSET Requests /\ Updating("update_entity") \in SUBSET Requests
      BY DEF Updating
    <3>4. /\ Creating("create_branch")' \in SUBSET (Requests \ Updating("update_branch"))
          /\ Creating("create_entity")' \in SUBSET (Requests \ Updating("update_entity"))
      BY <2>2 DEF Creating, Updating
    <3>5. IsFiniteSet(branches) /\ IsFiniteSet(entities)
      BY FS_Subset DEF RowsInv, BranchesInv, EntitiesInv, Bounded
    <3>6. BranchesInv'
      <4>1. CASE op[p] = "create_branch"
        <5>1. Cardinality(branches) + 1 <= BranchLimit
          BY <2>2, <4>1 DEF Fits, Usage, Limit, MemberOps
        <5>2. Bounded(branches \cup Held("update_branch"), Creating("create_branch")', BranchLimit)
          BY <3>3, <3>4, <3>5, <5>1, HeldBound, RoomForAll
        <5> QED
          BY <3>1, <5>2 DEF rows, BranchesInv
      <4>2. CASE op[p] # "create_branch"
        <5>1. Bounded(BranchesInUse, Creating("create_branch")', BranchLimit)
          BY <3>2, <4>2, FewerRows DEF RowsInv, BranchesInv, Creating
        <5> QED
          BY <3>1, <5>1 DEF rows, BranchesInv
      <4> QED
        BY <4>1, <4>2
    <3>7. EntitiesInv'
      <4>1. CASE op[p] = "create_entity"
        <5>1. Cardinality(entities) + 1 <= EntityLimit
          BY <2>2, <4>1 DEF Fits, Usage, Limit, MemberOps
        <5>2. Bounded(entities \cup Held("update_entity"), Creating("create_entity")', EntityLimit)
          BY <3>3, <3>4, <3>5, <5>1, HeldBound, RoomForAll
        <5> QED
          BY <3>1, <5>2 DEF rows, EntitiesInv
      <4>2. CASE op[p] # "create_entity"
        <5>1. Bounded(EntitiesInUse, Creating("create_entity")', EntityLimit)
          BY <3>2, <4>2, FewerRows DEF RowsInv, EntitiesInv, Creating
        <5> QED
          BY <3>1, <5>1 DEF rows, EntitiesInv
      <4> QED
        BY <4>1, <4>2
    <3> QED
      BY <3>6, <3>7 DEF RowsInv
  <2> QED
    BY <1>6, <2>1, <2>2 DEF RequireCapacity
<1>7. ASSUME NEW p \in Requests, WriteMember(p) \/ RollBack(p) PROVE RowsInv'
  BY <1>5, <1>7 DEF WriteMember, RollBack, rows
<1>8. ASSUME NEW p \in Requests, WriteBranch(p) PROVE RowsInv'
  <2>1. PICK b \in Keys : branches' = branches \cup {b} /\ entities' = entities /\ End(p)
    BY <1>8 DEF WriteBranch
  <2>2. p \in Creating("create_branch")
    BY <1>8 DEF WriteBranch, Creating
  <2>3. BranchesInv'
    <3>1. BranchesInUse' \in SUBSET (BranchesInUse \cup {b})
      BY <2>1, EndLetsGo
    <3>2. Creating("create_branch")' = Creating("create_branch") \ {p}
      BY <2>1, EndLetsGo
    <3>3. Bounded(BranchesInUse, Creating("create_branch"), BranchLimit)
      BY DEF RowsInv, BranchesInv
    <3>4. Creating("create_branch") \in SUBSET Requests
      BY DEF Creating
    <3>5. Bounded(BranchesInUse', Creating("create_branch") \ {p}, BranchLimit)
      BY <2>2, <3>1, <3>3, <3>4, OneMoreRow
    <3> QED
      BY <3>2, <3>5 DEF BranchesInv
  <2>4. EntitiesInv'
    <3>1. EntitiesInUse' \in SUBSET EntitiesInUse
      BY <2>1, EndLetsGo
    <3>2. Creating("create_entity")' \in SUBSET Creating("create_entity")
      BY <2>1, EndLetsGo
    <3> QED
      BY <3>1, <3>2, FewerRows DEF RowsInv, EntitiesInv, Creating
  <2> QED
    BY <2>3, <2>4 DEF RowsInv
<1>9. ASSUME NEW p \in Requests, WriteEntity(p) PROVE RowsInv'
  <2>1. PICK e \in Keys : entities' = entities \cup {e} /\ branches' = branches /\ End(p)
    BY <1>9 DEF WriteEntity
  <2>2. p \in Creating("create_entity")
    BY <1>9 DEF WriteEntity, Creating
  <2>3. EntitiesInv'
    <3>1. EntitiesInUse' \in SUBSET (EntitiesInUse \cup {e})
      BY <2>1, EndLetsGo
    <3>2. Creating("create_entity")' = Creating("create_entity") \ {p}
      BY <2>1, EndLetsGo
    <3>3. Bounded(EntitiesInUse, Creating("create_entity"), EntityLimit)
      BY DEF RowsInv, EntitiesInv
    <3>4. Creating("create_entity") \in SUBSET Requests
      BY DEF Creating
    <3>5. Bounded(EntitiesInUse', Creating("create_entity") \ {p}, EntityLimit)
      BY <2>2, <3>1, <3>3, <3>4, OneMoreRow
    <3> QED
      BY <3>2, <3>5 DEF EntitiesInv
  <2>4. BranchesInv'
    <3>1. BranchesInUse' \in SUBSET BranchesInUse
      BY <2>1, EndLetsGo
    <3>2. Creating("create_branch")' \in SUBSET Creating("create_branch")
      BY <2>1, EndLetsGo
    <3> QED
      BY <3>1, <3>2, FewerRows DEF RowsInv, BranchesInv, Creating
  <2> QED
    BY <2>3, <2>4 DEF RowsInv
<1>10. ASSUME NEW p \in Requests, LoadBranch(p) \/ LoadEntity(p) PROVE RowsInv'
  <2>1. PICK o \in {"update_branch", "update_entity"}, t \in Keys :
           /\ o = "update_branch" => t \in branches
           /\ o = "update_entity" => t \in entities
           /\ pc[p] = "idle" /\ pc' = [pc EXCEPT ![p] = "save"]
           /\ op' = [op EXCEPT ![p] = o] /\ target' = [target EXCEPT ![p] = t]
           /\ branches' = branches /\ entities' = entities
    BY <1>10 DEF LoadBranch, LoadEntity, Load, rows, TypeOK
  <2>2. BranchesInUse' \subseteq BranchesInUse /\ EntitiesInUse' \subseteq EntitiesInUse
    BY <2>1 DEF TypeOK, Held
  <2>3. \A c \in {"create_branch", "create_entity"} : Creating(c)' \subseteq Creating(c)
    BY <2>1 DEF TypeOK, Creating
  <2> QED
    BY <2>2, <2>3, NoMoreRows
<1>11. ASSUME NEW p \in Requests, SaveBranch(p) \/ SaveEntity(p) PROVE RowsInv'
  <2>1. target[p] \in Held(op[p])
    BY DEF Held
  <2> QED
    BY <1>5, <1>11, <2>1 DEF SaveBranch, SaveEntity
<1> QED
  BY <1>1, <1>2, <1>3, <1>4, <1>6, <1>7, <1>8, <1>9, <1>10, <1>11 DEF Next, Transaction, Update

LEMMA RowsBounded == Spec => []RowsInv
  BY TypeCorrect, RowsInit, RowsStep, PTL DEF Spec

(* The live rows are among those in use.                                   *)
LEMMA LiveBound ==
  ASSUME NEW S, NEW T \in SUBSET S, NEW R \in SUBSET Requests, NEW n \in Nat, Bounded(S, R, n)
  PROVE  Cardinality(T) < n + Cardinality(Requests)
<1>1. Bounded(T, R, n)
  BY FewerRows
<1>2. Cardinality(T) \in Nat /\ Cardinality(R) \in Nat
  BY <1>1, SomeRequests, FS_CardinalityType DEF Bounded
<1> QED
  BY <1>1, <1>2, RequestsCount DEF Bounded

(* However many branches are created, deleted and updated at a time, and   *)
(* however often an update undoes a deletion, an entity has more branches  *)
(* than its limit by less than the number of requests.                     *)
THEOREM BranchesLimited == Spec => []BranchesNearLimit
<1>1. RowsInv => BranchesNearLimit
  BY LiveBound, LimitsAssumption
  DEF RowsInv, BranchesInv, BranchesInUse, Creating, BranchesNearLimit
<1> QED
  BY <1>1, RowsBounded, PTL

(* However many entities are created, deleted and updated at a time, in    *)
(* any order, the limit of the installation is exceeded by less than the   *)
(* number of requests.                                                     *)
THEOREM EntitiesLimited == Spec => []EntitiesNearLimit
<1>1. RowsInv => EntitiesNearLimit
  BY LiveBound, LimitsAssumption
  DEF RowsInv, EntitiesInv, EntitiesInUse, Creating, EntitiesNearLimit
<1> QED
  BY <1>1, RowsBounded, PTL
=============================================================================
