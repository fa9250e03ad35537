----------------------- MODULE NotificationEngineProofs -----------------------
(***************************************************************************)
(* Proofs about NotificationEngine, for any number of transactions,        *)
(* occurrences and recipients: one row for each of them, of a committed    *)
(* change, there for every transaction that relied on it.                  *)
(***************************************************************************)
EXTENDS NotificationEngine, TLAPS

(* What a transaction has inserted is its own: nobody else inserts it, and *)
(* no committed row has the key.                                           *)
HeldIsNew ==
    \A e \in Emitters : \A k \in held[e] :
        rows[k] = 0 /\ ~k.fallback /\ k.of = occ[e] /\ pc[e] # "idle"

HeldIsOwn == \A e, d \in Emitters : e # d => held[e] \cap held[d] = {}

(* What a transaction has found or made is there, or will be.              *)
SeenIsThere == \A e \in Emitters : \A k \in seen[e] : Exists(k) \/ k \in held[e]

KeyInv == TypeOK /\ HeldIsNew /\ HeldIsOwn

-----------------------------------------------------------------------------
(* Types.                                                                  *)

LEMMA TypeInit == Init => TypeOK
  BY EngineAssumption DEF Init, TypeOK, Keys

LEMMA KeyFacts ==
  ASSUME NEW o \in Occurrences, NEW t \in Targets
  PROVE  Key(o, t) \in Keys /\ Key(o, t).of = o /\ ~Key(o, t).fallback
  BY DEF Key, Keys

LEMMA FallbackFacts ==
  ASSUME NEW k \in Keys
  PROVE  /\ FallbackKey(k) \in Keys /\ FallbackKey(k).of = k.of
         /\ FallbackKey(k).fallback /\ (HasFallback(k) => FallbackKey(k) # k)
  BY DEF FallbackKey, Keys, HasFallback

(* What get_or_create does, for some key of the transaction's occurrence.  *)
Made(e, k) ==
    /\ k \in Keys /\ k.of = occ[e] /\ ~k.fallback
    /\ Exists(k) \/ Free(e, k)
    /\ held' = [held EXCEPT ![e] = IF Exists(k) THEN @ ELSE @ \cup {k}]
    /\ seen' = [seen EXCEPT ![e] = @ \cup {k}]

LEMMA MakeFacts ==
  ASSUME NEW e \in Emitters, NEW t \in Targets, occ[e] \in Occurrences, GetOrCreate(e, t)
  PROVE  /\ \E k \in Keys : Made(e, k)
         /\ todo' = [todo EXCEPT ![e] = @ \ {t}]
         /\ pc' = [pc EXCEPT ![e] = "engine"]
         /\ want' = [want EXCEPT ![e] = NoTarget]
  BY KeyFacts DEF GetOrCreate, Made

LEMMA TypeMake ==
  ASSUME TypeOK, NEW e \in Emitters, NEW t \in Targets,
         pc[e] # "idle", GetOrCreate(e, t), UNCHANGED <<outbox, cleanup, occ>>
  PROVE  TypeOK'
<1>1. occ[e] \in Occurrences
  BY DEF TypeOK
<1>2. PICK k \in Keys : Made(e, k)
  BY <1>1, MakeFacts
<1> QED
  BY <1>1, <1>2, MakeFacts, EngineAssumption DEF Made, Free, outbox, cleanup, TypeOK

LEMMA TypeStep == TypeOK /\ [Next]_vars => TypeOK'
<1> SUFFICES ASSUME TypeOK, [Next]_vars PROVE TypeOK'
  OBVIOUS
<1> USE EngineAssumption DEF TypeOK
<1>1. CASE Select
  BY <1>1 DEF Select, Ended, outbox, cleanup, emitter
<1>2. CASE Delete
  BY <1>2 DEF Delete, Remove, outbox, cleanup, emitter
<1>3. ASSUME NEW e \in Emitters, NEW o \in Occurrences, Emit(e, o) PROVE TypeOK'
  BY <1>3 DEF Emit, outbox, cleanup, emitter
<1>4. ASSUME NEW e \in Emitters, NEW t \in Targets, ProcessRecipient(e, t) PROVE TypeOK'
  <2>1. CASE GetOrCreate(e, t)
    BY <1>4, <2>1, TypeMake DEF ProcessRecipient
  <2>2. CASE ~GetOrCreate(e, t)
    BY <1>4, <2>2 DEF ProcessRecipient, outbox, cleanup
  <2> QED
    BY <2>1, <2>2
<1>5. ASSUME NEW e \in Emitters, Resume(e) PROVE TypeOK'
  BY <1>5, TypeMake DEF Resume
<1>6. ASSUME NEW e \in Emitters, ListenerRaises(e) PROVE TypeOK'
  BY <1>6 DEF ListenerRaises, outbox, cleanup, emitter
<1>7. ASSUME NEW e \in Emitters, ListenerReturns(e) PROVE TypeOK'
  BY <1>7 DEF ListenerReturns, outbox, cleanup, emitter
<1>8. ASSUME NEW e \in Emitters, Commit(e) PROVE TypeOK'
  BY <1>8 DEF Commit, End, outbox, cleanup, emitter
<1>9. ASSUME NEW e \in Emitters, RollBack(e) PROVE TypeOK'
  BY <1>9 DEF RollBack, End, outbox, cleanup, emitter
<1>10. ASSUME NEW k \in Keys, Close(k) PROVE TypeOK'
  BY <1>10 DEF Close, outbox, cleanup, emitter
<1>11. ASSUME NEW k \in Keys, Fail(k) PROVE TypeOK'
  BY <1>11, FallbackFacts DEF Fail, Exists, outbox, cleanup, emitter
<1>12. ASSUME NEW k \in Keys, Reopen(k) PROVE TypeOK'
  BY <1>12 DEF Reopen, Exists, outbox, cleanup, emitter
<1>13. ASSUME NEW k \in Keys, HardDelete(k) PROVE TypeOK'
  BY <1>13 DEF HardDelete, Remove, outbox, cleanup, emitter
<1>14. CASE UNCHANGED vars
  BY <1>14 DEF vars, outbox, cleanup, emitter
<1> QED
  BY <1>1, <1>2, <1>3, <1>4, <1>5, <1>6, <1>7, <1>8, <1>9, <1>10, <1>11, <1>12, <1>13, <1>14 DEF Next, Business, Life

(* Every variable keeps its type, whatever transactions there are.         *)
THEOREM TypeCorrect == Spec => []TypeOK
  BY TypeInit, TypeStep, PTL DEF Spec

-----------------------------------------------------------------------------
(* The keys transactions insert.                                           *)

LEMMA KeyInit == Init => KeyInv
  BY TypeInit DEF Init, KeyInv, HeldIsNew, HeldIsOwn

LEMMA HeldNewMake ==
  ASSUME TypeOK, HeldIsNew, HeldIsOwn, NEW e \in Emitters, NEW t \in Targets,
         pc[e] # "idle", GetOrCreate(e, t), UNCHANGED <<outbox, cleanup, occ>>
  PROVE  HeldIsNew'
<1>1. occ[e] \in Occurrences
  BY DEF TypeOK
<1>2. PICK k \in Keys : Made(e, k)
  BY <1>1, MakeFacts
<1> QED
  BY <1>1, <1>2, MakeFacts, EngineAssumption DEF Made, Free, outbox, cleanup, TypeOK, HeldIsNew, HeldIsOwn, Exists

LEMMA HeldNewStep == TypeOK /\ HeldIsNew /\ HeldIsOwn /\ [Next]_vars => HeldIsNew'
<1> SUFFICES ASSUME TypeOK, HeldIsNew, HeldIsOwn, [Next]_vars PROVE HeldIsNew'
  OBVIOUS
<1> USE EngineAssumption DEF TypeOK, HeldIsNew, HeldIsOwn, Exists
<1>1. CASE Select
  BY <1>1 DEF Select, Ended, outbox, cleanup, emitter
<1>2. CASE Delete
  BY <1>2 DEF Delete, Remove, outbox, cleanup, emitter
<1>3. ASSUME NEW e \in Emitters, NEW o \in Occurrences, Emit(e, o) PROVE HeldIsNew'
  BY <1>3 DEF Emit, outbox, cleanup, emitter
<1>4. ASSUME NEW e \in Emitters, NEW t \in Targets, ProcessRecipient(e, t) PROVE HeldIsNew'
  <2>1. CASE GetOrCreate(e, t)
    BY <1>4, <2>1, HeldNewMake DEF ProcessRecipient
  <2>2. CASE ~GetOrCreate(e, t)
    BY <1>4, <2>2 DEF ProcessRecipient, outbox, cleanup
  <2> QED
    BY <2>1, <2>2
<1>5. ASSUME NEW e \in Emitters, Resume(e) PROVE HeldIsNew'
  BY <1>5, HeldNewMake DEF Resume
<1>6. ASSUME NEW e \in Emitters, ListenerRaises(e) PROVE HeldIsNew'
  BY <1>6 DEF ListenerRaises, outbox, cleanup, emitter
<1>7. ASSUME NEW e \in Emitters, ListenerReturns(e) PROVE HeldIsNew'
  BY <1>7 DEF ListenerReturns, outbox, cleanup, emitter
<1>8. ASSUME NEW e \in Emitters, Commit(e) PROVE HeldIsNew'
  BY <1>8 DEF Commit, End, outbox, cleanup, emitter
<1>9. ASSUME NEW e \in Emitters, RollBack(e) PROVE HeldIsNew'
  BY <1>9 DEF RollBack, End, outbox, cleanup, emitter
<1>10. ASSUME NEW k \in Keys, Close(k) PROVE HeldIsNew'
  BY <1>10 DEF Close, outbox, cleanup, emitter
<1>11. ASSUME NEW k \in Keys, Fail(k) PROVE HeldIsNew'
  BY <1>11, FallbackFacts DEF Fail, outbox, cleanup, emitter
<1>12. ASSUME NEW k \in Keys, Reopen(k) PROVE HeldIsNew'
  BY <1>12 DEF Reopen, Exists, outbox, cleanup, emitter
<1>13. ASSUME NEW k \in Keys, HardDelete(k) PROVE HeldIsNew'
  BY <1>13 DEF HardDelete, Remove, outbox, cleanup, emitter
<1>14. CASE UNCHANGED vars
  BY <1>14 DEF vars, outbox, cleanup, emitter
<1> QED
  BY <1>1, <1>2, <1>3, <1>4, <1>5, <1>6, <1>7, <1>8, <1>9, <1>10, <1>11, <1>12, <1>13, <1>14 DEF Next, Business, Life

LEMMA HeldOwnMake ==
  ASSUME TypeOK, HeldIsNew, HeldIsOwn, NEW e \in Emitters, NEW t \in Targets,
         pc[e] # "idle", GetOrCreate(e, t), UNCHANGED <<outbox, cleanup, occ>>
  PROVE  HeldIsOwn'
<1>1. occ[e] \in Occurrences
  BY DEF TypeOK
<1>2. PICK k \in Keys : Made(e, k)
  BY <1>1, MakeFacts
<1> QED
  BY <1>1, <1>2, MakeFacts, EngineAssumption DEF Made, Free, outbox, cleanup, TypeOK, HeldIsOwn, Exists

LEMMA HeldOwnStep == TypeOK /\ HeldIsNew /\ HeldIsOwn /\ [Next]_vars => HeldIsOwn'
<1> SUFFICES ASSUME TypeOK, HeldIsNew, HeldIsOwn, [Next]_vars PROVE HeldIsOwn'
  OBVIOUS
<1> USE EngineAssumption DEF TypeOK, HeldIsOwn, Exists
<1>1. CASE Select
  BY <1>1 DEF Select, Ended, outbox, cleanup, emitter
<1>2. CASE Delete
  BY <1>2 DEF Delete, Remove, outbox, cleanup, emitter
<1>3. ASSUME NEW e \in Emitters, NEW o \in Occurrences, Emit(e, o) PROVE HeldIsOwn'
  BY <1>3 DEF Emit, outbox, cleanup, emitter
<1>4. ASSUME NEW e \in Emitters, NEW t \in Targets, ProcessRecipient(e, t) PROVE HeldIsOwn'
  <2>1. CASE GetOrCreate(e, t)
    BY <1>4, <2>1, HeldOwnMake DEF ProcessRecipient
  <2>2. CASE ~GetOrCreate(e, t)
    BY <1>4, <2>2 DEF ProcessRecipient, outbox, cleanup
  <2> QED
    BY <2>1, <2>2
<1>5. ASSUME NEW e \in Emitters, Resume(e) PROVE HeldIsOwn'
  BY <1>5, HeldOwnMake DEF Resume
<1>6. ASSUME NEW e \in Emitters, ListenerRaises(e) PROVE HeldIsOwn'
  BY <1>6 DEF ListenerRaises, outbox, cleanup, emitter
<1>7. ASSUME NEW e \in Emitters, ListenerReturns(e) PROVE HeldIsOwn'
  BY <1>7 DEF ListenerReturns, outbox, cleanup, emitter
<1>8. ASSUME NEW e \in Emitters, Commit(e) PROVE HeldIsOwn'
  BY <1>8 DEF Commit, End, outbox, cleanup, emitter
<1>9. ASSUME NEW e \in Emitters, RollBack(e) PROVE HeldIsOwn'
  BY <1>9 DEF RollBack, End, outbox, cleanup, emitter
<1>10. ASSUME NEW k \in Keys, Close(k) PROVE HeldIsOwn'
  BY <1>10 DEF Close, outbox, cleanup, emitter
<1>11. ASSUME NEW k \in Keys, Fail(k) PROVE HeldIsOwn'
  BY <1>11, FallbackFacts DEF Fail, outbox, cleanup, emitter
<1>12. ASSUME NEW k \in Keys, Reopen(k) PROVE HeldIsOwn'
  BY <1>12 DEF Reopen, Exists, outbox, cleanup, emitter
<1>13. ASSUME NEW k \in Keys, HardDelete(k) PROVE HeldIsOwn'
  BY <1>13 DEF HardDelete, Remove, outbox, cleanup, emitter
<1>14. CASE UNCHANGED vars
  BY <1>14 DEF vars, outbox, cleanup, emitter
<1> QED
  BY <1>1, <1>2, <1>3, <1>4, <1>5, <1>6, <1>7, <1>8, <1>9, <1>10, <1>11, <1>12, <1>13, <1>14 DEF Next, Business, Life

LEMMA KeyStep == KeyInv /\ [Next]_vars => KeyInv'
  BY TypeStep, HeldNewStep, HeldOwnStep DEF KeyInv

-----------------------------------------------------------------------------
(* One row per key.                                                        *)

LEMMA OneRowMake ==
  ASSUME KeyInv, OneRowPerKey, NEW e \in Emitters, NEW t \in Targets,
         pc[e] # "idle", GetOrCreate(e, t), UNCHANGED <<outbox, cleanup, occ>>
  PROVE  OneRowPerKey'
<1>1. occ[e] \in Occurrences
  BY DEF TypeOK, KeyInv
<1>2. PICK k \in Keys : Made(e, k)
  BY <1>1, MakeFacts
<1> QED
  BY <1>1, <1>2, MakeFacts, EngineAssumption DEF Made, Free, outbox, cleanup, KeyInv, TypeOK, HeldIsNew, OneRowPerKey, Exists

LEMMA OneRowStep == KeyInv /\ OneRowPerKey /\ [Next]_vars => OneRowPerKey'
<1> SUFFICES ASSUME KeyInv, OneRowPerKey, [Next]_vars PROVE OneRowPerKey'
  OBVIOUS
<1> USE DEF KeyInv, TypeOK, HeldIsNew, OneRowPerKey, Exists
<1>1. CASE Select
  BY <1>1 DEF Select, Ended, outbox, cleanup, emitter
<1>2. CASE Delete
  BY <1>2 DEF Delete, Remove, outbox, cleanup, emitter
<1>3. ASSUME NEW e \in Emitters, NEW o \in Occurrences, Emit(e, o) PROVE OneRowPerKey'
  BY <1>3 DEF Emit, outbox, cleanup, emitter
<1>4. ASSUME NEW e \in Emitters, NEW t \in Targets, ProcessRecipient(e, t) PROVE OneRowPerKey'
  <2>1. CASE GetOrCreate(e, t)
    BY <1>4, <2>1, OneRowMake DEF ProcessRecipient
  <2>2. CASE ~GetOrCreate(e, t)
    BY <1>4, <2>2 DEF ProcessRecipient, outbox, cleanup
  <2> QED
    BY <2>1, <2>2
<1>5. ASSUME NEW e \in Emitters, Resume(e) PROVE OneRowPerKey'
  BY <1>5, OneRowMake DEF Resume
<1>6. ASSUME NEW e \in Emitters, ListenerRaises(e) PROVE OneRowPerKey'
  BY <1>6 DEF ListenerRaises, outbox, cleanup, emitter
<1>7. ASSUME NEW e \in Emitters, ListenerReturns(e) PROVE OneRowPerKey'
  BY <1>7 DEF ListenerReturns, outbox, cleanup, emitter
<1>8. ASSUME NEW e \in Emitters, Commit(e) PROVE OneRowPerKey'
  BY <1>8 DEF Commit, End, outbox, cleanup, emitter
<1>9. ASSUME NEW e \in Emitters, RollBack(e) PROVE OneRowPerKey'
  BY <1>9 DEF RollBack, End, outbox, cleanup, emitter
<1>10. ASSUME NEW k \in Keys, Close(k) PROVE OneRowPerKey'
  BY <1>10 DEF Close, outbox, cleanup, emitter
<1>11. ASSUME NEW k \in Keys, Fail(k) PROVE OneRowPerKey'
  BY <1>11, FallbackFacts DEF Fail, outbox, cleanup, emitter
<1>12. ASSUME NEW k \in Keys, Reopen(k) PROVE OneRowPerKey'
  BY <1>12 DEF Reopen, Exists, outbox, cleanup, emitter
<1>13. ASSUME NEW k \in Keys, HardDelete(k) PROVE OneRowPerKey'
  BY <1>13 DEF HardDelete, Remove, outbox, cleanup, emitter
<1>14. CASE UNCHANGED vars
  BY <1>14 DEF vars, outbox, cleanup, emitter
<1> QED
  BY <1>1, <1>2, <1>3, <1>4, <1>5, <1>6, <1>7, <1>8, <1>9, <1>10, <1>11, <1>12, <1>13, <1>14 DEF Next, Business, Life

(* An event told twice, by one transaction or by many at a time, makes one *)
(* row per rule and recipient.                                             *)
THEOREM KeyUnique == Spec => []OneRowPerKey
<1>1. Init => KeyInv /\ OneRowPerKey
  BY KeyInit DEF Init, OneRowPerKey
<1>2. KeyInv /\ OneRowPerKey /\ [Next]_vars => (KeyInv /\ OneRowPerKey)'
  BY KeyStep, OneRowStep
<1> QED
  BY <1>1, <1>2, PTL DEF Spec

-----------------------------------------------------------------------------
(* Rows and the changes they tell of.                                      *)

LEMMA FollowMake ==
  ASSUME KeyInv, RowsFollowCommit, NEW e \in Emitters, NEW t \in Targets,
         pc[e] # "idle", GetOrCreate(e, t), UNCHANGED <<outbox, cleanup, occ>>
  PROVE  RowsFollowCommit'
<1>1. occ[e] \in Occurrences
  BY DEF TypeOK, KeyInv
<1>2. PICK k \in Keys : Made(e, k)
  BY <1>1, MakeFacts
<1> QED
  BY <1>1, <1>2, MakeFacts, EngineAssumption DEF Made, Free, outbox, cleanup, KeyInv, TypeOK, HeldIsNew, RowsFollowCommit, Exists

LEMMA FollowStep == KeyInv /\ RowsFollowCommit /\ [Next]_vars => RowsFollowCommit'
<1> SUFFICES ASSUME KeyInv, RowsFollowCommit, [Next]_vars PROVE RowsFollowCommit'
  OBVIOUS
<1> USE DEF KeyInv, TypeOK, HeldIsNew, RowsFollowCommit, Exists
<1>1. CASE Select
  BY <1>1 DEF Select, Ended, outbox, cleanup, emitter
<1>2. CASE Delete
  BY <1>2 DEF Delete, Remove, outbox, cleanup, emitter
<1>3. ASSUME NEW e \in Emitters, NEW o \in Occurrences, Emit(e, o) PROVE RowsFollowCommit'
  BY <1>3 DEF Emit, outbox, cleanup, emitter
<1>4. ASSUME NEW e \in Emitters, NEW t \in Targets, ProcessRecipient(e, t) PROVE RowsFollowCommit'
  <2>1. CASE GetOrCreate(e, t)
    BY <1>4, <2>1, FollowMake DEF ProcessRecipient
  <2>2. CASE ~GetOrCreate(e, t)
    BY <1>4, <2>2 DEF ProcessRecipient, outbox, cleanup
  <2> QED
    BY <2>1, <2>2
<1>5. ASSUME NEW e \in Emitters, Resume(e) PROVE RowsFollowCommit'
  BY <1>5, FollowMake DEF Resume
<1>6. ASSUME NEW e \in Emitters, ListenerRaises(e) PROVE RowsFollowCommit'
  BY <1>6 DEF ListenerRaises, outbox, cleanup, emitter
<1>7. ASSUME NEW e \in Emitters, ListenerReturns(e) PROVE RowsFollowCommit'
  BY <1>7 DEF ListenerReturns, outbox, cleanup, emitter
<1>8. ASSUME NEW e \in Emitters, Commit(e) PROVE RowsFollowCommit'
  BY <1>8 DEF Commit, End, outbox, cleanup, emitter
<1>9. ASSUME NEW e \in Emitters, RollBack(e) PROVE RowsFollowCommit'
  BY <1>9 DEF RollBack, End, outbox, cleanup, emitter
<1>10. ASSUME NEW k \in Keys, Close(k) PROVE RowsFollowCommit'
  BY <1>10 DEF Close, outbox, cleanup, emitter
<1>11. ASSUME NEW k \in Keys, Fail(k) PROVE RowsFollowCommit'
  BY <1>11, FallbackFacts DEF Fail, outbox, cleanup, emitter
<1>12. ASSUME NEW k \in Keys, Reopen(k) PROVE RowsFollowCommit'
  BY <1>12 DEF Reopen, Exists, outbox, cleanup, emitter
<1>13. ASSUME NEW k \in Keys, HardDelete(k) PROVE RowsFollowCommit'
  BY <1>13 DEF HardDelete, Remove, outbox, cleanup, emitter
<1>14. CASE UNCHANGED vars
  BY <1>14 DEF vars, outbox, cleanup, emitter
<1> QED
  BY <1>1, <1>2, <1>3, <1>4, <1>5, <1>6, <1>7, <1>8, <1>9, <1>10, <1>11, <1>12, <1>13, <1>14 DEF Next, Business, Life

(* Nobody is notified of a change that was rolled back.                    *)
THEOREM NoRowWithoutChange == Spec => []RowsFollowCommit
<1>1. Init => KeyInv /\ RowsFollowCommit
  BY KeyInit DEF Init, RowsFollowCommit, Exists
<1>2. KeyInv /\ RowsFollowCommit /\ [Next]_vars => (KeyInv /\ RowsFollowCommit)'
  BY KeyStep, FollowStep
<1> QED
  BY <1>1, <1>2, PTL DEF Spec

-----------------------------------------------------------------------------
(* Rows that transactions rely on.                                         *)

LEMMA SeenMake ==
  ASSUME KeyInv, SeenIsThere, NEW e \in Emitters, NEW t \in Targets,
         pc[e] # "idle", GetOrCreate(e, t), UNCHANGED <<outbox, cleanup, occ>>
  PROVE  SeenIsThere'
<1>1. occ[e] \in Occurrences
  BY DEF TypeOK, KeyInv
<1>2. PICK k \in Keys : Made(e, k)
  BY <1>1, MakeFacts
<1> QED
  BY <1>1, <1>2, MakeFacts, EngineAssumption DEF Made, Free, outbox, cleanup, KeyInv, TypeOK, HeldIsNew, SeenIsThere, Exists

LEMMA SeenStep == KeyInv /\ SeenIsThere /\ [Next]_vars => SeenIsThere'
<1> SUFFICES ASSUME KeyInv, SeenIsThere, [Next]_vars PROVE SeenIsThere'
  OBVIOUS
<1> USE DEF KeyInv, TypeOK, HeldIsNew, SeenIsThere, Exists
<1>1. CASE Select
  BY <1>1 DEF Select, Ended, outbox, cleanup, emitter
<1>2. CASE Delete
  BY <1>2 DEF Delete, Remove, outbox, cleanup, emitter
<1>3. ASSUME NEW e \in Emitters, NEW o \in Occurrences, Emit(e, o) PROVE SeenIsThere'
  BY <1>3 DEF Emit, outbox, cleanup, emitter
<1>4. ASSUME NEW e \in Emitters, NEW t \in Targets, ProcessRecipient(e, t) PROVE SeenIsThere'
  <2>1. CASE GetOrCreate(e, t)
    BY <1>4, <2>1, SeenMake DEF ProcessRecipient
  <2>2. CASE ~GetOrCreate(e, t)
    BY <1>4, <2>2 DEF ProcessRecipient, outbox, cleanup
  <2> QED
    BY <2>1, <2>2
<1>5. ASSUME NEW e \in Emitters, Resume(e) PROVE SeenIsThere'
  BY <1>5, SeenMake DEF Resume
<1>6. ASSUME NEW e \in Emitters, ListenerRaises(e) PROVE SeenIsThere'
  BY <1>6 DEF ListenerRaises, outbox, cleanup, emitter
<1>7. ASSUME NEW e \in Emitters, ListenerReturns(e) PROVE SeenIsThere'
  BY <1>7 DEF ListenerReturns, outbox, cleanup, emitter
<1>8. ASSUME NEW e \in Emitters, Commit(e) PROVE SeenIsThere'
  BY <1>8 DEF Commit, End, outbox, cleanup, emitter
<1>9. ASSUME NEW e \in Emitters, RollBack(e) PROVE SeenIsThere'
  BY <1>9 DEF RollBack, End, outbox, cleanup, emitter
<1>10. ASSUME NEW k \in Keys, Close(k) PROVE SeenIsThere'
  BY <1>10 DEF Close, outbox, cleanup, emitter
<1>11. ASSUME NEW k \in Keys, Fail(k) PROVE SeenIsThere'
  BY <1>11, FallbackFacts DEF Fail, outbox, cleanup, emitter
<1>12. ASSUME NEW k \in Keys, Reopen(k) PROVE SeenIsThere'
  BY <1>12 DEF Reopen, Exists, outbox, cleanup, emitter
<1>13. ASSUME NEW k \in Keys, HardDelete(k) PROVE SeenIsThere'
  BY <1>13 DEF HardDelete, Remove, outbox, cleanup, emitter
<1>14. CASE UNCHANGED vars
  BY <1>14 DEF vars, outbox, cleanup, emitter
<1> QED
  BY <1>1, <1>2, <1>3, <1>4, <1>5, <1>6, <1>7, <1>8, <1>9, <1>10, <1>11, <1>12, <1>13, <1>14 DEF Next, Business, Life

LEMMA PromisedMake ==
  ASSUME KeyInv, SeenIsThere, PromisedIsKept, NEW e \in Emitters, NEW t \in Targets,
         pc[e] # "idle", GetOrCreate(e, t), UNCHANGED <<outbox, cleanup, occ>>
  PROVE  PromisedIsKept'
<1>1. occ[e] \in Occurrences
  BY DEF TypeOK, KeyInv
<1>2. PICK k \in Keys : Made(e, k)
  BY <1>1, MakeFacts
<1> QED
  BY <1>1, <1>2, MakeFacts, EngineAssumption DEF Made, Free, outbox, cleanup, KeyInv, TypeOK, SeenIsThere, PromisedIsKept, Exists

LEMMA PromisedStep == KeyInv /\ SeenIsThere /\ PromisedIsKept /\ [Next]_vars => PromisedIsKept'
<1> SUFFICES ASSUME KeyInv, SeenIsThere, PromisedIsKept, [Next]_vars PROVE PromisedIsKept'
  OBVIOUS
<1> USE DEF KeyInv, TypeOK, SeenIsThere, PromisedIsKept, Exists
<1>1. CASE Select
  BY <1>1 DEF Select, Ended, outbox, cleanup, emitter
<1>2. CASE Delete
  BY <1>2 DEF Delete, Remove, outbox, cleanup, emitter
<1>3. ASSUME NEW e \in Emitters, NEW o \in Occurrences, Emit(e, o) PROVE PromisedIsKept'
  BY <1>3 DEF Emit, outbox, cleanup, emitter
<1>4. ASSUME NEW e \in Emitters, NEW t \in Targets, ProcessRecipient(e, t) PROVE PromisedIsKept'
  <2>1. CASE GetOrCreate(e, t)
    BY <1>4, <2>1, PromisedMake DEF ProcessRecipient
  <2>2. CASE ~GetOrCreate(e, t)
    BY <1>4, <2>2 DEF ProcessRecipient, outbox, cleanup
  <2> QED
    BY <2>1, <2>2
<1>5. ASSUME NEW e \in Emitters, Resume(e) PROVE PromisedIsKept'
  BY <1>5, PromisedMake DEF Resume
<1>6. ASSUME NEW e \in Emitters, ListenerRaises(e) PROVE PromisedIsKept'
  BY <1>6 DEF ListenerRaises, outbox, cleanup, emitter
<1>7. ASSUME NEW e \in Emitters, ListenerReturns(e) PROVE PromisedIsKept'
  BY <1>7 DEF ListenerReturns, outbox, cleanup, emitter
<1>8. ASSUME NEW e \in Emitters, Commit(e) PROVE PromisedIsKept'
  BY <1>8 DEF Commit, End, outbox, cleanup, emitter
<1>9. ASSUME NEW e \in Emitters, RollBack(e) PROVE PromisedIsKept'
  BY <1>9 DEF RollBack, End, outbox, cleanup, emitter
<1>10. ASSUME NEW k \in Keys, Close(k) PROVE PromisedIsKept'
  BY <1>10 DEF Close, outbox, cleanup, emitter
<1>11. ASSUME NEW k \in Keys, Fail(k) PROVE PromisedIsKept'
  BY <1>11, FallbackFacts DEF Fail, outbox, cleanup, emitter
<1>12. ASSUME NEW k \in Keys, Reopen(k) PROVE PromisedIsKept'
  BY <1>12 DEF Reopen, Exists, outbox, cleanup, emitter
<1>13. ASSUME NEW k \in Keys, HardDelete(k) PROVE PromisedIsKept'
  BY <1>13 DEF HardDelete, Remove, outbox, cleanup, emitter
<1>14. CASE UNCHANGED vars
  BY <1>14 DEF vars, outbox, cleanup, emitter
<1> QED
  BY <1>1, <1>2, <1>3, <1>4, <1>5, <1>6, <1>7, <1>8, <1>9, <1>10, <1>11, <1>12, <1>13, <1>14 DEF Next, Business, Life

(* A committed transaction that found the row of somebody else, or waited  *)
(* for it, has a row, whatever became of the other transaction.            *)
THEOREM PromiseKept == Spec => []PromisedIsKept
<1> DEFINE Inv == KeyInv /\ SeenIsThere /\ PromisedIsKept
<1>1. Init => Inv
  BY KeyInit DEF Init, SeenIsThere, PromisedIsKept
<1>2. Inv /\ [Next]_vars => Inv'
  BY KeyStep, SeenStep, PromisedStep
<1> QED
  BY <1>1, <1>2, PTL DEF Spec
=============================================================================
