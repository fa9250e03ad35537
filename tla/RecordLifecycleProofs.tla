------------------------ MODULE RecordLifecycleProofs ------------------------
(***************************************************************************)
(* Proofs about RecordLifecycle, for any number of requests, fields and    *)
(* values: the events tell the record, and what is gone comes back by a    *)
(* late update only.                                                       *)
(***************************************************************************)
EXTENDS RecordLifecycle, TLAPS

(* A record that is gone has nothing left; one that was read was there.    *)
ReadWasThere ==
    /\ row.state = "gone" => row = Blank("gone")
    /\ \A r \in Requests : pc[r] = "idle" => act[r] = "created"
    /\ \A r \in Requests : pc[r] \in {"loaded", "insert"} => act[r] # "created"
    /\ \A r \in Requests : act[r] # "created" => /\ row.state # "none"
                                                 /\ copy[r].state \in {"alive", "deleted"}

(* What a transaction has written, while it keeps the record locked.  A    *)
(* hard delete that found nothing was late.                                *)
Due(r) ==
    /\ act[r] = "created" => holds[r] /\ row.state = "none" /\ new[r] = Blank("alive")
    /\ act[r] = "updated" => holds[r] /\ new[r] = Patched(copy[r], patch[r])
    /\ act[r] \in {"deleted", "restored"} => holds[r] /\ Found /\ new[r] = SavedMark(r)
    /\ act[r] = "hard_deleted" /\ holds[r] => new[r] = Blank("gone")
    /\ act[r] = "hard_deleted" /\ ~holds[r] => row.state = "gone" \/ overtaken

WrittenIsDue ==
    \A r \in Requests : (holds[r] => pc[r] = "written") /\ (pc[r] = "written" => Due(r))

LockInv == TypeOK /\ ReadWasThere /\ WrittenIsDue

-----------------------------------------------------------------------------
(* Types.                                                                  *)

LEMMA BlankRow == \A s \in {"none", "alive", "deleted", "gone"} : Blank(s) \in Rows /\ Blank(s).state = s
  BY RecordAssumption DEF Blank, Rows

LEMMA PatchedRow == \A x \in Rows, p \in Patches : Patched(x, p) \in Rows /\ Patched(x, p).state = x.state
  BY DEF Patched, Rows, Patches

LEMMA MarkedRow ==
  \A x \in Rows, a \in {"deleted", "restored"} :
      LET y == [x EXCEPT !.state = Marked(a)]
      IN y \in Rows /\ y.state \in {"alive", "deleted"}
  BY DEF Marked, Rows

LEMMA TypeInit == Init => TypeOK
<1> SUFFICES ASSUME Init PROVE TypeOK
  OBVIOUS
<1>1. overtaken \in BOOLEAN
  BY Zenon DEF Init
<1> QED
  BY <1>1, BlankRow DEF Init, TypeOK

(* A write of a well-formed row by a request whose turn it is.             *)
LEMMA WriteType ==
  ASSUME TypeOK, NEW r \in Requests, NEW x \in Rows, Unlocked, WriteRow(r, x),
         UNCHANGED <<record, act, patch, copy>>
  PROVE  TypeOK'
<1>1. overtaken' \in BOOLEAN
  BY Zenon DEF TypeOK, record
<1> QED
  BY <1>1 DEF TypeOK, WriteRow, Unlocked, record

LEMMA EndType ==
  ASSUME TypeOK, NEW r \in Requests, End(r), UNCHANGED record
  PROVE  TypeOK'
<1>1. overtaken' \in BOOLEAN
  BY Zenon DEF TypeOK, record
<1> QED
  BY <1>1, BlankRow DEF TypeOK, End, record

LEMMA TypeStep == TypeOK /\ [Next]_vars => TypeOK'
<1> SUFFICES ASSUME TypeOK, [Next]_vars PROVE TypeOK'
  OBVIOUS
<1> USE DEF TypeOK
<1>1. ASSUME NEW r \in Requests, Create(r) PROVE TypeOK'
  <2>1. Blank("alive") \in Rows
    BY <1>1, BlankRow, PatchedRow DEF Create
  <2> QED
    BY <1>1, <2>1, WriteType DEF Create
<1>2. ASSUME NEW r \in Requests, NEW a \in {"updated", "deleted", "restored", "hard_deleted"}, Load(r, a) PROVE TypeOK'
  BY <1>2 DEF Load, Found, record
<1>3. ASSUME NEW r \in Requests, Update(r) PROVE TypeOK'
  <2>1. Patched(copy[r], patch[r]) \in Rows
    BY <1>3, BlankRow, PatchedRow, MarkedRow DEF Update
  <2>2. CASE Found
    BY <1>3, <2>1, <2>2, WriteType DEF Update
  <2>3. CASE ~Found
    <3>1. overtaken' \in BOOLEAN
      BY <1>3, Zenon DEF Update, record
    <3> QED
      BY <1>3, <2>3, <3>1 DEF Update, record
  <2> QED
    BY <2>2, <2>3
<1>4. ASSUME NEW r \in Requests, Insert(r) PROVE TypeOK'
  <2>1. Patched(copy[r], patch[r]) \in Rows
    BY <1>4, BlankRow, PatchedRow DEF Insert
  <2> QED
    BY <1>4, <2>1, WriteType DEF Insert
<1>5. ASSUME NEW r \in Requests, InsertFails(r) PROVE TypeOK'
  BY <1>5, EndType DEF InsertFails
<1>6. ASSUME NEW r \in Requests, Mark(r) PROVE TypeOK'
  <2>1. SavedMark(r) \in Rows
    BY <1>6, BlankRow, PatchedRow, MarkedRow DEF Mark, SavedMark
  <2>2. CASE Found
    BY <1>6, <2>1, <2>2, WriteType DEF Mark
  <2>3. CASE ~Found
    BY <1>6, <2>3, EndType DEF Mark
  <2> QED
    BY <2>2, <2>3
<1>7. ASSUME NEW r \in Requests, HardDelete(r) PROVE TypeOK'
  <2>1. Blank("gone") \in Rows
    BY <1>7, BlankRow, PatchedRow, MarkedRow DEF HardDelete
  <2>2. CASE Found
    BY <1>7, <2>1, <2>2, WriteType DEF HardDelete
  <2>3. CASE ~Found
    <3>1. overtaken' \in BOOLEAN
      BY <1>7, Zenon DEF HardDelete, record
    <3> QED
      BY <1>7, <2>3, <3>1 DEF HardDelete, record
  <2> QED
    BY <2>2, <2>3
<1>8. ASSUME NEW r \in Requests, Commit(r) PROVE TypeOK'
  <2>1. overtaken' \in BOOLEAN
    BY <1>8, Zenon DEF Commit
  <2>2. Tell(told, r) \in Rows /\ Blank("none") \in Rows
    BY BlankRow, PatchedRow, MarkedRow DEF Tell
  <2> QED
    BY <1>8, <2>1, <2>2 DEF Commit, End
<1>9. ASSUME NEW r \in Requests, RollBack(r) PROVE TypeOK'
  BY <1>9, EndType DEF RollBack
<1>10. CASE UNCHANGED vars
  BY <1>10 DEF vars, record, request
<1> QED
  BY <1>1, <1>2, <1>3, <1>4, <1>5, <1>6, <1>7, <1>8, <1>9, <1>10 DEF Next, Step

(* Every variable keeps its type, whatever requests there are.             *)
THEOREM TypeCorrect == Spec => []TypeOK
  BY TypeInit, TypeStep, PTL DEF Spec

-----------------------------------------------------------------------------
(* What is read and written.                                               *)

LEMMA LockInit == Init => LockInv
  BY TypeInit, BlankRow DEF Init, LockInv, ReadWasThere, WrittenIsDue

LEMMA ReadStep == LockInv /\ [Next]_vars => ReadWasThere'
<1> SUFFICES ASSUME LockInv, [Next]_vars PROVE ReadWasThere'
  OBVIOUS
<1> USE DEF LockInv, TypeOK, ReadWasThere
<1>1. ASSUME NEW r \in Requests, Create(r) PROVE ReadWasThere'
  BY <1>1 DEF Create, WriteRow, Unlocked, record
<1>2. ASSUME NEW r \in Requests, NEW a \in {"updated", "deleted", "restored", "hard_deleted"}, Load(r, a) PROVE ReadWasThere'
  BY <1>2 DEF Load, Found, record
<1>3. ASSUME NEW r \in Requests, Update(r) PROVE ReadWasThere'
  BY <1>3 DEF Update, WriteRow, Unlocked, record
<1>4. ASSUME NEW r \in Requests, Insert(r) PROVE ReadWasThere'
  BY <1>4 DEF Insert, WriteRow, Unlocked, record
<1>5. ASSUME NEW r \in Requests, InsertFails(r) PROVE ReadWasThere'
  BY <1>5 DEF InsertFails, End, record
<1>6. ASSUME NEW r \in Requests, Mark(r) PROVE ReadWasThere'
  <2>1. CASE Found
    BY <1>6, <2>1 DEF Mark, WriteRow, record
  <2>2. CASE ~Found
    BY <1>6, <2>2 DEF Mark, End, record
  <2> QED
    BY <2>1, <2>2
<1>7. ASSUME NEW r \in Requests, HardDelete(r) PROVE ReadWasThere'
  BY <1>7 DEF HardDelete, WriteRow, Unlocked, record
<1>8. ASSUME NEW r \in Requests, Commit(r) PROVE ReadWasThere'
  <2>1. holds[r] => new[r].state # "none" /\ (new[r].state = "gone" => new[r] = Blank("gone"))
    <3>1. Due(r)
      BY <1>8 DEF Commit, WrittenIsDue
    <3>2. act[r] \in {"deleted", "restored"} => SavedMark(r).state \notin {"none", "gone"}
      BY MarkedRow DEF SavedMark
    <3>3. act[r] = "updated" => Patched(copy[r], patch[r]).state = copy[r].state
      BY PatchedRow
    <3>4. Blank("alive").state = "alive" /\ Blank("gone").state = "gone"
      BY BlankRow
    <3> QED
      BY <3>1, <3>2, <3>3, <3>4 DEF Due
  <2>2. row'.state # "none" \/ row' = row
    BY <1>8, <2>1 DEF Commit
  <2>3. row'.state = "gone" => row' = Blank("gone")
    BY <1>8, <2>1 DEF Commit
  <2> QED
    BY <1>8, <2>2, <2>3 DEF Commit, End
<1>9. ASSUME NEW r \in Requests, RollBack(r) PROVE ReadWasThere'
  BY <1>9 DEF RollBack, End, record
<1>10. CASE UNCHANGED vars
  BY <1>10 DEF vars, record, request
<1> QED
  BY <1>1, <1>2, <1>3, <1>4, <1>5, <1>6, <1>7, <1>8, <1>9, <1>10 DEF Next, Step

LEMMA WrittenStep == LockInv /\ [Next]_vars => WrittenIsDue'
<1> SUFFICES ASSUME LockInv, [Next]_vars PROVE WrittenIsDue'
  OBVIOUS
<1> USE DEF LockInv, TypeOK, ReadWasThere, WrittenIsDue, Due, Found, SavedMark
<1>1. ASSUME NEW r \in Requests, Create(r) PROVE WrittenIsDue'
  BY <1>1 DEF Create, WriteRow, Unlocked, record
<1>2. ASSUME NEW r \in Requests, NEW a \in {"updated", "deleted", "restored", "hard_deleted"}, Load(r, a) PROVE WrittenIsDue'
  BY <1>2 DEF Load, Found, record
<1>3. ASSUME NEW r \in Requests, Update(r) PROVE WrittenIsDue'
  BY <1>3 DEF Update, WriteRow, Unlocked, record
<1>4. ASSUME NEW r \in Requests, Insert(r) PROVE WrittenIsDue'
  BY <1>4 DEF Insert, WriteRow, Unlocked, record
<1>5. ASSUME NEW r \in Requests, InsertFails(r) PROVE WrittenIsDue'
  BY <1>5 DEF InsertFails, End, record
<1>6. ASSUME NEW r \in Requests, Mark(r) PROVE WrittenIsDue'
  BY <1>6 DEF Mark, WriteRow, Unlocked, End, record
<1>7. ASSUME NEW r \in Requests, HardDelete(r) PROVE WrittenIsDue'
  <2>1. CASE Found
    BY <1>7, <2>1 DEF HardDelete, WriteRow, Unlocked, record
  <2>2. CASE ~Found
    <3>1. row.state = "gone"
      BY <1>7, <2>2 DEF HardDelete, Rows
    <3>2. Due(r)'
      BY <1>7, <2>2, <3>1 DEF HardDelete, record
    <3> QED
      BY <1>7, <2>2, <3>2 DEF HardDelete, record
  <2> QED
    BY <2>1, <2>2
<1>8. ASSUME NEW r \in Requests, Commit(r) PROVE WrittenIsDue'
  BY <1>8 DEF Commit, End
<1>9. ASSUME NEW r \in Requests, RollBack(r) PROVE WrittenIsDue'
  BY <1>9 DEF RollBack, End, record
<1>10. CASE UNCHANGED vars
  BY <1>10 DEF vars, record, request
<1> QED
  BY <1>1, <1>2, <1>3, <1>4, <1>5, <1>6, <1>7, <1>8, <1>9, <1>10 DEF Next, Step

LEMMA LockStep == LockInv /\ [Next]_vars => LockInv'
  BY TypeStep, ReadStep, WrittenStep DEF LockInv

-----------------------------------------------------------------------------
(* What the events tell.                                                   *)

LEMMA EventsStep == LockInv /\ EventsTellRecord /\ [Next]_vars => EventsTellRecord'
<1> SUFFICES ASSUME LockInv, EventsTellRecord, [Next]_vars PROVE EventsTellRecord'
  OBVIOUS
<1> USE BlankRow DEF LockInv, TypeOK, EventsTellRecord
<1>1. ASSUME NEW r \in Requests, Create(r) PROVE EventsTellRecord'
  BY <1>1 DEF Create, WriteRow, Unlocked, record
<1>2. ASSUME NEW r \in Requests, NEW a \in {"updated", "deleted", "restored", "hard_deleted"}, Load(r, a) PROVE EventsTellRecord'
  BY <1>2 DEF Load, Found, record
<1>3. ASSUME NEW r \in Requests, Update(r) PROVE EventsTellRecord'
  BY <1>3 DEF Update, WriteRow, Unlocked, record
<1>4. ASSUME NEW r \in Requests, Insert(r) PROVE EventsTellRecord'
  BY <1>4 DEF Insert, WriteRow, Unlocked, record
<1>5. ASSUME NEW r \in Requests, InsertFails(r) PROVE EventsTellRecord'
  BY <1>5 DEF InsertFails, End, record
<1>6. ASSUME NEW r \in Requests, Mark(r) PROVE EventsTellRecord'
  BY <1>6 DEF Mark, WriteRow, Unlocked, End, record
<1>7. ASSUME NEW r \in Requests, HardDelete(r) PROVE EventsTellRecord'
  BY <1>7 DEF HardDelete, WriteRow, Unlocked, record
<1>8. ASSUME NEW r \in Requests, Commit(r) PROVE EventsTellRecord'
  <2>1. CASE act[r] = "updated" /\ copy[r] # row
    BY <1>8, <2>1 DEF Commit
  <2>2. CASE overtaken
    BY <1>8, <2>2 DEF Commit
  <2>3. CASE ~(act[r] = "updated" /\ copy[r] # row) /\ ~overtaken
    BY <1>8, <2>3 DEF Commit, Tell, WrittenIsDue, Due, SavedMark, ReadWasThere
  <2> QED
    BY <2>1, <2>2, <2>3
<1>9. ASSUME NEW r \in Requests, RollBack(r) PROVE EventsTellRecord'
  BY <1>9 DEF RollBack, End, record
<1>10. CASE UNCHANGED vars
  BY <1>10 DEF vars, record, request
<1> QED
  BY <1>1, <1>2, <1>3, <1>4, <1>5, <1>6, <1>7, <1>8, <1>9, <1>10 DEF Next, Step

(* The events of the committed writes, played in the order of the commits, *)
(* make the record, up to the first update of an outdated copy.            *)
THEOREM EventsAreTrue == Spec => []EventsTellRecord
<1>1. Init => LockInv /\ EventsTellRecord
  BY LockInit DEF Init, EventsTellRecord
<1>2. LockInv /\ EventsTellRecord /\ [Next]_vars => (LockInv /\ EventsTellRecord)'
  BY LockStep, EventsStep
<1> QED
  BY <1>1, <1>2, PTL DEF Spec

-----------------------------------------------------------------------------
(* What is gone.                                                           *)

(* One step of GoneStaysGone.                                              *)
BackByUpdate ==
    row.state = "gone" /\ row'.state # "gone" =>
        \E r \in Requests : pc[r] = "written" /\ act[r] = "updated" /\ copy[r].state # "gone"

LEMMA GoneStep == LockInv /\ [Next]_vars => BackByUpdate
<1> SUFFICES ASSUME LockInv, [Next]_vars, row.state = "gone", row'.state # "gone"
             PROVE  \E r \in Requests : pc[r] = "written" /\ act[r] = "updated" /\ copy[r].state # "gone"
  BY DEF BackByUpdate
<1>1. PICK r \in Requests : Commit(r)
  BY DEF Next, Step, Create, Load, Update, Insert, InsertFails, Mark, HardDelete, RollBack, record, vars
<1>2. holds[r] /\ new[r].state # "gone" /\ pc[r] = "written"
  BY <1>1 DEF Commit
<1>3. act[r] = "updated"
  BY <1>2, BlankRow DEF LockInv, TypeOK, WrittenIsDue, Due, Found
<1> QED
  BY <1>2, <1>3 DEF LockInv, ReadWasThere

(* Neither a deletion nor a restore brings a record back that is gone, for *)
(* any number of requests that had read it before.                         *)
THEOREM GoneForGood == Spec => GoneStaysGone
<1>1. Init => LockInv
  BY LockInit
<1>2. LockInv /\ [Next]_vars => LockInv'
  BY LockStep
<1>3. LockInv /\ [Next]_vars => [BackByUpdate]_vars
  BY GoneStep
<1>4. Spec => [][BackByUpdate]_vars
  BY <1>1, <1>2, <1>3, PTL DEF Spec
<1> QED
  BY <1>4 DEF GoneStaysGone, BackByUpdate
=============================================================================
