--------------------------- MODULE CredentialsProofs ---------------------------
(***************************************************************************)
(* Proofs about Credentials, for any number of requests and passwords:     *)
(* what a copy says of the password, when a temporary password has its row *)
(* and its copy, and when one of them gives a session.                     *)
(***************************************************************************)
EXTENDS Credentials, TLAPS

(* No password was issued half-way through a change, and none replaced     *)
(* under a save of the whole user.                                         *)
Calm == overlap \cap {"change", "save"} = {}

(* A save of the whole user writes the password the account has.           *)
StoreCurrent == "save" \notin overlap => \A p \in Requests : pc[p] = "store" => seen[p] = hash

(* The row that a change is about to delete is not that of a new password. *)
DiscardChosen == Calm => \A p \in Requests : pc[p] = "discard" => hash \notin temporary

RowInv == TypeOK /\ StoreCurrent /\ DiscardChosen /\ TemporaryMustChange

CopyInv == TypeOK /\ StoreCurrent /\ CopyOpensAccount

(* A row that is about to be retired is overdue still.                     *)
RetireKnows ==
    \A p \in Requests :
        pc[p] = "retire" /\ row # NoRow /\ row.id = seen[p] => row.overdue \/ "retire" \in overlap

RetireInv == TypeOK /\ RetireKnows /\ TemporaryHasCopy

(* The password of the account is the one stored last, and a sign-in that  *)
(* has proved another one was outrun.                                      *)
LoginKnows ==
    "save" \notin overlap =>
        /\ hash = last
        /\ \A p \in Requests :
              pc[p] = "login" /\ seen[p] \in temporary => seen[p] = hash \/ seen[p] \in outrun

(* A temporary password that was proved in time and asked about too late.  *)
Late(v) == Replaced(v) /\ v \in outrun

(* What waits for a session is no temporary password, or a late one.       *)
ProofsHold ==
    Calm => /\ \A p \in Requests : pc[p] = "gate" /\ seen[p] \in temporary => Late(seen[p])
            /\ \A v \in challenges \cap temporary : Late(v)

EnterInv == RowInv /\ LoginKnows /\ ProofsHold /\ NoSessionByTemporary

-----------------------------------------------------------------------------
(* Types.                                                                  *)

LEMMA TypeInit == Init => TypeOK
<1> SUFFICES ASSUME Init PROVE TypeOK
  OBVIOUS
<1>1. leftover \in BOOLEAN
  BY Zenon DEF Init
<1> QED
  BY <1>1, CredentialsAssumption, NoRowAssumption DEF Init, TypeOK, Steps, Passwords, Askers

LEMMA TypeStep == TypeOK /\ [Next]_vars => TypeOK'
<1> SUFFICES ASSUME TypeOK, [Next]_vars PROVE TypeOK'
  OBVIOUS
<1> USE CredentialsAssumption, NoRowAssumption DEF TypeOK, Passwords, Row, Steps, Askers
<1>1. CASE Issue
  <2>1. leftover' \in BOOLEAN
    BY <1>1, Zenon DEF Issue
  <2>2. outrun' \subseteq temporary'
    BY <1>1 DEF Issue, NewPassword
  <2>3. overlap' \subseteq {"change", "retire", "save"}
    BY <1>1 DEF Issue, NewPassword, During
  <2>4. QED
    BY <1>1, <2>1, <2>2, <2>3 DEF Issue, NewPassword, IssuedRow, request
<1>2. CASE Expire
  BY <1>2 DEF Expire, account, request
<1>3. ASSUME NEW p \in Requests, Authenticate(p) PROVE TypeOK'
  BY <1>3 DEF Authenticate, Begin, Goto, Askers, account, request
<1>4. ASSUME NEW p \in Requests, AskState(p) PROVE TypeOK'
  BY <1>4 DEF AskState, Begin, Goto, Askers, account, request
<1>5. ASSUME NEW p \in Requests, StateOf(p) PROVE TypeOK'
  BY <1>5 DEF StateOf, Permanent, Overdue, Expired, Temporary, Goto, Done, Askers, account, request
<1>6. ASSUME NEW p \in Requests, Retire(p) PROVE TypeOK'
  BY <1>6 DEF Retire, Retired, Done, Goto, account, request
<1>7. ASSUME NEW p \in Requests, Reveal(p) PROVE TypeOK'
  BY <1>7 DEF Reveal, Done, Goto, account, request
<1>8. ASSUME NEW p \in Requests, Complete(p) PROVE TypeOK'
  <2>1. leftover' \in BOOLEAN
    BY <1>8, Zenon DEF Complete
  <2>2. outrun' \subseteq temporary'
    BY <1>8 DEF Complete, NewPassword
  <2>3. overlap' \subseteq {"change", "retire", "save"}
    BY <1>8 DEF Complete, NewPassword, During
  <2>4. QED
    BY <1>8, <2>1, <2>2, <2>3 DEF Complete, NewPassword, Discarded, Goto
<1>9. ASSUME NEW p \in Requests, Refuse(p) PROVE TypeOK'
  BY <1>9 DEF Refuse, Done, Goto, account, request
<1>10. ASSUME NEW p \in Requests, Prove(p) PROVE TypeOK'
  BY <1>10 DEF Prove, Begin, Goto, account, request
<1>11. ASSUME NEW p \in Requests, Save(p) PROVE TypeOK'
  <2>1. outrun' \subseteq temporary'
    BY <1>11 DEF Save, NewPassword
  <2>2. overlap' \subseteq {"change", "retire", "save"}
    BY <1>11 DEF Save, NewPassword, During
  <2>3. QED
    BY <1>11, <2>1, <2>2 DEF Save, NewPassword, Goto
<1>12. ASSUME NEW p \in Requests, Discard(p) PROVE TypeOK'
  <2>1. leftover' \in BOOLEAN
    BY <1>12, Zenon DEF Discard
  <2>2. QED
    BY <1>12, <2>1 DEF Discard, Discarded, Done, Goto, account, request
<1>13. ASSUME NEW p \in Requests, Die(p) PROVE TypeOK'
  BY <1>13 DEF Die, Done, Goto, account, request
<1>14. ASSUME NEW p \in Requests, LoadProfile(p) PROVE TypeOK'
  BY <1>14 DEF LoadProfile, Begin, Goto, account, request
<1>15. ASSUME NEW p \in Requests, StoreProfile(p) PROVE TypeOK'
  BY <1>15 DEF StoreProfile, Done, Goto, account, request
<1>16. ASSUME NEW p \in Requests, SignIn(p) PROVE TypeOK'
  <2>1. leftover' = leftover
    BY <1>16, Zenon DEF SignIn, account
  <2>2. entered' \subseteq temporary /\ challenges' \subseteq 0 .. last
    BY <1>16 DEF SignIn, Enter
  <2>3. QED
    BY <1>16, <2>1, <2>2 DEF SignIn, Done, Goto, account
<1>17. ASSUME NEW v \in Passwords, SecondStep(v) PROVE TypeOK'
  BY <1>17 DEF SecondStep, Enter, account, request
<1>18. CASE UNCHANGED vars
  BY <1>18 DEF vars, account, request
<1> QED
  BY <1>1, <1>2, <1>3, <1>4, <1>5, <1>6, <1>7, <1>8, <1>9, <1>10, <1>11, <1>12, <1>13, <1>14, <1>15, <1>16, <1>17, <1>18 DEF Next, Step

(* Every variable keeps its type, whatever requests there are.             *)
THEOREM TypeCorrect == Spec => []TypeOK
  BY TypeInit, TypeStep, PTL DEF Spec

-----------------------------------------------------------------------------
(* The row of a temporary password.                                        *)

LEMMA StoreStep == TypeOK /\ StoreCurrent /\ [Next]_vars => StoreCurrent'
<1> SUFFICES ASSUME TypeOK, StoreCurrent, [Next]_vars PROVE StoreCurrent'
  OBVIOUS
<1> USE CredentialsAssumption, NoRowAssumption DEF TypeOK, StoreCurrent, Passwords, Askers
<1>1. CASE Issue
  BY <1>1 DEF Issue, NewPassword, During, IssuedRow, account, request
<1>2. CASE Expire
  BY <1>2 DEF Expire, account, request
<1>3. ASSUME NEW p \in Requests, Authenticate(p) PROVE StoreCurrent'
  BY <1>3 DEF Authenticate, Begin, Goto, Askers, account, request
<1>4. ASSUME NEW p \in Requests, AskState(p) PROVE StoreCurrent'
  BY <1>4 DEF AskState, Begin, Goto, Askers, account, request
<1>5. ASSUME NEW p \in Requests, StateOf(p) PROVE StoreCurrent'
  BY <1>5 DEF StateOf, Permanent, Overdue, Expired, Temporary, Goto, Done, Askers, account, request
<1>6. ASSUME NEW p \in Requests, Retire(p) PROVE StoreCurrent'
  BY <1>6 DEF Retire, Retired, Done, Goto, account, request
<1>7. ASSUME NEW p \in Requests, Reveal(p) PROVE StoreCurrent'
  BY <1>7 DEF Reveal, Done, Goto, account, request
<1>8. ASSUME NEW p \in Requests, Complete(p) PROVE StoreCurrent'
  BY <1>8 DEF Complete, NewPassword, During, Discarded, Goto, account, request
<1>9. ASSUME NEW p \in Requests, Refuse(p) PROVE StoreCurrent'
  BY <1>9 DEF Refuse, Done, Goto, account, request
<1>10. ASSUME NEW p \in Requests, Prove(p) PROVE StoreCurrent'
  BY <1>10 DEF Prove, Begin, Goto, account, request
<1>11. ASSUME NEW p \in Requests, Save(p) PROVE StoreCurrent'
  BY <1>11 DEF Save, NewPassword, During, Goto, account, request
<1>12. ASSUME NEW p \in Requests, Discard(p) PROVE StoreCurrent'
  BY <1>12 DEF Discard, Discarded, Done, Goto, account, request
<1>13. ASSUME NEW p \in Requests, Die(p) PROVE StoreCurrent'
  BY <1>13 DEF Die, Done, Goto, account, request
<1>14. ASSUME NEW p \in Requests, LoadProfile(p) PROVE StoreCurrent'
  BY <1>14 DEF LoadProfile, Begin, Goto, account, request
<1>15. ASSUME NEW p \in Requests, StoreProfile(p) PROVE StoreCurrent'
  BY <1>15 DEF StoreProfile, Done, Goto, account, request
<1>16. ASSUME NEW p \in Requests, SignIn(p) PROVE StoreCurrent'
  BY <1>16 DEF SignIn, Enter, Done, Goto, account, request
<1>17. ASSUME NEW v \in Passwords, SecondStep(v) PROVE StoreCurrent'
  BY <1>17 DEF SecondStep, Enter, account, request
<1>18. CASE UNCHANGED vars
  BY <1>18 DEF vars, account, request
<1> QED
  BY <1>1, <1>2, <1>3, <1>4, <1>5, <1>6, <1>7, <1>8, <1>9, <1>10, <1>11, <1>12, <1>13, <1>14, <1>15, <1>16, <1>17, <1>18 DEF Next, Step

LEMMA DiscardStep == RowInv /\ [Next]_vars => DiscardChosen'
<1> SUFFICES ASSUME RowInv, [Next]_vars PROVE DiscardChosen'
  OBVIOUS
<1> USE CredentialsAssumption, NoRowAssumption DEF RowInv, TypeOK, StoreCurrent, DiscardChosen, Calm, Passwords, Askers
<1>1. CASE Issue
  BY <1>1 DEF Issue, NewPassword, During, IssuedRow, account, request
<1>2. CASE Expire
  BY <1>2 DEF Expire, account, request
<1>3. ASSUME NEW p \in Requests, Authenticate(p) PROVE DiscardChosen'
  BY <1>3 DEF Authenticate, Begin, Goto, Askers, account, request
<1>4. ASSUME NEW p \in Requests, AskState(p) PROVE DiscardChosen'
  BY <1>4 DEF AskState, Begin, Goto, Askers, account, request
<1>5. ASSUME NEW p \in Requests, StateOf(p) PROVE DiscardChosen'
  BY <1>5 DEF StateOf, Permanent, Overdue, Expired, Temporary, Goto, Done, Askers, account, request
<1>6. ASSUME NEW p \in Requests, Retire(p) PROVE DiscardChosen'
  BY <1>6 DEF Retire, Retired, Done, Goto, account, request
<1>7. ASSUME NEW p \in Requests, Reveal(p) PROVE DiscardChosen'
  BY <1>7 DEF Reveal, Done, Goto, account, request
<1>8. ASSUME NEW p \in Requests, Complete(p) PROVE DiscardChosen'
  BY <1>8 DEF Complete, NewPassword, During, Discarded, Goto, account, request
<1>9. ASSUME NEW p \in Requests, Refuse(p) PROVE DiscardChosen'
  BY <1>9 DEF Refuse, Done, Goto, account, request
<1>10. ASSUME NEW p \in Requests, Prove(p) PROVE DiscardChosen'
  BY <1>10 DEF Prove, Begin, Goto, account, request
<1>11. ASSUME NEW p \in Requests, Save(p) PROVE DiscardChosen'
  BY <1>11 DEF Save, NewPassword, During, Goto, account, request
<1>12. ASSUME NEW p \in Requests, Discard(p) PROVE DiscardChosen'
  BY <1>12 DEF Discard, Discarded, Done, Goto, account, request
<1>13. ASSUME NEW p \in Requests, Die(p) PROVE DiscardChosen'
  BY <1>13 DEF Die, Done, Goto, account, request
<1>14. ASSUME NEW p \in Requests, LoadProfile(p) PROVE DiscardChosen'
  BY <1>14 DEF LoadProfile, Begin, Goto, account, request
<1>15. ASSUME NEW p \in Requests, StoreProfile(p) PROVE DiscardChosen'
  BY <1>15 DEF StoreProfile, Done, Goto, account, request
<1>16. ASSUME NEW p \in Requests, SignIn(p) PROVE DiscardChosen'
  BY <1>16 DEF SignIn, Enter, Done, Goto, account, request
<1>17. ASSUME NEW v \in Passwords, SecondStep(v) PROVE DiscardChosen'
  BY <1>17 DEF SecondStep, Enter, account, request
<1>18. CASE UNCHANGED vars
  BY <1>18 DEF vars, account, request
<1> QED
  BY <1>1, <1>2, <1>3, <1>4, <1>5, <1>6, <1>7, <1>8, <1>9, <1>10, <1>11, <1>12, <1>13, <1>14, <1>15, <1>16, <1>17, <1>18 DEF Next, Step

LEMMA MustChangeStep == RowInv /\ [Next]_vars => TemporaryMustChange'
<1> SUFFICES ASSUME RowInv, [Next]_vars PROVE TemporaryMustChange'
  OBVIOUS
<1> USE CredentialsAssumption, NoRowAssumption DEF RowInv, TypeOK, StoreCurrent, DiscardChosen, TemporaryMustChange, TemporaryHasRow, Calm, Passwords, Row, Askers
<1>1. CASE Issue
  <2>1. row' \in Row
    BY <1>1 DEF Issue, NewPassword, IssuedRow
  <2>2. QED
    BY <1>1, <2>1 DEF Issue
<1>2. CASE Expire
  BY <1>2 DEF Expire, account, request
<1>3. ASSUME NEW p \in Requests, Authenticate(p) PROVE TemporaryMustChange'
  BY <1>3 DEF Authenticate, Begin, Goto, Askers, account, request
<1>4. ASSUME NEW p \in Requests, AskState(p) PROVE TemporaryMustChange'
  BY <1>4 DEF AskState, Begin, Goto, Askers, account, request
<1>5. ASSUME NEW p \in Requests, StateOf(p) PROVE TemporaryMustChange'
  BY <1>5 DEF StateOf, Permanent, Overdue, Expired, Temporary, Goto, Done, Askers, account, request
<1>6. ASSUME NEW p \in Requests, Retire(p) PROVE TemporaryMustChange'
  BY <1>6 DEF Retire, Retired, Done, Goto, account, request
<1>7. ASSUME NEW p \in Requests, Reveal(p) PROVE TemporaryMustChange'
  BY <1>7 DEF Reveal, Done, Goto, account, request
<1>8. ASSUME NEW p \in Requests, Complete(p) PROVE TemporaryMustChange'
  BY <1>8 DEF Complete, NewPassword, During, Discarded, Goto, account, request
<1>9. ASSUME NEW p \in Requests, Refuse(p) PROVE TemporaryMustChange'
  BY <1>9 DEF Refuse, Done, Goto, account, request
<1>10. ASSUME NEW p \in Requests, Prove(p) PROVE TemporaryMustChange'
  BY <1>10 DEF Prove, Begin, Goto, account, request
<1>11. ASSUME NEW p \in Requests, Save(p) PROVE TemporaryMustChange'
  BY <1>11 DEF Save, NewPassword, During, Goto, account, request
<1>12. ASSUME NEW p \in Requests, Discard(p) PROVE TemporaryMustChange'
  BY <1>12 DEF Discard, Discarded, Done, Goto, account, request
<1>13. ASSUME NEW p \in Requests, Die(p) PROVE TemporaryMustChange'
  BY <1>13 DEF Die, Done, Goto, account, request
<1>14. ASSUME NEW p \in Requests, LoadProfile(p) PROVE TemporaryMustChange'
  BY <1>14 DEF LoadProfile, Begin, Goto, account, request
<1>15. ASSUME NEW p \in Requests, StoreProfile(p) PROVE TemporaryMustChange'
  BY <1>15 DEF StoreProfile, Done, Goto, account, request
<1>16. ASSUME NEW p \in Requests, SignIn(p) PROVE TemporaryMustChange'
  BY <1>16 DEF SignIn, Enter, Done, Goto, account, request
<1>17. ASSUME NEW v \in Passwords, SecondStep(v) PROVE TemporaryMustChange'
  BY <1>17 DEF SecondStep, Enter, account, request
<1>18. CASE UNCHANGED vars
  BY <1>18 DEF vars, account, request
<1> QED
  BY <1>1, <1>2, <1>3, <1>4, <1>5, <1>6, <1>7, <1>8, <1>9, <1>10, <1>11, <1>12, <1>13, <1>14, <1>15, <1>16, <1>17, <1>18 DEF Next, Step

LEMMA RowStep == RowInv /\ [Next]_vars => RowInv'
  BY TypeStep, StoreStep, DiscardStep, MustChangeStep DEF RowInv

LEMMA RowInit == Init => RowInv
  BY TypeInit DEF RowInv, Init, StoreCurrent, DiscardChosen, TemporaryMustChange, TemporaryHasRow

(* A temporary password has its row, whatever the order of sign-ins,       *)
(* changes, resets and expiries, unless it was issued inside a change.     *)
THEOREM TemporaryKeepsRow == Spec => []TemporaryMustChange
<1>1. RowInv => TemporaryMustChange
  BY DEF RowInv
<1> QED
  BY RowInit, RowStep, <1>1, PTL DEF Spec

-----------------------------------------------------------------------------
(* The copy.                                                               *)

LEMMA OpensStep == CopyInv /\ [Next]_vars => CopyOpensAccount'
<1> SUFFICES ASSUME CopyInv, [Next]_vars PROVE CopyOpensAccount'
  OBVIOUS
<1> USE CredentialsAssumption, NoRowAssumption DEF CopyInv, TypeOK, StoreCurrent, CopyOpensAccount, Changing, Passwords, Row, Askers
<1>1. CASE Issue
  BY <1>1 DEF Issue, NewPassword, During, IssuedRow, account, request
<1>2. CASE Expire
  BY <1>2 DEF Expire, account, request
<1>3. ASSUME NEW p \in Requests, Authenticate(p) PROVE CopyOpensAccount'
  BY <1>3 DEF Authenticate, Begin, Goto, Askers, account, request
<1>4. ASSUME NEW p \in Requests, AskState(p) PROVE CopyOpensAccount'
  BY <1>4 DEF AskState, Begin, Goto, Askers, account, request
<1>5. ASSUME NEW p \in Requests, StateOf(p) PROVE CopyOpensAccount'
  BY <1>5 DEF StateOf, Permanent, Overdue, Expired, Temporary, Goto, Done, Askers, account, request
<1>6. ASSUME NEW p \in Requests, Retire(p) PROVE CopyOpensAccount'
  BY <1>6 DEF Retire, Retired, Done, Goto, account, request
<1>7. ASSUME NEW p \in Requests, Reveal(p) PROVE CopyOpensAccount'
  BY <1>7 DEF Reveal, Done, Goto, account, request
<1>8. ASSUME NEW p \in Requests, Complete(p) PROVE CopyOpensAccount'
  BY <1>8 DEF Complete, NewPassword, During, Discarded, Goto, account, request
<1>9. ASSUME NEW p \in Requests, Refuse(p) PROVE CopyOpensAccount'
  BY <1>9 DEF Refuse, Done, Goto, account, request
<1>10. ASSUME NEW p \in Requests, Prove(p) PROVE CopyOpensAccount'
  BY <1>10 DEF Prove, Begin, Goto, account, request
<1>11. ASSUME NEW p \in Requests, Save(p) PROVE CopyOpensAccount'
  BY <1>11 DEF Save, NewPassword, During, Goto, account, request
<1>12. ASSUME NEW p \in Requests, Discard(p) PROVE CopyOpensAccount'
  BY <1>12 DEF Discard, Discarded, Done, Goto, account, request
<1>13. ASSUME NEW p \in Requests, Die(p) PROVE CopyOpensAccount'
  BY <1>13 DEF Die, Done, Goto, account, request
<1>14. ASSUME NEW p \in Requests, LoadProfile(p) PROVE CopyOpensAccount'
  BY <1>14 DEF LoadProfile, Begin, Goto, account, request
<1>15. ASSUME NEW p \in Requests, StoreProfile(p) PROVE CopyOpensAccount'
  BY <1>15 DEF StoreProfile, Done, Goto, account, request
<1>16. ASSUME NEW p \in Requests, SignIn(p) PROVE CopyOpensAccount'
  BY <1>16 DEF SignIn, Enter, Done, Goto, account, request
<1>17. ASSUME NEW v \in Passwords, SecondStep(v) PROVE CopyOpensAccount'
  BY <1>17 DEF SecondStep, Enter, account, request
<1>18. CASE UNCHANGED vars
  BY <1>18 DEF vars, account, request
<1> QED
  BY <1>1, <1>2, <1>3, <1>4, <1>5, <1>6, <1>7, <1>8, <1>9, <1>10, <1>11, <1>12, <1>13, <1>14, <1>15, <1>16, <1>17, <1>18 DEF Next, Step

(* What can be revealed is the password of the account, outside a change.  *)
THEOREM CopyIsCurrent == Spec => []CopyOpensAccount
<1>1. Init => CopyInv
  BY TypeInit DEF CopyInv, Init, StoreCurrent, CopyOpensAccount
<1>2. CopyInv /\ [Next]_vars => CopyInv'
  BY TypeStep, StoreStep, OpensStep DEF CopyInv
<1>3. CopyInv => CopyOpensAccount
  BY DEF CopyInv
<1> QED
  BY <1>1, <1>2, <1>3, PTL DEF Spec

LEMMA RetireStep == RetireInv /\ [Next]_vars => (RetireKnows /\ TemporaryHasCopy)'
<1> SUFFICES ASSUME RetireInv, [Next]_vars PROVE (RetireKnows /\ TemporaryHasCopy)'
  OBVIOUS
<1> USE CredentialsAssumption, NoRowAssumption DEF RetireInv, TypeOK, RetireKnows, TemporaryHasCopy, Passwords, Row, Askers
<1>1. CASE Issue
  BY <1>1 DEF Issue, NewPassword, During, IssuedRow, account, request
<1>2. CASE Expire
  BY <1>2 DEF Expire, account, request
<1>3. ASSUME NEW p \in Requests, Authenticate(p) PROVE (RetireKnows /\ TemporaryHasCopy)'
  BY <1>3 DEF Authenticate, Begin, Goto, Askers, account, request
<1>4. ASSUME NEW p \in Requests, AskState(p) PROVE (RetireKnows /\ TemporaryHasCopy)'
  BY <1>4 DEF AskState, Begin, Goto, Askers, account, request
<1>5. ASSUME NEW p \in Requests, StateOf(p) PROVE (RetireKnows /\ TemporaryHasCopy)'
  BY <1>5 DEF StateOf, Permanent, Overdue, Expired, Temporary, Goto, Done, Askers, account, request
<1>6. ASSUME NEW p \in Requests, Retire(p) PROVE (RetireKnows /\ TemporaryHasCopy)'
  BY <1>6 DEF Retire, Retired, Done, Goto, account, request
<1>7. ASSUME NEW p \in Requests, Reveal(p) PROVE (RetireKnows /\ TemporaryHasCopy)'
  BY <1>7 DEF Reveal, Done, Goto, account, request
<1>8. ASSUME NEW p \in Requests, Complete(p) PROVE (RetireKnows /\ TemporaryHasCopy)'
  BY <1>8 DEF Complete, NewPassword, During, Discarded, Goto, account, request
<1>9. ASSUME NEW p \in Requests, Refuse(p) PROVE (RetireKnows /\ TemporaryHasCopy)'
  BY <1>9 DEF Refuse, Done, Goto, account, request
<1>10. ASSUME NEW p \in Requests, Prove(p) PROVE (RetireKnows /\ TemporaryHasCopy)'
  BY <1>10 DEF Prove, Begin, Goto, account, request
<1>11. ASSUME NEW p \in Requests, Save(p) PROVE (RetireKnows /\ TemporaryHasCopy)'
  BY <1>11 DEF Save, NewPassword, During, Goto, account, request
<1>12. ASSUME NEW p \in Requests, Discard(p) PROVE (RetireKnows /\ TemporaryHasCopy)'
  BY <1>12 DEF Discard, Discarded, Done, Goto, account, request
<1>13. ASSUME NEW p \in Requests, Die(p) PROVE (RetireKnows /\ TemporaryHasCopy)'
  BY <1>13 DEF Die, Done, Goto, account, request
<1>14. ASSUME NEW p \in Requests, LoadProfile(p) PROVE (RetireKnows /\ TemporaryHasCopy)'
  BY <1>14 DEF LoadProfile, Begin, Goto, account, request
<1>15. ASSUME NEW p \in Requests, StoreProfile(p) PROVE (RetireKnows /\ TemporaryHasCopy)'
  BY <1>15 DEF StoreProfile, Done, Goto, account, request
<1>16. ASSUME NEW p \in Requests, SignIn(p) PROVE (RetireKnows /\ TemporaryHasCopy)'
  BY <1>16 DEF SignIn, Enter, Done, Goto, account, request
<1>17. ASSUME NEW v \in Passwords, SecondStep(v) PROVE (RetireKnows /\ TemporaryHasCopy)'
  BY <1>17 DEF SecondStep, Enter, account, request
<1>18. CASE UNCHANGED vars
  BY <1>18 DEF vars, account, request
<1> QED
  BY <1>1, <1>2, <1>3, <1>4, <1>5, <1>6, <1>7, <1>8, <1>9, <1>10, <1>11, <1>12, <1>13, <1>14, <1>15, <1>16, <1>17, <1>18 DEF Next, Step

(* A copy is missing from a row in force only when a password was issued   *)
(* between the read and the save of an expiry.                             *)
THEOREM CopyUntilExpiry == Spec => []TemporaryHasCopy
<1>1. Init => RetireInv
  BY TypeInit DEF RetireInv, Init, RetireKnows, TemporaryHasCopy
<1>2. RetireInv /\ [Next]_vars => RetireInv'
  BY TypeStep, RetireStep DEF RetireInv
<1>3. RetireInv => TemporaryHasCopy
  BY DEF RetireInv
<1> QED
  BY <1>1, <1>2, <1>3, PTL DEF Spec

-----------------------------------------------------------------------------
(* Sessions.                                                               *)

(* No password is taken back, and what a stored one is it stays.           *)
Grows ==
    /\ last' \in last .. MaxPasswords
    /\ temporary \subseteq temporary' /\ outrun \subseteq outrun'
    /\ temporary' \cap 0 .. last \subseteq temporary

LEMMA GrowsStep == TypeOK /\ [Next]_vars => Grows
<1> SUFFICES ASSUME TypeOK, [Next]_vars PROVE Grows
  OBVIOUS
<1> USE CredentialsAssumption, NoRowAssumption DEF TypeOK, Grows, Passwords, Askers
<1>1. CASE Issue
  BY <1>1 DEF Issue, NewPassword, During, IssuedRow, account, request
<1>2. CASE Expire
  BY <1>2 DEF Expire, account, request
<1>3. ASSUME NEW p \in Requests, Authenticate(p) PROVE Grows
  BY <1>3 DEF Authenticate, Begin, Goto, Askers, account, request
<1>4. ASSUME NEW p \in Requests, AskState(p) PROVE Grows
  BY <1>4 DEF AskState, Begin, Goto, Askers, account, request
<1>5. ASSUME NEW p \in Requests, StateOf(p) PROVE Grows
  BY <1>5 DEF StateOf, Permanent, Overdue, Expired, Temporary, Goto, Done, Askers, account, request
<1>6. ASSUME NEW p \in Requests, Retire(p) PROVE Grows
  BY <1>6 DEF Retire, Retired, Done, Goto, account, request
<1>7. ASSUME NEW p \in Requests, Reveal(p) PROVE Grows
  BY <1>7 DEF Reveal, Done, Goto, account, request
<1>8. ASSUME NEW p \in Requests, Complete(p) PROVE Grows
  BY <1>8 DEF Complete, NewPassword, During, Discarded, Goto, account, request
<1>9. ASSUME NEW p \in Requests, Refuse(p) PROVE Grows
  BY <1>9 DEF Refuse, Done, Goto, account, request
<1>10. ASSUME NEW p \in Requests, Prove(p) PROVE Grows
  BY <1>10 DEF Prove, Begin, Goto, account, request
<1>11. ASSUME NEW p \in Requests, Save(p) PROVE Grows
  BY <1>11 DEF Save, NewPassword, During, Goto, account, request
<1>12. ASSUME NEW p \in Requests, Discard(p) PROVE Grows
  BY <1>12 DEF Discard, Discarded, Done, Goto, account, request
<1>13. ASSUME NEW p \in Requests, Die(p) PROVE Grows
  BY <1>13 DEF Die, Done, Goto, account, request
<1>14. ASSUME NEW p \in Requests, LoadProfile(p) PROVE Grows
  BY <1>14 DEF LoadProfile, Begin, Goto, account, request
<1>15. ASSUME NEW p \in Requests, StoreProfile(p) PROVE Grows
  BY <1>15 DEF StoreProfile, Done, Goto, account, request
<1>16. ASSUME NEW p \in Requests, SignIn(p) PROVE Grows
  BY <1>16 DEF SignIn, Enter, Done, Goto, account, request
<1>17. ASSUME NEW v \in Passwords, SecondStep(v) PROVE Grows
  BY <1>17 DEF SecondStep, Enter, account, request
<1>18. CASE UNCHANGED vars
  BY <1>18 DEF vars, account, request
<1> QED
  BY <1>1, <1>2, <1>3, <1>4, <1>5, <1>6, <1>7, <1>8, <1>9, <1>10, <1>11, <1>12, <1>13, <1>14, <1>15, <1>16, <1>17, <1>18 DEF Next, Step

LEMMA LateStays ==
  ASSUME TypeOK, [Next]_vars, NEW v \in temporary, Late(v)
  PROVE  Late(v)'
<1>1. Grows
  BY GrowsStep
<1>2. PICK w \in (v + 1) .. last : w \notin temporary
  BY DEF Late, Replaced
<1>3. w \in (v + 1) .. last' /\ w \notin temporary'
  BY <1>1, <1>2, CredentialsAssumption DEF Grows, TypeOK, Passwords
<1> QED
  BY <1>1, <1>3 DEF Late, Replaced, Grows

LEMMA LoginStep == TypeOK /\ StoreCurrent /\ LoginKnows /\ [Next]_vars => LoginKnows'
<1> SUFFICES ASSUME TypeOK, StoreCurrent, LoginKnows, [Next]_vars PROVE LoginKnows'
  OBVIOUS
<1> USE CredentialsAssumption, NoRowAssumption DEF TypeOK, StoreCurrent, LoginKnows, Passwords, Askers
<1>1. CASE Issue
  BY <1>1 DEF Issue, NewPassword, During, IssuedRow, account, request
<1>2. CASE Expire
  BY <1>2 DEF Expire, account, request
<1>3. ASSUME NEW p \in Requests, Authenticate(p) PROVE LoginKnows'
  BY <1>3 DEF Authenticate, Begin, Goto, Askers, account, request
<1>4. ASSUME NEW p \in Requests, AskState(p) PROVE LoginKnows'
  BY <1>4 DEF AskState, Begin, Goto, Askers, account, request
<1>5. ASSUME NEW p \in Requests, StateOf(p) PROVE LoginKnows'
  BY <1>5 DEF StateOf, Permanent, Overdue, Expired, Temporary, Goto, Done, Askers, account, request
<1>6. ASSUME NEW p \in Requests, Retire(p) PROVE LoginKnows'
  BY <1>6 DEF Retire, Retired, Done, Goto, account, request
<1>7. ASSUME NEW p \in Requests, Reveal(p) PROVE LoginKnows'
  BY <1>7 DEF Reveal, Done, Goto, account, request
<1>8. ASSUME NEW p \in Requests, Complete(p) PROVE LoginKnows'
  BY <1>8 DEF Complete, NewPassword, During, Discarded, Goto, account, request
<1>9. ASSUME NEW p \in Requests, Refuse(p) PROVE LoginKnows'
  BY <1>9 DEF Refuse, Done, Goto, account, request
<1>10. ASSUME NEW p \in Requests, Prove(p) PROVE LoginKnows'
  BY <1>10 DEF Prove, Begin, Goto, account, request
<1>11. ASSUME NEW p \in Requests, Save(p) PROVE LoginKnows'
  BY <1>11 DEF Save, NewPassword, During, Goto, account, request
<1>12. ASSUME NEW p \in Requests, Discard(p) PROVE LoginKnows'
  BY <1>12 DEF Discard, Discarded, Done, Goto, account, request
<1>13. ASSUME NEW p \in Requests, Die(p) PROVE LoginKnows'
  BY <1>13 DEF Die, Done, Goto, account, request
<1>14. ASSUME NEW p \in Requests, LoadProfile(p) PROVE LoginKnows'
  BY <1>14 DEF LoadProfile, Begin, Goto, account, request
<1>15. ASSUME NEW p \in Requests, StoreProfile(p) PROVE LoginKnows'
  BY <1>15 DEF StoreProfile, Done, Goto, account, request
<1>16. ASSUME NEW p \in Requests, SignIn(p) PROVE LoginKnows'
  BY <1>16 DEF SignIn, Enter, Done, Goto, account, request
<1>17. ASSUME NEW v \in Passwords, SecondStep(v) PROVE LoginKnows'
  BY <1>17 DEF SecondStep, Enter, account, request
<1>18. CASE UNCHANGED vars
  BY <1>18 DEF vars, account, request
<1> QED
  BY <1>1, <1>2, <1>3, <1>4, <1>5, <1>6, <1>7, <1>8, <1>9, <1>10, <1>11, <1>12, <1>13, <1>14, <1>15, <1>16, <1>17, <1>18 DEF Next, Step

(* A sign-in that finds no row has proved a password that was chosen, or   *)
(* an older one than the account's, which was.                             *)
LEMMA NoRowIsLate ==
  ASSUME RowInv, LoginKnows, Calm, row = NoRow,
         NEW p \in Requests, pc[p] = "login", seen[p] \in temporary
  PROVE  Late(seen[p])
<1>1. "save" \notin overlap
  BY DEF Calm
<1>2. hash = last /\ hash \notin temporary
  BY <1>1 DEF RowInv, LoginKnows, TemporaryMustChange, TemporaryHasRow, Calm
<1>3. seen[p] \in outrun
  BY <1>1, <1>2 DEF LoginKnows
<1>4. last \in (seen[p] + 1) .. last
  BY <1>2, CredentialsAssumption DEF RowInv, TypeOK, Passwords
<1> QED
  BY <1>2, <1>3, <1>4 DEF Late, Replaced

LEMMA ProofsStep == EnterInv /\ [Next]_vars => ProofsHold'
<1> SUFFICES ASSUME EnterInv, [Next]_vars PROVE ProofsHold'
  OBVIOUS
<1>0. \A v \in temporary : Late(v) => Late(v)'
  BY LateStays DEF EnterInv, RowInv
<1> USE CredentialsAssumption, NoRowAssumption DEF EnterInv, RowInv, TypeOK, ProofsHold, Calm, Passwords, Askers
<1>1. CASE Issue
  BY <1>1, <1>0 DEF Issue, NewPassword, During, IssuedRow, account, request
<1>2. CASE Expire
  BY <1>2, <1>0 DEF Expire, account, request
<1>3. ASSUME NEW p \in Requests, Authenticate(p) PROVE ProofsHold'
  BY <1>3, <1>0 DEF Authenticate, Begin, Goto, Askers, account, request
<1>4. ASSUME NEW p \in Requests, AskState(p) PROVE ProofsHold'
  BY <1>4, <1>0 DEF AskState, Begin, Goto, Askers, account, request
<1>5. ASSUME NEW p \in Requests, StateOf(p) PROVE ProofsHold'
  <2>1. Calm' => Calm /\ UNCHANGED <<temporary, challenges>>
    BY <1>5 DEF StateOf, account
  <2>2. ASSUME Calm, NEW q \in Requests, pc'[q] = "gate", seen'[q] \in temporary PROVE Late(seen'[q])
    <3>1. CASE q = p
      <4>1. row = NoRow /\ pc[p] = "login" /\ seen'[p] = seen[p]
        BY <1>5, <2>2, <3>1
        DEF StateOf, Permanent, Overdue, Expired, Temporary, Goto, Done
      <4> QED
        BY <2>2, <3>1, <4>1, NoRowIsLate
    <3>2. CASE q # p
      <4>1. pc[q] = "gate" /\ seen'[q] = seen[q]
        BY <1>5, <2>2, <3>2
        DEF StateOf, Permanent, Overdue, Expired, Temporary, Goto, Done
      <4> QED
        BY <2>2, <4>1
    <3> QED
      BY <3>1, <3>2
  <2>3. ASSUME NEW v \in temporary, Late(v) PROVE Late(v)'
    BY <1>0, <2>3
  <2> QED
    BY <2>1, <2>2, <2>3
<1>6. ASSUME NEW p \in Requests, Retire(p) PROVE ProofsHold'
  BY <1>6, <1>0 DEF Retire, Retired, Done, Goto, account, request
<1>7. ASSUME NEW p \in Requests, Reveal(p) PROVE ProofsHold'
  BY <1>7, <1>0 DEF Reveal, Done, Goto, account, request
<1>8. ASSUME NEW p \in Requests, Complete(p) PROVE ProofsHold'
  BY <1>8, <1>0 DEF Complete, NewPassword, During, Discarded, Goto, account, request
<1>9. ASSUME NEW p \in Requests, Refuse(p) PROVE ProofsHold'
  BY <1>9, <1>0 DEF Refuse, Done, Goto, account, request
<1>10. ASSUME NEW p \in Requests, Prove(p) PROVE ProofsHold'
  BY <1>10, <1>0 DEF Prove, Begin, Goto, account, request
<1>11. ASSUME NEW p \in Requests, Save(p) PROVE ProofsHold'
  BY <1>11, <1>0 DEF Save, NewPassword, During, Goto, account, request
<1>12. ASSUME NEW p \in Requests, Discard(p) PROVE ProofsHold'
  BY <1>12, <1>0 DEF Discard, Discarded, Done, Goto, account, request
<1>13. ASSUME NEW p \in Requests, Die(p) PROVE ProofsHold'
  BY <1>13, <1>0 DEF Die, Done, Goto, account, request
<1>14. ASSUME NEW p \in Requests, LoadProfile(p) PROVE ProofsHold'
  BY <1>14, <1>0 DEF LoadProfile, Begin, Goto, account, request
<1>15. ASSUME NEW p \in Requests, StoreProfile(p) PROVE ProofsHold'
  BY <1>15, <1>0 DEF StoreProfile, Done, Goto, account, request
<1>16. ASSUME NEW p \in Requests, SignIn(p) PROVE ProofsHold'
  BY <1>16, <1>0 DEF SignIn, Enter, Done, Goto, account, request
<1>17. ASSUME NEW v \in Passwords, SecondStep(v) PROVE ProofsHold'
  BY <1>17, <1>0 DEF SecondStep, Enter, account, request
<1>18. CASE UNCHANGED vars
  BY <1>18, <1>0 DEF vars, account, request
<1> QED
  BY <1>1, <1>2, <1>3, <1>4, <1>5, <1>6, <1>7, <1>8, <1>9, <1>10, <1>11, <1>12, <1>13, <1>14, <1>15, <1>16, <1>17, <1>18 DEF Next, Step

(* Where a session comes from.                                             *)
LEMMA EnteredFrom ==
  ASSUME [Next]_vars, NEW v \in entered' \ entered
  PROVE  /\ v \in temporary
         /\ \/ \E p \in Requests : pc[p] = "gate" /\ seen[p] = v
            \/ v \in challenges
<1> DEFINE Goal == /\ v \in temporary
                   /\ \/ \E p \in Requests : pc[p] = "gate" /\ seen[p] = v
                      \/ v \in challenges
<1>1. ASSUME NEW p \in Requests, SignIn(p) PROVE Goal
  BY <1>1 DEF SignIn, Enter
<1>2. ASSUME NEW u \in Passwords, SecondStep(u) PROVE Goal
  BY <1>2 DEF SecondStep, Enter
<1>3. ASSUME NEW p \in Requests, Step(p), ~SignIn(p) PROVE entered' = entered
  BY <1>3 DEF Step, Authenticate, AskState, Begin, StateOf, Retire, Reveal, Complete, Refuse,
              Prove, Save, Discard, Die, LoadProfile, StoreProfile
<1>4. ASSUME Issue \/ Expire \/ UNCHANGED vars PROVE entered' = entered
  BY <1>4 DEF Issue, Expire, vars
<1> QED
  BY <1>1, <1>2, <1>3, <1>4 DEF Next

(* What comes in between is not forgotten.                                 *)
LEMMA CalmBefore == [Next]_vars /\ Calm' => Calm
<1>1. ASSUME NEW p \in Requests, Step(p) PROVE overlap \subseteq overlap'
  BY <1>1 DEF Step, Authenticate, AskState, Begin, StateOf, Retire, Reveal, Complete, Refuse, NewPassword,
              Prove, Save, Discard, Die, LoadProfile, StoreProfile, SignIn, account
<1>2. ASSUME NEW u \in Passwords, SecondStep(u) PROVE overlap \subseteq overlap'
  BY <1>2 DEF SecondStep, account
<1>3. ASSUME Issue \/ Expire \/ UNCHANGED vars PROVE overlap \subseteq overlap'
  BY <1>3 DEF Issue, NewPassword, Expire, vars, account
<1> QED
  BY <1>1, <1>2, <1>3 DEF Next, Calm

LEMMA EnterStep == EnterInv /\ [Next]_vars => NoSessionByTemporary'
<1> SUFFICES ASSUME EnterInv, [Next]_vars, Calm', NEW v \in entered' PROVE Late(v)'
  BY DEF Calm, NoSessionByTemporary, Late
<1>1. Calm
  BY CalmBefore DEF EnterInv, RowInv
<1>2. v \in temporary /\ Late(v)
  <2>1. CASE v \in entered
    BY <1>1, <2>1 DEF EnterInv, RowInv, TypeOK, NoSessionByTemporary, Calm, Late
  <2>2. CASE v \notin entered
    <3>1. \/ \E p \in Requests : pc[p] = "gate" /\ seen[p] = v
          \/ v \in challenges
      BY <2>2, EnteredFrom
    <3>2. v \in temporary
      BY <2>2, EnteredFrom
    <3> QED
      BY <1>1, <3>1, <3>2 DEF EnterInv, ProofsHold
  <2> QED
    BY <2>1, <2>2
<1> QED
  BY <1>2, LateStays DEF EnterInv, RowInv

(* A temporary password gives a session only to a sign-in that proved it   *)
(* before it was replaced and asked for the state of the account after;    *)
(* nobody gets one before the owner has chosen a password.                 *)
THEOREM NoTemporarySession == Spec => []NoSessionByTemporary
<1>1. Init => EnterInv
  BY RowInit DEF EnterInv, Init, LoginKnows, ProofsHold, NoSessionByTemporary
<1>2. EnterInv /\ [Next]_vars => EnterInv'
  BY RowStep, LoginStep, ProofsStep, EnterStep DEF EnterInv, RowInv
<1>3. EnterInv => NoSessionByTemporary
  BY DEF EnterInv
<1> QED
  BY <1>1, <1>2, <1>3, PTL DEF Spec
=============================================================================
