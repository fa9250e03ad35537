-------------------------- MODULE TwoFactorProofs --------------------------
(***************************************************************************)
(* Proofs about TwoFactor, for every number of requests, secrets, batches  *)
(* and steps: type correctness, the life of recovery codes, the use of     *)
(* every code at most once, the advance of the last step and the bound of  *)
(* refusals.                                                               *)
(***************************************************************************)
EXTENDS TwoFactor, FiniteSetTheorems, TLAPS

(* What a request carries at each of its steps.                            *)
Carried ==
    \A r \in Requests :
        /\ rpk[r] \in 0 .. secrets
        /\ pc[r] = "claim" => code[r] \in Totp /\ rpk[r] # None
        /\ pc[r] = "burn" => code[r] \in Recovery

(* A factor is active in a row only, and a row has a secret.               *)
RowInv ==
    /\ active => pk # None
    /\ pk # None <=> secret # None

TypeInv == TypeOK /\ Carried /\ RowInv

(* A transaction that burns a recovery code has the row to itself.         *)
BurnInv ==
    \A r \in Requests :
        pc[r] = "burn" => lock = r /\ hashes[r] = recovery /\ code[r] \in recovery

CodesInv == BurnInv /\ OldCodesDie

(* An accepted code is behind the last step, burnt, or of an earlier       *)
(* secret; a claim in progress is about the active factor, or the row it   *)
(* was about has gone.                                                     *)
Spent ==
    \A c \in accepted :
        /\ c.kind = "totp" => c.of <= secrets
        /\ c.kind = "totp" /\ c.of = secret => active /\ c.at <= lastStep
        /\ c.kind = "recovery" => c \notin recovery /\ c.of <= batches

Claims ==
    \A r \in Requests :
        pc[r] = "claim" /\ rpk[r] = pk => active /\ code[r].of = secret

OnceInv == ~undone => Spent /\ Claims /\ ~twice /\ (~active => lastStep = 0)

-----------------------------------------------------------------------------
(* Types.                                                                  *)

LEMMA Kinds ==
    ASSUME NEW c \in Codes
    PROVE  /\ c.kind = "totp" => c.of \in 1 .. MaxSecrets /\ c.at \in 1 .. MaxStep
           /\ c.kind = "recovery" => c \in Recovery /\ c.of \in 1 .. MaxBatches
  BY DEF Codes, Totp, Recovery, NoCode

LEMMA ShownCodes == Shown \subseteq Codes
  BY DEF Shown, Codes

LEMMA TypeInit == Init => TypeInv
<1> SUFFICES ASSUME Init PROVE TypeInv
  OBVIOUS
<1> USE BoundsAssumption DEF Init, None
<1>1. /\ active \in BOOLEAN /\ counting \in BOOLEAN
      /\ twice \in BOOLEAN /\ undone \in BOOLEAN
  BY Zenon
<1>2. TypeOK
  BY <1>1 DEF TypeOK, Codes, Steps
<1>3. Carried
  BY DEF Carried
<1>4. RowInv
  BY DEF RowInv
<1> QED
  BY <1>2, <1>3, <1>4 DEF TypeInv

LEMMA TypeStep == TypeInv /\ [Next]_vars => TypeInv'
<1> SUFFICES ASSUME TypeInv, [Next]_vars PROVE TypeInv'
  OBVIOUS
<1> USE BoundsAssumption DEF TypeInv, TypeOK, Carried, RowInv, Codes, None
<1>1. ASSUME NEW r \in Requests, BeginSetup(r)
      PROVE  TypeInv'
  BY <1>1 DEF BeginSetup, Goto, Steps, row, cache, ghosts
<1>2. ASSUME NEW r \in Requests, IssueSecret(r)
      PROVE  TypeInv'
  <2>1. TypeOK'
    <3>1. /\ active' \in BOOLEAN /\ counting' \in BOOLEAN
          /\ twice' \in BOOLEAN /\ undone' \in BOOLEAN
      BY <1>2, Zenon DEF IssueSecret, Row, Unlocked, Done, Goto, cache
    <3> QED
      BY <1>2, <3>1 DEF IssueSecret, Row, Unlocked, Done, Goto, Steps, cache
  <2>2. Carried'
    BY <1>2 DEF IssueSecret, Row, Unlocked, Done, Goto, cache
  <2>3. RowInv'
    BY <1>2 DEF IssueSecret, Row, Unlocked, Done, Goto, cache
  <2> QED
    BY <2>1, <2>2, <2>3
<1>3. ASSUME NEW r \in Requests, StartConfirm(r)
      PROVE  TypeInv'
  BY <1>3 DEF StartConfirm, Goto, Steps, row, cache, ghosts
<1>4. ASSUME NEW r \in Requests, NEW c \in Shown, Confirm(r, c)
      PROVE  TypeInv'
  <2> c \in Codes /\ c.at \in 1 .. MaxStep
    BY <1>4, ShownCodes, Kinds DEF Confirm, Matches
  <2>1. TypeOK'
    <3>1. /\ active' \in BOOLEAN /\ counting' \in BOOLEAN
          /\ twice' \in BOOLEAN /\ undone' \in BOOLEAN
      BY <1>4, Zenon
      DEF Confirm, Unlocked, Pending, Matches, Accept, ClearFailures, Done, Goto, Batch
    <3> QED
      BY <1>4, <3>1
      DEF Confirm, Unlocked, Pending, Matches, Accept, ClearFailures, Done, Goto, Batch,
          Steps
  <2>2. Carried'
    BY <1>4
    DEF Confirm, Unlocked, Pending, Matches, Accept, ClearFailures, Done, Goto, Batch
  <2>3. RowInv'
    BY <1>4
    DEF Confirm, Unlocked, Pending, Matches, Accept, ClearFailures, Done, Goto, Batch
  <2> QED
    BY <2>1, <2>2, <2>3
<1>5. ASSUME NEW r \in Requests, NEW c \in Shown, RefuseConfirm(r, c)
      PROVE  TypeInv'
  BY <1>5 DEF RefuseConfirm, Unlocked, Pending, Matches, Done, Goto, Steps, row, cache
<1>6. ASSUME NEW r \in Requests, StartVerify(r)
      PROVE  TypeInv'
  BY <1>6 DEF StartVerify, Goto, Steps, row, cache, ghosts
<1>7. ASSUME NEW r \in Requests, NEW c \in Shown, ReadFactor(r, c)
      PROVE  TypeInv'
  BY <1>7
  DEF ReadFactor, Matches, Done, Goto, Shown, Recovery, NoCode, Steps, row, cache,
      request, ghosts
<1>8. ASSUME NEW r \in Requests, ClaimStep(r)
      PROVE  TypeInv'
  <2>1. TypeOK'
    <3>1. /\ active' \in BOOLEAN /\ counting' \in BOOLEAN
          /\ twice' \in BOOLEAN /\ undone' \in BOOLEAN
      BY <1>8, Zenon DEF ClaimStep, Unlocked, ClaimWins, Accept, Goto, cache
    <3> QED
      BY <1>8, <3>1 DEF ClaimStep, Unlocked, ClaimWins, Accept, Goto, Totp, Steps, cache
  <2>2. Carried'
    BY <1>8 DEF ClaimStep, Unlocked, ClaimWins, Accept, Goto, cache
  <2>3. RowInv'
    BY <1>8 DEF ClaimStep, Unlocked, ClaimWins, Accept, Goto, cache
  <2> QED
    BY <2>1, <2>2, <2>3
<1>9. ASSUME NEW r \in Requests, LockRecovery(r)
      PROVE  TypeInv'
  BY <1>9 DEF LockRecovery, Unlocked, Done, Goto, Steps, row, cache
<1>10. ASSUME NEW r \in Requests, BurnRecovery(r)
      PROVE  TypeInv'
  BY <1>10 DEF BurnRecovery, Unlocked, Release, Accept, Goto, Steps, cache
<1>11. ASSUME NEW r \in Requests, Verified(r)
      PROVE  TypeInv'
  <2>1. TypeOK'
    <3>1. /\ active' \in BOOLEAN /\ counting' \in BOOLEAN
          /\ twice' \in BOOLEAN /\ undone' \in BOOLEAN
      BY <1>11, Zenon DEF Verified, ClearFailures, Done, Goto, row
    <3> QED
      BY <1>11, <3>1 DEF Verified, ClearFailures, Done, Goto, Steps, row
  <2>2. Carried'
    BY <1>11 DEF Verified, ClearFailures, Done, Goto, row
  <2>3. RowInv'
    BY <1>11 DEF Verified, ClearFailures, Done, Goto, row
  <2> QED
    BY <2>1, <2>2, <2>3
<1>12. ASSUME NEW r \in Requests, AddCounter(r)
      PROVE  TypeInv'
  BY <1>12 DEF AddCounter, Goto, Steps, row, ghosts
<1>13. ASSUME NEW r \in Requests, IncrCounter(r)
      PROVE  TypeInv'
  BY <1>13 DEF IncrCounter, Done, Goto, Release, Steps, row, ghosts
<1>14. ASSUME NEW r \in Requests, SetCounter(r)
      PROVE  TypeInv'
  BY <1>14 DEF SetCounter, Done, Release, Goto, Steps, row, ghosts
<1>15. ASSUME NEW r \in Requests, DeleteFactor(r)
      PROVE  TypeInv'
  <2>1. TypeOK'
    <3>1. /\ active' \in BOOLEAN /\ counting' \in BOOLEAN
          /\ twice' \in BOOLEAN /\ undone' \in BOOLEAN
      BY <1>15, Zenon DEF DeleteFactor, Unlocked, Done, Goto, cache, ghosts
    <3> QED
      BY <1>15, <3>1 DEF DeleteFactor, Unlocked, Done, Goto, Steps, cache, ghosts
  <2>2. Carried'
    BY <1>15 DEF DeleteFactor, Unlocked, Done, Goto, cache, ghosts
  <2>3. RowInv'
    BY <1>15 DEF DeleteFactor, Unlocked, Done, Goto, cache, ghosts
  <2> QED
    BY <2>1, <2>2, <2>3
<1>16. ASSUME NEW r \in Requests, ReadForCodes(r)
      PROVE  TypeInv'
  BY <1>16 DEF ReadForCodes, Done, Goto, Steps, row, cache, ghosts
<1>17. ASSUME NEW r \in Requests, ReplaceCodes(r)
      PROVE  TypeInv'
  BY <1>17 DEF ReplaceCodes, Unlocked, Done, Batch, Goto, Steps, cache
<1>18. ASSUME NEW r \in Requests, Die(r)
      PROVE  TypeInv'
  BY <1>18 DEF Die, Release, Done, Goto, Steps, row, cache, ghosts
<1>19. CASE ExpireCounter
  BY <1>19 DEF ExpireCounter, ClearFailures, row, request
<1>20. CASE UNCHANGED vars
  BY <1>20 DEF vars, row, cache, request, ghosts
<1> QED
  BY <1>1, <1>2, <1>3, <1>4, <1>5, <1>6, <1>7, <1>8, <1>9, <1>10, <1>11, <1>12, <1>13,
      <1>14, <1>15, <1>16, <1>17, <1>18, <1>19, <1>20
  DEF Next, Enrol, Verify, Fail, Manage

(* Every variable keeps its type, for any number of requests, failures,    *)
(* secrets, batches and steps: the row never holds a secret that was not   *)
(* issued, and the recovery codes it holds are such codes.                 *)
THEOREM TypeCorrect == Spec => []TypeOK
<1>1. TypeInv => TypeOK
  BY DEF TypeInv
<1> QED
  BY TypeInit, TypeStep, <1>1, PTL DEF Spec

-----------------------------------------------------------------------------
(* Recovery codes.                                                         *)

LEMMA CodesInit == Init => CodesInv
  BY DEF Init, CodesInv, BurnInv, OldCodesDie

LEMMA CodesStep == TypeInv /\ CodesInv /\ [Next]_vars => CodesInv'
<1> SUFFICES ASSUME TypeInv, CodesInv, [Next]_vars PROVE CodesInv'
  OBVIOUS
<1> USE BoundsAssumption DEF TypeInv, TypeOK, CodesInv, BurnInv, OldCodesDie, Batch
<1>1. ASSUME NEW r \in Requests, BeginSetup(r)
      PROVE  CodesInv'
  BY <1>1 DEF BeginSetup, Goto, row, cache, ghosts
<1>2. ASSUME NEW r \in Requests, IssueSecret(r)
      PROVE  CodesInv'
  BY <1>2 DEF IssueSecret, Row, Unlocked, Done, Goto, cache
<1>3. ASSUME NEW r \in Requests, StartConfirm(r)
      PROVE  CodesInv'
  BY <1>3 DEF StartConfirm, Goto, row, cache, ghosts
<1>4. ASSUME NEW r \in Requests, NEW c \in Shown, Confirm(r, c)
      PROVE  CodesInv'
  BY <1>4 DEF Confirm, Unlocked, Pending, Matches, Accept, ClearFailures, Done, Goto
<1>5. ASSUME NEW r \in Requests, NEW c \in Shown, RefuseConfirm(r, c)
      PROVE  CodesInv'
  BY <1>5 DEF RefuseConfirm, Unlocked, Pending, Matches, Done, Goto, row, cache
<1>6. ASSUME NEW r \in Requests, StartVerify(r)
      PROVE  CodesInv'
  BY <1>6 DEF StartVerify, Goto, row, cache, ghosts
<1>7. ASSUME NEW r \in Requests, NEW c \in Shown, ReadFactor(r, c)
      PROVE  CodesInv'
  BY <1>7 DEF ReadFactor, Matches, Done, Goto, row, cache, ghosts
<1>8. ASSUME NEW r \in Requests, ClaimStep(r)
      PROVE  CodesInv'
  BY <1>8 DEF ClaimStep, Unlocked, ClaimWins, Accept, Goto, cache
<1>9. ASSUME NEW r \in Requests, LockRecovery(r)
      PROVE  CodesInv'
  BY <1>9 DEF LockRecovery, Unlocked, Done, Goto, row, cache
<1>10. ASSUME NEW r \in Requests, BurnRecovery(r)
      PROVE  CodesInv'
  BY <1>10 DEF BurnRecovery, Unlocked, Release, Accept, Goto, cache
<1>11. ASSUME NEW r \in Requests, Verified(r)
      PROVE  CodesInv'
  BY <1>11 DEF Verified, ClearFailures, Done, Goto, row
<1>12. ASSUME NEW r \in Requests, AddCounter(r)
      PROVE  CodesInv'
  BY <1>12 DEF AddCounter, Goto, row, ghosts
<1>13. ASSUME NEW r \in Requests, IncrCounter(r)
      PROVE  CodesInv'
  BY <1>13 DEF IncrCounter, Done, Goto, Release, row, ghosts
<1>14. ASSUME NEW r \in Requests, SetCounter(r)
      PROVE  CodesInv'
  BY <1>14 DEF SetCounter, Done, Release, Goto, row, ghosts
<1>15. ASSUME NEW r \in Requests, DeleteFactor(r)
      PROVE  CodesInv'
  BY <1>15 DEF DeleteFactor, Unlocked, Done, Goto, cache, ghosts
<1>16. ASSUME NEW r \in Requests, ReadForCodes(r)
      PROVE  CodesInv'
  BY <1>16 DEF ReadForCodes, Done, Goto, row, cache, ghosts
<1>17. ASSUME NEW r \in Requests, ReplaceCodes(r)
      PROVE  CodesInv'
  BY <1>17 DEF ReplaceCodes, Unlocked, Done, Goto, cache
<1>18. ASSUME NEW r \in Requests, Die(r)
      PROVE  CodesInv'
  BY <1>18 DEF Die, Release, Done, Goto, row, cache, ghosts
<1>19. CASE ExpireCounter
  BY <1>19 DEF ExpireCounter, ClearFailures, row, request
<1>20. CASE UNCHANGED vars
  BY <1>20 DEF vars, row, cache, request, ghosts
<1> QED
  BY <1>1, <1>2, <1>3, <1>4, <1>5, <1>6, <1>7, <1>8, <1>9, <1>10, <1>11, <1>12, <1>13,
      <1>14, <1>15, <1>16, <1>17, <1>18, <1>19, <1>20
  DEF Next, Enrol, Verify, Fail, Manage

LEMMA CodesAlways == Spec => [](TypeInv /\ CodesInv)
  BY TypeInit, TypeStep, CodesInit, CodesStep, PTL DEF Spec

(* New recovery codes replace every old one, for any number of requests    *)
(* that verify, burn or regenerate codes at the same time.                 *)
THEOREM OldCodesStayDead == Spec => []OldCodesDie
<1>1. CodesInv => OldCodesDie
  BY DEF CodesInv
<1> QED
  BY CodesAlways, <1>1, PTL

-----------------------------------------------------------------------------
(* A code is accepted once.                                                *)

LEMMA OnceInit == Init => OnceInv
  BY DEF Init, OnceInv, Spent, Claims

LEMMA OnceStep == TypeInv /\ CodesInv /\ OnceInv /\ [Next]_vars => OnceInv'
<1> SUFFICES ASSUME TypeInv, CodesInv, OnceInv, [Next]_vars PROVE OnceInv'
  OBVIOUS
<1> USE BoundsAssumption
        DEF TypeInv, TypeOK, Carried, RowInv, CodesInv, BurnInv, OldCodesDie, Batch,
            OnceInv, Spent, Claims, None
<1>1. ASSUME NEW r \in Requests, BeginSetup(r)
      PROVE  OnceInv'
  BY <1>1 DEF BeginSetup, Goto, row, cache, ghosts
<1>2. ASSUME NEW r \in Requests, IssueSecret(r)
      PROVE  OnceInv'
  <2> SUFFICES ASSUME ~undone' PROVE OnceInv'
    OBVIOUS
  <2>1. ~undone
    BY <1>2 DEF IssueSecret, Row, Unlocked, Done, Goto, cache
  <2>2. Spent'
    BY <1>2, <2>1, Kinds DEF IssueSecret, Row, Unlocked, Done, Goto, cache
  <2>3. Claims'
    BY <1>2, <2>1 DEF IssueSecret, Row, Unlocked, Done, Goto, cache
  <2>4. ~twice'
    BY <1>2, <2>1 DEF IssueSecret, Row, Unlocked, Done, Goto, cache
  <2>5. ~active' => lastStep' = 0
    BY <1>2, <2>1 DEF IssueSecret, Row, Unlocked, Done, Goto, cache
  <2> QED
    BY <2>2, <2>3, <2>4, <2>5
<1>3. ASSUME NEW r \in Requests, StartConfirm(r)
      PROVE  OnceInv'
  BY <1>3 DEF StartConfirm, Goto, row, cache, ghosts
<1>4. ASSUME NEW r \in Requests, NEW c \in Shown, Confirm(r, c)
      PROVE  OnceInv'
  <2> SUFFICES ASSUME ~undone' PROVE OnceInv'
    OBVIOUS
  <2>1. ~undone /\ ~active /\ c \in Codes /\ c.kind = "totp" /\ c.of = secret
    BY <1>4, ShownCodes DEF Confirm, Pending, Matches
  <2>2. c \notin accepted
    BY <2>1
  <2>3. Spent'
    <3> SUFFICES ASSUME NEW d \in accepted'
                 PROVE  /\ d.kind = "totp" => d.of <= secrets'
                        /\ d.kind = "totp" /\ d.of = secret'
                               => active' /\ d.at <= lastStep'
                        /\ d.kind = "recovery" => d \notin recovery' /\ d.of <= batches'
      OBVIOUS
    <3>1. CASE d = c
      BY <1>4, <2>1, <3>1, Kinds DEF Confirm, Accept
    <3>2. CASE d \in accepted
      BY <1>4, <2>1, <3>2, Kinds DEF Confirm, Accept
    <3> QED
      BY <1>4, <3>1, <3>2 DEF Confirm, Accept
  <2>4. Claims'
    BY <1>4, <2>1 DEF Confirm, Done, Goto
  <2>5. ~twice' /\ active'
    BY <1>4, <2>1, <2>2 DEF Confirm, Accept
  <2> QED
    BY <2>3, <2>4, <2>5
<1>5. ASSUME NEW r \in Requests, NEW c \in Shown, RefuseConfirm(r, c)
      PROVE  OnceInv'
  BY <1>5 DEF RefuseConfirm, Unlocked, Pending, Matches, Done, Goto, row, cache
<1>6. ASSUME NEW r \in Requests, StartVerify(r)
      PROVE  OnceInv'
  BY <1>6 DEF StartVerify, Goto, row, cache, ghosts
<1>7. ASSUME NEW r \in Requests, NEW c \in Shown, ReadFactor(r, c)
      PROVE  OnceInv'
  BY <1>7 DEF ReadFactor, Matches, Done, Goto, row, cache, ghosts
<1>8. ASSUME NEW r \in Requests, ClaimStep(r)
      PROVE  OnceInv'
  <2> SUFFICES ASSUME ~undone' PROVE OnceInv'
    OBVIOUS
  <2>1. ~undone
    BY <1>8 DEF ClaimStep, Unlocked, ClaimWins, Accept, Goto, cache
  <2>2. Spent'
    BY <1>8, <2>1, Kinds DEF ClaimStep, Unlocked, ClaimWins, Accept, Goto, Totp, cache
  <2>3. Claims'
    BY <1>8, <2>1 DEF ClaimStep, Unlocked, ClaimWins, Accept, Goto, cache
  <2>4. ~twice'
    BY <1>8, <2>1 DEF ClaimStep, Unlocked, ClaimWins, Accept, Goto, Totp, cache
  <2>5. ~active' => lastStep' = 0
    BY <1>8, <2>1 DEF ClaimStep, Unlocked, ClaimWins, Accept, Goto, cache
  <2> QED
    BY <2>2, <2>3, <2>4, <2>5
<1>9. ASSUME NEW r \in Requests, LockRecovery(r)
      PROVE  OnceInv'
  BY <1>9 DEF LockRecovery, Unlocked, Done, Goto, row, cache
<1>10. ASSUME NEW r \in Requests, BurnRecovery(r)
      PROVE  OnceInv'
  BY <1>10 DEF BurnRecovery, Unlocked, Release, Accept, Goto, Recovery, cache
<1>11. ASSUME NEW r \in Requests, Verified(r)
      PROVE  OnceInv'
  BY <1>11 DEF Verified, ClearFailures, Done, Goto, row
<1>12. ASSUME NEW r \in Requests, AddCounter(r)
      PROVE  OnceInv'
  BY <1>12 DEF AddCounter, Goto, row, ghosts
<1>13. ASSUME NEW r \in Requests, IncrCounter(r)
      PROVE  OnceInv'
  BY <1>13 DEF IncrCounter, Done, Goto, Release, row, ghosts
<1>14. ASSUME NEW r \in Requests, SetCounter(r)
      PROVE  OnceInv'
  BY <1>14 DEF SetCounter, Done, Release, Goto, row, ghosts
<1>15. ASSUME NEW r \in Requests, DeleteFactor(r)
      PROVE  OnceInv'
  <2> SUFFICES ASSUME ~undone' PROVE OnceInv'
    OBVIOUS
  <2>1. ~undone
    BY <1>15 DEF DeleteFactor, Unlocked, Done, Goto, cache, ghosts
  <2>2. Spent'
    BY <1>15, <2>1, Kinds DEF DeleteFactor, Unlocked, Done, Goto, cache, ghosts
  <2>3. Claims'
    BY <1>15, <2>1 DEF DeleteFactor, Unlocked, Done, Goto, cache, ghosts
  <2>4. ~twice'
    BY <1>15, <2>1 DEF DeleteFactor, Unlocked, Done, Goto, cache, ghosts
  <2>5. ~active' => lastStep' = 0
    BY <1>15, <2>1 DEF DeleteFactor, Unlocked, Done, Goto, cache, ghosts
  <2> QED
    BY <2>2, <2>3, <2>4, <2>5
<1>16. ASSUME NEW r \in Requests, ReadForCodes(r)
      PROVE  OnceInv'
  BY <1>16 DEF ReadForCodes, Done, Goto, row, cache, ghosts
<1>17. ASSUME NEW r \in Requests, ReplaceCodes(r)
      PROVE  OnceInv'
  <2> SUFFICES ASSUME ~undone' PROVE OnceInv'
    OBVIOUS
  <2>1. ~undone
    BY <1>17 DEF ReplaceCodes, Unlocked, Done, Goto, cache
  <2>2. Spent'
    BY <1>17, <2>1, Kinds DEF ReplaceCodes, Unlocked, Done, Goto, cache
  <2>3. Claims'
    BY <1>17, <2>1 DEF ReplaceCodes, Unlocked, Done, Goto, cache
  <2>4. ~twice'
    BY <1>17, <2>1 DEF ReplaceCodes, Unlocked, Done, Goto, cache
  <2>5. ~active' => lastStep' = 0
    BY <1>17, <2>1 DEF ReplaceCodes, Unlocked, Done, Goto, cache
  <2> QED
    BY <2>2, <2>3, <2>4, <2>5
<1>18. ASSUME NEW r \in Requests, Die(r)
      PROVE  OnceInv'
  BY <1>18 DEF Die, Release, Done, Goto, row, cache, ghosts
<1>19. CASE ExpireCounter
  BY <1>19 DEF ExpireCounter, ClearFailures, row, request
<1>20. CASE UNCHANGED vars
  BY <1>20 DEF vars, row, cache, request, ghosts
<1> QED
  BY <1>1, <1>2, <1>3, <1>4, <1>5, <1>6, <1>7, <1>8, <1>9, <1>10, <1>11, <1>12, <1>13,
      <1>14, <1>15, <1>16, <1>17, <1>18, <1>19, <1>20
  DEF Next, Enrol, Verify, Fail, Manage

LEMMA OnceAlways == Spec => [](TypeInv /\ OnceInv)
  BY CodesAlways, OnceInit, OnceStep, PTL DEF Spec

(* No code is accepted twice unless a setup has overwritten an active      *)
(* factor, whatever the requests and the order of their statements.        *)
THEOREM NoReplay == Spec => []CodesAcceptedOnce
<1>1. OnceInv => CodesAcceptedOnce
  BY DEF OnceInv, CodesAcceptedOnce
<1> QED
  BY OnceAlways, <1>1, PTL

-----------------------------------------------------------------------------
(* The last step.                                                          *)

LEMMA AdvanceStep ==
    TypeInv /\ OnceInv /\ [Next]_vars
        => [~undone /\ secret' = secret => lastStep' >= lastStep]_vars
<1> SUFFICES ASSUME TypeInv, OnceInv, [Next]_vars, ~undone, secret' = secret
             PROVE  lastStep' >= lastStep
  OBVIOUS
<1>0. secret \in 0 .. secrets /\ lastStep \in Nat /\ secrets \in Nat
  BY BoundsAssumption DEF TypeInv, TypeOK
<1>1. ASSUME NEW r \in Requests, IssueSecret(r)
      PROVE  FALSE
  BY <1>0, <1>1 DEF IssueSecret
<1>2. ASSUME NEW r \in Requests, NEW c \in Shown, Confirm(r, c)
      PROVE  lastStep' >= lastStep
  <2>1. lastStep = 0
    BY <1>2 DEF Confirm, Pending, OnceInv
  <2>2. lastStep' \in Nat
    BY <1>2, ShownCodes, Kinds, BoundsAssumption DEF Confirm, Matches
  <2> QED
    BY <2>1, <2>2
<1>3. ASSUME NEW r \in Requests, ClaimStep(r)
      PROVE  lastStep' >= lastStep
  <2>1. pc[r] = "claim" /\ code[r].at \in Nat
    BY <1>3, BoundsAssumption DEF ClaimStep, TypeInv, Carried, Totp
  <2> QED
    BY <1>0, <1>3, <2>1 DEF ClaimStep, ClaimWins
<1>4. ASSUME NEW r \in Requests, DeleteFactor(r)
      PROVE  lastStep' >= lastStep
  <2>1. secret = None /\ lastStep' = 0
    BY <1>4 DEF DeleteFactor
  <2>2. ~active
    BY <2>1 DEF TypeInv, RowInv
  <2> QED
    BY <2>1, <2>2 DEF OnceInv
<1>5. ASSUME UNCHANGED lastStep
      PROVE  lastStep' >= lastStep
  BY <1>0, <1>5
<1>6. CASE UNCHANGED vars \/ ExpireCounter
  BY <1>5, <1>6 DEF vars, row, ExpireCounter
<1>7. ASSUME NEW r \in Requests, Enrol(r) \/ Verify(r) \/ Fail(r) \/ Manage(r) \/ Die(r)
      PROVE  lastStep' >= lastStep
  <2>1. CASE Enrol(r)
    BY <1>1, <1>2, <1>5, <2>1 DEF Enrol, BeginSetup, StartConfirm, RefuseConfirm, row
  <2>2. CASE Verify(r)
    BY <1>3, <1>5, <2>2
    DEF Verify, StartVerify, ReadFactor, LockRecovery, BurnRecovery, Verified, row
  <2>3. CASE Fail(r) \/ Die(r)
    BY <1>5, <2>3 DEF Fail, AddCounter, IncrCounter, SetCounter, Die, row
  <2>4. CASE Manage(r)
    BY <1>4, <1>5, <2>4 DEF Manage, ReadForCodes, ReplaceCodes, row
  <2> QED
    BY <1>7, <2>1, <2>2, <2>3, <2>4
<1> QED
  BY <1>6, <1>7 DEF Next

(* Of one secret, steps are claimed in their order only: a code is never   *)
(* accepted after one of a later step, unless a setup has overwritten an   *)
(* active factor.                                                          *)
THEOREM NoStepBack == Spec => StepsAdvance
  BY OnceAlways, AdvanceStep, PTL DEF Spec, StepsAdvance

-----------------------------------------------------------------------------
(* The bound of refusals.                                                  *)

N == Cardinality(Requests)

(* Requests past a refusal that have not counted it yet ...                *)
Counting == {r \in Requests : pc[r] \in {"add", "incr", "set"}}

(* ... of which these will set the counter instead of adding to it ...     *)
Late == {r \in Requests : pc[r] = "set" \/ (pc[r] = "incr" /\ ~counting)}

(* ... and requests past the check of the counter, not yet refused.        *)
Past == {r \in Requests : pc[r] \in {"confirm", "read", "claim", "recover"}}

(* Twice the refusals of the rounds that s late requests can still open.   *)
Rounds(s) == s * (2 * (MaxFailures + N - 2) - (s - 1))

(* Twice the refusals still possible before the counter is next cleared.   *)
Left(s, b, p, f) ==
    IF s = N THEN Rounds(N)
    ELSE IF f < MaxFailures
         THEN 2 * (N - b) + 2 * (MaxFailures - 1 - f) + Rounds(s)
         ELSE 2 * p + Rounds(s)

LeftNow == Left(Cardinality(Late), Cardinality(Counting), Cardinality(Past), failures)

RefusalInv == 2 * wrong + LeftNow <= 2 + Rounds(N)

LEMMA RequestsCount == N \in Nat
  BY RequestsAssumption, FS_CardinalityType DEF N

LEMMA RoundsGrow ==
    ASSUME NEW s \in 0 .. N, NEW t \in 0 .. s
    PROVE  /\ Rounds(s) \in Int
           /\ Rounds(t) <= Rounds(s)
           /\ t < s => Rounds(t) + 2 * (MaxFailures + N - s - 1) <= Rounds(s)
           /\ s < N => Rounds(t) + 2 * (s - t) <= Rounds(s)
<1> DEFINE d == s - t
           e == 2 * (MaxFailures + N - 2) - (s + t - 1)
           k == MaxFailures + N - s - 1
<1>0. MaxFailures \in Nat \ {0} /\ N \in Nat /\ s \in Nat /\ t \in Nat /\ d \in Nat /\ e \in Int
  BY RequestsCount, BoundsAssumption
<1>1. Rounds(s) \in Int /\ Rounds(t) \in Int
  BY <1>0 DEF Rounds
<1>2. Rounds(s) = Rounds(t) + d * e
  BY <1>0 DEF Rounds
<1>3. CASE t = s
  BY <1>1, <1>3
<1>4. CASE t < s
  <2>1. d \in Nat \ {0} /\ k \in Nat /\ e >= 2 * k
    BY <1>0, <1>4
  <2> HIDE DEF d, e, k
  <2>2. d * e >= e
    <3>1. e \in Nat /\ d - 1 \in Nat
      BY <2>1, <1>0
    <3>2. (d - 1) * e \in Nat
      BY <3>1
    <3> QED
      BY <3>1, <3>2, <2>1
  <2>3. Rounds(t) + 2 * k <= Rounds(s)
    BY <1>0, <1>1, <1>2, <2>1, <2>2
  <2>4. ASSUME k >= 1
        PROVE  Rounds(t) + 2 * d <= Rounds(s)
    <3>1. e - 2 \in Nat
      BY <2>1, <2>4, <1>0
    <3>2. d * (e - 2) \in Nat
      BY <3>1, <2>1
    <3>3. d * (e - 2) = d * e - 2 * d
      BY <2>1, <1>0
    <3> QED
      BY <1>0, <1>1, <1>2, <3>2, <3>3
  <2> QED
    BY <1>0, <1>1, <2>1, <2>3, <2>4 DEF k, d
<1> QED
  BY <1>0, <1>3, <1>4

LEMMA Parties ==
    /\ IsFiniteSet(Late) /\ Cardinality(Late) \in Nat
    /\ IsFiniteSet(Counting) /\ Cardinality(Counting) \in Nat
    /\ IsFiniteSet(Past) /\ Cardinality(Past) \in Nat
    /\ Late \subseteq Counting
    /\ Cardinality(Late) <= Cardinality(Counting)
    /\ Cardinality(Counting) + Cardinality(Past) <= N
    /\ Cardinality(Late) = N => Late = Requests
<1>1. Late \subseteq Counting /\ Counting \subseteq Requests /\ Past \subseteq Requests
  BY DEF Late, Counting, Past
<1>2. /\ IsFiniteSet(Late) /\ Cardinality(Late) \in Nat
      /\ IsFiniteSet(Counting) /\ Cardinality(Counting) \in Nat
      /\ IsFiniteSet(Past) /\ Cardinality(Past) \in Nat
  BY <1>1, RequestsAssumption, FS_Subset, FS_CardinalityType
<1>3. Cardinality(Late) <= Cardinality(Counting)
  BY <1>1, <1>2, FS_Subset
<1>4. Cardinality(Counting) + Cardinality(Past) <= N
  <2>1. Counting \cap Past = {}
    BY DEF Counting, Past
  <2>2. /\ IsFiniteSet(Counting \cup Past)
        /\ Cardinality(Counting \cup Past) =
               Cardinality(Counting) + Cardinality(Past) - Cardinality(Counting \cap Past)
    BY <1>2, FS_Union
  <2>3. Cardinality(Counting \cup Past) <= N
    BY <1>1, RequestsAssumption, FS_Subset DEF N
  <2> QED
    BY <1>2, <2>1, <2>2, <2>3, FS_EmptySet
<1>5. Cardinality(Late) = N => Late = Requests
  BY <1>1, RequestsAssumption, FS_Subset DEF N
<1> QED
  BY <1>1, <1>2, <1>3, <1>4, <1>5

LEMMA PartiesNext ==
    /\ IsFiniteSet(Late') /\ Cardinality(Late') \in Nat
    /\ IsFiniteSet(Counting') /\ Cardinality(Counting') \in Nat
    /\ IsFiniteSet(Past') /\ Cardinality(Past') \in Nat
    /\ Late' \subseteq Counting'
    /\ Cardinality(Late') <= Cardinality(Counting')
    /\ Cardinality(Counting') + Cardinality(Past') <= N
    /\ Cardinality(Late') = N => Late' = Requests
<1>1. Late' \subseteq Counting' /\ Counting' \subseteq Requests /\ Past' \subseteq Requests
  BY DEF Late, Counting, Past
<1>2. /\ IsFiniteSet(Late') /\ Cardinality(Late') \in Nat
      /\ IsFiniteSet(Counting') /\ Cardinality(Counting') \in Nat
      /\ IsFiniteSet(Past') /\ Cardinality(Past') \in Nat
  BY <1>1, RequestsAssumption, FS_Subset, FS_CardinalityType
<1>3. Cardinality(Late') <= Cardinality(Counting')
  BY <1>1, <1>2, FS_Subset
<1>4. Cardinality(Counting') + Cardinality(Past') <= N
  <2>1. Counting' \cap Past' = {}
    BY DEF Counting, Past
  <2>2. /\ IsFiniteSet(Counting' \cup Past')
        /\ Cardinality(Counting' \cup Past') =
               Cardinality(Counting') + Cardinality(Past') - Cardinality(Counting' \cap Past')
    BY <1>2, FS_Union
  <2>3. Cardinality(Counting' \cup Past') <= N
    BY <1>1, RequestsAssumption, FS_Subset DEF N
  <2> QED
    BY <1>2, <2>1, <2>2, <2>3, FS_EmptySet
<1>5. Cardinality(Late') = N => Late' = Requests
  BY <1>1, RequestsAssumption, FS_Subset DEF N
<1> QED
  BY <1>1, <1>2, <1>3, <1>4, <1>5

(* The counter is cleared: whatever was late, the account starts anew.     *)
LEMMA ClearedRefusals ==
    ASSUME wrong' = 0, failures' = 0
    PROVE  RefusalInv'
<1> DEFINE s == Cardinality(Late')
           b == Cardinality(Counting')
<1>0. /\ s \in 0 .. N /\ b \in Nat /\ s <= b /\ N \in Nat /\ MaxFailures \in Nat \ {0}
      /\ Rounds(N) \in Int /\ Rounds(s) \in Int
      /\ Rounds(s) <= Rounds(N)
      /\ s < N => Rounds(s) + 2 * (MaxFailures - 1) <= Rounds(N)
  BY PartiesNext, RequestsCount, RoundsGrow, BoundsAssumption
<1>1. LeftNow' = Left(s, b, Cardinality(Past'), 0)
  BY DEF LeftNow
<1> HIDE DEF s, b
<1>2. CASE s = N
  BY <1>0, <1>1, <1>2 DEF Left, RefusalInv
<1>3. CASE s < N
  <2>1. LeftNow' = 2 * (N - b) + 2 * (MaxFailures - 1) + Rounds(s)
    BY <1>0, <1>1, <1>3 DEF Left
  <2>2. CASE s = N - 1
    BY <1>0, <2>1, <2>2 DEF RefusalInv
  <2>3. CASE s < N - 1
    <3>1. N - 1 \in 0 .. N /\ s \in 0 .. (N - 1)
      BY <1>0, <2>3
    <3>2. /\ Rounds(s) + 2 * (N - 1 - s) <= Rounds(N - 1)
          /\ Rounds(N - 1) \in Int
          /\ Rounds(N - 1) + 2 * (MaxFailures - 1) <= Rounds(N)
      BY <1>0, <2>3, <3>1, RoundsGrow
    <3> QED
      BY <1>0, <2>1, <2>3, <3>2 DEF RefusalInv
  <2> QED
    BY <1>0, <1>3, <2>2, <2>3
<1> QED
  BY <1>0, <1>2, <1>3

(* A step after which no more can be refused than before.                  *)
LEMMA CalmRefusals ==
    ASSUME TypeInv, RefusalInv, Counting' = Counting, Late' \subseteq Late,
           Late = Requests => Late' = Late,
           failures < MaxFailures \/ Past' \subseteq Past,
           wrong' = wrong, failures' = failures
    PROVE  RefusalInv'
<1> DEFINE s == Cardinality(Late)
           t == Cardinality(Late')
           b == Cardinality(Counting)
           p == Cardinality(Past)
           q == Cardinality(Past')
<1>0. /\ s \in 0 .. N /\ t \in 0 .. s /\ b \in Nat /\ p \in Nat /\ q \in Nat
      /\ failures < MaxFailures \/ q <= p
      /\ s = N => t = N
      /\ N \in Nat /\ MaxFailures \in Nat /\ wrong \in Nat /\ failures \in Nat
  BY Parties, PartiesNext, FS_Subset, RequestsCount, BoundsAssumption DEF TypeInv, TypeOK
<1>1. /\ Rounds(N) \in Int /\ Rounds(s) \in Int /\ Rounds(t) \in Int
      /\ Rounds(t) <= Rounds(s) /\ t <= N
  BY <1>0, RoundsGrow
<1>2. LeftNow = Left(s, b, p, failures) /\ LeftNow' = Left(t, b, q, failures)
  BY DEF LeftNow
<1> HIDE DEF s, t, b, p, q
<1>3. LeftNow' <= LeftNow /\ LeftNow \in Int /\ LeftNow' \in Int
  BY <1>0, <1>1, <1>2 DEF Left
<1> QED
  BY <1>0, <1>1, <1>3 DEF RefusalInv

(* A refusal: one request more has yet to count.                           *)
LEMMA OneRefused ==
    ASSUME TypeInv, RefusalInv, NEW r \in Past,
           Past' = Past \ {r}, Counting' = Counting \cup {r}, Late' = Late,
           wrong' = wrong + 1, failures' = failures
    PROVE  RefusalInv'
<1> DEFINE s == Cardinality(Late)
           b == Cardinality(Counting)
           p == Cardinality(Past)
<1>1. r \notin Counting /\ r \notin Late /\ r \in Requests
  BY DEF Past, Counting, Late
<1>2. Cardinality(Past') = p - 1 /\ Cardinality(Counting') = b + 1 /\ Cardinality(Late') = s
  BY <1>1, Parties, FS_AddElement, FS_RemoveElement
<1>3. /\ s \in 0 .. N /\ s # N /\ b \in Nat /\ p \in Nat
      /\ N \in Nat /\ MaxFailures \in Nat /\ wrong \in Nat /\ failures \in Nat
  BY <1>1, Parties, RequestsCount, BoundsAssumption DEF TypeInv, TypeOK
<1>4. Rounds(N) \in Int /\ Rounds(s) \in Int
  BY <1>3, RoundsGrow
<1>5. /\ LeftNow = Left(s, b, p, failures)
      /\ LeftNow' = Left(s, b + 1, p - 1, failures)
  BY <1>2 DEF LeftNow
<1> HIDE DEF s, b, p
<1>6. LeftNow' = LeftNow - 2 /\ LeftNow \in Int
  BY <1>3, <1>4, <1>5 DEF Left
<1> QED
  BY <1>3, <1>4, <1>6 DEF RefusalInv

(* A refusal is added to the counter.                                      *)
LEMMA OneCounted ==
    ASSUME TypeInv, RefusalInv, NEW r \in Counting, r \notin Late,
           Past' = Past, Counting' = Counting \ {r}, Late' = Late,
           wrong' = wrong, failures' = failures + 1
    PROVE  RefusalInv'
<1> DEFINE s == Cardinality(Late)
           b == Cardinality(Counting)
           p == Cardinality(Past)
<1>1. r \in Requests
  BY DEF Counting
<1>2. Cardinality(Past') = p /\ Cardinality(Counting') = b - 1 /\ Cardinality(Late') = s
  BY Parties, FS_RemoveElement
<1>3. /\ s \in 0 .. N /\ s # N /\ b \in Nat /\ p \in Nat /\ b + p <= N
      /\ N \in Nat /\ MaxFailures \in Nat \ {0} /\ wrong \in Nat /\ failures \in Nat
  BY <1>1, Parties, RequestsCount, BoundsAssumption DEF TypeInv, TypeOK
<1>4. Rounds(N) \in Int /\ Rounds(s) \in Int
  BY <1>3, RoundsGrow
<1>5. /\ LeftNow = Left(s, b, p, failures)
      /\ LeftNow' = Left(s, b - 1, p, failures + 1)
  BY <1>2 DEF LeftNow
<1> HIDE DEF s, b, p
<1>6. LeftNow' <= LeftNow /\ LeftNow \in Int /\ LeftNow' \in Int
  BY <1>3, <1>4, <1>5 DEF Left
<1> QED
  BY <1>3, <1>4, <1>6 DEF RefusalInv

(* A late request sets the counter to one, and opens a round.              *)
LEMMA OneSet ==
    ASSUME TypeInv, RefusalInv, NEW r \in Late,
           Past' = Past, Counting' = Counting \ {r}, Late' \subseteq Late \ {r},
           wrong' = wrong, failures' = 1
    PROVE  RefusalInv'
<1> DEFINE s == Cardinality(Late)
           t == Cardinality(Late')
           b == Cardinality(Counting)
           p == Cardinality(Past)
<1>1. r \in Requests /\ r \in Counting
  BY DEF Late, Counting
<1>2. /\ Cardinality(Past') = p /\ Cardinality(Counting') = b - 1
      /\ t \in 0 .. (s - 1) /\ s \in 1 .. N
  <2>1. /\ IsFiniteSet(Late \ {r}) /\ Cardinality(Late \ {r}) = s - 1
    BY Parties, FS_RemoveElement
  <2>2. t <= s - 1 /\ t \in Nat
    BY <2>1, PartiesNext, FS_Subset
  <2> QED
    BY <1>1, <2>1, <2>2, Parties, FS_RemoveElement, FS_CardinalityType, RequestsCount
<1>3. /\ b \in Nat /\ p \in Nat /\ b + p <= N /\ s <= b
      /\ N \in Nat /\ MaxFailures \in Nat \ {0} /\ wrong \in Nat /\ failures \in Nat
  BY <1>1, Parties, RequestsCount, BoundsAssumption DEF TypeInv, TypeOK
<1>4. /\ Rounds(N) \in Int /\ Rounds(s) \in Int /\ Rounds(t) \in Int
      /\ Rounds(t) + 2 * (MaxFailures + N - s - 1) <= Rounds(s)
  <2> HIDE DEF s, t
  <2>1. s \in 0 .. N /\ t \in 0 .. s /\ t \in 0 .. N /\ t < s /\ N \in 0 .. N
    BY <1>2, <1>3
  <2> QED
    BY <2>1, RoundsGrow
<1>5. /\ LeftNow = Left(s, b, p, failures)
      /\ LeftNow' = Left(t, b - 1, p, 1)
  BY <1>2 DEF LeftNow
<1> HIDE DEF s, t, b, p
<1>6. LeftNow \in Int /\ LeftNow' \in Int
  BY <1>2, <1>3, <1>4, <1>5 DEF Left
<1>7. CASE s # N
  <2>1. LeftNow' <= LeftNow
    BY <1>2, <1>3, <1>4, <1>5, <1>7 DEF Left
  <2> QED
    BY <1>3, <1>4, <1>6, <2>1 DEF RefusalInv
<1>8. CASE s = N
  <2>1. LeftNow' <= LeftNow
    BY <1>2, <1>3, <1>4, <1>5, <1>8 DEF Left
  <2> QED
    BY <1>3, <1>4, <1>6, <2>1 DEF RefusalInv
<1> QED
  BY <1>7, <1>8

LEMMA RefusalInit == Init => RefusalInv
<1> SUFFICES ASSUME Init PROVE RefusalInv
  OBVIOUS
<1>1. Late = {} /\ Counting = {} /\ Past = {}
  BY DEF Init, Late, Counting, Past
<1>2. LeftNow = Left(0, 0, 0, 0)
  BY <1>1, FS_EmptySet DEF LeftNow, Init
<1>3. N \in Nat /\ MaxFailures \in Nat \ {0} /\ Rounds(N) \in Int /\ Rounds(0) = 0
  BY RequestsCount, RoundsGrow, BoundsAssumption DEF Rounds
<1>4. N # 0 => 2 * N + 2 * (MaxFailures - 1) <= 2 + Rounds(N)
  <2> SUFFICES ASSUME N # 0 PROVE 2 * N + 2 * (MaxFailures - 1) <= 2 + Rounds(N)
    OBVIOUS
  <2>1. N - 1 \in 0 .. N /\ N \in 0 .. N /\ 0 \in 0 .. (N - 1) /\ N - 1 < N
    BY <1>3
  <2>2. Rounds(0) + 2 * (N - 1 - 0) <= Rounds(N - 1) /\ Rounds(N - 1) \in Int
    BY <2>1, RoundsGrow
  <2>3. Rounds(N - 1) + 2 * (MaxFailures + N - N - 1) <= Rounds(N)
    BY <2>1, RoundsGrow
  <2> QED
    BY <1>3, <2>2, <2>3
<1> QED
  BY <1>2, <1>3, <1>4 DEF Left, RefusalInv, Init

LEMMA RefusalStep == TypeInv /\ RefusalInv /\ [Next]_vars => RefusalInv'
<1> SUFFICES ASSUME TypeInv, RefusalInv, [Next]_vars PROVE RefusalInv'
  OBVIOUS
<1>0. pc \in [Requests -> Steps] /\ counting \in BOOLEAN
  BY DEF TypeInv, TypeOK
<1>1. ASSUME NEW r \in Requests, BeginSetup(r)
      PROVE  RefusalInv'
  BY <1>0, <1>1, CalmRefusals DEF BeginSetup, Goto, cache, ghosts, Late, Counting, Past
<1>2. ASSUME NEW r \in Requests, IssueSecret(r)
      PROVE  RefusalInv'
  BY <1>0, <1>2, CalmRefusals DEF IssueSecret, Done, Goto, cache, Late, Counting, Past
<1>3. ASSUME NEW r \in Requests, StartConfirm(r) \/ StartVerify(r)
      PROVE  RefusalInv'
  <2>1. failures < MaxFailures
    BY <1>3, BoundsAssumption DEF StartConfirm, StartVerify, Blocked, TypeInv, TypeOK
  <2> QED
    BY <1>0, <1>3, <2>1, CalmRefusals
    DEF StartConfirm, StartVerify, Goto, cache, ghosts, Late, Counting, Past
<1>4. ASSUME NEW r \in Requests, NEW c \in Shown, Confirm(r, c)
      PROVE  RefusalInv'
  BY <1>4, ClearedRefusals DEF Confirm, ClearFailures
<1>5. ASSUME NEW r \in Requests, NEW c \in Shown, RefuseConfirm(r, c)
      PROVE  RefusalInv'
  <2>1. CASE ~Pending
    BY <1>0, <1>5, <2>1, CalmRefusals
    DEF RefuseConfirm, Done, Goto, cache, Late, Counting, Past
  <2>2. CASE Pending
    <3>1. r \in Past /\ pc' = [pc EXCEPT ![r] = "add"]
      BY <1>5, <2>2 DEF RefuseConfirm, Goto, Past
    <3>2. Past' = Past \ {r} /\ Counting' = Counting \cup {r} /\ Late' = Late
      BY <1>0, <1>5, <3>1 DEF RefuseConfirm, cache, Late, Counting, Past
    <3> QED
      BY <1>5, <2>2, <3>1, <3>2, OneRefused DEF RefuseConfirm, cache
  <2> QED
    BY <2>1, <2>2
<1>7. ASSUME NEW r \in Requests, NEW c \in Shown, ReadFactor(r, c)
      PROVE  RefusalInv'
  BY <1>0, <1>7, CalmRefusals
  DEF ReadFactor, Done, Goto, cache, ghosts, Late, Counting, Past
<1>8. ASSUME NEW r \in Requests, ClaimStep(r)
      PROVE  RefusalInv'
  BY <1>0, <1>8, CalmRefusals DEF ClaimStep, Goto, cache, Late, Counting, Past
<1>9. ASSUME NEW r \in Requests, LockRecovery(r)
      PROVE  RefusalInv'
  <2>1. CASE pk = rpk[r] /\ code[r] \notin recovery
    <3>1. r \in Past /\ pc' = [pc EXCEPT ![r] = "add"]
      BY <1>9, <2>1 DEF LockRecovery, Goto, Past
    <3>2. Past' = Past \ {r} /\ Counting' = Counting \cup {r} /\ Late' = Late
      BY <1>0, <1>9, <3>1 DEF LockRecovery, cache, Late, Counting, Past
    <3> QED
      BY <1>9, <2>1, <3>1, <3>2, OneRefused DEF LockRecovery, cache
  <2>2. CASE ~(pk = rpk[r] /\ code[r] \notin recovery)
    BY <1>0, <1>9, <2>2, CalmRefusals
    DEF LockRecovery, Done, Goto, cache, Late, Counting, Past
  <2> QED
    BY <2>1, <2>2
<1>10. ASSUME NEW r \in Requests, BurnRecovery(r)
      PROVE  RefusalInv'
  BY <1>0, <1>10, CalmRefusals DEF BurnRecovery, Goto, cache, Late, Counting, Past
<1>11. ASSUME NEW r \in Requests, Verified(r)
      PROVE  RefusalInv'
  BY <1>11, ClearedRefusals DEF Verified, ClearFailures
<1>12. ASSUME NEW r \in Requests, AddCounter(r)
      PROVE  RefusalInv'
  BY <1>0, <1>12, CalmRefusals DEF AddCounter, Goto, ghosts, Late, Counting, Past
<1>13. ASSUME NEW r \in Requests, IncrCounter(r)
      PROVE  RefusalInv'
  <2>1. CASE ~counting
    BY <1>0, <1>13, <2>1, CalmRefusals DEF IncrCounter, Goto, ghosts, Late, Counting, Past
  <2>2. CASE counting
    <3>1. /\ r \in Counting /\ r \notin Late /\ pc' = [pc EXCEPT ![r] = "idle"]
          /\ failures' = failures + 1 /\ wrong' = wrong /\ counting' = counting
      BY <1>13, <2>2 DEF IncrCounter, Done, Goto, ghosts, Late, Counting
    <3>2. Past' = Past /\ Counting' = Counting \ {r} /\ Late' = Late
      BY <1>0, <1>13, <3>1 DEF IncrCounter, Late, Counting, Past
    <3> QED
      BY <3>1, <3>2, OneCounted
  <2> QED
    BY <2>1, <2>2
<1>14. ASSUME NEW r \in Requests, SetCounter(r)
      PROVE  RefusalInv'
  <2>1. /\ r \in Late /\ pc' = [pc EXCEPT ![r] = "idle"]
        /\ failures' = 1 /\ wrong' = wrong /\ counting' = TRUE
    BY <1>14 DEF SetCounter, Done, Goto, ghosts, Late
  <2>2. Past' = Past /\ Counting' = Counting \ {r} /\ Late' \subseteq Late \ {r}
    BY <1>0, <1>14, <2>1 DEF SetCounter, Late, Counting, Past
  <2> QED
    BY <2>1, <2>2, OneSet
<1>15. ASSUME NEW r \in Requests, Manage(r)
      PROVE  RefusalInv'
  BY <1>0, <1>15, CalmRefusals
  DEF Manage, DeleteFactor, ReadForCodes, ReplaceCodes, Done, Goto, cache, ghosts, Late,
      Counting, Past
<1>18. ASSUME NEW r \in Requests, Die(r)
      PROVE  RefusalInv'
  BY <1>0, <1>18, CalmRefusals DEF Die, Done, Goto, cache, ghosts, Late, Counting, Past
<1>19. CASE ExpireCounter
  BY <1>19, ClearedRefusals DEF ExpireCounter, ClearFailures
<1>20. CASE UNCHANGED vars
  BY <1>0, <1>20, CalmRefusals DEF vars, row, cache, request, ghosts, Late, Counting, Past
<1> QED
  BY <1>1, <1>2, <1>3, <1>4, <1>5, <1>7, <1>8, <1>9, <1>10, <1>11, <1>12, <1>13, <1>14,
      <1>15, <1>18, <1>19, <1>20
  DEF Next, Enrol, Verify, Fail

(* However many requests show wrong codes at the same time, between two    *)
(* moments at which the counter is cleared no more are refused than its    *)
(* rounds allow: one round for each request late with its cache.set.       *)
THEOREM RefusalsAreBounded == Spec => []RefusalsBounded
<1>1. TypeInv /\ RefusalInv => RefusalsBounded
  <2> SUFFICES ASSUME TypeInv, RefusalInv PROVE RefusalsBounded
    OBVIOUS
  <2> DEFINE s == Cardinality(Late)
             b == Cardinality(Counting)
             p == Cardinality(Past)
  <2>1. /\ s \in 0 .. N /\ b \in 0 .. N /\ p \in Nat /\ 0 \in 0 .. s /\ N \in 0 .. N
        /\ N \in Nat /\ MaxFailures \in Nat /\ wrong \in Nat /\ failures \in Nat
    BY Parties, RequestsCount, BoundsAssumption DEF TypeInv, TypeOK
  <2>2. LeftNow = Left(s, b, p, failures)
    BY DEF LeftNow
  <2> HIDE DEF s, b, p
  <2>3. /\ Rounds(s) \in Int /\ Rounds(0) <= Rounds(s)
        /\ Rounds(N) \in Int /\ Rounds(0) = 0 /\ 0 <= Rounds(N)
    <3>1. Rounds(0) = 0
      BY <2>1 DEF Rounds
    <3> QED
      BY <2>1, <3>1, RoundsGrow
  <2>4. LeftNow \in Nat
    BY <2>1, <2>2, <2>3 DEF Left
  <2>5. 2 * wrong <= 2 + Rounds(N)
    BY <2>1, <2>3, <2>4 DEF RefusalInv
  <2>6. Rounds(N) = N * (2 * (MaxFailures - 1) + (N - 1))
    BY <2>1 DEF Rounds
  <2> QED
    BY <2>5, <2>6 DEF RefusalsBounded, N
<1> QED
  BY TypeInit, TypeStep, RefusalInit, RefusalStep, <1>1, PTL DEF Spec

=============================================================================
