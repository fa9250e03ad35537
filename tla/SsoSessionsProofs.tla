-------------------------- MODULE SsoSessionsProofs --------------------------
(* Proofs about SsoSessions: types, and one session per code, for any      *)
(* number of sign-ins, sign-outs, sessions, codes and families.            *)
EXTENDS SsoSessions, FiniteSetTheorems, TLAPS

(* What the program counters say of the other variables: a sign-in that    *)
(* replaces a session names it, one that records a session has minted it,  *)
(* and a sign-out ends sessions that exist.                                *)
Steady ==
    /\ \A p \in Redeemers :
          /\ rpc[p] \in {"join", "join_one", "join_all"} => rprev[p] \in Sessions
          /\ rpc[p] = "record" => rnew[p] \in 1 .. minted
    /\ \A e \in Enders : etodo[e] \subseteq 1 .. minted

TypeInv == TypeOK /\ Steady

LEMMA TypeInit == Init => TypeInv
<1> SUFFICES ASSUME Init PROVE TypeInv
  OBVIOUS
<1> USE BoundsAssumption DEF Init
<1>1. SessionsTyped /\ CodesTyped
  BY DEF SessionsTyped, CodesTyped
<1>2. SignInsTyped
  BY DEF SignInsTyped, RedeemerSteps
<1>3. IssuersTyped
  BY DEF IssuersTyped
<1>4. EndersTyped
  BY DEF EndersTyped
<1>5. GhostsTyped
  BY DEF GhostsTyped
<1>6. Steady
  BY DEF Steady
<1> QED
  BY <1>1, <1>2, <1>3, <1>4, <1>5, <1>6 DEF TypeInv, TypeOK

LEMMA TiedTyped ==
  ASSUME kin \in [Sessions -> SUBSET Sessions], NEW S \in SUBSET Sessions
  PROVE  Tied(S) \in [Sessions -> SUBSET Sessions]
  BY DEF Tied

(* A sign-in that ends, or dies, forgets what it carried.                  *)
LEMMA DoneTyped ==
  ASSUME SignInsTyped, NEW p \in Redeemers, Done(p)
  PROVE  /\ SignInsTyped'
         /\ rpc' = [rpc EXCEPT ![p] = "idle"]
         /\ \A q \in Redeemers \ {p} : rprev'[q] = rprev[q] /\ rnew'[q] = rnew[q]
  BY DEF SignInsTyped, Done, Goto, RedeemerSteps

LEMMA TypeStep == TypeInv /\ [Next]_vars => TypeInv'
<1> SUFFICES ASSUME TypeInv, [Next]_vars PROVE TypeInv'
  OBVIOUS
<1> USE BoundsAssumption
<1> USE DEF TypeInv, TypeOK, loginVars, codeVars, redVars, issVars, endVars, ghosts
<1>1. ASSUME UNCHANGED vars PROVE TypeInv'
  BY <1>1 DEF vars, SessionsTyped, CodesTyped, SignInsTyped, IssuersTyped, EndersTyped,
     GhostsTyped, Steady
<1>2. ASSUME NEW i \in Issuers, IssueStep(i) PROVE TypeInv'
  <2>1. CodesTyped' /\ IssuersTyped'
    <3>1. CASE \E c \in Codes : CreateCode(i, c)
      BY <3>1 DEF CreateCode, CodesTyped, IssuersTyped
    <3>2. CASE \E s \in Sessions \cup {None} : StartIssue(i, s)
      BY <3>2 DEF StartIssue, CodesTyped, IssuersTyped
    <3> QED
      BY <1>2, <3>1, <3>2 DEF IssueStep
  <2>2. SessionsTyped' /\ SignInsTyped' /\ EndersTyped' /\ GhostsTyped' /\ Steady'
    BY <1>2 DEF IssueStep, StartIssue, CreateCode, SessionsTyped, SignInsTyped, EndersTyped,
       GhostsTyped, Steady
  <2> QED
    BY <2>1, <2>2
<1>3. ASSUME NEW p \in Redeemers, NEW c \in Codes, Redeem(p, c) PROVE TypeInv'
  <2>1. CodesTyped'
    BY <1>3 DEF Redeem, Unspent, CodesTyped
  <2>2. SignInsTyped' /\ Steady'
    BY <1>3 DEF Redeem, Goto, RedeemerSteps, SignInsTyped, CodesTyped, Steady
  <2>3. EndersTyped' /\ GhostsTyped'
    BY <1>3 DEF Redeem, EndersTyped, GhostsTyped
  <2>4. SessionsTyped' /\ IssuersTyped'
    BY <1>3 DEF Redeem, SessionsTyped, IssuersTyped
  <2> QED
    BY <2>1, <2>2, <2>3, <2>4
<1>4. ASSUME NEW p \in Redeemers, ReadFamily(p) PROVE TypeInv'
  <2>1. SessionsTyped'
    BY <1>4 DEF ReadFamily, SessionsTyped
  <2>2. rfam' \in [Redeemers -> Families \cup {None}]
    <3>1. CASE rsrc[p] \in recorded /\ rfam' = [rfam EXCEPT ![p] = family[rsrc[p]]]
      <4>1. rsrc[p] \in Sessions
        <5>1. recorded \subseteq Sessions
          BY DEF SessionsTyped, Sessions
        <5> QED
          BY <3>1, <5>1
      <4>2. family[rsrc[p]] \in Families \cup {None}
        BY <4>1 DEF SessionsTyped
      <4> QED
        BY <3>1, <4>2 DEF SignInsTyped
    <3>2. CASE families < MaxFamilies /\ rfam' = [rfam EXCEPT ![p] = families + 1]
      BY <3>2 DEF SessionsTyped, SignInsTyped, Families
    <3> QED
      BY <1>4, <3>1, <3>2 DEF ReadFamily
  <2>3. SignInsTyped' /\ Steady'
    BY <1>4, <2>2 DEF ReadFamily, Goto, RedeemerSteps, SignInsTyped, Steady
  <2>4. CodesTyped' /\ IssuersTyped' /\ EndersTyped' /\ GhostsTyped'
    BY <1>4 DEF ReadFamily, CodesTyped, IssuersTyped, EndersTyped, GhostsTyped
  <2> QED
    BY <2>1, <2>3, <2>4
<1>5. ASSUME NEW p \in Redeemers, GiveFamily(p) PROVE TypeInv'
  BY <1>5 DEF GiveFamily, Given, Goto, RedeemerSteps, SessionsTyped, CodesTyped, SignInsTyped,
     IssuersTyped, EndersTyped, GhostsTyped, Steady
<1>6. ASSUME NEW p \in Redeemers, CheckPrevious(p) PROVE TypeInv'
  <2>1. recorded \subseteq Sessions
    BY DEF SessionsTyped, Sessions
  <2>2. SignInsTyped' /\ Steady'
    BY <1>6, <2>1 DEF CheckPrevious, Goto, RedeemerSteps, SignInsTyped, Steady
  <2> QED
    BY <1>6, <2>2 DEF CheckPrevious, SessionsTyped, CodesTyped, IssuersTyped, EndersTyped,
       GhostsTyped
<1>7. ASSUME NEW p \in Redeemers, ReadPrevious(p) PROVE TypeInv'
  BY <1>7 DEF ReadPrevious, Goto, RedeemerSteps, SessionsTyped, CodesTyped, SignInsTyped,
     IssuersTyped, EndersTyped, GhostsTyped, Steady
<1>8. ASSUME NEW p \in Redeemers, JoinFamily(p) PROVE TypeInv'
  <2>1. kin' \in [Sessions -> SUBSET Sessions]
    <3>1. Known({rsrc[p], rprev[p]}) \in SUBSET Sessions
      BY DEF Known, SignInsTyped
    <3> QED
      BY <1>8, <3>1, TiedTyped DEF JoinFamily, GhostsTyped
  <2> QED
    BY <1>8, <2>1 DEF JoinFamily, Joining, Goto, RedeemerSteps, SessionsTyped, CodesTyped,
       SignInsTyped, IssuersTyped, EndersTyped, GhostsTyped, Steady
<1>9. ASSUME NEW p \in Redeemers, StartSignIn(p) PROVE TypeInv'
  BY <1>9 DEF StartSignIn, Goto, RedeemerSteps, SessionsTyped, CodesTyped, SignInsTyped,
     IssuersTyped, EndersTyped, GhostsTyped, Steady
<1>10. ASSUME NEW p \in Redeemers, Mint(p) PROVE TypeInv'
  <2>1. minted \in Nat /\ minted' = minted + 1 /\ minted' \in 0 .. MaxSessions /\ minted' \in Sessions
    BY <1>10 DEF Mint, SessionsTyped, Sessions
  <2>2. SessionsTyped'
    BY <1>10, <2>1 DEF Mint, SessionsTyped
  <2>3. SignInsTyped' /\ GhostsTyped'
    BY <1>10, <2>1 DEF Mint, Goto, RedeemerSteps, SignInsTyped, GhostsTyped
  <2>4. CodesTyped' /\ IssuersTyped' /\ EndersTyped'
    BY <1>10 DEF Mint, CodesTyped, IssuersTyped, EndersTyped
  <2>5. Steady'
    BY <1>10, <2>1 DEF Mint, Goto, Steady, SignInsTyped
  <2> QED
    BY <2>2, <2>3, <2>4, <2>5
<1>11. ASSUME NEW p \in Redeemers, RecordLogin(p) PROVE TypeInv'
  <2>1. SignInsTyped' /\ rpc' = [rpc EXCEPT ![p] = "idle"]
        /\ \A q \in Redeemers \ {p} : rprev'[q] = rprev[q] /\ rnew'[q] = rnew[q]
    BY <1>11, DoneTyped DEF RecordLogin
  <2>2. kin' \in [Sessions -> SUBSET Sessions]
    <3>1. Known({rsrc[p], rprev[p], rnew[p]}) \in SUBSET Sessions
      BY DEF Known, SignInsTyped
    <3> QED
      BY <1>11, <3>1, TiedTyped DEF RecordLogin, GhostsTyped
  <2>3. SessionsTyped'
    BY <1>11 DEF RecordLogin, SessionsTyped, SignInsTyped, Steady
  <2>4. CodesTyped' /\ IssuersTyped' /\ EndersTyped' /\ GhostsTyped'
    BY <1>11, <2>2 DEF RecordLogin, CodesTyped, IssuersTyped, EndersTyped, GhostsTyped
  <2>5. Steady'
    BY <1>11, <2>1 DEF RecordLogin, Steady, SignInsTyped
  <2> QED
    BY <2>1, <2>3, <2>4, <2>5
<1>12. ASSUME NEW p \in Redeemers, CrashRedeemer(p) PROVE TypeInv'
  <2>1. SignInsTyped' /\ rpc' = [rpc EXCEPT ![p] = "idle"]
        /\ \A q \in Redeemers \ {p} : rprev'[q] = rprev[q] /\ rnew'[q] = rnew[q]
    BY <1>12, DoneTyped DEF CrashRedeemer
  <2> QED
    BY <1>12, <2>1 DEF CrashRedeemer, SessionsTyped, CodesTyped, IssuersTyped, EndersTyped,
       GhostsTyped, Steady, SignInsTyped
<1>13. ASSUME NEW e \in Enders, NEW s \in Sessions, SignOut(e, s) PROVE TypeInv'
  <2>1. family[s] \in Families \cup {None} /\ {s} \ ended \subseteq Sessions /\ s \in 1 .. minted
    BY <1>13 DEF SignOut, SessionsTyped
  <2>2. EndersTyped' /\ \A d \in Enders : etodo'[d] \subseteq 1 .. minted
    <3>1. CASE StartEnd(e, s, None, {s} \ ended, "end")
      BY <2>1, <3>1 DEF StartEnd, EndersTyped, Steady
    <3>2. CASE StartEnd(e, s, family[s], {}, "list")
      BY <2>1, <3>2 DEF StartEnd, EndersTyped, Steady
    <3> QED
      BY <1>13, <3>1, <3>2 DEF SignOut
  <2> QED
    BY <1>13, <2>2 DEF SignOut, StartEnd, SessionsTyped, CodesTyped, SignInsTyped, IssuersTyped,
       GhostsTyped, Steady
<1>14. ASSUME NEW e \in Enders, NEW s \in Sessions, EndOthers(e, s) PROVE TypeInv'
  BY <1>14 DEF EndOthers, StartEnd, SessionsTyped, CodesTyped, SignInsTyped, IssuersTyped,
     EndersTyped, GhostsTyped, Steady, Sessions
<1>15. ASSUME NEW e \in Enders, ListFamily(e) PROVE TypeInv'
  <2>1. recorded \subseteq Sessions /\ recorded \subseteq 1 .. minted
    BY DEF SessionsTyped, Sessions
  <2>2. EndersTyped' /\ \A d \in Enders : etodo'[d] \subseteq 1 .. minted
    BY <1>15, <2>1 DEF ListFamily, EndersTyped, Steady
  <2> QED
    BY <1>15, <2>2 DEF ListFamily, SessionsTyped, CodesTyped, SignInsTyped, IssuersTyped,
       GhostsTyped, Steady
<1>16. ASSUME NEW e \in Enders, EndOne(e) PROVE TypeInv'
  <2>1. SessionsTyped'
    BY <1>16 DEF EndOne, SessionsTyped, Steady
  <2>2. EndersTyped' /\ \A d \in Enders : etodo'[d] \subseteq 1 .. minted
    BY <1>16 DEF EndOne, EndersTyped, Steady
  <2> QED
    BY <1>16, <2>1, <2>2 DEF EndOne, CodesTyped, SignInsTyped, IssuersTyped, GhostsTyped, Steady
<1>17. ASSUME NEW e \in Enders, FinishEnd(e) PROVE TypeInv'
  BY <1>17 DEF FinishEnd, SessionsTyped, CodesTyped, SignInsTyped, IssuersTyped, EndersTyped,
     GhostsTyped, Steady
<1>18. ASSUME NEW t \in Sessions, Terminate(t) PROVE TypeInv'
  BY <1>18 DEF Terminate, SessionsTyped, CodesTyped, SignInsTyped, IssuersTyped, EndersTyped,
     GhostsTyped, Steady
<1> QED
  BY <1>1, <1>2, <1>3, <1>4, <1>5, <1>6, <1>7, <1>8, <1>9, <1>10, <1>11, <1>12, <1>13, <1>14,
     <1>15, <1>16, <1>17, <1>18
  DEF Next, SignInStep, EndStep

(* Every variable keeps its type, whatever the bounds.                     *)
THEOREM TypeCorrect == Spec => []TypeOK
<1>1. TypeInv => TypeOK
  BY DEF TypeInv
<1> QED
  BY <1>1, TypeInit, TypeStep, PTL DEF Spec

-----------------------------------------------------------------------------
(* One session per code.  A code is spent before its redeemer goes on, so  *)
(* no two sign-ins carry the same code; the one that carries it mints once *)
(* and then drops it or goes to record.                                    *)

Carried ==
    /\ \A p \in Redeemers : rcode[p] # None => rpc[p] # "idle" /\ rcode[p] \in spent
    /\ \A p, q \in Redeemers : rcode[p] # None /\ rcode[p] = rcode[q] => p = q

Unborn ==
    /\ \A c \in Codes : c \notin spent => born[c] = {}
    /\ \A p \in Redeemers : rcode[p] \in Codes /\ rpc[p] # "record" => born[rcode[p]] = {}

BornOnce ==
    /\ \A c \in Codes : born[c] \subseteq 1 .. minted
    /\ \A c \in Codes : born[c] = {} \/ \E s \in Sessions : born[c] = {s}
    /\ \A c, d \in Codes : c # d => born[c] \cap born[d] = {}

CodeInv == Carried /\ Unborn /\ BornOnce

LEMMA CodeInit == Init => CodeInv
  BY DEF Init, CodeInv, Carried, Unborn, BornOnce

(* Steps that redeem nothing and mint nothing.                             *)
LEMMA CodeFrame ==
  ASSUME TypeInv, CodeInv, UNCHANGED <<spent, born>>, minted' = minted,
         \A p \in Redeemers :
            /\ rcode'[p] \in {rcode[p], None}
            /\ rcode'[p] # None => rpc'[p] # "idle" /\ (rpc'[p] # "record" => rpc[p] # "record")
  PROVE  CodeInv'
<1> USE BoundsAssumption DEF TypeInv, TypeOK, CodeInv
<1>1. None \notin Codes
  BY DEF None
<1>2. Carried'
  BY <1>1 DEF Carried, SignInsTyped
<1>3. Unborn'
  BY <1>1 DEF Unborn, SignInsTyped
<1>4. BornOnce'
  BY DEF BornOnce
<1> QED
  BY <1>2, <1>3, <1>4

LEMMA CodeRedeem ==
  ASSUME TypeInv, CodeInv, NEW p \in Redeemers, NEW c \in Codes, Redeem(p, c)
  PROVE  CodeInv'
<1> USE BoundsAssumption DEF TypeInv, TypeOK, CodeInv
<1>1. None \notin Codes
  BY DEF None
<1>2. c \notin spent /\ rcode[p] = None /\ \A q \in Redeemers : rcode[q] # c
  BY <1>1 DEF Redeem, Unspent, Carried, SignInsTyped
<1>3. spent' = spent \cup {c} /\ UNCHANGED <<born, minted>>
  BY DEF Redeem, loginVars
<1>4. \/ UNCHANGED <<rpc, rcode>>
      \/ rcode' = [rcode EXCEPT ![p] = c] /\ rpc' = [rpc EXCEPT ![p] = "family"]
  BY DEF Redeem, Goto, redVars
<1>5. Carried'
  BY <1>1, <1>2, <1>3, <1>4 DEF Carried, SignInsTyped
<1>6. Unborn'
  BY <1>1, <1>2, <1>3, <1>4 DEF Unborn, SignInsTyped
<1>7. BornOnce'
  BY <1>3 DEF BornOnce
<1> QED
  BY <1>5, <1>6, <1>7

LEMMA CodeMint ==
  ASSUME TypeInv, CodeInv, NEW p \in Redeemers, Mint(p)
  PROVE  CodeInv'
<1> USE BoundsAssumption DEF TypeInv, TypeOK, CodeInv
<1> DEFINE s == minted + 1
<1>1. None \notin Codes
  BY DEF None
<1>2. /\ rpc[p] = "mint" /\ rpc' = [rpc EXCEPT ![p] = "record"]
      /\ UNCHANGED <<rcode, spent>>
      /\ minted' = s /\ minted \in Nat /\ s \in Sessions
  BY DEF Mint, Goto, codeVars, SessionsTyped, Sessions
<1>3. \A c \in Codes : born'[c] = IF c = rcode[p] THEN born[c] \cup {s} ELSE born[c]
  BY DEF Mint
<1>4. \A c \in Codes : c = rcode[p] => born'[c] = {s} /\ c \in spent
  <2> SUFFICES ASSUME NEW c \in Codes, c = rcode[p] PROVE born'[c] = {s} /\ c \in spent
    OBVIOUS
  <2>1. born[c] = {}
    BY <1>2 DEF Unborn
  <2>2. c \in spent
    BY <1>1 DEF Carried
  <2> QED
    BY <1>3, <2>1, <2>2
<1>5. \A c \in Codes : c # rcode[p] => born'[c] = born[c]
  BY <1>3
<1>6. Carried'
  BY <1>2 DEF Carried, SignInsTyped
<1>7. Unborn'
  <2>1. \A c \in Codes : c \notin spent => born'[c] = {}
    BY <1>4, <1>5 DEF Unborn
  <2>2. \A q \in Redeemers : rcode[q] \in Codes /\ rpc'[q] # "record" => born'[rcode[q]] = {}
    <3> SUFFICES ASSUME NEW q \in Redeemers, rcode[q] \in Codes, rpc'[q] # "record"
                 PROVE  born'[rcode[q]] = {}
      OBVIOUS
    <3>1. q # p /\ rpc[q] # "record"
      BY <1>2 DEF SignInsTyped
    <3>2. rcode[q] # rcode[p]
      BY <1>1, <3>1 DEF Carried
    <3> QED
      BY <1>5, <3>1, <3>2 DEF Unborn
  <2> QED
    BY <1>2, <2>1, <2>2 DEF Unborn
<1>8. BornOnce'
  <2>1. \A c \in Codes : born[c] \subseteq 1 .. minted /\ s \notin born[c]
    BY <1>2 DEF BornOnce
  <2>2. \A c \in Codes : born'[c] \subseteq 1 .. minted'
    BY <1>2, <1>4, <1>5, <2>1
  <2>3. \A c \in Codes : born'[c] = {} \/ \E t \in Sessions : born'[c] = {t}
    BY <1>2, <1>4, <1>5 DEF BornOnce
  <2>4. \A c, d \in Codes : c # d => born'[c] \cap born'[d] = {}
    BY <1>4, <1>5, <2>1 DEF BornOnce
  <2> QED
    BY <2>2, <2>3, <2>4 DEF BornOnce
<1> QED
  BY <1>6, <1>7, <1>8

LEMMA CodeStep == TypeInv /\ CodeInv /\ [Next]_vars => CodeInv'
<1> SUFFICES ASSUME TypeInv, CodeInv, [Next]_vars PROVE CodeInv'
  OBVIOUS
<1> USE DEF loginVars, codeVars, redVars, issVars, endVars, ghosts
<1>1. SignInsTyped /\ Carried
  BY DEF TypeInv, TypeOK, CodeInv
<1>2. ASSUME UNCHANGED <<spent, born, minted, rcode, rpc>> PROVE CodeInv'
  BY <1>1, <1>2, CodeFrame DEF Carried
<1>3. ASSUME NEW i \in Issuers, IssueStep(i) PROVE CodeInv'
  BY <1>2, <1>3 DEF IssueStep, StartIssue, CreateCode
<1>4. ASSUME NEW e \in Enders, EndStep(e) PROVE CodeInv'
  BY <1>2, <1>4 DEF EndStep, SignOut, EndOthers, StartEnd, ListFamily, EndOne, FinishEnd
<1>5. ASSUME NEW t \in Sessions, Terminate(t) PROVE CodeInv'
  BY <1>2, <1>5 DEF Terminate
<1>6. ASSUME NEW p \in Redeemers, NEW step \in RedeemerSteps \ {"idle", "record"},
             Goto(p, step), rpc[p] # "record", UNCHANGED <<spent, born, minted, rcode>>
      PROVE  CodeInv'
  BY <1>1, <1>6, CodeFrame DEF Goto, Carried, SignInsTyped
<1>7. ASSUME NEW p \in Redeemers, Done(p), UNCHANGED <<spent, born, minted>> PROVE CodeInv'
  BY <1>1, <1>7, CodeFrame DEF Done, Goto, Carried, SignInsTyped
<1>8. ASSUME NEW p \in Redeemers, SignInStep(p) PROVE CodeInv'
  <2>1. CASE \E c \in Codes : Redeem(p, c)
    BY <2>1, CodeRedeem
  <2>2. CASE ReadFamily(p) \/ GiveFamily(p) \/ CheckPrevious(p)
    BY <1>6, <2>2 DEF ReadFamily, GiveFamily, CheckPrevious, RedeemerSteps
  <2>3. CASE ReadPrevious(p)
    BY <1>6, <2>3 DEF ReadPrevious, RedeemerSteps
  <2>4. CASE JoinFamily(p) \/ StartSignIn(p)
    BY <1>6, <2>4 DEF JoinFamily, StartSignIn, RedeemerSteps
  <2>5. CASE Mint(p)
    BY <2>5, CodeMint
  <2>6. CASE RecordLogin(p) \/ CrashRedeemer(p)
    BY <1>7, <2>6 DEF RecordLogin, CrashRedeemer
  <2> QED
    BY <1>8, <2>1, <2>2, <2>3, <2>4, <2>5, <2>6 DEF SignInStep
<1> QED
  BY <1>2, <1>3, <1>4, <1>5, <1>8 DEF Next, vars

(* However often a code is presented, by however many at a time, and       *)
(* whatever dies after it was spent, it starts one session at most.        *)
THEOREM OneSessionPerCode == Spec => []CodeStartsOneSession
<1>1. CodeInv => CodeStartsOneSession
  <2> SUFFICES ASSUME BornOnce PROVE CodeStartsOneSession
    BY DEF CodeInv
  <2>1. \A c \in Codes : Cardinality(born[c]) <= 1
    <3> SUFFICES ASSUME NEW c \in Codes PROVE Cardinality(born[c]) <= 1
      OBVIOUS
    <3>1. CASE born[c] = {}
      BY <3>1, FS_EmptySet
    <3>2. ASSUME NEW s \in Sessions, born[c] = {s} PROVE Cardinality(born[c]) <= 1
      BY <3>2, FS_Singleton
    <3> QED
      BY <3>1, <3>2 DEF BornOnce
  <2> QED
    BY <2>1 DEF BornOnce, CodeStartsOneSession
<1> QED
  BY <1>1, TypeInit, TypeStep, CodeInit, CodeStep, PTL DEF Spec
=============================================================================
