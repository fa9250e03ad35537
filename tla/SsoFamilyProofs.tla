--------------------------- MODULE SsoFamilyProofs ---------------------------
(* Proof that a sign-out reaches the sessions of its own browser only, for *)
(* any number of redemptions, sign-outs, sessions, codes and families at   *)
(* a time: the property needs to know who else carries a family's id.  And *)
(* that, while redemptions follow one another, it reaches all of them.     *)
EXTENDS SsoSessionsProofs

(* Being tied by single sign-on is an equivalence.                         *)
KinInv ==
    /\ \A s \in Sessions : s \in kin[s]
    /\ \A s, t \in Sessions : t \in kin[s] => kin[t] = kin[s]

(* A redeemer that replaced a session, and is past it.                     *)
Replaced(p) == rprev[p] # None /\ rpc[p] \in {"mint", "record"}

(* A session is bound to a family when it is in it, or when a request that *)
(* runs for it has read or will write the family's id.                     *)
Bound(f, s) ==
    \/ family[s] = f
    \/ \E e \in Enders : efam[e] = f /\ eby[e] = s
    \/ \E p \in Redeemers : rfam[p] = f /\ rsrc[p] = s
    \/ \E p \in Redeemers : rold[p] = f /\ rprev[p] = s
    \/ \E p \in Redeemers : rfam[p] = f /\ rprev[p] = s /\ Replaced(p)

(* A redeemer whose family is new and has no session yet.                  *)
Lonely(p) == rfam[p] # None /\ rsrc[p] = None /\ ~Replaced(p)

BoundInv ==
    /\ \A f \in Families, s, t \in Sessions : Bound(f, s) /\ Bound(f, t) => t \in kin[s]
    /\ \A f \in Families, s \in Sessions : Bound(f, s) => f <= families
    /\ \A p \in Redeemers : rfam[p] <= families

LonelyInv ==
    \A p \in Redeemers : Lonely(p) =>
        /\ \A s \in Sessions : ~Bound(rfam[p], s)
        /\ \A q \in Redeemers : rfam[q] = rfam[p] => q = p

(* What the program counters say of the families a request carries.        *)
StepsInv ==
    /\ \A p \in Redeemers :
          /\ rpc[p] \in {"idle", "family"} => rfam[p] = None
          /\ rpc[p] \in {"give", "previous", "join", "join_one", "join_all"} => rfam[p] # None
          /\ rpc[p] \in {"idle", "family", "give", "previous", "join"} => rold[p] = None
          /\ rpc[p] \in {"idle", "family", "give", "previous"} => rprev[p] = None
          /\ rpc[p] = "join_all" => rold[p] # None
          /\ rpc[p] = "give" => rsrc[p] # None
    /\ \A e \in Enders : epc[e] = "list" => eby[e] # None /\ efam[e] # None

FamilyInv == KinInv /\ BoundInv /\ LonelyInv /\ StepsInv /\ SignOutTouchesKinOnly

-----------------------------------------------------------------------------
(* Tying sessions.                                                         *)

LEMMA TiedKeeps ==
  ASSUME kin \in [Sessions -> SUBSET Sessions], KinInv, NEW S \in SUBSET Sessions
  PROVE  /\ \A s \in Sessions : s \in Tied(S)[s] /\ kin[s] \subseteq Tied(S)[s]
         /\ \A s, t \in Sessions : t \in Tied(S)[s] => Tied(S)[t] = Tied(S)[s]
         /\ \A x, y \in S, s, t \in Sessions :
               s \in kin[x] /\ t \in kin[y] => t \in Tied(S)[s]
<1> DEFINE T == UNION {kin[s] : s \in S}
<1>1. \A s \in Sessions : Tied(S)[s] = IF s \in T THEN T ELSE kin[s]
  BY DEF Tied
<1>2. \A s, t \in Sessions : t \in kin[s] /\ s \in T => t \in T
  BY DEF KinInv
<1>3. \A s, t \in Sessions : t \in kin[s] /\ t \in T => s \in T
  BY <1>2 DEF KinInv
<1> HIDE DEF T
<1>4. \A s \in Sessions : s \in Tied(S)[s] /\ kin[s] \subseteq Tied(S)[s]
  BY <1>1, <1>2 DEF KinInv
<1>5. \A s, t \in Sessions : t \in Tied(S)[s] => Tied(S)[t] = Tied(S)[s]
  BY <1>1, <1>2, <1>3 DEF KinInv
<1>6. \A x, y \in S, s, t \in Sessions : s \in kin[x] /\ t \in kin[y] => t \in Tied(S)[s]
  <2> SUFFICES ASSUME NEW x \in S, NEW y \in S, NEW s \in Sessions, NEW t \in Sessions,
                      s \in kin[x], t \in kin[y]
               PROVE  t \in Tied(S)[s]
    OBVIOUS
  <2>1. s \in T /\ t \in T
    BY DEF T
  <2> QED
    BY <1>1, <2>1
<1> QED
  BY <1>4, <1>5, <1>6

(* A step that ties the sessions of S and binds sessions to the family g,  *)
(* if it binds any that were not, keeps families and kin together when all *)
(* that are bound to g are tied by it.                                     *)
LEMMA FamilyGrows ==
  ASSUME TypeInv, KinInv, BoundInv, LonelyInv,
         NEW S \in SUBSET Sessions, NEW g \in Families \cup {None},
         kin' = Tied(S), families \in Nat, families' = families,
         \A f \in Families \ {g}, s \in Sessions : Bound(f, s)' => Bound(f, s),
         g \in Families => g <= families /\ \A s \in Sessions :
                              Bound(g, s)' => \E x \in S : s \in kin[x],
         \A q \in Redeemers : Lonely(q)' => Lonely(q) /\ rfam'[q] = rfam[q] /\ rfam[q] # g,
         \A q \in Redeemers : \/ rfam'[q] \in {rfam[q], None}
                              \/ rfam'[q] \in Families /\ \E s \in Sessions : Bound(rfam'[q], s)
  PROVE  KinInv' /\ BoundInv' /\ LonelyInv'
<1>1. kin \in [Sessions -> SUBSET Sessions] /\ rfam \in [Redeemers -> Families \cup {None}]
  BY DEF TypeInv, TypeOK, GhostsTyped, SignInsTyped
<1>2. KinInv'
  BY <1>1, TiedKeeps DEF KinInv
<1>3. ASSUME NEW f \in Families, NEW s \in Sessions, NEW t \in Sessions,
             Bound(f, s)', Bound(f, t)'
      PROVE  t \in kin'[s]
  <2>1. CASE f = g
    <3>1. PICK x \in S : s \in kin[x]
      BY <1>3, <2>1
    <3>2. PICK y \in S : t \in kin[y]
      BY <1>3, <2>1
    <3> QED
      BY <1>1, <3>1, <3>2, TiedKeeps
  <2>2. CASE f # g
    <3>1. Bound(f, s) /\ Bound(f, t)
      BY <1>3, <2>2
    <3>2. t \in kin[s]
      BY <3>1 DEF BoundInv
    <3> QED
      BY <1>1, <3>2, TiedKeeps
  <2> QED
    BY <2>1, <2>2
<1>4. ASSUME NEW f \in Families, NEW s \in Sessions, Bound(f, s)' PROVE f <= families'
  <2>1. CASE f = g
    BY <2>1
  <2>2. CASE f # g
    <3>1. Bound(f, s)
      BY <1>4, <2>2
    <3> QED
      BY <3>1 DEF BoundInv
  <2> QED
    BY <2>1, <2>2
<1>5. \A q \in Redeemers : rfam'[q] <= families'
  <2> SUFFICES ASSUME NEW q \in Redeemers PROVE rfam'[q] <= families
    OBVIOUS
  <2>1. CASE rfam'[q] = rfam[q]
    BY <2>1 DEF BoundInv
  <2>2. CASE rfam'[q] = None
    BY <2>2 DEF None
  <2>3. CASE rfam'[q] \in Families /\ \E s \in Sessions : Bound(rfam'[q], s)
    BY <2>3 DEF BoundInv
  <2> QED
    BY <2>1, <2>2, <2>3
<1>6. BoundInv'
  BY <1>3, <1>4, <1>5 DEF BoundInv
<1>7. LonelyInv'
  <2> SUFFICES ASSUME NEW q \in Redeemers, Lonely(q)'
               PROVE  /\ \A s \in Sessions : ~Bound(rfam[q], s)'
                      /\ \A r \in Redeemers : rfam'[r] = rfam[q] => r = q
    BY DEF LonelyInv
  <2>1. Lonely(q) /\ rfam'[q] = rfam[q] /\ rfam[q] \in Families \ {g}
    BY <1>1 DEF Lonely
  <2>2. \A s \in Sessions : ~Bound(rfam[q], s)
    BY <2>1 DEF LonelyInv
  <2>3. \A r \in Redeemers : rfam[r] = rfam[q] => r = q
    BY <2>1 DEF LonelyInv
  <2>4. rfam[q] # None
    BY <2>1 DEF Families, None
  <2> QED
    BY <2>1, <2>2, <2>3, <2>4
<1> QED
  BY <1>2, <1>6, <1>7

-----------------------------------------------------------------------------
(* Steps that bind nobody to a family he was not bound to: the lemma above *)
(* with nothing to tie.                                                    *)

LEMMA FamilyKeeps ==
  ASSUME TypeInv, KinInv, BoundInv, LonelyInv, UNCHANGED <<kin, families>>,
         \A f \in Families, s \in Sessions : Bound(f, s)' => Bound(f, s),
         \A q \in Redeemers : Lonely(q)' => Lonely(q) /\ rfam'[q] = rfam[q],
         \A q \in Redeemers : \/ rfam'[q] \in {rfam[q], None}
                              \/ rfam'[q] \in Families /\ \E s \in Sessions : Bound(rfam'[q], s)
  PROVE  KinInv' /\ BoundInv' /\ LonelyInv'
<1>1. kin \in [Sessions -> SUBSET Sessions] /\ families \in Nat
  BY BoundsAssumption DEF TypeInv, TypeOK, GhostsTyped, SessionsTyped
<1>2. kin' = Tied({})
  BY <1>1 DEF Tied
<1>3. None \notin Families
  BY DEF Families, None
<1>4. \A q \in Redeemers : Lonely(q)' => rfam[q] # None
  BY DEF Lonely
<1> QED
  BY <1>1, <1>2, <1>3, <1>4, FamilyGrows

(* A sign-out that starts is bound to a family its session is in.          *)
LEMMA EndBinds ==
  ASSUME TypeInv, NEW e \in Enders, NEW by \in Sessions \cup {None},
         NEW fam \in Families \cup {None},
         fam \in Families => family[by] = fam /\ by \in Sessions,
         eby' = [eby EXCEPT ![e] = by], efam' = [efam EXCEPT ![e] = fam],
         UNCHANGED <<loginVars, redVars>>
  PROVE  \A f \in Families, s \in Sessions : Bound(f, s)' => Bound(f, s)
<1>1. eby \in [Enders -> Sessions \cup {None}] /\ efam \in [Enders -> Families \cup {None}]
  BY DEF TypeInv, TypeOK, EndersTyped
<1>2. \A f \in Families, s \in Sessions, d \in Enders :
         efam'[d] = f /\ eby'[d] = s => family[s] = f \/ (efam[d] = f /\ eby[d] = s)
  BY <1>1
<1>3. \A q \in Redeemers : Replaced(q)' = Replaced(q)
  BY DEF Replaced, redVars
<1> QED
  BY <1>2, <1>3 DEF Bound, loginVars, redVars

(* A step of the redeemer p binds s to f only if s was bound already, or   *)
(* it is in what the step wrote.                                           *)
LEMMA StepBinds ==
  ASSUME NEW p \in Redeemers, UNCHANGED <<eby, efam>>,
         \A q \in Redeemers \ {p} :
            /\ rpc'[q] = rpc[q] /\ rsrc'[q] = rsrc[q] /\ rfam'[q] = rfam[q]
            /\ rprev'[q] = rprev[q] /\ rold'[q] = rold[q],
         NEW f \in Families, NEW s \in Sessions, Bound(f, s)',
         family'[s] = f => Bound(f, s),
         rfam'[p] = f /\ rsrc'[p] = s => Bound(f, s),
         rold'[p] = f /\ rprev'[p] = s => Bound(f, s),
         rfam'[p] = f /\ rprev'[p] = s /\ Replaced(p)' => Bound(f, s)
  PROVE  Bound(f, s)
<1>1. \A q \in Redeemers \ {p} : Replaced(q)' = Replaced(q)
  BY DEF Replaced
<1>2. CASE family'[s] = f \/ \E e \in Enders : efam'[e] = f /\ eby'[e] = s
  BY <1>2 DEF Bound
<1>3. ASSUME NEW q \in Redeemers,
             \/ rfam'[q] = f /\ rsrc'[q] = s
             \/ rold'[q] = f /\ rprev'[q] = s
             \/ rfam'[q] = f /\ rprev'[q] = s /\ Replaced(q)'
      PROVE  Bound(f, s)
  <2>1. CASE q = p
    BY <1>3, <2>1
  <2>2. CASE q # p
    BY <1>1, <1>3, <2>2 DEF Bound
  <2> QED
    BY <2>1, <2>2
<1> QED
  BY <1>2, <1>3 DEF Bound

(* The other redeemers are as they were.                                   *)
OthersSame(p) ==
    \A q \in Redeemers \ {p} :
        /\ rpc'[q] = rpc[q] /\ rsrc'[q] = rsrc[q] /\ rfam'[q] = rfam[q]
        /\ rprev'[q] = rprev[q] /\ rold'[q] = rold[q]

LEMMA OthersLonely ==
  ASSUME NEW p \in Redeemers, OthersSame(p), NEW q \in Redeemers \ {p}
  PROVE  Lonely(q)' = Lonely(q) /\ rfam'[q] = rfam[q]
  BY DEF OthersSame, Lonely, Replaced

LEMMA RedeemersChange ==
  ASSUME TypeInv, NEW p \in Redeemers, SignInStep(p)
  PROVE  OthersSame(p)
<1> USE DEF TypeInv, TypeOK, SignInsTyped, OthersSame, Goto
<1>1. CASE \E c \in Codes : Redeem(p, c)
  BY <1>1 DEF Redeem, redVars
<1>2. CASE ReadFamily(p) \/ GiveFamily(p) \/ CheckPrevious(p)
  BY <1>2 DEF ReadFamily, GiveFamily, CheckPrevious
<1>3. CASE ReadPrevious(p) \/ JoinFamily(p) \/ StartSignIn(p) \/ Mint(p)
  BY <1>3 DEF ReadPrevious, JoinFamily, StartSignIn, Mint
<1>4. CASE RecordLogin(p) \/ CrashRedeemer(p)
  BY <1>4 DEF RecordLogin, CrashRedeemer, Done
<1> QED
  BY <1>1, <1>2, <1>3, <1>4 DEF SignInStep

-----------------------------------------------------------------------------
(* The steps that write a family.                                          *)

(* sso_family_of generates an id: it is nobody's but the source's.         *)
LEMMA FamilyFresh ==
  ASSUME TypeInv, FamilyInv, NEW p \in Redeemers, OthersSame(p),
         NEW g \in Families, g = families + 1, rpc[p] = "family",
         families' = g, rfam' = [rfam EXCEPT ![p] = g],
         rpc'[p] \in {"give", "previous"},
         UNCHANGED <<kin, family, rsrc, rprev, rold, eby, efam>>
  PROVE  KinInv' /\ BoundInv' /\ LonelyInv'
<1> USE DEF FamilyInv
<1>1. /\ families \in Nat /\ g > families
      /\ rfam \in [Redeemers -> Families \cup {None}]
      /\ \A f \in Families \cup {None} : f \in Nat
  BY BoundsAssumption DEF TypeInv, TypeOK, SessionsTyped, SignInsTyped, Families, None
<1>2. ~Replaced(p)' /\ ~Replaced(p)
  BY DEF Replaced
<1>3. \A f \in Families, s \in Sessions : Bound(f, s) => f <= families
  BY DEF BoundInv
<1>4. ASSUME NEW f \in Families, NEW s \in Sessions, Bound(f, s)', f # g \/ s # rsrc[p]
      PROVE  Bound(f, s)
  <2>1. family'[s] = f => Bound(f, s)
    BY DEF Bound
  <2>2. rfam'[p] = f /\ rsrc'[p] = s => Bound(f, s)
    BY <1>1, <1>4
  <2>3. rold'[p] = f /\ rprev'[p] = s => Bound(f, s)
    BY DEF Bound
  <2> QED
    BY <1>2, <1>4, <2>1, <2>2, <2>3, StepBinds DEF OthersSame
<1>5. ASSUME NEW s \in Sessions, Bound(g, s)' PROVE s = rsrc[p]
  <2>1. SUFFICES ASSUME s # rsrc[p] PROVE FALSE
    OBVIOUS
  <2>2. Bound(g, s)
    BY <1>4, <1>5, <2>1
  <2>3. g <= families
    BY <1>3, <2>2
  <2> QED
    BY <1>1, <2>3
<1>6. BoundInv'
  <2>1. ASSUME NEW f \in Families, NEW s \in Sessions, NEW t \in Sessions,
               Bound(f, s)', Bound(f, t)'
        PROVE  t \in kin'[s]
    <3>1. CASE f = g
      <4>1. s = rsrc[p] /\ t = rsrc[p]
        BY <1>5, <2>1, <3>1
      <4> QED
        BY <4>1 DEF KinInv
    <3>2. CASE f # g
      <4>1. Bound(f, s) /\ Bound(f, t)
        BY <1>4, <2>1, <3>2
      <4> QED
        BY <4>1 DEF BoundInv
    <3> QED
      BY <3>1, <3>2
  <2>2. ASSUME NEW f \in Families, NEW s \in Sessions, Bound(f, s)' PROVE f <= families'
    <3>1. CASE f = g
      BY <1>1, <3>1
    <3>2. CASE f # g
      <4>1. f <= families
        BY <1>3, <1>4, <2>2, <3>2
      <4> QED
        BY <1>1, <4>1
    <3> QED
      BY <3>1, <3>2
  <2>3. \A q \in Redeemers : rfam'[q] <= families'
    <3>1. \A q \in Redeemers : rfam[q] <= families
      BY DEF BoundInv
    <3> QED
      BY <1>1, <3>1
  <2> QED
    BY <2>1, <2>2, <2>3 DEF BoundInv
<1>7. LonelyInv'
  <2> SUFFICES ASSUME NEW q \in Redeemers, Lonely(q)', NEW f \in Families, f = rfam'[q]
               PROVE  /\ \A s \in Sessions : ~Bound(f, s)'
                      /\ \A r \in Redeemers : rfam'[r] = f => r = q
    <3>1. \A q \in Redeemers : Lonely(q)' => rfam'[q] \in Families
      BY <1>1 DEF Lonely
    <3> QED
      BY <3>1 DEF LonelyInv
  <2>1. \A r \in Redeemers : rfam[r] # g
    BY <1>1 DEF BoundInv
  <2>2. CASE q = p
    <3>1. f = g /\ rsrc[p] = None
      BY <1>1, <1>2, <2>2 DEF Lonely
    <3>2. \A s \in Sessions : ~Bound(g, s)'
      BY <1>5, <3>1 DEF Sessions, None
    <3>3. \A r \in Redeemers : rfam'[r] = g => r = p
      BY <1>1, <2>1
    <3> QED
      BY <2>2, <3>1, <3>2, <3>3
  <2>3. CASE q # p
    <3>1. Lonely(q) /\ rfam[q] = f /\ f # g
      BY <2>1, <2>3, OthersLonely
    <3>3. \A s \in Sessions : ~Bound(f, s)
      BY <3>1 DEF LonelyInv
    <3>4. \A s \in Sessions : ~Bound(f, s)'
      BY <1>4, <3>1, <3>3
    <3>5. \A r \in Redeemers : rfam[r] = f => r = q
      BY <3>1 DEF LonelyInv
    <3> QED
      BY <1>1, <3>1, <3>4, <3>5
  <2> QED
    BY <2>2, <2>3
<1> QED
  BY <1>6, <1>7 DEF KinInv

(* Whoever is bound to the family of a redeemer is kin of a session that   *)
(* redeemer is tied to: its source, or the session it has replaced.        *)
LEMMA BoundToRedeemer ==
  ASSUME TypeInv, FamilyInv, NEW p \in Redeemers, rfam[p] \in Families,
         NEW s \in Sessions, Bound(rfam[p], s)
  PROVE  \E x \in Known({rsrc[p], rprev[p]}) : x \in Sessions /\ s \in kin[x]
<1> USE DEF FamilyInv
<1>1. rsrc[p] \in Sessions \cup {None} /\ rprev[p] \in Sessions \cup {None}
  BY DEF TypeInv, TypeOK, SignInsTyped
<1>2. rfam[p] # None
  BY DEF Families, None
<1>3. CASE rsrc[p] # None
  <2>1. Bound(rfam[p], rsrc[p])
    BY DEF Bound
  <2>2. s \in kin[rsrc[p]]
    BY <1>1, <1>3, <2>1 DEF BoundInv
  <2> QED
    BY <1>1, <1>3, <2>2 DEF Known
<1>4. CASE rsrc[p] = None /\ Replaced(p)
  <2>1. Bound(rfam[p], rprev[p]) /\ rprev[p] # None
    BY <1>4 DEF Bound, Replaced
  <2>2. s \in kin[rprev[p]]
    BY <1>1, <2>1 DEF BoundInv
  <2> QED
    BY <1>1, <2>1, <2>2 DEF Known
<1>5. CASE rsrc[p] = None /\ ~Replaced(p)
  BY <1>2, <1>5 DEF Lonely, LonelyInv
<1> QED
  BY <1>3, <1>4, <1>5

(* join_sso_family brings sessions into the family of the redeemer.        *)
LEMMA FamilyJoin ==
  ASSUME TypeInv, FamilyInv, NEW p \in Redeemers, JoinFamily(p), OthersSame(p)
  PROVE  KinInv' /\ BoundInv' /\ LonelyInv'
<1> USE DEF FamilyInv
<1>1. /\ rsrc[p] \in Sessions \cup {None} /\ rprev[p] \in Sessions
      /\ rfam \in [Redeemers -> Families \cup {None}]
      /\ rold \in [Redeemers -> Families \cup {None}]
      /\ rpc \in [Redeemers -> RedeemerSteps]
      /\ family \in [Sessions -> Families \cup {None}] /\ families \in Nat
      /\ None \notin Sessions /\ None \notin Families
  BY DEF TypeInv, TypeOK, SessionsTyped, SignInsTyped, Steady, JoinFamily, Sessions, Families,
     None
<1>2. PICK g \in Families : g = rfam[p]
  BY <1>1 DEF StepsInv, JoinFamily
<1>3. PICK S \in SUBSET Sessions : S = Known({rsrc[p], rprev[p]})
  BY <1>1 DEF Known
<1>4. /\ kin' = Tied(S) /\ families' = families /\ rfam' = rfam /\ rsrc' = rsrc
      /\ rprev' = rprev /\ rold'[p] = None /\ eby' = eby /\ efam' = efam
      /\ rpc'[p] = "mint" /\ rprev[p] \in S
  BY <1>1, <1>3 DEF JoinFamily, Goto, issVars, endVars, Known
<1>5. \A s \in Sessions : family'[s] = IF s \in Joining(p) THEN g ELSE family[s]
  BY <1>2 DEF JoinFamily
<1>6. \A s \in Sessions : s \in Joining(p) => s \in kin[rprev[p]]
  <2> SUFFICES ASSUME NEW s \in Sessions, s \in Joining(p) PROVE s \in kin[rprev[p]]
    OBVIOUS
  <2>1. CASE rpc[p] = "join_one"
    BY <1>1, <2>1 DEF Joining, KinInv
  <2>2. CASE rpc[p] = "join_all"
    <3>1. PICK f \in Families : f = rold[p]
      BY <1>1, <2>2 DEF StepsInv
    <3>2. Bound(f, s) /\ Bound(f, rprev[p])
      BY <2>2, <3>1 DEF Joining, Bound
    <3> QED
      BY <1>1, <3>2 DEF BoundInv
  <2> QED
    BY <2>1, <2>2 DEF JoinFamily
<1>7. ASSUME NEW f \in Families, NEW s \in Sessions, Bound(f, s)',
             f # g \/ (s \notin Joining(p) /\ s # rprev[p])
      PROVE  Bound(f, s)
  <2>1. family'[s] = f => Bound(f, s)
    BY <1>5, <1>7 DEF Bound
  <2>2. rfam'[p] = f /\ rsrc'[p] = s => Bound(f, s)
    BY <1>4 DEF Bound
  <2>3. rold'[p] = f /\ rprev'[p] = s => Bound(f, s)
    BY <1>1, <1>4
  <2>4. rfam'[p] = f /\ rprev'[p] = s /\ Replaced(p)' => Bound(f, s)
    BY <1>2, <1>4, <1>7
  <2> QED
    BY <1>4, <1>7, <2>1, <2>2, <2>3, <2>4, StepBinds DEF OthersSame
<1>8. ASSUME NEW s \in Sessions, Bound(g, s)' PROVE \E x \in S : s \in kin[x]
  <2>1. CASE s \in Joining(p) \/ s = rprev[p]
    BY <1>1, <1>4, <1>6, <2>1 DEF KinInv
  <2>2. CASE ~(s \in Joining(p) \/ s = rprev[p])
    <3>1. Bound(rfam[p], s)
      BY <1>2, <1>7, <1>8, <2>2
    <3> QED
      BY <1>2, <1>3, <3>1, BoundToRedeemer
  <2> QED
    BY <2>1, <2>2
<1>9. ASSUME NEW q \in Redeemers, Lonely(q)'
      PROVE  Lonely(q) /\ rfam'[q] = rfam[q] /\ rfam[q] # g
  <2>1. q # p
    BY <1>1, <1>4, <1>9 DEF Lonely, Replaced
  <2>2. Lonely(q)
    BY <1>9, <2>1, OthersLonely
  <2> QED
    BY <1>2, <1>4, <2>1, <2>2 DEF LonelyInv
<1>10. g <= families
  BY <1>2 DEF BoundInv
<1> QED
  BY <1>1, <1>4, <1>7, <1>8, <1>9, <1>10, FamilyGrows

(* record_login puts the new session in the family of the redeemer.        *)
LEMMA FamilyRecord ==
  ASSUME TypeInv, FamilyInv, NEW p \in Redeemers, RecordLogin(p), OthersSame(p)
  PROVE  KinInv' /\ BoundInv' /\ LonelyInv'
<1> USE DEF FamilyInv
<1>1. /\ rsrc \in [Redeemers -> Sessions \cup {None}]
      /\ rprev \in [Redeemers -> Sessions \cup {None}]
      /\ rfam \in [Redeemers -> Families \cup {None}]
      /\ rold \in [Redeemers -> Families \cup {None}]
      /\ rpc \in [Redeemers -> RedeemerSteps]
      /\ rnew[p] \in Sessions
      /\ family \in [Sessions -> Families \cup {None}] /\ families \in Nat
      /\ None \notin Sessions /\ None \notin Families
  BY BoundsAssumption DEF TypeInv, TypeOK, SessionsTyped, SignInsTyped, Steady, RecordLogin,
     Sessions, Families, None
<1>2. PICK g \in Families \cup {None} : g = rfam[p]
  BY <1>1
<1>3. PICK S \in SUBSET Sessions : S = Known({rsrc[p], rprev[p], rnew[p]})
  BY <1>1 DEF Known
<1>4. /\ kin' = Tied(S) /\ families' = families /\ eby' = eby /\ efam' = efam
      /\ rfam'[p] = None /\ rold'[p] = None
      /\ rnew[p] \in S /\ Known({rsrc[p], rprev[p]}) \subseteq S
  BY <1>1, <1>3 DEF RecordLogin, Done, issVars, endVars, Known
<1>5. \A s \in Sessions : family'[s] = IF s = rnew[p] THEN g ELSE family[s]
  BY <1>1, <1>2 DEF RecordLogin
<1>6. ASSUME NEW f \in Families, NEW s \in Sessions, Bound(f, s)', f # g \/ s # rnew[p]
      PROVE  Bound(f, s)
  <2>1. family'[s] = f => Bound(f, s)
    BY <1>5, <1>6 DEF Bound
  <2> QED
    BY <1>1, <1>4, <1>6, <2>1, StepBinds DEF OthersSame
<1>7. ASSUME NEW s \in Sessions, g \in Families, Bound(g, s)'
      PROVE  \E x \in S : s \in kin[x]
  <2>1. CASE s = rnew[p]
    BY <1>1, <1>4, <2>1 DEF KinInv
  <2>2. CASE s # rnew[p]
    <3>1. Bound(rfam[p], s)
      BY <1>2, <1>6, <1>7, <2>2
    <3> QED
      BY <1>2, <1>4, <1>7, <3>1, BoundToRedeemer
  <2> QED
    BY <2>1, <2>2
<1>8. ASSUME NEW q \in Redeemers, Lonely(q)'
      PROVE  Lonely(q) /\ rfam'[q] = rfam[q] /\ rfam[q] # g
  <2>1. q # p
    BY <1>4, <1>8 DEF Lonely
  <2>2. Lonely(q) /\ rfam'[q] = rfam[q]
    BY <1>8, <2>1, OthersLonely
  <2> QED
    BY <1>2, <2>1, <2>2 DEF LonelyInv, Lonely
<1>9. g <= families
  BY <1>2 DEF BoundInv
<1>10. \A q \in Redeemers : rfam'[q] \in {rfam[q], None}
  BY <1>4 DEF OthersSame
<1> QED
  BY <1>1, <1>4, <1>6, <1>7, <1>8, <1>9, <1>10, FamilyGrows

-----------------------------------------------------------------------------
(* The steps that write no family.                                         *)

LEMMA FamilySame ==
  ASSUME KinInv, BoundInv, LonelyInv,
         UNCHANGED <<kin, families, family, rpc, rsrc, rfam, rprev, rold, eby, efam>>
  PROVE  KinInv' /\ BoundInv' /\ LonelyInv'
<1>1. \A f, s : Bound(f, s)' = Bound(f, s)
  BY DEF Bound, Replaced
<1>2. \A q : Lonely(q)' = Lonely(q)
  BY DEF Lonely, Replaced
<1> QED
  BY <1>1, <1>2 DEF KinInv, BoundInv, LonelyInv

(* A redemption that reads families, or ends.                              *)
LEMMA FamilyRead ==
  ASSUME TypeInv, FamilyInv, NEW p \in Redeemers, OthersSame(p),
         \/ \E c \in Codes : Redeem(p, c)
         \/ ReadFamily(p) /\ families' = families
         \/ GiveFamily(p) \/ CheckPrevious(p) \/ ReadPrevious(p)
         \/ StartSignIn(p) \/ Mint(p) \/ CrashRedeemer(p)
  PROVE  KinInv' /\ BoundInv' /\ LonelyInv'
<1> USE DEF FamilyInv
<1>1. /\ rsrc \in [Redeemers -> Sessions \cup {None}]
      /\ rprev \in [Redeemers -> Sessions \cup {None}]
      /\ rfam \in [Redeemers -> Families \cup {None}]
      /\ rold \in [Redeemers -> Families \cup {None}]
      /\ rpc \in [Redeemers -> RedeemerSteps]
      /\ family \in [Sessions -> Families \cup {None}]
      /\ recorded \subseteq Sessions
      /\ families \in Nat
      /\ None \notin Sessions /\ None \notin Families
  BY BoundsAssumption DEF TypeInv, TypeOK, SessionsTyped, SignInsTyped, Sessions, Families,
     None
<1>2. UNCHANGED <<kin, families, eby, efam>>
  BY DEF Redeem, ReadFamily, GiveFamily, CheckPrevious, ReadPrevious, StartSignIn, Mint,
     CrashRedeemer, Done, ghosts, endVars
<1> DEFINE Keeps ==
             /\ \A f \in Families, s \in Sessions : family'[s] = f => Bound(f, s)
             /\ \A f \in Families, s \in Sessions :
                   \/ rfam'[p] = f /\ rsrc'[p] = s
                   \/ rold'[p] = f /\ rprev'[p] = s
                   \/ rfam'[p] = f /\ rprev'[p] = s /\ Replaced(p)'
                   => Bound(f, s)
             /\ Lonely(p)' => Lonely(p) /\ rfam'[p] = rfam[p]
             /\ \/ rfam'[p] \in {rfam[p], None}
                \/ rfam'[p] \in Families /\ \E s \in Sessions : Bound(rfam'[p], s)
<1>3. ASSUME NEW c \in Codes, Redeem(p, c) PROVE Keeps
  BY <1>1, <1>3 DEF Redeem, redVars, loginVars, Goto, StepsInv, Lonely, Bound, Replaced
<1>4. ASSUME ReadFamily(p) /\ families' = families PROVE Keeps
  BY <1>1, <1>4 DEF ReadFamily, loginVars, Goto, StepsInv, Lonely, Bound, Replaced
<1>5. ASSUME GiveFamily(p) PROVE Keeps
  BY <1>1, <1>5 DEF GiveFamily, Given, Goto, StepsInv, Lonely, Bound, Replaced
<1>6. ASSUME CheckPrevious(p) PROVE Keeps
  BY <1>1, <1>6 DEF CheckPrevious, loginVars, Goto, StepsInv, Lonely, Bound, Replaced
<1>7. ASSUME ReadPrevious(p) PROVE Keeps
  BY <1>1, <1>7 DEF ReadPrevious, loginVars, Goto, StepsInv, Lonely, Bound, Replaced
<1>8. ASSUME StartSignIn(p) \/ Mint(p) PROVE Keeps
  BY <1>1, <1>8 DEF StartSignIn, Mint, loginVars, Goto, StepsInv, Lonely, Bound, Replaced
<1>9. ASSUME CrashRedeemer(p) PROVE Keeps
  BY <1>1, <1>9 DEF CrashRedeemer, Done, loginVars, Lonely, Bound
<1>10. Keeps
  BY <1>3, <1>4, <1>5, <1>6, <1>7, <1>8, <1>9
<1>11. \A f \in Families, s \in Sessions : Bound(f, s)' => Bound(f, s)
  BY <1>2, <1>10, StepBinds DEF OthersSame
<1>12. \A q \in Redeemers : Lonely(q)' => Lonely(q) /\ rfam'[q] = rfam[q]
  BY <1>10, OthersLonely
<1>13. \A q \in Redeemers : \/ rfam'[q] \in {rfam[q], None}
                            \/ rfam'[q] \in Families /\ \E s \in Sessions : Bound(rfam'[q], s)
  BY <1>10 DEF OthersSame
<1> QED
  BY <1>2, <1>11, <1>12, <1>13, FamilyKeeps

LEMMA FamilyEnd ==
  ASSUME TypeInv, FamilyInv, NEW e \in Enders, EndStep(e)
  PROVE  KinInv' /\ BoundInv' /\ LonelyInv'
<1> USE DEF FamilyInv, loginVars, redVars, ghosts
<1>1. /\ family \in [Sessions -> Families \cup {None}] /\ recorded \subseteq Sessions
      /\ None \notin Families
  BY BoundsAssumption DEF TypeInv, TypeOK, SessionsTyped, Sessions, Families, None
<1>2. ASSUME NEW by \in Sessions \cup {None}, NEW fam \in Families \cup {None},
             fam \in Families => family[by] = fam /\ by \in Sessions,
             eby' = [eby EXCEPT ![e] = by], efam' = [efam EXCEPT ![e] = fam],
             UNCHANGED <<loginVars, redVars, kin, families>>
      PROVE  KinInv' /\ BoundInv' /\ LonelyInv'
  <2>1. \A f \in Families, s \in Sessions : Bound(f, s)' => Bound(f, s)
    BY <1>2, EndBinds
  <2>2. \A q \in Redeemers : Lonely(q)' => Lonely(q) /\ rfam'[q] = rfam[q]
    BY <1>2 DEF Lonely, Replaced
  <2> QED
    BY <1>2, <2>1, <2>2, FamilyKeeps
<1>3. ASSUME NEW s \in Sessions, SignOut(e, s) PROVE KinInv' /\ BoundInv' /\ LonelyInv'
  <2>1. CASE EndsAlone(s) /\ StartEnd(e, s, None, {s} \ ended, "end")
    BY <1>1, <1>2, <2>1 DEF StartEnd
  <2>2. CASE ~EndsAlone(s) /\ StartEnd(e, s, family[s], {}, "list")
    <3>1. PICK fam \in Families : fam = family[s]
      BY <1>1, <2>2 DEF EndsAlone
    <3> QED
      BY <1>2, <2>2, <3>1 DEF StartEnd
  <2> QED
    BY <1>3, <2>1, <2>2 DEF SignOut
<1>4. ASSUME NEW s \in Sessions, EndOthers(e, s) PROVE KinInv' /\ BoundInv' /\ LonelyInv'
  BY <1>1, <1>2, <1>4 DEF EndOthers, StartEnd
<1>5. CASE ListFamily(e)
  BY <1>5, FamilySame DEF ListFamily
<1>6. CASE EndOne(e)
  BY <1>6, FamilySame DEF EndOne
<1>7. CASE FinishEnd(e)
  BY <1>1, <1>2, <1>7 DEF FinishEnd
<1> QED
  BY <1>3, <1>4, <1>5, <1>6, <1>7 DEF EndStep

LEMMA FamilyBoundStep ==
  TypeInv /\ FamilyInv /\ [Next]_vars => KinInv' /\ BoundInv' /\ LonelyInv'
<1> SUFFICES ASSUME TypeInv, FamilyInv, [Next]_vars
             PROVE  KinInv' /\ BoundInv' /\ LonelyInv'
  OBVIOUS
<1> USE DEF loginVars, redVars, endVars, ghosts
<1>1. CASE UNCHANGED vars
  BY <1>1, FamilySame DEF vars, FamilyInv
<1>2. ASSUME NEW p \in Redeemers, SignInStep(p) PROVE KinInv' /\ BoundInv' /\ LonelyInv'
  <2>1. OthersSame(p)
    BY <1>2, RedeemersChange
  <2>2. CASE ReadFamily(p) /\ families' # families
    <3>1. /\ rpc[p] = "family" /\ families + 1 \in Families /\ families' = families + 1
          /\ rfam' = [rfam EXCEPT ![p] = families + 1]
          /\ rpc'[p] \in {"give", "previous"}
          /\ UNCHANGED <<kin, family, rsrc, rprev, rold, eby, efam>>
      BY <2>2, BoundsAssumption
      DEF ReadFamily, Goto, TypeInv, TypeOK, SessionsTyped, SignInsTyped, Families
    <3>2. PICK g \in Families : g = families + 1
      BY <3>1
    <3> QED
      BY <2>1, <3>1, <3>2, FamilyFresh
  <2> QED
    BY <1>2, <2>1, <2>2, FamilyRead, FamilyJoin, FamilyRecord DEF SignInStep
<1>3. ASSUME NEW i \in Issuers, IssueStep(i) PROVE KinInv' /\ BoundInv' /\ LonelyInv'
  BY <1>3, FamilySame DEF IssueStep, CreateCode, StartIssue, FamilyInv
<1>4. ASSUME NEW e \in Enders, EndStep(e) PROVE KinInv' /\ BoundInv' /\ LonelyInv'
  BY <1>4, FamilyEnd
<1>5. ASSUME NEW t \in Sessions, Terminate(t) PROVE KinInv' /\ BoundInv' /\ LonelyInv'
  BY <1>5, FamilySame DEF Terminate, FamilyInv
<1> QED
  BY <1>1, <1>2, <1>3, <1>4, <1>5 DEF Next

-----------------------------------------------------------------------------
(* The counters, and the property itself.                                  *)

(* What StepsInv asks of one redeemer and of one ender.                    *)
RedeemerSteady(p) ==
    /\ rpc[p] \in {"idle", "family"} => rfam[p] = None
    /\ rpc[p] \in {"give", "previous", "join", "join_one", "join_all"} => rfam[p] # None
    /\ rpc[p] \in {"idle", "family", "give", "previous", "join"} => rold[p] = None
    /\ rpc[p] \in {"idle", "family", "give", "previous"} => rprev[p] = None
    /\ rpc[p] = "join_all" => rold[p] # None
    /\ rpc[p] = "give" => rsrc[p] # None

EnderSteady(e) == epc[e] = "list" => eby[e] # None /\ efam[e] # None

LEMMA StepsRedeemer ==
  ASSUME TypeInv, NEW p \in Redeemers, SignInStep(p), RedeemerSteady(p)
  PROVE  RedeemerSteady(p)'
<1> USE DEF RedeemerSteady, Goto
<1>1. /\ rsrc \in [Redeemers -> Sessions \cup {None}]
      /\ rprev \in [Redeemers -> Sessions \cup {None}]
      /\ rfam \in [Redeemers -> Families \cup {None}]
      /\ rold \in [Redeemers -> Families \cup {None}]
      /\ rpc \in [Redeemers -> RedeemerSteps]
      /\ recorded \subseteq Sessions /\ families \in Nat
      /\ None \notin Sessions /\ families + 1 # None
  BY BoundsAssumption DEF TypeInv, TypeOK, SessionsTyped, SignInsTyped, Sessions, None
<1>2. ASSUME NEW c \in Codes, Redeem(p, c) PROVE RedeemerSteady(p)'
  BY <1>1, <1>2 DEF Redeem, redVars
<1>3. CASE ReadFamily(p)
  BY <1>1, <1>3 DEF ReadFamily
<1>4. CASE GiveFamily(p) \/ CheckPrevious(p)
  BY <1>1, <1>4 DEF GiveFamily, CheckPrevious
<1>5. CASE ReadPrevious(p)
  BY <1>1, <1>5 DEF ReadPrevious
<1>6. CASE JoinFamily(p) \/ StartSignIn(p) \/ Mint(p)
  BY <1>1, <1>6 DEF JoinFamily, StartSignIn, Mint
<1>7. CASE RecordLogin(p) \/ CrashRedeemer(p)
  BY <1>1, <1>7 DEF RecordLogin, CrashRedeemer, Done
<1> QED
  BY <1>2, <1>3, <1>4, <1>5, <1>6, <1>7 DEF SignInStep

(* A step of the ender e: the others, and the redeemers, are as they were. *)
LEMMA EndersChange ==
  ASSUME TypeInv, NEW e \in Enders, EndStep(e)
  PROVE  /\ UNCHANGED <<redVars, kin>>
         /\ \A d \in Enders \ {e} : /\ epc'[d] = epc[d] /\ eby'[d] = eby[d]
                                    /\ efam'[d] = efam[d] /\ etodo'[d] = etodo[d]
                                    /\ eclean'[d] = eclean[d]
<1> USE DEF TypeInv, TypeOK, EndersTyped, ghosts
<1>1. CASE \E s \in Sessions : SignOut(e, s) \/ EndOthers(e, s)
  BY <1>1 DEF SignOut, EndOthers, StartEnd
<1>2. CASE ListFamily(e) \/ EndOne(e) \/ FinishEnd(e)
  BY <1>2 DEF ListFamily, EndOne, FinishEnd
<1> QED
  BY <1>1, <1>2 DEF EndStep

LEMMA StepsEnder ==
  ASSUME TypeInv, NEW e \in Enders, EndStep(e), EnderSteady(e)
  PROVE  EnderSteady(e)'
<1> USE DEF EnderSteady, TypeInv, TypeOK, EndersTyped
<1>1. None \notin Sessions
  BY DEF Sessions, None
<1>2. ASSUME NEW s \in Sessions, SignOut(e, s) \/ EndOthers(e, s) PROVE EnderSteady(e)'
  BY <1>1, <1>2 DEF SignOut, EndsAlone, EndOthers, StartEnd
<1>3. CASE ListFamily(e) \/ EndOne(e) \/ FinishEnd(e)
  BY <1>3 DEF ListFamily, EndOne, FinishEnd
<1> QED
  BY <1>2, <1>3 DEF EndStep

LEMMA StepsStep == TypeInv /\ StepsInv /\ [Next]_vars => StepsInv'
<1> SUFFICES ASSUME TypeInv, StepsInv, [Next]_vars PROVE StepsInv'
  OBVIOUS
<1>1. /\ \A p \in Redeemers : RedeemerSteady(p)
      /\ \A e \in Enders : EnderSteady(e)
  BY DEF StepsInv, RedeemerSteady, EnderSteady
<1>2. ASSUME \A p \in Redeemers : RedeemerSteady(p)', \A e \in Enders : EnderSteady(e)'
      PROVE  StepsInv'
  BY <1>2 DEF StepsInv, RedeemerSteady, EnderSteady
<1>3. ASSUME NEW p \in Redeemers, SignInStep(p) PROVE StepsInv'
  <2>1. OthersSame(p)
    BY <1>3, RedeemersChange
  <2>2. UNCHANGED <<epc, eby, efam>>
    BY <1>3 DEF SignInStep, Redeem, ReadFamily, GiveFamily, CheckPrevious, ReadPrevious,
       JoinFamily, StartSignIn, Mint, RecordLogin, CrashRedeemer, endVars
  <2>3. RedeemerSteady(p)'
    BY <1>1, <1>3, StepsRedeemer
  <2>4. \A q \in Redeemers \ {p} : RedeemerSteady(q)'
    BY <1>1, <2>1 DEF OthersSame, RedeemerSteady
  <2>5. \A e \in Enders : EnderSteady(e)'
    BY <1>1, <2>2 DEF EnderSteady
  <2> QED
    BY <1>2, <2>3, <2>4, <2>5
<1>4. ASSUME NEW e \in Enders, EndStep(e) PROVE StepsInv'
  <2>1. EnderSteady(e)'
    BY <1>1, <1>4, StepsEnder
  <2>2. \A d \in Enders \ {e} : EnderSteady(d)'
    BY <1>1, <1>4, EndersChange DEF EnderSteady
  <2>3. \A p \in Redeemers : RedeemerSteady(p)'
    BY <1>1, <1>4, EndersChange DEF RedeemerSteady, redVars
  <2> QED
    BY <1>2, <2>1, <2>2, <2>3
<1>5. CASE UNCHANGED <<redVars, endVars>>
  BY <1>1, <1>2, <1>5 DEF RedeemerSteady, EnderSteady, redVars, endVars
<1>6. ASSUME UNCHANGED vars \/ (\E i \in Issuers : IssueStep(i))
                            \/ \E t \in Sessions : Terminate(t)
      PROVE  UNCHANGED <<redVars, endVars>>
  BY <1>6 DEF vars, IssueStep, CreateCode, StartIssue, Terminate, ghosts
<1> QED
  BY <1>3, <1>4, <1>5, <1>6 DEF Next

LEMMA TouchStep == TypeInv /\ FamilyInv /\ [Next]_vars => SignOutTouchesKinOnly'
<1> SUFFICES ASSUME TypeInv, FamilyInv, [Next]_vars PROVE SignOutTouchesKinOnly'
  OBVIOUS
<1>1. /\ kin \in [Sessions -> SUBSET Sessions] /\ recorded \subseteq Sessions
      /\ eby \in [Enders -> Sessions \cup {None}]
      /\ efam \in [Enders -> Families \cup {None}]
      /\ etodo \in [Enders -> SUBSET Sessions]
      /\ None \notin Sessions
  BY BoundsAssumption
  DEF TypeInv, TypeOK, GhostsTyped, EndersTyped, SessionsTyped, Sessions, None
<1>2. /\ KinInv /\ BoundInv /\ StepsInv
      /\ \A e \in Enders : eby[e] # None => etodo[e] \subseteq kin[eby[e]]
  BY DEF FamilyInv, SignOutTouchesKinOnly
<1>3. ASSUME UNCHANGED <<eby, etodo>>, \A s \in Sessions : kin[s] \subseteq kin'[s]
      PROVE  SignOutTouchesKinOnly'
  BY <1>1, <1>2, <1>3 DEF SignOutTouchesKinOnly
<1>4. ASSUME NEW p \in Redeemers, SignInStep(p) PROVE SignOutTouchesKinOnly'
  <2>1. UNCHANGED <<eby, etodo>>
    BY <1>4 DEF SignInStep, Redeem, ReadFamily, GiveFamily, CheckPrevious, ReadPrevious,
       JoinFamily, StartSignIn, Mint, RecordLogin, CrashRedeemer, endVars
  <2>2. kin' = kin \/ \E S \in SUBSET Sessions : kin' = Tied(S)
    <3>1. /\ Known({rsrc[p], rprev[p]}) \in SUBSET Sessions
          /\ RecordLogin(p) => Known({rsrc[p], rprev[p], rnew[p]}) \in SUBSET Sessions
      BY DEF Known, RecordLogin, TypeInv, TypeOK, SignInsTyped
    <3> QED
      BY <1>4, <3>1 DEF SignInStep, Redeem, ReadFamily, GiveFamily, CheckPrevious,
         ReadPrevious, JoinFamily, StartSignIn, Mint, RecordLogin, CrashRedeemer, ghosts
  <2>3. \A s \in Sessions : kin[s] \subseteq kin'[s]
    BY <1>1, <1>2, <2>2, TiedKeeps
  <2> QED
    BY <1>3, <2>1, <2>3
<1>5. ASSUME NEW e \in Enders, EndStep(e) PROVE SignOutTouchesKinOnly'
  <2>1. /\ kin' = kin
        /\ \A d \in Enders \ {e} : eby'[d] = eby[d] /\ etodo'[d] = etodo[d]
    BY <1>5, EndersChange
  <2> DEFINE Home == eby'[e] # None => etodo'[e] \subseteq kin[eby'[e]]
  <2>2. Home => SignOutTouchesKinOnly'
    BY <1>2, <2>1 DEF SignOutTouchesKinOnly
  <2>3. ASSUME NEW s \in Sessions, SignOut(e, s) \/ EndOthers(e, s) PROVE Home
    BY <1>1, <1>2, <2>3 DEF SignOut, EndOthers, StartEnd, KinInv
  <2>4. ASSUME ListFamily(e) PROVE Home
    <3>1. PICK f \in Families : f = efam[e]
      BY <1>1, <1>2, <2>4 DEF ListFamily, StepsInv
    <3>2. PICK s \in Sessions : s = eby[e]
      BY <1>1, <1>2, <2>4 DEF ListFamily, StepsInv
    <3>3. Bound(f, s)
      BY <3>1, <3>2 DEF Bound
    <3>4. ASSUME NEW t \in etodo'[e] PROVE t \in kin[s]
      <4>1. t \in Sessions /\ family[t] = f
        BY <1>1, <2>4, <3>1, <3>4 DEF ListFamily
      <4>2. Bound(f, t)
        BY <4>1 DEF Bound
      <4> QED
        BY <1>2, <3>3, <4>1, <4>2 DEF BoundInv
    <3> QED
      BY <2>4, <3>2, <3>4 DEF ListFamily
  <2>5. ASSUME EndOne(e) \/ FinishEnd(e) PROVE Home
    BY <1>1, <1>2, <2>5 DEF EndOne, FinishEnd
  <2> QED
    BY <1>5, <2>2, <2>3, <2>4, <2>5 DEF EndStep
<1>6. CASE UNCHANGED <<eby, etodo, kin>>
  BY <1>3, <1>6
<1>7. ASSUME UNCHANGED vars \/ (\E i \in Issuers : IssueStep(i))
                            \/ \E t \in Sessions : Terminate(t)
      PROVE  UNCHANGED <<eby, etodo, kin>>
  BY <1>7 DEF vars, IssueStep, CreateCode, StartIssue, Terminate, endVars, ghosts
<1> QED
  BY <1>4, <1>5, <1>6, <1>7 DEF Next

LEMMA FamilyInit == Init => FamilyInv
<1> SUFFICES ASSUME Init PROVE FamilyInv
  OBVIOUS
<1>1. None \notin Families
  BY DEF Families, None
<1>2. KinInv
  BY DEF Init, KinInv
<1>3. \A f \in Families, s \in Sessions : ~Bound(f, s)
  BY <1>1 DEF Init, Bound
<1>4. BoundInv
  BY <1>3 DEF Init, BoundInv, None
<1>5. LonelyInv
  BY DEF Init, LonelyInv, Lonely
<1>6. StepsInv /\ SignOutTouchesKinOnly
  BY DEF Init, StepsInv, SignOutTouchesKinOnly
<1> QED
  BY <1>2, <1>4, <1>5, <1>6 DEF FamilyInv

(* A sign-out ends sessions tied to the one that signs out by a chain of   *)
(* redemptions, and never one of another device, whatever redemptions      *)
(* merge families under it and wherever one of them dies.                  *)
THEOREM SignOutStaysHome == Spec => []SignOutTouchesKinOnly
<1>1. TypeInv /\ FamilyInv /\ [Next]_vars => TypeInv' /\ FamilyInv'
  BY TypeStep, FamilyBoundStep, StepsStep, TouchStep DEF FamilyInv
<1>2. Init => TypeInv /\ FamilyInv
  BY TypeInit, FamilyInit
<1>3. FamilyInv => SignOutTouchesKinOnly
  BY DEF FamilyInv
<1> QED
  BY <1>1, <1>2, <1>3, PTL DEF Spec

-----------------------------------------------------------------------------
(* Where the sessions that a request carries come from.                    *)

Origin(p) ==
    /\ rsrc[p] \in recorded \cup {None} /\ rprev[p] \in recorded \cup {None}
    /\ rpc[p] = "record" => rnew[p] \in (1 .. minted) \ recorded
    /\ rpc[p] = "idle" => rcode[p] = None
    /\ rcode[p] = None =>
          /\ rsrc[p] = None /\ rprev[p] = None /\ rfam[p] = None
          /\ rpc[p] \in {"idle", "mint", "record"}

OriginsInv ==
    /\ \A s \in Sessions \ recorded : kin[s] = {s}
    /\ \A c \in Codes : source[c] \in recorded \cup {None}
    /\ \A i \in Issuers : isrc[i] \in recorded \cup {None}
    /\ \A p \in Redeemers : Origin(p)
    /\ \A p, q \in Redeemers :
          p # q /\ rpc[p] = "record" /\ rpc[q] = "record" => rnew[p] # rnew[q]

(* The sessions tied to one another are in one family.                     *)
Together ==
    \A s, t \in Sessions : s # t /\ t \in kin[s] => family[s] # None /\ family[s] = family[t]

Quiet == \A p \in Redeemers : ~Redeeming(p)

Alone == \A p, q \in Redeemers : Redeeming(p) /\ Redeeming(q) => p = q

(* The families of a redemption that no other overlaps: its source is in   *)
(* the family it has read, and so is the session it has replaced.          *)
Placed(p) ==
    /\ rpc[p] = "give" => family[rsrc[p]] = None
    /\ rpc[p] \notin {"family", "give"} =>
          rfam[p] # None /\ (rsrc[p] # None => family[rsrc[p]] = rfam[p])
    /\ rpc[p] \in {"join_one", "join_all"} => family[rprev[p]] = rold[p]
    /\ rpc[p] = "join_one" => rold[p] = None
    /\ rpc[p] \in {"mint", "record"} /\ rprev[p] # None => family[rprev[p]] = rfam[p]

(* It ties no session to one that has been signed out.                     *)
Apart(p) == \A x \in Known({rsrc[p], rprev[p]}), s \in signedOut : x \notin kin[s]

(* A sign-out that no redemption has overlapped is about to reach all the  *)
(* sessions of its browser.                                                *)
Reached(e) ==
    /\ Quiet /\ eby[e] \in recorded
    /\ epc[e] = "list" => family[eby[e]] = efam[e]
    /\ epc[e] = "end" => kin[eby[e]] \subseteq ended \cup etodo[e]

SignedInv == signedOut \subseteq recorded /\ \A s \in signedOut : kin[s] \subseteq ended

OrderlyInv ==
    ~overlapped =>
        /\ Alone /\ Together /\ SignedInv
        /\ \A p \in Redeemers : Redeeming(p) => Placed(p) /\ Apart(p)
        /\ \A e \in Enders : eclean[e] /\ eby[e] # None => Reached(e)

-----------------------------------------------------------------------------
(* What tying the sessions of S leaves alone, and what it adds.            *)

LEMMA TiedElsewhere ==
  ASSUME kin \in [Sessions -> SUBSET Sessions], KinInv, NEW S \in SUBSET Sessions,
         NEW s \in Sessions, \A x \in S : x \notin kin[s]
  PROVE  Tied(S)[s] = kin[s]
  BY DEF Tied, KinInv

LEMMA TiedHere ==
  ASSUME kin \in [Sessions -> SUBSET Sessions], KinInv, NEW S \in SUBSET Sessions,
         NEW s \in Sessions, NEW t \in Tied(S)[s], t \notin kin[s]
  PROVE  \E x, y \in S : s \in kin[x] /\ t \in kin[y]
  BY DEF Tied

(* A session whose kin is itself is tied to nothing by being recorded.     *)
LEMMA TiedAlone ==
  ASSUME kin \in [Sessions -> SUBSET Sessions], NEW n \in Sessions, kin[n] = {n}
  PROVE  Tied({n}) = kin
  BY DEF Tied

(* The rest of what a step of a redeemer leaves to the others.             *)
LEMMA OthersCarry ==
  ASSUME TypeInv, NEW p \in Redeemers, SignInStep(p), NEW q \in Redeemers \ {p}
  PROVE  rcode'[q] = rcode[q] /\ rnew'[q] = rnew[q]
<1> USE DEF TypeInv, TypeOK, SignInsTyped
<1>1. CASE \E c \in Codes : Redeem(p, c)
  BY <1>1 DEF Redeem, redVars
<1>2. CASE ReadFamily(p) \/ GiveFamily(p) \/ CheckPrevious(p)
  BY <1>2 DEF ReadFamily, GiveFamily, CheckPrevious
<1>3. CASE ReadPrevious(p) \/ JoinFamily(p) \/ StartSignIn(p) \/ Mint(p)
  BY <1>3 DEF ReadPrevious, JoinFamily, StartSignIn, Mint
<1>4. CASE RecordLogin(p) \/ CrashRedeemer(p)
  BY <1>4 DEF RecordLogin, CrashRedeemer, Done
<1> QED
  BY <1>1, <1>2, <1>3, <1>4 DEF SignInStep

LEMMA SessionTypes ==
  ASSUME TypeInv
  PROVE  /\ rsrc \in [Redeemers -> Sessions \cup {None}]
         /\ rprev \in [Redeemers -> Sessions \cup {None}]
         /\ rnew \in [Redeemers -> Sessions \cup {None}]
         /\ rfam \in [Redeemers -> Families \cup {None}]
         /\ rold \in [Redeemers -> Families \cup {None}]
         /\ rcode \in [Redeemers -> Codes \cup {None}]
         /\ rpc \in [Redeemers -> RedeemerSteps]
         /\ family \in [Sessions -> Families \cup {None}]
         /\ kin \in [Sessions -> SUBSET Sessions]
         /\ eby \in [Enders -> Sessions \cup {None}]
         /\ efam \in [Enders -> Families \cup {None}]
         /\ etodo \in [Enders -> SUBSET Sessions]
         /\ epc \in [Enders -> {"idle", "list", "end"}]
         /\ eclean \in [Enders -> BOOLEAN]
         /\ minted \in Nat /\ families \in Nat
         /\ recorded \subseteq 1 .. minted /\ recorded \subseteq Sessions
         /\ signedOut \subseteq Sessions
         /\ None \notin Sessions /\ None \notin Families /\ None \notin Codes
  BY BoundsAssumption
  DEF TypeInv, TypeOK, SessionsTyped, SignInsTyped, GhostsTyped, EndersTyped, Sessions,
      Families, None

-----------------------------------------------------------------------------
(* The origins.                                                            *)

LEMMA OriginStep ==
  ASSUME TypeInv, StepsInv, OriginsInv, NEW p \in Redeemers, SignInStep(p)
  PROVE  /\ Origin(p)'
         /\ recorded \subseteq recorded'
         /\ recorded' \subseteq recorded \cup {rnew[p]}
         /\ recorded' # recorded => rpc[p] = "record"
         /\ minted' \in Nat /\ minted' >= minted
         /\ rpc'[p] = "record" /\ rpc[p] # "record" => rnew'[p] = minted + 1
         /\ rpc'[p] = "record" /\ rpc[p] = "record" => rnew'[p] = rnew[p]
<1> USE SessionTypes DEF Origin, Goto
<1>0. /\ Origin(p) /\ \A c \in Codes : source[c] \in recorded \cup {None}
      /\ rpc[p] \in {"idle", "family"} => rfam[p] = None
      /\ rpc[p] \in {"idle", "family", "give", "previous"} => rprev[p] = None
  BY DEF OriginsInv, StepsInv
<1> DEFINE Goal == /\ Origin(p)'
                   /\ recorded \subseteq recorded'
                   /\ recorded' \subseteq recorded \cup {rnew[p]}
                   /\ recorded' # recorded => rpc[p] = "record"
                   /\ minted' \in Nat /\ minted' >= minted
                   /\ rpc'[p] = "record" /\ rpc[p] # "record" => rnew'[p] = minted + 1
                   /\ rpc'[p] = "record" /\ rpc[p] = "record" => rnew'[p] = rnew[p]
<1>1. ASSUME NEW c \in Codes, Redeem(p, c) PROVE Goal
  BY <1>0, <1>1 DEF Redeem, redVars, loginVars
<1>2. ASSUME ReadFamily(p) PROVE Goal
  BY <1>0, <1>2 DEF ReadFamily, loginVars
<1>3. ASSUME GiveFamily(p) \/ CheckPrevious(p) PROVE Goal
  BY <1>0, <1>3 DEF GiveFamily, CheckPrevious, loginVars
<1>4. ASSUME ReadPrevious(p) \/ JoinFamily(p) PROVE Goal
  BY <1>0, <1>4 DEF ReadPrevious, JoinFamily, loginVars
<1>5. ASSUME StartSignIn(p) PROVE Goal
  BY <1>0, <1>5 DEF StartSignIn, loginVars
<1>6. ASSUME Mint(p) PROVE Goal
  BY <1>0, <1>6 DEF Mint
<1>7. ASSUME RecordLogin(p) PROVE Goal
  BY <1>0, <1>7 DEF RecordLogin, Done
<1>8. ASSUME CrashRedeemer(p) PROVE Goal
  BY <1>0, <1>8 DEF CrashRedeemer, Done, loginVars
<1> HIDE DEF Goal
<1>9. Goal
  BY <1>1, <1>2, <1>3, <1>4, <1>5, <1>6, <1>7, <1>8 DEF SignInStep
<1> QED
  BY <1>9 DEF Goal

(* What a step ties are sessions recorded by the end of it.                *)
LEMMA KinRecorded ==
  ASSUME TypeInv, KinInv, OriginsInv, NEW p \in Redeemers, SignInStep(p),
         Origin(p)', recorded \subseteq recorded'
  PROVE  \A s \in Sessions \ recorded' : kin'[s] = {s}
<1> USE SessionTypes
<1>0. /\ \A s \in Sessions \ recorded : kin[s] = {s}
      /\ rsrc[p] \in recorded \cup {None} /\ rprev[p] \in recorded \cup {None}
  BY DEF OriginsInv, Origin
<1>1. CASE kin' = kin
  BY <1>0, <1>1
<1>2. ASSUME NEW S \in SUBSET recorded', S \subseteq Sessions, kin' = Tied(S)
      PROVE  \A s \in Sessions \ recorded' : kin'[s] = {s}
  <2> SUFFICES ASSUME NEW s \in Sessions \ recorded' PROVE kin'[s] = {s}
    OBVIOUS
  <2>1. kin[s] = {s}
    BY <1>0
  <2>2. \A x \in S : x \notin kin[s]
    BY <1>2, <2>1
  <2>3. Tied(S)[s] = kin[s]
    BY <1>2, <2>2, TiedElsewhere
  <2> QED
    BY <1>2, <2>1, <2>3
<1>3. CASE JoinFamily(p)
  <2>1. /\ Known({rsrc[p], rprev[p]}) \subseteq recorded'
        /\ kin' = Tied(Known({rsrc[p], rprev[p]}))
        /\ Known({rsrc[p], rprev[p]}) \subseteq Sessions
    BY <1>0, <1>3 DEF JoinFamily, Known
  <2> QED
    BY <1>2, <2>1
<1>4. CASE RecordLogin(p)
  <2>1. /\ Known({rsrc[p], rprev[p], rnew[p]}) \subseteq recorded'
        /\ kin' = Tied(Known({rsrc[p], rprev[p], rnew[p]}))
        /\ Known({rsrc[p], rprev[p], rnew[p]}) \subseteq Sessions
    BY <1>0, <1>4 DEF RecordLogin, Known
  <2> QED
    BY <1>2, <2>1
<1>5. CASE ~JoinFamily(p) /\ ~RecordLogin(p)
  <2>1. kin' = kin
    BY <1>5 DEF SignInStep, Redeem, ReadFamily, GiveFamily, CheckPrevious, ReadPrevious,
       StartSignIn, Mint, CrashRedeemer, ghosts
  <2> QED
    BY <1>1, <2>1
<1> QED
  BY <1>3, <1>4, <1>5

LEMMA OriginsStep ==
  TypeInv /\ FamilyInv /\ OriginsInv /\ [Next]_vars => OriginsInv'
<1> SUFFICES ASSUME TypeInv, FamilyInv, OriginsInv, [Next]_vars PROVE OriginsInv'
  OBVIOUS
<1>0. StepsInv /\ KinInv
  BY DEF FamilyInv
<1>1. ASSUME NEW p \in Redeemers, SignInStep(p) PROVE OriginsInv'
  <2>1. /\ Origin(p)'
        /\ recorded \subseteq recorded'
        /\ recorded' \subseteq recorded \cup {rnew[p]}
        /\ recorded' # recorded => rpc[p] = "record"
        /\ minted' \in Nat /\ minted' >= minted
        /\ rpc'[p] = "record" /\ rpc[p] # "record" => rnew'[p] = minted + 1
        /\ rpc'[p] = "record" /\ rpc[p] = "record" => rnew'[p] = rnew[p]
    BY <1>0, <1>1, OriginStep
  <2>2. \A s \in Sessions \ recorded' : kin'[s] = {s}
    BY <1>0, <1>1, <2>1, KinRecorded
  <2>3. /\ \A c \in Codes : source'[c] \in recorded' \cup {None}
        /\ \A i \in Issuers : isrc'[i] \in recorded' \cup {None}
    <3>1. /\ \A c \in Codes : source'[c] \in {source[c], None}
          /\ isrc' = isrc
      BY <1>1 DEF SignInStep, Redeem, ReadFamily, GiveFamily, CheckPrevious, ReadPrevious,
         JoinFamily, StartSignIn, Mint, RecordLogin, CrashRedeemer, issVars, codeVars,
         TypeInv, TypeOK, CodesTyped
    <3> QED
      BY <2>1, <3>1 DEF OriginsInv
  <2>4. ASSUME NEW q \in Redeemers \ {p} PROVE Origin(q)'
    <3>1. /\ rcode'[q] = rcode[q] /\ rnew'[q] = rnew[q] /\ OthersSame(p)
      BY <1>1, OthersCarry, RedeemersChange
    <3>2. /\ Origin(q)
          /\ rpc[p] = "record" /\ rpc[q] = "record" => rnew[p] # rnew[q]
      BY DEF OriginsInv
    <3>3. rpc[q] = "record" => rnew[q] \notin recorded'
      BY <2>1, <3>2 DEF Origin
    <3> QED
      BY <2>1, <3>1, <3>2, <3>3, SessionTypes DEF OthersSame, Origin
  <2>5. ASSUME NEW q \in Redeemers \ {p}, rpc'[p] = "record", rpc'[q] = "record"
        PROVE  rnew'[p] # rnew'[q]
    <3>1. rnew'[q] = rnew[q] /\ rpc[q] = "record"
      BY <1>1, <2>5, OthersCarry, RedeemersChange DEF OthersSame
    <3>2. rnew[q] \in 1 .. minted /\ (rpc[p] = "record" => rnew[p] # rnew[q])
      BY <3>1 DEF OriginsInv, Origin
    <3> QED
      BY <2>1, <2>5, <3>1, <3>2, SessionTypes
  <2>6. \A q, r \in Redeemers :
           q # r /\ rpc'[q] = "record" /\ rpc'[r] = "record" => rnew'[q] # rnew'[r]
    <3> SUFFICES ASSUME NEW q \in Redeemers, NEW r \in Redeemers, q # r,
                        rpc'[q] = "record", rpc'[r] = "record"
                 PROVE  rnew'[q] # rnew'[r]
      OBVIOUS
    <3>1. CASE q = p \/ r = p
      BY <2>5, <3>1
    <3>2. CASE q # p /\ r # p
      <4>1. /\ rnew'[q] = rnew[q] /\ rnew'[r] = rnew[r]
            /\ rpc'[q] = rpc[q] /\ rpc'[r] = rpc[r]
        BY <1>1, <3>2, OthersCarry, RedeemersChange DEF OthersSame
      <4> QED
        BY <4>1 DEF OriginsInv
    <3> QED
      BY <3>1, <3>2
  <2> QED
    BY <2>1, <2>2, <2>3, <2>4, <2>6 DEF OriginsInv
<1>2. ASSUME NEW i \in Issuers, IssueStep(i) PROVE OriginsInv'
  <2>1. /\ UNCHANGED <<kin, recorded, minted, redVars>>
    BY <1>2 DEF IssueStep, CreateCode, StartIssue, loginVars, ghosts
  <2>2. /\ \A c \in Codes : source'[c] \in recorded \cup {None}
        /\ \A j \in Issuers : isrc'[j] \in recorded \cup {None}
    BY <1>2 DEF IssueStep, CreateCode, StartIssue, OriginsInv, codeVars, TypeInv, TypeOK,
       CodesTyped, IssuersTyped
  <2> QED
    BY <2>1, <2>2 DEF OriginsInv, Origin, redVars
<1>3. CASE UNCHANGED <<kin, recorded, minted, redVars, source, isrc>>
  BY <1>3 DEF OriginsInv, Origin, redVars
<1>4. ASSUME UNCHANGED vars \/ (\E e \in Enders : EndStep(e)) \/ \E t \in Sessions : Terminate(t)
      PROVE  UNCHANGED <<kin, recorded, minted, redVars, source, isrc>>
  BY <1>4 DEF vars, EndStep, SignOut, EndOthers, StartEnd, ListFamily, EndOne, FinishEnd,
     Terminate, loginVars, codeVars, issVars, ghosts
<1> QED
  BY <1>1, <1>2, <1>3, <1>4 DEF Next

-----------------------------------------------------------------------------
(* Redemptions that follow one another.                                    *)

(* The kin of a recorded session are recorded.                             *)
LEMMA KinOfRecorded ==
  ASSUME TypeInv, KinInv, OriginsInv, NEW s \in recorded
  PROVE  kin[s] \subseteq recorded
<1> SUFFICES ASSUME NEW t \in kin[s], t \notin recorded PROVE FALSE
  OBVIOUS
<1>1. s \in Sessions /\ t \in Sessions
  BY SessionTypes
<1>2. kin[t] = {t} /\ kin[t] = kin[s] /\ s \in kin[s]
  BY <1>1 DEF OriginsInv, KinInv
<1> QED
  BY <1>2

(* A redemption starts: no other is in progress.                           *)
LEMMA OrderlyStart ==
  ASSUME TypeInv, FamilyInv, OriginsInv, OrderlyInv, NEW p \in Redeemers, NEW c \in Codes,
         Redeem(p, c), OthersSame(p), rpc'[p] # "idle"
  PROVE  OrderlyInv'
<1> SUFFICES ASSUME ~overlapped' PROVE OrderlyInv'
  BY DEF OrderlyInv
<1> USE SessionTypes
<1>1. /\ rpc[p] = "idle" /\ rprev[p] = None
      /\ source[c] \notin ended /\ source[c] \in recorded \cup {None}
      /\ rpc'[p] = "family" /\ rsrc'[p] = source[c] /\ rprev' = rprev
      /\ \A q \in Redeemers : ~Redeeming(q)
      /\ ~overlapped
      /\ \A e \in Enders : eclean'[e] = FALSE
      /\ UNCHANGED <<family, kin, recorded, ended, signedOut>>
  <2>1. /\ rpc[p] = "idle" /\ rprev[p] = None /\ source[c] \in recorded \cup {None}
        /\ UNCHANGED <<family, kin, recorded, ended, signedOut>>
    BY DEF Redeem, FamilyInv, StepsInv, OriginsInv, loginVars
  <2>2. /\ source[c] \notin ended
        /\ rpc' = [rpc EXCEPT ![p] = "family"]
        /\ rsrc' = [rsrc EXCEPT ![p] = source[c]] /\ rprev' = rprev
        /\ eclean' = [e \in Enders |-> FALSE]
        /\ overlapped' = (overlapped \/ \E q \in Redeemers : Redeeming(q))
    BY <2>1 DEF Redeem, SourceLives, Goto, redVars
  <2>3. ~overlapped /\ \A q \in Redeemers : ~Redeeming(q)
    BY <2>2
  <2> QED
    BY <2>1, <2>2, <2>3
<1>2. \A q \in Redeemers \ {p} : ~Redeeming(q)'
  <2> SUFFICES ASSUME NEW q \in Redeemers \ {p} PROVE ~Redeeming(q)'
    OBVIOUS
  <2>1. rcode'[q] = rcode[q] /\ rpc'[q] = rpc[q]
    BY OthersCarry DEF SignInStep, OthersSame
  <2> QED
    BY <1>1, <2>1 DEF Redeeming
<1>3. Together /\ SignedInv
  BY <1>1 DEF OrderlyInv
<1>4. Placed(p)'
  BY <1>1 DEF Placed
<1>5. Apart(p)'
  BY <1>1, <1>3 DEF Apart, SignedInv, Known
<1>6. Alone' /\ Together' /\ SignedInv'
  BY <1>1, <1>2, <1>3 DEF Alone, Together, SignedInv
<1> QED
  BY <1>1, <1>2, <1>4, <1>5, <1>6 DEF OrderlyInv

(* A step of a sign-in that redeems no code, or of a refused redemption.   *)
LEMMA OrderlyPlain ==
  ASSUME TypeInv, FamilyInv, OriginsInv, OrderlyInv, NEW p \in Redeemers, SignInStep(p),
         OthersSame(p), ~Redeeming(p), ~Redeeming(p)'
  PROVE  OrderlyInv'
<1> SUFFICES ASSUME ~overlapped' PROVE OrderlyInv'
  BY DEF OrderlyInv
<1> USE SessionTypes
<1>1. /\ Origin(p) /\ rcode[p] = None
      /\ rpc[p] \in {"idle", "mint", "record"}
  BY DEF OriginsInv, Origin, Redeeming
<1>2. \A q \in Redeemers : Redeeming(q)' = Redeeming(q)
  BY OthersCarry DEF OthersSame, Redeeming
<1>3. /\ overlapped' = overlapped
      /\ UNCHANGED <<ended, signedOut, epc, eby, efam, etodo, eclean>>
  <2>1. ASSUME NEW c \in Codes, Redeem(p, c)
        PROVE  overlapped' = overlapped /\ UNCHANGED <<ended, signedOut, epc, eby, efam, etodo, eclean>>
    BY <2>1 DEF Redeem, Redeeming, Goto, loginVars
  <2> QED
    BY <1>1, <2>1 DEF SignInStep, ReadFamily, GiveFamily, CheckPrevious, ReadPrevious,
       JoinFamily, StartSignIn, Mint, RecordLogin, CrashRedeemer, loginVars, endVars, ghosts
<1>4. kin' = kin
  <2>1. CASE RecordLogin(p)
    <3>1. rnew[p] \in Sessions /\ rnew[p] \notin recorded
      BY <1>1, <2>1 DEF RecordLogin, Origin, None
    <3>2. Known({rsrc[p], rprev[p], rnew[p]}) = {rnew[p]}
      BY <1>1, <3>1 DEF Origin, Known
    <3>3. kin[rnew[p]] = {rnew[p]}
      BY <3>1 DEF OriginsInv
    <3>4. Tied({rnew[p]}) = kin
      BY <3>1, <3>3, TiedAlone
    <3> QED
      BY <2>1, <3>2, <3>4 DEF RecordLogin
  <2>2. CASE ~RecordLogin(p)
    BY <1>1, <2>2 DEF SignInStep, Redeem, ReadFamily, GiveFamily, CheckPrevious,
       ReadPrevious, JoinFamily, StartSignIn, Mint, CrashRedeemer, ghosts
  <2> QED
    BY <2>1, <2>2
<1>5. recorded \subseteq recorded' /\ \A s \in recorded : family'[s] = family[s]
  BY <1>1 DEF SignInStep, Redeem, ReadFamily, GiveFamily, CheckPrevious, ReadPrevious,
     JoinFamily, StartSignIn, Mint, RecordLogin, CrashRedeemer, loginVars, Origin
<1>6. /\ Alone /\ Together /\ SignedInv
      /\ \A q \in Redeemers : Redeeming(q) => Placed(q) /\ Apart(q)
      /\ \A e \in Enders : eclean[e] /\ eby[e] # None => Reached(e)
  BY <1>3 DEF OrderlyInv
<1>7. Alone' /\ SignedInv'
  BY <1>2, <1>3, <1>4, <1>5, <1>6 DEF Alone, SignedInv
<1>8. Together'
  <2> SUFFICES ASSUME NEW s \in Sessions, NEW t \in Sessions, s # t, t \in kin[s]
               PROVE  family'[s] # None /\ family'[s] = family'[t]
    BY <1>4 DEF Together
  <2>1. kin[t] = kin[s] /\ s \in kin[s]
    BY DEF FamilyInv, KinInv
  <2>2. s \in recorded /\ t \in recorded
    BY <2>1 DEF OriginsInv
  <2> QED
    BY <1>5, <1>6, <2>2 DEF Together
<1>9. ASSUME NEW q \in Redeemers, Redeeming(q)' PROVE Placed(q)' /\ Apart(q)'
  <2>1. Redeeming(q) /\ q # p
    BY <1>2, <1>9
  <2>2. /\ rpc'[q] = rpc[q] /\ rsrc'[q] = rsrc[q] /\ rfam'[q] = rfam[q]
        /\ rprev'[q] = rprev[q] /\ rold'[q] = rold[q]
    BY <2>1 DEF OthersSame
  <2>3. /\ rsrc[q] # None => family'[rsrc[q]] = family[rsrc[q]]
        /\ rprev[q] # None => family'[rprev[q]] = family[rprev[q]]
    BY <1>5 DEF OriginsInv, Origin
  <2>4. /\ rpc[q] = "give" => rsrc[q] # None
        /\ rpc[q] \in {"join_one", "join_all"} => rprev[q] # None
    BY DEF FamilyInv, StepsInv, TypeInv, Steady
  <2>5. Placed(q)'
    BY <1>6, <2>1, <2>2, <2>3, <2>4 DEF Placed
  <2> QED
    BY <1>3, <1>4, <1>6, <2>1, <2>2, <2>5 DEF Apart
<1>10. ASSUME NEW e \in Enders, eclean'[e], eby'[e] # None PROVE Reached(e)'
  BY <1>2, <1>3, <1>4, <1>5, <1>6, <1>10 DEF Reached, Quiet
<1> QED
  BY <1>7, <1>8, <1>9, <1>10 DEF OrderlyInv

(* What the only redemption in progress has to keep.                       *)
LEMMA OrderlyOnly ==
  ASSUME TypeInv, OrderlyInv, NEW p \in Redeemers, SignInStep(p),
         OthersSame(p), Redeeming(p), ~overlapped,
         Together', SignedInv', Redeeming(p)' => Placed(p)' /\ Apart(p)'
  PROVE  OrderlyInv'
<1>1. /\ Alone
      /\ \A e \in Enders : eclean[e] /\ eby[e] # None => Reached(e)
  BY DEF OrderlyInv
<1>2. \A q \in Redeemers \ {p} : ~Redeeming(q)'
  <2> SUFFICES ASSUME NEW q \in Redeemers \ {p} PROVE ~Redeeming(q)'
    OBVIOUS
  <2>1. rcode'[q] = rcode[q] /\ rpc'[q] = rpc[q]
    BY OthersCarry DEF OthersSame
  <2> QED
    BY <1>1, <2>1 DEF Redeeming, Alone
<1>3. \A e \in Enders : ~(eclean[e] /\ eby[e] # None)
  BY <1>1 DEF Reached, Quiet
<1>4. eclean' = eclean /\ eby' = eby
  BY DEF SignInStep, Redeem, ReadFamily, GiveFamily, CheckPrevious, ReadPrevious,
     JoinFamily, StartSignIn, Mint, RecordLogin, CrashRedeemer, endVars, Redeeming
<1>5. Alone'
  BY <1>2 DEF Alone
<1> QED
  BY <1>2, <1>3, <1>4, <1>5 DEF OrderlyInv

(* It ties the sessions of S, none of which is tied to a session that has  *)
(* been signed out, and all of whose kin are then in one family.           *)
LEMMA OrderlyTie ==
  ASSUME TypeInv, FamilyInv, OriginsInv, OrderlyInv, ~overlapped,
         NEW S \in SUBSET Sessions, kin' = Tied(S),
         \A x \in S, s \in signedOut : x \notin kin[s],
         recorded \subseteq recorded', UNCHANGED <<ended, signedOut>>,
         NEW f \in Families,
         \A x \in S, s \in Sessions : s \in kin[x] => family'[s] = f,
         \A s, t \in Sessions : s # t /\ t \in kin[s]
             => family'[s] # None /\ family'[s] = family'[t]
  PROVE  /\ Together' /\ SignedInv'
         /\ \A s \in signedOut : kin'[s] = kin[s]
<1> USE SessionTypes
<1>1. SignedInv /\ KinInv
  BY DEF OrderlyInv, FamilyInv
<1>2. \A s \in signedOut : kin'[s] = kin[s]
  BY <1>1, TiedElsewhere
<1>3. SignedInv'
  BY <1>1, <1>2 DEF SignedInv
<1>4. Together'
  <2> SUFFICES ASSUME NEW s \in Sessions, NEW t \in Sessions, s # t, t \in Tied(S)[s]
               PROVE  family'[s] # None /\ family'[s] = family'[t]
    BY DEF Together
  <2>1. CASE t \in kin[s]
    BY <2>1
  <2>2. CASE t \notin kin[s]
    <3>1. PICK x \in S, y \in S : s \in kin[x] /\ t \in kin[y]
      BY <1>1, <2>2, TiedHere
    <3> QED
      BY <3>1
  <2> QED
    BY <2>1, <2>2
<1> QED
  BY <1>2, <1>3, <1>4

LEMMA OrderlyJoin ==
  ASSUME TypeInv, FamilyInv, OriginsInv, OrderlyInv, NEW p \in Redeemers, JoinFamily(p),
         Redeeming(p), ~overlapped
  PROVE  Together' /\ SignedInv' /\ Placed(p)' /\ Apart(p)'
<1> USE SessionTypes
<1>1. /\ Together /\ Placed(p) /\ Apart(p) /\ KinInv
  BY DEF OrderlyInv, FamilyInv
<1>2. /\ rpc[p] \in {"join_one", "join_all"} /\ rprev[p] \in recorded /\ rprev[p] \in Sessions
      /\ rsrc[p] \in recorded \cup {None}
      /\ rpc[p] = "join_one" => family[rprev[p]] = None
      /\ rpc[p] = "join_all" => rold[p] # None
      /\ family[rprev[p]] = rold[p]
      /\ rsrc[p] # None => family[rsrc[p]] = rfam[p]
  BY <1>1 DEF JoinFamily, OriginsInv, Origin, FamilyInv, StepsInv, Placed, TypeInv, Steady
<1>3. PICK f \in Families : f = rfam[p]
  BY <1>1, <1>2 DEF Placed
<1>4. PICK S \in SUBSET Sessions : S = Known({rsrc[p], rprev[p]})
  BY DEF Known
<1>5. /\ kin' = Tied(S) /\ rfam' = rfam /\ rsrc' = rsrc /\ rprev' = rprev
      /\ rpc'[p] = "mint" /\ rprev[p] \in S
      /\ UNCHANGED <<recorded, ended, signedOut>>
      /\ \A s \in Sessions : family'[s] = IF s \in Joining(p) THEN f ELSE family[s]
  BY <1>2, <1>3, <1>4 DEF JoinFamily, Goto, Known
(* Sessions that are tied join together or not at all.                     *)
<1>6. \A s, t \in Sessions : s # t /\ t \in kin[s] => (s \in Joining(p) <=> t \in Joining(p))
  <2> SUFFICES ASSUME NEW s \in Sessions, NEW t \in Sessions, s # t, t \in kin[s]
               PROVE  s \in Joining(p) <=> t \in Joining(p)
    OBVIOUS
  <2>1. /\ family[s] # None /\ family[s] = family[t]
        /\ s \in recorded /\ t \in recorded
    BY <1>1 DEF Together, KinInv, OriginsInv
  <2> QED
    BY <1>2, <2>1 DEF Joining
<1>7. \A s, t \in Sessions : s # t /\ t \in kin[s]
           => family'[s] # None /\ family'[s] = family'[t]
  BY <1>1, <1>5, <1>6 DEF Together
<1>8. \A s \in Sessions : s \in kin[rprev[p]] => family'[s] = f
  <2>1. rprev[p] \in Joining(p)
    BY <1>2 DEF Joining
  <2> QED
    BY <1>2, <1>5, <1>6, <2>1
<1>9. \A x \in S, s \in Sessions : s \in kin[x] => family'[s] = f
  <2>1. ASSUME rsrc[p] # None, NEW s \in Sessions, s \in kin[rsrc[p]] PROVE family'[s] = f
    <3>1. family[s] = f
      BY <1>1, <1>2, <1>3, <2>1 DEF Together
    <3> QED
      BY <1>5, <3>1
  <2> QED
    BY <1>4, <1>8, <2>1 DEF Known
<1>10. \A x \in S, s \in signedOut : x \notin kin[s]
  BY <1>1, <1>4 DEF Apart
<1>11. Together' /\ SignedInv' /\ \A s \in signedOut : kin'[s] = kin[s]
  BY <1>5, <1>7, <1>9, <1>10, OrderlyTie
<1>12. Apart(p)'
  BY <1>4, <1>5, <1>10, <1>11 DEF Apart
<1>13. Placed(p)'
  <2>1. \A x \in S : family'[x] = f
    BY <1>1, <1>9 DEF KinInv
  <2>2. rsrc[p] # None => rsrc[p] \in S
    BY <1>4 DEF Known
  <2> QED
    BY <1>3, <1>5, <2>1, <2>2 DEF Placed
<1> QED
  BY <1>11, <1>12, <1>13

LEMMA OrderlyRecord ==
  ASSUME TypeInv, FamilyInv, OriginsInv, OrderlyInv, NEW p \in Redeemers, RecordLogin(p),
         Redeeming(p), ~overlapped
  PROVE  Together' /\ SignedInv' /\ ~Redeeming(p)'
<1> USE SessionTypes
<1>1. /\ Together /\ Placed(p) /\ Apart(p) /\ KinInv /\ SignedInv
  BY DEF OrderlyInv, FamilyInv
<1>2. /\ rpc[p] = "record" /\ rnew[p] \in Sessions /\ rnew[p] \notin recorded
      /\ rsrc[p] \in recorded \cup {None} /\ rprev[p] \in recorded \cup {None}
      /\ rsrc[p] # None => family[rsrc[p]] = rfam[p]
      /\ rprev[p] # None => family[rprev[p]] = rfam[p]
  BY <1>1 DEF RecordLogin, OriginsInv, Origin, Placed, None
<1>3. PICK f \in Families : f = rfam[p]
  BY <1>1, <1>2 DEF Placed
<1>4. PICK S \in SUBSET Sessions : S = Known({rsrc[p], rprev[p], rnew[p]})
  BY DEF Known
<1>5. /\ kin' = Tied(S) /\ recorded \subseteq recorded'
      /\ UNCHANGED <<ended, signedOut>> /\ ~Redeeming(p)'
      /\ \A s \in Sessions : family'[s] = IF s = rnew[p] THEN f ELSE family[s]
  BY <1>2, <1>3, <1>4 DEF RecordLogin, Done, Goto, Redeeming
<1>6. kin[rnew[p]] = {rnew[p]} /\ \A s \in Sessions : rnew[p] \in kin[s] => s = rnew[p]
  BY <1>1, <1>2 DEF OriginsInv, KinInv
<1>7. \A s, t \in Sessions : s # t /\ t \in kin[s]
           => family'[s] # None /\ family'[s] = family'[t]
  BY <1>1, <1>5, <1>6 DEF Together
<1>8. \A x \in S, s \in Sessions : s \in kin[x] => family'[s] = f
  <2> SUFFICES ASSUME NEW x \in S, NEW s \in Sessions, s \in kin[x] PROVE family'[s] = f
    OBVIOUS
  <2>1. CASE x = rnew[p]
    BY <1>5, <1>6, <2>1
  <2>2. CASE x # rnew[p]
    <3>1. family[x] = f
      BY <1>2, <1>3, <1>4, <2>2 DEF Known
    <3>2. family[s] = f
      BY <1>1, <3>1 DEF Together
    <3> QED
      BY <1>5, <3>2
  <2> QED
    BY <2>1, <2>2
<1>9. \A x \in S, s \in signedOut : x \notin kin[s]
  <2>1. \A s \in signedOut : rnew[p] \notin kin[s]
    BY <1>1, <1>2, <1>6 DEF SignedInv
  <2> QED
    BY <1>1, <1>4, <2>1 DEF Apart, Known
<1> QED
  BY <1>5, <1>7, <1>8, <1>9, OrderlyTie

(* The statements of a redemption that tie nothing.                        *)
LEMMA OrderlyRest ==
  ASSUME TypeInv, FamilyInv, OriginsInv, OrderlyInv, NEW p \in Redeemers, Redeeming(p),
         ~overlapped,
         \/ ReadFamily(p) \/ GiveFamily(p) \/ CheckPrevious(p) \/ ReadPrevious(p)
         \/ Mint(p) \/ CrashRedeemer(p)
  PROVE  Together' /\ SignedInv' /\ (Redeeming(p)' => Placed(p)' /\ Apart(p)')
<1> USE SessionTypes
<1>1. /\ Together /\ Placed(p) /\ Apart(p) /\ SignedInv /\ Origin(p)
  BY DEF OrderlyInv, OriginsInv
<1>2. /\ UNCHANGED <<kin, ended, recorded, signedOut>>
      /\ SignedInv'
  BY <1>1 DEF ReadFamily, GiveFamily, CheckPrevious, ReadPrevious, Mint, CrashRedeemer,
     ghosts, loginVars, SignedInv
<1>3. CASE ReadFamily(p)
  BY <1>1, <1>2, <1>3
  DEF ReadFamily, loginVars, Goto, Together, Placed, Apart, Known, Origin, None, StepsInv,
      FamilyInv
<1>4. CASE GiveFamily(p)
  <2>1. /\ rsrc[p] \in Sessions /\ family[rsrc[p]] = None /\ rfam[p] # None
        /\ rprev[p] = None
    BY <1>1, <1>4 DEF GiveFamily, Placed, FamilyInv, StepsInv
  <2>2. \A s \in Sessions : family'[s] = IF s = rsrc[p] THEN rfam[p] ELSE family[s]
    BY <1>4 DEF GiveFamily, Given
  <2>3. \A s, t \in Sessions : s # t /\ t \in kin[s] => s # rsrc[p] /\ t # rsrc[p]
    BY <1>1, <2>1 DEF Together
  <2>4. Together'
    BY <1>1, <1>2, <2>2, <2>3 DEF Together
  <2> QED
    BY <1>1, <1>2, <1>4, <2>1, <2>2, <2>4 DEF GiveFamily, Goto, Placed, Apart
<1>5. CASE CheckPrevious(p)
  <2>1. Together'
    BY <1>1, <1>5 DEF CheckPrevious, loginVars, ghosts, Together
  <2>2. Placed(p)'
    BY <1>1, <1>5 DEF CheckPrevious, loginVars, Goto, Placed, FamilyInv, StepsInv
  <2>3. Apart(p)'
    BY <1>1, <1>5 DEF CheckPrevious, loginVars, ghosts, Apart, Known, SignedInv
  <2> QED
    BY <1>2, <2>1, <2>2, <2>3
<1>6. CASE ReadPrevious(p)
  BY <1>1, <1>2, <1>6
  DEF ReadPrevious, loginVars, Goto, Together, Placed, Apart
<1>7. CASE Mint(p)
  BY <1>1, <1>2, <1>7 DEF Mint, Goto, Together, Placed, Apart
<1>8. CASE CrashRedeemer(p)
  BY <1>1, <1>2, <1>8 DEF CrashRedeemer, Done, Goto, loginVars, Together, Redeeming
<1> QED
  BY <1>3, <1>4, <1>5, <1>6, <1>7, <1>8

LEMMA OrderlySignIn ==
  ASSUME TypeInv, FamilyInv, OriginsInv, OrderlyInv, NEW p \in Redeemers, SignInStep(p)
  PROVE  OrderlyInv'
<1> SUFFICES ASSUME ~overlapped' PROVE OrderlyInv'
  BY DEF OrderlyInv
<1>1. OthersSame(p)
  BY RedeemersChange
<1>2. CASE Redeeming(p)
  <2>1. rpc[p] # "idle" /\ ~overlapped
    BY <1>2 DEF Redeeming, SignInStep, Redeem, ReadFamily, GiveFamily, CheckPrevious,
       ReadPrevious, JoinFamily, StartSignIn, Mint, RecordLogin, CrashRedeemer, ghosts
  <2>2. CASE JoinFamily(p)
    BY <1>1, <1>2, <2>1, <2>2, OrderlyJoin, OrderlyOnly
  <2>3. CASE RecordLogin(p)
    BY <1>1, <1>2, <2>1, <2>3, OrderlyRecord, OrderlyOnly
  <2>4. CASE \/ ReadFamily(p) \/ GiveFamily(p) \/ CheckPrevious(p) \/ ReadPrevious(p)
             \/ Mint(p) \/ CrashRedeemer(p)
    BY <1>1, <1>2, <2>1, <2>4, OrderlyRest, OrderlyOnly
  <2> QED
    BY <2>1, <2>2, <2>3, <2>4 DEF SignInStep, Redeem, StartSignIn
<1>3. CASE ~Redeeming(p) /\ Redeeming(p)'
  <2>1. rcode[p] = None /\ rpc'[p] # "idle"
    BY <1>3 DEF OriginsInv, Origin, Redeeming
  <2>2. PICK c \in Codes : Redeem(p, c)
    BY <1>3, <2>1 DEF Redeeming, SignInStep, ReadFamily, GiveFamily, CheckPrevious,
       ReadPrevious, JoinFamily, StartSignIn, Mint, RecordLogin, CrashRedeemer, Done, TypeInv,
       TypeOK, SignInsTyped
  <2> QED
    BY <1>1, <2>1, <2>2, OrderlyStart
<1>4. CASE ~Redeeming(p) /\ ~Redeeming(p)'
  BY <1>1, <1>4, OrderlyPlain
<1> QED
  BY <1>2, <1>3, <1>4

(* Steps of the others: no family, and no redemption, changes.             *)
LEMMA OrderlyElse ==
  ASSUME OrderlyInv,
         UNCHANGED <<family, kin, recorded, overlapped, redVars>>,
         ended \subseteq ended',
         ~overlapped => SignedInv',
         ~overlapped => signedOut' = signedOut \/ Quiet,
         ~overlapped => \A e \in Enders : eclean'[e] /\ eby'[e] # None => Reached(e)'
  PROVE  OrderlyInv'
<1> SUFFICES ASSUME ~overlapped PROVE OrderlyInv'
  BY DEF OrderlyInv
<1>1. Alone /\ Together /\ \A p \in Redeemers : Redeeming(p) => Placed(p) /\ Apart(p)
  BY DEF OrderlyInv
<1>2. \A p \in Redeemers : Redeeming(p)' = Redeeming(p)
  BY DEF Redeeming, redVars
<1>3. Alone' /\ Together'
  BY <1>1, <1>2 DEF Alone, Together
<1>4. \A p \in Redeemers : Redeeming(p)' => Placed(p)' /\ Apart(p)'
  BY <1>1, <1>2 DEF Placed, Apart, Quiet, redVars
<1> QED
  BY <1>3, <1>4 DEF OrderlyInv

LEMMA OrderlyEnd ==
  ASSUME TypeInv, FamilyInv, OriginsInv, OrderlyInv, NEW e \in Enders, EndStep(e)
  PROVE  OrderlyInv'
<1> USE SessionTypes
<1>1. /\ UNCHANGED <<family, kin, recorded, overlapped, redVars>>
      /\ ended \subseteq ended' /\ KinInv
      /\ \A d \in Enders \ {e} :
            /\ epc'[d] = epc[d] /\ eby'[d] = eby[d] /\ efam'[d] = efam[d]
            /\ etodo'[d] = etodo[d] /\ eclean'[d] = eclean[d]
  <2>1. ended \subseteq ended' /\ UNCHANGED <<family, recorded, overlapped>>
    BY DEF EndStep, SignOut, EndOthers, StartEnd, ListFamily, EndOne, FinishEnd, loginVars,
       ghosts
  <2> QED
    BY <2>1, EndersChange DEF FamilyInv
<1>2. Quiet' = Quiet
  BY <1>1 DEF Quiet, Redeeming, redVars
<1>3. ~overlapped => /\ Together /\ SignedInv
                     /\ \A d \in Enders : eclean[d] /\ eby[d] # None => Reached(d)
  BY DEF OrderlyInv
<1>4. ~overlapped => \A d \in Enders \ {e} : eclean'[d] /\ eby'[d] # None => Reached(d)'
  BY <1>1, <1>2, <1>3 DEF Reached
<1>5. ASSUME NEW s \in Sessions, SignOut(e, s) PROVE OrderlyInv'
  <2>1. /\ s \in recorded /\ eby'[e] = s /\ signedOut' = signedOut
        /\ eclean'[e] => Quiet
        /\ epc'[e] = "list" => efam'[e] = family[s]
        /\ epc'[e] = "end" => family[s] = None /\ etodo'[e] = {s} \ ended
    BY <1>5 DEF SignOut, EndsAlone, StartEnd, Quiet, ghosts
  <2>2. ~overlapped /\ family[s] = None => kin[s] = {s}
    BY <1>1, <1>3 DEF Together, KinInv
  <2>3. ~overlapped /\ eclean'[e] => Reached(e)'
    BY <1>1, <1>2, <2>1, <2>2 DEF Reached
  <2>4. ~overlapped => SignedInv'
    BY <1>1, <1>3, <2>1 DEF SignedInv
  <2> QED
    BY <1>1, <1>4, <2>1, <2>3, <2>4, OrderlyElse
<1>6. ASSUME NEW s \in Sessions, EndOthers(e, s) PROVE OrderlyInv'
  <2>1. eby'[e] = None /\ signedOut' = signedOut
    BY <1>6 DEF EndOthers, StartEnd, ghosts
  <2>2. ~overlapped => SignedInv'
    BY <1>1, <1>3, <2>1 DEF SignedInv
  <2> QED
    BY <1>1, <1>4, <2>1, <2>2, OrderlyElse
<1>7. ASSUME ListFamily(e) PROVE OrderlyInv'
  <2>1. /\ epc[e] = "list" /\ epc'[e] = "end" /\ eby' = eby /\ eclean' = eclean
        /\ signedOut' = signedOut /\ eby[e] # None /\ efam[e] # None
        /\ etodo'[e] = {t \in recorded : family[t] = efam[e]} \ ended
    BY <1>7 DEF ListFamily, ghosts, FamilyInv, StepsInv
  <2>2. ASSUME ~overlapped, eclean[e] PROVE Reached(e)'
    <3>1. Reached(e) /\ Together
      BY <1>3, <2>1, <2>2
    <3>2. eby[e] \in recorded /\ family[eby[e]] = efam[e] /\ Quiet
      BY <2>1, <3>1 DEF Reached
    <3>3. kin[eby[e]] \subseteq recorded
      BY <1>1, <3>2, KinOfRecorded
    <3>4. \A t \in kin[eby[e]] : family[t] = efam[e]
      BY <3>1, <3>2 DEF Together
    <3>5. kin[eby[e]] \subseteq ended \cup etodo'[e]
      BY <2>1, <3>3, <3>4
    <3> QED
      BY <1>1, <1>2, <2>1, <3>2, <3>5 DEF Reached
  <2>3. ~overlapped => SignedInv'
    BY <1>1, <1>3, <2>1 DEF SignedInv
  <2> QED
    BY <1>1, <1>4, <2>1, <2>2, <2>3, OrderlyElse
<1>8. ASSUME EndOne(e) PROVE OrderlyInv'
  <2>1. /\ epc' = epc /\ eby' = eby /\ efam' = efam /\ eclean' = eclean
        /\ signedOut' = signedOut
        /\ ended \cup etodo[e] \subseteq ended' \cup etodo'[e]
    BY <1>8 DEF EndOne, ghosts
  <2>2. ~overlapped /\ eclean'[e] /\ eby'[e] # None => Reached(e)'
    BY <1>1, <1>2, <1>3, <2>1 DEF Reached
  <2>3. ~overlapped => SignedInv'
    BY <1>1, <1>3, <2>1 DEF SignedInv
  <2> QED
    BY <1>1, <1>4, <2>1, <2>2, <2>3, OrderlyElse
<1>9. ASSUME FinishEnd(e) PROVE OrderlyInv'
  <2>1. /\ epc[e] = "end" /\ etodo[e] = {} /\ eby'[e] = None /\ ended' = ended
        /\ signedOut' = IF eby[e] # None /\ eclean[e] THEN signedOut \cup kin[eby[e]]
                        ELSE signedOut
    BY <1>9 DEF FinishEnd, loginVars
  <2>2. ASSUME ~overlapped PROVE SignedInv' /\ (signedOut' = signedOut \/ Quiet)
    <3>1. CASE ~(eby[e] # None /\ eclean[e])
      BY <1>1, <1>3, <2>1, <2>2, <3>1 DEF SignedInv
    <3>2. CASE eby[e] # None /\ eclean[e]
      <4>1. Reached(e) /\ SignedInv
        BY <1>3, <2>2, <3>2
      <4>2. eby[e] \in recorded /\ Quiet /\ kin[eby[e]] \subseteq ended
        BY <2>1, <4>1 DEF Reached
      <4>3. kin[eby[e]] \subseteq recorded
        BY <1>1, <4>2, KinOfRecorded
      <4>4. \A t \in kin[eby[e]] : kin[t] = kin[eby[e]]
        BY <1>1, <4>2 DEF KinInv
      <4> QED
        BY <1>1, <2>1, <3>2, <4>1, <4>2, <4>3, <4>4 DEF SignedInv
    <3> QED
      BY <3>1, <3>2
  <2> QED
    BY <1>1, <1>4, <2>1, <2>2, OrderlyElse
<1> QED
  BY <1>5, <1>6, <1>7, <1>8, <1>9 DEF EndStep

LEMMA OrderlyStep ==
  TypeInv /\ FamilyInv /\ OriginsInv /\ OrderlyInv /\ [Next]_vars => OrderlyInv'
<1> SUFFICES ASSUME TypeInv, FamilyInv, OriginsInv, OrderlyInv, [Next]_vars
             PROVE  OrderlyInv'
  OBVIOUS
<1>1. ASSUME UNCHANGED vars \/ (\E i \in Issuers : IssueStep(i))
                            \/ \E t \in Sessions : Terminate(t)
      PROVE  OrderlyInv'
  <2>1. /\ UNCHANGED <<family, kin, recorded, overlapped, redVars, signedOut, endVars>>
        /\ ended \subseteq ended'
    BY <1>1 DEF vars, IssueStep, CreateCode, StartIssue, Terminate, loginVars, ghosts
  <2>2. ~overlapped => SignedInv /\ \A e \in Enders : eclean[e] /\ eby[e] # None => Reached(e)
    BY DEF OrderlyInv
  <2>3. ~overlapped => SignedInv'
    BY <2>1, <2>2 DEF SignedInv
  <2>4. ~overlapped => \A e \in Enders : eclean'[e] /\ eby'[e] # None => Reached(e)'
    BY <2>1, <2>2 DEF Reached, Quiet, Redeeming, endVars, redVars
  <2> QED
    BY <2>1, <2>3, <2>4, OrderlyElse
<1> QED
  BY <1>1, OrderlySignIn, OrderlyEnd DEF Next

LEMMA OrderlyAlways == Spec => [](TypeInv /\ FamilyInv /\ OriginsInv /\ OrderlyInv)
<1>1. Init => OriginsInv /\ OrderlyInv
  <2> SUFFICES ASSUME Init PROVE OriginsInv /\ OrderlyInv
    OBVIOUS
  <2>1. OriginsInv
    BY DEF Init, OriginsInv, Origin
  <2>2. OrderlyInv
    BY DEF Init, OrderlyInv, Alone, Together, SignedInv, Redeeming
  <2> QED
    BY <2>1, <2>2
<1> QED
  BY <1>1, TypeInit, TypeStep, FamilyInit, FamilyBoundStep, StepsStep, TouchStep,
     OriginsStep, OrderlyStep, PTL DEF Spec, FamilyInv

(* While redemptions follow one another, the sessions that they tie are in *)
(* one family at every statement: a sign-out that lists a family lists all *)
(* of them, for any number of sign-ins and wherever one of them dies.      *)
THEOREM KinStayTogether == Spec => []KinShareFamily
<1>1. TypeInv /\ OrderlyInv => KinShareFamily
  BY SessionTypes DEF OrderlyInv, Together, KinShareFamily
<1> QED
  BY OrderlyAlways, <1>1, PTL

(* A sign-out that no redemption overlapped has ended every session of its *)
(* browser, and none of them comes back, whatever codes were issued before *)
(* it and whoever redeems them after it.                                   *)
THEOREM SignOutIsForGood == Spec => []SignedOutForGood
<1>1. OrderlyInv => SignedOutForGood
  BY DEF OrderlyInv, SignedInv, SignedOutForGood, Live
<1> QED
  BY OrderlyAlways, <1>1, PTL

=============================================================================
