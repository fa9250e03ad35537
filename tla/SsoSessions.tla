---------------------------- MODULE SsoSessions ----------------------------
(***************************************************************************)
(* The sessions of one user across the frontend domains of a deployment:   *)
(* single sign-on codes (core/services/sso_service.py), the sessions and   *)
(* their families (core/services/session_service.py), and the endpoints    *)
(* that use them (data/user/views/sso.py, account_security.py, logout.py). *)
(*                                                                         *)
(* A redemption is four transactions: the code is spent, the family of its *)
(* source is looked up, the replaced session joins it, the new session is  *)
(* minted and recorded.  Every read and every write of the database is a   *)
(* step.  Sessions and families are numbered as they are created.  The     *)
(* expiry of a code or of a token only takes steps away and is left out.   *)
(***************************************************************************)
EXTENDS Naturals, FiniteSets

CONSTANTS
    Redeemers,    \* sign-ins and redemptions in progress
    Issuers,      \* sso/code/ requests in progress
    Enders,       \* sign-outs and terminations in progress
    Codes,        \* the codes that may be issued
    MayCrash,     \* a sign-in may die half-way
    MaxSessions,  \* bound: sessions of the user
    MaxFamilies   \* bound: families

ASSUME BoundsAssumption ==
    MaxSessions \in Nat \ {0} /\ MaxFamilies \in Nat /\ MayCrash \in BOOLEAN
    /\ 0 \notin Codes

(* No session (a token issued before sessions had ids), code or family.    *)
None == 0

Sessions == 1 .. MaxSessions
Families == 1 .. MaxFamilies

VARIABLES
    minted,      \* number of refresh tokens minted: sessions 1 .. minted
    recorded,    \* sessions with a UserLogin row
    ended,       \* sessions whose refresh token is blacklisted
    family,      \* UserLogin.sso_family
    issued,      \* codes issued
    source,      \* SsoAuthorizationCode.source_jti, while the code is unspent
    spent,       \* codes with used_at
    families,    \* number of family ids generated
    rpc, rcode, rsrc, rfam, rprev, rold, rnew,   \* redeemers
    ipc, isrc,                                   \* issuers
    epc, eby, efam, etodo, eclean,               \* enders
    \* ghosts
    born,        \* the sessions minted for a code
    kin,         \* the sessions a session is tied to by single sign-on
    overlapped,  \* two redemptions have been in progress at one time
    signedOut    \* sessions signed out while no redemption was in progress

loginVars == <<minted, recorded, ended, family>>
codeVars  == <<issued, source, spent>>
redVars   == <<rpc, rcode, rsrc, rfam, rprev, rold, rnew>>
issVars   == <<ipc, isrc>>
endVars   == <<epc, eby, efam, etodo, eclean>>
ghosts    == <<born, kin, overlapped, signedOut>>

vars == <<loginVars, codeVars, families, redVars, issVars, endVars, ghosts>>

RedeemerSteps == {"idle", "family", "give", "previous", "join", "join_one", "join_all",
                  "mint", "record"}

SessionsTyped ==
    /\ minted \in 0 .. MaxSessions
    /\ recorded \subseteq 1 .. minted
    /\ ended \subseteq 1 .. minted
    /\ family \in [Sessions -> Families \cup {None}]
    /\ families \in 0 .. MaxFamilies

CodesTyped ==
    /\ issued \subseteq Codes
    /\ source \in [Codes -> Sessions \cup {None}]
    /\ spent \subseteq issued

SignInsTyped ==
    /\ rpc \in [Redeemers -> RedeemerSteps]
    /\ rcode \in [Redeemers -> Codes \cup {None}]
    /\ rsrc \in [Redeemers -> Sessions \cup {None}]
    /\ rfam \in [Redeemers -> Families \cup {None}]
    /\ rprev \in [Redeemers -> Sessions \cup {None}]
    /\ rold \in [Redeemers -> Families \cup {None}]
    /\ rnew \in [Redeemers -> Sessions \cup {None}]

IssuersTyped ==
    /\ ipc \in [Issuers -> {"idle", "create"}]
    /\ isrc \in [Issuers -> Sessions \cup {None}]

EndersTyped ==
    /\ epc \in [Enders -> {"idle", "list", "end"}]
    /\ eby \in [Enders -> Sessions \cup {None}]
    /\ efam \in [Enders -> Families \cup {None}]
    /\ etodo \in [Enders -> SUBSET Sessions]
    /\ eclean \in [Enders -> BOOLEAN]

GhostsTyped ==
    /\ born \in [Codes -> SUBSET Sessions]
    /\ kin \in [Sessions -> SUBSET Sessions]
    /\ overlapped \in BOOLEAN
    /\ signedOut \subseteq Sessions

TypeOK ==
    SessionsTyped /\ CodesTyped /\ SignInsTyped /\ IssuersTyped /\ EndersTyped /\ GhostsTyped

Init ==
    /\ minted = 0 /\ recorded = {} /\ ended = {}
    /\ family = [s \in Sessions |-> None]
    /\ issued = {} /\ spent = {}
    /\ source = [c \in Codes |-> None]
    /\ families = 0
    /\ rpc = [p \in Redeemers |-> "idle"]
    /\ rcode = [p \in Redeemers |-> None] /\ rsrc = [p \in Redeemers |-> None]
    /\ rfam = [p \in Redeemers |-> None] /\ rprev = [p \in Redeemers |-> None]
    /\ rold = [p \in Redeemers |-> None] /\ rnew = [p \in Redeemers |-> None]
    /\ ipc = [i \in Issuers |-> "idle"] /\ isrc = [i \in Issuers |-> None]
    /\ epc = [e \in Enders |-> "idle"] /\ eby = [e \in Enders |-> None]
    /\ efam = [e \in Enders |-> None] /\ etodo = [e \in Enders |-> {}]
    /\ eclean = [e \in Enders |-> FALSE]
    /\ born = [c \in Codes |-> {}]
    /\ kin = [s \in Sessions |-> {s}]
    /\ overlapped = FALSE
    /\ signedOut = {}

-----------------------------------------------------------------------------
(* sso/code/.  session_ended(source_jti) is read, the code created after   *)
(* it.                                                                     *)

StartIssue(i, s) ==
    /\ ipc[i] = "idle"
    /\ s \in recorded \cup {None}
    /\ s \notin ended
    /\ ipc' = [ipc EXCEPT ![i] = "create"]
    /\ isrc' = [isrc EXCEPT ![i] = s]
    /\ UNCHANGED <<loginVars, codeVars, families, redVars, endVars, ghosts>>

CreateCode(i, c) ==
    /\ ipc[i] = "create"
    /\ c \notin issued
    /\ issued' = issued \cup {c}
    /\ source' = [source EXCEPT ![c] = isrc[i]]
    /\ ipc' = [ipc EXCEPT ![i] = "idle"]
    /\ isrc' = [isrc EXCEPT ![i] = None]
    /\ UNCHANGED <<loginVars, spent, families, redVars, endVars, ghosts>>

-----------------------------------------------------------------------------
(* sso/token/ and the other sign-ins.                                      *)

Redeeming(p) == rpc[p] # "idle" /\ rcode[p] # None

Goto(p, step) == rpc' = [rpc EXCEPT ![p] = step]

Done(p) ==
    /\ Goto(p, "idle")
    /\ rcode' = [rcode EXCEPT ![p] = None]
    /\ rsrc' = [rsrc EXCEPT ![p] = None]
    /\ rfam' = [rfam EXCEPT ![p] = None]
    /\ rprev' = [rprev EXCEPT ![p] = None]
    /\ rold' = [rold EXCEPT ![p] = None]
    /\ rnew' = [rnew EXCEPT ![p] = None]

Unspent_Any(c) == c \in issued

Unspent(c) == c \in issued \ spent

SourceLives_NotAsked(c) == TRUE

SourceLives(c) == source[c] \notin ended

(* redeem() under the lock of the code's row: the code is spent whatever   *)
(* comes next.  A wrong verifier or redirect_uri, an inactive user and an  *)
(* ended source get the same answer.                                       *)
Redeem(p, c) ==
    /\ rpc[p] = "idle"
    /\ Unspent(c)
    /\ spent' = spent \cup {c}
    /\ source' = [source EXCEPT ![c] = None]
    /\ \/ /\ SourceLives(c)
          /\ Goto(p, "family")
          /\ rcode' = [rcode EXCEPT ![p] = c]
          /\ rsrc' = [rsrc EXCEPT ![p] = source[c]]
          /\ overlapped' = (overlapped \/ \E q \in Redeemers : Redeeming(q))
          /\ eclean' = [e \in Enders |-> FALSE]
          /\ UNCHANGED <<rfam, rprev, rold, rnew>>
       \/ UNCHANGED <<redVars, overlapped, eclean>>
    /\ UNCHANGED <<loginVars, issued, families, issVars, epc, eby, efam, etodo,
                   born, kin, signedOut>>

(* sso_family_of: the family of the source, a new one when it has none or  *)
(* is not known.                                                           *)
ReadFamily(p) ==
    /\ rpc[p] = "family"
    /\ \/ /\ rsrc[p] \in recorded /\ family[rsrc[p]] # None
          /\ rfam' = [rfam EXCEPT ![p] = family[rsrc[p]]]
          /\ Goto(p, "previous")
          /\ UNCHANGED families
       \/ /\ ~(rsrc[p] \in recorded /\ family[rsrc[p]] # None)
          /\ families < MaxFamilies
          /\ families' = families + 1
          /\ rfam' = [rfam EXCEPT ![p] = families + 1]
          /\ Goto(p, IF rsrc[p] \in recorded THEN "give" ELSE "previous")
    /\ UNCHANGED <<loginVars, codeVars, rcode, rsrc, rprev, rold, rnew, issVars, endVars,
                   ghosts>>

Given_Another(p) == families + 1

Given(p) == rfam[p]

GiveFamily(p) ==
    /\ rpc[p] = "give"
    /\ family' = [family EXCEPT ![rsrc[p]] = Given(p)]
    /\ Goto(p, "previous")
    /\ UNCHANGED <<minted, recorded, ended, codeVars, families, rcode, rsrc, rfam, rprev,
                   rold, rnew, issVars, endVars, ghosts>>

(* previous_session: the live session this domain is replacing, if the     *)
(* request names one.                                                      *)
CheckPrevious(p) ==
    /\ rpc[p] = "previous"
    /\ \/ Goto(p, "mint") /\ UNCHANGED rprev
       \/ \E q \in recorded \ ended : /\ rprev' = [rprev EXCEPT ![p] = q]
                                      /\ Goto(p, "join")
    /\ UNCHANGED <<loginVars, codeVars, families, rcode, rsrc, rfam, rold, rnew, issVars,
                   endVars, ghosts>>

(* join_sso_family reads the family of the replaced session ...            *)
ReadPrevious(p) ==
    /\ rpc[p] = "join"
    /\ LET f == family[rprev[p]] IN
          /\ rold' = [rold EXCEPT ![p] = f]
          /\ Goto(p, IF f = rfam[p] THEN "mint" ELSE IF f = None THEN "join_one" ELSE "join_all")
    /\ UNCHANGED <<loginVars, codeVars, families, rcode, rsrc, rfam, rprev, rnew, issVars,
                   endVars, ghosts>>

(* The sessions tied together when those of S are.                         *)
Tied(S) ==
    LET T == UNION {kin[s] : s \in S}
    IN  [s \in Sessions |-> IF s \in T THEN T ELSE kin[s]]

Known(S) == S \ {None}

Joining_OnlyItself(p) == {rprev[p]}

Joining(p) ==
    IF rpc[p] = "join_one" THEN {rprev[p]} ELSE {s \in recorded : family[s] = rold[p]}

(* ... and then brings it, or its whole family, into the new one.          *)
JoinFamily(p) ==
    /\ rpc[p] \in {"join_one", "join_all"}
    /\ family' = [s \in Sessions |-> IF s \in Joining(p) THEN rfam[p] ELSE family[s]]
    /\ kin' = Tied(Known({rsrc[p], rprev[p]}))
    /\ rold' = [rold EXCEPT ![p] = None]
    /\ Goto(p, "mint")
    /\ UNCHANGED <<minted, recorded, ended, codeVars, families, rcode, rsrc, rfam, rprev,
                   rnew, issVars, endVars, born, overlapped, signedOut>>

(* user.tokens(), in every kind of sign-in.                                *)
StartSignIn(p) ==
    /\ rpc[p] = "idle"
    /\ Goto(p, "mint")
    /\ UNCHANGED <<loginVars, codeVars, families, rcode, rsrc, rfam, rprev, rold, rnew,
                   issVars, endVars, ghosts>>

Mint(p) ==
    /\ rpc[p] = "mint"
    /\ minted < MaxSessions
    /\ minted' = minted + 1
    /\ rnew' = [rnew EXCEPT ![p] = minted + 1]
    /\ born' = [c \in Codes |-> IF c = rcode[p] THEN born[c] \cup {minted + 1} ELSE born[c]]
    /\ Goto(p, "record")
    /\ UNCHANGED <<recorded, ended, family, codeVars, families, rcode, rsrc, rfam, rprev,
                   rold, issVars, endVars, kin, overlapped, signedOut>>

(* record_login, in the family of the source.                              *)
RecordLogin(p) ==
    /\ rpc[p] = "record"
    /\ recorded' = recorded \cup {rnew[p]}
    /\ family' = [family EXCEPT ![rnew[p]] = rfam[p]]
    /\ kin' = Tied(Known({rsrc[p], rprev[p], rnew[p]}))
    /\ Done(p)
    /\ UNCHANGED <<minted, ended, codeVars, families, issVars, endVars, born, overlapped,
                   signedOut>>

(* The process that serves the sign-in dies.                               *)
CrashRedeemer(p) ==
    /\ MayCrash
    /\ rpc[p] # "idle"
    /\ Done(p)
    /\ UNCHANGED <<loginVars, codeVars, families, issVars, endVars, ghosts>>

-----------------------------------------------------------------------------
(* Ending sessions.  An access token outlives its session for a few        *)
(* minutes, so an ended session may still ask.                             *)

StartEnd(e, by, fam, todo, step) ==
    /\ epc[e] = "idle"
    /\ epc' = [epc EXCEPT ![e] = step]
    /\ eby' = [eby EXCEPT ![e] = by]
    /\ efam' = [efam EXCEPT ![e] = fam]
    /\ etodo' = [etodo EXCEPT ![e] = todo]
    /\ eclean' = [eclean EXCEPT ![e] = ~ \E p \in Redeemers : Redeeming(p)]
    /\ UNCHANGED <<loginVars, codeVars, families, redVars, issVars, ghosts>>

EndsAlone_Never(s) == FALSE

EndsAlone(s) == family[s] = None

(* sign_out and terminate_sso_family.                                      *)
SignOut(e, s) ==
    /\ s \in recorded
    /\ \/ EndsAlone(s) /\ StartEnd(e, s, None, {s} \ ended, "end")
       \/ ~EndsAlone(s) /\ StartEnd(e, s, family[s], {}, "list")

ListFamily(e) ==
    /\ epc[e] = "list"
    /\ etodo' = [etodo EXCEPT ![e] = {t \in recorded : family[t] = efam[e]} \ ended]
    /\ epc' = [epc EXCEPT ![e] = "end"]
    /\ UNCHANGED <<loginVars, codeVars, families, redVars, issVars, eby, efam, eclean,
                   ghosts>>

(* sessions/<jti>/terminate/ and the plain logout/: one session of theirs. *)
Terminate(t) ==
    /\ t \in recorded \ ended
    /\ ended' = ended \cup {t}
    /\ UNCHANGED <<minted, recorded, family, codeVars, families, redVars, issVars, endVars,
                   ghosts>>

(* sessions/terminate_others/.                                             *)
EndOthers(e, s) ==
    /\ s \in recorded
    /\ StartEnd(e, None, None, (1 .. minted) \ (ended \cup {s}), "end")

(* BlacklistedToken.get_or_create, one token after the other.              *)
EndOne(e) ==
    /\ epc[e] = "end"
    /\ \E t \in etodo[e] : /\ ended' = ended \cup {t}
                           /\ etodo' = [etodo EXCEPT ![e] = @ \ {t}]
    /\ UNCHANGED <<minted, recorded, family, codeVars, families, redVars, issVars, epc, eby,
                   efam, eclean, ghosts>>

FinishEnd(e) ==
    /\ epc[e] = "end"
    /\ etodo[e] = {}
    /\ epc' = [epc EXCEPT ![e] = "idle"]
    /\ eby' = [eby EXCEPT ![e] = None]
    /\ efam' = [efam EXCEPT ![e] = None]
    /\ eclean' = [eclean EXCEPT ![e] = FALSE]
    /\ signedOut' = IF eby[e] # None /\ eclean[e] THEN signedOut \cup kin[eby[e]] ELSE signedOut
    /\ UNCHANGED <<loginVars, codeVars, families, redVars, issVars, etodo, born, kin,
                   overlapped>>

-----------------------------------------------------------------------------

SignInStep(p) ==
    \/ \E c \in Codes : Redeem(p, c)
    \/ ReadFamily(p) \/ GiveFamily(p) \/ CheckPrevious(p) \/ ReadPrevious(p)
    \/ JoinFamily(p) \/ StartSignIn(p) \/ Mint(p) \/ RecordLogin(p) \/ CrashRedeemer(p)

EndStep(e) ==
    \/ \E s \in Sessions : SignOut(e, s) \/ EndOthers(e, s)
    \/ ListFamily(e) \/ EndOne(e) \/ FinishEnd(e)

IssueStep(i) ==
    \/ \E c \in Codes : CreateCode(i, c)
    \/ \E s \in Sessions \cup {None} : StartIssue(i, s)

Next ==
    \/ \E p \in Redeemers : SignInStep(p)
    \/ \E i \in Issuers : IssueStep(i)
    \/ \E e \in Enders : EndStep(e)
    \/ \E t \in Sessions : Terminate(t)

Spec == Init /\ [][Next]_vars

-----------------------------------------------------------------------------

Live == (1 .. minted) \ ended

(* A code starts one session at most, whoever presents it and however      *)
(* often, and whatever dies on the way.                                    *)
CodeStartsOneSession ==
    /\ \A c \in Codes : Cardinality(born[c]) <= 1
    /\ \A c, d \in Codes : c # d => born[c] \cap born[d] = {}

(* A sign-out ends sessions of its own browser only: those tied to the     *)
(* session that signs out by a chain of redemptions, never one of another  *)
(* device, even while families are being merged under it.                  *)
SignOutTouchesKinOnly ==
    \A e \in Enders : eby[e] # None => etodo[e] \subseteq kin[eby[e]]

(* Redemptions that follow one another keep the sessions they tie in one   *)
(* family at every statement, so that a sign-out finds them all whenever   *)
(* it comes and wherever a redemption dies.                                *)
KinShareFamily ==
    ~overlapped =>
        \A s \in recorded, t \in recorded :
            s # t /\ t \in kin[s] => family[s] # None /\ family[s] = family[t]

(* A sign-out that no redemption overlapped is final: no session of the    *)
(* browser lives or comes back, whatever codes were issued before it.      *)
SignedOutForGood ==
    ~overlapped => \A s \in signedOut : kin[s] \cap Live = {}
=============================================================================
