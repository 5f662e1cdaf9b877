------------------------------- MODULE SignIn -------------------------------
(***************************************************************************)
(* The dashboard's sign-in.  The server keeps challenges in memory and     *)
(* nothing else: a session is a signed token in the browser's cookie.  The *)
(* browser is one tab: the button that awaits challenge, wallet, verify    *)
(* and refresh in turn, and what the screen shows of the session.  One     *)
(* wallet address, whose roles on chain come and go.                       *)
(***************************************************************************)
EXTENDS Naturals, FiniteSets

CONSTANTS
    ChallengeTtl,   \* CHALLENGE_TTL_SECONDS
    SessionTtl,     \* SESSION_TTL_SECONDS
    CookieMaxAge,   \* maxAge of the cookie a session comes in
    None,
    MaxTime,        \* bound on the clock
    MaxNonces,      \* bound: challenges of a behaviour
    MaxFaults       \* bound: requests that fail or arrive twice, page loads

ASSUME SignInAssumption ==
    /\ ChallengeTtl \in Nat /\ SessionTtl \in Nat /\ CookieMaxAge \in Nat \ {0}
    /\ MaxNonces \in Nat
    /\ None \notin Nat \cup {"admin", "guardian"}

Roles == {"admin", "guardian"}

VARIABLES
    now,         \* the server's clock
    held,        \* external: roles the address has on chain
    lastAdmin,   \* history: when it was last an admin, or None
    challenges,  \* store.ts: at what time each open nonce was issued, or None
    nonces,      \* nonces created
    verifies,    \* POST /api/auth/verify under way at the server
    cookie,      \* the browser's refluo_session, or None
    screen,      \* auth.role of AuthProvider
    shownBy,     \* history: the cookie the role on screen was answered for, or None
    flow,        \* what the button, or the mounting page, awaits; "idle"
    sessions,    \* history: tokens issued for each nonce
    faults

serverVars == <<challenges, nonces, verifies, sessions>>
screenVars == <<screen, shownBy>>
browserVars == <<cookie, screenVars, flow>>
chainVars == <<now, held, lastAdmin>>
signInVars == <<chainVars, serverVars, browserVars, faults>>

Flows == {"mounting", "idle", "wallet", "verify", "delete", "refresh"}
Nonces == 1 .. MaxNonces

\* A token and when the browser got it.
Cookie == [role : Roles, at : Nat, set : Nat]
Request == [nonce : Nonces, at : Nat \cup {None}, step : {"take", "admin", "guardian"},
            awaited : BOOLEAN]

SignInTypeOK ==
    /\ now \in Nat /\ faults \in Nat
    /\ held \subseteq Roles /\ lastAdmin \in Nat \cup {None}
    /\ challenges \in [Nonces -> Nat \cup {None}]
    /\ nonces \in 0 .. MaxNonces
    /\ verifies \subseteq Request
    /\ cookie \in Cookie \cup {None} /\ shownBy \in Cookie \cup {None}
    /\ screen \in Roles \cup {None}
    /\ flow \in Flows
    /\ sessions \in [Nonces -> Nat]

SignInInit ==
    /\ now = 0
    /\ held \in SUBSET Roles
    /\ lastAdmin = IF "admin" \in held THEN 0 ELSE None
    /\ challenges = [n \in Nonces |-> None]
    /\ nonces = 0
    /\ verifies = {}
    /\ cookie = None /\ screen = None /\ shownBy = None /\ flow = "mounting"
    /\ sessions = [n \in Nonces |-> 0]
    /\ faults = 0

Fault == faults < MaxFaults /\ faults' = faults + 1

-----------------------------------------------------------------------------
\* challenge.ts, store.ts.
ChallengeExpired(at) == now - at > ChallengeTtl

\* verifyChallengeResponse: the signature is the wallet's own.
VerifyChallengeResponse(at) == ~ChallengeExpired(at)

\* The button asks for a challenge: expired ones are pruned, then it is put.
GetChallenge ==
    /\ flow = "idle" /\ screen = None
    /\ nonces < MaxNonces
    /\ nonces' = nonces + 1
    /\ challenges' = [n \in Nonces |->
         IF n = nonces' THEN now
         ELSE IF challenges[n] # None /\ ChallengeExpired(challenges[n]) THEN None
         ELSE challenges[n]]
    /\ flow' = "wallet"
    /\ UNCHANGED <<chainVars, verifies, cookie, screenVars, sessions, faults>>

\* signMessage: the wallet declines, or fails, and the sign-in is off ...
WalletDeclines ==
    /\ flow = "wallet"
    /\ flow' = "idle"
    /\ UNCHANGED <<chainVars, serverVars, cookie, screenVars, faults>>

\* ... or it signs, and the signature is posted.
WalletSigns ==
    /\ flow = "wallet"
    /\ flow' = "verify"
    /\ verifies' = verifies \cup
         {[nonce |-> nonces, at |-> None, step |-> "take", awaited |-> TRUE]}
    /\ UNCHANGED <<chainVars, challenges, nonces, cookie, screenVars, sessions, faults>>

\* The same request reaches the server once more.
VerifyAgain ==
    /\ Fault
    /\ \E v \in verifies :
         verifies' = verifies \cup
           {[nonce |-> v.nonce, at |-> None, step |-> "take", awaited |-> FALSE]}
    /\ UNCHANGED <<chainVars, challenges, nonces, browserVars, sessions>>

-----------------------------------------------------------------------------
\* The verify route.  v is replaced by what it awaits next, or is answered.
Awaits(v, next) == verifies' = (verifies \ {v}) \cup {next}
Answered(v) ==
    /\ verifies' = verifies \ {v}
    /\ flow' = IF v.awaited THEN "idle" ELSE flow

\* Mutant of Taken: a challenge is consumed by a sign-in that succeeds.
TakenLater(n) == challenges
\* Single use: gone whether or not the rest succeeds.
Taken(n) == [challenges EXCEPT ![n] = None]

\* takeChallenge, and the check of the answer.
TakeChallenge(v) ==
    /\ v.step = "take"
    /\ challenges' = Taken(v.nonce)
    /\ IF challenges[v.nonce] # None /\ VerifyChallengeResponse(challenges[v.nonce])
       THEN Awaits(v, [v EXCEPT !.step = "admin", !.at = now]) /\ UNCHANGED flow
       ELSE Answered(v)
    /\ UNCHANGED <<chainVars, nonces, cookie, screenVars, sessions, faults>>

\* issueSessionToken, dated when the request was taken up, and the cookie, whose
\* age counts from now, if the browser still awaits the answer.
Issue(v, role) ==
    /\ sessions' = [sessions EXCEPT ![v.nonce] = @ + 1]
    /\ verifies' = verifies \ {v}
    /\ IF v.awaited
       THEN cookie' = [role |-> role, at |-> v.at, set |-> now] /\ flow' = "refresh"
       ELSE UNCHANGED <<cookie, flow>>

\* resolveDashboardRole: isVaultAdmin first, then isGuardian in a later call.
ReadAdmin(v) ==
    /\ v.step = "admin"
    /\ IF "admin" \in held THEN Issue(v, "admin")
       ELSE Awaits(v, [v EXCEPT !.step = "guardian"]) /\ UNCHANGED <<sessions, cookie, flow>>
    /\ UNCHANGED <<chainVars, challenges, nonces, screenVars, faults>>

ReadGuardian(v) ==
    /\ v.step = "guardian"
    /\ IF "guardian" \in held THEN Issue(v, "guardian")
       ELSE Answered(v) /\ UNCHANGED <<sessions, cookie>>
    /\ UNCHANGED <<chainVars, challenges, nonces, screenVars, faults>>

\* The reads fail, withRetry's attempts and all, or the answer is lost.
VerifyFails(v) ==
    /\ Fault
    /\ Answered(v)
    /\ UNCHANGED <<chainVars, challenges, nonces, cookie, screenVars, sessions>>

-----------------------------------------------------------------------------
\* Mutant of Expired: tokens do not age.
ExpiredNever(token) == FALSE
\* session.ts verifySessionToken.
Expired(token) == now - token.at > SessionTtl

\* getSession: the role a request with this cookie is served under, or None.
Session(sent) == IF sent = None \/ Expired(sent) THEN None ELSE sent.role

SignOut ==
    /\ flow = "idle" /\ screen # None
    /\ flow' = "delete"
    /\ UNCHANGED <<chainVars, serverVars, cookie, screenVars, faults>>

\* DELETE /api/auth/session takes the cookie away, and the token lives on.
Deleted ==
    /\ flow = "delete"
    /\ cookie' = None
    /\ flow' = "refresh"
    /\ UNCHANGED <<chainVars, serverVars, screenVars, faults>>

DeleteFails ==
    /\ flow = "delete"
    /\ Fault
    /\ flow' = "idle"
    /\ UNCHANGED <<chainVars, serverVars, cookie, screenVars>>

\* refresh, and the effect of the mounting page.
Refreshed ==
    /\ flow \in {"mounting", "refresh"}
    /\ screen' = Session(cookie)
    /\ shownBy' = IF Session(cookie) = None THEN None ELSE cookie
    /\ flow' = "idle"
    /\ UNCHANGED <<chainVars, serverVars, cookie, faults>>

\* Mutant of AfterFailure: the screen keeps what it shows.
AfterFailureKept == screen
\* "fails closed to not authenticated".
AfterFailure == None

RefreshFails ==
    /\ flow \in {"mounting", "refresh"}
    /\ Fault
    /\ screen' = AfterFailure /\ shownBy' = None
    /\ flow' = "idle"
    /\ UNCHANGED <<chainVars, serverVars, cookie>>

\* The page is loaded again: its requests are abandoned.
LoadPage ==
    /\ Fault
    /\ screen' = None /\ shownBy' = None
    /\ flow' = "mounting"
    /\ verifies' = {[v EXCEPT !.awaited = FALSE] : v \in verifies}
    /\ UNCHANGED <<chainVars, challenges, nonces, cookie, sessions>>

\* A restart of the server forgets the challenges and the requests it served.
RestartServer ==
    /\ Fault
    /\ challenges' = [n \in Nonces |-> None]
    /\ verifies' = {}
    /\ flow' = IF flow = "verify" THEN "idle" ELSE flow
    /\ UNCHANGED <<chainVars, nonces, cookie, screenVars, sessions>>

-----------------------------------------------------------------------------
\* Roles are granted and revoked.
ChangeRoles ==
    /\ held' \in SUBSET Roles /\ held' # held
    /\ lastAdmin' = IF "admin" \in held \cup held' THEN now ELSE lastAdmin
    /\ UNCHANGED <<now, serverVars, browserVars, faults>>

TooOld(c, time) == time - c.set >= CookieMaxAge

\* Time passes, and the browser drops a cookie that is too old.  The screen, which
\* has no timer, shows what it showed.
Tick ==
    /\ now < MaxTime
    /\ now' = now + 1
    /\ lastAdmin' = IF "admin" \in held THEN now' ELSE lastAdmin
    /\ cookie' = IF cookie # None /\ TooOld(cookie, now') THEN None ELSE cookie
    /\ UNCHANGED <<held, serverVars, screenVars, flow, faults>>

Verify(v) == TakeChallenge(v) \/ ReadAdmin(v) \/ ReadGuardian(v)
Awaited == Refreshed \/ Deleted \/ \E v \in verifies : Verify(v)

\* All but loading the page, which touches whatever else the page shows.
SignInStep ==
    \/ GetChallenge \/ WalletSigns \/ WalletDeclines \/ SignOut
    \/ Awaited
    \/ DeleteFails \/ RefreshFails \/ RestartServer
    \/ VerifyAgain \/ \E v \in verifies : VerifyFails(v)
    \/ ChangeRoles \/ Tick

-----------------------------------------------------------------------------
\* However often and however late the answer to a challenge arrives, one
\* session at most comes of it (store.ts: "consumed whether or not
\* verification ultimately succeeds").
OneSessionPerChallenge == \A n \in Nonces : sessions[n] <= 1

\* At rest a role on screen is the one of the browser's session, or of the session
\* it was answered for when that has since run out by age alone: no failed refresh,
\* failed sign-out, page load or restart leaves one there ("fails closed").  How
\* long an idle tab then goes on showing it has no bound.
RanOut(c) == Expired(c) \/ TooOld(c, now)
FailsClosed ==
    flow = "idle" /\ screen # None =>
        \/ Session(cookie) = screen
        \/ shownBy # None /\ shownBy.role = screen /\ RanOut(shownBy)
=============================================================================
