------------------------- MODULE AlertsPanelProofs --------------------------
(***************************************************************************)
(* Sign-in and alerts panel for every number of challenges, fetches and    *)
(* writes, every lifetime of challenges and sessions, and any length of    *)
(* time.                                                                   *)
(***************************************************************************)
EXTENDS AlertsPanel, TLAPS

\* A verify request past the challenge it took.
PastTake(v) == v.step # "take"

\* A challenge is open, or one request is past taking it, or its session was
\* issued, or none of these: never two.
ChallengesSpentOnce ==
    /\ \A n \in Nonces : challenges[n] # None =>
         n <= nonces /\ sessions[n] = 0 /\ \A v \in verifies : v.nonce = n => ~PastTake(v)
    /\ \A n \in Nonces : sessions[n] <= 1
    /\ \A v \in verifies : PastTake(v) => sessions[v.nonce] = 0
    /\ \A v, w \in verifies : PastTake(v) /\ PastTake(w) /\ v.nonce = w.nonce => v = w
    /\ \A v \in verifies : v.nonce <= nonces
    /\ \A n \in Nonces : n > nonces => sessions[n] = 0

\* The tab awaits one verify request at most, and only while the button does.
OneAwaited ==
    /\ \A v \in verifies : v.awaited => flow = "verify"
    /\ \A v, w \in verifies : v.awaited /\ w.awaited => v = w
    /\ flow = "wallet" => nonces > 0

\* While it signs in, the screen shows no role; at rest and while it signs out,
\* that of the cookie, or of the one the browser has dropped for its age.
ScreenHasSession ==
    /\ flow \in {"wallet", "verify"} => screen = None
    /\ flow \in {"idle", "delete"} /\ screen # None =>
         /\ shownBy # None /\ shownBy.role = screen
         /\ cookie = shownBy \/ (cookie = None /\ TooOld(shownBy, now))

\* An admin's token is dated before the address was last an admin.
Dated(token) ==
    token # None /\ token.role = "admin" => lastAdmin # None /\ token.at <= lastAdmin

TokensDated ==
    /\ lastAdmin # None => lastAdmin <= now
    /\ "admin" \in held => lastAdmin = now
    /\ \A v \in verifies : PastTake(v) => v.at # None /\ v.at <= now
    /\ Dated(cookie)

SignInInv ==
    /\ SignInTypeOK
    /\ ChallengesSpentOnce
    /\ OneAwaited
    /\ ScreenHasSession
    /\ TokensDated

-----------------------------------------------------------------------------
LEMMA NoneIsNothingElse == None \notin Nat /\ None # "admin" /\ None # "guardian"
  BY SignInAssumption

\* An edited request is still one.
LEMMA RequestEdits ==
    ASSUME NEW v \in Request
    PROVE  /\ [v EXCEPT !.awaited = FALSE] \in Request
           /\ [v EXCEPT !.awaited = FALSE].nonce = v.nonce
           /\ [v EXCEPT !.awaited = FALSE].at = v.at
           /\ [v EXCEPT !.awaited = FALSE].step = v.step
           /\ [v EXCEPT !.awaited = FALSE].awaited = FALSE
           /\ [v EXCEPT !.step = "guardian"] \in Request
           /\ [v EXCEPT !.step = "guardian"].nonce = v.nonce
           /\ [v EXCEPT !.step = "guardian"].at = v.at
           /\ [v EXCEPT !.step = "guardian"].step = "guardian"
           /\ [v EXCEPT !.step = "guardian"].awaited = v.awaited
  BY DEF Request

LEMMA RequestFields ==
    ASSUME NEW v \in Request
    PROVE  /\ v.nonce \in Nonces /\ v.at \in Nat \cup {None} /\ v.awaited \in BOOLEAN
           /\ v.step \in {"take", "admin", "guardian"}
  BY DEF Request

LEMMA SignInInitInv == SignInInit => SignInInv
<1> SUFFICES ASSUME SignInInit PROVE SignInInv
  OBVIOUS
<1>1. SignInTypeOK
  BY SignInAssumption DEF SignInInit, SignInTypeOK, Flows, Nonces
<1>2. ChallengesSpentOnce
  BY DEF SignInInit, ChallengesSpentOnce
<1>3. OneAwaited /\ ScreenHasSession
  BY DEF SignInInit, OneAwaited, ScreenHasSession
<1>4. TokensDated
  BY DEF SignInInit, TokensDated, Dated
<1> QED
  BY <1>1, <1>2, <1>3, <1>4 DEF SignInInv

\* A fault elsewhere, or a step of something else, touches nothing of it.
LEMMA SignInFault ==
    ASSUME SignInInv, faults' \in Nat, UNCHANGED <<chainVars, serverVars, browserVars>>
    PROVE  SignInInv'
  BY DEF SignInInv, SignInTypeOK, ChallengesSpentOnce, PastTake, OneAwaited,
         ScreenHasSession, TooOld, TokensDated, Dated, chainVars, serverVars, browserVars,
         screenVars

LEMMA SignInIdle ==
    ASSUME SignInInv, UNCHANGED signInVars
    PROVE  SignInInv'
  BY SignInFault DEF SignInInv, SignInTypeOK, signInVars

\* Requests answered, given up or cut off from the tab, and nothing issued.
LEMMA FewerRequests ==
    ASSUME SignInInv, verifies' \subseteq Request,
           \A v \in verifies' : \E w \in verifies :
               /\ v.nonce = w.nonce /\ v.at = w.at /\ v.step = w.step,
           \A v, w \in verifies' : PastTake(v) /\ PastTake(w) /\ v.nonce = w.nonce => v = w,
           UNCHANGED <<chainVars, nonces, sessions, cookie>>,
           \A n \in Nonces : challenges'[n] # None => challenges'[n] = challenges[n]
    PROVE  ChallengesSpentOnce' /\ TokensDated'
<1>1. ChallengesSpentOnce'
  BY DEF SignInInv, ChallengesSpentOnce, PastTake
<1>2. TokensDated'
  BY DEF SignInInv, TokensDated, PastTake, Dated, chainVars
<1> QED
  BY <1>1, <1>2

-----------------------------------------------------------------------------
LEMMA GetChallengeInv ==
    ASSUME SignInInv, GetChallenge
    PROVE  SignInInv'
<1>1. /\ nonces' = nonces + 1 /\ nonces < MaxNonces /\ flow' = "wallet"
      /\ flow = "idle" /\ screen = None
      /\ now' = now /\ held' = held /\ lastAdmin' = lastAdmin /\ verifies' = verifies
      /\ cookie' = cookie /\ screen' = screen /\ shownBy' = shownBy
      /\ sessions' = sessions /\ faults' = faults
      /\ challenges' = [n \in Nonces |->
           IF n = nonces' THEN now
           ELSE IF challenges[n] # None /\ ChallengeExpired(challenges[n]) THEN None
           ELSE challenges[n]]
  BY DEF GetChallenge, chainVars, screenVars
<1>2. now \in Nat /\ nonces \in Nat /\ nonces' \in 0 .. MaxNonces
  BY <1>1, SignInAssumption DEF SignInInv, SignInTypeOK
<1>3. challenges' \in [Nonces -> Nat \cup {None}]
  BY <1>1, <1>2 DEF SignInInv, SignInTypeOK
<1>4. SignInTypeOK'
  BY <1>1, <1>2, <1>3 DEF SignInInv, SignInTypeOK, Flows, screenVars
<1>5. \A n \in Nonces : n # nonces' /\ challenges'[n] # None => challenges[n] # None
  BY <1>1
<1>6. \A v \in verifies : v.nonce \in Nat /\ v.nonce <= nonces
  BY RequestFields DEF SignInInv, SignInTypeOK, ChallengesSpentOnce, Nonces
<1>7. ChallengesSpentOnce'
  <2>1. \A n \in Nonces : challenges'[n] # None =>
          /\ n <= nonces' /\ sessions[n] = 0
          /\ \A v \in verifies : v.nonce = n => ~PastTake(v)
    <3> TAKE n \in Nonces
    <3> HAVE challenges'[n] # None
    <3>1. CASE n = nonces'
      BY <1>1, <1>2, <1>6, <3>1 DEF SignInInv, ChallengesSpentOnce
    <3>2. CASE n # nonces'
      <4>1. challenges[n] # None /\ n \in Nat
        BY <1>5, <3>2 DEF Nonces
      <4> QED
        BY <1>1, <1>2, <4>1 DEF SignInInv, ChallengesSpentOnce
    <3> QED
      BY <3>1, <3>2
  <2>2. /\ \A v \in verifies : v.nonce <= nonces'
        /\ \A n \in Nonces : n > nonces' => sessions[n] = 0
    BY <1>1, <1>2, <1>6 DEF SignInInv, ChallengesSpentOnce, Nonces
  <2> QED
    BY <1>1, <2>1, <2>2 DEF SignInInv, ChallengesSpentOnce, PastTake
<1>8. OneAwaited' /\ ScreenHasSession'
  BY <1>1, <1>2 DEF SignInInv, OneAwaited, ScreenHasSession, TooOld, chainVars, screenVars
<1>9. TokensDated'
  BY <1>1 DEF SignInInv, TokensDated, Dated, PastTake
<1> QED
  BY <1>4, <1>7, <1>8, <1>9 DEF SignInInv

\* The button moves on, and the server is not concerned.
LEMMA ButtonInv ==
    ASSUME SignInInv, UNCHANGED <<chainVars, serverVars, cookie>>, faults' \in Nat,
           flow # "verify", flow' \in {"idle", "delete"}, screen' \in Roles \cup {None},
           shownBy' \in Cookie \cup {None}, ScreenHasSession'
    PROVE  SignInInv'
<1>1. SignInTypeOK'
  BY DEF SignInInv, SignInTypeOK, chainVars, serverVars, Flows, screenVars
<1>2. ChallengesSpentOnce'
  BY DEF SignInInv, ChallengesSpentOnce, PastTake, serverVars
<1>3. OneAwaited'
  BY DEF SignInInv, OneAwaited, serverVars
<1>4. TokensDated'
  BY DEF SignInInv, TokensDated, Dated, PastTake, chainVars, serverVars
<1> QED
  BY <1>1, <1>2, <1>3, <1>4 DEF SignInInv

LEMMA BrowserInv ==
    ASSUME SignInInv,
           WalletDeclines \/ SignOut \/ DeleteFails \/ Refreshed \/ RefreshFails
    PROVE  SignInInv'
<1>1. /\ UNCHANGED <<chainVars, serverVars, cookie>> /\ faults' \in Nat
      /\ flow # "verify" /\ flow' \in {"idle", "delete"}
  BY DEF WalletDeclines, SignOut, DeleteFails, Refreshed, RefreshFails, Fault,
         SignInInv, SignInTypeOK
<1>2. /\ screen' \in Roles \cup {None} /\ shownBy' \in Cookie \cup {None}
      /\ ScreenHasSession'
  <2>1. CASE WalletDeclines \/ SignOut \/ DeleteFails
    BY <2>1 DEF WalletDeclines, SignOut, DeleteFails, SignInInv, SignInTypeOK,
                ScreenHasSession, screenVars, chainVars, TooOld
  <2>2. CASE Refreshed
    BY <2>2 DEF Refreshed, Session, SignInInv, SignInTypeOK, ScreenHasSession, Cookie
  <2>3. CASE RefreshFails
    BY <2>3 DEF RefreshFails, AfterFailure, ScreenHasSession
  <2> QED
    BY <2>1, <2>2, <2>3
<1> QED
  BY <1>1, <1>2, ButtonInv

LEMMA DeletedInv ==
    ASSUME SignInInv, Deleted
    PROVE  SignInInv'
<1>1. /\ flow = "delete" /\ cookie' = None /\ flow' = "refresh"
      /\ UNCHANGED <<chainVars, serverVars, screenVars, faults>>
  BY DEF Deleted
<1>2. SignInTypeOK'
  BY <1>1 DEF SignInInv, SignInTypeOK, chainVars, serverVars, Flows, screenVars
<1>3. ChallengesSpentOnce' /\ OneAwaited'
  BY <1>1 DEF SignInInv, ChallengesSpentOnce, PastTake, OneAwaited, serverVars
<1>4. ScreenHasSession' /\ TokensDated'
  BY <1>1 DEF SignInInv, ScreenHasSession, TokensDated, Dated, PastTake, chainVars,
              serverVars, TooOld, screenVars
<1> QED
  BY <1>2, <1>3, <1>4 DEF SignInInv

LEMMA WalletSignsInv ==
    ASSUME SignInInv, WalletSigns
    PROVE  SignInInv'
<1> DEFINE v == [nonce |-> nonces, at |-> None, step |-> "take", awaited |-> TRUE]
<1>1. /\ flow = "wallet" /\ flow' = "verify" /\ verifies' = verifies \cup {v}
      /\ UNCHANGED <<chainVars, challenges, nonces, cookie, screenVars, sessions, faults>>
  BY DEF WalletSigns
<1>2. nonces \in Nonces /\ nonces <= nonces
  BY <1>1 DEF SignInInv, SignInTypeOK, OneAwaited, Nonces
<1>3. v \in Request /\ v.nonce = nonces /\ v.awaited = TRUE /\ ~PastTake(v)
  BY <1>2 DEF Request, PastTake
<1>4. \A w \in verifies : ~w.awaited
  BY <1>1, RequestFields DEF SignInInv, SignInTypeOK, OneAwaited
<1> HIDE DEF v
<1>5. SignInTypeOK'
  BY <1>1, <1>3 DEF SignInInv, SignInTypeOK, Flows, chainVars, screenVars
<1>6. ChallengesSpentOnce'
  BY <1>1, <1>2, <1>3 DEF SignInInv, ChallengesSpentOnce, PastTake
<1>7. OneAwaited'
  BY <1>1, <1>3, <1>4 DEF SignInInv, OneAwaited
<1>8. ScreenHasSession' /\ TokensDated'
  BY <1>1, <1>3 DEF SignInInv, ScreenHasSession, TokensDated, Dated, PastTake, chainVars,
              TooOld, screenVars
<1> QED
  BY <1>5, <1>6, <1>7, <1>8 DEF SignInInv

LEMMA VerifyAgainInv ==
    ASSUME SignInInv, VerifyAgain
    PROVE  SignInInv'
<1>1. PICK w \in verifies : verifies' = verifies \cup
          {[nonce |-> w.nonce, at |-> None, step |-> "take", awaited |-> FALSE]}
  BY DEF VerifyAgain
<1> DEFINE v == [nonce |-> w.nonce, at |-> None, step |-> "take", awaited |-> FALSE]
<1>2. /\ UNCHANGED <<chainVars, challenges, nonces, browserVars, sessions>>
      /\ faults' \in Nat /\ verifies' = verifies \cup {v}
  BY <1>1 DEF VerifyAgain, Fault, SignInInv, SignInTypeOK
<1>3. w.nonce \in Nonces
  BY RequestFields DEF SignInInv, SignInTypeOK
<1>4. v \in Request /\ v.nonce = w.nonce /\ v.awaited = FALSE /\ ~PastTake(v)
  BY <1>3 DEF Request, PastTake
<1> HIDE DEF v
<1>5. SignInTypeOK'
  BY <1>2, <1>4 DEF SignInInv, SignInTypeOK, chainVars, browserVars, screenVars
<1>6. ChallengesSpentOnce'
  BY <1>2, <1>4 DEF SignInInv, ChallengesSpentOnce, PastTake
<1>7. OneAwaited'
  BY <1>2, <1>4 DEF SignInInv, OneAwaited, browserVars
<1>8. ScreenHasSession' /\ TokensDated'
  BY <1>2, <1>4 DEF SignInInv, ScreenHasSession, TokensDated, Dated, PastTake, chainVars,
                    browserVars, TooOld, screenVars
<1> QED
  BY <1>5, <1>6, <1>7, <1>8 DEF SignInInv

-----------------------------------------------------------------------------
\* A request is answered without a session.
LEMMA AnsweredInv ==
    ASSUME SignInInv, NEW v \in verifies, Answered(v),
           UNCHANGED <<chainVars, nonces, sessions, cookie, screenVars>>, faults' \in Nat,
           challenges' \in [Nonces -> Nat \cup {None}],
           \A n \in Nonces : challenges'[n] # None => challenges'[n] = challenges[n]
    PROVE  SignInInv'
<1>1. /\ verifies' = verifies \ {v}
      /\ v.awaited => flow' = "idle"
      /\ ~v.awaited => flow' = flow
  BY DEF Answered
<1>2. v.awaited \in BOOLEAN
  BY RequestFields DEF SignInInv, SignInTypeOK
<1>3. SignInTypeOK'
  BY <1>1, <1>2 DEF SignInInv, SignInTypeOK, Flows, chainVars, screenVars
<1>4. ChallengesSpentOnce' /\ TokensDated'
  BY <1>1, FewerRequests DEF SignInInv, SignInTypeOK, ChallengesSpentOnce
<1>5. OneAwaited' /\ ScreenHasSession'
  BY <1>1, <1>2 DEF SignInInv, OneAwaited, ScreenHasSession, TooOld, chainVars, screenVars
<1> QED
  BY <1>3, <1>4, <1>5 DEF SignInInv

\* A request past its challenge goes on to its next read.
LEMMA AwaitsInv ==
    ASSUME SignInInv, NEW v \in verifies, NEW next \in Request, Awaits(v, next),
           next.nonce = v.nonce, next.awaited = v.awaited, PastTake(next),
           next.at # None, next.at <= now,
           \A w \in verifies : PastTake(w) /\ w.nonce = v.nonce => w = v,
           sessions[v.nonce] = 0,
           UNCHANGED <<chainVars, nonces, sessions, browserVars, faults>>,
           challenges' \in [Nonces -> Nat \cup {None}],
           \A n \in Nonces : challenges'[n] # None =>
               challenges'[n] = challenges[n] /\ n # v.nonce
    PROVE  SignInInv'
<1>1. verifies' = (verifies \ {v}) \cup {next}
  BY DEF Awaits
<1>2. SignInTypeOK'
  BY <1>1 DEF SignInInv, SignInTypeOK, chainVars, browserVars, screenVars
<1>3. ChallengesSpentOnce'
  <2>1. /\ \A n \in Nonces : challenges'[n] # None =>
             n <= nonces /\ sessions[n] = 0 /\ \A w \in verifies' : w.nonce = n => ~PastTake(w)
        /\ \A w \in verifies' : PastTake(w) => sessions[w.nonce] = 0
        /\ \A w \in verifies' : w.nonce <= nonces
    BY <1>1 DEF SignInInv, ChallengesSpentOnce
  <2>2. \A w, x \in verifies' : PastTake(w) /\ PastTake(x) /\ w.nonce = x.nonce => w = x
    BY <1>1 DEF SignInInv, ChallengesSpentOnce
  <2> QED
    BY <2>1, <2>2 DEF SignInInv, ChallengesSpentOnce, PastTake
<1>4. OneAwaited' /\ ScreenHasSession'
  BY <1>1 DEF SignInInv, OneAwaited, ScreenHasSession, browserVars,
              TooOld, chainVars, screenVars
<1>5. TokensDated'
  BY <1>1 DEF SignInInv, TokensDated, Dated, PastTake, chainVars, browserVars
<1> QED
  BY <1>2, <1>3, <1>4, <1>5 DEF SignInInv

\* A session is issued for a role read from the chain now.
LEMMA IssueInv ==
    ASSUME SignInInv, NEW v \in verifies, NEW role \in Roles, Issue(v, role),
           PastTake(v), role \in held,
           UNCHANGED <<chainVars, challenges, nonces, screenVars, faults>>
    PROVE  SignInInv'
<1>1. /\ sessions' = [sessions EXCEPT ![v.nonce] = @ + 1]
      /\ verifies' = verifies \ {v}
      /\ v.awaited => cookie' = [role |-> role, at |-> v.at, set |-> now] /\ flow' = "refresh"
      /\ ~v.awaited => cookie' = cookie /\ flow' = flow
  BY DEF Issue
<1>2. /\ v.awaited \in BOOLEAN /\ v.nonce \in Nonces /\ v.at \in Nat /\ v.at <= now
      /\ sessions[v.nonce] = 0 /\ challenges[v.nonce] = None
      /\ v.nonce <= nonces
      /\ \A w \in verifies : PastTake(w) /\ w.nonce = v.nonce => w = v
  BY RequestFields DEF SignInInv, SignInTypeOK, TokensDated, ChallengesSpentOnce
<1>3. /\ sessions' \in [Nonces -> Nat] /\ sessions'[v.nonce] = 1
      /\ \A n \in Nonces : n # v.nonce => sessions'[n] = sessions[n]
  BY <1>1, <1>2 DEF SignInInv, SignInTypeOK
<1>4. SignInTypeOK'
  BY <1>1, <1>2, <1>3 DEF SignInInv, SignInTypeOK, chainVars, Cookie, Flows, screenVars
<1>5. ChallengesSpentOnce'
  <2>1. \A w \in verifies' : PastTake(w) => w.nonce # v.nonce
    BY <1>1, <1>2
  <2>2. \A w \in verifies' : w.nonce \in Nonces
    BY <1>1, RequestFields DEF SignInInv, SignInTypeOK
  <2>3. nonces \in Nat /\ v.nonce \in Nat
    BY <1>2, SignInAssumption DEF SignInInv, SignInTypeOK, Nonces
  <2>4. \A n \in Nonces : n \in Nat
    BY DEF Nonces
  <2>5. \A n \in Nonces : n > nonces => n # v.nonce
    BY <1>2, <2>3, <2>4
  <2>6. \A n \in Nonces : challenges[n] # None => n # v.nonce
    BY <1>2
  <2>7. \A n \in Nonces : sessions'[n] <= 1
    BY <1>3 DEF SignInInv, ChallengesSpentOnce
  <2> QED
    BY <1>1, <1>3, <2>1, <2>2, <2>5, <2>6, <2>7
    DEF SignInInv, ChallengesSpentOnce, PastTake
<1>6. OneAwaited' /\ ScreenHasSession'
  BY <1>1, <1>2 DEF SignInInv, OneAwaited, ScreenHasSession, TooOld, chainVars, screenVars
<1>7. TokensDated'
  <2>1. Dated(cookie')
    <3>1. CASE v.awaited
      <4>1. cookie'.at = v.at /\ cookie'.role = role
        BY <1>1, <3>1
      <4>2. role = "admin" => lastAdmin = now
        BY DEF SignInInv, TokensDated
      <4>3. now # None
        BY SignInAssumption DEF SignInInv, SignInTypeOK
      <4> QED
        BY <1>2, <4>1, <4>2, <4>3 DEF Dated
    <3>2. CASE ~v.awaited
      BY <1>1, <3>2 DEF SignInInv, TokensDated
    <3> QED
      BY <1>2, <3>1, <3>2
  <2> QED
    BY <1>1, <2>1 DEF SignInInv, TokensDated, Dated, PastTake, chainVars
<1> QED
  BY <1>4, <1>5, <1>6, <1>7 DEF SignInInv

LEMMA TakeChallengeInv ==
    ASSUME SignInInv, NEW v \in verifies, TakeChallenge(v)
    PROVE  SignInInv'
<1> DEFINE next == [v EXCEPT !.step = "admin", !.at = now]
           taken == challenges[v.nonce] # None /\ VerifyChallengeResponse(challenges[v.nonce])
<1>1. /\ challenges' = [challenges EXCEPT ![v.nonce] = None]
      /\ UNCHANGED <<chainVars, nonces, cookie, screenVars, sessions, faults>>
      /\ taken => Awaits(v, next) /\ flow' = flow
      /\ ~taken => Answered(v)
  BY DEF TakeChallenge, Taken
<1>2. /\ v \in Request /\ v.nonce \in Nonces /\ now \in Nat /\ now # None
      /\ faults' \in Nat
  BY <1>1, RequestFields, SignInAssumption DEF SignInInv, SignInTypeOK
<1>3. /\ challenges' \in [Nonces -> Nat \cup {None}]
      /\ \A n \in Nonces : challenges'[n] # None =>
           challenges'[n] = challenges[n] /\ n # v.nonce
  BY <1>1, <1>2 DEF SignInInv, SignInTypeOK
<1>4. CASE taken
  <2>1. /\ next \in Request /\ next.nonce = v.nonce /\ next.awaited = v.awaited
        /\ next.at = now /\ next.step = "admin"
    BY <1>2 DEF Request
  <2> HIDE DEF next
  <2>2. PastTake(next) /\ next.at # None /\ next.at <= now
    BY <1>2, <2>1 DEF PastTake
  <2>3. /\ sessions[v.nonce] = 0
        /\ \A w \in verifies : PastTake(w) /\ w.nonce = v.nonce => w = v
    BY <1>2, <1>4 DEF SignInInv, ChallengesSpentOnce
  <2>4. UNCHANGED <<chainVars, nonces, sessions, browserVars, faults>>
    BY <1>1, <1>4 DEF browserVars
  <2> QED
    BY <1>1, <1>3, <1>4, <2>1, <2>2, <2>3, <2>4, AwaitsInv
<1>5. CASE ~taken
  BY <1>1, <1>2, <1>3, <1>5, AnsweredInv
<1> QED
  BY <1>4, <1>5

LEMMA ReadRoleInv ==
    ASSUME SignInInv, NEW v \in verifies, ReadAdmin(v) \/ ReadGuardian(v)
    PROVE  SignInInv'
<1>1. /\ UNCHANGED <<chainVars, challenges, nonces, screenVars, faults>>
      /\ PastTake(v) /\ v \in Request /\ v.nonce \in Nonces /\ faults' \in Nat
      /\ challenges' \in [Nonces -> Nat \cup {None}]
      /\ challenges[v.nonce] = None /\ sessions[v.nonce] = 0
      /\ \A w \in verifies : PastTake(w) /\ w.nonce = v.nonce => w = v
      /\ v.at # None /\ v.at <= now
  BY RequestFields DEF ReadAdmin, ReadGuardian, PastTake, SignInInv, SignInTypeOK,
                       ChallengesSpentOnce, TokensDated
<1>2. CASE Issue(v, "admin") /\ "admin" \in held
  BY <1>1, <1>2, IssueInv DEF Roles
<1>3. CASE Issue(v, "guardian") /\ "guardian" \in held
  BY <1>1, <1>3, IssueInv DEF Roles
<1>4. CASE Answered(v) /\ UNCHANGED <<sessions, cookie>>
  BY <1>1, <1>4, AnsweredInv
<1>5. CASE /\ Awaits(v, [v EXCEPT !.step = "guardian"])
           /\ UNCHANGED <<sessions, cookie, flow>>
  <2> DEFINE next == [v EXCEPT !.step = "guardian"]
  <2>1. /\ next \in Request /\ next.nonce = v.nonce /\ next.awaited = v.awaited
        /\ next.at = v.at /\ next.step = "guardian" /\ Awaits(v, next)
    BY <1>1, <1>5, RequestEdits
  <2> HIDE DEF next
  <2>2. PastTake(next) /\ UNCHANGED browserVars
    BY <1>1, <1>5, <2>1 DEF PastTake, browserVars
  <2>3. UNCHANGED <<chainVars, nonces, sessions, browserVars, faults>>
    BY <1>1, <1>5, <2>2
  <2>4. \A n \in Nonces : challenges'[n] # None => challenges'[n] = challenges[n] /\ n # v.nonce
    BY <1>1
  <2> QED
    BY <1>1, <2>1, <2>2, <2>3, <2>4, AwaitsInv
<1> QED
  BY <1>2, <1>3, <1>4, <1>5 DEF ReadAdmin, ReadGuardian

LEMMA VerifyFailsInv ==
    ASSUME SignInInv, NEW v \in verifies, VerifyFails(v)
    PROVE  SignInInv'
<1>1. /\ Answered(v) /\ UNCHANGED <<chainVars, nonces, sessions, cookie, screenVars>>
      /\ challenges' = challenges /\ faults' \in Nat
      /\ challenges' \in [Nonces -> Nat \cup {None}]
  BY DEF VerifyFails, Fault, SignInInv, SignInTypeOK
<1> QED
  BY <1>1, AnsweredInv

LEMMA RestartServerInv ==
    ASSUME SignInInv, RestartServer
    PROVE  SignInInv'
<1>1. /\ UNCHANGED <<chainVars, nonces, cookie, screenVars, sessions>> /\ faults' \in Nat
      /\ verifies' = {} /\ flow' = (IF flow = "verify" THEN "idle" ELSE flow)
      /\ challenges' \in [Nonces -> Nat \cup {None}]
      /\ \A n \in Nonces : challenges'[n] = None
  BY DEF RestartServer, Fault, SignInInv, SignInTypeOK
<1>2. SignInTypeOK'
  BY <1>1 DEF SignInInv, SignInTypeOK, Flows, chainVars, screenVars
<1>3. ChallengesSpentOnce' /\ TokensDated'
  BY <1>1, FewerRequests
<1>4. OneAwaited' /\ ScreenHasSession'
  BY <1>1 DEF SignInInv, OneAwaited, ScreenHasSession, TooOld, chainVars, screenVars
<1> QED
  BY <1>2, <1>3, <1>4 DEF SignInInv

LEMMA LoadPageInv ==
    ASSUME SignInInv, LoadPage
    PROVE  SignInInv'
<1>1. /\ UNCHANGED <<chainVars, challenges, nonces, cookie, sessions>> /\ faults' \in Nat
      /\ verifies' = {[v EXCEPT !.awaited = FALSE] : v \in verifies}
      /\ flow' = "mounting" /\ screen' = None /\ shownBy' = None
  BY DEF LoadPage, Fault, SignInInv, SignInTypeOK
<1>2. \A v \in verifies : v \in Request
  BY DEF SignInInv, SignInTypeOK
<1>3. verifies' \subseteq Request /\ \A w \in verifies' : w.awaited = FALSE
  BY <1>1, <1>2, RequestEdits
<1>4. \A w \in verifies' : \E v \in verifies :
         w.nonce = v.nonce /\ w.at = v.at /\ w.step = v.step
  <2> TAKE w \in verifies'
  <2>1. PICK v \in verifies : w = [v EXCEPT !.awaited = FALSE]
    BY <1>1
  <2>2. w.nonce = v.nonce /\ w.at = v.at /\ w.step = v.step
    BY <1>2, <2>1, RequestEdits
  <2> QED
    BY <2>2
<1>5. ASSUME NEW w \in verifies', NEW x \in verifies', PastTake(w), PastTake(x),
             w.nonce = x.nonce
      PROVE  w = x
  <2>1. PICK v \in verifies : w = [v EXCEPT !.awaited = FALSE]
    BY <1>1
  <2>2. PICK u \in verifies : x = [u EXCEPT !.awaited = FALSE]
    BY <1>1
  <2>3. v.nonce = u.nonce /\ PastTake(v) /\ PastTake(u)
    BY <1>2, <1>5, <2>1, <2>2, RequestEdits DEF PastTake
  <2>4. v = u
    BY <2>3 DEF SignInInv, ChallengesSpentOnce
  <2> QED
    BY <2>1, <2>2, <2>4
<1>6. SignInTypeOK'
  BY <1>1, <1>3 DEF SignInInv, SignInTypeOK, Flows, chainVars, screenVars
<1>7. ChallengesSpentOnce' /\ TokensDated'
  BY <1>1, <1>3, <1>4, <1>5, FewerRequests
<1>8. OneAwaited' /\ ScreenHasSession'
  BY <1>1, <1>3 DEF OneAwaited, ScreenHasSession, TooOld, chainVars, screenVars
<1> QED
  BY <1>6, <1>7, <1>8 DEF SignInInv

\* A date an address was an admin at is forgotten for a later one only.
LEMMA DatedKept ==
    ASSUME SignInInv, ChangeRoles \/ Tick \/ UNCHANGED chainVars,
           NEW token \in Cookie \cup {None}, Dated(token)
    PROVE  token # None /\ token.role = "admin" => lastAdmin' # None /\ token.at <= lastAdmin'
<1>1. /\ now \in Nat /\ lastAdmin \in Nat \cup {None} /\ None \notin Nat
      /\ lastAdmin # None => lastAdmin <= now
  BY SignInAssumption DEF SignInInv, SignInTypeOK, TokensDated
<1>2. lastAdmin # None => lastAdmin' \in Nat /\ lastAdmin <= lastAdmin'
  BY <1>1 DEF ChangeRoles, Tick, chainVars
<1> SUFFICES ASSUME token # None, token.role = "admin"
             PROVE  lastAdmin' # None /\ token.at <= lastAdmin'
  OBVIOUS
<1>3. token.at \in Nat /\ lastAdmin \in Nat /\ token.at <= lastAdmin
  BY <1>1 DEF Cookie, Dated
<1> QED
  BY <1>1, <1>2, <1>3

LEMMA ChainInv ==
    ASSUME SignInInv, ChangeRoles \/ Tick
    PROVE  SignInInv'
<1>1. /\ UNCHANGED <<serverVars, screenVars, flow, faults>> /\ now' \in Nat /\ now <= now'
      /\ held' \subseteq Roles /\ lastAdmin' \in Nat \cup {None}
      /\ now \in Nat
  BY DEF ChangeRoles, Tick, SignInInv, SignInTypeOK, browserVars
<1>2. cookie' = cookie \/ (cookie' = None /\ cookie # None /\ TooOld(cookie, now'))
  BY DEF ChangeRoles, Tick, browserVars
<1>3. SignInTypeOK'
  BY <1>1, <1>2 DEF SignInInv, SignInTypeOK, serverVars, screenVars
<1>4. ChallengesSpentOnce' /\ OneAwaited'
  BY <1>1 DEF SignInInv, ChallengesSpentOnce, PastTake, OneAwaited, serverVars
<1>5. ScreenHasSession'
  <2>1. shownBy # None /\ TooOld(shownBy, now) => TooOld(shownBy, now')
    <3>1. shownBy # None => shownBy.set \in Nat
      BY DEF SignInInv, SignInTypeOK, Cookie
    <3> QED
      BY <1>1, <3>1, SignInAssumption DEF TooOld
  <2> QED
    BY <1>1, <1>2, <2>1 DEF SignInInv, ScreenHasSession, screenVars
<1>6. /\ lastAdmin' # None => lastAdmin' <= now'
      /\ "admin" \in held' => lastAdmin' = now'
  BY <1>1 DEF ChangeRoles, Tick, SignInInv, SignInTypeOK, TokensDated
<1>7. Dated(cookie)'
  BY <1>2, DatedKept DEF SignInInv, SignInTypeOK, TokensDated, Dated
<1>8. \A v \in verifies : PastTake(v) => v.at # None /\ v.at <= now'
  BY <1>1, RequestFields, SignInAssumption DEF SignInInv, SignInTypeOK, TokensDated
<1>9. TokensDated'
  BY <1>1, <1>6, <1>7, <1>8 DEF TokensDated, PastTake, serverVars
<1> QED
  BY <1>3, <1>4, <1>5, <1>9 DEF SignInInv

LEMMA SignInStepInv ==
    ASSUME SignInInv, SignInStep
    PROVE  SignInInv'
<1>1. CASE GetChallenge \/ WalletSigns \/ VerifyAgain \/ RestartServer
  BY <1>1, GetChallengeInv, WalletSignsInv, VerifyAgainInv, RestartServerInv
<1>2. CASE WalletDeclines \/ SignOut \/ DeleteFails \/ RefreshFails \/ ChangeRoles \/ Tick
  BY <1>2, BrowserInv, ChainInv
<1>3. CASE Awaited
  BY <1>3, BrowserInv, DeletedInv, TakeChallengeInv, ReadRoleInv DEF Awaited, Verify
<1>4. CASE \E v \in verifies : VerifyFails(v)
  BY <1>4, VerifyFailsInv
<1> QED
  BY <1>1, <1>2, <1>3, <1>4 DEF SignInStep

-----------------------------------------------------------------------------
\* An answer is of a write that was made, each run of the effect has one fetch,
\* and the one in force brings nothing older than what is shown.
AnswersAreOfWrites ==
    /\ \A f \in fetches : f.answer \notin {Unserved, Failure} => f.answer.version <= file.version
    /\ data # Nothing => data.version <= file.version

OneFetchPerRun ==
    /\ \A f \in fetches : f.run <= runs
    /\ \A f, g \in fetches : f.run = g.run => f = g

CurrentIsNewest ==
    /\ current <= runs
    /\ \A f \in fetches :
         f.run = current /\ f.answer \notin {Unserved, Failure} /\ data # Nothing
           => data.version <= f.answer.version

\* The cookies that saves were sent with are dated like the tab's own, and whoever
\* was admitted with one was an admin at most SessionTtl before.
WasAdmin(admission) ==
    admission # None =>
        admission.lastAdmin # None /\ admission.at - admission.lastAdmin <= SessionTtl
PutOK(p) == Dated(p.sent) /\ WasAdmin(p.admitted)
PutsAreAdmins == \A p \in puts : PutOK(p)

PanelInv ==
    /\ TypeOK
    /\ SignInInv
    /\ AnswersAreOfWrites
    /\ OneFetchPerRun
    /\ CurrentIsNewest
    /\ PutsAreAdmins
    /\ WasAdmin(file.by)

ResourceOK == AnswersAreOfWrites /\ OneFetchPerRun /\ CurrentIsNewest
ResourceTypes ==
    /\ current \in Nat /\ runs \in Nat /\ reloadToken \in Nat
    /\ fetches \subseteq Fetch
    /\ data \in Documents \cup {Nothing}

LEMMA FetchFields ==
    ASSUME NEW f \in Fetch
    PROVE  /\ f.run \in Nat \ {0} /\ f.key \in Nat /\ f.sent \in Cookie \cup {None}
           /\ f.answer \in Answers
           /\ \A a \in Answers : /\ [f EXCEPT !.answer = a] \in Fetch
                                 /\ [f EXCEPT !.answer = a].run = f.run
                                 /\ [f EXCEPT !.answer = a].answer = a
  BY DEF Fetch

\* Each step of the hook keeps what it owes, for a file that only gains writes.
LEMMA RerunInv ==
    ASSUME PanelInv, NEW token \in Nat, Rerun(token, cookie), UNCHANGED file
    PROVE  ResourceTypes' /\ ResourceOK'
<1> DEFINE f == [run |-> runs', key |-> token, sent |-> cookie, answer |-> Unserved]
<1>1. /\ runs' = runs + 1 /\ current' = runs' /\ reloadToken' = token
      /\ fetches' = fetches \cup {f}
      /\ data' = data
  BY DEF Rerun
<1>2. /\ runs \in Nat /\ runs' \in Nat \ {0} /\ cookie \in Cookie \cup {None}
      /\ fetches \subseteq Fetch /\ data \in Documents \cup {Nothing}
  BY <1>1 DEF PanelInv, TypeOK, SignInTypeOK
<1>3. f \in Fetch /\ f.run = runs' /\ f.answer = Unserved
  BY <1>2 DEF Fetch, Answers
<1> HIDE DEF f
<1>4. ResourceTypes'
  BY <1>1, <1>2, <1>3 DEF ResourceTypes
<1>5. \A g \in fetches : g.run \in Nat /\ g.run <= runs /\ g.run # runs'
  BY <1>1, <1>2, FetchFields DEF PanelInv, OneFetchPerRun
<1>6. AnswersAreOfWrites'
  BY <1>1, <1>3 DEF PanelInv, AnswersAreOfWrites
<1>7. OneFetchPerRun'
  BY <1>1, <1>2, <1>3, <1>5 DEF PanelInv, OneFetchPerRun
<1>8. CurrentIsNewest'
  BY <1>1, <1>2, <1>3, <1>5 DEF CurrentIsNewest
<1> QED
  BY <1>4, <1>6, <1>7, <1>8 DEF ResourceOK

LEMMA DetachInv ==
    ASSUME PanelInv, Detach, UNCHANGED file
    PROVE  ResourceTypes' /\ ResourceOK'
<1>1. /\ current' = 0 /\ reloadToken' = reloadToken /\ runs' = runs
      /\ fetches' = fetches /\ data' = data
  BY DEF Detach
<1>2. ResourceTypes'
  BY <1>1 DEF PanelInv, TypeOK, ResourceTypes
<1>3. AnswersAreOfWrites' /\ OneFetchPerRun'
  BY <1>1 DEF PanelInv, AnswersAreOfWrites, OneFetchPerRun
<1>4. runs \in Nat /\ \A f \in fetches : f.run # 0
  BY FetchFields DEF PanelInv, TypeOK
<1>5. CurrentIsNewest'
  BY <1>1, <1>4 DEF CurrentIsNewest
<1> QED
  BY <1>2, <1>3, <1>5 DEF ResourceOK

LEMMA ServeFetch ==
    ASSUME PanelInv, NEW f \in fetches, NEW answer \in {Failure, Document}, Serve(f, answer),
           UNCHANGED file
    PROVE  ResourceTypes' /\ ResourceOK'
<1> DEFINE g == [f EXCEPT !.answer = answer]
<1>1. /\ f.answer = Unserved /\ fetches' = (fetches \ {f}) \cup {g}
      /\ UNCHANGED <<reloadToken, current, runs, data>>
  BY DEF Serve
<1>2. Document \in Documents /\ Document.version = file.version
  BY ConfigAssumption DEF Document, Documents, ReadConfig, PanelInv, TypeOK
<1>3. f \in Fetch /\ answer \in Answers
  BY <1>2 DEF PanelInv, TypeOK, Answers
<1>4. g \in Fetch /\ g.run = f.run /\ g.answer = answer
  BY <1>3, FetchFields
<1> HIDE DEF g
<1>5. ResourceTypes'
  BY <1>1, <1>4 DEF PanelInv, TypeOK, ResourceTypes
<1>6. answer \notin {Unserved, Failure} => answer.version = file.version
  BY <1>2
<1>7. file.version \in Nat /\ (data # Nothing => data.version \in Nat)
  BY DEF PanelInv, TypeOK, Documents
<1>8. AnswersAreOfWrites'
  BY <1>1, <1>4, <1>6, <1>7 DEF PanelInv, AnswersAreOfWrites
<1>9. OneFetchPerRun'
  BY <1>1, <1>4 DEF PanelInv, OneFetchPerRun
<1>10. CurrentIsNewest'
  BY <1>1, <1>4, <1>6, <1>7 DEF PanelInv, AnswersAreOfWrites, CurrentIsNewest
<1> QED
  BY <1>5, <1>8, <1>9, <1>10 DEF ResourceOK

\* What arrives is no older than what it replaces.
LEMMA SettleFetch ==
    ASSUME PanelInv, NEW f \in fetches, Settle(f), UNCHANGED file
    PROVE  /\ ResourceTypes' /\ ResourceOK'
           /\ data # Nothing /\ data' # Nothing => data'.version >= data.version
<1>1. /\ f.answer # Unserved /\ fetches' = fetches \ {f}
      /\ UNCHANGED <<reloadToken, current, runs>>
      /\ \/ data' = data
         \/ f.run = current /\ f.answer # Failure /\ data' = f.answer
  BY DEF Settle, Heeded
<1>2. f.answer # Failure => f.answer \in Documents
  BY <1>1, FetchFields DEF PanelInv, TypeOK, Answers
<1>3. ResourceTypes'
  BY <1>1, <1>2 DEF PanelInv, TypeOK, ResourceTypes
<1>4. AnswersAreOfWrites' /\ OneFetchPerRun'
  BY <1>1 DEF PanelInv, AnswersAreOfWrites, OneFetchPerRun
<1>5. CurrentIsNewest'
  <2>1. CASE data' = data
    BY <1>1, <2>1 DEF PanelInv, CurrentIsNewest
  <2>2. CASE f.run = current
    BY <1>1, <2>2 DEF PanelInv, CurrentIsNewest, OneFetchPerRun
  <2> QED
    BY <1>1, <2>1, <2>2
<1>6. data # Nothing /\ data' # Nothing => data'.version >= data.version
  <2>1. data # Nothing => data.version \in Nat
    BY DEF PanelInv, TypeOK, Documents
  <2>2. f.answer # Failure => f.answer.version \in Nat
    BY <1>2 DEF Documents
  <2> QED
    BY <1>1, <2>1, <2>2 DEF PanelInv, CurrentIsNewest
<1> QED
  BY <1>3, <1>4, <1>5, <1>6 DEF ResourceOK

\* Nothing of the hook's moves, and the file only gains writes.
LEMMA ResourceIdle ==
    ASSUME PanelInv, UNCHANGED resourceVars, file'.version \in Nat,
           file'.version >= file.version
    PROVE  ResourceTypes' /\ ResourceOK'
<1>1. /\ UNCHANGED <<reloadToken, current, runs, fetches, data>>
      /\ file.version \in Nat /\ (data # Nothing => data.version \in Nat)
  BY DEF resourceVars, PanelInv, TypeOK, Documents
<1>2. ResourceTypes'
  BY <1>1 DEF PanelInv, TypeOK, ResourceTypes
<1>3. \A f \in fetches : f.answer \notin {Unserved, Failure} => f.answer.version \in Nat
  BY FetchFields DEF PanelInv, TypeOK, Answers, Documents
<1>4. AnswersAreOfWrites'
  BY <1>1, <1>3 DEF PanelInv, AnswersAreOfWrites
<1>5. OneFetchPerRun' /\ CurrentIsNewest'
  BY <1>1 DEF PanelInv, OneFetchPerRun, CurrentIsNewest
<1> QED
  BY <1>2, <1>4, <1>5 DEF ResourceOK

-----------------------------------------------------------------------------
LEMMA PutFields ==
    ASSUME NEW p \in Put
    PROVE  /\ p.config \in Valid \cup Malformed /\ p.sent \in Cookie \cup {None}
           /\ p.admitted \in Admission \cup {None}
           /\ p.answer \in Answers /\ p.awaited \in BOOLEAN
  BY DEF Put

\* A save cut off from the page, answered or admitted is one still.
LEMMA PutEdits ==
    ASSUME NEW p \in Put
    PROVE  /\ /\ [p EXCEPT !.awaited = FALSE] \in Put
              /\ [p EXCEPT !.awaited = FALSE].sent = p.sent
              /\ [p EXCEPT !.awaited = FALSE].admitted = p.admitted
           /\ \A a \in Answers : /\ [p EXCEPT !.answer = a] \in Put
                                 /\ [p EXCEPT !.answer = a].sent = p.sent
                                 /\ [p EXCEPT !.answer = a].admitted = p.admitted
           /\ \A a \in Admission : /\ [p EXCEPT !.admitted = a] \in Put
                                   /\ [p EXCEPT !.admitted = a].sent = p.sent
                                   /\ [p EXCEPT !.admitted = a].admitted = a
  BY DEF Put

\* The whole from its parts.
Files == [config : Valid \cup {None}, version : Nat, by : Admission \cup {None}]

LEMMA PanelFrame ==
    ASSUME SignInInv', ResourceTypes', ResourceOK', PutsAreAdmins',
           file' \in Files, WasAdmin(file'.by),
           draft' \in Drafts \cup {None}, saving' \in BOOLEAN, puts' \subseteq Put
    PROVE  PanelInv'
<1>1. TypeOK'
  BY DEF SignInInv, ResourceTypes, TypeOK, Files
<1>2. WasAdmin(file.by)'
  BY DEF WasAdmin
<1> QED
  BY <1>1, <1>2 DEF PanelInv, ResourceOK

LEMMA PanelIdle ==
    ASSUME PanelInv, SignInInv', ResourceTypes', ResourceOK', UNCHANGED <<file, panelVars>>,
           ChangeRoles \/ Tick \/ UNCHANGED chainVars
    PROVE  PanelInv'
<1>1. UNCHANGED <<file, draft, saving, puts>>
  BY DEF panelVars
<1>2. PutsAreAdmins'
  <2>1. \A p \in puts : p.sent \in Cookie \cup {None} /\ Dated(p.sent) /\ WasAdmin(p.admitted)
    BY PutFields DEF PanelInv, TypeOK, PutsAreAdmins, PutOK
  <2>2. \A p \in puts : Dated(p.sent)'
    BY <1>1, <2>1, DatedKept DEF PanelInv, Dated
  <2> QED
    BY <1>1, <2>1, <2>2 DEF PutsAreAdmins, PutOK, WasAdmin
<1> QED
  BY <1>1, <1>2, PanelFrame DEF PanelInv, TypeOK, Files

\* A step of the panel's own: sign-in and hook stay, the file gains at most writes.
LEMMA PanelOwn ==
    ASSUME PanelInv, UNCHANGED <<chainVars, serverVars, browserVars, resourceVars>>,
           faults' \in Nat,
           file' \in Files, file'.version >= file.version, WasAdmin(file'.by),
           draft' \in Drafts \cup {None}, saving' \in BOOLEAN,
           puts' \subseteq Put, \A p \in puts' : PutOK(p)
    PROVE  PanelInv'
<1>1. SignInInv'
  BY SignInFault DEF PanelInv
<1>2. ResourceTypes' /\ ResourceOK'
  BY ResourceIdle DEF Files
<1>3. PutsAreAdmins'
  BY DEF PutsAreAdmins, PutOK, WasAdmin, Dated, chainVars
<1> QED
  BY <1>1, <1>2, <1>3, PanelFrame

\* What is on screen with a draft that stays is no older if the data are not.
DataNotOlder == data # Nothing /\ data' # Nothing => data'.version >= data.version
NotOlder ==
    /\ DataNotOlder
    /\ Something /\ Something' =>
         \/ Config'.version >= Config.version
         \/ \E p \in puts \ puts' : p.awaited /\ p.answer = draft'

LEMMA DraftStays ==
    ASSUME PanelInv, draft' = draft, DataNotOlder
    PROVE  NotOlder
<1>1. draft # None => draft.version \in Nat
  BY DEF PanelInv, TypeOK, Drafts
<1> QED
  BY <1>1 DEF NotOlder, DataNotOlder, Something, Config

LEMMA DataStay ==
    ASSUME PanelInv, data' = data
    PROVE  DataNotOlder
<1>1. data # Nothing => data.version \in Nat
  BY DEF PanelInv, TypeOK, Documents
<1> QED
  BY <1>1 DEF DataNotOlder

LEMMA SessionStepInv ==
    ASSUME PanelInv, SessionStep
    PROVE  PanelInv' /\ data' = data
<1>1. SignInStep /\ FollowScreen /\ UNCHANGED <<file, panelVars>>
  BY DEF SessionStep
<1>2. SignInInv'
  BY <1>1, SignInStepInv DEF PanelInv
<1>3. ResourceTypes' /\ ResourceOK' /\ data' = data
  <2>1. CASE Rerun(reloadToken, cookie)
    <3>1. reloadToken \in Nat /\ file' = file /\ data' = data
      BY <1>1, <2>1 DEF PanelInv, TypeOK, Rerun
    <3> QED
      BY <2>1, <3>1, RerunInv
  <2>2. CASE Detach
    <3>1. file' = file /\ data' = data
      BY <1>1, <2>2 DEF Detach
    <3> QED
      BY <2>2, <3>1, DetachInv
  <2>3. CASE UNCHANGED resourceVars
    <3>1. file'.version \in Nat /\ file'.version >= file.version /\ data' = data
      BY <1>1, <2>3 DEF PanelInv, TypeOK, resourceVars
    <3> QED
      BY <2>3, <3>1, ResourceIdle
  <2> QED
    BY <1>1, <2>1, <2>2, <2>3 DEF FollowScreen
<1>4. ChangeRoles \/ Tick \/ UNCHANGED chainVars
  BY <1>1 DEF SignInStep, GetChallenge, WalletSigns, WalletDeclines, SignOut, Awaited, Refreshed,
       Deleted, Verify, TakeChallenge, ReadAdmin, ReadGuardian, DeleteFails, RefreshFails,
       RestartServer, VerifyAgain, VerifyFails
<1> QED
  BY <1>1, <1>2, <1>3, <1>4, PanelIdle

LEMMA LoadPanelInv ==
    ASSUME PanelInv, LoadPanel
    PROVE  PanelInv' /\ data' = Nothing /\ file' = file
<1>1. /\ LoadPage /\ current' = 0 /\ data' = Nothing /\ reloadToken' = 0
      /\ draft' = None /\ saving' = FALSE
      /\ puts' = {[p EXCEPT !.awaited = FALSE] : p \in puts}
      /\ UNCHANGED <<runs, fetches, file>> /\ UNCHANGED chainVars
  BY DEF LoadPanel, LoadPage
<1>2. SignInInv'
  BY <1>1, LoadPageInv DEF PanelInv
<1>3. ResourceTypes'
  BY <1>1 DEF PanelInv, TypeOK, ResourceTypes
<1>4. AnswersAreOfWrites' /\ OneFetchPerRun'
  BY <1>1 DEF PanelInv, AnswersAreOfWrites, OneFetchPerRun
<1>5. CurrentIsNewest'
  BY <1>1 DEF PanelInv, TypeOK, CurrentIsNewest
<1>6. puts' \subseteq Put /\ \A p \in puts' : PutOK(p)
  <2> SUFFICES ASSUME NEW p \in puts'
               PROVE  p \in Put /\ PutOK(p)
    OBVIOUS
  <2>1. PICK q \in puts : p = [q EXCEPT !.awaited = FALSE]
    BY <1>1
  <2>2. q \in Put /\ PutOK(q)
    BY DEF PanelInv, TypeOK, PutsAreAdmins
  <2>3. p \in Put /\ p.sent = q.sent /\ p.admitted = q.admitted
    BY <2>1, <2>2, PutEdits
  <2> QED
    BY <2>2, <2>3 DEF PutOK
<1>7. PutsAreAdmins'
  BY <1>1, <1>6 DEF PutsAreAdmins, PutOK, WasAdmin, Dated, chainVars
<1>8. PanelInv'
  BY <1>1, <1>2, <1>3, <1>4, <1>5, <1>6, <1>7, PanelFrame DEF ResourceOK, PanelInv, TypeOK, Files
<1> QED
  BY <1>1, <1>8

-----------------------------------------------------------------------------
\* The hook's steps, with no older data shown.
LEMMA FetchInv ==
    ASSUME PanelInv,
           \/ ReloadPanel
           \/ \E f \in fetches : ServeGet(f) \/ GetFails(f) \/ SettleGet(f)
    PROVE  PanelInv' /\ NotOlder
<1>1. CASE ReloadPanel
  <2>1. /\ Rerun(reloadToken + 1, cookie) /\ UNCHANGED <<signInVars, file, panelVars>>
        /\ data' = data
    BY <1>1 DEF ReloadPanel, Reload, Rerun
  <2>2. reloadToken + 1 \in Nat /\ SignInInv
    BY DEF PanelInv, TypeOK
  <2>3. ResourceTypes' /\ ResourceOK' /\ SignInInv'
    BY <2>1, <2>2, RerunInv, SignInIdle
  <2>4. NotOlder
    BY <2>1, DataStay, DraftStays DEF panelVars
  <2> QED
    BY <2>1, <2>3, <2>4, PanelIdle DEF signInVars
<1>2. ASSUME NEW f \in fetches, ServeGet(f) \/ GetFails(f)
      PROVE  PanelInv' /\ NotOlder
  <2>1. /\ Serve(f, Document) \/ Serve(f, Failure)
        /\ UNCHANGED <<chainVars, serverVars, browserVars, file, panelVars>>
        /\ data' = data /\ faults' \in Nat
    BY <1>2 DEF ServeGet, GetFails, Serve, Fault, signInVars, PanelInv, SignInInv, SignInTypeOK
  <2>2. ResourceTypes' /\ ResourceOK' /\ SignInInv'
    BY <2>1, ServeFetch, SignInFault DEF PanelInv
  <2>3. NotOlder
    BY <2>1, DataStay, DraftStays DEF panelVars
  <2> QED
    BY <2>1, <2>2, <2>3, PanelIdle
<1>3. ASSUME NEW f \in fetches, SettleGet(f)
      PROVE  PanelInv' /\ NotOlder
  <2>1. Settle(f) /\ UNCHANGED <<signInVars, file, panelVars>>
    BY <1>3 DEF SettleGet
  <2>2. ResourceTypes' /\ ResourceOK' /\ SignInInv' /\ DataNotOlder
    BY <2>1, SettleFetch, SignInIdle DEF PanelInv, DataNotOlder
  <2>3. NotOlder
    BY <2>1, <2>2, DraftStays DEF panelVars
  <2> QED
    BY <2>1, <2>2, <2>3, PanelIdle DEF signInVars
<1> QED
  BY <1>1, <1>2, <1>3

LEMMA ShownIsTyped ==
    ASSUME PanelInv, Shown
    PROVE  Config \in Drafts
  BY DEF Shown, Config, PanelInv, TypeOK, Documents, Drafts

LEMMA PanelParts ==
    ASSUME PanelInv
    PROVE  /\ file \in Files /\ file.version \in Nat /\ WasAdmin(file.by)
           /\ draft \in Drafts \cup {None} /\ saving \in BOOLEAN
           /\ puts \subseteq Put /\ \A p \in puts : PutOK(p)
  BY DEF PanelInv, TypeOK, Files, PutsAreAdmins

LEMMA OtherWritesInv ==
    ASSUME PanelInv, OtherWrites
    PROVE  PanelInv' /\ NotOlder
<1>1. PICK c \in Valid : file' = [config |-> c, version |-> file.version + 1, by |-> None]
  BY DEF OtherWrites
<1>2. /\ UNCHANGED <<chainVars, serverVars, browserVars, resourceVars, panelVars>>
      /\ faults' \in Nat /\ data' = data
      /\ UNCHANGED <<draft, saving, puts>>
  BY DEF OtherWrites, signInVars, resourceVars, panelVars, PanelInv, SignInInv, SignInTypeOK
<1>3. file' \in Files /\ file'.version >= file.version /\ WasAdmin(file'.by)
  BY <1>1, PanelParts DEF Files, WasAdmin
<1>4. PanelInv'
  BY <1>2, <1>3, PanelParts, PanelOwn
<1> QED
  BY <1>2, <1>4, DataStay, DraftStays

LEMMA SaveInv ==
    ASSUME PanelInv, Save
    PROVE  PanelInv' /\ NotOlder
<1> DEFINE p == [config |-> Config.config, sent |-> cookie, admitted |-> None,
                 answer |-> Unserved, awaited |-> TRUE]
<1>1. /\ UNCHANGED <<chainVars, serverVars, browserVars, resourceVars, file, draft>>
      /\ faults' \in Nat /\ data' = data
      /\ Shown /\ saving' = TRUE /\ puts' = puts \cup {p}
  BY DEF Save, signInVars, resourceVars, PanelInv, SignInInv, SignInTypeOK
<1>2. Config.config \in Valid \cup Malformed /\ cookie \in Cookie \cup {None} /\ Dated(cookie)
  BY <1>1, ShownIsTyped DEF PanelInv, SignInInv, SignInTypeOK, TokensDated, Drafts
<1>3. p \in Put /\ p.sent = cookie /\ p.admitted = None
  BY <1>2 DEF Put, Answers
<1> HIDE DEF p
<1>4. PutOK(p)
  BY <1>2, <1>3 DEF PutOK, WasAdmin
<1>5. PanelInv'
  BY <1>1, <1>3, <1>4, PanelParts, PanelOwn
<1> QED
  BY <1>1, <1>5, DataStay, DraftStays

\* What is typed is as new as what it was typed over.
LEMMA TypeInv ==
    ASSUME PanelInv, NEW c \in Valid \cup Malformed, Type(c)
    PROVE  PanelInv' /\ NotOlder
<1>1. /\ UNCHANGED <<chainVars, serverVars, browserVars, resourceVars, file, saving, puts>>
      /\ faults' \in Nat /\ data' = data
      /\ Shown /\ draft' = [config |-> c, version |-> Config.version]
  BY DEF Type, signInVars, resourceVars, PanelInv, SignInInv, SignInTypeOK
<1>2. Config.version \in Nat
  BY <1>1, ShownIsTyped DEF Drafts
<1>3. draft' \in Drafts /\ draft' # None /\ draft'.version = Config.version
  BY <1>1, <1>2, ConfigAssumption DEF Drafts
<1>4. PanelInv'
  BY <1>1, <1>3, PanelParts, PanelOwn
<1>5. Config' = draft'
  BY <1>3 DEF Config
<1> QED
  BY <1>1, <1>2, <1>3, <1>4, <1>5, DataStay DEF NotOlder

\* A save that is answered, or admitted, with the file as it was.
LEMMA PutMoves ==
    ASSUME PanelInv, NEW p \in puts, NEW q \in Put, PutOK(q),
           puts' = (puts \ {p}) \cup {q}, UNCHANGED <<draft, saving>>,
           UNCHANGED <<chainVars, serverVars, browserVars, resourceVars>>, faults' \in Nat,
           file' \in Files, file'.version >= file.version, WasAdmin(file'.by)
    PROVE  PanelInv' /\ NotOlder
<1>1. data' = data
  BY DEF resourceVars
<1>2. PanelInv'
  BY PanelParts, PanelOwn
<1> QED
  BY <1>1, <1>2, DataStay, DraftStays

LEMMA AnsweredPut ==
    ASSUME PanelInv, NEW p \in puts, NEW a \in Answers
    PROVE  [p EXCEPT !.answer = a] \in Put /\ PutOK([p EXCEPT !.answer = a])
<1>1. p \in Put /\ PutOK(p)
  BY PanelParts
<1> QED
  BY <1>1, PutEdits DEF PutOK

\* An admin's session that is young enough says when the address was an admin.
LEMMA AdmitPutInv ==
    ASSUME PanelInv, NEW p \in puts, AdmitPut(p)
    PROVE  PanelInv' /\ NotOlder
<1> DEFINE admission == [at |-> now, lastAdmin |-> lastAdmin]
<1>1. /\ UNCHANGED <<chainVars, serverVars, browserVars, resourceVars, draft, saving>>
      /\ faults' \in Nat /\ file' = file
      /\ \/ /\ Session(p.sent) = "admin"
            /\ puts' = (puts \ {p}) \cup {[p EXCEPT !.admitted = admission]}
         \/ puts' = (puts \ {p}) \cup {[p EXCEPT !.answer = Failure]}
  BY DEF AdmitPut, Answer, signInVars, PanelInv, SignInInv, SignInTypeOK
<1>2. file' \in Files /\ file'.version >= file.version /\ WasAdmin(file'.by)
  BY <1>1, PanelParts DEF Files
<1>3. CASE /\ Session(p.sent) = "admin"
           /\ puts' = (puts \ {p}) \cup {[p EXCEPT !.admitted = admission]}
  <2>1. p.sent # None /\ p.sent.role = "admin" /\ ~Expired(p.sent)
    BY <1>3, NoneIsNothingElse DEF Session
  <2>2. p \in Put /\ PutOK(p) /\ p.sent \in Cookie
    BY <2>1, PanelParts, PutFields
  <2>3. /\ lastAdmin \in Nat /\ now \in Nat /\ p.sent.at \in Nat /\ p.sent.at <= lastAdmin
        /\ lastAdmin # None
    BY <2>1, <2>2 DEF PutOK, Dated, Cookie, PanelInv, SignInInv, SignInTypeOK
  <2>4. now - lastAdmin <= SessionTtl
    BY <2>1, <2>3, SignInAssumption DEF Expired
  <2>5. admission \in Admission /\ WasAdmin(admission)
    BY <2>3, <2>4 DEF Admission, WasAdmin
  <2> HIDE DEF admission
  <2>6. [p EXCEPT !.admitted = admission] \in Put /\ PutOK([p EXCEPT !.admitted = admission])
    BY <2>2, <2>5, PutEdits DEF PutOK
  <2> QED
    BY <1>1, <1>2, <1>3, <2>6, PutMoves
<1>4. CASE puts' = (puts \ {p}) \cup {[p EXCEPT !.answer = Failure]}
  <2>1. Failure \in Answers
    BY DEF Answers
  <2> QED
    BY <1>1, <1>2, <1>4, <2>1, AnsweredPut, PutMoves
<1> QED
  BY <1>1, <1>3, <1>4

LEMMA ServePutInv ==
    ASSUME PanelInv, NEW p \in puts, ServePut(p)
    PROVE  PanelInv' /\ NotOlder
<1> DEFINE written == [config |-> p.config, version |-> file.version + 1, by |-> p.admitted]
<1>1. /\ UNCHANGED <<chainVars, serverVars, browserVars, resourceVars, draft, saving>>
      /\ faults' \in Nat
      /\ \/ /\ p.config \in Valid /\ file' = written
            /\ Answer(p, [config |-> p.config, version |-> file.version + 1])
         \/ file' = file /\ Answer(p, Failure)
  BY DEF ServePut, Validated, signInVars, PanelInv, SignInInv, SignInTypeOK
<1>2. /\ file.version \in Nat /\ p \in Put /\ PutOK(p) /\ p.admitted \in Admission \cup {None}
  BY PanelParts, PutFields
<1>3. CASE /\ p.config \in Valid /\ file' = written
           /\ Answer(p, [config |-> p.config, version |-> file.version + 1])
  <2>1. file' \in Files /\ file'.version >= file.version /\ WasAdmin(file'.by)
    BY <1>2, <1>3 DEF Files, PutOK
  <2>2. [config |-> p.config, version |-> file.version + 1] \in Answers
    BY <1>2, <1>3 DEF Answers, Documents
  <2> QED
    BY <1>1, <1>3, <2>1, <2>2, AnsweredPut, PutMoves DEF Answer
<1>4. CASE file' = file /\ Answer(p, Failure)
  <2>1. file' \in Files /\ file'.version >= file.version /\ WasAdmin(file'.by)
    BY <1>4, PanelParts
  <2>2. Failure \in Answers
    BY DEF Answers
  <2> QED
    BY <1>1, <1>4, <2>1, <2>2, AnsweredPut, PutMoves DEF Answer
<1> QED
  BY <1>1, <1>3, <1>4

LEMMA PutFailsInv ==
    ASSUME PanelInv, NEW p \in puts, PutFails(p)
    PROVE  PanelInv' /\ NotOlder
<1>1. /\ UNCHANGED <<chainVars, serverVars, browserVars, resourceVars, draft, saving>>
      /\ faults' \in Nat /\ file' = file /\ Failure \in Answers
      /\ puts' = (puts \ {p}) \cup {[p EXCEPT !.answer = Failure]}
  BY DEF PutFails, Fault, Answer, Answers, PanelInv, SignInInv, SignInTypeOK
<1>2. file' \in Files /\ file'.version >= file.version /\ WasAdmin(file'.by)
  BY <1>1, PanelParts
<1> QED
  BY <1>1, <1>2, AnsweredPut, PutMoves

\* The one step that may show something older: the answer to this page's own save.
LEMMA SettlePutInv ==
    ASSUME PanelInv, NEW p \in puts, SettlePut(p)
    PROVE  PanelInv' /\ NotOlder
<1>1. /\ UNCHANGED <<chainVars, serverVars, browserVars, resourceVars, file>>
      /\ faults' \in Nat /\ data' = data
      /\ p.answer # Unserved /\ puts' = puts \ {p} /\ saving' \in BOOLEAN
      /\ draft' = draft \/ (p.awaited /\ p.answer # Failure /\ draft' = p.answer)
  BY PanelParts DEF SettlePut, SavingAfter, signInVars, resourceVars, PanelInv, SignInInv,
                    SignInTypeOK
<1>2. p.answer \in Answers
  BY PanelParts, PutFields
<1>3. draft' \in Drafts \cup {None}
  BY <1>1, <1>2, PanelParts DEF Answers, Documents, Drafts
<1>4. PanelInv'
  BY <1>1, <1>3, PanelParts, PanelOwn
<1>5. CASE draft' = draft
  BY <1>1, <1>4, <1>5, DataStay, DraftStays
<1>6. CASE p.awaited /\ draft' = p.answer
  <2>1. p \in puts \ puts'
    BY <1>1
  <2> QED
    BY <1>1, <1>4, <1>6, <2>1, DataStay DEF NotOlder
<1> QED
  BY <1>1, <1>5, <1>6

-----------------------------------------------------------------------------
LEMMA PanelInitInv == Init => PanelInv
<1> SUFFICES ASSUME Init PROVE PanelInv
  OBVIOUS
<1>1. SignInInv
  BY SignInInitInv DEF Init
<1>2. TypeOK
  BY <1>1 DEF Init, ResourceInit, TypeOK, SignInInv
<1> QED
  BY <1>1, <1>2 DEF Init, ResourceInit, PanelInv, AnswersAreOfWrites, OneFetchPerRun,
                    CurrentIsNewest, PutsAreAdmins, WasAdmin

\* Every step keeps the invariant and shows nothing older but what the page saved.
LEMMA PanelStepInv ==
    ASSUME PanelInv, [Next]_vars
    PROVE  PanelInv' /\ NotOlder
<1>1. CASE SessionStep
  <2>1. PanelInv' /\ data' = data /\ draft' = draft
    BY <1>1, SessionStepInv DEF SessionStep, panelVars
  <2> QED
    BY <2>1, DataStay, DraftStays
<1>2. CASE LoadPanel
  <2>1. PanelInv' /\ data' = Nothing /\ draft' = None
    BY <1>2, LoadPanelInv DEF LoadPanel
  <2> QED
    BY <2>1 DEF NotOlder, DataNotOlder, Something
<1>3. CASE ReloadPanel \/ \E f \in fetches : ServeGet(f) \/ GetFails(f) \/ SettleGet(f)
  BY <1>3, FetchInv
<1>4. CASE Save \/ OtherWrites
  BY <1>4, SaveInv, OtherWritesInv
<1>5. CASE \E c \in Valid \cup Malformed : Type(c)
  BY <1>5, TypeInv
<1>6. CASE \E p \in puts : AdmitPut(p) \/ ServePut(p)
  BY <1>6, AdmitPutInv, ServePutInv
<1>7. CASE \E p \in puts : PutFails(p) \/ SettlePut(p)
  BY <1>7, PutFailsInv, SettlePutInv
<1>8. CASE UNCHANGED vars
  <2>1. /\ UNCHANGED <<chainVars, serverVars, browserVars, resourceVars, file>>
        /\ UNCHANGED <<draft, saving, puts>>
        /\ faults' \in Nat /\ data' = data
    BY <1>8 DEF vars, signInVars, panelVars, resourceVars, PanelInv, TypeOK, SignInTypeOK
  <2>2. PanelInv'
    BY <2>1, PanelParts, PanelOwn
  <2> QED
    BY <2>1, <2>2, DataStay, DraftStays
<1> QED
  BY <1>1, <1>2, <1>3, <1>4, <1>5, <1>6, <1>7, <1>8 DEF Next, Requests

LEMMA PanelKept == Spec => []PanelInv
<1>1. PanelInv /\ [Next]_vars => PanelInv'
  BY PanelStepInv
<1> QED
  BY <1>1, PanelInitInv, PTL DEF Spec

\* Types of sign-in, hook and panel, for any number of challenges, runs and writes.
THEOREM PanelTypes == Spec => []TypeOK
<1>1. PanelInv => TypeOK
  BY DEF PanelInv
<1> QED
  BY <1>1, PanelKept, PTL

\* takeChallenge is called before anything is awaited: answers that arrive twice,
\* at once or late, and restarts, leave one session at most for a challenge.
THEOREM ChallengesAreSingleUse == Spec => []OneSessionPerChallenge
<1>1. PanelInv => OneSessionPerChallenge
  BY DEF PanelInv, SignInInv, ChallengesSpentOnce, OneSessionPerChallenge
<1> QED
  BY <1>1, PanelKept, PTL

\* At rest AuthProvider shows no role, failures or not, or the role of the session
\* it was answered for: the tab's, or one that ran out by age alone.
THEOREM ScreenFailsClosed == Spec => []FailsClosed
<1>1. PanelInv => FailsClosed
  BY DEF PanelInv, SignInInv, ScreenHasSession, FailsClosed, Session, RanOut
<1> QED
  BY <1>1, PanelKept, PTL

\* PUT /api/alerts writes, however late the body, for addresses that were admins at
\* most SessionTtl before requireAdminSession admitted the request.
THEOREM OnlyAdminsWrite == Spec => []WritersWereAdmins
<1>1. PanelInv => WritersWereAdmins
  BY DEF PanelInv, WasAdmin, WritersWereAdmins
<1> QED
  BY <1>1, PanelKept, PTL

\* useApiResource's ignore flag keeps late answers of cleaned up effects, which may
\* be older, off the screen.  What the panel shows (draft ?? data) goes back by the
\* answer to its own save alone.
THEOREM LateAnswersIgnored == Spec => ShownNeverGoesBack
<1>1. PanelInv /\ [Next]_vars => [NotOlder]_vars
  BY PanelStepInv
<1> QED
  BY <1>1, PanelKept, PTL DEF Spec, ShownNeverGoesBack, NotOlder, DataNotOlder
=============================================================================
