---------------------------- MODULE AlertsPanel -----------------------------
(***************************************************************************)
(* The alerts panel of the settings page on top of SignIn and ApiResource: *)
(* it has a URL while the screen says admin, keeps what is typed in a      *)
(* draft that hides the data from then on, and saves it to the file the    *)
(* alert dispatcher reads.  Another browser writes the same file.          *)
(***************************************************************************)
EXTENDS SignIn, ApiResource

CONSTANTS
    Valid,          \* configurations validateAlertsConfigPatch accepts
    Malformed,      \* and those it refuses
    DefaultConfig,  \* DEFAULT_CONFIG
    MaxWrites       \* bound: writes of the file

ASSUME ConfigAssumption ==
    /\ DefaultConfig \in Valid /\ Valid \cap Malformed = {}
    /\ None \notin [config : Valid \cup Malformed, version : Nat]

VARIABLES
    file,    \* the file's config (None: absent or unreadable), how many writes it
             \* has seen, and the admission of the panel's request that wrote it
    draft,   \* what is typed, with the version it was typed over, or what was
             \* saved, or None
    saving,  \* the Save button is disabled
    puts     \* PUT /api/alerts under way: config, cookie, admission, answer, awaited

panelVars == <<draft, saving, puts>>
vars == <<signInVars, resourceVars, file, panelVars>>

Documents == [config : Valid, version : Nat]
Answers == {Unserved, Failure} \cup Documents
Drafts == [config : Valid \cup Malformed, version : Nat]
Fetch == [run : Nat \ {0}, key : Nat, sent : Cookie \cup {None}, answer : Answers]
\* When a request passed requireAdminSession, and when its address, by then, was
\* last an admin on chain.
Admission == [at : Nat, lastAdmin : Nat \cup {None}]
Put == [config : Valid \cup Malformed, sent : Cookie \cup {None},
        admitted : Admission \cup {None}, answer : Answers, awaited : BOOLEAN]

TypeOK ==
    /\ SignInTypeOK
    /\ current \in Nat /\ runs \in Nat /\ reloadToken \in Nat
    /\ fetches \subseteq Fetch
    /\ data \in Documents \cup {Nothing}
    /\ file \in [config : Valid \cup {None}, version : Nat, by : Admission \cup {None}]
    /\ draft \in Drafts \cup {None}
    /\ saving \in BOOLEAN
    /\ puts \subseteq Put

Init ==
    /\ SignInInit /\ ResourceInit
    /\ file = [config |-> None, version |-> 0, by |-> None]
    /\ draft = None /\ saving = FALSE /\ puts = {}

\* readAlertsConfig.
ReadConfig == IF file.config = None THEN DefaultConfig ELSE file.config
Document == [config |-> ReadConfig, version |-> file.version]

-----------------------------------------------------------------------------
\* The hook's URL is there while auth.role is admin: a step that changes the
\* role runs its effect again, or cleans up the last run.
FollowScreen ==
    IF screen' = "admin" /\ screen # "admin" THEN Rerun(reloadToken, cookie)
    ELSE IF screen' # "admin" /\ screen = "admin" THEN Detach
    ELSE UNCHANGED resourceVars

SessionStep == SignInStep /\ FollowScreen /\ UNCHANGED <<file, panelVars>>

\* A page loaded again starts from nothing; what it sent is under way still.
LoadPanel ==
    /\ LoadPage
    /\ current' = 0
    /\ data' = Nothing /\ failed' = FALSE /\ completed' = Nothing
    /\ reloadToken' = 0
    /\ draft' = None /\ saving' = FALSE
    /\ puts' = {[p EXCEPT !.awaited = FALSE] : p \in puts}
    /\ UNCHANGED <<runs, fetches, file>>

ReloadPanel == Reload(cookie) /\ UNCHANGED <<signInVars, file, panelVars>>

\* GET /api/alerts, behind requireAdminSession.
ServeGet(f) ==
    /\ Serve(f, IF Session(f.sent) = "admin" THEN Document ELSE Failure)
    /\ UNCHANGED <<signInVars, file, panelVars>>

GetFails(f) ==
    /\ Fault
    /\ Serve(f, Failure)
    /\ UNCHANGED <<chainVars, serverVars, browserVars, file, panelVars>>

SettleGet(f) == Settle(f) /\ UNCHANGED <<signInVars, file, panelVars>>

-----------------------------------------------------------------------------
Shown == screen = "admin" /\ flow # "mounting" /\ (draft # None \/ data # Nothing)
\* config = draft ?? data
Config == IF draft # None THEN draft ELSE data

Type(c) ==
    /\ Shown /\ c # Config.config
    /\ draft' = [config |-> c, version |-> Config.version]
    /\ UNCHANGED <<signInVars, resourceVars, file, saving, puts>>

\* Bound: the writes made and those that may still be.
Room == file.version + Cardinality({p \in puts : p.answer = Unserved}) < MaxWrites

\* save: the whole of what is shown is sent.
Save ==
    /\ Shown /\ ~saving /\ Room
    /\ saving' = TRUE
    /\ puts' = puts \cup
         {[config |-> Config.config, sent |-> cookie, admitted |-> None,
           answer |-> Unserved, awaited |-> TRUE]}
    /\ UNCHANGED <<signInVars, resourceVars, file, draft>>

\* validateAlertsConfigPatch.
Validated(config) == config \in Valid

Answer(p, answer) == puts' = (puts \ {p}) \cup {[p EXCEPT !.answer = answer]}

\* PUT /api/alerts: requireAdminSession, once the head of the request is there.
AdmitPut(p) ==
    /\ p.answer = Unserved /\ p.admitted = None
    /\ IF Session(p.sent) = "admin"
       THEN puts' = (puts \ {p}) \cup
              {[p EXCEPT !.admitted = [at |-> now, lastAdmin |-> lastAdmin]]}
       ELSE Answer(p, Failure)
    /\ UNCHANGED <<signInVars, resourceVars, file, draft, saving>>

\* Its body arrives, however late: valid, merged into what is there, written.  The
\* session is not looked at again.
ServePut(p) ==
    LET written == [config |-> p.config, version |-> file.version + 1, by |-> p.admitted]
    IN  /\ p.answer = Unserved /\ p.admitted # None
        /\ IF Validated(p.config)
           THEN /\ file' = written
                /\ Answer(p, [config |-> p.config, version |-> written.version])
           ELSE Answer(p, Failure) /\ UNCHANGED file
        /\ UNCHANGED <<signInVars, resourceVars, draft, saving>>

\* The request is lost before the server took it up, its body after, or the answer.
PutFails(p) ==
    /\ Fault
    /\ p.answer # Failure
    /\ Answer(p, Failure)
    /\ UNCHANGED <<chainVars, serverVars, browserVars, resourceVars, file, draft, saving>>

\* Mutant of SavingAfter: the button comes back on success alone.
SavingAfterKept(p) == p.answer = Failure
\* finally: setSaving(false).
SavingAfter(p) == FALSE

\* The draft becomes what was saved, and what was typed since is gone.
SettlePut(p) ==
    /\ p.answer # Unserved
    /\ puts' = puts \ {p}
    /\ IF p.awaited
       THEN /\ saving' = SavingAfter(p)
            /\ draft' = IF p.answer = Failure THEN draft ELSE p.answer
       ELSE UNCHANGED <<saving, draft>>
    /\ UNCHANGED <<signInVars, resourceVars, file>>

\* The other browser saves.
OtherWrites ==
    /\ Room
    /\ \E c \in Valid : file' = [config |-> c, version |-> file.version + 1, by |-> None]
    /\ UNCHANGED <<signInVars, resourceVars, panelVars>>

Requests ==
    \/ \E f \in fetches : ServeGet(f) \/ SettleGet(f)
    \/ \E p \in puts : AdmitPut(p) \/ ServePut(p) \/ SettlePut(p)

Next ==
    \/ SessionStep \/ LoadPanel \/ ReloadPanel
    \/ Requests
    \/ \E f \in fetches : GetFails(f)
    \/ \E p \in puts : PutFails(p)
    \/ \E c \in Valid \cup Malformed : Type(c)
    \/ Save \/ OtherWrites

Spec == Init /\ [][Next]_vars

\* Requests are answered or fail.
FairRequests ==
    /\ \A n \in 1 .. MaxRuns :
         WF_vars(\E f \in fetches : f.run = n /\ (ServeGet(f) \/ SettleGet(f)))
    /\ WF_vars(\E p \in puts : AdmitPut(p) \/ ServePut(p) \/ SettlePut(p))

-----------------------------------------------------------------------------
\* Whoever wrote the routing of the alerts through the panel was an admin on chain
\* at most SessionTtl before the request was admitted, though roles change while a
\* sign-in awaits its reads and while a token is in use (authorization.ts,
\* session.ts).  The write may be later than that by any time: it awaits the body.
WritersWereAdmins ==
    file.by # None =>
        /\ file.by.lastAdmin # None
        /\ file.by.at - file.by.lastAdmin <= SessionTtl

\* What is on screen goes back to an earlier write of the file in one case only, in
\* whatever order answers arrive, reloads and sign-ins in between included: it is
\* what this page itself saved, whose answer comes after the page read a write of
\* another browser that overtook it.  What was read never goes back.
Something == draft # None \/ data # Nothing
ShownNeverGoesBack ==
    [][/\ data # Nothing /\ data' # Nothing => data'.version >= data.version
       /\ Something /\ Something' =>
            \/ Config'.version >= Config.version
            \/ \E p \in puts \ puts' : p.awaited /\ p.answer = draft'
      ]_vars

\* Neither the skeleton nor the disabled Save button stays for ever.
BusyEnds == (Loading ~> ~Loading) /\ (saving ~> ~saving)
=============================================================================
