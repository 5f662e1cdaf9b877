------------------------------- MODULE Panels -------------------------------
(***************************************************************************)
(* The panels of the dashboard that only read, from the routes they ask to *)
(* what they show: requireSession, classifyError and withErrorHandling on  *)
(* the server, fetchJson and useApiResource in the browser, and each       *)
(* panel's choice between skeleton, error, content and a text that there   *)
(* is nothing.  A superseded answer is ignored (see ApiResource), so a     *)
(* resource has at most one to come.                                       *)
(***************************************************************************)
EXTENDS Naturals, FiniteSets, Sequences

CONSTANTS
    Absent,   \* null: no data, no error, no role, no body
    MaxMoves  \* bound: sign-ins, sign-outs and reloads of a behaviour

ASSUME PanelsAssumption == MaxMoves \in Nat /\ Absent \notin Nat

DashboardRoles == {"admin", "guardian"}
Screens == DashboardRoles \cup {Absent, "loading"}

\* What a route delivered, to which cookie and when; ApiClientError.
PageData == [content: {"some", "empty"}, under: DashboardRoles \cup {Absent}, arrived: Nat]
PageError == [status: Nat, retryable: BOOLEAN]

\* The routes of each panel, and on which screens it asks them at all.  What the
\* bar makes of a third one, the monitor's, is in VaultPages.
PanelRoutes == [
    StatusBar              |-> <<"vault/status", "telemetry">>,
    OnboardingChecklist    |-> <<"vault/overview", "health-monitor/status", "telemetry">>,
    VaultOverviewPanel     |-> <<"vault/overview">>,
    GuardianPanel          |-> <<"health-monitor/status">>,
    SlaTelemetryPanel      |-> <<"telemetry">>,
    PauseHistoryPanel      |-> <<"health-monitor/pause-history">>,
    TimelockPanel          |-> <<"timelock/proposals">>,
    ContractAddressesPanel |-> <<"vault/addresses">>]

Asking(p) ==
    CASE p = "StatusBar" -> DashboardRoles
      [] p = "OnboardingChecklist" -> {"admin"}
      [] OTHER -> Screens

VARIABLES
    panel,       \* the panel a behaviour is about
    panelScreen, \* role of AuthProvider, "loading" until it knows
    panelCookie, \* the role of the browser's session, or Absent
    res,         \* useApiResource, by route
    moves        \* the time: moves so far

panelVars == <<panel, panelScreen, panelCookie, res, moves>>

\* External: what the libraries below a route may come to.  Data that is
\* "empty" has no rows, no snapshot, no guardian, or an item not passed.
Reads == {"some", "empty", "transient", "broken"}
\* A page of a proxy in between, by its status, or no answer at all.
Pages == [page200 |-> 200, page502 |-> 502]
Causes == Reads \cup DOMAIN Pages \cup {"unauthenticated", "unreachable"}

ASSUME NullAssumption ==
    /\ Absent \notin DashboardRoles \cup {"loading"} \cup Causes
    /\ Absent \notin PageData /\ Absent \notin PageError

Mine == {PanelRoutes[panel][i] : i \in DOMAIN PanelRoutes[panel]}

\* A resource: completed says whether completedKey is its key, cause (history)
\* what befell its last attempt.  When its URL appears the effect runs, when it
\* goes the answer still to come will be ignored.
Asks(x, cookie) == [x EXCEPT !.asked = TRUE, !.sent = cookie]
Ignores(x) == [x EXCEPT !.asked = FALSE, !.sent = Absent]
NewResource(cookie, asks) ==
    [completed |-> FALSE, data |-> Absent, error |-> Absent, updated |-> Absent,
     asked |-> asks, sent |-> IF asks THEN cookie ELSE Absent, cause |-> Absent]

PanelInit ==
    /\ panel \in DOMAIN PanelRoutes
    /\ panelScreen = "loading"
    /\ panelCookie \in DashboardRoles \cup {Absent}
    /\ res = [r \in Mine |-> NewResource(panelCookie, "loading" \in Asking(panel))]
    /\ moves = 0

-----------------------------------------------------------------------------
\* The server.  A session the server no longer accepts counts as none.
Public == {"health-monitor/pause-history", "timelock/proposals", "vault/addresses"}

\* Mutant of RequiresSession: the telemetry is there for everybody.
RequiresSessionButTelemetry(r) == r \notin Public \cup {"telemetry"}
RequiresSession(r) == r \notin Public

\* The causes the handler of r can meet for a request with cookie `sent`.
Handled(r, sent) ==
    IF RequiresSession(r)
    THEN {"unauthenticated"} \cup IF sent = Absent THEN {} ELSE Reads
    ELSE Reads

ClassifyError(thrown) ==
    CASE thrown = "unauthenticated" -> [status |-> 401, retryable |-> FALSE]
      [] thrown = "transient" -> [status |-> 503, retryable |-> TRUE]
      [] thrown = "broken" -> [status |-> 500, retryable |-> FALSE]

\* What comes back: a status and, if the body is JSON, what it says.
Response(cause) ==
    CASE cause \in {"some", "empty"} -> [status |-> 200, body |-> cause]
      [] cause \in DOMAIN Pages -> [status |-> Pages[cause], body |-> Absent]
      [] OTHER -> [status |-> ClassifyError(cause).status, body |-> ClassifyError(cause)]

-----------------------------------------------------------------------------
\* The browser.
ApiClientError(status, retryable) == [status |-> status, retryable |-> retryable]

\* Mutant of FetchError: the status decides, whatever the envelope says.
FetchErrorByStatus(cause) ==
    IF cause = "unreachable" THEN ApiClientError(0, TRUE)
    ELSE LET answer == Response(cause) IN
         IF answer.status = 200 THEN Absent
         ELSE ApiClientError(answer.status, answer.status >= 500)

\* What fetchJson throws, Absent when it returns.
FetchError(cause) ==
    IF cause = "unreachable" THEN ApiClientError(0, TRUE)
    ELSE LET answer == Response(cause) IN
         IF answer.status = 200 THEN Absent
         ELSE ApiClientError(answer.status,
                IF answer.body # Absent THEN answer.body.retryable ELSE answer.status >= 500)

\* Mutant of Succeeded: an earlier error stays on the panel.
SucceededBeside(x, cause) ==
    [x EXCEPT !.data = IF Response(cause).body = Absent THEN Absent
                       ELSE [content |-> cause, under |-> x.sent, arrived |-> moves],
              !.updated = moves]

\* setData, setError(null), setLastSuccessAtMs: the data may be null.
Succeeded(x, cause) ==
    [x EXCEPT !.data = IF Response(cause).body = Absent THEN Absent
                       ELSE [content |-> cause, under |-> x.sent, arrived |-> moves],
              !.error = Absent,
              !.updated = moves]

Failed(x, cause) == [x EXCEPT !.error = FetchError(cause)]

SettledBy(x, cause) ==
    LET shown == IF FetchError(cause) = Absent THEN Succeeded(x, cause) ELSE Failed(x, cause)
    IN  [shown EXCEPT !.completed = TRUE, !.cause = cause, !.asked = FALSE, !.sent = Absent]

\* The answer of the effect in force arrives.
Settles(r) ==
    /\ res[r].asked
    /\ \E cause \in Handled(r, res[r].sent) \cup DOMAIN Pages \cup {"unreachable"} :
         res' = [res EXCEPT ![r] = SettledBy(@, cause)]
    /\ UNCHANGED <<panel, panelScreen, panelCookie, moves>>

PanelRefreshing(x) == panelScreen \in Asking(panel) /\ ~x.completed
PanelLoading(x) == PanelRefreshing(x) /\ x.data = Absent

Moves == moves < MaxMoves /\ moves' = moves + 1

\* Retry, the interval, or a tab that becomes visible: all resources of a panel.
ReloadAll ==
    /\ Moves
    /\ panelScreen \in Asking(panel)
    /\ res' = [r \in Mine |-> [Asks(res[r], panelCookie) EXCEPT !.completed = FALSE]]
    /\ UNCHANGED <<panel, panelScreen, panelCookie>>

\* The role on the screen changes: URLs appear, under the key they had, or go.
FollowRole ==
    res' = [r \in Mine |->
              IF panelScreen' \notin Asking(panel) THEN Ignores(res[r])
              ELSE IF panelScreen \notin Asking(panel) THEN Asks(res[r], panelCookie')
              ELSE res[r]]

\* The session is read: as it is, or not at all.
MountedPanel ==
    /\ panelScreen = "loading"
    /\ UNCHANGED <<panel, panelCookie, moves>>
    /\ panelScreen' \in {panelCookie, Absent}
    /\ FollowRole

SignedIn ==
    /\ Moves /\ panelScreen = Absent
    /\ panelCookie' \in DashboardRoles
    /\ panelScreen' \in {panelCookie', Absent}
    /\ FollowRole
    /\ UNCHANGED panel

SignedOut ==
    /\ Moves /\ panelScreen \in DashboardRoles
    /\ panelCookie' = Absent /\ panelScreen' = Absent
    /\ FollowRole
    /\ UNCHANGED panel

PanelNext == (\E r \in Mine : Settles(r)) \/ ReloadAll \/ MountedPanel \/ SignedIn \/ SignedOut

PanelSpec == PanelInit /\ [][PanelNext]_panelVars

-----------------------------------------------------------------------------
\* What each panel puts on the screen.
DataOf(r) == res[r].data
ErrorOf(r) == res[r].error

PanelError(error) ==
    IF error = Absent THEN {} ELSE {IF error.retryable THEN "temporary" ELSE "failed"}
PanelSkeleton(loading) == IF loading THEN {"skeleton"} ELSE {}
FreshnessIndicator(updated) == IF updated = Absent THEN {} ELSE {"updated"}

Notices(r) == PanelError(ErrorOf(r)) \cup PanelSkeleton(PanelLoading(res[r]))

\* The panels that show what they have, as it is.
Whole(r) == Notices(r) \cup IF DataOf(r) # Absent THEN {"content"} ELSE {}
\* The panels with a text for no rows.
Rows(r) ==
    Notices(r) \cup IF DataOf(r) = Absent THEN {}
                 ELSE IF DataOf(r).content = "empty" THEN {"nothing"} ELSE {"content"}

VaultOverviewPanel == Whole("vault/overview")
GuardianPanel == Whole("health-monitor/status")
ContractAddressesPanel == Whole("vault/addresses")
PauseHistoryPanel == Rows("health-monitor/pause-history")
TimelockPanel == Rows("timelock/proposals")
SlaTelemetryPanel ==
    Rows("telemetry") \cup FreshnessIndicator(res["telemetry"].updated)

\* A bar without a status, or for nobody, is not there; it shows no errors.
StatusBar ==
    IF panelScreen \notin DashboardRoles \/ DataOf("vault/status") = Absent THEN {}
    ELSE {"content"} \cup FreshnessIndicator(res["vault/status"].updated)

\* Mutant of EvaluateGoLiveChecklist: the telemetry is taken to be there.
EvaluateGoLiveChecklistAlmost(overview, guardian, telemetry) ==
    overview.content = "some" /\ guardian.content = "some"
\* allPassed: funded and an agent key; a guardian; a snapshot.
EvaluateGoLiveChecklist(overview, guardian, telemetry) ==
    /\ overview.content = "some"
    /\ guardian.content = "some"
    /\ telemetry.content = "some"

\* The first error in the order of the routes stands for all: a ?? b ?? c.
OrElse(a, b) == IF a # Absent THEN a ELSE b
FirstError(routes) ==
    OrElse(ErrorOf(routes[1]), OrElse(ErrorOf(routes[2]), ErrorOf(routes[3])))

OnboardingChecklistPanel ==
    LET routes == PanelRoutes["OnboardingChecklist"] IN
    CASE panelScreen = "loading" -> {"skeleton"}
      [] panelScreen \in {Absent, "guardian"} -> {"sign in"}
      [] panelScreen = "admin" ->
           PanelError(FirstError(routes))
           \cup PanelSkeleton(\E r \in Mine : PanelLoading(res[r]))
           \cup IF \E r \in Mine : DataOf(r) = Absent THEN {}
                ELSE {"content"} \cup
                     IF EvaluateGoLiveChecklist(DataOf(routes[1]), DataOf(routes[2]), DataOf(routes[3]))
                     THEN {"ready"} ELSE {}

Display ==
    CASE panel = "StatusBar" -> StatusBar
      [] panel = "OnboardingChecklist" -> OnboardingChecklistPanel
      [] panel = "VaultOverviewPanel" -> VaultOverviewPanel
      [] panel = "GuardianPanel" -> GuardianPanel
      [] panel = "SlaTelemetryPanel" -> SlaTelemetryPanel
      [] panel = "PauseHistoryPanel" -> PauseHistoryPanel
      [] panel = "TimelockPanel" -> TimelockPanel
      [] panel = "ContractAddressesPanel" -> ContractAddressesPanel

-----------------------------------------------------------------------------
Temporary == {"transient", "unreachable", "page502"}
Unfailing == {Absent, "some", "empty", "page200"}

\* Whatever is reloaded, signed in and out of and answered in whatever order, a
\* panel says that a failure is temporary exactly when its cause is, and says so
\* until an attempt succeeds and no longer; "nothing" and "ready" rest on
\* answers that said it, not on missing ones; a time of update is that of the
\* data beside it; what needs a session was given to one; and a panel is never
\* blank, unless it was given a page for data.
PanelTellsTheTruth ==
    LET causes == {res[r].cause : r \in Mine}
        page == "page200" \in causes
    IN
    /\ \A r \in Mine :
         LET x == res[r] IN
         /\ x.error = Absent <=> x.cause \in Unfailing
         /\ x.data # Absent =>
              /\ x.updated = x.data.arrived
              /\ r \in Public \/ x.data.under # Absent
    /\ "temporary" \in Display => causes \cap Temporary # {}
    /\ "failed" \in Display => causes \ (Temporary \cup Unfailing) # {}
    /\ Cardinality(Mine) = 1 /\ causes \cap Temporary # {} => "temporary" \in Display
    /\ "nothing" \in Display => \E r \in Mine : DataOf(r).content = "empty"
    /\ "ready" \in Display => \A r \in Mine : DataOf(r).content = "some"
    /\ Display = {} => page \/ panel = "StatusBar"
=============================================================================
