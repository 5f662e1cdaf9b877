----------------------------- MODULE VaultPages -----------------------------
(***************************************************************************)
(* What the dashboard shows of the risk engine and the vault: the status   *)
(* bar, put together from two polls (StatusBar.tsx), and the overview and  *)
(* the go-live checklist, put together from many calls (vaultOverview.ts,  *)
(* onboardingChecklist.ts), while the contracts move.  The vault's context *)
(* rules are those of the smart-account library behind contracts/vault.    *)
(***************************************************************************)
EXTENDS RiskEngine, Sequences

CONSTANTS
    Asked,     \* a request the server has not answered
    MaxRules   \* bound: rules ever added, the bootstrapped one included

RuleNames == {"R_ADMIN", "R_AGENT_PAY"}

\* An answer: what it says and, history, what happened on chain since.
Answer(values) == [value: values, since: SUBSET {"lag", "left"}]

ASSUME PagesAssumption ==
    /\ MaxRules \in Nat
    /\ Asked # None
    /\ \A absent \in {None, Asked} :
         absent \notin Answer(SystemState) /\ absent \notin Answer(BOOLEAN)
    /\ None \notin RuleNames

VARIABLES
    rules,     \* the vault's context rules, by id
    nextRule,  \* the id of the next one
    status,    \* the bar's resources: what is shown, and the answer under way.
    guardian,  \* history: what happened on chain since it was taken
    overview   \* the last read of the overview, complete or not

pageVars == <<rules, nextRule, status, guardian, overview>>
pagesVars == <<vars, pageVars>>

NoResource == [shown |-> None, answer |-> None]

PagesInit ==
    /\ rules = [id \in {0} |-> "R_ADMIN"] /\ nextRule = 1
    /\ status = NoResource /\ guardian = NoResource
    /\ overview = None

-----------------------------------------------------------------------------
\* The status bar.

\* What a step of the chain may leave behind it: a pause the level does not
\* reflect, a level that has left Paused.
Lag(p, s) == IF p /\ s # Paused THEN {"lag"} ELSE {}
Facts == Lag(paused', state') \cup (IF state = Paused /\ state' # Paused THEN {"left"} ELSE {})

Noted(answer) ==
    IF answer \in {None, Asked} THEN answer ELSE [answer EXCEPT !.since = @ \cup Facts]
Watched(resource) == [shown |-> Noted(resource.shown), answer |-> Noted(resource.answer)]

\* The interval reloads both; an answer still to come is ignored from then on.
Poll ==
    /\ status' = [status EXCEPT !.answer = Asked]
    /\ guardian' = [guardian EXCEPT !.answer = Asked]

Answered(resource, value) ==
    [resource EXCEPT !.answer = [value |-> value, since |-> Lag(paused, state)]]

\* fetchVaultStatus, and status() in fetchGuardianPanelData.
ServeStatus ==
    status.answer = Asked /\ status' = Answered(status, state) /\ UNCHANGED guardian
ServeGuardian ==
    guardian.answer = Asked /\ guardian' = Answered(guardian, paused) /\ UNCHANGED status

\* An error leaves what is shown as it was.
Arrives(resource) ==
    \/ /\ resource.answer \notin {None, Asked}
       /\ resource' = [shown |-> resource.answer, answer |-> None]
    \/ /\ resource.answer # None
       /\ resource' = [resource EXCEPT !.answer = None]

BarStep ==
    /\ UNCHANGED <<vars, rules, nextRule, overview>>
    /\ \/ Poll \/ ServeStatus \/ ServeGuardian
       \/ Arrives(status) /\ UNCHANGED guardian
       \/ Arrives(guardian) /\ UNCHANGED status

BothShown == status.shown # None /\ guardian.shown # None

\* Mutant of RiskStateLagsRealPause: from the level alone.
RiskStateLagsRealPauseAlways == BothShown /\ status.shown.value # Paused
RiskStateLagsRealPause ==
    BothShown /\ guardian.shown.value /\ status.shown.value # Paused
-----------------------------------------------------------------------------
\* The vault's context rules.  Ids are given out once and in order; removing a
\* rule moves no other.
AddContextRule(name) ==
    /\ nextRule < MaxRules
    /\ rules' = [id \in DOMAIN rules \cup {nextRule} |->
                   IF id = nextRule THEN name ELSE rules[id]]
    /\ nextRule' = nextRule + 1

UpdateContextRuleName(id, name) ==
    rules' = [rules EXCEPT ![id] = name] /\ UNCHANGED nextRule

RemoveContextRule(id) ==
    rules' = Restrict(rules, DOMAIN rules \ {id}) /\ UNCHANGED nextRule

RuleStep ==
    \/ \E name \in RuleNames : AddContextRule(name)
    \/ \E id \in DOMAIN rules :
        RemoveContextRule(id) \/ \E name \in RuleNames : UpdateContextRuleName(id, name)

-----------------------------------------------------------------------------
\* The overview.  History: ids is what was installed when the rules were
\* counted, seen what was true at some moment since the read began.
Truths ==
    (IF config # None /\ balance >= config.criticalFloor THEN {"funded"} ELSE {})
        \cup {rules[id] : id \in DOMAIN rules}
Seen(read) == IF read = None THEN None ELSE [read EXCEPT !.seen = @ \cup Truths']
Restarted(read) ==
    IF Reinitialised /\ read # None THEN [read EXCEPT !.seen = @ \cup {"restarted"}] ELSE read

StartRead ==
    /\ overview # None => overview.how # "open"
    /\ overview' = [how |-> "open", balance |-> None, floor |-> None, count |-> None,
                    list |-> <<>>, ids |-> {}, seen |-> Truths]

\* The calls of Promise.all, in any order.
ReadBalance ==
    overview.balance = None /\ overview' = [overview EXCEPT !.balance = balance]
ReadFloor ==
    /\ overview.floor = None /\ config # None
    /\ overview' = [overview EXCEPT !.floor = config.criticalFloor]
ReadRuleCount ==
    /\ overview.count = None
    /\ overview' = [overview EXCEPT !.count = Cardinality(DOMAIN rules),
                                    !.ids = DOMAIN rules]

AllRead == None \notin {overview.balance, overview.floor, overview.count}
NextId == Len(overview.list)

\* Mutant of RuleRead: a rule that is not there is passed over.
RuleReadOrSkipped(id) ==
    [overview EXCEPT !.list = Append(@, IF id \in DOMAIN rules THEN rules[id] ELSE None)]

\* get_context_rule of id, which throws when there is none.
RuleRead(id) ==
    IF id \in DOMAIN rules
    THEN [overview EXCEPT !.list = Append(@, rules[id])]
    ELSE [overview EXCEPT !.how = "missing"]

ReadRule == AllRead /\ NextId < overview.count /\ overview' = RuleRead(NextId)

ShowOverview ==
    AllRead /\ NextId = overview.count /\ overview' = [overview EXCEPT !.how = "shown"]

\* A call that fails in all of its attempts.
ReadFails == overview' = [overview EXCEPT !.how = "failed"]

OverviewStep ==
    /\ UNCHANGED <<vars, rules, nextRule, status, guardian>>
    /\ \/ StartRead
       \/ /\ overview # None /\ overview.how = "open"
          /\ \/ ReadBalance \/ ReadFloor \/ ReadRuleCount
             \/ ReadRule \/ ShowOverview \/ ReadFails

\* The label of a configuration: no profile is stored, the dashboard compares.
Presets == [Conservative |-> <<7500, 8500>>, Balanced |-> <<8500, 9200>>,
            Aggressive |-> <<9000, 9700>>]
RiskProfileLabel(c) ==
    LET hits == {p \in DOMAIN Presets : Presets[p] = <<c.preemptiveUtil, c.fullDrainUtil>>}
    IN  IF hits = {} THEN "Custom" ELSE CHOOSE p \in hits : TRUE

\* evaluateGoLiveChecklist, the items that rest on several calls.
FundedAboveFloor == overview.balance >= overview.floor
HasAgentKey == \E i \in DOMAIN overview.list : overview.list[i] = "R_AGENT_PAY"

-----------------------------------------------------------------------------
\* A step of the contracts is noted by the answers taken before it.
Note ==
    /\ UNCHANGED <<rules, nextRule>>
    /\ status' = Watched(status) /\ guardian' = Watched(guardian)
    /\ overview' = Restarted(Seen(overview))

VaultStep ==
    /\ RuleStep
    /\ UNCHANGED <<vars, status, guardian>>
    /\ overview' = Seen(overview)

PagesNext == (Next /\ Note) \/ VaultStep \/ BarStep \/ OverviewStep

PagesSpec == Init /\ PagesInit /\ [][PagesNext]_pagesVars

-----------------------------------------------------------------------------
\* When the bar says that a guardian pause is live and the level has not
\* followed, then since the older of its two answers a pause really was on
\* below Paused, or the level was taken down again from Paused, in whatever
\* order the answers were taken and arrived (StatusBar.tsx:53).
BarHasCause ==
    RiskStateLagsRealPause => status.shown.since \cup guardian.shown.since # {}

\* The overview is one moment's worth of rules, no less and no more: those
\* installed when they were counted, though they are read one by one while
\* rules come, go and change names (vaultOverview.ts:125).  A passed item of the
\* checklist was true at some moment of the read, unless the account was
\* initialised again in it.  The page fails for a missing rule only once one
\* was removed, and names a profile exactly when its thresholds are in force.
ChecklistIsTrue ==
    overview # None =>
        /\ overview.how = "shown" =>
             /\ {i - 1 : i \in {j \in DOMAIN overview.list : overview.list[j] # None}}
                  = overview.ids
             /\ FundedAboveFloor => overview.seen \cap {"funded", "restarted"} # {}
             /\ HasAgentKey => "R_AGENT_PAY" \in overview.seen
        /\ overview.how = "missing" => DOMAIN rules # 0 .. nextRule - 1
        /\ \A p \in RiskProfile :
             config # None =>
                 (RiskProfileLabel(config) = p <=> config = WithProfile(config, p))

\* What bar and overview put together from many reads was so (StatusBar.tsx:60,
\* vaultOverview.ts:110).
PagesAreTrue == BarHasCause /\ ChecklistIsTrue
=============================================================================
