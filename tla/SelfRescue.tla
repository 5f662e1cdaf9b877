----------------------------- MODULE SelfRescue -----------------------------
(***************************************************************************)
(* drills/refluo_disappears_drill.mjs against the contracts it deploys: a  *)
(* vault with its context rules, policy-admin-threshold on R_ADMIN, and    *)
(* policy-venue on the yield rule the drill installs, checks, removes and  *)
(* checks again.  Whoever else holds keys, the agent among them, calls the *)
(* same contracts between any two steps of the script.  Every rule has a   *)
(* policy: what the library does with a bare one is not modelled.          *)
(***************************************************************************)
EXTENDS Integers, FiniteSets, Functions

CONSTANTS
    Admins,          \* the signers of R_ADMIN
    AdminThreshold,  \* admin_threshold, the constructor's argument
    CoSigners,       \* the admins whose keys the drill has
    Agent,           \* the signer of yield rules
    Nil,             \* no exit code yet, or no argument
    MaxRules         \* bound: context rules ever added

Signers == Admins \cup {Agent}
Ids == 0 .. MaxRules - 1
Admin == 0   \* R_ADMIN, contextRuleId of both calls
Yield == 1   \* r_yield, the id the script takes for granted

ASSUME SignersAssumption ==
    /\ CoSigners \subseteq Admins /\ Agent \notin Admins
    /\ AdminThreshold \in 1 .. Cardinality(Admins)
ASSUME IdsAssumption == Yield \in Ids /\ Nil \notin Int

VARIABLES
    rules,      \* the vault's context rules, by id
    nextRule,   \* the id of the next one
    threshold,  \* policy-admin-threshold: what it asks for, by rule
    venue,      \* policy-venue's Config by rule: the venue it admits
    step,       \* what the script does next
    failed,     \* fail > 0
    exit,       \* the script's exit code, Nil while it runs
    landed,     \* history: who called what about the id of r_yield
    alone       \* history: one landed without the admins it takes

vaultVars == <<rules, nextRule, threshold, venue>>
scriptVars == <<step, failed, exit>>
rescueVars == <<vaultVars, scriptVars, landed, alone>>

Rule == [signers : SUBSET Signers, policies : SUBSET {"threshold", "venue"}]
Venues == {"drill's venue", "another venue"}
ScriptSteps == {"deploy", "install", "count rules", "read config", "rescue",
                "count again", "read again", "end"}

RescueTypeOK ==
    /\ DOMAIN rules \subseteq Ids /\ \A id \in DOMAIN rules : rules[id] \in Rule
    /\ nextRule \in 0 .. MaxRules
    /\ DOMAIN threshold \subseteq Ids /\ DOMAIN venue \subseteq Ids
    /\ step \in ScriptSteps /\ failed \in BOOLEAN /\ exit \in {Nil, 0, 1}

RescueInit ==
    /\ rules = <<>> /\ nextRule = 0
    /\ threshold = <<>> /\ venue = <<>>
    /\ step = "deploy" /\ failed = FALSE /\ exit = Nil
    /\ landed = {} /\ alone = FALSE

With(f, id, value) == [x \in DOMAIN f \cup {id} |-> IF x = id THEN value ELSE f[x]]
Without(f, id) == Restrict(f, DOMAIN f \ {id})

-----------------------------------------------------------------------------
\* The SDK's AuthPayload: the co-signers, in whatever order, and one rule id
\* for each node of the invocation tree.
AuthPayload(signers, rule, nodes) ==
    [signers |-> signers, ruleIds |-> [i \in 1 .. nodes |-> rule]]

\* A call of one of the contracts the vault must authorise: on rule `id`, with a
\* venue or a threshold where the function takes one.
CallTo(contract, fn, id, arg) == [contract |-> contract, fn |-> fn, id |-> id, arg |-> arg]

ThresholdEnforce(id, signers) ==
    id \in DOMAIN threshold /\ Cardinality(signers) >= threshold[id]

\* Mutant of VenueEnforce: the venues are not consulted.
VenueEnforceAnyContract(id, signers, call) == signers # {} /\ id \in DOMAIN venue

\* What the amounts of a submit may be is EpochCounter's.
VenueEnforce(id, signers, call) ==
    /\ signers # {}
    /\ id \in DOMAIN venue
    /\ call.contract = venue[id]
    /\ call.fn = "submit"

\* __check_auth: the rule exists and all its policies accept its own signers.
CheckAuth(payload, call) ==
    /\ DOMAIN payload.ruleIds = 1 .. 1
    /\ LET id == payload.ruleIds[1] IN
       /\ id \in DOMAIN rules
       /\ LET signers == payload.signers \cap rules[id].signers IN
          /\ "threshold" \in rules[id].policies => ThresholdEnforce(id, signers)
          /\ "venue" \in rules[id].policies => VenueEnforce(id, signers, call)

-----------------------------------------------------------------------------
AddContextRule(id, admitted) ==
    /\ id = nextRule /\ id < MaxRules /\ id \notin DOMAIN venue
    /\ rules' = With(rules, id, [signers |-> {Agent}, policies |-> {"venue"}])
    /\ nextRule' = id + 1
    /\ venue' = With(venue, id, admitted)
    /\ UNCHANGED threshold

\* Mutant of RemoveContextRule: the policies are not told.
RemoveContextRuleOnly(id) ==
    /\ id \in DOMAIN rules
    /\ rules' = Without(rules, id)
    /\ UNCHANGED <<nextRule, threshold, venue>>

\* Its policies are uninstalled, or fail to be and are gone all the same.
RemoveContextRule(id) ==
    /\ id \in DOMAIN rules
    /\ rules' = Without(rules, id)
    /\ venue' = IF "venue" \in rules[id].policies THEN Without(venue, id) ELSE venue
    /\ threshold' = IF "threshold" \in rules[id].policies
                    THEN Without(threshold, id) ELSE threshold
    /\ UNCHANGED nextRule

\* install and uninstall may be called by themselves; they take the rule on the
\* caller's word.
VenueInstall(id, admitted) ==
    /\ id \notin DOMAIN venue
    /\ venue' = With(venue, id, admitted)
    /\ UNCHANGED <<rules, nextRule, threshold>>

VenueUninstall(id) ==
    /\ id \in DOMAIN venue
    /\ venue' = Without(venue, id)
    /\ UNCHANGED <<rules, nextRule, threshold>>

SetThreshold(id, n) ==
    /\ id \in DOMAIN threshold
    /\ threshold' = With(threshold, id, n)
    /\ UNCHANGED <<rules, nextRule, venue>>

Apply(call) ==
    CASE call.fn = "add_context_rule" -> AddContextRule(call.id, call.arg)
      [] call.fn = "remove_context_rule" -> RemoveContextRule(call.id)
      [] call.fn = "install" -> VenueInstall(call.id, call.arg)
      [] call.fn = "uninstall" -> VenueUninstall(call.id)
      [] call.fn = "set_threshold" -> SetThreshold(call.id, call.arg)

Enough(signers) ==
    Admin \in DOMAIN threshold /\ Cardinality(signers \cap Admins) >= threshold[Admin]

\* One transaction: authorised, it changes the contracts.
Lands(who, signers, rule, call) ==
    /\ CheckAuth(AuthPayload(signers, rule, 1), call)
    /\ Apply(call)
    /\ landed' = IF call.id = Yield THEN landed \cup {<<who, call.fn>>} ELSE landed
    /\ alone' = (alone \/ ~Enough(signers))

\* The calls of everyone else.
OtherCalls ==
    {CallTo("vault", "add_context_rule", nextRule, "another venue")}
    \cup {CallTo("vault", "remove_context_rule", id, Nil) : id \in Ids}
    \cup {CallTo("policy-venue", "install", id, "another venue") : id \in Ids}
    \cup {CallTo("policy-venue", "uninstall", id, Nil) : id \in Ids}
    \cup {CallTo("policy-admin-threshold", "set_threshold", Admin, n) :
             n \in 1 .. Cardinality(Admins)}

OthersCall ==
    /\ \E signers \in SUBSET Signers, rule \in DOMAIN rules, call \in OtherCalls :
          Lands("others", signers, rule, call)
    /\ UNCHANGED scriptVars

-----------------------------------------------------------------------------
Goes(from, to) == step = from /\ exit = Nil /\ step' = to

\* A command of the CLI, or an await outside a try, throws: the script is over.
Throws ==
    /\ exit = Nil /\ step # "end"
    /\ exit' = 1
    /\ UNCHANGED <<vaultVars, step, failed, landed, alone>>

\* Fresh contracts; the vault's constructor bootstraps R_ADMIN.
Deploy ==
    /\ Goes("deploy", "install")
    /\ rules' = With(rules, Admin, [signers |-> Admins, policies |-> {"threshold"}])
    /\ nextRule' = Admin + 1
    /\ threshold' = With(threshold, Admin, AdminThreshold)
    /\ UNCHANGED <<venue, failed, exit, landed, alone>>

\* The SDK's call, in a try: it lands and SUCCESS is seen, or it lands and the
\* answer is lost, or it does not land.  The script goes on whichever it was.
Signed(call) ==
    /\ UNCHANGED exit
    /\ \/ Lands("drill", CoSigners, Admin, call) /\ failed' \in {failed, TRUE}
       \/ failed' = TRUE /\ UNCHANGED <<vaultVars, landed, alone>>

InstallYield ==
    /\ Goes("install", "count rules")
    /\ Signed(CallTo("vault", "add_context_rule", nextRule, "drill's venue"))

Rescue ==
    /\ Goes("rescue", "count again")
    /\ Signed(CallTo("vault", "remove_context_rule", Yield, Nil))

Check(ok) ==
    /\ failed' = (failed \/ ~ok)
    /\ UNCHANGED <<vaultVars, exit, landed, alone>>

RulesCount == Cardinality(DOMAIN rules)
CountRules == Goes("count rules", "read config") /\ Check(RulesCount = 2)
CountAgain == Goes("count again", "read again") /\ Check(RulesCount = 1)

\* Mutant of ReadConfig: that there is a config is enough.
ReadConfigAny ==
    /\ Goes("read config", "rescue")
    /\ Yield \in DOMAIN venue
    /\ Check(TRUE)

\* Without a config the command fails: that is Throws.
ReadConfig ==
    /\ Goes("read config", "rescue")
    /\ Yield \in DOMAIN venue
    /\ Check(venue[Yield] = "drill's venue")

\* The command must fail this time, and may for reasons of its own.
ReadAgain ==
    /\ Goes("read again", "end")
    /\ \E broken \in BOOLEAN : Check(broken \/ Yield \notin DOMAIN venue)

Exit ==
    /\ step = "end" /\ exit = Nil
    /\ exit' = IF failed THEN 1 ELSE 0
    /\ UNCHANGED <<vaultVars, step, failed, landed, alone>>

ScriptStep ==
    \/ Deploy \/ InstallYield \/ CountRules \/ ReadConfig
    \/ Rescue \/ CountAgain \/ ReadAgain \/ Exit
RescueNext == ScriptStep \/ Throws \/ OthersCall

RescueSpec == RescueInit /\ [][RescueNext]_rescueVars

-----------------------------------------------------------------------------
\* When the drill passes, its own yield rule and policy-venue's storage for it
\* were installed and removed by its own two calls, whatever other key holders
\* did meanwhile; storage found there afterwards was put there by others.  And
\* nobody, least of all the agent under its own rule, ever changed a rule, a
\* policy or a threshold without as many admins as the threshold then asked
\* for ("self-rescue guarantee, demonstrated, not asserted").
RescueIsReal ==
    /\ ~alone
    /\ exit = 0 =>
        /\ <<"drill", "add_context_rule">> \in landed
        /\ <<"drill", "remove_context_rule">> \in landed
        /\ Yield \notin DOMAIN rules
        /\ Yield \in DOMAIN venue => <<"others", "install">> \in landed
=============================================================================
