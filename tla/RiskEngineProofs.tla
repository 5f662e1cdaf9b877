-------------------------- MODULE RiskEngineProofs --------------------------
(***************************************************************************)
(* RiskEngine for every set of configurations, venues, amounts and         *)
(* utilizations, and every behaviour of the pause, the oracle and the      *)
(* balance; the dashboard's pages over it, VaultPages and Panels, for      *)
(* every order in which their reads are taken and answered; and the        *)
(* sentinel loop with its transactions in flight.                          *)
(***************************************************************************)
EXTENDS VaultPages, Panels, Sentinel, FoldLemmas

LEMMA NoneIsNotAConfig == None \notin TierConfig
  BY AbsentAssumption

\* A clamped value lies between the bounds.
LEMMA ClampBounds ==
    ASSUME NEW x \in Int, NEW lo \in Int, NEW hi \in Int, lo <= hi
    PROVE  Clamp(x, lo, hi) \in lo .. hi
  BY DEF Clamp

\* A profile only overwrites the two thresholds.
LEMMA ProfileFields ==
    ASSUME NEW c \in TierConfig, NEW p
    PROVE  WithProfile(c, p) \in TierConfig
<1>1. /\ Thresholds(p).preemptive \in Nat
      /\ Thresholds(p).fullDrain \in Nat
  BY DEF Thresholds
<1> QED
  BY <1>1 DEF WithProfile, TierConfig

LEMMA InitTypes ==
    ASSUME TypeOK, NEW c \in TierConfig, NEW t \in Int,
           InitAccount(c, t), UNCHANGED envVars
    PROVE  TypeOK'
  BY DEF TypeOK, InitAccount, ValidInit, TierConfig, envVars,
         SystemState, Normal, Paused

\* Every step of the account or its environment keeps the types, the target
\* within its bounds included.
LEMMA TypeStep == TypeOK /\ [Next]_vars => TypeOK'
<1> SUFFICES ASSUME TypeOK, [Next]_vars PROVE TypeOK'
  OBVIOUS
<1>1. ASSUME NEW c \in Configs, NEW t \in Targets, InitAccount(c, t),
             UNCHANGED envVars
      PROVE  TypeOK'
  BY <1>1, InitTypes, ConfigsAssumption, InputsAssumption
<1>2. ASSUME NEW c \in Configs, NEW t \in Targets, NEW p \in RiskProfile,
             InitWithProfile(p, c, t), UNCHANGED envVars
      PROVE  TypeOK'
  <2>1. WithProfile(c, p) \in TierConfig /\ t \in Int
    BY ProfileFields, ConfigsAssumption, InputsAssumption
  <2> QED
    BY <1>2, <2>1, InitTypes DEF InitWithProfile
<1>3. ASSUME NEW k \in Keepers, NEW t \in Targets, SetTier0Target(k, t),
             UNCHANGED envVars
      PROVE  TypeOK'
  <2>1. config \in TierConfig /\ config' = config
    BY <1>3 DEF SetTier0Target, IsKeeper, TypeOK
  <2>2. /\ config.boundsMin \in Int /\ config.boundsMax \in Int
        /\ config.boundsMin <= config.boundsMax
    BY <2>1, NoneIsNotAConfig DEF TypeOK, TierConfig
  <2>3. t \in Int
    BY InputsAssumption
  <2>4. target' \in config.boundsMin .. config.boundsMax
    BY <1>3, <2>2, <2>3, ClampBounds DEF SetTier0Target
  <2>5. target' \in Int
    BY <2>2, <2>4
  <2>6. /\ UNCHANGED <<config, state, positions, era>>
        /\ UNCHANGED <<paused, oracle, balance>>
    BY <1>3 DEF SetTier0Target, envVars
  <2> QED
    BY <2>4, <2>5, <2>6 DEF TypeOK
<1>4. ASSUME NEW k \in Keepers, NEW v \in Venues, NEW a \in Amounts,
             RecordTier1Position(k, v, a), UNCHANGED envVars
      PROVE  TypeOK'
  BY <1>4, InputsAssumption DEF TypeOK, RecordTier1Position, envVars
<1>5. ASSUME NEW k \in Keepers, NEW to \in SystemState, NEW u,
             KeeperAdvanceState(k, to, u), UNCHANGED envVars
      PROVE  TypeOK'
  BY <1>5 DEF TypeOK, KeeperAdvanceState, Recover, Drain, envVars
<1>6. CASE CheckAndTrip /\ UNCHANGED envVars
  <2>1. TripTarget \in SystemState
    BY DEF TripTarget, TypeOK, SystemState, Normal, PreemptiveDrain,
           Emergency, Paused
  <2> QED
    BY <1>6, <2>1 DEF TypeOK, CheckAndTrip, envVars
<1>7. CASE Environment /\ UNCHANGED engineVars
  BY <1>7, InputsAssumption DEF TypeOK, Environment, engineVars
<1>8. CASE UNCHANGED vars
  BY <1>8 DEF TypeOK, vars
<1> QED
  BY <1>1, <1>2, <1>3, <1>4, <1>5, <1>6, <1>7, <1>8 DEF Next, Handler

LEMMA TypeInit == Init => TypeOK
<1> SUFFICES ASSUME Init PROVE TypeOK
  OBVIOUS
<1>1. state \in SystemState /\ target \in Int
  BY DEF Init, SystemState, Normal, Paused
<1>2. positions \in [Venues -> Int]
  BY DEF Init
<1>3. balance \in Int
  BY InputsAssumption DEF Init
<1>4. era \in {0, 1} /\ paused \in BOOLEAN
  BY DEF Init
<1> QED
  BY <1>1, <1>2, <1>3, <1>4 DEF Init, TypeOK

\* The stored values have their types and the Tier 0 target never leaves the
\* bounds of the configuration in force (init_validated, set_tier0_target).
THEOREM TypeCorrect == Spec => []TypeOK
  BY TypeInit, TypeStep, PTL DEF Spec

-----------------------------------------------------------------------------
\* Once the account is initialised, only keeper_advance_state's downward
\* branch lowers the level.
LEMMA OnlyRecoverLowers ==
    ASSUME TypeOK, [Next]_vars, state' < state, ~Reinitialised
    PROVE  /\ \E k \in Keepers, to \in SystemState : Recover(k, to)
           /\ UNCHANGED envVars
<1>1. state \in Int /\ state \in SystemState
  BY DEF TypeOK, SystemState, Normal, Paused
<1>2. state' # state
  BY <1>1
<1>3. ~(Environment /\ UNCHANGED engineVars) /\ ~UNCHANGED vars
  BY <1>2 DEF engineVars, vars
<1>4. Handler /\ UNCHANGED envVars
  BY <1>3 DEF Next
<1>5. ASSUME NEW c, NEW t, InitAccount(c, t) PROVE FALSE
  <2>1. era' = era
    BY DEF Reinitialised
  <2>2. era' = 1 - era /\ era \in {0, 1}
    BY <1>5 DEF InitAccount, TypeOK
  <2> QED
    BY <2>1, <2>2
<1>6. ASSUME NEW p, NEW c, NEW t, InitWithProfile(p, c, t) PROVE FALSE
  BY <1>5, <1>6 DEF InitWithProfile
<1>7. ~CheckAndTrip
  <2>1. TripTarget \in Int
    BY <1>1 DEF TripTarget, Paused, Emergency, PreemptiveDrain
  <2> QED
    BY <1>1, <2>1 DEF CheckAndTrip
<1>8. \A k, t : ~SetTier0Target(k, t)
  BY <1>2 DEF SetTier0Target
<1>9. \A k, v, a : ~RecordTier1Position(k, v, a)
  BY <1>2 DEF RecordTier1Position
<1>10. ASSUME NEW k, NEW to \in SystemState, NEW u, Drain(k, to, u)
       PROVE  FALSE
  BY <1>1, <1>10 DEF Drain, SystemState, Normal, Paused
<1> QED
  BY <1>4, <1>5, <1>6, <1>7, <1>8, <1>9, <1>10 DEF Handler, KeeperAdvanceState

\* What the downward branch has checked when it lowers the level.
LEMMA RecoverChecks ==
    ASSUME TypeOK, NEW k, NEW to \in SystemState, Recover(k, to)
    PROVE  /\ ~paused
           /\ balance >= config.criticalFloor
           /\ oracle \in {"Healthy", "OneFeed"}
           /\ state' = Normal => oracle = "Healthy"
           /\ state' = to
           /\ oracle = "OneFeed" => to = PreemptiveDrain
           /\ config' = config
  BY DEF TypeOK, Recover, RecoveryClear, MirroredOracleStatus, Normal,
         PreemptiveDrain

\* A level just granted is not one the crank would raise again under the same
\* conditions: check_and_trip and keeper_advance_state agree everywhere.
THEOREM RecoveryIsStable == Spec => NoFlapping
<1>1. ASSUME TypeOK, [Next]_vars, state' < state, ~Reinitialised
      PROVE  TripTarget' <= state'
  <2>1. PICK k \in Keepers, to \in SystemState : Recover(k, to)
    BY <1>1, OnlyRecoverLowers
  <2>2. UNCHANGED <<paused, oracle, balance>>
    BY <1>1, OnlyRecoverLowers DEF envVars
  <2>3. /\ ~paused' /\ config' = config /\ state' = to
        /\ balance' >= config'.criticalFloor
        /\ oracle' \in {"Healthy", "OneFeed"}
        /\ oracle' = "OneFeed" => state' = PreemptiveDrain
    BY <1>1, <2>1, <2>2, RecoverChecks
  <2>4. /\ config \in TierConfig
        /\ balance \in Int
    BY <1>1, <2>1 DEF Recover, IsKeeper, TypeOK
  <2>5. ~(balance' < config'.criticalFloor)
    BY <2>2, <2>3, <2>4 DEF TierConfig
  <2>6. ~(oracle' \in {"Degraded", "HardStop"} \/ balance' < config'.criticalFloor)
    BY <2>3, <2>5
  <2>7. TripTarget' = IF oracle' = "OneFeed" THEN PreemptiveDrain ELSE state'
    BY <2>3, <2>6, Zenon DEF TripTarget
  <2>8. TripTarget' = state' /\ state' \in Int
    BY <2>3, <2>7 DEF SystemState, Normal, Paused
  <2> QED
    BY <2>8
<1>2. TypeOK /\ [Next]_vars =>
        [ state' < state /\ ~Reinitialised => TripTarget' <= state' ]_vars
  BY <1>1
<1> QED
  BY <1>2, TypeInit, TypeStep, PTL DEF Spec, NoFlapping
-----------------------------------------------------------------------------
\* The ledger of positions.
LEMMA TotalZero == Total([v \in Venues |-> 0]) = 0
  BY AddedZero, VenuesAssumption DEF Total, Added

LEMMA TotalInt == ASSUME TypeOK PROVE Total(positions) \in Int
  BY AddedInt, VenuesAssumption DEF TypeOK, Total, Added

LEMMA TotalReplaced ==
    ASSUME TypeOK, NEW v \in Venues, NEW a \in Int
    PROVE  Total([positions EXCEPT ![v] = a]) = Total(positions) - positions[v] + a
  BY AddedReplaced, VenuesAssumption DEF TypeOK, Total, Added

\* Setting a venue's position: the other venues' total plus the new amount.
LEMMA TotalOfOthers ==
    ASSUME TypeOK, NEW v \in Venues
    PROVE  /\ TotalOthers(v) = Total(positions) - positions[v]
           /\ \A a \in Int : Total([positions EXCEPT ![v] = a]) = TotalOthers(v) + a
           /\ positions[v] \in Int /\ TotalOthers(v) \in Int
<1>1. positions[v] \in Int /\ Total(positions) \in Int
  BY TotalInt DEF TypeOK
<1>2. TotalOthers(v) = Total(positions) - positions[v] + 0
  BY TotalReplaced DEF TotalOthers
<1>3. \A a \in Int : Total([positions EXCEPT ![v] = a]) = Total(positions) - positions[v] + a
  BY TotalReplaced
<1> QED
  BY <1>1, <1>2, <1>3

\* The inductive form of the cap: nothing but the ledger and its bound.
WithinCap == config # None => Total(positions) <= config.tvlCap

LEMMA WithinCapStep ==
    ASSUME TypeOK, WithinCap, [Next]_vars
    PROVE  WithinCap'
<1>1. ASSUME NEW c \in TierConfig, NEW t, InitAccount(c, t)
      PROVE  WithinCap'
  <2>1. /\ config' = c /\ c.tvlCap > 0 /\ c.tvlCap \in Int
        /\ Total(positions') = 0
    BY <1>1, TotalZero DEF InitAccount, ValidInit, TierConfig
  <2> QED
    BY <2>1 DEF WithinCap
<1>2. ASSUME NEW c \in Configs, NEW t, NEW p, InitWithProfile(p, c, t)
      PROVE  WithinCap'
  BY <1>1, <1>2, ProfileFields, ConfigsAssumption DEF InitWithProfile
<1>3. ASSUME NEW k \in Keepers, NEW v \in Venues, NEW a \in Amounts,
             RecordTier1Position(k, v, a)
      PROVE  WithinCap'
  <2>1. /\ positions' = [positions EXCEPT ![v] = a] /\ config' = config
        /\ TotalOthers(v) + a <= config.tvlCap
    BY <1>3 DEF RecordTier1Position, RecordAllowed
  <2>2. Total(positions') = TotalOthers(v) + a
    BY <2>1, TotalOfOthers, InputsAssumption
  <2> QED
    BY <2>1, <2>2 DEF WithinCap
<1>4. CASE UNCHANGED <<config, positions>>
  BY <1>4 DEF WithinCap
<1>5. ASSUME NEW k, NEW t, SetTier0Target(k, t) PROVE UNCHANGED <<config, positions>>
  BY <1>5 DEF SetTier0Target
<1>6. ASSUME NEW k, NEW to, NEW u, KeeperAdvanceState(k, to, u)
      PROVE  UNCHANGED <<config, positions>>
  BY <1>6 DEF KeeperAdvanceState, Recover, Drain
<1>7. CheckAndTrip => UNCHANGED <<config, positions>>
  BY DEF CheckAndTrip
<1>8. UNCHANGED engineVars \/ UNCHANGED vars => UNCHANGED <<config, positions>>
  BY DEF engineVars, vars
<1> QED
  BY <1>1, <1>2, <1>3, <1>4, <1>5, <1>6, <1>7, <1>8, ConfigsAssumption
  DEF Next, Handler

\* What a policy is advised is what the ledger enforces, venue by venue.
LEMMA AdviceMatches ==
    ASSUME TypeOK, config # None
    PROVE  AdviceIsEnforced
<1> SUFFICES ASSUME NEW v \in Venues, NEW a \in Amounts
             PROVE  DeployAllowed(a) <=> RecordAllowed(v, positions[v] + a)
  BY DEF AdviceIsEnforced
<1>1. a \in Int /\ positions[v] \in Int /\ Total(positions) \in Int
  BY InputsAssumption, TotalInt DEF TypeOK
<1>2. TotalOthers(v) + (positions[v] + a) = Total(positions) + a
  BY <1>1, TotalOfOthers
<1> QED
  BY <1>2 DEF DeployAllowed, RecordAllowed

\* Tier 1 capital never exceeds the cap in force, over any number of venues and
\* any sequence of positions, and deploy_allowed tells what record_tier1_position
\* then enforces.
THEOREM CapIsRespected == Spec => []CapRespected
<1>1. Init => WithinCap
  BY DEF Init, WithinCap
<1>2. TypeOK /\ WithinCap /\ [Next]_vars => WithinCap'
  BY WithinCapStep
<1>3. TypeOK /\ WithinCap => CapRespected
  BY AdviceMatches DEF WithinCap, CapRespected
<1> QED
  BY <1>1, <1>2, <1>3, TypeCorrect, PTL DEF Spec
-----------------------------------------------------------------------------
\* The panels.  What a request comes to, and what fetchJson throws for it.
LEMMA CauseNames ==
    /\ Causes = {"some", "empty", "transient", "broken", "page200", "page502",
                 "unauthenticated", "unreachable"}
    /\ DOMAIN Pages = {"page200", "page502"}
    /\ Pages["page200"] = 200 /\ Pages["page502"] = 502
  BY DEF Causes, Reads, Pages

LEMMA ClassifiedErrors ==
    /\ ClassifyError("unauthenticated") = [status |-> 401, retryable |-> FALSE]
    /\ ClassifyError("transient") = [status |-> 503, retryable |-> TRUE]
    /\ ClassifyError("broken") = [status |-> 500, retryable |-> FALSE]
  BY DEF ClassifyError

LEMMA Responses ==
    /\ Response("some") = [status |-> 200, body |-> "some"]
    /\ Response("empty") = [status |-> 200, body |-> "empty"]
    /\ Response("page200") = [status |-> 200, body |-> Absent]
    /\ Response("page502") = [status |-> 502, body |-> Absent]
    /\ \A c \in {"unauthenticated", "transient", "broken"} :
         Response(c) = [status |-> ClassifyError(c).status, body |-> ClassifyError(c)]
<1>1. Response("some") = [status |-> 200, body |-> "some"]
      /\ Response("empty") = [status |-> 200, body |-> "empty"]
  BY CauseNames DEF Response
<1>2. Response("page200") = [status |-> 200, body |-> Absent]
      /\ Response("page502") = [status |-> 502, body |-> Absent]
  BY CauseNames DEF Response
<1>3. ASSUME NEW c \in {"unauthenticated", "transient", "broken"}
      PROVE  Response(c) = [status |-> ClassifyError(c).status, body |-> ClassifyError(c)]
  BY CauseNames DEF Response
<1> QED
  BY <1>1, <1>2, <1>3

\* The error says "temporary" exactly for the causes that are.
LEMMA FetchErrors ==
    ASSUME NEW c \in Causes
    PROVE  /\ FetchError(c) = Absent <=> c \in {"some", "empty", "page200"}
           /\ FetchError(c) # Absent =>
                /\ FetchError(c) \in PageError
                /\ FetchError(c).retryable <=> c \in Temporary
<1>1. CASE c \in {"some", "empty", "page200"}
  <2>1. Response(c).status = 200
    BY <1>1, Responses
  <2> QED
    BY <1>1, <2>1 DEF FetchError
<1>2. ASSUME NEW s \in Nat, NEW b \in BOOLEAN, FetchError(c) = ApiClientError(s, b)
      PROVE  FetchError(c) # Absent /\ FetchError(c) \in PageError
             /\ (FetchError(c).retryable <=> b)
  <2>1. ApiClientError(s, b) \in PageError /\ (ApiClientError(s, b).retryable <=> b)
    BY DEF ApiClientError, PageError
  <2> QED
    BY <1>2, <2>1, NullAssumption
<1>3. CASE c = "page502"
  <2>1. Response(c).status = 502 /\ Response(c).body = Absent
    BY <1>3, Responses
  <2>2. FetchError(c) = ApiClientError(502, TRUE)
    <3>1. (502 >= 500) = TRUE
      OBVIOUS
    <3>2. FetchError(c) = ApiClientError(502, 502 >= 500)
      BY <1>3, <2>1 DEF FetchError
    <3> QED
      BY <3>1, <3>2
  <2>3. c \in Temporary /\ c \notin {"some", "empty", "page200"}
    BY <1>3 DEF Temporary
  <2>4. FetchError(c) \in PageError /\ FetchError(c).retryable = TRUE
    BY <2>2 DEF ApiClientError, PageError
  <2>5. FetchError(c) # Absent
    BY <2>4, NullAssumption
  <2> QED
    BY <2>3, <2>4, <2>5
<1>4. CASE c = "unreachable"
  <2>1. FetchError(c) = ApiClientError(0, TRUE)
    BY <1>4 DEF FetchError
  <2> QED
    BY <1>2, <1>4, <2>1 DEF Temporary
<1>5. CASE c \in {"unauthenticated", "transient", "broken"}
  <2> DEFINE e == ClassifyError(c)
  <2>1. e \in PageError /\ e.status # 200 /\ (e.retryable <=> c \in Temporary)
    <3>1. CASE c = "unauthenticated"
      <4>1. e = [status |-> 401, retryable |-> FALSE]
        BY <3>1, ClassifiedErrors
      <4>2. e \in PageError /\ e.status # 200 /\ e.retryable = FALSE
        <5> HIDE DEF e
        <5> QED
          BY <4>1 DEF PageError
      <4>3. c \notin Temporary
        BY <3>1 DEF Temporary
      <4> QED
        BY <4>2, <4>3
    <3>2. CASE c = "transient"
      <4>1. e = [status |-> 503, retryable |-> TRUE]
        BY <3>2, ClassifiedErrors
      <4>2. e \in PageError /\ e.status # 200 /\ e.retryable = TRUE
        <5> HIDE DEF e
        <5> QED
          BY <4>1 DEF PageError
      <4>3. c \in Temporary
        BY <3>2 DEF Temporary
      <4> QED
        BY <4>2, <4>3
    <3>3. CASE c = "broken"
      <4>1. e = [status |-> 500, retryable |-> FALSE]
        BY <3>3, ClassifiedErrors
      <4>2. e \in PageError /\ e.status # 200 /\ e.retryable = FALSE
        <5> HIDE DEF e
        <5> QED
          BY <4>1 DEF PageError
      <4>3. c \notin Temporary
        BY <3>3 DEF Temporary
      <4> QED
        BY <4>2, <4>3
    <3> QED
      BY <1>5, <3>1, <3>2, <3>3
  <2>2. e # Absent /\ e.status \in Nat /\ e.retryable \in BOOLEAN
    BY <2>1, NullAssumption DEF PageError
  <2>3. Response(c).status = e.status /\ Response(c).body = e
    BY <1>5, Responses
  <2>4. FetchError(c) = ApiClientError(e.status, e.retryable)
    <3> HIDE DEF e
    <3> QED
      BY <1>5, <2>1, <2>2, <2>3 DEF FetchError
  <2>5. ~(c \in {"some", "empty", "page200"})
    BY <1>5
  <2> HIDE DEF e
  <2> QED
    BY <1>2, <2>1, <2>2, <2>4, <2>5
<1> QED
  BY <1>1, <1>3, <1>4, <1>5, CauseNames

-----------------------------------------------------------------------------
\* The resources of a panel, each with the story of its last attempt.
ResourceState ==
    [completed: BOOLEAN, data: PageData \cup {Absent}, error: PageError \cup {Absent},
     updated: Nat \cup {Absent}, asked: BOOLEAN, sent: DashboardRoles \cup {Absent},
     cause: Causes \cup {Absent}]

Honest(r, x) ==
    /\ x.error = IF x.cause = Absent THEN Absent ELSE FetchError(x.cause)
    /\ x.cause \in {"some", "empty"} => x.data # Absent
    /\ x.data # Absent => /\ x.updated = x.data.arrived
                          /\ r \in Public \/ x.data.under # Absent
    /\ x.completed => x.cause # Absent

PanelTypes ==
    /\ panel \in DOMAIN PanelRoutes
    /\ panelScreen \in Screens
    /\ panelCookie \in DashboardRoles \cup {Absent}
    /\ moves \in Nat
    /\ res \in [Mine -> ResourceState]
    /\ \A r \in Mine : Honest(r, res[r])

LEMMA PanelTypesInit == PanelInit => PanelTypes
<1> SUFFICES ASSUME PanelInit PROVE PanelTypes
  OBVIOUS
<1>1. ASSUME NEW r, NEW asks \in BOOLEAN
      PROVE  /\ NewResource(panelCookie, asks) \in ResourceState
             /\ Honest(r, NewResource(panelCookie, asks))
  <2>1. Absent \notin {"some", "empty"}
    BY NullAssumption, CauseNames
  <2> QED
    BY <2>1 DEF NewResource, ResourceState, Honest, PanelInit
<1>2. res = [r \in Mine |-> NewResource(panelCookie, "loading" \in Asking(panel))]
      /\ ("loading" \in Asking(panel)) \in BOOLEAN
  BY DEF PanelInit
<1> QED
  BY <1>1, <1>2 DEF PanelInit, PanelTypes, Screens

\* An answer, with whatever became of it on the way.
ShownAfter(x, cause) ==
    IF FetchError(cause) = Absent THEN Succeeded(x, cause) ELSE Failed(x, cause)

LEMMA SettledFields ==
    ASSUME NEW x \in ResourceState, NEW cause
    PROVE  SettledBy(x, cause) =
             [completed |-> TRUE, data |-> ShownAfter(x, cause).data,
              error |-> ShownAfter(x, cause).error,
              updated |-> ShownAfter(x, cause).updated,
              asked |-> FALSE, sent |-> Absent, cause |-> cause]
<1>1. PICK y : y = ShownAfter(x, cause)
  OBVIOUS
<1>2. SettledBy(x, cause) =
        [y EXCEPT !.completed = TRUE, !.cause = cause, !.asked = FALSE, !.sent = Absent]
  BY <1>1 DEF SettledBy, ShownAfter
<1>3. y = [completed |-> x.completed, data |-> y.data, error |-> y.error,
           updated |-> y.updated, asked |-> x.asked, sent |-> x.sent, cause |-> x.cause]
  <2>1. y = Succeeded(x, cause) \/ y = Failed(x, cause)
    BY <1>1 DEF ShownAfter
  <2>2. CASE y = Succeeded(x, cause)
    BY <2>2 DEF ResourceState, Succeeded
  <2>3. CASE y = Failed(x, cause)
    BY <2>3 DEF ResourceState, Failed
  <2> QED
    BY <2>1, <2>2, <2>3
<1> QED
  BY <1>1, <1>2, <1>3

LEMMA Arrived ==
    ASSUME NEW r, NEW x \in ResourceState, Honest(r, x), moves \in Nat,
           NEW cause \in Handled(r, x.sent) \cup DOMAIN Pages \cup {"unreachable"}
    PROVE  SettledBy(x, cause) \in ResourceState /\ Honest(r, SettledBy(x, cause))
<1>0. PICK z : z = SettledBy(x, cause)
  OBVIOUS
<1>1. cause \in Causes /\ cause # Absent
  BY NullAssumption, CauseNames DEF Handled, Reads
<1>2. CASE cause \in {"some", "empty"}
  <2> DEFINE told == [content |-> cause, under |-> x.sent, arrived |-> moves]
  <2>1. Response(cause).body = cause /\ FetchError(cause) = Absent
    BY <1>1, <1>2, Responses, FetchErrors
  <2>2. told \in PageData /\ told # Absent
    <3>1. told \in PageData
      BY <1>2 DEF PageData, ResourceState
    <3> QED
      BY <3>1, NullAssumption
  <2>3. r \in Public \/ x.sent # Absent
    BY <1>2, CauseNames DEF Handled, RequiresSession
  <2>4. /\ ShownAfter(x, cause).data = told /\ ShownAfter(x, cause).error = Absent
        /\ ShownAfter(x, cause).updated = moves
    BY <1>1, <2>1 DEF ShownAfter, Succeeded, ResourceState
  <2> HIDE DEF told
  <2>5. z = [completed |-> TRUE, data |-> told, error |-> Absent, updated |-> moves,
             asked |-> FALSE, sent |-> Absent, cause |-> cause]
    BY <1>0, <2>1, <2>4, SettledFields
  <2>6. told.arrived = moves /\ told.under = x.sent
    BY DEF told
  <2> QED
    BY <1>0, <1>1, <2>1, <2>2, <2>3, <2>5, <2>6 DEF ResourceState, Honest
<1>3. CASE cause = "page200"
  <2>1. Response(cause).body = Absent /\ FetchError(cause) = Absent
    BY <1>1, <1>3, Responses, FetchErrors
  <2>2. /\ ShownAfter(x, cause).data = Absent /\ ShownAfter(x, cause).error = Absent
        /\ ShownAfter(x, cause).updated = moves
    BY <2>1 DEF ShownAfter, Succeeded, ResourceState
  <2>3. z = [completed |-> TRUE, data |-> Absent, error |-> Absent, updated |-> moves,
             asked |-> FALSE, sent |-> Absent, cause |-> cause]
    BY <1>0, <2>1, <2>2, SettledFields
  <2>4. z \in ResourceState
    BY <1>1, <2>3 DEF ResourceState
  <2>5. z.cause = "page200" /\ z.data = Absent /\ z.error = FetchError(z.cause) /\ z.cause # Absent
    BY <1>1, <1>3, <2>1, <2>3
  <2>6. Honest(r, z)
    BY <2>5 DEF Honest
  <2> QED
    BY <1>0, <2>4, <2>6
<1>4. CASE cause \notin {"some", "empty", "page200"}
  <2>1. FetchError(cause) # Absent /\ FetchError(cause) \in PageError
    BY <1>1, <1>4, FetchErrors
  <2>2. /\ ShownAfter(x, cause).data = x.data
        /\ ShownAfter(x, cause).error = FetchError(cause)
        /\ ShownAfter(x, cause).updated = x.updated
    BY <2>1 DEF ShownAfter, Failed, ResourceState
  <2>3. z = [completed |-> TRUE, data |-> x.data, error |-> FetchError(cause),
             updated |-> x.updated, asked |-> FALSE, sent |-> Absent, cause |-> cause]
    BY <1>0, <2>1, <2>2, SettledFields
  <2> QED
    BY <1>0, <1>1, <1>4, <2>1, <2>3 DEF ResourceState, Honest
<1> QED
  BY <1>2, <1>3, <1>4

\* Asking again, or no more, changes nothing that is shown.
LEMMA AskedAgain ==
    ASSUME NEW r, NEW x \in ResourceState, Honest(r, x),
           NEW c \in DashboardRoles \cup {Absent}
    PROVE  /\ Asks(x, c) \in ResourceState /\ Honest(r, Asks(x, c))
           /\ Ignores(x) \in ResourceState /\ Honest(r, Ignores(x))
           /\ [Asks(x, c) EXCEPT !.completed = FALSE] \in ResourceState
           /\ Honest(r, [Asks(x, c) EXCEPT !.completed = FALSE])
<1>1. Asks(x, c) \in ResourceState /\ Honest(r, Asks(x, c))
  BY DEF Asks, ResourceState, Honest
<1>2. Ignores(x) \in ResourceState /\ Honest(r, Ignores(x))
  BY DEF Ignores, ResourceState, Honest
<1>3. PICK y : y = Asks(x, c)
  OBVIOUS
<1>4. [y EXCEPT !.completed = FALSE] \in ResourceState
      /\ Honest(r, [y EXCEPT !.completed = FALSE])
  BY <1>1, <1>3 DEF ResourceState, Honest
<1> QED
  BY <1>1, <1>2, <1>3, <1>4
LEMMA SameMine == ASSUME UNCHANGED panel PROVE Mine' = Mine
  BY DEF Mine

LEMMA PanelTypesStep ==
    ASSUME PanelTypes, [PanelNext]_panelVars
    PROVE  PanelTypes'
<1>1. ASSUME NEW r \in Mine, Settles(r) PROVE PanelTypes'
  <2>1. PICK cause \in Handled(r, res[r].sent) \cup DOMAIN Pages \cup {"unreachable"} :
          res' = [res EXCEPT ![r] = SettledBy(res[r], cause)]
    BY <1>1 DEF Settles
  <2>2. SettledBy(res[r], cause) \in ResourceState /\ Honest(r, SettledBy(res[r], cause))
    BY Arrived DEF PanelTypes
  <2>3. UNCHANGED <<panel, panelScreen, panelCookie, moves>> /\ Mine' = Mine
    BY <1>1, SameMine DEF Settles
  <2> QED
    BY <2>1, <2>2, <2>3 DEF PanelTypes
<1>2. CASE ReloadAll
  <2>1. ASSUME NEW r \in Mine
        PROVE  /\ [Asks(res[r], panelCookie) EXCEPT !.completed = FALSE] \in ResourceState
               /\ Honest(r, [Asks(res[r], panelCookie) EXCEPT !.completed = FALSE])
    BY AskedAgain DEF PanelTypes
  <2>2. /\ UNCHANGED <<panel, panelScreen, panelCookie>> /\ moves' = moves + 1
        /\ res' = [r \in Mine |-> [Asks(res[r], panelCookie) EXCEPT !.completed = FALSE]]
        /\ Mine' = Mine
    BY <1>2, SameMine DEF ReloadAll, Moves
  <2>3. \A r \in Mine : res'[r] \in ResourceState /\ Honest(r, res'[r])
    BY <2>1, <2>2
  <2>4. res' = [r \in Mine |-> res'[r]]
    BY <2>2
  <2>5. res' \in [Mine -> ResourceState]
    BY <2>3, <2>4
  <2> QED
    BY <2>2, <2>3, <2>5 DEF PanelTypes
<1>3. ASSUME FollowRole, UNCHANGED panel, panelScreen' \in Screens,
             panelCookie' \in DashboardRoles \cup {Absent}, moves' \in Nat
      PROVE  PanelTypes'
  <2>1. ASSUME NEW r \in Mine PROVE res'[r] \in ResourceState /\ Honest(r, res'[r])
    <3>1. res'[r] \in {Asks(res[r], panelCookie'), Ignores(res[r]), res[r]}
      BY <1>3 DEF FollowRole
    <3>2. res[r] \in ResourceState /\ Honest(r, res[r])
      BY DEF PanelTypes
    <3>3. /\ Asks(res[r], panelCookie') \in ResourceState
          /\ Honest(r, Asks(res[r], panelCookie'))
          /\ Ignores(res[r]) \in ResourceState /\ Honest(r, Ignores(res[r]))
      BY <1>3, <3>2, AskedAgain
    <3> QED
      BY <3>1, <3>2, <3>3
  <2>2. DOMAIN res' = Mine /\ Mine' = Mine /\ res' = [r \in Mine |-> res'[r]]
    BY <1>3, SameMine DEF FollowRole
  <2> QED
    BY <1>3, <2>1, <2>2 DEF PanelTypes
<1>4. CASE MountedPanel
  <2>1. panelScreen' \in Screens /\ panelCookie' = panelCookie /\ moves' = moves
    BY <1>4 DEF MountedPanel, PanelTypes, Screens
  <2> QED
    BY <1>3, <1>4, <2>1 DEF MountedPanel, PanelTypes
<1>5. CASE SignedIn
  <2>1. panelScreen' \in Screens /\ panelCookie' \in DashboardRoles /\ moves' \in Nat
    BY <1>5 DEF SignedIn, Moves, PanelTypes, Screens
  <2> QED
    BY <1>3, <1>5, <2>1 DEF SignedIn
<1>6. CASE SignedOut
  <2>1. panelScreen' = Absent /\ panelCookie' = Absent /\ moves' \in Nat
    BY <1>6 DEF SignedOut, Moves, PanelTypes
  <2> QED
    BY <1>3, <1>6, <2>1 DEF SignedOut, Screens
<1>7. CASE UNCHANGED panelVars
  <2>1. UNCHANGED <<panel, panelScreen, panelCookie, res, moves>> /\ Mine' = Mine
    BY <1>7, SameMine DEF panelVars
  <2> QED
    BY <2>1 DEF PanelTypes
<1> QED
  BY <1>1, <1>2, <1>4, <1>5, <1>6, <1>7 DEF PanelNext

-----------------------------------------------------------------------------
\* What a panel shows, from what its resources are.
LEMMA PanelNames ==
    /\ DOMAIN PanelRoutes = {"StatusBar", "OnboardingChecklist", "VaultOverviewPanel",
                             "GuardianPanel", "SlaTelemetryPanel", "PauseHistoryPanel",
                             "TimelockPanel", "ContractAddressesPanel"}
    /\ PanelRoutes["StatusBar"] = <<"vault/status", "telemetry">>
    /\ PanelRoutes["OnboardingChecklist"] =
         <<"vault/overview", "health-monitor/status", "telemetry">>
    /\ PanelRoutes["VaultOverviewPanel"] = <<"vault/overview">>
    /\ PanelRoutes["GuardianPanel"] = <<"health-monitor/status">>
    /\ PanelRoutes["SlaTelemetryPanel"] = <<"telemetry">>
    /\ PanelRoutes["PauseHistoryPanel"] = <<"health-monitor/pause-history">>
    /\ PanelRoutes["TimelockPanel"] = <<"timelock/proposals">>
    /\ PanelRoutes["ContractAddressesPanel"] = <<"vault/addresses">>
  BY DEF PanelRoutes

LEMMA MineOfOne ==
    ASSUME NEW r, PanelRoutes[panel] = <<r>>
    PROVE  Mine = {r}
  BY DEF Mine

\* The panels with one route, and what they show of it.
LEMMA SimplePanels ==
    ASSUME PanelTypes, panel # "StatusBar", panel # "OnboardingChecklist"
    PROVE  \E r : /\ Mine = {r} /\ panelScreen \in Asking(panel)
                  /\ \/ Display = Whole(r)
                     \/ Display = Rows(r)
                     \/ Display = Rows(r) \cup FreshnessIndicator(res[r].updated)
<1>1. panelScreen \in Asking(panel)
  BY DEF Asking, PanelTypes
<1>2. CASE panel = "VaultOverviewPanel"
  BY <1>1, <1>2, MineOfOne, PanelNames DEF Display, VaultOverviewPanel
<1>3. CASE panel = "GuardianPanel"
  BY <1>1, <1>3, MineOfOne, PanelNames DEF Display, GuardianPanel
<1>4. CASE panel = "SlaTelemetryPanel"
  BY <1>1, <1>4, MineOfOne, PanelNames DEF Display, SlaTelemetryPanel
<1>5. CASE panel = "PauseHistoryPanel"
  BY <1>1, <1>5, MineOfOne, PanelNames DEF Display, PauseHistoryPanel
<1>6. CASE panel = "TimelockPanel"
  BY <1>1, <1>6, MineOfOne, PanelNames DEF Display, TimelockPanel
<1>7. CASE panel = "ContractAddressesPanel"
  BY <1>1, <1>7, MineOfOne, PanelNames DEF Display, ContractAddressesPanel
<1> QED
  BY <1>2, <1>3, <1>4, <1>5, <1>6, <1>7, PanelNames DEF PanelTypes

LEMMA ErrorIsHonest ==
    ASSUME PanelTypes, NEW r \in Mine
    PROVE  /\ ErrorOf(r) = Absent <=> res[r].cause \in Unfailing
           /\ "temporary" \in PanelError(ErrorOf(r)) <=> res[r].cause \in Temporary
           /\ "failed" \in PanelError(ErrorOf(r)) <=>
                res[r].cause \notin Temporary \cup Unfailing
           /\ PanelError(ErrorOf(r)) = {} => ErrorOf(r) = Absent
<1> DEFINE c == res[r].cause
<1>1. c \in Causes \cup {Absent} /\ ErrorOf(r) = IF c = Absent THEN Absent ELSE FetchError(c)
  BY DEF PanelTypes, ResourceState, Honest, ErrorOf
<1>2. Absent \notin Causes /\ (\A x \in Temporary : x \in Causes)
      /\ (\A x \in Temporary : x \notin {"some", "empty", "page200"})
  BY NullAssumption, CauseNames DEF Temporary
<1>3. CASE c = Absent
  BY <1>1, <1>2, <1>3 DEF Unfailing, PanelError
<1>4. CASE c # Absent
  <2>1. /\ ErrorOf(r) = Absent <=> c \in {"some", "empty", "page200"}
        /\ ErrorOf(r) # Absent => (ErrorOf(r).retryable <=> c \in Temporary)
    BY <1>1, <1>4, FetchErrors
  <2>2. c \in Unfailing <=> c \in {"some", "empty", "page200"}
    BY <1>4 DEF Unfailing
  <2> HIDE DEF c
  <2> QED
    BY <1>2, <2>1, <2>2 DEF PanelError, c
<1> QED
  BY <1>3, <1>4
LEMMA Words ==
    ASSUME NEW e, NEW b
    PROVE  /\ PanelError(e) \subseteq {"temporary", "failed"}
           /\ PanelSkeleton(b) \subseteq {"skeleton"}
           /\ FreshnessIndicator(e) \subseteq {"updated"}
<1>1. PanelError(e) \subseteq {"temporary", "failed"}
  BY DEF PanelError
<1>2. PanelSkeleton(b) \subseteq {"skeleton"}
  BY DEF PanelSkeleton
<1>3. FreshnessIndicator(e) \subseteq {"updated"}
  BY DEF FreshnessIndicator
<1> QED
  BY <1>1, <1>2, <1>3

\* A resource the panel asks for that shows neither error nor skeleton nor
\* data was given a page for data.
LEMMA BlankWasPaged ==
    ASSUME PanelTypes, NEW r \in Mine, panelScreen \in Asking(panel),
           ErrorOf(r) = Absent, ~PanelLoading(res[r]), DataOf(r) = Absent
    PROVE  res[r].cause = "page200"
<1>1. res[r].completed
  BY DEF PanelLoading, PanelRefreshing, DataOf
<1>2. res[r].cause # Absent /\ res[r].cause \in Unfailing
  BY <1>1, ErrorIsHonest DEF PanelTypes, Honest
<1>3. res[r].cause \notin {"some", "empty"}
  BY DEF PanelTypes, Honest, DataOf
<1> QED
  BY <1>2, <1>3 DEF Unfailing

LEMMA SkeletonShown == ASSUME NEW b \in BOOLEAN, PanelSkeleton(b) = {} PROVE ~b
  BY DEF PanelSkeleton

LEMMA LoadingBoolean ==
    ASSUME PanelTypes, NEW r \in Mine
    PROVE  PanelLoading(res[r]) \in BOOLEAN
  BY DEF PanelLoading, PanelRefreshing

\* What the resources themselves keep true.
ResourcesTrue ==
    \A r \in Mine :
      LET x == res[r] IN
      /\ x.error = Absent <=> x.cause \in Unfailing
      /\ x.data # Absent =>
           /\ x.updated = x.data.arrived
           /\ r \in Public \/ x.data.under # Absent

LEMMA ResourcesAreTrue == PanelTypes => ResourcesTrue
<1> SUFFICES ASSUME PanelTypes, NEW r \in Mine
             PROVE  /\ res[r].error = Absent <=> res[r].cause \in Unfailing
                    /\ res[r].data # Absent =>
                         /\ res[r].updated = res[r].data.arrived
                         /\ r \in Public \/ res[r].data.under # Absent
  BY DEF ResourcesTrue
<1>1. res[r].error = Absent <=> res[r].cause \in Unfailing
  BY ErrorIsHonest DEF ErrorOf
<1>2. Honest(r, res[r])
  BY DEF PanelTypes
<1> QED
  BY <1>1, <1>2 DEF Honest

DisplayTrue ==
    LET causes == {res[r].cause : r \in Mine}
        page == "page200" \in causes
    IN
    /\ "temporary" \in Display => causes \cap Temporary # {}
    /\ "failed" \in Display => causes \ (Temporary \cup Unfailing) # {}
    /\ Cardinality(Mine) = 1 /\ causes \cap Temporary # {} => "temporary" \in Display
    /\ "nothing" \in Display => \E r \in Mine : DataOf(r).content = "empty"
    /\ "ready" \in Display => \A r \in Mine : DataOf(r).content = "some"
    /\ Display = {} => page \/ panel = "StatusBar"

LEMMA SimpleIsTrue ==
    ASSUME PanelTypes, panel # "StatusBar", panel # "OnboardingChecklist"
    PROVE  DisplayTrue
<1>1. PICK r : /\ Mine = {r} /\ panelScreen \in Asking(panel)
               /\ \/ Display = Whole(r)
                  \/ Display = Rows(r)
                  \/ Display = Rows(r) \cup FreshnessIndicator(res[r].updated)
  BY SimplePanels
<1> DEFINE e == PanelError(ErrorOf(r))
           k == PanelSkeleton(PanelLoading(res[r]))
           u == FreshnessIndicator(res[r].updated)
<1>2. PICK w \in SUBSET {"content", "nothing", "updated"} :
         /\ Display = e \cup k \cup w
         /\ "nothing" \in w => DataOf(r).content = "empty"
         /\ w = {} => DataOf(r) = Absent
  <2>1. CASE Display = Whole(r)
    <3> WITNESS (IF DataOf(r) # Absent THEN {"content"} ELSE {})
          \in SUBSET {"content", "nothing", "updated"}
    <3> QED
      BY <2>1 DEF Whole, Notices
  <2> DEFINE rows == IF DataOf(r) = Absent THEN {}
                     ELSE IF DataOf(r).content = "empty" THEN {"nothing"} ELSE {"content"}
  <2>2. CASE Display = Rows(r)
    <3> WITNESS rows \in SUBSET {"content", "nothing", "updated"}
    <3> QED
      BY <2>2 DEF Rows, Notices
  <2>3. CASE Display = Rows(r) \cup u
    <3>1. u \subseteq {"updated"}
      BY Words
    <3>2. Rows(r) = e \cup k \cup rows
      BY DEF Rows, Notices
    <3>3. /\ rows \subseteq {"content", "nothing"}
          /\ "nothing" \in rows => DataOf(r).content = "empty"
          /\ rows = {} => DataOf(r) = Absent
      OBVIOUS
    <3> HIDE DEF u, e, k, rows
    <3>4. (rows \cup u) \in SUBSET {"content", "nothing", "updated"}
      BY <3>1, <3>3
    <3> QED
      BY <2>3, <3>1, <3>2, <3>3, <3>4
  <2> QED
    BY <1>1, <2>1, <2>2, <2>3
<1>3. e \subseteq {"temporary", "failed"} /\ k \subseteq {"skeleton"}
  BY Words
<1>4. /\ "temporary" \in e <=> res[r].cause \in Temporary
      /\ "failed" \in e <=> res[r].cause \notin Temporary \cup Unfailing
      /\ e = {} => ErrorOf(r) = Absent
  BY <1>1, ErrorIsHonest
<1>5. Display = {} => res[r].cause = "page200"
  <2> SUFFICES ASSUME Display = {} PROVE res[r].cause = "page200"
    OBVIOUS
  <2>1. e = {} /\ k = {} /\ w = {}
    BY <1>2
  <2>2. ~PanelLoading(res[r])
    BY <1>1, <2>1, SkeletonShown, LoadingBoolean
  <2> QED
    BY <1>1, <1>2, <1>4, <2>1, <2>2, BlankWasPaged
<1> DEFINE causes == {res[q].cause : q \in Mine}
<1>6. causes = {res[r].cause}
  BY <1>1
<1> HIDE DEF e, k
<1> QED
  BY <1>1, <1>2, <1>3, <1>4, <1>5, <1>6 DEF DisplayTrue
LEMMA PairSize ==
    ASSUME NEW a, NEW b, a # b
    PROVE  IsFiniteSet({a, b}) /\ Cardinality({a, b}) = 2
<1>1. {a, b} = {a} \cup {b}
  OBVIOUS
<1>2. PICK s : s = {a}
  OBVIOUS
<1>3. IsFiniteSet(s) /\ Cardinality(s) = 1
  BY <1>2, FS_Singleton
<1>4. IsFiniteSet(s \cup {b}) /\ Cardinality(s \cup {b}) = 2
  BY <1>2, <1>3, FS_AddElement
<1> QED
  BY <1>1, <1>2, <1>4

\* The status bar shows no error, and nothing at all for nobody.
LEMMA BarIsTrue ==
    ASSUME PanelTypes, panel = "StatusBar"
    PROVE  DisplayTrue
<1>1. Mine = {"vault/status", "telemetry"}
  BY PanelNames DEF Mine
<1>2. Display \subseteq {"content", "updated"}
  <2>1. Display = StatusBar
    BY PanelNames DEF Display
  <2> QED
    BY <2>1, Words DEF StatusBar
<1>3. Cardinality(Mine) # 1
  <2>1. Cardinality({"vault/status", "telemetry"}) = 2
    BY PairSize
  <2> QED
    BY <1>1, <2>1
<1> QED
  BY <1>2, <1>3 DEF DisplayTrue

LEMMA FirstErrorIsOne ==
    ASSUME NEW routes, NEW a, NEW b, NEW c, routes = <<a, b, c>>
    PROVE  /\ FirstError(routes) \in {ErrorOf(a), ErrorOf(b), ErrorOf(c)}
           /\ FirstError(routes) = Absent =>
                ErrorOf(a) = Absent /\ ErrorOf(b) = Absent /\ ErrorOf(c) = Absent
  BY DEF FirstError, OrElse

\* The checklist: one error for three routes, "ready" only on all three.
LEMMA ChecklistPanelIsTrue ==
    ASSUME PanelTypes, panel = "OnboardingChecklist"
    PROVE  DisplayTrue
<1> DEFINE routes == PanelRoutes["OnboardingChecklist"]
           e == PanelError(FirstError(routes))
           k == PanelSkeleton(\E r \in Mine : PanelLoading(res[r]))
           causes == {res[r].cause : r \in Mine}
<1>1. /\ routes = <<"vault/overview", "health-monitor/status", "telemetry">>
      /\ Mine = {"vault/overview", "health-monitor/status", "telemetry"}
  BY PanelNames DEF Mine
<1>2. Cardinality(Mine) # 1
  <2> SUFFICES ASSUME Cardinality(Mine) = 1 PROVE FALSE
    OBVIOUS
  <2>1. Cardinality({"vault/overview", "telemetry"}) = 2
    BY PairSize
  <2>2. IsFiniteSet({"vault/overview", "telemetry"})
    BY PairSize
  <2>3. Mine = {"vault/overview", "telemetry"} \cup {"health-monitor/status"}
    BY <1>1
  <2>4. Cardinality(Mine) = 3
    BY <2>1, <2>2, <2>3, FS_AddElement
  <2> QED
    BY <2>4
<1>3. PICK first \in Mine : FirstError(routes) = ErrorOf(first)
  BY <1>1, FirstErrorIsOne
<1>4. FirstError(routes) = Absent => \A r \in Mine : ErrorOf(r) = Absent
  BY <1>1, FirstErrorIsOne
<1>5. CASE panelScreen # "admin"
  <2>1. Display \in {{"skeleton"}, {"sign in"}}
    <3>1. Display = OnboardingChecklistPanel
      BY PanelNames DEF Display
    <3>2. panelScreen = "loading" \/ panelScreen \in {Absent, "guardian"}
      BY <1>5 DEF PanelTypes, Screens, DashboardRoles
    <3>3. Absent # "loading"
      BY NullAssumption
    <3> QED
      BY <1>5, <3>1, <3>2, <3>3 DEF OnboardingChecklistPanel
  <2> QED
    BY <1>2, <2>1 DEF DisplayTrue
<1>6. CASE panelScreen = "admin"
  <2>1. PICK w \in SUBSET {"content", "ready"} :
          /\ Display = e \cup k \cup w
          /\ "ready" \in w => \A r \in Mine : DataOf(r).content = "some"
          /\ w = {} => \E r \in Mine : DataOf(r) = Absent
    <3> DEFINE done == EvaluateGoLiveChecklist(DataOf(routes[1]), DataOf(routes[2]),
                                               DataOf(routes[3]))
               rest == IF \E r \in Mine : DataOf(r) = Absent THEN {}
                       ELSE {"content"} \cup IF done THEN {"ready"} ELSE {}
    <3>1. Display = e \cup k \cup rest
      <4>1. Display = OnboardingChecklistPanel
        BY PanelNames DEF Display
      <4>2. Absent # "admin"
        BY NullAssumption DEF DashboardRoles
      <4> QED
        BY <1>6, <4>1, <4>2 DEF OnboardingChecklistPanel
    <3>2. done => \A r \in Mine : DataOf(r).content = "some"
      BY <1>1 DEF EvaluateGoLiveChecklist
    <3> HIDE DEF done, e, k
    <3>3. /\ rest \in SUBSET {"content", "ready"}
          /\ "ready" \in rest => done
          /\ rest = {} => \E r \in Mine : DataOf(r) = Absent
      OBVIOUS
    <3> HIDE DEF rest
    <3> QED
      BY <3>1, <3>2, <3>3
  <2>2. e \subseteq {"temporary", "failed"} /\ k \subseteq {"skeleton"}
    BY Words
  <2>3. /\ "temporary" \in e <=> res[first].cause \in Temporary
        /\ "failed" \in e <=> res[first].cause \notin Temporary \cup Unfailing
        /\ e = {} => ErrorOf(first) = Absent
    BY <1>3, ErrorIsHonest
  <2>4. Display = {} => "page200" \in causes
    <3> SUFFICES ASSUME Display = {} PROVE "page200" \in causes
      OBVIOUS
    <3>1. e = {} /\ k = {} /\ w = {}
      BY <2>1
    <3>2. PICK r \in Mine : DataOf(r) = Absent
      BY <2>1, <3>1
    <3>3. ~ \E q \in Mine : PanelLoading(res[q])
      BY <3>1, SkeletonShown
    <3>4. ErrorOf(r) = Absent
      BY <1>3, <1>4, <2>3, <3>1
    <3>5. panelScreen \in Asking(panel)
      BY <1>6 DEF Asking
    <3>6. ~PanelLoading(res[r])
      BY <3>3
    <3> QED
      BY <3>2, <3>4, <3>5, <3>6, BlankWasPaged
  <2>5. res[first].cause \in causes
    BY <1>3
  <2> HIDE DEF e, k
  <2> QED
    BY <1>2, <2>1, <2>2, <2>3, <2>4, <2>5 DEF DisplayTrue
<1> QED
  BY <1>5, <1>6

\* Every panel tells the truth about its resources (PanelError.tsx, the panels,
\* useApiResource), for any number of reloads, sign-ins and sign-outs.
THEOREM PanelsTellTheTruth == PanelSpec => []PanelTellsTheTruth
<1>1. PanelTypes => PanelTellsTheTruth
  <2> SUFFICES ASSUME PanelTypes PROVE PanelTellsTheTruth
    OBVIOUS
  <2>1. DisplayTrue
    BY SimpleIsTrue, BarIsTrue, ChecklistPanelIsTrue
  <2> QED
    BY <2>1, ResourcesAreTrue DEF PanelTellsTheTruth, DisplayTrue, ResourcesTrue
<1>2. PanelTypes /\ [PanelNext]_panelVars => PanelTypes'
  BY PanelTypesStep
<1> QED
  BY <1>1, <1>2, PanelTypesInit, PTL DEF PanelSpec
-----------------------------------------------------------------------------
\* The pages.  Underneath them the engine is the engine.
LEMMA PagesStepsAreSteps ==
    ASSUME [PagesNext]_pagesVars
    PROVE  [Next]_vars
  BY DEF PagesNext, pagesVars, VaultStep, BarStep, OverviewStep

LEMMA PagesTyped == PagesSpec => []TypeOK
<1>1. TypeOK /\ [PagesNext]_pagesVars => TypeOK'
  BY PagesStepsAreSteps, TypeStep
<1> QED
  BY <1>1, TypeInit, PTL DEF PagesSpec

\* The level reaches Paused by a crank while a pause is on, and not otherwise.
LEMMA OnlyPauseTrips ==
    ASSUME TypeOK, [Next]_vars, state # Paused, state' = Paused
    PROVE  paused
<1>1. Handler
  BY DEF Next, engineVars, vars
<1>2. ASSUME NEW c, NEW t, InitAccount(c, t) PROVE FALSE
  BY <1>2 DEF InitAccount, Normal, Paused
<1>3. ASSUME NEW p, NEW c, NEW t, InitWithProfile(p, c, t) PROVE FALSE
  BY <1>2, <1>3 DEF InitWithProfile
<1>4. ASSUME NEW k, NEW t, SetTier0Target(k, t) PROVE FALSE
  BY <1>4 DEF SetTier0Target
<1>5. ASSUME NEW k, NEW v, NEW a, RecordTier1Position(k, v, a) PROVE FALSE
  BY <1>5 DEF RecordTier1Position
<1>6. ASSUME NEW k, NEW to, NEW u, KeeperAdvanceState(k, to, u) PROVE FALSE
  BY <1>6 DEF KeeperAdvanceState, Recover, RecoveryClear, Drain, DrainAttested,
              Normal, PreemptiveDrain, Emergency, Paused
<1>7. CheckAndTrip => paused
  BY DEF CheckAndTrip, TripTarget, PreemptiveDrain, Emergency, Paused
<1> QED
  BY <1>1, <1>2, <1>3, <1>4, <1>5, <1>6, <1>7 DEF Handler

\* What an answer still says of the chain when nothing was noted since it was
\* taken: below Paused then, there has been no pause; a pause then, the level
\* is still at Paused.
BelowThen(answer) ==
    answer.value # Paused /\ answer.since = {} => ~paused /\ state # Paused
PausedThen(answer) == answer.value /\ answer.since = {} => state = Paused

BarTypes ==
    /\ status \in [shown: Answer(SystemState) \cup {None},
                   answer: Answer(SystemState) \cup {None, Asked}]
    /\ guardian \in [shown: Answer(BOOLEAN) \cup {None},
                     answer: Answer(BOOLEAN) \cup {None, Asked}]
    /\ status.shown # None => BelowThen(status.shown)
    /\ status.answer \notin {None, Asked} => BelowThen(status.answer)
    /\ guardian.shown # None => PausedThen(guardian.shown)
    /\ guardian.answer \notin {None, Asked} => PausedThen(guardian.answer)

LEMMA FactsTyped == Facts \subseteq {"lag", "left"}
  BY DEF Facts, Lag

\* A step of the chain: answers that note nothing still say the same.
LEMMA NotedBelow ==
    ASSUME TypeOK, [Next]_vars, NEW a \in Answer(SystemState), BelowThen(a),
           NEW b, b = Noted(a)
    PROVE  b \in Answer(SystemState) /\ BelowThen(b)'
<1>1. Noted(a) = [a EXCEPT !.since = a.since \cup Facts]
  BY PagesAssumption DEF Noted
<1>3. b \in Answer(SystemState) /\ b.value = a.value /\ b.since = a.since \cup Facts
  BY <1>1, FactsTyped DEF Answer
<1>4. ASSUME a.value # Paused, a.since = {}, Facts = {}
      PROVE  ~paused' /\ state' # Paused
  <2>1. ~paused /\ state # Paused
    BY <1>4 DEF BelowThen
  <2>2. state' # Paused
    BY <2>1, OnlyPauseTrips
  <2>3. Lag(paused', state') = {}
    BY <1>4 DEF Facts
  <2> QED
    BY <2>2, <2>3 DEF Lag
<1>5. BelowThen(b)'
  BY <1>3, <1>4 DEF BelowThen
<1> QED
  BY <1>3, <1>5

LEMMA NotedPaused ==
    ASSUME NEW a \in Answer(BOOLEAN), PausedThen(a), NEW b, b = Noted(a)
    PROVE  b \in Answer(BOOLEAN) /\ PausedThen(b)'
<1>1. Noted(a) = [a EXCEPT !.since = a.since \cup Facts]
  BY PagesAssumption DEF Noted
<1>3. b \in Answer(BOOLEAN) /\ b.value = a.value /\ b.since = a.since \cup Facts
  BY <1>1, FactsTyped DEF Answer
<1>4. ASSUME a.value, a.since = {}, Facts = {} PROVE state' = Paused
  <2>1. state = Paused
    BY <1>4 DEF PausedThen
  <2> QED
    BY <2>1, <1>4 DEF Facts
<1>5. PausedThen(b)'
  BY <1>3, <1>4 DEF PausedThen
<1> QED
  BY <1>3, <1>5
LEMMA BarNoted ==
    ASSUME TypeOK, BarTypes, [Next]_vars, Note
    PROVE  BarTypes'
<1>1. PICK s \in Answer(SystemState) \cup {None}, sa \in Answer(SystemState) \cup {None, Asked},
           g \in Answer(BOOLEAN) \cup {None}, ga \in Answer(BOOLEAN) \cup {None, Asked} :
         /\ s = status.shown /\ sa = status.answer
         /\ g = guardian.shown /\ ga = guardian.answer
  BY DEF BarTypes
<1>2. PICK s2, sa2, g2, ga2 :
         /\ s2 = Noted(s) /\ sa2 = Noted(sa) /\ g2 = Noted(g) /\ ga2 = Noted(ga)
         /\ status' = [shown |-> s2, answer |-> sa2]
         /\ guardian' = [shown |-> g2, answer |-> ga2]
  BY <1>1 DEF Note, Watched
<1>3. s2 \in Answer(SystemState) \cup {None} /\ (s2 # None => BelowThen(s2)')
  <2>1. CASE s = None
    BY <1>2, <2>1 DEF Noted
  <2>2. CASE s # None
    BY <1>1, <1>2, <2>2, NotedBelow DEF BarTypes
  <2> QED
    BY <2>1, <2>2
<1>4. sa2 \in Answer(SystemState) \cup {None, Asked}
      /\ (sa2 \notin {None, Asked} => BelowThen(sa2)')
  <2>1. CASE sa \in {None, Asked}
    BY <1>2, <2>1 DEF Noted
  <2>2. CASE sa \notin {None, Asked}
    BY <1>1, <1>2, <2>2, NotedBelow DEF BarTypes
  <2> QED
    BY <2>1, <2>2
<1>5. g2 \in Answer(BOOLEAN) \cup {None} /\ (g2 # None => PausedThen(g2)')
  <2>1. CASE g = None
    BY <1>2, <2>1 DEF Noted
  <2>2. CASE g # None
    BY <1>1, <1>2, <2>2, NotedPaused DEF BarTypes
  <2> QED
    BY <2>1, <2>2
<1>6. ga2 \in Answer(BOOLEAN) \cup {None, Asked}
      /\ (ga2 \notin {None, Asked} => PausedThen(ga2)')
  <2>1. CASE ga \in {None, Asked}
    BY <1>2, <2>1 DEF Noted
  <2>2. CASE ga \notin {None, Asked}
    BY <1>1, <1>2, <2>2, NotedPaused DEF BarTypes
  <2> QED
    BY <2>1, <2>2
<1>7. /\ status'.shown = s2 /\ status'.answer = sa2
      /\ guardian'.shown = g2 /\ guardian'.answer = ga2
  BY <1>2
<1> QED
  BY <1>2, <1>3, <1>4, <1>5, <1>6, <1>7 DEF BarTypes

\* What the bar does by itself: a poll, an answer taken, an answer shown.
LEMMA BarMoves ==
    ASSUME TypeOK, BarTypes, BarStep
    PROVE  BarTypes'
<1>1. UNCHANGED <<paused, state>>
  BY DEF BarStep, vars
<1>2. \A a : (BelowThen(a)' <=> BelowThen(a)) /\ (PausedThen(a)' <=> PausedThen(a))
  BY <1>1 DEF BelowThen, PausedThen
<1>3. CASE Poll
  BY <1>2, <1>3 DEF Poll, BarTypes
<1>4. CASE ServeStatus
  <2>1. PICK a : a = [value |-> state, since |-> Lag(paused, state)]
    OBVIOUS
  <2>2. a \in Answer(SystemState) /\ BelowThen(a)
    BY <2>1 DEF Answer, BelowThen, Lag, TypeOK
  <2>3. status' = [status EXCEPT !.answer = a] /\ UNCHANGED guardian
    BY <1>4, <2>1 DEF ServeStatus, Answered
  <2> QED
    BY <1>2, <2>2, <2>3 DEF BarTypes
<1>5. CASE ServeGuardian
  <2>1. PICK a : a = [value |-> paused, since |-> Lag(paused, state)]
    OBVIOUS
  <2>2. a \in Answer(BOOLEAN) /\ PausedThen(a)
    BY <2>1 DEF Answer, PausedThen, Lag, TypeOK
  <2>3. guardian' = [guardian EXCEPT !.answer = a] /\ UNCHANGED status
    BY <1>5, <2>1 DEF ServeGuardian, Answered
  <2> QED
    BY <1>2, <2>2, <2>3 DEF BarTypes
<1>6. CASE Arrives(status) /\ UNCHANGED guardian
  <2>1. CASE status.answer \notin {None, Asked} /\ status' = [shown |-> status.answer, answer |-> None]
    BY <1>2, <1>6, <2>1 DEF BarTypes
  <2>2. CASE status' = [status EXCEPT !.answer = None]
    BY <1>2, <1>6, <2>2 DEF BarTypes
  <2> QED
    BY <1>6, <2>1, <2>2 DEF Arrives
<1>7. CASE Arrives(guardian) /\ UNCHANGED status
  <2>1. CASE guardian.answer \notin {None, Asked} /\ guardian' = [shown |-> guardian.answer, answer |-> None]
    BY <1>2, <1>7, <2>1 DEF BarTypes
  <2>2. CASE guardian' = [guardian EXCEPT !.answer = None]
    BY <1>2, <1>7, <2>2 DEF BarTypes
  <2> QED
    BY <1>7, <2>1, <2>2 DEF Arrives
<1> QED
  BY <1>3, <1>4, <1>5, <1>6, <1>7 DEF BarStep

LEMMA BarTypesInit == PagesInit => BarTypes
  BY DEF PagesInit, BarTypes, NoResource

LEMMA BarTypesStep ==
    ASSUME TypeOK, BarTypes, [PagesNext]_pagesVars
    PROVE  BarTypes'
<1>1. CASE Next /\ Note
  BY <1>1, BarNoted
<1>2. CASE BarStep
  BY <1>2, BarMoves
<1>3. CASE UNCHANGED <<vars, status, guardian>>
  BY <1>3 DEF vars, BarTypes, BelowThen, PausedThen
<1> QED
  BY <1>1, <1>2, <1>3 DEF PagesNext, VaultStep, OverviewStep, pagesVars, pageVars

\* The bar's warning has a cause, in whatever order its two answers were taken.
LEMMA BarTypesGiveCause == BarTypes => BarHasCause
<1> SUFFICES ASSUME BarTypes, RiskStateLagsRealPause,
                    status.shown.since \cup guardian.shown.since = {}
             PROVE  FALSE
  BY DEF BarHasCause
<1>1. BelowThen(status.shown) /\ PausedThen(guardian.shown)
  BY DEF BarTypes, RiskStateLagsRealPause, BothShown
<1> QED
  BY <1>1 DEF BelowThen, PausedThen, RiskStateLagsRealPause
-----------------------------------------------------------------------------
\* The vault's rules: ids are given out once and in order.
RulesTyped ==
    /\ nextRule \in Nat
    /\ DOMAIN rules \subseteq 0 .. nextRule - 1
    /\ rules \in [DOMAIN rules -> RuleNames]

Marks == RuleNames \cup {"funded", "restarted"}

OverviewRead ==
    [how: {"open", "shown", "missing", "failed"}, balance: Int \cup {None},
     floor: Int \cup {None}, count: Nat \cup {None}, list: Seq(RuleNames),
     ids: SUBSET Nat, seen: SUBSET Marks]

\* A read under way or over: what it counted, what it read, and what it saw.
Counted(read) ==
    read.count # None =>
        /\ IsFiniteSet(read.ids) /\ read.count = Cardinality(read.ids)
        /\ read.count <= nextRule
        /\ \A id \in DOMAIN rules : id \in read.ids \/ read.count <= id
Listed(read) ==
    /\ \A i \in 1 .. Len(read.list) :
         i - 1 \in read.ids /\ read.list[i] \in read.seen
    /\ read.count = None => read.list = <<>>
    /\ read.count # None => Len(read.list) <= read.count
Funds(read) ==
    "restarted" \notin read.seen =>
        /\ read.balance # None /\ config # None
             /\ read.balance >= config.criticalFloor => "funded" \in read.seen
        /\ read.floor # None => config # None /\ read.floor = config.criticalFloor

Ended(read) ==
    /\ read.how = "shown" =>
         None \notin {read.balance, read.floor, read.count} /\ Len(read.list) = read.count
    /\ read.how = "missing" => DOMAIN rules # 0 .. nextRule - 1

ReadSo(read) ==
    /\ read \in OverviewRead /\ Truths \subseteq read.seen
    /\ Counted(read) /\ Listed(read) /\ Funds(read) /\ Ended(read)

OverviewTypes == RulesTyped /\ (overview # None => ReadSo(overview))

LEMMA TruthsAreMarks == RulesTyped => Truths \subseteq Marks
  BY DEF Truths, RulesTyped, Marks

LEMMA IdsAreFew ==
    ASSUME NEW n \in Nat
    PROVE  IsFiniteSet(0 .. n - 1) /\ Cardinality(0 .. n - 1) = n
<1>1. /\ 0 \in Int /\ n - 1 \in Int
      /\ (IF 0 > n - 1 THEN 0 ELSE n - 1 - 0 + 1) = n
  OBVIOUS
<1>2. \A a, b \in Int :
        IsFiniteSet(a .. b) /\ Cardinality(a .. b) = IF a > b THEN 0 ELSE b - a + 1
  BY FS_Interval
<1> QED
  BY <1>1, <1>2

LEMMA RulesAreFew ==
    ASSUME RulesTyped
    PROVE  /\ IsFiniteSet(DOMAIN rules)
           /\ Cardinality(DOMAIN rules) \in Nat
           /\ Cardinality(DOMAIN rules) <= nextRule
<1>1. IsFiniteSet(0 .. nextRule - 1) /\ Cardinality(0 .. nextRule - 1) = nextRule
  BY IdsAreFew DEF RulesTyped
<1> QED
  BY <1>1, FS_Subset, FS_CardinalityType DEF RulesTyped

\* What a step of the rules may do to them.
LEMMA RuleSteps ==
    ASSUME RulesTyped, RuleStep
    PROVE  /\ RulesTyped'
           /\ nextRule <= nextRule'
           /\ \A id \in DOMAIN rules' : id \in DOMAIN rules \/ id = nextRule
           /\ DOMAIN rules # 0 .. nextRule - 1 => DOMAIN rules' # 0 .. nextRule' - 1
<1>1. ASSUME NEW name \in RuleNames, AddContextRule(name)
      PROVE  /\ RulesTyped' /\ nextRule' = nextRule + 1
             /\ DOMAIN rules' = DOMAIN rules \cup {nextRule}
  BY <1>1 DEF AddContextRule, RulesTyped
<1>2. ASSUME NEW id \in DOMAIN rules, NEW name \in RuleNames, UpdateContextRuleName(id, name)
      PROVE  RulesTyped' /\ nextRule' = nextRule /\ DOMAIN rules' = DOMAIN rules
  BY <1>2 DEF UpdateContextRuleName, RulesTyped
<1>3. ASSUME NEW id \in DOMAIN rules, RemoveContextRule(id)
      PROVE  RulesTyped' /\ nextRule' = nextRule /\ DOMAIN rules' = DOMAIN rules \ {id}
  BY <1>3 DEF RemoveContextRule, Restrict, RulesTyped
<1>4. CASE \E name \in RuleNames : AddContextRule(name)
  <2>1. /\ RulesTyped' /\ nextRule' = nextRule + 1
        /\ DOMAIN rules' = DOMAIN rules \cup {nextRule}
    BY <1>1, <1>4
  <2>2. ASSUME DOMAIN rules # 0 .. nextRule - 1 PROVE DOMAIN rules' # 0 .. nextRule' - 1
    <3>1. PICK id \in 0 .. nextRule - 1 : id \notin DOMAIN rules
      BY <2>2 DEF RulesTyped
    <3>2. id \in 0 .. nextRule' - 1 /\ id \notin DOMAIN rules'
      BY <2>1, <3>1 DEF RulesTyped
    <3> QED
      BY <3>2
  <2> QED
    BY <2>1, <2>2 DEF RulesTyped
<1>5. CASE \E id \in DOMAIN rules, name \in RuleNames : UpdateContextRuleName(id, name)
  BY <1>2, <1>5 DEF RulesTyped
<1>6. CASE \E id \in DOMAIN rules : RemoveContextRule(id)
  <2>1. PICK id \in DOMAIN rules : RemoveContextRule(id)
    BY <1>6
  <2>2. RulesTyped' /\ nextRule' = nextRule /\ DOMAIN rules' = DOMAIN rules \ {id}
    BY <1>3, <2>1
  <2>3. id \in 0 .. nextRule' - 1 /\ id \notin DOMAIN rules'
    BY <2>2 DEF RulesTyped
  <2>4. DOMAIN rules' # 0 .. nextRule' - 1
    BY <2>3
  <2>5. \A i \in DOMAIN rules' : i \in DOMAIN rules
    BY <2>2
  <2>6. nextRule <= nextRule'
    BY <2>2 DEF RulesTyped
  <2> QED
    BY <2>2, <2>4, <2>5, <2>6
<1> QED
  BY <1>4, <1>5, <1>6 DEF RuleStep

\* What was read stays true of the rules while they come and go.
LEMMA ReadSurvives ==
    ASSUME RulesTyped, RuleStep, NEW read \in OverviewRead, Counted(read)
    PROVE  Counted(read)'
<1> SUFFICES ASSUME read.count # None
             PROVE  /\ read.count <= nextRule'
                    /\ \A id \in DOMAIN rules' : id \in read.ids \/ read.count <= id
  BY DEF Counted
<1>1. /\ read.count \in Nat /\ read.count <= nextRule
      /\ \A id \in DOMAIN rules : id \in read.ids \/ read.count <= id
  BY DEF Counted, OverviewRead
<1>2. /\ nextRule \in Nat /\ nextRule' \in Nat /\ nextRule <= nextRule'
      /\ \A id \in DOMAIN rules' : id \in DOMAIN rules \/ id = nextRule
  BY RuleSteps DEF RulesTyped
<1> QED
  BY <1>1, <1>2

LEMMA OverviewInit == PagesInit => OverviewTypes
  BY DEF PagesInit, OverviewTypes, RulesTyped, RuleNames

\* A step of the contracts: configurations change by initialising only.
LEMMA ConfigSteps ==
    ASSUME TypeOK, [Next]_vars, ~Reinitialised
    PROVE  config' = config
<1>1. ASSUME NEW c, NEW t, InitAccount(c, t) PROVE FALSE
  BY <1>1 DEF InitAccount, Reinitialised, TypeOK
<1>2. ASSUME NEW p, NEW c, NEW t, InitWithProfile(p, c, t) PROVE FALSE
  BY <1>1, <1>2 DEF InitWithProfile
<1>3. ASSUME NEW k, NEW t, SetTier0Target(k, t) PROVE config' = config
  BY <1>3 DEF SetTier0Target
<1>4. ASSUME NEW k, NEW v, NEW a, RecordTier1Position(k, v, a) PROVE config' = config
  BY <1>4 DEF RecordTier1Position
<1>5. ASSUME NEW k, NEW to, NEW u, KeeperAdvanceState(k, to, u) PROVE config' = config
  BY <1>5 DEF KeeperAdvanceState, Recover, Drain
<1>6. CheckAndTrip => config' = config
  BY DEF CheckAndTrip
<1>7. UNCHANGED engineVars \/ UNCHANGED vars => config' = config
  BY DEF engineVars, vars
<1> QED
  BY <1>1, <1>2, <1>3, <1>4, <1>5, <1>6, <1>7 DEF Next, Handler

\* A read that notes a step.
LEMMA SeenMore ==
    ASSUME NEW read \in OverviewRead, NEW more \in SUBSET Marks,
           NEW after, after = [read EXCEPT !.seen = read.seen \cup more],
           Listed(read)
    PROVE  /\ after \in OverviewRead /\ Listed(after)
           /\ after.seen = read.seen \cup more
           /\ after.balance = read.balance /\ after.floor = read.floor
           /\ after.count = read.count /\ after.list = read.list
           /\ after.ids = read.ids /\ after.how = read.how
<1>1. /\ after \in OverviewRead
      /\ after.seen = read.seen \cup more
      /\ after.balance = read.balance /\ after.floor = read.floor
      /\ after.count = read.count /\ after.list = read.list
      /\ after.ids = read.ids /\ after.how = read.how
  BY DEF OverviewRead
<1>2. Listed(after)
  BY <1>1 DEF Listed
<1> QED
  BY <1>1, <1>2
\* A read stays so while the contracts and the rules move, if it notes that they did.
LEMMA NotedRead ==
    ASSUME TypeOK, RulesTyped, RuleStep \/ UNCHANGED <<rules, nextRule>>,
           NEW read, ReadSo(read),
           NEW more \in SUBSET Marks, Truths' \subseteq more,
           "restarted" \in more \/ config' = config,
           NEW after, after = [read EXCEPT !.seen = read.seen \cup more]
    PROVE  ReadSo(after)'
<1>1. /\ after \in OverviewRead /\ Listed(after)
      /\ after.seen = read.seen \cup more
      /\ after.balance = read.balance /\ after.floor = read.floor
      /\ after.count = read.count /\ after.list = read.list
      /\ after.ids = read.ids /\ after.how = read.how
  BY SeenMore DEF ReadSo
<1>2. Listed(after)'
  BY <1>1 DEF Listed
<1>3. Counted(read)'
  <2>1. CASE RuleStep
    BY <2>1, ReadSurvives DEF ReadSo
  <2>2. CASE UNCHANGED <<rules, nextRule>>
    BY <2>2 DEF ReadSo, Counted
  <2> QED
    BY <2>1, <2>2
<1>4. Counted(after)'
  BY <1>1, <1>3 DEF Counted
<1>5. Ended(after)'
  <2>1. DOMAIN rules # 0 .. nextRule - 1 => (DOMAIN rules # 0 .. nextRule - 1)'
    BY RuleSteps
  <2> QED
    BY <1>1, <2>1 DEF ReadSo, Ended
<1>6. Funds(after)'
  <2>1. SUFFICES ASSUME "restarted" \notin after.seen PROVE Funds(after)'
    BY DEF Funds
  <2>2. "restarted" \notin read.seen /\ config' = config
    BY <1>1, <2>1
  <2> QED
    BY <1>1, <2>2 DEF ReadSo, Funds
<1>7. Truths' \subseteq after.seen
  BY <1>1
<1> QED
  BY <1>1, <1>2, <1>4, <1>5, <1>6, <1>7 DEF ReadSo

LEMMA OverviewNoted ==
    ASSUME TypeOK, OverviewTypes, Next, Note
    PROVE  OverviewTypes'
<1>1. UNCHANGED <<rules, nextRule>> /\ overview' = Restarted(Seen(overview))
  BY DEF Note
<1>2. RulesTyped' /\ RulesTyped
  BY <1>1 DEF OverviewTypes, RulesTyped
<1>3. Truths' \in SUBSET Marks
  BY <1>2 DEF RulesTyped, Truths, Marks
<1> SUFFICES ASSUME overview' # None PROVE ReadSo(overview)'
  BY <1>2 DEF OverviewTypes
<1>4. overview # None
  BY <1>1 DEF Seen, Restarted
<1>5. ReadSo(overview)
  BY <1>4 DEF OverviewTypes
<1> DEFINE once == [overview EXCEPT !.seen = overview.seen \cup Truths']
<1>6. Seen(overview) = once
  BY <1>4 DEF Seen
<1>7. CASE ~Reinitialised \/ once = None
  <2>1. overview' = once
    BY <1>1, <1>6, <1>7 DEF Restarted
  <2>2. config' = config
    BY <1>1, <1>6, <1>7, <2>1, ConfigSteps
  <2> QED
    BY <1>1, <1>2, <1>3, <1>5, <2>1, <2>2, NotedRead
<1>8. CASE Reinitialised /\ once # None
  <2> DEFINE more == Truths' \cup {"restarted"}
  <2>1. overview' = [once EXCEPT !.seen = once.seen \cup {"restarted"}]
    BY <1>1, <1>6, <1>8 DEF Restarted
  <2>2. overview \in OverviewRead
    BY <1>5 DEF ReadSo
  <2>3. overview' = [overview EXCEPT !.seen = overview.seen \cup more]
    BY <2>1, <2>2 DEF OverviewRead
  <2>4. more \in SUBSET Marks /\ Truths' \subseteq more /\ "restarted" \in more
    BY <1>3 DEF Marks
  <2> HIDE DEF more
  <2> QED
    BY <1>1, <1>2, <1>5, <2>3, <2>4, NotedRead
<1> QED
  BY <1>7, <1>8

LEMMA OverviewRules ==
    ASSUME TypeOK, OverviewTypes, VaultStep
    PROVE  OverviewTypes'
<1>1. RuleStep /\ overview' = Seen(overview) /\ config' = config
  BY DEF VaultStep, vars
<1>2. RulesTyped /\ RulesTyped'
  BY <1>1, RuleSteps DEF OverviewTypes
<1>3. Truths' \in SUBSET Marks
  BY <1>2 DEF RulesTyped, Truths, Marks
<1> SUFFICES ASSUME overview' # None PROVE ReadSo(overview)'
  BY <1>2 DEF OverviewTypes
<1>4. overview # None /\ overview' = [overview EXCEPT !.seen = overview.seen \cup Truths']
  BY <1>1 DEF Seen
<1> QED
  BY <1>1, <1>2, <1>3, <1>4, NotedRead DEF OverviewTypes
\* The calls of a read, one lemma for each that changes what it holds.
LEMMA ReadStarts ==
    ASSUME TypeOK, RulesTyped, StartRead, UNCHANGED <<vars, rules, nextRule>>
    PROVE  ReadSo(overview)'
<1>1. Truths' = Truths
  BY DEF Truths, vars
<1>2. Truths \subseteq Marks
  BY TruthsAreMarks
<1>3. PICK new : /\ new = [how |-> "open", balance |-> None, floor |-> None, count |-> None,
                           list |-> <<>>, ids |-> {}, seen |-> Truths]
                 /\ overview' = new
  BY DEF StartRead
<1>4. new \in OverviewRead
  BY <1>2, <1>3 DEF OverviewRead
<1>5. Counted(new)' /\ Listed(new)' /\ Funds(new)' /\ Ended(new)'
  BY <1>3 DEF Counted, Listed, Funds, Ended
<1> QED
  BY <1>1, <1>3, <1>4, <1>5 DEF ReadSo

LEMMA BalanceRead ==
    ASSUME TypeOK, RulesTyped, ReadSo(overview), overview.how = "open",
           ReadBalance, UNCHANGED <<vars, rules, nextRule>>
    PROVE  ReadSo(overview)'
<1>1. PICK new : new = [overview EXCEPT !.balance = balance] /\ overview' = new
  BY DEF ReadBalance
<1>2. overview \in OverviewRead /\ balance \in Int
  BY DEF ReadSo, TypeOK
<1>3. /\ new \in OverviewRead /\ new.balance = balance /\ new.floor = overview.floor
      /\ new.count = overview.count /\ new.list = overview.list
      /\ new.ids = overview.ids /\ new.how = "open" /\ new.seen = overview.seen
  BY <1>1, <1>2 DEF OverviewRead
<1>4. Counted(new)' /\ Listed(new)' /\ Ended(new)'
  BY <1>3 DEF ReadSo, Counted, Listed, Ended
<1>5. Funds(new)'
  BY <1>3 DEF ReadSo, Funds, Truths, vars
<1>6. Truths' \subseteq new.seen
  BY <1>3 DEF ReadSo, Truths, vars
<1> QED
  BY <1>1, <1>3, <1>4, <1>5, <1>6 DEF ReadSo

LEMMA FloorRead ==
    ASSUME TypeOK, RulesTyped, ReadSo(overview), overview.how = "open",
           ReadFloor, UNCHANGED <<vars, rules, nextRule>>
    PROVE  ReadSo(overview)'
<1>1. PICK new : new = [overview EXCEPT !.floor = config.criticalFloor] /\ overview' = new
  BY DEF ReadFloor
<1>2. overview \in OverviewRead /\ config # None /\ config.criticalFloor \in Int
  BY DEF ReadSo, TypeOK, ReadFloor, TierConfig
<1>3. /\ new \in OverviewRead /\ new.balance = overview.balance
      /\ new.floor = config.criticalFloor
      /\ new.count = overview.count /\ new.list = overview.list
      /\ new.ids = overview.ids /\ new.how = "open" /\ new.seen = overview.seen
  BY <1>1, <1>2 DEF OverviewRead
<1>4. Counted(new)' /\ Listed(new)' /\ Ended(new)'
  BY <1>3 DEF ReadSo, Counted, Listed, Ended
<1>5. Funds(new)'
  BY <1>2, <1>3 DEF ReadSo, Funds, vars
<1>6. Truths' \subseteq new.seen
  BY <1>3 DEF ReadSo, Truths, vars
<1> QED
  BY <1>1, <1>3, <1>4, <1>5, <1>6 DEF ReadSo

LEMMA RulesCounted ==
    ASSUME TypeOK, RulesTyped, ReadSo(overview), overview.how = "open",
           ReadRuleCount, UNCHANGED <<vars, rules, nextRule>>
    PROVE  ReadSo(overview)'
<1>1. PICK new : /\ new = [overview EXCEPT !.count = Cardinality(DOMAIN rules),
                                           !.ids = DOMAIN rules]
                 /\ overview' = new
  BY DEF ReadRuleCount
<1>2. /\ overview \in OverviewRead /\ overview.count = None
      /\ DOMAIN rules \in SUBSET Nat
  BY DEF ReadSo, RulesTyped, ReadRuleCount
<1>3. /\ IsFiniteSet(DOMAIN rules) /\ Cardinality(DOMAIN rules) \in Nat
      /\ Cardinality(DOMAIN rules) <= nextRule
  BY RulesAreFew
<1>4. /\ new \in OverviewRead /\ new.balance = overview.balance
      /\ new.floor = overview.floor
      /\ new.count = Cardinality(DOMAIN rules) /\ new.list = overview.list
      /\ new.ids = DOMAIN rules /\ new.how = "open" /\ new.seen = overview.seen
  BY <1>1, <1>2, <1>3 DEF OverviewRead
<1>5. Counted(new)' /\ Ended(new)'
  BY <1>3, <1>4 DEF Counted, Ended
<1>6. new.list = <<>>
  BY <1>2, <1>4 DEF ReadSo, Listed
<1>7. Listed(new)'
  BY <1>3, <1>4, <1>6 DEF Listed
<1>8. Funds(new)'
  BY <1>4 DEF ReadSo, Funds, vars
<1>9. Truths' \subseteq new.seen
  BY <1>4 DEF ReadSo, Truths, vars
<1> QED
  BY <1>1, <1>4, <1>5, <1>7, <1>8, <1>9 DEF ReadSo

LEMMA RuleIsRead ==
    ASSUME TypeOK, RulesTyped, ReadSo(overview), overview.how = "open",
           ReadRule, UNCHANGED <<vars, rules, nextRule>>
    PROVE  ReadSo(overview)'
<1> DEFINE id == Len(overview.list)
<1>1. /\ overview \in OverviewRead /\ overview.count # None
      /\ id \in Nat /\ overview.count \in Nat /\ id < overview.count
      /\ overview' = RuleRead(id)
  BY DEF ReadSo, ReadRule, AllRead, NextId, OverviewRead
<1>2. Truths' = Truths
  BY DEF Truths, vars
<1>3. CASE id \in DOMAIN rules
  <2>1. PICK new : /\ new = [overview EXCEPT !.list = Append(overview.list, rules[id])]
                   /\ overview' = new
    BY <1>1, <1>3 DEF RuleRead
  <2>2. rules[id] \in RuleNames /\ rules[id] \in Truths
    BY <1>3 DEF RulesTyped, Truths
  <2>3. overview.list \in Seq(RuleNames)
    BY <1>1 DEF OverviewRead
  <2>4. PICK list : list = Append(overview.list, rules[id])
    OBVIOUS
  <2>5. /\ list \in Seq(RuleNames) /\ Len(list) = id + 1
        /\ \A i \in 1 .. id : list[i] = overview.list[i]
        /\ list[id + 1] = rules[id]
    BY <2>2, <2>3, <2>4
  <2>6. /\ new \in OverviewRead /\ new.balance = overview.balance
        /\ new.floor = overview.floor /\ new.count = overview.count
        /\ new.list = list /\ new.ids = overview.ids
        /\ new.how = "open" /\ new.seen = overview.seen
    BY <1>1, <2>1, <2>4, <2>5 DEF OverviewRead
  <2>7. Counted(new)' /\ Funds(new)' /\ Ended(new)'
    BY <2>6 DEF ReadSo, Counted, Funds, Ended, vars
  <2>8. id \in overview.ids
    BY <1>1, <1>3 DEF ReadSo, Counted
  <2>9. \A i \in 1 .. Len(list) : i - 1 \in overview.ids /\ list[i] \in overview.seen
    <3> TAKE i \in 1 .. Len(list)
    <3>1. CASE i = id + 1
      BY <1>1, <2>2, <2>5, <2>8, <3>1 DEF ReadSo
    <3>2. CASE i # id + 1
      <4>1. i \in 1 .. id
        BY <1>1, <2>5, <3>2
      <4> QED
        BY <2>5, <4>1 DEF ReadSo, Listed
    <3> QED
      BY <3>1, <3>2
  <2>10. Listed(new)'
    BY <1>1, <2>5, <2>6, <2>9 DEF Listed
  <2> QED
    BY <1>2, <2>1, <2>6, <2>7, <2>10 DEF ReadSo
<1>4. CASE id \notin DOMAIN rules
  <2>1. PICK new : new = [overview EXCEPT !.how = "missing"] /\ overview' = new
    BY <1>1, <1>4 DEF RuleRead
  <2>2. /\ new \in OverviewRead /\ new.balance = overview.balance
        /\ new.floor = overview.floor /\ new.count = overview.count
        /\ new.list = overview.list /\ new.ids = overview.ids
        /\ new.how = "missing" /\ new.seen = overview.seen
    BY <1>1, <2>1 DEF OverviewRead
  <2>3. id \in 0 .. nextRule - 1
    BY <1>1 DEF ReadSo, Counted, RulesTyped
  <2>4. Ended(new)'
    BY <1>4, <2>2, <2>3 DEF Ended
  <2>5. Counted(new)' /\ Funds(new)' /\ Listed(new)'
    BY <2>2 DEF ReadSo, Counted, Funds, Listed, vars
  <2> QED
    BY <1>2, <2>1, <2>2, <2>4, <2>5 DEF ReadSo
<1> QED
  BY <1>3, <1>4

LEMMA ReadEnds ==
    ASSUME TypeOK, RulesTyped, ReadSo(overview), overview.how = "open",
           ShowOverview \/ ReadFails, UNCHANGED <<vars, rules, nextRule>>
    PROVE  ReadSo(overview)'
<1>1. overview \in OverviewRead /\ Truths' = Truths
  BY DEF ReadSo, Truths, vars
<1>2. PICK how \in {"shown", "failed"} :
         /\ overview' = [overview EXCEPT !.how = how]
         /\ how = "shown" => AllRead /\ NextId = overview.count
  BY DEF ShowOverview, ReadFails
<1>3. PICK new : new = [overview EXCEPT !.how = how] /\ overview' = new
  BY <1>2
<1>4. /\ new \in OverviewRead /\ new.balance = overview.balance
      /\ new.floor = overview.floor /\ new.count = overview.count
      /\ new.list = overview.list /\ new.ids = overview.ids
      /\ new.how = how /\ new.seen = overview.seen
  BY <1>1, <1>3 DEF OverviewRead
<1>5. Counted(new)' /\ Funds(new)' /\ Listed(new)'
  BY <1>4 DEF ReadSo, Counted, Funds, Listed, vars
<1>6. Ended(new)'
  BY <1>2, <1>4 DEF Ended, AllRead, NextId
<1> QED
  BY <1>1, <1>3, <1>4, <1>5, <1>6 DEF ReadSo

LEMMA OverviewTypesStep ==
    ASSUME TypeOK, OverviewTypes, [PagesNext]_pagesVars
    PROVE  OverviewTypes'
<1>1. CASE Next /\ Note
  BY <1>1, OverviewNoted
<1>2. CASE VaultStep
  BY <1>2, OverviewRules
<1>3. CASE OverviewStep
  <2>1. UNCHANGED <<vars, rules, nextRule>> /\ RulesTyped
    BY <1>3 DEF OverviewStep, OverviewTypes
  <2>2. RulesTyped'
    BY <2>1 DEF RulesTyped
  <2>3. CASE StartRead
    BY <2>1, <2>2, <2>3, ReadStarts DEF OverviewTypes
  <2>4. CASE ~StartRead
    <3>1. /\ overview.how = "open" /\ ReadSo(overview)
          /\ \/ ReadBalance \/ ReadFloor \/ ReadRuleCount
             \/ ReadRule \/ ShowOverview \/ ReadFails
      BY <1>3, <2>4 DEF OverviewStep, OverviewTypes
    <3>2. ReadSo(overview)'
      BY <2>1, <3>1, BalanceRead, FloorRead, RulesCounted, RuleIsRead, ReadEnds
    <3> QED
      BY <2>2, <3>2 DEF OverviewTypes
  <2> QED
    BY <2>3, <2>4
<1>4. CASE UNCHANGED <<vars, rules, nextRule, overview>>
  <2>1. RulesTyped /\ RulesTyped'
    BY <1>4 DEF OverviewTypes, RulesTyped
  <2>2. Truths' = Truths /\ overview' = overview /\ config' = config
    BY <1>4 DEF Truths, vars
  <2>3. ReadSo(overview) => ReadSo(overview)'
    BY <1>4, <2>2 DEF ReadSo, Counted, Listed, Funds, Ended
  <2> QED
    BY <2>1, <2>2, <2>3 DEF OverviewTypes
<1> QED
  BY <1>1, <1>2, <1>3, <1>4 DEF PagesNext, BarStep, pagesVars, pageVars
-----------------------------------------------------------------------------
\* The dashboard's presets are the contract's thresholds, all different.
LEMMA LabelIsTheProfile ==
    ASSUME NEW c \in TierConfig, NEW p \in RiskProfile
    PROVE  RiskProfileLabel(c) = p <=> c = WithProfile(c, p)
<1> DEFINE hits == {q \in DOMAIN Presets : Presets[q] = <<c.preemptiveUtil, c.fullDrainUtil>>}
<1>1. DOMAIN Presets = RiskProfile
  BY DEF Presets, RiskProfile
<1>2. c = WithProfile(c, p) <=>
        /\ c.preemptiveUtil = Thresholds(p).preemptive
        /\ c.fullDrainUtil = Thresholds(p).fullDrain
  <2>1. WithProfile(c, p) \in TierConfig
    BY ProfileFields
  <2>2. /\ WithProfile(c, p).preemptiveUtil = Thresholds(p).preemptive
        /\ WithProfile(c, p).fullDrainUtil = Thresholds(p).fullDrain
    BY DEF WithProfile, TierConfig
  <2>3. ASSUME c.preemptiveUtil = Thresholds(p).preemptive,
               c.fullDrainUtil = Thresholds(p).fullDrain
        PROVE  WithProfile(c, p) = c
    BY <2>3 DEF WithProfile, TierConfig
  <2> QED
    BY <2>2, <2>3
<1>3. \A q \in RiskProfile :
        q \in hits <=> /\ c.preemptiveUtil = Thresholds(q).preemptive
                       /\ c.fullDrainUtil = Thresholds(q).fullDrain
  BY <1>1 DEF Presets, Thresholds, RiskProfile
<1>4. \A q, r \in RiskProfile : q \in hits /\ r \in hits => q = r
  BY <1>3 DEF Thresholds, RiskProfile
<1>5. hits \subseteq RiskProfile
  BY <1>1
<1>6. RiskProfileLabel(c) = IF hits = {} THEN "Custom" ELSE CHOOSE q \in hits : TRUE
  BY DEF RiskProfileLabel
<1>7. "Custom" \notin RiskProfile
  BY DEF RiskProfile
<1> HIDE DEF hits
<1>8. RiskProfileLabel(c) = p <=> p \in hits
  <2>1. CASE hits = {}
    BY <1>6, <1>7, <2>1
  <2>2. CASE hits # {}
    <3>1. PICK q : q = (CHOOSE r \in hits : TRUE)
      OBVIOUS
    <3>2. q \in hits
      BY <2>2, <3>1
    <3> QED
      BY <1>4, <1>5, <1>6, <2>2, <3>1, <3>2
  <2> QED
    BY <2>1, <2>2
<1> QED
  BY <1>2, <1>3, <1>8

\* A list that was read to the end is the rules that were counted.
LEMMA ShownIsWhole ==
    ASSUME TypeOK, RulesTyped, ReadSo(overview), overview.how = "shown"
    PROVE  /\ {i - 1 : i \in {j \in DOMAIN overview.list : overview.list[j] # None}}
                = overview.ids
           /\ FundedAboveFloor => overview.seen \cap {"funded", "restarted"} # {}
           /\ HasAgentKey => "R_AGENT_PAY" \in overview.seen
<1> DEFINE n == Len(overview.list)
           read == {i - 1 : i \in {j \in DOMAIN overview.list : overview.list[j] # None}}
<1>1. /\ overview \in OverviewRead /\ n \in Nat /\ n = overview.count
      /\ None \notin {overview.balance, overview.floor, overview.count}
      /\ DOMAIN overview.list = 1 .. n
      /\ \A i \in 1 .. n : overview.list[i] \in RuleNames
  BY DEF ReadSo, Ended, OverviewRead
<1>2. read = 0 .. n - 1
  <2>1. {j \in DOMAIN overview.list : overview.list[j] # None} = 1 .. n
    BY <1>1, PagesAssumption
  <2>2. \A k \in 0 .. n - 1 : k + 1 \in 1 .. n /\ k = (k + 1) - 1
    BY <1>1
  <2>3. \A i \in 1 .. n : i - 1 \in 0 .. n - 1
    BY <1>1
  <2> QED
    BY <2>1, <2>2, <2>3
<1>3. 0 .. n - 1 = overview.ids
  <2>1. IsFiniteSet(overview.ids) /\ Cardinality(overview.ids) = n
    BY <1>1 DEF ReadSo, Counted
  <2>2. Cardinality(0 .. n - 1) = n
    BY <1>1, IdsAreFew
  <2>3. 0 .. n - 1 \in SUBSET overview.ids
    <3>1. \A i \in 1 .. n : i - 1 \in overview.ids
      BY DEF ReadSo, Listed
    <3>2. \A k \in 0 .. n - 1 : k + 1 \in 1 .. n /\ (k + 1) - 1 = k
      BY <1>1
    <3>3. ASSUME NEW k \in 0 .. n - 1 PROVE k \in overview.ids
      <4>1. k + 1 \in 1 .. n /\ (k + 1) - 1 = k
        BY <3>2
      <4>2. (k + 1) - 1 \in overview.ids
        BY <3>1, <4>1
      <4> QED
        BY <4>1, <4>2
    <3> QED
      BY <3>3
  <2> QED
    BY <2>1, <2>2, <2>3, FS_Subset
<1>4. ASSUME FundedAboveFloor PROVE overview.seen \cap {"funded", "restarted"} # {}
  <2>1. /\ overview.balance # None /\ overview.floor # None
        /\ overview.balance >= overview.floor
    BY <1>1, <1>4 DEF FundedAboveFloor
  <2> QED
    BY <2>1 DEF ReadSo, Funds
<1>5. HasAgentKey => "R_AGENT_PAY" \in overview.seen
  BY <1>1 DEF HasAgentKey, ReadSo, Listed
<1> QED
  BY <1>2, <1>3, <1>4, <1>5

LEMMA OverviewIsTrue == TypeOK /\ OverviewTypes => ChecklistIsTrue
<1> SUFFICES ASSUME TypeOK, OverviewTypes, overview # None
             PROVE  /\ overview.how = "shown" =>
                         /\ {i - 1 : i \in {j \in DOMAIN overview.list : overview.list[j] # None}}
                              = overview.ids
                         /\ FundedAboveFloor => overview.seen \cap {"funded", "restarted"} # {}
                         /\ HasAgentKey => "R_AGENT_PAY" \in overview.seen
                    /\ overview.how = "missing" => DOMAIN rules # 0 .. nextRule - 1
                    /\ \A p \in RiskProfile :
                         config # None =>
                           (RiskProfileLabel(config) = p <=> config = WithProfile(config, p))
  BY DEF ChecklistIsTrue
<1>1. RulesTyped /\ ReadSo(overview)
  BY DEF OverviewTypes
<1>2. config # None => config \in TierConfig
  BY DEF TypeOK
<1> QED
  BY <1>1, <1>2, ShownIsWhole, LabelIsTheProfile DEF ReadSo, Ended

\* What the bar, the overview and the checklist put together from many reads was
\* so at some moment of them (StatusBar.tsx:60, vaultOverview.ts:110), for every
\* sequence of rules and of the account's configurations and every interleaving
\* of the polls and the reads with the contracts.
THEOREM PagesTellTheTruth == PagesSpec => []PagesAreTrue
<1>1. Init /\ PagesInit => BarTypes /\ OverviewTypes
  BY BarTypesInit, OverviewInit
<1>2. TypeOK /\ BarTypes /\ OverviewTypes /\ [PagesNext]_pagesVars
        => BarTypes' /\ OverviewTypes'
  BY BarTypesStep, OverviewTypesStep
<1>3. TypeOK /\ BarTypes /\ OverviewTypes => PagesAreTrue
  BY BarTypesGiveCause, OverviewIsTrue DEF PagesAreTrue
<1> QED
  BY <1>1, <1>2, <1>3, PagesTyped, PTL DEF PagesSpec
-----------------------------------------------------------------------------
\* The sentinel.  What a tick has read and decided, and what it has sent.
Drained == {PreemptiveDrain, Emergency}

SentinelTypes ==
    /\ utilization \in Utils
    /\ tick \in [step: {"idle", "config", "state", "assemble", "send"},
                 util: Utils \cup {None}, cfg: TierConfig \cup {None},
                 to: Drained \cup {None}]
    /\ tick.step # "idle" => tick.util \in Utils
    /\ tick.step \in {"assemble", "send"} => tick.to \in Drained
    /\ tx # None => tx \in [to: Drained, util: Utils, footprint: {"up", "down"}]

\* A tick decides for PreemptiveDrain, Emergency or nothing.
LEMMA DecisionDrains ==
    ASSUME NEW util, NEW seen, NEW cfg
    PROVE  decideEscalation(util, seen, cfg) \in Drained \cup {None}
  BY DEF decideEscalation, Drained

LEMMA SentinelTypesInit == SentinelInit => SentinelTypes
<1> SUFFICES ASSUME SentinelInit PROVE SentinelTypes
  OBVIOUS
<1>1. utilization \in Utils /\ tx = None
  BY DEF SentinelInit
<1>2. tick = [step |-> "idle", util |-> None, cfg |-> None, to |-> None]
  BY DEF SentinelInit, Idle
<1> QED
  BY <1>1, <1>2 DEF SentinelTypes

LEMMA TickSteps ==
    ASSUME TypeOK, SentinelTypes, SentinelStep \/ Restart \/ Lose,
           UNCHANGED engineVars, EnvUnchanged
    PROVE  SentinelTypes'
<1>1. utilization' \in Utils
  BY DEF SentinelTypes, EnvUnchanged
<1>2. ASSUME tick' = Idle, tx' = tx \/ tx' = None PROVE SentinelTypes'
  <2>1. tick' = [step |-> "idle", util |-> None, cfg |-> None, to |-> None]
    BY <1>2 DEF Idle
  <2> QED
    BY <1>1, <1>2, <2>1 DEF SentinelTypes
<1>3. CASE LoadPool
  BY <1>1, <1>3 DEF LoadPool, SentinelTypes
<1>4. CASE ReadKeeperConfig
  <2>1. CASE config = None
    BY <1>2, <1>4, <2>1 DEF ReadKeeperConfig
  <2>2. CASE config # None
    <3>1. config \in TierConfig
      BY <2>2 DEF TypeOK
    <3>2. tick' = [tick EXCEPT !.step = "state", !.cfg = config]
      BY <1>4, <2>2 DEF ReadKeeperConfig
    <3> QED
      BY <1>1, <1>4, <3>1, <3>2 DEF ReadKeeperConfig, SentinelTypes
  <2> QED
    BY <2>1, <2>2
<1>5. CASE ReadState
  <2>1. PICK to \in Drained \cup {None} : to = decideEscalation(tick.util, state, tick.cfg)
    BY DecisionDrains
  <2>2. CASE to = None
    BY <1>2, <1>5, <2>1, <2>2 DEF ReadState
  <2>3. CASE to # None
    <3>1. tick' = [tick EXCEPT !.step = "assemble", !.cfg = None, !.to = to]
      BY <1>5, <2>1, <2>3 DEF ReadState
    <3> QED
      BY <1>1, <1>5, <2>1, <2>3, <3>1 DEF ReadState, SentinelTypes
  <2> QED
    BY <2>2, <2>3
<1>6. CASE Assemble
  <2>1. tick.step = "assemble" /\ tick.to \in Drained /\ tick.util \in Utils
    BY <1>6 DEF Assemble, SentinelTypes
  <2>2. CASE Succeeds(tick.to, tick.util)
    <3>1. tick' = [tick EXCEPT !.step = "send"]
      BY <1>6, <2>2 DEF Assemble
    <3>2. \/ tx' = tx
          \/ tx' = [to |-> tick.to, util |-> tick.util, footprint |-> Footprint(tick.to)]
      BY <1>6, <2>2 DEF Assemble
    <3>3. Footprint(tick.to) \in {"up", "down"}
      BY DEF Footprint
    <3>4. tx' # None => tx' \in [to: Drained, util: Utils, footprint: {"up", "down"}]
      BY <2>1, <3>2, <3>3 DEF SentinelTypes
    <3> QED
      BY <1>1, <2>1, <3>1, <3>4 DEF SentinelTypes
  <2>3. CASE ~Succeeds(tick.to, tick.util)
    BY <1>2, <1>6, <2>3 DEF Assemble
  <2> QED
    BY <2>2, <2>3
<1>7. CASE Await
  BY <1>2, <1>7 DEF Await
<1>8. CASE Restart
  BY <1>2, <1>8 DEF Restart
<1>9. CASE Lose
  BY <1>1, <1>9 DEF Lose, tickVars, SentinelTypes
<1> QED
  BY <1>3, <1>4, <1>5, <1>6, <1>7, <1>8, <1>9 DEF SentinelStep

\* Every step of the composition is a step of the engine or leaves it alone: the
\* sentinel's transaction is the keeper's own keeper_advance_state.
LEMMA SentinelSteps ==
    ASSUME TypeOK, SentinelTypes, [SentinelNext]_sentinelVars
    PROVE  [Next]_vars
<1>1. ASSUME UNCHANGED engineVars, EnvUnchanged PROVE UNCHANGED vars
  BY <1>1 DEF engineVars, EnvUnchanged, envVars, vars
<1>2. CASE Land /\ EnvUnchanged
  <2>1. UNCHANGED envVars
    BY <1>2 DEF EnvUnchanged
  <2>2. CASE KeeperAdvanceState(Self, tx.to, tx.util)
    <3>1. Self \in Keepers
      BY <2>2 DEF KeeperAdvanceState, Recover, Drain, IsKeeper, TypeOK, TierConfig
    <3>2. tx.to \in SystemState /\ tx.util \in Utils \cup {None}
      BY <1>2 DEF Land, SentinelTypes, Drained, SystemState, Normal,
                  PreemptiveDrain, Emergency, Paused
    <3>3. Handler
      BY <2>2, <3>1, <3>2 DEF Handler
    <3> QED
      BY <2>1, <3>3 DEF Next
  <2>3. CASE UNCHANGED engineVars
    BY <1>1, <1>2, <2>3
  <2> QED
    BY <1>2, <2>2, <2>3 DEF Land
<1>3. CASE Operate /\ EnvUnchanged
  BY <1>3 DEF Operate, EnvUnchanged, Next, Handler
<1>4. CASE Crank /\ EnvUnchanged
  BY <1>4 DEF Crank, EnvUnchanged, Next, Handler
<1>5. CASE Initialise /\ EnvUnchanged
  BY <1>5 DEF Initialise, EnvUnchanged, Next, Handler
<1>6. CASE World
  BY <1>6 DEF World, Next
<1>7. CASE UNCHANGED sentinelVars
  BY <1>7 DEF sentinelVars
<1> QED
  BY <1>1, <1>2, <1>3, <1>4, <1>5, <1>6, <1>7 DEF SentinelNext

LEMMA SentinelTypesStep ==
    ASSUME TypeOK, SentinelTypes, [SentinelNext]_sentinelVars
    PROVE  SentinelTypes'
<1>1. ASSUME UNCHANGED tick, tx' = tx \/ tx' = None, utilization' \in Utils
      PROVE  SentinelTypes'
  BY <1>1 DEF SentinelTypes
<1>2. UNCHANGED utilization => utilization' \in Utils
  BY DEF SentinelTypes
<1>3. CASE (SentinelStep \/ Restart \/ Lose) /\ UNCHANGED engineVars /\ EnvUnchanged
  BY <1>3, TickSteps
<1>4. CASE (Land \/ Operate \/ Crank \/ Initialise) /\ EnvUnchanged
  BY <1>1, <1>2, <1>4 DEF Land, Operate, Crank, Initialise, EnvUnchanged, tickVars
<1>5. CASE World
  BY <1>1, <1>5 DEF World, tickVars
<1>6. CASE UNCHANGED sentinelVars
  BY <1>1, <1>2, <1>6 DEF sentinelVars
<1> QED
  BY <1>3, <1>4, <1>5, <1>6 DEF SentinelNext

LEMMA SentinelTyped == SentinelSpec => [](TypeOK /\ SentinelTypes)
<1>1. SentinelInit => TypeOK /\ SentinelTypes
  BY TypeInit, SentinelTypesInit DEF SentinelInit
<1>2. TypeOK /\ SentinelTypes /\ [SentinelNext]_sentinelVars => TypeOK' /\ SentinelTypes'
  BY SentinelSteps, TypeStep, SentinelTypesStep
<1> QED
  BY <1>1, <1>2, PTL DEF SentinelSpec

\* Every behaviour of the sentinel and the engine's other callers is one of the
\* engine's: what is proved of the engine above holds with the sentinel there.
THEOREM SentinelRunsTheEngine == SentinelSpec => Spec
<1>1. SentinelInit => Init
  BY DEF SentinelInit
<1>2. TypeOK /\ SentinelTypes /\ [SentinelNext]_sentinelVars => [Next]_vars
  BY SentinelSteps
<1> QED
  BY <1>1, <1>2, SentinelTyped, PTL DEF SentinelSpec, Spec

\* However stale what it was decided on, a transaction of the sentinel never
\* reopens the account, and lowers nothing that recovery would not: for every
\* configuration, every utilization, any number of restarts and every order in
\* which operators, cranks and the world move between its reads and its landing.
THEOREM TransactionsNeverReopen == SentinelSpec => NeverReopens
<1>1. ASSUME TypeOK, SentinelTypes, [SentinelNext]_sentinelVars,
             tx # None, tx' = None, state' < state
      PROVE  /\ state' = PreemptiveDrain
             /\ ~paused
             /\ balance >= config.criticalFloor
             /\ oracle \in {"Healthy", "OneFeed"}
  <2>1. state \in Int /\ ~UNCHANGED state
    BY <1>1 DEF TypeOK, SystemState, Normal, Paused
  <2>2. ~UNCHANGED engineVars /\ tx' # tx
    BY <1>1, <2>1 DEF engineVars
  <2>3. Land
    BY <1>1, <2>2 DEF SentinelNext, SentinelStep, Operate, Crank, Initialise, World,
                      sentinelVars
  <2>4. KeeperAdvanceState(Self, tx.to, tx.util)
    BY <2>2, <2>3 DEF Land
  <2>5. tx.to \in Drained
    BY <1>1 DEF SentinelTypes
  <2>6. tx.to \in SystemState /\ tx.to # Normal
    BY <2>5 DEF Drained, SystemState, Normal, PreemptiveDrain, Emergency, Paused
  <2>7. ~Drain(Self, tx.to, tx.util)
    BY <1>1, <2>1, <2>6 DEF Drain, SystemState, Normal, Paused
  <2>8. Recover(Self, tx.to)
    BY <2>4, <2>7 DEF KeeperAdvanceState
  <2>9. tx.to = PreemptiveDrain
    BY <2>6, <2>8 DEF Recover, RecoveryClear
  <2> QED
    BY <1>1, <2>6, <2>8, <2>9, RecoverChecks
<1>2. TypeOK /\ SentinelTypes /\ [SentinelNext]_sentinelVars =>
        [ tx # None /\ tx' = None /\ state' < state =>
            /\ state' = PreemptiveDrain
            /\ ~paused
            /\ balance >= config.criticalFloor
            /\ oracle \in {"Healthy", "OneFeed"} ]_sentinelVars
  BY <1>1
<1> QED
  BY <1>2, SentinelTyped, PTL DEF SentinelSpec, NeverReopens
=============================================================================
