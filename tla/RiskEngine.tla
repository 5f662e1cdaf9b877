----------------------------- MODULE RiskEngine -----------------------------
(***************************************************************************)
(* contracts/risk-engine for one account (every key carries the account):  *)
(* the four-level circuit breaker, the Tier 0 target and the ledger of     *)
(* Tier 1 positions.  The health monitor, the oracle router and the USDC   *)
(* token are seen through what their calls answer, the three environment   *)
(* variables below; a handler says nothing of how they change, so that a   *)
(* composition can put the real contracts there.  Fees: FeeGovernance.     *)
(***************************************************************************)
EXTENDS Integers, FiniteSets, Functions

CONSTANTS
    Keepers,   \* addresses that can be named keeper
    Venues,    \* Tier 1 venues
    Configs,   \* candidate TierConfig values, valid or not
    Targets,   \* Tier 0 targets a caller asks for
    Amounts,   \* position amounts a keeper records; i128, so any sign
    Utils,     \* utilization a keeper attests, in bps
    Balances,  \* the account's USDC balance
    None       \* an absent storage entry, utilization not attested

\* SystemState, in the enum's own order.
Normal == 0
PreemptiveDrain == 1
Emergency == 2
Paused == 3
SystemState == Normal .. Paused

MirroredOracleStatus == {"Healthy", "OneFeed", "Degraded", "HardStop"}
RiskProfile == {"Conservative", "Balanced", "Aggressive"}

TierConfig ==
    [keeper: Keepers, boundsMin: Int, boundsMax: Int, criticalFloor: Int,
     tvlCap: Int, preemptiveUtil: Nat, fullDrainUtil: Nat]

ASSUME ConfigsAssumption == \A c \in Configs : c \in TierConfig
ASSUME InputsAssumption ==
    /\ \A x \in Targets \cup Amounts \cup Balances : x \in Int
    /\ \A u \in Utils : u \in Nat
ASSUME VenuesAssumption == IsFiniteSet(Venues)
ASSUME AbsentAssumption == None \notin TierConfig /\ None \notin Nat

VARIABLES
    config,     \* DataKey::Config
    state,      \* DataKey::State
    target,     \* TierState.tier0_target
    positions,  \* TierState.tier1_positions, 0 where the map has no entry
    era,        \* history: flips each time the account is initialised
    paused,     \* environment: HealthMonitor.status()
    oracle,     \* environment: OracleRouter.get_price(..).status
    balance     \* environment: USDC balance of the account

engineVars == <<config, state, target, positions, era>>
envVars == <<paused, oracle, balance>>
vars == <<config, state, target, positions, era, paused, oracle, balance>>

TypeOK ==
    /\ config \in TierConfig \cup {None}
    /\ state \in SystemState
    /\ target \in Int
    /\ config # None => target \in config.boundsMin .. config.boundsMax
    /\ positions \in [Venues -> Int]
    /\ era \in {0, 1}
    /\ paused \in BOOLEAN
    /\ oracle \in MirroredOracleStatus
    /\ balance \in Int

\* Nothing is stored for the account; state, target and positions mean
\* nothing until config is there, and init writes all of them at once.
Init ==
    /\ config = None
    /\ state = Normal
    /\ target = 0
    /\ positions = [v \in Venues |-> 0]
    /\ era = 0
    /\ paused = FALSE
    /\ oracle \in MirroredOracleStatus
    /\ balance \in Balances

-----------------------------------------------------------------------------
ValidInit(c, t) ==
    /\ c.boundsMin <= c.boundsMax
    /\ c.boundsMin <= t /\ t <= c.boundsMax
    /\ c.tvlCap > 0
    /\ c.criticalFloor >= 0
    /\ c.fullDrainUtil > c.preemptiveUtil

\* init and init_validated.  Nothing asks whether the account already has a
\* state: running it again returns to Normal with an empty ledger.
InitAccount(c, t) ==
    /\ ValidInit(c, t)
    /\ config' = c
    /\ state' = Normal
    /\ target' = t
    /\ positions' = [v \in Venues |-> 0]
    /\ era' = 1 - era

Thresholds(profile) ==
    IF profile = "Conservative" THEN [preemptive |-> 7500, fullDrain |-> 8500]
    ELSE IF profile = "Balanced" THEN [preemptive |-> 8500, fullDrain |-> 9200]
    ELSE [preemptive |-> 9000, fullDrain |-> 9700]

WithProfile(c, profile) ==
    [c EXCEPT !.preemptiveUtil = Thresholds(profile).preemptive,
              !.fullDrainUtil = Thresholds(profile).fullDrain]

InitWithProfile(profile, c, t) == InitAccount(WithProfile(c, profile), t)

IsKeeper(k) == config # None /\ k = config.keeper

Clamp(x, lo, hi) == IF x < lo THEN lo ELSE IF x > hi THEN hi ELSE x

SetTier0Target(k, t) ==
    /\ IsKeeper(k)
    /\ target' = Clamp(t, config.boundsMin, config.boundsMax)
    /\ UNCHANGED <<config, state, positions, era>>

-----------------------------------------------------------------------------
\* The Tier 1 ledger.
Total(ps) == FoldFunction(LAMBDA x, y : x + y, 0, ps)

TotalOthers(v) == Total([positions EXCEPT ![v] = 0])

DeployAllowed(amount) ==
    /\ state = Normal
    /\ Total(positions) + amount <= config.tvlCap

\* Mutants of RecordAllowed: the venue's own old position counted again, only
\* the venue's own amount looked at.
RecordAllowedTwice(v, amount) ==
    state = Normal /\ Total(positions) + amount <= config.tvlCap
RecordAllowedAlone(v, amount) == state = Normal /\ amount <= config.tvlCap

\* record_tier1_position sets the venue's position: the new total is that of
\* the other venues plus the amount.
RecordAllowed(v, amount) ==
    /\ state = Normal
    /\ TotalOthers(v) + amount <= config.tvlCap

RecordTier1Position(k, v, amount) ==
    /\ IsKeeper(k)
    /\ RecordAllowed(v, amount)
    /\ positions' = [positions EXCEPT ![v] = amount]
    /\ UNCHANGED <<config, state, target, era>>

-----------------------------------------------------------------------------
\* The circuit breaker.

\* The level the conditions on chain call for.
TripTarget ==
    IF paused THEN Paused
    ELSE IF oracle \in {"Degraded", "HardStop"} \/ balance < config.criticalFloor
         THEN Emergency
    ELSE IF oracle = "OneFeed" THEN PreemptiveDrain
    ELSE state

CheckAndTrip ==
    /\ config # None
    /\ state' = IF TripTarget > state THEN TripTarget ELSE state
    /\ UNCHANGED <<config, target, positions, era>>

\* Mutants of RecoveryClear: a pause, the balance, the feed not looked at.
RecoveryClearIgnoresPause(to) ==
    /\ balance >= config.criticalFloor
    /\ \/ to = Normal /\ oracle = "Healthy"
       \/ to = PreemptiveDrain /\ oracle \notin {"Degraded", "HardStop"}
RecoveryClearIgnoresFloor(to) ==
    /\ ~paused
    /\ \/ to = Normal /\ oracle = "Healthy"
       \/ to = PreemptiveDrain /\ oracle \notin {"Degraded", "HardStop"}
RecoveryClearOneFeed(to) ==
    /\ ~paused /\ balance >= config.criticalFloor
    /\ to \in {Normal, PreemptiveDrain} /\ oracle \notin {"Degraded", "HardStop"}

\* There is no way down to Emergency: Paused is left for one of these two.
RecoveryClear(to) ==
    /\ ~paused
    /\ balance >= config.criticalFloor
    /\ \/ to = Normal /\ oracle = "Healthy"
       \/ to = PreemptiveDrain /\ oracle \notin {"Degraded", "HardStop"}

\* The downward branch of keeper_advance_state.  It does not look at the
\* attested utilization.
Recover(k, to) ==
    /\ IsKeeper(k)
    /\ to < state
    /\ RecoveryClear(to)
    /\ state' = to
    /\ UNCHANGED <<config, target, positions, era>>

RequiredUtil(to) ==
    IF to = Emergency THEN config.fullDrainUtil ELSE config.preemptiveUtil

\* The upward branch: neither oracle nor pause nor balance is read.
DrainAttested(to, util) ==
    /\ to \in {PreemptiveDrain, Emergency}
    /\ util # None /\ util >= RequiredUtil(to)

Drain(k, to, util) ==
    /\ IsKeeper(k)
    /\ to >= state
    /\ DrainAttested(to, util)
    /\ state' = to
    /\ UNCHANGED <<config, target, positions, era>>

KeeperAdvanceState(k, to, util) == Recover(k, to) \/ Drain(k, to, util)

-----------------------------------------------------------------------------
Handler ==
    \/ \E c \in Configs, t \in Targets :
        \/ InitAccount(c, t)
        \/ \E p \in RiskProfile : InitWithProfile(p, c, t)
    \/ \E k \in Keepers :
        \/ \E t \in Targets : SetTier0Target(k, t)
        \/ \E v \in Venues, a \in Amounts : RecordTier1Position(k, v, a)
        \/ \E to \in SystemState, u \in Utils \cup {None} :
              KeeperAdvanceState(k, to, u)
    \/ CheckAndTrip

Environment ==
    /\ paused' \in BOOLEAN
    /\ oracle' \in MirroredOracleStatus
    /\ balance' \in Balances

Next ==
    \/ Handler /\ UNCHANGED envVars
    \/ Environment /\ UNCHANGED engineVars

Spec == Init /\ [][Next]_vars

-----------------------------------------------------------------------------
\* A step of init or init_with_profile.
Reinitialised == era' # era

\* deploy_allowed (total + amount) and record_tier1_position (other venues +
\* new amount) are written differently and give one answer: a deployment is
\* allowed exactly when recording its result would be accepted.
AdviceIsEnforced ==
    \A v \in Venues, a \in Amounts : DeployAllowed(a) <=> RecordAllowed(v, positions[v] + a)

\* Total Tier 1 capital never exceeds the cap in force, over any sequence of
\* positions set up, set down, below zero and over a change of configuration,
\* and what a policy is advised of the cap is what the ledger enforces.
CapRespected ==
    config # None => Total(positions) <= config.tvlCap /\ AdviceIsEnforced

\* The two halves of the breaker agree: nobody can trip back a level that
\* has just been granted while the conditions stay what they were.
NoFlapping ==
    [][ state' < state /\ ~Reinitialised => TripTarget' <= state' ]_vars

=============================================================================
