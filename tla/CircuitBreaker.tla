--------------------------- MODULE CircuitBreaker ---------------------------
(***************************************************************************)
(* The three contracts of the circuit breaker over one ledger clock: the   *)
(* risk engine reads the real health monitor and lands a real get_price on *)
(* the real router, and the router's own check_and_trip pauses the monitor.*)
(***************************************************************************)
EXTENDS OracleRouter

CONSTANTS
    Accounts, MaxPauseDuration, MaxExtensions, LastPauseTime,
    Keepers, Venues, EngineConfigs, Targets, Amounts, Utils, Balances,
    Router  \* the router contract's own address, one of Accounts

VARIABLES
    admin, guardians, pause, trippedAt,           \* health monitor
    engineConfig, state, target, positions, era,  \* risk engine
    balance                                       \* USDC of the account

HM == INSTANCE HealthMonitor
RE == INSTANCE RiskEngine WITH config <- engineConfig, Configs <- EngineConfigs,
                               paused <- HM!Status, oracle <- Read.status

ASSUME EngineAssumption ==
    /\ \A c \in EngineConfigs : c \in RE!TierConfig
    /\ \A b \in Balances : b \in Int

monitorVars == <<admin, guardians, pause, trippedAt>>
engineVars == <<engineConfig, state, target, positions, era>>
breakerVars == <<vars, monitorVars, engineVars, balance>>

\* A deployed account: guardians named, the router among them, the engine
\* initialised, the router's feeds not yet configured.  A second init, which
\* lowers the level by itself, is RiskEngine's subject and is left out here.
BreakerInit ==
    /\ Init
    /\ admin \in Accounts \ {Router}
    /\ guardians = Accounts
    /\ pause = None
    /\ trippedAt = 0
    /\ engineConfig \in EngineConfigs
    /\ state = RE!Normal
    /\ target = 0
    /\ positions = [v \in Venues |-> 0]
    /\ era = 0
    /\ balance \in Balances

-----------------------------------------------------------------------------
\* RiskEngine.check_and_trip: whatever level it finds, its get_price lands.
EngineCrank ==
    /\ UNCHANGED <<now, monitorVars, feed, balance>>
    /\ GetPrice
    /\ RE!CheckAndTrip

\* keeper_advance_state downward reads the oracle, upward it does not.
Recover(k, to) ==
    /\ config # None
    /\ RE!Recover(k, to)
    /\ GetPrice
    /\ UNCHANGED <<now, monitorVars, feed, balance>>

Drain(k, to, util) ==
    /\ RE!Drain(k, to, util)
    /\ UNCHANGED <<now, monitorVars, feed, routerVars, balance>>

\* OracleRouter.check_and_trip: a router that is no guardian gets an error
\* back from try_pause and ignores it.
RouterCrank ==
    /\ GetPrice
    /\ IF Read.status \in {"Degraded", "HardStop"} /\ Router \in guardians
       THEN HM!Pause(Router)
       ELSE UNCHANGED <<now, monitorVars>>
    /\ UNCHANGED <<feed, engineVars, balance>>

\* get_price by anyone else, and set_config.
RouterCall ==
    /\ GetPrice \/ \E c \in Configs : SetConfig(c)
    /\ UNCHANGED <<now, monitorVars, feed, engineVars, balance>>

\* extend() is left to HealthMonitor: seen from here it only moves an expiry,
\* as another pause() does.
MonitorCall ==
    /\ \E a \in Accounts \ {Router} : HM!Pause(a) \/ HM!ResumeEarly(a)
    /\ UNCHANGED <<feed, routerVars, engineVars, balance>>

World ==
    \/ /\ FeedStep \/ Tick
       /\ UNCHANGED <<monitorVars, routerVars, engineVars, balance>>
    \/ /\ balance' \in Balances
       /\ UNCHANGED <<now, monitorVars, feed, routerVars, engineVars>>

BreakerNext ==
    \/ EngineCrank
    \/ \E k \in Keepers, to \in RE!SystemState :
        \/ Recover(k, to)
        \/ \E u \in Utils : Drain(k, to, u)
    \/ RouterCrank
    \/ RouterCall
    \/ MonitorCall
    \/ World

BreakerSpec == BreakerInit /\ [][BreakerNext]_breakerVars

-----------------------------------------------------------------------------
\* The whole chain behind a return to Normal: at that moment two live feeds,
\* both fresh, agree within the hard band, no pause is on and the account holds
\* its floor.
ReturnIsCorroborated ==
    [][ state' < state /\ state' = RE!Normal =>
          /\ \A f \in Feed : LiveAndFresh(f)
          /\ DivergenceBps(FeedPrice("primary"), FeedPrice("secondary"))
               <= config.hard
          /\ ~HM!Status
          /\ balance >= engineConfig.criticalFloor ]_breakerVars

\* Although a landed read changes what the router says next, neither a crank
\* that raises the level nor a recovery leaves it below what the conditions then
\* call for: a second crank right after either does nothing.
LevelIsSettled ==
    [][ state' < state \/ (state' > state /\ EngineCrank) =>
          (RE!TripTarget)' <= state' ]_breakerVars
=============================================================================
