------------------------------ MODULE Sentinel ------------------------------
(***************************************************************************)
(* keeper/src/sentinel.ts and decision.ts against the risk engine: a tick  *)
(* reads the pool, the configuration and the state in three calls, decides *)
(* on what it read, has keeper_advance_state simulated, and sends it.  The *)
(* engine runs on between any two of these steps: cranks, an operator who  *)
(* holds the keeper key, the account itself and the world outside.         *)
(***************************************************************************)
EXTENDS RiskEngine

CONSTANTS
    Self,        \* the address of KEEPER_SECRET
    MaxRestarts  \* bound: times the process dies and is started again

VARIABLES
    utilization,  \* the reserve's utilization in the Blend pool, in bps
    tick,         \* what the running tick has read and decided
    tx,           \* the transaction in flight, None if there is none
    restarts

tickVars == <<tick, restarts>>
sentinelVars == <<vars, utilization, tick, tx, restarts>>

Idle == [step |-> "idle", util |-> None, cfg |-> None, to |-> None]

SentinelInit ==
    /\ Init
    /\ utilization \in Utils
    /\ tick = Idle
    /\ tx = None
    /\ restarts = 0

-----------------------------------------------------------------------------
\* Mutant of decideEscalation: Emergency never above PreemptiveDrain.
decideEscalationFromNormal(util, seen, cfg) ==
    IF seen # Normal THEN None
    ELSE IF util >= cfg.fullDrainUtil THEN Emergency
    ELSE IF util >= cfg.preemptiveUtil THEN PreemptiveDrain ELSE None

decideEscalation(util, seen, cfg) ==
    IF util >= cfg.fullDrainUtil /\ seen < Emergency THEN Emergency
    ELSE IF util >= cfg.preemptiveUtil /\ seen < PreemptiveDrain
    THEN PreemptiveDrain
    ELSE None

LoadPool ==
    /\ tick.step = "idle"
    /\ tick' = [tick EXCEPT !.step = "config", !.util = utilization]
    /\ UNCHANGED <<tx, restarts>>

\* config() of an account without one panics; the loop logs and starts over.
ReadKeeperConfig ==
    /\ tick.step = "config"
    /\ tick' = IF config = None THEN Idle
               ELSE [tick EXCEPT !.step = "state", !.cfg = config]
    /\ UNCHANGED <<tx, restarts>>

ReadState ==
    /\ tick.step = "state"
    /\ LET to == decideEscalation(tick.util, state, tick.cfg)
       IN tick' = IF to = None THEN Idle
                  ELSE [tick EXCEPT !.step = "assemble", !.cfg = None, !.to = to]
    /\ UNCHANGED <<tx, restarts>>

\* The entries a transaction may touch are fixed when it is simulated: "down"
\* covers the router, the monitor and the token, "up" the engine alone.
Footprint(to) == IF to < state THEN "down" ELSE "up"

\* keeper_advance_state succeeds now; it says nothing of later.
Succeeds(to, util) ==
    /\ IsKeeper(Self)
    /\ IF to < state THEN RecoveryClear(to) ELSE DrainAttested(to, util)

\* A simulation that fails is an error of the tick; nothing is sent.
Assemble ==
    /\ tick.step = "assemble"
    /\ IF Succeeds(tick.to, tick.util)
       THEN /\ tick' = [tick EXCEPT !.step = "send"]
            /\ \/ tx' = [to |-> tick.to, util |-> tick.util,
                         footprint |-> Footprint(tick.to)]
               \* A transaction sent before a restart has the sequence number.
               \/ tx # None /\ tx' = tx
       ELSE tick' = Idle /\ tx' = tx
    /\ UNCHANGED restarts

\* signAndSend returns once the transaction is settled, one way or the other.
Await ==
    /\ tick.step = "send"
    /\ tx = None
    /\ tick' = Idle
    /\ UNCHANGED <<tx, restarts>>

Restart ==
    /\ restarts < MaxRestarts
    /\ restarts' = restarts + 1
    /\ tick' = Idle
    /\ UNCHANGED tx

SentinelStep == LoadPool \/ ReadKeeperConfig \/ ReadState \/ Assemble \/ Await

-----------------------------------------------------------------------------
\* The ledger applies the transaction: it runs on the state of that moment and
\* fails where it would touch an entry outside its footprint.
Land ==
    /\ tx # None
    /\ IF Succeeds(tx.to, tx.util)
            /\ (Footprint(tx.to) = "down" => tx.footprint = "down")
       THEN KeeperAdvanceState(Self, tx.to, tx.util)
       ELSE UNCHANGED engineVars
    /\ tx' = None
    /\ UNCHANGED tickVars

\* The transaction is never included and its time bounds pass.
Lose ==
    /\ tx # None
    /\ tx' = None
    /\ UNCHANGED tickVars

\* The engine's other callers.
Operate ==
    /\ \E k \in Keepers, to \in SystemState, u \in Utils \cup {None} :
           KeeperAdvanceState(k, to, u)
    /\ UNCHANGED <<tx, tickVars>>

Crank == CheckAndTrip /\ UNCHANGED <<tx, tickVars>>

Initialise ==
    /\ \E c \in Configs, t \in Targets : InitAccount(c, t)
    /\ UNCHANGED <<tx, tickVars>>

World ==
    /\ Environment
    /\ utilization' \in Utils
    /\ UNCHANGED <<engineVars, tx, tickVars>>

EnvUnchanged == UNCHANGED <<envVars, utilization>>

SentinelNext ==
    \/ (SentinelStep \/ Restart \/ Lose) /\ UNCHANGED engineVars /\ EnvUnchanged
    \/ (Land \/ Operate \/ Crank \/ Initialise) /\ EnvUnchanged
    \/ World

SentinelSpec == SentinelInit /\ [][SentinelNext]_sentinelVars

\* The process polls for ever (main's for (;;)), and a transaction sent again
\* and again is in the end included.  Nobody is obliged to do anything else.
SentinelFairSpec ==
    /\ SentinelSpec
    /\ WF_sentinelVars(SentinelStep /\ UNCHANGED engineVars /\ EnvUnchanged)
    /\ SF_sentinelVars(Land /\ EnvUnchanged)

-----------------------------------------------------------------------------
\* Utilization at or above full_drain_util_bps for good keeps bringing the
\* account to Emergency or above, whatever operators, cranks, initialisations,
\* restarts and lost transactions do in between, while the keeper is Self.
FullUtilizationDrains ==
    <>[](/\ config # None /\ config.keeper = Self
         /\ utilization >= config.fullDrainUtil)
        => []<>(state >= Emergency)

\* However stale what it was decided on, a transaction of the sentinel never
\* returns the account to Normal, and lowers nothing while a pause is on, the
\* balance below the floor or the oracle Degraded or HardStop.
NeverReopens ==
    [][ tx # None /\ tx' = None /\ state' < state =>
          /\ state' = PreemptiveDrain
          /\ ~paused
          /\ balance >= config.criticalFloor
          /\ oracle \in {"Healthy", "OneFeed"} ]_sentinelVars

\* "Escalation-only, deliberately: recovery is a separate, deliberate keeper
\* decision" (decideEscalation): no transaction of the sentinel lowers a level.
EscalationOnly ==
    [][ tx # None /\ tx' = None => state' >= state ]_sentinelVars

=============================================================================
