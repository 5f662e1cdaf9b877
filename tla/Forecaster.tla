----------------------------- MODULE Forecaster -----------------------------
(***************************************************************************)
(* keeper/src/forecasterLoop.ts: a tick reads the burn history and the     *)
(* target on chain, decides with the decline clock kept in a file, writes  *)
(* the target, samples the balance and asks for a recall.  One action per  *)
(* call a tick awaits, so payments, hours, a crash or a transaction of an  *)
(* earlier tick come in between.  risk-engine is set_tier0_target's clamp. *)
(***************************************************************************)
EXTENDS Sizing

CONSTANTS
    Amounts,    \* sizes of a payment out of the vault
    MaxBurn,    \* bound: burn of one hour
    MaxHour,    \* bound: hours of a behaviour
    LookbackHours, \* LOOKBACK_HOURS
    Balances,   \* balances of the vault a sample may read
    TargetMin,  \* tier0_bounds_min
    TargetMax,  \* tier0_bounds_max
    Nothing,    \* no transaction in flight
    MaxMishaps  \* bound: failed calls, crashes and torn files

ASSUME TargetsAssumption ==
    TargetMin \in Nat /\ TargetMax \in Nat /\ TargetMin <= TargetMax
ASSUME BurnAssumption == Amounts \subseteq Nat \ {0}
ASSUME HourAssumption == MaxHour \in Nat /\ LookbackHours \in Nat \ {0}
ASSUME NothingAssumption == Nothing \notin Int /\ NotBelow \notin Int

VARIABLES
    hour,        \* the clock
    burns,       \* the buckets of the hours the RPC still has, oldest first
    target,      \* tier0_target on chain
    belowSince,  \* the state file: start of the decline, or NotBelow
    phase,       \* what the tick awaits; "idle" between ticks
    computed,    \* the tick's computedTarget
    onChain,     \* the tick's onChainTarget
    applied,     \* the tick's decision.appliedTarget
    inFlight,    \* target of a write whose tick is gone, or Nothing
    recall,      \* shortfall of the recall being sent, or Nothing
    mishaps,     \* mishaps so far
    declining    \* history: since when every decision saw a decline

vars == <<hour, burns, target, belowSince, phase, computed, onChain, applied,
          inFlight, recall, mishaps, declining>>
tickVars == <<phase, computed, onChain, applied, recall>>
worldVars == <<hour, burns, target, inFlight>>

Init ==
    /\ hour = 0
    /\ burns = <<>>
    /\ target = TargetMin
    /\ belowSince = NotBelow
    /\ phase = "idle"
    /\ computed = 0 /\ onChain = 0 /\ applied = 0
    /\ inFlight = Nothing
    /\ recall = Nothing
    /\ mishaps = 0
    /\ declining = NotBelow

-----------------------------------------------------------------------------
Clamp(t) == IF t < TargetMin THEN TargetMin ELSE IF t > TargetMax THEN TargetMax ELSE t

\* fetchHourlyBurnObservations: an hour without a transfer has no bucket.
Observations == [i \in DOMAIN burns |-> burns[i].amount]

ComputedTarget == ComputeTier0Target(ComputeEwmas(WinsorizedSeries(Observations)))

BurntThisHour ==
    IF burns # <<>> /\ Last(burns).hour = hour THEN Last(burns).amount ELSE 0

\* A payment leaves the vault in the current hour.  The second conjunct is a
\* bound on how many an hour can hold: each exceeds what is already there.
Pay(a) ==
    /\ BurntThisHour + a <= MaxBurn
    /\ BurntThisHour < a
    /\ burns' = IF BurntThisHour = 0 THEN Append(burns, [hour |-> hour, amount |-> a])
                ELSE [burns EXCEPT ![Len(burns)].amount = @ + a]
    /\ UNCHANGED <<hour, target, belowSince, inFlight, mishaps, declining, tickVars>>

NextHour ==
    /\ hour < MaxHour
    /\ hour' = hour + 1
    /\ burns' = IF burns # <<>> /\ Head(burns).hour = hour' - LookbackHours
                THEN Tail(burns) ELSE burns
    /\ UNCHANGED <<target, belowSince, inFlight, mishaps, declining, tickVars>>

Fetch ==
    /\ phase = "idle"
    /\ phase' = "fetched"
    /\ computed' = ComputedTarget
    /\ UNCHANGED <<worldVars, belowSince, onChain, applied, recall, mishaps, declining>>

ReadTierState ==
    /\ phase = "fetched"
    /\ phase' = "read"
    /\ onChain' = target
    /\ UNCHANGED <<worldVars, belowSince, computed, applied, recall, mishaps, declining>>

\* From the clock to the save: nothing is awaited in between.
Decide ==
    LET decision == ApplyHysteresis(computed, onChain, hour, belowSince) IN
    /\ phase = "read"
    /\ applied' = decision.applied
    /\ belowSince' = decision.belowSince
    /\ phase' = IF ShouldWriteOnChain(decision.applied, onChain)
                THEN "write" ELSE "balance"
    /\ declining' = IF computed >= onChain THEN NotBelow
                    ELSE IF declining = NotBelow THEN hour ELSE declining
    /\ UNCHANGED <<worldVars, computed, onChain, recall, mishaps>>

\* Mutant of WriteLands: the write that is not waited for.
WriteLandsForgotten ==
    /\ phase = "write"
    /\ phase' = "balance"
    /\ UNCHANGED <<hour, burns, target, inFlight, belowSince, computed, onChain,
                   applied, recall, mishaps, declining>>

\* Two writes of the keeper's account carry the same sequence number while
\* the first is pending: the one that lands discards the other.
WriteLands ==
    /\ phase = "write"
    /\ phase' = "balance"
    /\ target' = Clamp(applied)
    /\ inFlight' = Nothing
    /\ UNCHANGED <<hour, burns, belowSince, computed, onChain, applied, recall,
                   mishaps, declining>>

\* The tick is over: its locals are gone, the file and the chain are not.
TickOver ==
    /\ phase' = "idle"
    /\ computed' = 0 /\ onChain' = 0 /\ applied' = 0
    /\ recall' = Nothing

\* The sample is logged, and a balance below the refill band is recalled.
Sample(balance) ==
    /\ phase = "balance"
    /\ IF ShouldRecall(balance, applied)
       THEN /\ phase' = "recall"
            /\ recall' = applied - balance
            /\ UNCHANGED <<computed, onChain, applied>>
       ELSE TickOver
    /\ UNCHANGED <<worldVars, belowSince, mishaps, declining>>

\* The balance did not simulate, no recall is configured, or the recall has
\* landed: the tick ends.
TickEnds ==
    /\ phase \in {"balance", "recall"}
    /\ TickOver
    /\ UNCHANGED <<worldVars, belowSince, mishaps, declining>>

\* Any awaited call throws, or the process dies: nothing is rolled back.  A
\* write may be left in flight.
TickDies ==
    /\ phase # "idle"
    /\ mishaps < MaxMishaps
    /\ mishaps' = mishaps + 1
    /\ TickOver
    /\ inFlight' \in IF phase = "write" /\ inFlight = Nothing
                     THEN {Nothing, applied} ELSE {inFlight}
    /\ UNCHANGED <<hour, burns, target, belowSince, declining>>

\* The process dies inside the save: the file does not parse any more, and
\* loadHysteresisState reads that as "not currently below".
FileTorn ==
    /\ phase = "read"
    /\ mishaps < MaxMishaps
    /\ mishaps' = mishaps + 1
    /\ belowSince' = NotBelow
    /\ TickOver
    /\ UNCHANGED <<worldVars, declining>>

\* The write of a tick that is gone lands, or its time bound passes.
LateWrite ==
    /\ inFlight # Nothing
    /\ inFlight' = Nothing
    /\ target' \in {target, Clamp(inFlight)}
    /\ UNCHANGED <<hour, burns, belowSince, mishaps, declining, tickVars>>

SizingStep ==
    \/ Fetch
    \/ ReadTierState
    \/ Decide
    \/ WriteLands
    \/ \E b \in Balances : Sample(b)
    \/ TickEnds

Next ==
    \/ \E a \in Amounts : Pay(a)
    \/ NextHour
    \/ SizingStep
    \/ TickDies
    \/ FileTorn
    \/ LateWrite

Spec == Init /\ [][Next]_vars

\* main() runs ticks in an endless loop that catches what a tick throws, and
\* a write is included or times out.
FairSpec == Spec /\ WF_vars(SizingStep) /\ WF_vars(LateWrite)

-----------------------------------------------------------------------------
\* A lower target is only ever sent after every decision of at least
\* LowerAfter hours saw the computed target below the one on chain, whatever
\* crashed, was torn or landed late meanwhile (applyHysteresis).
LowersAfterSustained ==
    [][phase = "read" /\ phase' = "write" /\ applied' < onChain
        => declining # NotBelow /\ hour - declining >= LowerAfter]_vars

\* Once payments stop, the target on chain ends up covering the burn, up to
\* the bounds and the band: no fault, late write or decline clock holds a
\* raise back for good ("without ever delaying a real increase").
Covered == Clamp(ComputedTarget) - target <= (target * BandBps) \div 10000
EventuallyCovered == <>[]Covered

=============================================================================
