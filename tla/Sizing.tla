------------------------------- MODULE Sizing -------------------------------
(***************************************************************************)
(* keeper/src/forecaster.ts: how large Tier 0 should be, from hourly burn  *)
(* buckets, and how cautiously a new size is applied.  Amounts are whole   *)
(* units; the two moving averages, floating point in the code, are kept in *)
(* Scale-ths of a unit and rounded down.                                   *)
(***************************************************************************)
EXTENDS Integers, Sequences, SequencesExt

CONSTANTS
    Scale,          \* fixed-point scale of the moving averages
    FastAlpha,      \* smoothing factors halfLifeToAlpha gives for the two
    SlowAlpha,      \*   half-lives, in Scale-ths
    Trailing,       \* buckets the clipping median looks back over (168)
    RecallHours,    \* recall_window * k, in hours of burn
    XlmFeeFloor,    \* xlm_fee_floor_usd
    LowerAfter,     \* LOWER_AFTER_SECONDS, in hours
    BandBps,        \* BAND_BPS
    RefillBandBps,  \* REFILL_BAND_BPS
    NotBelow        \* belowSinceSeconds = null

ASSUME ScaleAssumption == Scale \in Nat \ {0}
ASSUME AlphaAssumption == FastAlpha \in 1 .. Scale /\ SlowAlpha \in 1 .. Scale
ASSUME AmountsAssumption == Trailing \in Nat /\ RecallHours \in Nat /\ XlmFeeFloor \in Nat
ASSUME LowerAfterAssumption == LowerAfter \in Nat \ {0}

\* The k-th of the values in ascending order, from 1.
Ranked(values, k) ==
    LET Reaches(v) == Cardinality({i \in DOMAIN values : values[i] <= v}) >= k
    IN  CHOOSE v \in Range(values) :
            Reaches(v) /\ \A w \in Range(values) : w < v => ~Reaches(w)

MedianOf(values) ==
    LET mid == Len(values) \div 2
    IN  IF values = <<>> THEN 0
        ELSE IF Len(values) % 2 = 1 THEN Ranked(values, mid + 1)
        ELSE (Ranked(values, mid) + Ranked(values, mid + 1)) \div 2

Winsorize(amount, trailingMedian) ==
    IF trailingMedian > 0 /\ amount > 3 * trailingMedian
    THEN 3 * trailingMedian
    ELSE amount

\* The buckets strictly before the i-th, as far back as Trailing.
Before(obs, i) == SubSeq(obs, (IF i > Trailing THEN i - Trailing ELSE 1), i - 1)

WinsorizedSeries(obs) ==
    [i \in DOMAIN obs |-> Winsorize(obs[i], MedianOf(Before(obs, i)))]

EwmaStep(previous, observation, alpha) ==
    (alpha * observation + (Scale - alpha) * previous) \div Scale

\* Seeded with the first bucket, as ewmaStep does for previous = null.
Ewma(series, alpha) ==
    LET ewma[k \in 0 .. Len(series)] ==
          IF k = 0 THEN 0
          ELSE IF k = 1 THEN Scale * series[1]
          ELSE EwmaStep(ewma[k - 1], Scale * series[k], alpha)
    IN  ewma[Len(series)]

ComputeEwmas(series) ==
    [fast |-> Ewma(series, FastAlpha), slow |-> Ewma(series, SlowAlpha)]

PerHour(ewmas) == IF ewmas.fast >= ewmas.slow THEN ewmas.fast ELSE ewmas.slow

ComputeTier0Target(ewmas) ==
    (PerHour(ewmas) * RecallHours + Scale \div 2) \div Scale + XlmFeeFloor

\* Mutants of ApplyHysteresis: lowering at once; a rise held back like a fall.
ApplyHysteresisEager(computed, onChain, now, belowSince) ==
    [applied |-> computed, belowSince |-> NotBelow]
ApplyHysteresisSlow(computed, onChain, now, belowSince) ==
    LET since == IF belowSince = NotBelow THEN now ELSE belowSince
    IN  IF now - since >= LowerAfter
        THEN [applied |-> computed, belowSince |-> NotBelow]
        ELSE [applied |-> onChain, belowSince |-> since]

\* Raise at once; lower only when the clock of the decline has run out.
ApplyHysteresis(computed, onChain, now, belowSince) ==
    LET since == IF belowSince = NotBelow THEN now ELSE belowSince
    IN  IF computed >= onChain
        THEN [applied |-> computed, belowSince |-> NotBelow]
        ELSE IF now - since >= LowerAfter
        THEN [applied |-> computed, belowSince |-> NotBelow]
        ELSE [applied |-> onChain, belowSince |-> since]

Distance(a, b) == IF a >= b THEN a - b ELSE b - a

ShouldWriteOnChain(proposed, onChain) ==
    IF onChain = 0 THEN proposed # 0
    ELSE Distance(proposed, onChain) > (onChain * BandBps) \div 10000

ShouldRecall(balance, applied) ==
    balance < (applied * RefillBandBps) \div 10000
=============================================================================
