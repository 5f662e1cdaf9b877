------------------------------ MODULE SlaStats ------------------------------
(***************************************************************************)
(* keeper/src/reporter.ts and reporterLoop.ts, the part computed from the  *)
(* burn history: the backtest of the sizing model and the series the       *)
(* dashboard plots.                                                        *)
(***************************************************************************)
EXTENDS Forecaster

CONSTANTS
    BacktestHours,  \* REPORTER_FORECASTER_ERROR_BACKTEST_HOURS
    TicksPerHour,   \* samples the forecaster logs in an hour
    MaxPoints       \* bound: largest CHART_SERIES_MAX_POINTS

ASSUME SeriesAssumption == BacktestHours \in Nat /\ TicksPerHour \in Nat /\ MaxPoints \in Nat

\* Mutant of PredictedFor: the hour is part of its own prediction.
PredictedForSeen(obs, i) ==
    PerHour(ComputeEwmas(WinsorizedSeries(SubSeq(obs, 1, i))))

\* What the model would have said of bucket i, from those before it.
PredictedFor(obs, i) ==
    PerHour(ComputeEwmas(WinsorizedSeries(SubSeq(obs, 1, i - 1))))

FirstTested(obs) ==
    IF Len(obs) - BacktestHours + 1 > 2 THEN Len(obs) - BacktestHours + 1 ELSE 2

\* backtestForecasterError: one sample per bucket of the backtest window.
Backtest(obs) ==
    [i \in FirstTested(obs) .. Len(obs) |->
        [predicted |-> PredictedFor(obs, i), realized |-> Scale * obs[i]]]

\* percentile: of the values in ascending order, Math.ceil(p / 100 * n) - 1, from 1.
Percentile(values, p) ==
    LET n == Cardinality(DOMAIN values)
    IN  IF n = 0 THEN 0 ELSE Ranked(values, Max({1, Min({n, (p * n + 99) \div 100})}))

\* computeForecasterError: how many, and the 99th percentile of the distances (the
\* means are left out).
ForecasterError(obs) ==
    LET samples == Backtest(obs)
        errors == [i \in DOMAIN samples |-> Distance(samples[i].predicted, samples[i].realized)]
    IN  [count |-> Cardinality(DOMAIN errors), p99 |-> Percentile(errors, 99)]

\* The elements of s at the indices in picked, in their order.
Kept(s, picked) ==
    LET kept[k \in 0 .. Len(s)] ==
          IF k = 0 THEN <<>>
          ELSE IF k \in picked THEN Append(kept[k - 1], s[k]) ELSE kept[k - 1]
    IN  kept[Len(s)]

\* RECALL_LATENCY_BUCKET_BOUNDS, scaled down; the last bucket has no end.
BucketBounds == <<0, 1, 2, 4>>
InBucket(v, b) == v >= BucketBounds[b] /\ (b < Len(BucketBounds) => v < BucketBounds[b + 1])

\* computeRecallLatencyHistogram, of executed less detected.
LatencyHistogram(latencies) ==
    LET kept == Kept(latencies, {i \in DOMAIN latencies : latencies[i] >= 0})
    IN  [count |-> Len(kept), p50 |-> Percentile(kept, 50),
         buckets |-> [b \in DOMAIN BucketBounds |->
                        Cardinality({i \in DOMAIN kept : InBucket(kept[i], b)})]]

\* Mutant of PickedIndex: rounded down, with the last point left out.
PickedIndexTruncated(i, n, m) == 1 + (i * (n - 1)) \div m

\* downsampleSeries: Math.round(i * (n - 1) / (m - 1)), from 1.
PickedIndex(i, n, m) == 1 + (2 * i * (n - 1) + (m - 1)) \div (2 * (m - 1))

Downsample(items, m) ==
    LET n == Len(items)
    IN  IF n <= m \/ m <= 1 THEN items
        ELSE [k \in 1 .. m |-> items[PickedIndex(k - 1, n, m)]]

-----------------------------------------------------------------------------
\* A prediction the backtest grades does not depend on the hour it is about,
\* nor on any later one ("using only data available strictly before it").
NoPeeking ==
    LET obs == Observations
    IN  \A i \in FirstTested(obs) .. Len(obs), later \in Amounts :
            LET other == [j \in DOMAIN obs |-> IF j >= i THEN later ELSE obs[j]]
            IN  Backtest(other)[i].predicted = Backtest(obs)[i].predicted

\* A plotted series keeps its first and last point and its order, and shows
\* no point twice, however it is thinned out.
SeriesKeepsShape ==
    \A m \in 2 .. MaxPoints :
        LET n == 1 + TicksPerHour * hour
            picked == Downsample([j \in 1 .. n |-> j], m)
        IN  /\ picked[1] = 1 /\ Last(picked) = n
            /\ Len(picked) <= m
            /\ \A k \in 1 .. Len(picked) - 1 : picked[k] < picked[k + 1]

\* A burn that never changes is forecast without an error.
SteadyIsExact ==
    LET obs == Observations
    IN  Cardinality(Range(obs)) = 1 => ForecasterError(obs).p99 = 0

\* A percentile is the least of the values that p percent of them do not exceed.
PercentilesAreRanks ==
    LET obs == Observations
        Covers(v, p) == 100 * Cardinality({i \in DOMAIN obs : obs[i] <= v}) >= p * Len(obs)
    IN  obs # <<>> =>
            \A p \in {50, 95, 99} :
                Percentile(obs, p) = Min({v \in Range(obs) : Covers(v, p)})

\* Every latency is in one bucket.
BucketsPartition ==
    LET h == LatencyHistogram(Observations)
    IN  FoldFunction(+, 0, h.buckets) = h.count

\* What the reporter publishes of the model's errors, of latencies and of a
\* series is what reporter.ts says it is, whatever the burns.
StatisticsHold ==
    /\ NoPeeking /\ SteadyIsExact
    /\ SeriesKeepsShape /\ PercentilesAreRanks /\ BucketsPartition
=============================================================================
