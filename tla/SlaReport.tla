----------------------------- MODULE SlaReport -----------------------------
(***************************************************************************)
(* keeper/src/metricsLog.ts, reporterLoop.ts and reporter.ts, with the     *)
(* dashboard's telemetry.ts and SlaTelemetryPanel.tsx: the forecaster      *)
(* appends a line per sample and per recall to a file, the reporter reads  *)
(* that file twice in a tick and replaces its snapshot, the panel reads    *)
(* the snapshot.  Three processes share the two files and nothing else.    *)
(***************************************************************************)
EXTENDS SlaStats

CONSTANTS
    MaxClock,       \* bound: the clock, in seconds
    Window,         \* WINDOW_HOURS, in the unit of the clock
    SampleBalances, \* vault balances a tick may see
    SampleTarget,   \* the tick's decision.appliedTarget
    CriticalFloor,  \* config.critical_floor
    MaxReports,     \* bound: ticks of the reporter
    MaxTears,       \* bound: appends cut short
    Grain,          \* steps of a share on the panel: 1000 with one decimal of a percent
    Garbage,        \* a line that does not parse
    NoFloor,        \* a sample of a version that did not log the floor
    NoSnapshot,     \* no snapshot
    Torn            \* a snapshot file that does not parse

ASSUME SampleAssumption ==
    SampleBalances \subseteq Int /\ SampleTarget \in Int /\ CriticalFloor \in Int
ASSUME ReportWindowAssumption == Window \in Nat
ASSUME ReportClockAssumption == MaxClock \in Nat \ {0}
ASSUME GrainAssumption == Grain \in Nat \ {0}

VARIABLES
    clock,
    log,       \* the lines of the metrics log
    open,      \* the last line has no newline yet
    sampling,  \* the forecaster's tick: when it started, what it does next
    report,    \* the reporter's tick
    reports,   \* how many were begun
    snapshot,  \* the snapshot file
    tears,     \* history: appends cut short
    attempts   \* history: every event given to appendMetricEvent

logVars == <<log, open, tears, attempts>>
reportVars == <<clock, log, open, sampling, report, reports, snapshot, tears, attempts>>

SampleEvent(at, balance, floor) ==
    [type |-> "tier0_sample", at |-> at, balance |-> balance,
     target |-> SampleTarget, floor |-> floor]
RecallEvent(detected, executed) ==
    [type |-> "recall_triggered", at |-> detected, executed |-> executed]
SampleEvents ==
    [type : {"tier0_sample"}, at : Nat, balance : Int, target : {SampleTarget},
     floor : {CriticalFloor, NoFloor}]
RecallEvents == [type : {"recall_triggered"}, at : Nat, executed : Nat]
Events == SampleEvents \cup RecallEvents

ASSUME GarbageAssumption == Garbage \notin Events

IdleReport == [stage |-> "idle", start |-> 0, samples |-> <<>>, recalls |-> <<>>,
               missed |-> 0, tears |-> 0]

\* The log may hold a line of an older version.
ReportInit ==
    /\ clock = 1
    /\ log \in {<<>>, <<SampleEvent(0, SampleTarget, NoFloor)>>} /\ attempts = log
    /\ open = FALSE /\ tears = 0
    /\ sampling = [at |-> 0, stage |-> "idle"]
    /\ report = IdleReport /\ reports = 0
    /\ snapshot = NoSnapshot

-----------------------------------------------------------------------------
\* The metrics log.  What is appended to a line without an end becomes part of
\* that line, and the two together do not parse.
WithLine(line) ==
    IF open THEN [log EXCEPT ![Len(log)] = Garbage] ELSE Append(log, line)

AppendMetricEvent(e) ==
    /\ log' = WithLine(e)
    /\ open' = FALSE
    /\ attempts' = Append(attempts, e)
    /\ UNCHANGED tears

\* The append is cut short by a crash or a full disk: inside the line, or
\* between the line and its newline.
TornAppend(e) ==
    /\ tears < MaxTears
    /\ tears' = tears + 1
    /\ log' \in {WithLine(e), WithLine(Garbage)}
    /\ open' = TRUE
    /\ attempts' = Append(attempts, e)

\* Mutant of Inside: the window starts one hour early.
InsideWide(e, start) == e.at >= start - Window - 1
Inside(e, start) == e.at >= start - Window

\* readMetricEvents skips the lines that do not parse; those of the type and the
\* window are kept.
Wanted(lines, type, start) ==
    {i \in DOMAIN lines :
        lines[i] # Garbage /\ lines[i].type = type /\ Inside(lines[i], start)}
FromLog(type, start) == Kept(log, Wanted(log, type, start))

-----------------------------------------------------------------------------
\* The forecaster's tick, from the balance on; it polls, so no two ticks start
\* at the same time.
SamplingStarts ==
    /\ sampling.stage = "idle" /\ clock > sampling.at
    /\ sampling' = [at |-> clock, stage |-> "balance"]
    /\ UNCHANGED <<clock, logVars, report, reports, snapshot>>

\* A line is appended, whole or not, and the tick goes on only when it is whole.
LogSample(balance) ==
    LET e == SampleEvent(sampling.at, balance, CriticalFloor) IN
    /\ sampling.stage = "balance"
    /\ \/ /\ AppendMetricEvent(e)
          /\ sampling' = [sampling EXCEPT !.stage =
                            IF ShouldRecall(balance, SampleTarget) THEN "recall" ELSE "idle"]
       \/ TornAppend(e) /\ sampling' = [sampling EXCEPT !.stage = "idle"]
    /\ UNCHANGED <<clock, report, reports, snapshot>>

LogExecutedRecall ==
    LET e == RecallEvent(sampling.at, clock) IN
    /\ sampling.stage = "recall"
    /\ AppendMetricEvent(e) \/ TornAppend(e)
    /\ sampling' = [sampling EXCEPT !.stage = "idle"]
    /\ UNCHANGED <<clock, report, reports, snapshot>>

\* No balance, no recall configured, a throw, a restart.
SamplingEnds ==
    /\ sampling.stage # "idle"
    /\ sampling' = [sampling EXCEPT !.stage = "idle"]
    /\ UNCHANGED <<clock, logVars, report, reports, snapshot>>

-----------------------------------------------------------------------------
\* A share, a quotient in the code; of nothing it is 0.
Share(part, whole) ==
    IF whole = {} THEN [hits |-> 0, of |-> 1]
    ELSE [hits |-> Cardinality(part), of |-> Cardinality(whole)]

\* Mutant of Tier0HitRate: a balance at the target is no hit.
Tier0HitRateStrict(samples) ==
    Share({i \in DOMAIN samples : samples[i].balance > samples[i].target}, DOMAIN samples)
Tier0HitRate(samples) ==
    Share({i \in DOMAIN samples : samples[i].balance >= samples[i].target}, DOMAIN samples)

AgentUptime(samples) ==
    LET withFloor == {i \in DOMAIN samples : samples[i].floor # NoFloor}
    IN  Share({i \in withFloor : samples[i].balance >= samples[i].floor}, withFloor)

Latencies(recalls) == [i \in DOMAIN recalls |-> recalls[i].executed - recalls[i].at]

Tier0Series(samples) ==
    LET picked == Downsample(samples, MaxPoints)
    IN  [i \in DOMAIN picked |->
            [at |-> picked[i].at, balance |-> picked[i].balance, target |-> picked[i].target]]

\* SlaSnapshot, with what it was computed from; the pause statistics are in
\* PauseRecord, the forecaster's errors in SlaStats.
SlaSnapshot(r) ==
    [windowStart |-> r.start - Window, windowEnd |-> r.start,
     hitRate |-> Tier0HitRate(r.samples), uptime |-> AgentUptime(r.samples),
     latency |-> LatencyHistogram(Latencies(r.recalls)),
     series |-> Tier0Series(r.samples),
     samples |-> r.samples, missed |-> r.missed, tears |-> r.tears]

\* Events of the window that were given to the log, less those read from it.
Missed(type, start) ==
    Cardinality(Wanted(attempts, type, start)) - Cardinality(Wanted(log, type, start))

ReportStarts ==
    /\ report.stage = "idle" /\ reports < MaxReports
    /\ reports' = reports + 1
    /\ report' = [IdleReport EXCEPT !.stage = "pauses", !.start = clock]
    /\ UNCHANGED <<clock, logVars, sampling, snapshot>>

\* The pauses have been fetched.
ReadSamples ==
    /\ report.stage = "pauses"
    /\ report' = [report EXCEPT
                    !.stage = "samples",
                    !.samples = FromLog("tier0_sample", report.start),
                    !.missed = Missed("tier0_sample", report.start)]
    /\ UNCHANGED <<clock, logVars, sampling, reports, snapshot>>

\* The log is read again.
ReadRecalls ==
    /\ report.stage = "samples"
    /\ report' = [report EXCEPT
                    !.stage = "burn",
                    !.recalls = FromLog("recall_triggered", report.start),
                    !.missed = @ + Missed("recall_triggered", report.start),
                    !.tears = tears]
    /\ UNCHANGED <<clock, logVars, sampling, reports, snapshot>>

\* The burn history has been fetched.  writeFileSync empties the file first.
Truncate ==
    /\ report.stage = "burn"
    /\ report' = [report EXCEPT !.stage = "writing"]
    /\ snapshot' = Torn
    /\ UNCHANGED <<clock, logVars, sampling, reports>>

WriteSnapshot ==
    /\ report.stage = "writing"
    /\ report' = IdleReport
    /\ snapshot' = SlaSnapshot(report)
    /\ UNCHANGED <<clock, logVars, sampling, reports>>

\* A fetch throws, or the process is gone; a file being written stays torn.
ReportDies ==
    /\ report.stage # "idle"
    /\ report' = IdleReport
    /\ UNCHANGED <<clock, logVars, sampling, reports, snapshot>>

\* A file that does not parse is no snapshot, to the route and the panel.
ReadSlaSnapshot == IF snapshot = Torn THEN NoSnapshot ELSE snapshot

Tier0Chart(series) == IF series = <<>> THEN "no samples" ELSE "balance against target"

\* (share * 100).toFixed(1): the nearest step.
Shown(share) == (2 * Grain * share.hits + share.of) \div (2 * share.of)

\* What the panel says of Tier 0 and recalls: shares, chart and number of samples.
Panel ==
    LET s == ReadSlaSnapshot
    IN  IF s = NoSnapshot THEN [chart |-> "no snapshot yet"]
        ELSE [chart |-> Tier0Chart(s.series), hitRate |-> Shown(s.hitRate),
              uptime |-> Shown(s.uptime), recalls |-> s.latency.count]

Seconds ==
    /\ clock < MaxClock
    /\ clock' = clock + 1
    /\ UNCHANGED <<logVars, sampling, report, reports, snapshot>>

ReportNext ==
    \/ Seconds
    \/ SamplingStarts \/ (\E b \in SampleBalances : LogSample(b)) \/ LogExecutedRecall \/ SamplingEnds
    \/ ReportStarts \/ ReadSamples \/ ReadRecalls \/ Truncate \/ WriteSnapshot \/ ReportDies

\* The burn history and the files, side by side.
bothVars == <<vars, reportVars>>
EitherNext ==
    \/ Next /\ UNCHANGED reportVars
    \/ ReportNext /\ UNCHANGED vars
ReportSpec == Init /\ ReportInit /\ [][EitherNext]_bothVars

-----------------------------------------------------------------------------
\* What a snapshot counted is what the ticks of its window saw, each once and
\* in order; what it missed was lost to appends cut short, two events to each
\* at most: the one cut short and the one glued to it.
CountsTheLog(s) ==
    /\ \A i \in DOMAIN s.samples :
        /\ s.samples[i] \in Range(attempts)
        /\ s.samples[i].at >= s.windowStart
        /\ i > 1 => s.samples[i - 1].at < s.samples[i].at
    /\ s.missed \in 0 .. 2 * s.tears

\* A share is full only when every sample is a hit, and uptime is not below the
\* hit rate while no target is below the floor and every sample has its floor.
SharesAreRight(s) ==
    /\ s.hitRate.hits = s.hitRate.of <=>
        s.samples # <<>> /\ \A e \in Range(s.samples) : e.balance >= e.target
    /\ (\A e \in Range(s.samples) : e.floor # NoFloor /\ e.floor <= e.target)
        => s.hitRate.hits * s.uptime.of <= s.uptime.hits * s.hitRate.of

\* The plotted series starts and ends where the samples do.
SeriesSpans(s) ==
    s.samples # <<>> => Head(s.series).at = Head(s.samples).at
                        /\ Last(s.series).at = Last(s.samples).at

\* On the panel a hit rate of nothing means that fewer than one in 2 * Grain of
\* the samples hit, one in 2000 in the code, unless the chart says that there are
\* no samples ("insufficient data"); one of everything, that no more missed.
RoundNumbersAreNear ==
    Panel.chart = "balance against target" =>
        LET all == DOMAIN snapshot.samples
            hits == {i \in all : snapshot.samples[i].balance >= snapshot.samples[i].target}
        IN  /\ Panel.hitRate = 0 => 2 * Grain * Cardinality(hits) < Cardinality(all)
            /\ Panel.hitRate = Grain => 2 * Grain * Cardinality(all \ hits) <= Cardinality(all)

SnapshotIsTrue ==
    LET s == ReadSlaSnapshot
    IN  /\ s # NoSnapshot => CountsTheLog(s) /\ SharesAreRight(s) /\ SeriesSpans(s)
        /\ RoundNumbersAreNear

\* What the reporter publishes, of the model's errors, of latencies, of series and
\* of the samples in the log, is what it says it is: whatever the burns, whatever
\* was cut short, and whoever reads or writes the files meanwhile.
ReportIsHonest == StatisticsHold /\ SnapshotIsTrue
=============================================================================
