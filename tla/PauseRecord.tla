---------------------------- MODULE PauseRecord ----------------------------
(***************************************************************************)
(* What the keeper and the dashboard make of the events health-monitor     *)
(* emits: the dashboard's replay (pauseHistoryState.ts, pauseHistory.ts),  *)
(* its countdown (healthMonitor.ts), and the reporter's pairing and        *)
(* statistics (reporterLoop.ts, reporter.ts).  The contract's actions are  *)
(* HealthMonitor's, each with the event it publishes.                      *)
(***************************************************************************)
EXTENDS HealthMonitor, Sequences, SequencesExt, FiniteSetsExt

CONSTANTS
    MaxEvents,      \* bound: events published
    Lookback,       \* LOOKBACK_LEDGERS: how far back getEvents is asked
    LedgerSeconds,  \* SECONDS_PER_LEDGER_APPROX: what the reporter takes a ledger to last
    Margin,         \* the ledgers the reporter asks for on top
    Paces,          \* what a ledger may really last, over a reporter's lookback
    Retention       \* ledgers the RPC is sure to remember; the rest comes and goes

ASSUME LookbackAssumption == Lookback \in Nat /\ MaxEvents \in Nat /\ None \notin Nat
ASSUME ReporterAssumption ==
    /\ LedgerSeconds \in Nat \ {0} /\ Margin \in Nat /\ Retention \in Nat
    /\ Paces \subseteq Nat \ {0}

VARIABLES
    events,    \* events published, oldest first
    pausedAt,  \* history: instants at which status() was true
    quirks     \* history: the unusual turns taken: "extension", "retrigger",
               \*   "late resume"

recordVars == <<vars, events, pausedAt, quirks>>

RecordInit == Init /\ events = <<>> /\ pausedAt = {} /\ quirks = {}

\* `quirk`, when the condition holds, is what the call adds to the history.
Publish(type, expiry, quirk, condition) ==
    /\ Len(events) < MaxEvents
    /\ events' = Append(events, [type |-> type, at |-> now, expiry |-> expiry])
    /\ quirks' = IF condition THEN quirks \cup {quirk} ELSE quirks
    /\ UNCHANGED pausedAt

RosterChange(a) ==
    /\ \/ \E gs \in SUBSET Accounts : InitGuardians(a, gs)
       \/ \E g \in Accounts : AddGuardian(a, g) \/ RemoveGuardian(a, g)
    /\ UNCHANGED <<events, pausedAt, quirks>>

RecordTick ==
    /\ Tick
    /\ pausedAt' = IF Status THEN pausedAt \cup {now} ELSE pausedAt
    /\ UNCHANGED <<events, quirks>>

RecordPause(g) ==
    /\ now <= LastPauseTime
    /\ Pause(g) /\ Publish("paused", pause'.pauseExpiry, "retrigger", Status)
RecordResume(a) == ResumeEarly(a) /\ Publish("resumed", 0, "late resume", ~Status)
RecordExtend(a) == Extend(a) /\ Publish("extended", pause'.pauseExpiry, "extension", TRUE)

RecordNext ==
    \/ RecordTick
    \/ \E a \in Accounts :
          RosterChange(a) \/ RecordPause(a) \/ RecordResume(a) \/ RecordExtend(a)

RecordSpec == RecordInit /\ [][RecordNext]_recordVars

-----------------------------------------------------------------------------
\* The dashboard's replay: episodes so far, the last of them open or not.
OpenEpisode(e) ==
    [pausedAt |-> e.at, resolution |-> "active", resolvedAt |-> None,
     extensions |-> 0, expiry |-> e.expiry]

Resolve(episode, how, at) == [episode EXCEPT !.resolution = how, !.resolvedAt = at]

\* Mutant of Retriggered: a lapsed episode cut off by the new pause.
RetriggeredLate(episode, at) == Resolve(episode, "superseded", at)
Retriggered(episode, at) ==
    IF episode.expiry <= at
    THEN Resolve(episode, "auto_expired", episode.expiry)
    ELSE Resolve(episode, "superseded", at)

Extended(episode, expiry) ==
    [episode EXCEPT !.expiry = expiry, !.extensions = episode.extensions + 1]

WithLast(s, x) == [s EXCEPT ![Len(s)] = x]

ReplayStep(acc, e) ==
    LET last == Last(acc.episodes)
        past == IF acc.open THEN WithLast(acc.episodes, Retriggered(last, e.at))
                            ELSE acc.episodes
    IN  CASE e.type = "paused" ->
               [episodes |-> Append(past, OpenEpisode(e)), open |-> TRUE]
          [] e.type = "extended" /\ acc.open ->
               [episodes |-> WithLast(acc.episodes, Extended(last, e.expiry)), open |-> TRUE]
          [] e.type = "resumed" /\ acc.open ->
               [episodes |-> WithLast(acc.episodes, Resolve(last, "resumed_early", e.at)),
                open |-> FALSE]
          [] OTHER -> acc

\* Mutant of Lapsed: an episode still open at its own expiry.
LapsedLate(episode, t) == episode.expiry < t
Lapsed(episode, t) == episode.expiry <= t

\* getEvents answers with the events since `from`; they are replayed in order.
Replay(evts, from) ==
    LET replayed[k \in 0 .. Len(evts)] ==
          IF k = 0 THEN [episodes |-> <<>>, open |-> FALSE]
          ELSE IF evts[k].at < from THEN replayed[k - 1]
          ELSE ReplayStep(replayed[k - 1], evts[k])
    IN  replayed[Len(evts)]

\* Oldest first, the last one closed if it has lapsed by itself.
Episodes(evts, from, t) ==
    LET replay == Replay(evts, from)
        last == Last(replay.episodes)
    IN  IF replay.open /\ Lapsed(last, t)
        THEN WithLast(replay.episodes, Resolve(last, "auto_expired", last.expiry))
        ELSE replay.episodes

ReconstructPauseHistory(from, t) == Reverse(Episodes(events, from, t))

\* The duration a row of the incidents page shows.
DurationShown(episode, t) ==
    (IF episode.resolvedAt = None THEN t ELSE episode.resolvedAt) - episode.pausedAt

\* The reporter's pairing: paused and resumed events only.
PairStep(acc, e) ==
    CASE e.type = "paused" ->
           Append(acc, [pausedAt |-> e.at, expiry |-> e.expiry, resumedAt |-> None])
      [] e.type = "resumed" /\ acc # <<>> ->
           IF Last(acc).resumedAt = None
           THEN WithLast(acc, [Last(acc) EXCEPT !.resumedAt = e.at]) ELSE acc
      [] OTHER -> acc
PairPauseEvents(evts, from) ==
    LET paired[k \in 0 .. Len(evts)] ==
          IF k = 0 THEN <<>>
          ELSE IF evts[k].at < from THEN paired[k - 1]
          ELSE PairStep(paired[k - 1], evts[k])
    IN  paired[Len(evts)]

\* The window of the report goes back to `from`; the request, in ledgers.
LedgersAsked(from, t) == (t - from + LedgerSeconds - 1) \div LedgerSeconds + Margin
FirstAsked(from, t, pace) == t - LedgersAsked(from, t) * pace

\* What fetchPauseEvents may return: everything since the first ledger asked
\* for or, when the RPC no longer remembers it, nothing.  (It may also refuse,
\* and then there is no report.)
FetchPauseEvents(from, t, pace) ==
    {PairPauseEvents(events, FirstAsked(from, t, pace))}
        \cup {x \in {<<>>} : LedgersAsked(from, t) > Retention}

RealEnd(p) == IF p.resumedAt = None THEN p.expiry ELSE p.resumedAt

\* Mutant of CountedSpan: a pause that is still open is counted to its expiry.
CountedSpanOpen(p, from, to) ==
    LET start == Max({p.pausedAt, from})
    IN  IF RealEnd(p) <= start THEN 0 ELSE RealEnd(p) - start

\* What of one pause computePauseStats counts between `from` and `to`.
CountedSpan(p, from, to) ==
    LET start == Max({p.pausedAt, from})
        end == Min({RealEnd(p), to})
    IN  IF end <= start THEN 0 ELSE end - start

SumOver(Value(_), s) ==
    FoldFunction(LAMBDA x, y : x + y, 0, [i \in DOMAIN s |-> Value(s[i])])

\* A pause of which nothing is inside is not counted.
ComputePauseStats(pauses, from, to) ==
    LET Span(p) == CountedSpan(p, from, to)
    IN  [pauseCount |-> Cardinality({i \in DOMAIN pauses : Span(pauses[i]) > 0}),
         total |-> SumOver(Span, pauses)]

-----------------------------------------------------------------------------
\* The incidents page shows an active episode exactly while status() is true,
\* unless the pause began before the lookback.  Replayed over the whole record,
\* its durations add up to the time status() was true, re-triggers and
\* extensions included; only the release of a pause that had lapsed by itself
\* breaks the sum.
ReplayIsTrue ==
    LET since == now - Lookback
        shown == ReconstructPauseHistory(since, now)
        active == shown # <<>> /\ shown[1].resolution = "active"
        Duration(ep) == DurationShown(ep, now)
    IN  /\ active => Status
        /\ Status => \/ active
                     \/ \E i \in DOMAIN events : events[i].type = "paused" /\ events[i].at < since
        /\ "late resume" \notin quirks =>
             SumOver(Duration, Episodes(events, 0, now)) = Cardinality(pausedAt)

\* Without extensions, re-triggers and late releases the reporter's total is
\* never more than the paused time inside the window, whatever a ledger really
\* lasts and whatever the RPC forgets.  It is the paused time since the first
\* ledger asked for, the whole of the window if that lies before it, when the
\* RPC remembers that far and no pause straddles that ledger.
PauseStatsExact ==
    quirks = {} =>
        \A from \in 0 .. now, pace \in Paces :
            LET first == FirstAsked(from, now, pace)
                seen == {t \in pausedAt : t >= from /\ t >= first}
            IN  \A pauses \in FetchPauseEvents(from, now, pace) :
                    LET total == ComputePauseStats(pauses, from, now).total
                    IN  /\ total <= Cardinality(seen)
                        /\ first - 1 \notin pausedAt /\ LedgersAsked(from, now) <= Retention =>
                             total = Cardinality(seen)

=============================================================================
