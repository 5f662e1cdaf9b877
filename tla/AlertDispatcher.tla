-------------------------- MODULE AlertDispatcher --------------------------
(***************************************************************************)
(* keeper/src/alertDispatcherLoop.ts and alertDispatcher.ts behind the     *)
(* webhook: a tick loads the dashboard's alerts config and its own marks,  *)
(* alerts on the pauses, recalls and level changes it finds past them, and *)
(* saves the marks at the end.  Pauses are those the webhook triggers.     *)
(***************************************************************************)
EXTENDS ReflectorWebhook, FiniteSetsExt

CONSTANTS
    Levels,        \* the levels (SystemState) the engine goes through, in order
    LedgerSeconds, \* SECONDS_PER_LEDGER_APPROX
    Margin,        \* the ledgers asked for beyond those
    Lookback,      \* MAX_LOOKBACK_LEDGERS
    Paces,         \* seconds a ledger may really take
    Configs,       \* alerts configs: routed destinations by type of event
    MaxRecalls     \* bound: recalls in the metrics log

ASSUME MarksAssumption == MaxPauses \in Nat /\ MaxRecalls \in Nat
ASSUME LookbackAssumption ==
    /\ LedgerSeconds \in Nat \ {0} /\ Margin \in Nat /\ Lookback \in Nat
    /\ Paces \subseteq Nat \ {0}

VARIABLES
    moves,     \* level changes so far
    recalls,   \* timestamps of recall_triggered in the metrics log
    config,    \* the alerts config file, or None
    file,      \* the state file: DispatcherState
    tick,      \* the running tick: its step, config, state and queue
    tried,     \* history: how often each pause and recall was dispatched
    reached,   \* history: pauses of which some destination took an alert
    leftOut,   \* history: pauses a tick asked for too few ledgers to see
    believed,  \* history: the level a reader of the alerts believes in
    unheard,   \* history: no destination took the last alert of a level
    blind      \* history: a change was lost with the state file, or is Masked

dispatcherVars ==
    <<moves, recalls, config, file, tick, tried, reached, leftOut, believed, unheard, blind>>
pipelineVars == <<webhookVars, dispatcherVars>>
pauseVars == <<tried, reached, leftOut>>
levelVars == <<believed, unheard, blind>>
seenVars == <<pauseVars, levelVars>>

NoMarks == [pause |-> 0, recall |-> 0, level |-> None]
Idle == [step |-> "idle", config |-> None, state |-> NoMarks, queue |-> {}]
Level == Levels[moves + 1]

PipelineInit ==
    /\ WebhookInit
    /\ moves = 0
    /\ recalls = <<>>
    /\ config = None
    /\ file = NoMarks
    /\ tick = Idle
    /\ tried = [pause |-> [i \in 1 .. MaxPauses |-> 0],
                recall |-> [i \in 1 .. MaxRecalls |-> 0]]
    /\ reached = {} /\ leftOut = {}
    /\ believed = None
    /\ unheard = FALSE /\ blind = FALSE

-----------------------------------------------------------------------------
\* dispatchAlert: every routed destination gets one POST, and any of them may
\* fail, whatever becomes of the others.  The sets of those that took the alert:
\* the loop does not look at them, and tries nothing again.
Dispatch(type) == SUBSET tick.config[type]

TellOne(type, i) == tried' = [tried EXCEPT ![type][i] = @ + 1]

\* Indices of `times` past the mark and not older than `from`; they are taken
\* oldest first, which is in order, for times are logged in order.
Past(times, mark, from) ==
    {i \in DOMAIN times : times[i] > mark /\ times[i] >= from}

\* Without a config the tick returns before it looks at anything.
TickStarts ==
    /\ tick.step = "idle"
    /\ config # None
    /\ tick' = [step |-> "events", config |-> config, state |-> file, queue |-> {}]
    /\ UNCHANGED <<webhookVars, moves, recalls, config, file, seenVars>>

\* fetchNewPauseEvents asks for the ledgers since the mark, were each of them
\* LedgerSeconds long, and a margin, but for Lookback at most: what an RPC is
\* taken to remember.
LedgersBack(seconds) ==
    LET back == (seconds + LedgerSeconds - 1) \div LedgerSeconds + Margin
    IN  IF back > Lookback THEN Lookback ELSE back

\* It sees ledgers that have closed: those before `now`.
Closed(times) == {i \in DOMAIN times : times[i] < now}

FetchPauses ==
    /\ tick.step = "events"
    /\ \E pace \in Paces :
        LET new == Closed(pauses) \cap Past(pauses, tick.state.pause, 0)
            from == now - LedgersBack(now - tick.state.pause) * pace
            seen == new \cap Past(pauses, tick.state.pause, from)
        IN  /\ tick' = [tick EXCEPT !.step = "pauses", !.queue = seen]
            /\ leftOut' = leftOut \cup (new \ seen)
    /\ UNCHANGED <<webhookVars, moves, recalls, config, file, tried, reached, levelVars>>

\* Mutant of PauseMark: the clock instead of the event's own time.
PauseMarkNow(i) == now
PauseMark(i) == pauses[i]

TellPause ==
    /\ tick.step = "pauses" /\ tick.queue # {}
    /\ LET i == Min(tick.queue) IN
       /\ TellOne("pause", i)
       /\ \E took \in Dispatch("pause") :
            reached' = IF took = {} THEN reached ELSE reached \cup {i}
       /\ tick' = [tick EXCEPT !.state.pause = PauseMark(i), !.queue = @ \ {i}]
    /\ UNCHANGED <<webhookVars, moves, recalls, config, file, leftOut, levelVars>>

ReadLog ==
    /\ tick.step = "pauses" /\ tick.queue = {}
    /\ tick' = [tick EXCEPT !.step = "recalls",
                            !.queue = Past(recalls, tick.state.recall, 0)]
    /\ UNCHANGED <<webhookVars, moves, recalls, config, file, seenVars>>

TellRecall ==
    /\ tick.step = "recalls" /\ tick.queue # {}
    /\ LET i == Min(tick.queue) IN
       /\ TellOne("recall", i)
       /\ tick' = [tick EXCEPT !.state.recall = recalls[i], !.queue = @ \ {i}]
    /\ UNCHANGED <<webhookVars, moves, recalls, config, file, reached, leftOut, levelVars>>

\* Mutant of Changed: only a rise is told.
ChangedUp(known) == known < Level
Changed(known) == known # Level

\* RiskEngine.state() is read; a change from the level on file is told, and is
\* on file from then on whether any destination took the alert or none.
TellLevel ==
    /\ tick.step = "recalls" /\ tick.queue = {}
    /\ tick' = [tick EXCEPT !.step = "save", !.state.level = Level]
    /\ IF tick.state.level = None
       THEN /\ blind' = (blind \/ believed \notin {None, Level})
            /\ believed' = IF believed = None THEN Level ELSE believed
            /\ UNCHANGED unheard
       ELSE /\ \E took \in Dispatch("level") :
                IF Changed(tick.state.level)
                THEN /\ unheard' = (took = {})
                     /\ believed' = IF took = {} THEN believed ELSE Level
                ELSE UNCHANGED <<believed, unheard>>
            /\ UNCHANGED blind
    /\ UNCHANGED <<webhookVars, moves, recalls, config, file, pauseVars>>

\* Mutant of SaveState: the marks are kept in memory only.
SaveStateNever ==
    /\ tick.step = "save"
    /\ file' = file
    /\ tick' = Idle
    /\ UNCHANGED <<webhookVars, moves, recalls, config, seenVars>>

SaveState ==
    /\ tick.step = "save"
    /\ file' = tick.state
    /\ tick' = Idle
    /\ UNCHANGED <<webhookVars, moves, recalls, config, seenVars>>

\* History: the level is back at the one on file when the alert of another was
\* sent by a tick that never saved it; no later tick sees a change to tell.
Masked(level) == ~unheard /\ believed # file.level /\ level = file.level

\* An RPC call throws or the process dies: nothing of the tick is saved; a
\* write cut short leaves a file that reads as no marks at all.
DispatcherDies ==
    /\ tick.step # "idle"
    /\ faults < MaxFaults
    /\ faults' = faults + 1
    /\ tick' = Idle
    /\ \/ blind' = (blind \/ Masked(Level)) /\ UNCHANGED file
       \/ tick.step = "save" /\ file' = NoMarks /\ UNCHANGED blind
    /\ UNCHANGED <<now, trackerVars, handlerVars, pauses, moves, recalls, config,
                   pauseVars, believed, unheard>>

\* The dashboard writes the config; the forecaster logs a recall, dated when its
\* tick began; the engine's level moves.
WriteConfig(c) ==
    /\ config' = c
    /\ UNCHANGED <<webhookVars, moves, recalls, file, tick, seenVars>>

LogRecall ==
    /\ Len(recalls) < MaxRecalls
    /\ \E began \in {now - 1, now} :
        /\ \A i \in DOMAIN recalls : recalls[i] < began
        /\ recalls' = Append(recalls, began)
    /\ UNCHANGED <<webhookVars, moves, config, file, tick, seenVars>>

LevelMoves ==
    /\ moves < Len(Levels) - 1
    /\ moves' = moves + 1
    /\ blind' = (blind \/ (tick.step # "save" /\ Masked(Levels[moves + 2])))
    /\ UNCHANGED <<webhookVars, recalls, config, file, tick, pauseVars, believed, unheard>>

TickStep ==
    \/ TickStarts \/ FetchPauses \/ TellPause \/ ReadLog \/ TellRecall
    \/ TellLevel \/ SaveState

PipelineNext ==
    \/ WebhookNext /\ UNCHANGED dispatcherVars
    \/ TickStep
    \/ DispatcherDies
    \/ \E c \in Configs : WriteConfig(c)
    \/ LogRecall
    \/ LevelMoves

PipelineSpec == PipelineInit /\ [][PipelineNext]_pipelineVars

\* main() runs ticks in an endless loop that catches what a tick throws.
FairPipelineSpec == PipelineSpec /\ WF_pipelineVars(TickStep)

-----------------------------------------------------------------------------
\* The mark on file passes a pause only when a tick dispatched it, or saw too few
\* ledgers to know of it: no start, death, order of the ticks or of the ledgers
\* makes the dispatcher skip one.
PassedWasTried ==
    \A i \in DOMAIN pauses :
        file.pause >= pauses[i] => tried.pause[i] > 0 \/ i \in leftOut

\* Every pause in a closed ledger, while there is a config, in the end reaches a
\* destination, or is given up in one of the two ways the code has: a tick asked
\* for too few ledgers, or none of its POSTs succeeded and the mark is past it.
GivenUp(i) == i \in leftOut \/ (tried.pause[i] > 0 /\ file.pause >= pauses[i])
EachPauseTold ==
    \A i \in 1 .. MaxPauses :
        (i \in Closed(pauses) /\ config # None) ~> (i \in reached \/ GivenUp(i))

\* An alert is dispatched again only by a tick after one that died before its save,
\* or lost the file: never more often than there were such faults.
RepeatsAreFaults ==
    /\ \A i \in 1 .. MaxPauses : tried.pause[i] <= 1 + faults
    /\ \A i \in 1 .. MaxRecalls : tried.recall[i] <= 1 + faults

\* Once the level stays, the level a reader of the alerts believes in is the level:
\* no missed tick or crash leaves an operator with a wrong one for good, short of
\* three: no destination took the last alert, which nothing sends again; the loss of
\* the state file; and a crash between an alert and its save, before or after
\* which the level moves back to the one on file.
LevelIsTold == <>[](config = None \/ unheard \/ blind \/ believed = Level)
=============================================================================
