--------------------------- MODULE GuardianPanel ---------------------------
(***************************************************************************)
(* The dashboard's guardian panel over the monitor: a read in two parts    *)
(* that yields the status and the countdown (healthMonitor.ts), and the    *)
(* pause and resume buttons, whose transaction a wallet signs and the      *)
(* browser sends (healthMonitorActions.ts, actionError.ts).  The wallet    *)
(* and the generated client are modelled by the outcomes the code tells    *)
(* apart.                                                                  *)
(***************************************************************************)
EXTENDS PauseRecord

CONSTANT MaxClicks  \* bound: clicks on the two buttons

ASSUME ClicksAssumption == MaxClicks \in Nat

Calls == 1 .. MaxClicks

VARIABLES
    reading,  \* the read under way: status, and expiry once the events were read
    panel,    \* what is shown.  History, in both: quiet, no call since status
    clicks,
    busy,     \* how far the click under way is, or "idle"
    sent,     \* for each click its call, and what became of the transaction
    toast     \* the last toast

guardianVars == <<reading, panel, clicks, busy, sent, toast>>
panelVars == <<recordVars, guardianVars>>

PanelInit ==
    /\ reading = None /\ panel = None
    /\ clicks = 0 /\ busy = "idle"
    /\ sent = [c \in Calls |-> [op |-> None, by |-> None, fate |-> "unsent"]]
    /\ toast = None

-----------------------------------------------------------------------------
\* The pauses getEvents still answers with.
PausesSeen == {i \in DOMAIN events : events[i].type = "paused" /\ events[i].at >= now - Lookback}

\* Mutant of LatestPauseExpiry: the first event of the lookback.
LatestPauseExpiryFirst == IF PausesSeen = {} THEN None ELSE events[Min(PausesSeen)].expiry

\* fetchLatestPauseExpiry: extensions publish an event it does not ask for.
LatestPauseExpiry == IF PausesSeen = {} THEN None ELSE events[Max(PausesSeen)].expiry

\* fetchGuardianPanelData; a reload drops the read under way.
ReadStatus ==
    /\ reading' = [paused |-> Status, asked |-> ~Status, expiry |-> None, quiet |-> TRUE]
    /\ UNCHANGED <<panel, clicks, busy, sent, toast>>

ReadExpiry ==
    /\ reading # None /\ ~reading.asked
    /\ reading' = [reading EXCEPT !.asked = TRUE, !.expiry = LatestPauseExpiry]
    /\ UNCHANGED <<panel, clicks, busy, sent, toast>>

ShowPanel ==
    /\ reading # None /\ reading.asked
    /\ panel' = reading
    /\ reading' = None
    /\ UNCHANGED <<clicks, busy, sent, toast>>

\* What is shown stays.
ReadingFails ==
    /\ reading # None
    /\ reading' = None
    /\ UNCHANGED <<panel, clicks, busy, sent, toast>>

Reading == ReadStatus \/ ReadExpiry \/ ShowPanel \/ ReadingFails

-----------------------------------------------------------------------------
\* A button is there for the status shown, and one click is served at a time.
Click(op, by) ==
    /\ busy = "idle" /\ clicks < MaxClicks
    /\ panel # None /\ panel.paused = (op = "resume")
    /\ clicks' = clicks + 1
    /\ busy' = "simulate"
    /\ sent' = [sent EXCEPT ![clicks'] = [op |-> op, by |-> by, fate |-> "unsent"]]
    /\ UNCHANGED <<reading, panel, toast>>

\* What the contract would answer to a call, as things are.
Allowed(c) ==
    IF sent[c].op = "pause" THEN sent[c].by \in guardians
    ELSE admin = sent[c].by /\ pause # None

\* The error classes of the generated client, as far as their order goes.
WalletErrors == {"rejected", "internal", "external", "invalid", "more signatures"}

\* Mutant of Title: a wallet that fails is not told from one that sent.
TitleBlurred(error) == IF error = "lost" THEN "Simulation failed" ELSE "Transaction failed"

\* describeActionError.
Title(error) ==
    CASE error = "rejected" -> "Signing cancelled"
      [] error = "internal" -> "Wallet error"
      [] error = "external" -> "Wallet network error"
      [] error = "invalid" -> "Invalid request"
      [] error = "more signatures" -> "More signatures required"
      [] error = "simulation" -> "Simulation failed"
      [] OTHER -> "Transaction failed"

\* catch and finally: the toast, and the button comes back.
Fails(error) ==
    /\ toast' = [click |-> clicks, title |-> Title(error), status |-> None]
    /\ busy' = "idle"

Simulate ==
    /\ busy = "simulate"
    /\ IF Allowed(clicks)
       THEN busy' = "sign" /\ UNCHANGED toast
       ELSE Fails("simulation")
    /\ UNCHANGED <<reading, panel, clicks, sent>>

Sign ==
    /\ busy = "sign"
    /\ \/ busy' = "send" /\ UNCHANGED toast
       \/ \E error \in WalletErrors : Fails(error)
    /\ UNCHANGED <<reading, panel, clicks, sent>>

Fated(c, fate) == [sent EXCEPT ![c].fate = fate]

\* The request may be refused, lost on its way, or its answer lost.
Send ==
    /\ busy = "send"
    /\ \/ busy' = "poll" /\ sent' = Fated(clicks, "sent") /\ UNCHANGED toast
       \/ Fails("lost") /\ sent' \in {sent, Fated(clicks, "sent")}
    /\ UNCHANGED <<reading, panel, clicks>>

\* The answer of the last poll: a status, whichever it is, or none in time.
\* A status is a success for the panel, FAILED included, and reloads it.
Answer ==
    /\ busy = "poll"
    /\ \/ /\ sent[clicks].fate \in {"SUCCESS", "FAILED"}
          /\ toast' = [click |-> clicks, title |-> "submitted", status |-> sent[clicks].fate]
          /\ busy' = "idle"
          /\ reading' = None
       \/ Fails("lost") /\ UNCHANGED reading
    /\ UNCHANGED <<panel, clicks, sent>>

Button ==
    \/ \E op \in {"pause", "resume"}, a \in Accounts : Click(op, a)
    \/ Simulate \/ Sign \/ Send \/ Answer

-----------------------------------------------------------------------------
\* Each call of the contract ends the quiet of what was read before it.
Disturbed(read) == IF read = None THEN None ELSE [read EXCEPT !.quiet = FALSE]
Disturb == reading' = Disturbed(reading) /\ panel' = Disturbed(panel)

\* A sent transaction lands, is refused on chain, or is dropped.
Execute(c) ==
    IF sent[c].op = "pause" THEN RecordPause(sent[c].by) ELSE RecordResume(sent[c].by)
Lands(c) ==
    /\ sent[c].fate = "sent"
    /\ \/ Execute(c) /\ sent' = Fated(c, "SUCCESS") /\ Disturb
       \/ /\ sent' = Fated(c, "dropped") \/ (~Allowed(c) /\ sent' = Fated(c, "FAILED"))
          /\ UNCHANGED <<recordVars, reading, panel>>
    /\ UNCHANGED <<clicks, busy, toast>>

\* The contract is called from elsewhere, and the clock runs.
Elsewhere ==
    \/ RecordTick /\ UNCHANGED guardianVars
    \/ /\ \E a \in Accounts : RosterChange(a) \/ RecordPause(a) \/ RecordResume(a) \/ RecordExtend(a)
       /\ Disturb
       /\ UNCHANGED <<clicks, busy, sent, toast>>

PanelNext ==
    \/ (Reading \/ Button) /\ UNCHANGED recordVars
    \/ \E c \in Calls : Lands(c)
    \/ Elsewhere

PanelSpec == RecordInit /\ PanelInit /\ [][PanelNext]_panelVars

-----------------------------------------------------------------------------
\* The countdown, put together from two reads, is the pause's: while the
\* contract is not called, the pause lasts as long as the countdown runs, and
\* ends with it unless it had been extended, in which case it lasts longer.
CountdownIsTrue ==
    panel # None /\ panel.quiet /\ panel.paused /\ panel.expiry # None =>
        /\ now < panel.expiry => Status
        /\ Status /\ pause.extensionsUsed = 0 => now < panel.expiry

\* A toast that says where a click came to nothing, in the wallet or in the
\* simulation, is right: no transaction was sent, so none lands behind it.
\* What may still land is announced as submitted or as "Transaction failed".
ToastIsTrue ==
    toast # None =>
        /\ toast.title \notin {"submitted", "Transaction failed"} => sent[toast.click].fate = "unsent"
        /\ toast.status # None => sent[toast.click].fate = toast.status

\* What the panel tells an operator holds.
GuardianPanelIsTrue == CountdownIsTrue /\ ToastIsTrue
=============================================================================
