--------------------------- MODULE MCPauseRecord ---------------------------
\* A pause of three clock ticks stands for 24 hours: two pauses and an
\* extension fit before LastPauseTime and the lapse of the last one after it.
\* Lookback is shorter than the behaviour, so events drop out of the record.
\* The run is the union of three, told apart by `focus`: the record with the
\* panel left alone; the panel read while pauses come and go, with one event
\* less; and its buttons, after one pause at most and on a clock that outlives a
\* pause by three, while guardians come and go.
EXTENDS GuardianPanel

CONSTANTS a1, a2

VARIABLE focus

\* One guardian and one admin.
Settled ==
    /\ now = 0 /\ admin = a2 /\ guardians = {a1} /\ trippedAt = 0 /\ quirks = {}

MCInit ==
    /\ PanelInit
    /\ \/ focus = "record" /\ RecordInit
       \/ /\ focus \in {"read", "buttons"} /\ Settled
          /\ pause = None /\ events = <<>> /\ pausedAt = {}

MCNext ==
    /\ UNCHANGED focus
    /\ \/ focus = "record" /\ RecordNext /\ UNCHANGED guardianVars
       \/ /\ focus = "read" /\ PanelNext /\ UNCHANGED <<clicks, guardians>>
          /\ Len(events') < MaxEvents
       \/ /\ focus = "buttons" /\ PanelNext /\ now' <= MaxPauseDuration + 3
          /\ events' # events =>
               (\E c \in Calls : sent'[c] # sent[c]) \/ (clicks = 0 /\ events = <<>>)

MCSpec == MCInit /\ [][MCNext]_<<panelVars, focus>>
=============================================================================
