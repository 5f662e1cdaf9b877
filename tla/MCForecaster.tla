---------------------------- MODULE MCForecaster ----------------------------
\* Half-lives of one and two hours stand for six hours and seven days, and two
\* hours of sustained decline for 24; the history holds three hours, so old
\* hours drop out while the clock of a decline runs.
\* The run is the union of two, told apart by `focus`: the forecaster's ticks
\* with the files left alone, and the files with the burn history left alone.
EXTENDS SlaReport

VARIABLE focus

MCInit == focus \in {"ticks", "files"} /\ Init /\ ReportInit

MCNext ==
    /\ UNCHANGED focus
    /\ \/ focus = "ticks" /\ Next /\ UNCHANGED reportVars
       \/ focus = "files" /\ ReportNext /\ UNCHANGED vars

MCSpec ==
    /\ MCInit /\ [][MCNext]_<<vars, reportVars, focus>>
    /\ WF_vars(focus = "ticks" /\ SizingStep) /\ WF_vars(LateWrite)
=============================================================================
