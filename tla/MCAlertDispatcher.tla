------------------------- MODULE MCAlertDispatcher -------------------------
\* Two trusted nodes, both needed, and a stranger; one update 20% away from one
\* of the two quotes.  The window is shorter than the behaviour, so a group
\* expires and its late notifications reach the quorum again, and so is the
\* lookback, so a pause can be too old for a tick that comes late.
\* The run is the union of two, told apart by `focus`: two pauses and nothing else
\* that is told; and an update handed over at most once, beside a recall and the
\* moves of the level.
EXTENDS AlertDispatcher, TLC

VARIABLE focus

CONSTANTS n1, n2, stranger, update

MCPriceOf == update :> 120
MCLevels == <<0, 1, 0>>
MCConfigs == {[pause |-> {"slack"}, recall |-> {"webhook"}, level |-> {"slack", "pagerduty"}]}

MCSpec ==
    /\ focus \in {"pauses", "others"} /\ PipelineInit
    /\ [][ /\ PipelineNext
           /\ focus = "pauses" => UNCHANGED <<recalls, moves>>
           /\ focus = "others" /\ handed[update] # None => UNCHANGED <<groups, heard>>
           /\ UNCHANGED focus ]_<<pipelineVars, focus>>
    /\ WF_pipelineVars(TickStep)
=============================================================================
