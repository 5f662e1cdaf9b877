--------------------------- MODULE MCAlertsPanel ----------------------------
\* Two valid configurations and one that is refused.  A session and its cookie
\* live one tick and a challenge dies within the tick it was issued in, so all
\* of them expire.
\* The run is the union of two, told apart by `focus`: roles that change and time
\* that passes, with at most one write of the file; and an admin who stays one
\* for all the time there is, with two.
EXTENDS AlertsPanel

VARIABLE focus

Unserving == {p \in puts : p.answer = Unserved}

MCSpec ==
    /\ focus \in {"sessions", "writers"} /\ Init
    /\ focus = "writers" => held = {"admin"}
    /\ [][ /\ Next
           /\ focus = "sessions" => /\ file'.version + Cardinality(Unserving') < MaxWrites
                                    /\ draft' # draft => \E p \in puts : SettlePut(p)
           /\ focus = "writers" => UNCHANGED chainVars
           /\ UNCHANGED focus ]_<<vars, focus>>
    /\ FairRequests
=============================================================================
