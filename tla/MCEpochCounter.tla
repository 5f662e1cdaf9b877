--------------------------- MODULE MCEpochCounter ---------------------------
\* What a policy keeps for a rule, in two halves that share no step: the spend
\* counter, and the drill that has a rule and its policy removed.
\* Three valid configurations whose epochs differ in length, so that the
\* counter of one may carry the index of an epoch of another, and two
\* that install refuses.  A ledger closes hastily, at a brisk pace, or in time.
EXTENDS EpochCounter, SelfRescue

VARIABLE half  \* the half a behaviour is about

Cfg(call, cap, length) ==
    [perCallCap |-> call, epochCap |-> cap, epochLength |-> length]

MCConfigs == {Cfg(2, 3, 7), Cfg(1, 2, 5), Cfg(2, 2, 4), Cfg(2, 1, 5), Cfg(1, 1, 0)}

MCInit == CounterInit /\ RescueInit /\ half \in {"counter", "drill"}
MCNext ==
    \/ half = "counter" /\ CounterNext /\ UNCHANGED <<half, rescueVars>>
    \/ half = "drill" /\ RescueNext /\ UNCHANGED <<half, counterVars>>
MCSpec == MCInit /\ [][MCNext]_<<counterVars, rescueVars, half>>
=============================================================================
