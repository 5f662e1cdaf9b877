----------------------------- MODULE MCSentinel -----------------------------
\* Utilization below, between and above the thresholds; two configurations of
\* the sentinel's own key whose thresholds disagree about 9500, so that what a
\* tick read may be out of date when it lands; a second key that takes over.
\* No venue: positions play no part here.
EXTENDS Sentinel

CONSTANTS k1, k2

Config(keeper, floor, pre, full) ==
    [keeper |-> keeper, boundsMin |-> 0, boundsMax |-> 0,
     criticalFloor |-> floor, tvlCap |-> 1,
     preemptiveUtil |-> pre, fullDrainUtil |-> full]

MCConfigs == {Config(k1, 1, 8000, 9000), Config(k2, 0, 9400, 9600)}
=============================================================================
