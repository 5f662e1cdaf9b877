-------------------------- MODULE MCCircuitBreaker --------------------------
\* Two prices 2000 bps apart, inside the TWAP band: two feeds agree, differ
\* and are rescued by a TWAP, or differ without one; the clamp stops a lone
\* feed's jump.  The clock allows a feed to go stale and the one-feed window
\* to close.  The guardians are the admin and
\* the router; positions play no part here.
EXTENDS CircuitBreaker

CONSTANTS a1, k1

MCConfigs ==
    {[maxStaleness |-> [f \in {"primary", "secondary"} |-> 1], twapPeriods |-> 1,
      soft |-> 500, hard |-> 2500, maxRoc |-> 1000]}

MCEngineConfigs ==
    {[keeper |-> k1, boundsMin |-> 0, boundsMax |-> 0, criticalFloor |-> 1,
      tvlCap |-> 1, preemptiveUtil |-> 8000, fullDrainUtil |-> 9000]}
=============================================================================
