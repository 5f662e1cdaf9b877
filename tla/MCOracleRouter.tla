--------------------------- MODULE MCOracleRouter ---------------------------
\* Prices 100, 104 and 120: 100/104 agree softly (400 bps), 104/120 fall in
\* the TWAP band (1538 bps), 100/120 diverge hard (2000 bps).  With 4 decimals
\* each rescales to 0, the value for which divergence is undefined.
EXTENDS OracleRouter

Cfg(stale, twapPeriods, soft, hard) ==
    [maxStaleness |-> [f \in Feed |-> stale], twapPeriods |-> twapPeriods,
     soft |-> soft, hard |-> hard, maxRoc |-> 1000]

MCConfigs == {Cfg(1, 2, 500, 1600), Cfg(1, 0, 500, 1600),
              Cfg(1, 2, 500, 500), Cfg(0, 2, 500, 1600)}
=============================================================================
