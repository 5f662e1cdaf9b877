-------------------------- MODULE MCTimelockWatch --------------------------
\* An account and the timelock, either of which may be the fee admin; a fee on
\* either side of the ceiling; two proposals over a clock longer than the
\* delay, so that one may be early, exactly ripe or late while the other is
\* pending, executed or cancelled, and a lookback of half the delay, as the
\* deployed one is of 14 hours against 24: a proposal leaves the dashboard's
\* view while it can still be cancelled.
EXTENDS TimelockWatch
=============================================================================
