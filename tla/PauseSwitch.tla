---------------------------- MODULE PauseSwitch ----------------------------
(***************************************************************************)
(* What a pause switch promises its readers, with no clock, no roster and  *)
(* no stored record: a trip closes the switch for Duration, the holder of  *)
(* the override may renew a closed switch at most MaxRenewals times or     *)
(* release it, and time alone reopens it.  HealthMonitor implements it.    *)
(***************************************************************************)
EXTENDS Integers

CONSTANTS Duration, MaxRenewals

VARIABLES
    remaining,  \* time left until the switch reopens by itself; 0 when open
    renewals    \* renewals since the last trip; 0 when open

vars == <<remaining, renewals>>

TypeOK ==
    /\ remaining \in 0 .. Duration
    /\ renewals \in 0 .. MaxRenewals

Closed == remaining > 0

Init == remaining = 0 /\ renewals = 0

Trip == remaining' = Duration /\ renewals' = 0

Renew ==
    /\ Closed
    /\ renewals < MaxRenewals
    /\ remaining' = Duration
    /\ renewals' = renewals + 1

Release == remaining' = 0 /\ renewals' = 0

\* Reopening forgets the renewals: the next trip has its own budget.
Elapse ==
    /\ Closed
    /\ remaining' = remaining - 1
    /\ renewals' = IF remaining = 1 THEN 0 ELSE renewals

Next == Trip \/ Renew \/ Release \/ Elapse

Spec == Init /\ [][Next]_vars
=============================================================================
