----------------------------- MODULE EpochBudget -----------------------------
(***************************************************************************)
(* What a spend limit promises whoever installs it: time falls into epochs *)
(* of equal length, and within one of them no more than the budget goes    *)
(* out.  A spend may be refused for any reason; what has been spent is     *)
(* forgotten only when an epoch ends or the limit is installed anew.       *)
(***************************************************************************)
EXTENDS Integers

VARIABLES
    budget,  \* what an epoch may spend, Absent while nothing is installed
    epoch,   \* the epoch we are in
    spent    \* spent in this epoch under this installation

CONSTANT Absent

vars == <<budget, epoch, spent>>

Init == budget = Absent /\ epoch = 0 /\ spent = 0

Install ==
    /\ budget = Absent
    /\ budget' \in Nat
    /\ epoch' \in Nat
    /\ spent' = 0

Uninstall ==
    /\ budget # Absent
    /\ budget' = Absent
    /\ epoch' = 0
    /\ spent' = 0

Spend ==
    /\ budget # Absent
    /\ spent' >= spent
    /\ spent' <= budget
    /\ UNCHANGED <<budget, epoch>>

NextEpoch ==
    /\ budget # Absent
    /\ epoch' > epoch
    /\ spent' = 0
    /\ UNCHANGED budget

Next == Install \/ Uninstall \/ Spend \/ NextEpoch

Spec == Init /\ [][Next]_vars
=============================================================================
