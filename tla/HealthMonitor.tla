--------------------------- MODULE HealthMonitor ---------------------------
(***************************************************************************)
(* contracts/health-monitor: the pause switch any guardian can flip, that  *)
(* expires by the ledger clock and that only the admin reopens early or    *)
(* extends.  The admin and the guardian role are stored by OZ's            *)
(* AccessControl; they are modelled from the calls the contract makes.     *)
(* A rejected call panics and rolls back, so it is no step at all.         *)
(***************************************************************************)
EXTENDS Integers

CONSTANTS
    Accounts,          \* the addresses that sign calls
    None,              \* an absent storage entry
    MaxPauseDuration,  \* MAX_PAUSE_DURATION
    MaxExtensions,     \* MAX_EXTENSIONS
    LastPauseTime      \* bound: no guardian pauses after this instant

PauseState ==
    [paused: BOOLEAN, pauseExpiry: Nat, extensionsUsed: 0 .. MaxExtensions]

ASSUME DurationAssumption == MaxPauseDuration \in Nat \ {0}
ASSUME ExtensionsAssumption == MaxExtensions \in Nat
ASSUME BoundAssumption == LastPauseTime \in Nat
ASSUME NoneAssumption == None \notin Accounts /\ None \notin PauseState

VARIABLES
    now,        \* ledger timestamp
    admin,      \* AccessControl's admin, None until init_guardians
    guardians,  \* members of GUARDIAN_ROLE
    pause,      \* DataKey::Pause
    trippedAt   \* history: when a guardian last paused

vars == <<now, admin, guardians, pause, trippedAt>>

TypeOK ==
    /\ now \in Nat
    /\ admin \in Accounts \cup {None}
    /\ guardians \subseteq Accounts
    /\ pause \in PauseState \cup {None}
    /\ trippedAt \in Nat

Init ==
    /\ now = 0
    /\ admin = None
    /\ guardians = {}
    /\ pause = None
    /\ trippedAt = 0

-----------------------------------------------------------------------------
\* status(): computed from the record and the clock on every read.
Status == pause # None /\ pause.paused /\ now < pause.pauseExpiry

\* init_guardians: set_admin refuses a second admin, so this runs once.
InitGuardians(a, gs) ==
    /\ admin = None
    /\ admin' = a
    /\ guardians' = guardians \cup gs
    /\ UNCHANGED <<now, pause, trippedAt>>

AddGuardian(a, g) ==
    /\ admin = a
    /\ guardians' = guardians \cup {g}
    /\ UNCHANGED <<now, admin, pause, trippedAt>>

\* revoke_role fails on an address that does not hold the role.
RemoveGuardian(a, g) ==
    /\ admin = a
    /\ g \in guardians
    /\ guardians' = guardians \ {g}
    /\ UNCHANGED <<now, admin, pause, trippedAt>>

\* Overwrites whatever record is there: expiry and extension budget restart.
PauseNow == [paused |-> TRUE,
             pauseExpiry |-> now + MaxPauseDuration,
             extensionsUsed |-> 0]

Pause(g) ==
    /\ g \in guardians
    /\ pause' = PauseNow
    /\ trippedAt' = now
    /\ UNCHANGED <<now, admin, guardians>>

\* A bare flag write: the record may already have lapsed.
ResumeEarly(a) ==
    /\ admin = a
    /\ pause # None
    /\ pause' = [pause EXCEPT !.paused = FALSE]
    /\ UNCHANGED <<now, admin, guardians, trippedAt>>

\* Mutant of Extendable: the clock gone.
ExtendableLapsed(p) == p.paused /\ p.extensionsUsed < MaxExtensions

Extendable(p) ==
    /\ p.paused
    /\ now < p.pauseExpiry
    /\ p.extensionsUsed < MaxExtensions

\* Mutant of ExtendedExpiry: additive instead of a fresh window.
ExtendedExpiryAdditive(p) == p.pauseExpiry + MaxPauseDuration
ExtendedExpiry(p) == now + MaxPauseDuration

Extend(a) ==
    /\ admin = a
    /\ pause # None
    /\ Extendable(pause)
    /\ pause' = [pause EXCEPT !.pauseExpiry = ExtendedExpiry(pause),
                              !.extensionsUsed = @ + 1]
    /\ UNCHANGED <<now, admin, guardians, trippedAt>>

\* The ledger closes.  The clock runs for as long as a pause started at
\* LastPauseTime could be held: bound ClockEnd.
ClockEnd == LastPauseTime + (MaxExtensions + 1) * MaxPauseDuration

Tick ==
    /\ now < ClockEnd
    /\ now' = now + 1
    /\ UNCHANGED <<admin, guardians, pause, trippedAt>>

Next ==
    \/ Tick
    \/ \E a \in Accounts :
        \/ \E gs \in SUBSET Accounts : InitGuardians(a, gs)
        \/ \E g \in Accounts : AddGuardian(a, g) \/ RemoveGuardian(a, g)
        \/ now <= LastPauseTime /\ Pause(a)
        \/ ResumeEarly(a)
        \/ Extend(a)

Spec == Init /\ [][Next]_vars

-----------------------------------------------------------------------------
\* However the admin times its extensions, no reader sees a pause later than
\* (MaxExtensions + 1) windows after the last guardian's trip (extend: "can't
\* be held open indefinitely by repeated admin extensions").
PauseBounded ==
    Status => now < trippedAt + (MaxExtensions + 1) * MaxPauseDuration

\* Only a guardian's pause() turns status() on: neither extend nor
\* resume_early nor a roster change brings a lapsed or released pause back.
NoResurrection ==
    [][~Status /\ Status' => \E g \in guardians : Pause(g)]_vars

\* A reader of status() cannot tell the contract from the abstract switch.
Switch == INSTANCE PauseSwitch WITH
    Duration <- MaxPauseDuration,
    MaxRenewals <- MaxExtensions,
    remaining <- IF Status THEN pause.pauseExpiry - now ELSE 0,
    renewals <- IF Status THEN pause.extensionsUsed ELSE 0

\* Every behaviour of the contract, seen through status(), is one of
\* PauseSwitch: trip, bounded renewals, release, expiry, nothing else.
ImplementsPauseSwitch == Switch!Spec
=============================================================================
