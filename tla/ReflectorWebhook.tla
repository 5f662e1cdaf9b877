-------------------------- MODULE ReflectorWebhook --------------------------
(***************************************************************************)
(* keeper/src/reflectorWebhookServer.ts and reflectorQuorum.ts: nodes sign *)
(* and post one notification each, the tracker counts distinct trusted     *)
(* signers of the same event inside a window, and the request that         *)
(* completes the quorum asks RedStone and pauses the health monitor.       *)
(* Requests overlap: each await of a handler is an action of its own.      *)
(* Notifications may be repeated, delayed for ever or come in any order.   *)
(***************************************************************************)
EXTENDS Integers, Sequences, FiniteSets

CONSTANTS
    Verifiers,          \* keys a notification may be signed with
    Trusted,            \* TRUSTED_VERIFIERS
    QuorumSize,
    WindowSeconds,      \* QUORUM_WINDOW_SECONDS
    Updates,            \* updates, told apart by computeUpdateHash
    PriceOf,            \* the price of each, in the units of a quote
    Quotes,             \* what RedStone may answer
    DivergenceHardBps,
    None,
    MaxTime,            \* bound: seconds of a behaviour
    MaxPauses,          \* bound: pauses of the monitor
    MaxFaults           \* bound: failed calls and restarts

ASSUME QuorumAssumption ==
    Trusted \subseteq Verifiers /\ QuorumSize \in 1 .. Cardinality(Trusted)
ASSUME WindowAssumption == WindowSeconds \in Nat /\ None \notin Int

VARIABLES
    now,
    groups,    \* per update: its PendingGroup, or None
    quoting,   \* per update: handlers awaiting RedStone
    pausing,   \* per update: handlers awaiting the pause
    pauses,    \* ledger times of the monitor's paused events
    faults,
    heard,     \* history: when each trusted node was last heard on an update, if
               \*   within the window
    handed     \* history: firstSeen of the last group handed over, per update

trackerVars == <<groups, heard, handed>>
handlerVars == <<quoting, pausing>>
webhookVars == <<now, groups, quoting, pausing, pauses, faults, heard, handed>>

Group == [firstSeen : Nat, confirming : SUBSET Trusted, resolved : BOOLEAN]

ASSUME NoGroupAssumption == None \notin Group

WebhookTypeOK ==
    /\ now \in Nat
    /\ groups \in [Updates -> Group \cup {None}]
    /\ quoting \in [Updates -> Nat] /\ pausing \in [Updates -> Nat]
    /\ pauses \in Seq(Nat)
    /\ faults \in Nat
    /\ heard \in [Updates -> [Trusted -> Nat \cup {None}]]
    /\ handed \in [Updates -> Nat \cup {None}]

WebhookInit ==
    /\ now = 1
    /\ groups = [u \in Updates |-> None]
    /\ quoting = [u \in Updates |-> 0] /\ pausing = [u \in Updates |-> 0]
    /\ pauses = <<>>
    /\ faults = 0
    /\ heard = [u \in Updates |-> [v \in Trusted |-> None]]
    /\ handed = [u \in Updates |-> None]

-----------------------------------------------------------------------------
\* Mutant of Expired: a resolved group is dropped at once, so its late
\* notifications start over.
ExpiredOnceResolved(group) ==
    group # None /\ (group.resolved \/ now - group.firstSeen > WindowSeconds)

Expired(group) == group # None /\ now - group.firstSeen > WindowSeconds

\* Mutant of PruneExpired: nothing is ever dropped.
PruneExpiredNever == groups
PruneExpired == [u \in Updates |-> IF Expired(groups[u]) THEN None ELSE groups[u]]

Known(group) ==
    IF group = None THEN [firstSeen |-> now, confirming |-> {}, resolved |-> FALSE]
    ELSE group

\* Mutant of Accepted: any key whose signature verifies counts.
AcceptedFromAnyone(v, genuine) == genuine
\* The signature verifies and the signer is one of the configured nodes.
Accepted(v, genuine) == genuine /\ v \in Trusted

\* recordNotification.  The status it returns decides only between the quorum
\* reached here, which `reached` says, and the answers that change nothing.
RecordNotification(v, u, genuine) ==
    LET pruned == PruneExpired
        group == Known(pruned[u])
        confirming == group.confirming \cup {v}
        reached == /\ Accepted(v, genuine)
                   /\ ~group.resolved
                   /\ v \notin group.confirming
                   /\ Cardinality(confirming) >= QuorumSize
    IN  /\ groups' =
             IF ~Accepted(v, genuine) THEN pruned
             ELSE IF group.resolved THEN pruned
             ELSE [pruned EXCEPT ![u] = [group EXCEPT !.confirming = confirming,
                                                      !.resolved = reached]]
        /\ quoting' = IF reached THEN [quoting EXCEPT ![u] = @ + 1] ELSE quoting
        /\ handed' = IF reached THEN [handed EXCEPT ![u] = group.firstSeen] ELSE handed

\* A POST to the path with a well-formed body; any other request is answered
\* 404 or 400 and changes nothing.
Notify(v, u, genuine) ==
    /\ RecordNotification(v, u, genuine)
    /\ heard' = IF genuine /\ v \in Trusted THEN [heard EXCEPT ![u][v] = now] ELSE heard
    /\ UNCHANGED <<now, pausing, pauses, faults>>

Gap(p, q) == IF p >= q THEN p - q ELSE q - p

\* Math.round of the divergence from the quote, in basis points.
ShouldPause(price, quote) ==
    (2 * Gap(price, quote) * 10000 + quote) \div (2 * quote) >= DivergenceHardBps

\* fetchRedStonePriceUsd answered: cross-check, and ask for the pause.
CrossCheck(u, quote) ==
    /\ quoting[u] > 0
    /\ quoting' = [quoting EXCEPT ![u] = @ - 1]
    /\ pausing' = IF ShouldPause(PriceOf[u], quote)
                  THEN [pausing EXCEPT ![u] = @ + 1] ELSE pausing
    /\ UNCHANGED <<now, trackerVars, pauses, faults>>

\* triggerGuardianPause: the pause is included, with its event.
PauseLands(u) ==
    /\ pausing[u] > 0
    /\ Len(pauses) < MaxPauses
    /\ pausing' = [pausing EXCEPT ![u] = @ - 1]
    /\ pauses' = Append(pauses, now)
    /\ UNCHANGED <<now, trackerVars, quoting, faults>>

\* RedStone or the pause fails: the sender is answered 502 and the group stays
\* resolved, so none of its notifications is acted on again.
HandlerFails(u) ==
    /\ faults < MaxFaults
    /\ faults' = faults + 1
    /\ \/ quoting[u] > 0 /\ quoting' = [quoting EXCEPT ![u] = @ - 1]
          /\ UNCHANGED pausing
       \/ pausing[u] > 0 /\ pausing' = [pausing EXCEPT ![u] = @ - 1]
          /\ UNCHANGED quoting
    /\ UNCHANGED <<now, trackerVars, pauses>>

\* The process is started again: the groups and the handlers are gone.  The
\* histories start over, for nothing of before can count any more.
WebhookRestarts ==
    /\ faults < MaxFaults
    /\ faults' = faults + 1
    /\ groups' = [u \in Updates |-> None]
    /\ quoting' = [u \in Updates |-> 0] /\ pausing' = [u \in Updates |-> 0]
    /\ heard' = [u \in Updates |-> [v \in Trusted |-> None]]
    /\ handed' = [u \in Updates |-> None]
    /\ UNCHANGED <<now, pauses>>

Second ==
    /\ now < MaxTime
    /\ now' = now + 1
    /\ heard' = [u \in Updates |-> [v \in Trusted |->
                   IF heard[u][v] # None /\ now' - heard[u][v] > WindowSeconds
                   THEN None ELSE heard[u][v]]]
    /\ UNCHANGED <<groups, handed, handlerVars, pauses, faults>>

HandlerStep ==
    \E u \in Updates : PauseLands(u) \/ \E q \in Quotes : CrossCheck(u, q)

WebhookNext ==
    \/ \E v \in Verifiers, u \in Updates, genuine \in BOOLEAN : Notify(v, u, genuine)
    \/ HandlerStep
    \/ \E u \in Updates : HandlerFails(u)
    \/ WebhookRestarts
    \/ Second

-----------------------------------------------------------------------------
HandedOver(u) == quoting'[u] > quoting[u]

\* An update is handed to the cross-check only when QuorumSize distinct trusted
\* nodes were each heard on it within the window since the last restart;
\* repetition, forgery and strangers never make up the number.
QuorumIsReal ==
    [][\A u \in Updates : HandedOver(u) =>
         \E q \in SUBSET Trusted :
            /\ Cardinality(q) >= QuorumSize
            /\ \A v \in q : heard'[u][v] # None
      ]_webhookVars

\* However often its notifications are repeated, an update is handed over again
\* only by a group begun more than a window after the one before.
HandedOncePerWindow ==
    [][\A u \in Updates : HandedOver(u) /\ handed[u] # None =>
         handed'[u] > handed[u] + WindowSeconds]_webhookVars
=============================================================================
