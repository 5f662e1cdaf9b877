--------------------------- MODULE TimelockWatch ---------------------------
(***************************************************************************)
(* The dashboard's proposal queue over the timelock: timelockProposals.ts  *)
(* subtracts resolved from proposed identifiers as far back as events go,  *)
(* then asks for each remaining proposal in a call of its own, while the   *)
(* timelock moves on; TimelockPanel shows the result until the next read   *)
(* and lets the admin cancel a row.                                        *)
(***************************************************************************)
EXTENDS FeeGovernance

CONSTANT Lookback  \* LOOKBACK_LEDGERS, on the clock of the etas

ASSUME LookbackAssumption == Lookback \in Nat /\ None \notin Nat

VARIABLES
    resolvedAt,  \* when an identifier was executed or cancelled (its event)
    fetching,    \* whether a read of the queue is under way
    candidates,  \* proposed and not resolved, still to be asked for
    rows,        \* what the read has found so far
    shown,       \* what the panel shows
    readAt       \* history: when the latest read asked for the events

panelVars == <<fetching, candidates, rows, shown, readAt>>
watchVars == <<vars, resolvedAt, panelVars>>

NoRows == [id \in Ids |-> None]

WatchInit ==
    /\ Init
    /\ resolvedAt = [id \in Ids |-> None]
    /\ fetching = FALSE
    /\ candidates = {}
    /\ rows = NoRows /\ shown = NoRows
    /\ readAt = 0

Pending(id) == proposals[id] # None

\* Mutant of Recent: the oldest ledger of the lookback is left out.
RecentExclusive(time) == time # None /\ time > now - Lookback

\* Whether an event is inside the lookback.
Recent(time) == time # None /\ time >= now - Lookback
ProposedIds == {id \in Ids : id < nextId /\ Recent(proposedAt[id])}
ResolvedIds == {id \in Ids : Recent(resolvedAt[id])}

ReadEvents ==
    /\ ~fetching
    /\ fetching' = TRUE
    /\ candidates' = ProposedIds \ ResolvedIds
    /\ rows' = NoRows
    /\ readAt' = now
    /\ UNCHANGED <<vars, resolvedAt, shown>>

\* Mutant of RowFor: answers paired by position once one was skipped.
RowForShifted(id) == proposals[IF id = 0 THEN 0 ELSE id - 1]

\* get_proposal: an identifier resolved in the meantime is an error, skipped.
RowFor(id) == proposals[id]

ReadProposal(id) ==
    /\ fetching
    /\ id \in candidates
    /\ candidates' = candidates \ {id}
    /\ rows' = [rows EXCEPT ![id] = RowFor(id)]
    /\ UNCHANGED <<vars, resolvedAt, fetching, shown, readAt>>

Show ==
    /\ fetching
    /\ candidates = {}
    /\ fetching' = FALSE
    /\ shown' = rows
    /\ UNCHANGED <<vars, resolvedAt, candidates, rows, readAt>>

Resolution(id) ==
    /\ resolvedAt' = [resolvedAt EXCEPT ![id] = now]
    /\ UNCHANGED panelVars

\* handleCancel: the admin cancels a row, however old, and reloads; the read
\* under way is dropped.
CancelRow(a, id) ==
    /\ shown[id] # None
    /\ Cancel(a, id)
    /\ resolvedAt' = [resolvedAt EXCEPT ![id] = now]
    /\ fetching' = FALSE
    /\ candidates' = {}
    /\ rows' = NoRows
    /\ UNCHANGED <<shown, readAt>>

ChainStep ==
    \/ /\ Tick \/ \E call \in Call : CallDirectly(call) \/ Propose(call)
               \/ \E a \in Accounts : InitTimelock(a)
       /\ UNCHANGED <<resolvedAt, panelVars>>
    \/ \E id \in Ids :
        /\ Execute(id) \/ \E a \in Accounts : Cancel(a, id)
        /\ Resolution(id)

WatchNext ==
    \/ ChainStep
    \/ ReadEvents
    \/ \E id \in Ids : ReadProposal(id) \/ \E a \in Accounts : CancelRow(a, id)
    \/ Show

WatchSpec == WatchInit /\ [][WatchNext]_watchVars

-----------------------------------------------------------------------------
\* What a read has to find: what is pending, was there before the read began
\* and is not older than the lookback.
Expected(id) ==
    Pending(id) /\ proposedAt[id] < readAt /\ proposedAt[id] >= readAt - Lookback

\* When a read completes, the calls it made one by one while the timelock moved
\* on have lost none of the proposals it had to find, and it shows none that
\* was resolved before it began.  With the deployed lookback, which is shorter
\* than the delay, a proposal that can still be cancelled may be older than
\* that, and is missing.
QueueExact ==
    [][ Show => \A id \in Ids :
          /\ Expected(id) => shown'[id] # None
          /\ resolvedAt[id] # None /\ resolvedAt[id] < readAt
                => shown'[id] = None ]_watchVars

\* A row whose proposal is still pending shows the call and the eta that will
\* be executed, however long ago it was read: what an admin cancels or lets
\* pass is what was on the screen.
RowsAreTrue ==
    \A id \in Ids : shown[id] # None /\ Pending(id) => shown[id] = proposals[id]
=============================================================================
