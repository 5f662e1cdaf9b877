------------------------ MODULE FeeGovernanceProofs ------------------------
(***************************************************************************)
(* FeeGovernance for every set of accounts and fees, every delay and any   *)
(* number of proposals, and the dashboard's queue over it, TimelockWatch,  *)
(* for every lookback that covers the delay.                               *)
(***************************************************************************)
EXTENDS TimelockWatch, TLAPS

\* What a well-formed call carries.
LEMMA CallFields ==
    ASSUME NEW call \in Call
    PROVE  /\ call.admin \in Addresses
           /\ call.fn = "transfer_admin" => call.new \in Addresses
           /\ call.fn = "set_fee_bps" => call.fee \in Fees
  BY DEF Call

\* A call the engine accepts leaves its variables well typed.
LEMMA InvokeTypes ==
    ASSUME TypeOK, NEW call \in Call, Invoke(call)
    PROVE  /\ feeAdmin' \in Addresses \cup {None}
           /\ fee' \in 0 .. MaxFee
<1>1. CASE call.fn = "init_admin" /\ InitAdmin(call.admin)
  BY <1>1, CallFields DEF InitAdmin, TypeOK
<1>2. CASE call.fn = "transfer_admin" /\ TransferAdmin(call.admin, call.new)
  BY <1>2, CallFields DEF TransferAdmin, TypeOK
<1>3. CASE call.fn = "set_fee_bps" /\ SetFeeBps(call.admin, call.fee)
  <2>1. call.fee \in Nat /\ call.fee <= MaxFee
    BY <1>3, CallFields, FeeAssumption DEF SetFeeBps
  <2> QED
    BY <1>3, <2>1, FeeAssumption DEF SetFeeBps, TypeOK
<1> QED
  BY <1>1, <1>2, <1>3 DEF Invoke

\* The only calls the engine accepts claim the stored admin.
LEMMA InvokeAuthority ==
    ASSUME TypeOK, NEW call \in Call, Invoke(call), feeAdmin # None
    PROVE  call.admin = feeAdmin
  BY CallFields DEF Invoke, InitAdmin, TransferAdmin, SetFeeBps

LEMMA RipeProposal ==
    ASSUME TypeOK, NEW id \in Ids, proposals[id] # None
    PROVE  proposals[id] \in Proposal /\ proposals[id].call \in Call
  BY DEF TypeOK, Proposal

LEMMA TypeInit == Init => TypeOK
  BY FeeAssumption, ClockAssumption DEF Init, TypeOK

\* The counter, the proposals, both admins and the fee keep their types.
LEMMA TypeStep == TypeOK /\ [Next]_vars => TypeOK'
<1> SUFFICES ASSUME TypeOK, [Next]_vars PROVE TypeOK'
  OBVIOUS
<1> USE ClockAssumption
<1>1. CASE Tick
  BY <1>1 DEF Tick, TypeOK, timelockVars
<1>2. ASSUME NEW call \in Call, CallDirectly(call) PROVE TypeOK'
  BY <1>2, InvokeTypes DEF CallDirectly, TypeOK, timelockVars
<1>3. ASSUME NEW call \in Call, Propose(call) PROVE TypeOK'
  <2>1. [call |-> call, eta |-> Eta] \in Proposal
    BY DEF Proposal, TypeOK, Eta
  <2>2. proposals' \in [Ids -> Proposal \cup {None}]
    BY <1>3, <2>1 DEF Propose, TypeOK
  <2>3. nextId' \in 0 .. MaxProposals
    BY <1>3 DEF Propose, TypeOK
  <2>4. proposedAt' \in [Ids -> Nat]
    BY <1>3 DEF Propose, TypeOK
  <2> QED
    BY <1>3, <2>2, <2>3, <2>4 DEF Propose, TypeOK
<1>4. ASSUME NEW a \in Accounts, InitTimelock(a) PROVE TypeOK'
  BY <1>4 DEF InitTimelock, TypeOK
<1>5. ASSUME NEW a \in Accounts, NEW id \in Ids, Cancel(a, id) PROVE TypeOK'
  <2>1. proposals' \in [Ids -> Proposal \cup {None}]
    BY <1>5 DEF Cancel, TypeOK
  <2> QED
    BY <1>5, <2>1 DEF Cancel, TypeOK
<1>6. ASSUME NEW id \in Ids, Execute(id) PROVE TypeOK'
  <2>1. /\ feeAdmin' \in Addresses \cup {None}
        /\ fee' \in 0 .. MaxFee
    BY <1>6, RipeProposal, InvokeTypes DEF Execute, Ripe
  <2>2. proposals' \in [Ids -> Proposal \cup {None}]
    BY <1>6 DEF Execute, TypeOK
  <2> QED
    BY <1>6, <2>1, <2>2 DEF Execute, TypeOK
<1>7. CASE UNCHANGED vars
  BY <1>7 DEF vars, timelockVars, TypeOK
<1> QED
  BY <1>1, <1>2, <1>3, <1>4, <1>5, <1>6, <1>7 DEF Next

\* The fee never exceeds the hardcoded ceiling, whoever the admin is and
\* whatever is proposed (MAX_FEE_BPS), and the rest keeps its type.
THEOREM FeeIsCapped == Spec => []TypeOK
  BY TypeInit, TypeStep, PTL DEF Spec

-----------------------------------------------------------------------------
\* What the eta of a pending proposal stands for: without it "ripe" would say
\* nothing of the time since the proposal was made.
EtaIsHonest ==
    \A id \in Ids :
        proposals[id] # None => proposals[id].eta = proposedAt[id] + ProposalDelay

LEMMA EtaStep == TypeOK /\ EtaIsHonest /\ [Next]_vars => EtaIsHonest'
<1> SUFFICES ASSUME TypeOK, EtaIsHonest, [Next]_vars, NEW id \in Ids,
                    proposals'[id] # None
             PROVE  proposals'[id].eta = proposedAt'[id] + ProposalDelay
  BY DEF EtaIsHonest
<1>1. ASSUME NEW call \in Call, Propose(call)
      PROVE  proposals'[id].eta = proposedAt'[id] + ProposalDelay
  <2>1. CASE id = nextId
    BY <1>1, <2>1 DEF Propose, FreshId, Eta, TypeOK
  <2>2. CASE id # nextId
    BY <1>1, <2>2 DEF Propose, FreshId, EtaIsHonest, TypeOK
  <2> QED
    BY <2>1, <2>2
<1>2. ASSUME NEW other \in Ids,
             Execute(other) \/ \E a \in Accounts : Cancel(a, other)
      PROVE  proposals'[id].eta = proposedAt'[id] + ProposalDelay
  BY <1>2 DEF Execute, Cancel, EtaIsHonest, TypeOK
<1>3. CASE UNCHANGED <<proposals, proposedAt>>
  BY <1>3 DEF EtaIsHonest
<1> QED
  BY <1>1, <1>2, <1>3
     DEF Next, Tick, CallDirectly, InitTimelock, vars, timelockVars

LEMMA EtaInit == Init => EtaIsHonest
  BY DEF Init, EtaIsHonest

\* Once the timelock is the fee admin, the delay cannot be avoided.
THEOREM DelayCannotBeAvoided == Spec => ChangeWaitsOut
<1> DEFINE Changed == fee' # fee \/ feeAdmin' # feeAdmin
           Waited == \E id \in Ids :
                         /\ proposals[id] # None
                         /\ proposals[id].call.admin = Timelock
                         /\ now >= proposedAt[id] + ProposalDelay
                         /\ proposals'[id] = None
<1>1. ASSUME TypeOK, EtaIsHonest, [Next]_vars, feeAdmin = Timelock, Changed
      PROVE  Waited
  <2>1. feeAdmin # None
    BY <1>1, AddressAssumption DEF Addresses
  <2>2. ~Tick /\ ~UNCHANGED vars
    BY <1>1 DEF Tick, vars
  <2>3. \A call \in Call : ~CallDirectly(call) /\ ~Propose(call)
    BY <1>1, <2>1, InvokeAuthority, AddressAssumption
       DEF CallDirectly, Propose
  <2>4. \A a \in Accounts : ~InitTimelock(a) /\ \A id \in Ids : ~Cancel(a, id)
    BY <1>1 DEF InitTimelock, Cancel
  <2>5. PICK id \in Ids : Execute(id)
    BY <1>1, <2>2, <2>3, <2>4 DEF Next
  <2>6. proposals[id].call.admin = Timelock
    BY <1>1, <2>1, <2>5, RipeProposal, InvokeAuthority DEF Execute, Ripe
  <2>7. proposals'[id] = None
    BY <1>1, <2>5 DEF Execute, TypeOK
  <2>8. proposals[id] # None /\ now >= proposedAt[id] + ProposalDelay
    BY <1>1, <2>5 DEF Execute, Ripe, EtaIsHonest
  <2> QED
    BY <2>6, <2>7, <2>8
<1>2. TypeOK /\ EtaIsHonest /\ [Next]_vars =>
        [feeAdmin = Timelock /\ Changed => Waited]_vars
  BY <1>1
<1> QED
  BY <1>2, TypeInit, TypeStep, EtaInit, EtaStep, PTL DEF Spec, ChangeWaitsOut

\* No identifier is used twice and no pending proposal is altered.
THEOREM IdsAreUsedOnce == Spec => NeverReused
<1>1. ASSUME TypeOK, [Next]_vars, NEW id \in Ids, id < nextId
      PROVE  proposals'[id] \in {proposals[id], None}
  <2>1. CASE \E call \in Call : Propose(call)
    <3>1. id # nextId
      BY <1>1, ClockAssumption DEF Ids, TypeOK
    <3> QED
      BY <1>1, <2>1, <3>1 DEF Propose, FreshId, TypeOK
  <2>2. CASE \E other \in Ids : Execute(other)
    BY <1>1, <2>2 DEF Execute, TypeOK
  <2>3. CASE \E a \in Accounts, other \in Ids : Cancel(a, other)
    BY <1>1, <2>3 DEF Cancel, TypeOK
  <2>4. CASE UNCHANGED proposals
    BY <2>4
  <2> QED
    BY <1>1, <2>1, <2>2, <2>3, <2>4
       DEF Next, Tick, CallDirectly, InitTimelock, vars, timelockVars
<1>2. TypeOK /\ [Next]_vars =>
        [\A id \in Ids : id < nextId =>
             proposals'[id] \in {proposals[id], None}]_vars
  BY <1>1
<1> QED
  BY <1>2, TypeInit, TypeStep, PTL DEF Spec, NeverReused
-----------------------------------------------------------------------------
\* The dashboard's queue.  A step of it is a step of the contracts or leaves
\* them alone.
LEMMA WatchSteps == [WatchNext]_watchVars => [Next]_vars
<1>1. ChainStep => Next
  BY DEF ChainStep, Next
<1>2. ASSUME NEW id \in Ids, NEW a \in Accounts, CancelRow(a, id) PROVE Next
  BY <1>2 DEF CancelRow, Next
<1>3. ASSUME NEW id \in Ids, ReadProposal(id) PROVE UNCHANGED vars
  BY <1>3 DEF ReadProposal
<1>4. ReadEvents \/ Show \/ UNCHANGED watchVars => UNCHANGED vars
  BY DEF ReadEvents, Show, watchVars
<1> QED
  BY <1>1, <1>2, <1>3, <1>4 DEF WatchNext

\* What a step may do to the clock, the counter and the pending proposals.
LEMMA ProposalsMove ==
    ASSUME TypeOK, [Next]_vars
    PROVE  /\ nextId <= nextId' /\ now <= now'
           /\ \A id \in Ids :
                proposals'[id] # None =>
                  \/ /\ proposals'[id] = proposals[id]
                     /\ proposedAt'[id] = proposedAt[id]
                  \/ id = nextId /\ id < nextId' /\ proposedAt'[id] = now
<1> USE ClockAssumption DEF TypeOK
<1>1. ASSUME NEW call \in Call, Propose(call)
      PROVE  /\ nextId <= nextId' /\ now <= now' /\ nextId < nextId'
             /\ \A id \in Ids :
                  \/ proposedAt'[id] = proposedAt[id] /\ proposals'[id] = proposals[id]
                  \/ id = nextId /\ proposedAt'[id] = now
  <2>1. nextId' = nextId + 1 /\ nextId < nextId' /\ now' = now
    BY <1>1 DEF Propose
  <2>2. /\ proposals' = [proposals EXCEPT ![nextId] = [call |-> call, eta |-> Eta]]
        /\ proposedAt' = [proposedAt EXCEPT ![nextId] = now]
    BY <1>1 DEF Propose, FreshId
  <2> QED
    BY <2>1, <2>2
<1>2. ASSUME NEW other \in Ids, Execute(other) \/ \E a \in Accounts : Cancel(a, other)
      PROVE  /\ nextId = nextId' /\ now = now'
             /\ \A id \in Ids : /\ proposedAt'[id] = proposedAt[id]
                                /\ proposals'[id] \in {proposals[id], None}
  BY <1>2 DEF Execute, Cancel
<1>3. CASE UNCHANGED <<nextId, proposals, proposedAt>> /\ now <= now'
  BY <1>3
<1>4. CASE \E call \in Call : Propose(call)
  BY <1>1, <1>4
<1>5. CASE \E other \in Ids : Execute(other) \/ \E a \in Accounts : Cancel(a, other)
  BY <1>2, <1>5
<1>6. \/ \E call \in Call : CallDirectly(call)
      \/ \E a \in Accounts : InitTimelock(a)
      \/ Tick \/ UNCHANGED vars
      => UNCHANGED <<nextId, proposals, proposedAt>> /\ now <= now'
  BY DEF CallDirectly, InitTimelock, Tick, timelockVars, vars
<1> QED
  BY <1>3, <1>4, <1>5, <1>6 DEF Next

WatchTypes ==
    /\ resolvedAt \in [Ids -> Nat \cup {None}]
    /\ fetching \in BOOLEAN
    /\ candidates \subseteq Ids
    /\ rows \in [Ids -> Proposal \cup {None}]
    /\ shown \in [Ids -> Proposal \cup {None}]
    /\ readAt \in Nat /\ readAt <= now

\* A pending proposal was never resolved, and neither a pending nor a resolved
\* one can be proposed again.
OnceOnly ==
    \A id \in Ids :
        /\ Pending(id) => id < nextId /\ resolvedAt[id] = None
        /\ resolvedAt[id] # None => id < nextId

\* What a row says is what its proposal says for as long as it is pending.
Faithful(table) ==
    \A id \in Ids :
        table[id] # None => id < nextId /\ (Pending(id) => table[id] = proposals[id])

\* A read under way has, or is still to ask for, what it must show, and has
\* nothing that was resolved before it began.
ReadExact ==
    fetching => \A id \in Ids :
        /\ Expected(id) => id \in candidates \/ rows[id] # None
        /\ resolvedAt[id] # None /\ resolvedAt[id] < readAt => rows[id] = None

\* A proposal is marked resolved by the step that takes it away.
LEMMA ResolvedMoves ==
    ASSUME TypeOK, WatchTypes, [WatchNext]_watchVars
    PROVE  /\ resolvedAt' \in [Ids -> Nat \cup {None}]
           /\ \A id \in Ids :
                \/ resolvedAt'[id] = resolvedAt[id]
                \/ resolvedAt'[id] = now /\ Pending(id) /\ proposals'[id] = None
<1>1. ASSUME NEW other \in Ids, resolvedAt' = [resolvedAt EXCEPT ![other] = now],
             proposals[other] # None, proposals' = [proposals EXCEPT ![other] = None]
      PROVE  /\ resolvedAt' \in [Ids -> Nat \cup {None}]
             /\ \A id \in Ids :
                  \/ resolvedAt'[id] = resolvedAt[id]
                  \/ resolvedAt'[id] = now /\ Pending(id) /\ proposals'[id] = None
  BY <1>1 DEF WatchTypes, TypeOK, Pending
<1>2. CASE UNCHANGED resolvedAt
  BY <1>2 DEF WatchTypes
<1>3. CASE ~UNCHANGED resolvedAt
  <2>1. PICK other \in Ids :
          \/ Execute(other) /\ Resolution(other)
          \/ \E a \in Accounts : Cancel(a, other) /\ Resolution(other)
          \/ \E a \in Accounts : CancelRow(a, other)
    BY <1>3 DEF WatchNext, ChainStep, ReadEvents, ReadProposal, Show, watchVars
  <2>2. /\ resolvedAt' = [resolvedAt EXCEPT ![other] = now]
        /\ proposals[other] # None
        /\ proposals' = [proposals EXCEPT ![other] = None]
    BY <2>1 DEF Execute, Ripe, Cancel, Resolution, CancelRow
  <2> QED
    BY <1>1, <2>2
<1> QED
  BY <1>2, <1>3

LEMMA OnceStep ==
    ASSUME TypeOK, WatchTypes, OnceOnly, [WatchNext]_watchVars
    PROVE  OnceOnly'
<1> SUFFICES ASSUME NEW id \in Ids
             PROVE  /\ proposals'[id] # None => id < nextId' /\ resolvedAt'[id] = None
                    /\ resolvedAt'[id] # None => id < nextId'
  BY DEF OnceOnly, Pending
<1>1. /\ nextId <= nextId'
      /\ proposals'[id] # None =>
           proposals'[id] = proposals[id] \/ (id = nextId /\ id < nextId')
  BY WatchSteps, ProposalsMove
<1>2. \/ resolvedAt'[id] = resolvedAt[id]
      \/ resolvedAt'[id] = now /\ Pending(id) /\ proposals'[id] = None
  BY ResolvedMoves
<1>3. /\ Pending(id) => id < nextId /\ resolvedAt[id] = None
      /\ resolvedAt[id] # None => id < nextId
  BY DEF OnceOnly
<1>4. TypeOK'
  BY WatchSteps, TypeStep
<1>5. id \in Int /\ nextId \in Int /\ nextId' \in Int
  BY <1>4 DEF TypeOK, Ids
<1> QED
  BY <1>1, <1>2, <1>3, <1>5 DEF Pending

LEMMA FaithfulStep ==
    ASSUME TypeOK, WatchTypes, OnceOnly, [WatchNext]_watchVars,
           NEW table, Faithful(table)
    PROVE  \A id \in Ids :
             table[id] # None =>
               id < nextId' /\ (proposals'[id] # None => table[id] = proposals'[id])
<1> SUFFICES ASSUME NEW id \in Ids, table[id] # None
             PROVE  /\ id < nextId'
                    /\ proposals'[id] # None => table[id] = proposals'[id]
  OBVIOUS
<1>1. /\ nextId <= nextId'
      /\ proposals'[id] # None => proposals'[id] = proposals[id] \/ id = nextId
  BY WatchSteps, ProposalsMove
<1>2. id < nextId /\ (Pending(id) => table[id] = proposals[id])
  BY DEF Faithful
<1>3. id \in Int /\ nextId \in Int /\ nextId' \in Int
  BY WatchSteps, TypeStep DEF TypeOK, Ids
<1> QED
  BY <1>1, <1>2, <1>3 DEF Pending
LEMMA RowsStep ==
    ASSUME TypeOK, WatchTypes, OnceOnly, Faithful(rows), Faithful(shown),
           [WatchNext]_watchVars
    PROVE  /\ rows' \in [Ids -> Proposal \cup {None}]
           /\ shown' \in [Ids -> Proposal \cup {None}]
           /\ Faithful(rows)' /\ Faithful(shown)'
<1>1. \A id \in Ids :
        /\ rows[id] # None =>
             id < nextId' /\ (proposals'[id] # None => rows[id] = proposals'[id])
        /\ shown[id] # None =>
             id < nextId' /\ (proposals'[id] # None => shown[id] = proposals'[id])
  BY FaithfulStep
<1>2. ASSUME NEW table, NEW table1, table1 = table \/ table1 = NoRows \/ table1 = rows,
             table \in {rows, shown}
      PROVE  /\ table1 \in [Ids -> Proposal \cup {None}]
             /\ \A id \in Ids :
                  table1[id] # None =>
                    id < nextId' /\ (proposals'[id] # None => table1[id] = proposals'[id])
  BY <1>1, <1>2 DEF WatchTypes, NoRows
<1>3. CASE rows' \in {rows, NoRows} /\ shown' \in {shown, rows}
  <2>1. /\ rows' \in [Ids -> Proposal \cup {None}]
        /\ \A id \in Ids :
             rows'[id] # None =>
               id < nextId' /\ (proposals'[id] # None => rows'[id] = proposals'[id])
    BY <1>2, <1>3
  <2>2. /\ shown' \in [Ids -> Proposal \cup {None}]
        /\ \A id \in Ids :
             shown'[id] # None =>
               id < nextId' /\ (proposals'[id] # None => shown'[id] = proposals'[id])
    BY <1>2, <1>3
  <2> QED
    BY <2>1, <2>2 DEF Faithful, Pending
<1>4. ASSUME NEW other \in Ids, ReadProposal(other)
      PROVE  /\ rows' \in [Ids -> Proposal \cup {None}]
             /\ shown' \in [Ids -> Proposal \cup {None}]
             /\ Faithful(rows)' /\ Faithful(shown)'
  <2>1. /\ rows' = [rows EXCEPT ![other] = proposals[other]]
        /\ shown' = shown /\ proposals' = proposals /\ nextId' = nextId
    BY <1>4 DEF ReadProposal, RowFor, vars
  <2>2. /\ proposals[other] \in Proposal \cup {None}
        /\ proposals[other] # None => other < nextId
    BY DEF TypeOK, OnceOnly, Pending
  <2>3. rows' \in [Ids -> Proposal \cup {None}]
    BY <2>1, <2>2 DEF WatchTypes
  <2>4. \A id \in Ids : rows'[id] = IF id = other THEN proposals[id] ELSE rows[id]
    BY <2>1 DEF WatchTypes
  <2>5. Faithful(rows)'
    BY <2>1, <2>2, <2>4 DEF Faithful, Pending
  <2>6. Faithful(shown)'
    BY <2>1 DEF Faithful, Pending
  <2> QED
    BY <2>1, <2>3, <2>5, <2>6 DEF WatchTypes
<1>5. \/ rows' \in {rows, NoRows} /\ shown' \in {shown, rows}
      \/ \E other \in Ids : ReadProposal(other)
  BY DEF WatchNext, ChainStep, Resolution, panelVars, ReadEvents, Show, CancelRow, watchVars
<1> QED
  BY <1>3, <1>4, <1>5

LEMMA WatchTypesStep ==
    ASSUME TypeOK, WatchTypes, OnceOnly, Faithful(rows), Faithful(shown),
           [WatchNext]_watchVars
    PROVE  WatchTypes'
<1>1. now <= now' /\ now \in Nat /\ now' \in Nat
  BY WatchSteps, ProposalsMove, TypeStep DEF TypeOK
<1>2. readAt' \in Nat /\ readAt' <= now' /\ fetching' \in BOOLEAN
  <2>1. /\ readAt' = readAt \/ readAt' = now
        /\ fetching' = fetching \/ fetching' = TRUE \/ fetching' = FALSE
    BY DEF WatchNext, ChainStep, Resolution, panelVars, ReadEvents, ReadProposal, Show,
           CancelRow, watchVars
  <2>2. readAt' \in Nat /\ readAt' <= now'
    BY <1>1, <2>1 DEF WatchTypes
  <2>3. fetching' \in BOOLEAN
    BY <2>1 DEF WatchTypes
  <2> QED
    BY <2>2, <2>3
<1>3. candidates' \subseteq Ids
  BY DEF WatchTypes, WatchNext, ChainStep, Resolution, panelVars, ReadEvents,
         ReadProposal, Show, CancelRow, watchVars, ProposedIds
<1> QED
  BY <1>1, <1>2, <1>3, ResolvedMoves, RowsStep DEF WatchTypes

\* What a read has still to show, over the steps of the contracts and its own.
LEMMA ReadExactStep ==
    ASSUME TypeOK, WatchTypes, OnceOnly, ReadExact, [WatchNext]_watchVars
    PROVE  ReadExact'
<1> SUFFICES ASSUME fetching', NEW id \in Ids
             PROVE  /\ Expected(id)' => id \in candidates' \/ rows'[id] # None
                    /\ resolvedAt'[id] # None /\ resolvedAt'[id] < readAt'
                         => rows'[id] = None
  BY DEF ReadExact
<1> DEFINE Goal == /\ Expected(id)' => id \in candidates' \/ rows'[id] # None
                   /\ resolvedAt'[id] # None /\ resolvedAt'[id] < readAt'
                        => rows'[id] = None
<1>1. CASE ReadEvents
  <2>1. /\ candidates' = ProposedIds \ ResolvedIds /\ rows' = NoRows /\ readAt' = now
        /\ UNCHANGED <<vars, resolvedAt>>
    BY <1>1 DEF ReadEvents
  <2>2. rows'[id] = None
    BY <2>1 DEF NoRows
  <2>3. ASSUME Expected(id)' PROVE id \in candidates'
    <3>1. /\ Pending(id) /\ proposedAt[id] >= now - Lookback
      BY <2>1, <2>3 DEF Expected, Pending, vars
    <3>2. id < nextId /\ resolvedAt[id] = None
      BY <3>1 DEF OnceOnly
    <3>3. proposedAt[id] # None
      BY LookbackAssumption DEF TypeOK
    <3> QED
      BY <2>1, <3>1, <3>2, <3>3 DEF ProposedIds, ResolvedIds, Recent
  <2> QED
    BY <2>2, <2>3
<1>2. CASE ~ReadEvents /\ fetching
  <2>1. /\ Expected(id) => id \in candidates \/ rows[id] # None
        /\ resolvedAt[id] # None /\ resolvedAt[id] < readAt => rows[id] = None
    BY <1>2 DEF ReadExact
  <2>2. ASSUME NEW other \in Ids, ReadProposal(other) PROVE Goal
    <3>1. /\ candidates' = candidates \ {other}
          /\ rows' = [rows EXCEPT ![other] = proposals[other]]
          /\ UNCHANGED <<vars, resolvedAt, readAt>>
      BY <2>2 DEF ReadProposal, RowFor
    <3>2. Expected(id)' => Expected(id) /\ proposals[id] # None
      BY <3>1 DEF Expected, Pending, vars
    <3>3. resolvedAt[id] # None => proposals[id] = None
      BY DEF OnceOnly, Pending
    <3>4. rows'[id] = IF id = other THEN proposals[id] ELSE rows[id]
      BY <3>1 DEF WatchTypes
    <3> QED
      BY <2>1, <3>1, <3>2, <3>3, <3>4
  <2>3. CASE UNCHANGED <<candidates, rows, readAt>>
    <3>1. Expected(id)' => Expected(id)
      <4> SUFFICES ASSUME Expected(id)' PROVE Expected(id)
        OBVIOUS
      <4>1. /\ proposals'[id] # None /\ proposedAt'[id] < readAt
            /\ proposedAt'[id] >= readAt - Lookback
        BY <2>3 DEF Expected, Pending
      <4>2. proposedAt'[id] # now
        BY <4>1 DEF WatchTypes, TypeOK
      <4>3. proposals'[id] = proposals[id] /\ proposedAt'[id] = proposedAt[id]
        BY <4>1, <4>2, WatchSteps, ProposalsMove
      <4> QED
        BY <4>1, <4>3 DEF Expected, Pending
    <3>2. \/ resolvedAt'[id] = resolvedAt[id]
          \/ resolvedAt'[id] = now
      BY ResolvedMoves
    <3>3. readAt <= now /\ readAt \in Int /\ now \in Int
      BY DEF WatchTypes, TypeOK
    <3> QED
      BY <2>1, <2>3, <3>1, <3>2, <3>3
  <2>4. ~Show /\ \A other \in Ids, a \in Accounts : ~CancelRow(a, other)
    BY DEF Show, CancelRow
  <2> QED
    BY <1>2, <2>2, <2>3, <2>4
       DEF WatchNext, ChainStep, Resolution, panelVars, watchVars
<1>3. CASE ~ReadEvents /\ ~fetching
  BY <1>3 DEF WatchNext, ChainStep, Resolution, panelVars, ReadProposal, Show,
              CancelRow, watchVars
<1> QED
  BY <1>1, <1>2, <1>3

WatchInv ==
    /\ TypeOK /\ EtaIsHonest /\ WatchTypes /\ OnceOnly
    /\ Faithful(rows) /\ Faithful(shown) /\ ReadExact

LEMMA WatchInvInit == WatchInit => WatchInv
<1> SUFFICES ASSUME WatchInit PROVE WatchInv
  OBVIOUS
<1>1. TypeOK /\ EtaIsHonest /\ proposals = [id \in Ids |-> None]
  BY TypeInit, EtaInit DEF WatchInit, Init
<1>2. WatchTypes
  <2>1. now = 0 /\ readAt = 0 /\ fetching = FALSE /\ candidates = {}
    BY DEF WatchInit, Init
  <2>2. /\ resolvedAt \in [Ids -> Nat \cup {None}]
        /\ rows \in [Ids -> Proposal \cup {None}]
        /\ shown \in [Ids -> Proposal \cup {None}]
    BY DEF WatchInit, NoRows
  <2>3. fetching \in BOOLEAN /\ candidates \subseteq Ids
    BY <2>1
  <2>4. readAt \in Nat /\ readAt <= now
    BY <2>1
  <2> QED
    BY <2>2, <2>3, <2>4 DEF WatchTypes
<1>3. OnceOnly /\ Faithful(rows) /\ Faithful(shown) /\ ReadExact
  BY <1>1 DEF WatchInit, OnceOnly, Faithful, ReadExact, NoRows, Pending
<1> QED
  BY <1>1, <1>2, <1>3 DEF WatchInv

LEMMA WatchInvStep == WatchInv /\ [WatchNext]_watchVars => WatchInv'
  BY WatchSteps, TypeStep, EtaStep, WatchTypesStep, OnceStep, RowsStep, ReadExactStep
     DEF WatchInv

LEMMA WatchInvariant == WatchSpec => []WatchInv
  BY WatchInvInit, WatchInvStep, PTL DEF WatchSpec

\* A row whose proposal is still pending says what will be executed, however long
\* ago it was read and whatever was resolved, proposed or cancelled since
\* (timelockProposals.ts, TimelockPanel), for any number of proposals.
THEOREM RowsTellTheTruth == WatchSpec => []RowsAreTrue
<1>1. WatchInv => RowsAreTrue
  BY DEF WatchInv, Faithful, RowsAreTrue
<1> QED
  BY <1>1, WatchInvariant, PTL

\* Candidates asked for one by one while the timelock moves miss no pending
\* proposal the events told of (fetchPendingProposals), whatever the lookback;
\* and nothing resolved before the read began is shown.
THEOREM QueueIsWithinLookback == WatchSpec => QueueExact
<1>1. WatchInv /\ [WatchNext]_watchVars =>
        [ Show => \A id \in Ids :
            /\ Expected(id) => shown'[id] # None
            /\ resolvedAt[id] # None /\ resolvedAt[id] < readAt
                  => shown'[id] = None ]_watchVars
  BY DEF WatchInv, ReadExact, Show
<1> QED
  BY <1>1, WatchInvariant, PTL DEF WatchSpec, QueueExact
=============================================================================
