--------------------------- MODULE FeeGovernance ---------------------------
(***************************************************************************)
(* contracts/timelock and the fee half of contracts/risk-engine: proposals *)
(* that anyone makes, that wait out a delay, that the timelock's admin may *)
(* cancel and that anyone then executes, against a fee whose admin may be  *)
(* an account or the timelock itself.  A call that returns an error rolls  *)
(* back, the execute() around it included, so it is no step.               *)
(***************************************************************************)
EXTENDS Integers

CONSTANTS
    Accounts,       \* addresses that sign for themselves
    Timelock,       \* the timelock contract's own address
    None,           \* an absent storage entry
    Fees,           \* fees a caller asks for, in bps
    MaxFee,         \* MAX_FEE_BPS
    ProposalDelay,  \* PROPOSAL_DELAY
    MaxProposals,   \* bound on the number of proposals
    MaxTime         \* bound on the ledger clock

Addresses == Accounts \cup {Timelock}
Ids == 0 .. MaxProposals - 1

\* Calls of the risk engine a proposal may carry.  `admin` is the address whose
\* authority the call claims; a contract has it only in calls it makes itself.
Call ==
    [fn: {"init_admin"}, admin: Addresses]
      \cup [fn: {"transfer_admin"}, admin: Addresses, new: Addresses]
      \cup [fn: {"set_fee_bps"}, admin: Addresses, fee: Fees]

Proposal == [call: Call, eta: Int]

ASSUME AddressAssumption == Timelock \notin Accounts /\ None \notin Addresses
ASSUME FeeAssumption == MaxFee \in Nat /\ \A f \in Fees : f \in Nat
ASSUME ClockAssumption ==
    /\ ProposalDelay \in Nat /\ MaxTime \in Nat /\ MaxProposals \in Nat
    /\ None \notin Proposal

VARIABLES
    now,        \* ledger timestamp
    nextId,     \* timelock DataKey::NextId
    proposals,  \* timelock DataKey::Proposal(id)
    canceller,  \* timelock DataKey::Admin
    feeAdmin,   \* risk-engine DataKey::Admin
    fee,        \* risk-engine DataKey::FeeBps, 0 when absent
    proposedAt  \* history: when each proposal was made

timelockVars == <<nextId, proposals, canceller, proposedAt>>
vars == <<now, nextId, proposals, canceller, feeAdmin, fee, proposedAt>>

TypeOK ==
    /\ now \in Nat
    /\ nextId \in 0 .. MaxProposals
    /\ proposals \in [Ids -> Proposal \cup {None}]
    /\ canceller \in Accounts \cup {None}
    /\ feeAdmin \in Addresses \cup {None}
    /\ fee \in 0 .. MaxFee
    /\ proposedAt \in [Ids -> Nat]

Init ==
    /\ now = 0
    /\ nextId = 0
    /\ proposals = [id \in Ids |-> None]
    /\ canceller = None
    /\ feeAdmin = None
    /\ fee = 0
    /\ proposedAt = [id \in Ids |-> 0]

-----------------------------------------------------------------------------
\* The risk engine.  The admin's authority has been established by the caller.

InitAdmin(admin) ==
    /\ feeAdmin = None
    /\ feeAdmin' = admin
    /\ UNCHANGED fee

TransferAdmin(admin, new) ==
    /\ feeAdmin = admin
    /\ feeAdmin' = new
    /\ UNCHANGED fee

SetFeeBps(admin, f) ==
    /\ feeAdmin = admin
    /\ f <= MaxFee
    /\ fee' = f
    /\ UNCHANGED feeAdmin

Invoke(call) ==
    \/ call.fn = "init_admin" /\ InitAdmin(call.admin)
    \/ call.fn = "transfer_admin" /\ TransferAdmin(call.admin, call.new)
    \/ call.fn = "set_fee_bps" /\ SetFeeBps(call.admin, call.fee)

\* An account calls the engine with its own signature.
CallDirectly(call) ==
    /\ call.admin \in Accounts
    /\ Invoke(call)
    /\ UNCHANGED <<now, timelockVars>>

-----------------------------------------------------------------------------
\* The timelock.
InitTimelock(a) ==
    /\ canceller = None
    /\ canceller' = a
    /\ UNCHANGED <<now, nextId, proposals, feeAdmin, fee, proposedAt>>

\* Mutant of Eta: no delay.
EtaNow == now

Eta == now + ProposalDelay
FreshId == nextId

\* Anyone proposes anything.
Propose(call) ==
    /\ nextId < MaxProposals
    /\ proposals' = [proposals EXCEPT ![FreshId] = [call |-> call, eta |-> Eta]]
    /\ nextId' = nextId + 1
    /\ proposedAt' = [proposedAt EXCEPT ![FreshId] = now]
    /\ UNCHANGED <<now, canceller, feeAdmin, fee>>

Ripe(id) ==
    /\ proposals[id] # None
    /\ now >= proposals[id].eta

\* Anyone executes.  The engine sees the timelock as its caller; where the
\* proposal names an account instead, that account signs the call too.
Execute(id) ==
    /\ Ripe(id)
    /\ Invoke(proposals[id].call)
    /\ proposals' = [proposals EXCEPT ![id] = None]
    /\ UNCHANGED <<now, nextId, canceller, proposedAt>>

Cancel(a, id) ==
    /\ canceller = a
    /\ proposals[id] # None
    /\ proposals' = [proposals EXCEPT ![id] = None]
    /\ UNCHANGED <<now, nextId, canceller, feeAdmin, fee, proposedAt>>

Tick ==
    /\ now < MaxTime
    /\ now' = now + 1
    /\ UNCHANGED <<timelockVars, feeAdmin, fee>>

Next ==
    \/ Tick
    \/ \E call \in Call : CallDirectly(call) \/ Propose(call)
    \/ \E a \in Accounts :
        \/ InitTimelock(a)
        \/ \E id \in Ids : Cancel(a, id)
    \/ \E id \in Ids : Execute(id)

Spec == Init /\ [][Next]_vars

-----------------------------------------------------------------------------
\* While the timelock is the fee admin, neither the fee nor its admin changes
\* but by a proposal that was on chain, open to cancellation, for the whole
\* delay, and that claims the timelock's own authority ("raising a fee
\* genuinely requires a proposal that survived the 24h delay", init_admin; "a
\* later caller can't silently take over the fee-setting role").
ChangeWaitsOut ==
    [][ feeAdmin = Timelock /\ (fee' # fee \/ feeAdmin' # feeAdmin) =>
          \E id \in Ids :
              /\ proposals[id] # None
              /\ proposals[id].call.admin = Timelock
              /\ now >= proposedAt[id] + ProposalDelay
              /\ proposals'[id] = None ]_vars

\* A proposal that was executed or cancelled is gone for good, and one that is
\* pending keeps its call and its eta: no identifier is used twice.
NeverReused ==
    [][ \A id \in Ids : id < nextId =>
            proposals'[id] \in {proposals[id], None} ]_vars
=============================================================================
