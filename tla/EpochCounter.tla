---------------------------- MODULE EpochCounter ----------------------------
(***************************************************************************)
(* The storage the three spend policies share, function for function:      *)
(* policy-venue, policy-session and policy-swap each have this install,    *)
(* this uninstall and this bump_epoch_spend.  The counter of an epoch is a *)
(* temporary entry, which the ledger deletes when its time to live is up;  *)
(* LastWriteEpoch is persistent and stays.  One account and context rule.  *)
(***************************************************************************)
EXTENDS Integers

CONSTANTS
    Absent,            \* an absent storage entry
    Configs,           \* candidate configurations, valid or not
    Amounts,           \* amounts a call may spend; session and swap refuse a
                       \* negative one, venue leaves that to the pool
    SecondsPerLedger,  \* SECONDS_PER_LEDGER
    U32,               \* 2^32, scaled down
    MinTemporaryTtl,   \* external: ledgers a new temporary entry lives
    CloseTimes,        \* external: seconds a ledger may take to close
    MaxTime            \* bound on the ledger clock

VARIABLES
    now,        \* ledger timestamp
    config,     \* DataKey::Config
    counter,    \* DataKey::EpochSpend(epoch), with the ledgers left to it
    lastWrite,  \* DataKey::LastWriteEpoch
    used,       \* history: really spent, by epoch, since the installation
    hasty       \* history: a ledger took less than half of SECONDS_PER_LEDGER

counterVars == <<now, config, counter, lastWrite, used, hasty>>

Config == [perCallCap: Nat, epochCap: Nat, epochLength: Nat]
Epochs == 0 .. MaxTime
Entry == [spent: Nat, ttl: Nat]

ASSUME SpendAssumption ==
    /\ Configs \subseteq Config
    /\ Amounts \subseteq Nat
ASSUME LedgerAssumption ==
    /\ SecondsPerLedger \in Nat \ {0} /\ U32 \in Nat \ {0}
    /\ MinTemporaryTtl \in Nat \ {0} /\ MaxTime \in Nat
    /\ CloseTimes \subseteq Nat
ASSUME AbsentEntry == Absent \notin Config /\ Absent \notin Entry /\ Absent \notin Nat

CounterTypeOK ==
    /\ now \in 0 .. MaxTime
    /\ config \in Configs \cup {Absent}
    /\ config # Absent => config.epochLength > 0
    /\ counter \in [Epochs -> Entry \cup {Absent}]
    /\ lastWrite \in Epochs \cup {Absent}
    /\ used \in [Epochs -> Nat]
    /\ hasty \in BOOLEAN

CounterInit ==
    /\ now = 0
    /\ config = Absent
    /\ counter = [e \in Epochs |-> Absent]
    /\ lastWrite = Absent
    /\ used = [e \in Epochs |-> 0]
    /\ hasty = FALSE

-----------------------------------------------------------------------------
\* The part of InvalidConfig that concerns the counter.
ValidConfig(c) ==
    /\ c.perCallCap > 0
    /\ c.epochCap >= c.perCallCap
    /\ c.epochLength > 0

\* Mutant of Install: no AlreadyInstalled, the configuration is replaced.
InstallOverAnother(c) ==
    /\ ValidConfig(c)
    /\ config' = c
    /\ used' = [e \in Epochs |-> 0]
    /\ UNCHANGED <<now, counter, lastWrite, hasty>>

Install(c) ==
    /\ ValidConfig(c)
    /\ config = Absent
    /\ config' = c
    /\ used' = [e \in Epochs |-> 0]
    /\ UNCHANGED <<now, counter, lastWrite, hasty>>

\* The configuration and the mark go; a counter stays until its time is up.
Uninstall ==
    /\ config # Absent
    /\ config' = Absent
    /\ lastWrite' = Absent
    /\ UNCHANGED <<now, counter, used, hasty>>

\* epoch_index; 0 while nothing is installed.
Epoch == IF config = Absent THEN 0 ELSE now \div config.epochLength

\* Mutant of TtlLedgers: one epoch instead of four.
TtlLedgersSingle == config.epochLength \div SecondsPerLedger

\* (epoch_length / SECONDS_PER_LEDGER) as u32, times 4 with saturation.
TtlLedgers ==
    LET n == ((config.epochLength \div SecondsPerLedger) % U32) * 4
    IN IF n < U32 THEN n ELSE U32 - 1

CurrentSpent == IF counter[Epoch] = Absent THEN 0 ELSE counter[Epoch].spent

\* A new entry gets the network's minimum; extend_ttl never shortens a life.
TtlAfter ==
    LET before == IF counter[Epoch] = Absent THEN MinTemporaryTtl - 1
                                           ELSE counter[Epoch].ttl
    IN IF before < TtlLedgers THEN TtlLedgers ELSE before

\* Mutant of CounterTrusted: the mark is not consulted.
CounterTrustedAlways == TRUE

\* The fail-closed rule: an epoch that was written to and has no counter is
\* an error (BadState), not an epoch in which nothing was spent.
CounterTrusted == counter[Epoch] = Absent => lastWrite # Epoch

\* Mutant of Bump: the counter is overwritten instead of added to.
BumpForgetful(amount) ==
    /\ CounterTrusted
    /\ CurrentSpent + amount <= config.epochCap
    /\ counter' = [counter EXCEPT
                     ![Epoch] = [spent |-> amount, ttl |-> TtlAfter]]
    /\ lastWrite' = Epoch
    /\ used' = [used EXCEPT ![Epoch] = @ + amount]
    /\ UNCHANGED <<now, config, hasty>>

\* bump_epoch_spend.
Bump(amount) ==
    /\ CounterTrusted
    /\ CurrentSpent + amount <= config.epochCap
    /\ counter' = [counter EXCEPT
                     ![Epoch] = [spent |-> CurrentSpent + amount,
                                 ttl |-> TtlAfter]]
    /\ lastWrite' = Epoch
    /\ used' = [used EXCEPT ![Epoch] = @ + amount]
    /\ UNCHANGED <<now, config, hasty>>

\* A spend some policy accepts: within the limit for one call.
SpendWithinCall(amount) ==
    /\ config # Absent
    /\ amount <= config.perCallCap
    /\ Bump(amount)

\* The ledger closes d seconds later and drops the entries that were at their
\* last ledger.
CloseLedger(d) ==
    /\ now + d <= MaxTime
    /\ now' = now + d
    /\ hasty' = (hasty \/ 2 * d < SecondsPerLedger)
    /\ counter' = [e \in Epochs |->
                     IF counter[e] = Absent \/ counter[e].ttl = 0 THEN Absent
                     ELSE [counter[e] EXCEPT !.ttl = @ - 1]]
    /\ UNCHANGED <<config, lastWrite, used>>

CounterNext ==
    \/ \E c \in Configs : Install(c)
    \/ Uninstall
    \/ \E a \in Amounts : SpendWithinCall(a)
    \/ \E d \in CloseTimes : CloseLedger(d)

CounterSpec == CounterInit /\ [][CounterNext]_counterVars

-----------------------------------------------------------------------------
\* Whatever the ledger deletes and whenever, no epoch of an installation
\* really spends more than its cap ("silently resetting whatever cap it was
\* tracking back to unspent", adr/0003, is what this excludes).
CapPerEpoch ==
    config # Absent => \A e \in Epochs : used[e] <= config.epochCap

\* As long as no ledger takes less than half of SECONDS_PER_LEDGER, a counter
\* outlives its epoch: the BadState refusal, which would shut the policy until
\* the next epoch, is never met, reinstallations with other lengths included.
NeverLockedOut == hasty \/ (config # Absent => CounterTrusted)

Budget == INSTANCE EpochBudget WITH
    budget <- IF config = Absent THEN Absent ELSE config.epochCap,
    epoch <- Epoch,
    spent <- IF config = Absent THEN 0 ELSE used[Epoch]

\* Seen through what was really spent, the storage is an epoch budget.
ImplementsEpochBudget == Budget!Spec
=============================================================================
