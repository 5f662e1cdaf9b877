--------------------------- MODULE SpendingProofs ---------------------------
(***************************************************************************)
(* What may leave the vault.  EpochCounter for every set of configurations *)
(* and amounts, every pace of the ledger and every time to live;           *)
(* SelfRescue for every set of admins and every threshold; VaultCalls, the *)
(* two spending loops, for every target, limit, gap, price and life of a   *)
(* transaction.                                                            *)
(***************************************************************************)
EXTENDS EpochCounter, SelfRescue, VaultCalls, TLAPS

\* What was really spent in an epoch is what its counter says or less, or the
\* counter is gone; then LastWriteEpoch, which no spend of this installation
\* lies beyond, tells whether the epoch is the one that must not be reset.
Covered ==
    config # Absent => \A e \in Epochs :
        counter[e] # Absent => used[e] <= counter[e].spent

Marked ==
    config # Absent => \A e \in Epochs :
        used[e] > 0 => lastWrite # Absent /\ e <= lastWrite

MarkPast == lastWrite # Absent => config # Absent /\ lastWrite <= Epoch

IInv == CounterTypeOK /\ Covered /\ Marked /\ MarkPast /\ CapPerEpoch

-----------------------------------------------------------------------------
\* Epochs are numbered within the clock's bound, and never run backwards.
LEMMA EpochOfTime ==
    ASSUME NEW t \in Nat, NEW L \in Nat, L > 0
    PROVE  t \div L \in 0 .. t
BY SMT

LEMMA EpochsAdvance ==
    ASSUME NEW t \in Nat, NEW u \in Nat, t <= u, NEW L \in Nat, L > 0
    PROVE  t \div L <= u \div L
BY SMT

LEMMA EpochTyped ==
    CounterTypeOK => Epoch \in Epochs /\ Epoch \in Nat
<1> SUFFICES ASSUME CounterTypeOK
             PROVE  Epoch \in Epochs /\ Epoch \in Nat
  OBVIOUS
<1>1. now \in Nat /\ now <= MaxTime /\ MaxTime \in Nat
  BY LedgerAssumption DEF CounterTypeOK
<1>2. CASE config = Absent
  BY <1>1, <1>2 DEF Epoch, Epochs
<1>3. CASE config # Absent
  <2>1. config.epochLength \in Nat /\ config.epochLength > 0
    BY <1>3, SpendAssumption DEF CounterTypeOK, Config
  <2>2. now \div config.epochLength \in 0 .. now
    BY <1>1, <2>1, EpochOfTime
  <2> QED
    BY <1>1, <1>3, <2>2 DEF Epoch, Epochs
<1> QED
  BY <1>2, <1>3

LEMMA TtlTyped ==
    ASSUME CounterTypeOK, config # Absent PROVE TtlAfter \in Nat
<1>1. config.epochLength \in Nat
  BY SpendAssumption DEF CounterTypeOK, Config
<1>2. TtlLedgers \in Nat
  BY <1>1, LedgerAssumption, SMT DEF TtlLedgers
<1>3. counter[Epoch] \in Entry \cup {Absent}
  BY EpochTyped DEF CounterTypeOK
<1> QED
  BY <1>2, <1>3, LedgerAssumption, SMT DEF TtlAfter, Entry

\* The heart of the rule: a spend that passes CounterTrusted starts from a
\* number no smaller than what the epoch has really spent.
LEMMA TrustedCounterCovers ==
    ASSUME IInv, config # Absent, CounterTrusted
    PROVE  CurrentSpent \in Nat /\ used[Epoch] <= CurrentSpent
<1>1. Epoch \in Epochs /\ Epoch \in Nat
  BY EpochTyped DEF IInv
<1>2. CASE counter[Epoch] = Absent
  <2>1. lastWrite # Epoch
    BY <1>2 DEF CounterTrusted
  <2>2. used[Epoch] \in Nat
    BY <1>1 DEF IInv, CounterTypeOK
  <2>3. lastWrite # Absent => lastWrite \in Nat /\ lastWrite <= Epoch
    BY LedgerAssumption DEF IInv, MarkPast, CounterTypeOK, Epochs
  <2>4. used[Epoch] > 0 => lastWrite # Absent /\ Epoch <= lastWrite
    BY <1>1 DEF IInv, Marked
  <2>5. used[Epoch] = 0
    BY <1>1, <2>1, <2>2, <2>3, <2>4
  <2> QED
    BY <1>2, <2>5 DEF CurrentSpent
<1>3. CASE counter[Epoch] # Absent
  <2>1. counter[Epoch] \in Entry
    BY <1>1, <1>3 DEF IInv, CounterTypeOK
  <2> QED
    BY <1>1, <1>3, <2>1 DEF IInv, Covered, CurrentSpent, Entry
<1> QED
  BY <1>2, <1>3

-----------------------------------------------------------------------------
LEMMA InitIInv == CounterInit => IInv
<1> SUFFICES ASSUME CounterInit PROVE IInv
  OBVIOUS
<1>1. CounterTypeOK
  <2>1. hasty \in BOOLEAN
    BY DEF CounterInit
  <2>2. MaxTime \in Nat /\ now = 0
    BY LedgerAssumption DEF CounterInit
  <2> QED
    BY <2>1, <2>2 DEF CounterInit, CounterTypeOK, Epochs
<1> QED
  BY <1>1 DEF CounterInit, IInv, Covered, Marked, MarkPast, CapPerEpoch

LEMMA InstallKeepsIInv ==
    ASSUME IInv, NEW c \in Configs, Install(c) PROVE IInv'
<1>1. c \in Config /\ c # Absent /\ c.epochLength > 0 /\ c.epochCap >= 0
  BY SpendAssumption, AbsentEntry DEF Install, ValidConfig, Config
<1>2. used' = [e \in Epochs |-> 0]
  BY DEF Install
<1>3. CounterTypeOK'
  BY <1>1, <1>2 DEF IInv, CounterTypeOK, Install
<1>4. Covered' /\ Marked' /\ CapPerEpoch'
  <2>1. \A e \in Epochs : counter'[e] # Absent => counter'[e] \in Entry
    BY <1>3 DEF CounterTypeOK
  <2> QED
    BY <1>1, <1>2, <2>1 DEF Covered, Marked, CapPerEpoch, Install, Entry
<1>5. MarkPast'
  BY DEF IInv, MarkPast, Install
<1> QED
  BY <1>3, <1>4, <1>5 DEF IInv

LEMMA UninstallKeepsIInv ==
    ASSUME IInv, Uninstall PROVE IInv'
BY DEF IInv, Uninstall, CounterTypeOK, Covered, Marked, MarkPast, CapPerEpoch

LEMMA BumpKeepsIInv ==
    ASSUME IInv, config # Absent, NEW amount \in Nat, Bump(amount)
    PROVE  IInv'
<1>1. Epoch \in Epochs /\ Epoch \in Nat
  BY EpochTyped DEF IInv
<1>2. CurrentSpent \in Nat /\ used[Epoch] <= CurrentSpent
  BY TrustedCounterCovers DEF Bump
<1>3. used[Epoch] \in Nat /\ TtlAfter \in Nat
  BY <1>1, TtlTyped DEF IInv, CounterTypeOK
<1>4. used' = [used EXCEPT ![Epoch] = used[Epoch] + amount]
      /\ counter' = [counter EXCEPT ![Epoch] =
                       [spent |-> CurrentSpent + amount, ttl |-> TtlAfter]]
      /\ lastWrite' = Epoch /\ now' = now /\ config' = config
  BY DEF Bump
<1>5. [spent |-> CurrentSpent + amount, ttl |-> TtlAfter] \in Entry
  BY <1>2, <1>3 DEF Entry
<1>6. CounterTypeOK'
  <2>1. hasty' \in BOOLEAN
    BY DEF Bump, IInv, CounterTypeOK
  <2>2. /\ counter' \in [Epochs -> Entry \cup {Absent}]
        /\ used' \in [Epochs -> Nat] /\ lastWrite' \in Epochs \cup {Absent}
    BY <1>1, <1>3, <1>4, <1>5 DEF IInv, CounterTypeOK
  <2> QED
    BY <1>4, <2>1, <2>2 DEF IInv, CounterTypeOK
<1>7. Covered'
  BY <1>1, <1>2, <1>3, <1>4, <1>5 DEF IInv, Covered, CounterTypeOK
<1>8. Marked'
  <2> SUFFICES ASSUME NEW e \in Epochs, used'[e] > 0
               PROVE  lastWrite' # Absent /\ e <= lastWrite'
    BY DEF Marked
  <2>1. Epoch # Absent
    BY <1>1, AbsentEntry
  <2>2. CASE e = Epoch
    BY <1>1, <1>4, <2>1, <2>2
  <2>3. CASE e # Epoch
    <3>1. used[e] > 0
      BY <1>4, <2>3 DEF IInv, CounterTypeOK
    <3>2. lastWrite # Absent /\ e <= lastWrite /\ lastWrite <= Epoch
      BY <3>1 DEF IInv, Marked, MarkPast
    <3>3. e \in Nat /\ lastWrite \in Nat
      BY <3>2, LedgerAssumption DEF IInv, CounterTypeOK, Epochs
    <3> QED
      BY <1>1, <1>4, <2>1, <3>2, <3>3
  <2> QED
    BY <2>2, <2>3
<1>9. MarkPast'
  <2>1. Epoch' = Epoch
    BY <1>4 DEF Epoch
  <2> QED
    BY <1>1, <1>4, <2>1 DEF MarkPast
<1>10. CapPerEpoch'
  <2>1. CurrentSpent + amount <= config.epochCap /\ config.epochCap \in Nat
    BY SpendAssumption DEF Bump, IInv, CounterTypeOK, Config
  <2>2. used[Epoch] + amount <= config.epochCap
    BY <1>2, <1>3, <2>1
  <2> QED
    BY <1>1, <1>4, <2>2 DEF IInv, CapPerEpoch, CounterTypeOK
<1> QED
  BY <1>6, <1>7, <1>8, <1>9, <1>10 DEF IInv

\* The ledger's clock moves an installed policy's epoch forward or not at all.
LEMMA ClockAdvancesEpoch ==
    ASSUME CounterTypeOK, NEW d \in CloseTimes, CloseLedger(d)
    PROVE  Epoch' \in Nat /\ Epoch <= Epoch'
<1>1. /\ now \in Nat /\ now' \in Nat /\ now <= now' /\ config' = config
  BY LedgerAssumption DEF CounterTypeOK, CloseLedger
<1>2. CASE config = Absent
  BY <1>1, <1>2 DEF Epoch
<1>3. CASE config # Absent
  <2>1. config.epochLength \in Nat /\ config.epochLength > 0
    BY <1>3, SpendAssumption DEF CounterTypeOK, Config
  <2>2. now \div config.epochLength <= now' \div config.epochLength
    BY <1>1, <2>1, EpochsAdvance
  <2>3. now' \div config.epochLength \in 0 .. now'
    BY <1>1, <2>1, EpochOfTime
  <2> QED
    BY <1>1, <1>3, <2>2, <2>3 DEF Epoch
<1> QED
  BY <1>2, <1>3

LEMMA CloseLedgerKeepsIInv ==
    ASSUME IInv, NEW d \in CloseTimes, CloseLedger(d) PROVE IInv'
<1>1. now' \in 0 .. MaxTime
  BY LedgerAssumption DEF IInv, CounterTypeOK, CloseLedger
<1>2. ASSUME NEW e \in Epochs
      PROVE  /\ counter'[e] \in Entry \cup {Absent}
             /\ counter'[e] # Absent =>
                  counter[e] # Absent /\ counter'[e].spent = counter[e].spent
  <2>1. counter[e] \in Entry \cup {Absent}
    BY DEF IInv, CounterTypeOK
  <2>2. counter'[e] = IF counter[e] = Absent \/ counter[e].ttl = 0 THEN Absent
                      ELSE [counter[e] EXCEPT !.ttl = counter[e].ttl - 1]
    BY DEF CloseLedger
  <2> QED
    BY <2>1, <2>2, AbsentEntry DEF Entry
<1>3. CounterTypeOK'
  <2>1. counter' = [e \in Epochs |-> counter'[e]]
    BY DEF CloseLedger
  <2>2. counter' \in [Epochs -> Entry \cup {Absent}]
    BY <1>2, <2>1
  <2> QED
    BY <1>1, <2>2 DEF IInv, CounterTypeOK, CloseLedger
<1>4. Covered'
  BY <1>2 DEF IInv, Covered, CloseLedger
<1>5. Marked' /\ CapPerEpoch'
  BY DEF IInv, Marked, CapPerEpoch, CloseLedger
<1>6. MarkPast'
  <2>1. Epoch' \in Nat /\ Epoch <= Epoch' /\ Epoch \in Nat
    BY ClockAdvancesEpoch, EpochTyped DEF IInv
  <2> QED
    BY <2>1, LedgerAssumption
    DEF IInv, MarkPast, CounterTypeOK, Epochs, CloseLedger
<1> QED
  BY <1>3, <1>4, <1>5, <1>6 DEF IInv
-----------------------------------------------------------------------------
LEMMA NextKeepsIInv ==
    IInv /\ [CounterNext]_counterVars => IInv'
<1> SUFFICES ASSUME IInv, [CounterNext]_counterVars PROVE IInv'
  OBVIOUS
<1>1. ASSUME NEW c \in Configs, Install(c) PROVE IInv'
  BY <1>1, InstallKeepsIInv
<1>2. CASE Uninstall
  BY <1>2, UninstallKeepsIInv
<1>3. ASSUME NEW a \in Amounts, SpendWithinCall(a) PROVE IInv'
  <2>1. a \in Nat /\ config # Absent /\ Bump(a)
    BY <1>3, SpendAssumption DEF SpendWithinCall
  <2> QED
    BY <2>1, BumpKeepsIInv
<1>4. ASSUME NEW d \in CloseTimes, CloseLedger(d) PROVE IInv'
  BY <1>4, CloseLedgerKeepsIInv
<1>5. CASE UNCHANGED counterVars
  BY <1>5 DEF counterVars, IInv, CounterTypeOK, Covered, Marked, MarkPast,
              CapPerEpoch, Epoch
<1> QED
  BY <1>1, <1>2, <1>3, <1>4, <1>5 DEF CounterNext

\* The strengthening holds of every behaviour.
LEMMA CounterInvariance == CounterSpec => []IInv
BY InitIInv, NextKeepsIInv, PTL DEF CounterSpec

\* The storage keeps its types: a configuration that got in has epochs of
\* some length, and the epoch written last is one the clock can name.
THEOREM CounterTypes == CounterSpec => []CounterTypeOK
<1>1. IInv => CounterTypeOK
  BY DEF IInv
<1> QED
  BY <1>1, CounterInvariance, PTL

\* No installation of a spend policy lets more than its cap through in one of
\* its epochs, whenever the ledger deletes a counter.
THEOREM CapHolds == CounterSpec => []CapPerEpoch
<1>1. IInv => CapPerEpoch
  BY DEF IInv
<1> QED
  BY <1>1, CounterInvariance, PTL
-----------------------------------------------------------------------------
\* The budget an installed configuration stands for.
LEMMA InstalledBudget ==
    ASSUME CounterTypeOK, config # Absent
    PROVE  config.epochCap \in Nat /\ config.epochCap # Absent
BY SpendAssumption, AbsentEntry DEF CounterTypeOK, Config

LEMMA InstallRefines ==
    ASSUME IInv, IInv', NEW c \in Configs, Install(c) PROVE Budget!Install
<1>1. c \in Config /\ c # Absent /\ c.epochLength > 0
  BY SpendAssumption, AbsentEntry DEF Install, ValidConfig
<1>2. c.epochCap \in Nat /\ config = Absent /\ config' = c /\ now' = now
      /\ used' = [e \in Epochs |-> 0]
  BY <1>1 DEF Install, Config
<1>3. now' \in 0 .. MaxTime /\ MaxTime \in Nat
  BY LedgerAssumption DEF IInv, CounterTypeOK
<1>4. c.epochLength \in Nat /\ c.epochLength > 0
  BY <1>1 DEF Config
<1>5. now' \div c.epochLength \in 0 .. now'
  BY <1>3, <1>4, EpochOfTime
<1>6. Epoch' = now' \div c.epochLength
  BY <1>1, <1>2 DEF Epoch
<1>7. Epoch' \in Epochs /\ Epoch' \in Nat
  BY <1>3, <1>5, <1>6 DEF Epochs
<1>8. used'[Epoch'] = 0
  BY <1>2, <1>7
<1> QED
  BY <1>1, <1>2, <1>7, <1>8 DEF Budget!Install

LEMMA UninstallRefines ==
    ASSUME IInv, Uninstall PROVE Budget!Uninstall
BY InstalledBudget DEF Budget!Uninstall, Uninstall, Epoch, IInv

LEMMA BumpRefines ==
    ASSUME IInv, IInv', config # Absent, NEW amount \in Nat, Bump(amount)
    PROVE  Budget!Spend
<1>1. Epoch \in Epochs
  BY EpochTyped DEF IInv
<1>2. config' = config /\ Epoch' = Epoch
      /\ used' = [used EXCEPT ![Epoch] = used[Epoch] + amount]
  BY DEF Bump, Epoch
<1>3. used[Epoch] \in Nat /\ used'[Epoch] = used[Epoch] + amount
  BY <1>1, <1>2 DEF IInv, CounterTypeOK
<1>4. used'[Epoch] <= config.epochCap
  BY <1>1, <1>2 DEF IInv, CapPerEpoch
<1>5. config.epochCap # Absent
  BY InstalledBudget DEF IInv
<1> QED
  BY <1>2, <1>3, <1>4, <1>5 DEF Budget!Spend

\* A ledger that ends the epoch starts one nothing was spent in.
LEMMA CloseLedgerRefines ==
    ASSUME IInv, IInv', NEW d \in CloseTimes, CloseLedger(d)
    PROVE  Budget!NextEpoch \/ UNCHANGED Budget!vars
<1>1. Epoch' \in Nat /\ Epoch <= Epoch' /\ Epoch \in Nat
  BY ClockAdvancesEpoch, EpochTyped DEF IInv
<1>2. config' = config /\ used' = used /\ lastWrite' = lastWrite
  BY DEF CloseLedger
<1>3. CASE config = Absent
  BY <1>2, <1>3 DEF Budget!vars, Epoch
<1>4. CASE config # Absent /\ Epoch' = Epoch
  BY <1>2, <1>4 DEF Budget!vars
<1>5. CASE config # Absent /\ Epoch' # Epoch
  <2>1. Epoch' > Epoch
    BY <1>1, <1>5
  <2>2. now' \in 0 .. MaxTime /\ MaxTime \in Nat
    BY LedgerAssumption DEF IInv, CounterTypeOK
  <2>3. config.epochLength \in Nat /\ config.epochLength > 0
    BY <1>5, SpendAssumption DEF IInv, CounterTypeOK, Config
  <2>4. now' \div config.epochLength \in 0 .. now'
    BY <2>2, <2>3, EpochOfTime
  <2>5. Epoch' \in Epochs
    BY <1>2, <1>5, <2>2, <2>4 DEF Epoch, Epochs
  <2>6. used[Epoch'] \in Nat
    BY <2>5 DEF IInv, CounterTypeOK
  <2>7. used[Epoch'] > 0 => lastWrite # Absent /\ Epoch' <= lastWrite
    BY <1>5, <2>5 DEF IInv, Marked
  <2>8. lastWrite # Absent => lastWrite \in Nat /\ lastWrite <= Epoch
    BY LedgerAssumption DEF IInv, MarkPast, CounterTypeOK, Epochs
  <2>9. used'[Epoch'] = 0
    BY <1>1, <1>2, <2>1, <2>6, <2>7, <2>8
  <2>10. config.epochCap # Absent
    BY <1>5, InstalledBudget DEF IInv
  <2> QED
    BY <1>2, <1>5, <2>1, <2>9, <2>10 DEF Budget!NextEpoch
<1> QED
  BY <1>3, <1>4, <1>5

LEMMA NextRefines ==
    IInv /\ IInv' /\ [CounterNext]_counterVars => [Budget!Next]_Budget!vars
<1> SUFFICES ASSUME IInv, IInv', [CounterNext]_counterVars
             PROVE  Budget!Next \/ UNCHANGED Budget!vars
  OBVIOUS
<1>1. ASSUME NEW c \in Configs, Install(c) PROVE Budget!Next
  BY <1>1, InstallRefines DEF Budget!Next
<1>2. CASE Uninstall
  BY <1>2, UninstallRefines DEF Budget!Next
<1>3. ASSUME NEW a \in Amounts, SpendWithinCall(a) PROVE Budget!Next
  <2>1. a \in Nat /\ config # Absent /\ Bump(a)
    BY <1>3, SpendAssumption DEF SpendWithinCall
  <2> QED
    BY <2>1, BumpRefines DEF Budget!Next
<1>4. ASSUME NEW d \in CloseTimes, CloseLedger(d)
      PROVE  Budget!Next \/ UNCHANGED Budget!vars
  BY <1>4, CloseLedgerRefines DEF Budget!Next
<1>5. CASE UNCHANGED counterVars
  BY <1>5 DEF counterVars, Budget!vars, Epoch
<1> QED
  BY <1>1, <1>2, <1>3, <1>4, <1>5 DEF CounterNext

\* The counters, with their lives, their marks and their refusals, implement
\* a plain budget per epoch.
THEOREM CounterImplementsBudget == CounterSpec => ImplementsEpochBudget
<1>1. CounterInit => Budget!Init
  BY DEF CounterInit, Budget!Init, Epoch
<1> QED
  BY <1>1, CounterInvariance, NextRefines, PTL
  DEF CounterSpec, Budget!Spec, ImplementsEpochBudget
-----------------------------------------------------------------------------
\* How long a counter lives.
LEMMA DivBounds ==
    ASSUME NEW t \in Nat, NEW L \in Nat, L > 0
    PROVE  /\ t \div L \in Nat
           /\ (t \div L) * L <= t /\ t < (t \div L + 1) * L
  BY SMT

LEMMA ModSmall == ASSUME NEW n \in Nat, NEW m \in Nat, n < m PROVE n % m = n
  BY SMT

LEMMA TimesMonotone ==
    ASSUME NEW a \in Int, NEW b \in Int, a <= b, NEW S \in Nat
    PROVE  a * S <= b * S
  BY SMT

\* Four epochs' worth of ledgers, rounded down, and one more last an epoch at
\* half the pace, if an epoch is no shorter than a ledger.
LEMMA WriteLasts ==
    ASSUME NEW L \in Nat, NEW S \in Nat, S > 0, S <= L
    PROVE  2 * L <= (4 * (L \div S) + 1) * S
<1>1. PICK q \in Nat : q = L \div S /\ q * S <= L /\ L < (q + 1) * S
  BY DivBounds, SMT
<1>2. q >= 1
  <2>1. CASE q = 0
    BY <1>1, <2>1, SMT
  <2> QED
    BY <2>1
<1>3. 2 * (q + 1) <= 4 * q + 1
  BY <1>2, SMT
<1>4. (2 * (q + 1)) * S <= (4 * q + 1) * S
  BY <1>3, TimesMonotone
<1>5. 2 * L <= 2 * ((q + 1) * S) /\ 2 * ((q + 1) * S) = (2 * (q + 1)) * S
  BY <1>1, SMT
<1> QED
  BY <1>1, <1>4, <1>5, SMT

\* What the life of a counter rests on: no epoch is shorter than a ledger, and
\* four times its ledgers fit in a u32.
Coverable ==
    \A c \in Configs :
        c.epochLength > 0 =>
            /\ SecondsPerLedger <= c.epochLength
            /\ 4 * (c.epochLength \div SecondsPerLedger) < U32

\* The counter of an epoch that was written to outlives it, at half a ledger's
\* time a ledger.
Alive ==
    ~hasty /\ config # Absent /\ lastWrite = Epoch =>
        /\ counter[Epoch] # Absent
        /\ 2 * ((Epoch + 1) * config.epochLength - now)
             <= (counter[Epoch].ttl + 1) * SecondsPerLedger

LEMMA BumpKeepsAlive ==
    ASSUME Coverable, IInv, config # Absent, NEW amount \in Nat, Bump(amount)
    PROVE  Alive'
<1> DEFINE L == config.epochLength
           S == SecondsPerLedger
<1>1. L \in Nat /\ L > 0 /\ S \in Nat /\ S > 0 /\ U32 \in Nat /\ config \in Configs
  BY SpendAssumption, LedgerAssumption DEF IInv, CounterTypeOK, Config
<1>2. S <= L /\ 4 * (L \div S) < U32 /\ L \div S \in Nat
  BY <1>1, DivBounds DEF Coverable
<1>3. TtlLedgers = 4 * (L \div S)
  <2>1. L \div S < U32
    BY <1>1, <1>2
  <2>2. (L \div S) % U32 = L \div S
    BY <1>1, <1>2, <2>1, ModSmall
  <2>3. TtlLedgers = LET n == (L \div S) * 4 IN IF n < U32 THEN n ELSE U32 - 1
    BY <2>2 DEF TtlLedgers
  <2> QED
    BY <1>1, <1>2, <2>3
<1>4. TtlAfter \in Nat /\ Epoch \in Epochs /\ Epoch \in Nat
  BY TtlTyped, EpochTyped DEF IInv
<1>5. TtlLedgers <= TtlAfter
  <2>1. PICK before : TtlAfter = IF before < TtlLedgers THEN TtlLedgers ELSE before
    BY DEF TtlAfter
  <2>2. CASE before < TtlLedgers
    BY <1>2, <1>3, <2>1, <2>2
  <2>3. CASE ~(before < TtlLedgers)
    BY <1>2, <1>3, <1>4, <2>1, <2>3
  <2> QED
    BY <2>2, <2>3
<1>6. /\ counter' = [counter EXCEPT ![Epoch] =
                       [spent |-> CurrentSpent + amount, ttl |-> TtlAfter]]
      /\ now' = now /\ config' = config /\ Epoch' = Epoch
  BY DEF Bump, Epoch
<1>7. counter'[Epoch] = [spent |-> CurrentSpent + amount, ttl |-> TtlAfter]
  BY <1>4, <1>6 DEF IInv, CounterTypeOK
<1>8. counter'[Epoch] # Absent
  <2>1. CurrentSpent \in Nat
    BY TrustedCounterCovers DEF Bump
  <2> QED
    BY <1>4, <1>7, <2>1, AbsentEntry DEF Entry
<1>9. (Epoch + 1) * L - now <= L
  <2>1. now \in Nat /\ Epoch = now \div L
    BY LedgerAssumption DEF IInv, CounterTypeOK, Epoch
  <2>2. (now \div L) * L <= now
    BY <1>1, <2>1, DivBounds
  <2>3. (Epoch + 1) * L = Epoch * L + L
    BY <1>1, <1>4, SMT
  <2>4. Epoch * L \in Int
    BY <1>1, <1>4, SMT
  <2> QED
    BY <1>1, <2>1, <2>2, <2>3, <2>4
<1>10. 2 * L <= (TtlAfter + 1) * S
  <2>1. 2 * L <= (4 * (L \div S) + 1) * S
    BY <1>1, <1>2, WriteLasts
  <2>2. (4 * (L \div S) + 1) * S <= (TtlAfter + 1) * S
    BY <1>1, <1>2, <1>3, <1>4, <1>5, TimesMonotone
  <2> QED
    BY <1>1, <1>2, <1>4, <2>1, <2>2, SMT
<1>11. 2 * ((Epoch + 1) * L - now) <= (TtlAfter + 1) * S
  <2>1. now \in Nat
    BY LedgerAssumption DEF IInv, CounterTypeOK
  <2> QED
    BY <1>1, <1>4, <1>9, <1>10, <2>1, SMT
<1>12. counter'[Epoch].ttl = TtlAfter
  BY <1>7
<1> QED
  BY <1>6, <1>8, <1>11, <1>12 DEF Alive

LEMMA CloseLedgerKeepsAlive ==
    ASSUME IInv, Alive, NEW d \in CloseTimes, CloseLedger(d)
    PROVE  Alive'
<1> SUFFICES ASSUME ~hasty', config' # Absent, lastWrite' = Epoch'
             PROVE  /\ counter'[Epoch'] # Absent
                    /\ 2 * ((Epoch' + 1) * config'.epochLength - now')
                         <= (counter'[Epoch'].ttl + 1) * SecondsPerLedger
  BY DEF Alive
<1> DEFINE L == config.epochLength
           S == SecondsPerLedger
<1>1. /\ config' = config /\ lastWrite' = lastWrite /\ now' = now + d
      /\ ~hasty /\ ~(2 * d < S)
  BY DEF CloseLedger
<1>2. /\ L \in Nat /\ L > 0 /\ S \in Nat /\ S > 0 /\ d \in Nat
      /\ now \in Nat /\ now' \in Nat
  BY <1>1, SpendAssumption, LedgerAssumption DEF IInv, CounterTypeOK, Config
<1>3. Epoch' = Epoch /\ Epoch \in Nat /\ Epoch \in Epochs
  <2>1. Epoch' \in Nat /\ Epoch <= Epoch' /\ Epoch \in Nat /\ Epoch \in Epochs
    BY ClockAdvancesEpoch, EpochTyped DEF IInv
  <2>2. lastWrite # Absent
    BY <1>1, <2>1, AbsentEntry
  <2>3. Epoch' <= Epoch
    BY <1>1, <2>2 DEF IInv, MarkPast
  <2> QED
    BY <2>1, <2>3
<1>4. PICK entry : entry = counter[Epoch]
  OBVIOUS
<1>5. /\ entry # Absent /\ entry \in Entry
      /\ 2 * ((Epoch + 1) * L - now) <= (entry.ttl + 1) * S
  BY <1>1, <1>3, <1>4 DEF Alive, IInv, CounterTypeOK
<1>6. entry.ttl \in Nat
  BY <1>5 DEF Entry
<1>7. now' < (Epoch + 1) * L
  <2>1. Epoch = now' \div L
    BY <1>1, <1>3 DEF Epoch
  <2> QED
    BY <1>2, <2>1, DivBounds
<1>8. (Epoch + 1) * L \in Int
  BY <1>2, <1>3, SMT
<1>9. entry.ttl # 0
  <2>1. CASE entry.ttl = 0
    <3>1. (entry.ttl + 1) * S = S
      BY <1>2, <2>1, SMT
    <3> QED
      BY <1>1, <1>2, <1>5, <1>7, <1>8, <3>1
  <2> QED
    BY <2>1
<1>10. counter'[Epoch] = [entry EXCEPT !.ttl = entry.ttl - 1]
  BY <1>3, <1>4, <1>5, <1>9 DEF CloseLedger
<1>11. counter'[Epoch] \in Entry /\ counter'[Epoch].ttl = entry.ttl - 1
  BY <1>5, <1>6, <1>9, <1>10 DEF Entry
<1>12. 2 * ((Epoch + 1) * L - now') <= entry.ttl * S
  <2>1. (entry.ttl + 1) * S = entry.ttl * S + S /\ entry.ttl * S \in Int
    BY <1>2, <1>6, SMT
  <2> QED
    BY <1>1, <1>2, <1>5, <1>8, <2>1
<1>13. (counter'[Epoch].ttl + 1) * S = entry.ttl * S
  <2>1. counter'[Epoch].ttl + 1 = entry.ttl
    BY <1>6, <1>11
  <2> QED
    BY <2>1
<1> QED
  BY <1>1, <1>3, <1>11, <1>12, <1>13, AbsentEntry

LEMMA NextKeepsAlive ==
    ASSUME Coverable, IInv, Alive, [CounterNext]_counterVars
    PROVE  Alive'
<1>1. ASSUME NEW c \in Configs, Install(c) PROVE Alive'
  <2>1. lastWrite' = Absent
    BY <1>1 DEF Install, IInv, MarkPast
  <2>2. /\ config' = c /\ now' = now /\ now \in Nat
        /\ c # Absent /\ c.epochLength \in Nat /\ c.epochLength > 0
    BY <1>1, SpendAssumption, AbsentEntry, LedgerAssumption
       DEF Install, ValidConfig, Config, IInv, CounterTypeOK
  <2>3. Epoch' \in Nat
    BY <2>2, DivBounds DEF Epoch
  <2> QED
    BY <2>1, <2>3, AbsentEntry DEF Alive
<1>2. CASE Uninstall
  BY <1>2 DEF Uninstall, Alive
<1>3. ASSUME NEW a \in Amounts, SpendWithinCall(a) PROVE Alive'
  <2>1. a \in Nat /\ config # Absent /\ Bump(a)
    BY <1>3, SpendAssumption DEF SpendWithinCall
  <2> QED
    BY <2>1, BumpKeepsAlive
<1>4. ASSUME NEW d \in CloseTimes, CloseLedger(d) PROVE Alive'
  BY <1>4, CloseLedgerKeepsAlive
<1>5. CASE UNCHANGED counterVars
  BY <1>5 DEF counterVars, Alive, Epoch
<1> QED
  BY <1>1, <1>2, <1>3, <1>4, <1>5 DEF CounterNext

\* A spend policy is never shut by its own fail-closed rule while ledgers close
\* at half their pace or slower (TtlLedgers, CounterTrusted), for every set of
\* configurations whose epochs are no shorter than a ledger and whose lives fit
\* in a u32, reinstallations with other lengths included.
THEOREM NobodyIsLockedOut ==
    ASSUME Coverable
    PROVE  CounterSpec => []NeverLockedOut
<1>1. CounterInit => Alive
  BY DEF CounterInit, Alive
<1>2. IInv /\ Alive /\ [CounterNext]_counterVars => Alive'
  BY NextKeepsAlive
<1>3. IInv /\ Alive => NeverLockedOut
  BY DEF Alive, NeverLockedOut, CounterTrusted
<1> QED
  BY <1>1, <1>2, <1>3, CounterInvariance, PTL DEF CounterSpec
-----------------------------------------------------------------------------
\* The self-rescue drill.
Added == <<"drill", "add_context_rule">> \in landed
Removed == <<"drill", "remove_context_rule">> \in landed
PutBack == <<"others", "install">> \in landed

AdminRule == [signers |-> Admins, policies |-> {"threshold"}]
YieldRule == [signers |-> {Agent}, policies |-> {"venue"}]

\* R_ADMIN is the only rule that may change anything; every other one is the
\* agent's.
RulesKnown ==
    /\ nextRule \in Nat
    /\ DOMAIN rules \subseteq 0 .. nextRule - 1
    /\ \A id \in DOMAIN rules : rules[id] = IF id = Admin THEN AdminRule ELSE YieldRule
    /\ step = "deploy" => nextRule = 0

\* The drill's venue was put there by the drill; once it has removed its rule, the
\* id is not given out again and only others can have filled its storage.
YieldKnown ==
    /\ Yield \in DOMAIN venue /\ venue[Yield] = "drill's venue" => Added
    /\ Removed => /\ nextRule > Yield /\ Yield \notin DOMAIN rules
                  /\ Yield \in DOMAIN venue => PutBack

\* What the script has seen happen, as long as no check has failed.
ScriptKnown ==
    /\ ~failed /\ step \in {"rescue", "count again", "read again", "end"} => Added
    /\ ~failed /\ step \in {"count again", "read again", "end"} => Removed
    /\ exit = 0 => step = "end" /\ ~failed

RescueInv == RulesKnown /\ YieldKnown /\ ScriptKnown /\ ~alone

LEMMA RescueInvInit == RescueInit => RescueInv
  BY IdsAssumption DEF RescueInit, RescueInv, RulesKnown, YieldKnown, ScriptKnown,
                       Added, Removed, PutBack, Yield

\* Only the drill admits its venue, and it does so with its rule.
Authored(who, c) ==
    c.fn \in {"add_context_rule", "install"} =>
      \/ who = "others" /\ c.arg # "drill's venue"
      \/ who = "drill" /\ c.fn = "add_context_rule"

LEMMA YieldIsOne == Admin = 0 /\ Yield = 1
  BY DEF Admin, Yield

Fns == {"add_context_rule", "remove_context_rule", "install", "uninstall", "set_threshold"}

LEMMA CallFields ==
    ASSUME NEW contract, NEW fn, NEW id, NEW arg
    PROVE  /\ CallTo(contract, fn, id, arg).contract = contract
           /\ CallTo(contract, fn, id, arg).fn = fn
           /\ CallTo(contract, fn, id, arg).id = id
           /\ CallTo(contract, fn, id, arg).arg = arg
  BY DEF CallTo

LEMMA Applied ==
    ASSUME NEW c, c.fn \in Fns, Apply(c)
    PROVE  \/ c.fn = "add_context_rule" /\ AddContextRule(c.id, c.arg)
           \/ c.fn = "remove_context_rule" /\ RemoveContextRule(c.id)
           \/ c.fn = "install" /\ VenueInstall(c.id, c.arg)
           \/ c.fn = "uninstall" /\ VenueUninstall(c.id)
           \/ c.fn = "set_threshold" /\ SetThreshold(c.id, c.arg)
<1>1. CASE c.fn = "add_context_rule"
  BY <1>1 DEF Apply
<1>2. CASE c.fn = "remove_context_rule"
  BY <1>2 DEF Apply
<1>3. CASE c.fn = "install"
  BY <1>3 DEF Apply
<1>4. CASE c.fn = "uninstall"
  BY <1>4 DEF Apply
<1>5. CASE c.fn = "set_threshold"
  BY <1>5 DEF Apply
<1> QED
  BY <1>1, <1>2, <1>3, <1>4, <1>5 DEF Fns

\* A call that changes the contracts had as many admins as the threshold asks for.
LEMMA OnlyAdminsChange ==
    ASSUME RulesKnown, NEW who, NEW signers, NEW rule, NEW c, c.fn \in Fns,
           Lands(who, signers, rule, c)
    PROVE  Enough(signers)
<1> DEFINE payload == AuthPayload(signers, rule, 1)
<1>1. payload.ruleIds[1] = rule /\ payload.signers = signers
  BY DEF AuthPayload
<1>2. /\ rule \in DOMAIN rules
      /\ "threshold" \in rules[rule].policies
           => ThresholdEnforce(rule, signers \cap rules[rule].signers)
      /\ "venue" \in rules[rule].policies
           => VenueEnforce(rule, signers \cap rules[rule].signers, c)
  <2> HIDE DEF payload
  <2>1. CheckAuth(payload, c)
    BY DEF Lands, payload
  <2> QED
    BY <1>1, <2>1 DEF CheckAuth
<1>3. CASE rule = Admin
  <2>1. "threshold" \in rules[rule].policies /\ rules[rule].signers = Admins
    BY <1>2, <1>3 DEF RulesKnown, AdminRule
  <2>2. ThresholdEnforce(Admin, signers \cap Admins)
    BY <1>2, <1>3, <2>1
  <2> QED
    BY <2>2 DEF ThresholdEnforce, Enough
<1>4. CASE rule # Admin
  <2>1. "venue" \in rules[rule].policies
    BY <1>2, <1>4 DEF RulesKnown, YieldRule
  <2>2. c.fn = "submit"
    BY <1>2, <2>1 DEF VenueEnforce
  <2> QED
    BY <2>2 DEF Fns
<1> QED
  BY <1>3, <1>4

\* What a transaction does to the rules and to the storage of r_yield.
LEMMA LandsRules ==
    ASSUME RulesKnown, step # "deploy", NEW who, NEW signers, NEW rule, NEW c,
           c.fn \in Fns, Lands(who, signers, rule, c)
    PROVE  /\ nextRule' \in Nat /\ nextRule <= nextRule'
           /\ DOMAIN rules' \subseteq 0 .. nextRule' - 1
           /\ \A id \in DOMAIN rules' :
                rules'[id] = IF id = Admin THEN AdminRule ELSE YieldRule
<1>0. /\ nextRule \in Nat /\ DOMAIN rules \subseteq 0 .. nextRule - 1
      /\ \A id \in DOMAIN rules : rules[id] = IF id = Admin THEN AdminRule ELSE YieldRule
      /\ DOMAIN rules # {}
  <2>1. rule \in DOMAIN rules
    BY DEF Lands, CheckAuth, AuthPayload
  <2> QED
    BY <2>1 DEF RulesKnown
<1>1. CASE AddContextRule(c.id, c.arg)
  <2>1. /\ c.id = nextRule /\ nextRule' = nextRule + 1
        /\ rules' = [x \in DOMAIN rules \cup {nextRule} |->
                       IF x = nextRule THEN YieldRule ELSE rules[x]]
    BY <1>1 DEF AddContextRule, With, YieldRule
  <2>2. nextRule # Admin
    BY <1>0 DEF Admin
  <2> QED
    BY <1>0, <2>1, <2>2
<1>2. CASE RemoveContextRule(c.id)
  BY <1>0, <1>2 DEF RemoveContextRule, Without, Restrict
<1>3. CASE UNCHANGED <<rules, nextRule>>
  BY <1>0, <1>3
<1> QED
  BY <1>1, <1>2, <1>3, Applied DEF Lands, VenueInstall, VenueUninstall, SetThreshold

LEMMA LandsYield ==
    ASSUME RulesKnown, YieldKnown, step # "deploy", NEW who, NEW signers, NEW rule, NEW c,
           c.fn \in Fns, Lands(who, signers, rule, c),
           Authored(who, c)
    PROVE  YieldKnown' /\ (Added => Added') /\ (Removed => Removed')
<1>1. /\ landed \subseteq landed'
      /\ c.id = Yield => landed' = landed \cup {<<who, c.fn>>}
      /\ c.id # Yield => landed' = landed
  BY DEF Lands
<1>2. /\ nextRule \in Nat /\ nextRule' \in Nat /\ nextRule <= nextRule'
      /\ DOMAIN rules \subseteq 0 .. nextRule - 1
  BY LandsRules DEF RulesKnown
<1>3. (Added => Added') /\ (Removed => Removed') /\ (PutBack => PutBack')
  BY <1>1 DEF Added, Removed, PutBack
<1>4. ASSUME Yield \in DOMAIN venue', venue'[Yield] = "drill's venue" PROVE Added'
  <2>1. CASE Yield \in DOMAIN venue /\ venue[Yield] = "drill's venue"
    BY <1>3, <2>1 DEF YieldKnown
  <2>2. CASE ~(Yield \in DOMAIN venue /\ venue[Yield] = "drill's venue")
    <3>1. ~RemoveContextRule(c.id) /\ ~VenueUninstall(c.id) /\ ~SetThreshold(c.id, c.arg)
      BY <1>4, <2>2 DEF RemoveContextRule, VenueUninstall, SetThreshold, Without, Restrict
    <3>2. \/ c.fn = "add_context_rule" /\ AddContextRule(c.id, c.arg)
          \/ c.fn = "install" /\ VenueInstall(c.id, c.arg)
      BY <3>1, Applied DEF Lands
    <3>3. venue' = With(venue, c.id, c.arg)
      BY <3>2 DEF AddContextRule, VenueInstall
    <3>4. c.id = Yield /\ c.arg = "drill's venue"
      BY <1>4, <2>2, <3>3 DEF With
    <3>5. who = "drill" /\ c.fn = "add_context_rule"
      BY <3>2, <3>4 DEF Authored
    <3> QED
      BY <1>1, <3>4, <3>5 DEF Added
  <2> QED
    BY <2>1, <2>2
<1>5. ASSUME Removed
      PROVE  /\ nextRule' > Yield /\ Yield \notin DOMAIN rules'
             /\ Yield \in DOMAIN venue' => PutBack'
  <2>1. nextRule > Yield /\ Yield \notin DOMAIN rules /\ (Yield \in DOMAIN venue => PutBack)
    BY <1>5 DEF YieldKnown
  <2>2. nextRule' > Yield /\ nextRule # Yield
    <3>1. nextRule > 1
      BY <2>1, YieldIsOne
    <3>2. nextRule \in Nat /\ nextRule' \in Nat /\ nextRule <= nextRule'
      BY <1>2
    <3> QED
      BY <3>1, <3>2, YieldIsOne
  <2>3. CASE AddContextRule(c.id, c.arg)
    <3>1. c.id # Yield
      BY <2>2, <2>3 DEF AddContextRule
    <3> QED
      BY <1>3, <2>1, <2>2, <2>3, <3>1 DEF AddContextRule, With
  <2>4. CASE RemoveContextRule(c.id)
    BY <1>3, <2>1, <2>2, <2>4 DEF RemoveContextRule, Without, Restrict
  <2>5. CASE c.fn = "install" /\ VenueInstall(c.id, c.arg)
    <3>1. c.id = Yield => PutBack'
      BY <1>1, <2>5 DEF PutBack, Authored
    <3> QED
      BY <1>3, <2>1, <2>2, <2>5, <3>1 DEF VenueInstall, With
  <2>6. CASE VenueUninstall(c.id) \/ SetThreshold(c.id, c.arg)
    BY <1>3, <2>1, <2>2, <2>6 DEF VenueUninstall, SetThreshold, Without, Restrict
  <2> QED
    BY <2>3, <2>4, <2>5, <2>6, Applied DEF Lands
<1>6. ASSUME Removed', ~Removed
      PROVE  /\ nextRule' > Yield /\ Yield \notin DOMAIN rules'
             /\ Yield \in DOMAIN venue' => PutBack'
  <2>1. c.id = Yield /\ c.fn = "remove_context_rule"
    <3>1. landed' = landed \cup {<<who, c.fn>>} /\ c.id = Yield
      BY <1>1, <1>6 DEF Removed
    <3>2. <<"drill", "remove_context_rule">> = <<who, c.fn>>
      BY <1>6, <3>1 DEF Removed
    <3> QED
      BY <3>1, <3>2
  <2>2. RemoveContextRule(Yield)
    BY <2>1, Applied DEF Lands
  <2>3. Yield \in DOMAIN rules /\ "venue" \in rules[Yield].policies
    <3>1. Yield \in DOMAIN rules /\ Yield # Admin
      BY <2>2, YieldIsOne DEF RemoveContextRule
    <3>2. rules[Yield] = YieldRule
      BY <3>1 DEF RulesKnown
    <3> QED
      BY <3>1, <3>2 DEF YieldRule
  <2>4. nextRule' = nextRule /\ nextRule > Yield
    <3>1. Yield \in 0 .. nextRule - 1
      BY <1>2, <2>3
    <3>2. nextRule > Yield
      BY <1>2, <3>1
    <3> QED
      BY <2>2, <3>2 DEF RemoveContextRule
  <2> QED
    BY <2>2, <2>3, <2>4 DEF RemoveContextRule, Without, Restrict
<1> QED
  BY <1>3, <1>4, <1>5, <1>6 DEF YieldKnown

\* A transaction of anyone's keeps what is known of the contracts.
LEMMA LandsKnown ==
    ASSUME RulesKnown, YieldKnown, ~alone, step # "deploy",
           NEW who, NEW signers, NEW rule, NEW c,
           c.fn \in Fns, Lands(who, signers, rule, c), step' # "deploy",
           Authored(who, c)
    PROVE  /\ RulesKnown' /\ YieldKnown' /\ ~alone'
           /\ (Added => Added') /\ (Removed => Removed')
<1>1. ~alone'
  BY OnlyAdminsChange DEF Lands
<1>2. RulesKnown'
  BY LandsRules DEF RulesKnown
<1> QED
  BY <1>1, <1>2, LandsYield
-----------------------------------------------------------------------------
LEMMA OthersAreAuthored ==
    ASSUME NEW c \in OtherCalls
    PROVE  c.fn \in Fns /\ Authored("others", c)
<1>1. \/ c.fn \in {"add_context_rule", "install"} /\ c.arg = "another venue"
      \/ c.fn \in {"remove_context_rule", "uninstall", "set_threshold"}
  <2>1. CASE c = CallTo("vault", "add_context_rule", nextRule, "another venue")
    BY <2>1 DEF CallTo
  <2>2. CASE \E id \in Ids : c = CallTo("vault", "remove_context_rule", id, Nil)
    <3>1. PICK id \in Ids : c = CallTo("vault", "remove_context_rule", id, Nil)
      BY <2>2
    <3>2. c.fn = "remove_context_rule"
      BY <3>1, CallFields
    <3>3. c.fn \in {"remove_context_rule", "uninstall", "set_threshold"}
      BY <3>2
    <3> QED
      BY <3>3, Zenon
  <2>3. CASE \E id \in Ids : c = CallTo("policy-venue", "install", id, "another venue")
    <3>1. PICK id \in Ids : c = CallTo("policy-venue", "install", id, "another venue")
      BY <2>3
    <3>2. c.fn = "install"
      BY <3>1, Zenon DEF CallTo
    <3>3. c.arg = "another venue"
      BY <3>1, Zenon DEF CallTo
    <3>4. c.fn \in {"add_context_rule", "install"}
      BY <3>2
    <3> QED
      BY <3>3, <3>4, Zenon
  <2>4. CASE \E id \in Ids : c = CallTo("policy-venue", "uninstall", id, Nil)
    BY <2>4 DEF CallTo
  <2>5. CASE \E n \in 1 .. Cardinality(Admins) :
               c = CallTo("policy-admin-threshold", "set_threshold", Admin, n)
    <3>1. PICK n \in 1 .. Cardinality(Admins) :
            c = CallTo("policy-admin-threshold", "set_threshold", Admin, n)
      BY <2>5
    <3>2. c.fn = "set_threshold"
      BY <3>1, CallFields
    <3>3. c.fn \in {"remove_context_rule", "uninstall", "set_threshold"}
      BY <3>2
    <3> QED
      BY <3>3, Zenon
  <2> QED
    BY <2>1, <2>2, <2>3, <2>4, <2>5 DEF OtherCalls
<1> QED
  BY <1>1 DEF Fns, Authored

LEMMA OthersKeep == RescueInv /\ OthersCall => RescueInv'
<1> SUFFICES ASSUME RescueInv, OthersCall PROVE RescueInv'
  OBVIOUS
<1>1. PICK signers \in SUBSET Signers, rule \in DOMAIN rules, c \in OtherCalls :
        Lands("others", signers, rule, c)
  BY DEF OthersCall
<1>2. UNCHANGED <<step, failed, exit>> /\ step # "deploy"
  BY <1>1 DEF OthersCall, scriptVars, RescueInv, RulesKnown
<1>3. RulesKnown /\ YieldKnown /\ ~alone /\ step' # "deploy"
  BY <1>2 DEF RescueInv
<1>4. /\ RulesKnown' /\ YieldKnown' /\ ~alone'
      /\ (Added => Added') /\ (Removed => Removed')
  BY <1>1, <1>2, <1>3, OthersAreAuthored, LandsKnown
<1>5. ScriptKnown'
  BY <1>2, <1>4 DEF RescueInv, ScriptKnown
<1> QED
  BY <1>4, <1>5 DEF RescueInv

\* The script's own call, on R_ADMIN: landed or not, and if it has not failed, it
\* has landed.
LEMMA SignedKeeps ==
    ASSUME RulesKnown, YieldKnown, ~alone, step # "deploy", step' # "deploy",
           NEW c, c.fn \in Fns, Authored("drill", c), Signed(c)
    PROVE  /\ RulesKnown' /\ YieldKnown' /\ ~alone'
           /\ (Added => Added') /\ (Removed => Removed')
           /\ exit' = exit /\ (~failed' => ~failed)
           /\ ~failed' => landed' = IF c.id = Yield THEN landed \cup {<<"drill", c.fn>>}
                                    ELSE landed
<1>1. CASE Lands("drill", CoSigners, Admin, c) /\ failed' \in {failed, TRUE}
  <2>1. /\ RulesKnown' /\ YieldKnown' /\ ~alone'
        /\ (Added => Added') /\ (Removed => Removed')
    BY <1>1, LandsKnown
  <2>2. exit' = exit /\ (~failed' => ~failed)
    <3>1. CASE failed' = failed
      BY <3>1 DEF Signed
    <3>2. CASE failed' = TRUE
      BY <3>2 DEF Signed
    <3> QED
      BY <1>1, <3>1, <3>2
  <2>3. landed' = IF c.id = Yield THEN landed \cup {<<"drill", c.fn>>} ELSE landed
    BY <1>1 DEF Lands
  <2> QED
    BY <2>1, <2>2, <2>3
<1>2. CASE failed' = TRUE /\ UNCHANGED <<vaultVars, landed, alone>>
  BY <1>2 DEF Signed, vaultVars, RulesKnown, YieldKnown, Added, Removed, PutBack
<1> QED
  BY <1>1, <1>2 DEF Signed

\* A step that leaves the contracts alone.
LEMMA ContractsAlone ==
    ASSUME RulesKnown, YieldKnown, ~alone, step' # "deploy",
           UNCHANGED <<vaultVars, landed, alone>>
    PROVE  /\ RulesKnown' /\ YieldKnown' /\ ~alone'
           /\ Added' = Added /\ Removed' = Removed
  BY DEF vaultVars, RulesKnown, YieldKnown, Added, Removed, PutBack

LEMMA StillRuns ==
    ASSUME exit = Nil, exit' = exit
    PROVE  exit' # 0
  BY IdsAssumption

LEMMA ScriptKeeps == RescueInv /\ (ScriptStep \/ Throws) => RescueInv'
<1> SUFFICES ASSUME RescueInv, ScriptStep \/ Throws PROVE RescueInv'
  OBVIOUS
<1>0. RulesKnown /\ YieldKnown /\ ~alone /\ ScriptKnown
  BY DEF RescueInv
<1>1. CASE Deploy
  <2>0. nextRule = 0 /\ DOMAIN rules = {}
    <3>1. step = "deploy"
      BY <1>1 DEF Deploy, Goes
    <3>2. nextRule = 0
      BY <1>0, <3>1 DEF RulesKnown
    <3>3. DOMAIN rules \subseteq 0 .. nextRule - 1
      BY <1>0 DEF RulesKnown
    <3>4. 0 .. nextRule - 1 = {}
      BY <3>2
    <3> QED
      BY <3>2, <3>3, <3>4, Zenon
  <2>1. /\ DOMAIN rules = {} /\ step' = "install" /\ Yield # Admin
        /\ rules' = [x \in DOMAIN rules \cup {Admin} |->
                       IF x = Admin THEN AdminRule ELSE rules[x]]
        /\ nextRule' = 1 /\ UNCHANGED <<venue, failed, exit, landed, alone>>
        /\ exit = Nil
    BY <2>0, <1>1, YieldIsOne DEF Deploy, Goes, With, AdminRule
  <2>2. RulesKnown'
    BY <2>1, YieldIsOne DEF RulesKnown
  <2>3. ~Removed
    <3>1. Removed => nextRule > Yield
      BY <1>0 DEF YieldKnown
    <3> QED
      BY <2>0, <3>1, YieldIsOne
  <2>4. YieldKnown'
    BY <1>0, <2>1, <2>3 DEF YieldKnown, Added, Removed, PutBack
  <2>5. ScriptKnown'
    BY <2>1, StillRuns DEF ScriptKnown
  <2> QED
    BY <1>0, <2>1, <2>2, <2>4, <2>5 DEF RescueInv
<1>2. CASE InstallYield
  <2> DEFINE c == CallTo("vault", "add_context_rule", nextRule, "drill's venue")
  <2>1. c.fn \in Fns /\ Authored("drill", c)
    BY DEF CallTo, Fns, Authored
  <2>2. step = "install" /\ exit = Nil /\ step' = "count rules" /\ Signed(c)
    BY <1>2 DEF InstallYield, Goes
  <2> HIDE DEF c
  <2>3. RulesKnown' /\ YieldKnown' /\ ~alone' /\ exit' = exit
    BY <1>0, <2>1, <2>2, SignedKeeps
  <2>4. ScriptKnown'
    BY <2>2, <2>3, StillRuns DEF ScriptKnown
  <2> QED
    BY <2>3, <2>4 DEF RescueInv
<1>3. CASE CountRules
  <2>1. /\ step' = "read config" /\ exit' = exit /\ exit = Nil
        /\ UNCHANGED <<vaultVars, landed, alone>>
    BY <1>3 DEF CountRules, Goes, Check
  <2>2. RulesKnown' /\ YieldKnown' /\ ~alone'
    BY <1>0, <2>1, ContractsAlone
  <2>3. ScriptKnown'
    BY <2>1, StillRuns DEF ScriptKnown
  <2> QED
    BY <2>2, <2>3 DEF RescueInv
<1>4. CASE ReadConfig
  <2>1. /\ step' = "rescue" /\ exit' = exit /\ exit = Nil
        /\ UNCHANGED <<vaultVars, landed, alone>>
        /\ Yield \in DOMAIN venue
        /\ failed' = (failed \/ ~(venue[Yield] = "drill's venue"))
    BY <1>4 DEF ReadConfig, Goes, Check
  <2>2. RulesKnown' /\ YieldKnown' /\ ~alone' /\ Added' = Added
    BY <1>0, <2>1, ContractsAlone
  <2>3. ~failed' => Added
    BY <1>0, <2>1 DEF YieldKnown
  <2>4. ScriptKnown'
    BY <2>1, <2>2, <2>3, StillRuns DEF ScriptKnown
  <2> QED
    BY <2>2, <2>4 DEF RescueInv
<1>5. CASE Rescue
  <2> DEFINE c == CallTo("vault", "remove_context_rule", Yield, Nil)
  <2>1. /\ c.fn \in Fns /\ Authored("drill", c)
        /\ c.id = Yield /\ c.fn = "remove_context_rule"
    BY DEF CallTo, Fns, Authored
  <2>2. step = "rescue" /\ exit = Nil /\ step' = "count again" /\ Signed(c)
    BY <1>5 DEF Rescue, Goes
  <2> HIDE DEF c
  <2>3. /\ RulesKnown' /\ YieldKnown' /\ ~alone' /\ exit' = exit
        /\ (Added => Added') /\ (~failed' => ~failed)
        /\ ~failed' => landed' = IF c.id = Yield THEN landed \cup {<<"drill", c.fn>>}
                                 ELSE landed
    BY <1>0, <2>1, <2>2, SignedKeeps
  <2>4. ~failed' => Added' /\ Removed'
    BY <1>0, <2>1, <2>2, <2>3 DEF ScriptKnown, Removed
  <2>5. ScriptKnown'
    BY <2>2, <2>3, <2>4, StillRuns DEF ScriptKnown
  <2> QED
    BY <2>3, <2>5 DEF RescueInv
<1>6. CASE CountAgain \/ ReadAgain
  <2>1. /\ step \in {"count again", "read again"} /\ step' \in {"read again", "end"}
        /\ exit' = exit /\ exit = Nil /\ (~failed' => ~failed)
        /\ UNCHANGED <<vaultVars, landed, alone>>
    BY <1>6 DEF CountAgain, ReadAgain, Goes, Check
  <2>2. RulesKnown' /\ YieldKnown' /\ ~alone' /\ Added' = Added /\ Removed' = Removed
    BY <1>0, <2>1, ContractsAlone
  <2>3. ScriptKnown'
    BY <1>0, <2>1, <2>2, StillRuns DEF ScriptKnown
  <2> QED
    BY <2>2, <2>3 DEF RescueInv
<1>7. CASE Exit
  <2>1. /\ step = "end" /\ step' = step /\ failed' = failed
        /\ exit' = IF failed THEN 1 ELSE 0
        /\ UNCHANGED <<vaultVars, landed, alone>>
    BY <1>7 DEF Exit
  <2>2. RulesKnown' /\ YieldKnown' /\ ~alone' /\ Added' = Added /\ Removed' = Removed
    BY <1>0, <2>1, ContractsAlone
  <2>3. ScriptKnown'
    BY <1>0, <2>1, <2>2 DEF ScriptKnown
  <2> QED
    BY <2>2, <2>3 DEF RescueInv
<1>8. CASE Throws
  <2>1. /\ exit' = 1 /\ step' = step /\ failed' = failed
        /\ UNCHANGED <<vaultVars, landed, alone>>
    BY <1>8 DEF Throws
  <2>2. /\ RulesKnown' /\ YieldKnown' /\ ~alone' /\ Added' = Added /\ Removed' = Removed
    BY <1>0, <2>1 DEF vaultVars, RulesKnown, YieldKnown, Added, Removed, PutBack
  <2>3. exit' # 0
    BY <2>1
  <2>4. ScriptKnown'
    BY <1>0, <2>1, <2>2, <2>3, Zenon DEF ScriptKnown
  <2> QED
    BY <2>2, <2>4 DEF RescueInv
<1> QED
  BY <1>1, <1>2, <1>3, <1>4, <1>5, <1>6, <1>7, <1>8 DEF ScriptStep

\* A drill that passes was a rescue: its own two calls put its rule there and
\* took it away, and no key holder short of the admins' threshold ever changed
\* a rule, a policy or a threshold.
THEOREM RescueIsNotStaged == RescueSpec => []RescueIsReal
<1>1. RescueInv /\ [RescueNext]_rescueVars => RescueInv'
  <2> SUFFICES ASSUME RescueInv, [RescueNext]_rescueVars PROVE RescueInv'
    OBVIOUS
  <2>1. CASE UNCHANGED rescueVars
    BY <2>1 DEF rescueVars, vaultVars, scriptVars, RescueInv, RulesKnown, YieldKnown,
                ScriptKnown, Added, Removed, PutBack
  <2> QED
    BY <2>1, ScriptKeeps, OthersKeep DEF RescueNext
<1>2. RescueInv => RescueIsReal
  BY DEF RescueInv, RescueIsReal, ScriptKnown, YieldKnown, Added, Removed, PutBack
<1> QED
  BY RescueInvInit, <1>1, <1>2, PTL DEF RescueSpec

-----------------------------------------------------------------------------
\* The spending loops of the keeper.

\* A call carries a transaction of its own loop, and has a result only while it
\* polls.
CallsAreOwn ==
    \A l \in Loops :
        /\ call[l].step \in Built => call[l].tx.loop = l
        /\ call[l].step # "poll" => call[l].result = None

\* What a recall on its way would add still fits, unless another has landed since
\* the balance was read.
Fits(read) ==
    /\ 0 < read.readAt /\ read.readAt <= ledger
    /\ read.readAt > recall.last => tier0 + read.amount <= Target

RecallsFit ==
    /\ recall.last < ledger
    /\ call["recall"].step # "idle" => Fits(call["recall"])
    /\ call["recall"].step \in Built => Fits(call["recall"].tx)
    /\ \A tx \in pending : tx.loop = "recall" => Fits(tx)

\* Recalls that are queued, and those whose tick no longer polls for them.
Queued == \E tx \in pending : tx.loop = "recall"
Orphan ==
    \E tx \in pending :
        /\ tx.loop = "recall"
        /\ call["recall"].step = "poll" => call["recall"].tx # tx

\* A landed recall without its line is one whose tick polls for the result, or is
\* paid for by a fault; a queued orphan has a fault to spare.
LogIsAccountedFor ==
    /\ call["recall"].result # None => ~Queued
    /\ call["recall"].result = "SUCCESS" => 1 <= unlogged /\ unlogged <= faults + 1
    /\ call["recall"].result # "SUCCESS" => 0 <= unlogged /\ unlogged <= faults
    /\ Orphan => unlogged + 1 <= faults

CallInv ==
    /\ TypeOK
    /\ CallsAreOwn
    /\ RecallsFit
    /\ NeverOverRecalled
    /\ LogIsAccountedFor

-----------------------------------------------------------------------------
LEMMA CallEdits ==
    ASSUME NEW c \in Call
    PROVE  /\ \A s \in Steps : /\ [c EXCEPT !.step = s] \in Call
                               /\ [c EXCEPT !.step = s].step = s
                               /\ [c EXCEPT !.step = s].tx = c.tx
                               /\ [c EXCEPT !.step = s].result = c.result
                               /\ [c EXCEPT !.step = s].readAt = c.readAt
                               /\ [c EXCEPT !.step = s].amount = c.amount
           /\ \A r \in {"SUCCESS", "FAILED"} :
                               /\ [c EXCEPT !.result = r] \in Call
                               /\ [c EXCEPT !.result = r].step = c.step
                               /\ [c EXCEPT !.result = r].tx = c.tx
                               /\ [c EXCEPT !.result = r].result = r
                               /\ [c EXCEPT !.result = r].readAt = c.readAt
                               /\ [c EXCEPT !.result = r].amount = c.amount
  BY DEF Call

LEMMA IdleCall ==
    Idle \in Call /\ Idle.step = "idle" /\ Idle.result = None
  BY DEF Idle, Call, Steps

LEMMA MinOutType ==
    ASSUME NEW amountIn \in Int, NEW p \in Nat \ {0}, NEW bps \in Nat
    PROVE  OracleDerivedMinOut(amountIn, p, bps) \in Int
<1>1. (amountIn * PriceScale) \div p \in Int
  BY SwapAssumption
<1>2. ((amountIn * PriceScale) \div p) * bps \in Int
  BY <1>1
<1> QED
  BY <1>2 DEF OracleDerivedMinOut

LEMMA NoneIsNoResult == None # "SUCCESS" /\ None # "FAILED" /\ None \notin Int
  BY WorldAssumption

\* A loop's call replaced by one that is well formed.
LEMMA CallReplaced ==
    ASSUME TypeOK, CallsAreOwn, NEW l \in Loops, NEW value \in Call,
           value.step \in Built => value.tx \in Tx /\ value.tx.loop = l,
           value.step # "poll" => value.result = None,
           call' = [call EXCEPT ![l] = value]
    PROVE  /\ call' \in [Loops -> Call]
           /\ \A m \in Loops : call'[m].step \in Built => call'[m].tx \in Tx
           /\ CallsAreOwn'
           /\ call'[l] = value
           /\ \A m \in Loops : m # l => call'[m] = call[m]
  BY DEF TypeOK, CallsAreOwn

-----------------------------------------------------------------------------
\* What each step of a loop makes of its call.
WellFormed(l, value) ==
    /\ value \in Call
    /\ value.step \in Built => value.tx \in Tx /\ value.tx.loop = l
    /\ value.step # "poll" => value.result = None

LEMMA OwnIsWellFormed ==
    ASSUME TypeOK, CallsAreOwn, NEW l \in Loops
    PROVE  WellFormed(l, call[l])
  BY DEF TypeOK, CallsAreOwn, WellFormed

LEMMA IdleIsWellFormed ==
    ASSUME NEW l
    PROVE  WellFormed(l, Idle)
  BY IdleCall DEF WellFormed, Built

LEMMA ReadTier0Call ==
    ASSUME TypeOK, CallsAreOwn, ReadTier0
    PROVE  \E value :
              /\ call' = [call EXCEPT !["recall"] = value]
              /\ WellFormed("recall", value)
              /\ value.step = "build" /\ value.readAt = ledger
              /\ value.amount = Target - tier0
<1> DEFINE c == Idle
           value == [c EXCEPT !.step = "build", !.readAt = ledger, !.amount = Target - tier0]
<1>1. c \in Call /\ c.result = None
  BY IdleCall
<1>2. ledger \in Nat /\ Target - tier0 \in Int
  BY RecallAssumption DEF TypeOK
<1>3. call' = [call EXCEPT !["recall"] = value]
  BY DEF ReadTier0, Becomes
<1> HIDE DEF c
<1>4. /\ value \in Call /\ value.step = "build" /\ value.result = None
      /\ value.readAt = ledger /\ value.amount = Target - tier0
  BY <1>1, <1>2 DEF Call, Steps
<1> HIDE DEF value
<1> QED
  BY <1>3, <1>4 DEF WellFormed, Built

LEMMA ReadXlmCall ==
    ASSUME TypeOK, CallsAreOwn, ReadXlm
    PROVE  \E value : /\ call' = [call EXCEPT !["swap"] = value]
                      /\ WellFormed("swap", value)
<1> DEFINE c == Idle
           value == [c EXCEPT !.step = "quote", !.readAt = ledger, !.amount = XlmTopup - xlm]
<1>1. c \in Call /\ c.result = None
  BY IdleCall
<1>2. ledger \in Nat /\ XlmTopup - xlm \in Int
  BY SwapAssumption DEF TypeOK
<1>3. call' = [call EXCEPT !["swap"] = value]
  BY DEF ReadXlm, Becomes
<1> HIDE DEF c
<1>4. /\ value \in Call /\ value.step = "quote" /\ value.result = None
      /\ value.readAt = ledger /\ value.amount = XlmTopup - xlm
  BY <1>1, <1>2 DEF Call, Steps
<1> HIDE DEF value
<1> QED
  BY <1>3, <1>4 DEF WellFormed, Built

LEMMA DecideSwapCall ==
    ASSUME TypeOK, CallsAreOwn, DecideSwap
    PROVE  \E value : /\ call' = [call EXCEPT !["swap"] = value]
                      /\ WellFormed("swap", value)
<1> DEFINE amountIn == (call["swap"].amount * price) \div PriceScale
           minOut == OracleDerivedMinOut(amountIn, price, KeeperBps)
           value == [call["swap"] EXCEPT !.step = "build", !.amount = amountIn,
                                         !.minOut = minOut]
<1>1. /\ call["swap"] \in Call /\ call["swap"].step = "quote"
      /\ call["swap"].result = None /\ price \in Nat \ {0}
  BY SwapAssumption DEF DecideSwap, At, TypeOK, CallsAreOwn, Loops
<1>2. amountIn \in Int
  <2>1. call["swap"].amount \in Int
    BY <1>1 DEF Call
  <2>2. call["swap"].amount * price \in Int
    BY <1>1, <2>1
  <2> QED
    BY <2>2, SwapAssumption
<1>3. minOut \in Int
  BY <1>1, <1>2, MinOutType, SwapAssumption
<1>4. call' = [call EXCEPT !["swap"] = Idle] \/ call' = [call EXCEPT !["swap"] = value]
  BY DEF DecideSwap, Becomes
<1> HIDE DEF amountIn, minOut
<1>5. value \in Call /\ value.step = "build" /\ value.result = None
  BY <1>1, <1>2, <1>3 DEF Call, Steps
<1> HIDE DEF value
<1> QED
  BY <1>4, <1>5, IdleIsWellFormed DEF WellFormed, Built

LEMMA BuildCall ==
    ASSUME TypeOK, CallsAreOwn, NEW l \in Loops, Build(l)
    PROVE  \E value :
              /\ call' = [call EXCEPT ![l] = value]
              /\ WellFormed(l, value)
              /\ value.step = "trial"
              /\ value.readAt = call[l].readAt /\ value.amount = call[l].amount
              /\ value.tx.readAt = call[l].readAt /\ value.tx.amount = call[l].amount
<1> DEFINE c == call[l]
           tx == [loop |-> l, seq |-> sequence + 1, until |-> ledger + Lifetime,
                  readAt |-> c.readAt, amount |-> c.amount, minOut |-> c.minOut,
                  born |-> faults]
           value == [c EXCEPT !.step = "trial", !.tx = tx]
<1>1. c \in Call /\ c.step = "build" /\ c.result = None
  BY DEF Build, At, TypeOK, CallsAreOwn
<1>2. /\ tx \in Tx /\ tx.loop = l
      /\ tx.readAt = c.readAt /\ tx.amount = c.amount
  BY <1>1, WorldAssumption DEF Call, Tx, TypeOK
<1>3. call' = [call EXCEPT ![l] = value]
  BY DEF Build, Becomes
<1> HIDE DEF tx, c
<1>4. /\ value \in Call /\ value.step = "trial" /\ value.result = None /\ value.tx = tx
      /\ value.readAt = c.readAt /\ value.amount = c.amount
  BY <1>1, <1>2 DEF Call, Steps
<1> HIDE DEF value
<1> QED
  BY <1>2, <1>3, <1>4 DEF WellFormed, c

\* The steps after that only move the call on, or end it.
LEMMA MovedOn ==
    ASSUME TypeOK, CallsAreOwn, NEW l \in Loops, NEW next \in {"send", "poll"},
           call[l].step \in {"trial", "send"},
           call' = [call EXCEPT ![l] = [@ EXCEPT !.step = next]]
    PROVE  \E value :
              /\ call' = [call EXCEPT ![l] = value]
              /\ WellFormed(l, value)
              /\ value.step = next /\ value.tx = call[l].tx /\ value.result = None
              /\ value.readAt = call[l].readAt /\ value.amount = call[l].amount
<1> DEFINE c == call[l]
           value == [c EXCEPT !.step = next]
<1>1. c \in Call /\ next \in Steps /\ c.tx \in Tx /\ c.tx.loop = l /\ c.result = None
  BY DEF TypeOK, CallsAreOwn, Built, Steps
<1>2. call' = [call EXCEPT ![l] = value]
  BY DEF TypeOK
<1>3. /\ value \in Call /\ value.step = next /\ value.tx = c.tx /\ value.result = c.result
      /\ value.readAt = c.readAt /\ value.amount = c.amount
  <2> HIDE DEF c
  <2> QED
    BY <1>1, CallEdits
<1> HIDE DEF value
<1> QED
  BY <1>1, <1>2, <1>3 DEF WellFormed

-----------------------------------------------------------------------------
\* The frame of a loop's step: types, and what the recall loop is owed.
LEMMA LoopTypes ==
    ASSUME TypeOK, CallsAreOwn, NEW l \in Loops, NEW value, WellFormed(l, value),
           call' = [call EXCEPT ![l] = value],
           UNCHANGED <<ledger, sequence, recall, tier0, xlm, price>>,
           pending' \subseteq Tx, faults' \in Nat, unlogged' \in Int
    PROVE  /\ TypeOK' /\ CallsAreOwn'
           /\ call'[l] = value
           /\ \A m \in Loops : m # l => call'[m] = call[m]
<1>1. /\ call' \in [Loops -> Call]
      /\ \A m \in Loops : call'[m].step \in Built => call'[m].tx \in Tx
      /\ CallsAreOwn'
      /\ call'[l] = value
      /\ \A m \in Loops : m # l => call'[m] = call[m]
  BY CallReplaced DEF WellFormed
<1> QED
  BY <1>1 DEF TypeOK

LEMMA LoopFits ==
    ASSUME RecallsFit, NeverOverRecalled, UNCHANGED <<ledger, recall, tier0, stale>>,
           call'["recall"].step # "idle" => Fits(call'["recall"]),
           call'["recall"].step \in Built => Fits(call'["recall"].tx),
           \A tx \in pending' : tx.loop = "recall" => Fits(tx)
    PROVE  RecallsFit' /\ NeverOverRecalled'
  BY DEF RecallsFit, NeverOverRecalled, Fits

\* What the swap loop does is no concern of the recalls.
LEMMA RecallUnconcerned ==
    ASSUME TypeOK, RecallsFit, NeverOverRecalled, LogIsAccountedFor,
           UNCHANGED <<ledger, recall, tier0, stale, unlogged>>,
           call'["recall"] = call["recall"],
           \A tx \in pending' : tx.loop = "recall" => tx \in pending,
           faults' \in Nat, faults' >= faults
    PROVE  RecallsFit' /\ NeverOverRecalled' /\ LogIsAccountedFor'
<1>1. RecallsFit' /\ NeverOverRecalled'
  BY LoopFits DEF RecallsFit
<1>2. (Queued' => Queued) /\ (Orphan' => Orphan)
  BY DEF Queued, Orphan
<1>3. faults \in Nat /\ unlogged \in Int
  BY DEF TypeOK
<1>4. LogIsAccountedFor'
  <2> DEFINE result == call["recall"].result
  <2>1. /\ result = "SUCCESS" => 1 <= unlogged' /\ unlogged' <= faults' + 1
        /\ result # "SUCCESS" => 0 <= unlogged' /\ unlogged' <= faults'
    BY <1>3 DEF LogIsAccountedFor
  <2>2. Orphan' => unlogged' + 1 <= faults'
    BY <1>2, <1>3 DEF LogIsAccountedFor
  <2>3. result # None => ~Queued'
    BY <1>2 DEF LogIsAccountedFor
  <2>4. (call["recall"].result)' = result
    OBVIOUS
  <2> HIDE DEF result
  <2> QED
    BY <2>1, <2>2, <2>3, <2>4 DEF LogIsAccountedFor
<1> QED
  BY <1>1, <1>4

LEMMA LoopNames == "recall" \in Loops /\ "swap" \in Loops /\ Loops = {"recall", "swap"}
  BY DEF Loops

\* The log while the recall loop has no result, and its orphans do not grow.
LEMMA LogKept ==
    ASSUME TypeOK, LogIsAccountedFor, UNCHANGED <<unlogged, faults>>,
           call["recall"].result = None, call'["recall"].result = None,
           Orphan' => Orphan
    PROVE  LogIsAccountedFor'
<1>1. faults \in Nat /\ unlogged \in Int
  BY DEF TypeOK
<1>2. 0 <= unlogged /\ unlogged <= faults /\ (Orphan => unlogged + 1 <= faults)
  BY NoneIsNoResult DEF LogIsAccountedFor
<1>3. /\ call'["recall"].result # "SUCCESS"
      /\ 0 <= unlogged' /\ unlogged' <= faults'
      /\ Orphan' => unlogged' + 1 <= faults'
  BY <1>1, <1>2, NoneIsNoResult
<1> QED
  BY <1>3 DEF LogIsAccountedFor

-----------------------------------------------------------------------------
LEMMA ReadTier0Inv ==
    ASSUME CallInv, ReadTier0
    PROVE  CallInv'
<1>1. /\ TypeOK /\ CallsAreOwn /\ RecallsFit /\ NeverOverRecalled /\ LogIsAccountedFor
      /\ UNCHANGED <<ledger, sequence, pending, recall, tier0, xlm, price, stale,
                     unlogged, faults>>
  BY DEF CallInv, ReadTier0, Becomes, chainVars
<1>2. PICK value : /\ call' = [call EXCEPT !["recall"] = value]
                   /\ WellFormed("recall", value)
                   /\ value.step = "build" /\ value.readAt = ledger
                   /\ value.amount = Target - tier0
  BY <1>1, ReadTier0Call
<1>3. TypeOK' /\ CallsAreOwn' /\ call'["recall"] = value
  BY <1>1, <1>2, LoopTypes, LoopNames DEF TypeOK
<1>4. Fits(value)
  <2>1. ledger > recall.last /\ recall.last \in Nat /\ ledger \in Nat /\ tier0 \in Int
    BY <1>1 DEF TypeOK, RecallsFit
  <2> QED
    BY <1>2, <2>1, RecallAssumption DEF Fits
<1>5. RecallsFit' /\ NeverOverRecalled'
  <2>1. value.step \notin Built
    BY <1>2 DEF Built
  <2> QED
    BY <1>1, <1>3, <1>4, <2>1, LoopFits DEF RecallsFit
<1>6. LogIsAccountedFor'
  <2>1. call["recall"].step = "idle" /\ value.result = None /\ call["recall"].result = None
    BY <1>1, <1>2, LoopNames DEF ReadTier0, At, WellFormed, CallsAreOwn
  <2>2. Orphan' => Orphan
    BY <1>1, <1>2, <1>3, <2>1 DEF Orphan
  <2> QED
    BY <1>1, <1>3, <2>1, <2>2, LogKept
<1> QED
  BY <1>3, <1>5, <1>6 DEF CallInv

\* A step of the swap loop that may queue its transaction or cost a fault.
LEMMA SwapStepInv ==
    ASSUME CallInv, NEW value, WellFormed("swap", value),
           call' = [call EXCEPT !["swap"] = value],
           UNCHANGED <<ledger, sequence, recall, tier0, xlm, price, stale, unlogged>>,
           pending' \subseteq Tx,
           \A tx \in pending' : tx.loop = "recall" => tx \in pending,
           faults' \in Nat, faults' >= faults
    PROVE  CallInv'
<1>1. TypeOK /\ CallsAreOwn /\ RecallsFit /\ NeverOverRecalled /\ LogIsAccountedFor
  BY DEF CallInv
<1>2. TypeOK' /\ CallsAreOwn' /\ call'["recall"] = call["recall"]
  <2>1. unlogged' \in Int
    BY <1>1 DEF TypeOK
  <2> QED
    BY <1>1, <2>1, LoopTypes, LoopNames
<1>3. RecallsFit' /\ NeverOverRecalled' /\ LogIsAccountedFor'
  BY <1>1, <1>2, RecallUnconcerned
<1> QED
  BY <1>2, <1>3 DEF CallInv

\* The swap loop's own steps: its call changes and nothing else.
LEMMA SwapCallInv ==
    ASSUME CallInv, NEW value, WellFormed("swap", value),
           call' = [call EXCEPT !["swap"] = value],
           UNCHANGED <<chainVars, unlogged, faults>>
    PROVE  CallInv'
<1>1. /\ UNCHANGED <<ledger, sequence, pending, recall, tier0, xlm, price, stale,
                     unlogged, faults>>
      /\ pending' \subseteq Tx /\ faults' \in Nat /\ faults' >= faults
  BY DEF CallInv, TypeOK, chainVars
<1> QED
  BY <1>1, SwapStepInv

LEMMA ReadXlmInv ==
    ASSUME CallInv, ReadXlm
    PROVE  CallInv'
<1>1. PICK value : call' = [call EXCEPT !["swap"] = value] /\ WellFormed("swap", value)
  BY ReadXlmCall DEF CallInv
<1> QED
  BY <1>1, SwapCallInv DEF ReadXlm, Becomes

LEMMA DecideSwapInv ==
    ASSUME CallInv, DecideSwap \/ OracleDegraded
    PROVE  CallInv'
<1>1. CASE DecideSwap
  <2>1. PICK value : call' = [call EXCEPT !["swap"] = value] /\ WellFormed("swap", value)
    BY <1>1, DecideSwapCall DEF CallInv
  <2> QED
    BY <1>1, <2>1, SwapCallInv DEF DecideSwap, Becomes
<1>2. CASE OracleDegraded
  BY <1>2, IdleIsWellFormed, SwapCallInv DEF OracleDegraded, Becomes
<1> QED
  BY <1>1, <1>2

\* The recall loop's call changes to one that promises no more than it did.
LEMMA RecallCallInv ==
    ASSUME CallInv, NEW value, WellFormed("recall", value),
           call' = [call EXCEPT !["recall"] = value],
           UNCHANGED <<chainVars, unlogged, faults>>,
           call["recall"].step \notin {"idle", "poll"},
           value.step # "idle" => Fits(value),
           value.step \in Built => Fits(value.tx),
           value.result = None
    PROVE  CallInv'
<1>1. /\ TypeOK /\ CallsAreOwn /\ RecallsFit /\ NeverOverRecalled /\ LogIsAccountedFor
      /\ UNCHANGED <<ledger, sequence, pending, recall, tier0, xlm, price, stale,
                     unlogged, faults>>
  BY DEF CallInv, chainVars
<1>2. TypeOK' /\ CallsAreOwn' /\ call'["recall"] = value
  BY <1>1, LoopTypes, LoopNames DEF TypeOK
<1>3. RecallsFit' /\ NeverOverRecalled'
  BY <1>1, <1>2, LoopFits DEF RecallsFit
<1>4. call["recall"].result = None /\ (Orphan' => Orphan)
  BY <1>1, <1>2, LoopNames DEF Orphan, CallsAreOwn
<1>5. LogIsAccountedFor'
  BY <1>1, <1>2, <1>4, LogKept
<1> QED
  BY <1>2, <1>3, <1>5 DEF CallInv

LEMMA BuildInv ==
    ASSUME CallInv, NEW l \in Loops, Build(l)
    PROVE  CallInv'
<1>1. PICK value :
         /\ call' = [call EXCEPT ![l] = value]
         /\ WellFormed(l, value)
         /\ value.step = "trial"
         /\ value.readAt = call[l].readAt /\ value.amount = call[l].amount
         /\ value.tx.readAt = call[l].readAt /\ value.tx.amount = call[l].amount
  BY BuildCall DEF CallInv
<1>2. UNCHANGED <<chainVars, unlogged, faults>> /\ call[l].step = "build"
  BY DEF Build, Becomes, At
<1>3. CASE l = "swap"
  BY <1>1, <1>2, <1>3, SwapCallInv
<1>4. CASE l = "recall"
  <2>1. Fits(call["recall"])
    BY <1>2, <1>4 DEF CallInv, RecallsFit
  <2>2. Fits(value) /\ Fits(value.tx) /\ value.result = None
    BY <1>1, <1>4, <2>1 DEF Fits, WellFormed
  <2> QED
    BY <1>1, <1>2, <1>4, <2>2, RecallCallInv
<1> QED
  BY <1>3, <1>4, LoopNames

LEMMA TrialInv ==
    ASSUME CallInv, NEW l \in Loops, Trial(l)
    PROVE  CallInv'
<1>1. UNCHANGED <<chainVars, unlogged, faults>> /\ call[l].step = "trial"
  BY DEF Trial, Becomes, At
<1>2. CASE call' = [call EXCEPT ![l] = Idle]
  <2>1. WellFormed(l, Idle) /\ Idle.step = "idle" /\ Idle.result = None
    BY IdleIsWellFormed, IdleCall
  <2>2. Idle.step \notin Built
    BY <2>1 DEF Built
  <2> QED
    BY <1>1, <1>2, <2>1, <2>2, SwapCallInv, RecallCallInv, LoopNames
<1>3. CASE call' = [call EXCEPT ![l] = [@ EXCEPT !.step = "send"]]
  <2>1. PICK value :
           /\ call' = [call EXCEPT ![l] = value]
           /\ WellFormed(l, value)
           /\ value.step = "send" /\ value.tx = call[l].tx /\ value.result = None
           /\ value.readAt = call[l].readAt /\ value.amount = call[l].amount
    BY <1>1, <1>3, MovedOn DEF CallInv
  <2>2. CASE l = "swap"
    BY <1>1, <2>1, <2>2, SwapCallInv
  <2>3. CASE l = "recall"
    <3>1. Fits(call["recall"]) /\ Fits(call["recall"].tx)
      BY <1>1, <2>3 DEF CallInv, RecallsFit, Built
    <3>2. Fits(value) /\ Fits(value.tx)
      BY <2>1, <2>3, <3>1 DEF Fits
    <3> QED
      BY <1>1, <2>1, <2>3, <3>2, RecallCallInv
  <2> QED
    BY <2>2, <2>3, LoopNames
<1> QED
  BY <1>2, <1>3 DEF Trial, Becomes, CallInv, TypeOK

-----------------------------------------------------------------------------
\* A step of the recall loop that may queue its transaction or cost a fault; its
\* log is for each action to account for.
LEMMA RecallStepInv ==
    ASSUME CallInv, NEW value, WellFormed("recall", value),
           call' = [call EXCEPT !["recall"] = value],
           UNCHANGED <<ledger, sequence, recall, tier0, xlm, price, stale>>,
           value.step # "idle" => Fits(value),
           value.step \in Built => Fits(value.tx),
           pending' \subseteq Tx,
           \A tx \in pending' : tx.loop = "recall" => Fits(tx),
           faults' \in Nat, unlogged' \in Int,
           call'["recall"] = value => LogIsAccountedFor'
    PROVE  CallInv'
<1>1. TypeOK /\ CallsAreOwn /\ RecallsFit /\ NeverOverRecalled
  BY DEF CallInv
<1>2. TypeOK' /\ CallsAreOwn' /\ call'["recall"] = value
  BY <1>1, LoopTypes, LoopNames
<1>3. RecallsFit' /\ NeverOverRecalled'
  BY <1>1, <1>2, LoopFits
<1> QED
  BY <1>2, <1>3 DEF CallInv

\* The log after a step that leaves the recall loop without a result.
LEMMA LogAfter ==
    ASSUME faults' \in Nat, unlogged' \in Int, call'["recall"].result # "SUCCESS",
           call'["recall"].result # None => ~Queued',
           0 <= unlogged', unlogged' <= faults', Orphan' => unlogged' + 1 <= faults'
    PROVE  LogIsAccountedFor'
  BY DEF LogIsAccountedFor

\* What the invariant says of the log before a step, as facts about numbers.
LEMMA LogBefore ==
    ASSUME CallInv
    PROVE  /\ faults \in Nat /\ unlogged \in Int
           /\ 0 <= unlogged /\ unlogged <= faults + 1
           /\ call["recall"].result = "SUCCESS" => 1 <= unlogged
           /\ call["recall"].result # "SUCCESS" => unlogged <= faults
           /\ Queued => call["recall"].result = None
           /\ Queued => unlogged <= faults
           /\ Orphan => unlogged + 1 <= faults
<1>1. /\ faults \in Nat /\ unlogged \in Int
      /\ Orphan => unlogged + 1 <= faults
      /\ Queued => call["recall"].result = None
  BY DEF CallInv, TypeOK, LogIsAccountedFor
<1>2. /\ call["recall"].result = "SUCCESS" => 1 <= unlogged /\ unlogged <= faults + 1
      /\ call["recall"].result # "SUCCESS" => 0 <= unlogged /\ unlogged <= faults
  BY DEF CallInv, LogIsAccountedFor
<1>3. 0 <= unlogged /\ unlogged <= faults + 1
  BY <1>1, <1>2
<1>4. Queued => unlogged <= faults
  BY <1>1, <1>2, NoneIsNoResult
<1> QED
  BY <1>1, <1>2, <1>3, <1>4

\* What the recall loop holds while it is at a step past building.
LEMMA RecallHolds ==
    ASSUME CallInv, call["recall"].step \in Built
    PROVE  /\ Fits(call["recall"]) /\ Fits(call["recall"].tx)
           /\ call["recall"].tx \in Tx /\ call["recall"].tx.loop = "recall"
           /\ call["recall"].step # "poll" => call["recall"].result = None
<1>1. call["recall"].step # "idle"
  BY DEF Built
<1> QED
  BY <1>1, LoopNames DEF CallInv, RecallsFit, TypeOK, CallsAreOwn

-----------------------------------------------------------------------------
LEMMA SendInv ==
    ASSUME CallInv, NEW l \in Loops, Send(l)
    PROVE  CallInv'
<1>1. /\ call[l].step = "send"
      /\ UNCHANGED <<ledger, sequence, recall, tier0, xlm, price, stale, unlogged, faults>>
      /\ pending' = IF Acceptable(call[l].tx) /\ pending = {} THEN {call[l].tx} ELSE pending
  BY DEF Send, At
<1>2. call[l].tx \in Tx /\ call[l].tx.loop = l /\ pending \subseteq Tx /\ faults \in Nat
      /\ unlogged \in Int
  BY <1>1 DEF CallInv, TypeOK, CallsAreOwn, Built
<1>3. pending' \subseteq Tx
  BY <1>1, <1>2
<1>4. PICK value :
         /\ call' = [call EXCEPT ![l] = value]
         /\ WellFormed(l, value)
         /\ value.result = None
         /\ \/ value.step = "idle" /\ pending' = pending
            \/ /\ value.step = "poll" /\ value.tx = call[l].tx
               /\ value.readAt = call[l].readAt /\ value.amount = call[l].amount
  <2>1. CASE Acceptable(call[l].tx)
    <3>1. call' = [call EXCEPT ![l] = [@ EXCEPT !.step = "poll"]]
      BY <2>1 DEF Send, CallInv, TypeOK
    <3> QED
      BY <1>1, <3>1, MovedOn DEF CallInv
  <2>2. CASE ~Acceptable(call[l].tx)
    <3>1. call' = [call EXCEPT ![l] = Idle] /\ pending' = pending
      BY <1>1, <2>2 DEF Send, CallInv, TypeOK
    <3> QED
      BY <3>1, IdleIsWellFormed, IdleCall
  <2> QED
    BY <2>1, <2>2
<1>5. CASE l = "swap"
  <2>1. \A tx \in pending' : tx.loop = "recall" => tx \in pending
    BY <1>1, <1>2, <1>5
  <2>2. faults' \in Nat /\ faults' >= faults
    BY <1>1, <1>2
  <2> QED
    BY <1>1, <1>3, <1>4, <1>5, <2>1, <2>2, SwapStepInv
<1>6. CASE l = "recall"
  <2>1. Fits(call["recall"]) /\ Fits(call["recall"].tx) /\ call["recall"].result = None
    BY <1>1, <1>6, RecallHolds DEF Built
  <2>2. /\ value.step # "idle" => Fits(value)
        /\ value.step \in Built => Fits(value.tx)
    BY <1>4, <1>6, <2>1 DEF Fits, Built
  <2>3. \A tx \in pending' : tx.loop = "recall" => Fits(tx)
    BY <1>1, <1>6, <2>1 DEF CallInv, RecallsFit
  <2>4. ASSUME call'["recall"] = value PROVE LogIsAccountedFor'
    <3>1. Orphan' => Orphan
      <4>1. ASSUME NEW tx \in pending', tx.loop = "recall",
                   call'["recall"].step = "poll" => call'["recall"].tx # tx
            PROVE  tx \in pending
        BY <1>1, <1>4, <1>6, <2>4, <4>1
      <4>2. call["recall"].step # "poll"
        BY <1>1, <1>6
      <4> QED
        BY <4>1, <4>2 DEF Orphan
    <3>2. TypeOK /\ LogIsAccountedFor /\ call'["recall"].result = None
      BY <1>4, <2>4 DEF CallInv
    <3> QED
      BY <1>1, <2>1, <3>1, <3>2, LogKept
  <2>5. faults' \in Nat /\ unlogged' \in Int
    BY <1>1, <1>2
  <2> QED
    BY <1>1, <1>3, <1>4, <1>6, <2>2, <2>3, <2>4, <2>5, RecallStepInv
<1> QED
  BY <1>5, <1>6, LoopNames

LEMMA AnswerLostInv ==
    ASSUME CallInv, NEW l \in Loops, AnswerLost(l)
    PROVE  CallInv'
<1>1. /\ call[l].step = "send" /\ pending' = {call[l].tx} /\ faults' = faults + 1
      /\ UNCHANGED <<ledger, sequence, recall, tier0, xlm, price, stale, call, unlogged>>
  BY DEF AnswerLost, At
<1>2. /\ call[l].tx \in Tx /\ call[l].tx.loop = l /\ WellFormed(l, call[l])
      /\ call' = [call EXCEPT ![l] = call[l]]
      /\ faults \in Nat /\ unlogged \in Int
  BY <1>1, OwnIsWellFormed DEF CallInv, TypeOK, CallsAreOwn, Built
<1>3. faults' \in Nat /\ faults' >= faults /\ pending' \subseteq Tx /\ unlogged' \in Int
  BY <1>1, <1>2
<1>4. CASE l = "swap"
  <2>1. \A tx \in pending' : tx.loop = "recall" => tx \in pending
    BY <1>1, <1>2, <1>4
  <2> QED
    BY <1>1, <1>2, <1>3, <1>4, <2>1, SwapStepInv
<1>5. CASE l = "recall"
  <2>1. Fits(call["recall"]) /\ Fits(call["recall"].tx) /\ call["recall"].result = None
    BY <1>1, <1>5, RecallHolds DEF Built
  <2>2. LogIsAccountedFor'
    <3>1. 0 <= unlogged /\ unlogged <= faults
      BY <2>1, LogBefore, NoneIsNoResult
    <3>2. 0 <= unlogged' /\ unlogged' <= faults' /\ unlogged' + 1 <= faults'
      BY <1>1, <1>2, <3>1
    <3>3. call'["recall"].result = None
      BY <1>1, <2>1
    <3> QED
      BY <1>3, <3>2, <3>3, LogAfter, NoneIsNoResult
  <2>3. \A tx \in pending' : tx.loop = "recall" => Fits(tx)
    BY <1>1, <1>5, <2>1
  <2> QED
    BY <1>1, <1>2, <1>3, <1>5, <2>1, <2>2, <2>3, RecallStepInv
<1> QED
  BY <1>4, <1>5, LoopNames

LEMMA PolledInv ==
    ASSUME CallInv, NEW l \in Loops, Polled(l)
    PROVE  CallInv'
<1>1. /\ call[l].step = "poll" /\ call[l].result # None
      /\ call' = [call EXCEPT ![l] = Idle] /\ UNCHANGED <<chainVars, faults>>
      /\ unlogged' = IF l = "recall" /\ call[l].result = "SUCCESS"
                     THEN unlogged - 1 ELSE unlogged
  BY DEF Polled, At, Found, LogLine
<1>2. UNCHANGED <<ledger, sequence, pending, recall, tier0, xlm, price, stale>>
  BY <1>1 DEF chainVars
<1>3. /\ WellFormed(l, Idle) /\ Idle.step = "idle" /\ Idle.result = None
      /\ Idle.step \notin Built
  BY IdleIsWellFormed, IdleCall DEF Built
<1>4. faults' \in Nat /\ faults' >= faults /\ unlogged' \in Int /\ pending' \subseteq Tx
  BY <1>1, <1>2 DEF CallInv, TypeOK
<1>5. CASE l = "swap"
  <2>1. unlogged' = unlogged /\ pending' = pending
    BY <1>1, <1>2, <1>5
  <2> QED
    BY <1>1, <1>2, <1>3, <1>4, <1>5, <2>1, SwapStepInv
<1>6. CASE l = "recall"
  <2>1. 0 <= unlogged' /\ unlogged' <= faults'
    <3>1. CASE call["recall"].result = "SUCCESS"
      <4>1. unlogged' = unlogged - 1 /\ 1 <= unlogged
        BY <1>1, <1>6, <3>1, LogBefore
      <4> QED
        BY <1>1, <4>1, LogBefore
    <3>2. CASE call["recall"].result # "SUCCESS"
      <4>1. unlogged' = unlogged
        BY <1>1, <1>6, <3>2
      <4> QED
        BY <1>1, <3>2, <4>1, LogBefore
    <3> QED
      BY <3>1, <3>2
  <2>2. ~Queued
    BY <1>1, <1>6, LogBefore
  <2>3. ~Orphan' /\ ~Queued'
    BY <1>2, <2>2 DEF Orphan, Queued
  <2>4. call'["recall"] = Idle => LogIsAccountedFor'
    BY <1>3, <1>4, <2>1, <2>3, LogAfter, NoneIsNoResult
  <2>5. \A tx \in pending' : tx.loop = "recall" => Fits(tx)
    BY <1>2 DEF CallInv, RecallsFit
  <2> QED
    BY <1>1, <1>2, <1>3, <1>4, <1>6, <2>4, <2>5, RecallStepInv
<1> QED
  BY <1>5, <1>6, LoopNames

LEMMA TickThrowsInv ==
    ASSUME CallInv, NEW l \in Loops, TickThrows(l)
    PROVE  CallInv'
<1>1. /\ faults' = faults + 1 /\ call' = [call EXCEPT ![l] = Idle]
      /\ UNCHANGED <<chainVars, unlogged>>
  BY DEF TickThrows
<1>2. UNCHANGED <<ledger, sequence, pending, recall, tier0, xlm, price, stale>>
  BY <1>1 DEF chainVars
<1>3. /\ WellFormed(l, Idle) /\ Idle.step = "idle" /\ Idle.result = None
      /\ Idle.step \notin Built
  BY IdleIsWellFormed, IdleCall DEF Built
<1>4. faults' \in Nat /\ faults' >= faults /\ unlogged' \in Int /\ pending' \subseteq Tx
  BY <1>1, <1>2 DEF CallInv, TypeOK
<1>5. CASE l = "swap"
  <2>1. unlogged' = unlogged /\ pending' = pending
    BY <1>1, <1>2
  <2> QED
    BY <1>1, <1>2, <1>3, <1>4, <1>5, <2>1, SwapStepInv
<1>6. CASE l = "recall"
  <2>1. 0 <= unlogged' /\ unlogged' <= faults'
    BY <1>1, LogBefore
  <2>2. Orphan' => unlogged' + 1 <= faults'
    <3>1. Orphan' => Queued
      BY <1>2 DEF Orphan, Queued
    <3> QED
      BY <1>1, <3>1, LogBefore
  <2>3. call'["recall"] = Idle => LogIsAccountedFor'
    BY <1>3, <1>4, <2>1, <2>2, LogAfter, NoneIsNoResult
  <2>4. \A tx \in pending' : tx.loop = "recall" => Fits(tx)
    BY <1>2 DEF CallInv, RecallsFit
  <2> QED
    BY <1>1, <1>2, <1>3, <1>4, <1>6, <2>3, <2>4, RecallStepInv
<1> QED
  BY <1>5, <1>6, LoopNames

-----------------------------------------------------------------------------
\* Time passes, what was queued goes, the vault pays: nothing that could fill
\* Tier 0 or land.
LEMMA DriftInv ==
    ASSUME CallInv, UNCHANGED <<call, sequence, recall, stale, unlogged>>,
           ledger' \in Nat, ledger' >= ledger, pending' \subseteq pending,
           tier0' \in Int, tier0' <= tier0, xlm' \in Int,
           price' \in Prices \cup {None}, faults' \in Nat, faults' >= faults
    PROVE  CallInv'
<1>1. TypeOK /\ CallsAreOwn /\ RecallsFit /\ NeverOverRecalled
  BY DEF CallInv
<1>2. TypeOK' /\ CallsAreOwn'
  BY <1>1 DEF TypeOK, CallsAreOwn
<1>3. ASSUME NEW read, Fits(read), read.amount \in Int, read.readAt \in Nat
      PROVE  Fits(read)'
  BY <1>1, <1>3, RecallAssumption DEF Fits, TypeOK
<1>4. \A tx \in Tx : tx.amount \in Int /\ tx.readAt \in Nat
  BY DEF Tx
<1>5. call["recall"].amount \in Int /\ call["recall"].readAt \in Nat
  BY <1>1, LoopNames DEF TypeOK, Call
<1>6. call["recall"].step \in Built => call["recall"].tx \in Tx
  BY <1>1, LoopNames DEF TypeOK
<1>7. recall'.last < ledger' /\ pending \subseteq Tx
  BY <1>1 DEF TypeOK, RecallsFit
<1>8. RecallsFit'
  <2>1. call["recall"].step # "idle" => Fits(call["recall"])'
    BY <1>1, <1>3, <1>5 DEF RecallsFit
  <2>2. call["recall"].step \in Built => Fits(call["recall"].tx)'
    BY <1>1, <1>3, <1>4, <1>6 DEF RecallsFit
  <2>3. \A tx \in pending' : tx.loop = "recall" => Fits(tx)'
    BY <1>1, <1>3, <1>4, <1>7 DEF RecallsFit
  <2> QED
    BY <1>7, <2>1, <2>2, <2>3 DEF RecallsFit, Fits, Built
<1>9. NeverOverRecalled'
  BY <1>1, RecallAssumption DEF NeverOverRecalled, TypeOK
<1>10. LogIsAccountedFor'
  <2>1. (Queued' => Queued) /\ (Orphan' => Orphan)
    BY DEF Queued, Orphan
  <2>2. /\ call'["recall"].result = "SUCCESS" => 1 <= unlogged' /\ unlogged' <= faults' + 1
        /\ call'["recall"].result # "SUCCESS" => 0 <= unlogged' /\ unlogged' <= faults'
        /\ Orphan' => unlogged' + 1 <= faults'
        /\ call'["recall"].result # None => ~Queued'
    BY <2>1, LogBefore
  <2> QED
    BY <2>2 DEF LogIsAccountedFor
<1> QED
  BY <1>2, <1>8, <1>9, <1>10 DEF CallInv

LEMMA CloseInv ==
    ASSUME CallInv, Close \/ Drop
    PROVE  CallInv'
<1>1. /\ ledger \in Nat /\ faults \in Nat /\ tier0 \in Int /\ xlm \in Int
      /\ price \in Prices \cup {None}
  BY DEF CallInv, TypeOK
<1>2. CASE Close
  BY <1>1, <1>2, DriftInv DEF Close
<1>3. CASE Drop
  BY <1>1, <1>3, DriftInv DEF Drop
<1> QED
  BY <1>2, <1>3

LEMMA WorldInv ==
    ASSUME CallInv, World
    PROVE  CallInv'
<1>1. /\ ledger \in Nat /\ faults \in Nat /\ tier0 \in Int /\ xlm \in Int
      /\ price \in Prices \cup {None}
  BY DEF CallInv, TypeOK
<1>2. tier0' \in Int /\ tier0' <= tier0 /\ xlm' \in Int /\ price' \in Prices \cup {None}
  <2>1. ASSUME NEW p \in Payments, tier0' = tier0 - p, UNCHANGED <<xlm, price>>
        PROVE  tier0' \in Int /\ tier0' <= tier0 /\ xlm' \in Int /\ price' \in Prices \cup {None}
    <3>1. p \in Nat
      BY WorldAssumption
    <3> QED
      BY <1>1, <2>1, <3>1
  <2>2. CASE xlm' = xlm - 1 /\ UNCHANGED <<tier0, price>>
    BY <1>1, <2>2
  <2>3. CASE price' \in Prices \cup {None} /\ UNCHANGED <<tier0, xlm>>
    BY <1>1, <2>3
  <2> QED
    BY <2>1, <2>2, <2>3 DEF World
<1> QED
  BY <1>1, <1>2, DriftInv DEF World

-----------------------------------------------------------------------------
\* A landing's result goes to the loop that polls for it, and to no other.
LEMMA LandingCall ==
    ASSUME CallInv, NEW tx, NEW result \in {"SUCCESS", "FAILED"}, Landing(tx, result)
    PROVE  /\ call' \in [Loops -> Call]
           /\ CallsAreOwn'
           /\ \A l \in Loops : /\ call'[l].step = call[l].step
                               /\ call'[l].tx = call[l].tx
                               /\ call'[l].readAt = call[l].readAt
                               /\ call'[l].amount = call[l].amount
           /\ call["recall"].step = "poll" /\ call["recall"].tx = tx
                => call'["recall"].result = result
           /\ ~(call["recall"].step = "poll" /\ call["recall"].tx = tx)
                => call'["recall"].result = call["recall"].result
<1>1. call \in [Loops -> Call] /\ CallsAreOwn
  BY DEF CallInv, TypeOK
<1>2. ASSUME NEW l \in Loops, call[l].step = "poll", call[l].tx = tx
      PROVE  /\ call'[l] \in Call /\ call'[l].step = call[l].step
             /\ call'[l].tx = call[l].tx /\ call'[l].result = result
             /\ call'[l].readAt = call[l].readAt /\ call'[l].amount = call[l].amount
  <2> DEFINE c == call[l]
  <2>1. c \in Call
    BY <1>1
  <2>2. call'[l] = [c EXCEPT !.result = result]
    BY <1>2 DEF Landing, At
  <2> HIDE DEF c
  <2> DEFINE value == [c EXCEPT !.result = result]
  <2>3. /\ value \in Call /\ value.step = c.step /\ value.tx = c.tx
        /\ value.result = result /\ value.readAt = c.readAt /\ value.amount = c.amount
    BY <2>1, CallEdits
  <2> HIDE DEF value
  <2> QED
    BY <2>2, <2>3, <1>2 DEF c, value
<1>3. ASSUME NEW l \in Loops, ~(call[l].step = "poll" /\ call[l].tx = tx)
      PROVE  call'[l] = call[l]
  BY <1>3 DEF Landing, At
<1>4. \A l \in Loops : call'[l] \in Call /\ call'[l].step = call[l].step
                       /\ call'[l].tx = call[l].tx
                       /\ call'[l].readAt = call[l].readAt
                       /\ call'[l].amount = call[l].amount
  BY <1>1, <1>2, <1>3
<1>5. call' \in [Loops -> Call]
  <2>1. call' = [l \in Loops |-> call'[l]]
    BY DEF Landing
  <2> QED
    BY <1>4, <2>1
<1>6. CallsAreOwn'
  BY <1>1, <1>2, <1>3, <1>4 DEF CallsAreOwn
<1> QED
  BY <1>2, <1>3, <1>4, <1>5, <1>6, LoopNames

\* The effect on the balances and the policies, of either loop's transaction.
LEMMA LandingEffect ==
    ASSUME CallInv, NEW tx, NEW result \in {"SUCCESS", "FAILED"}, Landing(tx, result)
    PROVE  /\ tx \in Tx
           /\ tier0' \in Int /\ xlm' \in Int /\ unlogged' \in Int
           /\ stale => stale'
           /\ \/ /\ tx.loop = "recall" /\ result = "SUCCESS"
                 /\ recall'.last = ledger
                 /\ tier0' = tier0 + tx.amount
                 /\ unlogged' = unlogged + 1
                 /\ stale' \/ ledger - tx.readAt < MinInterval
                 /\ GapKept(ledger)
              \/ /\ recall' = recall /\ tier0' <= tier0
                 /\ unlogged' = unlogged /\ stale' = stale
                 /\ tx.loop = "recall" => result # "SUCCESS"
<1>1. /\ tx \in Tx /\ tier0 \in Int /\ xlm \in Int /\ unlogged \in Int /\ ledger \in Nat
      /\ tx.amount \in Int /\ tx.minOut \in Int /\ tx.readAt \in Nat /\ MinInterval \in Nat
      /\ MaxXlm \in Nat
  BY WorldAssumption, RecallAssumption DEF CallInv, TypeOK, Landing, Tx
<1>2. CASE tx.loop = "recall" /\ result = "SUCCESS"
  <2>1. /\ RecallAllowed(ledger) /\ xlm' = xlm
        /\ recall' = [recent |-> Append(Recent(ledger), ledger), last |-> ledger]
        /\ tier0' = tier0 + tx.amount
        /\ unlogged' = unlogged + 1
        /\ stale' = (stale \/ ledger - tx.readAt >= MinInterval)
    BY <1>2 DEF Landing, RecallEffect
  <2>2. recall'.last = ledger /\ GapKept(ledger)
    BY <2>1 DEF RecallAllowed
  <2>3. stale => stale'
    BY <2>1
  <2>4. stale' \/ ledger - tx.readAt < MinInterval
    <3>1. ledger - tx.readAt >= MinInterval \/ ledger - tx.readAt < MinInterval
      BY <1>1
    <3> QED
      BY <2>1, <3>1
  <2> QED
    BY <1>1, <1>2, <2>1, <2>2, <2>3, <2>4
<1>3. CASE tx.loop = "recall" /\ result # "SUCCESS"
  <2>1. UNCHANGED <<xlm, recall, tier0, unlogged, stale>>
    BY <1>3 DEF Landing, RecallEffect
  <2> QED
    BY <1>1, <1>3, <2>1
<1>4. CASE tx.loop # "recall" /\ result = "SUCCESS"
  <2>1. PICK out \in tx.minOut .. MaxXlm - xlm :
          /\ SwapAllowed(tx.amount, tx.minOut)
          /\ tier0' = tier0 - tx.amount
          /\ xlm' = xlm + out
    BY <1>4 DEF Landing, SwapEffect
  <2>2. UNCHANGED <<recall, unlogged, stale>>
    BY <1>4 DEF Landing, SwapEffect
  <2>3. out \in Int /\ tx.amount > 0
    BY <1>1, <2>1 DEF SwapAllowed
  <2> QED
    BY <1>1, <1>4, <2>1, <2>2, <2>3
<1>5. CASE tx.loop # "recall" /\ result # "SUCCESS"
  <2>1. UNCHANGED <<xlm, recall, tier0, unlogged, stale>>
    BY <1>5 DEF Landing, SwapEffect
  <2> QED
    BY <1>1, <1>5, <2>1
<1> QED
  BY <1>2, <1>3, <1>4, <1>5

LEMMA LandingInv ==
    ASSUME CallInv, NEW tx, NEW result \in {"SUCCESS", "FAILED"}, Landing(tx, result)
    PROVE  CallInv'
<1> DEFINE c == call["recall"]
           polled == c.step = "poll" /\ c.tx = tx
           lands == tx.loop = "recall" /\ result = "SUCCESS"
<1>1. /\ ledger \in Nat /\ ledger' = ledger + 1 /\ sequence' = tx.seq /\ pending' = {}
      /\ UNCHANGED <<price, faults>> /\ faults \in Nat /\ unlogged \in Int
      /\ price \in Prices \cup {None} /\ tx \in pending
      /\ tier0 \in Int /\ recall.last \in Nat /\ recall.last < ledger
  BY DEF Landing, CallInv, TypeOK, RecallsFit
<1>2. /\ tx \in Tx /\ tx.seq \in Nat /\ tx.amount \in Int /\ tx.readAt \in Nat
      /\ tier0' \in Int /\ xlm' \in Int /\ unlogged' \in Int /\ (stale => stale')
  BY LandingEffect DEF Tx
<1>3. \/ /\ lands
         /\ recall'.last = ledger /\ tier0' = tier0 + tx.amount /\ unlogged' = unlogged + 1
         /\ stale' \/ ledger - tx.readAt < MinInterval
         /\ GapKept(ledger)
      \/ /\ ~lands
         /\ recall' = recall /\ tier0' <= tier0 /\ unlogged' = unlogged /\ stale' = stale
  BY LandingEffect
<1>4. /\ call' \in [Loops -> Call] /\ CallsAreOwn'
      /\ \A l \in Loops : call'[l].step = call[l].step /\ call'[l].tx = call[l].tx
      /\ call'["recall"].step = c.step /\ call'["recall"].tx = c.tx
      /\ call'["recall"].readAt = c.readAt /\ call'["recall"].amount = c.amount
      /\ polled => call'["recall"].result = result
      /\ ~polled => call'["recall"].result = c.result
  BY LandingCall, LoopNames
<1>5. recall'.last \in Nat
  BY <1>1, <1>3
<1>6. TypeOK'
  BY <1>1, <1>2, <1>4, <1>5 DEF CallInv, TypeOK
<1>7. RecallsFit'
  <2>1. recall'.last < ledger'
    BY <1>1, <1>3
  <2>2. ASSUME NEW read, Fits(read), read.amount \in Int, read.readAt \in Nat
        PROVE  /\ 0 < read.readAt /\ read.readAt <= ledger'
               /\ read.readAt > recall'.last => tier0' + read.amount <= Target
    <3>1. 0 < read.readAt /\ read.readAt <= ledger
      BY <2>2 DEF Fits
    <3>2. CASE lands
      BY <1>1, <1>3, <2>2, <3>1, <3>2
    <3>3. CASE ~lands
      BY <1>1, <1>2, <1>3, <2>2, <3>1, <3>3, RecallAssumption DEF Fits
    <3> QED
      BY <3>2, <3>3
  <2>3. c.step # "idle" => Fits(c) /\ c.amount \in Int /\ c.readAt \in Nat
    BY LoopNames DEF CallInv, RecallsFit, TypeOK, Call
  <2>4. c.step \in Built => Fits(c.tx) /\ c.tx.amount \in Int /\ c.tx.readAt \in Nat
    BY LoopNames DEF CallInv, RecallsFit, TypeOK, Tx
  <2>5. call'["recall"].step # "idle" =>
          /\ 0 < call'["recall"].readAt /\ call'["recall"].readAt <= ledger'
          /\ call'["recall"].readAt > recall'.last
               => tier0' + call'["recall"].amount <= Target
    BY <1>4, <2>2, <2>3
  <2>6. call'["recall"].step \in Built =>
          /\ 0 < call'["recall"].tx.readAt /\ call'["recall"].tx.readAt <= ledger'
          /\ call'["recall"].tx.readAt > recall'.last
               => tier0' + call'["recall"].tx.amount <= Target
    BY <1>4, <2>2, <2>4
  <2> HIDE DEF c, polled, lands
  <2> QED
    BY <1>1, <2>1, <2>5, <2>6 DEF RecallsFit, Fits, Built
<1>8. NeverOverRecalled'
  <2>1. CASE lands
    <3>1. Fits(tx)
      BY <1>1, <2>1 DEF CallInv, RecallsFit
    <3>2. stale' \/ tx.readAt > recall.last
      BY <1>1, <1>2, <1>3, <2>1, <3>1, RecallAssumption DEF GapKept, Fits
    <3> QED
      BY <1>2, <1>3, <2>1, <3>1, <3>2 DEF Fits, NeverOverRecalled
  <2>2. CASE ~lands
    BY <1>1, <1>2, <1>3, <2>2, RecallAssumption DEF CallInv, NeverOverRecalled
  <2> QED
    BY <2>1, <2>2
<1>9. LogIsAccountedFor'
  <2>1. ~Queued' /\ ~Orphan'
    BY <1>1 DEF Queued, Orphan
  <2>2. faults' = faults /\ unlogged' = unlogged + (IF lands THEN 1 ELSE 0)
    BY <1>1, <1>3
  <2>3. CASE tx.loop = "recall"
    <3>1. Queued
      BY <1>1, <2>3 DEF Queued
    <3>2. c.result = None /\ 0 <= unlogged /\ unlogged <= faults
      BY <3>1, LogBefore
    <3>3. CASE polled
      BY <1>1, <1>4, <2>1, <2>2, <2>3, <3>2, <3>3, NoneIsNoResult DEF LogIsAccountedFor
    <3>4. CASE ~polled
      <4>1. Orphan
        BY <1>1, <2>3, <3>4 DEF Orphan
      <4>2. unlogged + 1 <= faults
        BY <4>1, LogBefore
      <4>3. 0 <= unlogged' /\ unlogged' <= faults'
        BY <1>1, <2>2, <3>2, <4>2
      <4>4. call'["recall"].result = None
        BY <1>4, <3>2, <3>4
      <4> QED
        BY <1>1, <1>2, <2>1, <4>3, <4>4, LogAfter, NoneIsNoResult
    <3> QED
      BY <3>3, <3>4
  <2>4. CASE tx.loop # "recall"
    <3>1. ~polled
      BY <2>4, LoopNames DEF CallInv, CallsAreOwn, Built
    <3>2. call'["recall"].result = c.result /\ unlogged' = unlogged
      BY <1>1, <1>4, <2>2, <2>4, <3>1
    <3>3. /\ c.result = "SUCCESS" => 1 <= unlogged' /\ unlogged' <= faults' + 1
          /\ c.result # "SUCCESS" => 0 <= unlogged' /\ unlogged' <= faults'
      BY <2>2, <3>2, LogBefore
    <3> HIDE DEF c
    <3> QED
      BY <2>1, <3>2, <3>3 DEF LogIsAccountedFor
  <2> QED
    BY <2>3, <2>4
<1> QED
  BY <1>4, <1>6, <1>7, <1>8, <1>9 DEF CallInv

-----------------------------------------------------------------------------
LEMMA InitInv == Init => CallInv
<1> SUFFICES ASSUME Init PROVE CallInv
  OBVIOUS
<1>1. \A l \in Loops : call[l] = Idle
  BY DEF Init
<1>2. Idle \in Call /\ Idle.step = "idle" /\ Idle.result = None /\ Idle.step \notin Built
  BY IdleCall DEF Built
<1>3. TypeOK
  <2>1. call \in [Loops -> Call]
    BY <1>2 DEF Init
  <2>2. recall.last = 0
    BY DEF Init
  <2> QED
    BY <1>1, <1>2, <2>1, <2>2, RecallAssumption, SwapAssumption DEF Init, TypeOK
<1>4. CallsAreOwn
  BY <1>1, <1>2 DEF CallsAreOwn
<1>5. RecallsFit
  <2>1. recall.last < ledger /\ pending = {}
    BY DEF Init
  <2> QED
    BY <1>1, <1>2, <2>1, LoopNames DEF RecallsFit
<1>6. NeverOverRecalled
  BY RecallAssumption DEF Init, NeverOverRecalled
<1>7. LogIsAccountedFor
  <2>1. call["recall"].result = None /\ ~Orphan /\ unlogged = 0 /\ faults = 0
    BY <1>1, <1>2, LoopNames DEF Init, Orphan
  <2> QED
    BY <2>1, NoneIsNoResult DEF LogIsAccountedFor
<1> QED
  BY <1>3, <1>4, <1>5, <1>6, <1>7 DEF CallInv

LEMMA StutterInv ==
    ASSUME CallInv, UNCHANGED vars
    PROVE  CallInv'
<1>1. /\ ledger \in Nat /\ faults \in Nat /\ tier0 \in Int /\ xlm \in Int
      /\ price \in Prices \cup {None}
      /\ UNCHANGED <<ledger, sequence, pending, recall, tier0, xlm, price, stale, call,
                     unlogged, faults>>
  BY DEF CallInv, TypeOK, vars, chainVars
<1> QED
  BY <1>1, DriftInv

LEMMA StepInv == CallInv /\ [Next]_vars => CallInv'
<1> SUFFICES ASSUME CallInv, [Next]_vars PROVE CallInv'
  OBVIOUS
<1>1. CASE ReadTier0
  BY <1>1, ReadTier0Inv
<1>2. CASE ReadXlm
  BY <1>2, ReadXlmInv
<1>3. ASSUME NEW l \in Loops, CallStep(l) PROVE CallInv'
  BY <1>3, BuildInv, TrialInv, SendInv, PolledInv, DecideSwapInv DEF CallStep
<1>4. ASSUME NEW l \in Loops, AnswerLost(l) PROVE CallInv'
  BY <1>4, AnswerLostInv
<1>5. ASSUME NEW l \in Loops, TickThrows(l) PROVE CallInv'
  BY <1>5, TickThrowsInv
<1>6. CASE Closing
  BY <1>6, CloseInv, LandingInv DEF Closing, Include
<1>7. CASE Drop
  BY <1>7, CloseInv
<1>8. CASE World
  BY <1>8, WorldInv
<1>9. CASE UNCHANGED vars
  BY <1>9, StutterInv
<1> QED
  BY <1>1, <1>2, <1>3, <1>4, <1>5, <1>6, <1>7, <1>8, <1>9 DEF Next

LEMMA CallsKept == Spec => []CallInv
  BY InitInv, StepInv, PTL DEF Spec

\* Types: transactions, calls and balances keep theirs for any length of behaviour.
THEOREM CallTypes == Spec => []TypeOK
<1>1. CallInv => TypeOK
  BY DEF CallInv
<1> QED
  BY <1>1, CallsKept, PTL

\* No shortfall of Tier 0 is filled twice: whatever throws, restarts, is lost or
\* dropped in triggerRecall, sequence number and policy-recall's gap leave it at
\* or under the target, unless a recall lands MinInterval ledgers after its read.
THEOREM ShortfallFilledOnce == Spec => []NeverOverRecalled
<1>1. CallInv => NeverOverRecalled
  BY DEF CallInv
<1> QED
  BY <1>1, CallsKept, PTL

\* The recall_triggered lines are of landed recalls, and there is one for each of
\* them but those whose tick was lost.
THEOREM LogCountsLandings == Spec => []LogIsTrue
<1>1. CallInv => LogIsTrue
  BY LogBefore DEF LogIsTrue
<1> QED
  BY <1>1, CallsKept, PTL

\* A swap that lands pays what enforce_swap_exact_tokens asks of the oracle price
\* at the landing, whatever the keeper had read before.
THEOREM LandedSwapsAreFair == Spec => SwapsAreFair
<1> DEFINE Fair == xlm' > xlm =>
             xlm' - xlm >= OracleDerivedMinOut(tier0 - tier0', price, PolicyBps)
<1>1. ASSUME CallInv, NEW tx \in pending, Include(tx)
      PROVE  Fair
  <2>1. PICK result \in {"SUCCESS", "FAILED"} : Landing(tx, result)
    BY <1>1 DEF Include
  <2>2. tier0 \in Int /\ xlm \in Int /\ tx.amount \in Int /\ tx.minOut \in Int
    BY <1>1 DEF CallInv, TypeOK, Tx
  <2>3. CASE tx.loop = "recall" \/ result # "SUCCESS"
    <3>1. xlm' = xlm
      BY <2>1, <2>3 DEF Landing, RecallEffect, SwapEffect
    <3> QED
      BY <2>2, <3>1
  <2>4. CASE tx.loop # "recall" /\ result = "SUCCESS"
    <3>1. PICK out \in tx.minOut .. MaxXlm - xlm :
            /\ SwapAllowed(tx.amount, tx.minOut)
            /\ tier0' = tier0 - tx.amount
            /\ xlm' = xlm + out
      BY <2>1, <2>4 DEF Landing, SwapEffect
    <3>2. /\ out \in Int /\ out >= tx.minOut
          /\ xlm' - xlm = out /\ tier0 - tier0' = tx.amount
      BY <2>2, <3>1, WorldAssumption
    <3>3. price \in Nat \ {0} /\ tx.minOut >= OracleDerivedMinOut(tx.amount, price, PolicyBps)
      BY <1>1, <3>1, SwapAssumption DEF SwapAllowed, CallInv, TypeOK
    <3>4. OracleDerivedMinOut(tx.amount, price, PolicyBps) \in Int
      BY <2>2, <3>3, MinOutType, SwapAssumption
    <3> QED
      BY <2>2, <3>2, <3>3, <3>4
  <2> QED
    BY <2>3, <2>4
<1>2. ASSUME CallInv, World
      PROVE  Fair
  BY <1>2 DEF CallInv, TypeOK, World
<1>3. ASSUME CallInv, xlm' = xlm
      PROVE  Fair
  BY <1>3 DEF CallInv, TypeOK
<1>4. CallInv /\ [Next]_vars => [Fair]_vars
  <2> SUFFICES ASSUME CallInv, Next PROVE Fair
    BY DEF vars
  <2>1. ASSUME NEW l \in Loops, CallStep(l) \/ AnswerLost(l) \/ TickThrows(l)
        PROVE  xlm' = xlm
    BY <2>1 DEF CallStep, Build, Trial, Send, Polled, DecideSwap, OracleDegraded,
                AnswerLost, TickThrows, Becomes, chainVars
  <2>2. CASE ReadTier0 \/ ReadXlm \/ Close \/ Drop
    <3>1. xlm' = xlm
      BY <2>2 DEF ReadTier0, ReadXlm, Becomes, chainVars, Close, Drop
    <3> QED
      BY <1>3, <3>1
  <2> HIDE DEF Fair
  <2> QED
    BY <1>1, <1>2, <1>3, <2>1, <2>2 DEF Next, Closing
<1> QED
  BY <1>4, CallsKept, PTL DEF Spec, SwapsAreFair
=============================================================================
