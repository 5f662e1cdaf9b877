----------------------------- MODULE VaultCalls -----------------------------
(***************************************************************************)
(* Two keeper loops spend through the vault with one key: the recall of    *)
(* forecasterLoop.ts and the XLM top-up of swap.ts.  Both go through the   *)
(* SDK's authorizeAndSendSmartAccountCall: simulate, authorize, simulate   *)
(* again, send, poll.  The ledger includes, drops or expires what was      *)
(* sent; policy-recall and policy-swap judge it when it lands.  One action *)
(* per awaited call; any of them may throw, and the process may restart.   *)
(***************************************************************************)
EXTENDS Integers, Sequences, FiniteSets

CONSTANTS
    Target,         \* appliedTarget: what the forecaster keeps in Tier 0
    RefillBandBps,
    MaxRecalls, Window, MinInterval,         \* RecallConfig, in ledgers
    XlmFloor, XlmTopup, KeeperBps,           \* swap.ts
    PolicyBps, PerCallCap,                   \* SwapConfig
    Prices, PriceScale,                      \* oracle prices of XLM
    Lifetime,       \* setTimeout(60), in ledgers
    Payments,       \* sizes of a payment out of Tier 0
    None,
    MaxLedger,      \* bound: ledgers of a behaviour
    MaxXlm,         \* bound: XLM of the vault
    MaxFaults       \* bound: throws, restarts, lost answers and drops

ASSUME RecallAssumption ==
    /\ Target \in Nat /\ RefillBandBps \in Nat
    /\ MaxRecalls \in Nat \ {0} /\ Window \in Nat \ {0} /\ MinInterval \in Nat
ASSUME SwapAssumption ==
    /\ XlmFloor \in Nat /\ XlmTopup \in Nat /\ XlmTopup > XlmFloor
    /\ KeeperBps \in Nat /\ PolicyBps \in Nat /\ PerCallCap \in Nat
    /\ Prices \subseteq Nat \ {0} /\ PriceScale \in Nat \ {0}
ASSUME WorldAssumption ==
    /\ Lifetime \in Nat /\ Payments \subseteq Nat /\ MaxXlm \in Nat
    /\ None \notin Int /\ None \notin {"SUCCESS", "FAILED"}

Loops == {"recall", "swap"}

VARIABLES
    ledger,      \* sequence of the ledger being closed; its timestamp too
    sequence,    \* sequence number of the keeper's account
    pending,     \* transactions sent and not yet decided
    call,        \* what each loop is at
    recall,      \* RecallState of policy-recall: recent and last ledger
    tier0, xlm,  \* USDC and XLM of the vault
    price,       \* the router's price, or None when it is not usable
    unlogged,    \* recalls landed, less recall_triggered lines in the log
    faults,
    stale        \* history: a recall landed long after its balance was read

chainVars == <<ledger, sequence, pending, recall, tier0, xlm, price, stale>>
vars == <<chainVars, call, unlogged, faults>>

Steps == {"idle", "quote", "build", "trial", "send", "poll"}
Built == {"trial", "send", "poll"}
Idle == [step |-> "idle", readAt |-> 0, amount |-> 0, minOut |-> 0, tx |-> None,
         result |-> None]

Tx == [loop : Loops, seq : Nat, until : Nat, readAt : Nat, amount : Int,
       minOut : Int, born : Nat]
Call == [step : Steps, readAt : Nat, amount : Int, minOut : Int, tx : Tx \cup {None},
         result : {None, "SUCCESS", "FAILED"}]

TypeOK ==
    /\ ledger \in Nat /\ sequence \in Nat /\ faults \in Nat
    /\ pending \subseteq Tx
    /\ call \in [Loops -> Call]
    /\ \A l \in Loops : call[l].step \in Built => call[l].tx \in Tx
    /\ recall.last \in Nat
    /\ tier0 \in Int /\ xlm \in Int /\ unlogged \in Int
    /\ price \in Prices \cup {None}

Init ==
    /\ ledger = 1
    /\ sequence = 0
    /\ pending = {}
    /\ call = [l \in Loops |-> Idle]
    /\ recall = [recent |-> <<>>, last |-> 0]
    /\ tier0 = Target
    /\ xlm = XlmTopup
    /\ price \in Prices
    /\ unlogged = 0
    /\ faults = 0
    /\ stale = FALSE

-----------------------------------------------------------------------------
\* A loop's call changes and nothing else; a tick that ends or throws is idle.
Becomes(l, value) ==
    /\ call' = [call EXCEPT ![l] = value]
    /\ UNCHANGED <<chainVars, unlogged, faults>>
At(l, step) == call[l].step = step

\* forecaster.ts shouldRecall, and the shortfall handed to triggerRecall.
ReadTier0 ==
    /\ At("recall", "idle")
    /\ tier0 < (Target * RefillBandBps) \div 10000
    /\ Becomes("recall", [Idle EXCEPT !.step = "build", !.readAt = ledger,
                                      !.amount = Target - tier0])

\* swap.ts: the balance, then the oracle and the size, then the router's quote.
ReadXlm ==
    /\ At("swap", "idle")
    /\ xlm < XlmFloor
    /\ Becomes("swap", [Idle EXCEPT !.step = "quote", !.readAt = ledger,
                                    !.amount = XlmTopup - xlm])

OracleDerivedMinOut(amountIn, p, bps) ==
    (((amountIn * PriceScale) \div p) * bps) \div 10000

\* decideSwap, then skipped or not on what the router quotes for the amount.
DecideSwap ==
    LET amountIn == (call["swap"].amount * price) \div PriceScale IN
    /\ At("swap", "quote")
    /\ price # None
    /\ \/ Becomes("swap", Idle)
       \/ Becomes("swap", [call["swap"] EXCEPT
             !.step = "build", !.amount = amountIn,
             !.minOut = OracleDerivedMinOut(amountIn, price, KeeperBps)])

OracleDegraded == At("swap", "quote") /\ price = None /\ Becomes("swap", Idle)

\* getAccount gives the sequence number, the builder the time bound.  The second
\* conjunct is a bound: what is built is decided within the behaviour.
Build(l) ==
    /\ At(l, "build")
    /\ ledger + Lifetime < MaxLedger
    /\ Becomes(l, [call[l] EXCEPT !.step = "trial", !.tx =
         [loop |-> l, seq |-> sequence + 1, until |-> ledger + Lifetime,
          readAt |-> call[l].readAt, amount |-> call[l].amount,
          minOut |-> call[l].minOut, born |-> faults]])

\* policy-recall check_and_bump_rate_limit.
Recent(at) == SelectSeq(recall.recent, LAMBDA t : t > at - Window)

\* Mutant of GapKept: zero ledgers between two recalls are enough.
GapKeptAlways(at) == TRUE
GapKept(at) == recall.last = 0 \/ at - recall.last >= MinInterval
RecallAllowed(at) == GapKept(at) /\ Len(Recent(at)) < MaxRecalls

\* Mutant of SwapAllowed: the floor is the caller's word.
SwapAllowedAnyFloor(amountIn, minOut) ==
    price # None /\ amountIn > 0 /\ amountIn <= PerCallCap
\* policy-swap enforce_swap_exact_tokens.
SwapAllowed(amountIn, minOut) ==
    /\ price # None
    /\ amountIn > 0 /\ amountIn <= PerCallCap
    /\ minOut >= OracleDerivedMinOut(amountIn, price, PolicyBps)

Allowed(tx, at) ==
    IF tx.loop = "recall" THEN RecallAllowed(at) ELSE SwapAllowed(tx.amount, tx.minOut)

\* The first simulation, with an empty entry for the vault, only shows the nonce
\* to build the payload and the entries with; the second runs the vault's
\* __check_auth and its policies.
Trial(l) ==
    /\ At(l, "trial")
    /\ Becomes(l, IF Allowed(call[l].tx, ledger)
                  THEN [call[l] EXCEPT !.step = "send"] ELSE Idle)

\* sendTransaction: ERROR throws, for a used sequence number or a time bound that
\* is past; a queue that already holds a transaction of this account answers
\* TRY_AGAIN_LATER, which is polled for like the rest.
Acceptable(tx) == tx.seq = sequence + 1 /\ ledger <= tx.until
Send(l) ==
    /\ At(l, "send")
    /\ call' = [call EXCEPT ![l] = IF Acceptable(@.tx) THEN [@ EXCEPT !.step = "poll"]
                                   ELSE Idle]
    /\ pending' = IF Acceptable(call[l].tx) /\ pending = {}
                  THEN {call[l].tx} ELSE pending
    /\ UNCHANGED <<ledger, sequence, recall, tier0, xlm, price, stale,
                   unlogged, faults>>

\* It was queued, but the answer is lost: withRetry sends it again.
AnswerLost(l) ==
    /\ At(l, "send")
    /\ faults < MaxFaults
    /\ faults' = faults + 1
    /\ Acceptable(call[l].tx) /\ pending = {}
    /\ pending' = {call[l].tx}
    /\ UNCHANGED <<ledger, sequence, recall, tier0, xlm, price, stale, call,
                   unlogged>>

\* Mutant of LogLine: whatever the transaction came to.
LogLineAlways(l) == l = "recall"
LogLine(l) == l = "recall" /\ call[l].result = "SUCCESS"

\* Mutant of Found: only what succeeded ends the wait.
FoundSuccess(l) == call[l].result = "SUCCESS"
Found(l) == call[l].result # None

\* getTransaction finds it; until then the loop polls without end.
Polled(l) ==
    /\ At(l, "poll")
    /\ Found(l)
    /\ unlogged' = IF LogLine(l) THEN unlogged - 1 ELSE unlogged
    /\ call' = [call EXCEPT ![l] = Idle]
    /\ UNCHANGED <<chainVars, faults>>

\* Any awaited call throws, five times for those retried, or the process dies.
TickThrows(l) ==
    /\ ~At(l, "idle")
    /\ faults < MaxFaults
    /\ faults' = faults + 1
    /\ call' = [call EXCEPT ![l] = Idle]
    /\ UNCHANGED <<chainVars, unlogged>>

-----------------------------------------------------------------------------
\* What landing does: the result, and the balances and policy state after it.
\* A recall fails if the venue cannot pay, a swap if the pool gives too little.
RecallEffect(tx, result) ==
    /\ result = "SUCCESS" => RecallAllowed(ledger)
    /\ UNCHANGED xlm
    /\ IF result = "SUCCESS"
       THEN /\ recall' = [recent |-> Append(Recent(ledger), ledger), last |-> ledger]
            /\ tier0' = tier0 + tx.amount
            /\ unlogged' = unlogged + 1
            /\ stale' = (stale \/ ledger - tx.readAt >= MinInterval)
       ELSE UNCHANGED <<recall, tier0, unlogged, stale>>

SwapEffect(tx, result) ==
    /\ UNCHANGED <<recall, unlogged, stale>>
    /\ IF result = "SUCCESS"
       THEN \E out \in tx.minOut .. MaxXlm - xlm :
              /\ SwapAllowed(tx.amount, tx.minOut)
              /\ tx.amount <= tier0
              /\ tier0' = tier0 - tx.amount
              /\ xlm' = xlm + out
       ELSE UNCHANGED <<tier0, xlm>>

\* A landing hands its result to the loop that polls for it.
Landing(tx, result) ==
    /\ ledger < MaxLedger
    /\ tx \in pending /\ tx.seq = sequence + 1 /\ ledger <= tx.until
    /\ IF tx.loop = "recall" THEN RecallEffect(tx, result) ELSE SwapEffect(tx, result)
    /\ call' = [l \in Loops |-> IF At(l, "poll") /\ call[l].tx = tx
                                THEN [call[l] EXCEPT !.result = result] ELSE call[l]]
    /\ ledger' = ledger + 1
    /\ sequence' = tx.seq
    /\ pending' = {}
    /\ UNCHANGED <<price, faults>>

\* The ledger closes with a transaction of the keeper's account in it.
Include(tx) == \E result \in {"SUCCESS", "FAILED"} : Landing(tx, result)

\* It closes without one; what is past its time bound is gone.
Close ==
    /\ ledger < MaxLedger
    /\ ledger' = ledger + 1
    /\ pending' = {tx \in pending : ledger' <= tx.until}
    /\ UNCHANGED <<sequence, recall, tier0, xlm, price, stale, call,
                   unlogged, faults>>

\* The network drops what it queued.
Drop ==
    /\ pending # {}
    /\ faults < MaxFaults
    /\ faults' = faults + 1
    /\ pending' = {}
    /\ UNCHANGED <<ledger, sequence, recall, tier0, xlm, price, stale, call,
                   unlogged>>

\* Payments out of the vault, fees, and the oracle.
World ==
    /\ \/ \E p \in Payments : p <= tier0 /\ tier0' = tier0 - p /\ UNCHANGED <<xlm, price>>
       \/ xlm > 0 /\ xlm' = xlm - 1 /\ UNCHANGED <<tier0, price>>
       \/ price' \in Prices \cup {None} /\ UNCHANGED <<tier0, xlm>>
    /\ UNCHANGED <<ledger, sequence, pending, recall, stale, call, unlogged,
                   faults>>

CallStep(l) ==
    \/ Build(l) \/ Trial(l) \/ Send(l) \/ Polled(l)
    \/ l = "swap" /\ (DecideSwap \/ OracleDegraded)
Closing == Close \/ \E tx \in pending : Include(tx)

Next ==
    \/ ReadTier0 \/ ReadXlm
    \/ \E l \in Loops : CallStep(l) \/ AnswerLost(l) \/ TickThrows(l)
    \/ Closing \/ Drop \/ World

Spec == Init /\ [][Next]_vars

\* The loops' awaits return, and ledgers close.
FairSpec == Spec /\ WF_vars(Closing) /\ \A l \in Loops : WF_vars(CallStep(l))

-----------------------------------------------------------------------------
\* Restarts, lost answers and transactions of ticks that are gone never fill
\* Tier 0 past its target, provided no recall lands MinInterval ledgers or
\* more after its balance was read: the sequence number and policy-recall's
\* gap leave no room for a second recall of the same shortfall.
NeverOverRecalled == stale \/ tier0 <= Target

\* The metrics log, which the reporter and the alerts read, holds landed
\* recalls only, and lacks no more of them than ticks were lost.
LogIsTrue ==
    /\ unlogged >= 0
    /\ unlogged <= faults + (IF call["recall"].result = "SUCCESS" THEN 1 ELSE 0)

\* A loop polls for ever only for a transaction that is neither queued nor
\* decided: dropped, expired, or never taken into the queue.
Vanished(l) == At(l, "poll") /\ call[l].result = None /\ call[l].tx \notin pending
OnlyLossHangs == \A l \in Loops : At(l, "poll") ~> (~At(l, "poll") \/ Vanished(l))

\* Whatever moved between the tick and the landing, a swap that lands pays
\* PolicyBps of the oracle's value at that moment.
SwapsAreFair ==
    [][xlm' > xlm => xlm' - xlm >= OracleDerivedMinOut(tier0 - tier0', price, PolicyBps)]_vars
=============================================================================
