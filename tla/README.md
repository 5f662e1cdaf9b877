# Refluo: TLA+ models, model checks and proofs

Refluo is a set of Soroban contracts (Rust), off-chain keeper loops
(TypeScript) and a dashboard (Next.js) that manage the liquidity of a
smart-account vault. This directory holds TLA+ modules translated from that
code, the TLC configurations that check them, and TLAPS proofs. Paths below are
relative to the repository root (`src/` in `PROJECT.json`).

A contract call is atomic: it panics or returns `Err` and every write rolls
back, callees' writes included, or it commits as a whole. So one call is one
action, and a rejected call is no step. Off-chain code is not atomic: every
`await` is a point where other parties act, and each is an action boundary.

## 1. The system

| Component | State it keeps | Operations | Talks to |
| --- | --- | --- | --- |
| `contracts/health-monitor` | admin, guardian role (OZ AccessControl), one pause record | `init_guardians`, `add_guardian`, `remove_guardian`, `pause`, `resume_early`, `extend`, `status` | read by risk-engine; paused by oracle-router, guardians and the webhook |
| `contracts/oracle-router` | per asset: config, last accepted quote, start of the one-feed window | `set_config`, `get_price`, `check_and_trip` | two SEP-40 feeds; pauses health-monitor; read by risk-engine and policy-swap |
| `contracts/risk-engine` | per account: config, `SystemState`, tier record; global fee and fee admin | `init`, `init_with_profile`, `set_tier0_target`, `record_tier1_position`, `deploy_allowed`, `check_and_trip`, `keeper_advance_state`, `init_admin`, `transfer_admin`, `set_fee_bps` | reads oracle-router, health-monitor, USDC balance |
| `contracts/timelock` | admin, next id, proposals | `init`, `propose`, `execute`, `cancel` | invokes risk-engine's fee functions |
| `contracts/policy-venue`, `-session`, `-swap` | per (account, rule): config, epoch spend (temporary entry with a TTL), last written epoch | `install`, `enforce`, `uninstall` | called by the vault's `__check_auth`; swap reads oracle-router |
| `contracts/policy-recall` | config, recall timestamps, last recall ledger | `install`, `enforce`, `uninstall` | called by the vault |
| `contracts/policy-admin-threshold`, `contracts/vault` | wrappers of OZ simple threshold and smart account | `install`, `enforce`, rule, signer and policy management | the policies |
| `keeper/src/sentinel.ts`, `decision.ts` | none between ticks | poll utilization, escalate | risk-engine |
| `keeper/src/forecasterLoop.ts`, `forecaster.ts`, `metricsLog.ts` | hysteresis file, metrics log | size and apply the Tier 0 target, sample the balance, recall | risk-engine, vault through the SDK |
| `keeper/src/reflectorQuorum.ts`, `reflectorWebhookServer.ts` | notification groups in memory | quorum of signed notifications, cross-check, pause | RedStone, health-monitor |
| `keeper/src/swap.ts`, `swapDecision.ts` | none | XLM top-up below a floor | oracle-router, router, vault through the SDK |
| `keeper/src/alertDispatcherLoop.ts`, `alertDispatcher.ts` | high-water marks in a file | poll pauses, recalls and the level, alert | health-monitor, risk-engine, metrics log, the dashboard's alerts config |
| `keeper/src/reporterLoop.ts`, `reporter.ts` | snapshot file | pause statistics, backtest, ratios, latencies, series | health-monitor events, metrics log, the dashboard's telemetry panel |
| `drills/refluo_disappears_drill.mjs` | counts of passed and failed checks | deploy, install a rule, remove it with two admin keys, check both | vault, policies through the SDK and the CLI |
| `sdk/src/smartAccountAuth.ts` | none | simulate, authorize, simulate, send, poll | vault, RPC |
| `dashboard/` sign-in | challenges in memory, a session token in a cookie | challenge, verify, session, sign-out | vault and monitor for roles |
| `dashboard/` panels | what each has read; the alerts config file | pause history, proposal queue, alerts config, status bar, overview, go-live checklist, pause and resume buttons | contracts through RPC, the server through `useApiResource`, the wallet |

What makes each component correct:

* health-monitor: a pause is bounded in time whatever the admin does; only a
  guardian starts one; time alone ends it. What others reconstruct from its
  events is what it said.
* oracle-router: a price jump one feed alone reports is never accepted; a
  healthy quote is corroborated by two fresh feeds.
* risk-engine: recorded deployments stay within the cap; a level is lowered
  only under live, re-checked conditions; advice agrees with enforcement.
* the circuit breaker they form: no recovery while the monitor is paused; the
  level a crank leaves is the one a second crank would ask for.
* timelock: no change of fee or role without a proposal that outlived its delay,
  and a queue that shows what was proposed within its lookback and can still be stopped.
* spend policies: at most the cap per epoch, also when the ledger deletes the
  temporary entry; swaps pay the oracle's value; recalls never overfill Tier 0.
* vault and admin threshold: no change of a rule, a policy or a threshold without the
  admins it takes; a drill that passes has shown what it says.
* keeper loops: no lost and no duplicated effect across throws, restarts and
  lost answers; escalation only raises; raises are never held back.
* webhook and alerts: only a real quorum of trusted nodes is acted on, once; a pause
  is dispatched, unless a tick asked for too few ledgers to see it, and it goes untold
  only so or when every POST failed.
* dashboard: one session per challenge, no rights without an on-chain role of this hour, no
  old answer over a newer one (but that of the page's own save), no control that stays
  disabled; what is put together from many reads was never true of nothing, a toast that
  says nothing was sent is right, and an error on a panel is the one that happened.

The hard parts are listed with their lines under `hazards` in `PROJECT.json`.

## 2. The modules

| Module | Models | Builds on | Checked by | Proved in |
| --- | --- | --- | --- | --- |
| `HealthMonitor` | the monitor | | `health_monitor` | `HealthMonitorProofs` |
| `PauseSwitch` | what a reader of `status()` may rely on | | refinement in `health_monitor` | `HealthMonitorProofs` |
| `PauseRecord` | events, the dashboard's replay, the reporter's pause statistics | `HealthMonitor` | `health_monitor` | `HealthMonitorProofs` |
| `GuardianPanel` | the guardian panel: its two-part read, its buttons, wallet and toasts | `PauseRecord` | `health_monitor` | `HealthMonitorProofs` |
| `OracleRouter` | the router for one asset | | `oracle_router` | `OracleRouterProofs` |
| `CircuitBreaker` | the three contracts over one clock | `OracleRouter`, instances of `RiskEngine` and `HealthMonitor` | `circuit_breaker` | `OracleRouterProofs` |
| `RiskEngine` | the engine for one account | | `risk_engine` | `RiskEngineProofs` |
| `VaultPages` | status bar, overview and go-live checklist; the vault's context rules | `RiskEngine` | `risk_engine` | `RiskEngineProofs` |
| `Panels` | the panels that only read, from their routes to what they show | | `risk_engine` | `RiskEngineProofs` |
| `Sentinel` | the sentinel loop | `RiskEngine` | `sentinel`, `escalation_only` | `RiskEngineProofs` |
| `FeeGovernance` | timelock and the fee functions | | `fee_governance` | `FeeGovernanceProofs` |
| `TimelockWatch` | the dashboard's proposal queue | `FeeGovernance` | `fee_governance` | `FeeGovernanceProofs` |
| `EpochCounter`, `EpochBudget` | the spend limit three policies share, and what it promises | | `epoch_counter` | `SpendingProofs` |
| `SelfRescue` | the self-rescue drill, the vault's authorisation, `policy-admin-threshold` | | `epoch_counter` | `SpendingProofs` |
| `VaultCalls` | recall and swap loop, SDK, `policy-recall`, `policy-swap` | | `vault_calls` | `SpendingProofs` |
| `Sizing` | the arithmetic of the Tier 0 target and its hysteresis | | `forecaster` | `KeeperProofs` |
| `Forecaster` | the forecaster loop | `Sizing` | `forecaster` | `KeeperProofs` |
| `SlaStats` | the reporter's statistics over the same history | `Forecaster` | `forecaster` | `KeeperProofs` |
| `SlaReport` | the metrics log, the reporter's tick, the snapshot and the panel that shows it | `SlaStats` | `forecaster` | `KeeperProofs` |
| `ReflectorWebhook` | the webhook and its quorum tracker | | `alert_pipeline` | `KeeperProofs` |
| `AlertDispatcher` | the dispatcher loop behind the webhook | `ReflectorWebhook` | `alert_pipeline` | `KeeperProofs` |
| `SignIn` | challenge, wallet, verify, session, screen | | `dashboard` | `AlertsPanelProofs` |
| `ApiResource` | the hook `useApiResource` | | `dashboard` | `AlertsPanelProofs` |
| `AlertsPanel` | the alerts panel and its two routes | `SignIn`, `ApiResource` | `dashboard` | `AlertsPanelProofs` |
| `FoldLemmas` | no code: facts about sums over functions and recursion over 1..n | | | itself, used by four of the others |

`MC...` modules give constants their values and say what these stand for.

### HealthMonitor, PauseSwitch, PauseRecord

`pause` is `DataKey::Pause`, `None` until the first pause; `admin` and
`guardians` are what OpenZeppelin's AccessControl stores for the contract;
`now` is the ledger timestamp. `Pause`, `ResumeEarly`, `Extend`,
`InitGuardians`, `AddGuardian` and `RemoveGuardian` are the entry points,
`Status` is `status()`, computed on every read as in the code. `PauseSwitch` has
a countdown and a count of renewals instead of a record and a clock.

`PauseRecord` adds the event each call publishes and what three readers make of
the list: `ReconstructPauseHistory` is the dashboard's reducer, `PairPauseEvents`
and `ComputePauseStats` the reporter's. They differ on purpose of their own:
the reporter ignores `extended` and takes an overwritten pause at its own
expiry. Both reducers go through the list once, as `reduce` and the loop do: `Replay`
and `PairPauseEvents` are functions of how many events have been taken. The replay
skips what came before the lookback, where the RPC has no events. The reporter's window
is in seconds and its request in ledgers (`LedgersAsked`), which it takes to last 5 seconds
each and which last what they last (`Paces`); of a request beyond what the RPC remembers
(`Retention`) may come nothing (`FetchPauseEvents`). So its total is that of the window only
when the first ledger asked for (`FirstAsked`) lies before it, and else of the time since
then. `quirks` remembers which unusual turns a behaviour took, so that
`PauseStatsExact` and `ReplayIsTrue` can say exactly under which of them the
sums are right.

### GuardianPanel

`fetchGuardianPanelData` reads `status()` first and, only when that is true, the
events (`ReadStatus`, `ReadExpiry`); `ShowPanel` is the answer. A `Click` serves the
button that fits the status shown, then `Simulate`, `Sign`, `Send` and `Answer`
are the awaits inside `signAndSend`, each with its way to fail, and `Fails` is the
handlers' `catch` and `finally`. A sent transaction lives on in `sent` and `Lands`,
or does not, whatever the button shows by then. `quiet` is history: no call of
the contract since the status was read. The wallet and the generated client are
modelled by the outcomes `describeActionError` tells apart.

### VaultPages

`status` and `guardian` are the status bar's two resources: what is shown and the
answer under way. One interval reloads both (`Poll`), their answers are taken and
arrive on their own. Each answer carries `since`, a history of whether, from the
moment it was taken, there was a pause below level Paused or the level left Paused.
`overview` is one `fetchVaultOverview`: the calls of its `Promise.all` in any order, then
one call per rule. `rules` are the vault's context rules, whose ids the smart-account
library gives out once and in order. `seen` collects what was true at some moment of
the read, `ids` the rules installed when they were counted.

### OracleRouter

One asset; the entries of two assets are disjoint. `Read` is the quote that
`get_price` computes in a state, branch for branch: freshness per feed, the
soft band, the TWAP band, the clamp, one feed, none. `GetPrice` lands it with
its two writes; a dashboard that only simulates sees `Read` and writes nothing.
The feeds are environment: they publish, go away, change their decimals,
and may have no history. Saturating arithmetic at the ends of i128 is out of
range of the values used.

### RiskEngine, CircuitBreaker, Sentinel

`state` is ordered as the enum is, so `<` is the code's `PartialOrd`. What the
three callee contracts answer is the environment: `paused`, `oracle`, `balance`.
The handlers say nothing of how these change, so `CircuitBreaker` and
`Sentinel` reuse them. `InitAccount` has no guard against a second
initialisation because the code has none; `era` flips when it happens, so that a
property may exclude that step.

In `CircuitBreaker` `paused` is `HM!Status`, `oracle` is `Read.status`, and a
call of the engine that reads the oracle also lands the read. `RouterCrank` is
the router's `check_and_trip`, which pauses the monitor when the router is a
guardian of it and ignores the refusal otherwise. `extend` and roster
changes are left to `HealthMonitor`, a second `init` to `RiskEngine`.

A tick of `Sentinel` is four awaited calls, then the transaction. `tick` holds
what was read so far, `tx` what is in flight. A simulation fixes the entries a
transaction may touch, so one simulated as a raise cannot land as a recovery,
which reads three more contracts: `footprint` is that fact about Soroban.
`Restart` forgets the tick, not the transaction.

### FeeGovernance, TimelockWatch

The timelock with the fee functions of the risk engine as the targets of its
proposals. A call claims an address's authority: an account has it by signing,
the timelock by being the caller, so `CallDirectly` excludes the timelock and
`Execute` does not. `TimelockWatch` is `timelockProposals.ts` and
`TimelockPanel.tsx`: the two event lists in one step, one step per
`get_proposal`, then the rows are shown until the next read, and `CancelRow` is
the button. `proposedAt` and `resolvedAt` are the times of the events.

### EpochCounter, EpochBudget

The storage `policy-venue`, `policy-session` and `policy-swap` each keep for one
account and rule, and the functions that are the same in all three. `counter[e]`
is the temporary entry of epoch `e` with the ledgers it has left; `lastWrite` is
the persistent mark; `CloseLedger` is the network. `CounterTrusted` is the
fail-closed rule of `adr/0003`, `TtlLedgers` the life the code asks for, with its
truncation to 32 bits. `used` is history: what was really spent in an epoch under
this installation. `uninstall` leaves the counters behind, and a later install
with another epoch length may meet one under an index of its own; it then
starts with part of its budget gone, never with more than its budget.
`NeverLockedOut` says when the fail-closed rule can never refuse an allowed spend.

### SelfRescue

The script of the drill, one action for each statement that changes or reads a
contract (`step`), against the vault it deployed. `rules` are the vault's context rules,
`threshold` and `venue` what the two policies store by rule id. `CheckAuth` is
`__check_auth`: the rule named in the payload exists and every policy of it accepts the
signers that are its own. `OthersCall` is everybody else with keys, the third admin and
the agent included, who add, remove and reconfigure between any two statements. `Signed`
is the `try` around the SDK: the call may land and its answer be lost, and the script
goes on. `landed` and `alone` are history. Every rule has a policy, and the rules' type,
name and expiry are left out.

### Sizing, Forecaster, SlaStats, SlaReport

`Sizing` is `forecaster.ts`: winsorizing, two moving averages (in fixed
point, `Scale`-ths of a unit, where the code uses floating point), the target,
the hysteresis, the two bands. `Forecaster` is a tick: `Fetch`, `ReadTierState`,
`Decide` (which saves the decline clock before the write it decided on),
`WriteLands`, `Sample`, `TickEnds`. `TickDies` is a throw or a crash at any
await, `FileTorn` a crash inside the save, `LateWrite` the transaction of a tick
that is gone. `burns` holds the buckets `fetchHourlyBurnObservations` makes of the
transfers, one for each hour that had any. `SlaStats` applies the reporter's functions to
the same history; its constant-sized tables are the reporter's own. Where the code sorts
and takes an index, `Ranked` says which value that is; where it filters, `Kept`; and the
moving average is a recursive function of the number of values.

`SlaReport` is three processes and two files. `log` is `metricsLog.ts`'s file by its
lines, `open` says that its last line has no newline (`TornAppend`), and `WithLine` is
what an append then does: it completes that line to one that does not parse. The
forecaster's tick is reduced to its two appends, the reporter's is `ReportStarts`,
`ReadSamples`, `ReadRecalls`, `Truncate`, `WriteSnapshot`, with `ReportDies` at every
await. A snapshot remembers the samples it was computed from and how many events the
reads missed; both are history. `Panel` is what `SlaTelemetryPanel` says of it: a share
is a quotient in the snapshot, and on the panel a percentage with one decimal
(`Shown`, whose `Grain` is the 1000 steps of `toFixed(1)`).

### VaultCalls

Both loops that spend through the vault, with one key and so one sequence
number. `Build`, `Trial`, `Send`, `Polled` are `authorizeAndSendSmartAccountCall`;
`AnswerLost` is a send whose answer never came and is sent again by `withRetry`.
The first simulation, whose only product is the nonce and the footprint, is
part of `Build`. The ledger includes what is queued (`Include`), closes without it
(`Close`, which expires it) or drops it (`Drop`). `RecallAllowed` is
`policy-recall`'s rate limit, `SwapAllowed` `policy-swap`'s cap and oracle floor,
judged at the simulation and again when the transaction lands. The RPC's queue takes
one transaction per account. The expiry of the signed authorization entry is
later than the transaction's time bound and left out.

### ReflectorWebhook, AlertDispatcher

`Notify` is one POST: prune, verify, group, quorum. The request that completes a
quorum goes on through `CrossCheck` and `PauseLands`, each an await; other
requests come in between. `HandlerFails` is the 502: the group stays resolved.
`heard` and `handed` are histories the code does not keep.

`AlertDispatcher` extends it: the pauses it tells are those the webhook caused. A tick
copies config and marks, then `FetchPauses`, `TellPause`, `ReadLog`, `TellRecall`,
`TellLevel`, `SaveState`. `dispatchAlert` tries every destination once, and each POST may
fail: `Dispatch` is the sets of those that may have taken the alert, none of them included.
The loop does not look at the outcome; mark and level go on and nothing is retried. So
`tried` counts what was dispatched, `reached` what a destination took, and `unheard` says
that none took the last alert of a level. A tick asks for the ledgers since its mark, were
each as long as it assumes, up to a maximum (`LedgersBack`, `Lookback`); when ledgers are
faster (`Paces`) or the mark is older, pauses are `leftOut`. What is still to be told is a
set of indices, taken smallest first. Events are visible once their ledger has closed, which
is why two of one second are both seen.

### SignIn, ApiResource, AlertsPanel

`SignIn` is one wallet address whose roles on chain come and go, one tab, and the
server's routes: `verifies` are requests between their awaits (take the
challenge, read admin, read guardian). The token is in the browser's cookie and
nowhere else; the cookie has an age of its own (`CookieMaxAge`), counted from the answer, and
`Tick` drops it. The screen has no timer: `shownBy`, a history, is the cookie the role on it
was answered for. `ApiResource` is the hook with its effect, cleanup flag, key and
completed key; a fetch is served and settled in two steps. `AlertsPanel` puts
both together with the panel's draft, its Save button, the two routes of
`/api/alerts` and another browser writing the same file. A save is two steps of the
server: `AdmitPut` checks the session, `ServePut` writes, and between them is the
`await` of the body, which may take any time. `Config` is what is on the screen, the draft or
else the data; a draft carries the version it was typed over or saved as.

### Panels

One reading panel a behaviour (`panel`), with the resources it asks for
(`PanelRoutes`) and the role on the screen that decides whether it asks
(`Asking`). What befalls a request is its `cause`: no session, a read that fails
transiently or for good, a proxy's page instead of JSON, no network. `Response` is
the server's half of what becomes of it (`withErrorHandling`, `ClassifyError`),
`FetchError` the browser's (`fetchJson`), `Succeeded` and `Failed` the hook's, and
each panel's operator what it then shows. An answer that the effect ignores is dropped at
once: `ApiResource` is where such answers race. The bar's third resource is in
`VaultPages`; the second one of the telemetry panel, read for the floor line of its chart,
is left out. `cause`, `under` and `arrived` are history.

## 3. The runs

| Run | Asks | Distinct states |
| --- | --- | --- |
| `health_monitor` | does a lapsed or released pause stay gone, does the contract implement `PauseSwitch` does the incidents page show an active pause exactly while there is one, do its durations add up, and the reporter's total as far as its request reached; does the countdown run out no later than the pause, can a transaction land behind a toast that says none was sent | 687 k |
| `oracle_router` | what a Healthy quote rests on, what a new baseline needs, whether landing a read changes the next | 476 k |
| `risk_engine` | cap, advice against enforcement, whether the two halves of the breaker agree; whether the bar can accuse the engine of a lag that never was, whether the checklist passes what was never true; whether a panel says of a failure what it was, keeps or loses it too long, or calls something empty or ready that nobody said | 682 k |
| `circuit_breaker` | the chain behind a return to Normal, a crank that leaves nothing for a second one although its own read changed the oracle | 343 k |
| `sentinel` | whether lasting full utilization keeps draining the account whatever is lost, and what a stale transaction can do at worst | 90 k |
| `fee_governance` | whether a change of fee or role can avoid the delay, whether the queue lacks a proposal of its lookback that can still be stopped or shows a row that is not what will run | 2.7 M |
| `epoch_counter` | whether a counter that dies inside its epoch lets more than the cap through, across uninstalls and installs, and whether a policy locks itself; whether the drill can pass without having rescued anything, and whether fewer admins than asked for change anything | 885 k |
| `forecaster` | whether a fall of the target can be applied early or a rise held back for good by crashes, torn files and late writes; whether the reporter's statistics are what it says they are, also from a log torn and written while it is read, and on the panel | 491 k |
| `alert_pipeline` | whether strangers, forgeries or repetitions make up a quorum, whether an update is acted on twice, whether the dispatcher skips a pause, for which reasons a pause or a level goes untold, how often an alert repeats | 251 k |
| `vault_calls` | whether Tier 0 is filled twice for one shortfall, whether the log lies, what makes a loop poll for ever, whether a swap is fair when it lands | 825 k |
| `dashboard` | sessions per challenge, what the screen shows after failures, who can have written the alerts config, whether what is shown goes back, whether a control stays busy | 313 k |

One run ends in a violation: `escalation_only`. `decision.ts` line 12 says that the
sentinel only escalates; its transaction lowers a level that rose after it was
read. `NeverReopens` says what does hold there.

Other places where the code and its own words differ, found while modelling, without a run:

* `oracle-router` line 133 promises that one feed alone for more than 30 minutes is
  Degraded; only the first read past the window is, and that read clears the
  window.
* `risk-engine` line 356 calls `keeper_advance_state` the only path down; a
  second `init` returns to Normal. Lines 375-377 say that a recovery clears every
  condition that justified the level; attested utilization is not looked at on the
  way down. Lines 358-359 say every downward move needs a Healthy oracle; a
  move to PreemptiveDrain accepts OneFeed.
* `oracle-router` lines 53-55 document `conservative_low` and `conservative_high` as
  min and max of the feeds; in the TWAP band both are the TWAP.
* an epoch shorter than the assumed 5 seconds of a ledger gives a counter a life of 0
  extra ledgers; the policy then refuses until the next epoch.
* `authorization.ts` lines 5-7 say a revoked admin loses dashboard access the moment
  the rights are revoked; a token is good for an hour, and the session is checked when a
  request is admitted, not when its body has arrived and is written. `WritersWereAdmins`
  states the bound that does hold.
* `AuthProvider` has no timer: an idle tab shows its role on after the cookie is gone
  (`FailsClosed` allows exactly that).
* a save whose answer comes after the page has read a newer write of another browser
  puts its own on the screen, until the next mount (`ShownNeverGoesBack` allows
  exactly that).
* `timelockProposals.ts` looks back 10000 ledgers, about 14 hours, where the delay is 24:
  a proposal that can still be cancelled may be missing, as lines 22-32 and
  `adr/0021` disclose. `QueueExact` is about the lookback.
* the reporter's default window of 168 hours may lie beyond what an RPC remembers,
  and then there is no report or one without pauses, as `healthMonitor.ts` lines 28-45
  disclose. No reader can tell the second from a week without one.
* `alertDispatcherLoop.ts` ignores that every POST of an alert failed: the mark and the
  level on file go on, and that pause or level is never told. Nothing promises otherwise.
* a recall shortfall above the policy's per-call cap is refused each time and never
  split.
* the guardian panel's countdown takes the expiry of the `paused` event and says
  (lines 120-124) that `extend()` is not built; the contract has it. After an extension the
  countdown stands at 0 while the pause goes on (`CountdownIsTrue` says exactly that).
* `healthMonitor.ts` lines 48-50 give two reasons for a missing expiry, none of which
  is the lookback that lines 40-46 describe: a live pause may be older than it.
* the guardian panel reports a transaction that was included and failed as
  submitted, with its status in the description.
* `vaultOverview.ts` lines 124-125 read the rules 0 to count - 1. After one
  `remove_context_rule` the remaining ids no longer fill that range: unless the removed rule
  was the last, a read of the overview fails from then on, and so does
  `/api/vault/addresses`, which needs none of the rules' order.
* `metricsLog.ts` lines 21-23 say that after a line cut short every other line is still
  real data; the next line is glued to it and lost too. `CountsTheLog` bounds the loss
  by two events an accident, and one would not hold.
* `reporter.ts` lines 20-22 call no samples insufficient data; the rate it returns then is
  0, which the panel shows as 0.0 %. Only the chart says that there are none. One hit among
  2001 samples or more is 0.0 % too (`RoundNumbersAreNear`).
* the panel says of a snapshot file that does not parse that the reporter has not
  produced one yet.
* the last check of the drill says that the policy answered NotInitialized; any failure
  of the command line passes it. The drill removes rule 1 whoever added it, and its
  counts of rules (2, then 1) hold only while nobody else adds one; both are harmless on
  the fresh vault it deploys.
* `apiClient.ts` lines 34-35 say that a body that is not JSON still needs to surface as a
  real, typed failure. With status 200 it is returned as null: no error, the data gone, a
  blank panel and the time of this update. `PanelTellsTheTruth` allows exactly that page.
* a panel whose URL does not depend on the role keeps the 401 of before a sign-in until
  it is reloaded, and its data on the screen after a sign-out.
* `TRUSTED_VERIFIERS` is checked against the quorum by its length; duplicate entries
  can make the quorum unreachable.

### Bounds

* `health_monitor`: two accounts, three ticks a window: an extension falls on its
  first, middle, last instant and after it. `LastPauseTime` bounds the
  instants of pauses and the clock runs on until the last one has lapsed.
  Four events and a lookback shorter than the behaviour, so that the record begins in
  the middle of a pause. The reporter takes a ledger to last 2 ticks and asks for one more;
  it really lasts 1, 2 or 3, and the RPC is sure of 3 ledgers: requests that reach too
  short, far enough and beyond the RPC's memory all occur.
  The run is the union of three: the record alone; the panel read while everybody calls
  the contract, with three events; and one click with everything that can happen to it,
  beside at most one call from elsewhere that starts a pause, on a clock that goes on for
  three ticks after the longest a first pause lasts.
* `oracle_router`: three prices whose pairs fall into the soft band, the TWAP
  band and beyond the hard one; at 4 decimals they rescale to 0, the baseline
  for which no change rate exists. A heartbeat of 1 and a window of 1 on a
  clock of 3 let a feed go stale, a window close and another begin.
* `risk_engine`: two keepers, two venues, amounts around both caps and below
  zero, a configuration that `init` refuses, utilization between the
  thresholds of every profile. Four runs in one: the whole engine; the bar while the
  pause and the level change; the overview while rules (`MaxRules`, three ever), balance
  and configuration change; one reading panel at a time. The pages start from an account
  just initialised. Two sign-ins, sign-outs or reloads (`MaxMoves`) suffice for an error
  to be kept, replaced and cleared; a panel stops at the bound.
* `circuit_breaker`: a clock of 2, a pause of 1 and a window of 0 ticks; two
  prices inside the TWAP band and beyond the clamp.
* `sentinel`: two configurations whose thresholds disagree on one utilization,
  two keepers, one restart.
* `fee_governance`: one account and the timelock, either of which may be the
  admin, two proposals, a clock longer than the delay, a lookback of half of it, so that
  a proposal that can be cancelled leaves the queue, as it does with the deployed one.
* `epoch_counter`: ledgers of 1, 2 or 4 seconds where 4 are assumed, against
  epochs of 4, 5 and 7, so a counter may die inside its epoch or outlive it into
  one of another installation. The scaled word `U32` is not reached by these
  lengths, as 2^32 ledgers (680 years) are not by real ones. The drill has three
  admins with a threshold of two, as the script has, and three rule ids: its own,
  one that others add, and one on whichever side of it. It ends, so the run may stop.
* `forecaster`: four hours, a history of three, a decline of two, one mishap; payments of 1
  and 4 against bounds of 2 and 7, so the clamp and both sides of the hysteresis are met,
  and a hysteresis band of 30 %, because at targets this small the code's 5 % is always 0:
  here it is 1, and 2 at the largest target. The run is the union of the loop and of the
  files: there one tick of the reporter (a snapshot depends on its own tick only), one torn
  append, a clock of three and a window of two, so that samples fall out of it. The panel
  has one step of a share, 0 or 100 %, so that two samples show the rounding that 2000 show
  in the code.
* `alert_pipeline`: two trusted nodes, both needed, and a stranger; a window of one
  second on a clock of three, so a group expires and late notifications start
  another; levels 0, 1, 0; two pauses, one recall, one fault. The run is the union of
  two: two pauses and nothing else to tell; and an update handed on at most once, beside
  a recall and the moves of the level. A tick asks for one ledger at most and takes it to
  last 2 seconds; it may last 1, so a mark two seconds old already leaves pauses out.
* `vault_calls`: five ledgers, a transaction that lives one ledger after its own, a gap
  of two, one fault, prices of 1 and 2; a recall needs two ledgers and a
  second one for the same shortfall has to fit the rest.
* `dashboard`: a clock of two, a session and a cookie of one tick, a challenge that dies in
  its own, one fault, two runs of the hook's effect. `MaxRuns` counts a sign-in, so one
  poll may overtake one answer. The run is the union of two: roles that change and
  time that passes, with one write; and an admin who stays one, with two writes,
  one of which overtakes the answer of the other.

`CHECK_DEADLOCK FALSE` stands where clock, faults or counts are bounded and a
behaviour may use all of them up, or where nothing has to happen next.

### Fairness

Every loop of the keeper is `for (;;)` around a `try`: a tick that throws is followed
by another.

* `sentinel`: the process polls, and a transaction sent again and again is
  included in the end (strong fairness of `Land`: it may be lost any number of
  times, not always).
* `forecaster`: the tick goes on (`SizingStep`), and a transaction is included or
  expires (`LateWrite`). Mishaps are bounded: a loop that always crashes covers nothing.
* `alert_pipeline`: the dispatcher's tick goes on. Nothing is assumed of the webhook.
* `vault_calls`: ledgers close, and each loop's own awaits return.
* `dashboard`: each request is answered or fails. Nothing is assumed of the user.

Nobody is assumed to call a crank, because nothing in the repository does; so
there is no liveness property of `check_and_trip`.

## 4. The proofs

All are for every value of the constants that satisfies the named assumptions
of the module. Every safety property the passing runs check is a theorem.

* `HealthMonitorProofs`, of the contract. A bound on every pause is not inductive: it
  says nothing of an extension still to come. `RecordInv` bounds the expiry by the
  windows the record has already used, `trippedAt + (extensionsUsed + 1) *
  MaxPauseDuration`, and by one window from now. With `TypeOK` it is inductive;
  `PauseIsBounded`, `OnlyGuardiansPause` and the refinement
  `ContractImplementsSwitch` follow; the abstract switch assumes no fairness, so the
  refinement is about safety. `PanelRunsTheSwitch` carries them into
  the composition: a click is one of the contract's callers.
* `HealthMonitorProofs`, of its readers. `GuardiansAreToldTheTruth` rests on `EventsInv`
  (the latest event tells the record it made), `ButtonInv` (a transaction that may still
  land is behind a phase that says so) and `Undisturbed` (what the panel holds is true while
  nobody has called the contract). `StatisticsAreExact` says of any pace of the ledgers and
  any memory of the RPC what the reporter's total is, or that it is only a lower bound. It
  rests on `StatsInv`: every pair but that of the running pause has ended and their sum is
  what was paused before it, and while the monitor is paused every instant from the trip to
  now was a paused one, so that a window nothing straddles begins no later than the trip.
  `IncidentsAreTrue` rests on `HistoryInv`: the open episode of the replay is the record the
  contract holds, or that pause began before the lookback. Both reducers are recursive
  functions of the number of events; an appended event leaves their earlier values alone
  (`RunsAgree`).
* `OracleRouterProofs`. `JumpsAreConfirmed`, `HealthyRestsOnTwoFeeds` and
  `ReadsGiveOneAnswer` need no more than the types of what is stored (`RouterTypes`):
  whatever the state, the branches that yield the status are followed to the clamp or to the
  agreement, the last one across the two writes of a read. `WindowIsFresh` is inductive
  as it stands. For the composition, `BreakerRunsTheRouter` is a refinement, and
  `ReturnsAreCorroborated` and `LevelsAreSettled` follow a crank through router, monitor
  and engine at one instant.
* `RiskEngineProofs`. `TypeOK` includes that the Tier 0 target lies between the bounds in
  force. `RecoveryIsStable` rests on one lemma: a step that lowers the level and is no
  initialisation is `Recover`, and `Recover` checks what `RecoverChecks` lists. `CapIsRespected` follows from `WithinCap`, the cap against the sum over any finite
  set of venues, which each record moves by the difference of one position.
  `SentinelRunsTheEngine` is a refinement: a transaction that lands, however stale, is a
  call of the engine; `TransactionsNeverReopen` adds that one whose footprint was fixed as a
  raise cannot recover. `PagesTellTheTruth` keeps what an answer under way may say
  (`BarTypes`, `OverviewTypes` and what `since`, `seen` and `ids` have collected),
  `PanelsTellTheTruth` follows a failure from its cause to the words on the panel.
* `FeeGovernanceProofs`. `FeeIsCapped` is `TypeOK`. `DelayCannotBeAvoided` needs
  `EtaIsHonest`: the eta stored with a pending proposal is the moment it was
  made plus the delay. `IdsAreUsedOnce` follows from the counter. For the queue, `Faithful`
  says that a row read once matches its proposal as long as that is pending, and `ReadExact`
  that a read under way has lost nothing that was pending when it began.
  `RowsTellTheTruth` and `QueueIsWithinLookback` hold for any lookback, shorter than the delay
  or not.
* `SpendingProofs`, of the counter. `CapPerEpoch` speaks of what was spent, the code of
  what a counter that may be gone says. `Covered` (a counter that exists says no less
  than was spent), `Marked` (nothing was spent in an epoch beyond `lastWrite`)
  and `MarkPast` (`lastWrite` is no later than now) close the gap.
  `CounterImplementsBudget` is the refinement of `EpochBudget`. `NobodyIsLockedOut`
  assumes `Coverable`, that ledgers close no faster than half the pace the code
  assumes, and needs `Alive`: the life a counter has left covers the rest of its epoch.
* `SpendingProofs`, of the drill. `RescueIsNotStaged` needs `RescueInv`: only the drill
  admits its venue, an id is not given out twice (`YieldKnown`), and what the script has
  seen so far is what it did (`ScriptKnown`).
* `SpendingProofs`, of the calls. `NeverOverRecalled` says nothing of recalls on their way.
  `RecallsFit` does: what each would add still fits under the target, unless another has
  landed since the balance was read, and then the gap keeps it out until it is stale.
  `LogIsAccountedFor` pays for every queued recall nobody polls for with a fault.
  `SwapsAreFair` follows from the policy's check at the landing.
* `KeeperProofs`, of the webhook and the dispatcher. `QuorumIsReal` needs that whoever the
  tracker counts as confirming was heard within the window and no later than now
  (`ConfirmedWereHeard`, `BegunByNow`); `HandedOncePerWindow` that a group handed on inside
  the window is still there and marked resolved (`HandedIsRemembered`). Both are stated of
  the whole pipeline, whose other steps leave the tracker alone. `AlertsRepeatOnlyByFaults`
  counts: what the mark of the running tick is not yet past has been told at most once per
  fault (`TriedPauses`, `TriedRecalls`), and what is queued is what the mark is not past
  (`QueueOK`). `NoPauseIsSkipped` needs `PassedInv`: what a mark has passed, on file or in
  the running tick, was dispatched, left out by a fetch or is still in that tick's queue,
  whose members are whatever lies between them.
* `KeeperProofs`, of the forecaster. `LoweringIsSustained` compares the target with a clock
  the code does not keep: `declining`, the hour from which every decision saw a decline.
  `ForecastInv` adds to the types `ClockIsNotAhead`: the clock in the file, if it runs, was not
  started before `declining`, whatever crash or torn file came between. Most of the work
  is the types: a target is an integer because the median, the clipped series and the
  averages of any history of burns are.
* `KeeperProofs`, of the reporter. `ReportIsHonest` has two halves. `StatisticsTrue` is
  about the functions, for every history: the backtest of an hour does not see that hour or
  a later one (`NoPeekingHolds`) and is exact on a steady burn (`SteadyHolds`), a percentile
  is the least value that covers its share (`RanksHold`), the buckets of the histogram add
  up to its count (`BucketsHold`), and downsampling keeps both ends, the order and the bound
  (`SeriesHolds`). `SnapshotsAreTrue` is about the files, by `FilesInv`. Its heart is
  `Fits`: of any set of events, the log lacks at least none and at most two per torn append,
  one fewer while the last line is open, and one fewer still if that line is of the set. It
  is said of every set because a report chooses its window after the events were lost.
  `LogOrdered` orders the samples in the log and `ReportFine` carries a report across the
  gap between its two readings of it. Shares are exact quotients, so `RoundNumbersAreNear`
  is about the rounding of the panel and nothing else: it holds for every `Grain` but 0
  (`GrainAssumption`), the code's 1000 included.
* `AlertsPanelProofs`, of sign-in, hook and panel together. `ChallengesSpentOnce`: a
  challenge is open, or one request is past taking it, or its session exists, never
  two of these. `ScreenHasSession` covers the moments between rest, where `FailsClosed`
  speaks: the cookie is the one the screen was answered for, or was dropped for its age.
  `TokensDated`: an admin's token in the cookie is no younger than the last moment the address
  was an admin; `PutsAreAdmins` says so of a save under way, and that what its admission
  recorded is within the session's time, which `OnlyAdminsWrite` finds in the file however
  late the body came. `CurrentIsNewest`: the fetch of the effect in force answers with a
  write no older than the one read. `LateAnswersIgnored` is about what is on the screen,
  the draft or else the data, and names the one answer that may take it back.
* `FoldLemmas`. The prover cannot instantiate the library's induction theorems, so what
  these would give is proved by a smallest counterexample (`LeastNatural`,
  `SmallestSubset`): that the recursion behind a fold has a solution, that its order
  does not matter for a sum, how a sum changes with one value or one more (`AddedReplaced`,
  `AddedLast`), and that a recursion over 1..n has a solution (`RunExists`) and two of them
  agree while their steps do (`RunsAgree`).

Model-checked only: liveness (`FullUtilizationDrains`, `EventuallyCovered`,
`EachPauseTold`, `LevelIsTold`, `OnlyLossHangs`, `BusyEnds`), which is beyond the
prover. `EscalationOnly` is violated.

## 5. What is left

In the order of what it would add: the rest of `policy-venue`'s `enforce` (which calls a
deposit may contain) and the expiry of `policy-session`, each on top of `EpochCounter`.

## 6. Not modelled

`PROJECT.json` lists every component. Left out for good:

* the generated clients, a third of the TypeScript: type declarations and one method
  per contract function, without control. What a call does is modelled at its
  caller. With the widgets they are most of the lines no definition stands for;
* rendering: pages, charts and widgets of the dashboard. What a panel shows is modelled
  by kind (content, nothing, an error of either sort, a skeleton), not by its rows. A theme or
  an animation has no state anything else depends on;
* `useFreighter`, the wallet hook, beyond the outcomes its callers tell apart;
* XDR, HTTP and JSON encoding, signature bytes (a signature is genuine or not),
  event payloads and the wording of alerts;
* the means of the forecast errors, floating-point averages;
* signers and policies added to or removed from a rule of the `vault`, which delegate to
  OpenZeppelin; test doubles;
* `reflectorSubscription.ts`, a script that makes one payment.

Left out of modelled components: the expiry ledger and destination table of
`policy-session`, `install` of `policy-recall`, the shape checks of requests in
`policy-venue`, `policy-recall` and `policy-swap` (paths, recipients, deadlines),
which compare arguments the keeper always fills in the same way.

Storage archival of persistent entries is not modelled: an archived persistent
entry has to be restored before a call can succeed, so it delays calls and does not change
what they do. Overflow of i128 amounts panics (the release profile sets overflow checks)
and is a call that does not happen.
