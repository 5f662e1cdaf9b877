---------------------------- MODULE OracleRouter ----------------------------
(***************************************************************************)
(* contracts/oracle-router for one asset (entries of different assets are  *)
(* disjoint): two SEP-40 feeds resolved into one quote, the rate-of-change *)
(* clamp against the last accepted quote, and the one-feed window.  The    *)
(* feeds are external contracts, seen through lastprice, prices and        *)
(* decimals.  Prices are small naturals; i128 saturation is out of range.  *)
(***************************************************************************)
EXTENDS Integers, Sequences, Functions

CONSTANTS
    None,            \* an absent storage entry, a feed that gives no answer
    Configs,         \* candidate AssetOracleConfig values, valid or not
    Prices,          \* raw prices a feed publishes
    Decimals,        \* decimals a feed reports
    RouterDecimals,  \* ROUTER_DECIMALS
    MaxTwapPeriods,  \* MAX_TWAP_PERIODS
    OneFeedWindow,   \* ONE_FEED_DEGRADE_AFTER
    MaxBps,          \* u32::MAX: divergence of a price that is not positive
    MaxTime          \* bound on the ledger clock

Feed == {"primary", "secondary"}

\* maxRoc is max_roc_per_update; both feeds have a heartbeat of their own.
AssetOracleConfig ==
    [maxStaleness: [Feed -> Nat], twapPeriods: Nat,
     soft: Nat, hard: Nat, maxRoc: Nat]

ASSUME ConfigsAssumption ==
    /\ \A c \in Configs : c \in AssetOracleConfig
    /\ None \notin Configs
ASSUME FeedsAssumption ==
    /\ \A p \in Prices : p \in Nat
    /\ \A d \in Decimals \cup {RouterDecimals} : d \in Nat
ASSUME BoundsAssumption ==
    /\ MaxTwapPeriods \in Nat /\ OneFeedWindow \in Nat
    /\ MaxBps \in Nat /\ MaxTime \in Nat
    /\ None \notin Nat

VARIABLES
    now,           \* ledger timestamp
    feed,          \* external: what each feed contract answers
    config,        \* DataKey::Config
    lastAccepted,  \* DataKey::LastAccepted: a quote, Healthy or OneFeed
    oneFeedSince   \* DataKey::OneFeedSince

routerVars == <<config, lastAccepted, oneFeedSince>>
vars == <<now, feed, config, lastAccepted, oneFeedSince>>

\* up: lastprice and decimals answer.  records: what prices() answers, newest
\* first, empty when it has no history to give.
FeedState ==
    [up: BOOLEAN, price: Prices, stamp: 0 .. MaxTime,
     decimals: Decimals \cup {RouterDecimals},
     records: UNION {[1 .. n -> Prices] : n \in 0 .. MaxTwapPeriods}]

Init ==
    /\ now = 0
    /\ feed \in [Feed -> {s \in FeedState : ~s.up /\ s.stamp = 0
                              /\ s.records = <<>>
                              /\ s.decimals = RouterDecimals
                              /\ \A p \in Prices : s.price <= p}]
    /\ config = None
    /\ lastAccepted = None
    /\ oneFeedSince = None

-----------------------------------------------------------------------------
\* Arithmetic.
Lesser(x, y) == IF x <= y THEN x ELSE y
Greater(x, y) == IF x <= y THEN y ELSE x

TenTo[k \in Nat] == IF k = 0 THEN 1 ELSE 10 * TenTo[k - 1]

Rescale(price, from, to) ==
    IF from <= to THEN price * TenTo[to - from]
                  ELSE price \div TenTo[from - to]

DivergenceBps(p, s) ==
    IF p <= 0 \/ s <= 0
    THEN MaxBps
    ELSE Lesser(((Greater(p, s) - Lesser(p, s)) * 10000) \div Lesser(p, s),
                MaxBps)

\* Mutant of RocOk: no case for a baseline of 0.
RocOkNoZeroCase(candidate) ==
    \/ lastAccepted = None
    \/ DivergenceBps(candidate, lastAccepted.price) <= config.maxRoc

RocOk(candidate) ==
    \/ lastAccepted = None
    \/ lastAccepted.price = 0
    \/ DivergenceBps(candidate, lastAccepted.price) <= config.maxRoc

\* Reading a feed.  Staleness is judged before anything is compared; decimals
\* are read anew each time, so a feed that changes them moves its price.
FetchFresh(f) == feed[f].up /\ now - feed[f].stamp <= config.maxStaleness[f]

FeedPrice(f) == Rescale(feed[f].price, feed[f].decimals, RouterDecimals)

\* The mean of a feed's newest records, all rescaled by today's decimals.
Mean(records, decimals) ==
    FoldFunction(LAMBDA x, y : x + y, 0,
                 [i \in 1 .. Len(records) |->
                    Rescale(records[i], decimals, RouterDecimals)])
      \div Len(records)

Twap(f) ==
    LET recent == SubSeq(feed[f].records, 1,
                         Lesser(Len(feed[f].records), config.twapPeriods))
    IN IF recent = <<>> THEN None ELSE Mean(recent, feed[f].decimals)

-----------------------------------------------------------------------------
\* Quotes.
Quote(price, timestamp, status, low, high) ==
    [price |-> price, timestamp |-> timestamp, status |-> status,
     low |-> low, high |-> high]

HeldQuote(status) ==
    IF lastAccepted = None
    THEN Quote(0, now, status, 0, 0)
    ELSE Quote(lastAccepted.price, now, status,
               lastAccepted.low, lastAccepted.high)

\* Mutants of TwapUsable: not compared with the second feed, not clamped.
TwapUsableUnchecked(t, s) == t # None /\ RocOk(t)
TwapUsableUnclamped(t, s) == t # None /\ DivergenceBps(t, s) <= config.hard

TwapUsable(t, s) ==
    /\ t # None
    /\ DivergenceBps(t, s) <= config.hard
    /\ RocOk(t)

ResolveBothAvailable(p, s) ==
    LET d == DivergenceBps(p, s)
        t == Twap("primary")
    IN IF d <= config.soft THEN
           Quote(Lesser(p, s), now, "Healthy", Lesser(p, s), Greater(p, s))
       ELSE IF d <= config.hard /\ TwapUsable(t, s) THEN
           Quote(t, now, "Healthy", t, t)
       ELSE HeldQuote("Degraded")

WindowStart == IF oneFeedSince = None THEN now ELSE oneFeedSince

ResolveOneAvailable(f) ==
    IF RocOk(FeedPrice(f)) /\ now - WindowStart <= OneFeedWindow
    THEN Quote(FeedPrice(f), feed[f].stamp, "OneFeed", FeedPrice(f), FeedPrice(f))
    ELSE HeldQuote("Degraded")

\* The quote get_price returns in this state; a simulated read sees the same.
Read ==
    IF FetchFresh("primary") /\ FetchFresh("secondary") THEN
        ResolveBothAvailable(FeedPrice("primary"), FeedPrice("secondary"))
    ELSE IF FetchFresh("primary") THEN ResolveOneAvailable("primary")
    ELSE IF FetchFresh("secondary") THEN ResolveOneAvailable("secondary")
    ELSE HeldQuote("HardStop")

AcceptedStatus == {"Healthy", "OneFeed"}

WindowAfter(q) == IF q.status = "OneFeed" THEN WindowStart ELSE None

\* get_price, landed: its two storage effects.  The window key is removed on
\* every read that is not OneFeed, the one that closes the window included.
GetPrice ==
    /\ config # None
    /\ LET q == Read
       IN /\ lastAccepted' = IF q.status \in AcceptedStatus THEN q ELSE lastAccepted
          /\ oneFeedSince' = WindowAfter(q)
    /\ UNCHANGED config

SetConfig(c) ==
    /\ c.twapPeriods \in 1 .. MaxTwapPeriods
    /\ c.soft < c.hard
    /\ \A f \in Feed : c.maxStaleness[f] > 0
    /\ config' = c
    /\ UNCHANGED <<lastAccepted, oneFeedSince>>

-----------------------------------------------------------------------------
\* The feeds and the ledger.
RecordsAfter(f, p, served) ==
    IF served
    THEN SubSeq(<<p>> \o feed[f].records, 1,
                Lesser(MaxTwapPeriods, Len(feed[f].records) + 1))
    ELSE <<>>

Publish(f, p, served) ==
    /\ feed' = [feed EXCEPT
         ![f] = [up |-> TRUE, price |-> p, stamp |-> now,
                 decimals |-> feed[f].decimals,
                 records |-> RecordsAfter(f, p, served)]]
    /\ UNCHANGED now

Fail(f) ==
    /\ feed[f].up
    /\ feed' = [feed EXCEPT ![f].up = FALSE]
    /\ UNCHANGED now

ChangeDecimals(f, d) ==
    /\ feed' = [feed EXCEPT ![f].decimals = d]
    /\ UNCHANGED now

Tick ==
    /\ now < MaxTime
    /\ now' = now + 1
    /\ UNCHANGED feed

FeedStep ==
    \/ \E p \in Prices, served \in BOOLEAN : Publish("primary", p, served)
    \/ \E p \in Prices : Publish("secondary", p, FALSE)
    \/ \E f \in Feed : Fail(f)
    \/ \E d \in Decimals : ChangeDecimals("secondary", d)

Next ==
    \/ (GetPrice \/ \E c \in Configs : SetConfig(c)) /\ UNCHANGED <<now, feed>>
    \/ (FeedStep \/ Tick) /\ UNCHANGED routerVars

Spec == Init /\ [][Next]_vars

-----------------------------------------------------------------------------
\* A feed that answers, with a price no older than its own heartbeat allows.
LiveAndFresh(f) == feed[f].up /\ now - feed[f].stamp <= config.maxStaleness[f]

\* A new price becomes the baseline only if it is within the clamp of the old
\* one, unless two live, fresh feeds agree on it within the soft band ("a
\* single-feed manipulated tick must never pass", module comment).
JumpNeedsTwoFeeds ==
    [][ lastAccepted' # lastAccepted /\ lastAccepted # None =>
          \/ lastAccepted.price = 0
          \/ DivergenceBps(lastAccepted'.price, lastAccepted.price)
               <= config.maxRoc
          \/ /\ \A f \in Feed : LiveAndFresh(f)
             /\ DivergenceBps(FeedPrice("primary"), FeedPrice("secondary"))
                  <= config.soft ]_vars

\* A Healthy quote always rests on two live feeds, neither of them stale,
\* within the hard band of each other, and its price is within the hard band
\* of the secondary feed even when it is a primary-feed TWAP.
HealthyIsCorroborated ==
    config # None /\ Read.status = "Healthy" =>
        /\ \A f \in Feed : LiveAndFresh(f)
        /\ DivergenceBps(FeedPrice("primary"), FeedPrice("secondary"))
             <= config.hard
        /\ DivergenceBps(Read.price, FeedPrice("secondary")) <= config.hard

\* The one-feed window never counts time from before the last two-feed read:
\* each outage of a feed gets a window of its own.
WindowRestarts ==
    oneFeedSince # None => lastAccepted.status = "OneFeed"

\* Landing a read changes nothing for the next reader in the same ledger: it
\* gets the same quote, unless the landed read is the one that closed the
\* one-feed window (which removes OneFeedSince).
ReadsAgree ==
    [][ GetPrice /\ UNCHANGED <<now, feed>> =>
          \/ Read' = Read
          \/ oneFeedSince # None /\ now - oneFeedSince > OneFeedWindow ]_vars
=============================================================================
