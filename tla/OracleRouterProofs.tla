------------------------- MODULE OracleRouterProofs -------------------------
(***************************************************************************)
(* OracleRouter for every configuration, every feed behaviour and every    *)
(* price: what may become the baseline, what a Healthy quote rests on,     *)
(* that landing a read changes no other, and when a one-feed window runs.  *)
(* Then CircuitBreaker, the router with the engine and the monitor it      *)
(* feeds: what a return to Normal rests on, and that a crank settles.      *)
(***************************************************************************)
EXTENDS CircuitBreaker, FoldLemmas

\* TenTo is the recursive function it is declared to be: there is one, built
\* from its restrictions to 0 .. n, which agree where they overlap.
TenStep(f, k) == IF k = 0 THEN 1 ELSE 10 * f[k - 1]

TenUpTo(f, n) == \A k \in 0 .. n : f[k] = TenStep(f, k)

LEMMA TenUpToExists == \A n \in Nat : \E f : TenUpTo(f, n)
<1> DEFINE Bad == {n \in Nat : ~ \E f : TenUpTo(f, n)}
<1> SUFFICES ASSUME Bad # {} PROVE FALSE
  OBVIOUS
<1>1. PICK n \in Bad : \A m \in Bad : n <= m
  <2> HIDE DEF Bad
  <2>1. Bad \in SUBSET Nat
    BY DEF Bad
  <2> QED
    BY <2>1, LeastNatural
<1>2. CASE n = 0
  <2> DEFINE f == [k \in Nat |-> 1]
  <2>1. f[0] = 1
    OBVIOUS
  <2>2. TenUpTo(f, 0)
    <3> HIDE DEF f
    <3> QED
      BY <2>1 DEF TenUpTo, TenStep
  <2> QED
    BY <1>2, <2>2
<1>3. CASE n # 0
  <2>1. n \in Nat /\ n - 1 \in Nat /\ n - 1 \notin Bad
    BY <1>1, <1>3
  <2>2. PICK f : TenUpTo(f, n - 1)
    BY <2>1
  <2> DEFINE g == [k \in Nat |-> IF k < n THEN f[k] ELSE 10 * f[n - 1]]
  <2>3. /\ \A k \in 0 .. n - 1 : g[k] = f[k]
        /\ g[n] = 10 * f[n - 1]
    BY <2>1
  <2>4. TenUpTo(g, n)
    <3> HIDE DEF g
    <3> SUFFICES ASSUME NEW k \in 0 .. n PROVE g[k] = TenStep(g, k)
      BY DEF TenUpTo
    <3>1. CASE k = n
      BY <3>1, <2>1, <2>3 DEF TenStep
    <3>2. CASE k # n
      <4>1. k \in 0 .. n - 1 /\ (k # 0 => k - 1 \in 0 .. n - 1)
        BY <3>2, <2>1
      <4>2. f[k] = TenStep(f, k)
        BY <4>1, <2>2 DEF TenUpTo
      <4> QED
        BY <4>1, <4>2, <2>3 DEF TenStep
    <3> QED
      BY <3>1, <3>2
  <2> QED
    BY <2>4
<1> QED
  BY <1>2, <1>3

LEMMA TenUpToAgree ==
    ASSUME NEW f, NEW g, NEW n \in Nat, NEW m \in Nat, TenUpTo(f, n), TenUpTo(g, m)
    PROVE  \A k \in Nat : k <= n /\ k <= m => f[k] = g[k]
<1> DEFINE Bad == {k \in Nat : k <= n /\ k <= m /\ f[k] # g[k]}
<1> SUFFICES ASSUME Bad # {} PROVE FALSE
  OBVIOUS
<1>1. PICK k \in Bad : \A j \in Bad : k <= j
  <2> HIDE DEF Bad
  <2>1. Bad \in SUBSET Nat
    BY DEF Bad
  <2> QED
    BY <2>1, LeastNatural
<1>2. k \in 0 .. n /\ k \in 0 .. m
  OBVIOUS
<1>3. f[k] = TenStep(f, k) /\ g[k] = TenStep(g, k)
  BY <1>2 DEF TenUpTo
<1>4. k # 0 => k - 1 \notin Bad /\ k - 1 \in Nat
  BY <1>1
<1> QED
  BY <1>3, <1>4 DEF TenStep

LEMMA TenToDefined == \A k \in Nat : TenTo[k] = TenStep(TenTo, k)
<1> DEFINE upTo(n) == CHOOSE f : TenUpTo(f, n)
           ten == [k \in Nat |-> upTo(k)[k]]
<1>1. \A n \in Nat : TenUpTo(upTo(n), n)
  BY TenUpToExists
<1>2. ASSUME NEW k \in Nat PROVE ten[k] = TenStep(ten, k)
  <2>0. ten[k] = upTo(k)[k] /\ (k # 0 => k - 1 \in Nat /\ ten[k - 1] = upTo(k - 1)[k - 1])
    OBVIOUS
  <2>1. upTo(k)[k] = TenStep(upTo(k), k)
    <3> HIDE DEF upTo
    <3> QED
      BY <1>1 DEF TenUpTo
  <2>2. k # 0 => upTo(k)[k - 1] = upTo(k - 1)[k - 1]
    <3> HIDE DEF upTo, ten
    <3> SUFFICES ASSUME k # 0 PROVE upTo(k)[k - 1] = upTo(k - 1)[k - 1]
      OBVIOUS
    <3>1. k - 1 \in Nat /\ k - 1 <= k
      OBVIOUS
    <3> QED
      BY <1>1, <2>0, <3>1, TenUpToAgree
  <2> HIDE DEF upTo, ten
  <2> QED
    BY <2>0, <2>1, <2>2 DEF TenStep
<1>3. ten = [k \in Nat |-> TenStep(ten, k)]
  <2>1. PICK t : t = ten
    OBVIOUS
  <2>2. \A k \in Nat : t[k] = TenStep(t, k)
    <3> HIDE DEF ten
    <3> QED
      BY <1>2, <2>1
  <2>3. t = [k \in Nat |-> t[k]]
    BY <2>1
  <2>4. t = [k \in Nat |-> TenStep(t, k)]
    BY <2>2, <2>3
  <2> HIDE DEF ten
  <2> QED
    BY <2>1, <2>4
<1>4. \E f : f = [k \in Nat |-> TenStep(f, k)]
  <2> HIDE DEF ten
  <2> QED
    BY <1>3
<1>5. TenTo = [k \in Nat |-> TenStep(TenTo, k)]
  BY <1>4 DEF TenTo, TenStep
<1> QED
  BY <1>5

LEMMA TenToPositive == \A k \in Nat : TenTo[k] \in Nat \ {0}
<1> DEFINE Bad == {k \in Nat : TenTo[k] \notin Nat \ {0}}
<1> SUFFICES ASSUME Bad # {} PROVE FALSE
  OBVIOUS
<1>1. PICK k \in Bad : \A j \in Bad : k <= j
  <2> HIDE DEF Bad
  <2>1. Bad \in SUBSET Nat
    BY DEF Bad
  <2> QED
    BY <2>1, LeastNatural
<1>2. k # 0 => k - 1 \notin Bad /\ k - 1 \in Nat
  BY <1>1
<1>3. TenTo[k] = TenStep(TenTo, k)
  BY TenToDefined
<1> QED
  BY <1>2, <1>3 DEF TenStep

\* Rescaling a price moves it by a positive power of ten, so it stays a price.
LEMMA RescaleNat ==
    ASSUME NEW p \in Nat, NEW d \in Nat, NEW e \in Nat
    PROVE  Rescale(p, d, e) \in Nat
<1>1. CASE d <= e
  <2>1. e - d \in Nat /\ TenTo[e - d] \in Nat
    BY <1>1, TenToPositive
  <2> QED
    BY <1>1, <2>1 DEF Rescale
<1>2. CASE ~ (d <= e)
  <2>1. d - e \in Nat /\ TenTo[d - e] \in Nat \ {0}
    BY <1>2, TenToPositive
  <2>2. p \div TenTo[d - e] \in Nat
    BY <2>1
  <2> QED
    BY <1>2, <2>2 DEF Rescale
<1> QED
  BY <1>1, <1>2

LEMMA MeanNat ==
    ASSUME NEW n \in Nat \ {0}, NEW rs \in [1 .. n -> Nat], NEW d \in Nat, Len(rs) = n
    PROVE  Mean(rs, d) \in Nat
<1> DEFINE rescaled == [i \in 1 .. n |-> Rescale(rs[i], d, RouterDecimals)]
<1>1. rescaled \in [1 .. n -> Nat]
  BY RescaleNat, FeedsAssumption
<1>2. IsFiniteSet(1 .. n)
  BY FS_Interval
<1>3. Added(rescaled) \in Nat
  <2> HIDE DEF rescaled
  <2> QED
    BY <1>1, <1>2, AddedNat
<1>4. Mean(rs, d) = Added(rescaled) \div n
  BY DEF Mean, Added
<1> HIDE DEF rescaled
<1> QED
  BY <1>3, <1>4

LEMMA QuoteFields ==
    ASSUME NEW p, NEW t, NEW st, NEW l, NEW h
    PROVE  /\ Quote(p, t, st, l, h).price = p
           /\ Quote(p, t, st, l, h).status = st
  BY DEF Quote

LEMMA HeldStatus == ASSUME NEW st PROVE HeldQuote(st).status = st
  BY QuoteFields DEF HeldQuote

\* Two fresh feeds yield Healthy only by soft agreement or a clamped TWAP.
LEMMA BothAvailable ==
    ASSUME NEW p, NEW s, ResolveBothAvailable(p, s).status \in AcceptedStatus
    PROVE  /\ ResolveBothAvailable(p, s).status = "Healthy"
           /\ \/ DivergenceBps(p, s) <= config.soft
              \/ RocOk(ResolveBothAvailable(p, s).price)
<1> DEFINE d == DivergenceBps(p, s)
           t == Twap("primary")
<1>1. CASE d <= config.soft
  <2>1. ResolveBothAvailable(p, s).status = "Healthy"
    BY <1>1, QuoteFields DEF ResolveBothAvailable
  <2> QED
    BY <1>1, <2>1
<1>2. CASE ~(d <= config.soft) /\ d <= config.hard /\ TwapUsable(t, s)
  <2>1. ResolveBothAvailable(p, s) = Quote(t, now, "Healthy", t, t)
    BY <1>2 DEF ResolveBothAvailable
  <2> QED
    BY <1>2, <2>1, QuoteFields DEF TwapUsable
<1>3. CASE ~(d <= config.soft) /\ ~(d <= config.hard /\ TwapUsable(t, s))
  <2>1. ResolveBothAvailable(p, s) = HeldQuote("Degraded")
    BY <1>3 DEF ResolveBothAvailable
  <2> QED
    BY <2>1, HeldStatus DEF AcceptedStatus
<1> QED
  BY <1>1, <1>2, <1>3

\* One fresh feed yields OneFeed only within the clamp.
LEMMA OneAvailable ==
    ASSUME NEW f, ResolveOneAvailable(f).status \in AcceptedStatus
    PROVE  /\ ResolveOneAvailable(f).status = "OneFeed"
           /\ RocOk(ResolveOneAvailable(f).price)
<1>1. CASE RocOk(FeedPrice(f)) /\ now - WindowStart <= OneFeedWindow
  BY <1>1, QuoteFields DEF ResolveOneAvailable
<1>2. CASE ~(RocOk(FeedPrice(f)) /\ now - WindowStart <= OneFeedWindow)
  <2>1. ResolveOneAvailable(f) = HeldQuote("Degraded")
    BY <1>2 DEF ResolveOneAvailable
  <2> QED
    BY <2>1, HeldStatus DEF AcceptedStatus
<1> QED
  BY <1>1, <1>2

\* What a read that accepts a quote has established about its price.
LEMMA AcceptedRead ==
    ASSUME Read.status \in AcceptedStatus
    PROVE  \/ RocOk(Read.price)
           \/ /\ FetchFresh("primary") /\ FetchFresh("secondary")
              /\ DivergenceBps(FeedPrice("primary"), FeedPrice("secondary"))
                   <= config.soft
<1>1. CASE FetchFresh("primary") /\ FetchFresh("secondary")
  BY <1>1, BothAvailable DEF Read
<1>2. CASE FetchFresh("primary") /\ ~FetchFresh("secondary")
  BY <1>2, OneAvailable DEF Read
<1>3. CASE ~FetchFresh("primary") /\ FetchFresh("secondary")
  BY <1>3, OneAvailable DEF Read
<1>4. CASE ~FetchFresh("primary") /\ ~FetchFresh("secondary")
  BY <1>4, HeldStatus DEF Read, AcceptedStatus
<1> QED
  BY <1>1, <1>2, <1>3, <1>4

-----------------------------------------------------------------------------
\* The steps that touch the router's storage are landed reads and set_config.
LEMMA RouterSteps ==
    ASSUME [Next]_vars
    PROVE  GetPrice \/ UNCHANGED <<lastAccepted, oneFeedSince>>
  BY DEF Next, vars, routerVars, SetConfig

\* No single feed moves the baseline beyond the clamp (get_price, roc_ok).
THEOREM JumpsAreConfirmed == Spec => JumpNeedsTwoFeeds
<1> DEFINE Confirmed ==
       \/ lastAccepted.price = 0
       \/ DivergenceBps(lastAccepted'.price, lastAccepted.price) <= config.maxRoc
       \/ /\ \A f \in Feed : LiveAndFresh(f)
          /\ DivergenceBps(FeedPrice("primary"), FeedPrice("secondary"))
               <= config.soft
<1>1. ASSUME [Next]_vars, lastAccepted' # lastAccepted, lastAccepted # None
      PROVE  Confirmed
  <2>1. GetPrice /\ Read.status \in AcceptedStatus /\ lastAccepted' = Read
    BY <1>1, RouterSteps DEF GetPrice
  <2>2. CASE RocOk(Read.price)
    BY <1>1, <2>1, <2>2 DEF RocOk
  <2>3. CASE FetchFresh("primary") /\ FetchFresh("secondary")
             /\ DivergenceBps(FeedPrice("primary"), FeedPrice("secondary"))
                  <= config.soft
    BY <2>3 DEF FetchFresh, LiveAndFresh, Feed
  <2> QED
    BY <2>1, <2>2, <2>3, AcceptedRead
<1>2. [Next]_vars =>
        [lastAccepted' # lastAccepted /\ lastAccepted # None => Confirmed]_vars
  BY <1>1
<1> QED
  BY <1>2, PTL DEF Spec, JumpNeedsTwoFeeds

\* The one-feed window runs only while the accepted quote is a one-feed quote:
\* it never counts time from before a read that two feeds supported.
THEOREM WindowIsFresh == Spec => []WindowRestarts
<1>1. Init => WindowRestarts
  BY DEF Init, WindowRestarts
<1>2. WindowRestarts /\ [Next]_vars => WindowRestarts'
  <2> SUFFICES ASSUME WindowRestarts, [Next]_vars
               PROVE  WindowRestarts'
    OBVIOUS
  <2>1. CASE GetPrice
    BY <2>1 DEF GetPrice, WindowAfter, AcceptedStatus, WindowRestarts
  <2>2. CASE UNCHANGED <<lastAccepted, oneFeedSince>>
    BY <2>2 DEF WindowRestarts
  <2> QED
    BY <2>1, <2>2, RouterSteps
<1> QED
  BY <1>1, <1>2, PTL DEF Spec
-----------------------------------------------------------------------------
\* What the storage and the feeds hold: a price and every record are naturals,
\* and a stored configuration passed set_config's checks.
FeedAnswer ==
    [up: BOOLEAN, price: Nat, stamp: Nat, decimals: Nat, records: Seq(Nat)]

RouterTypes ==
    /\ now \in Nat
    /\ feed \in [Feed -> FeedAnswer]
    /\ config # None => /\ config \in AssetOracleConfig
                        /\ config.twapPeriods # 0
                        /\ config.soft < config.hard
    /\ oneFeedSince # None => oneFeedSince \in Nat

LEMMA WindowStartNat == RouterTypes => WindowStart \in Nat
  BY DEF RouterTypes, WindowStart

LEMMA PublishedRecords ==
    ASSUME NEW p \in Nat, NEW rs \in Seq(Nat), NEW n \in Nat
    PROVE  SubSeq(<<p>> \o rs, 1, Lesser(n, Len(rs) + 1)) \in Seq(Nat)
<1>1. <<p>> \o rs \in Seq(Nat) /\ Len(<<p>> \o rs) = Len(rs) + 1
  OBVIOUS
<1>2. Lesser(n, Len(rs) + 1) \in Nat /\ Lesser(n, Len(rs) + 1) <= Len(rs) + 1
  BY DEF Lesser
<1> QED
  BY <1>1, <1>2

LEMMA FeedStepTypes ==
    ASSUME RouterTypes, FeedStep
    PROVE  feed' \in [Feed -> FeedAnswer]
<1>1. ASSUME NEW f \in Feed, NEW p \in Prices, NEW served \in BOOLEAN,
             Publish(f, p, served)
      PROVE  feed' \in [Feed -> FeedAnswer]
  <2>1. p \in Nat /\ feed[f].records \in Seq(Nat) /\ feed[f].decimals \in Nat
    BY <1>1, FeedsAssumption DEF RouterTypes, FeedAnswer
  <2>2. RecordsAfter(f, p, served) \in Seq(Nat)
    <3>1. CASE served
      BY <2>1, <3>1, PublishedRecords, BoundsAssumption DEF RecordsAfter
    <3>2. CASE ~served
      BY <3>2 DEF RecordsAfter
    <3> QED
      BY <3>1, <3>2
  <2> QED
    BY <1>1, <2>1, <2>2 DEF Publish, RouterTypes, FeedAnswer
<1>2. ASSUME NEW f \in Feed, Fail(f)
      PROVE  feed' \in [Feed -> FeedAnswer]
  BY <1>2 DEF Fail, RouterTypes, FeedAnswer
<1>3. ASSUME NEW f \in Feed, NEW d \in Decimals, ChangeDecimals(f, d)
      PROVE  feed' \in [Feed -> FeedAnswer]
  BY <1>3, FeedsAssumption DEF ChangeDecimals, RouterTypes, FeedAnswer
<1> QED
  BY <1>1, <1>2, <1>3 DEF FeedStep, Feed

LEMMA RouterTypesInit == Init => RouterTypes
<1> SUFFICES ASSUME Init PROVE RouterTypes
  OBVIOUS
<1>1. feed \in [Feed -> FeedAnswer]
  <2>1. ASSUME NEW f \in Feed PROVE feed[f] \in FeedAnswer
    <3>1. /\ feed[f] \in FeedState /\ feed[f].records = <<>>
      BY DEF Init
    <3>2. /\ feed[f].price \in Nat /\ feed[f].decimals \in Nat
          /\ feed[f].stamp \in Nat /\ feed[f].up \in BOOLEAN
          /\ feed[f] = [up |-> feed[f].up, price |-> feed[f].price,
                        stamp |-> feed[f].stamp, decimals |-> feed[f].decimals,
                        records |-> feed[f].records]
      BY <3>1, FeedsAssumption, BoundsAssumption DEF FeedState
    <3>3. <<>> \in Seq(Nat)
      OBVIOUS
    <3> QED
      BY <3>1, <3>2, <3>3 DEF FeedAnswer
  <2> QED
    BY <2>1 DEF Init
<1> QED
  BY <1>1 DEF Init, RouterTypes

LEMMA RouterTypesStep ==
    ASSUME RouterTypes, [Next]_vars
    PROVE  RouterTypes'
<1>1. CASE GetPrice /\ UNCHANGED <<now, feed>>
  BY <1>1, WindowStartNat DEF GetPrice, WindowAfter, RouterTypes
<1>2. ASSUME NEW c \in Configs, SetConfig(c), UNCHANGED <<now, feed>>
      PROVE  RouterTypes'
  BY <1>2, ConfigsAssumption DEF SetConfig, RouterTypes
<1>3. CASE FeedStep /\ UNCHANGED routerVars
  <2>1. now' = now
    BY <1>3 DEF FeedStep, Publish, Fail, ChangeDecimals
  <2> QED
    BY <2>1, <1>3, FeedStepTypes DEF RouterTypes, routerVars
<1>4. CASE Tick /\ UNCHANGED routerVars
  BY <1>4 DEF Tick, RouterTypes, routerVars
<1>5. CASE UNCHANGED vars
  BY <1>5 DEF vars, RouterTypes
<1> QED
  BY <1>1, <1>2, <1>3, <1>4, <1>5 DEF Next

LEMMA RouterTyped == Spec => []RouterTypes
<1>1. RouterTypes /\ [Next]_vars => RouterTypes'
  BY RouterTypesStep
<1> QED
  BY <1>1, RouterTypesInit, PTL DEF Spec

\* The prices that are compared are naturals.
LEMMA FeedPriceNat == ASSUME RouterTypes, NEW f \in Feed PROVE FeedPrice(f) \in Nat
<1>1. feed[f].price \in Nat /\ feed[f].decimals \in Nat /\ RouterDecimals \in Nat
  BY FeedsAssumption DEF RouterTypes, FeedAnswer
<1> QED
  BY <1>1, RescaleNat DEF FeedPrice

LEMMA TwapNat ==
    ASSUME RouterTypes, config # None, NEW f \in Feed, Twap(f) # None
    PROVE  Twap(f) \in Nat
<1> DEFINE rs == feed[f].records
           n == Lesser(Len(rs), config.twapPeriods)
           recent == SubSeq(rs, 1, n)
<1>1. rs \in Seq(Nat) /\ feed[f].decimals \in Nat
  BY DEF RouterTypes, FeedAnswer
<1>2. config.twapPeriods \in Nat
  BY DEF RouterTypes, AssetOracleConfig
<1>3. n \in Nat /\ n <= Len(rs)
  BY <1>1, <1>2 DEF Lesser
<1>4. Len(recent) = n /\ recent \in [1 .. n -> Nat]
  <2> HIDE DEF rs, n
  <2>1. recent \in Seq(Nat) /\ Len(recent) = n
    BY <1>1, <1>3
  <2> HIDE DEF recent
  <2> QED
    BY <2>1
<1>5. recent # <<>> /\ Twap(f) = Mean(recent, feed[f].decimals)
  BY DEF Twap
<1>6. n # 0
  <2> HIDE DEF rs, n
  <2> QED
    BY <1>1, <1>3, <1>4, <1>5
<1> HIDE DEF recent, n, rs
<1> QED
  BY <1>1, <1>3, <1>4, <1>5, <1>6, MeanNat

-----------------------------------------------------------------------------
\* A price diverges from itself only when it is not positive.
LEMMA SelfDivergence ==
    ASSUME NEW p \in Nat, p # 0
    PROVE  DivergenceBps(p, p) = 0
<1>1. ((p - p) * 10000) \div p = 0
  OBVIOUS
<1> QED
  BY <1>1, BoundsAssumption DEF DivergenceBps, Lesser, Greater

LEMMA DivergenceNat ==
    ASSUME NEW p \in Nat, NEW s \in Nat
    PROVE  DivergenceBps(p, s) \in Nat
<1>1. CASE p = 0 \/ s = 0
  BY <1>1, BoundsAssumption DEF DivergenceBps
<1>2. CASE p # 0 /\ s # 0
  <2>1. /\ Lesser(p, s) \in Nat \ {0}
        /\ Greater(p, s) - Lesser(p, s) \in Nat
    BY <1>2 DEF Lesser, Greater
  <2>2. ((Greater(p, s) - Lesser(p, s)) * 10000) \div Lesser(p, s) \in Nat
    BY <2>1
  <2> HIDE DEF Greater
  <2> QED
    BY <1>2, <2>2, BoundsAssumption DEF DivergenceBps, Lesser
<1> QED
  BY <1>1, <1>2

\* Taking the lower of two prices does not take it further from the second.
LEMMA LesserIsClose ==
    ASSUME NEW p \in Nat, NEW s \in Nat, NEW h \in Nat, DivergenceBps(p, s) <= h
    PROVE  DivergenceBps(Lesser(p, s), s) <= h
<1>1. CASE p <= s
  BY <1>1 DEF Lesser
<1>2. CASE s < p /\ s = 0
  <2>1. DivergenceBps(p, s) = MaxBps /\ DivergenceBps(Lesser(p, s), s) = MaxBps
    BY <1>2 DEF DivergenceBps, Lesser
  <2> QED
    BY <2>1
<1>3. CASE s < p /\ s # 0
  <2>1. Lesser(p, s) = s
    BY <1>3 DEF Lesser
  <2> QED
    BY <2>1, <1>3, SelfDivergence
<1> QED
  BY <1>1, <1>2, <1>3

\* The clamp lets through what it has already let through.
LEMMA AcceptedIsOk ==
    ASSUME NEW p \in Nat, config # None, RouterTypes, lastAccepted.price = p
    PROVE  RocOk(p)
<1>1. config.maxRoc \in Nat
  BY DEF RouterTypes, AssetOracleConfig
<1>2. p # 0 => DivergenceBps(p, p) = 0
  BY SelfDivergence
<1> QED
  BY <1>1, <1>2 DEF RocOk

\* A Healthy read came from two fresh feeds within the hard band.
LEMMA HealthyRead ==
    ASSUME RouterTypes, config # None, Read.status = "Healthy"
    PROVE  /\ FetchFresh("primary") /\ FetchFresh("secondary")
           /\ DivergenceBps(FeedPrice("primary"), FeedPrice("secondary"))
                <= config.hard
           /\ DivergenceBps(Read.price, FeedPrice("secondary")) <= config.hard
<1> DEFINE p == FeedPrice("primary")
           s == FeedPrice("secondary")
           d == DivergenceBps(p, s)
           t == Twap("primary")
<1>1. p \in Nat /\ s \in Nat
  BY FeedPriceNat DEF Feed
<1>2. config.soft \in Nat /\ config.hard \in Nat /\ config.soft < config.hard
  BY DEF RouterTypes, AssetOracleConfig
<1>3. FetchFresh("primary") /\ FetchFresh("secondary")
  <2>1. CASE FetchFresh("primary") /\ ~FetchFresh("secondary")
    BY <2>1, OneAvailable DEF Read, AcceptedStatus
  <2>2. CASE ~FetchFresh("primary") /\ FetchFresh("secondary")
    BY <2>2, OneAvailable DEF Read, AcceptedStatus
  <2>3. CASE ~FetchFresh("primary") /\ ~FetchFresh("secondary")
    BY <2>3, HeldStatus DEF Read
  <2> QED
    BY <2>1, <2>2, <2>3
<1>4. Read = ResolveBothAvailable(p, s)
  BY <1>3 DEF Read
<1>5. d \in Int
  <2> HIDE DEF p, s
  <2> QED
    BY <1>1, DivergenceNat
<1>6. CASE d <= config.soft
  <2>1. Read.price = Lesser(p, s)
    BY <1>4, <1>6, QuoteFields DEF ResolveBothAvailable
  <2>2. d <= config.hard
    <3> HIDE DEF d
    <3> QED
      BY <1>2, <1>5, <1>6
  <2> HIDE DEF p, s
  <2>3. DivergenceBps(Lesser(p, s), s) <= config.hard
    BY <1>1, <1>2, <2>2, LesserIsClose
  <2> QED
    BY <1>3, <2>1, <2>2, <2>3 DEF p, s
<1>7. CASE ~(d <= config.soft) /\ d <= config.hard /\ TwapUsable(t, s)
  <2>1. Read = Quote(t, now, "Healthy", t, t)
    BY <1>4, <1>7 DEF ResolveBothAvailable
  <2> QED
    BY <1>3, <1>7, <2>1, QuoteFields DEF TwapUsable
<1>8. CASE ~(d <= config.soft) /\ ~(d <= config.hard /\ TwapUsable(t, s))
  BY <1>4, <1>8, HeldStatus DEF ResolveBothAvailable
<1> QED
  BY <1>6, <1>7, <1>8

\* A Healthy quote rests on two live, fresh feeds within the hard band, and so
\* does its price, TWAP or not (resolve_both_available).
THEOREM HealthyRestsOnTwoFeeds == Spec => []HealthyIsCorroborated
<1>1. RouterTypes => HealthyIsCorroborated
  BY HealthyRead DEF HealthyIsCorroborated, FetchFresh, LiveAndFresh, Feed
<1> QED
  BY <1>1, RouterTyped, PTL
-----------------------------------------------------------------------------
\* What a landed read leaves for the next one in the same ledger.
LEMMA SameFeeds ==
    ASSUME UNCHANGED <<now, feed, config>>, NEW f \in Feed
    PROVE  /\ FetchFresh(f)' <=> FetchFresh(f)
           /\ FeedPrice(f)' = FeedPrice(f)
           /\ Twap(f)' = Twap(f)
<1>1. FetchFresh(f)' <=> FetchFresh(f)
  BY DEF FetchFresh
<1>2. FeedPrice(f)' = FeedPrice(f)
  BY DEF FeedPrice
<1>3. Twap(f)' = Twap(f)
  BY DEF Twap
<1> QED
  BY <1>1, <1>2, <1>3

LEMMA SameHeld ==
    ASSUME UNCHANGED <<now, lastAccepted>>, NEW st
    PROVE  HeldQuote(st)' = HeldQuote(st)
  BY DEF HeldQuote

LEMMA BothAgain ==
    ASSUME RouterTypes, config # None, UNCHANGED <<now, feed, config>>,
           NEW p, NEW s,
           LET q == ResolveBothAvailable(p, s)
           IN lastAccepted' = IF q.status \in AcceptedStatus THEN q ELSE lastAccepted
    PROVE  ResolveBothAvailable(p, s)' = ResolveBothAvailable(p, s)
<1> DEFINE q == ResolveBothAvailable(p, s)
           d == DivergenceBps(p, s)
           t == Twap("primary")
<1>1. t' = t /\ config' = config /\ now' = now
  BY SameFeeds DEF Feed
<1>2. CASE d <= config.soft
  <2>1. q = Quote(Lesser(p, s), now, "Healthy", Lesser(p, s), Greater(p, s))
    BY <1>2 DEF ResolveBothAvailable
  <2>2. q' = Quote(Lesser(p, s), now, "Healthy", Lesser(p, s), Greater(p, s))
    BY <1>1, <1>2 DEF ResolveBothAvailable
  <2> QED
    BY <2>1, <2>2
<1>3. CASE ~(d <= config.soft) /\ d <= config.hard /\ TwapUsable(t, s)
  <2>1. q = Quote(t, now, "Healthy", t, t)
    BY <1>3 DEF ResolveBothAvailable
  <2>2. lastAccepted' = q /\ lastAccepted'.price = t
    BY <2>1, QuoteFields DEF AcceptedStatus
  <2>3. t \in Nat
    BY <1>3, TwapNat DEF TwapUsable, Feed
  <2>4. RocOk(t)'
    <3>1. config'.maxRoc \in Nat
      BY <1>1 DEF RouterTypes, AssetOracleConfig
    <3>2. t # 0 => DivergenceBps(t, t) = 0
      BY <2>3, SelfDivergence
    <3> HIDE DEF t
    <3>3. lastAccepted'.price = 0 \/ DivergenceBps(t, lastAccepted'.price) <= config'.maxRoc
      BY <2>2, <3>1, <3>2
    <3> QED
      BY <3>3, <1>1 DEF RocOk
  <2>5. TwapUsable(t, s)'
    BY <1>1, <1>3, <2>4 DEF TwapUsable
  <2>6. q' = Quote(t, now, "Healthy", t, t)
    BY <1>1, <1>3, <2>5 DEF ResolveBothAvailable
  <2> QED
    BY <2>1, <2>6
<1>4. CASE ~(d <= config.soft) /\ ~(d <= config.hard /\ TwapUsable(t, s))
  <2>1. q = HeldQuote("Degraded")
    BY <1>4 DEF ResolveBothAvailable
  <2>2. lastAccepted' = lastAccepted
    BY <2>1, HeldStatus DEF AcceptedStatus
  <2>3. TwapUsable(t, s)' <=> TwapUsable(t, s)
    BY <1>1, <2>2 DEF TwapUsable, RocOk
  <2>4. q' = HeldQuote("Degraded")'
    BY <1>1, <1>4, <2>3 DEF ResolveBothAvailable
  <2> QED
    BY <2>1, <2>2, <2>4, SameHeld
<1> QED
  BY <1>2, <1>3, <1>4

LEMMA OneAgain ==
    ASSUME RouterTypes, config # None, UNCHANGED <<now, feed, config>>,
           NEW f \in Feed,
           LET q == ResolveOneAvailable(f)
           IN /\ lastAccepted' = IF q.status \in AcceptedStatus THEN q ELSE lastAccepted
              /\ oneFeedSince' = WindowAfter(q)
    PROVE  \/ ResolveOneAvailable(f)' = ResolveOneAvailable(f)
           \/ /\ ResolveOneAvailable(f).status \notin AcceptedStatus
              /\ oneFeedSince # None /\ now - oneFeedSince > OneFeedWindow
<1> DEFINE q == ResolveOneAvailable(f)
           p == FeedPrice(f)
           Inside == now - WindowStart <= OneFeedWindow
<1>1. p' = p /\ config' = config /\ now' = now /\ feed' = feed /\ p \in Nat
  BY SameFeeds, FeedPriceNat
<1>2. now \in Nat /\ WindowStart \in Nat /\ OneFeedWindow \in Nat
  BY WindowStartNat, BoundsAssumption DEF RouterTypes
<1>3. CASE RocOk(p) /\ Inside
  <2>1. q = Quote(p, feed[f].stamp, "OneFeed", p, p)
    BY <1>3 DEF ResolveOneAvailable
  <2>2. lastAccepted' = q /\ lastAccepted'.price = p /\ oneFeedSince' = WindowStart
    BY <2>1, QuoteFields DEF AcceptedStatus, WindowAfter
  <2>3. RocOk(p)'
    <3>1. config'.maxRoc \in Nat
      BY <1>1 DEF RouterTypes, AssetOracleConfig
    <3>2. p # 0 => DivergenceBps(p, p) = 0
      BY <1>1, SelfDivergence
    <3> HIDE DEF p
    <3>3. lastAccepted'.price = 0 \/ DivergenceBps(p, lastAccepted'.price) <= config'.maxRoc
      BY <2>2, <3>1, <3>2
    <3> QED
      BY <3>3, <1>1 DEF RocOk
  <2>4. Inside'
    <3>1. WindowStart' = WindowStart
      BY <1>1, <1>2, <2>2 DEF WindowStart
    <3> QED
      BY <1>1, <1>3, <3>1
  <2>5. q' = Quote(p, feed[f].stamp, "OneFeed", p, p)
    BY <1>1, <2>3, <2>4 DEF ResolveOneAvailable
  <2> QED
    BY <2>1, <2>5
<1>4. CASE ~RocOk(p)
  <2>1. q = HeldQuote("Degraded")
    BY <1>4 DEF ResolveOneAvailable
  <2>2. lastAccepted' = lastAccepted
    BY <2>1, HeldStatus DEF AcceptedStatus
  <2>3. ~RocOk(p)'
    BY <1>1, <1>4, <2>2 DEF RocOk
  <2>4. q' = HeldQuote("Degraded")'
    BY <1>1, <2>3 DEF ResolveOneAvailable
  <2> QED
    BY <2>1, <2>2, <2>4, SameHeld
<1>5. CASE ~Inside
  <2>1. q.status \notin AcceptedStatus
    BY <1>5, HeldStatus DEF ResolveOneAvailable, AcceptedStatus
  <2>2. oneFeedSince # None /\ now - oneFeedSince > OneFeedWindow
    BY <1>2, <1>5, BoundsAssumption DEF WindowStart
  <2> QED
    BY <2>1, <2>2
<1> QED
  BY <1>3, <1>4, <1>5

LEMMA ReadAgain ==
    ASSUME RouterTypes, GetPrice, UNCHANGED <<now, feed>>
    PROVE  \/ Read' = Read
           \/ /\ Read.status \notin AcceptedStatus
              /\ oneFeedSince # None /\ now - oneFeedSince > OneFeedWindow
<1> DEFINE p == FeedPrice("primary")
           s == FeedPrice("secondary")
<1>1. /\ config # None /\ UNCHANGED <<now, feed, config>>
      /\ lastAccepted' = IF Read.status \in AcceptedStatus THEN Read ELSE lastAccepted
      /\ oneFeedSince' = WindowAfter(Read)
  BY DEF GetPrice
<1>2. /\ FetchFresh("primary")' <=> FetchFresh("primary")
      /\ FetchFresh("secondary")' <=> FetchFresh("secondary")
      /\ p' = p /\ s' = s
  BY <1>1, SameFeeds DEF Feed
<1>3. CASE FetchFresh("primary") /\ FetchFresh("secondary")
  <2>1. Read = ResolveBothAvailable(p, s)
    BY <1>3 DEF Read
  <2>2. Read' = ResolveBothAvailable(p, s)'
    BY <1>2, <1>3 DEF Read
  <2>3. ResolveBothAvailable(p, s)' = ResolveBothAvailable(p, s)
    <3>1. PICK x, y : x = p /\ y = s
      OBVIOUS
    <3>2. ResolveBothAvailable(p, s)' = ResolveBothAvailable(x, y)'
      BY <1>2, <3>1 DEF ResolveBothAvailable
    <3>3. Read = ResolveBothAvailable(x, y)
      BY <2>1, <3>1
    <3> HIDE DEF p, s
    <3> QED
      BY <1>1, <3>1, <3>2, <3>3, BothAgain
  <2> QED
    BY <2>1, <2>2, <2>3
<1>4. CASE FetchFresh("primary") /\ ~FetchFresh("secondary")
  <2>1. Read = ResolveOneAvailable("primary") /\ Read' = ResolveOneAvailable("primary")'
    BY <1>2, <1>4 DEF Read
  <2> QED
    BY <1>1, <2>1, OneAgain DEF Feed
<1>5. CASE ~FetchFresh("primary") /\ FetchFresh("secondary")
  <2>1. Read = ResolveOneAvailable("secondary") /\ Read' = ResolveOneAvailable("secondary")'
    BY <1>2, <1>5 DEF Read
  <2> QED
    BY <1>1, <2>1, OneAgain DEF Feed
<1>6. CASE ~FetchFresh("primary") /\ ~FetchFresh("secondary")
  <2>1. Read = HeldQuote("HardStop") /\ Read' = HeldQuote("HardStop")'
    BY <1>2, <1>6 DEF Read
  <2>2. lastAccepted' = lastAccepted
    BY <1>1, <2>1, HeldStatus DEF AcceptedStatus
  <2> QED
    BY <1>1, <2>1, <2>2, SameHeld
<1> QED
  BY <1>3, <1>4, <1>5, <1>6

\* Two reads in one ledger get one answer, but for the read that closes the
\* one-feed window (get_price's own storage effects).
THEOREM ReadsGiveOneAnswer == Spec => ReadsAgree
<1> DEFINE Agrees ==
       GetPrice /\ UNCHANGED <<now, feed>> =>
          \/ Read' = Read
          \/ oneFeedSince # None /\ now - oneFeedSince > OneFeedWindow
<1>1. RouterTypes /\ [Next]_vars => [Agrees]_vars
  BY ReadAgain
<1> QED
  BY <1>1, RouterTyped, PTL DEF Spec, ReadsAgree
-----------------------------------------------------------------------------
\* The three contracts together.  Whatever the engine and the monitor do, the
\* router in their midst is the router of OracleRouter.
LEMMA BreakerSteps ==
    ASSUME [BreakerNext]_breakerVars
    PROVE  \/ /\ EngineCrank \/ \E k \in Keepers, to \in RE!SystemState : Recover(k, to)
              /\ GetPrice
              /\ UNCHANGED <<now, feed>>
           \/ /\ UNCHANGED <<engineConfig, balance>>
              /\ \/ UNCHANGED state
                 \/ \E k \in Keepers, to \in RE!SystemState, u \in Utils : Drain(k, to, u)
              /\ [Next]_vars
           \/ /\ balance' \in Balances
              /\ UNCHANGED <<engineConfig, state>>
              /\ UNCHANGED vars
<1>1. CASE EngineCrank
  BY <1>1 DEF EngineCrank
<1>2. ASSUME NEW k \in Keepers, NEW to \in RE!SystemState, Recover(k, to)
      PROVE  GetPrice /\ UNCHANGED <<now, feed>>
  BY <1>2 DEF Recover
<1>3. ASSUME NEW k \in Keepers, NEW to \in RE!SystemState, NEW u \in Utils,
             Drain(k, to, u)
      PROVE  UNCHANGED <<engineConfig, balance>> /\ UNCHANGED vars
  BY <1>3 DEF Drain, RE!Drain, vars, routerVars
<1>4. CASE RouterCrank
  <2>1. UNCHANGED <<now, feed>>
    BY <1>4 DEF RouterCrank, HM!Pause, monitorVars
  <2> QED
    BY <1>4, <2>1 DEF RouterCrank, Next, engineVars
<1>5. CASE RouterCall
  BY <1>5 DEF RouterCall, Next, engineVars
<1>6. CASE MonitorCall
  <2>1. UNCHANGED now
    BY <1>6 DEF MonitorCall, HM!Pause, HM!ResumeEarly
  <2> QED
    BY <1>6, <2>1 DEF MonitorCall, vars, routerVars, engineVars
<1>7. CASE World
  BY <1>7 DEF World, Next, vars, engineVars, routerVars
<1>8. CASE UNCHANGED breakerVars
  BY <1>8 DEF breakerVars, vars, engineVars
<1> QED
  BY <1>1, <1>2, <1>3, <1>4, <1>5, <1>6, <1>7, <1>8 DEF BreakerNext

LEMMA BreakerStepsAreRouterSteps == [BreakerNext]_breakerVars => [Next]_vars
  BY BreakerSteps DEF Next

\* The composition implements OracleRouter: what is proved of the router alone
\* holds of the router that the engine and the monitor's callers share.
THEOREM BreakerRunsTheRouter == BreakerSpec => Spec
<1>1. BreakerInit => Init
  BY DEF BreakerInit
<1> QED
  BY <1>1, BreakerStepsAreRouterSteps, PTL DEF BreakerSpec, Spec

LEMMA BreakerRouterTyped == BreakerSpec => []RouterTypes
  BY BreakerRunsTheRouter, RouterTyped, PTL

EngineTypes ==
    /\ state \in RE!SystemState
    /\ engineConfig \in RE!TierConfig
    /\ balance \in Int

LEMMA EngineTyped == BreakerSpec => []EngineTypes
<1>1. BreakerInit => EngineTypes
  BY EngineAssumption
  DEF BreakerInit, EngineTypes, RE!SystemState, RE!Normal, RE!Paused
<1>2. EngineTypes /\ [BreakerNext]_breakerVars => EngineTypes'
  <2> SUFFICES ASSUME EngineTypes, [BreakerNext]_breakerVars
               PROVE  EngineTypes'
    OBVIOUS
  <2>1. CASE EngineCrank
    BY <2>1
    DEF EngineCrank, RE!CheckAndTrip, RE!TripTarget, EngineTypes, RE!SystemState,
        RE!Normal, RE!PreemptiveDrain, RE!Emergency, RE!Paused
  <2>2. ASSUME NEW k \in Keepers, NEW to \in RE!SystemState, Recover(k, to)
        PROVE  EngineTypes'
    BY <2>2 DEF Recover, RE!Recover, EngineTypes
  <2>3. ASSUME NEW k \in Keepers, NEW to \in RE!SystemState, NEW u \in Utils,
               Drain(k, to, u)
        PROVE  EngineTypes'
    BY <2>3 DEF Drain, RE!Drain, EngineTypes
  <2>4. CASE UNCHANGED <<engineConfig, state>> /\ balance' \in Balances \cup {balance}
    BY <2>4, EngineAssumption DEF EngineTypes
  <2> QED
    BY <2>1, <2>2, <2>3, <2>4, BreakerSteps
<1> QED
  BY <1>1, <1>2, PTL DEF BreakerSpec

\* A level is only ever lowered by a recovery, on conditions that are clear.
LEMMA LoweringIsRecovery ==
    ASSUME EngineTypes, [BreakerNext]_breakerVars, state' < state
    PROVE  \E k \in Keepers, to \in RE!SystemState : Recover(k, to)
<1>1. CASE EngineCrank
  BY <1>1
  DEF EngineCrank, RE!CheckAndTrip, RE!TripTarget, EngineTypes, RE!SystemState,
      RE!Normal, RE!PreemptiveDrain, RE!Emergency, RE!Paused
<1>2. ASSUME NEW k \in Keepers, NEW to \in RE!SystemState, NEW u \in Utils,
             Drain(k, to, u)
      PROVE  FALSE
  BY <1>2 DEF Drain, RE!Drain, EngineTypes, RE!SystemState, RE!Normal, RE!Paused
<1>3. CASE UNCHANGED state
  BY <1>3 DEF EngineTypes, RE!SystemState, RE!Normal, RE!Paused
<1> QED
  BY <1>1, <1>2, <1>3, BreakerSteps

\* Behind every return to Normal stand two live feeds that agree, no pause and
\* a balance at its floor (keeper_advance_state, get_price, status).
THEOREM ReturnsAreCorroborated == BreakerSpec => ReturnIsCorroborated
<1> DEFINE Corroborated ==
       /\ \A f \in Feed : LiveAndFresh(f)
       /\ DivergenceBps(FeedPrice("primary"), FeedPrice("secondary"))
            <= config.hard
       /\ ~HM!Status
       /\ balance >= engineConfig.criticalFloor
<1>1. ASSUME RouterTypes, EngineTypes, [BreakerNext]_breakerVars,
             state' < state, state' = RE!Normal
      PROVE  Corroborated
  <2>1. PICK k \in Keepers, to \in RE!SystemState : Recover(k, to)
    BY <1>1, LoweringIsRecovery
  <2>2. to = RE!Normal /\ RE!RecoveryClear(RE!Normal) /\ config # None
    BY <1>1, <2>1 DEF Recover, RE!Recover
  <2>3. ~HM!Status /\ balance >= engineConfig.criticalFloor /\ Read.status = "Healthy"
    BY <2>2 DEF RE!RecoveryClear, RE!Normal, RE!PreemptiveDrain
  <2>4. HealthyIsCorroborated
    BY <1>1, HealthyRead DEF HealthyIsCorroborated, FetchFresh, LiveAndFresh, Feed
  <2> QED
    BY <2>2, <2>3, <2>4 DEF HealthyIsCorroborated
<1>2. RouterTypes /\ EngineTypes /\ [BreakerNext]_breakerVars =>
        [state' < state /\ state' = RE!Normal => Corroborated]_breakerVars
  BY <1>1
<1> QED
  BY <1>2, BreakerRouterTyped, EngineTyped, PTL DEF BreakerSpec, ReturnIsCorroborated
LEMMA QuoteStatuses ==
    Read.status \in {"Healthy", "OneFeed", "Degraded", "HardStop"}
<1>1. CASE Read.status \in AcceptedStatus
  BY <1>1 DEF AcceptedStatus
<1>2. CASE Read.status \notin AcceptedStatus
  <2>1. \/ Read = HeldQuote("HardStop")
        \/ Read = HeldQuote("Degraded")
    <3>1. ASSUME NEW p, NEW s, Read = ResolveBothAvailable(p, s)
          PROVE  Read = HeldQuote("Degraded")
      BY <1>2, <3>1, QuoteFields DEF ResolveBothAvailable, AcceptedStatus
    <3>2. ASSUME NEW f, Read = ResolveOneAvailable(f)
          PROVE  Read = HeldQuote("Degraded")
      BY <1>2, <3>2, QuoteFields DEF ResolveOneAvailable, AcceptedStatus
    <3> QED
      BY <3>1, <3>2 DEF Read
  <2> QED
    BY <2>1, HeldStatus
<1> QED
  BY <1>1, <1>2

\* An accepted read, once landed, reads the same again.
LEMMA AcceptedReadAgain ==
    ASSUME RouterTypes, GetPrice, UNCHANGED <<now, feed>>,
           Read.status \in AcceptedStatus
    PROVE  Read' = Read
  BY ReadAgain

LEMMA SettledByRecovery ==
    ASSUME RouterTypes, EngineTypes,
           NEW k \in Keepers, NEW to \in RE!SystemState, Recover(k, to)
    PROVE  (RE!TripTarget)' <= state'
<1>1. /\ state' = to /\ UNCHANGED <<engineConfig, balance, now, feed, monitorVars>>
      /\ RE!RecoveryClear(to) /\ GetPrice
  BY DEF Recover, RE!Recover
<1>2. HM!Status' <=> HM!Status
  BY <1>1 DEF HM!Status, monitorVars
<1>3. ~HM!Status /\ ~(balance < engineConfig.criticalFloor)
  <2>1. balance \in Int /\ engineConfig.criticalFloor \in Int
    BY DEF EngineTypes, RE!TierConfig
  <2> QED
    BY <1>1, <2>1 DEF RE!RecoveryClear
<1>4. /\ Read.status \in AcceptedStatus
      /\ to \in {RE!Normal, RE!PreemptiveDrain}
      /\ to = RE!Normal => Read.status = "Healthy"
  BY <1>1, QuoteStatuses
  DEF RE!RecoveryClear, AcceptedStatus, RE!Normal, RE!PreemptiveDrain
<1>5. Read' = Read
  BY <1>1, <1>4, AcceptedReadAgain
<1>6. (RE!TripTarget)' = IF Read.status = "OneFeed" THEN RE!PreemptiveDrain ELSE to
  BY <1>1, <1>2, <1>3, <1>4, <1>5
  DEF RE!TripTarget, AcceptedStatus, RE!PreemptiveDrain
<1> QED
  BY <1>1, <1>4, <1>6 DEF RE!Normal, RE!PreemptiveDrain

LEMMA SettledByCrank ==
    ASSUME RouterTypes, EngineTypes, EngineCrank, state' > state
    PROVE  (RE!TripTarget)' <= state'
<1>1. /\ UNCHANGED <<engineConfig, balance, now, feed, monitorVars>> /\ GetPrice
      /\ state' = RE!TripTarget
  BY DEF EngineCrank, RE!CheckAndTrip, EngineTypes, RE!SystemState,
         RE!Normal, RE!Paused
<1>2. HM!Status' <=> HM!Status
  BY <1>1 DEF HM!Status, monitorVars
<1> DEFINE low == balance < engineConfig.criticalFloor
           bad == Read.status \in {"Degraded", "HardStop"}
<1>3. low' <=> low
  BY <1>1
<1>4. CASE HM!Status
  BY <1>1, <1>2, <1>4 DEF RE!TripTarget, RE!Paused
<1>5. CASE ~HM!Status /\ (bad \/ low)
  <2>1. state' = RE!Emergency
    BY <1>1, <1>5 DEF RE!TripTarget
  <2>2. (RE!TripTarget)' \in {RE!Emergency, RE!PreemptiveDrain, state'}
    BY <1>2, <1>5 DEF RE!TripTarget
  <2> QED
    BY <2>1, <2>2 DEF RE!Emergency, RE!PreemptiveDrain
<1>6. CASE ~HM!Status /\ ~bad /\ ~low
  <2>1. Read.status = "OneFeed" /\ state' = RE!PreemptiveDrain
    <3>1. state' # state
      BY DEF EngineTypes, RE!SystemState, RE!Normal, RE!Paused
    <3> QED
      BY <3>1, <1>1, <1>6 DEF RE!TripTarget
  <2>2. Read' = Read
    BY <2>1, <1>1, AcceptedReadAgain DEF AcceptedStatus
  <2>3. (RE!TripTarget)' = RE!PreemptiveDrain
    BY <1>2, <1>3, <1>6, <2>1, <2>2 DEF RE!TripTarget
  <2> QED
    BY <2>1, <2>3 DEF RE!PreemptiveDrain
<1> QED
  BY <1>4, <1>5, <1>6

\* A second crank right after a recovery, or after a crank that raised the
\* level, does nothing, although both landed a read on the router.
THEOREM LevelsAreSettled == BreakerSpec => LevelIsSettled
<1>1. ASSUME RouterTypes, EngineTypes, [BreakerNext]_breakerVars,
             state' < state \/ (state' > state /\ EngineCrank)
      PROVE  (RE!TripTarget)' <= state'
  <2>1. CASE state' < state
    BY <1>1, <2>1, LoweringIsRecovery, SettledByRecovery
  <2>2. CASE state' > state /\ EngineCrank
    BY <1>1, <2>2, SettledByCrank
  <2> QED
    BY <1>1, <2>1, <2>2
<1>2. RouterTypes /\ EngineTypes /\ [BreakerNext]_breakerVars =>
        [state' < state \/ (state' > state /\ EngineCrank) =>
           (RE!TripTarget)' <= state']_breakerVars
  BY <1>1
<1> QED
  BY <1>2, BreakerRouterTyped, EngineTyped, PTL DEF BreakerSpec, LevelIsSettled
=============================================================================
