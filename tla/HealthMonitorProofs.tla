------------------------ MODULE HealthMonitorProofs ------------------------
(***************************************************************************)
(* HealthMonitor for every roster, window length and extension budget:     *)
(* type correctness, the bound on how long a pause is visible, that only a *)
(* guardian turns the switch on, and that the contract implements          *)
(* PauseSwitch.  Then the dashboard's guardian panel over it, for every    *)
(* length of the event record and every lookback, and what the dashboard's *)
(* incidents page and the keeper's report make of that record.             *)
(***************************************************************************)
EXTENDS GuardianPanel, FoldLemmas, TLAPS

\* The times a stored record may hold.  Extend only acts on a live record, so
\* each extension moves the expiry by at most one window: that is what makes
\* the bound on the expiry inductive.
RecordInv ==
    pause # None =>
        /\ trippedAt <= now
        /\ pause.pauseExpiry <= now + MaxPauseDuration
        /\ pause.pauseExpiry <=
              trippedAt + (pause.extensionsUsed + 1) * MaxPauseDuration

IInv == TypeOK /\ RecordInv

\* One window more: the arithmetic behind every extension.
LEMMA OneMoreWindow ==
    ASSUME NEW t \in Nat, NEW k \in Nat, NEW e \in Nat, NEW n \in Nat,
           n < e, e <= t + (k + 1) * MaxPauseDuration
    PROVE  n + MaxPauseDuration <= t + ((k + 1) + 1) * MaxPauseDuration
<1>1. MaxPauseDuration \in Nat
  BY DurationAssumption
<1>2. ((k + 1) + 1) * MaxPauseDuration
        = (k + 1) * MaxPauseDuration + MaxPauseDuration
  BY <1>1
<1>3. (k + 1) * MaxPauseDuration \in Nat
  BY <1>1
<1> QED
  BY <1>1, <1>2, <1>3

\* A budget not exceeded is a time not exceeded.
LEMMA BudgetBoundsTime ==
    ASSUME NEW k \in 0 .. MaxExtensions
    PROVE  (k + 1) * MaxPauseDuration <= (MaxExtensions + 1) * MaxPauseDuration
<1>1. MaxPauseDuration \in Nat /\ MaxExtensions \in Nat
  BY DurationAssumption, ExtensionsAssumption
<1>2. PICK d \in Nat : MaxExtensions + 1 = (k + 1) + d
  <2>1. MaxExtensions - k \in Nat
    BY <1>1
  <2> QED
    BY <2>1, <1>1
<1>3. (MaxExtensions + 1) * MaxPauseDuration
        = (k + 1) * MaxPauseDuration + d * MaxPauseDuration
  BY <1>1, <1>2
<1>4. d * MaxPauseDuration \in Nat /\ (k + 1) * MaxPauseDuration \in Nat
  BY <1>1, <1>2
<1> QED
  BY <1>3, <1>4

LEMMA PauseNowTyped ==
    ASSUME now \in Nat
    PROVE  /\ PauseNow \in PauseState
           /\ PauseNow.paused = TRUE
           /\ PauseNow.pauseExpiry = now + MaxPauseDuration
           /\ PauseNow.extensionsUsed = 0
  BY DurationAssumption, ExtensionsAssumption DEF PauseNow, PauseState

-----------------------------------------------------------------------------
LEMMA InitInv == Init => IInv
  BY DEF Init, IInv, TypeOK, RecordInv

\* Steps that leave the record alone keep it well-formed; later is no worse.
LEMMA RosterStepInv ==
    ASSUME IInv, UNCHANGED <<now, pause, trippedAt>>, TypeOK'
    PROVE  IInv'
  BY DEF IInv, RecordInv

LEMMA TickInv ==
    ASSUME IInv, Tick
    PROVE  IInv'
<1>1. TypeOK'
  BY DEF IInv, TypeOK, Tick
<1>2. RecordInv'
  <2> SUFFICES ASSUME pause # None
               PROVE  RecordInv'
    BY DEF Tick, RecordInv
  <2>1. pause.pauseExpiry \in Nat
    BY DEF IInv, TypeOK, PauseState
  <2> QED
    BY <2>1, DurationAssumption DEF IInv, TypeOK, RecordInv, Tick
<1> QED
  BY <1>1, <1>2 DEF IInv

LEMMA PauseInv ==
    ASSUME IInv, NEW g \in Accounts, Pause(g)
    PROVE  IInv'
<1>1. TypeOK'
  BY PauseNowTyped DEF IInv, TypeOK, Pause
<1>2. RecordInv'
  <2>1. now \in Nat /\ MaxPauseDuration \in Nat
    BY DurationAssumption DEF IInv, TypeOK
  <2>2. /\ now' = now /\ trippedAt' = now
        /\ pause'.pauseExpiry = now + MaxPauseDuration
        /\ pause'.extensionsUsed = 0
    BY <2>1, PauseNowTyped DEF Pause
  <2> QED
    BY <2>1, <2>2 DEF RecordInv
<1> QED
  BY <1>1, <1>2 DEF IInv

LEMMA ResumeEarlyInv ==
    ASSUME IInv, NEW a \in Accounts, ResumeEarly(a)
    PROVE  IInv'
<1>1. pause \in PauseState
  BY DEF IInv, TypeOK, ResumeEarly
<1>2. /\ pause' \in PauseState
      /\ pause'.pauseExpiry = pause.pauseExpiry
      /\ pause'.extensionsUsed = pause.extensionsUsed
  BY <1>1 DEF ResumeEarly, PauseState
<1> QED
  BY <1>1, <1>2, NoneAssumption DEF IInv, TypeOK, RecordInv, ResumeEarly

\* What an accepted extension leaves in storage.
LEMMA ExtendRecord ==
    ASSUME IInv, NEW a \in Accounts, Extend(a)
    PROVE  /\ pause \in PauseState /\ pause.paused
           /\ now < pause.pauseExpiry
           /\ pause.extensionsUsed < MaxExtensions
           /\ pause' \in PauseState /\ pause'.paused
           /\ pause'.pauseExpiry = now + MaxPauseDuration
           /\ pause'.extensionsUsed = pause.extensionsUsed + 1
<1>1. pause \in PauseState
  BY DEF IInv, TypeOK, Extend
<1>2. now \in Nat /\ MaxPauseDuration \in Nat /\ MaxExtensions \in Nat
  BY DurationAssumption, ExtensionsAssumption DEF IInv, TypeOK
<1>3. /\ pause.paused
      /\ now < pause.pauseExpiry
      /\ pause.extensionsUsed < MaxExtensions
  BY DEF Extend, Extendable
<1>4. pause.extensionsUsed \in 0 .. MaxExtensions
  BY <1>1 DEF PauseState
<1>5. /\ now + MaxPauseDuration \in Nat
      /\ pause.extensionsUsed + 1 \in 0 .. MaxExtensions
  BY <1>2, <1>3, <1>4
<1>6. pause' = [pause EXCEPT !.pauseExpiry = now + MaxPauseDuration,
                             !.extensionsUsed = pause.extensionsUsed + 1]
  BY DEF Extend, ExtendedExpiry
<1> QED
  BY <1>1, <1>3, <1>5, <1>6 DEF PauseState

LEMMA ExtendInv ==
    ASSUME IInv, NEW a \in Accounts, Extend(a)
    PROVE  IInv'
<1>1. TypeOK'
  BY ExtendRecord DEF IInv, TypeOK, Extend
<1>2. RecordInv'
  <2>1. /\ now' = now /\ trippedAt' = trippedAt /\ pause # None
        /\ now \in Nat /\ trippedAt \in Nat
    BY DEF IInv, TypeOK, Extend
  <2>2. pause.extensionsUsed \in Nat /\ pause.pauseExpiry \in Nat
    BY ExtendRecord, ExtensionsAssumption DEF PauseState
  <2>3. now < pause.pauseExpiry
    BY ExtendRecord
  <2>4. /\ trippedAt <= now
        /\ pause.pauseExpiry
             <= trippedAt + (pause.extensionsUsed + 1) * MaxPauseDuration
    BY <2>1 DEF IInv, RecordInv
  <2>5. now + MaxPauseDuration
          <= trippedAt + ((pause.extensionsUsed + 1) + 1) * MaxPauseDuration
    BY <2>1, <2>2, <2>3, <2>4, OneMoreWindow
  <2>6. /\ pause'.pauseExpiry = now + MaxPauseDuration
        /\ pause'.extensionsUsed = pause.extensionsUsed + 1
    BY ExtendRecord
  <2>7. now + MaxPauseDuration <= now + MaxPauseDuration
    BY <2>1, DurationAssumption
  <2> QED
    BY <2>1, <2>4, <2>5, <2>6, <2>7 DEF RecordInv
<1> QED
  BY <1>1, <1>2 DEF IInv

LEMMA StepInv == IInv /\ [Next]_vars => IInv'
<1> SUFFICES ASSUME IInv, [Next]_vars
             PROVE  IInv'
  OBVIOUS
<1>1. CASE Tick
  BY <1>1, TickInv
<1>2. ASSUME NEW a \in Accounts, NEW gs \in SUBSET Accounts,
             InitGuardians(a, gs)
      PROVE  IInv'
  BY <1>2, RosterStepInv DEF InitGuardians, IInv, TypeOK
<1>3. ASSUME NEW a \in Accounts, NEW g \in Accounts,
             AddGuardian(a, g) \/ RemoveGuardian(a, g)
      PROVE  IInv'
  BY <1>3, RosterStepInv DEF AddGuardian, RemoveGuardian, IInv, TypeOK
<1>4. ASSUME NEW g \in Accounts, Pause(g)
      PROVE  IInv'
  BY <1>4, PauseInv
<1>5. ASSUME NEW a \in Accounts, ResumeEarly(a)
      PROVE  IInv'
  BY <1>5, ResumeEarlyInv
<1>6. ASSUME NEW a \in Accounts, Extend(a)
      PROVE  IInv'
  BY <1>6, ExtendInv
<1>7. CASE UNCHANGED vars
  BY <1>7, RosterStepInv DEF vars, IInv, TypeOK
<1> QED
  BY <1>1, <1>2, <1>3, <1>4, <1>5, <1>6, <1>7 DEF Next

LEMMA InvariantHolds == Spec => []IInv
  BY InitInv, StepInv, PTL DEF Spec

\* Every reachable state is well typed: in particular no stored record ever
\* holds more than MaxExtensions extensions (init_guardians .. extend).
THEOREM TypeCorrect == Spec => []TypeOK
<1>1. IInv => TypeOK
  BY DEF IInv
<1> QED
  BY <1>1, InvariantHolds, PTL

\* Whatever the admin does, status() reads true for less than
\* (MaxExtensions + 1) windows after the last guardian's pause (pause, extend).
THEOREM PauseIsBounded == Spec => []PauseBounded
<1>1. IInv => PauseBounded
  <2> SUFFICES ASSUME IInv, Status
               PROVE  now < trippedAt
                              + (MaxExtensions + 1) * MaxPauseDuration
    BY DEF PauseBounded
  <2>1. pause \in PauseState /\ now < pause.pauseExpiry
    BY DEF IInv, TypeOK, Status
  <2>2. pause.extensionsUsed \in 0 .. MaxExtensions
        /\ pause.pauseExpiry \in Nat
    BY <2>1 DEF PauseState
  <2>3. pause.pauseExpiry
          <= trippedAt + (pause.extensionsUsed + 1) * MaxPauseDuration
    BY DEF IInv, RecordInv, Status
  <2>4. (pause.extensionsUsed + 1) * MaxPauseDuration
          <= (MaxExtensions + 1) * MaxPauseDuration
    BY <2>2, BudgetBoundsTime
  <2>5. /\ (pause.extensionsUsed + 1) * MaxPauseDuration \in Int
        /\ (MaxExtensions + 1) * MaxPauseDuration \in Int
    BY <2>2, DurationAssumption, ExtensionsAssumption
  <2> QED
    BY <2>1, <2>2, <2>3, <2>4, <2>5 DEF IInv, TypeOK
<1> QED
  BY <1>1, InvariantHolds, PTL

-----------------------------------------------------------------------------
\* What each kind of step does to what a reader of status() sees.
LEMMA ReadUnchanged ==
    ASSUME UNCHANGED <<now, pause>>
    PROVE  Status' = Status /\ UNCHANGED Switch!vars
  BY DEF Status, Switch!vars

LEMMA ReadAfterPause ==
    ASSUME IInv, NEW g \in Accounts, Pause(g)
    PROVE  Status' /\ Switch!Trip
<1>1. now \in Nat /\ MaxPauseDuration \in Nat \ {0}
  BY DurationAssumption DEF IInv, TypeOK
<1>2. /\ now' = now /\ pause' \in PauseState /\ pause'.paused
      /\ pause'.pauseExpiry = now + MaxPauseDuration
      /\ pause'.extensionsUsed = 0
  BY <1>1, PauseNowTyped DEF Pause
<1>3. Status'
  BY <1>1, <1>2, NoneAssumption DEF Status
<1>4. (now + MaxPauseDuration) - now = MaxPauseDuration
  BY <1>1
<1> QED
  BY <1>2, <1>3, <1>4 DEF Switch!Trip

LEMMA ReadAfterResume ==
    ASSUME IInv, NEW a \in Accounts, ResumeEarly(a)
    PROVE  ~Status' /\ Switch!Release
<1>1. pause \in PauseState
  BY DEF IInv, TypeOK, ResumeEarly
<1>2. pause'.paused = FALSE
  BY <1>1 DEF ResumeEarly, PauseState
<1>3. ~Status'
  BY <1>2 DEF Status
<1> QED
  BY <1>3 DEF Switch!Release

LEMMA ReadAfterExtend ==
    ASSUME IInv, NEW a \in Accounts, Extend(a)
    PROVE  Status /\ Switch!Renew
<1>1. now \in Nat /\ MaxPauseDuration \in Nat \ {0}
  BY DurationAssumption DEF IInv, TypeOK
<1>2. now' = now /\ pause # None
  BY DEF Extend
<1>3. Status /\ pause.pauseExpiry \in Nat
  BY <1>2, ExtendRecord DEF Status, PauseState
<1>4. Status'
  BY <1>1, <1>2, ExtendRecord, NoneAssumption DEF Status
<1>5. (now + MaxPauseDuration) - now = MaxPauseDuration
  BY <1>1
<1>6. pause.pauseExpiry - now > 0
  BY <1>1, <1>3, ExtendRecord
<1> QED
  BY <1>2, <1>3, <1>4, <1>5, <1>6, ExtendRecord DEF Switch!Renew, Switch!Closed

LEMMA ReadAfterTick ==
    ASSUME IInv, Tick
    PROVE  (Status' => Status) /\ [Switch!Elapse]_(Switch!vars)
<1>1. now \in Nat /\ now' = now + 1 /\ pause' = pause
  BY DEF IInv, TypeOK, Tick
<1>2. CASE ~Status
  <2>1. pause # None => pause.pauseExpiry \in Nat
    BY DEF IInv, TypeOK, PauseState
  <2>2. ~Status'
    BY <1>1, <1>2, <2>1 DEF Status
  <2> QED
    BY <1>2, <2>2 DEF Switch!vars
<1>3. CASE Status
  <2>1. pause \in PauseState /\ pause.paused /\ now < pause.pauseExpiry
        /\ pause # None
    BY <1>3 DEF IInv, TypeOK, Status
  <2>2. pause.pauseExpiry \in Nat
    BY <2>1 DEF PauseState
  <2>3. Status' <=> pause.pauseExpiry - now # 1
    BY <1>1, <2>1, <2>2 DEF Status
  <2>4. pause.pauseExpiry - (now + 1) = (pause.pauseExpiry - now) - 1
        /\ pause.pauseExpiry - now > 0
    BY <1>1, <2>1, <2>2
  <2>5. Switch!Elapse
    <3>1. CASE Status'
      BY <1>1, <1>3, <2>3, <2>4, <3>1 DEF Switch!Elapse, Switch!Closed
    <3>2. CASE ~Status'
      BY <1>1, <1>3, <2>3, <2>4, <3>2 DEF Switch!Elapse, Switch!Closed
    <3> QED
      BY <3>1, <3>2
  <2> QED
    BY <1>3, <2>5
<1> QED
  BY <1>2, <1>3

\* Every step is a step of the switch or leaves the reader's view alone, and
\* only a guardian's pause turns status() on.
LEMMA StepRead ==
    ASSUME IInv, [Next]_vars
    PROVE  /\ [Switch!Next]_(Switch!vars)
           /\ ~Status /\ Status' => \E g \in guardians : Pause(g)
<1>1. CASE Tick
  BY <1>1, ReadAfterTick DEF Switch!Next
<1>2. ASSUME NEW a \in Accounts, NEW gs \in SUBSET Accounts,
             InitGuardians(a, gs)
      PROVE  UNCHANGED <<now, pause>>
  BY <1>2 DEF InitGuardians
<1>3. ASSUME NEW a \in Accounts, NEW g \in Accounts,
             AddGuardian(a, g) \/ RemoveGuardian(a, g)
      PROVE  UNCHANGED <<now, pause>>
  BY <1>3 DEF AddGuardian, RemoveGuardian
<1>4. ASSUME NEW g \in Accounts, Pause(g)
      PROVE  Switch!Trip /\ g \in guardians
  BY <1>4, ReadAfterPause DEF Pause
<1>5. ASSUME NEW a \in Accounts, ResumeEarly(a)
      PROVE  ~Status' /\ Switch!Release
  BY <1>5, ReadAfterResume
<1>6. ASSUME NEW a \in Accounts, Extend(a)
      PROVE  Status /\ Switch!Renew
  BY <1>6, ReadAfterExtend
<1>7. CASE UNCHANGED vars
  BY <1>7, ReadUnchanged DEF vars
<1> QED
  BY <1>1, <1>2, <1>3, <1>4, <1>5, <1>6, <1>7, ReadUnchanged
     DEF Next, Switch!Next

\* Neither extend nor resume_early nor time brings a lapsed pause back.
THEOREM OnlyGuardiansPause == Spec => NoResurrection
<1>1. IInv /\ [Next]_vars
        => [~Status /\ Status' => \E g \in guardians : Pause(g)]_vars
  BY StepRead
<1> QED
  BY <1>1, InvariantHolds, PTL DEF Spec, NoResurrection

\* The contract, seen through status(), implements the abstract switch.
THEOREM ContractImplementsSwitch == Spec => ImplementsPauseSwitch
<1>1. Init => Switch!Init
  BY DEF Init, Switch!Init, Status
<1>2. IInv /\ [Next]_vars => [Switch!Next]_(Switch!vars)
  BY StepRead
<1> QED
  BY <1>1, <1>2, InvariantHolds, PTL DEF Spec, ImplementsPauseSwitch, Switch!Spec
-----------------------------------------------------------------------------
\* What was published, and what the record owes to it: the last "paused" event is
\* that of the record, whose expiry only extensions have moved since, and never
\* back.
Event == [type : {"paused", "resumed", "extended"}, at : Nat, expiry : Nat]

LatestPause(i) ==
    /\ events[i].type = "paused"
    /\ \A j \in 1 .. Len(events) : j > i => events[j].type # "paused"

Announced(expiry) ==
    /\ expiry \in Nat /\ expiry <= pause.pauseExpiry
    /\ pause.extensionsUsed = 0 => expiry = pause.pauseExpiry

InOrder == \A i, j \in 1 .. Len(events) : i <= j => events[i].at <= events[j].at
ByNow == \A i \in 1 .. Len(events) : events[i].at <= now

PauseAnnounced ==
    pause # None => \E i \in 1 .. Len(events) : LatestPause(i) /\ Announced(events[i].expiry)

EventsInv == events \in Seq(Event) /\ InOrder /\ ByNow /\ PauseAnnounced

LEMMA EventFields ==
    ASSUME EventsInv, NEW i \in 1 .. Len(events)
    PROVE  /\ Len(events) \in Nat
           /\ events[i] \in Event /\ events[i].at \in Nat /\ events[i].expiry \in Nat
           /\ events[i].type \in {"paused", "resumed", "extended"}
<1>1. events \in Seq(Event)
  BY DEF EventsInv
<1>2. events[i] \in Event /\ Len(events) \in Nat
  BY <1>1
<1> QED
  BY <1>2 DEF Event

\* An event appended at the present instant.
LEMMA Published ==
    ASSUME IInv, EventsInv, NEW type \in {"paused", "resumed", "extended"}, NEW expiry \in Nat,
           NEW quirk, NEW condition, Publish(type, expiry, quirk, condition), now' = now
    PROVE  /\ events' \in Seq(Event) /\ InOrder' /\ ByNow'
           /\ Len(events') = Len(events) + 1
           /\ events'[Len(events) + 1] = [type |-> type, at |-> now, expiry |-> expiry]
           /\ \A i \in 1 .. Len(events) : events'[i] = events[i]
<1> DEFINE e == [type |-> type, at |-> now, expiry |-> expiry]
<1>1. now \in Nat
  BY DEF IInv, TypeOK
<1>2. e \in Event /\ e.at = now
  BY <1>1 DEF Event
<1>3. events' = Append(events, e) /\ events \in Seq(Event)
  BY DEF Publish, EventsInv
<1> HIDE DEF e
<1>4. /\ events' \in Seq(Event) /\ Len(events) \in Nat /\ Len(events') = Len(events) + 1
      /\ events'[Len(events) + 1] = e
      /\ \A i \in 1 .. Len(events) : events'[i] = events[i]
  BY <1>2, <1>3
<1>5. \A i \in 1 .. Len(events) : events[i].at \in Nat
  BY EventFields
<1>6. ByNow'
  BY <1>1, <1>2, <1>4 DEF EventsInv, ByNow
<1>7. InOrder'
  <2> SUFFICES ASSUME NEW i \in 1 .. Len(events'), NEW j \in 1 .. Len(events'), i <= j
               PROVE  events'[i].at <= events'[j].at
    BY DEF InOrder
  <2>1. CASE j \in 1 .. Len(events)
    BY <1>4, <2>1 DEF EventsInv, InOrder
  <2>2. CASE j = Len(events) + 1 /\ i \in 1 .. Len(events)
    BY <1>2, <1>4, <2>2 DEF EventsInv, ByNow
  <2>3. CASE j = Len(events) + 1 /\ i = j
    BY <1>1, <1>2, <1>4, <2>3
  <2> QED
    BY <1>4, <2>1, <2>2, <2>3
<1> QED
  BY <1>4, <1>6, <1>7 DEF e

\* A step that publishes nothing.
LEMMA NothingPublished ==
    ASSUME IInv, EventsInv, UNCHANGED <<events, pause>>, now' \in Nat, now <= now'
    PROVE  EventsInv'
<1>1. \A i \in 1 .. Len(events) : events[i].at \in Nat
  BY EventFields
<1>2. now \in Nat
  BY DEF IInv, TypeOK
<1> QED
  BY <1>1, <1>2 DEF EventsInv, InOrder, ByNow, PauseAnnounced, LatestPause, Announced

LEMMA RecordPauseEvents ==
    ASSUME IInv, EventsInv, NEW g \in Accounts, RecordPause(g)
    PROVE  EventsInv'
<1>1. now' = now /\ pause' = PauseNow /\ now \in Nat
  BY DEF RecordPause, Pause, IInv, TypeOK
<1>2. pause'.pauseExpiry \in Nat
  BY <1>1, PauseNowTyped, DurationAssumption
<1>3. Publish("paused", pause'.pauseExpiry, "retrigger", Status)
  BY DEF RecordPause
<1>4. /\ events' \in Seq(Event) /\ InOrder' /\ ByNow' /\ Len(events') = Len(events) + 1
      /\ events'[Len(events) + 1] = [type |-> "paused", at |-> now, expiry |-> pause'.pauseExpiry]
  BY <1>1, <1>2, <1>3, Published
<1>5. PauseAnnounced'
  <2>1. Len(events) + 1 \in 1 .. Len(events')
    BY <1>4 DEF EventsInv
  <2>2. /\ events'[Len(events) + 1].type = "paused"
        /\ events'[Len(events) + 1].expiry = pause'.pauseExpiry
    BY <1>4
  <2>3. \A j \in 1 .. Len(events') : ~(j > Len(events) + 1)
    BY <1>4 DEF EventsInv
  <2> QED
    BY <1>2, <2>1, <2>2, <2>3 DEF PauseAnnounced, LatestPause, Announced
<1> QED
  BY <1>4, <1>5 DEF EventsInv

\* The admin's calls: another event, and an expiry that does not go back.
LEMMA AdminEvents ==
    ASSUME IInv, EventsInv, NEW type \in {"resumed", "extended"}, NEW expiry \in Nat,
           NEW quirk, NEW condition, Publish(type, expiry, quirk, condition), now' = now,
           pause # None, \A at \in Nat : Announced(at) => Announced(at)'
    PROVE  EventsInv'
<1>1. /\ events' \in Seq(Event) /\ InOrder' /\ ByNow' /\ Len(events') = Len(events) + 1
      /\ events'[Len(events) + 1] = [type |-> type, at |-> now, expiry |-> expiry]
      /\ \A i \in 1 .. Len(events) : events'[i] = events[i]
  BY Published
<1>2. PICK i \in 1 .. Len(events) : LatestPause(i) /\ Announced(events[i].expiry)
  BY DEF EventsInv, PauseAnnounced
<1>3. events[i].expiry \in Nat /\ events'[i] = events[i] /\ Len(events) \in Nat
  BY <1>1, EventFields
<1>4. Announced(events[i].expiry)'
  BY <1>2, <1>3 DEF Announced
<1>5. LatestPause(i)'
  <2>1. events'[Len(events) + 1].type # "paused"
    BY <1>1
  <2> QED
    BY <1>1, <1>2, <1>3, <2>1 DEF LatestPause
<1>6. PauseAnnounced'
  BY <1>1, <1>3, <1>4, <1>5 DEF PauseAnnounced
<1> QED
  BY <1>1, <1>6 DEF EventsInv

LEMMA RecordResumeEvents ==
    ASSUME IInv, EventsInv, NEW a \in Accounts, RecordResume(a)
    PROVE  EventsInv'
<1>1. pause \in PauseState /\ now' = now /\ pause # None
  BY DEF RecordResume, ResumeEarly, IInv, TypeOK
<1>2. /\ pause'.pauseExpiry = pause.pauseExpiry
      /\ pause'.extensionsUsed = pause.extensionsUsed
  BY <1>1 DEF RecordResume, ResumeEarly, PauseState
<1>3. \A at \in Nat : Announced(at) => Announced(at)'
  BY <1>2 DEF Announced
<1>4. Publish("resumed", 0, "late resume", ~Status)
  BY DEF RecordResume
<1> QED
  BY <1>1, <1>3, <1>4, AdminEvents

LEMMA RecordExtendEvents ==
    ASSUME IInv, EventsInv, NEW a \in Accounts, RecordExtend(a)
    PROVE  EventsInv'
<1>1. Extend(a) /\ Publish("extended", pause'.pauseExpiry, "extension", TRUE)
  BY DEF RecordExtend
<1>2. /\ pause \in PauseState /\ pause' \in PauseState
      /\ pause'.pauseExpiry = now + MaxPauseDuration
      /\ pause'.extensionsUsed = pause.extensionsUsed + 1
  BY <1>1, ExtendRecord
<1>3. now' = now /\ pause # None
  BY <1>1 DEF Extend
<1>4. pause.pauseExpiry <= now + MaxPauseDuration
  BY <1>3 DEF IInv, RecordInv
<1>5. pause.extensionsUsed \in Nat /\ pause.pauseExpiry \in Nat /\ pause'.pauseExpiry \in Nat
  BY <1>2, ExtensionsAssumption DEF PauseState
<1>6. now + MaxPauseDuration \in Nat
  BY <1>2, <1>5
<1>7. \A at \in Nat : Announced(at) => Announced(at)'
  BY <1>2, <1>4, <1>5, <1>6 DEF Announced
<1> QED
  BY <1>1, <1>3, <1>5, <1>7, AdminEvents
-----------------------------------------------------------------------------
\* A click that has not been answered is after every click a toast is about, and
\* its transaction has not been sent before the button is at "send".
Phases == {"idle", "simulate", "sign", "send", "poll"}
Fates == {"unsent", "sent", "SUCCESS", "FAILED", "dropped"}
Shape(c) == c = [op |-> c.op, by |-> c.by, fate |-> c.fate]
Announcing == {"submitted", "Transaction failed"}

ClicksInv ==
    /\ clicks \in 0 .. MaxClicks
    /\ sent = [c \in Calls |-> sent[c]]
    /\ \A c \in Calls :
        /\ Shape(sent[c]) /\ sent[c].fate \in Fates
        /\ c <= clicks => sent[c].by \in Accounts
        /\ sent[c].fate # "unsent" => c <= clicks

BusyInv ==
    /\ busy \in Phases
    /\ busy # "idle" => clicks \in Calls
    /\ busy \in {"simulate", "sign", "send"} => sent[clicks].fate = "unsent"

ToastInv ==
    toast # None =>
        /\ toast.click \in 1 .. clicks
        /\ busy # "idle" => toast.click < clicks
        /\ toast.title \notin Announcing => sent[toast.click].fate = "unsent"
        /\ toast.status # None => /\ toast.status \in {"SUCCESS", "FAILED"}
                                  /\ sent[toast.click].fate = toast.status

ButtonInv == ClicksInv /\ BusyInv /\ ToastInv

LEMMA ButtonInit == PanelInit => ButtonInv
<1> SUFFICES ASSUME PanelInit PROVE ButtonInv
  OBVIOUS
<1>1. clicks = 0 /\ busy = "idle" /\ toast = None
      /\ sent = [c \in Calls |-> [op |-> None, by |-> None, fate |-> "unsent"]]
  BY DEF PanelInit
<1>2. ClicksInv
  BY <1>1, ClicksAssumption DEF ClicksInv, Calls, Shape, Fates
<1> QED
  BY <1>1, <1>2 DEF ButtonInv, BusyInv, ToastInv, Phases

LEMMA LostIsAnnounced == Title("lost") = "Transaction failed"
  BY DEF Title

\* A call's fate replaced.
LEMMA FateReplaced ==
    ASSUME ClicksInv, NEW c \in Calls, NEW fate \in Fates, c <= clicks,
           sent' = Fated(c, fate), clicks' = clicks
    PROVE  /\ ClicksInv'
           /\ sent'[c].fate = fate
           /\ \A d \in Calls : d # c => sent'[d] = sent[d]
<1>1. sent = [d \in Calls |-> sent[d]] /\ Shape(sent[c])
  BY DEF ClicksInv
<1>2. sent' = [sent EXCEPT ![c] = [sent[c] EXCEPT !.fate = fate]]
  BY DEF Fated
<1>3. PICK new : new = [sent[c] EXCEPT !.fate = fate] /\ sent' = [sent EXCEPT ![c] = new]
  BY <1>2
<1>4. new = [op |-> sent[c].op, by |-> sent[c].by, fate |-> fate]
  BY <1>1, <1>3 DEF Shape
<1>5. Shape(new) /\ new.by = sent[c].by /\ new.fate = fate
  BY <1>4 DEF Shape
<1>6. sent'[c] = new /\ \A d \in Calls : d # c => sent'[d] = sent[d]
  BY <1>1, <1>3
<1>7. sent' = [d \in Calls |-> sent'[d]]
  BY <1>1, <1>3
<1>8. ClicksInv'
  BY <1>5, <1>6, <1>7 DEF ClicksInv
<1> QED
  BY <1>5, <1>6, <1>8

\* The button gives up on a click of which nothing was sent, or says that
\* something may have been.
LEMMA GivesUp ==
    ASSUME ButtonInv, busy # "idle", NEW error, Fails(error), clicks' = clicks, ClicksInv',
           \A c \in Calls : c # clicks => sent'[c] = sent[c],
           Title(error) \notin Announcing => sent'[clicks].fate = "unsent"
    PROVE  ButtonInv'
<1>1. clicks \in Calls /\ clicks \in 1 .. clicks /\ Calls = 1 .. MaxClicks /\ MaxClicks \in Nat
  BY ClicksAssumption DEF ButtonInv, BusyInv, Calls
<1>2. /\ toast' = [click |-> clicks, title |-> Title(error), status |-> None]
      /\ busy' = "idle"
  BY DEF Fails
<1>3. toast'.click = clicks /\ toast'.title = Title(error) /\ toast'.status = None
  BY <1>2
<1>4. ToastInv'
  BY <1>1, <1>2, <1>3 DEF ToastInv
<1>5. BusyInv'
  BY <1>2 DEF BusyInv, Phases
<1> QED
  BY <1>4, <1>5 DEF ButtonInv

\* The button goes on to its next phase.
LEMMA GoesOn ==
    ASSUME ButtonInv, busy # "idle", busy' \in Phases \ {"idle"}, clicks' = clicks, toast' = toast,
           ClicksInv', \A c \in Calls : c # clicks => sent'[c] = sent[c],
           busy' \in {"simulate", "sign", "send"} => sent'[clicks].fate = "unsent"
    PROVE  ButtonInv'
<1>1. clicks \in Calls /\ Calls = 1 .. MaxClicks /\ MaxClicks \in Nat
  BY ClicksAssumption DEF ButtonInv, BusyInv, Calls
<1>2. ToastInv'
  <2> SUFFICES ASSUME toast # None PROVE ToastInv'
    BY DEF ToastInv
  <2>1. toast.click \in 1 .. clicks /\ toast.click < clicks
    BY DEF ButtonInv, ToastInv
  <2>2. toast.click \in Calls /\ toast.click # clicks
    BY <1>1, <2>1
  <2>3. sent'[toast.click] = sent[toast.click]
    BY <2>2
  <2> QED
    BY <2>1, <2>3 DEF ButtonInv, ToastInv
<1>3. BusyInv'
  BY <1>1 DEF BusyInv
<1> QED
  BY <1>2, <1>3 DEF ButtonInv
LEMMA ClickKeeps ==
    ASSUME ButtonInv, NEW op \in {"pause", "resume"}, NEW by \in Accounts, Click(op, by)
    PROVE  ButtonInv'
<1>1. /\ busy = "idle" /\ clicks < MaxClicks /\ clicks' = clicks + 1
      /\ busy' = "simulate" /\ toast' = toast
      /\ clicks \in Nat /\ MaxClicks \in Nat
  BY ClicksAssumption DEF Click, ButtonInv, ClicksInv
<1>2. clicks' \in Calls /\ clicks \in 0 .. MaxClicks
  BY <1>1 DEF Calls
<1>3. PICK new : /\ new = [op |-> op, by |-> by, fate |-> "unsent"]
                 /\ sent' = [sent EXCEPT ![clicks'] = new]
  BY DEF Click
<1>4. Shape(new) /\ new.by = by /\ new.fate = "unsent"
  BY <1>3 DEF Shape
<1>5. sent = [c \in Calls |-> sent[c]]
  BY DEF ButtonInv, ClicksInv
<1>6. sent'[clicks'] = new /\ \A c \in Calls : c # clicks' => sent'[c] = sent[c]
  BY <1>2, <1>3, <1>5
<1>7. sent' = [c \in Calls |-> sent'[c]]
  BY <1>3, <1>5
<1>8. ClicksInv'
  <2> SUFFICES ASSUME NEW c \in Calls
               PROVE  /\ Shape(sent[c])' /\ sent'[c].fate \in Fates
                      /\ c <= clicks' => sent'[c].by \in Accounts
                      /\ sent'[c].fate # "unsent" => c <= clicks'
    BY <1>1, <1>7 DEF ClicksInv
  <2>1. CASE c = clicks'
    BY <1>4, <1>6, <2>1 DEF Shape, Fates
  <2>2. CASE c # clicks'
    <3>1. sent'[c] = sent[c] /\ (c <= clicks' <=> c <= clicks)
      BY <1>1, <1>6, <2>2 DEF Calls
    <3> QED
      BY <1>1, <3>1 DEF ButtonInv, ClicksInv, Shape
  <2> QED
    BY <2>1, <2>2
<1>9. ToastInv'
  <2> SUFFICES ASSUME toast # None PROVE ToastInv'
    BY <1>1 DEF ToastInv
  <2>1. toast.click \in 1 .. clicks
    BY DEF ButtonInv, ToastInv
  <2>2. toast.click \in Calls /\ toast.click # clicks' /\ toast.click < clicks'
        /\ toast.click \in 1 .. clicks'
    BY <1>1, <2>1 DEF Calls
  <2>3. sent'[toast.click] = sent[toast.click]
    BY <1>6, <2>2
  <2> QED
    BY <1>1, <2>2, <2>3 DEF ButtonInv, ToastInv
<1>10. BusyInv'
  BY <1>1, <1>2, <1>4, <1>6 DEF BusyInv, Phases
<1> QED
  BY <1>8, <1>9, <1>10 DEF ButtonInv

LEMMA SimulateKeeps == ButtonInv /\ Simulate => ButtonInv'
<1> SUFFICES ASSUME ButtonInv, Simulate PROVE ButtonInv'
  OBVIOUS
<1>1. busy = "simulate" /\ clicks' = clicks /\ sent' = sent /\ sent[clicks].fate = "unsent"
  BY DEF Simulate, ButtonInv, BusyInv
<1>2. ClicksInv'
  BY <1>1 DEF ButtonInv, ClicksInv, Shape
<1>3. CASE busy' = "sign" /\ UNCHANGED toast
  BY <1>1, <1>2, <1>3, GoesOn DEF Phases
<1>4. CASE Fails("simulation")
  BY <1>1, <1>2, <1>4, GivesUp
<1> QED
  BY <1>3, <1>4 DEF Simulate

LEMMA SignKeeps == ButtonInv /\ Sign => ButtonInv'
<1> SUFFICES ASSUME ButtonInv, Sign PROVE ButtonInv'
  OBVIOUS
<1>1. busy = "sign" /\ clicks' = clicks /\ sent' = sent /\ sent[clicks].fate = "unsent"
  BY DEF Sign, ButtonInv, BusyInv
<1>2. ClicksInv'
  BY <1>1 DEF ButtonInv, ClicksInv, Shape
<1>3. CASE busy' = "send" /\ UNCHANGED toast
  BY <1>1, <1>2, <1>3, GoesOn DEF Phases
<1>4. ASSUME NEW error \in WalletErrors, Fails(error) PROVE ButtonInv'
  BY <1>1, <1>2, <1>4, GivesUp
<1> QED
  BY <1>3, <1>4 DEF Sign

LEMMA SendKeeps == ButtonInv /\ Send => ButtonInv'
<1> SUFFICES ASSUME ButtonInv, Send PROVE ButtonInv'
  OBVIOUS
<1>1. busy = "send" /\ clicks' = clicks /\ clicks \in Calls /\ clicks <= clicks
  BY ClicksAssumption DEF Send, ButtonInv, BusyInv, Calls
<1>2. sent' \in {sent, Fated(clicks, "sent")}
  BY DEF Send
<1>3. ClicksInv' /\ \A c \in Calls : c # clicks => sent'[c] = sent[c]
  <2>1. CASE sent' = sent
    BY <1>1, <2>1 DEF ButtonInv, ClicksInv, Shape
  <2>2. CASE sent' = Fated(clicks, "sent")
    BY <1>1, <2>2, FateReplaced DEF ButtonInv, Fates
  <2> QED
    BY <1>2, <2>1, <2>2
<1>4. CASE busy' = "poll" /\ UNCHANGED toast
  BY <1>1, <1>3, <1>4, GoesOn DEF Phases
<1>5. CASE Fails("lost")
  BY <1>1, <1>3, <1>5, GivesUp, LostIsAnnounced DEF Announcing
<1> QED
  BY <1>4, <1>5 DEF Send

LEMMA AnswerKeeps == ButtonInv /\ Answer => ButtonInv'
<1> SUFFICES ASSUME ButtonInv, Answer PROVE ButtonInv'
  OBVIOUS
<1>1. /\ busy = "poll" /\ clicks' = clicks /\ sent' = sent /\ clicks \in Calls
      /\ Calls = 1 .. MaxClicks /\ MaxClicks \in Nat
  BY ClicksAssumption DEF Answer, ButtonInv, BusyInv, Calls
<1>2. ClicksInv'
  BY <1>1 DEF ButtonInv, ClicksInv, Shape
<1>3. CASE Fails("lost")
  BY <1>1, <1>2, <1>3, GivesUp, LostIsAnnounced DEF Announcing
<1>4. CASE /\ sent[clicks].fate \in {"SUCCESS", "FAILED"}
           /\ toast' = [click |-> clicks, title |-> "submitted", status |-> sent[clicks].fate]
           /\ busy' = "idle"
  <2>1. /\ toast'.click = clicks /\ toast'.title = "submitted"
        /\ toast'.status = sent[clicks].fate
    BY <1>4
  <2>2. ToastInv'
    BY <1>1, <1>4, <2>1 DEF ToastInv, Announcing
  <2>3. BusyInv'
    BY <1>4 DEF BusyInv, Phases
  <2> QED
    BY <1>2, <2>2, <2>3 DEF ButtonInv
<1> QED
  BY <1>3, <1>4 DEF Answer

\* What becomes of a sent transaction contradicts no toast.
LEMMA LandsKeeps ==
    ASSUME ButtonInv, NEW c \in Calls, Lands(c)
    PROVE  ButtonInv'
<1>1. /\ sent[c].fate = "sent" /\ clicks' = clicks /\ busy' = busy /\ toast' = toast
      /\ c <= clicks
  BY DEF Lands, ButtonInv, ClicksInv
<1>2. PICK fate \in {"SUCCESS", "FAILED", "dropped"} : sent' = Fated(c, fate)
  BY DEF Lands
<1>3. ClicksInv' /\ sent'[c].fate = fate /\ \A d \in Calls : d # c => sent'[d] = sent[d]
  BY <1>1, <1>2, FateReplaced DEF ButtonInv, Fates
<1>4. BusyInv'
  BY <1>1, <1>3 DEF ButtonInv, BusyInv
<1>5. ToastInv'
  <2> SUFFICES ASSUME toast # None PROVE ToastInv'
    BY <1>1 DEF ToastInv
  <2>1. toast.click \in 1 .. clicks /\ clicks \in 0 .. MaxClicks
    BY DEF ButtonInv, ToastInv, ClicksInv
  <2>2. toast.click \in Calls
    BY <2>1, ClicksAssumption DEF Calls
  <2>3. CASE toast.click = c
    BY <1>1, <2>3 DEF ButtonInv, ToastInv
  <2>4. CASE toast.click # c
    BY <1>1, <1>3, <2>2, <2>4 DEF ButtonInv, ToastInv
  <2> QED
    BY <2>3, <2>4
<1> QED
  BY <1>3, <1>4, <1>5 DEF ButtonInv
-----------------------------------------------------------------------------
\* A read no call has disturbed is about the pause that is still there.
Undisturbed(read) ==
    read # None =>
        /\ read = [paused |-> read.paused, asked |-> read.asked,
                   expiry |-> read.expiry, quiet |-> read.quiet]
        /\ read.quiet /\ read.paused =>
             /\ pause # None /\ pause.paused
             /\ read.expiry # None => Announced(read.expiry)

PanelInv == IInv /\ EventsInv /\ ButtonInv /\ Undisturbed(reading) /\ Undisturbed(panel)

\* Each call of the contract is a step of the contract, with its event.
LEMMA CallRecorded ==
    ASSUME IInv, EventsInv, NEW a \in Accounts,
           RosterChange(a) \/ RecordPause(a) \/ RecordResume(a) \/ RecordExtend(a)
    PROVE  Next /\ EventsInv'
<1>1. CASE RosterChange(a)
  <2>1. Next /\ UNCHANGED <<now, pause, events>>
    BY <1>1 DEF RosterChange, Next, InitGuardians, AddGuardian, RemoveGuardian
  <2>2. now' \in Nat /\ now <= now'
    BY <2>1 DEF IInv, TypeOK
  <2> QED
    BY <2>1, <2>2, NothingPublished
<1>2. CASE RecordPause(a)
  BY <1>2, RecordPauseEvents DEF RecordPause, Next
<1>3. CASE RecordResume(a)
  BY <1>3, RecordResumeEvents DEF RecordResume, Next
<1>4. CASE RecordExtend(a)
  BY <1>4, RecordExtendEvents DEF RecordExtend, Next
<1> QED
  BY <1>1, <1>2, <1>3, <1>4

LEMMA TickRecorded ==
    ASSUME IInv, EventsInv, RecordTick
    PROVE  Next /\ EventsInv' /\ pause' = pause
<1>1. Tick /\ UNCHANGED <<events, pause>> /\ now' = now + 1 /\ now \in Nat
  BY DEF RecordTick, Tick, IInv, TypeOK
<1>2. now' \in Nat /\ now <= now'
  BY <1>1
<1> QED
  BY <1>1, <1>2, NothingPublished DEF Next

\* The newest pause in sight is the newest there is.
LEMMA NewestInSight ==
    ASSUME IInv, EventsInv, pause # None, LatestPauseExpiry # None
    PROVE  Announced(LatestPauseExpiry)
<1>1. PICK i \in 1 .. Len(events) : LatestPause(i) /\ Announced(events[i].expiry)
  BY DEF EventsInv, PauseAnnounced
<1>2. DOMAIN events = 1 .. Len(events) /\ Len(events) \in Nat
  BY DEF EventsInv
<1>3. PausesSeen # {} /\ LatestPauseExpiry = events[Max(PausesSeen)].expiry
  BY DEF LatestPauseExpiry
<1>4. PausesSeen \subseteq 1 .. Len(events)
  BY <1>2 DEF PausesSeen
<1>5. \A j \in PausesSeen : i >= j
  BY <1>1, <1>2, <1>4 DEF PausesSeen, LatestPause
<1>6. i \in PausesSeen
  <2>1. PICK j \in PausesSeen : TRUE
    BY <1>3
  <2>2. events[j].at <= events[i].at
    BY <1>4, <1>5, <2>1 DEF EventsInv, InOrder
  <2>3. events[j].at >= now - Lookback
    BY <2>1 DEF PausesSeen
  <2>4. events[i].at \in Nat /\ events[j].at \in Nat /\ now \in Nat /\ Lookback \in Nat
    BY <1>4, <2>1, EventFields, LookbackAssumption DEF IInv, TypeOK
  <2>5. events[i].at >= now - Lookback
    BY <2>2, <2>3, <2>4
  <2> QED
    BY <1>1, <1>2, <2>5 DEF PausesSeen, LatestPause
<1>7. Max(PausesSeen) = i
  <2> DEFINE m == Max(PausesSeen)
  <2>1. m \in PausesSeen /\ m >= i
    BY <1>5, <1>6 DEF Max
  <2> HIDE DEF m
  <2>2. i >= m /\ m \in Int /\ i \in Int
    BY <1>2, <1>4, <1>5, <2>1
  <2>3. m = i
    BY <2>1, <2>2
  <2> QED
    BY <2>3 DEF m
<1> QED
  BY <1>1, <1>3, <1>7

LEMMA DisturbedIsLoud ==
    ASSUME NEW read, Undisturbed(read), read # None
    PROVE  /\ Disturbed(read).quiet = FALSE
           /\ Disturbed(read) = [paused |-> Disturbed(read).paused, asked |-> Disturbed(read).asked,
                                 expiry |-> Disturbed(read).expiry, quiet |-> Disturbed(read).quiet]
<1>1. PICK new : new = [read EXCEPT !.quiet = FALSE] /\ Disturbed(read) = new
  BY DEF Disturbed
<1>2. new = [paused |-> read.paused, asked |-> read.asked, expiry |-> read.expiry, quiet |-> FALSE]
  BY <1>1 DEF Undisturbed
<1> QED
  BY <1>1, <1>2

LEMMA DisturbedIsNothing == Disturbed(None) = None
  BY DEF Disturbed

LEMMA CallsDisturb ==
    ASSUME Undisturbed(reading), Undisturbed(panel), Disturb
    PROVE  Undisturbed(reading)' /\ Undisturbed(panel)'
<1>1. Undisturbed(reading)'
  <2>1. CASE reading = None
    BY <2>1, DisturbedIsNothing DEF Disturb, Undisturbed
  <2>2. CASE reading # None
    BY <2>2, DisturbedIsLoud DEF Disturb, Undisturbed
  <2> QED
    BY <2>1, <2>2
<1>2. Undisturbed(panel)'
  <2>1. CASE panel = None
    BY <2>1, DisturbedIsNothing DEF Disturb, Undisturbed
  <2>2. CASE panel # None
    BY <2>2, DisturbedIsLoud DEF Disturb, Undisturbed
  <2> QED
    BY <2>1, <2>2
<1> QED
  BY <1>1, <1>2
\* The panel's own steps leave the contract and its events alone.
LEMMA PanelReads ==
    ASSUME PanelInv, (Reading \/ Button) /\ UNCHANGED recordVars
    PROVE  PanelInv'
<1>1. UNCHANGED <<now, admin, guardians, pause, trippedAt, events>>
  BY DEF recordVars, vars
<1>2. IInv' /\ EventsInv'
  BY <1>1 DEF PanelInv, IInv, TypeOK, RecordInv, EventsInv, InOrder, ByNow, PauseAnnounced,
              LatestPause, Announced
<1>3. ButtonInv'
  <2>1. CASE Reading
    BY <2>1 DEF Reading, ReadStatus, ReadExpiry, ShowPanel, ReadingFails, PanelInv, ButtonInv,
                ClicksInv, BusyInv, ToastInv, Shape
  <2>2. CASE Button
    BY <2>2, ClickKeeps, SimulateKeeps, SignKeeps, SendKeeps, AnswerKeeps DEF Button, PanelInv
  <2> QED
    BY <2>1, <2>2
<1>4. Undisturbed(reading)' /\ Undisturbed(panel)'
  <2>1. CASE ReadStatus
    <3>1. PICK read : /\ read = [paused |-> Status, asked |-> ~Status, expiry |-> None, quiet |-> TRUE]
                      /\ reading' = read
      BY <2>1 DEF ReadStatus
    <3>2. /\ read = [paused |-> read.paused, asked |-> read.asked,
                     expiry |-> read.expiry, quiet |-> read.quiet]
          /\ read.expiry = None
      BY <3>1
    <3>3. read.paused = Status
      BY <3>1
    <3>4. read.paused => pause # None /\ pause.paused
      BY <3>3 DEF Status
    <3>5. Undisturbed(read)'
      BY <1>1, <3>2, <3>4 DEF Undisturbed
    <3>6. panel' = panel
      BY <2>1 DEF ReadStatus
    <3> QED
      BY <1>1, <3>1, <3>5, <3>6 DEF PanelInv, Undisturbed, Announced
  <2>2. CASE ReadExpiry
    <3>1. PICK read : /\ read = [reading EXCEPT !.asked = TRUE, !.expiry = LatestPauseExpiry]
                      /\ reading' = read
      BY <2>2 DEF ReadExpiry
    <3>2. read = [paused |-> reading.paused, asked |-> TRUE,
                  expiry |-> LatestPauseExpiry, quiet |-> reading.quiet]
      BY <2>2, <3>1 DEF PanelInv, Undisturbed, ReadExpiry
    <3>3. /\ read = [paused |-> read.paused, asked |-> read.asked,
                     expiry |-> read.expiry, quiet |-> read.quiet]
          /\ read.expiry = LatestPauseExpiry
      BY <3>2
    <3>4. read.paused = reading.paused /\ read.quiet = reading.quiet
      BY <3>2
    <3>5. read.quiet /\ read.paused => pause # None /\ pause.paused
      BY <2>2, <3>4 DEF PanelInv, Undisturbed, ReadExpiry
    <3>6. read.quiet /\ read.paused /\ read.expiry # None => Announced(read.expiry)
      BY <3>3, <3>5, NewestInSight DEF PanelInv
    <3>7. Undisturbed(read)'
      BY <1>1, <3>3, <3>5, <3>6 DEF Undisturbed, Announced
    <3>8. panel' = panel
      BY <2>2 DEF ReadExpiry
    <3> QED
      BY <1>1, <3>1, <3>7, <3>8 DEF PanelInv, Undisturbed, Announced
  <2>3. CASE ShowPanel
    BY <1>1, <2>3 DEF ShowPanel, PanelInv, Undisturbed, Announced
  <2>4. CASE ReadingFails
    BY <1>1, <2>4 DEF ReadingFails, PanelInv, Undisturbed, Announced
  <2>5. CASE Button
    <3>1. panel' = panel /\ (reading' = reading \/ reading' = None)
      BY <2>5 DEF Button, Click, Simulate, Sign, Send, Answer
    <3> QED
      BY <1>1, <3>1 DEF PanelInv, Undisturbed, Announced
  <2> QED
    BY <2>1, <2>2, <2>3, <2>4, <2>5 DEF Reading
<1> QED
  BY <1>2, <1>3, <1>4 DEF PanelInv

\* Every step of the panel and of the contract under it.
LEMMA PanelStep ==
    ASSUME PanelInv, [PanelNext]_panelVars
    PROVE  PanelInv' /\ [Next]_vars
<1>0. IInv /\ EventsInv /\ ButtonInv /\ Undisturbed(reading) /\ Undisturbed(panel)
  BY DEF PanelInv
<1>1. CASE (Reading \/ Button) /\ UNCHANGED recordVars
  BY <1>1, PanelReads DEF recordVars
<1>2. ASSUME NEW c \in Calls, Lands(c) PROVE PanelInv' /\ [Next]_vars
  <2>1. ButtonInv' /\ sent[c].by \in Accounts
    BY <1>0, <1>2, LandsKeeps DEF Lands, ButtonInv, ClicksInv
  <2>2. CASE Execute(c) /\ Disturb
    <3>1. Next /\ EventsInv'
      BY <1>0, <2>1, <2>2, CallRecorded DEF Execute
    <3>2. IInv' /\ Undisturbed(reading)' /\ Undisturbed(panel)'
      BY <1>0, <2>2, <3>1, StepInv, CallsDisturb
    <3> QED
      BY <2>1, <3>1, <3>2 DEF PanelInv
  <2>3. CASE UNCHANGED <<recordVars, reading, panel>>
    <3>1. UNCHANGED <<now, admin, guardians, pause, trippedAt, events, reading, panel>>
      BY <2>3 DEF recordVars, vars
    <3>2. IInv' /\ EventsInv' /\ Undisturbed(reading)' /\ Undisturbed(panel)'
      BY <1>0, <3>1 DEF IInv, TypeOK, RecordInv, EventsInv, InOrder, ByNow, PauseAnnounced,
                        LatestPause, Announced, Undisturbed
    <3> QED
      BY <2>1, <3>1, <3>2 DEF PanelInv, vars
  <2> QED
    BY <1>2, <2>2, <2>3 DEF Lands
<1>3. CASE RecordTick /\ UNCHANGED guardianVars
  <2>1. Next /\ EventsInv' /\ pause' = pause
    BY <1>0, <1>3, TickRecorded
  <2>2. UNCHANGED <<reading, panel, clicks, busy, sent, toast>>
    BY <1>3 DEF guardianVars
  <2>3. IInv'
    BY <1>0, <2>1, StepInv
  <2>4. ButtonInv' /\ Undisturbed(reading)' /\ Undisturbed(panel)'
    BY <1>0, <2>1, <2>2 DEF ButtonInv, ClicksInv, BusyInv, ToastInv, Shape, Undisturbed, Announced
  <2> QED
    BY <2>1, <2>3, <2>4 DEF PanelInv
<1>4. ASSUME NEW a \in Accounts, Disturb, UNCHANGED <<clicks, busy, sent, toast>>,
             RosterChange(a) \/ RecordPause(a) \/ RecordResume(a) \/ RecordExtend(a)
      PROVE  PanelInv' /\ [Next]_vars
  <2>1. Next /\ EventsInv'
    BY <1>0, <1>4, CallRecorded
  <2>2. IInv' /\ Undisturbed(reading)' /\ Undisturbed(panel)'
    BY <1>0, <1>4, <2>1, StepInv, CallsDisturb
  <2>3. ButtonInv'
    BY <1>0, <1>4 DEF ButtonInv, ClicksInv, BusyInv, ToastInv, Shape
  <2> QED
    BY <2>1, <2>2, <2>3 DEF PanelInv
<1>5. CASE UNCHANGED panelVars
  <2>1. UNCHANGED <<now, admin, guardians, pause, trippedAt, events, reading, panel,
                    clicks, busy, sent, toast>>
    BY <1>5 DEF panelVars, guardianVars, recordVars, vars
  <2>2. IInv' /\ EventsInv' /\ Undisturbed(reading)' /\ Undisturbed(panel)'
    BY <1>0, <2>1 DEF IInv, TypeOK, RecordInv, EventsInv, InOrder, ByNow, PauseAnnounced,
                      LatestPause, Announced, Undisturbed
  <2>3. ButtonInv'
    BY <1>0, <2>1 DEF ButtonInv, ClicksInv, BusyInv, ToastInv, Shape
  <2> QED
    BY <2>1, <2>2, <2>3 DEF PanelInv, vars
<1> QED
  BY <1>1, <1>2, <1>3, <1>4, <1>5 DEF PanelNext, Elsewhere

LEMMA PanelHolds == PanelSpec => []PanelInv
<1>1. RecordInit /\ PanelInit => PanelInv
  <2> SUFFICES ASSUME RecordInit, PanelInit PROVE PanelInv
    OBVIOUS
  <2>1. IInv
    BY InitInv DEF RecordInit
  <2>2. EventsInv
    BY DEF RecordInit, Init, EventsInv, InOrder, ByNow, PauseAnnounced
  <2> QED
    BY <2>1, <2>2, ButtonInit DEF PanelInit, PanelInv, Undisturbed
<1>2. PanelInv /\ [PanelNext]_panelVars => PanelInv'
  BY PanelStep
<1> QED
  BY <1>1, <1>2, PTL DEF PanelSpec

\* Under the panel, whose clicks are among its callers, the contract is still the
\* contract: what is proved of one holds of the other.
THEOREM PanelRunsTheSwitch == PanelSpec => Spec
<1>1. RecordInit => Init
  BY DEF RecordInit
<1>2. PanelInv /\ [PanelNext]_panelVars => [Next]_vars
  BY PanelStep
<1> QED
  BY <1>1, <1>2, PanelHolds, PTL DEF PanelSpec, Spec

\* What the guardian panel tells an operator holds: the countdown put together
\* from two reads is the pause's while the contract is not called, and a toast
\* that says where a click came to nothing is right.
THEOREM GuardiansAreToldTheTruth == PanelSpec => []GuardianPanelIsTrue
<1>1. PanelInv => CountdownIsTrue
  <2> SUFFICES ASSUME PanelInv, panel # None, panel.quiet, panel.paused, panel.expiry # None
               PROVE  /\ now < panel.expiry => Status
                      /\ Status /\ pause.extensionsUsed = 0 => now < panel.expiry
    BY DEF CountdownIsTrue
  <2>1. pause # None /\ pause.paused /\ Announced(panel.expiry)
    BY DEF PanelInv, Undisturbed
  <2>2. now \in Nat /\ pause.pauseExpiry \in Nat
    BY <2>1 DEF PanelInv, IInv, TypeOK, PauseState
  <2>3. Status <=> now < pause.pauseExpiry
    BY <2>1 DEF Status
  <2> QED
    BY <2>1, <2>2, <2>3 DEF Announced
<1>2. PanelInv => ToastIsTrue
  BY DEF PanelInv, ButtonInv, ToastInv, ToastIsTrue, Announcing
<1> QED
  BY <1>1, <1>2, PanelHolds, PTL DEF GuardianPanelIsTrue

-----------------------------------------------------------------------------
\* The dashboard's replay, event by event.
Episode ==
    [pausedAt : Nat, resolution : {"active", "resumed_early", "auto_expired", "superseded"},
     resolvedAt : Nat \cup {None}, extensions : Nat, expiry : Nat]
Progress == {r \in [episodes : Seq(Episode), open : BOOLEAN] : r.open => r.episodes # <<>>}
Nothing == [episodes |-> <<>>, open |-> FALSE]

LEMMA LastOf ==
    ASSUME NEW S, NEW s \in Seq(S), s # <<>>
    PROVE  /\ Len(s) \in Nat \ {0} /\ Last(s) = s[Len(s)] /\ Last(s) \in S
           /\ \A x \in S : /\ WithLast(s, x) \in Seq(S) /\ Len(WithLast(s, x)) = Len(s)
                           /\ WithLast(s, x)[Len(s)] = x
                           /\ \A i \in 1 .. Len(s) : i # Len(s) => WithLast(s, x)[i] = s[i]
  BY DEF Last, WithLast

LEMMA ResolveFields ==
    ASSUME NEW ep \in Episode, NEW at \in Nat,
           NEW how \in {"resumed_early", "auto_expired", "superseded"}
    PROVE  /\ Resolve(ep, how, at) \in Episode
           /\ Resolve(ep, how, at).pausedAt = ep.pausedAt
           /\ Resolve(ep, how, at).resolvedAt = at
           /\ Resolve(ep, how, at).resolution = how
           /\ Resolve(ep, how, at).expiry = ep.expiry
<1>1. Resolve(ep, how, at) = [ep EXCEPT !.resolution = how, !.resolvedAt = at]
  BY DEF Resolve
<1> QED
  BY <1>1 DEF Episode

LEMMA ExtendedFields ==
    ASSUME NEW ep \in Episode, NEW expiry \in Nat
    PROVE  /\ Extended(ep, expiry) \in Episode
           /\ Extended(ep, expiry).pausedAt = ep.pausedAt
           /\ Extended(ep, expiry).resolvedAt = ep.resolvedAt
           /\ Extended(ep, expiry).resolution = ep.resolution
           /\ Extended(ep, expiry).expiry = expiry
<1>1. PICK n : n = ep.extensions + 1
  OBVIOUS
<1>2. n \in Nat
  BY <1>1 DEF Episode
<1>3. Extended(ep, expiry) = [ep EXCEPT !.expiry = expiry, !.extensions = n]
  BY <1>1 DEF Extended
<1> QED
  BY <1>2, <1>3 DEF Episode

LEMMA OpenEpisodeFields ==
    ASSUME NEW e \in Event
    PROVE  /\ OpenEpisode(e) \in Episode
           /\ OpenEpisode(e).pausedAt = e.at /\ OpenEpisode(e).resolvedAt = None
           /\ OpenEpisode(e).resolution = "active" /\ OpenEpisode(e).expiry = e.expiry
  BY DEF Episode, Event, OpenEpisode

LEMMA RetriggeredFields ==
    ASSUME NEW ep \in Episode, NEW at \in Nat
    PROVE  /\ Retriggered(ep, at) \in Episode
           /\ Retriggered(ep, at).pausedAt = ep.pausedAt
           /\ Retriggered(ep, at).resolvedAt = IF ep.expiry <= at THEN ep.expiry ELSE at
           /\ Retriggered(ep, at).resolution # "active"
<1>1. ep.expiry \in Nat
  BY DEF Episode
<1>2. ASSUME ep.expiry <= at
      PROVE  Retriggered(ep, at) = Resolve(ep, "auto_expired", ep.expiry)
  BY <1>2 DEF Retriggered
<1>3. ASSUME ~(ep.expiry <= at)
      PROVE  Retriggered(ep, at) = Resolve(ep, "superseded", at)
  BY <1>3 DEF Retriggered
<1>4. ASSUME NEW x \in Nat
      PROVE  /\ Resolve(ep, "auto_expired", x) \in Episode
             /\ Resolve(ep, "auto_expired", x).pausedAt = ep.pausedAt
             /\ Resolve(ep, "auto_expired", x).resolvedAt = x
             /\ Resolve(ep, "auto_expired", x).resolution # "active"
             /\ Resolve(ep, "superseded", x) \in Episode
             /\ Resolve(ep, "superseded", x).pausedAt = ep.pausedAt
             /\ Resolve(ep, "superseded", x).resolvedAt = x
             /\ Resolve(ep, "superseded", x).resolution # "active"
  BY ResolveFields
<1> QED
  BY <1>1, <1>2, <1>3, <1>4

\* What one event makes of the episodes so far.
LEMMA ReplayStepPaused ==
    ASSUME NEW r \in Progress, NEW e \in Event, e.type = "paused"
    PROVE  /\ ReplayStep(r, e).open = TRUE
           /\ ReplayStep(r, e).episodes =
                Append(IF r.open THEN WithLast(r.episodes, Retriggered(Last(r.episodes), e.at))
                                 ELSE r.episodes,
                       OpenEpisode(e))
  BY DEF ReplayStep

LEMMA ReplayStepExtended ==
    ASSUME NEW r \in Progress, NEW e \in Event, e.type = "extended"
    PROVE  /\ ReplayStep(r, e).open = r.open
           /\ ReplayStep(r, e).episodes =
                IF r.open THEN WithLast(r.episodes, Extended(Last(r.episodes), e.expiry))
                          ELSE r.episodes
<1>1. r.open \in BOOLEAN
  BY DEF Progress
<1>2. CASE r.open = TRUE
  BY <1>2 DEF ReplayStep
<1>3. CASE r.open = FALSE
  <2>1. ReplayStep(r, e) = r
    BY <1>3 DEF ReplayStep
  <2> QED
    BY <2>1, <1>3
<1> QED
  BY <1>1, <1>2, <1>3

LEMMA ReplayStepResumed ==
    ASSUME NEW r \in Progress, NEW e \in Event, e.type = "resumed"
    PROVE  /\ ReplayStep(r, e).open = FALSE
           /\ ReplayStep(r, e).episodes =
                IF r.open THEN WithLast(r.episodes, Resolve(Last(r.episodes), "resumed_early", e.at))
                          ELSE r.episodes
<1>1. r.open \in BOOLEAN
  BY DEF Progress
<1>2. CASE r.open = TRUE
  BY <1>2 DEF ReplayStep
<1>3. CASE r.open = FALSE
  <2>1. ReplayStep(r, e) = r
    BY <1>3 DEF ReplayStep
  <2> QED
    BY <2>1, <1>3
<1> QED
  BY <1>1, <1>2, <1>3

LEMMA ReplayStepTyped ==
    ASSUME NEW r \in Progress, NEW e \in Event
    PROVE  ReplayStep(r, e) \in Progress
<1>1. /\ r.episodes \in Seq(Episode) /\ r.open \in BOOLEAN
      /\ r.open => r.episodes # <<>>
  BY DEF Progress
<1>2. e.type \in {"paused", "resumed", "extended"} /\ e.at \in Nat /\ e.expiry \in Nat
  BY DEF Event
<1>3. ASSUME NEW eps \in Seq(Episode), NEW open \in BOOLEAN, open => eps # <<>>
      PROVE  [episodes |-> eps, open |-> open] \in Progress
  BY <1>3 DEF Progress
<1> DEFINE last == Last(r.episodes)
<1>4. CASE r.open = TRUE
  <2>1. r.episodes # <<>> /\ last \in Episode
    BY <1>1, <1>4, LastOf
  <2>2. \A x \in Episode : /\ WithLast(r.episodes, x) \in Seq(Episode)
                           /\ Len(WithLast(r.episodes, x)) = Len(r.episodes)
    BY <1>1, <2>1, LastOf
  <2>3. \A x \in Episode : WithLast(r.episodes, x) # <<>>
    BY <1>1, <2>1, <2>2, LastOf
  <2>4. CASE e.type = "paused"
    <3>1. Retriggered(last, e.at) \in Episode /\ OpenEpisode(e) \in Episode
      BY <1>2, <2>1, RetriggeredFields, OpenEpisodeFields
    <3>2. PICK x \in Seq(Episode) : x = WithLast(r.episodes, Retriggered(last, e.at))
      BY <2>2, <3>1
    <3>3. Append(x, OpenEpisode(e)) \in Seq(Episode) /\ Append(x, OpenEpisode(e)) # <<>>
      BY <3>1
    <3>4. ReplayStep(r, e) = [episodes |-> Append(x, OpenEpisode(e)), open |-> TRUE]
      BY <1>4, <2>4, <3>2 DEF ReplayStep
    <3> QED
      BY <1>3, <3>3, <3>4
  <2>5. CASE e.type = "extended"
    <3>1. Extended(last, e.expiry) \in Episode
      BY <1>2, <2>1, ExtendedFields
    <3>2. ReplayStep(r, e) =
            [episodes |-> WithLast(r.episodes, Extended(last, e.expiry)), open |-> TRUE]
      BY <1>4, <2>5 DEF ReplayStep
    <3> QED
      BY <1>3, <2>2, <2>3, <3>1, <3>2
  <2>6. CASE e.type = "resumed"
    <3>1. Resolve(last, "resumed_early", e.at) \in Episode
      BY <1>2, <2>1, ResolveFields
    <3>2. ReplayStep(r, e) =
            [episodes |-> WithLast(r.episodes, Resolve(last, "resumed_early", e.at)),
             open |-> FALSE]
      BY <1>4, <2>6 DEF ReplayStep
    <3> QED
      BY <1>3, <2>2, <2>3, <3>1, <3>2
  <2> QED
    BY <1>2, <2>4, <2>5, <2>6
<1>5. CASE r.open = FALSE
  <2>1. CASE e.type = "paused"
    <3>1. PICK x \in Seq(Episode), o \in Episode : x = r.episodes /\ o = OpenEpisode(e)
      BY <1>1, OpenEpisodeFields
    <3>2. Append(x, o) \in Seq(Episode) /\ Append(x, o) # <<>>
      <4>1. Append(x, o) \in Seq(Episode) /\ Len(Append(x, o)) = Len(x) + 1 /\ Len(x) \in Nat
        OBVIOUS
      <4>2. Len(Append(x, o)) # Len(<<>>)
        BY <4>1
      <4> QED
        BY <4>1, <4>2
    <3>3. ReplayStep(r, e) = [episodes |-> Append(x, o), open |-> TRUE]
      BY <1>5, <2>1, <3>1 DEF ReplayStep
    <3> QED
      BY <1>3, <3>2, <3>3
  <2>2. CASE e.type # "paused"
    <3>1. ReplayStep(r, e) = r
      BY <1>2, <1>5, <2>2 DEF ReplayStep
    <3> QED
      BY <3>1
  <2> QED
    BY <2>1, <2>2
<1> QED
  BY <1>1, <1>4, <1>5

-----------------------------------------------------------------------------
\* The recursion is one over 1 .. Len(evts).
ReplayBody(evts, from, g, k) ==
    IF k = 0 THEN Nothing
    ELSE IF evts[k].at < from THEN g[k - 1]
    ELSE ReplayStep(g[k - 1], evts[k])
IsReplay(evts, from, g) == g = [k \in 0 .. Len(evts) |-> ReplayBody(evts, from, g, k)]
Replayed(evts, from) == CHOOSE g : IsReplay(evts, from, g)
ReplayMoves(evts, from) ==
    [k \in 1 .. Len(evts) |->
       [r \in Progress |-> IF evts[k].at < from THEN r ELSE ReplayStep(r, evts[k])]]

LEMMA ReplayIsReplayed ==
    ASSUME NEW evts, NEW from PROVE Replay(evts, from) = Replayed(evts, from)[Len(evts)]
  BY DEF Replay, Replayed, IsReplay, ReplayBody, Nothing

LEMMA NothingIsProgress == Nothing \in Progress
  BY DEF Nothing, Progress

LEMMA ReplayMovesTyped ==
    ASSUME NEW evts \in Seq(Event), NEW from
    PROVE  ReplayMoves(evts, from) \in [1 .. Len(evts) -> [Progress -> Progress]]
<1>1. ASSUME NEW k \in 1 .. Len(evts), NEW r \in Progress
      PROVE  (IF evts[k].at < from THEN r ELSE ReplayStep(r, evts[k])) \in Progress
  <2>1. evts[k] \in Event
    OBVIOUS
  <2> QED
    BY <2>1, ReplayStepTyped
<1> QED
  BY <1>1 DEF ReplayMoves

LEMMA ReplayRuns ==
    ASSUME NEW evts \in Seq(Event), NEW from
    PROVE  /\ IsRun(Replayed(evts, from), Len(evts), Nothing, Progress, ReplayMoves(evts, from))
           /\ \A k \in 0 .. Len(evts) : Replayed(evts, from)[k] \in Progress
<1> DEFINE n == Len(evts)
           F == ReplayMoves(evts, from)
<1>1. n \in Nat /\ F \in [1 .. n -> [Progress -> Progress]]
  BY ReplayMovesTyped
<1>2. \A k \in 1 .. n : \A r \in Progress :
        F[k][r] = IF evts[k].at < from THEN r ELSE ReplayStep(r, evts[k])
  BY DEF ReplayMoves
<1> HIDE DEF n, F
<1>3. PICK h : IsRun(h, n, Nothing, Progress, F)
  BY <1>1, NothingIsProgress, RunExists
<1>4. \A k \in 0 .. n : h[k] \in Progress
  BY <1>1, <1>3, NothingIsProgress, RunsAgree
<1>5. PICK g : g = [k \in 0 .. n |-> h[k]]
  OBVIOUS
<1>6. ASSUME NEW k \in 0 .. n PROVE g[k] = ReplayBody(evts, from, g, k)
  <2>1. CASE k = 0
    BY <1>1, <1>3, <1>5, <2>1 DEF IsRun, ReplayBody
  <2>2. CASE k # 0
    <3>1. k \in 1 .. n /\ k - 1 \in 0 .. n
      BY <1>1, <2>2
    <3>2. h[k - 1] \in Progress /\ g[k] = h[k] /\ g[k - 1] = h[k - 1]
      BY <1>4, <1>5, <3>1
    <3>3. h[k] = F[k][h[k - 1]]
      BY <1>3, <3>1, <3>2 DEF IsRun
    <3>4. h[k] = IF evts[k].at < from THEN h[k - 1] ELSE ReplayStep(h[k - 1], evts[k])
      BY <1>2, <3>1, <3>2, <3>3
    <3> QED
      BY <2>2, <3>2, <3>4 DEF ReplayBody
  <2> QED
    BY <2>1, <2>2
<1>7. g = [k \in 0 .. n |-> ReplayBody(evts, from, g, k)]
  BY <1>5, <1>6
<1>8. IsReplay(evts, from, Replayed(evts, from))
  BY <1>7 DEF IsReplay, Replayed, n
<1> DEFINE p == Replayed(evts, from)
<1>9. \A k \in 0 .. n : p[k] = ReplayBody(evts, from, p, k)
  BY <1>8 DEF IsReplay, n
<1> HIDE DEF p
<1>10. IsRun(p, n, Nothing, Progress, F)
  <2>1. p[0] = Nothing
    BY <1>1, <1>9 DEF ReplayBody
  <2>2. ASSUME NEW k \in 1 .. n, p[k - 1] \in Progress PROVE p[k] = F[k][p[k - 1]]
    <3>1. k \in 0 .. n /\ k # 0
      BY <1>1
    <3> QED
      BY <1>2, <1>9, <2>2, <3>1 DEF ReplayBody
  <2> QED
    BY <2>1, <2>2 DEF IsRun
<1>11. \A k \in 0 .. n : p[k] \in Progress
  BY <1>1, <1>10, NothingIsProgress, RunsAgree
<1> QED
  BY <1>10, <1>11 DEF p, n, F

LEMMA ReplayTyped ==
    ASSUME NEW evts \in Seq(Event), NEW from
    PROVE  Replay(evts, from) \in Progress
<1>1. Len(evts) \in 0 .. Len(evts)
  OBVIOUS
<1> QED
  BY <1>1, ReplayRuns, ReplayIsReplayed

LEMMA ReplayEmpty ==
    ASSUME NEW from PROVE Replay(<<>>, from) = Nothing
<1>1. IsRun(Replayed(<<>>, from), Len(<<>>), Nothing, Progress, ReplayMoves(<<>>, from))
  <2>1. <<>> \in Seq(Event)
    OBVIOUS
  <2> QED
    BY <2>1, ReplayRuns
<1>2. Len(<<>>) = 0
  OBVIOUS
<1> QED
  BY <1>1, <1>2, ReplayIsReplayed DEF IsRun

\* One more event: nothing, or one more step.
LEMMA ReplayAppend ==
    ASSUME NEW evts \in Seq(Event), NEW e \in Event, NEW from
    PROVE  Replay(Append(evts, e), from) =
             IF e.at < from THEN Replay(evts, from) ELSE ReplayStep(Replay(evts, from), e)
<1> DEFINE n == Len(evts)
<1>1. PICK more : more = Append(evts, e)
  OBVIOUS
<1>2. /\ more \in Seq(Event) /\ n \in Nat /\ Len(more) = n + 1 /\ more[n + 1] = e
      /\ \A k \in 1 .. n : more[k] = evts[k]
  BY <1>1
<1>3. PICK h, g : h = Replayed(evts, from) /\ g = Replayed(more, from)
  OBVIOUS
<1> DEFINE F == ReplayMoves(evts, from)
           G == ReplayMoves(more, from)
<1>4. /\ F \in [1 .. n -> [Progress -> Progress]]
      /\ G \in [1 .. n + 1 -> [Progress -> Progress]]
  BY <1>2, ReplayMovesTyped
<1>5. \A k \in 1 .. n : G[k] = F[k]
  BY <1>2 DEF ReplayMoves
<1>6. IsRun(h, n, Nothing, Progress, F) /\ IsRun(g, n + 1, Nothing, Progress, G)
  BY <1>2, <1>3, ReplayRuns
<1>7. \A r \in Progress : G[n + 1][r] = IF e.at < from THEN r ELSE ReplayStep(r, e)
  BY <1>2 DEF ReplayMoves
<1> HIDE DEF n, F, G
<1>8. IsRun(g, n, Nothing, Progress, F)
  BY <1>2, <1>5, <1>6 DEF IsRun
<1>9. n \in 0 .. n /\ n + 1 \in 1 .. n + 1 /\ (n + 1) - 1 = n
  BY <1>2
<1>10. g[n] = h[n] /\ h[n] \in Progress
  <2>1. \A k \in 0 .. n : g[k] = h[k] /\ g[k] \in Progress
    <3>1. n \in Nat
      BY <1>2
    <3>2. F \in [1 .. n -> [Progress -> Progress]]
      BY <1>4
    <3>3. IsRun(h, n, Nothing, Progress, F)
      BY <1>6
    <3> QED
      BY <1>8, <3>1, <3>2, <3>3, NothingIsProgress, RunsAgree
  <2> QED
    BY <1>9, <2>1
<1>11. g[n + 1] = G[n + 1][g[n]]
  BY <1>6, <1>9, <1>10 DEF IsRun
<1>12. Replay(evts, from) = h[n] /\ Replay(more, from) = g[n + 1]
  BY <1>2, <1>3, ReplayIsReplayed DEF n
<1> QED
  BY <1>1, <1>7, <1>10, <1>11, <1>12
-----------------------------------------------------------------------------
\* The reporter's pairing, in the same way.
Pair == [pausedAt : Nat, expiry : Nat, resumedAt : Nat \cup {None}]

PairBody(evts, from, g, k) ==
    IF k = 0 THEN <<>>
    ELSE IF evts[k].at < from THEN g[k - 1]
    ELSE PairStep(g[k - 1], evts[k])
ArePaired(evts, from, g) == g = [k \in 0 .. Len(evts) |-> PairBody(evts, from, g, k)]
Paired(evts, from) == CHOOSE g : ArePaired(evts, from, g)
PairMoves(evts, from) ==
    [k \in 1 .. Len(evts) |->
       [s \in Seq(Pair) |-> IF evts[k].at < from THEN s ELSE PairStep(s, evts[k])]]

LEMMA PairsArePaired ==
    ASSUME NEW evts, NEW from PROVE PairPauseEvents(evts, from) = Paired(evts, from)[Len(evts)]
  BY DEF PairPauseEvents, Paired, ArePaired, PairBody

LEMMA PairStepPaused ==
    ASSUME NEW s, NEW e \in Event, e.type = "paused"
    PROVE  PairStep(s, e) =
             Append(s, [pausedAt |-> e.at, expiry |-> e.expiry, resumedAt |-> None])
  BY DEF PairStep

LEMMA PairStepResumed ==
    ASSUME NEW s, NEW e \in Event, e.type = "resumed"
    PROVE  PairStep(s, e) =
             IF s # <<>> /\ Last(s).resumedAt = None
             THEN WithLast(s, [Last(s) EXCEPT !.resumedAt = e.at]) ELSE s
  BY DEF PairStep

LEMMA PairStepExtended ==
    ASSUME NEW s, NEW e \in Event, e.type = "extended"
    PROVE  PairStep(s, e) = s
  BY DEF PairStep

LEMMA PairStepTyped ==
    ASSUME NEW s \in Seq(Pair), NEW e \in Event
    PROVE  PairStep(s, e) \in Seq(Pair)
<1>1. e.type \in {"paused", "resumed", "extended"} /\ e.at \in Nat /\ e.expiry \in Nat
  BY DEF Event
<1>2. CASE e.type = "paused"
  <2>1. PICK o : o = [pausedAt |-> e.at, expiry |-> e.expiry, resumedAt |-> None]
    OBVIOUS
  <2>2. o \in Pair
    BY <1>1, <2>1 DEF Pair
  <2>3. Append(s, o) \in Seq(Pair)
    BY <2>2
  <2> QED
    BY <1>2, <2>1, <2>3, PairStepPaused
<1>3. CASE e.type = "resumed"
  <2>1. CASE s # <<>> /\ Last(s).resumedAt = None
    <3>1. Last(s) \in Pair
      BY <2>1, LastOf
    <3>2. PICK x : x = [Last(s) EXCEPT !.resumedAt = e.at]
      OBVIOUS
    <3>3. x \in Pair
      BY <1>1, <3>1, <3>2 DEF Pair
    <3>4. WithLast(s, x) \in Seq(Pair)
      BY <2>1, <3>3, LastOf
    <3> QED
      BY <1>3, <2>1, <3>2, <3>4, PairStepResumed
  <2>2. CASE ~ (s # <<>> /\ Last(s).resumedAt = None)
    BY <1>3, <2>2, PairStepResumed
  <2> QED
    BY <2>1, <2>2
<1>4. CASE e.type = "extended"
  BY <1>4, PairStepExtended
<1> QED
  BY <1>1, <1>2, <1>3, <1>4

LEMMA NoPairs == <<>> \in Seq(Pair)
  OBVIOUS

LEMMA PairMovesTyped ==
    ASSUME NEW evts \in Seq(Event), NEW from
    PROVE  PairMoves(evts, from) \in [1 .. Len(evts) -> [Seq(Pair) -> Seq(Pair)]]
<1>1. ASSUME NEW k \in 1 .. Len(evts), NEW s \in Seq(Pair)
      PROVE  (IF evts[k].at < from THEN s ELSE PairStep(s, evts[k])) \in Seq(Pair)
  <2>1. evts[k] \in Event
    OBVIOUS
  <2> QED
    BY <2>1, PairStepTyped
<1> QED
  BY <1>1 DEF PairMoves

LEMMA PairRuns ==
    ASSUME NEW evts \in Seq(Event), NEW from
    PROVE  /\ IsRun(Paired(evts, from), Len(evts), <<>>, Seq(Pair), PairMoves(evts, from))
           /\ \A k \in 0 .. Len(evts) : Paired(evts, from)[k] \in Seq(Pair)
<1>0. PICK S, none : S = Seq(Pair) /\ none = <<>>
  OBVIOUS
<1> DEFINE n == Len(evts)
           F == PairMoves(evts, from)
<1>1. n \in Nat /\ F \in [1 .. n -> [S -> S]] /\ none \in S
  BY <1>0, PairMovesTyped
<1>2. \A k \in 1 .. n : \A s \in S :
        F[k][s] = IF evts[k].at < from THEN s ELSE PairStep(s, evts[k])
  BY <1>0 DEF PairMoves
<1> HIDE DEF n, F
<1>3. PICK h : IsRun(h, n, none, S, F)
  BY <1>1, RunExists
<1>4. \A k \in 0 .. n : h[k] \in S
  BY <1>1, <1>3, RunsAgree
<1>5. PICK g : g = [k \in 0 .. n |-> h[k]]
  OBVIOUS
<1>6. ASSUME NEW k \in 0 .. n PROVE g[k] = PairBody(evts, from, g, k)
  <2>1. CASE k = 0
    BY <1>0, <1>1, <1>3, <1>5, <2>1 DEF IsRun, PairBody
  <2>2. CASE k # 0
    <3>1. k \in 1 .. n /\ k - 1 \in 0 .. n
      BY <1>1, <2>2
    <3>2. h[k - 1] \in S /\ g[k] = h[k] /\ g[k - 1] = h[k - 1]
      BY <1>4, <1>5, <3>1
    <3>3. h[k] = F[k][h[k - 1]]
      BY <1>3, <3>1, <3>2 DEF IsRun
    <3>4. h[k] = IF evts[k].at < from THEN h[k - 1] ELSE PairStep(h[k - 1], evts[k])
      BY <1>2, <3>1, <3>2, <3>3
    <3> QED
      BY <2>2, <3>2, <3>4 DEF PairBody
  <2> QED
    BY <2>1, <2>2
<1>7. g = [k \in 0 .. n |-> PairBody(evts, from, g, k)]
  BY <1>5, <1>6
<1>8. ArePaired(evts, from, Paired(evts, from))
  BY <1>7 DEF ArePaired, Paired, n
<1> DEFINE p == Paired(evts, from)
<1>9. \A k \in 0 .. n : p[k] = PairBody(evts, from, p, k)
  BY <1>8 DEF ArePaired, n
<1> HIDE DEF p
<1>10. IsRun(p, n, none, S, F)
  <2>1. p[0] = none
    BY <1>0, <1>1, <1>9 DEF PairBody
  <2>2. ASSUME NEW k \in 1 .. n, p[k - 1] \in S PROVE p[k] = F[k][p[k - 1]]
    <3>1. k \in 0 .. n /\ k # 0
      BY <1>1
    <3> QED
      BY <1>2, <1>9, <2>2, <3>1 DEF PairBody
  <2> QED
    BY <2>1, <2>2 DEF IsRun
<1>11. \A k \in 0 .. n : p[k] \in S
  BY <1>1, <1>10, RunsAgree
<1> QED
  BY <1>0, <1>10, <1>11 DEF p, n, F

LEMMA PairsTyped ==
    ASSUME NEW evts \in Seq(Event), NEW from
    PROVE  PairPauseEvents(evts, from) \in Seq(Pair)
<1>1. Len(evts) \in 0 .. Len(evts)
  OBVIOUS
<1> QED
  BY <1>1, PairRuns, PairsArePaired

LEMMA PairsEmpty ==
    ASSUME NEW from PROVE PairPauseEvents(<<>>, from) = <<>>
<1>1. IsRun(Paired(<<>>, from), Len(<<>>), <<>>, Seq(Pair), PairMoves(<<>>, from))
  <2>1. <<>> \in Seq(Event)
    OBVIOUS
  <2> QED
    BY <2>1, PairRuns
<1>2. Len(<<>>) = 0
  OBVIOUS
<1> QED
  BY <1>1, <1>2, PairsArePaired DEF IsRun

LEMMA PairsAppend ==
    ASSUME NEW evts \in Seq(Event), NEW e \in Event, NEW from
    PROVE  PairPauseEvents(Append(evts, e), from) =
             IF e.at < from THEN PairPauseEvents(evts, from)
             ELSE PairStep(PairPauseEvents(evts, from), e)
<1>0. PICK S, none : S = Seq(Pair) /\ none = <<>>
  OBVIOUS
<1> DEFINE n == Len(evts)
<1>1. PICK more : more = Append(evts, e)
  OBVIOUS
<1>2. /\ more \in Seq(Event) /\ n \in Nat /\ Len(more) = n + 1 /\ more[n + 1] = e
      /\ \A k \in 1 .. n : more[k] = evts[k]
  BY <1>1
<1>3. PICK h, g : h = Paired(evts, from) /\ g = Paired(more, from)
  OBVIOUS
<1> DEFINE F == PairMoves(evts, from)
           G == PairMoves(more, from)
<1>4. F \in [1 .. n -> [S -> S]] /\ none \in S
  BY <1>0, PairMovesTyped
<1>5. \A k \in 1 .. n : G[k] = F[k]
  <2> TAKE k \in 1 .. n
  <2>1. PICK x : x = evts[k]
    OBVIOUS
  <2>2. k \in 1 .. Len(more) /\ k \in 1 .. Len(evts) /\ more[k] = x
    BY <1>2, <2>1
  <2>3. /\ F[k] = [s \in Seq(Pair) |-> IF x.at < from THEN s ELSE PairStep(s, x)]
        /\ G[k] = [s \in Seq(Pair) |-> IF x.at < from THEN s ELSE PairStep(s, x)]
    BY <2>1, <2>2 DEF PairMoves
  <2> QED
    BY <2>3
<1>6. IsRun(h, n, none, S, F) /\ IsRun(g, n + 1, none, S, G)
  BY <1>0, <1>2, <1>3, PairRuns
<1>7. \A s \in S : G[n + 1][s] = IF e.at < from THEN s ELSE PairStep(s, e)
  BY <1>0, <1>2 DEF PairMoves
<1> HIDE DEF n, F, G
<1>8. IsRun(g, n, none, S, F)
  BY <1>2, <1>5, <1>6 DEF IsRun
<1>9. n \in Nat /\ n \in 0 .. n /\ n + 1 \in 1 .. n + 1 /\ (n + 1) - 1 = n
  BY <1>2
<1>10. g[n] = h[n] /\ h[n] \in S
  <2>1. \A k \in 0 .. n : g[k] = h[k] /\ g[k] \in S
    <3>1. n \in Nat
      BY <1>2
    <3>2. IsRun(h, n, none, S, F)
      BY <1>6
    <3> QED
      BY <1>4, <1>8, <3>1, <3>2, RunsAgree
  <2> QED
    BY <1>9, <2>1
<1>11. g[n + 1] = G[n + 1][g[n]]
  BY <1>6, <1>9, <1>10 DEF IsRun
<1>12. PairPauseEvents(evts, from) = h[n] /\ PairPauseEvents(more, from) = g[n + 1]
  BY <1>2, <1>3, PairsArePaired DEF n
<1> QED
  BY <1>1, <1>7, <1>10, <1>11, <1>12
-----------------------------------------------------------------------------
\* The reporter's total: the pauses announced since the instant `cut`, of each
\* what lies in the window that begins at `from`.
Spans(ps, from, to) == [i \in 1 .. Len(ps) |-> CountedSpan(ps[i], from, to)]
PausedSince(from) == {t \in pausedAt : t >= from}
Running == [pausedAt |-> trippedAt, expiry |-> pause.pauseExpiry, resumedAt |-> None]

\* Every pair but the running pause has ended, and the sum is right; a running
\* pause that began before the cut is not among the pairs, and leaves none.
Fits(ps, cut, from) ==
    /\ \A i \in 1 .. Len(ps) :
          /\ cut <= ps[i].pausedAt /\ ps[i].pausedAt <= now
          /\ RealEnd(ps[i]) <= now \/ (Status /\ i = Len(ps))
    /\ Status /\ cut <= trippedAt => ps # <<>> /\ ps[Len(ps)] = Running
    /\ Status /\ trippedAt < cut => ps = <<>>
    /\ Added(Spans(ps, from, now)) <= Cardinality(PausedSince(from))
    /\ cut - 1 \notin pausedAt => Added(Spans(ps, from, now)) = Cardinality(PausedSince(from))

StatsInv ==
    /\ pausedAt \subseteq 0 .. now - 1
    /\ Status => trippedAt .. now - 1 \subseteq pausedAt
    /\ \A cut \in Int : cut > now => PairPauseEvents(events, cut) = <<>>
    /\ quirks = {} =>
         \A cut \in Int, from \in 0 .. now :
            cut <= from => Fits(PairPauseEvents(events, cut), cut, from)

LEMMA TwoOf ==
    ASSUME NEW a \in Int, NEW b \in Int
    PROVE  /\ Max({a, b}) = IF a >= b THEN a ELSE b
           /\ Min({a, b}) = IF a <= b THEN a ELSE b
<1>1. /\ Max({a, b}) \in {a, b} /\ Max({a, b}) >= a /\ Max({a, b}) >= b
  <2> DEFINE m == IF a >= b THEN a ELSE b
  <2>1. m \in {a, b} /\ \A y \in {a, b} : m >= y
    OBVIOUS
  <2>2. \E x \in {a, b} : \A y \in {a, b} : x >= y
    BY <2>1
  <2> QED
    BY <2>2 DEF Max
<1>2. /\ Min({a, b}) \in {a, b} /\ Min({a, b}) <= a /\ Min({a, b}) <= b
  <2> DEFINE m == IF a <= b THEN a ELSE b
  <2>1. m \in {a, b} /\ \A y \in {a, b} : m <= y
    OBVIOUS
  <2>2. \E x \in {a, b} : \A y \in {a, b} : x <= y
    BY <2>1
  <2> QED
    BY <2>2 DEF Min
<1> QED
  BY <1>1, <1>2

LEMMA PairTyped ==
    ASSUME NEW p \in Pair
    PROVE  p.pausedAt \in Nat /\ p.expiry \in Nat /\ RealEnd(p) \in Nat
  BY DEF Pair, RealEnd

\* A pause is counted from its beginning, or that of the window, to its end, or
\* to now.
Begun(p, from) == IF p.pausedAt >= from THEN p.pausedAt ELSE from

LEMMA SpanInside ==
    ASSUME NEW p \in Pair, NEW from \in Nat, NEW to \in Nat, from <= to, p.pausedAt <= to
    PROVE  /\ CountedSpan(p, from, to) \in Nat
           /\ Begun(p, from) \in Nat /\ Begun(p, from) <= to
           /\ RealEnd(p) >= to => CountedSpan(p, from, to) = to - Begun(p, from)
           /\ RealEnd(p) <= to =>
                CountedSpan(p, from, to) =
                  IF RealEnd(p) <= Begun(p, from) THEN 0 ELSE RealEnd(p) - Begun(p, from)
<1>1. p.pausedAt \in Nat /\ RealEnd(p) \in Nat
  BY PairTyped
<1>2. PICK start \in Nat : /\ start = Max({p.pausedAt, from}) /\ start = Begun(p, from)
                          /\ start <= to
  BY <1>1, TwoOf DEF Begun
<1>3. PICK end \in Nat : /\ end = Min({RealEnd(p), to})
                        /\ end = IF RealEnd(p) <= to THEN RealEnd(p) ELSE to
  BY <1>1, TwoOf
<1>4. CountedSpan(p, from, to) = IF end <= start THEN 0 ELSE end - start
  BY <1>2, <1>3 DEF CountedSpan
<1> QED
  BY <1>1, <1>2, <1>3, <1>4

LEMMA SpansTyped ==
    ASSUME IInv, NEW ps \in Seq(Pair), NEW cut \in Int, NEW from \in 0 .. now,
           Fits(ps, cut, from)
    PROVE  /\ Len(ps) \in Nat /\ IsFiniteSet(1 .. Len(ps))
           /\ Spans(ps, from, now) \in [1 .. Len(ps) -> Int]
           /\ \A i \in 1 .. Len(ps) :
                /\ Spans(ps, from, now)[i] = CountedSpan(ps[i], from, now)
                /\ ps[i] \in Pair /\ ps[i].pausedAt \in Nat /\ RealEnd(ps[i]) \in Nat
                /\ cut <= ps[i].pausedAt /\ ps[i].pausedAt <= now
<1>1. now \in Nat /\ Len(ps) \in Nat /\ IsFiniteSet(1 .. Len(ps)) /\ from \in Nat /\ from <= now
  BY FS_Interval DEF IInv, TypeOK
<1>2. ASSUME NEW i \in 1 .. Len(ps)
      PROVE  /\ ps[i] \in Pair /\ ps[i].pausedAt \in Nat /\ RealEnd(ps[i]) \in Nat
             /\ cut <= ps[i].pausedAt /\ ps[i].pausedAt <= now
             /\ CountedSpan(ps[i], from, now) \in Int
  <2>1. ps[i] \in Pair
    OBVIOUS
  <2>2. cut <= ps[i].pausedAt /\ ps[i].pausedAt <= now
    BY DEF Fits
  <2>3. PICK p \in Pair : p = ps[i]
    BY <2>1
  <2>4. p.pausedAt <= now /\ p.pausedAt \in Nat /\ RealEnd(p) \in Nat
    BY <2>2, <2>3, PairTyped
  <2>5. CountedSpan(p, from, now) \in Nat
    BY <1>1, <2>4, SpanInside
  <2> QED
    BY <2>1, <2>2, <2>3, <2>4, <2>5
<1> QED
  BY <1>1, <1>2 DEF Spans

LEMMA PausedFinite ==
    ASSUME IInv, StatsInv, NEW from \in Nat
    PROVE  /\ IsFiniteSet(PausedSince(from)) /\ now \notin PausedSince(from)
           /\ Cardinality(PausedSince(from) \cup {now}) = Cardinality(PausedSince(from)) + 1
           /\ Cardinality(PausedSince(from)) \in Nat
<1>1. now \in Nat /\ IsFiniteSet(0 .. now - 1)
  BY FS_Interval DEF IInv, TypeOK
<1>2. PausedSince(from) \in SUBSET (0 .. now - 1)
  BY DEF PausedSince, StatsInv
<1>3. IsFiniteSet(PausedSince(from)) /\ now \notin PausedSince(from)
  BY <1>1, <1>2, FS_Subset
<1> QED
  BY <1>3, FS_AddElement, FS_CardinalityType

LEMMA NothingSums ==
    ASSUME NEW from, NEW to
    PROVE  Added(Spans(<<>>, from, to)) = 0
<1>1. 1 .. Len(<<>>) = {}
  OBVIOUS
<1>2. Spans(<<>>, from, to) = [i \in {} |-> 0]
  BY <1>1 DEF Spans
<1> QED
  BY <1>2, AddedZero, FS_EmptySet
\* A ledger later the running pause is counted for one instant more.
LEMMA TickFits ==
    ASSUME IInv, StatsInv, RecordTick, NEW ps \in Seq(Pair),
           NEW cut \in Int, NEW from \in 0 .. now, cut <= from, Fits(ps, cut, from)
    PROVE  Fits(ps, cut, from)'
<1> DEFINE n == Len(ps)
           before == Spans(ps, from, now)
           after == Spans(ps, from, now + 1)
<1>1. /\ now \in Nat /\ now' = now + 1 /\ UNCHANGED <<pause, trippedAt>>
      /\ pausedAt' = IF Status THEN pausedAt \cup {now} ELSE pausedAt
      /\ from \in Nat /\ from <= now
  BY DEF RecordTick, Tick, IInv, TypeOK
<1>2. /\ n \in Nat /\ IsFiniteSet(1 .. n) /\ before \in [1 .. n -> Int]
      /\ \A i \in 1 .. n : /\ before[i] = CountedSpan(ps[i], from, now)
                           /\ ps[i] \in Pair /\ ps[i].pausedAt \in Nat /\ RealEnd(ps[i]) \in Nat
                           /\ cut <= ps[i].pausedAt /\ ps[i].pausedAt <= now
  BY SpansTyped
<1>3. ASSUME NEW i \in 1 .. n
      PROVE  /\ after[i] = CountedSpan(ps[i], from, now + 1) /\ after[i] \in Int
             /\ RealEnd(ps[i]) <= now => after[i] = before[i]
             /\ RealEnd(ps[i]) > now => after[i] = before[i] + 1
  <2>1. after[i] = CountedSpan(ps[i], from, now + 1)
    BY DEF Spans
  <2>2. PICK p \in Pair : p = ps[i]
    BY <1>2
  <2>3. p.pausedAt \in Nat /\ RealEnd(p) \in Nat /\ p.pausedAt <= now
    BY <1>2, <2>2
  <2>4. before[i] = CountedSpan(p, from, now)
    BY <1>2, <2>2
  <2>5. /\ CountedSpan(p, from, now + 1) \in Nat
        /\ RealEnd(p) >= now + 1 => CountedSpan(p, from, now + 1) = (now + 1) - Begun(p, from)
        /\ RealEnd(p) <= now + 1 =>
             CountedSpan(p, from, now + 1) =
               IF RealEnd(p) <= Begun(p, from) THEN 0 ELSE RealEnd(p) - Begun(p, from)
    <3>1. now + 1 \in Nat /\ p.pausedAt <= now + 1 /\ from <= now + 1
      BY <1>1, <2>3
    <3> QED
      BY <1>1, <2>3, <3>1, SpanInside
  <2>6. /\ CountedSpan(p, from, now) \in Nat
        /\ Begun(p, from) \in Nat /\ Begun(p, from) <= now
        /\ RealEnd(p) >= now => CountedSpan(p, from, now) = now - Begun(p, from)
        /\ RealEnd(p) <= now =>
             CountedSpan(p, from, now) =
               IF RealEnd(p) <= Begun(p, from) THEN 0 ELSE RealEnd(p) - Begun(p, from)
    BY <1>1, <2>3, SpanInside
  <2> HIDE DEF before, after
  <2> QED
    BY <1>1, <2>1, <2>2, <2>3, <2>4, <2>5, <2>6
<1>4. after \in [1 .. n -> Int]
  BY <1>3 DEF Spans
<1>5. Spans(ps, from, now)' = after
  BY <1>1 DEF Spans, CountedSpan, RealEnd
<1>6. /\ \A i \in 1 .. n : RealEnd(ps[i]) <= now \/ (Status /\ i = n)
      /\ Status /\ cut <= trippedAt => n # 0 /\ ps[n] = Running
      /\ Status /\ trippedAt < cut => n = 0
      /\ trippedAt \in Int
  BY <1>2 DEF Fits, IInv, TypeOK
<1>7. Status /\ cut <= trippedAt =>
        RealEnd(ps[n]) > now /\ RealEnd(ps[n]) = pause.pauseExpiry /\ n \in 1 .. n
                /\ pause.pauseExpiry \in Nat
  BY <1>1, <1>2, <1>6 DEF Running, RealEnd, Status, IInv, TypeOK, PauseState
<1>8. Status' => Status
  BY <1>1 DEF Status, IInv, TypeOK, PauseState
<1> DEFINE paused == Cardinality(PausedSince(from))
           pausedNow == Cardinality(PausedSince(from)')
<1>9. /\ Added(before) \in Int /\ Added(before) <= paused /\ paused \in Nat
      /\ cut - 1 \notin pausedAt => Added(before) = paused
  BY <1>1, <1>2, AddedInt, PausedFinite DEF Fits
<1>10. /\ Status => pausedNow = paused + 1
       /\ ~Status => pausedNow = paused
  <2>1. Status => PausedSince(from)' = PausedSince(from) \cup {now}
    BY <1>1 DEF PausedSince
  <2>2. ~Status => PausedSince(from)' = PausedSince(from)
    BY <1>1 DEF PausedSince
  <2> QED
    BY <1>1, <2>1, <2>2, PausedFinite
<1>11. /\ Added(after) <= pausedNow
       /\ cut - 1 \notin pausedAt' => Added(after) = pausedNow
  <2>1. CASE Status /\ cut <= trippedAt
    <3>1. \A i \in 1 .. n : i # n => after[i] = before[i]
      BY <1>3, <1>6
    <3>2. after[n] = before[n] + 1 /\ before[n] \in Int
      BY <1>2, <1>3, <1>7, <2>1
    <3>3. Added(after) = Added(before) - before[n] + after[n]
      <4> HIDE DEF before, after, n
      <4> QED
        BY <1>2, <1>4, <1>7, <2>1, <3>1, AddedButOne
    <3>4. Added(after) = Added(before) + 1
      <4> HIDE DEF before, after
      <4> QED
        BY <1>9, <3>2, <3>3
    <3>5. pausedAt \subseteq pausedAt'
      BY <1>1
    <3> HIDE DEF before, after, paused, pausedNow
    <3> QED
      BY <1>9, <1>10, <2>1, <3>4, <3>5
  <2>2. CASE ~Status \/ trippedAt < cut
    <3>1. \A i \in 1 .. n : after[i] = before[i]
      BY <1>1, <1>2, <1>3, <1>6, <2>2
    <3>2. after = before
      <4> HIDE DEF before, after
      <4> QED
        BY <1>2, <1>4, <3>1
    <3>3. CASE ~Status
      <4>1. pausedAt' = pausedAt
        BY <1>1, <3>3
      <4> HIDE DEF before, after, paused, pausedNow
      <4> QED
        BY <1>9, <1>10, <3>2, <3>3, <4>1
    <3>4. CASE Status /\ trippedAt < cut
      <4>1. cut - 1 \in trippedAt .. now - 1
        BY <1>1, <1>6, <3>4
      <4>2. cut - 1 \in pausedAt'
        BY <1>1, <3>4, <4>1 DEF StatsInv
      <4> HIDE DEF before, after, paused, pausedNow
      <4> QED
        BY <1>9, <1>10, <3>2, <3>4, <4>2
    <3> QED
      BY <2>2, <3>3, <3>4
  <2> QED
    BY <1>6, <2>1, <2>2
<1>12. ASSUME NEW i \in 1 .. n
       PROVE  /\ ps[i].pausedAt <= now + 1
              /\ RealEnd(ps[i]) <= now + 1 \/ (Status' /\ i = n)
  <2>1. CASE RealEnd(ps[i]) <= now
    BY <1>1, <1>2, <2>1
  <2>2. CASE Status /\ i = n
    <3>1. ~Status' => pause.pauseExpiry <= now + 1
      BY <1>1, <1>6, <1>7, <2>2 DEF Status
    <3> QED
      BY <1>1, <1>2, <1>6, <1>7, <2>2, <3>1
  <2> QED
    BY <1>6, <2>1, <2>2
<1>13. /\ Status' /\ cut <= trippedAt' => ps # <<>> /\ ps[n] = Running'
       /\ Status' /\ trippedAt' < cut => ps = <<>>
  BY <1>1, <1>2, <1>6, <1>8 DEF Running
<1>14. PausedSince(from)' = {t \in pausedAt' : t >= from}
  BY DEF PausedSince
<1> QED
  BY <1>1, <1>2, <1>5, <1>11, <1>12, <1>13, <1>14 DEF Fits, RealEnd, PausedSince

LEMMA TickStats ==
    ASSUME IInv, EventsInv, StatsInv, RecordTick
    PROVE  StatsInv'
<1>1. /\ now \in Nat /\ now' = now + 1 /\ UNCHANGED <<pause, trippedAt, events, quirks>>
      /\ pausedAt' = IF Status THEN pausedAt \cup {now} ELSE pausedAt
  BY DEF RecordTick, Tick, IInv, TypeOK
<1>2. Status' => Status
  BY <1>1 DEF Status, IInv, TypeOK, PauseState
<1>3. pausedAt' \subseteq 0 .. now' - 1
  BY <1>1 DEF StatsInv
<1>4. Status' => trippedAt' .. now' - 1 \subseteq pausedAt'
  BY <1>1, <1>2 DEF StatsInv, IInv, TypeOK
<1>5. \A cut \in Int : cut > now' => PairPauseEvents(events', cut) = <<>>
  BY <1>1 DEF StatsInv
<1>6. ASSUME quirks' = {}, NEW cut \in Int, NEW from \in 0 .. now', cut <= from
      PROVE  Fits(PairPauseEvents(events, cut), cut, from)'
  <2>1. PICK ps \in Seq(Pair) : ps = PairPauseEvents(events, cut)
    BY PairsTyped DEF EventsInv
  <2>2. events' = events /\ quirks = {} /\ from \in Nat
    BY <1>1, <1>6
  <2>3. CASE from <= now
    <3>1. Fits(ps, cut, from)
      BY <1>1, <1>6, <2>1, <2>2, <2>3 DEF StatsInv
    <3>2. Fits(ps, cut, from)'
      BY <1>1, <1>6, <2>2, <2>3, <3>1, TickFits
    <3> QED
      BY <2>1, <2>2, <3>2 DEF Fits, Spans
  <2>4. CASE from = now + 1 /\ cut <= now
    <3>1. now \in 0 .. now
      BY <1>1
    <3>2. Fits(ps, cut, now)
      BY <1>1, <1>6, <2>1, <2>2, <2>4, <3>1 DEF StatsInv
    <3>3. \A w \in 0 .. now : cut <= w /\ Fits(ps, cut, w) => Fits(ps, cut, w)'
      BY <1>1, <1>6, TickFits
    <3>4. PICK w \in Nat : w = now
      BY <1>1
    <3>5. Fits(ps, cut, w)'
      BY <2>4, <3>1, <3>2, <3>3, <3>4
    <3>6. Added(Spans(ps, from, now')) = 0
      <4>1. ASSUME NEW i \in 1 .. Len(ps) PROVE CountedSpan(ps[i], from, now') = 0
        <5>1. PICK q \in Pair : q = ps[i]
          BY <4>1
        <5>2. q.pausedAt <= now'
          BY <3>5, <4>1, <5>1 DEF Fits
        <5>3. from = now' /\ from \in Nat
          BY <1>1, <2>4
        <5>4. PICK to \in Nat : to = now' /\ from = to /\ from <= to
          BY <5>3
        <5>5. q.pausedAt \in Nat /\ RealEnd(q) \in Nat /\ q.pausedAt <= to
          BY <5>2, <5>4, PairTyped
        <5>6. /\ Begun(q, from) = to
              /\ RealEnd(q) >= to => CountedSpan(q, from, to) = to - Begun(q, from)
              /\ RealEnd(q) <= to =>
                   CountedSpan(q, from, to) =
                     IF RealEnd(q) <= Begun(q, from) THEN 0 ELSE RealEnd(q) - Begun(q, from)
          BY <5>4, <5>5, SpanInside DEF Begun
        <5>7. CountedSpan(q, from, to) = 0
          BY <5>5, <5>6
        <5> QED
          BY <5>1, <5>4, <5>7
      <4>2. Spans(ps, from, now') = [i \in 1 .. Len(ps) |-> 0]
        BY <4>1 DEF Spans
      <4>3. IsFiniteSet(1 .. Len(ps))
        BY FS_Interval
      <4> QED
        BY <4>2, <4>3, AddedZero
    <3>7. PausedSince(from)' = {} /\ Cardinality({}) = 0
      <4>1. \A t \in pausedAt' : t \in Int /\ t <= now
        BY <1>1, <1>3
      <4>2. \A t \in pausedAt' : ~ (t >= from)
        BY <1>1, <2>4, <4>1
      <4> QED
        BY <4>2, FS_EmptySet DEF PausedSince
    <3> QED
      BY <2>1, <2>2, <3>5, <3>6, <3>7 DEF Fits, Spans
  <2>5. CASE cut = now + 1
    <3>1. ps = <<>> /\ from = now + 1
      BY <1>1, <1>6, <2>1, <2>5 DEF StatsInv
    <3>2. Status' => trippedAt' < cut
      BY <1>1, <1>2, <2>5, NoneAssumption DEF IInv, TypeOK, RecordInv, Status
    <3>3. PausedSince(from)' = {}
      <4>1. \A t \in pausedAt' : t \in Int /\ t <= now
        BY <1>1, <1>3
      <4>2. \A t \in pausedAt' : ~ (t >= from)
        BY <1>1, <3>1, <4>1
      <4> QED
        BY <4>2 DEF PausedSince
    <3>4. Added(Spans(<<>>, from, now')) = 0
      BY NothingSums
    <3>5. 1 .. Len(<<>>) = {} /\ Cardinality({}) = 0
      BY FS_EmptySet
    <3>6. ~ (cut <= trippedAt' /\ trippedAt' < cut)
      BY <1>1 DEF IInv, TypeOK
    <3>7. PairPauseEvents(events', cut) = <<>>
      BY <2>1, <2>2, <3>1
    <3> QED
      BY <2>2, <3>2, <3>3, <3>4, <3>5, <3>6, <3>7 DEF Fits, Spans
  <2> QED
    BY <1>1, <1>6, <2>3, <2>4, <2>5
<1> QED
  BY <1>3, <1>4, <1>5, <1>6 DEF StatsInv
\* One more event at this instant: a window that begins later does not have it.
LEMMA OneMoreEvent ==
    ASSUME now \in Nat, events \in Seq(Event), NEW e \in Event, e.at = now,
           events' = Append(events, e)
    PROVE  /\ \A from \in Int : from > now =>
                /\ PairPauseEvents(events', from) = PairPauseEvents(events, from)
                /\ Replay(events', from) = Replay(events, from)
           /\ \A from \in Int : from <= now =>
                /\ PairPauseEvents(events', from) = PairStep(PairPauseEvents(events, from), e)
                /\ Replay(events', from) = ReplayStep(Replay(events, from), e)
<1> SUFFICES ASSUME NEW from \in Int
             PROVE  /\ from > now =>
                         /\ PairPauseEvents(events', from) = PairPauseEvents(events, from)
                         /\ Replay(events', from) = Replay(events, from)
                    /\ from <= now =>
                         /\ PairPauseEvents(events', from) = PairStep(PairPauseEvents(events, from), e)
                         /\ Replay(events', from) = ReplayStep(Replay(events, from), e)
  OBVIOUS
<1>1. (from > now <=> e.at < from) /\ (from <= now <=> ~ (e.at < from))
  OBVIOUS
<1> QED
  BY <1>1, PairsAppend, ReplayAppend

\* What each call publishes.
LEMMA PausePublishes ==
    ASSUME IInv, EventsInv, NEW g \in Accounts, RecordPause(g)
    PROVE  \E e \in Event :
             /\ e.type = "paused" /\ e.at = now /\ e.expiry = pause'.pauseExpiry
             /\ events' = Append(events, e) /\ events \in Seq(Event) /\ pausedAt' = pausedAt
             /\ quirks' = {} => quirks = {} /\ ~Status
             /\ quirks \subseteq quirks'
<1>1. now \in Nat /\ pause'.pauseExpiry \in Nat
  BY PauseNowTyped, DurationAssumption DEF RecordPause, Pause, IInv, TypeOK
<1>2. PICK e : e = [type |-> "paused", at |-> now, expiry |-> pause'.pauseExpiry]
  OBVIOUS
<1>3. e \in Event /\ e.type = "paused" /\ e.at = now /\ e.expiry = pause'.pauseExpiry
  BY <1>1, <1>2 DEF Event
<1>4. /\ events' = Append(events, e) /\ pausedAt' = pausedAt
      /\ quirks' = IF Status THEN quirks \cup {"retrigger"} ELSE quirks
  BY <1>2 DEF RecordPause, Publish
<1> QED
  BY <1>3, <1>4 DEF EventsInv

LEMMA ResumePublishes ==
    ASSUME IInv, EventsInv, NEW a \in Accounts, RecordResume(a)
    PROVE  \E e \in Event :
             /\ e.type = "resumed" /\ e.at = now
             /\ events' = Append(events, e) /\ events \in Seq(Event) /\ pausedAt' = pausedAt
             /\ quirks' = {} => quirks = {} /\ Status
             /\ "late resume" \notin quirks' => "late resume" \notin quirks /\ Status
             /\ quirks \subseteq quirks'
<1>1. now \in Nat
  BY DEF IInv, TypeOK
<1>2. PICK e : e = [type |-> "resumed", at |-> now, expiry |-> 0]
  OBVIOUS
<1>3. e \in Event /\ e.type = "resumed" /\ e.at = now
  BY <1>1, <1>2 DEF Event
<1>4. /\ events' = Append(events, e) /\ pausedAt' = pausedAt
      /\ quirks' = IF ~Status THEN quirks \cup {"late resume"} ELSE quirks
  BY <1>2 DEF RecordResume, Publish
<1> QED
  BY <1>3, <1>4 DEF EventsInv

LEMMA ExtendPublishes ==
    ASSUME IInv, EventsInv, NEW a \in Accounts, RecordExtend(a)
    PROVE  \E e \in Event :
             /\ e.type = "extended" /\ e.at = now /\ e.expiry = pause'.pauseExpiry
             /\ events' = Append(events, e) /\ events \in Seq(Event) /\ pausedAt' = pausedAt
             /\ quirks' # {} /\ quirks \subseteq quirks'
<1>1. now \in Nat /\ pause'.pauseExpiry \in Nat
  BY ExtendRecord, DurationAssumption DEF RecordExtend, IInv, TypeOK
<1>2. PICK e : e = [type |-> "extended", at |-> now, expiry |-> pause'.pauseExpiry]
  OBVIOUS
<1>3. e \in Event /\ e.type = "extended" /\ e.at = now /\ e.expiry = pause'.pauseExpiry
  BY <1>1, <1>2 DEF Event
<1>4. /\ events' = Append(events, e) /\ pausedAt' = pausedAt
      /\ quirks' = quirks \cup {"extension"}
  BY <1>2 DEF RecordExtend, Publish
<1> QED
  BY <1>3, <1>4 DEF EventsInv

\* A new pause: a pair of its own, of which nothing is over yet.
LEMMA PauseFits ==
    ASSUME IInv, StatsInv, NEW g \in Accounts, Pause(g), pausedAt' = pausedAt, ~Status,
           NEW ps \in Seq(Pair), NEW cut \in Int, NEW from \in 0 .. now, cut <= from,
           Fits(ps, cut, from), NEW qs,
           qs = Append(ps, [pausedAt |-> now, expiry |-> pause'.pauseExpiry, resumedAt |-> None])
    PROVE  Fits(qs, cut, from)'
<1> DEFINE n == Len(ps)
           before == Spans(ps, from, now)
           after == Spans(qs, from, now)
<1>1. /\ now \in Nat /\ now' = now /\ trippedAt' = now
      /\ from \in Nat /\ from <= now
      /\ pause'.pauseExpiry = now + MaxPauseDuration /\ MaxPauseDuration \in Nat
  BY PauseNowTyped, DurationAssumption DEF Pause, IInv, TypeOK
<1>2. PICK p : p = [pausedAt |-> now, expiry |-> pause'.pauseExpiry, resumedAt |-> None]
  OBVIOUS
<1>3. /\ p \in Pair /\ p.pausedAt = now /\ RealEnd(p) = pause'.pauseExpiry /\ RealEnd(p) >= now
      /\ p = Running'
  BY <1>1, <1>2 DEF Pair, RealEnd, Running
<1>4. /\ n \in Nat /\ IsFiniteSet(1 .. n) /\ before \in [1 .. n -> Int]
      /\ \A i \in 1 .. n : /\ before[i] = CountedSpan(ps[i], from, now)
                           /\ ps[i] \in Pair /\ ps[i].pausedAt \in Nat /\ RealEnd(ps[i]) \in Nat
                           /\ cut <= ps[i].pausedAt /\ ps[i].pausedAt <= now
  BY SpansTyped
<1>5. /\ Len(qs) = n + 1 /\ qs[n + 1] = p /\ \A i \in 1 .. n : qs[i] = ps[i]
  BY <1>2, <1>3
<1>6. CountedSpan(p, from, now) = 0
  <2>1. Begun(p, from) = now
    BY <1>1, <1>3 DEF Begun
  <2>2. CountedSpan(p, from, now) = now - Begun(p, from)
    <3>1. p.pausedAt <= now
      BY <1>1, <1>3
    <3> QED
      BY <1>1, <1>3, <3>1, SpanInside
  <2> QED
    BY <1>1, <2>1, <2>2
<1>7. /\ after \in [1 .. n + 1 -> Int] /\ after[n + 1] = 0
      /\ \A i \in 1 .. n : after[i] = before[i]
  <2>1. n + 1 \in 1 .. n + 1 /\ \A i \in 1 .. n + 1 : i \in 1 .. n \/ i = n + 1
    BY <1>4
  <2>2. \A i \in 1 .. n : qs[i] = ps[i] /\ CountedSpan(ps[i], from, now) \in Int
    BY <1>4, <1>5
  <2>3. after = [i \in 1 .. n + 1 |-> CountedSpan(qs[i], from, now)]
    BY <1>5 DEF Spans
  <2>4. \A i \in 1 .. n : after[i] = before[i]
    <3> HIDE DEF before, after
    <3> QED
      BY <1>4, <2>2, <2>3
  <2>5. after[n + 1] = 0
    BY <1>5, <1>6, <2>1, <2>3
  <2>6. \A i \in 1 .. n + 1 : CountedSpan(qs[i], from, now) \in Int
    BY <1>5, <1>6, <2>1, <2>2
  <2> HIDE DEF after
  <2> QED
    BY <2>3, <2>4, <2>5, <2>6
<1>8. Added(after) = Added(before)
  <2>1. Added(before) \in Int
    BY <1>4, AddedInt
  <2>2. Added(after) = Added(before) + after[n + 1]
    <3> HIDE DEF before, after, n
    <3> QED
      BY <1>4, <1>7, AddedLast
  <2> QED
    BY <1>7, <2>1, <2>2
<1>9. Spans(qs, from, now)' = after /\ PausedSince(from)' = PausedSince(from)
  BY <1>1 DEF Spans, PausedSince
<1>10. /\ Added(before) <= Cardinality(PausedSince(from))
       /\ cut - 1 \notin pausedAt => Added(before) = Cardinality(PausedSince(from))
       /\ \A i \in 1 .. n : RealEnd(ps[i]) <= now
  BY DEF Fits
<1>11. Status'
  <2>1. pause' \in PauseState /\ pause'.paused = TRUE
    BY <1>1, PauseNowTyped DEF Pause
  <2>2. MaxPauseDuration > 0
    BY DurationAssumption
  <2> QED
    BY <1>1, <2>1, <2>2, NoneAssumption DEF Status
<1>12. ASSUME NEW i \in 1 .. n + 1
       PROVE  /\ cut <= qs[i].pausedAt /\ qs[i].pausedAt <= now
              /\ RealEnd(qs[i]) <= now \/ i = n + 1
  <2>1. CASE i \in 1 .. n
    BY <1>4, <1>5, <1>10, <2>1
  <2>2. CASE i = n + 1
    BY <1>1, <1>3, <1>5, <2>2
  <2> QED
    BY <1>4, <2>1, <2>2
<1>13. qs # <<>>
  BY <1>4, <1>5
<1>14. ~ (trippedAt' < cut)
  BY <1>1
<1> QED
  BY <1>1, <1>3, <1>5, <1>8, <1>9, <1>10, <1>11, <1>12, <1>13, <1>14 DEF Fits

LEMMA PauseStats ==
    ASSUME IInv, EventsInv, StatsInv, NEW g \in Accounts, RecordPause(g)
    PROVE  StatsInv'
<1>1. /\ Pause(g) /\ now' = now /\ now \in Nat /\ trippedAt' = now
  BY DEF RecordPause, Pause, IInv, TypeOK
<1>2. PICK e \in Event :
        /\ e.type = "paused" /\ e.at = now /\ e.expiry = pause'.pauseExpiry
        /\ events' = Append(events, e) /\ events \in Seq(Event) /\ pausedAt' = pausedAt
        /\ quirks' = {} => quirks = {} /\ ~Status
  BY PausePublishes
<1>3. /\ \A from \in Int : from > now =>
             PairPauseEvents(events', from) = PairPauseEvents(events, from)
      /\ \A from \in Int : from <= now =>
             PairPauseEvents(events', from) = PairStep(PairPauseEvents(events, from), e)
  BY <1>1, <1>2, OneMoreEvent
<1>4. ASSUME quirks' = {}, NEW cut \in Int, NEW from \in 0 .. now', cut <= from
      PROVE  Fits(PairPauseEvents(events, cut), cut, from)'
  <2>1. from \in 0 .. now /\ cut <= from /\ cut <= now /\ ~ (trippedAt' < cut /\ Status') /\ quirks = {} /\ ~Status
    BY <1>1, <1>2, <1>4
  <2>2. PICK ps \in Seq(Pair) : ps = PairPauseEvents(events, cut)
    BY <1>2, PairsTyped
  <2>3. PICK qs : qs = PairPauseEvents(events', cut)
    OBVIOUS
  <2>4. qs = Append(ps, [pausedAt |-> now, expiry |-> pause'.pauseExpiry, resumedAt |-> None])
    BY <1>2, <1>3, <2>1, <2>2, <2>3, PairStepPaused
  <2>5. Fits(ps, cut, from)
    BY <2>1, <2>2 DEF StatsInv
  <2>6. Fits(qs, cut, from)'
    BY <1>1, <1>2, <2>1, <2>4, <2>5, PauseFits
  <2> QED
    BY <2>3, <2>6 DEF Fits, Spans
<1>5. trippedAt' .. now' - 1 = {}
  BY <1>1
<1>6. pausedAt' \subseteq 0 .. now' - 1
  BY <1>1, <1>2 DEF StatsInv
<1>7. \A cut \in Int : cut > now' => PairPauseEvents(events', cut) = <<>>
  BY <1>1, <1>3 DEF StatsInv
<1> QED
  BY <1>4, <1>5, <1>6, <1>7 DEF StatsInv
\* A release: the running pause has ended at this instant.
LEMMA ResumeFits ==
    ASSUME IInv, StatsInv, NEW a \in Accounts, ResumeEarly(a), pausedAt' = pausedAt, Status,
           NEW ps \in Seq(Pair), NEW cut \in Int, NEW from \in 0 .. now, cut <= from,
           Fits(ps, cut, from), cut <= trippedAt,
           NEW qs, qs = WithLast(ps, [Last(ps) EXCEPT !.resumedAt = now])
    PROVE  Fits(qs, cut, from)'
<1> DEFINE n == Len(ps)
           before == Spans(ps, from, now)
           after == Spans(qs, from, now)
<1>1. /\ now \in Nat /\ now' = now /\ ~Status' /\ from \in Nat /\ from <= now
      /\ pause.pauseExpiry \in Nat /\ now < pause.pauseExpiry
  BY DEF ResumeEarly, Status, IInv, TypeOK, PauseState
<1>2. /\ n \in Nat /\ IsFiniteSet(1 .. n) /\ before \in [1 .. n -> Int]
      /\ \A i \in 1 .. n : /\ before[i] = CountedSpan(ps[i], from, now)
                           /\ ps[i] \in Pair /\ ps[i].pausedAt \in Nat /\ RealEnd(ps[i]) \in Nat
                           /\ cut <= ps[i].pausedAt /\ ps[i].pausedAt <= now
  BY SpansTyped
<1>3. /\ ps # <<>> /\ ps[n] = Running /\ n \in 1 .. n
      /\ \A i \in 1 .. n : RealEnd(ps[i]) <= now \/ i = n
      /\ Added(before) <= Cardinality(PausedSince(from))
      /\ cut - 1 \notin pausedAt => Added(before) = Cardinality(PausedSince(from))
  BY <1>2 DEF Fits
<1>4. Last(ps) = ps[n] /\ ps[n] \in Pair
  BY <1>3, LastOf
<1>5. PICK p : p = [ps[n] EXCEPT !.resumedAt = now]
  OBVIOUS
<1>6. p \in Pair /\ p.pausedAt = ps[n].pausedAt /\ RealEnd(p) = now
  <2>1. p.resumedAt = now /\ now # None
    BY <1>1, <1>4, <1>5, LookbackAssumption DEF Pair
  <2> QED
    BY <1>1, <1>4, <1>5, <2>1 DEF Pair, RealEnd
<1>7. /\ Len(qs) = n /\ qs[n] = p /\ \A i \in 1 .. n : i # n => qs[i] = ps[i]
  <2>1. qs = WithLast(ps, p)
    BY <1>4, <1>5
  <2>2. \A x \in Pair : /\ Len(WithLast(ps, x)) = Len(ps) /\ WithLast(ps, x)[Len(ps)] = x
                        /\ \A i \in 1 .. Len(ps) : i # Len(ps) => WithLast(ps, x)[i] = ps[i]
    BY <1>3, LastOf
  <2>3. /\ Len(WithLast(ps, p)) = Len(ps) /\ WithLast(ps, p)[Len(ps)] = p
        /\ \A i \in 1 .. Len(ps) : i # Len(ps) => WithLast(ps, p)[i] = ps[i]
    <3>1. p \in Pair
      BY <1>6
    <3> QED
      BY <2>2, <3>1, Zenon
  <2> QED
    BY <2>1, <2>3, Zenon
<1>8. CountedSpan(p, from, now) = CountedSpan(ps[n], from, now)
  <2>1. p.pausedAt <= now
    BY <1>2, <1>3, <1>6
  <2>2. CountedSpan(p, from, now) = now - Begun(p, from)
    BY <1>1, <1>6, <2>1, SpanInside
  <2>3. PICK q \in Pair : q = ps[n]
    BY <1>4
  <2>4. RealEnd(q) >= now
    BY <1>1, <1>3, <2>3 DEF Running, RealEnd
  <2>5. CountedSpan(q, from, now) = now - Begun(q, from)
    <3>1. q.pausedAt <= now
      BY <1>2, <1>3, <2>3
    <3> QED
      BY <1>1, <2>4, <3>1, SpanInside
  <2> QED
    BY <1>6, <2>2, <2>3, <2>5 DEF Begun
<1>9. after = before
  <2>1. \A i \in 1 .. n : CountedSpan(qs[i], from, now) = CountedSpan(ps[i], from, now)
    BY <1>7, <1>8
  <2> QED
    BY <1>7, <2>1 DEF Spans
<1>10. Spans(qs, from, now)' = after /\ PausedSince(from)' = PausedSince(from)
  BY <1>1 DEF Spans, PausedSince
<1>11. ASSUME NEW i \in 1 .. n
       PROVE  cut <= qs[i].pausedAt /\ qs[i].pausedAt <= now /\ RealEnd(qs[i]) <= now
  <2>1. CASE i = n
    <3>1. cut <= p.pausedAt /\ p.pausedAt <= now /\ RealEnd(p) <= now
      BY <1>1, <1>2, <1>3, <1>6
    <3> QED
      BY <1>7, <2>1, <3>1
  <2>2. CASE i # n
    <3>1. cut <= ps[i].pausedAt /\ ps[i].pausedAt <= now /\ RealEnd(ps[i]) <= now
      BY <1>2, <1>3, <2>2
    <3> QED
      BY <1>7, <2>2, <3>1
  <2> QED
    BY <2>1, <2>2
<1> QED
  BY <1>1, <1>3, <1>7, <1>9, <1>10, <1>11 DEF Fits

LEMMA ResumeStats ==
    ASSUME IInv, EventsInv, StatsInv, NEW a \in Accounts, RecordResume(a)
    PROVE  StatsInv'
<1>1. /\ ResumeEarly(a) /\ now' = now /\ now \in Nat /\ pause # None /\ pause \in PauseState
  BY DEF RecordResume, ResumeEarly, IInv, TypeOK
<1>2. ~Status'
  BY <1>1 DEF Status, ResumeEarly, PauseState
<1>0. PICK e \in Event :
        /\ e.type = "resumed" /\ e.at = now /\ events' = Append(events, e)
        /\ events \in Seq(Event) /\ pausedAt' = pausedAt
        /\ quirks' = {} => quirks = {} /\ Status
  BY <1>1, ResumePublishes
<1>3. /\ \A from \in Int : from > now =>
             PairPauseEvents(events', from) = PairPauseEvents(events, from)
      /\ \A from \in Int : from <= now =>
             PairPauseEvents(events', from) = PairStep(PairPauseEvents(events, from), e)
  BY <1>0, <1>1, OneMoreEvent
<1>4. ASSUME quirks' = {}, NEW cut \in Int, NEW from \in 0 .. now', cut <= from
      PROVE  Fits(PairPauseEvents(events, cut), cut, from)'
  <2>1. from \in 0 .. now /\ cut <= from /\ cut <= now /\ quirks = {} /\ Status
    BY <1>0, <1>1, <1>4
  <2>2. PICK ps \in Seq(Pair) : ps = PairPauseEvents(events, cut)
    BY <1>0, PairsTyped
  <2>3. PICK qs : qs = PairPauseEvents(events', cut)
    OBVIOUS
  <2>4. Fits(ps, cut, from)
    BY <2>1, <2>2 DEF StatsInv
  <2>5. CASE cut <= trippedAt
    <3>1. ps # <<>> /\ Last(ps) = Running
      BY <2>1, <2>4, <2>5, LastOf DEF Fits
    <3>2. Last(ps).resumedAt = None
      BY <3>1 DEF Running
    <3>3. qs = WithLast(ps, [Last(ps) EXCEPT !.resumedAt = now])
      BY <1>0, <1>3, <2>1, <2>2, <2>3, <3>1, <3>2, PairStepResumed
    <3>4. Fits(qs, cut, from)'
      BY <1>0, <1>1, <2>1, <2>4, <2>5, <3>3, ResumeFits
    <3> QED
      BY <2>3, <3>4 DEF Fits, Spans
  <2>6. CASE trippedAt < cut
    <3>1. ps = <<>>
      BY <2>1, <2>4, <2>6 DEF Fits
    <3>2. qs = <<>>
      BY <1>0, <1>3, <2>1, <2>2, <2>3, <3>1 DEF PairStep
    <3>3. /\ Added(Spans(<<>>, from, now)) <= Cardinality(PausedSince(from))
          /\ cut - 1 \notin pausedAt =>
               Added(Spans(<<>>, from, now)) = Cardinality(PausedSince(from))
      BY <2>4, <3>1 DEF Fits
    <3>4. 1 .. Len(<<>>) = {}
      OBVIOUS
    <3> QED
      BY <1>0, <1>1, <1>2, <2>3, <3>2, <3>3, <3>4 DEF Fits, Spans, PausedSince
  <2> QED
    BY <2>5, <2>6 DEF IInv, TypeOK
<1>5. pausedAt' \subseteq 0 .. now' - 1
  BY <1>0, <1>1 DEF StatsInv
<1>6. ASSUME NEW cut \in Int, cut > now' PROVE PairPauseEvents(events', cut) = <<>>
  BY <1>1, <1>3, <1>6 DEF StatsInv
<1> QED
  BY <1>2, <1>4, <1>5, <1>6 DEF StatsInv

\* An extension is a turn the statistics are not asked about.
LEMMA ExtendStats ==
    ASSUME IInv, EventsInv, StatsInv, NEW a \in Accounts, RecordExtend(a)
    PROVE  StatsInv'
<1>1. Extend(a) /\ Publish("extended", pause'.pauseExpiry, "extension", TRUE)
  BY DEF RecordExtend
<1>2. /\ pause \in PauseState /\ pause'.pauseExpiry = now + MaxPauseDuration
      /\ now' = now /\ now \in Nat /\ trippedAt' = trippedAt /\ Status
  BY <1>1, ExtendRecord DEF Extend, Extendable, Status, IInv, TypeOK
<1>3. PICK e \in Event :
        /\ e.at = now /\ events' = Append(events, e) /\ events \in Seq(Event)
        /\ pausedAt' = pausedAt /\ quirks' # {}
  BY ExtendPublishes
<1>4. \A from \in Int : from > now =>
        PairPauseEvents(events', from) = PairPauseEvents(events, from)
  BY <1>2, <1>3, OneMoreEvent
<1>5. pausedAt' \subseteq 0 .. now' - 1 /\ trippedAt' .. now' - 1 \subseteq pausedAt'
  BY <1>2, <1>3 DEF StatsInv
<1>6. ASSUME NEW cut \in Int, cut > now' PROVE PairPauseEvents(events', cut) = <<>>
  BY <1>2, <1>4, <1>6 DEF StatsInv
<1> QED
  BY <1>3, <1>5, <1>6 DEF StatsInv

\* A step that publishes nothing and leaves the clock alone.
LEMMA QuietStats ==
    ASSUME StatsInv, UNCHANGED <<now, pause, trippedAt, events, pausedAt, quirks>>
    PROVE  StatsInv'
<1>1. (Status' <=> Status) /\ Running' = Running
  BY DEF Status, Running
<1>2. \A ps, cut, from : Fits(ps, cut, from) => Fits(ps, cut, from)'
  BY <1>1 DEF Fits, Spans, PausedSince
<1>3. ASSUME quirks' = {}, NEW cut \in Int, NEW from \in 0 .. now', cut <= from
      PROVE  Fits(PairPauseEvents(events, cut), cut, from)'
  <2>1. PICK ps : ps = PairPauseEvents(events, cut)
    OBVIOUS
  <2>2. Fits(ps, cut, from)
    BY <1>3, <2>1 DEF StatsInv
  <2>3. Fits(ps, cut, from)' /\ ps = PairPauseEvents(events', cut)
    BY <1>2, <2>1, <2>2
  <2> QED
    BY <2>3 DEF Fits, Spans
<1> QED
  BY <1>1, <1>3 DEF StatsInv
-----------------------------------------------------------------------------
\* The incidents page.  Where in the episodes an event acts.
LEMMA ProgressFields ==
    ASSUME NEW r \in Progress
    PROVE  /\ r.episodes \in Seq(Episode) /\ r.open \in BOOLEAN
           /\ Len(r.episodes) \in Nat
           /\ \A i \in 1 .. Len(r.episodes) : r.episodes[i] \in Episode
           /\ r.open => /\ r.episodes # <<>> /\ Len(r.episodes) \in 1 .. Len(r.episodes)
                        /\ Last(r.episodes) = r.episodes[Len(r.episodes)]
<1>1. PICK s \in Seq(Episode) : s = r.episodes
  BY DEF Progress
<1>2. r.open \in BOOLEAN /\ (r.open => s # <<>>)
  BY <1>1 DEF Progress
<1>3. Len(s) \in Nat /\ \A i \in 1 .. Len(s) : s[i] \in Episode
  OBVIOUS
<1>4. s # <<>> => Last(s) = s[Len(s)] /\ Len(s) \in 1 .. Len(s)
  BY LastOf
<1> QED
  BY <1>1, <1>2, <1>3, <1>4

LEMMA LastReplaced ==
    ASSUME NEW s \in Seq(Episode), s # <<>>, NEW x \in Episode
    PROVE  /\ WithLast(s, x) \in Seq(Episode)
           /\ Len(WithLast(s, x)) = Len(s) /\ WithLast(s, x)[Len(s)] = x
           /\ \A i \in 1 .. Len(s) : i # Len(s) => WithLast(s, x)[i] = s[i]
  BY LastOf

LEMMA EpisodeFields ==
    ASSUME NEW ep \in Episode
    PROVE  /\ ep.pausedAt \in Nat /\ ep.expiry \in Nat /\ ep.resolvedAt \in Nat \cup {None}
           /\ None \notin Nat
  BY LookbackAssumption DEF Episode

LEMMA AfterPaused ==
    ASSUME NEW r \in Progress, NEW e \in Event, e.type = "paused", NEW q, q = ReplayStep(r, e)
    PROVE  /\ q.open /\ Len(q.episodes) = Len(r.episodes) + 1
           /\ q.episodes[Len(r.episodes) + 1] = OpenEpisode(e)
           /\ \A i \in 1 .. Len(r.episodes) :
                q.episodes[i] = IF r.open /\ i = Len(r.episodes)
                                THEN Retriggered(r.episodes[i], e.at) ELSE r.episodes[i]
<1>1. /\ r.episodes \in Seq(Episode) /\ r.open \in BOOLEAN
      /\ r.open => /\ r.episodes # <<>> /\ Last(r.episodes) = r.episodes[Len(r.episodes)]
                   /\ Last(r.episodes) \in Episode
  BY ProgressFields, LastOf
<1>2. PICK past, o : /\ past = IF r.open THEN WithLast(r.episodes, Retriggered(Last(r.episodes), e.at))
                                        ELSE r.episodes
                     /\ o = OpenEpisode(e)
  OBVIOUS
<1>3. /\ past \in Seq(Episode) /\ Len(past) = Len(r.episodes)
      /\ \A i \in 1 .. Len(r.episodes) :
           past[i] = IF r.open /\ i = Len(r.episodes)
                     THEN Retriggered(r.episodes[i], e.at) ELSE r.episodes[i]
  <2>1. CASE r.open
    <3>1. PICK x : x = Retriggered(Last(r.episodes), e.at)
      OBVIOUS
    <3>2. e.at \in Nat
      BY DEF Event
    <3>3. x \in Episode
      BY <1>1, <2>1, <3>1, <3>2, RetriggeredFields
    <3>4. past = WithLast(r.episodes, x)
      BY <1>2, <2>1, <3>1
    <3>5. PICK s \in Seq(Episode) : s = r.episodes /\ s # <<>>
      BY <1>1, <2>1
    <3>6. /\ past \in Seq(Episode) /\ Len(past) = Len(r.episodes)
          /\ past[Len(r.episodes)] = x
          /\ \A i \in 1 .. Len(r.episodes) : i # Len(r.episodes) => past[i] = r.episodes[i]
      BY <3>3, <3>4, <3>5, LastReplaced
    <3> QED
      BY <1>1, <2>1, <3>1, <3>6
  <2>2. CASE ~r.open
    BY <1>1, <1>2, <2>2
  <2> QED
    BY <2>1, <2>2
<1>4. o \in Episode
  BY <1>2, OpenEpisodeFields
<1>5. q.open = TRUE /\ q.episodes = Append(past, o)
  BY <1>2, ReplayStepPaused
<1>6. PICK s : s = q.episodes
  OBVIOUS
<1>7. /\ Len(s) = Len(past) + 1 /\ s[Len(past) + 1] = o
      /\ \A i \in 1 .. Len(past) : s[i] = past[i]
  BY <1>3, <1>4, <1>5, <1>6
<1> QED
  BY <1>2, <1>3, <1>5, <1>6, <1>7

LEMMA AfterChange ==
    ASSUME NEW r \in Progress, NEW new, NEW x,
           r.open => x \in Episode,
           new = IF r.open THEN WithLast(r.episodes, x) ELSE r.episodes
    PROVE  /\ Len(new) = Len(r.episodes)
           /\ \A i \in 1 .. Len(r.episodes) :
                new[i] = IF r.open /\ i = Len(r.episodes) THEN x ELSE r.episodes[i]
<1>1. CASE r.open
  <2>1. PICK s \in Seq(Episode) : s = r.episodes /\ s # <<>>
    BY <1>1, ProgressFields
  <2>2. x \in Episode /\ new = WithLast(s, x)
    BY <1>1, <2>1
  <2>3. /\ Len(new) = Len(r.episodes)
        /\ new[Len(r.episodes)] = x
        /\ \A i \in 1 .. Len(r.episodes) : i # Len(r.episodes) => new[i] = r.episodes[i]
    <3>1. PICK t : t = WithLast(s, x)
      OBVIOUS
    <3>2. /\ Len(t) = Len(s) /\ t[Len(s)] = x
          /\ \A i \in 1 .. Len(s) : i # Len(s) => t[i] = s[i]
      BY <2>1, <2>2, <3>1, LastReplaced
    <3> QED
      BY <2>1, <2>2, <3>1, <3>2
  <2> QED
    BY <1>1, <2>3
<1>2. CASE ~r.open
  BY <1>2
<1> QED
  BY <1>1, <1>2

LEMMA AfterExtended ==
    ASSUME NEW r \in Progress, NEW e \in Event, e.type = "extended", NEW q, q = ReplayStep(r, e)
    PROVE  /\ q.open = r.open /\ Len(q.episodes) = Len(r.episodes)
           /\ \A i \in 1 .. Len(r.episodes) :
                q.episodes[i] = IF r.open /\ i = Len(r.episodes)
                                THEN Extended(r.episodes[i], e.expiry) ELSE r.episodes[i]
<1>1. PICK x : x = Extended(Last(r.episodes), e.expiry)
  OBVIOUS
<1>2. r.open => x \in Episode /\ x = Extended(r.episodes[Len(r.episodes)], e.expiry)
  <2>1. e.expiry \in Nat
    BY DEF Event
  <2>2. \A ep \in Episode : Extended(ep, e.expiry) \in Episode
    BY <2>1, ExtendedFields
  <2> QED
    BY <1>1, <2>2, ProgressFields
<1>3. /\ q.open = r.open
      /\ q.episodes = IF r.open THEN WithLast(r.episodes, x) ELSE r.episodes
  BY <1>1, ReplayStepExtended
<1>4. /\ Len(q.episodes) = Len(r.episodes)
      /\ \A i \in 1 .. Len(r.episodes) :
           q.episodes[i] = IF r.open /\ i = Len(r.episodes) THEN x ELSE r.episodes[i]
  <2>1. PICK s : s = q.episodes
    OBVIOUS
  <2>2. s = IF r.open THEN WithLast(r.episodes, x) ELSE r.episodes
    BY <1>3, <2>1
  <2>3. r.open => x \in Episode
    BY <1>2
  <2>4. /\ Len(s) = Len(r.episodes)
        /\ \A i \in 1 .. Len(r.episodes) :
             s[i] = IF r.open /\ i = Len(r.episodes) THEN x ELSE r.episodes[i]
    BY <2>2, <2>3, AfterChange
  <2> QED
    BY <2>1, <2>4
<1> QED
  BY <1>2, <1>3, <1>4

LEMMA AfterResumed ==
    ASSUME NEW r \in Progress, NEW e \in Event, e.type = "resumed", NEW q, q = ReplayStep(r, e)
    PROVE  /\ ~q.open /\ Len(q.episodes) = Len(r.episodes)
           /\ \A i \in 1 .. Len(r.episodes) :
                q.episodes[i] = IF r.open /\ i = Len(r.episodes)
                                THEN Resolve(r.episodes[i], "resumed_early", e.at) ELSE r.episodes[i]
<1>1. PICK x : x = Resolve(Last(r.episodes), "resumed_early", e.at)
  OBVIOUS
<1>2. r.open => x \in Episode /\ x = Resolve(r.episodes[Len(r.episodes)], "resumed_early", e.at)
  <2>1. e.at \in Nat
    BY DEF Event
  <2>2. \A ep \in Episode : Resolve(ep, "resumed_early", e.at) \in Episode
    BY <2>1, ResolveFields
  <2> QED
    BY <1>1, <2>2, ProgressFields
<1>3. /\ q.open = FALSE
      /\ q.episodes = IF r.open THEN WithLast(r.episodes, x) ELSE r.episodes
  BY <1>1, ReplayStepResumed
<1>4. /\ Len(q.episodes) = Len(r.episodes)
      /\ \A i \in 1 .. Len(r.episodes) :
           q.episodes[i] = IF r.open /\ i = Len(r.episodes) THEN x ELSE r.episodes[i]
  <2>1. PICK s : s = q.episodes
    OBVIOUS
  <2>2. s = IF r.open THEN WithLast(r.episodes, x) ELSE r.episodes
    BY <1>3, <2>1
  <2>3. r.open => x \in Episode
    BY <1>2
  <2>4. /\ Len(s) = Len(r.episodes)
        /\ \A i \in 1 .. Len(r.episodes) :
             s[i] = IF r.open /\ i = Len(r.episodes) THEN x ELSE r.episodes[i]
    BY <2>2, <2>3, AfterChange
  <2> QED
    BY <2>1, <2>4
<1> QED
  BY <1>2, <1>3, <1>4
\* The record holds a pause that nobody has released, lapsed or not.
Held == pause # None /\ pause.paused
EarlierPause(from) ==
    \E i \in 1 .. Len(events) : events[i].type = "paused" /\ events[i].at < from

\* Every episode but the open one is over; the open one is that of the record; and
\* what the record holds is open, unless it began before the window.
Over(ep) == ep.resolution # "active" /\ ep.resolvedAt \in Nat
IsHeld(ep) ==
    /\ ep.resolution = "active" /\ ep.resolvedAt = None /\ ep.pausedAt <= now
    /\ ep.expiry = pause.pauseExpiry
Follows(r, from) ==
    /\ \A i \in 1 .. Len(r.episodes) : Over(r.episodes[i]) \/ (r.open /\ i = Len(r.episodes))
    /\ r.open => Held /\ IsHeld(r.episodes[Len(r.episodes)])
    /\ Held => r.open \/ EarlierPause(from)

LEMMA StaysEarlier ==
    ASSUME events \in Seq(Event), NEW e \in Event, events' = Append(events, e), NEW from
    PROVE  /\ EarlierPause(from) => EarlierPause(from)'
           /\ e.type = "paused" /\ e.at < from => EarlierPause(from)'
<1>1. PICK s, t : s = events /\ t = events'
  OBVIOUS
<1>2. /\ Len(s) \in Nat /\ Len(t) = Len(s) + 1 /\ t[Len(s) + 1] = e
      /\ \A i \in 1 .. Len(s) : t[i] = s[i]
  BY <1>1
<1>3. Len(s) + 1 \in 1 .. Len(t) /\ \A i \in 1 .. Len(s) : i \in 1 .. Len(t)
  BY <1>2
<1> QED
  BY <1>1, <1>2, <1>3 DEF EarlierPause

LEMMA NothingFollows ==
    ASSUME NEW from, Held' => EarlierPause(from)'
    PROVE  Follows(Nothing, from)'
  BY DEF Follows, Nothing

LEMMA PauseIsFollowed ==
    ASSUME IInv, NEW g \in Accounts, Pause(g), NEW r \in Progress, NEW from, Follows(r, from),
           NEW e \in Event, e.type = "paused", e.at = now, e.expiry = pause'.pauseExpiry,
           NEW q, q = ReplayStep(r, e)
    PROVE  Follows(q, from)'
<1> DEFINE n == Len(r.episodes)
<1>1. /\ now \in Nat /\ now' = now /\ pause' # None /\ pause'.paused
  BY PauseNowTyped, NoneAssumption DEF Pause, IInv, TypeOK
<1>2. /\ q.open /\ Len(q.episodes) = n + 1 /\ q.episodes[n + 1] = OpenEpisode(e)
      /\ \A i \in 1 .. n : q.episodes[i] = IF r.open /\ i = n
                                           THEN Retriggered(r.episodes[i], e.at) ELSE r.episodes[i]
  BY AfterPaused
<1>3. n \in Nat /\ \A i \in 1 .. n : r.episodes[i] \in Episode
  BY ProgressFields
<1>4. \A ep \in Episode : Over(Retriggered(ep, e.at))
  BY <1>1, RetriggeredFields, EpisodeFields DEF Over
<1>5. \A i \in 1 .. n : Over(r.episodes[i]) \/ (r.open /\ i = n)
  BY DEF Follows
<1>6. \A i \in 1 .. n + 1 : Over(q.episodes[i]) \/ i = n + 1
  <2> TAKE i \in 1 .. n + 1
  <2>1. CASE i \in 1 .. n
    BY <1>2, <1>3, <1>4, <1>5, <2>1
  <2> QED
    BY <1>3, <2>1
<1>7. IsHeld(OpenEpisode(e))'
  BY <1>1, OpenEpisodeFields DEF IsHeld
<1>8. IsHeld(q.episodes[n + 1])'
  BY <1>2, <1>7
<1> QED
  BY <1>1, <1>2, <1>6, <1>8 DEF Follows, Held

LEMMA ExtendIsFollowed ==
    ASSUME IInv, NEW a \in Accounts, Extend(a), NEW r \in Progress, NEW from, Follows(r, from),
           NEW e \in Event, e.type = "extended", e.expiry = pause'.pauseExpiry,
           events \in Seq(Event), events' = Append(events, e),
           NEW q, q = ReplayStep(r, e)
    PROVE  Follows(q, from)'
<1> DEFINE n == Len(r.episodes)
<1>1. /\ now \in Nat /\ now' = now /\ pause' # None /\ pause'.paused /\ Held
  BY ExtendRecord, NoneAssumption DEF Extend, Extendable, Held, IInv, TypeOK
<1>2. /\ q.open = r.open /\ Len(q.episodes) = n
      /\ \A i \in 1 .. n : q.episodes[i] = IF r.open /\ i = n
                                           THEN Extended(r.episodes[i], e.expiry) ELSE r.episodes[i]
  BY AfterExtended
<1>3. /\ n \in Nat /\ \A i \in 1 .. n : r.episodes[i] \in Episode
      /\ r.open => n \in 1 .. n
  BY ProgressFields
<1>4. \A i \in 1 .. n : Over(q.episodes[i]) \/ (q.open /\ i = n)
  BY <1>2 DEF Follows
<1>5. q.open => IsHeld(q.episodes[n])'
  <2> SUFFICES ASSUME q.open PROVE IsHeld(q.episodes[n])'
    OBVIOUS
  <2>1. PICK ep \in Episode : ep = r.episodes[n]
    BY <1>2, <1>3
  <2>2. q.episodes[n] = Extended(ep, e.expiry)
    BY <1>2, <1>3, <2>1
  <2>3. IsHeld(ep)
    BY <1>2, <2>1 DEF Follows
  <2>4. e.expiry \in Nat
    BY DEF Event
  <2>5. PICK x : x = Extended(ep, e.expiry)
    OBVIOUS
  <2>6. /\ x.resolution = ep.resolution /\ x.resolvedAt = ep.resolvedAt
        /\ x.pausedAt = ep.pausedAt /\ x.expiry = e.expiry
    BY <2>4, <2>5, ExtendedFields
  <2>7. IsHeld(x)'
    BY <1>1, <2>3, <2>6 DEF IsHeld
  <2> QED
    BY <2>2, <2>5, <2>7
<1>6. Held' => q.open \/ EarlierPause(from)'
  BY <1>1, <1>2, StaysEarlier DEF Follows
<1> QED
  BY <1>1, <1>2, <1>4, <1>5, <1>6 DEF Follows, Held

LEMMA ResumeIsFollowed ==
    ASSUME IInv, NEW a \in Accounts, ResumeEarly(a), NEW r \in Progress, NEW from, Follows(r, from),
           NEW e \in Event, e.type = "resumed", NEW q, q = ReplayStep(r, e)
    PROVE  Follows(q, from)' /\ ~Held'
<1> DEFINE n == Len(r.episodes)
<1>1. ~Held'
  BY DEF ResumeEarly, Held, IInv, TypeOK, PauseState
<1>2. /\ ~q.open /\ Len(q.episodes) = n
      /\ \A i \in 1 .. n : q.episodes[i] = IF r.open /\ i = n
                                           THEN Resolve(r.episodes[i], "resumed_early", e.at)
                                           ELSE r.episodes[i]
  BY AfterResumed
<1>3. \A i \in 1 .. n : r.episodes[i] \in Episode
  BY ProgressFields
<1>4. \A ep \in Episode : Over(Resolve(ep, "resumed_early", e.at))
  <2>1. e.at \in Nat
    BY DEF Event
  <2> QED
    BY <2>1, ResolveFields DEF Over
<1>5. \A i \in 1 .. n : Over(q.episodes[i])
  BY <1>2, <1>3, <1>4 DEF Follows
<1> QED
  BY <1>1, <1>2, <1>5 DEF Follows
-----------------------------------------------------------------------------
\* How long an episode has lasted by `t`, a lapsed one until its own expiry.
Length(ep, t) ==
    (IF ep.resolvedAt # None THEN ep.resolvedAt
     ELSE IF Lapsed(ep, t) THEN ep.expiry ELSE t) - ep.pausedAt
Lengths(eps, t) == [i \in 1 .. Len(eps) |-> Length(eps[i], t)]

LEMMA LengthInt ==
    ASSUME NEW ep \in Episode, NEW t \in Nat
    PROVE  Length(ep, t) \in Int
<1>1. ep.pausedAt \in Nat /\ ep.expiry \in Nat /\ ep.resolvedAt \in Nat \cup {None}
  BY EpisodeFields
<1> QED
  BY <1>1 DEF Length

LEMMA LengthsTyped ==
    ASSUME NEW r \in Progress, NEW t \in Nat
    PROVE  /\ IsFiniteSet(1 .. Len(r.episodes)) /\ Len(r.episodes) \in Nat
           /\ Lengths(r.episodes, t) \in [1 .. Len(r.episodes) -> Int]
           /\ \A i \in 1 .. Len(r.episodes) :
                Lengths(r.episodes, t)[i] = Length(r.episodes[i], t)
<1>1. PICK n, f : n = Len(r.episodes) /\ f = Lengths(r.episodes, t)
  OBVIOUS
<1>2. n \in Nat /\ \A i \in 1 .. n : r.episodes[i] \in Episode
  BY <1>1, ProgressFields
<1>3. \A i \in 1 .. n : Length(r.episodes[i], t) \in Int
  BY <1>2, LengthInt
<1>4. f = [i \in 1 .. n |-> Length(r.episodes[i], t)]
  BY <1>1 DEF Lengths
<1>5. f \in [1 .. n -> Int] /\ \A i \in 1 .. n : f[i] = Length(r.episodes[i], t)
  BY <1>3, <1>4
<1>6. IsFiniteSet(1 .. n)
  BY <1>2, FS_Interval
<1> QED
  BY <1>1, <1>2, <1>5, <1>6

\* What closes or prolongs an episode changes nothing about its length so far.
LEMMA LengthKept ==
    ASSUME NEW ep \in Episode, ep.resolvedAt = None, NEW t \in Nat
    PROVE  /\ Length(Retriggered(ep, t), t) = Length(ep, t)
           /\ ep.expiry > t => Length(Resolve(ep, "resumed_early", t), t) = Length(ep, t)
           /\ \A expiry \in Nat : ep.expiry > t /\ expiry > t =>
                Length(Extended(ep, expiry), t) = Length(ep, t)
<1>1. ep.pausedAt \in Nat /\ ep.expiry \in Nat /\ None \notin Nat
  BY EpisodeFields
<1>2. Length(ep, t) = (IF ep.expiry <= t THEN ep.expiry ELSE t) - ep.pausedAt
  BY DEF Length, Lapsed
<1>3. Length(Retriggered(ep, t), t) = Length(ep, t)
  <2>1. PICK x : x = Retriggered(ep, t)
    OBVIOUS
  <2>2. x.pausedAt = ep.pausedAt /\ x.resolvedAt = IF ep.expiry <= t THEN ep.expiry ELSE t
    BY <2>1, RetriggeredFields
  <2>3. x.resolvedAt # None
    BY <1>1, <2>2
  <2>4. Length(x, t) = Length(ep, t)
    BY <1>2, <2>2, <2>3 DEF Length
  <2> QED
    BY <2>1, <2>4
<1>4. ASSUME ep.expiry > t PROVE Length(Resolve(ep, "resumed_early", t), t) = Length(ep, t)
  <2>1. PICK x : x = Resolve(ep, "resumed_early", t)
    OBVIOUS
  <2>2. x.pausedAt = ep.pausedAt /\ x.resolvedAt = t
    BY <2>1, ResolveFields
  <2>3. x.resolvedAt # None /\ ~ (ep.expiry <= t)
    BY <1>1, <1>4, <2>2
  <2>4. Length(x, t) = Length(ep, t)
    BY <1>2, <2>2, <2>3 DEF Length
  <2> QED
    BY <2>1, <2>4
<1>5. ASSUME NEW expiry \in Nat, ep.expiry > t, expiry > t
      PROVE  Length(Extended(ep, expiry), t) = Length(ep, t)
  <2>1. PICK x : x = Extended(ep, expiry)
    OBVIOUS
  <2>2. x.pausedAt = ep.pausedAt /\ x.resolvedAt = None /\ x.expiry = expiry
    BY <2>1, ExtendedFields
  <2>3. ~ (x.expiry <= t) /\ ~ (ep.expiry <= t)
    BY <1>1, <1>5, <2>2
  <2>4. Length(x, t) = Length(ep, t)
    BY <1>2, <2>2, <2>3 DEF Length, Lapsed
  <2> QED
    BY <2>1, <2>4
<1> QED
  BY <1>3, <1>4, <1>5

LEMMA LengthLater ==
    ASSUME NEW ep \in Episode, NEW t \in Nat
    PROVE  /\ ep.resolvedAt # None \/ ep.expiry <= t => Length(ep, t + 1) = Length(ep, t)
           /\ ep.resolvedAt = None /\ ep.expiry > t => Length(ep, t + 1) = Length(ep, t) + 1
<1>1. ep.pausedAt \in Nat /\ ep.expiry \in Nat /\ ep.resolvedAt \in Nat \cup {None}
  BY EpisodeFields
<1>2. CASE ep.resolvedAt # None
  BY <1>2 DEF Length
<1>3. CASE ep.resolvedAt = None
  <2>1. /\ Length(ep, t) = (IF ep.expiry <= t THEN ep.expiry ELSE t) - ep.pausedAt
        /\ Length(ep, t + 1) = (IF ep.expiry <= t + 1 THEN ep.expiry ELSE t + 1) - ep.pausedAt
    BY <1>3 DEF Length, Lapsed
  <2> QED
    BY <1>1, <1>3, <2>1
<1> QED
  BY <1>2, <1>3

\* The same lengths, so the same sum.
LEMMA SameLengths ==
    ASSUME NEW eps, NEW more, NEW t, NEW u, Len(more) = Len(eps),
           \A i \in 1 .. Len(eps) : Length(more[i], u) = Length(eps[i], t)
    PROVE  Lengths(more, u) = Lengths(eps, t)
  BY DEF Lengths

HistoryInv ==
    /\ \A from \in Int : from > now => Replay(events, from) = Nothing
    /\ \A from \in Int : Follows(Replay(events, from), from)
    /\ "late resume" \notin quirks =>
         Added(Lengths(Replay(events, 0).episodes, now)) = Cardinality(pausedAt)

\* No pause is earlier than the beginning: what is held is open.
LEMMA HeldIsOpen ==
    ASSUME EventsInv, NEW r, Follows(r, 0)
    PROVE  (r.open <=> Held) /\ ~EarlierPause(0)
<1>1. \A i \in 1 .. Len(events) : events[i].at \in Nat
  BY EventFields
<1> QED
  BY <1>1 DEF Follows, EarlierPause

LEMMA TickLengths ==
    ASSUME IInv, EventsInv, RecordTick, NEW r \in Progress, Follows(r, 0),
           pausedAt \subseteq 0 .. now - 1,
           Added(Lengths(r.episodes, now)) = Cardinality(pausedAt)
    PROVE  Added(Lengths(r.episodes, now + 1)) = Cardinality(pausedAt')
<1> DEFINE n == Len(r.episodes)
           before == Lengths(r.episodes, now)
           after == Lengths(r.episodes, now + 1)
<1>1. /\ now \in Nat /\ now + 1 \in Nat
      /\ pausedAt' = IF Status THEN pausedAt \cup {now} ELSE pausedAt
  BY DEF RecordTick, IInv, TypeOK
<1>2. /\ IsFiniteSet(1 .. n) /\ n \in Nat
      /\ before \in [1 .. n -> Int] /\ after \in [1 .. n -> Int]
      /\ \A i \in 1 .. n : before[i] = Length(r.episodes[i], now)
      /\ \A i \in 1 .. n : after[i] = Length(r.episodes[i], now + 1)
  BY <1>1, LengthsTyped
<1>3. /\ \A i \in 1 .. n : r.episodes[i] \in Episode
      /\ r.open => n \in 1 .. n
  BY ProgressFields
<1>4. \A i \in 1 .. n : ~ (r.open /\ i = n) => after[i] = before[i]
  <2>1. \A i \in 1 .. n : ~ (r.open /\ i = n) => r.episodes[i].resolvedAt # None
    BY LookbackAssumption DEF Follows, Over
  <2> HIDE DEF before, after
  <2> QED
    BY <1>1, <1>2, <1>3, <2>1, LengthLater
<1>5. r.open => /\ pause # None /\ pause.paused /\ pause \in PauseState
                /\ r.episodes[n].resolvedAt = None /\ r.episodes[n].expiry = pause.pauseExpiry
  BY DEF Follows, Held, IsHeld, IInv, TypeOK
<1>6. (Status => r.open) /\ (r.open => (Status <=> now < pause.pauseExpiry))
  BY <1>5, HeldIsOpen DEF Status, Held
<1>7. r.open => pause.pauseExpiry \in Nat
  BY <1>5 DEF PauseState
<1>8. IsFiniteSet(pausedAt) /\ Cardinality(pausedAt) \in Nat /\ now \notin pausedAt
  <2>1. PICK s, all : s = pausedAt /\ all = 0 .. now - 1
    OBVIOUS
  <2>2. IsFiniteSet(all) /\ s \in SUBSET all
    BY <1>1, <2>1, FS_Interval
  <2>3. IsFiniteSet(s) /\ Cardinality(s) \in Nat
    BY <2>2, FS_Subset, FS_CardinalityType
  <2>4. now \notin all
    BY <1>1, <2>1
  <2> QED
    BY <2>1, <2>2, <2>3, <2>4
<1>9. CASE Status
  <2>1. r.open /\ n \in 1 .. n /\ r.episodes[n] \in Episode /\ r.episodes[n].expiry > now
    BY <1>1, <1>3, <1>5, <1>6, <1>7, <1>9
  <2>2. after[n] = before[n] + 1
    BY <1>1, <1>2, <1>5, <2>1, LengthLater
  <2> HIDE DEF before, after
  <2>3. Added(after) = Added(before) - before[n] + after[n]
    <3>1. \A i \in 1 .. n : i # n => after[i] = before[i]
      BY <1>4
    <3>2. PICK D, f, g : D = 1 .. n /\ f = before /\ g = after
      OBVIOUS
    <3>3. /\ IsFiniteSet(D) /\ f \in [D -> Int] /\ g \in [D -> Int] /\ n \in D
          /\ \A i \in D : i # n => g[i] = f[i]
      BY <1>2, <2>1, <3>1, <3>2
    <3>4. Added(g) = Added(f) - f[n] + g[n]
      BY <3>3, AddedButOne
    <3> QED
      BY <3>2, <3>4
  <2>4. Added(before) \in Int /\ before[n] \in Int
    BY <1>2, <2>1, AddedInt
  <2>5. Added(after) = Added(before) + 1
    BY <2>2, <2>3, <2>4
  <2>6. Cardinality(pausedAt \cup {now}) = Cardinality(pausedAt) + 1
    BY <1>8, FS_AddElement
  <2> QED
    BY <1>1, <1>9, <2>5, <2>6 DEF before, after
<1>10. CASE ~Status
  <2>1. \A i \in 1 .. n : after[i] = before[i]
    <3>1. r.open => r.episodes[n].expiry <= now
      BY <1>1, <1>5, <1>6, <1>7, <1>10
    <3>2. r.open => after[n] = before[n]
      BY <1>1, <1>2, <1>3, <3>1, LengthLater
    <3> HIDE DEF before, after
    <3> QED
      BY <1>4, <3>2
  <2>2. after = before
    <3> HIDE DEF before, after
    <3> QED
      BY <1>2, <2>1
  <2> QED
    BY <1>1, <1>10, <2>2
<1> QED
  BY <1>9, <1>10
LEMMA WholeHistory ==
    ASSUME EventsInv, HistoryInv
    PROVE  Replay(events, 0) \in Progress /\ Follows(Replay(events, 0), 0)
<1>1. PICK zero \in Int : zero = 0
  OBVIOUS
<1>2. Replay(events, zero) \in Progress
  BY ReplayTyped DEF EventsInv
<1>3. Follows(Replay(events, zero), zero)
  BY DEF HistoryInv
<1> QED
  BY <1>1, <1>2, <1>3

LEMMA TickHistory ==
    ASSUME IInv, EventsInv, StatsInv, HistoryInv, RecordTick
    PROVE  HistoryInv'
<1>1. /\ now \in Nat /\ now' = now + 1 /\ UNCHANGED <<pause, events, quirks>>
  BY DEF RecordTick, Tick, IInv, TypeOK
<1>2. ASSUME NEW from \in Int, from > now' PROVE Replay(events', from) = Nothing
  <2>1. from > now
    BY <1>1, <1>2
  <2> QED
    BY <1>1, <2>1 DEF HistoryInv
<1>3. ASSUME NEW from \in Int PROVE Follows(Replay(events, from), from)'
  <2>1. PICK r : r = Replay(events, from)
    OBVIOUS
  <2>2. r \in Progress /\ Follows(r, from) /\ Replay(events', from) = r
    BY <1>1, <2>1, ReplayTyped DEF HistoryInv, EventsInv
  <2>3. PICK last : last = r.episodes[Len(r.episodes)]
    OBVIOUS
  <2>4. r.open => last \in Episode
    BY <2>2, <2>3, ProgressFields
  <2>5. r.open => last.pausedAt \in Nat
    BY <2>4, EpisodeFields
  <2>6. r.open => IsHeld(last) /\ last.pausedAt <= now + 1
    BY <1>1, <2>2, <2>3, <2>5 DEF Follows, IsHeld
  <2>7. r.open => IsHeld(last)'
    BY <1>1, <2>6 DEF IsHeld
  <2>8. (Held' <=> Held) /\ (EarlierPause(from)' <=> EarlierPause(from))
    BY <1>1 DEF Held, EarlierPause
  <2>9. Follows(r, from)'
    BY <2>2, <2>3, <2>7, <2>8 DEF Follows
  <2> QED
    BY <2>2, <2>9 DEF Follows, IsHeld, EarlierPause
<1>4. ASSUME "late resume" \notin quirks'
      PROVE  Added(Lengths(Replay(events', 0).episodes, now')) = Cardinality(pausedAt')
  <2>1. PICK r : r = Replay(events, 0)
    OBVIOUS
  <2>2. r \in Progress /\ Follows(r, 0)
    BY <2>1, WholeHistory
  <2>3. Added(Lengths(r.episodes, now)) = Cardinality(pausedAt)
    BY <1>1, <1>4, <2>1 DEF HistoryInv
  <2>4. Added(Lengths(r.episodes, now + 1)) = Cardinality(pausedAt')
    BY <2>2, <2>3, TickLengths DEF StatsInv
  <2> QED
    BY <1>1, <2>1, <2>4
<1> QED
  BY <1>2, <1>3, <1>4 DEF HistoryInv

LEMMA PauseHistory ==
    ASSUME IInv, EventsInv, HistoryInv, NEW g \in Accounts, RecordPause(g)
    PROVE  HistoryInv'
<1>1. /\ now \in Nat /\ now' = now /\ Pause(g)
  BY DEF RecordPause, Pause, IInv, TypeOK
<1>2. PICK e \in Event :
        /\ e.type = "paused" /\ e.at = now /\ e.expiry = pause'.pauseExpiry
        /\ events' = Append(events, e) /\ events \in Seq(Event) /\ pausedAt' = pausedAt
        /\ quirks \subseteq quirks'
  BY PausePublishes
<1>3. /\ \A from \in Int : from > now => Replay(events', from) = Replay(events, from)
      /\ \A from \in Int : from <= now =>
           Replay(events', from) = ReplayStep(Replay(events, from), e)
  BY <1>1, <1>2, OneMoreEvent
<1>4. ASSUME NEW from \in Int, from > now' PROVE Replay(events', from) = Nothing
  BY <1>1, <1>3, <1>4 DEF HistoryInv
<1>5. ASSUME NEW from \in Int PROVE Follows(Replay(events, from), from)'
  <2>1. PICK r, q : r = Replay(events, from) /\ q = Replay(events', from)
    OBVIOUS
  <2>2. r \in Progress /\ Follows(r, from)
    BY <1>2, <2>1, ReplayTyped DEF HistoryInv
  <2>3. Follows(q, from)'
    <3>1. CASE from > now
      <4>1. q = Nothing
        BY <1>1, <1>4, <2>1, <3>1
      <4>2. e.at < from
        BY <1>1, <1>2, <3>1
      <4>3. EarlierPause(from)'
        BY <1>2, <4>2, StaysEarlier
      <4> QED
        BY <4>1, <4>3, NothingFollows
    <3>2. CASE from <= now
      <4>1. q = ReplayStep(r, e)
        BY <1>3, <2>1, <3>2
      <4> QED
        BY <1>1, <1>2, <2>2, <4>1, PauseIsFollowed
    <3> QED
      BY <1>1, <3>1, <3>2
  <2> QED
    BY <2>1, <2>3 DEF Follows, IsHeld, EarlierPause
<1>6. ASSUME "late resume" \notin quirks'
      PROVE  Added(Lengths(Replay(events', 0).episodes, now')) = Cardinality(pausedAt')
  <2>1. PICK r, q : r = Replay(events, 0) /\ q = Replay(events', 0)
    OBVIOUS
  <2>2. /\ r \in Progress /\ Follows(r, 0) /\ q = ReplayStep(r, e) /\ q \in Progress
        /\ Added(Lengths(r.episodes, now)) = Cardinality(pausedAt)
    <3>1. r \in Progress /\ Follows(r, 0)
      BY <2>1, WholeHistory
    <3>2. "late resume" \notin quirks
      BY <1>2, <1>6
    <3>3. Added(Lengths(r.episodes, now)) = Cardinality(pausedAt)
      BY <2>1, <3>2 DEF HistoryInv
    <3>4. q = ReplayStep(r, e)
      BY <1>1, <1>3, <2>1
    <3> QED
      BY <3>1, <3>3, <3>4, ReplayStepTyped
  <2> DEFINE n == Len(r.episodes)
             before == Lengths(r.episodes, now)
             after == Lengths(q.episodes, now)
  <2>3. /\ q.open /\ Len(q.episodes) = n + 1 /\ q.episodes[n + 1] = OpenEpisode(e)
        /\ \A i \in 1 .. n : q.episodes[i] = IF r.open /\ i = n
                                             THEN Retriggered(r.episodes[i], e.at) ELSE r.episodes[i]
    BY <1>2, <2>2, AfterPaused
  <2>4. /\ n \in Nat /\ before \in [1 .. n -> Int]
        /\ \A i \in 1 .. n : before[i] = Length(r.episodes[i], now)
    BY <1>1, <2>2, LengthsTyped
  <2>5. /\ after \in [1 .. n + 1 -> Int]
        /\ \A i \in 1 .. n + 1 : after[i] = Length(q.episodes[i], now)
    <3>1. /\ after \in [1 .. Len(q.episodes) -> Int]
          /\ \A i \in 1 .. Len(q.episodes) : after[i] = Length(q.episodes[i], now)
      BY <1>1, <2>2, LengthsTyped
    <3> HIDE DEF after
    <3> QED
      BY <2>3, <3>1
  <2>6. ASSUME NEW i \in 1 .. n PROVE after[i] = before[i]
    <3>1. PICK ep \in Episode : ep = r.episodes[i]
      BY <2>2, ProgressFields
    <3>2. i \in 1 .. n + 1
      BY <2>4
    <3>3. CASE r.open /\ i = n
      <4>1. ep.resolvedAt = None
        BY <2>2, <3>1, <3>3 DEF Follows, IsHeld
      <4>2. Length(Retriggered(ep, now), now) = Length(ep, now)
        BY <1>1, <4>1, LengthKept
      <4>3. q.episodes[i] = Retriggered(ep, now)
        BY <1>2, <2>3, <3>1, <3>3
      <4> HIDE DEF before, after
      <4> QED
        BY <2>4, <2>5, <3>1, <3>2, <4>2, <4>3
    <3>4. CASE ~ (r.open /\ i = n)
      <4>1. q.episodes[i] = ep
        BY <2>3, <3>1, <3>4
      <4> HIDE DEF before, after
      <4> QED
        BY <2>4, <2>5, <3>1, <3>2, <4>1
    <3> QED
      BY <3>3, <3>4
  <2>7. after[n + 1] = 0
    <3>1. PICK ep \in Episode : ep = OpenEpisode(e)
      BY OpenEpisodeFields
    <3>2. ep.resolvedAt = None /\ ep.pausedAt = now /\ ep.expiry = now + MaxPauseDuration
      BY <1>1, <1>2, <3>1, OpenEpisodeFields, PauseNowTyped DEF Pause
    <3>3. MaxPauseDuration \in Nat /\ MaxPauseDuration > 0
      BY DurationAssumption
    <3>4. Length(ep, now) = 0
      BY <1>1, <3>2, <3>3 DEF Length, Lapsed
    <3>5. n + 1 \in 1 .. n + 1
      BY <2>4
    <3> HIDE DEF after
    <3> QED
      BY <2>3, <2>5, <3>1, <3>4, <3>5
  <2>8. Added(after) = Added(before)
    <3>1. PICK m, f, h : m = n /\ f = before /\ h = after
      OBVIOUS
    <3>2. /\ m \in Nat /\ f \in [1 .. m -> Int] /\ h \in [1 .. m + 1 -> Int]
          /\ \A i \in 1 .. m : h[i] = f[i]
      BY <2>4, <2>5, <2>6, <3>1
    <3>3. Added(h) = Added(f) + h[m + 1]
      BY <3>2, AddedLast
    <3>4. Added(f) \in Int
      BY <3>2, AddedInt, FS_Interval
    <3>5. h[m + 1] = 0
      BY <2>7, <3>1
    <3>6. Added(h) = Added(f)
      BY <3>3, <3>4, <3>5
    <3> QED
      BY <3>1, <3>6
  <2> QED
    BY <1>1, <1>2, <2>1, <2>2, <2>8
<1> QED
  BY <1>4, <1>5, <1>6 DEF HistoryInv
\* An admin's call changes the open episode at most, and no length by now.
LEMMA SameSum ==
    ASSUME now \in Nat, NEW r \in Progress, Follows(r, 0), NEW q,
           Len(q.episodes) = Len(r.episodes), NEW x,
           \A i \in 1 .. Len(r.episodes) :
             q.episodes[i] = IF r.open /\ i = Len(r.episodes) THEN x ELSE r.episodes[i],
           r.open => Length(x, now) = Length(r.episodes[Len(r.episodes)], now)
    PROVE  Lengths(q.episodes, now) = Lengths(r.episodes, now)
<1>1. \A i \in 1 .. Len(r.episodes) : Length(q.episodes[i], now) = Length(r.episodes[i], now)
  OBVIOUS
<1> QED
  BY <1>1, SameLengths

LEMMA ExtendHistory ==
    ASSUME IInv, EventsInv, HistoryInv, NEW a \in Accounts, RecordExtend(a)
    PROVE  HistoryInv'
<1>1. Extend(a)
  BY DEF RecordExtend
<1>2. /\ now \in Nat /\ now' = now /\ pause \in PauseState /\ pause # None /\ Status
      /\ pause'.pauseExpiry = now + MaxPauseDuration /\ pause.pauseExpiry \in Nat
  BY <1>1, ExtendRecord DEF Extend, Extendable, Status, IInv, TypeOK, PauseState
<1>3. PICK e \in Event :
        /\ e.type = "extended" /\ e.at = now /\ e.expiry = pause'.pauseExpiry
        /\ events' = Append(events, e) /\ events \in Seq(Event) /\ pausedAt' = pausedAt
        /\ quirks \subseteq quirks'
  BY ExtendPublishes
<1>4. /\ \A from \in Int : from > now => Replay(events', from) = Replay(events, from)
      /\ \A from \in Int : from <= now =>
           Replay(events', from) = ReplayStep(Replay(events, from), e)
  BY <1>2, <1>3, OneMoreEvent
<1>5. ASSUME NEW from \in Int, from > now' PROVE Replay(events', from) = Nothing
  BY <1>2, <1>4, <1>5 DEF HistoryInv
<1>6. ASSUME NEW from \in Int PROVE Follows(Replay(events, from), from)'
  <2>1. PICK r, q : r = Replay(events, from) /\ q = Replay(events', from)
    OBVIOUS
  <2>2. r \in Progress /\ Follows(r, from)
    BY <1>3, <2>1, ReplayTyped DEF HistoryInv
  <2>3. Follows(q, from)'
    <3>1. CASE from > now
      <4>1. q = Nothing /\ r = Nothing
        BY <1>2, <1>5, <2>1, <3>1 DEF HistoryInv
      <4>2. EarlierPause(from)
        BY <1>2, <2>2, <4>1 DEF Follows, Held, Status, Nothing
      <4>3. EarlierPause(from)'
        BY <1>3, <4>2, StaysEarlier
      <4> QED
        BY <4>1, <4>3, NothingFollows
    <3>2. CASE from <= now
      <4>1. q = ReplayStep(r, e)
        BY <1>4, <2>1, <3>2
      <4> QED
        BY <1>1, <1>3, <2>2, <4>1, ExtendIsFollowed
    <3> QED
      BY <1>2, <3>1, <3>2
  <2> QED
    BY <2>1, <2>3 DEF Follows, IsHeld, EarlierPause
<1>7. ASSUME "late resume" \notin quirks'
      PROVE  Added(Lengths(Replay(events', 0).episodes, now')) = Cardinality(pausedAt')
  <2>1. PICK r, q : r = Replay(events, 0) /\ q = Replay(events', 0)
    OBVIOUS
  <2>2. r \in Progress /\ Follows(r, 0)
    BY <2>1, WholeHistory
  <2>3. Added(Lengths(r.episodes, now)) = Cardinality(pausedAt)
    <3>1. "late resume" \notin quirks
      BY <1>3, <1>7
    <3> QED
      BY <2>1, <3>1 DEF HistoryInv
  <2>4. q = ReplayStep(r, e)
    BY <1>2, <1>4, <2>1
  <2> DEFINE n == Len(r.episodes)
  <2>5. PICK x : x = Extended(r.episodes[n], e.expiry)
    OBVIOUS
  <2>6. /\ Len(q.episodes) = n
        /\ \A i \in 1 .. n : q.episodes[i] = IF r.open /\ i = n THEN x ELSE r.episodes[i]
    BY <1>3, <2>2, <2>4, <2>5, AfterExtended
  <2>7. ASSUME r.open PROVE Length(x, now) = Length(r.episodes[n], now)
    <3>1. PICK ep \in Episode : ep = r.episodes[n]
      BY <2>2, <2>7, ProgressFields
    <3>2. ep.resolvedAt = None /\ ep.expiry = pause.pauseExpiry
      BY <2>2, <2>7, <3>1 DEF Follows, IsHeld
    <3>3. PICK expiry \in Nat : expiry = e.expiry
      BY DEF Event
    <3>4. ep.expiry > now /\ expiry > now
      BY <1>2, <1>3, <3>2, <3>3, DurationAssumption DEF Status
    <3>5. Length(Extended(ep, expiry), now) = Length(ep, now)
      BY <1>2, <3>2, <3>4, LengthKept
    <3> QED
      BY <2>5, <3>1, <3>3, <3>5
  <2>8. Lengths(q.episodes, now) = Lengths(r.episodes, now)
    BY <1>2, <2>2, <2>6, <2>7, SameSum
  <2> QED
    BY <1>2, <1>3, <2>1, <2>3, <2>8
<1> QED
  BY <1>5, <1>6, <1>7 DEF HistoryInv

LEMMA ResumeHistory ==
    ASSUME IInv, EventsInv, HistoryInv, NEW a \in Accounts, RecordResume(a)
    PROVE  HistoryInv'
<1>1. ResumeEarly(a)
  BY DEF RecordResume
<1>2. now \in Nat /\ now' = now
  BY <1>1 DEF ResumeEarly, IInv, TypeOK
<1>3. PICK e \in Event :
        /\ e.type = "resumed" /\ e.at = now
        /\ events' = Append(events, e) /\ events \in Seq(Event) /\ pausedAt' = pausedAt
        /\ "late resume" \notin quirks' => "late resume" \notin quirks /\ Status
  BY ResumePublishes
<1>4. /\ \A from \in Int : from > now => Replay(events', from) = Replay(events, from)
      /\ \A from \in Int : from <= now =>
           Replay(events', from) = ReplayStep(Replay(events, from), e)
  BY <1>2, <1>3, OneMoreEvent
<1>5. ASSUME NEW from \in Int, from > now' PROVE Replay(events', from) = Nothing
  BY <1>2, <1>4, <1>5 DEF HistoryInv
<1>6. ASSUME NEW from \in Int PROVE Follows(Replay(events, from), from)'
  <2>1. PICK r, q : r = Replay(events, from) /\ q = Replay(events', from)
    OBVIOUS
  <2>2. r \in Progress /\ Follows(r, from)
    BY <1>3, <2>1, ReplayTyped DEF HistoryInv
  <2>3. PICK s : s = ReplayStep(r, e)
    OBVIOUS
  <2>4. Follows(s, from)' /\ ~Held'
    BY <1>1, <1>3, <2>2, <2>3, ResumeIsFollowed
  <2>5. Follows(q, from)'
    <3>1. CASE from > now
      <4>1. q = Nothing
        BY <1>2, <1>5, <2>1, <3>1
      <4> QED
        BY <2>4, <4>1, NothingFollows
    <3>2. CASE from <= now
      <4>1. q = s
        BY <1>4, <2>1, <2>3, <3>2
      <4> QED
        BY <2>4, <4>1
    <3> QED
      BY <1>2, <3>1, <3>2
  <2> QED
    BY <2>1, <2>5 DEF Follows, IsHeld, EarlierPause
<1>7. ASSUME "late resume" \notin quirks'
      PROVE  Added(Lengths(Replay(events', 0).episodes, now')) = Cardinality(pausedAt')
  <2>1. PICK r, q : r = Replay(events, 0) /\ q = Replay(events', 0)
    OBVIOUS
  <2>2. r \in Progress /\ Follows(r, 0)
    BY <2>1, WholeHistory
  <2>3. Added(Lengths(r.episodes, now)) = Cardinality(pausedAt) /\ Status
    <3>1. "late resume" \notin quirks /\ Status
      BY <1>3, <1>7
    <3> QED
      BY <2>1, <3>1 DEF HistoryInv
  <2>4. q = ReplayStep(r, e)
    BY <1>2, <1>4, <2>1
  <2> DEFINE n == Len(r.episodes)
  <2>5. PICK x : x = Resolve(r.episodes[n], "resumed_early", e.at)
    OBVIOUS
  <2>6. /\ Len(q.episodes) = n
        /\ \A i \in 1 .. n : q.episodes[i] = IF r.open /\ i = n THEN x ELSE r.episodes[i]
    <3>1. /\ ~q.open /\ Len(q.episodes) = n
          /\ \A i \in 1 .. n : q.episodes[i] = IF r.open /\ i = n
                                               THEN Resolve(r.episodes[i], "resumed_early", e.at)
                                               ELSE r.episodes[i]
      <4>1. e.type = "resumed" /\ e \in Event /\ r \in Progress
        BY <1>3, <2>2
      <4> QED
        BY <2>4, <4>1, AfterResumed
    <3> QED
      BY <2>5, <3>1, Zenon
  <2>7. ASSUME r.open PROVE Length(x, now) = Length(r.episodes[n], now)
    <3>1. PICK ep \in Episode : ep = r.episodes[n]
      BY <2>2, <2>7, ProgressFields
    <3>2. ep.resolvedAt = None /\ ep.expiry = pause.pauseExpiry
      BY <2>2, <2>7, <3>1 DEF Follows, IsHeld
    <3>3. ep.expiry \in Nat /\ now < ep.expiry
      BY <2>3, <3>2, EpisodeFields DEF Status
    <3>4. Length(Resolve(ep, "resumed_early", now), now) = Length(ep, now)
      BY <1>2, <3>2, <3>3, LengthKept
    <3> QED
      BY <1>3, <2>5, <3>1, <3>4
  <2>8. Lengths(q.episodes, now) = Lengths(r.episodes, now)
    BY <1>2, <2>2, <2>6, <2>7, SameSum
  <2> QED
    BY <1>2, <1>3, <2>1, <2>3, <2>8
<1> QED
  BY <1>5, <1>6, <1>7 DEF HistoryInv

LEMMA QuietHistory ==
    ASSUME HistoryInv, UNCHANGED <<now, pause, events, pausedAt, quirks>>
    PROVE  HistoryInv'
<1>1. Held' <=> Held
  BY DEF Held
<1>2. \A r, from : Follows(r, from) => Follows(r, from)'
  BY <1>1 DEF Follows, IsHeld, EarlierPause
<1>3. ASSUME NEW from \in Int PROVE Follows(Replay(events, from), from)'
  <2>1. PICK r : r = Replay(events, from)
    OBVIOUS
  <2>2. Follows(r, from)
    BY <2>1 DEF HistoryInv
  <2>3. Follows(r, from)' /\ r = Replay(events', from)
    BY <1>2, <2>1, <2>2
  <2> QED
    BY <2>3 DEF Follows, IsHeld, EarlierPause
<1> QED
  BY <1>3 DEF HistoryInv
-----------------------------------------------------------------------------
\* The whole record, and the two properties.
WholeInv == IInv /\ EventsInv /\ StatsInv /\ HistoryInv

LEMMA RecordStarts == RecordInit => WholeInv
<1> SUFFICES ASSUME RecordInit PROVE WholeInv
  OBVIOUS
<1>1. /\ now = 0 /\ pause = None /\ events = <<>> /\ pausedAt = {} /\ quirks = {} /\ Init
  BY DEF RecordInit, Init
<1>2. IInv
  BY <1>1, InitInv
<1>3. EventsInv
  BY <1>1 DEF EventsInv, InOrder, ByNow, PauseAnnounced
<1>4. ~Status /\ ~Held /\ 0 - 1 \in Int
  BY <1>1 DEF Status, Held
<1>5. StatsInv
  <2>1. \A from \in Int : PairPauseEvents(events, from) = <<>>
    BY <1>1, PairsEmpty
  <2>2. ASSUME NEW cut \in Int, NEW from \in 0 .. now
        PROVE  Fits(PairPauseEvents(events, cut), cut, from)
    <3>1. PairPauseEvents(events, cut) = <<>>
      BY <2>1, <2>2, <1>1
    <3>2. PausedSince(from) = {} /\ Cardinality({}) = 0
      BY <1>1, FS_EmptySet DEF PausedSince
    <3>3. Added(Spans(<<>>, from, now)) = 0 /\ 1 .. Len(<<>>) = {}
      BY NothingSums
    <3> QED
      BY <1>4, <3>1, <3>2, <3>3 DEF Fits
  <2> QED
    BY <1>1, <1>4, <2>1, <2>2 DEF StatsInv
<1>6. HistoryInv
  <2>1. \A from \in Int : Replay(events, from) = Nothing
    BY <1>1, ReplayEmpty
  <2>2. \A from \in Int : Follows(Nothing, from)
    BY <1>4 DEF Follows, Nothing
  <2>3. Added(Lengths(Replay(events, 0).episodes, now)) = Cardinality(pausedAt)
    <3>1. PICK eps : eps = Replay(events, 0).episodes
      OBVIOUS
    <3>2. eps = <<>>
      BY <1>1, <3>1, ReplayEmpty DEF Nothing
    <3>3. Lengths(eps, now) = [i \in {} |-> 0]
      BY <3>2 DEF Lengths
    <3> QED
      BY <1>1, <3>1, <3>3, AddedZero, FS_EmptySet
  <2> QED
    BY <2>1, <2>2, <2>3 DEF HistoryInv
<1> QED
  BY <1>2, <1>3, <1>5, <1>6 DEF WholeInv

LEMMA RecordGoesOn == WholeInv /\ [RecordNext]_recordVars => WholeInv'
<1> SUFFICES ASSUME WholeInv, [RecordNext]_recordVars PROVE WholeInv'
  OBVIOUS
<1>0. IInv /\ EventsInv /\ StatsInv /\ HistoryInv
  BY DEF WholeInv
<1>1. CASE RecordTick
  <2>1. IInv' /\ EventsInv'
    BY <1>0, <1>1, TickRecorded, StepInv
  <2> QED
    BY <1>0, <1>1, <2>1, TickStats, TickHistory DEF WholeInv
<1>2. ASSUME NEW a \in Accounts, RosterChange(a) PROVE WholeInv'
  <2>1. UNCHANGED <<now, pause, trippedAt, events, pausedAt, quirks>>
    BY <1>2 DEF RosterChange, InitGuardians, AddGuardian, RemoveGuardian
  <2>2. Next /\ EventsInv'
    BY <1>0, <1>2, CallRecorded
  <2>3. IInv'
    BY <1>0, <2>2, StepInv
  <2> QED
    BY <1>0, <2>1, <2>2, <2>3, QuietStats, QuietHistory DEF WholeInv
<1>3. ASSUME NEW a \in Accounts, RecordPause(a) PROVE WholeInv'
  <2>1. Next /\ EventsInv'
    BY <1>0, <1>3, CallRecorded
  <2> QED
    BY <1>0, <1>3, <2>1, StepInv, PauseStats, PauseHistory DEF WholeInv
<1>4. ASSUME NEW a \in Accounts, RecordResume(a) PROVE WholeInv'
  <2>1. Next /\ EventsInv'
    BY <1>0, <1>4, CallRecorded
  <2> QED
    BY <1>0, <1>4, <2>1, StepInv, ResumeStats, ResumeHistory DEF WholeInv
<1>5. ASSUME NEW a \in Accounts, RecordExtend(a) PROVE WholeInv'
  <2>1. Next /\ EventsInv'
    BY <1>0, <1>5, CallRecorded
  <2> QED
    BY <1>0, <1>5, <2>1, StepInv, ExtendStats, ExtendHistory DEF WholeInv
<1>6. CASE UNCHANGED recordVars
  <2>1. UNCHANGED vars /\ UNCHANGED <<now, pause, trippedAt, events, pausedAt, quirks>>
    BY <1>6 DEF recordVars, vars
  <2>2. IInv'
    BY <1>0, <2>1, StepInv
  <2>3. EventsInv'
    BY <1>0, <2>1 DEF EventsInv, InOrder, ByNow, PauseAnnounced, LatestPause, Announced
  <2> QED
    BY <1>0, <2>1, <2>2, <2>3, QuietStats, QuietHistory DEF WholeInv
<1> QED
  BY <1>1, <1>2, <1>3, <1>4, <1>5, <1>6 DEF RecordNext

LEMMA RecordHolds == RecordSpec => []WholeInv
  BY RecordStarts, RecordGoesOn, PTL DEF RecordSpec

\* What the reporter asks for does not begin in the future.
LEMMA FirstAskedIsPast ==
    ASSUME now \in Nat, NEW from \in 0 .. now, NEW pace \in Paces
    PROVE  /\ LedgersAsked(from, now) \in Nat
           /\ FirstAsked(from, now, pace) \in Int /\ FirstAsked(from, now, pace) <= now
<1>1. PICK l \in Nat \ {0} : l = LedgerSeconds
  BY ReporterAssumption
<1>2. PICK a \in Nat : a = now - from + l - 1
  BY <1>1
<1>3. a \div l \in Nat
  BY <1>1, <1>2
<1>4. PICK n \in Nat : n = LedgersAsked(from, now)
  <2>1. LedgersAsked(from, now) = (a \div l) + Margin
    BY <1>1, <1>2 DEF LedgersAsked
  <2>2. Margin \in Nat
    BY ReporterAssumption
  <2>3. (a \div l) + Margin \in Nat
    BY <1>3, <2>2
  <2> QED
    BY <2>1, <2>3
<1>5. PICK d \in Nat : d = n * pace
  BY <1>4, ReporterAssumption
<1> QED
  BY <1>4, <1>5 DEF FirstAsked

\* The reporter's statistics (fetchPauseEvents, computePauseStats): as long as
\* nobody extends, re-triggers or releases late, the total is never more than
\* the time status() was true in the window, whatever ledgers really last and
\* the RPC forgets; and it is that time since the first ledger asked for, when
\* the RPC remembers that far and no pause straddles that ledger.
THEOREM StatisticsAreExact == RecordSpec => []PauseStatsExact
<1>1. WholeInv => PauseStatsExact
  <2> SUFFICES ASSUME WholeInv, quirks = {}, NEW from \in 0 .. now, NEW pace \in Paces,
                      NEW pauses \in FetchPauseEvents(from, now, pace), NEW seen,
                      seen = {t \in pausedAt : t >= from /\ t >= FirstAsked(from, now, pace)}
               PROVE  /\ ComputePauseStats(pauses, from, now).total <= Cardinality(seen)
                      /\ /\ FirstAsked(from, now, pace) - 1 \notin pausedAt
                         /\ LedgersAsked(from, now) <= Retention
                         => ComputePauseStats(pauses, from, now).total = Cardinality(seen)
    BY DEF PauseStatsExact
  <2>0. IInv /\ EventsInv /\ StatsInv /\ now \in Nat
    BY DEF WholeInv, IInv, TypeOK
  <2>1. PICK cut \in Int : cut = FirstAsked(from, now, pace) /\ cut <= now
    BY <2>0, FirstAskedIsPast
  <2>2. PICK w \in 0 .. now : w = IF from >= cut THEN from ELSE cut
    BY <2>0, <2>1
  <2>3. seen = PausedSince(w) /\ Cardinality(seen) \in Nat
    <3>1. \A t \in pausedAt : t \in Int
      BY <2>0 DEF StatsInv
    <3>2. seen = PausedSince(w)
      BY <2>0, <2>1, <2>2, <3>1 DEF PausedSince
    <3>3. w \in Nat
      BY <2>0
    <3> QED
      BY <2>0, <3>2, <3>3, PausedFinite
  <2>4. PICK ps \in Seq(Pair) : ps = PairPauseEvents(events, cut)
    BY <2>0, PairsTyped DEF EventsInv
  <2>5. Fits(ps, cut, w)
    BY <2>0, <2>1, <2>2, <2>4 DEF StatsInv
  <2>6. Spans(ps, from, now) = Spans(ps, w, now)
    <3>1. CASE from >= cut
      BY <2>2, <3>1
    <3>2. CASE from < cut
      <4>1. ASSUME NEW i \in 1 .. Len(ps)
            PROVE  CountedSpan(ps[i], from, now) = CountedSpan(ps[i], w, now)
        <5>1. PICK q \in Pair : q = ps[i]
          BY <4>1
        <5>2. q.pausedAt \in Nat /\ cut <= q.pausedAt
          BY <2>5, <4>1, <5>1, PairTyped DEF Fits
        <5>3. Max({q.pausedAt, from}) = Max({q.pausedAt, w})
          BY <2>0, <2>2, <3>2, <5>2, TwoOf
        <5> QED
          BY <5>1, <5>3 DEF CountedSpan
      <4> QED
        BY <4>1 DEF Spans
    <3> QED
      BY <2>0, <2>1, <3>1, <3>2
  <2>7. \A x : ComputePauseStats(x, from, now).total =
                 Added([i \in DOMAIN x |-> CountedSpan(x[i], from, now)])
    BY DEF ComputePauseStats, SumOver, Added
  <2>8. CASE pauses = ps
    <3>1. [i \in DOMAIN ps |-> CountedSpan(ps[i], from, now)] = Spans(ps, from, now)
      BY DEF Spans
    <3>2. ComputePauseStats(pauses, from, now).total = Added(Spans(ps, w, now))
      BY <2>6, <2>7, <2>8, <3>1
    <3> QED
      BY <2>1, <2>3, <2>5, <3>2 DEF Fits
  <2>9. CASE pauses = <<>> /\ LedgersAsked(from, now) > Retention
    <3>1. [i \in DOMAIN <<>> |-> CountedSpan(<<>>[i], from, now)] = Spans(<<>>, from, now)
      BY DEF Spans
    <3>2. ComputePauseStats(<<>>, from, now).total = Added(Spans(<<>>, from, now))
      BY <2>7, <3>1
    <3>4. ComputePauseStats(pauses, from, now).total = 0
      BY <2>9, <3>2, NothingSums
    <3>3. ~ (LedgersAsked(from, now) <= Retention)
      BY <2>0, <2>9, FirstAskedIsPast, ReporterAssumption
    <3> QED
      BY <2>3, <3>3, <3>4
  <2> QED
    BY <2>1, <2>4, <2>8, <2>9 DEF FetchPauseEvents
<1> QED
  BY <1>1, RecordHolds, PTL
\* What is shown: the episodes, the open one closed if it has lapsed by itself.
LEMMA ShownEpisodes ==
    ASSUME now \in Nat, NEW from, NEW r \in Progress, r = Replay(events, from), NEW eps,
           eps = Episodes(events, from, now)
    PROVE  /\ eps \in Seq(Episode) /\ Len(eps) = Len(r.episodes)
           /\ \A i \in 1 .. Len(r.episodes) :
                eps[i] = IF r.open /\ i = Len(r.episodes) /\ Lapsed(r.episodes[i], now)
                         THEN Resolve(r.episodes[i], "auto_expired", r.episodes[i].expiry)
                         ELSE r.episodes[i]
<1>1. PICK s \in Seq(Episode) : s = r.episodes
  BY ProgressFields
<1>2. Last(s) = Last(r.episodes) /\ (r.open => s # <<>> /\ Last(s) = s[Len(s)] /\ Last(s) \in Episode)
  BY <1>1, ProgressFields, LastOf
<1>3. CASE r.open /\ Lapsed(Last(s), now)
  <2>1. PICK x : x = Resolve(Last(s), "auto_expired", Last(s).expiry)
    OBVIOUS
  <2>2. Last(s) \in Episode /\ Last(s).expiry \in Nat
    BY <1>2, <1>3, EpisodeFields
  <2>3. x \in Episode
    BY <2>1, <2>2, ResolveFields
  <2>4. eps = WithLast(s, x)
    BY <1>1, <1>3, <2>1 DEF Episodes
  <2>5. /\ eps \in Seq(Episode) /\ Len(eps) = Len(s) /\ eps[Len(s)] = x
        /\ \A i \in 1 .. Len(s) : i # Len(s) => eps[i] = s[i]
    <3>1. s # <<>>
      BY <1>2, <1>3
    <3>2. PICK t : t = WithLast(s, x)
      OBVIOUS
    <3>3. /\ t \in Seq(Episode) /\ Len(t) = Len(s) /\ t[Len(s)] = x
          /\ \A i \in 1 .. Len(s) : i # Len(s) => t[i] = s[i]
      BY <2>3, <3>1, <3>2, LastReplaced
    <3> QED
      BY <2>4, <3>2, <3>3
  <2> QED
    BY <1>1, <1>2, <1>3, <2>1, <2>5
<1>4. CASE ~ (r.open /\ Lapsed(Last(s), now))
  <2>1. eps = s
    BY <1>1, <1>4 DEF Episodes
  <2> QED
    BY <1>1, <1>2, <1>4, <2>1
<1> QED
  BY <1>3, <1>4

LEMMA NewestShown ==
    ASSUME NEW eps \in Seq(Episode)
    PROVE  /\ Reverse(eps) # <<>> <=> Len(eps) # 0
           /\ Len(eps) # 0 => Reverse(eps)[1] = eps[Len(eps)]
<1>1. PICK s : s = Reverse(eps)
  OBVIOUS
<1>2. s = [i \in 1 .. Len(eps) |-> eps[(Len(eps) - i) + 1]]
  BY <1>1 DEF Reverse
<1>3. Len(eps) \in Nat
  OBVIOUS
<1>4. CASE Len(eps) = 0
  BY <1>1, <1>2, <1>4
<1>5. CASE Len(eps) # 0
  <2>1. 1 \in 1 .. Len(eps) /\ (Len(eps) - 1) + 1 = Len(eps)
    BY <1>3, <1>5
  <2>2. s[1] = eps[Len(eps)]
    BY <1>2, <2>1
  <2>3. s # <<>>
    <3>1. 1 \in DOMAIN s /\ 1 \notin DOMAIN <<>>
      BY <1>2, <2>1
    <3> QED
      BY <3>1
  <2> QED
    BY <1>1, <1>5, <2>2, <2>3
<1> QED
  BY <1>4, <1>5

\* The first row is active exactly while the record's pause is open and alive.
LEMMA ActiveRow ==
    ASSUME now \in Nat, NEW from, NEW r \in Progress, r = Replay(events, from), Follows(r, from),
           NEW eps, eps = Episodes(events, from, now)
    PROVE  (Len(eps) # 0 /\ eps[Len(eps)].resolution = "active")
             <=> (r.open /\ ~Lapsed(r.episodes[Len(r.episodes)], now))
<1> DEFINE n == Len(r.episodes)
<1>1. /\ Len(eps) = n
      /\ \A i \in 1 .. n :
           eps[i] = IF r.open /\ i = n /\ Lapsed(r.episodes[i], now)
                    THEN Resolve(r.episodes[i], "auto_expired", r.episodes[i].expiry)
                    ELSE r.episodes[i]
  BY ShownEpisodes
<1>2. /\ n \in Nat /\ \A i \in 1 .. n : r.episodes[i] \in Episode
      /\ r.open => n \in 1 .. n
  BY ProgressFields
<1>3. \A i \in 1 .. n : Over(r.episodes[i]) \/ (r.open /\ i = n)
  BY DEF Follows
<1>4. CASE ~r.open
  <2>1. \A i \in 1 .. n : eps[i].resolution # "active"
    BY <1>1, <1>3, <1>4 DEF Over
  <2> QED
    BY <1>1, <1>2, <1>4, <2>1
<1>5. CASE r.open
  <2>1. PICK ep \in Episode : ep = r.episodes[n]
    BY <1>2, <1>5
  <2>2. ep.expiry \in Nat /\ ep.resolution = "active"
    BY <1>5, <2>1, EpisodeFields DEF Follows, IsHeld
  <2>3. CASE Lapsed(ep, now)
    <3>1. eps[n] = Resolve(ep, "auto_expired", ep.expiry)
      BY <1>1, <1>2, <1>5, <2>1, <2>3
    <3>2. eps[n].resolution = "auto_expired"
      <4>1. PICK at \in Nat, how \in {"resumed_early", "auto_expired", "superseded"} :
              at = ep.expiry /\ how = "auto_expired"
        BY <2>2
      <4>2. Resolve(ep, how, at).resolution = how
        BY ResolveFields
      <4> QED
        BY <3>1, <4>1, <4>2
    <3> QED
      BY <1>1, <2>1, <2>3, <3>2
  <2>4. CASE ~Lapsed(ep, now)
    <3>1. eps[n] = ep
      BY <1>1, <1>2, <1>5, <2>1, <2>4
    <3> QED
      BY <1>1, <1>2, <1>5, <2>1, <2>2, <2>4, <3>1
  <2> QED
    BY <2>3, <2>4
<1> QED
  BY <1>4, <1>5

\* The durations shown are the lengths of the episodes.
LEMMA DurationsAreLengths ==
    ASSUME now \in Nat, NEW from, NEW r \in Progress, r = Replay(events, from), Follows(r, from),
           NEW eps, eps = Episodes(events, from, now)
    PROVE  [i \in DOMAIN eps |-> DurationShown(eps[i], now)] = Lengths(r.episodes, now)
<1> DEFINE n == Len(r.episodes)
<1>1. /\ Len(eps) = n /\ eps \in Seq(Episode)
      /\ \A i \in 1 .. n :
           eps[i] = IF r.open /\ i = n /\ Lapsed(r.episodes[i], now)
                    THEN Resolve(r.episodes[i], "auto_expired", r.episodes[i].expiry)
                    ELSE r.episodes[i]
  BY ShownEpisodes
<1>2. \A i \in 1 .. n : r.episodes[i] \in Episode
  BY ProgressFields
<1>3. ASSUME NEW i \in 1 .. n PROVE DurationShown(eps[i], now) = Length(r.episodes[i], now)
  <2>1. PICK ep \in Episode : ep = r.episodes[i]
    BY <1>2
  <2>2. ep.expiry \in Nat /\ None \notin Nat
    BY EpisodeFields
  <2>3. CASE ep.resolvedAt # None
    <3>1. ~ (r.open /\ i = n)
      BY <2>1, <2>3 DEF Follows, IsHeld
    <3>2. eps[i] = ep
      BY <1>1, <2>1, <3>1
    <3> QED
      BY <2>1, <2>3, <3>2 DEF DurationShown, Length
  <2>4. CASE ep.resolvedAt = None
    <3>1. r.open /\ i = n
      BY <2>1, <2>2, <2>4 DEF Follows, Over
    <3>2. CASE Lapsed(ep, now)
      <4>1. PICK x : x = Resolve(ep, "auto_expired", ep.expiry)
        OBVIOUS
      <4>2. x.resolvedAt = ep.expiry /\ x.pausedAt = ep.pausedAt
        BY <2>2, <4>1, ResolveFields
      <4>3. eps[i] = x
        BY <1>1, <2>1, <3>1, <3>2, <4>1
      <4> QED
        BY <2>1, <2>2, <2>4, <3>2, <4>2, <4>3 DEF DurationShown, Length
    <3>3. CASE ~Lapsed(ep, now)
      <4>1. eps[i] = ep
        BY <1>1, <2>1, <3>3
      <4> QED
        BY <2>1, <2>4, <3>3, <4>1 DEF DurationShown, Length
    <3> QED
      BY <3>2, <3>3
  <2> QED
    BY <2>3, <2>4
<1>4. DOMAIN eps = 1 .. n
  BY <1>1
<1> QED
  BY <1>3, <1>4 DEF Lengths

\* The incidents page (reconstructPauseHistory): its first row is active exactly
\* while status() is true, unless the pause began before the lookback; and without
\* late releases the durations of the whole history add up to the paused time.
THEOREM IncidentsAreTrue == RecordSpec => []ReplayIsTrue
<1>1. ASSUME WholeInv PROVE ReplayIsTrue
  <2>0. IInv /\ EventsInv /\ StatsInv /\ HistoryInv
    BY <1>1 DEF WholeInv
  <2>1. now \in Nat /\ now - Lookback \in Int
    BY <2>0, LookbackAssumption DEF IInv, TypeOK
  <2>2. PICK since \in Int : since = now - Lookback
    BY <2>1
  <2>3. PICK r, eps : r = Replay(events, since) /\ eps = Episodes(events, since, now)
    OBVIOUS
  <2>4. r \in Progress /\ Follows(r, since)
    BY <2>0, <2>3, ReplayTyped DEF EventsInv, HistoryInv
  <2>5. eps \in Seq(Episode) /\ Len(eps) = Len(r.episodes)
    BY <2>1, <2>3, <2>4, ShownEpisodes
  <2>6. (Len(eps) # 0 /\ eps[Len(eps)].resolution = "active")
          <=> (r.open /\ ~Lapsed(r.episodes[Len(r.episodes)], now))
    BY <2>1, <2>3, <2>4, ActiveRow
  <2>7. PICK shown : shown = ReconstructPauseHistory(since, now)
    OBVIOUS
  <2>8. /\ shown # <<>> <=> Len(eps) # 0
        /\ Len(eps) # 0 => shown[1] = eps[Len(eps)]
    BY <2>3, <2>5, <2>7, NewestShown DEF ReconstructPauseHistory
  <2>9. r.open => /\ pause # None /\ pause.paused /\ pause \in PauseState
                  /\ r.episodes[Len(r.episodes)].expiry = pause.pauseExpiry
    BY <2>0, <2>4 DEF Follows, Held, IsHeld, IInv, TypeOK
  <2>10. r.open => (Status <=> ~Lapsed(r.episodes[Len(r.episodes)], now))
    BY <2>1, <2>9 DEF Status, Lapsed, PauseState
  <2>11. Status => r.open \/ EarlierPause(since)
    BY <2>4 DEF Follows, Held, Status
  <2>12. /\ (shown # <<>> /\ shown[1].resolution = "active") => Status
         /\ Status => \/ shown # <<>> /\ shown[1].resolution = "active"
                      \/ EarlierPause(since)
    BY <2>6, <2>8, <2>10, <2>11
  <2>13. EarlierPause(since) =>
           \E i \in DOMAIN events : events[i].type = "paused" /\ events[i].at < since
    BY <2>0 DEF EarlierPause, EventsInv
  <2>14. ASSUME "late resume" \notin quirks
         PROVE  FoldFunction(LAMBDA x, y : x + y, 0,
                             [i \in DOMAIN Episodes(events, 0, now) |->
                                DurationShown(Episodes(events, 0, now)[i], now)])
                  = Cardinality(pausedAt)
    <3>1. PICK all, whole : all = Episodes(events, 0, now) /\ whole = Replay(events, 0)
      OBVIOUS
    <3>2. whole \in Progress /\ Follows(whole, 0)
      BY <2>0, <3>1, WholeHistory
    <3>3. [i \in DOMAIN all |-> DurationShown(all[i], now)] = Lengths(whole.episodes, now)
      BY <2>1, <3>1, <3>2, DurationsAreLengths
    <3>4. Added(Lengths(whole.episodes, now)) = Cardinality(pausedAt)
      BY <2>0, <2>14, <3>1 DEF HistoryInv
    <3> QED
      BY <3>1, <3>3, <3>4 DEF Added
  <2> QED
    BY <2>2, <2>7, <2>12, <2>13, <2>14 DEF ReplayIsTrue, SumOver
<1> QED
  BY <1>1, RecordHolds, PTL
=============================================================================
