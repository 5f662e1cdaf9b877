---------------------------- MODULE KeeperProofs ----------------------------
(***************************************************************************)
(* The keeper's loops: the webhook with the alert dispatcher behind it,    *)
(* for every set of nodes, every quorum and window and any number of       *)
(* updates; the forecaster for every history of burns, all bounds, bands   *)
(* and smoothing factors; and the reporter behind it for every log, every  *)
(* window and any interleaving of the processes that share its files.      *)
(* Behaviours are of any length.                                           *)
(***************************************************************************)
EXTENDS AlertDispatcher, SlaReport, FoldLemmas, TLAPS

\* Every node counted in a group that is still open was heard after the group
\* began, and its notification is not out of the window yet.
ConfirmedWereHeard ==
    \A u \in Updates : groups[u] # None /\ ~Expired(groups[u]) =>
        \A v \in groups[u].confirming :
            heard[u][v] # None /\ heard[u][v] >= groups[u].firstSeen

\* What the tracker still holds of an update that was handed over: nothing, once
\* the window is past; the resolved group; or one begun after the window.
HandedIsRemembered ==
    \A u \in Updates : handed[u] # None =>
        \/ groups[u] = None /\ now > handed[u] + WindowSeconds
        \/ /\ groups[u] # None /\ groups[u].resolved
           /\ groups[u].firstSeen = handed[u]
        \/ /\ groups[u] # None /\ ~groups[u].resolved
           /\ groups[u].firstSeen > handed[u] + WindowSeconds

\* No group begins in the future.
BegunByNow == \A u \in Updates : groups[u] # None => groups[u].firstSeen <= now

TrackerInv ==
    /\ WebhookTypeOK
    /\ BegunByNow
    /\ ConfirmedWereHeard
    /\ HandedIsRemembered

-----------------------------------------------------------------------------
LEMMA NoneIsNoTime == None \notin Nat
  BY WindowAssumption

LEMMA PruneExpiredType ==
    ASSUME WebhookTypeOK
    PROVE  PruneExpired \in [Updates -> Group \cup {None}]
  BY DEF WebhookTypeOK, PruneExpired

LEMMA KnownType ==
    ASSUME WebhookTypeOK, NEW group \in Group \cup {None}
    PROVE  Known(group) \in Group
  BY DEF WebhookTypeOK, Known, Group

LEMMA GroupUpdate ==
    ASSUME NEW group \in Group, NEW nodes \in SUBSET Trusted, NEW done \in BOOLEAN
    PROVE  /\ [group EXCEPT !.confirming = nodes, !.resolved = done] =
                [firstSeen |-> group.firstSeen, confirming |-> nodes, resolved |-> done]
           /\ [group EXCEPT !.confirming = nodes, !.resolved = done] \in Group
<1>1. [group EXCEPT !.confirming = nodes, !.resolved = done] =
         [firstSeen |-> group.firstSeen, confirming |-> nodes, resolved |-> done]
  <2> DEFINE next == [group EXCEPT !.confirming = nodes, !.resolved = done]
             plain == [firstSeen |-> group.firstSeen, confirming |-> nodes,
                       resolved |-> done]
  <2>1. DOMAIN next = {"firstSeen", "confirming", "resolved"} /\ DOMAIN plain = DOMAIN next
    BY DEF Group
  <2>2. next["firstSeen"] = plain["firstSeen"]
    BY DEF Group
  <2>3. next["confirming"] = plain["confirming"]
    BY DEF Group
  <2>4. next["resolved"] = plain["resolved"]
    BY DEF Group
  <2>5. \A f \in DOMAIN next : next[f] = plain[f]
    BY <2>1, <2>2, <2>3, <2>4
  <2> QED
    BY <2>1, <2>5
<1>2. [firstSeen |-> group.firstSeen, confirming |-> nodes, resolved |-> done] \in Group
  BY DEF Group
<1> QED
  BY <1>1, <1>2

LEMMA PrunedIsKept ==
    ASSUME NEW u \in Updates, PruneExpired[u] # None
    PROVE  PruneExpired[u] = groups[u] /\ groups[u] # None /\ ~Expired(groups[u])
  BY DEF PruneExpired

-----------------------------------------------------------------------------
\* The three branches of recordNotification.
Counted(v, u, genuine) ==
    Accepted(v, genuine) /\ ~Known(PruneExpired[u]).resolved

Reached(v, u) ==
    /\ v \notin Known(PruneExpired[u]).confirming
    /\ Cardinality(Known(PruneExpired[u]).confirming \cup {v}) >= QuorumSize

LEMMA NotCounted ==
    ASSUME NEW v, NEW u, NEW genuine,
           RecordNotification(v, u, genuine), ~Counted(v, u, genuine)
    PROVE  groups' = PruneExpired /\ quoting' = quoting /\ handed' = handed
  BY DEF RecordNotification, Counted

LEMMA CountedCase ==
    ASSUME NEW v, NEW u, NEW genuine,
           RecordNotification(v, u, genuine), Counted(v, u, genuine)
    PROVE  LET group == Known(PruneExpired[u]) IN
           /\ Reached(v, u) \in BOOLEAN
           /\ groups' = [PruneExpired EXCEPT ![u] =
                [group EXCEPT !.confirming = group.confirming \cup {v},
                              !.resolved = Reached(v, u)]]
           /\ quoting' = IF Reached(v, u) THEN [quoting EXCEPT ![u] = @ + 1]
                         ELSE quoting
           /\ handed' = IF Reached(v, u) THEN [handed EXCEPT ![u] = group.firstSeen]
                        ELSE handed
<1>1. Accepted(v, genuine) /\ ~Known(PruneExpired[u]).resolved
  BY DEF Counted
<1> QED
  BY <1>1 DEF RecordNotification, Reached

LEMMA CountedType ==
    ASSUME WebhookTypeOK, NEW v \in Verifiers, NEW u \in Updates, NEW genuine,
           RecordNotification(v, u, genuine), Counted(v, u, genuine)
    PROVE  LET group == Known(PruneExpired[u]) IN
           /\ group \in Group
           /\ groups'[u] = [firstSeen |-> group.firstSeen,
                            confirming |-> group.confirming \cup {v},
                            resolved |-> Reached(v, u)]
           /\ groups'[u] \in Group
           /\ \A w \in Updates : w # u => groups'[w] = PruneExpired[w]
           /\ groups' \in [Updates -> Group \cup {None}]
<1> DEFINE group == Known(PruneExpired[u])
           next == [group EXCEPT !.confirming = group.confirming \cup {v},
                                 !.resolved = Reached(v, u)]
<1>1. group \in Group
  BY PruneExpiredType, KnownType
<1>2. groups' = [PruneExpired EXCEPT ![u] = next] /\ Reached(v, u) \in BOOLEAN
  BY CountedCase
<1>3. v \in Trusted
  BY DEF Counted, Accepted
<1>4. group.confirming \cup {v} \in SUBSET Trusted
  BY <1>1, <1>3 DEF Group
<1>5. /\ next = [firstSeen |-> group.firstSeen, confirming |-> group.confirming \cup {v},
                 resolved |-> Reached(v, u)]
      /\ next \in Group
  <2> HIDE DEF group
  <2> QED
    BY <1>1, <1>2, <1>4, GroupUpdate
<1> HIDE DEF next
<1>6. PruneExpired \in [Updates -> Group \cup {None}]
  BY PruneExpiredType
<1> QED
  BY <1>1, <1>2, <1>5, <1>6

-----------------------------------------------------------------------------
\* A notification keeps the types.
LEMMA NotifyType ==
    ASSUME WebhookTypeOK, NEW v \in Verifiers, NEW u \in Updates, NEW genuine \in BOOLEAN,
           Notify(v, u, genuine)
    PROVE  WebhookTypeOK'
<1>1. RecordNotification(v, u, genuine)
  BY DEF Notify
<1>2. heard' \in [Updates -> [Trusted -> Nat \cup {None}]]
  BY DEF Notify, WebhookTypeOK
<1>3. CASE Counted(v, u, genuine)
  <2> DEFINE group == Known(PruneExpired[u])
  <2>1. group \in Group /\ groups' \in [Updates -> Group \cup {None}]
    BY <1>1, <1>3, CountedType
  <2>2. group.firstSeen \in Nat
    BY <2>1 DEF Group
  <2>3. /\ quoting' = IF Reached(v, u) THEN [quoting EXCEPT ![u] = @ + 1] ELSE quoting
        /\ handed' = IF Reached(v, u) THEN [handed EXCEPT ![u] = group.firstSeen]
                     ELSE handed
    BY <1>1, <1>3, CountedCase
  <2> HIDE DEF group
  <2> QED
    BY <1>2, <2>1, <2>2, <2>3 DEF Notify, WebhookTypeOK
<1>4. CASE ~Counted(v, u, genuine)
  <2>1. groups' = PruneExpired /\ quoting' = quoting /\ handed' = handed
    BY <1>1, <1>4, NotCounted
  <2> QED
    BY <1>2, <2>1, PruneExpiredType DEF Notify, WebhookTypeOK
<1> QED
  BY <1>3, <1>4

\* What a notification does to the groups: it drops the expired ones, and may add
\* its signer to one, new or open.
LEMMA NotifyGroups ==
    ASSUME TrackerInv, NEW v \in Verifiers, NEW u \in Updates, NEW genuine \in BOOLEAN,
           Notify(v, u, genuine), NEW x \in Updates, groups'[x] # None
    PROVE  \/ groups'[x] = groups[x] /\ ~Expired(groups[x])
           \/ /\ x = u /\ Counted(v, u, genuine)
              /\ groups'[x].confirming = Known(PruneExpired[u]).confirming \cup {v}
              /\ groups'[x].firstSeen = Known(PruneExpired[u]).firstSeen
              /\ groups'[x].resolved = Reached(v, u)
<1>1. RecordNotification(v, u, genuine)
  BY DEF Notify
<1>2. CASE Counted(v, u, genuine) /\ x = u
  <2> DEFINE group == Known(PruneExpired[u])
             done == Reached(v, u)
  <2>1. groups'[u] = [firstSeen |-> group.firstSeen, confirming |-> group.confirming \cup {v},
                     resolved |-> done]
    BY <1>1, <1>2, CountedType DEF TrackerInv
  <2> HIDE DEF group, done
  <2>2. /\ groups'[u].confirming = group.confirming \cup {v}
        /\ groups'[u].firstSeen = group.firstSeen
        /\ groups'[u].resolved = done
    BY <2>1
  <2> QED
    BY <1>2, <2>2 DEF group, done
<1>3. CASE Counted(v, u, genuine) /\ x # u
  <2>1. groups'[x] = PruneExpired[x]
    BY <1>1, <1>3, CountedType DEF TrackerInv
  <2> QED
    BY <2>1, PrunedIsKept
<1>4. CASE ~Counted(v, u, genuine)
  <2>1. groups'[x] = PruneExpired[x]
    BY <1>1, <1>4, NotCounted
  <2> QED
    BY <2>1, PrunedIsKept
<1> QED
  BY <1>2, <1>3, <1>4

\* The group a notification is counted in: a new one, or one still open.
LEMMA KnownGroup ==
    ASSUME TrackerInv, NEW u \in Updates
    PROVE  LET group == Known(PruneExpired[u]) IN
           \/ /\ PruneExpired[u] = None
              /\ group = [firstSeen |-> now, confirming |-> {}, resolved |-> FALSE]
           \/ group = groups[u] /\ groups[u] # None /\ ~Expired(groups[u])
  BY PrunedIsKept DEF Known

LEMMA NotifyHeard ==
    ASSUME TrackerInv, NEW v \in Verifiers, NEW u \in Updates, NEW genuine \in BOOLEAN,
           Notify(v, u, genuine), NEW x \in Updates, NEW w \in Trusted
    PROVE  /\ heard'[x][w] = heard[x][w] \/ heard'[x][w] = now
           /\ Accepted(v, genuine) => heard'[u][v] = now
  BY DEF Notify, Accepted, TrackerInv, WebhookTypeOK

LEMMA NotifyConfirmed ==
    ASSUME TrackerInv, NEW v \in Verifiers, NEW u \in Updates, NEW genuine \in BOOLEAN,
           Notify(v, u, genuine)
    PROVE  BegunByNow' /\ ConfirmedWereHeard'
<1>1. now' = now /\ now \in Nat /\ now # None
  BY NoneIsNoTime DEF Notify, TrackerInv, WebhookTypeOK
<1>2. SUFFICES ASSUME NEW x \in Updates, groups'[x] # None
               PROVE  /\ groups'[x].firstSeen <= now
                      /\ \A w \in groups'[x].confirming :
                            heard'[x][w] # None /\ heard'[x][w] >= groups'[x].firstSeen
  BY <1>1 DEF BegunByNow, ConfirmedWereHeard
<1>3. CASE groups'[x] = groups[x] /\ ~Expired(groups[x])
  <2>1. groups[x] \in Group /\ groups[x].firstSeen <= now
    BY <1>2, <1>3 DEF TrackerInv, WebhookTypeOK, BegunByNow
  <2>2. SUFFICES ASSUME NEW w \in groups[x].confirming
                 PROVE  heard'[x][w] # None /\ heard'[x][w] >= groups[x].firstSeen
    BY <1>3, <2>1
  <2>3. heard[x][w] # None /\ heard[x][w] >= groups[x].firstSeen /\ w \in Trusted
    BY <1>2, <1>3, <2>1, <2>2 DEF TrackerInv, ConfirmedWereHeard, Group
  <2>4. groups[x].firstSeen \in Nat
    BY <2>1 DEF Group
  <2> QED
    BY <1>1, <2>1, <2>3, <2>4, NotifyHeard
<1>4. CASE /\ x = u /\ Counted(v, u, genuine)
           /\ groups'[x].confirming = Known(PruneExpired[u]).confirming \cup {v}
           /\ groups'[x].firstSeen = Known(PruneExpired[u]).firstSeen
  <2> DEFINE group == Known(PruneExpired[u])
  <2>1. Accepted(v, genuine)
    BY <1>4 DEF Counted
  <2>2. CASE group = [firstSeen |-> now, confirming |-> {}, resolved |-> FALSE]
    <3>1. groups'[x].confirming = {v} /\ groups'[x].firstSeen = now
      BY <1>4, <2>2
    <3>2. heard'[x][v] = now
      BY <1>4, <2>1, NotifyHeard DEF Accepted
    <3> QED
      BY <1>1, <3>1, <3>2
  <2>3. CASE group = groups[u] /\ groups[u] # None /\ ~Expired(groups[u])
    <3>1. groups[u] \in Group /\ groups[u].firstSeen <= now
      BY <2>3 DEF TrackerInv, WebhookTypeOK, BegunByNow
    <3>2. groups[u].firstSeen \in Nat /\ groups[u].confirming \subseteq Trusted
      BY <3>1 DEF Group
    <3>3. \A w \in groups[u].confirming :
            heard[u][w] # None /\ heard[u][w] >= groups[u].firstSeen
      BY <2>3 DEF TrackerInv, ConfirmedWereHeard
    <3>4. groups'[x].firstSeen = groups[u].firstSeen
      BY <1>4, <2>3
    <3>5. ASSUME NEW w \in groups'[x].confirming
          PROVE  heard'[x][w] # None /\ heard'[x][w] >= groups[u].firstSeen
      <4>1. CASE w = v
        BY <1>1, <1>4, <2>1, <3>1, <3>2, <4>1, NotifyHeard DEF Accepted
      <4>2. CASE w \in groups[u].confirming
        BY <1>1, <1>4, <3>1, <3>2, <3>3, <4>2, NotifyHeard
      <4> QED
        BY <1>4, <2>3, <3>5, <4>1, <4>2
    <3> QED
      BY <3>1, <3>4, <3>5
  <2> QED
    BY <2>2, <2>3, KnownGroup
<1> QED
  BY <1>2, <1>3, <1>4, NotifyGroups

\* A quorum hands over the group it completes, which is begun later than a window
\* after the one handed over before.
LEMMA HandOver ==
    ASSUME TrackerInv, NEW v \in Verifiers, NEW u \in Updates, NEW genuine \in BOOLEAN,
           Notify(v, u, genuine), Counted(v, u, genuine)
    PROVE  handed[u] # None =>
              Known(PruneExpired[u]).firstSeen > handed[u] + WindowSeconds
<1> DEFINE group == Known(PruneExpired[u])
<1>1. ~group.resolved
  BY DEF Counted
<1>2. SUFFICES ASSUME handed[u] # None PROVE group.firstSeen > handed[u] + WindowSeconds
  OBVIOUS
<1>3. now \in Nat /\ handed[u] \in Nat /\ WindowSeconds \in Nat
  BY <1>2, WindowAssumption DEF TrackerInv, WebhookTypeOK
<1>4. CASE /\ PruneExpired[u] = None
           /\ group = [firstSeen |-> now, confirming |-> {}, resolved |-> FALSE]
  <2>1. group.firstSeen = now
    BY <1>4
  <2>2. groups[u] = None \/ (groups[u] # None /\ Expired(groups[u]))
    BY <1>4 DEF PruneExpired
  <2>3. ASSUME groups[u] # None, Expired(groups[u])
        PROVE  groups[u].firstSeen \in Nat /\ now > groups[u].firstSeen + WindowSeconds
    <3>1. groups[u] \in Group
      BY <2>3 DEF TrackerInv, WebhookTypeOK
    <3>2. groups[u].firstSeen \in Nat
      BY <3>1 DEF Group
    <3> QED
      BY <1>3, <2>3, <3>2 DEF Expired
  <2> QED
    BY <1>2, <1>3, <2>1, <2>2, <2>3 DEF TrackerInv, HandedIsRemembered
<1>5. CASE group = groups[u] /\ groups[u] # None
  BY <1>1, <1>2, <1>5 DEF TrackerInv, HandedIsRemembered
<1> QED
  BY <1>4, <1>5, KnownGroup

\* Pruning loses nothing that is still needed.
LEMMA PrunedIsRemembered ==
    ASSUME TrackerInv, NEW x \in Updates, handed[x] # None
    PROVE  LET left == PruneExpired[x] IN
           \/ left = None /\ now > handed[x] + WindowSeconds
           \/ left # None /\ left.resolved /\ left.firstSeen = handed[x]
           \/ left # None /\ ~left.resolved /\ left.firstSeen > handed[x] + WindowSeconds
<1>1. now \in Nat /\ handed[x] \in Nat /\ WindowSeconds \in Nat
  BY WindowAssumption DEF TrackerInv, WebhookTypeOK
<1>2. CASE groups[x] = None
  BY <1>2 DEF PruneExpired, Expired, TrackerInv, HandedIsRemembered
<1>3. CASE groups[x] # None /\ ~Expired(groups[x])
  BY <1>3 DEF PruneExpired, TrackerInv, HandedIsRemembered
<1>4. CASE groups[x] # None /\ Expired(groups[x])
  <2>1. groups[x] \in Group
    BY <1>4 DEF TrackerInv, WebhookTypeOK
  <2>2. groups[x].firstSeen \in Nat /\ now > groups[x].firstSeen + WindowSeconds
    BY <1>1, <1>4, <2>1 DEF Expired, Group
  <2>3. groups[x].firstSeen >= handed[x]
    BY <1>1, <1>4, <2>2 DEF TrackerInv, HandedIsRemembered
  <2> QED
    BY <1>1, <1>4, <2>2, <2>3 DEF PruneExpired
<1> QED
  BY <1>2, <1>3, <1>4

LEMMA NotifyHanded ==
    ASSUME TrackerInv, NEW v \in Verifiers, NEW u \in Updates, NEW genuine \in BOOLEAN,
           Notify(v, u, genuine)
    PROVE  HandedIsRemembered'
<1>1. RecordNotification(v, u, genuine) /\ now' = now
  BY DEF Notify
<1> DEFINE group == Known(PruneExpired[u])
           Remembered(x) ==
             \/ groups'[x] = None /\ now > handed'[x] + WindowSeconds
             \/ groups'[x] # None /\ groups'[x].resolved
                  /\ groups'[x].firstSeen = handed'[x]
             \/ groups'[x] # None /\ ~groups'[x].resolved
                  /\ groups'[x].firstSeen > handed'[x] + WindowSeconds
<1>2. SUFFICES ASSUME NEW x \in Updates, handed'[x] # None PROVE Remembered(x)
  BY <1>1 DEF HandedIsRemembered
<1>3. CASE groups'[x] = PruneExpired[x] /\ handed'[x] = handed[x]
  <2>1. LET left == PruneExpired[x] IN
        \/ left = None /\ now > handed[x] + WindowSeconds
        \/ left # None /\ left.resolved /\ left.firstSeen = handed[x]
        \/ left # None /\ ~left.resolved /\ left.firstSeen > handed[x] + WindowSeconds
    BY <1>2, <1>3, PrunedIsRemembered
  <2> QED
    BY <1>3, <2>1
<1>4. CASE ~Counted(v, u, genuine)
  BY <1>1, <1>3, <1>4, NotCounted
<1>5. CASE Counted(v, u, genuine) /\ x # u
  <2>1. groups'[x] = PruneExpired[x]
    BY <1>1, <1>5, CountedType DEF TrackerInv
  <2>2. handed'[x] = handed[x]
    <3>1. handed' = IF Reached(v, u) THEN [handed EXCEPT ![u] = group.firstSeen]
                    ELSE handed
      BY <1>1, <1>5, CountedCase
    <3> HIDE DEF group
    <3> QED
      BY <1>5, <3>1 DEF TrackerInv, WebhookTypeOK
  <2> QED
    BY <1>3, <2>1, <2>2
<1>6. CASE Counted(v, u, genuine) /\ x = u
  <2> DEFINE done == Reached(v, u)
  <2>1. groups'[u] \in Group
    BY <1>1, <1>6, CountedType DEF TrackerInv
  <2>2. groups'[u] # None
    BY <2>1, NoGroupAssumption
  <2>3. groups'[u] = [firstSeen |-> group.firstSeen, confirming |-> group.confirming \cup {v},
                     resolved |-> done]
    BY <1>1, <1>6, CountedType DEF TrackerInv
  <2>4. groups'[u].firstSeen = group.firstSeen /\ groups'[u].resolved = done
    <3> HIDE DEF group, done
    <3> QED
      BY <2>3
  <2>5. handed'[u] = IF done THEN group.firstSeen ELSE handed[u]
    BY <1>1, <1>6, CountedCase DEF TrackerInv, WebhookTypeOK
  <2>6. handed[u] # None => group.firstSeen > handed[u] + WindowSeconds
    BY <1>6, HandOver
  <2>7. done \in BOOLEAN
    BY <1>1, <1>6, CountedCase
  <2> HIDE DEF group, done
  <2> QED
    BY <1>2, <1>6, <2>2, <2>4, <2>5, <2>6, <2>7
<1> QED
  BY <1>4, <1>5, <1>6

-----------------------------------------------------------------------------
LEMMA TrackerInit == WebhookInit => TrackerInv
<1> SUFFICES ASSUME WebhookInit PROVE TrackerInv
  OBVIOUS
<1>1. WebhookTypeOK
  BY DEF WebhookInit, WebhookTypeOK
<1>2. BegunByNow /\ ConfirmedWereHeard /\ HandedIsRemembered
  BY DEF WebhookInit, BegunByNow, ConfirmedWereHeard, HandedIsRemembered
<1> QED
  BY <1>1, <1>2 DEF TrackerInv

\* The dispatcher shares one variable with the webhook, the count of faults.
WebhookStep ==
    \/ [WebhookNext]_webhookVars
    \/ UNCHANGED <<now, trackerVars, handlerVars, pauses>> /\ faults' = faults + 1

LEMMA PipelineIsWebhook == [PipelineNext]_pipelineVars => WebhookStep
<1> SUFFICES ASSUME [PipelineNext]_pipelineVars PROVE WebhookStep
  OBVIOUS
<1>1. CASE WebhookNext
  BY <1>1 DEF WebhookStep
<1>2. CASE TickStep
  BY <1>2 DEF TickStep, TickStarts, FetchPauses, TellPause, ReadLog, TellRecall,
              TellLevel, SaveState, WebhookStep
<1>3. CASE DispatcherDies
  BY <1>3 DEF DispatcherDies, WebhookStep
<1>4. CASE (\E c \in Configs : WriteConfig(c)) \/ LogRecall \/ LevelMoves
  BY <1>4 DEF WriteConfig, LogRecall, LevelMoves, WebhookStep
<1>5. CASE UNCHANGED pipelineVars
  BY <1>5 DEF pipelineVars, WebhookStep
<1> QED
  BY <1>1, <1>2, <1>3, <1>4, <1>5 DEF PipelineNext

LEMMA PipelineStart == PipelineInit => WebhookInit
  BY DEF PipelineInit

\* Steps that leave clock and tracker alone keep what is said of them.
LEMMA TrackerUntouched ==
    ASSUME TrackerInv, UNCHANGED <<now, groups, heard, handed>>
    PROVE  BegunByNow' /\ ConfirmedWereHeard' /\ HandedIsRemembered'
  BY DEF TrackerInv, BegunByNow, ConfirmedWereHeard, HandedIsRemembered, Expired

LEMMA TrackerStep == TrackerInv /\ WebhookStep => TrackerInv'
<1> SUFFICES ASSUME TrackerInv, WebhookStep PROVE TrackerInv'
  OBVIOUS
<1>1. ASSUME NEW v \in Verifiers, NEW u \in Updates, NEW genuine \in BOOLEAN,
             Notify(v, u, genuine)
      PROVE  TrackerInv'
  <2>1. WebhookTypeOK'
    BY <1>1, NotifyType DEF TrackerInv
  <2> QED
    BY <1>1, <2>1, NotifyConfirmed, NotifyHanded DEF TrackerInv
<1>2. ASSUME NEW u \in Updates, NEW q \in Quotes, CrossCheck(u, q) PROVE TrackerInv'
  <2>1. WebhookTypeOK'
    BY <1>2 DEF CrossCheck, TrackerInv, WebhookTypeOK, trackerVars
  <2> QED
    BY <1>2, <2>1, TrackerUntouched DEF CrossCheck, trackerVars, TrackerInv
<1>3. ASSUME NEW u \in Updates, PauseLands(u) PROVE TrackerInv'
  <2>1. WebhookTypeOK'
    BY <1>3 DEF PauseLands, TrackerInv, WebhookTypeOK, trackerVars
  <2> QED
    BY <1>3, <2>1, TrackerUntouched DEF PauseLands, trackerVars, TrackerInv
<1>4. ASSUME NEW u \in Updates, HandlerFails(u) PROVE TrackerInv'
  <2>1. quoting' \in [Updates -> Nat] /\ pausing' \in [Updates -> Nat]
    <3>1. CASE quoting[u] > 0 /\ quoting' = [quoting EXCEPT ![u] = @ - 1]
               /\ UNCHANGED pausing
      BY <3>1 DEF TrackerInv, WebhookTypeOK
    <3>2. CASE pausing[u] > 0 /\ pausing' = [pausing EXCEPT ![u] = @ - 1]
               /\ UNCHANGED quoting
      BY <3>2 DEF TrackerInv, WebhookTypeOK
    <3> QED
      BY <1>4, <3>1, <3>2 DEF HandlerFails
  <2>2. WebhookTypeOK'
    BY <1>4, <2>1 DEF HandlerFails, TrackerInv, WebhookTypeOK, trackerVars
  <2> QED
    BY <1>4, <2>2, TrackerUntouched DEF HandlerFails, trackerVars, TrackerInv
<1>5. CASE WebhookRestarts
  <2>1. WebhookTypeOK'
    BY <1>5 DEF WebhookRestarts, TrackerInv, WebhookTypeOK
  <2>2. BegunByNow' /\ ConfirmedWereHeard' /\ HandedIsRemembered'
    BY <1>5 DEF WebhookRestarts, BegunByNow, ConfirmedWereHeard, HandedIsRemembered
  <2> QED
    BY <2>1, <2>2 DEF TrackerInv
<1>6. CASE Second
  <2>1. WebhookTypeOK'
    BY <1>6 DEF Second, TrackerInv, WebhookTypeOK, handlerVars
  <2>2. groups' = groups /\ handed' = handed /\ now' = now + 1 /\ now \in Nat
    BY <1>6 DEF Second, TrackerInv, WebhookTypeOK
  <2>3. ASSUME NEW u \in Updates, groups[u] # None
        PROVE  /\ groups[u] \in Group /\ groups[u].firstSeen \in Nat
               /\ groups[u].firstSeen <= now
               /\ groups[u].confirming \subseteq Trusted
    BY <2>3 DEF TrackerInv, WebhookTypeOK, BegunByNow, Group
  <2>4. BegunByNow'
    BY <2>2, <2>3 DEF BegunByNow
  <2>5. ConfirmedWereHeard'
    <3>1. SUFFICES ASSUME NEW u \in Updates, groups[u] # None,
                          ~(now' - groups[u].firstSeen > WindowSeconds),
                          NEW v \in groups[u].confirming
                   PROVE  heard'[u][v] # None /\ heard'[u][v] >= groups[u].firstSeen
      BY <2>2 DEF ConfirmedWereHeard, Expired
    <3>2. ~Expired(groups[u])
      BY <2>2, <2>3, <3>1, WindowAssumption DEF Expired
    <3>3. heard[u][v] # None /\ heard[u][v] >= groups[u].firstSeen /\ v \in Trusted
      BY <2>3, <3>1, <3>2 DEF TrackerInv, ConfirmedWereHeard
    <3>4. heard[u][v] \in Nat
      BY <3>3 DEF TrackerInv, WebhookTypeOK
    <3>5. ~(now' - heard[u][v] > WindowSeconds)
      BY <2>2, <2>3, <3>1, <3>3, <3>4, WindowAssumption
    <3>6. heard'[u][v] = heard[u][v]
      BY <1>6, <3>3, <3>5 DEF Second
    <3> QED
      BY <3>3, <3>6
  <2>6. HandedIsRemembered'
    <3>1. \A u \in Updates : handed[u] # None => handed[u] \in Nat
      BY DEF TrackerInv, WebhookTypeOK
    <3> QED
      BY <2>2, <3>1, WindowAssumption DEF TrackerInv, HandedIsRemembered
  <2> QED
    BY <2>1, <2>4, <2>5, <2>6 DEF TrackerInv
<1>7. CASE UNCHANGED webhookVars
  <2>1. WebhookTypeOK'
    BY <1>7 DEF webhookVars, TrackerInv, WebhookTypeOK
  <2> QED
    BY <1>7, <2>1, TrackerUntouched DEF webhookVars, TrackerInv
<1>8. CASE UNCHANGED <<now, trackerVars, handlerVars, pauses>> /\ faults' = faults + 1
  <2>1. WebhookTypeOK'
    BY <1>8 DEF trackerVars, handlerVars, TrackerInv, WebhookTypeOK
  <2> QED
    BY <1>8, <2>1, TrackerUntouched DEF trackerVars, TrackerInv
<1> QED
  BY <1>1, <1>2, <1>3, <1>4, <1>5, <1>6, <1>7, <1>8 DEF WebhookStep, WebhookNext, HandlerStep

-----------------------------------------------------------------------------
\* Only the notification that completes a quorum hands an update over.
LEMMA HandOverIsNotify ==
    ASSUME TrackerInv, WebhookStep, NEW u \in Updates, HandedOver(u)
    PROVE  \E v \in Verifiers, genuine \in BOOLEAN :
              /\ Notify(v, u, genuine) /\ Counted(v, u, genuine) /\ Reached(v, u)
<1>1. quoting \in [Updates -> Nat] /\ quoting'[u] > quoting[u]
  BY DEF TrackerInv, WebhookTypeOK, HandedOver
<1>2. ASSUME NEW v \in Verifiers, NEW x \in Updates, NEW genuine \in BOOLEAN,
             Notify(v, x, genuine)
      PROVE  x = u /\ Counted(v, u, genuine) /\ Reached(v, u)
  <2>1. RecordNotification(v, x, genuine)
    BY <1>2 DEF Notify
  <2>2. Counted(v, x, genuine)
    BY <1>1, <2>1, NotCounted
  <2>3. quoting' = IF Reached(v, x) THEN [quoting EXCEPT ![x] = @ + 1] ELSE quoting
    BY <2>1, <2>2, CountedCase
  <2> QED
    BY <1>1, <2>2, <2>3
<1>3. ASSUME NEW x \in Updates, NEW q \in Quotes, CrossCheck(x, q) PROVE FALSE
  BY <1>1, <1>3 DEF CrossCheck
<1>4. ASSUME NEW x \in Updates, PauseLands(x) PROVE FALSE
  BY <1>1, <1>4 DEF PauseLands
<1>5. ASSUME NEW x \in Updates, HandlerFails(x) PROVE FALSE
  BY <1>1, <1>5 DEF HandlerFails
<1>6. CASE WebhookRestarts
  BY <1>1, <1>6 DEF WebhookRestarts
<1>7. CASE Second
  BY <1>1, <1>7 DEF Second, handlerVars
<1>8. CASE UNCHANGED webhookVars
  BY <1>1, <1>8 DEF webhookVars
<1>9. CASE UNCHANGED <<now, trackerVars, handlerVars, pauses>>
  BY <1>1, <1>9 DEF handlerVars
<1> QED
  BY <1>2, <1>3, <1>4, <1>5, <1>6, <1>7, <1>8, <1>9 DEF WebhookStep, WebhookNext, HandlerStep

\* A hand-over is preceded by QuorumSize distinct trusted nodes within the window.
LEMMA QuorumStep ==
    ASSUME TrackerInv, WebhookStep, NEW u \in Updates, HandedOver(u)
    PROVE  \E q \in SUBSET Trusted :
              /\ Cardinality(q) >= QuorumSize
              /\ \A v \in q : heard'[u][v] # None
<1>1. PICK v \in Verifiers, genuine \in BOOLEAN :
         Notify(v, u, genuine) /\ Counted(v, u, genuine) /\ Reached(v, u)
  BY HandOverIsNotify
<1> DEFINE group == Known(PruneExpired[u])
<1>2. RecordNotification(v, u, genuine) /\ now' = now
  BY <1>1 DEF Notify
<1>3. groups'[u] \in Group /\ groups'[u] # None
  BY <1>1, <1>2, CountedType, NoGroupAssumption DEF TrackerInv
<1>4. groups'[u].confirming = group.confirming \cup {v}
      /\ groups'[u].firstSeen = group.firstSeen
  <2> DEFINE done == Reached(v, u)
  <2>1. groups'[u] = [firstSeen |-> group.firstSeen, confirming |-> group.confirming \cup {v},
                     resolved |-> done]
    BY <1>1, <1>2, CountedType DEF TrackerInv
  <2> HIDE DEF group, done
  <2> QED
    BY <2>1
<1>5. Cardinality(groups'[u].confirming) >= QuorumSize
  BY <1>1, <1>4 DEF Reached
<1>6. groups'[u].confirming \in SUBSET Trusted
  BY <1>3 DEF Group
<1>7. ~(now' - groups'[u].firstSeen > WindowSeconds)
  <2>1. now \in Nat
    BY DEF TrackerInv, WebhookTypeOK
  <2> QED
    BY <1>2, <1>4, <2>1, KnownGroup, WindowAssumption DEF Expired
<1>8. \A w \in groups'[u].confirming : heard'[u][w] # None
  <2>1. ConfirmedWereHeard'
    BY <1>1, NotifyConfirmed
  <2> QED
    BY <1>3, <1>7, <2>1 DEF ConfirmedWereHeard, Expired
<1> QED
  BY <1>5, <1>6, <1>8

\* Strangers, forgeries, repetitions and late notifications never make up a
\* quorum (recordNotification in reflectorQuorum.ts).
THEOREM QuorumsAreReal == PipelineSpec => QuorumIsReal
<1>1. TrackerInv /\ WebhookStep =>
        [\A u \in Updates : HandedOver(u) =>
            \E q \in SUBSET Trusted :
               /\ Cardinality(q) >= QuorumSize
               /\ \A v \in q : heard'[u][v] # None]_webhookVars
  BY QuorumStep
<1> QED
  BY <1>1, TrackerInit, TrackerStep, PipelineStart, PipelineIsWebhook, PTL
     DEF PipelineSpec, QuorumIsReal

\* However its notifications are repeated, an update is handed over again only by
\* a group begun more than a window later (pruneExpired in reflectorQuorum.ts).
THEOREM OneHandOverPerWindow == PipelineSpec => HandedOncePerWindow
<1>1. TrackerInv /\ WebhookStep =>
        [\A u \in Updates : HandedOver(u) /\ handed[u] # None =>
            handed'[u] > handed[u] + WindowSeconds]_webhookVars
  <2> SUFFICES ASSUME TrackerInv, WebhookStep, NEW u \in Updates,
                      HandedOver(u), handed[u] # None
               PROVE  handed'[u] > handed[u] + WindowSeconds
    OBVIOUS
  <2>1. PICK v \in Verifiers, genuine \in BOOLEAN :
           Notify(v, u, genuine) /\ Counted(v, u, genuine) /\ Reached(v, u)
    BY HandOverIsNotify
  <2>2. handed'[u] = Known(PruneExpired[u]).firstSeen
    BY <2>1, CountedCase DEF Notify, TrackerInv, WebhookTypeOK
  <2> QED
    BY <2>1, <2>2, HandOver
<1> QED
  BY <1>1, TrackerInit, TrackerStep, PipelineStart, PipelineIsWebhook, PTL
     DEF PipelineSpec, HandedOncePerWindow

\* The types of the webhook's state.
THEOREM WebhookTypes == PipelineSpec => []WebhookTypeOK
<1>1. TrackerInv => WebhookTypeOK
  BY DEF TrackerInv
<1> QED
  BY <1>1, TrackerInit, TrackerStep, PipelineStart, PipelineIsWebhook, PTL DEF PipelineSpec
-----------------------------------------------------------------------------
\* The dispatcher: an alert is behind the mark of the running tick, and no longer
\* in its queue, before it can be counted on not to be sent again.
MarksShape(m) == m = [pause |-> m.pause, recall |-> m.recall, level |-> m.level]
TickShape(t) == t = [step |-> t.step, config |-> t.config, state |-> t.state, queue |-> t.queue]

Mark == IF tick.step = "idle" THEN file ELSE tick.state

PauseDone(i) ==
    /\ i \in DOMAIN pauses /\ pauses[i] <= Mark.pause
    /\ tick.step = "pauses" => i \notin tick.queue
RecallDone(i) ==
    /\ i \in DOMAIN recalls /\ recalls[i] <= Mark.recall
    /\ tick.step = "recalls" => i \notin tick.queue

InOrder(times) ==
    /\ DOMAIN times \subseteq Nat /\ \A i \in DOMAIN times : times[i] \in Int
    /\ \A i, j \in DOMAIN times : i <= j => times[i] <= times[j]

MarksOK(m) == MarksShape(m) /\ m.pause \in Int /\ m.recall \in Int

TickOK ==
    /\ TickShape(tick) /\ MarksOK(tick.state) /\ MarksOK(file)
    /\ tick.step \in {"idle", "events", "pauses", "recalls", "save"}

\* What is queued is past the mark.
QueueOK ==
    /\ tick.step = "pauses" =>
         /\ tick.queue \subseteq DOMAIN pauses
         /\ \A i \in tick.queue : pauses[i] >= tick.state.pause
    /\ tick.step = "recalls" =>
         /\ tick.queue \subseteq DOMAIN recalls
         /\ \A i \in tick.queue : recalls[i] >= tick.state.recall

TriedPauses ==
    /\ tried.pause = [i \in 1 .. MaxPauses |-> tried.pause[i]]
    /\ \A i \in 1 .. MaxPauses :
        /\ tried.pause[i] \in Nat /\ tried.pause[i] <= 1 + faults
        /\ ~PauseDone(i) => tried.pause[i] <= faults
TriedRecalls ==
    /\ tried.recall = [i \in 1 .. MaxRecalls |-> tried.recall[i]]
    /\ \A i \in 1 .. MaxRecalls :
        /\ tried.recall[i] \in Nat /\ tried.recall[i] <= 1 + faults
        /\ ~RecallDone(i) => tried.recall[i] <= faults

TriedOK ==
    /\ tried = [pause |-> tried.pause, recall |-> tried.recall]
    /\ TriedPauses /\ TriedRecalls

TimesOK ==
    /\ InOrder(pauses) /\ \A i \in DOMAIN pauses : pauses[i] <= now
    /\ InOrder(recalls) /\ recalls \in Seq(Int)

DispatchInv == WebhookTypeOK /\ TimesOK /\ TickOK /\ QueueOK /\ TriedOK

LEMMA DispatchInit == PipelineInit => DispatchInv
<1> SUFFICES ASSUME PipelineInit PROVE DispatchInv
  OBVIOUS
<1>1. WebhookTypeOK /\ pauses = <<>> /\ recalls = <<>> /\ faults = 0
  BY TrackerInit, PipelineStart DEF TrackerInv, PipelineInit, WebhookInit
<1>2. TimesOK
  BY <1>1 DEF TimesOK, InOrder
<1>3. TickOK /\ QueueOK
  BY DEF PipelineInit, TickOK, QueueOK, TickShape, MarksOK, MarksShape, Idle, NoMarks
<1>4. TriedOK
  BY <1>1, MarksAssumption DEF PipelineInit, TriedOK, TriedPauses, TriedRecalls
<1> QED
  BY <1>1, <1>2, <1>3, <1>4 DEF DispatchInv

\* Steps that tell nothing, and let nothing that is done be undone but by a fault.
LEMMA NothingTried ==
    ASSUME DispatchInv, tried' = tried, faults' \in Nat,
           \/ faults' = faults + 1
           \/ /\ faults' = faults
              /\ \A i \in 1 .. MaxPauses : PauseDone(i) => PauseDone(i)'
              /\ \A i \in 1 .. MaxRecalls : RecallDone(i) => RecallDone(i)'
    PROVE  TriedOK'
<1>1. faults \in Nat
  BY DEF DispatchInv, WebhookTypeOK
<1>2. CASE faults' = faults + 1
  BY <1>1, <1>2 DEF DispatchInv, TriedOK, TriedPauses, TriedRecalls
<1>3. CASE /\ faults' = faults
           /\ \A i \in 1 .. MaxPauses : PauseDone(i) => PauseDone(i)'
           /\ \A i \in 1 .. MaxRecalls : RecallDone(i) => RecallDone(i)'
  BY <1>1, <1>3 DEF DispatchInv, TriedOK, TriedPauses, TriedRecalls
<1> QED
  BY <1>2, <1>3

LEMMA MarkEdits ==
    ASSUME NEW m, MarksShape(m), NEW value
    PROVE  /\ [m EXCEPT !.pause = value] = [pause |-> value, recall |-> m.recall, level |-> m.level]
           /\ [m EXCEPT !.recall = value] = [pause |-> m.pause, recall |-> value, level |-> m.level]
           /\ [m EXCEPT !.level = value] = [pause |-> m.pause, recall |-> m.recall, level |-> value]
  BY DEF MarksShape

\* The alerts sent of one kind, with one more of them.
LEMMA TriedOnce ==
    ASSUME DispatchInv, NEW k
    PROVE  /\ TellOne("pause", k) =>
                /\ tried' = [pause |-> tried'.pause, recall |-> tried'.recall]
                /\ tried'.recall = tried.recall
                /\ tried'.pause = [i \in 1 .. MaxPauses |->
                                       IF i = k THEN tried.pause[k] + 1 ELSE tried.pause[i]]
           /\ TellOne("recall", k) =>
                /\ tried' = [pause |-> tried'.pause, recall |-> tried'.recall]
                /\ tried'.pause = tried.pause
                /\ tried'.recall = [i \in 1 .. MaxRecalls |->
                                        IF i = k THEN tried.recall[k] + 1 ELSE tried.recall[i]]
<1>1. /\ tried = [pause |-> tried.pause, recall |-> tried.recall]
      /\ tried.pause = [i \in 1 .. MaxPauses |-> tried.pause[i]]
      /\ tried.recall = [i \in 1 .. MaxRecalls |-> tried.recall[i]]
  BY DEF DispatchInv, TriedOK, TriedPauses, TriedRecalls
<1>2. ASSUME TellOne("pause", k)
      PROVE  /\ tried' = [pause |-> tried'.pause, recall |-> tried'.recall]
             /\ tried'.recall = tried.recall
             /\ tried'.pause = [i \in 1 .. MaxPauses |->
                                 IF i = k THEN tried.pause[k] + 1 ELSE tried.pause[i]]
  <2>1. PICK f : f = [tried.pause EXCEPT ![k] = tried.pause[k] + 1]
    OBVIOUS
  <2>2. f = [i \in 1 .. MaxPauses |-> IF i = k THEN tried.pause[k] + 1 ELSE tried.pause[i]]
    BY <1>1, <2>1
  <2>3. tried' = [tried EXCEPT !.pause = f]
    BY <1>2, <2>1 DEF TellOne
  <2>4. tried' = [pause |-> f, recall |-> tried.recall]
    BY <1>1, <2>3
  <2> QED
    BY <2>2, <2>4
<1>3. ASSUME TellOne("recall", k)
      PROVE  /\ tried' = [pause |-> tried'.pause, recall |-> tried'.recall]
             /\ tried'.pause = tried.pause
             /\ tried'.recall = [i \in 1 .. MaxRecalls |->
                                  IF i = k THEN tried.recall[k] + 1 ELSE tried.recall[i]]
  <2>1. PICK f : f = [tried.recall EXCEPT ![k] = tried.recall[k] + 1]
    OBVIOUS
  <2>2. f = [i \in 1 .. MaxRecalls |-> IF i = k THEN tried.recall[k] + 1 ELSE tried.recall[i]]
    BY <1>1, <2>1
  <2>3. tried' = [tried EXCEPT !.recall = f]
    BY <1>3, <2>1 DEF TellOne
  <2>4. tried' = [pause |-> tried.pause, recall |-> f]
    BY <1>1, <2>3
  <2> QED
    BY <2>2, <2>4
<1> QED
  BY <1>2, <1>3

\* What the webhook does to what the dispatcher reads: time passes, a pause lands
\* at the present instant, and a fault is counted.
LEMMA WebhookShort ==
    ASSUME WebhookTypeOK, WebhookNext
    PROVE  /\ now <= now'
           /\ pauses' = pauses \/ (pauses' = Append(pauses, now) /\ now' = now)
           /\ faults' = faults \/ faults' = faults + 1
<1>1. now \in Nat /\ now <= now
  BY DEF WebhookTypeOK
<1>2. CASE \E v \in Verifiers, u \in Updates, genuine \in BOOLEAN : Notify(v, u, genuine)
  BY <1>1, <1>2 DEF Notify
<1>3. CASE HandlerStep
  BY <1>1, <1>3 DEF HandlerStep, PauseLands, CrossCheck
<1>4. CASE \E u \in Updates : HandlerFails(u)
  BY <1>1, <1>4 DEF HandlerFails
<1>5. CASE WebhookRestarts
  BY <1>1, <1>5 DEF WebhookRestarts
<1>6. CASE Second
  BY <1>1, <1>6 DEF Second
<1> QED
  BY <1>2, <1>3, <1>4, <1>5, <1>6 DEF WebhookNext

LEMMA PausesAppended ==
    ASSUME DispatchInv, WebhookNext
    PROVE  /\ DOMAIN pauses \subseteq DOMAIN pauses'
           /\ \A i \in DOMAIN pauses : pauses'[i] = pauses[i]
           /\ InOrder(pauses') /\ \A i \in DOMAIN pauses' : pauses'[i] <= now'
<1>1. /\ pauses \in Seq(Nat) /\ now \in Nat /\ InOrder(pauses)
      /\ \A i \in DOMAIN pauses : pauses[i] <= now
      /\ WebhookTypeOK
  BY DEF DispatchInv, WebhookTypeOK, TimesOK
<1>2. CASE pauses' = pauses
  <2>1. now <= now' /\ now' \in Int
    BY <1>1, WebhookShort DEF WebhookNext, Notify, HandlerStep, PauseLands, CrossCheck,
          HandlerFails, WebhookRestarts, Second
  <2>2. \A i \in DOMAIN pauses : pauses[i] \in Nat
    BY <1>1
  <2> QED
    BY <1>1, <1>2, <2>1, <2>2
<1>3. CASE pauses' = Append(pauses, now) /\ now' = now
  <2>1. /\ DOMAIN pauses = 1 .. Len(pauses) /\ Len(pauses) \in Nat
        /\ DOMAIN pauses' = 1 .. Len(pauses) + 1
        /\ \A i \in 1 .. Len(pauses) : pauses'[i] = pauses[i]
        /\ pauses'[Len(pauses) + 1] = now
    BY <1>1, <1>3
  <2>2. \A i \in DOMAIN pauses' : pauses'[i] \in Nat /\ pauses'[i] <= now
    BY <1>1, <2>1
  <2>3. \A i, j \in DOMAIN pauses' : i <= j => pauses'[i] <= pauses'[j]
    BY <1>1, <2>1, <2>2 DEF InOrder
  <2> QED
    BY <1>1, <1>3, <2>1, <2>2, <2>3 DEF InOrder
<1> QED
  BY <1>1, <1>2, <1>3, WebhookShort

LEMMA WebhookKeepsAlerts ==
    ASSUME DispatchInv, WebhookTypeOK', WebhookNext, UNCHANGED dispatcherVars
    PROVE  DispatchInv'
<1>1. UNCHANGED <<recalls, file, tick, tried>>
  BY DEF dispatcherVars
<1>2. /\ DOMAIN pauses \subseteq DOMAIN pauses'
      /\ \A i \in DOMAIN pauses : pauses'[i] = pauses[i]
      /\ InOrder(pauses') /\ \A i \in DOMAIN pauses' : pauses'[i] <= now'
  BY PausesAppended
<1>3. TimesOK' /\ TickOK' /\ QueueOK'
  BY <1>1, <1>2 DEF DispatchInv, TimesOK, InOrder, TickOK, QueueOK, TickShape, MarksOK, MarksShape
<1>4. faults' \in Nat /\ (faults' = faults \/ faults' = faults + 1)
  BY WebhookShort DEF DispatchInv, WebhookTypeOK
<1>5. /\ \A i \in 1 .. MaxPauses : PauseDone(i) => PauseDone(i)'
      /\ \A i \in 1 .. MaxRecalls : RecallDone(i) => RecallDone(i)'
  BY <1>1, <1>2 DEF PauseDone, RecallDone, Mark
<1>6. TriedOK'
  BY <1>1, <1>4, <1>5, NothingTried
<1> QED
  BY <1>3, <1>6 DEF DispatchInv

-----------------------------------------------------------------------------
\* The steps of a tick.
LEMMA QuietStep ==
    ASSUME DispatchInv, UNCHANGED <<now, pauses, recalls, faults, tried>>, WebhookTypeOK',
           TickOK', QueueOK',
           \A i \in 1 .. MaxPauses : PauseDone(i) => PauseDone(i)',
           \A i \in 1 .. MaxRecalls : RecallDone(i) => RecallDone(i)'
    PROVE  DispatchInv'
<1>1. TimesOK'
  BY DEF DispatchInv, TimesOK, InOrder
<1>2. TriedOK'
  BY NothingTried DEF DispatchInv, WebhookTypeOK
<1> QED
  BY <1>1, <1>2 DEF DispatchInv

LEMMA TickStartsKeeps ==
    ASSUME DispatchInv, WebhookTypeOK', TickStarts
    PROVE  DispatchInv'
<1>1. /\ tick' = [step |-> "events", config |-> config, state |-> file, queue |-> {}]
      /\ tick.step = "idle" /\ file' = file
      /\ UNCHANGED <<now, pauses, recalls, faults, tried>>
  BY DEF TickStarts, webhookVars, seenVars, pauseVars, levelVars
<1>2. /\ tick'.step = "events" /\ tick'.state = file /\ TickShape(tick')
  BY <1>1 DEF TickShape
<1>3. Mark' = Mark
  BY <1>1, <1>2 DEF Mark
<1>4. TickOK' /\ QueueOK'
  BY <1>1, <1>2 DEF DispatchInv, TickOK, QueueOK, TickShape, MarksOK, MarksShape
<1>5. /\ \A i \in 1 .. MaxPauses : PauseDone(i) => PauseDone(i)'
      /\ \A i \in 1 .. MaxRecalls : RecallDone(i) => RecallDone(i)'
  BY <1>1, <1>2, <1>3 DEF PauseDone, RecallDone
<1> QED
  BY <1>1, <1>4, <1>5, QuietStep

LEMMA FetchPausesKeeps ==
    ASSUME DispatchInv, WebhookTypeOK', FetchPauses
    PROVE  DispatchInv'
<1>0. PICK pace \in Paces : \E queued :
         /\ tick' = [tick EXCEPT !.step = "pauses", !.queue = queued]
         /\ queued \subseteq Past(pauses, tick.state.pause, 0)
  BY DEF FetchPauses
<1>1. PICK queued :
        /\ tick' = [tick EXCEPT !.step = "pauses", !.queue = queued]
        /\ queued \subseteq Past(pauses, tick.state.pause, 0)
        /\ tick.step = "events" /\ file' = file
        /\ UNCHANGED <<now, pauses, recalls, faults, tried>>
  BY <1>0 DEF FetchPauses, webhookVars, seenVars, pauseVars, levelVars
<1>2. \A i \in queued : i \in DOMAIN pauses /\ pauses[i] > tick.state.pause
  BY <1>1 DEF Past
<1>3. /\ tick'.step = "pauses" /\ tick'.state = tick.state /\ tick'.queue = queued
      /\ TickShape(tick')
  <2>1. PICK new : new = [tick EXCEPT !.step = "pauses", !.queue = queued] /\ tick' = new
    BY <1>1
  <2>2. new = [step |-> "pauses", config |-> tick.config, state |-> tick.state, queue |-> queued]
    BY <2>1 DEF DispatchInv, TickOK, TickShape
  <2> QED
    BY <2>1, <2>2 DEF TickShape
<1>4. TickOK'
  BY <1>1, <1>3 DEF DispatchInv, TickOK, TickShape, MarksOK, MarksShape
<1>5. QueueOK'
  BY <1>1, <1>2, <1>3 DEF DispatchInv, TickOK, MarksOK, TimesOK, InOrder, QueueOK
<1>6. Mark' = Mark /\ Mark = tick.state
  BY <1>1, <1>3 DEF Mark
<1>7. ASSUME NEW i, PauseDone(i) PROVE PauseDone(i)'
  <2>1. i \in DOMAIN pauses /\ pauses[i] <= tick.state.pause
    BY <1>6, <1>7 DEF PauseDone
  <2>2. pauses[i] \in Int /\ tick.state.pause \in Int
    BY <2>1 DEF DispatchInv, TickOK, MarksOK, TimesOK, InOrder
  <2>3. i \notin queued
    BY <1>2, <2>1, <2>2
  <2> QED
    BY <1>1, <1>3, <1>6, <2>1, <2>3 DEF PauseDone
<1>8. \A i \in 1 .. MaxRecalls : RecallDone(i) => RecallDone(i)'
  BY <1>1, <1>3, <1>6 DEF RecallDone
<1> QED
  BY <1>1, <1>4, <1>5, <1>7, <1>8, QuietStep

LEMMA ReadLogKeeps ==
    ASSUME DispatchInv, WebhookTypeOK', ReadLog
    PROVE  DispatchInv'
<1> DEFINE queued == Past(recalls, tick.state.recall, 0)
<1>1. /\ tick' = [tick EXCEPT !.step = "recalls", !.queue = queued]
      /\ tick.step = "pauses" /\ file' = file
      /\ UNCHANGED <<now, pauses, recalls, faults, tried>>
  BY DEF ReadLog, webhookVars, seenVars, pauseVars, levelVars
<1>2. \A i \in queued : i \in DOMAIN recalls /\ recalls[i] > tick.state.recall
  BY DEF Past
<1> HIDE DEF queued
<1>3. /\ tick'.step = "recalls" /\ tick'.state = tick.state /\ tick'.queue = queued
      /\ TickShape(tick')
  <2>1. PICK new : new = [tick EXCEPT !.step = "recalls", !.queue = queued] /\ tick' = new
    BY <1>1
  <2>2. new = [step |-> "recalls", config |-> tick.config, state |-> tick.state, queue |-> queued]
    BY <2>1 DEF DispatchInv, TickOK, TickShape
  <2> QED
    BY <2>1, <2>2 DEF TickShape
<1>4. TickOK'
  BY <1>1, <1>3 DEF DispatchInv, TickOK, TickShape, MarksOK, MarksShape
<1>5. QueueOK'
  BY <1>1, <1>2, <1>3 DEF DispatchInv, TickOK, MarksOK, TimesOK, InOrder, QueueOK
<1>6. Mark' = Mark /\ Mark = tick.state
  BY <1>1, <1>3 DEF Mark
<1>7. ASSUME NEW i, RecallDone(i) PROVE RecallDone(i)'
  <2>1. i \in DOMAIN recalls /\ recalls[i] <= tick.state.recall
    BY <1>6, <1>7 DEF RecallDone
  <2>2. recalls[i] \in Int /\ tick.state.recall \in Int
    BY <2>1 DEF DispatchInv, TickOK, MarksOK, TimesOK, InOrder
  <2>3. i \notin queued
    BY <1>2, <2>1, <2>2
  <2> QED
    BY <1>1, <1>3, <1>6, <2>1, <2>3 DEF RecallDone
<1>8. \A i \in 1 .. MaxPauses : PauseDone(i) => PauseDone(i)'
  BY <1>1, <1>3, <1>6 DEF PauseDone
<1> QED
  BY <1>1, <1>4, <1>5, <1>7, <1>8, QuietStep
LEMMA TellPauseKeeps ==
    ASSUME DispatchInv, WebhookTypeOK', TellPause
    PROVE  DispatchInv'
<1> DEFINE m == tick.state
<1>0. PICK k : k = Min(tick.queue)
  OBVIOUS
<1>1. /\ TellOne("pause", k) /\ tick.step = "pauses" /\ tick.queue # {}
      /\ UNCHANGED <<now, pauses, recalls, faults, file>>
  BY <1>0 DEF TellPause, webhookVars
<1>2. /\ TimesOK /\ TickOK /\ QueueOK /\ TriedOK /\ faults \in Nat
      /\ TickShape(tick) /\ MarksShape(m) /\ m.pause \in Int /\ m.recall \in Int
  BY DEF DispatchInv, WebhookTypeOK, TickOK, MarksOK
<1>3. /\ k \in tick.queue /\ k \in DOMAIN pauses
      /\ \A i \in tick.queue : i \in DOMAIN pauses /\ pauses[k] <= pauses[i]
      /\ pauses[k] \in Int /\ m.pause <= pauses[k]
  <2>1. tick.queue \subseteq DOMAIN pauses /\ DOMAIN pauses \subseteq Nat
    BY <1>1, <1>2 DEF QueueOK, TimesOK, InOrder
  <2>2. PICK least \in tick.queue : \A i \in tick.queue : least <= i
    <3>1. tick.queue \in SUBSET Nat /\ tick.queue # {}
      BY <1>1, <2>1
    <3> QED
      BY <3>1, LeastNatural
  <2>3. k \in tick.queue /\ \A i \in tick.queue : k <= i
    BY <1>0, <2>2 DEF Min
  <2>4. \A i \in tick.queue : pauses[k] <= pauses[i]
    BY <1>2, <2>1, <2>3 DEF TimesOK, InOrder
  <2> QED
    BY <1>1, <1>2, <2>1, <2>3, <2>4 DEF QueueOK, TimesOK, InOrder
<1>4. /\ tick'.step = "pauses" /\ tick'.queue = tick.queue \ {k} /\ TickShape(tick')
      /\ tick'.state = [pause |-> pauses[k], recall |-> m.recall, level |-> m.level]
  <2>1. tick' = [tick EXCEPT !.state = [m EXCEPT !.pause = pauses[k]],
                            !.queue = tick.queue \ {k}]
    BY <1>0 DEF TellPause, PauseMark
  <2>2. PICK new : /\ new = [tick EXCEPT !.state = [m EXCEPT !.pause = pauses[k]],
                                        !.queue = tick.queue \ {k}]
                   /\ tick' = new
    BY <2>1
  <2>3. new = [step |-> tick.step, config |-> tick.config,
              state |-> [m EXCEPT !.pause = pauses[k]], queue |-> tick.queue \ {k}]
    BY <1>2, <2>2 DEF TickShape
  <2>4. [m EXCEPT !.pause = pauses[k]]
          = [pause |-> pauses[k], recall |-> m.recall, level |-> m.level]
    BY <1>2, MarkEdits
  <2> QED
    BY <1>1, <2>2, <2>3, <2>4 DEF TickShape
<1>5. /\ tick'.state.pause = pauses[k] /\ tick'.state.recall = m.recall
      /\ MarksShape(tick'.state)
  BY <1>4 DEF MarksShape
<1>6. TickOK' /\ TimesOK'
  BY <1>1, <1>2, <1>3, <1>4, <1>5 DEF TickOK, MarksOK, MarksShape, TimesOK, InOrder
<1>7. QueueOK'
  BY <1>1, <1>2, <1>3, <1>4, <1>5 DEF QueueOK
<1>8. Mark = m /\ Mark' = tick'.state
  BY <1>1, <1>4 DEF Mark
<1>9. ~PauseDone(k) /\ PauseDone(k)'
  <2>1. PauseDone(k)'
    BY <1>1, <1>3, <1>4, <1>5, <1>8 DEF PauseDone
  <2> QED
    BY <1>1, <1>3, <2>1 DEF PauseDone
<1>10. \A i : PauseDone(i) => PauseDone(i)'
  <2> SUFFICES ASSUME NEW i, PauseDone(i) PROVE PauseDone(i)'
    OBVIOUS
  <2>1. i \in DOMAIN pauses /\ pauses[i] <= m.pause /\ i \notin tick.queue
    BY <1>1, <1>8 DEF PauseDone
  <2>2. pauses[i] <= pauses[k]
    BY <1>2, <1>3, <2>1 DEF TimesOK, InOrder
  <2> QED
    BY <1>1, <1>4, <1>5, <1>8, <2>1, <2>2 DEF PauseDone
<1>11. \A i : RecallDone(i) => RecallDone(i)'
  BY <1>1, <1>4, <1>5, <1>8 DEF RecallDone
<1>12. /\ tried' = [pause |-> tried'.pause, recall |-> tried'.recall]
       /\ tried'.recall = tried.recall
       /\ tried'.pause = [i \in 1 .. MaxPauses |->
                              IF i = k THEN tried.pause[k] + 1 ELSE tried.pause[i]]
  BY <1>1, TriedOnce
<1>13. TriedRecalls'
  BY <1>1, <1>2, <1>11, <1>12 DEF TriedOK, TriedRecalls
<1>14. TriedPauses'
  <2>1. \A i \in 1 .. MaxPauses :
          tried'.pause[i] = IF i = k THEN tried.pause[k] + 1 ELSE tried.pause[i]
    BY <1>12
  <2>2. tried'.pause = [i \in 1 .. MaxPauses |-> tried'.pause[i]]
    BY <1>12
  <2>3. \A i \in 1 .. MaxPauses :
          /\ tried'.pause[i] \in Nat /\ tried'.pause[i] <= 1 + faults
          /\ ~PauseDone(i)' => tried'.pause[i] <= faults
    BY <1>2, <1>9, <1>10, <2>1 DEF TriedOK, TriedPauses
  <2> QED
    BY <1>1, <2>2, <2>3 DEF TriedPauses
<1> QED
  BY <1>6, <1>7, <1>12, <1>13, <1>14 DEF DispatchInv, TriedOK
LEMMA TellRecallKeeps ==
    ASSUME DispatchInv, WebhookTypeOK', TellRecall
    PROVE  DispatchInv'
<1> DEFINE m == tick.state
<1>0. PICK k : k = Min(tick.queue)
  OBVIOUS
<1>1. /\ TellOne("recall", k) /\ tick.step = "recalls" /\ tick.queue # {}
      /\ UNCHANGED <<now, pauses, recalls, faults, file>>
  BY <1>0 DEF TellRecall, webhookVars
<1>2. /\ TimesOK /\ TickOK /\ QueueOK /\ TriedOK /\ faults \in Nat
      /\ TickShape(tick) /\ MarksShape(m) /\ m.recall \in Int /\ m.pause \in Int
  BY DEF DispatchInv, WebhookTypeOK, TickOK, MarksOK
<1>3. /\ k \in tick.queue /\ k \in DOMAIN recalls
      /\ \A i \in tick.queue : i \in DOMAIN recalls /\ recalls[k] <= recalls[i]
      /\ recalls[k] \in Int /\ m.recall <= recalls[k]
  <2>1. tick.queue \subseteq DOMAIN recalls /\ DOMAIN recalls \subseteq Nat
    BY <1>1, <1>2 DEF QueueOK, TimesOK, InOrder
  <2>2. PICK least \in tick.queue : \A i \in tick.queue : least <= i
    <3>1. tick.queue \in SUBSET Nat /\ tick.queue # {}
      BY <1>1, <2>1
    <3> QED
      BY <3>1, LeastNatural
  <2>3. k \in tick.queue /\ \A i \in tick.queue : k <= i
    BY <1>0, <2>2 DEF Min
  <2>4. \A i \in tick.queue : recalls[k] <= recalls[i]
    BY <1>2, <2>1, <2>3 DEF TimesOK, InOrder
  <2> QED
    BY <1>1, <1>2, <2>1, <2>3, <2>4 DEF QueueOK, TimesOK, InOrder
<1>4. /\ tick'.step = "recalls" /\ tick'.queue = tick.queue \ {k} /\ TickShape(tick')
      /\ tick'.state = [pause |-> m.pause, recall |-> recalls[k], level |-> m.level]
  <2>1. tick' = [tick EXCEPT !.state = [m EXCEPT !.recall = recalls[k]],
                            !.queue = tick.queue \ {k}]
    BY <1>0 DEF TellRecall
  <2>2. PICK new : /\ new = [tick EXCEPT !.state = [m EXCEPT !.recall = recalls[k]],
                                        !.queue = tick.queue \ {k}]
                   /\ tick' = new
    BY <2>1
  <2>3. new = [step |-> tick.step, config |-> tick.config,
              state |-> [m EXCEPT !.recall = recalls[k]], queue |-> tick.queue \ {k}]
    BY <1>2, <2>2 DEF TickShape
  <2>4. [m EXCEPT !.recall = recalls[k]]
          = [pause |-> m.pause, recall |-> recalls[k], level |-> m.level]
    BY <1>2, MarkEdits
  <2> QED
    BY <1>1, <2>2, <2>3, <2>4 DEF TickShape
<1>5. /\ tick'.state.recall = recalls[k] /\ tick'.state.pause = m.pause
      /\ MarksShape(tick'.state)
  BY <1>4 DEF MarksShape
<1>6. TickOK' /\ TimesOK'
  BY <1>1, <1>2, <1>3, <1>4, <1>5 DEF TickOK, MarksOK, MarksShape, TimesOK, InOrder
<1>7. QueueOK'
  BY <1>1, <1>2, <1>3, <1>4, <1>5 DEF QueueOK
<1>8. Mark = m /\ Mark' = tick'.state
  BY <1>1, <1>4 DEF Mark
<1>9. ~RecallDone(k) /\ RecallDone(k)'
  <2>1. RecallDone(k)'
    BY <1>1, <1>3, <1>4, <1>5, <1>8 DEF RecallDone
  <2> QED
    BY <1>1, <1>3, <2>1 DEF RecallDone
<1>10. \A i : RecallDone(i) => RecallDone(i)'
  <2> SUFFICES ASSUME NEW i, RecallDone(i) PROVE RecallDone(i)'
    OBVIOUS
  <2>1. i \in DOMAIN recalls /\ recalls[i] <= m.recall /\ i \notin tick.queue
    BY <1>1, <1>8 DEF RecallDone
  <2>2. recalls[i] <= recalls[k]
    BY <1>2, <1>3, <2>1 DEF TimesOK, InOrder
  <2> QED
    BY <1>1, <1>4, <1>5, <1>8, <2>1, <2>2 DEF RecallDone
<1>11. \A i : PauseDone(i) => PauseDone(i)'
  BY <1>1, <1>4, <1>5, <1>8 DEF PauseDone
<1>12. /\ tried' = [pause |-> tried'.pause, recall |-> tried'.recall]
       /\ tried'.pause = tried.pause
       /\ tried'.recall = [i \in 1 .. MaxRecalls |->
                              IF i = k THEN tried.recall[k] + 1 ELSE tried.recall[i]]
  BY <1>1, TriedOnce
<1>13. TriedPauses'
  BY <1>1, <1>2, <1>11, <1>12 DEF TriedOK, TriedPauses
<1>14. TriedRecalls'
  <2>1. \A i \in 1 .. MaxRecalls :
          tried'.recall[i] = IF i = k THEN tried.recall[k] + 1 ELSE tried.recall[i]
    BY <1>12
  <2>2. tried'.recall = [i \in 1 .. MaxRecalls |-> tried'.recall[i]]
    BY <1>12
  <2>3. \A i \in 1 .. MaxRecalls :
          /\ tried'.recall[i] \in Nat /\ tried'.recall[i] <= 1 + faults
          /\ ~RecallDone(i)' => tried'.recall[i] <= faults
    BY <1>2, <1>9, <1>10, <2>1 DEF TriedOK, TriedRecalls
  <2> QED
    BY <1>1, <2>2, <2>3 DEF TriedRecalls
<1> QED
  BY <1>6, <1>7, <1>12, <1>13, <1>14 DEF DispatchInv, TriedOK

LEMMA TellLevelKeeps ==
    ASSUME DispatchInv, WebhookTypeOK', TellLevel
    PROVE  DispatchInv'
<1> DEFINE m == tick.state
<1>1. /\ tick.step = "recalls" /\ tick.queue = {} /\ TickShape(tick) /\ MarksShape(m)
      /\ UNCHANGED <<now, pauses, recalls, faults, file, tried>>
  BY DEF TellLevel, webhookVars, pauseVars, DispatchInv, TickOK, MarksOK
<1>2. /\ tick'.step = "save" /\ TickShape(tick')
      /\ tick'.state = [pause |-> m.pause, recall |-> m.recall, level |-> Level]
  <2>1. PICK new : /\ new = [tick EXCEPT !.step = "save", !.state = [m EXCEPT !.level = Level]]
                   /\ tick' = new
    BY DEF TellLevel
  <2>2. new = [step |-> "save", config |-> tick.config,
              state |-> [m EXCEPT !.level = Level], queue |-> tick.queue]
    BY <1>1, <2>1 DEF TickShape
  <2>3. [m EXCEPT !.level = Level] = [pause |-> m.pause, recall |-> m.recall, level |-> Level]
    BY <1>1, MarkEdits
  <2> QED
    BY <2>1, <2>2, <2>3 DEF TickShape
<1>3. /\ tick'.state.pause = m.pause /\ tick'.state.recall = m.recall
      /\ MarksShape(tick'.state)
  BY <1>2 DEF MarksShape
<1>4. TickOK' /\ QueueOK'
  BY <1>1, <1>2, <1>3 DEF DispatchInv, TickOK, QueueOK, MarksOK, MarksShape
<1>5. Mark = m /\ Mark' = tick'.state
  BY <1>1, <1>2 DEF Mark
<1>6. /\ \A i \in 1 .. MaxPauses : PauseDone(i) => PauseDone(i)'
      /\ \A i \in 1 .. MaxRecalls : RecallDone(i) => RecallDone(i)'
  BY <1>1, <1>2, <1>3, <1>5 DEF PauseDone, RecallDone
<1> QED
  BY <1>1, <1>4, <1>6, QuietStep

LEMMA IdleTick == Idle.step = "idle" /\ TickShape(Idle) /\ Idle.state = NoMarks
  BY DEF Idle, TickShape

LEMMA SaveStateKeeps ==
    ASSUME DispatchInv, WebhookTypeOK', SaveState
    PROVE  DispatchInv'
<1>1. /\ tick.step = "save" /\ tick' = Idle /\ file' = tick.state
      /\ UNCHANGED <<now, pauses, recalls, faults, tried>>
  BY DEF SaveState, webhookVars, seenVars, pauseVars, levelVars
<1>2. MarksOK(NoMarks)
  BY DEF MarksOK, MarksShape, NoMarks
<1>3. TickOK' /\ QueueOK'
  BY <1>1, <1>2, IdleTick DEF DispatchInv, TickOK, QueueOK
<1>4. Mark' = Mark /\ tick'.step = "idle"
  BY <1>1, IdleTick DEF Mark
<1>5. /\ \A i \in 1 .. MaxPauses : PauseDone(i) => PauseDone(i)'
      /\ \A i \in 1 .. MaxRecalls : RecallDone(i) => RecallDone(i)'
  BY <1>1, <1>4 DEF PauseDone, RecallDone
<1> QED
  BY <1>1, <1>3, <1>5, QuietStep

LEMMA DispatcherDiesKeeps ==
    ASSUME DispatchInv, WebhookTypeOK', DispatcherDies
    PROVE  DispatchInv'
<1>1. /\ tick' = Idle /\ (file' = file \/ file' = NoMarks) /\ faults' = faults + 1
      /\ UNCHANGED <<now, pauses, recalls, tried>>
  BY DEF DispatcherDies, pauseVars
<1>2. MarksOK(NoMarks)
  BY DEF MarksOK, MarksShape, NoMarks
<1>3. TickOK' /\ QueueOK'
  BY <1>1, <1>2, IdleTick DEF DispatchInv, TickOK, QueueOK
<1>4. TimesOK'
  BY <1>1 DEF DispatchInv, TimesOK, InOrder
<1>5. TriedOK'
  BY <1>1, NothingTried DEF WebhookTypeOK
<1> QED
  BY <1>3, <1>4, <1>5 DEF DispatchInv

LEMMA LogRecallKeeps ==
    ASSUME DispatchInv, WebhookTypeOK', LogRecall
    PROVE  DispatchInv'
<1>1. PICK began \in {now - 1, now} :
        (\A i \in DOMAIN recalls : recalls[i] < began) /\ recalls' = Append(recalls, began)
  BY DEF LogRecall
<1>2. /\ UNCHANGED <<now, pauses, faults, file, tick, tried>>
      /\ now \in Nat /\ began \in Int /\ recalls \in Seq(Int) /\ InOrder(recalls)
  BY DEF LogRecall, webhookVars, seenVars, pauseVars, levelVars, DispatchInv, WebhookTypeOK, TimesOK
<1>3. /\ DOMAIN recalls = 1 .. Len(recalls) /\ Len(recalls) \in Nat
      /\ DOMAIN recalls' = 1 .. Len(recalls) + 1 /\ recalls' \in Seq(Int)
      /\ \A i \in 1 .. Len(recalls) : recalls'[i] = recalls[i]
      /\ recalls'[Len(recalls) + 1] = began
  BY <1>1, <1>2
<1>4. \A i \in DOMAIN recalls' : recalls'[i] \in Int /\ recalls'[i] <= began
  BY <1>1, <1>2, <1>3
<1>5. \A i, j \in DOMAIN recalls' : i <= j => recalls'[i] <= recalls'[j]
  BY <1>2, <1>3, <1>4 DEF InOrder
<1>6. TimesOK'
  BY <1>2, <1>3, <1>4, <1>5 DEF DispatchInv, TimesOK, InOrder
<1>7. DOMAIN recalls \subseteq DOMAIN recalls' /\ \A i \in DOMAIN recalls : recalls'[i] = recalls[i]
  BY <1>3
<1>8. TickOK' /\ QueueOK'
  BY <1>2, <1>7 DEF DispatchInv, TickOK, QueueOK, TickShape, MarksOK, MarksShape
<1>9. /\ \A i \in 1 .. MaxPauses : PauseDone(i) => PauseDone(i)'
      /\ \A i \in 1 .. MaxRecalls : RecallDone(i) => RecallDone(i)'
  BY <1>2, <1>7 DEF PauseDone, RecallDone, Mark
<1>10. TriedOK'
  BY <1>2, <1>9, NothingTried DEF WebhookTypeOK
<1> QED
  BY <1>6, <1>8, <1>10 DEF DispatchInv

LEMMA OtherKeeps ==
    ASSUME DispatchInv, WebhookTypeOK', UNCHANGED <<webhookVars, recalls, file, tick, tried>>
    PROVE  DispatchInv'
<1>1. UNCHANGED <<now, pauses, recalls, faults, file, tick, tried>>
  BY DEF webhookVars
<1>2. TickOK' /\ QueueOK'
  BY <1>1 DEF DispatchInv, TickOK, QueueOK, TickShape, MarksOK, MarksShape
<1>3. /\ \A i \in 1 .. MaxPauses : PauseDone(i) => PauseDone(i)'
      /\ \A i \in 1 .. MaxRecalls : RecallDone(i) => RecallDone(i)'
  BY <1>1 DEF PauseDone, RecallDone, Mark
<1> QED
  BY <1>1, <1>2, <1>3, QuietStep

LEMMA DispatchStep ==
    ASSUME DispatchInv, WebhookTypeOK', [PipelineNext]_pipelineVars
    PROVE  DispatchInv'
<1>1. CASE WebhookNext /\ UNCHANGED dispatcherVars
  BY <1>1, WebhookKeepsAlerts
<1>2. CASE TickStep
  BY <1>2, TickStartsKeeps, FetchPausesKeeps, TellPauseKeeps, ReadLogKeeps, TellRecallKeeps,
     TellLevelKeeps, SaveStateKeeps DEF TickStep
<1>3. CASE DispatcherDies
  BY <1>3, DispatcherDiesKeeps
<1>4. CASE LogRecall
  BY <1>4, LogRecallKeeps
<1>5. CASE \E c \in Configs : WriteConfig(c)
  BY <1>5, OtherKeeps DEF WriteConfig, seenVars, pauseVars, levelVars
<1>6. CASE LevelMoves
  BY <1>6, OtherKeeps DEF LevelMoves, pauseVars
<1>7. CASE UNCHANGED pipelineVars
  BY <1>7, OtherKeeps DEF pipelineVars, dispatcherVars
<1> QED
  BY <1>1, <1>2, <1>3, <1>4, <1>5, <1>6, <1>7 DEF PipelineNext

\* An alert on a pause or a recall is sent again only for a tick that died before
\* its save or lost the file (tick and saveState in alertDispatcherLoop.ts).
THEOREM AlertsRepeatOnlyByFaults == PipelineSpec => []RepeatsAreFaults
<1>1. TrackerInv /\ DispatchInv /\ [PipelineNext]_pipelineVars => TrackerInv' /\ DispatchInv'
  <2> SUFFICES ASSUME TrackerInv, DispatchInv, [PipelineNext]_pipelineVars
               PROVE  TrackerInv' /\ DispatchInv'
    OBVIOUS
  <2>1. TrackerInv'
    BY TrackerStep, PipelineIsWebhook
  <2> QED
    BY <2>1, DispatchStep DEF TrackerInv
<1>2. PipelineInit => TrackerInv /\ DispatchInv
  BY TrackerInit, PipelineStart, DispatchInit
<1>3. DispatchInv => RepeatsAreFaults
  BY DEF DispatchInv, TriedOK, TriedPauses, TriedRecalls, RepeatsAreFaults
<1> QED
  BY <1>1, <1>2, <1>3, PTL DEF PipelineSpec

-----------------------------------------------------------------------------
\* What the marks have passed was dispatched, or left out by a fetch that asked for
\* too few ledgers, or is still in the queue of the running tick.
Handled(i) == tried.pause[i] > 0 \/ i \in leftOut
Queued(i) == tick.step = "pauses" /\ i \in tick.queue

PausesAreDated ==
    /\ now > 0 /\ Len(pauses) <= MaxPauses
    /\ \A i \in DOMAIN pauses : pauses[i] > 0
PassedByFile ==
    /\ file.pause < now
    /\ \A i \in DOMAIN pauses : pauses[i] <= file.pause => Handled(i)
PassedByTick ==
    /\ Mark.pause < now
    /\ \A i \in DOMAIN pauses : pauses[i] <= Mark.pause => Handled(i) \/ Queued(i)
QueueIsWhole ==
    \A k : Queued(k) =>
        /\ pauses[k] < now
        /\ \A i \in DOMAIN pauses : pauses[i] <= pauses[k] => Handled(i) \/ Queued(i)

PassedInv == PausesAreDated /\ PassedByFile /\ PassedByTick /\ QueueIsWhole

LEMMA PassedInit == PipelineInit => PassedInv
<1> SUFFICES ASSUME PipelineInit PROVE PassedInv
  OBVIOUS
<1>1. now = 1 /\ pauses = <<>> /\ file = NoMarks /\ tick = Idle
  BY DEF PipelineInit, WebhookInit
<1>2. file.pause = 0 /\ Mark = file /\ ~ \E k : Queued(k)
  BY <1>1 DEF NoMarks, Idle, Mark, Queued
<1>3. DOMAIN pauses = {} /\ Len(pauses) = 0
  BY <1>1
<1> QED
  BY <1>1, <1>2, <1>3, MarksAssumption
     DEF PassedInv, PausesAreDated, PassedByFile, PassedByTick, QueueIsWhole

\* Steps that queue nothing: the marks stay, start over, or become the ones of a
\* tick that has nothing queued.
LEMMA PassedStays ==
    ASSUME DispatchInv, PassedInv,
           UNCHANGED <<now, pauses, leftOut>>, tried'.pause = tried.pause,
           tick'.step # "pauses", NEW fm, fm = file'.pause, NEW tm, tm = Mark'.pause,
           \A m \in {fm, tm} :
              \/ m = file.pause \/ m = 0
              \/ m = Mark.pause /\ ~ \E k : Queued(k)
    PROVE  PassedInv'
<1>1. PausesAreDated' /\ \A i \in DOMAIN pauses : Handled(i) => Handled(i)'
  BY DEF PassedInv, PausesAreDated, Handled
<1>2. ASSUME NEW m \in {fm, tm}
      PROVE  m < now /\ \A i \in DOMAIN pauses : pauses[i] <= m => Handled(i)
  <2>1. CASE m = file.pause
    BY <2>1 DEF PassedInv, PassedByFile
  <2>2. CASE m = 0
    <3>1. \A i \in DOMAIN pauses : pauses[i] \in Nat /\ pauses[i] > 0
      BY DEF DispatchInv, WebhookTypeOK, PassedInv, PausesAreDated
    <3> QED
      BY <2>2, <3>1 DEF PassedInv, PausesAreDated
  <2>3. CASE m = Mark.pause /\ ~ \E k : Queued(k)
    BY <2>3 DEF PassedInv, PassedByTick
  <2> QED
    BY <2>1, <2>2, <2>3
<1>3. PassedByFile'
  BY <1>1, <1>2 DEF PassedByFile
<1>4. PassedByTick'
  BY <1>1, <1>2 DEF PassedByTick
<1>5. QueueIsWhole'
  BY DEF QueueIsWhole, Queued
<1> QED
  BY <1>1, <1>3, <1>4, <1>5 DEF PassedInv

LEMMA PassedByWebhook ==
    ASSUME DispatchInv, PassedInv, WebhookTypeOK', WebhookNext, UNCHANGED dispatcherVars
    PROVE  PassedInv'
<1>1. UNCHANGED <<file, tick, tried, leftOut>>
  BY DEF dispatcherVars
<1>2. /\ pauses \in Seq(Nat) /\ now \in Nat /\ now' \in Nat /\ now <= now'
      /\ file.pause \in Int /\ Mark.pause \in Int
      /\ \A k : Queued(k) => k \in DOMAIN pauses
  BY WebhookShort DEF DispatchInv, WebhookTypeOK, TickOK, MarksOK, Mark, Queued, QueueOK
<1>3. /\ \A i : Handled(i)' <=> Handled(i)
      /\ \A i : Queued(i)' <=> Queued(i)
      /\ Mark' = Mark
  BY <1>1 DEF Handled, Queued, Mark
<1>4. CASE pauses' = pauses
  <2>1. \A i \in DOMAIN pauses : pauses[i] \in Nat
    BY <1>2
  <2> QED
    BY <1>1, <1>2, <1>3, <1>4, <2>1
       DEF PassedInv, PausesAreDated, PassedByFile, PassedByTick, QueueIsWhole
<1>5. CASE pauses' = Append(pauses, now) /\ now' = now /\ pauses' # pauses
  <2>1. /\ DOMAIN pauses = 1 .. Len(pauses) /\ Len(pauses) \in Nat
        /\ DOMAIN pauses' = 1 .. Len(pauses) + 1 /\ Len(pauses') = Len(pauses) + 1
        /\ \A i \in 1 .. Len(pauses) : pauses'[i] = pauses[i] /\ pauses[i] \in Nat
        /\ pauses'[Len(pauses) + 1] = now
    BY <1>2, <1>5
  <2>2. Len(pauses) < MaxPauses
    <3>1. CASE \E v \in Verifiers, u \in Updates, genuine \in BOOLEAN : Notify(v, u, genuine)
      BY <1>5, <3>1 DEF Notify
    <3>2. CASE HandlerStep
      BY <1>5, <3>2 DEF HandlerStep, PauseLands, CrossCheck
    <3>3. CASE \E u \in Updates : HandlerFails(u)
      BY <1>5, <3>3 DEF HandlerFails
    <3>4. CASE WebhookRestarts
      BY <1>5, <3>4 DEF WebhookRestarts
    <3>5. CASE Second
      BY <1>5, <3>5 DEF Second
    <3> QED
      BY <3>1, <3>2, <3>3, <3>4, <3>5 DEF WebhookNext
  <2>3. PausesAreDated'
    <3>1. Len(pauses) + 1 <= MaxPauses
      BY <2>1, <2>2, MarksAssumption
    <3>2. now > 0 /\ \A i \in 1 .. Len(pauses) : pauses[i] > 0
      BY <2>1 DEF PassedInv, PausesAreDated
    <3>3. \A i \in 1 .. Len(pauses) + 1 : i \in 1 .. Len(pauses) \/ i = Len(pauses) + 1
      BY <2>1
    <3>4. \A i \in 1 .. Len(pauses) + 1 : pauses'[i] > 0
      BY <2>1, <3>2, <3>3
    <3> QED
      BY <1>5, <2>1, <3>1, <3>2, <3>4 DEF PausesAreDated
  <2>4. \A i \in DOMAIN pauses' : i \in DOMAIN pauses \/ pauses'[i] = now
    BY <2>1
  <2>5. \A i \in DOMAIN pauses : pauses'[i] = pauses[i]
    BY <2>1
  <2>7. PassedByFile'
    <3>1. file.pause < now /\ ~ (now <= file.pause)
      BY <1>2 DEF PassedInv, PassedByFile
    <3> QED
      BY <1>1, <1>3, <1>5, <2>4, <2>5, <3>1 DEF PassedInv, PassedByFile
  <2>8. PassedByTick'
    <3>1. Mark.pause < now /\ ~ (now <= Mark.pause)
      BY <1>2 DEF PassedInv, PassedByTick
    <3> QED
      BY <1>3, <1>5, <2>4, <2>5, <3>1 DEF PassedInv, PassedByTick
  <2>6. QueueIsWhole'
    <3> SUFFICES ASSUME NEW k, Queued(k)
                 PROVE  /\ pauses'[k] < now
                        /\ \A i \in DOMAIN pauses' :
                             pauses'[i] <= pauses'[k] => Handled(i) \/ Queued(i)
      BY <1>3, <1>5 DEF QueueIsWhole
    <3>1. k \in 1 .. Len(pauses) /\ pauses[k] < now
      BY <1>2, <2>1 DEF PassedInv, QueueIsWhole
    <3>2. \A i \in 1 .. Len(pauses) : pauses[i] <= pauses[k] => Handled(i) \/ Queued(i)
      BY <2>1 DEF PassedInv, QueueIsWhole
    <3> QED
      BY <1>2, <2>1, <3>1, <3>2
  <2> QED
    BY <2>3, <2>6, <2>7, <2>8 DEF PassedInv
<1> QED
  BY <1>4, <1>5, WebhookShort DEF DispatchInv

LEMMA PassedByFetch ==
    ASSUME DispatchInv, PassedInv, FetchPauses
    PROVE  PassedInv'
<1>1. PICK new, seen :
        /\ new = Closed(pauses) \cap Past(pauses, tick.state.pause, 0)
        /\ seen \subseteq new
        /\ tick' = [tick EXCEPT !.step = "pauses", !.queue = seen]
        /\ leftOut' = leftOut \cup (new \ seen)
  <2>1. PICK pace \in Paces :
          LET n == Closed(pauses) \cap Past(pauses, tick.state.pause, 0)
              from == now - LedgersBack(now - tick.state.pause) * pace
              s == n \cap Past(pauses, tick.state.pause, from)
          IN  /\ tick' = [tick EXCEPT !.step = "pauses", !.queue = s]
              /\ leftOut' = leftOut \cup (n \ s)
    BY DEF FetchPauses
  <2> QED
    BY <2>1
<1>2. /\ tick.step = "events" /\ UNCHANGED <<now, pauses, file, tried>>
      /\ TickShape(tick) /\ pauses \in Seq(Nat) /\ tick.state.pause \in Int
  BY DEF FetchPauses, webhookVars, DispatchInv, TickOK, MarksOK, WebhookTypeOK
<1>3. tick'.step = "pauses" /\ tick'.state = tick.state /\ tick'.queue = seen
  <2>1. PICK t : t = [tick EXCEPT !.step = "pauses", !.queue = seen] /\ tick' = t
    BY <1>1
  <2>2. t = [step |-> "pauses", config |-> tick.config, state |-> tick.state, queue |-> seen]
    BY <1>2, <2>1 DEF TickShape
  <2> QED
    BY <2>1, <2>2
<1>4. Mark = tick.state /\ Mark' = tick.state /\ ~ \E k : Queued(k)
  BY <1>2, <1>3 DEF Mark, Queued
<1>5. /\ \A i : Handled(i) => Handled(i)'
      /\ \A i \in new : Handled(i)' \/ Queued(i)'
      /\ \A i : Queued(i)' <=> i \in seen
  BY <1>1, <1>2, <1>3 DEF Handled, Queued
<1>6. /\ \A i \in DOMAIN pauses : pauses[i] \in Nat
      /\ \A i : i \in new <=> /\ i \in DOMAIN pauses /\ pauses[i] < now
                              /\ pauses[i] > tick.state.pause
  BY <1>1, <1>2 DEF Closed, Past
<1>7. \A i \in DOMAIN pauses : pauses[i] < now => Handled(i)' \/ Queued(i)'
  BY <1>2, <1>4, <1>5, <1>6 DEF PassedInv, PassedByTick
<1>8. PassedByTick'
  BY <1>2, <1>4, <1>5 DEF PassedInv, PassedByTick
<1>9. QueueIsWhole'
  <2>1. now \in Nat
    BY DEF DispatchInv, WebhookTypeOK
  <2>2. \A k \in seen : k \in DOMAIN pauses /\ pauses[k] \in Nat /\ pauses[k] < now
    BY <1>1, <1>6
  <2> QED
    BY <1>2, <1>5, <1>6, <1>7, <2>1, <2>2 DEF QueueIsWhole
<1> QED
  BY <1>2, <1>5, <1>8, <1>9 DEF PassedInv, PausesAreDated, PassedByFile

LEMMA PassedByTelling ==
    ASSUME DispatchInv, PassedInv, TellPause
    PROVE  PassedInv'
<1> DEFINE m == tick.state
<1>1. PICK k : k = Min(tick.queue)
  OBVIOUS
<1>2. /\ TellOne("pause", k) /\ tick.step = "pauses" /\ tick.queue # {}
      /\ tick' = [tick EXCEPT !.state = [m EXCEPT !.pause = pauses[k]],
                              !.queue = tick.queue \ {k}]
      /\ UNCHANGED <<now, pauses, file, leftOut>>
  BY <1>1 DEF TellPause, PauseMark, webhookVars
<1>3. /\ TickShape(tick) /\ MarksShape(m) /\ pauses \in Seq(Nat)
      /\ tick.queue \subseteq DOMAIN pauses
  BY <1>2 DEF DispatchInv, TickOK, MarksOK, WebhookTypeOK, QueueOK
<1>4. k \in tick.queue
  <2>1. tick.queue \in SUBSET Nat
    BY <1>3
  <2>2. PICK least \in tick.queue : \A i \in tick.queue : least <= i
    BY <1>2, <2>1, LeastNatural
  <2> QED
    BY <1>1, <2>2 DEF Min
<1>5. /\ tick'.step = "pauses" /\ tick'.queue = tick.queue \ {k}
      /\ tick'.state.pause = pauses[k]
  <2>1. PICK s : s = [m EXCEPT !.pause = pauses[k]]
    OBVIOUS
  <2>2. s = [pause |-> pauses[k], recall |-> m.recall, level |-> m.level]
    BY <1>3, <2>1, MarkEdits
  <2>3. PICK t : t = [tick EXCEPT !.state = s, !.queue = tick.queue \ {k}] /\ tick' = t
    BY <1>2, <2>1
  <2>4. t = [step |-> tick.step, config |-> tick.config, state |-> s, queue |-> tick.queue \ {k}]
    BY <1>3, <2>3 DEF TickShape
  <2>5. tick'.step = tick.step /\ tick'.queue = tick.queue \ {k} /\ tick'.state = s
    BY <2>3, <2>4
  <2>6. s.pause = pauses[k]
    BY <2>2
  <2> QED
    BY <1>2, <2>5, <2>6
<1>6. k \in 1 .. MaxPauses /\ DOMAIN pauses \subseteq 1 .. MaxPauses
  BY <1>3, <1>4, MarksAssumption DEF PassedInv, PausesAreDated
<1>7. /\ tried'.pause = [i \in 1 .. MaxPauses |->
                           IF i = k THEN tried.pause[k] + 1 ELSE tried.pause[i]]
      /\ \A i \in 1 .. MaxPauses : tried.pause[i] \in Nat
  BY <1>2, TriedOnce DEF DispatchInv, TriedOK, TriedPauses
<1>8. \A i \in DOMAIN pauses : Handled(i) \/ Queued(i) => Handled(i)' \/ Queued(i)'
  <2> SUFFICES ASSUME NEW i \in DOMAIN pauses, Handled(i) \/ Queued(i)
               PROVE  Handled(i)' \/ Queued(i)'
    OBVIOUS
  <2>1. /\ i \in 1 .. MaxPauses /\ tried.pause[i] \in Nat
        /\ tried'.pause[i] = IF i = k THEN tried.pause[k] + 1 ELSE tried.pause[i]
    BY <1>6, <1>7
  <2>2. CASE i = k
    BY <2>1, <2>2 DEF Handled
  <2>3. CASE i # k
    BY <1>2, <1>5, <2>1, <2>3 DEF Handled, Queued
  <2> QED
    BY <2>2, <2>3
<1>9. \A i \in DOMAIN pauses : Handled(i) => Handled(i)'
  <2> SUFFICES ASSUME NEW i \in DOMAIN pauses, Handled(i) PROVE Handled(i)'
    OBVIOUS
  <2>1. /\ i \in 1 .. MaxPauses /\ tried.pause[i] \in Nat
        /\ tried'.pause[i] = IF i = k THEN tried.pause[k] + 1 ELSE tried.pause[i]
    BY <1>6, <1>7
  <2> QED
    BY <1>2, <2>1 DEF Handled
<1>10. Queued(k) /\ \A i : Queued(i)' => Queued(i)
  BY <1>2, <1>4, <1>5 DEF Queued
<1>11. Mark'.pause = pauses[k]
  BY <1>5 DEF Mark
<1>12. PassedByTick'
  BY <1>2, <1>8, <1>10, <1>11 DEF PassedInv, PassedByTick, QueueIsWhole
<1>13. QueueIsWhole'
  BY <1>2, <1>8, <1>10 DEF PassedInv, QueueIsWhole
<1>14. PausesAreDated' /\ PassedByFile'
  BY <1>2, <1>9 DEF PassedInv, PausesAreDated, PassedByFile
<1> QED
  BY <1>12, <1>13, <1>14 DEF PassedInv

\* The other steps of a tick, and its death.
LEMMA PassedByTickStep ==
    ASSUME DispatchInv, PassedInv,
           TickStarts \/ ReadLog \/ TellRecall \/ TellLevel \/ SaveState \/ DispatcherDies
    PROVE  PassedInv'
<1> DEFINE m == tick.state
<1>1. UNCHANGED <<now, pauses, leftOut>> /\ TickShape(tick) /\ MarksShape(m)
  BY DEF TickStarts, ReadLog, TellRecall, TellLevel, SaveState, DispatcherDies, webhookVars,
         seenVars, pauseVars, DispatchInv, TickOK, MarksOK
<1>2. tick.step # "pauses" \/ tick.queue = {} => ~ \E k : Queued(k)
  BY DEF Queued
<1>3. CASE TickStarts
  <2>1. /\ tick' = [step |-> "events", config |-> config, state |-> file, queue |-> {}]
        /\ file' = file /\ tried' = tried
    BY <1>3 DEF TickStarts, seenVars, pauseVars
  <2>2. tick'.step = "events" /\ Mark' = file
    BY <2>1 DEF Mark
  <2> QED
    BY <1>1, <2>1, <2>2, PassedStays
<1>4. CASE ReadLog
  <2>1. PICK q, t : t = [tick EXCEPT !.step = "recalls", !.queue = q] /\ tick' = t
    BY <1>4 DEF ReadLog
  <2>2. t = [step |-> "recalls", config |-> tick.config, state |-> m, queue |-> q]
    BY <1>1, <2>1 DEF TickShape
  <2>3. file' = file /\ tried' = tried /\ tick.step = "pauses" /\ tick.queue = {}
    BY <1>4 DEF ReadLog, seenVars, pauseVars
  <2>4. tick'.step = "recalls" /\ Mark = m /\ Mark' = m
    BY <2>1, <2>2, <2>3 DEF Mark
  <2> QED
    BY <1>1, <1>2, <2>3, <2>4, PassedStays
<1>5. CASE TellRecall
  <2>1. PICK k : TellOne("recall", k) /\ tick' = [tick EXCEPT !.state = [m EXCEPT !.recall = recalls[k]],
                                                         !.queue = tick.queue \ {k}]
    BY <1>5 DEF TellRecall
  <2>2. PICK s : /\ s = [m EXCEPT !.recall = recalls[k]]
                 /\ s = [pause |-> m.pause, recall |-> recalls[k], level |-> m.level]
    BY <1>1, MarkEdits
  <2>3. PICK t : t = [tick EXCEPT !.state = s, !.queue = tick.queue \ {k}] /\ tick' = t
    BY <2>1, <2>2
  <2>4. t = [step |-> tick.step, config |-> tick.config, state |-> s, queue |-> tick.queue \ {k}]
    BY <1>1, <2>3 DEF TickShape
  <2>5. file' = file /\ tick.step = "recalls"
    BY <1>5 DEF TellRecall
  <2>6. tick'.step = "recalls" /\ Mark = m /\ Mark' = s /\ s.pause = m.pause
    BY <2>2, <2>3, <2>4, <2>5 DEF Mark
  <2>7. tried'.pause = tried.pause
    BY <2>1, TriedOnce
  <2> QED
    BY <1>1, <1>2, <2>5, <2>6, <2>7, PassedStays
<1>6. CASE TellLevel
  <2>1. PICK s, t : /\ s = [m EXCEPT !.level = Level]
                    /\ t = [tick EXCEPT !.step = "save", !.state = s] /\ tick' = t
    BY <1>6 DEF TellLevel
  <2>2. s = [pause |-> m.pause, recall |-> m.recall, level |-> Level]
    BY <1>1, <2>1, MarkEdits
  <2>3. t = [step |-> "save", config |-> tick.config, state |-> s, queue |-> tick.queue]
    BY <1>1, <2>1 DEF TickShape
  <2>4. file' = file /\ tried' = tried /\ tick.step = "recalls"
    BY <1>6 DEF TellLevel, pauseVars
  <2>5. tick'.step = "save" /\ Mark = m /\ Mark' = s /\ s.pause = m.pause
    BY <2>1, <2>2, <2>3, <2>4 DEF Mark
  <2> QED
    BY <1>1, <1>2, <2>4, <2>5, PassedStays
<1>7. CASE SaveState
  <2>1. file' = m /\ tried' = tried /\ tick.step = "save" /\ tick' = Idle
    BY <1>7 DEF SaveState, seenVars, pauseVars
  <2>2. tick'.step = "idle" /\ Mark = m /\ Mark' = m
    BY <2>1, IdleTick DEF Mark
  <2> QED
    BY <1>1, <1>2, <2>1, <2>2, PassedStays
<1>8. CASE DispatcherDies
  <2>1. (file' = file \/ file' = NoMarks) /\ tried' = tried /\ tick' = Idle
    BY <1>8 DEF DispatcherDies, pauseVars
  <2>2. tick'.step = "idle" /\ Mark' = file' /\ (file'.pause = file.pause \/ file'.pause = 0)
    BY <2>1, IdleTick DEF Mark, NoMarks
  <2> QED
    BY <1>1, <2>1, <2>2, PassedStays
<1> QED
  BY <1>3, <1>4, <1>5, <1>6, <1>7, <1>8

LEMMA PassedStep ==
    ASSUME DispatchInv, PassedInv, WebhookTypeOK', [PipelineNext]_pipelineVars
    PROVE  PassedInv'
<1>1. CASE WebhookNext /\ UNCHANGED dispatcherVars
  BY <1>1, PassedByWebhook
<1>2. CASE TickStep \/ DispatcherDies
  BY <1>2, PassedByFetch, PassedByTelling, PassedByTickStep DEF TickStep
<1>3. CASE UNCHANGED <<webhookVars, file, tick, pauseVars>>
  <2>1. UNCHANGED <<now, pauses, file, tick, tried, leftOut>>
    BY <1>3 DEF webhookVars, pauseVars
  <2> QED
    BY <2>1 DEF PassedInv, PausesAreDated, PassedByFile, PassedByTick, QueueIsWhole,
                Handled, Queued, Mark
<1>4. CASE \/ \E c \in Configs : WriteConfig(c)
           \/ LogRecall \/ LevelMoves \/ UNCHANGED pipelineVars
  <2>1. CASE \E c \in Configs : WriteConfig(c)
    BY <1>3, <2>1 DEF WriteConfig, seenVars
  <2>2. CASE LogRecall
    BY <1>3, <2>2 DEF LogRecall, seenVars
  <2>3. CASE LevelMoves
    BY <1>3, <2>3 DEF LevelMoves
  <2>4. CASE UNCHANGED pipelineVars
    BY <1>3, <2>4 DEF pipelineVars, dispatcherVars, pauseVars
  <2> QED
    BY <1>4, <2>1, <2>2, <2>3, <2>4
<1> QED
  BY <1>1, <1>2, <1>4 DEF PipelineNext

\* No start, death, or order of ticks and ledgers makes the dispatcher's mark pass a
\* pause that it neither dispatched nor left out as beyond the ledgers it asked for
\* (fetchNewPauseEvents, tick and saveState in alertDispatcherLoop.ts).
THEOREM NoPauseIsSkipped == PipelineSpec => []PassedWasTried
<1>1. /\ TrackerInv /\ DispatchInv /\ PassedInv /\ [PipelineNext]_pipelineVars
         => TrackerInv' /\ DispatchInv' /\ PassedInv'
  <2> SUFFICES ASSUME TrackerInv, DispatchInv, PassedInv, [PipelineNext]_pipelineVars
               PROVE  TrackerInv' /\ DispatchInv' /\ PassedInv'
    OBVIOUS
  <2>1. TrackerInv'
    BY TrackerStep, PipelineIsWebhook
  <2> QED
    BY <2>1, DispatchStep, PassedStep DEF TrackerInv
<1>2. PipelineInit => TrackerInv /\ DispatchInv /\ PassedInv
  BY TrackerInit, PipelineStart, DispatchInit, PassedInit
<1>3. DispatchInv /\ PassedInv => PassedWasTried
  <2> SUFFICES ASSUME DispatchInv, PassedInv, NEW i \in DOMAIN pauses, file.pause >= pauses[i]
               PROVE  Handled(i)
    BY DEF PassedWasTried, Handled
  <2>1. pauses[i] \in Int /\ file.pause \in Int
    BY DEF DispatchInv, TimesOK, InOrder, TickOK, MarksOK
  <2> QED
    BY <2>1 DEF PassedInv, PassedByFile
<1> QED
  BY <1>1, <1>2, <1>3, PTL DEF PipelineSpec

-----------------------------------------------------------------------------

\* Least and greatest of finitely many integers.
LEMMA LeastInteger ==
    ASSUME NEW S \in SUBSET Int, IsFiniteSet(S), S # {}
    PROVE  \E x \in S : \A y \in S : x <= y
<1> DEFINE Has(s) == s # {} => \E x \in s : \A y \in s : x <= y
           Bad == {s \in SUBSET S : ~ Has(s)}
<1> SUFFICES ASSUME Bad # {} PROVE FALSE
  OBVIOUS
<1>1. PICK s \in Bad : \A t \in SUBSET s : t # s => t \notin Bad
  <2>1. Bad \in SUBSET (SUBSET S)
    OBVIOUS
  <2> HIDE DEF Bad
  <2> QED
    BY <2>1, SmallestSubset
<1>2. s \in SUBSET S /\ s # {} /\ ~ \E x \in s : \A y \in s : x <= y
  OBVIOUS
<1>3. PICK x \in s : TRUE
  BY <1>2
<1>4. PICK y \in s : ~ (x <= y)
  BY <1>2
<1>5. s \ {x} \in SUBSET s /\ s \ {x} # s /\ s \ {x} \in SUBSET S /\ s \ {x} # {}
  BY <1>2, <1>4
<1>6. PICK z \in s \ {x} : \A w \in s \ {x} : z <= w
  BY <1>1, <1>5
<1>7. x \in Int /\ z \in Int /\ \A w \in s : w \in Int
  BY <1>2
<1>8. z <= x \/ x <= z
  BY <1>7
<1>9. \A w \in s : z <= w \/ x <= w
  BY <1>6, <1>7, <1>8
<1>10. CASE z <= x
  BY <1>2, <1>6, <1>10
<1>11. CASE x <= z
  BY <1>2, <1>6, <1>7, <1>11
<1> QED
  BY <1>8, <1>10, <1>11

LEMMA GreatestInteger ==
    ASSUME NEW S \in SUBSET Int, IsFiniteSet(S), S # {}
    PROVE  \E x \in S : \A y \in S : y <= x
<1> DEFINE Has(s) == s # {} => \E x \in s : \A y \in s : y <= x
           Bad == {s \in SUBSET S : ~ Has(s)}
<1> SUFFICES ASSUME Bad # {} PROVE FALSE
  OBVIOUS
<1>1. PICK s \in Bad : \A t \in SUBSET s : t # s => t \notin Bad
  <2>1. Bad \in SUBSET (SUBSET S)
    OBVIOUS
  <2> HIDE DEF Bad
  <2> QED
    BY <2>1, SmallestSubset
<1>2. s \in SUBSET S /\ s # {} /\ ~ \E x \in s : \A y \in s : y <= x
  OBVIOUS
<1>3. PICK x \in s : TRUE
  BY <1>2
<1>4. PICK y \in s : ~ (y <= x)
  BY <1>2
<1>5. s \ {x} \in SUBSET s /\ s \ {x} # s /\ s \ {x} \in SUBSET S /\ s \ {x} # {}
  BY <1>2, <1>4
<1>6. PICK z \in s \ {x} : \A w \in s \ {x} : w <= z
  BY <1>1, <1>5
<1>7. x \in Int /\ z \in Int /\ \A w \in s : w \in Int
  BY <1>2
<1>8. z <= x \/ x <= z
  BY <1>7
<1>10. CASE x <= z
  BY <1>2, <1>6, <1>10
<1>11. CASE z <= x
  BY <1>2, <1>6, <1>7, <1>11
<1> QED
  BY <1>8, <1>10, <1>11

\* The k-th of finitely many integers is one of them.
Below(values, v) == {i \in DOMAIN values : values[i] <= v}

LEMMA RangeFinite ==
    ASSUME NEW D, IsFiniteSet(D), NEW f \in [D -> Int]
    PROVE  Range(f) \in SUBSET Int /\ IsFiniteSet(Range(f)) /\ (D # {} => Range(f) # {})
<1>1. Range(f) = {f[x] : x \in D}
  BY DEF Range
<1>2. f \in Surjection(D, Range(f))
  BY <1>1 DEF Surjection
<1> QED
  BY <1>1, <1>2, FS_Surjection

LEMMA RankedIsOne ==
    ASSUME NEW D, IsFiniteSet(D), NEW f \in [D -> Int], NEW k \in Int, k <= Cardinality(D), D # {}
    PROVE  /\ Ranked(f, k) \in Range(f) /\ Ranked(f, k) \in Int
           /\ Cardinality(Below(f, Ranked(f, k))) >= k
           /\ \A w \in Range(f) : w < Ranked(f, k) => ~ (Cardinality(Below(f, w)) >= k)
<1>1. Range(f) \in SUBSET Int /\ IsFiniteSet(Range(f)) /\ Range(f) # {}
  BY RangeFinite
<1> DEFINE Reaches(v) == Cardinality(Below(f, v)) >= k
           S == {v \in Range(f) : Reaches(v)}
<1>2. PICK top \in Range(f) : \A v \in Range(f) : v <= top
  BY <1>1, GreatestInteger
<1>3. Below(f, top) = D
  BY <1>2 DEF Below, Range
<1>4. Reaches(top)
  BY <1>3, FS_CardinalityType
<1>5. S \in SUBSET Int /\ IsFiniteSet(S) /\ S # {}
  BY <1>1, <1>4, FS_Subset
<1>6. PICK v \in S : \A w \in S : v <= w
  <2> HIDE DEF S
  <2> QED
    BY <1>5, LeastInteger
<1>7. v \in Range(f) /\ Reaches(v) /\ \A w \in Range(f) : w < v => ~Reaches(w)
  <2> HIDE DEF Reaches
  <2> QED
    BY <1>1, <1>6
<1>8. Ranked(f, k) = CHOOSE u \in Range(f) :
                       Reaches(u) /\ \A w \in Range(f) : w < u => ~Reaches(w)
  BY DEF Ranked, Below
<1>9. /\ Ranked(f, k) \in Range(f) /\ Reaches(Ranked(f, k))
      /\ \A w \in Range(f) : w < Ranked(f, k) => ~Reaches(w)
  <2> HIDE DEF Reaches
  <2> QED
    BY <1>7, <1>8
<1> QED
  BY <1>1, <1>9
-----------------------------------------------------------------------------
\* The sizing arithmetic yields integers.
LEMMA MedianTyped ==
    ASSUME NEW values \in Seq(Int)
    PROVE  MedianOf(values) \in Int
<1>0. PICK n \in Nat : n = Len(values)
  OBVIOUS
<1> DEFINE mid == n \div 2
<1>1. n \in Nat /\ IsFiniteSet(1 .. n) /\ Cardinality(1 .. n) = n /\ values \in [1 .. n -> Int]
  <2>1. IsFiniteSet(1 .. n) /\ Cardinality(1 .. n) = n
    <3>1. IsFiniteSet(1 .. n) /\ Cardinality(1 .. n) = IF 1 > n THEN 0 ELSE n - 1 + 1
      <4>1. 1 \in Int /\ n \in Int
        OBVIOUS
      <4> QED
        BY <4>1, FS_Interval
    <3> QED
      BY <3>1
  <2> QED
    BY <1>0, <2>1
<1>2. CASE values = <<>>
  BY <1>2 DEF MedianOf
<1>3. CASE values # <<>>
  <2>1. n > 0 /\ 1 .. n # {}
    BY <1>0, <1>3
  <2>2. mid \in Nat /\ mid <= n /\ (n % 2 = 1 => mid + 1 <= n)
    BY <1>1, SMT
  <2>3. n % 2 # 1 => mid + 1 <= n
    BY <1>1, <2>1, SMT
  <2>4. \A k \in Int : k <= n => Ranked(values, k) \in Int
    <3>1. PICK D : D = 1 .. n
      OBVIOUS
    <3>2. IsFiniteSet(D) /\ values \in [D -> Int] /\ D # {} /\ Cardinality(D) = n
      BY <1>1, <2>1, <3>1
    <3>3. TAKE k \in Int
    <3>4. HAVE k <= n
    <3> QED
      BY <3>2, <3>4, RankedIsOne
  <2> DEFINE a == Ranked(values, mid)
             b == Ranked(values, mid + 1)
  <2>5. a \in Int /\ b \in Int
    BY <2>2, <2>3, <2>4
  <2>6. (a + b) \div 2 \in Int
    <3> HIDE DEF a, b
    <3> QED
      BY <2>5
  <2> QED
    BY <1>0, <1>3, <2>5, <2>6 DEF MedianOf
<1> QED
  BY <1>2, <1>3

LEMMA WinsorizedTyped ==
    ASSUME NEW obs \in Seq(Int)
    PROVE  WinsorizedSeries(obs) \in Seq(Int) /\ Len(WinsorizedSeries(obs)) = Len(obs)
<1>1. ASSUME NEW i \in 1 .. Len(obs) PROVE Winsorize(obs[i], MedianOf(Before(obs, i))) \in Int
  <2>1. i \in Nat /\ obs[i] \in Int
    OBVIOUS
  <2>2. PICK a : a = IF i > Trailing THEN i - Trailing ELSE 1
    OBVIOUS
  <2>3. a \in Nat /\ a >= 1
    BY <2>1, <2>2, AmountsAssumption
  <2>4. SubSeq(obs, a, i - 1) \in Seq(Int)
    BY <2>1, <2>3
  <2>5. MedianOf(Before(obs, i)) \in Int
    BY <2>2, <2>4, MedianTyped DEF Before
  <2>6. PICK m \in Int : m = MedianOf(Before(obs, i))
    BY <2>5
  <2> QED
    BY <2>1, <2>6 DEF Winsorize
<1>2. WinsorizedSeries(obs) \in [1 .. Len(obs) -> Int]
  BY <1>1 DEF WinsorizedSeries
<1> QED
  BY <1>2

EwmaBody(series, alpha, g, k) ==
    IF k = 0 THEN 0
    ELSE IF k = 1 THEN Scale * series[1]
    ELSE EwmaStep(g[k - 1], Scale * series[k], alpha)
AreEwmas(series, alpha, g) == g = [k \in 0 .. Len(series) |-> EwmaBody(series, alpha, g, k)]
Ewmas(series, alpha) == CHOOSE g : AreEwmas(series, alpha, g)
EwmaMoves(series, alpha) ==
    [k \in 1 .. Len(series) |->
        [e \in Int |-> IF k = 1 THEN Scale * series[1]
                       ELSE EwmaStep(e, Scale * series[k], alpha)]]

LEMMA EwmaIsLast ==
    ASSUME NEW series, NEW alpha
    PROVE  Ewma(series, alpha) = Ewmas(series, alpha)[Len(series)]
  BY DEF Ewma, Ewmas, AreEwmas, EwmaBody

LEMMA EwmaStepTyped ==
    ASSUME NEW e \in Int, NEW x \in Int, NEW alpha \in Int
    PROVE  EwmaStep(e, x, alpha) \in Int
<1>1. PICK y \in Int : y = alpha * x + (Scale - alpha) * e
  BY ScaleAssumption
<1> QED
  BY <1>1, ScaleAssumption DEF EwmaStep

\* A recursion over 0 .. n has a solution.
RunsThrough(g, n, seed, D, F) ==
    /\ g \in [0 .. n -> D] /\ g[0] = seed
    /\ \A k \in 1 .. n : g[k] = F[k][g[k - 1]]

LEMMA RunFunction ==
    ASSUME NEW n \in Nat, NEW D, NEW seed \in D, NEW F \in [1 .. n -> [D -> D]]
    PROVE  \E g : RunsThrough(g, n, seed, D, F)
<1>1. PICK h : IsRun(h, n, seed, D, F)
  BY RunExists
<1>2. \A k \in 0 .. n : h[k] \in D
  BY <1>1, RunsAgree
<1>3. PICK g : g = [k \in 0 .. n |-> h[k]]
  OBVIOUS
<1>4. ASSUME NEW k \in 1 .. n PROVE g[k] = F[k][g[k - 1]]
  <2>1. k \in 0 .. n /\ k - 1 \in 0 .. n
    OBVIOUS
  <2>2. g[k] = h[k] /\ g[k - 1] = h[k - 1] /\ h[k - 1] \in D
    BY <1>2, <1>3, <2>1
  <2> QED
    BY <1>1, <2>2 DEF IsRun
<1>5. g \in [0 .. n -> D] /\ g[0] = seed
  BY <1>1, <1>2, <1>3 DEF IsRun
<1> QED
  BY <1>4, <1>5 DEF RunsThrough

LEMMA EwmasDefined ==
    ASSUME NEW series \in Seq(Int), NEW alpha \in Int
    PROVE  /\ Ewmas(series, alpha) \in [0 .. Len(series) -> Int]
           /\ \A k \in 0 .. Len(series) :
                Ewmas(series, alpha)[k] = EwmaBody(series, alpha, Ewmas(series, alpha), k)
<1> DEFINE n == Len(series)
           F == EwmaMoves(series, alpha)
<1>1. n \in Nat /\ \A k \in 1 .. n : series[k] \in Int /\ Scale * series[k] \in Int
  BY ScaleAssumption
<1>2. ASSUME NEW k \in 1 .. n, NEW e \in Int
      PROVE  (IF k = 1 THEN Scale * series[1] ELSE EwmaStep(e, Scale * series[k], alpha)) \in Int
  BY <1>1, EwmaStepTyped
<1>3. F \in [1 .. n -> [Int -> Int]]
  BY <1>2 DEF EwmaMoves
<1>4. \A k \in 1 .. n : \A e \in Int :
        F[k][e] = IF k = 1 THEN Scale * series[1] ELSE EwmaStep(e, Scale * series[k], alpha)
  BY DEF EwmaMoves
<1> HIDE DEF n, F
<1>5. PICK g \in [0 .. n -> Int] : g[0] = 0 /\ \A k \in 1 .. n : g[k] = F[k][g[k - 1]]
  <2>1. PICK D : D = Int
    OBVIOUS
  <2>2. 0 \in D /\ F \in [1 .. n -> [D -> D]]
    BY <1>3, <2>1
  <2>3. \E g : RunsThrough(g, n, 0, D, F)
    BY <1>1, <2>2, RunFunction
  <2> QED
    BY <2>1, <2>3 DEF RunsThrough
<1>6. ASSUME NEW k \in 0 .. n PROVE g[k] = EwmaBody(series, alpha, g, k)
  <2>1. CASE k = 0
    BY <1>5, <2>1 DEF EwmaBody
  <2>2. CASE k # 0
    <3>1. k \in 1 .. n /\ k - 1 \in 0 .. n
      BY <1>1, <2>2
    <3> QED
      BY <1>4, <1>5, <2>2, <3>1 DEF EwmaBody
  <2> QED
    BY <2>1, <2>2
<1>7. g = [k \in 0 .. n |-> EwmaBody(series, alpha, g, k)]
  BY <1>6
<1>8. AreEwmas(series, alpha, Ewmas(series, alpha))
  BY <1>7 DEF AreEwmas, Ewmas, n
<1> DEFINE p == Ewmas(series, alpha)
<1>9. /\ p = [k \in 0 .. n |-> p[k]]
      /\ \A k \in 0 .. n : p[k] = EwmaBody(series, alpha, p, k)
  BY <1>8 DEF AreEwmas, n
<1> HIDE DEF p
<1>10. IsRun(p, n, 0, Int, F)
  <2>1. p[0] = 0
    <3>1. 0 \in 0 .. n
      BY <1>1
    <3> QED
      BY <1>9, <3>1 DEF EwmaBody
  <2>2. ASSUME NEW k \in 1 .. n, p[k - 1] \in Int PROVE p[k] = F[k][p[k - 1]]
    <3>1. k \in 0 .. n /\ k # 0
      BY <1>1
    <3> QED
      BY <1>4, <1>9, <2>2, <3>1 DEF EwmaBody
  <2> QED
    BY <2>1, <2>2 DEF IsRun
<1>11. \A k \in 0 .. n : p[k] \in Int
  <2>1. PICK D : D = Int
    OBVIOUS
  <2>2. 0 \in D /\ F \in [1 .. n -> [D -> D]] /\ IsRun(p, n, 0, D, F)
    BY <1>3, <1>10, <2>1
  <2>3. \A k \in 0 .. n : p[k] \in D
    BY <1>1, <2>2, RunsAgree
  <2> QED
    BY <2>1, <2>3
<1> QED
  BY <1>9, <1>11 DEF p, n

LEMMA EwmaTyped ==
    ASSUME NEW series \in Seq(Int), NEW alpha \in Int
    PROVE  Ewma(series, alpha) \in Int
<1>1. Len(series) \in 0 .. Len(series)
  OBVIOUS
<1> QED
  BY <1>1, EwmasDefined, EwmaIsLast

LEMMA PerHourTyped ==
    ASSUME NEW obs \in Seq(Int)
    PROVE  PerHour(ComputeEwmas(WinsorizedSeries(obs))) \in Int
<1>1. FastAlpha \in Int /\ SlowAlpha \in Int
  BY ScaleAssumption, AlphaAssumption
<1> QED
  BY <1>1, WinsorizedTyped, EwmaTyped DEF PerHour, ComputeEwmas

LEMMA TargetTyped ==
    ASSUME NEW obs \in Seq(Int)
    PROVE  ComputeTier0Target(ComputeEwmas(WinsorizedSeries(obs))) \in Int
<1>1. PICK p \in Int : p = PerHour(ComputeEwmas(WinsorizedSeries(obs)))
  BY PerHourTyped
<1>2. PICK h \in Int : h = Scale \div 2
  BY ScaleAssumption
<1>3. PICK q \in Int : q = p * RecallHours + h
  BY AmountsAssumption
<1>4. q \div Scale \in Int
  BY ScaleAssumption
<1> QED
  BY <1>1, <1>2, <1>3, <1>4, AmountsAssumption DEF ComputeTier0Target
-----------------------------------------------------------------------------
\* The invariant of the burn history and the target.
Buckets == [hour : Nat, amount : Nat \ {0}]

ForecastTyped ==
    /\ hour \in Nat
    /\ burns \in Seq(Buckets)
    /\ target \in Int /\ computed \in Int /\ onChain \in Int /\ applied \in Int
    /\ inFlight \in Int \cup {Nothing}
    /\ belowSince \in Nat \cup {NotBelow}
    /\ declining \in Nat \cup {NotBelow}

\* While the file holds a decline clock, it does not run from an hour before the
\* decline itself began.
ClockIsNotAhead ==
    belowSince # NotBelow => declining # NotBelow /\ declining <= belowSince

ForecastInv == ForecastTyped /\ ClockIsNotAhead

LEMMA ComputedTargetTyped ==
    ASSUME burns \in Seq(Buckets)
    PROVE  ComputedTarget \in Int
<1>2. PICK n \in Nat : n = Len(burns)
  OBVIOUS
<1>1. ASSUME NEW i \in 1 .. n PROVE burns[i].amount \in Int
  <2>1. burns[i] \in Buckets
    BY <1>2
  <2> QED
    BY <2>1 DEF Buckets
<1>3. PICK obs : obs = Observations
  OBVIOUS
<1>4. obs \in [1 .. n -> Int]
  BY <1>1, <1>2, <1>3 DEF Observations
<1>5. obs \in Seq(Int)
  BY <1>4
<1> QED
  BY <1>3, <1>5, TargetTyped DEF ComputedTarget

LEMMA ClampTyped ==
    ASSUME NEW t \in Int
    PROVE  Clamp(t) \in Int
  BY TargetsAssumption DEF Clamp

LEMMA HysteresisTyped ==
    ASSUME NEW c \in Int, NEW o \in Int, NEW when \in Nat, NEW b \in Nat \cup {NotBelow}
    PROVE  /\ ApplyHysteresis(c, o, when, b).applied \in Int
           /\ ApplyHysteresis(c, o, when, b).belowSince \in Nat \cup {NotBelow}
  BY DEF ApplyHysteresis

LEMMA ForecastInvInit == Init => ForecastInv
  BY TargetsAssumption DEF Init, ForecastInv, ForecastTyped, ClockIsNotAhead

LEMMA ForecastInvNext == ForecastInv /\ [Next]_vars => ForecastInv'
<1> SUFFICES ASSUME ForecastInv, [Next]_vars PROVE ForecastInv'
  OBVIOUS
<1> USE DEF ForecastInv
<1>1. ASSUME NEW a \in Amounts, Pay(a) PROVE ForecastInv'
  <2>1. a \in Nat \ {0}
    BY BurnAssumption
  <2>2. BurntThisHour \in Nat /\ (BurntThisHour # 0 => burns # <<>>)
    <3>1. CASE burns # <<>> /\ Last(burns).hour = hour
      <4>1. Last(burns) \in Buckets
        BY <3>1 DEF ForecastTyped, Last
      <4> QED
        BY <3>1, <4>1 DEF BurntThisHour, Buckets
    <3> QED
      BY <3>1 DEF BurntThisHour
  <2>3. burns' \in Seq(Buckets)
    <3>1. CASE BurntThisHour = 0
      <4>1. [hour |-> hour, amount |-> a] \in Buckets
        BY <2>1 DEF Buckets, ForecastTyped
      <4> QED
        BY <1>1, <3>1, <4>1 DEF Pay, ForecastTyped
    <3>2. CASE BurntThisHour # 0
      <4>1. PICK n \in Nat : n = Len(burns) /\ n # 0
        BY <2>2, <3>2 DEF ForecastTyped
      <4>2. burns[n] \in Buckets
        BY <4>1 DEF ForecastTyped
      <4>3. [burns[n] EXCEPT !.amount = @ + a] \in Buckets
        BY <2>1, <4>2 DEF Buckets
      <4>4. burns' = [burns EXCEPT ![n] = [burns[n] EXCEPT !.amount = @ + a]]
        BY <1>1, <3>2, <4>1 DEF Pay
      <4> QED
        BY <4>1, <4>3, <4>4 DEF ForecastTyped
    <3> QED
      BY <3>1, <3>2
  <2> QED
    BY <1>1, <2>3 DEF Pay, tickVars, ForecastTyped, ClockIsNotAhead
<1>2. ASSUME NextHour PROVE ForecastInv'
  <2>1. burns' \in Seq(Buckets)
    BY <1>2 DEF NextHour, ForecastTyped
  <2> QED
    BY <1>2, <2>1 DEF NextHour, tickVars, ForecastTyped, ClockIsNotAhead
<1>3. ASSUME Fetch PROVE ForecastInv'
  <2>1. computed' \in Int
    BY <1>3, ComputedTargetTyped DEF Fetch, ForecastTyped
  <2> QED
    BY <1>3, <2>1 DEF Fetch, worldVars, ForecastTyped, ClockIsNotAhead
<1>4. ASSUME ReadTierState PROVE ForecastInv'
  BY <1>4 DEF ReadTierState, worldVars, ForecastTyped, ClockIsNotAhead
<1>5. ASSUME Decide PROVE ForecastInv'
  <2>1. /\ UNCHANGED <<hour, burns, target, inFlight, computed, onChain>>
        /\ applied' = ApplyHysteresis(computed, onChain, hour, belowSince).applied
        /\ belowSince' = ApplyHysteresis(computed, onChain, hour, belowSince).belowSince
        /\ declining' = IF computed >= onChain THEN NotBelow
                        ELSE IF declining = NotBelow THEN hour ELSE declining
    BY <1>5 DEF Decide, worldVars
  <2>2. applied' \in Int /\ belowSince' \in Nat \cup {NotBelow}
    BY <2>1, HysteresisTyped DEF ForecastTyped
  <2>3. declining' \in Nat \cup {NotBelow}
    BY <2>1 DEF ForecastTyped
  <2>4. ClockIsNotAhead'
    <3>1. CASE computed >= onChain
      BY <2>1, <3>1 DEF ApplyHysteresis, ClockIsNotAhead
    <3>2. CASE ~ (computed >= onChain)
      <4>1. belowSince' # NotBelow =>
              belowSince' = IF belowSince = NotBelow THEN hour ELSE belowSince
        BY <2>1, <3>2 DEF ApplyHysteresis
      <4>2. CASE declining = NotBelow
        BY <2>1, <3>2, <4>1, <4>2, NothingAssumption DEF ForecastTyped, ClockIsNotAhead
      <4>3. CASE declining # NotBelow
        BY <2>1, <3>2, <4>1, <4>3, NothingAssumption DEF ForecastTyped, ClockIsNotAhead
      <4> QED
        BY <4>2, <4>3
    <3> QED
      BY <3>1, <3>2
  <2> QED
    BY <2>1, <2>2, <2>3, <2>4 DEF ForecastTyped
<1>6. ASSUME WriteLands PROVE ForecastInv'
  BY <1>6, ClampTyped DEF WriteLands, ForecastTyped, ClockIsNotAhead
<1>7. ASSUME NEW b \in Balances, Sample(b) PROVE ForecastInv'
  BY <1>7 DEF Sample, TickOver, worldVars, ForecastTyped, ClockIsNotAhead
<1>8. ASSUME TickEnds PROVE ForecastInv'
  BY <1>8 DEF TickEnds, TickOver, worldVars, ForecastTyped, ClockIsNotAhead
<1>9. ASSUME TickDies PROVE ForecastInv'
  BY <1>9 DEF TickDies, TickOver, ForecastTyped, ClockIsNotAhead
<1>10. ASSUME FileTorn PROVE ForecastInv'
  BY <1>10 DEF FileTorn, TickOver, worldVars, ForecastTyped, ClockIsNotAhead
<1>11. ASSUME LateWrite PROVE ForecastInv'
  <2>1. Clamp(inFlight) \in Int
    BY <1>11, ClampTyped DEF LateWrite, ForecastTyped
  <2> QED
    BY <1>11, <2>1 DEF LateWrite, tickVars, ForecastTyped, ClockIsNotAhead
<1>12. ASSUME UNCHANGED vars PROVE ForecastInv'
  BY <1>12 DEF vars, ForecastTyped, ClockIsNotAhead
<1> QED
  BY <1>1, <1>2, <1>3, <1>4, <1>5, <1>6, <1>7, <1>8, <1>9, <1>10, <1>11, <1>12
     DEF Next, SizingStep

\* Whatever the burns, the bounds, the bands and the mishaps, the target on chain is
\* only ever lowered after LowerAfter hours of decisions that all saw a decline
\* (applyHysteresis, forecasterLoop.ts).
THEOREM LoweringIsSustained == Spec => LowersAfterSustained
<1>1. ForecastInv /\ [Next]_vars =>
        [phase = "read" /\ phase' = "write" /\ applied' < onChain
           => declining # NotBelow /\ hour - declining >= LowerAfter]_vars
  <2> SUFFICES ASSUME ForecastInv, [Next]_vars,
                      phase = "read", phase' = "write", applied' < onChain
               PROVE  declining # NotBelow /\ hour - declining >= LowerAfter
    OBVIOUS
  <2>1. Decide
    <3>1. \A a \in Amounts : ~ Pay(a)
      BY DEF Pay, tickVars
    <3>2. \A b \in Balances : ~ Sample(b)
      BY DEF Sample
    <3>3. ~ NextHour /\ ~ Fetch /\ ~ ReadTierState /\ ~ WriteLands /\ ~ TickEnds
      BY DEF NextHour, tickVars, Fetch, ReadTierState, WriteLands, TickEnds
    <3>4. ~ TickDies /\ ~ FileTorn /\ ~ LateWrite /\ ~ UNCHANGED vars
      BY DEF TickDies, FileTorn, TickOver, LateWrite, tickVars, vars
    <3> QED
      BY <3>1, <3>2, <3>3, <3>4 DEF Next, SizingStep
  <2>2. applied' = ApplyHysteresis(computed, onChain, hour, belowSince).applied
    BY <2>1 DEF Decide
  <2>3. ForecastTyped /\ ClockIsNotAhead
    BY DEF ForecastInv
  <2>4. ~ (computed >= onChain)
    BY <2>2, <2>3 DEF ApplyHysteresis, ForecastTyped
  <2> DEFINE since == IF belowSince = NotBelow THEN hour ELSE belowSince
  <2>5. hour - since >= LowerAfter
    BY <2>2, <2>3, <2>4 DEF ApplyHysteresis, ForecastTyped
  <2>6. belowSince # NotBelow
    BY <2>3, <2>5, LowerAfterAssumption DEF ForecastTyped
  <2> QED
    BY <2>3, <2>5, <2>6, LowerAfterAssumption, NothingAssumption
       DEF ForecastTyped, ClockIsNotAhead
<1> QED
  BY <1>1, ForecastInvInit, ForecastInvNext, PTL DEF Spec, LowersAfterSustained

-----------------------------------------------------------------------------
\* Division by a positive integer.
LEMMA QuotientIs ==
    ASSUME NEW a \in Int, NEW n \in Nat, n > 0, NEW q \in Int, q * n <= a, a < (q + 1) * n
    PROVE  a \div n = q
  BY SMT

LEMMA QuotientOfMultiple ==
    ASSUME NEW q \in Int, NEW n \in Nat, n > 0
    PROVE  (n * q) \div n = q
<1>1. q * n = n * q /\ q * n <= n * q /\ n * q < (q + 1) * n
  BY SMT
<1>2. n * q \in Int
  OBVIOUS
<1> QED
  BY <1>1, <1>2, QuotientIs

LEMMA QuotientBounds ==
    ASSUME NEW a \in Int, NEW n \in Nat, n > 0
    PROVE  a \div n \in Int /\ (a \div n) * n <= a /\ a < (a \div n + 1) * n
  BY SMT

LEMMA QuotientMonotone ==
    ASSUME NEW a \in Int, NEW b \in Int, a <= b, NEW n \in Nat, n > 0
    PROVE  a \div n <= b \div n
  BY SMT

LEMMA QuotientAdvances ==
    ASSUME NEW a \in Int, NEW e \in Int, NEW n \in Nat, n > 0, n <= e
    PROVE  a \div n < (a + e) \div n
<1>1. PICK q \in Int : q = a \div n /\ q * n <= a
  BY QuotientBounds
<1>2. PICK r \in Int : r = (a + e) \div n /\ a + e < (r + 1) * n
  <2>1. a + e \in Int
    OBVIOUS
  <2> QED
    BY <2>1, QuotientBounds
<1>3. q * n + n = (q + 1) * n
  BY SMT
<1>4. (q + 1) * n < (r + 1) * n
  <2>1. (q + 1) * n \in Int /\ (r + 1) * n \in Int /\ q * n \in Int
    BY SMT
  <2> QED
    BY <1>1, <1>2, <1>3, <2>1
<1>5. q < r
  BY <1>4, SMT
<1> QED
  BY <1>1, <1>2, <1>5

\* Least and greatest of two.
LEMMA LeastOfTwo ==
    ASSUME NEW a \in Int, NEW b \in Int
    PROVE  Min({a, b}) = IF a <= b THEN a ELSE b
<1>1. PICK m : m = IF a <= b THEN a ELSE b
  OBVIOUS
<1>2. m \in {a, b} /\ \A y \in {a, b} : m <= y
  BY <1>1
<1>3. Min({a, b}) \in {a, b} /\ \A y \in {a, b} : Min({a, b}) <= y
  BY <1>2 DEF Min
<1> QED
  BY <1>1, <1>2, <1>3

LEMMA GreatestOfTwo ==
    ASSUME NEW a \in Int, NEW b \in Int
    PROVE  Max({a, b}) = IF a >= b THEN a ELSE b
<1>1. PICK m : m = IF a >= b THEN a ELSE b
  OBVIOUS
<1>2. m \in {a, b} /\ \A y \in {a, b} : m >= y
  BY <1>1
<1>3. Max({a, b}) \in {a, b} /\ \A y \in {a, b} : Max({a, b}) >= y
  BY <1>2 DEF Max
<1> QED
  BY <1>1, <1>2, <1>3

-----------------------------------------------------------------------------
\* Percentiles.
RankOf(n, p) == Max({1, Min({n, (p * n + 99) \div 100})})

IsRank(k, n, p) == k \in 1 .. n /\ \A c \in Nat : c >= k <=> 100 * c >= p * n

LEMMA RankIs ==
    ASSUME NEW n \in Nat \ {0}, NEW p \in {50, 95, 99}
    PROVE  IsRank(RankOf(n, p), n, p)
<1>1. PICK r \in Int : r = (p * n + 99) \div 100
  OBVIOUS
<1>2. 1 <= r /\ r <= n /\ \A c \in Nat : c >= r <=> 100 * c >= p * n
  <2>1. CASE p = 50
    BY <1>1, <2>1
  <2>2. CASE p = 95
    BY <1>1, <2>2
  <2>3. CASE p = 99
    BY <1>1, <2>3
  <2> QED
    BY <2>1, <2>2, <2>3
<1>3. Min({n, r}) = r
  BY <1>2, LeastOfTwo
<1>4. Max({1, r}) = r
  BY <1>2, GreatestOfTwo
<1>5. RankOf(n, p) = r
  BY <1>1, <1>3, <1>4 DEF RankOf
<1> QED
  BY <1>2, <1>5 DEF IsRank

LEMMA PercentileIsRanked ==
    ASSUME NEW D, IsFiniteSet(D), NEW f \in [D -> Int], D # {}, NEW p
    PROVE  Percentile(f, p) = Ranked(f, RankOf(Cardinality(D), p))
<1>1. DOMAIN f = D /\ Cardinality(D) # 0
  BY FS_EmptySet
<1> QED
  BY <1>1 DEF Percentile, RankOf

LEMMA PercentileIsOne ==
    ASSUME NEW D, IsFiniteSet(D), NEW f \in [D -> Int], D # {}, NEW p \in {50, 95, 99}
    PROVE  Percentile(f, p) \in Range(f)
<1>1. PICK n \in Nat \ {0} : n = Cardinality(D)
  BY FS_EmptySet, FS_CardinalityType
<1>2. RankOf(n, p) \in Int /\ RankOf(n, p) <= n
  <2>1. IsRank(RankOf(n, p), n, p)
    BY RankIs
  <2> QED
    BY <2>1 DEF IsRank
<1> QED
  BY <1>1, <1>2, PercentileIsRanked, RankedIsOne

LEMMA PercentileIsLeast ==
    ASSUME NEW D, IsFiniteSet(D), NEW f \in [D -> Int], D # {}, NEW p \in {50, 95, 99}
    PROVE  LET Covering == {v \in Range(f) : 100 * Cardinality(Below(f, v)) >= p * Cardinality(D)}
           IN  /\ Percentile(f, p) \in Covering
               /\ \A v \in Covering : Percentile(f, p) <= v
<1>1. PICK n \in Nat \ {0} : n = Cardinality(D)
  BY FS_EmptySet, FS_CardinalityType
<1>2. PICK k : /\ k = RankOf(n, p) /\ k \in 1 .. n
               /\ \A c \in Nat : c >= k <=> 100 * c >= p * n
  <2>1. IsRank(RankOf(n, p), n, p)
    BY RankIs
  <2> QED
    BY <2>1 DEF IsRank
<1> DEFINE r == Ranked(f, k)
<1>3. k \in Int /\ k <= n
  BY <1>1, <1>2
<1>4. /\ r \in Range(f) /\ r \in Int
      /\ Cardinality(Below(f, r)) >= k
      /\ \A w \in Range(f) : w < r => ~ (Cardinality(Below(f, w)) >= k)
  BY <1>1, <1>3, RankedIsOne
<1>5. Percentile(f, p) = r
  BY <1>1, <1>2, PercentileIsRanked
<1>6. \A v : Cardinality(Below(f, v)) \in Nat
  <2>1. \A v : Below(f, v) \in SUBSET D
    BY DEF Below
  <2> QED
    BY <2>1, FS_Subset, FS_CardinalityType
<1>7. Range(f) \in SUBSET Int
  BY RangeFinite
<1> HIDE DEF r
<1>8. 100 * Cardinality(Below(f, r)) >= p * n
  BY <1>2, <1>4, <1>6
<1>9. ASSUME NEW v \in Range(f), 100 * Cardinality(Below(f, v)) >= p * n PROVE r <= v
  <2>1. Cardinality(Below(f, v)) >= k
    BY <1>2, <1>6, <1>9
  <2>2. ~ (v < r)
    BY <1>4, <2>1
  <2>3. v \in Int
    BY <1>7
  <2> QED
    BY <1>4, <2>2, <2>3
<1> QED
  BY <1>1, <1>4, <1>5, <1>8, <1>9
-----------------------------------------------------------------------------
\* A history that never changes.
IsSteady(s, n, c) == s = [i \in 1 .. n |-> c]

LEMMA SteadyTyped ==
    ASSUME NEW n \in Nat, NEW c \in Int, NEW s, IsSteady(s, n, c)
    PROVE  s \in Seq(Int) /\ Len(s) = n /\ (n # 0 => Range(s) = {c}) /\ \A i \in 1 .. n : s[i] = c
<1>1. s \in [1 .. n -> Int]
  BY DEF IsSteady
<1>2. s \in Seq(Int) /\ Len(s) = n
  BY <1>1
<1>3. \A i \in 1 .. n : s[i] = c
  BY DEF IsSteady
<1>4. n # 0 => 1 \in 1 .. n
  OBVIOUS
<1> QED
  BY <1>1, <1>2, <1>3, <1>4 DEF Range

LEMMA SteadyCut ==
    ASSUME NEW n \in Nat, NEW c \in Int, NEW s, IsSteady(s, n, c), NEW a \in Nat \ {0}, NEW b \in 0 .. n
    PROVE  \E m \in Nat : IsSteady(SubSeq(s, a, b), m, c) /\ (a <= b => m = b - a + 1)
<1>1. s \in Seq(Int) /\ Len(s) = n /\ \A i \in 1 .. n : s[i] = c
  BY SteadyTyped
<1>2. PICK m \in Nat : m = IF a <= b THEN b - a + 1 ELSE 0
  <2>1. CASE a <= b
    <3>1. b - a + 1 \in Nat
      BY <2>1
    <3> QED
      BY <2>1, <3>1
  <2>2. CASE ~ (a <= b)
    BY <2>2
  <2> QED
    BY <2>1, <2>2
<1>3. SubSeq(s, a, b) = [i \in 1 .. m |-> c]
  <2>1. SubSeq(s, a, b) = [i \in 1 .. m |-> s[a + i - 1]]
    BY <1>1, <1>2
  <2>2. \A i \in 1 .. m : s[a + i - 1] = c
    <3>1. \A i \in 1 .. m : a + i - 1 \in 1 .. n
      BY <1>2
    <3> QED
      BY <1>1, <3>1
  <2> QED
    BY <2>1, <2>2
<1> QED
  BY <1>2, <1>3 DEF IsSteady

LEMMA SteadyMedian ==
    ASSUME NEW n \in Nat, NEW c \in Int, NEW s, IsSteady(s, n, c)
    PROVE  MedianOf(s) = IF n = 0 THEN 0 ELSE c
<1>1. s \in Seq(Int) /\ Len(s) = n /\ (n # 0 => Range(s) = {c})
  BY SteadyTyped
<1>2. CASE n = 0
  <2>1. s = <<>>
    BY <1>1, <1>2
  <2> QED
    BY <1>2, <2>1 DEF MedianOf
<1>3. CASE n # 0
  <2>1. s # <<>>
    BY <1>1, <1>3
  <2>2. PICK D : D = 1 .. n
    OBVIOUS
  <2>3. IsFiniteSet(D) /\ D # {} /\ Cardinality(D) = n /\ s \in [D -> Int]
    <3>1. 1 \in Int /\ n \in Int
      OBVIOUS
    <3>2. IsFiniteSet(D) /\ Cardinality(D) = IF 1 > n THEN 0 ELSE n - 1 + 1
      BY <2>2, <3>1, FS_Interval
    <3>3. s \in [1 .. n -> Int] /\ 1 \in 1 .. n
      BY <1>1, <1>3
    <3> QED
      BY <1>3, <2>2, <3>2, <3>3
  <2>4. ASSUME NEW k \in Int, k <= n PROVE Ranked(s, k) = c
    <3>1. Ranked(s, k) \in Range(s)
      BY <2>3, <2>4, RankedIsOne
    <3> QED
      BY <1>1, <1>3, <3>1
  <2>5. PICK mid \in Int : mid = n \div 2 /\ mid <= n /\ mid + 1 <= n + 1 /\ (n % 2 = 1 => mid + 1 <= n)
                           /\ (n % 2 # 1 => mid + 1 <= n)
    BY <1>3, SMT
  <2>6. Ranked(s, mid) = c /\ Ranked(s, mid + 1) = c
    <3>1. mid + 1 \in Int /\ mid + 1 <= n
      BY <2>5
    <3> QED
      BY <2>4, <2>5, <3>1
  <2>7. (c + c) \div 2 = c
    BY SMT
  <2> QED
    BY <1>1, <1>3, <2>1, <2>5, <2>6, <2>7 DEF MedianOf
<1> QED
  BY <1>2, <1>3

LEMMA SteadyUnclipped ==
    ASSUME NEW n \in Nat, NEW c \in Nat, NEW s, IsSteady(s, n, c)
    PROVE  IsSteady(WinsorizedSeries(s), n, c)
<1>1. s \in Seq(Int) /\ Len(s) = n /\ \A i \in 1 .. n : s[i] = c
  BY SteadyTyped
<1>2. ASSUME NEW i \in 1 .. n PROVE Winsorize(s[i], MedianOf(Before(s, i))) = c
  <2>1. PICK a \in Nat \ {0} : a = IF i > Trailing THEN i - Trailing ELSE 1
    <3>1. CASE i > Trailing
      <4>1. i - Trailing \in Nat \ {0}
        BY <3>1, AmountsAssumption
      <4> QED
        BY <3>1, <4>1
    <3>2. CASE ~ (i > Trailing)
      BY <3>2
    <3> QED
      BY <3>1, <3>2
  <2>2. PICK b \in 0 .. n : b = i - 1
    OBVIOUS
  <2>3. \E m \in Nat : IsSteady(SubSeq(s, a, b), m, c)
    BY <2>2, SteadyCut
  <2>4. PICK m \in Nat : IsSteady(Before(s, i), m, c)
    BY <2>1, <2>2, <2>3 DEF Before
  <2>5. MedianOf(Before(s, i)) = IF m = 0 THEN 0 ELSE c
    BY <2>4, SteadyMedian
  <2>6. c > 0 => ~ (c > 3 * c)
    OBVIOUS
  <2> QED
    BY <1>1, <2>5, <2>6 DEF Winsorize
<1>3. DOMAIN s = 1 .. n
  BY <1>1
<1> QED
  BY <1>2, <1>3 DEF WinsorizedSeries, IsSteady

LEMMA SteadyStep ==
    ASSUME NEW c \in Int, NEW alpha \in Int
    PROVE  EwmaStep(Scale * c, Scale * c, alpha) = Scale * c
<1>1. PICK v \in Int : v = Scale * c
  BY ScaleAssumption
<1>2. PICK k \in Nat : k = Scale /\ k > 0
  BY ScaleAssumption
<1>3. alpha * v + (k - alpha) * v = k * v
  BY SMT
<1>4. (k * v) \div k = v
  BY <1>2, QuotientOfMultiple
<1> QED
  BY <1>1, <1>2, <1>3, <1>4 DEF EwmaStep

LEMMA SteadyEwma ==
    ASSUME NEW n \in Nat, n # 0, NEW c \in Int, NEW s, IsSteady(s, n, c), NEW alpha \in Int
    PROVE  Ewma(s, alpha) = Scale * c
<1>1. s \in Seq(Int) /\ Len(s) = n /\ \A i \in 1 .. n : s[i] = c
  BY SteadyTyped
<1>2. PICK g : /\ g = Ewmas(s, alpha) /\ g \in [0 .. n -> Int]
               /\ \A k \in 0 .. n : g[k] = EwmaBody(s, alpha, g, k)
  BY <1>1, EwmasDefined
<1> DEFINE Bad == {k \in 1 .. n : g[k] # Scale * c}
<1>3. Bad = {}
  <2> SUFFICES ASSUME Bad # {} PROVE FALSE
    OBVIOUS
  <2>1. PICK k \in Bad : \A j \in Bad : k <= j
    <3>1. Bad \in SUBSET Nat
      OBVIOUS
    <3> HIDE DEF Bad
    <3> QED
      BY <3>1, LeastNatural
  <2>2. k \in 1 .. n /\ g[k] # Scale * c /\ k \in 0 .. n
    OBVIOUS
  <2>3. CASE k = 1
    BY <1>1, <1>2, <2>2, <2>3 DEF EwmaBody
  <2>4. CASE k # 1
    <3>1. k - 1 \in 1 .. n /\ k - 1 \notin Bad
      BY <2>1, <2>2, <2>4
    <3>2. g[k - 1] = Scale * c
      BY <3>1
    <3>3. g[k] = EwmaStep(Scale * c, Scale * c, alpha)
      BY <1>1, <1>2, <2>2, <2>4, <3>2 DEF EwmaBody
    <3> QED
      BY <2>2, <3>3, SteadyStep
  <2> QED
    BY <2>3, <2>4
<1>4. n \in 1 .. n
  OBVIOUS
<1> QED
  BY <1>1, <1>2, <1>3, <1>4, EwmaIsLast

LEMMA SteadyPrediction ==
    ASSUME NEW n \in Nat, NEW c \in Nat, NEW s, IsSteady(s, n, c), NEW i \in 2 .. n
    PROVE  PredictedFor(s, i) = Scale * c
<1>1. PICK b \in 0 .. n : b = i - 1 /\ b >= 1
  OBVIOUS
<1>2. PICK m \in Nat : IsSteady(SubSeq(s, 1, b), m, c) /\ m = b - 1 + 1
  <2>1. 1 \in Nat \ {0}
    OBVIOUS
  <2> QED
    BY <1>1, <2>1, SteadyCut
<1>3. PICK w : w = WinsorizedSeries(SubSeq(s, 1, b)) /\ IsSteady(w, m, c)
  BY <1>2, SteadyUnclipped
<1>4. Ewma(w, FastAlpha) = Scale * c /\ Ewma(w, SlowAlpha) = Scale * c
  <2>1. FastAlpha \in Int /\ SlowAlpha \in Int
    BY ScaleAssumption, AlphaAssumption
  <2>2. m # 0
    BY <1>1, <1>2
  <2> QED
    BY <1>3, <2>1, <2>2, SteadyEwma
<1> QED
  BY <1>1, <1>3, <1>4 DEF PredictedFor, PerHour, ComputeEwmas

LEMMA FirstTestedRange ==
    ASSUME NEW obs \in Seq(Int)
    PROVE  FirstTested(obs) \in Nat /\ FirstTested(obs) >= 2
  BY SeriesAssumption DEF FirstTested

LEMMA SteadyError ==
    ASSUME NEW n \in Nat, NEW c \in Nat, NEW s, IsSteady(s, n, c)
    PROVE  ForecasterError(s).p99 = 0
<1>1. s \in Seq(Int) /\ Len(s) = n /\ \A i \in 1 .. n : s[i] = c
  BY SteadyTyped
<1>2. PICK first \in Nat : first = FirstTested(s) /\ first >= 2
  BY <1>1, FirstTestedRange
<1>3. PICK D : D = first .. n
  OBVIOUS
<1>4. IsFiniteSet(D) /\ D \in SUBSET (2 .. n)
  <2>1. first \in Int /\ n \in Int
    OBVIOUS
  <2>2. IsFiniteSet(first .. n)
    BY <2>1, FS_Interval
  <2> QED
    BY <1>2, <1>3, <2>2
<1>5. \A i \in D : Distance(PredictedFor(s, i), Scale * s[i]) = 0
  <2>1. SUFFICES ASSUME NEW i \in D PROVE Distance(PredictedFor(s, i), Scale * s[i]) = 0
    OBVIOUS
  <2>2. i \in 2 .. n /\ i \in 1 .. n
    BY <1>4
  <2>3. PredictedFor(s, i) = Scale * c /\ s[i] = c
    BY <1>1, <2>2, SteadyPrediction
  <2>4. PICK v \in Int : v = Scale * c
    BY ScaleAssumption
  <2> QED
    BY <2>3, <2>4 DEF Distance
<1>6. PICK errors : errors = [i \in D |-> Distance(Backtest(s)[i].predicted, Backtest(s)[i].realized)]
  OBVIOUS
<1>7. errors = [i \in D |-> 0]
  <2>1. \A i \in D : /\ Backtest(s)[i].predicted = PredictedFor(s, i)
                     /\ Backtest(s)[i].realized = Scale * s[i]
    BY <1>1, <1>2, <1>3 DEF Backtest
  <2> QED
    BY <1>5, <1>6, <2>1
<1>8. ForecasterError(s).p99 = Percentile(errors, 99)
  <2>1. DOMAIN Backtest(s) = D
    BY <1>1, <1>2, <1>3 DEF Backtest
  <2> QED
    BY <1>6, <2>1 DEF ForecasterError
<1>9. CASE D = {}
  BY <1>7, <1>8, <1>9, FS_EmptySet DEF Percentile
<1>10. CASE D # {}
  <2>1. errors \in [D -> Int] /\ Range(errors) = {0}
    BY <1>7, <1>10 DEF Range
  <2>2. Percentile(errors, 99) \in Range(errors)
    BY <1>4, <1>10, <2>1, PercentileIsOne
  <2> QED
    BY <1>8, <2>1, <2>2
<1> QED
  BY <1>9, <1>10

-----------------------------------------------------------------------------
\* The statements about the burn history.
LEMMA ObservationsTyped ==
    ASSUME ForecastTyped
    PROVE  Observations \in Seq(Nat)
<1>1. PICK n \in Nat : n = Len(burns) /\ DOMAIN burns = 1 .. n
  BY DEF ForecastTyped
<1>2. ASSUME NEW i \in 1 .. n PROVE burns[i].amount \in Nat
  <2>1. burns[i] \in Buckets
    BY <1>1 DEF ForecastTyped
  <2> QED
    BY <2>1 DEF Buckets
<1>3. Observations \in [1 .. n -> Nat]
  BY <1>1, <1>2 DEF Observations
<1> QED
  BY <1>3

LEMMA SteadyHolds == ForecastTyped => SteadyIsExact
<1> SUFFICES ASSUME ForecastTyped, NEW obs, obs = Observations, Cardinality(Range(obs)) = 1
             PROVE  ForecasterError(obs).p99 = 0
  BY DEF SteadyIsExact
<1>1. obs \in Seq(Nat)
  BY ObservationsTyped
<1>2. PICK n \in Nat : n = Len(obs) /\ DOMAIN obs = 1 .. n
  BY <1>1
<1>3. IsFiniteSet(Range(obs))
  <2>1. PICK D : D = 1 .. n
    OBVIOUS
  <2>2. IsFiniteSet(D)
    BY <2>1, FS_Interval
  <2>3. obs \in [D -> Int]
    BY <1>1, <1>2, <2>1
  <2> QED
    BY <2>2, <2>3, RangeFinite
<1>4. PICK c : Range(obs) = {c}
  BY <1>3, FS_Singleton
<1>5. c \in Nat /\ \A i \in 1 .. n : obs[i] = c
  <2>1. Range(obs) = {obs[i] : i \in 1 .. n}
    BY <1>2 DEF Range
  <2>2. \A i \in 1 .. n : obs[i] = c
    BY <1>4, <2>1
  <2>3. c \in {obs[i] : i \in 1 .. n}
    BY <1>4, <2>1
  <2>4. \A i \in 1 .. n : obs[i] \in Nat
    BY <1>1, <1>2
  <2> QED
    BY <2>2, <2>3, <2>4
<1>6. IsSteady(obs, n, c)
  BY <1>1, <1>2, <1>5 DEF IsSteady
<1> QED
  BY <1>5, <1>6, SteadyError

LEMMA NoPeekingHolds == ForecastTyped => NoPeeking
<1> SUFFICES ASSUME ForecastTyped, NEW obs, obs = Observations,
                    NEW i \in FirstTested(obs) .. Len(obs), NEW later \in Amounts,
                    NEW other, other = [j \in DOMAIN obs |-> IF j >= i THEN later ELSE obs[j]]
             PROVE  Backtest(other)[i].predicted = Backtest(obs)[i].predicted
  BY DEF NoPeeking
<1>1. obs \in Seq(Int)
  BY ObservationsTyped
<1>2. PICK n \in Nat : n = Len(obs) /\ DOMAIN obs = 1 .. n
  BY <1>1
<1>3. later \in Int
  BY BurnAssumption
<1>4. other \in [1 .. n -> Int]
  BY <1>1, <1>2, <1>3
<1>5. other \in Seq(Int) /\ Len(other) = n
  BY <1>4
<1>6. FirstTested(other) = FirstTested(obs)
  BY <1>2, <1>5 DEF FirstTested
<1>7. i \in Nat /\ i >= 2 /\ i <= n
  BY <1>1, <1>2, FirstTestedRange
<1>8. SubSeq(other, 1, i - 1) = SubSeq(obs, 1, i - 1)
  <2>1. \A j \in 1 .. i - 1 : other[j] = obs[j]
    BY <1>2, <1>7
  <2>2. SubSeq(other, 1, i - 1) = [j \in 1 .. i - 1 |-> other[j]]
    BY <1>5, <1>7
  <2>3. SubSeq(obs, 1, i - 1) = [j \in 1 .. i - 1 |-> obs[j]]
    BY <1>1, <1>2, <1>7
  <2> QED
    BY <2>1, <2>2, <2>3
<1>9. PredictedFor(other, i) = PredictedFor(obs, i)
  BY <1>8 DEF PredictedFor
<1> QED
  BY <1>2, <1>5, <1>6, <1>9 DEF Backtest

LEMMA RanksHold == ForecastTyped => PercentilesAreRanks
<1> SUFFICES ASSUME ForecastTyped, NEW obs, obs = Observations, obs # <<>>, NEW p \in {50, 95, 99}
             PROVE  Percentile(obs, p) =
                      Min({v \in Range(obs) :
                             100 * Cardinality({i \in DOMAIN obs : obs[i] <= v}) >= p * Len(obs)})
  BY DEF PercentilesAreRanks
<1>1. obs \in Seq(Int) /\ obs \in Seq(Nat)
  BY ObservationsTyped
<1>2. PICK n \in Nat : n = Len(obs) /\ DOMAIN obs = 1 .. n /\ n # 0
  BY <1>1
<1>3. PICK D : D = 1 .. n
  OBVIOUS
<1>4. IsFiniteSet(D) /\ D # {} /\ Cardinality(D) = n /\ obs \in [D -> Int]
  <2>1. 1 \in Int /\ n \in Int
    OBVIOUS
  <2>2. IsFiniteSet(1 .. n) /\ Cardinality(1 .. n) = IF 1 > n THEN 0 ELSE n - 1 + 1
    BY <2>1, FS_Interval
  <2> QED
    BY <1>1, <1>2, <1>3, <2>2
<1>5. PICK Covering : Covering = {v \in Range(obs) : 100 * Cardinality(Below(obs, v)) >= p * n}
  OBVIOUS
<1>6. Percentile(obs, p) \in Covering /\ \A v \in Covering : Percentile(obs, p) <= v
  BY <1>4, <1>5, PercentileIsLeast
<1>7. Covering \in SUBSET Int
  BY <1>1, <1>5 DEF Range
<1>8. Min(Covering) = Percentile(obs, p)
  <2>1. PICK q \in Int : q = Percentile(obs, p)
    BY <1>6, <1>7
  <2>2. q \in Covering /\ \A v \in Covering : q <= v
    BY <1>6, <2>1
  <2>3. Min(Covering) \in Covering /\ \A v \in Covering : Min(Covering) <= v
    BY <2>2 DEF Min
  <2>4. Min(Covering) <= q /\ q <= Min(Covering) /\ Min(Covering) \in Int
    BY <1>7, <2>2, <2>3
  <2> QED
    BY <2>1, <2>4
<1> QED
  BY <1>2, <1>5, <1>8 DEF Below
-----------------------------------------------------------------------------
\* Kept: what is left of a sequence, in its order.
KeptBody(s, picked, g, k) ==
    IF k = 0 THEN <<>>
    ELSE IF k \in picked THEN Append(g[k - 1], s[k]) ELSE g[k - 1]
AreKept(s, picked, g) == g = [k \in 0 .. Len(s) |-> KeptBody(s, picked, g, k)]
Keeps(s, picked) == CHOOSE g : AreKept(s, picked, g)
KeptMoves(s, picked, S) ==
    [k \in 1 .. Len(s) |->
        [q \in Seq(S) |-> IF k \in picked THEN Append(q, s[k]) ELSE q]]

LEMMA KeptIsLast ==
    ASSUME NEW s, NEW picked
    PROVE  Kept(s, picked) = Keeps(s, picked)[Len(s)]
  BY DEF Kept, Keeps, AreKept, KeptBody

LEMMA KeptDefined ==
    ASSUME NEW S, NEW s \in Seq(S), NEW picked
    PROVE  /\ \A k \in 0 .. Len(s) : Keeps(s, picked)[k] \in Seq(S)
           /\ \A k \in 0 .. Len(s) :
                Keeps(s, picked)[k] = KeptBody(s, picked, Keeps(s, picked), k)
<1> DEFINE F == KeptMoves(s, picked, S)
<1>1. PICK n \in Nat : n = Len(s) /\ \A k \in 1 .. n : s[k] \in S
  OBVIOUS
<1>2. ASSUME NEW k \in 1 .. n, NEW q \in Seq(S)
      PROVE  (IF k \in picked THEN Append(q, s[k]) ELSE q) \in Seq(S)
  BY <1>1
<1>3. F \in [1 .. n -> [Seq(S) -> Seq(S)]]
  BY <1>1, <1>2 DEF KeptMoves
<1>4. \A k \in 1 .. n : \A q \in Seq(S) : F[k][q] = IF k \in picked THEN Append(q, s[k]) ELSE q
  BY <1>1 DEF KeptMoves
<1> HIDE DEF F
<1>5. PICK D : D = Seq(S)
  OBVIOUS
<1>6. PICK seed \in D : seed = <<>>
  <2>1. <<>> \in Seq(S)
    OBVIOUS
  <2> QED
    BY <1>5, <2>1
<1>7. F \in [1 .. n -> [D -> D]]
  BY <1>3, <1>5
<1>8. PICK g : RunsThrough(g, n, seed, D, F)
  BY <1>7, RunFunction
<1>9. ASSUME NEW k \in 0 .. n PROVE g[k] = KeptBody(s, picked, g, k)
  <2>1. CASE k = 0
    BY <1>6, <1>8, <2>1 DEF KeptBody, RunsThrough
  <2>2. CASE k # 0
    <3>1. k \in 1 .. n /\ k - 1 \in 0 .. n
      BY <2>2
    <3>2. g[k - 1] \in Seq(S) /\ g[k] = F[k][g[k - 1]]
      BY <1>5, <1>8, <3>1 DEF RunsThrough
    <3> QED
      BY <1>4, <2>2, <3>1, <3>2 DEF KeptBody
  <2> QED
    BY <2>1, <2>2
<1>10. g = [k \in 0 .. n |-> g[k]]
  BY <1>8 DEF RunsThrough
<1>11. g = [k \in 0 .. n |-> KeptBody(s, picked, g, k)]
  BY <1>9, <1>10
<1>12. AreKept(s, picked, Keeps(s, picked))
  BY <1>1, <1>11 DEF AreKept, Keeps
<1>13. PICK p : p = Keeps(s, picked) /\ p = [k \in 0 .. n |-> KeptBody(s, picked, p, k)]
  BY <1>1, <1>12 DEF AreKept
<1>14. \A k \in 0 .. n : p[k] = KeptBody(s, picked, p, k)
  BY <1>13
<1>15. IsRun(p, n, seed, D, F)
  <2>1. p[0] = seed
    <3>1. 0 \in 0 .. n
      OBVIOUS
    <3> QED
      BY <1>6, <1>14, <3>1 DEF KeptBody
  <2>2. ASSUME NEW k \in 1 .. n, p[k - 1] \in D PROVE p[k] = F[k][p[k - 1]]
    <3>1. k \in 0 .. n /\ k # 0
      OBVIOUS
    <3> QED
      BY <1>4, <1>5, <1>14, <2>2, <3>1 DEF KeptBody
  <2> QED
    BY <2>1, <2>2 DEF IsRun
<1>16. \A k \in 0 .. n : p[k] \in D
  BY <1>7, <1>15, RunsAgree
<1> QED
  BY <1>1, <1>5, <1>13, <1>14, <1>16

\* q shows elements of s at indices in picked up to k, in their order.
Threads(q, s, picked, k) ==
    \E m \in Nat : \E ix \in [1 .. m -> picked \cap (1 .. k)] :
        /\ q = [j \in 1 .. m |-> s[ix[j]]]
        /\ \A a \in 1 .. m, b \in 1 .. m : a < b => ix[a] < ix[b]

LEMMA KeptThreads ==
    ASSUME NEW S, NEW s \in Seq(S), NEW picked \in SUBSET Nat
    PROVE  Threads(Kept(s, picked), s, picked, Len(s))
<1>1. PICK n \in Nat : n = Len(s)
  OBVIOUS
<1>2. PICK p : /\ p = Keeps(s, picked)
               /\ \A k \in 0 .. n : p[k] = KeptBody(s, picked, p, k)
  BY <1>1, KeptDefined
<1> DEFINE Bad == {k \in 0 .. n : ~ Threads(p[k], s, picked, k)}
<1>3. Bad = {}
  <2> SUFFICES ASSUME Bad # {} PROVE FALSE
    OBVIOUS
  <2>1. PICK k \in Bad : \A j \in Bad : k <= j
    <3>1. Bad \in SUBSET Nat
      OBVIOUS
    <3> HIDE DEF Bad
    <3> QED
      BY <3>1, LeastNatural
  <2>2. k \in 0 .. n /\ ~ Threads(p[k], s, picked, k)
    OBVIOUS
  <2>3. CASE k = 0
    <3>1. p[k] = <<>>
      BY <1>2, <2>2, <2>3 DEF KeptBody
    <3>2. PICK ix : ix = [j \in 1 .. 0 |-> 0]
      OBVIOUS
    <3>3. 1 .. 0 = {}
      OBVIOUS
    <3>4. ix \in [1 .. 0 -> picked \cap (1 .. k)]
      BY <3>2, <3>3
    <3>5. p[k] = [j \in 1 .. 0 |-> s[ix[j]]]
      BY <3>1, <3>3
    <3> QED
      BY <2>2, <3>3, <3>4, <3>5 DEF Threads
  <2>4. CASE k # 0
    <3>1. k - 1 \in 0 .. n /\ k - 1 \notin Bad /\ k \in Nat
      BY <2>1, <2>2, <2>4
    <3>2. Threads(p[k - 1], s, picked, k - 1)
      BY <3>1
    <3>3. PICK m \in Nat : \E ix \in [1 .. m -> picked \cap (1 .. k - 1)] :
                /\ p[k - 1] = [j \in 1 .. m |-> s[ix[j]]]
                /\ \A a \in 1 .. m, b \in 1 .. m : a < b => ix[a] < ix[b]
      BY <3>2 DEF Threads
    <3>4. PICK ix \in [1 .. m -> picked \cap (1 .. k - 1)] :
                /\ p[k - 1] = [j \in 1 .. m |-> s[ix[j]]]
                /\ \A a \in 1 .. m, b \in 1 .. m : a < b => ix[a] < ix[b]
      BY <3>3
    <3>5. CASE k \notin picked
      <4>1. p[k] = p[k - 1]
        BY <1>2, <2>2, <2>4, <3>5 DEF KeptBody
      <4>2. ix \in [1 .. m -> picked \cap (1 .. k)]
        BY <3>1
      <4> QED
        BY <2>2, <3>4, <4>1, <4>2 DEF Threads
    <3>6. CASE k \in picked
      <4>1. p[k] = Append(p[k - 1], s[k])
        BY <1>2, <2>2, <2>4, <3>6 DEF KeptBody
      <4>2. PICK iy : iy = [j \in 1 .. m + 1 |-> IF j = m + 1 THEN k ELSE ix[j]]
        OBVIOUS
      <4>3. \A j \in 1 .. m : iy[j] = ix[j] /\ ix[j] \in picked \cap (1 .. k - 1)
        BY <4>2
      <4>4. iy[m + 1] = k /\ m + 1 \in Nat
        BY <4>2
      <4>5. iy \in [1 .. m + 1 -> picked \cap (1 .. k)]
        <5>1. ASSUME NEW j \in 1 .. m + 1 PROVE iy[j] \in picked \cap (1 .. k)
          <6>1. j = m + 1 \/ j \in 1 .. m
            OBVIOUS
          <6> QED
            BY <3>1, <3>6, <4>3, <4>4, <6>1, <2>4
        <5> QED
          BY <4>2, <5>1
      <4>6. ASSUME NEW a \in 1 .. m + 1, NEW b \in 1 .. m + 1, a < b PROVE iy[a] < iy[b]
        <5>1. a \in 1 .. m
          BY <4>6
        <5>2. CASE b = m + 1
          BY <3>1, <4>3, <4>4, <5>1, <5>2
        <5>3. CASE b # m + 1
          <6>1. b \in 1 .. m
            BY <5>3
          <6> QED
            BY <3>4, <4>3, <4>6, <5>1, <6>1
        <5> QED
          BY <5>2, <5>3
      <4>7. p[k] = [j \in 1 .. m + 1 |-> s[iy[j]]]
        <5>1. PICK q : q = p[k - 1] /\ q = [j \in 1 .. m |-> s[ix[j]]]
          BY <3>4
        <5>2. q \in Seq(S) /\ Len(q) = m
          <6>1. \A j \in 1 .. m : s[ix[j]] \in S
            <7>1. \A j \in 1 .. m : ix[j] \in 1 .. n
              BY <2>2, <4>3
            <7> QED
              BY <1>1, <7>1
          <6>2. q \in [1 .. m -> S]
            BY <5>1, <6>1
          <6> QED
            BY <6>2
        <5>3. Append(q, s[k]) = [j \in 1 .. m + 1 |-> IF j = m + 1 THEN s[k] ELSE q[j]]
          BY <5>2
        <5>4. ASSUME NEW j \in 1 .. m + 1
              PROVE  (IF j = m + 1 THEN s[k] ELSE q[j]) = s[iy[j]]
          <6>1. j = m + 1 \/ j \in 1 .. m
            OBVIOUS
          <6> QED
            BY <4>3, <4>4, <5>1, <6>1
        <5> QED
          BY <4>1, <5>1, <5>3, <5>4
      <4> QED
        BY <2>2, <4>4, <4>5, <4>6, <4>7 DEF Threads
    <3> QED
      BY <3>5, <3>6
  <2> QED
    BY <2>3, <2>4
<1>4. n \in 0 .. n
  OBVIOUS
<1>5. Threads(p[n], s, picked, n)
  BY <1>3, <1>4
<1> QED
  BY <1>1, <1>2, <1>5, KeptIsLast

LEMMA KeptTyped ==
    ASSUME NEW S, NEW s \in Seq(S), NEW picked
    PROVE  Kept(s, picked) \in Seq(S)
<1>1. Len(s) \in 0 .. Len(s)
  OBVIOUS
<1> QED
  BY <1>1, KeptDefined, KeptIsLast
-----------------------------------------------------------------------------
\* The histogram and the plotted series.
InBuckets(vs, b) == {i \in DOMAIN vs : InBucket(vs[i], b)}

LEMMA BucketsSplit ==
    ASSUME NEW v \in Nat
    PROVE  /\ InBucket(v, 1) <=> v < 1
           /\ InBucket(v, 2) <=> v >= 1 /\ v < 2
           /\ InBucket(v, 3) <=> v >= 2 /\ v < 4
           /\ InBucket(v, 4) <=> v >= 4
<1>1. /\ BucketBounds[1] = 0 /\ BucketBounds[2] = 1 /\ BucketBounds[3] = 2 /\ BucketBounds[4] = 4
      /\ Len(BucketBounds) = 4
  BY DEF BucketBounds
<1> QED
  BY <1>1 DEF InBucket

LEMMA BucketsAddUp ==
    ASSUME NEW vs \in Seq(Nat)
    PROVE  FoldFunction(+, 0, [b \in DOMAIN BucketBounds |-> Cardinality(InBuckets(vs, b))]) = Len(vs)
<1>1. PICK n \in Nat : n = Len(vs) /\ DOMAIN vs = 1 .. n
  OBVIOUS
<1>2. PICK D : D = 1 .. n /\ IsFiniteSet(D) /\ Cardinality(D) = n
  <2>1. 1 \in Int /\ n \in Int
    OBVIOUS
  <2>2. IsFiniteSet(1 .. n) /\ Cardinality(1 .. n) = IF 1 > n THEN 0 ELSE n - 1 + 1
    BY <2>1, FS_Interval
  <2> QED
    BY <2>2
<1>3. DOMAIN BucketBounds = 1 .. 4
  BY DEF BucketBounds
<1>4. PICK B1, B2, B3, B4 : /\ B1 = InBuckets(vs, 1) /\ B2 = InBuckets(vs, 2)
                            /\ B3 = InBuckets(vs, 3) /\ B4 = InBuckets(vs, 4)
  OBVIOUS
<1>5. /\ B1 = {i \in D : vs[i] < 1} /\ B2 = {i \in D : vs[i] >= 1 /\ vs[i] < 2}
      /\ B3 = {i \in D : vs[i] >= 2 /\ vs[i] < 4} /\ B4 = {i \in D : vs[i] >= 4}
  <2>1. \A i \in D : vs[i] \in Nat
    BY <1>1, <1>2
  <2> QED
    BY <1>1, <1>2, <1>4, <2>1, BucketsSplit DEF InBuckets
<1>6. \A i \in D : vs[i] \in Nat
  BY <1>1, <1>2
<1>7. /\ B1 \in SUBSET D /\ B2 \in SUBSET D /\ B3 \in SUBSET D /\ B4 \in SUBSET D
      /\ B1 \cap B2 = {} /\ (B1 \cup B2) \cap B3 = {} /\ (B1 \cup B2 \cup B3) \cap B4 = {}
      /\ B1 \cup B2 \cup B3 \cup B4 = D
  BY <1>5, <1>6
<1>8. IsFiniteSet(B1) /\ IsFiniteSet(B2) /\ IsFiniteSet(B3) /\ IsFiniteSet(B4)
  BY <1>2, <1>7, FS_Subset
<1>9. PICK c1 \in Nat, c2 \in Nat, c3 \in Nat, c4 \in Nat :
        /\ c1 = Cardinality(B1) /\ c2 = Cardinality(B2)
        /\ c3 = Cardinality(B3) /\ c4 = Cardinality(B4)
  BY <1>8, FS_CardinalityType
<1>10. c1 + c2 + c3 + c4 = n
  <2>0. Cardinality({}) = 0
    BY FS_EmptySet
  <2>1. IsFiniteSet(B1 \cup B2) /\ Cardinality(B1 \cup B2) = c1 + c2 - Cardinality(B1 \cap B2)
    BY <1>8, <1>9, FS_Union
  <2>2. Cardinality(B1 \cup B2) = c1 + c2
    <3>1. Cardinality(B1 \cap B2) = 0
      BY <1>7, <2>0
    <3> QED
      BY <2>1, <3>1
  <2>3. /\ IsFiniteSet(B1 \cup B2 \cup B3)
        /\ Cardinality(B1 \cup B2 \cup B3)
             = Cardinality(B1 \cup B2) + c3 - Cardinality((B1 \cup B2) \cap B3)
    BY <1>8, <1>9, <2>1, FS_Union
  <2>4. Cardinality(B1 \cup B2 \cup B3) = c1 + c2 + c3
    <3>1. Cardinality((B1 \cup B2) \cap B3) = 0
      BY <1>7, <2>0
    <3> QED
      BY <2>2, <2>3, <3>1
  <2>5. Cardinality(B1 \cup B2 \cup B3 \cup B4)
          = Cardinality(B1 \cup B2 \cup B3) + c4 - Cardinality((B1 \cup B2 \cup B3) \cap B4)
    BY <1>8, <1>9, <2>3, FS_Union
  <2> QED
    <3>1. Cardinality((B1 \cup B2 \cup B3) \cap B4) = 0
      BY <1>7, <2>0
    <3>2. Cardinality(B1 \cup B2 \cup B3 \cup B4) = n
      BY <1>2, <1>7
    <3> QED
      BY <2>4, <2>5, <3>1, <3>2
<1>11. PICK f : f = [b \in 1 .. 4 |-> Cardinality(InBuckets(vs, b))]
  OBVIOUS
<1>12. f[1] = c1 /\ f[2] = c2 /\ f[3] = c3 /\ f[4] = c4
  BY <1>4, <1>9, <1>11
<1> DEFINE upTo(k) == [b \in 1 .. k |-> f[b]]
<1>13. f \in [1 .. 4 -> Int]
  <2>1. \A b \in 1 .. 4 : b = 1 \/ b = 2 \/ b = 3 \/ b = 4
    OBVIOUS
  <2>2. \A b \in 1 .. 4 : f[b] \in Int
    BY <1>12, <2>1
  <2> QED
    BY <1>11, <2>2
<1>14. Added(upTo(0)) = 0
  <2>1. upTo(0) = [x \in {} |-> 0]
    <3>1. 1 .. 0 = {}
      OBVIOUS
    <3> QED
      BY <3>1
  <2>2. Added([x \in {} |-> 0]) = 0
    BY FS_EmptySet, AddedZero
  <2> QED
    BY <2>1, <2>2
<1>15. \A k \in 0 .. 4 : upTo(k) \in [1 .. k -> Int]
  BY <1>13
<1>16. ASSUME NEW k \in 0 .. 3 PROVE Added(upTo(k + 1)) = Added(upTo(k)) + f[k + 1]
  <2>1. PICK g, h : g = upTo(k) /\ h = upTo(k + 1)
    OBVIOUS
  <2>2. k \in Nat /\ k \in 0 .. 4 /\ k + 1 \in 0 .. 4
    OBVIOUS
  <2>3. g \in [1 .. k -> Int] /\ h \in [1 .. k + 1 -> Int]
    BY <1>15, <2>1, <2>2
  <2>4. \A y \in 1 .. k : h[y] = g[y]
    BY <2>1
  <2>5. h[k + 1] = f[k + 1]
    BY <2>1
  <2>6. Added(h) = Added(g) + h[k + 1]
    BY <2>2, <2>3, <2>4, AddedLast
  <2> QED
    BY <2>1, <2>5, <2>6
<1> HIDE DEF upTo
<1>17. Added(upTo(1)) = c1 /\ Added(upTo(2)) = c1 + c2 /\ Added(upTo(3)) = c1 + c2 + c3
       /\ Added(upTo(4)) = c1 + c2 + c3 + c4
  <2>1. 0 + 1 = 1 /\ 1 + 1 = 2 /\ 2 + 1 = 3 /\ 3 + 1 = 4
    OBVIOUS
  <2>2. Added(upTo(1)) = c1
    BY <1>12, <1>14, <1>16, <2>1
  <2>3. Added(upTo(2)) = c1 + c2
    BY <1>12, <1>16, <2>1, <2>2
  <2>4. Added(upTo(3)) = c1 + c2 + c3
    BY <1>12, <1>16, <2>1, <2>3
  <2>5. Added(upTo(4)) = c1 + c2 + c3 + c4
    BY <1>12, <1>16, <2>1, <2>4
  <2> QED
    BY <2>2, <2>3, <2>4, <2>5
<1>18. upTo(4) = f
  BY <1>11 DEF upTo
<1>19. Added(f) = n
  BY <1>10, <1>17, <1>18
<1>20. [b \in DOMAIN BucketBounds |-> Cardinality(InBuckets(vs, b))] = f
  BY <1>3, <1>11
<1>21. FoldFunction(+, 0, f) = Added(f)
  BY DEF Added
<1> QED
  BY <1>1, <1>19, <1>20, <1>21

LEMMA BucketsHold == ForecastTyped => BucketsPartition
<1> SUFFICES ASSUME ForecastTyped PROVE BucketsPartition
  OBVIOUS
<1>1. PICK obs \in Seq(Nat) : obs = Observations
  BY ObservationsTyped
<1>2. PICK vs : vs = Kept(obs, {i \in DOMAIN obs : obs[i] >= 0})
  OBVIOUS
<1>3. vs \in Seq(Nat)
  BY <1>2, KeptTyped
<1>4. FoldFunction(+, 0, [b \in DOMAIN BucketBounds |-> Cardinality(InBuckets(vs, b))]) = Len(vs)
  BY <1>3, BucketsAddUp
<1>5. /\ LatencyHistogram(obs).count = Len(vs)
      /\ LatencyHistogram(obs).buckets =
           [b \in DOMAIN BucketBounds |-> Cardinality(InBuckets(vs, b))]
  BY <1>2 DEF LatencyHistogram, InBuckets
<1> QED
  BY <1>1, <1>4, <1>5 DEF BucketsPartition
-----------------------------------------------------------------------------
\* downsampleSeries: the picked indices begin at the first, end at the last and grow.
Spread(n, m) ==
    /\ \A i \in 0 .. m - 1 : PickedIndex(i, n, m) \in 1 .. n
    /\ PickedIndex(0, n, m) = 1 /\ PickedIndex(m - 1, n, m) = n
    /\ \A i \in 0 .. m - 2 : PickedIndex(i, n, m) < PickedIndex(i + 1, n, m)

LEMMA PickedSpread ==
    ASSUME NEW n \in Nat, NEW m \in Nat, m >= 2, n > m
    PROVE  Spread(n, m)
<1>1. PICK d \in Nat : d = 2 * (m - 1) /\ d > 0
  OBVIOUS
<1>2. PICK e \in Nat : e = 2 * (n - 1) /\ d <= e
  BY <1>1
<1>3. PICK w \in Nat : w = m - 1 /\ w > 0 /\ 2 * w = d /\ w < d
  BY <1>1
<1>4. PICK l \in Nat : l = n - 1 /\ e = 2 * l
  BY <1>2
<1> DEFINE A(i) == i * e + w
<1>5. ASSUME NEW i \in Int PROVE PickedIndex(i, n, m) = 1 + A(i) \div d /\ A(i) \in Int
  <2>1. 2 * i * (n - 1) = i * e
    <3>1. 2 * i * l = i * (2 * l)
      BY SMT
    <3> QED
      BY <1>4, <3>1
  <2>2. i * e \in Int
    BY SMT
  <2> QED
    BY <1>1, <1>3, <2>1, <2>2 DEF PickedIndex
<1>6. ASSUME NEW i \in Int PROVE A(i + 1) = A(i) + e
  BY SMT
<1>7. A(0) \div d = 0
  <2>1. A(0) = w
    BY SMT
  <2>2. w \div d = 0
    BY <1>3
  <2> QED
    BY <2>1, <2>2
<1>8. A(w) \div d = l
  <2>1. w * e = l * d
    <3>1. w * (2 * l) = l * (2 * w)
      BY SMT
    <3> QED
      BY <1>3, <1>4, <3>1
  <2>2. PICK x \in Int : x = l * d
    BY SMT
  <2>3. (l + 1) * d = x + d
    BY <2>2, SMT
  <2>4. A(w) = x + w /\ x + w \in Int
    BY <2>1, <2>2
  <2>5. l * d <= x + w /\ x + w < (l + 1) * d
    BY <1>3, <2>2, <2>3
  <2>6. (x + w) \div d = l
    BY <1>1, <2>4, <2>5, QuotientIs
  <2> QED
    BY <2>4, <2>6
<1> HIDE DEF A
<1>9. ASSUME NEW i \in Int PROVE A(i) \div d < A(i + 1) \div d /\ A(i) \div d \in Int
  <2>1. i + 1 \in Int /\ A(i) \in Int
    BY <1>5
  <2>2. A(i) \div d < (A(i) + e) \div d
    BY <1>1, <1>2, <2>1, QuotientAdvances
  <2>3. A(i) \div d \in Int
    BY <1>1, <2>1, QuotientBounds
  <2> QED
    BY <1>6, <2>2, <2>3
<1>10. ASSUME NEW i \in 0 .. w PROVE A(0) \div d <= A(i) \div d /\ A(i) \div d <= A(w) \div d
  <2>1. A(0) <= A(i) /\ A(i) <= A(w)
    <3>1. 0 * e <= i * e /\ i * e <= w * e /\ 0 * e \in Int /\ i * e \in Int /\ w * e \in Int
      BY SMT
    <3> QED
      BY <3>1 DEF A
  <2>2. i \in Int /\ 0 \in Int /\ w \in Int
    OBVIOUS
  <2> QED
    BY <1>1, <1>5, <2>1, <2>2, QuotientMonotone
<1>11. \A i \in 0 .. m - 1 : PickedIndex(i, n, m) \in 1 .. n
  <2> SUFFICES ASSUME NEW i \in 0 .. m - 1 PROVE PickedIndex(i, n, m) \in 1 .. n
    OBVIOUS
  <2>1. i \in 0 .. w /\ i \in Int
    BY <1>3
  <2>2. PICK q \in Int : q = A(i) \div d /\ 0 <= q /\ q <= l
    BY <1>7, <1>8, <1>9, <1>10, <2>1
  <2> QED
    BY <1>4, <1>5, <2>1, <2>2
<1>12. PickedIndex(0, n, m) = 1 /\ PickedIndex(m - 1, n, m) = n
  BY <1>3, <1>4, <1>5, <1>7, <1>8
<1>13. \A i \in 0 .. m - 2 : PickedIndex(i, n, m) < PickedIndex(i + 1, n, m)
  <2> SUFFICES ASSUME NEW i \in 0 .. m - 2 PROVE PickedIndex(i, n, m) < PickedIndex(i + 1, n, m)
    OBVIOUS
  <2>1. i \in Int /\ i + 1 \in Int
    OBVIOUS
  <2>2. PICK q \in Int, r \in Int : q = A(i) \div d /\ r = A(i + 1) \div d /\ q < r
    BY <1>9, <2>1
  <2> QED
    BY <1>5, <2>1, <2>2
<1> QED
  BY <1>11, <1>12, <1>13 DEF Spread

\* A series thinned out to m points of n.
LEMMA DownsampleShape ==
    ASSUME NEW S, NEW items \in Seq(S), items # <<>>, NEW m \in Nat
    PROVE  /\ Downsample(items, m) \in Seq(S) /\ Len(Downsample(items, m)) # 0
           /\ Downsample(items, m)[1] = items[1]
           /\ Downsample(items, m)[Len(Downsample(items, m))] = items[Len(items)]
           /\ m >= 2 => Len(Downsample(items, m)) <= m
<1>1. PICK n \in Nat : n = Len(items) /\ n # 0 /\ \A i \in 1 .. n : items[i] \in S
  OBVIOUS
<1>2. CASE n <= m \/ m <= 1
  BY <1>1, <1>2 DEF Downsample
<1>3. CASE ~ (n <= m \/ m <= 1)
  <2>1. m >= 2 /\ n > m
    BY <1>3
  <2>2. Spread(n, m)
    BY <2>1, PickedSpread
  <2>3. PICK t : t = Downsample(items, m) /\ t = [k \in 1 .. m |-> items[PickedIndex(k - 1, n, m)]]
    BY <1>1, <1>3 DEF Downsample
  <2>4. ASSUME NEW k \in 1 .. m PROVE items[PickedIndex(k - 1, n, m)] \in S
    <3>1. k - 1 \in 0 .. m - 1
      OBVIOUS
    <3>2. PickedIndex(k - 1, n, m) \in 1 .. n
      BY <2>2, <3>1 DEF Spread
    <3> QED
      BY <1>1, <3>2
  <2>5. t \in [1 .. m -> S]
    BY <2>3, <2>4
  <2>6. t \in Seq(S) /\ Len(t) = m
    BY <2>5
  <2>7. t[1] = items[1] /\ t[m] = items[n]
    <3>1. 1 \in 1 .. m /\ m \in 1 .. m /\ 1 - 1 = 0
      BY <2>1
    <3>2. t[1] = items[PickedIndex(1 - 1, n, m)] /\ t[m] = items[PickedIndex(m - 1, n, m)]
      BY <2>3, <3>1
    <3> QED
      BY <2>2, <3>1, <3>2 DEF Spread
  <2> QED
    BY <1>1, <2>1, <2>3, <2>6, <2>7
<1> QED
  BY <1>2, <1>3

LEMMA SeriesHolds == ForecastTyped => SeriesKeepsShape
<1> SUFFICES ASSUME ForecastTyped, NEW m \in 2 .. MaxPoints,
                    NEW n, n = 1 + TicksPerHour * hour,
                    NEW items, items = [j \in 1 .. n |-> j],
                    NEW picked, picked = Downsample(items, m)
             PROVE  /\ picked[1] = 1 /\ Last(picked) = n
                    /\ Len(picked) <= m
                    /\ \A k \in 1 .. Len(picked) - 1 : picked[k] < picked[k + 1]
  BY DEF SeriesKeepsShape
<1>1. n \in Nat /\ n # 0
  <2>1. PICK a \in Nat, b \in Nat : a = TicksPerHour /\ b = hour
    BY SeriesAssumption DEF ForecastTyped
  <2>2. a * b \in Nat
    BY SMT
  <2> QED
    BY <2>1, <2>2
<1>2. m \in Nat /\ m >= 2
  BY SeriesAssumption
<1>3. items \in [1 .. n -> Nat] /\ \A j \in 1 .. n : items[j] = j
  BY <1>1
<1>4. items \in Seq(Nat) /\ Len(items) = n /\ items # <<>>
  BY <1>1, <1>3
<1>5. /\ picked \in Seq(Nat) /\ Len(picked) # 0 /\ Len(picked) <= m
      /\ picked[1] = items[1] /\ picked[Len(picked)] = items[n]
  BY <1>2, <1>4, DownsampleShape
<1>6. picked[1] = 1 /\ Last(picked) = n
  <2>1. 1 \in 1 .. n /\ n \in 1 .. n
    BY <1>1
  <2> QED
    BY <1>3, <1>5, <2>1 DEF Last
<1>7. ASSUME NEW k \in 1 .. Len(picked) - 1 PROVE picked[k] < picked[k + 1]
  <2>1. CASE n <= m \/ m <= 1
    <3>1. picked = items
      BY <1>4, <2>1 DEF Downsample
    <3>2. k \in 1 .. n /\ k + 1 \in 1 .. n
      BY <1>1, <1>4, <3>1
    <3> QED
      BY <1>3, <3>1, <3>2
  <2>2. CASE ~ (n <= m \/ m <= 1)
    <3>1. n > m
      BY <1>1, <1>2, <2>2
    <3>2. Spread(n, m)
      BY <1>1, <1>2, <3>1, PickedSpread
    <3>3. picked = [j \in 1 .. m |-> items[PickedIndex(j - 1, n, m)]]
      <4>1. Downsample(items, m) =
              IF Len(items) <= m \/ m <= 1 THEN items
              ELSE [j \in 1 .. m |-> items[PickedIndex(j - 1, Len(items), m)]]
        BY DEF Downsample
      <4> QED
        BY <1>4, <2>2, <4>1
    <3>4. k \in 1 .. m /\ k + 1 \in 1 .. m /\ k - 1 \in 0 .. m - 2 /\ (k - 1) + 1 = (k + 1) - 1
      BY <1>2, <1>5
    <3>5. k - 1 \in 0 .. m - 1 /\ (k - 1) + 1 \in 0 .. m - 1
      BY <3>4
    <3>6. /\ PickedIndex(k - 1, n, m) \in 1 .. n /\ PickedIndex((k - 1) + 1, n, m) \in 1 .. n
          /\ PickedIndex(k - 1, n, m) < PickedIndex((k - 1) + 1, n, m)
      BY <3>2, <3>4, <3>5 DEF Spread
    <3>7. picked[k] = PickedIndex(k - 1, n, m) /\ picked[k + 1] = PickedIndex((k + 1) - 1, n, m)
      BY <1>3, <3>3, <3>4, <3>6
    <3> QED
      BY <3>4, <3>6, <3>7
  <2> QED
    BY <2>1, <2>2
<1> QED
  BY <1>5, <1>6, <1>7

LEMMA StatisticsTrue == ForecastTyped => StatisticsHold
  BY SteadyHolds, NoPeekingHolds, RanksHold, BucketsHold, SeriesHolds DEF StatisticsHold

-----------------------------------------------------------------------------
\* Counting events of a kind in the log and among what was given to it.
Lines == Events \cup {Garbage}
One(e, P) == IF e \in P THEN 1 ELSE 0
Hits(s, P) == {i \in DOMAIN s : s[i] \in P}

LEMMA HitsFinite ==
    ASSUME NEW S, NEW s \in Seq(S), NEW P
    PROVE  IsFiniteSet(Hits(s, P)) /\ Cardinality(Hits(s, P)) \in Nat
<1>1. PICK n \in Nat : n = Len(s) /\ DOMAIN s = 1 .. n
  OBVIOUS
<1>2. 1 \in Int /\ n \in Int
  OBVIOUS
<1>3. IsFiniteSet(1 .. n)
  BY <1>2, FS_Interval
<1>4. Hits(s, P) \in SUBSET (1 .. n)
  BY <1>1 DEF Hits
<1> QED
  BY <1>3, <1>4, FS_Subset, FS_CardinalityType

LEMMA HitsAppend ==
    ASSUME NEW S, NEW s \in Seq(S), NEW P, NEW e \in S
    PROVE  Cardinality(Hits(Append(s, e), P)) = Cardinality(Hits(s, P)) + One(e, P)
<1>1. PICK n \in Nat : n = Len(s) /\ DOMAIN s = 1 .. n
  OBVIOUS
<1>2. PICK t : t = Append(s, e) /\ DOMAIN t = 1 .. n + 1 /\ t[n + 1] = e /\ \A i \in 1 .. n : t[i] = s[i]
  <2>1. Append(s, e) \in Seq(S) /\ Len(Append(s, e)) = n + 1
    BY <1>1
  <2>3. DOMAIN Append(s, e) = 1 .. n + 1
    BY <2>1
  <2>2. Append(s, e)[n + 1] = e /\ \A i \in 1 .. n : Append(s, e)[i] = s[i]
    BY <1>1
  <2> QED
    BY <2>2, <2>3
<1>3. PICK H : H = Hits(s, P) /\ IsFiniteSet(H) /\ Cardinality(H) \in Nat
  BY HitsFinite
<1>4. H \in SUBSET (1 .. n) /\ n + 1 \notin H
  BY <1>1, <1>3 DEF Hits
<1>5. \A i \in 1 .. n + 1 : i \in 1 .. n \/ i = n + 1
  OBVIOUS
<1>6. CASE e \in P
  <2>1. Hits(t, P) = H \cup {n + 1}
    BY <1>1, <1>2, <1>3, <1>5, <1>6 DEF Hits
  <2>2. Cardinality(H \cup {n + 1}) = Cardinality(H) + 1
    BY <1>3, <1>4, FS_AddElement
  <2> QED
    BY <1>2, <1>3, <1>6, <2>1, <2>2 DEF One
<1>7. CASE e \notin P
  <2>1. Hits(t, P) = H
    BY <1>1, <1>2, <1>3, <1>5, <1>7 DEF Hits
  <2> QED
    BY <1>2, <1>3, <1>7, <2>1 DEF One
<1> QED
  BY <1>6, <1>7

LEMMA HitsSpoilt ==
    ASSUME NEW S, Garbage \in S, NEW s \in Seq(S), s # <<>>, NEW P, Garbage \notin P,
           NEW t, t = [s EXCEPT ![Len(s)] = Garbage]
    PROVE  Cardinality(Hits(t, P)) = Cardinality(Hits(s, P)) - One(s[Len(s)], P)
<1>1. PICK n \in Nat : n = Len(s) /\ DOMAIN s = 1 .. n /\ n # 0
  OBVIOUS
<1>2. DOMAIN t = 1 .. n /\ t[n] = Garbage /\ \A i \in 1 .. n : i # n => t[i] = s[i]
  <2>1. n \in 1 .. n
    BY <1>1
  <2>2. t = [i \in 1 .. n |-> IF i = n THEN Garbage ELSE s[i]]
    BY <1>1
  <2> QED
    BY <2>1, <2>2
<1>3. PICK H : H = Hits(s, P) /\ IsFiniteSet(H) /\ Cardinality(H) \in Nat
  BY HitsFinite
<1>4. Hits(t, P) = H \ {n}
  BY <1>1, <1>2, <1>3 DEF Hits
<1>5. n \in H <=> s[n] \in P
  BY <1>1, <1>3 DEF Hits
<1>6. CASE s[n] \in P
  <2>1. Cardinality(H \ {n}) = Cardinality(H) - 1
    BY <1>3, <1>5, <1>6, FS_RemoveElement
  <2> QED
    BY <1>1, <1>2, <1>3, <1>4, <1>6, <2>1 DEF One
<1>7. CASE s[n] \notin P
  <2>1. H \ {n} = H
    BY <1>5, <1>7
  <2>2. Hits(t, P) = H
    BY <1>4, <2>1
  <2>3. One(s[Len(s)], P) = 0
    BY <1>1, <1>7 DEF One
  <2> QED
    BY <1>3, <2>2, <2>3
<1> QED
  BY <1>6, <1>7

\* What the log lost of the events in P, and what appends cut short can lose.
LostOf(att, lg, P) == Cardinality(Hits(att, P)) - Cardinality(Hits(lg, P))
Slack(lg, op, t, P) == 2 * t - (IF op THEN 1 + One(lg[Len(lg)], P) ELSE 0)
Fits(att, lg, op, t) ==
    \A P \in SUBSET Events : LostOf(att, lg, P) >= 0 /\ LostOf(att, lg, P) <= Slack(lg, op, t, P)
LosesNoLess(att, lg, att2, lg2) ==
    \A P \in SUBSET Events : LostOf(att2, lg2, P) >= LostOf(att, lg, P)
Extended(lg, op, line) ==
    IF op THEN [lg EXCEPT ![Len(lg)] = Garbage] ELSE Append(lg, line)

LEMMA LostInt ==
    ASSUME NEW att \in Seq(Events), NEW lg \in Seq(Lines), NEW P
    PROVE  LostOf(att, lg, P) \in Int
  BY HitsFinite DEF LostOf

LEMMA LostExtended ==
    ASSUME NEW att \in Seq(Events), NEW lg \in Seq(Lines), NEW op \in BOOLEAN, op => lg # <<>>,
           NEW e \in Events, NEW line \in Lines, NEW P \in SUBSET Events
    PROVE  LostOf(Append(att, e), Extended(lg, op, line), P) =
             LostOf(att, lg, P) + One(e, P)
               + (IF op THEN One(lg[Len(lg)], P) ELSE 0 - One(line, P))
<1>1. PICK a \in Nat, b \in Nat : a = Cardinality(Hits(att, P)) /\ b = Cardinality(Hits(lg, P))
  BY HitsFinite
<1>2. Cardinality(Hits(Append(att, e), P)) = a + One(e, P)
  BY <1>1, HitsAppend
<1>3. Garbage \notin P
  BY GarbageAssumption
<1>4. One(e, P) \in Int /\ One(line, P) \in Int /\ One(lg[Len(lg)], P) \in Int
  BY DEF One
<1>5. CASE op
  <2>1. Cardinality(Hits(Extended(lg, op, line), P)) = b - One(lg[Len(lg)], P)
    <3>1. Garbage \in Lines
      BY DEF Lines
    <3>2. Extended(lg, op, line) = [lg EXCEPT ![Len(lg)] = Garbage]
      BY <1>5 DEF Extended
    <3> QED
      BY <1>1, <1>3, <1>5, <3>1, <3>2, HitsSpoilt
  <2>2. (IF op THEN One(lg[Len(lg)], P) ELSE 0 - One(line, P)) = One(lg[Len(lg)], P)
    BY <1>5, Zenon
  <2> QED
    BY <1>1, <1>2, <1>4, <2>1, <2>2 DEF LostOf
<1>6. CASE ~op
  <2>1. Cardinality(Hits(Extended(lg, op, line), P)) = b + One(line, P)
    BY <1>1, <1>6, HitsAppend DEF Extended
  <2>2. (IF op THEN One(lg[Len(lg)], P) ELSE 0 - One(line, P)) = 0 - One(line, P)
    BY <1>6, Zenon
  <2> QED
    BY <1>1, <1>2, <1>4, <2>1, <2>2 DEF LostOf
<1> QED
  BY <1>5, <1>6

\* The four sums: l lost so far, x the event, y the last line, z the line, each 0 or 1.
LEMMA SumWhenOpen ==
    ASSUME NEW l \in Int, NEW x \in Nat, NEW y \in Nat, NEW t \in Nat,
           l >= 0, l <= 2 * t - (1 + y), x <= 1
    PROVE  l + x + y >= 0 /\ l + x + y <= 2 * t /\ l + x + y <= 2 * (t + 1) - (1 + 0) /\ l + x + y >= l
  OBVIOUS

LEMMA SumWhenClosed ==
    ASSUME NEW l \in Int, NEW x \in Nat, NEW z \in Nat, NEW t \in Nat,
           l >= 0, l <= 2 * t - 0, x <= 1, z <= x
    PROVE  /\ l + x + (0 - z) >= 0 /\ l + x + (0 - z) <= 2 * (t + 1) - (1 + z)
           /\ (z = x => l + x + (0 - z) <= 2 * t)
           /\ l + x + (0 - z) >= l
  OBVIOUS

LEMMA AppendFits ==
    ASSUME NEW att \in Seq(Events), NEW lg \in Seq(Lines), NEW op \in BOOLEAN, op => lg # <<>>,
           NEW t \in Nat, Fits(att, lg, op, t), NEW e \in Events
    PROVE  /\ Fits(Append(att, e), Extended(lg, op, e), FALSE, t)
           /\ LosesNoLess(att, lg, Append(att, e), Extended(lg, op, e))
<1> SUFFICES ASSUME NEW P \in SUBSET Events
             PROVE  LET l2 == LostOf(Append(att, e), Extended(lg, op, e), P)
                    IN  /\ l2 >= 0 /\ l2 <= Slack(Extended(lg, op, e), FALSE, t, P)
                        /\ l2 >= LostOf(att, lg, P)
  BY DEF Fits, LosesNoLess
<1>1. PICK l \in Int : l = LostOf(att, lg, P)
  BY LostInt
<1>2. PICK had : had = Slack(lg, op, t, P) /\ l >= 0 /\ l <= had
  BY <1>1 DEF Fits
<1>3. PICK x \in Nat, y \in Nat : x = One(e, P) /\ y = One(lg[Len(lg)], P) /\ x <= 1 /\ y <= 1
  BY DEF One
<1>4. PICK lost : /\ lost = LostOf(Append(att, e), Extended(lg, op, e), P)
                 /\ lost = l + x + (IF op THEN y ELSE 0 - x)
  <2>1. e \in Lines
    BY DEF Lines
  <2> QED
    BY <1>1, <1>3, <2>1, LostExtended
<1>5. PICK room : room = Slack(Extended(lg, op, e), FALSE, t, P) /\ room = 2 * t
  BY DEF Slack
<1>6. had = 2 * t - (IF op THEN 1 + y ELSE 0)
  BY <1>2, <1>3 DEF Slack
<1>9. SUFFICES lost >= 0 /\ lost <= room /\ lost >= l
  BY <1>1, <1>4, <1>5
<1>7. CASE op
  <2>1. (IF op THEN y ELSE 0 - x) = y /\ (IF op THEN 1 + y ELSE 0) = 1 + y
    BY <1>7, Zenon
  <2>2. lost = l + x + y /\ had = 2 * t - (1 + y)
    BY <1>4, <1>6, <2>1, Zenon
  <2>3. l >= 0 /\ l <= 2 * t - (1 + y)
    BY <1>2, <2>2, Zenon
  <2>4. l + x + y >= 0 /\ l + x + y <= 2 * t /\ l + x + y >= l
    BY <1>3, <2>3, SumWhenOpen
  <2> QED
    BY <1>5, <2>2, <2>4, Zenon
<1>8. CASE ~op
  <2>1. (IF op THEN y ELSE 0 - x) = 0 - x /\ (IF op THEN 1 + y ELSE 0) = 0
    BY <1>8, Zenon
  <2>2. lost = l + x + (0 - x) /\ had = 2 * t - 0
    BY <1>4, <1>6, <2>1, Zenon
  <2>3. l >= 0 /\ l <= 2 * t - 0
    BY <1>2, <2>2, Zenon
  <2>4. l + x + (0 - x) >= 0 /\ l + x + (0 - x) <= 2 * t /\ l + x + (0 - x) >= l
    BY <1>3, <2>3, SumWhenClosed
  <2> QED
    BY <1>5, <2>2, <2>4, Zenon
<1> QED
  BY <1>7, <1>8

LEMMA TornFits ==
    ASSUME NEW att \in Seq(Events), NEW lg \in Seq(Lines), NEW op \in BOOLEAN, op => lg # <<>>,
           NEW t \in Nat, Fits(att, lg, op, t), NEW e \in Events, NEW line \in {e, Garbage}
    PROVE  /\ Fits(Append(att, e), Extended(lg, op, line), TRUE, t + 1)
           /\ LosesNoLess(att, lg, Append(att, e), Extended(lg, op, line))
<1> SUFFICES ASSUME NEW P \in SUBSET Events
             PROVE  LET l2 == LostOf(Append(att, e), Extended(lg, op, line), P)
                    IN  /\ l2 >= 0 /\ l2 <= Slack(Extended(lg, op, line), TRUE, t + 1, P)
                        /\ l2 >= LostOf(att, lg, P)
  BY DEF Fits, LosesNoLess
<1>1. PICK l \in Int : l = LostOf(att, lg, P)
  BY LostInt
<1>2. PICK had : had = Slack(lg, op, t, P) /\ l >= 0 /\ l <= had
  BY <1>1 DEF Fits
<1>3. PICK x \in Nat, y \in Nat, z \in Nat :
        /\ x = One(e, P) /\ y = One(lg[Len(lg)], P) /\ z = One(line, P)
        /\ x <= 1 /\ y <= 1 /\ z <= x
  <2>1. Garbage \notin P
    BY GarbageAssumption
  <2> QED
    BY <2>1 DEF One
<1>4. PICK lost : /\ lost = LostOf(Append(att, e), Extended(lg, op, line), P)
                 /\ lost = l + x + (IF op THEN y ELSE 0 - z)
  <2>1. line \in Lines
    BY DEF Lines
  <2> QED
    BY <1>1, <1>3, <2>1, LostExtended
<1>5. PICK room : /\ room = Slack(Extended(lg, op, line), TRUE, t + 1, P)
                  /\ room = 2 * (t + 1) - (1 + (IF op THEN 0 ELSE z))
  <2>1. PICK n \in Nat : n = Len(lg)
    OBVIOUS
  <2>2. CASE op
    <3>1. Extended(lg, op, line)[Len(Extended(lg, op, line))] = Garbage
      BY <2>1, <2>2 DEF Extended
    <3>2. Garbage \notin P
      BY GarbageAssumption
    <3> QED
      BY <2>2, <3>1, <3>2 DEF Slack, One
  <2>3. CASE ~op
    <3>1. Extended(lg, op, line)[Len(Extended(lg, op, line))] = line
      BY <2>1, <2>3 DEF Extended
    <3> QED
      BY <1>3, <2>3, <3>1 DEF Slack
  <2> QED
    BY <2>2, <2>3
<1>6. had = 2 * t - (IF op THEN 1 + y ELSE 0)
  BY <1>2, <1>3 DEF Slack
<1>9. SUFFICES lost >= 0 /\ lost <= room /\ lost >= l
  BY <1>1, <1>4, <1>5
<1>7. CASE op
  <2>1. /\ (IF op THEN y ELSE 0 - z) = y /\ (IF op THEN 1 + y ELSE 0) = 1 + y
        /\ (IF op THEN 0 ELSE z) = 0
    BY <1>7, Zenon
  <2>2. lost = l + x + y /\ had = 2 * t - (1 + y) /\ room = 2 * (t + 1) - (1 + 0)
    BY <1>4, <1>5, <1>6, <2>1, Zenon
  <2>3. l >= 0 /\ l <= 2 * t - (1 + y)
    BY <1>2, <2>2, Zenon
  <2>4. l + x + y >= 0 /\ l + x + y <= 2 * (t + 1) - (1 + 0) /\ l + x + y >= l
    BY <1>3, <2>3, SumWhenOpen
  <2> QED
    BY <2>2, <2>4, Zenon
<1>8. CASE ~op
  <2>1. /\ (IF op THEN y ELSE 0 - z) = 0 - z /\ (IF op THEN 1 + y ELSE 0) = 0
        /\ (IF op THEN 0 ELSE z) = z
    BY <1>8, Zenon
  <2>2. lost = l + x + (0 - z) /\ had = 2 * t - 0 /\ room = 2 * (t + 1) - (1 + z)
    BY <1>4, <1>5, <1>6, <2>1, Zenon
  <2>3. l >= 0 /\ l <= 2 * t - 0
    BY <1>2, <2>2, Zenon
  <2>4. /\ l + x + (0 - z) >= 0 /\ l + x + (0 - z) <= 2 * (t + 1) - (1 + z)
        /\ l + x + (0 - z) >= l
    BY <1>3, <2>3, SumWhenClosed
  <2> QED
    BY <2>2, <2>4, Zenon
<1> QED
  BY <1>7, <1>8
-----------------------------------------------------------------------------
\* The events a reading of the log asks for.
Asked(type, start) == {e \in Events : e.type = type /\ Inside(e, start)}

LEMMA WantedAreHits ==
    ASSUME NEW lines \in Seq(Lines), NEW type, NEW start
    PROVE  Wanted(lines, type, start) = Hits(lines, Asked(type, start))
<1>1. \A i \in DOMAIN lines : lines[i] \in Lines
  OBVIOUS
<1>2. \A i \in DOMAIN lines : lines[i] # Garbage <=> lines[i] \in Events
  BY <1>1, GarbageAssumption DEF Lines
<1> QED
  BY <1>2 DEF Wanted, Hits, Asked

LEMMA MissedIsLost ==
    ASSUME attempts \in Seq(Events), log \in Seq(Lines), NEW type, NEW start
    PROVE  Missed(type, start) = LostOf(attempts, log, Asked(type, start))
<1>1. attempts \in Seq(Lines)
  BY DEF Lines
<1> QED
  BY <1>1, WantedAreHits DEF Missed, LostOf

LEMMA HitsDisjoint ==
    ASSUME NEW S, NEW s \in Seq(S), NEW P, NEW Q, P \cap Q = {}
    PROVE  Cardinality(Hits(s, P \cup Q)) = Cardinality(Hits(s, P)) + Cardinality(Hits(s, Q))
<1>1. PICK H, K : H = Hits(s, P) /\ K = Hits(s, Q)
  OBVIOUS
<1>2. IsFiniteSet(H) /\ IsFiniteSet(K) /\ Cardinality(H) \in Nat /\ Cardinality(K) \in Nat
  BY <1>1, HitsFinite
<1>3. Hits(s, P \cup Q) = H \cup K /\ H \cap K = {}
  BY <1>1 DEF Hits
<1>4. Cardinality(H \cup K) = Cardinality(H) + Cardinality(K) - Cardinality(H \cap K)
  BY <1>2, FS_Union
<1>5. Cardinality({}) = 0
  BY FS_EmptySet
<1>6. Cardinality(H \cap K) = 0
  BY <1>3, <1>5
<1>7. PICK a \in Nat, b \in Nat : a = Cardinality(H) /\ b = Cardinality(K)
  BY <1>2
<1>8. Cardinality(H \cup K) = a + b
  BY <1>4, <1>6, <1>7
<1> QED
  BY <1>1, <1>3, <1>7, <1>8

LEMMA LostDisjoint ==
    ASSUME NEW att \in Seq(Events), NEW lg \in Seq(Lines), NEW P, NEW Q, P \cap Q = {}
    PROVE  LostOf(att, lg, P \cup Q) = LostOf(att, lg, P) + LostOf(att, lg, Q)
<1>1. PICK a \in Nat, b \in Nat, c \in Nat, d \in Nat :
        /\ a = Cardinality(Hits(att, P)) /\ b = Cardinality(Hits(att, Q))
        /\ c = Cardinality(Hits(lg, P)) /\ d = Cardinality(Hits(lg, Q))
  BY HitsFinite
<1>2. Cardinality(Hits(att, P \cup Q)) = a + b /\ Cardinality(Hits(lg, P \cup Q)) = c + d
  BY <1>1, HitsDisjoint
<1> QED
  BY <1>1, <1>2 DEF LostOf

-----------------------------------------------------------------------------
\* The invariant of the two files.
FilesTyped ==
    /\ clock \in Nat \ {0} /\ clock <= MaxClock
    /\ log \in Seq(Lines) /\ attempts \in Seq(Events) /\ tears \in Nat
    /\ open \in BOOLEAN /\ (open => log # <<>>)
    /\ sampling \in [at : Nat, stage : {"idle", "balance", "recall"}]
    /\ sampling.at <= clock

\* The samples in the log are of ticks that were, each later than the one before.
LogOrdered ==
    /\ \A i \in 1 .. Len(log) : log[i] \in SampleEvents =>
         /\ log[i] \in Range(attempts) /\ log[i].at <= sampling.at
         /\ (sampling.stage = "balance" => log[i].at < sampling.at)
    /\ \A i \in 1 .. Len(log), j \in 1 .. Len(log) :
         i < j /\ log[i] \in SampleEvents /\ log[j] \in SampleEvents => log[i].at < log[j].at

\* Samples of the window that starts Window before `start`, each of a tick that was,
\* none later than now, in order and none twice.
SamplesFine(ss, start) ==
    /\ \A i \in 1 .. Len(ss) :
         ss[i] \in Range(attempts) /\ ss[i].at >= start - Window /\ ss[i].at <= clock
    /\ \A i \in 1 .. Len(ss), j \in 1 .. Len(ss) : i < j => ss[i].at < ss[j].at

Drafts ==
    [stage : {"idle", "pauses", "samples", "burn", "writing"}, start : Nat,
     samples : Seq(SampleEvents), recalls : Seq(Lines), missed : Int, tears : Nat]

\* Between its two readings of the log, a report has missed no more samples than
\* the log has lost of its window; after both, two events to each torn append.
ReportFine ==
    /\ report \in Drafts
    /\ SamplesFine(report.samples, report.start)
    /\ report.stage = "samples" =>
         /\ report.missed >= 0
         /\ report.missed <= LostOf(attempts, log, Asked("tier0_sample", report.start))
    /\ report.stage \in {"burn", "writing"} => report.missed \in 0 .. 2 * report.tears

\* A whole snapshot was computed from such a report.
SnapshotFine ==
    \/ snapshot \in {NoSnapshot, Torn}
    \/ \E r \in Drafts :
         snapshot = SlaSnapshot(r) /\ SamplesFine(r.samples, r.start) /\ r.missed \in 0 .. 2 * r.tears

FilesInv ==
    /\ FilesTyped /\ LogOrdered
    /\ Fits(attempts, log, open, tears)
    /\ ReportFine /\ SnapshotFine

LEMMA NoSamplesFine == ASSUME NEW start PROVE SamplesFine(<<>>, start)
  BY DEF SamplesFine

LEMMA IdleIsDraft == IdleReport \in Drafts /\ SamplesFine(IdleReport.samples, IdleReport.start)
<1>1. <<>> \in Seq(SampleEvents) /\ <<>> \in Seq(Lines)
  OBVIOUS
<1> QED
  BY <1>1, NoSamplesFine DEF IdleReport, Drafts

LEMMA FilesInvInit == ReportInit => FilesInv
<1> SUFFICES ASSUME ReportInit PROVE FilesInv
  OBVIOUS
<1>1. PICK e : e = SampleEvent(0, SampleTarget, NoFloor)
  OBVIOUS
<1>2. e \in SampleEvents /\ e \in Events /\ e \in Lines /\ e.at = 0
  BY <1>1, SampleAssumption DEF SampleEvent, SampleEvents, Events, Lines
<1>3. log = <<>> \/ log = <<e>>
  BY <1>1 DEF ReportInit
<1>4. attempts = log /\ log \in Seq(Events) /\ log \in Seq(Lines)
  <2>1. attempts = log
    BY DEF ReportInit
  <2>2. \A S : e \in S => <<e>> \in Seq(S)
    OBVIOUS
  <2>3. \A S : <<>> \in Seq(S)
    OBVIOUS
  <2> QED
    BY <1>2, <1>3, <2>1, <2>2, <2>3
<1>5. FilesTyped
  <2>1. clock = 1 /\ tears = 0 /\ open = FALSE /\ sampling = [at |-> 0, stage |-> "idle"]
    BY DEF ReportInit
  <2>2. open \in BOOLEAN /\ ~open
    BY <2>1
  <2>3. /\ sampling \in [at : Nat, stage : {"idle", "balance", "recall"}]
        /\ sampling.at <= clock
    BY <2>1
  <2>4. clock \in Nat \ {0} /\ clock <= MaxClock /\ tears \in Nat
    BY <2>1, ReportClockAssumption
  <2> QED
    BY <1>4, <2>2, <2>3, <2>4 DEF FilesTyped
<1>6. LogOrdered
  <2>1. CASE log = <<>>
    BY <2>1 DEF LogOrdered
  <2>2. CASE log = <<e>>
    <3>1. Len(log) = 1 /\ log[1] = e /\ 1 \in DOMAIN log /\ \A i \in 1 .. Len(log) : i = 1
      BY <2>2
    <3>2. e \in Range(attempts)
      BY <1>4, <3>1 DEF Range
    <3> QED
      BY <1>2, <3>1, <3>2 DEF LogOrdered, ReportInit
  <2> QED
    BY <1>3, <2>1, <2>2
<1>7. Fits(attempts, log, open, tears)
  <2>1. \A P : LostOf(attempts, log, P) = 0
    <3>1. \A P : Cardinality(Hits(log, P)) \in Nat
      BY <1>4, HitsFinite
    <3> QED
      BY <1>4, <3>1 DEF LostOf
  <2>2. \A P : Slack(log, open, tears, P) = 0
    BY DEF Slack, ReportInit
  <2> QED
    BY <2>1, <2>2 DEF Fits
<1>8. ReportFine
  BY IdleIsDraft DEF ReportFine, ReportInit, IdleReport
<1>9. SnapshotFine
  BY DEF SnapshotFine, ReportInit
<1> QED
  BY <1>5, <1>6, <1>7, <1>8, <1>9 DEF FilesInv

\* What was read stays true as time passes and events are given to the log.
LEMMA SamplesStayFine ==
    ASSUME NEW ss, ss \in Seq(SampleEvents), NEW start, SamplesFine(ss, start),
           clock \in Nat, clock' \in Nat, clock <= clock', Range(attempts) \subseteq Range(attempts')
    PROVE  SamplesFine(ss, start)'
<1>1. ASSUME NEW i \in 1 .. Len(ss) PROVE ss[i].at \in Nat
  <2>1. ss[i] \in SampleEvents
    OBVIOUS
  <2> QED
    BY <2>1 DEF SampleEvents
<1> QED
  BY <1>1 DEF SamplesFine

LEMMA ReportStaysFine ==
    ASSUME FilesInv, UNCHANGED report, attempts' \in Seq(Events), log' \in Seq(Lines),
           clock' \in Nat, clock <= clock', Range(attempts) \subseteq Range(attempts'),
           LosesNoLess(attempts, log, attempts', log')
    PROVE  ReportFine'
<1>1. report \in Drafts /\ clock \in Nat /\ report.samples \in Seq(SampleEvents)
  BY DEF FilesInv, FilesTyped, ReportFine, Drafts
<1>2. PICK ss, start : ss = report.samples /\ start = report.start
  OBVIOUS
<1>3. SamplesFine(ss, start)'
  BY <1>1, <1>2, SamplesStayFine DEF FilesInv, ReportFine
<1>4. SamplesFine(report.samples, report.start)'
  BY <1>2, <1>3 DEF SamplesFine
<1>5. PICK P \in SUBSET Events : P = Asked("tier0_sample", start)
  BY DEF Asked
<1>6. LostOf(attempts', log', P) \in Int /\ LostOf(attempts, log, P) \in Int
  BY LostInt DEF FilesInv, FilesTyped
<1>7. LostOf(attempts, log, P) <= LostOf(attempts', log', P)
  BY <1>6 DEF LosesNoLess
<1>8. report.stage = "samples" => report.missed >= 0 /\ report.missed <= LostOf(attempts', log', P)
  <2>1. SUFFICES ASSUME report.stage = "samples"
                 PROVE  report.missed >= 0 /\ report.missed <= LostOf(attempts', log', P)
    OBVIOUS
  <2>2. report.missed >= 0 /\ report.missed <= LostOf(attempts, log, P)
    BY <1>2, <1>5, <2>1 DEF FilesInv, ReportFine
  <2>3. report.missed \in Int
    BY <1>1 DEF Drafts
  <2> QED
    BY <1>6, <1>7, <2>2, <2>3
<1>9. Asked("tier0_sample", report.start)' = P
  BY <1>2, <1>5 DEF Asked, Inside
<1> QED
  BY <1>1, <1>4, <1>8, <1>9 DEF ReportFine, FilesInv

LEMMA SnapshotStaysFine ==
    ASSUME FilesInv, UNCHANGED snapshot, clock' \in Nat, clock <= clock',
           Range(attempts) \subseteq Range(attempts')
    PROVE  SnapshotFine'
<1>1. CASE snapshot \in {NoSnapshot, Torn}
  BY <1>1 DEF SnapshotFine
<1>2. CASE snapshot \notin {NoSnapshot, Torn}
  <2>1. PICK r \in Drafts : /\ snapshot = SlaSnapshot(r) /\ SamplesFine(r.samples, r.start)
                            /\ r.missed \in 0 .. 2 * r.tears
    BY <1>2 DEF FilesInv, SnapshotFine
  <2>2. r.samples \in Seq(SampleEvents) /\ clock \in Nat
    BY DEF Drafts, FilesInv, FilesTyped
  <2>3. SamplesFine(r.samples, r.start)'
    BY <2>1, <2>2, SamplesStayFine
  <2>4. SlaSnapshot(r)' = SlaSnapshot(r)
    OBVIOUS
  <2> QED
    BY <2>1, <2>3, <2>4 DEF SnapshotFine
<1> QED
  BY <1>1, <1>2

LEMMA LosesSame ==
    ASSUME NEW att \in Seq(Events), NEW lg \in Seq(Lines)
    PROVE  LosesNoLess(att, lg, att, lg)
<1>1. \A P : LostOf(att, lg, P) \in Int
  BY LostInt
<1> QED
  BY <1>1 DEF LosesNoLess
-----------------------------------------------------------------------------
\* Appending to the log.
LEMMA AttemptsGrow ==
    ASSUME NEW S, NEW att \in Seq(S), NEW e \in S
    PROVE  /\ Append(att, e) \in Seq(S)
           /\ Range(att) \subseteq Range(Append(att, e)) /\ e \in Range(Append(att, e))
<1>1. PICK n \in Nat : n = Len(att) /\ DOMAIN att = 1 .. n
  OBVIOUS
<1>2. /\ Append(att, e) \in Seq(S) /\ Len(Append(att, e)) = n + 1
      /\ Append(att, e)[n + 1] = e /\ \A i \in 1 .. n : Append(att, e)[i] = att[i]
  BY <1>1
<1>3. DOMAIN Append(att, e) = 1 .. n + 1 /\ n + 1 \in 1 .. n + 1 /\ 1 .. n \subseteq 1 .. n + 1
  BY <1>2
<1>4. e \in Range(Append(att, e))
  BY <1>2, <1>3 DEF Range
<1>5. ASSUME NEW x \in Range(att) PROVE x \in Range(Append(att, e))
  <2>1. PICK i \in 1 .. n : x = att[i]
    BY <1>1 DEF Range
  <2>2. x = Append(att, e)[i] /\ i \in DOMAIN Append(att, e)
    BY <1>2, <1>3, <2>1
  <2> QED
    BY <2>2 DEF Range
<1> QED
  BY <1>2, <1>4, <1>5

\* A line of the extended log was there before, is the event or is garbage.
Continues(l2, lg, line) ==
    /\ l2 \in Seq(Lines) /\ l2 # <<>>
    /\ \A i \in 1 .. Len(l2) :
         \/ l2[i] = Garbage
         \/ i \in 1 .. Len(lg) /\ l2[i] = lg[i]
         \/ i = Len(lg) + 1 /\ l2[i] = line

LEMMA ExtendedLines ==
    ASSUME NEW lg \in Seq(Lines), NEW op \in BOOLEAN, op => lg # <<>>, NEW line \in Lines
    PROVE  Continues(Extended(lg, op, line), lg, line)
<1>1. PICK n \in Nat : n = Len(lg)
  OBVIOUS
<1>2. CASE op
  <2>1. PICK l2 : l2 = Extended(lg, op, line) /\ l2 = [lg EXCEPT ![n] = Garbage]
    BY <1>1, <1>2 DEF Extended
  <2>2. n # 0 /\ Garbage \in Lines
    BY <1>1, <1>2 DEF Lines
  <2>7. DOMAIN lg = 1 .. n /\ lg \in [1 .. n -> Lines]
    BY <1>1
  <2>3. l2 = [i \in 1 .. n |-> IF i = n THEN Garbage ELSE lg[i]]
    BY <2>1, <2>7
  <2>4. l2 \in [1 .. n -> Lines]
    BY <1>1, <2>2, <2>3
  <2>5. l2 \in Seq(Lines) /\ Len(l2) = n
    BY <2>4
  <2>6. l2 # <<>>
    BY <2>2, <2>5
  <2> QED
    BY <1>1, <2>1, <2>3, <2>5, <2>6 DEF Continues
<1>3. CASE ~op
  <2>1. PICK l2 : l2 = Extended(lg, op, line) /\ l2 = Append(lg, line)
    BY <1>3 DEF Extended
  <2>2. l2 \in Seq(Lines) /\ Len(l2) = n + 1
    BY <1>1, <2>1
  <2>3. l2[n + 1] = line /\ \A i \in 1 .. n : l2[i] = lg[i]
    BY <1>1, <2>1
  <2>4. l2 # <<>> /\ \A i \in 1 .. n + 1 : i \in 1 .. n \/ i = n + 1
    BY <2>2
  <2> QED
    BY <1>1, <2>1, <2>2, <2>3, <2>4 DEF Continues
<1> QED
  BY <1>2, <1>3

LEMMA Logged ==
    ASSUME FilesInv, NEW e \in Events, AppendMetricEvent(e) \/ TornAppend(e),
           UNCHANGED <<clock, report, snapshot>>,
           NEW st \in {"idle", "recall"}, sampling' = [sampling EXCEPT !.stage = st],
           e \in SampleEvents => e.at = sampling.at /\ sampling.stage = "balance"
    PROVE  FilesInv'
<1>1. /\ clock \in Nat \ {0} /\ clock <= MaxClock /\ log \in Seq(Lines) /\ attempts \in Seq(Events)
      /\ tears \in Nat /\ open \in BOOLEAN /\ (open => log # <<>>)
      /\ sampling \in [at : Nat, stage : {"idle", "balance", "recall"}] /\ sampling.at <= clock
  BY DEF FilesInv, FilesTyped
<1>2. Fits(attempts, log, open, tears)
  BY DEF FilesInv
<1>3. attempts' = Append(attempts, e)
  BY DEF AppendMetricEvent, TornAppend
<1>4. PICK line \in {e, Garbage} :
        /\ log' = Extended(log, open, line)
        /\ \/ line = e /\ open' = FALSE /\ tears' = tears
           \/ open' = TRUE /\ tears' = tears + 1
  BY DEF AppendMetricEvent, TornAppend, WithLine, Extended
<1>5. line \in Lines
  BY DEF Lines
<1>6. Fits(attempts', log', open', tears') /\ LosesNoLess(attempts, log, attempts', log')
  <2>1. CASE line = e /\ open' = FALSE /\ tears' = tears
    BY <1>1, <1>2, <1>3, <1>4, <2>1, AppendFits
  <2>2. CASE open' = TRUE /\ tears' = tears + 1
    BY <1>1, <1>2, <1>3, <1>4, <2>2, TornFits
  <2> QED
    BY <1>4, <2>1, <2>2
<1>7. /\ attempts' \in Seq(Events) /\ Range(attempts) \subseteq Range(attempts')
      /\ e \in Range(attempts')
  BY <1>1, <1>3, AttemptsGrow
<1>8. /\ log' \in Seq(Lines) /\ log' # <<>>
      /\ \A i \in 1 .. Len(log') :
           \/ log'[i] = Garbage
           \/ i \in 1 .. Len(log) /\ log'[i] = log[i]
           \/ i = Len(log) + 1 /\ log'[i] = line
  <2>1. Continues(log', log, line)
    BY <1>1, <1>4, <1>5, ExtendedLines
  <2> QED
    BY <2>1 DEF Continues
<1>9. sampling'.at = sampling.at /\ sampling'.stage = st
  BY <1>1
<1>10. FilesTyped'
  <2>1. sampling' \in [at : Nat, stage : {"idle", "balance", "recall"}]
    BY <1>1
  <2>2. open' \in BOOLEAN
    BY <1>4, Zenon
  <2>3. tears' \in Nat
    <3>1. tears' = tears \/ tears' = tears + 1
      BY <1>4, Zenon
    <3> QED
      BY <1>1, <3>1
  <2> QED
    BY <1>1, <1>7, <1>8, <1>9, <2>1, <2>2, <2>3 DEF FilesTyped
<1>11. LogOrdered'
  <2>1. Garbage \notin SampleEvents
    BY GarbageAssumption DEF Events
  <2>2. \A i \in 1 .. Len(log') : log'[i] \in SampleEvents =>
          \/ i \in 1 .. Len(log) /\ log'[i] = log[i]
          \/ i = Len(log) + 1 /\ log'[i] = e /\ e \in SampleEvents
    BY <1>8, <2>1
  <2>3. PICK n \in Nat : n = Len(log)
    BY <1>1
  <2>4. \A i \in 1 .. n : log[i] \in SampleEvents =>
          /\ log[i] \in Range(attempts) /\ log[i].at <= sampling.at
          /\ (sampling.stage = "balance" => log[i].at < sampling.at)
    BY <2>3 DEF FilesInv, LogOrdered
  <2>5. \A i \in 1 .. n, j \in 1 .. n :
          i < j /\ log[i] \in SampleEvents /\ log[j] \in SampleEvents => log[i].at < log[j].at
    BY <2>3 DEF FilesInv, LogOrdered
  <2>6. ASSUME NEW i \in 1 .. Len(log'), log'[i] \in SampleEvents
        PROVE  log'[i] \in Range(attempts') /\ log'[i].at <= sampling.at
    <3>1. CASE i \in 1 .. n /\ log'[i] = log[i]
      BY <1>7, <2>4, <2>6, <3>1
    <3>2. CASE log'[i] = e /\ e \in SampleEvents
      BY <1>1, <1>7, <3>2
    <3> QED
      BY <2>2, <2>3, <2>6, <3>1, <3>2
  <2>7. ASSUME NEW i \in 1 .. Len(log'), NEW j \in 1 .. Len(log'), i < j,
               log'[i] \in SampleEvents, log'[j] \in SampleEvents
        PROVE  log'[i].at < log'[j].at
    <3>1. i \in Nat /\ j \in Nat
      BY <1>8
    <3>2. CASE j \in 1 .. n /\ log'[j] = log[j]
      <4>1. i \in 1 .. n
        BY <2>7, <3>1, <3>2
      <4>2. log'[i] = log[i]
        BY <2>2, <2>3, <2>7, <4>1
      <4> QED
        BY <2>5, <2>7, <3>2, <4>1, <4>2
    <3>3. CASE j = n + 1 /\ log'[j] = e /\ e \in SampleEvents
      <4>1. i \in 1 .. n
        BY <1>8, <2>3, <2>7, <3>1, <3>3
      <4>2. log'[i] = log[i]
        BY <2>2, <2>3, <2>7, <4>1
      <4>3. log[i].at < sampling.at
        BY <2>4, <2>7, <3>3, <4>1, <4>2
      <4> QED
        BY <3>3, <4>2, <4>3
    <3> QED
      BY <2>2, <2>3, <2>7, <3>2, <3>3
  <2> QED
    BY <1>9, <2>6, <2>7 DEF LogOrdered
<1>12. ReportFine'
  BY <1>1, <1>6, <1>7, <1>8, ReportStaysFine
<1>13. SnapshotFine'
  BY <1>1, <1>7, SnapshotStaysFine
<1> QED
  BY <1>6, <1>10, <1>11, <1>12, <1>13 DEF FilesInv

-----------------------------------------------------------------------------
\* Reading the log.
LEMMA FromLogFine ==
    ASSUME FilesInv, NEW start \in Nat
    PROVE  /\ FromLog("tier0_sample", start) \in Seq(SampleEvents)
           /\ SamplesFine(FromLog("tier0_sample", start), start)
<1>1. log \in Seq(Lines) /\ sampling.at \in Nat /\ clock \in Nat /\ sampling.at <= clock
  BY DEF FilesInv, FilesTyped
<1>2. PICK n \in Nat : n = Len(log) /\ DOMAIN log = 1 .. n
  BY <1>1
<1>3. PICK W : W = Wanted(log, "tier0_sample", start)
  OBVIOUS
<1>4. W \in SUBSET (1 .. n) /\ W \in SUBSET Nat
  BY <1>2, <1>3 DEF Wanted
<1>5. ASSUME NEW i \in W
      PROVE  /\ log[i] \in SampleEvents /\ log[i] \in Range(attempts)
             /\ log[i].at >= start - Window /\ log[i].at <= clock
  <2>1. i \in 1 .. n /\ log[i] # Garbage /\ log[i].type = "tier0_sample" /\ Inside(log[i], start)
    BY <1>2, <1>3 DEF Wanted
  <2>2. log[i] \in Events
    BY <1>1, <1>2, <2>1 DEF Lines
  <2>3. log[i] \in SampleEvents
    BY <2>1, <2>2 DEF Events, RecallEvents
  <2>4. log[i] \in Range(attempts) /\ log[i].at <= sampling.at
    BY <1>2, <2>1, <2>3 DEF FilesInv, LogOrdered
  <2>5. log[i].at \in Nat
    BY <2>3 DEF SampleEvents
  <2> QED
    BY <1>1, <2>1, <2>3, <2>4, <2>5 DEF Inside
<1>6. ASSUME NEW i \in W, NEW j \in W, i < j PROVE log[i].at < log[j].at
  BY <1>2, <1>4, <1>5, <1>6 DEF FilesInv, LogOrdered
<1>7. PICK ss : ss = FromLog("tier0_sample", start)
  OBVIOUS
<1>8. Threads(ss, log, W, n)
  BY <1>1, <1>2, <1>3, <1>4, <1>7, KeptThreads DEF FromLog
<1>9. PICK m \in Nat : \E ix \in [1 .. m -> W \cap (1 .. n)] :
        /\ ss = [j \in 1 .. m |-> log[ix[j]]]
        /\ \A a \in 1 .. m, b \in 1 .. m : a < b => ix[a] < ix[b]
  BY <1>8 DEF Threads
<1>10. PICK ix \in [1 .. m -> W \cap (1 .. n)] :
        /\ ss = [j \in 1 .. m |-> log[ix[j]]]
        /\ \A a \in 1 .. m, b \in 1 .. m : a < b => ix[a] < ix[b]
  BY <1>9
<1>11. \A j \in 1 .. m : ix[j] \in W /\ ss[j] = log[ix[j]]
  BY <1>10
<1>12. ss \in [1 .. m -> SampleEvents]
  BY <1>5, <1>10, <1>11
<1>13. ss \in Seq(SampleEvents) /\ Len(ss) = m
  BY <1>12
<1>14. \A j \in 1 .. m : ss[j] \in Range(attempts) /\ ss[j].at >= start - Window /\ ss[j].at <= clock
  BY <1>5, <1>11
<1>15. \A a \in 1 .. m, b \in 1 .. m : a < b => ss[a].at < ss[b].at
  BY <1>6, <1>10, <1>11
<1> QED
  BY <1>7, <1>13, <1>14, <1>15 DEF SamplesFine

LEMMA MissedSamples ==
    ASSUME FilesInv, NEW start \in Nat
    PROVE  /\ Missed("tier0_sample", start) \in Int /\ Missed("tier0_sample", start) >= 0
           /\ Missed("tier0_sample", start) = LostOf(attempts, log, Asked("tier0_sample", start))
<1>1. log \in Seq(Lines) /\ attempts \in Seq(Events) /\ Fits(attempts, log, open, tears)
  BY DEF FilesInv, FilesTyped
<1>2. PICK P \in SUBSET Events : P = Asked("tier0_sample", start)
  BY DEF Asked
<1>3. LostOf(attempts, log, P) \in Int /\ LostOf(attempts, log, P) >= 0
  BY <1>1, LostInt DEF Fits
<1> QED
  BY <1>1, <1>2, <1>3, MissedIsLost

\* Samples and recalls missed together are no more than appends cut short can lose.
LEMMA MissedTogether ==
    ASSUME FilesInv, NEW start \in Nat, NEW had \in Int, had >= 0,
           had <= LostOf(attempts, log, Asked("tier0_sample", start))
    PROVE  had + Missed("recall_triggered", start) \in 0 .. 2 * tears
<1>1. /\ log \in Seq(Lines) /\ attempts \in Seq(Events) /\ tears \in Nat
      /\ Fits(attempts, log, open, tears)
  BY DEF FilesInv, FilesTyped
<1>2. PICK P \in SUBSET Events : P = Asked("tier0_sample", start)
  BY DEF Asked
<1>3. PICK Q \in SUBSET Events : Q = Asked("recall_triggered", start)
  BY DEF Asked
<1>4. P \cap Q = {}
  BY <1>2, <1>3 DEF Asked
<1>5. PICK p \in Int, q \in Int : p = LostOf(attempts, log, P) /\ q = LostOf(attempts, log, Q)
  BY <1>1, LostInt
<1>6. LostOf(attempts, log, P \cup Q) = p + q
  BY <1>1, <1>4, <1>5, LostDisjoint
<1>7. PICK room : room = Slack(log, open, tears, P \cup Q) /\ p + q <= room
  BY <1>1, <1>6 DEF Fits
<1>8. room \in Int /\ room <= 2 * tears
  <2>1. One(log[Len(log)], P \cup Q) \in Nat
    BY DEF One
  <2>2. CASE open
    <3>1. room = 2 * tears - (1 + One(log[Len(log)], P \cup Q))
      BY <1>7, <2>2 DEF Slack
    <3> QED
      BY <1>1, <2>1, <3>1
  <2>3. CASE ~open
    <3>1. room = 2 * tears - 0
      BY <1>7, <2>3 DEF Slack
    <3> QED
      BY <1>1, <3>1
  <2> QED
    BY <2>2, <2>3
<1>9. q >= 0
  BY <1>1, <1>5 DEF Fits
<1>10. Missed("recall_triggered", start) = q
  BY <1>1, <1>3, <1>5, MissedIsLost
<1>11. had <= p
  BY <1>2, <1>5
<1>12. had + q >= 0 /\ had + q <= 2 * tears
  BY <1>1, <1>5, <1>7, <1>8, <1>9, <1>11
<1> QED
  BY <1>1, <1>5, <1>10, <1>12
-----------------------------------------------------------------------------
\* Every step of the three processes.
LEMMA FilesInvKept ==
    ASSUME FilesInv, UNCHANGED <<log, open, tears, attempts, report, snapshot>>,
           clock' \in Nat \ {0}, clock <= clock', clock' <= MaxClock,
           sampling' \in [at : Nat, stage : {"idle", "balance", "recall"}], sampling'.at <= clock',
           LogOrdered'
    PROVE  FilesInv'
<1>1. log \in Seq(Lines) /\ attempts \in Seq(Events) /\ Fits(attempts, log, open, tears)
  BY DEF FilesInv, FilesTyped
<1>2. FilesTyped'
  BY DEF FilesInv, FilesTyped
<1>3. LosesNoLess(attempts, log, attempts', log')
  BY <1>1, LosesSame
<1>4. ReportFine' /\ SnapshotFine'
  BY <1>1, <1>3, ReportStaysFine, SnapshotStaysFine
<1> QED
  BY <1>1, <1>2, <1>4 DEF FilesInv

LEMMA OnlyTheReport ==
    ASSUME FilesInv, UNCHANGED <<clock, logVars, sampling>>, ReportFine', SnapshotFine'
    PROVE  FilesInv'
  BY DEF FilesInv, FilesTyped, LogOrdered, logVars

LEMMA FinePrimed ==
    ASSUME NEW ss, NEW start, SamplesFine(ss, start), UNCHANGED <<clock, attempts>>
    PROVE  SamplesFine(ss, start)'
  BY DEF SamplesFine

LEMMA FilesInvStep ==
    ASSUME FilesInv, ReportNext
    PROVE  FilesInv'
<1>1. /\ clock \in Nat \ {0} /\ clock <= MaxClock /\ log \in Seq(Lines) /\ attempts \in Seq(Events)
      /\ sampling \in [at : Nat, stage : {"idle", "balance", "recall"}] /\ sampling.at <= clock
  BY DEF FilesInv, FilesTyped
<1>2. LogOrdered
  BY DEF FilesInv
<1>3. ASSUME Seconds PROVE FilesInv'
  <2>1. clock' = clock + 1 /\ clock' <= MaxClock /\ clock' \in Nat \ {0}
    BY <1>1, <1>3, ReportClockAssumption DEF Seconds
  <2>2. LogOrdered'
    BY <1>2, <1>3 DEF LogOrdered, Seconds, logVars
  <2>3. UNCHANGED <<log, open, tears, attempts, report, snapshot, sampling>>
    BY <1>3 DEF Seconds, logVars
  <2>4. clock <= clock' /\ sampling.at <= clock'
    BY <1>1, <2>1
  <2> QED
    BY <1>1, <2>1, <2>2, <2>3, <2>4, FilesInvKept
<1>4. ASSUME SamplingStarts PROVE FilesInv'
  <2>1. /\ UNCHANGED <<log, open, tears, attempts, report, snapshot, clock>>
        /\ sampling' = [at |-> clock, stage |-> "balance"] /\ clock > sampling.at
    BY <1>4 DEF SamplingStarts, logVars
  <2>2. LogOrdered'
    <3>1. \A i \in 1 .. Len(log) : log[i] \in SampleEvents => log[i].at \in Nat
      BY DEF SampleEvents
    <3> QED
      BY <1>1, <1>2, <2>1, <3>1 DEF LogOrdered
  <2>3. /\ sampling' \in [at : Nat, stage : {"idle", "balance", "recall"}]
        /\ sampling'.at <= clock' /\ clock <= clock'
    BY <1>1, <2>1
  <2> QED
    BY <1>1, <2>1, <2>2, <2>3, FilesInvKept
<1>5. ASSUME NEW b \in SampleBalances, LogSample(b) PROVE FilesInv'
  <2>1. PICK e : e = SampleEvent(sampling.at, b, CriticalFloor)
    OBVIOUS
  <2>2. e \in SampleEvents /\ e \in Events /\ e.at = sampling.at
    BY <1>1, <2>1, SampleAssumption DEF SampleEvent, SampleEvents, Events
  <2>3. AppendMetricEvent(e) \/ TornAppend(e)
    BY <1>5, <2>1 DEF LogSample
  <2>4. sampling.stage = "balance" /\ UNCHANGED <<clock, report, snapshot>>
    BY <1>5 DEF LogSample
  <2>5. PICK st \in {"idle", "recall"} : sampling' = [sampling EXCEPT !.stage = st]
    <3>1. CASE sampling' = [sampling EXCEPT !.stage =
                              IF ShouldRecall(b, SampleTarget) THEN "recall" ELSE "idle"]
      BY <3>1
    <3>2. CASE sampling' = [sampling EXCEPT !.stage = "idle"]
      BY <3>2
    <3> QED
      BY <1>5, <3>1, <3>2 DEF LogSample
  <2> QED
    BY <2>2, <2>3, <2>4, <2>5, Logged
<1>6. ASSUME LogExecutedRecall PROVE FilesInv'
  <2>1. PICK e : e = RecallEvent(sampling.at, clock)
    OBVIOUS
  <2>2. e \in Events /\ e \notin SampleEvents
    BY <1>1, <2>1 DEF RecallEvent, RecallEvents, SampleEvents, Events
  <2>3. AppendMetricEvent(e) \/ TornAppend(e)
    BY <1>6, <2>1 DEF LogExecutedRecall
  <2>4. UNCHANGED <<clock, report, snapshot>> /\ sampling' = [sampling EXCEPT !.stage = "idle"]
    BY <1>6 DEF LogExecutedRecall
  <2> QED
    BY <2>2, <2>3, <2>4, Logged
<1>7. ASSUME SamplingEnds PROVE FilesInv'
  <2>1. /\ UNCHANGED <<log, open, tears, attempts, report, snapshot, clock>>
        /\ sampling' = [sampling EXCEPT !.stage = "idle"]
    BY <1>7 DEF SamplingEnds, logVars
  <2>2. /\ sampling' \in [at : Nat, stage : {"idle", "balance", "recall"}]
        /\ sampling'.at = sampling.at /\ sampling'.stage = "idle"
    BY <1>1, <2>1
  <2>3. LogOrdered'
    BY <1>2, <2>1, <2>2 DEF LogOrdered
  <2>4. clock <= clock'
    BY <1>1, <2>1
  <2> QED
    BY <1>1, <2>1, <2>2, <2>3, <2>4, FilesInvKept
<1>8. ASSUME ReportStarts PROVE FilesInv'
  <2>1. UNCHANGED <<clock, logVars, sampling, snapshot, attempts>>
    BY <1>8 DEF ReportStarts, logVars
  <2>2. report' = [IdleReport EXCEPT !.stage = "pauses", !.start = clock]
    BY <1>8 DEF ReportStarts
  <2>3. report' \in Drafts /\ report'.samples = <<>> /\ report'.stage = "pauses"
    <3>1. PICK none : none = <<>>
      OBVIOUS
    <3>2. none \in Seq(SampleEvents) /\ none \in Seq(Lines)
      BY <3>1
    <3>3. report' = [stage |-> "pauses", start |-> clock, samples |-> none,
                     recalls |-> none, missed |-> 0, tears |-> 0]
      BY <2>2, <3>1 DEF IdleReport
    <3> QED
      BY <1>1, <3>1, <3>2, <3>3 DEF Drafts
  <2>4. ReportFine'
    BY <2>3 DEF ReportFine, SamplesFine
  <2>5. SnapshotFine'
    BY <1>1, <2>1, SnapshotStaysFine
  <2> QED
    BY <2>1, <2>4, <2>5, OnlyTheReport
<1>9. ASSUME ReadSamples PROVE FilesInv'
  <2>1. UNCHANGED <<clock, logVars, sampling, snapshot, attempts, log>>
    BY <1>9 DEF ReadSamples, logVars
  <2>2. PICK start \in Nat : start = report.start
    BY DEF FilesInv, ReportFine, Drafts
  <2>3. PICK ss \in Seq(SampleEvents) :
          ss = FromLog("tier0_sample", start) /\ SamplesFine(ss, start)
    BY FromLogFine
  <2>4. PICK had \in Int : /\ had = Missed("tier0_sample", start) /\ had >= 0
                           /\ had = LostOf(attempts, log, Asked("tier0_sample", start))
    BY MissedSamples
  <2>5. report' = [report EXCEPT !.stage = "samples", !.samples = ss, !.missed = had]
    BY <1>9, <2>2, <2>3, <2>4 DEF ReadSamples
  <2>6. report \in Drafts
    BY DEF FilesInv, ReportFine
  <2>7. /\ report' \in Drafts /\ report'.stage = "samples" /\ report'.samples = ss
        /\ report'.missed = had /\ report'.start = start
    BY <2>2, <2>5, <2>6 DEF Drafts
  <2>8. SamplesFine(ss, start)'
    BY <2>1, <2>3, FinePrimed
  <2>9. SamplesFine(report.samples, report.start)'
    BY <2>7, <2>8 DEF SamplesFine
  <2>10. Asked("tier0_sample", report.start)' = Asked("tier0_sample", start)
    BY <2>7 DEF Asked, Inside
  <2>11. ReportFine'
    BY <2>1, <2>4, <2>7, <2>9, <2>10 DEF ReportFine
  <2>12. SnapshotFine'
    BY <1>1, <2>1, SnapshotStaysFine
  <2> QED
    BY <2>1, <2>11, <2>12, OnlyTheReport
<1>10. ASSUME ReadRecalls PROVE FilesInv'
  <2>1. UNCHANGED <<clock, logVars, sampling, snapshot, attempts, log, tears>>
    BY <1>10 DEF ReadRecalls, logVars
  <2>2. PICK start \in Nat : start = report.start
    BY DEF FilesInv, ReportFine, Drafts
  <2>3. report \in Drafts /\ SamplesFine(report.samples, report.start) /\ tears \in Nat
    BY DEF FilesInv, ReportFine, FilesTyped
  <2>4. PICK had \in Int : /\ had = report.missed /\ had >= 0
                           /\ had <= LostOf(attempts, log, Asked("tier0_sample", start))
    BY <1>10, <2>2 DEF ReadRecalls, FilesInv, ReportFine, Drafts
  <2>5. PICK all \in 0 .. 2 * tears : all = had + Missed("recall_triggered", start)
    BY <2>4, MissedTogether
  <2>6. PICK rs \in Seq(Lines) : rs = FromLog("recall_triggered", start)
    BY <1>1, KeptTyped DEF FromLog
  <2>7. report' = [report EXCEPT !.stage = "burn", !.recalls = rs, !.missed = all, !.tears = tears]
    BY <1>10, <2>2, <2>4, <2>5, <2>6 DEF ReadRecalls
  <2>8. /\ report' \in Drafts /\ report'.stage = "burn" /\ report'.samples = report.samples
        /\ report'.missed = all /\ report'.start = report.start /\ report'.tears = tears
    <3>1. all \in Int /\ tears \in Nat
      BY <2>3
    <3>2. PICK r \in Drafts : r = report
      BY <2>3
    <3>3. report' = [stage |-> "burn", start |-> r.start, samples |-> r.samples,
                     recalls |-> rs, missed |-> all, tears |-> tears]
      BY <2>7, <3>2 DEF Drafts
    <3>4. /\ r.start \in Nat /\ r.samples \in Seq(SampleEvents)
      BY <3>2 DEF Drafts
    <3>5. report' \in Drafts
      BY <2>6, <3>1, <3>3, <3>4 DEF Drafts
    <3> QED
      BY <3>2, <3>3, <3>5
  <2>9. SamplesFine(report.samples, report.start)'
    BY <2>1, <2>3, <2>8 DEF SamplesFine
  <2>10. ReportFine'
    BY <2>5, <2>8, <2>9 DEF ReportFine
  <2>11. SnapshotFine'
    BY <1>1, <2>1, SnapshotStaysFine
  <2> QED
    BY <2>1, <2>10, <2>11, OnlyTheReport
<1>11. ASSUME Truncate PROVE FilesInv'
  <2>1. UNCHANGED <<clock, logVars, sampling, attempts>> /\ report.stage = "burn"
    BY <1>11 DEF Truncate, logVars
  <2>2. report \in Drafts /\ SamplesFine(report.samples, report.start)
        /\ report.missed \in 0 .. 2 * report.tears
    BY <2>1 DEF FilesInv, ReportFine
  <2>3. report' = [report EXCEPT !.stage = "writing"]
    BY <1>11 DEF Truncate
  <2>4. /\ report' \in Drafts /\ report'.stage = "writing" /\ report'.samples = report.samples
        /\ report'.missed = report.missed /\ report'.start = report.start
        /\ report'.tears = report.tears
    BY <2>2, <2>3 DEF Drafts
  <2>5. SamplesFine(report.samples, report.start)'
    BY <2>1, <2>2, <2>4 DEF SamplesFine
  <2>6. ReportFine'
    BY <2>2, <2>4, <2>5 DEF ReportFine
  <2>7. SnapshotFine'
    BY <1>11 DEF Truncate, SnapshotFine
  <2> QED
    BY <2>1, <2>6, <2>7, OnlyTheReport
<1>12. ASSUME WriteSnapshot PROVE FilesInv'
  <2>1. UNCHANGED <<clock, logVars, sampling, attempts>> /\ report.stage = "writing"
    BY <1>12 DEF WriteSnapshot, logVars
  <2>2. PICK r \in Drafts : /\ r = report /\ SamplesFine(r.samples, r.start)
                            /\ r.missed \in 0 .. 2 * r.tears
    BY <2>1 DEF FilesInv, ReportFine
  <2>3. snapshot' = SlaSnapshot(r) /\ report' = IdleReport
    BY <1>12, <2>2 DEF WriteSnapshot
  <2>4. SamplesFine(r.samples, r.start)'
    BY <2>1, <2>2, FinePrimed
  <2>5. SlaSnapshot(r)' = SlaSnapshot(r)
    OBVIOUS
  <2>6. SnapshotFine'
    BY <2>2, <2>3, <2>4, <2>5 DEF SnapshotFine
  <2>7. ReportFine'
    BY <2>3, IdleIsDraft DEF ReportFine, SamplesFine, IdleReport
  <2> QED
    BY <2>1, <2>6, <2>7, OnlyTheReport
<1>13. ASSUME ReportDies PROVE FilesInv'
  <2>1. UNCHANGED <<clock, logVars, sampling, attempts, snapshot>> /\ report' = IdleReport
    BY <1>13 DEF ReportDies, logVars
  <2>2. ReportFine'
    BY <2>1, IdleIsDraft DEF ReportFine, SamplesFine, IdleReport
  <2>3. SnapshotFine'
    BY <1>1, <2>1, SnapshotStaysFine
  <2> QED
    BY <2>1, <2>2, <2>3, OnlyTheReport
<1> QED
  BY <1>3, <1>4, <1>5, <1>6, <1>7, <1>8, <1>9, <1>10, <1>11, <1>12, <1>13 DEF ReportNext

LEMMA FilesInvStutter ==
    ASSUME FilesInv, UNCHANGED reportVars
    PROVE  FilesInv'
<1>1. UNCHANGED <<clock, log, open, sampling, report, snapshot, tears, attempts>>
  BY DEF reportVars
<1>2. LogOrdered' /\ clock \in Nat \ {0} /\ clock <= clock
  BY <1>1 DEF FilesInv, LogOrdered, FilesTyped
<1> QED
  BY <1>1, <1>2, FilesInvKept DEF FilesInv, FilesTyped
-----------------------------------------------------------------------------
\* What a snapshot says.
LEMMA ShareOfPart ==
    ASSUME NEW W, IsFiniteSet(W), W # {}, NEW part \in SUBSET W
    PROVE  /\ Share(part, W) = [hits |-> Cardinality(part), of |-> Cardinality(W)]
           /\ Cardinality(part) \in Nat /\ Cardinality(W) \in Nat \ {0}
           /\ Cardinality(part) = Cardinality(W) <=> part = W
           /\ Cardinality(W \ part) = Cardinality(W) - Cardinality(part)
           /\ \A more \in SUBSET W :
                part \subseteq more =>
                    Cardinality(part) * Cardinality(W) <= Cardinality(more) * Cardinality(W)
<1>1. PICK n \in Nat : n = Cardinality(W) /\ n > 0
  BY FS_EmptySet, FS_CardinalityType
<1>2. \A x \in SUBSET W : IsFiniteSet(x) /\ Cardinality(x) \in Nat
  BY FS_Subset, FS_CardinalityType
<1>3. Share(part, W) = [hits |-> Cardinality(part), of |-> Cardinality(W)]
  BY DEF Share
<1>4. Cardinality(part) = Cardinality(W) <=> part = W
  <2>1. part # W => Cardinality(part) < Cardinality(W)
    BY SubsetSizes
  <2> QED
    BY <1>1, <1>2, <2>1
<1>5. Cardinality(W \ part) = Cardinality(W) - Cardinality(part)
  <2>1. Cardinality(W \ part) = Cardinality(W) - Cardinality(W \cap part)
    BY <1>2, FS_Difference
  <2>2. W \cap part = part
    OBVIOUS
  <2> QED
    BY <2>1, <2>2
<1>6. ASSUME NEW more \in SUBSET W, part \subseteq more
      PROVE  Cardinality(part) * n <= Cardinality(more) * n
  <2>1. PICK c \in Nat, d \in Nat : c = Cardinality(part) /\ d = Cardinality(more) /\ c <= d
    BY <1>2, <1>6, SubsetSizes
  <2>2. c * n <= d * n
    BY <2>1, SMT
  <2> QED
    BY <2>1, <2>2
<1> QED
  BY <1>1, <1>2, <1>3, <1>4, <1>5, <1>6

\* A share shown as nothing, or as everything, is next to it.
LEMMA ShownIsNear ==
    ASSUME NEW c \in Nat, NEW n \in Nat \ {0}, NEW q, q = Shown([hits |-> c, of |-> n])
    PROVE  /\ q = 0 => 2 * Grain * c < n
           /\ q = Grain => 2 * Grain * (n - c) <= n
<1>1. PICK g \in Nat : g = Grain
  BY GrainAssumption
<1>2. PICK a \in Nat, b \in Nat : a = g * c /\ b = g * n
  BY SMT
<1>3. 2 * g * c = 2 * a /\ 2 * g * (n - c) = 2 * b - 2 * a
  BY <1>2, SMT
<1>4. PICK x \in Nat, y \in Nat \ {0} : x = 2 * a + n /\ y = 2 * n
  BY <1>2
<1>5. q = x \div y
  BY <1>1, <1>3, <1>4 DEF Shown
<1>6. q \in Int /\ q * y <= x /\ x < (q + 1) * y
  BY <1>4, <1>5, QuotientBounds
<1>7. q = 0 => 2 * a < n
  BY <1>4, <1>6
<1>8. q = g => 2 * b - 2 * a <= n
  <2>1. SUFFICES ASSUME q = g PROVE 2 * b - 2 * a <= n
    OBVIOUS
  <2>2. g * y = 2 * b
    BY <1>2, <1>4, SMT
  <2> QED
    BY <1>4, <1>6, <2>1, <2>2
<1> QED
  BY <1>1, <1>3, <1>7, <1>8

\* RoundNumbersAreNear, of a snapshot.
Near(s) ==
    s.series # <<>> =>
        LET all == DOMAIN s.samples
            hits == {i \in all : s.samples[i].balance >= s.samples[i].target}
        IN  /\ Shown(s.hitRate) = 0 => 2 * Grain * Cardinality(hits) < Cardinality(all)
            /\ Shown(s.hitRate) = Grain =>
                 2 * Grain * Cardinality(all \ hits) <= Cardinality(all)

\* A draft written out is a snapshot that is true.
LEMMA DraftsAreTrue ==
    ASSUME FilesInv, NEW r \in Drafts, SamplesFine(r.samples, r.start), r.missed \in 0 .. 2 * r.tears,
           NEW s, s = SlaSnapshot(r)
    PROVE  /\ CountsTheLog(s) /\ SharesAreRight(s) /\ SeriesSpans(s)
           /\ Near(s)
<1>1. PICK ss \in Seq(SampleEvents) : ss = r.samples
  BY DEF Drafts
<1>2. /\ s.samples = ss /\ s.windowStart = r.start - Window /\ s.missed = r.missed /\ s.tears = r.tears
      /\ s.hitRate = Tier0HitRate(ss) /\ s.uptime = AgentUptime(ss) /\ s.series = Tier0Series(ss)
  BY <1>1 DEF SlaSnapshot
<1>3. PICK n \in Nat : n = Len(ss) /\ DOMAIN ss = 1 .. n
  BY <1>1
<1>4. /\ \A i \in 1 .. n : ss[i] \in Range(attempts) /\ ss[i].at >= r.start - Window /\ ss[i].at <= clock
      /\ \A i \in 1 .. n, j \in 1 .. n : i < j => ss[i].at < ss[j].at
  BY <1>1, <1>3 DEF SamplesFine
<1>5. CountsTheLog(s)
  <2>1. \A i \in 1 .. n : i > 1 => i - 1 \in 1 .. n /\ i - 1 < i
    OBVIOUS
  <2> QED
    BY <1>2, <1>3, <1>4, <2>1 DEF CountsTheLog
<1>6. \A i \in 1 .. n : /\ ss[i].balance \in Int /\ ss[i].target \in Int
                        /\ (ss[i].floor # NoFloor => ss[i].floor \in Int)
  <2>1. \A i \in 1 .. n : ss[i] \in SampleEvents
    BY <1>3
  <2> QED
    BY <2>1, SampleAssumption DEF SampleEvents
<1>8. PICK W : W = DOMAIN ss
  OBVIOUS
<1>9. IsFiniteSet(W) /\ Cardinality(W) = n /\ W = 1 .. n
  <2>1. 1 \in Int /\ n \in Int
    OBVIOUS
  <2>2. IsFiniteSet(1 .. n) /\ Cardinality(1 .. n) = IF 1 > n THEN 0 ELSE n - 1 + 1
    BY <2>1, FS_Interval
  <2> QED
    BY <1>3, <1>8, <2>2
<1>10. PICK hits : hits = {i \in W : ss[i].balance >= ss[i].target}
  OBVIOUS
<1>11. s.hitRate = Share(hits, W) /\ hits \in SUBSET W
  BY <1>2, <1>8, <1>10 DEF Tier0HitRate
<1>12. Range(ss) = {ss[i] : i \in W}
  BY <1>8 DEF Range
<1>13. CASE ss = <<>>
  <2>1. n = 0 /\ W = {}
    BY <1>3, <1>9, <1>13
  <2>2. s.hitRate = [hits |-> 0, of |-> 1] /\ s.uptime = [hits |-> 0, of |-> 1]
    <3>1. s.uptime = Share({i \in {} : ss[i].balance >= ss[i].floor}, {})
      <4>1. {i \in DOMAIN ss : ss[i].floor # NoFloor} = {}
        BY <1>8, <2>1
      <4> QED
        BY <1>2, <4>1 DEF AgentUptime
    <3> QED
      BY <1>11, <2>1, <3>1 DEF Share
  <2>3. SharesAreRight(s)
    BY <1>2, <1>13, <2>2 DEF SharesAreRight
  <2>4. SeriesSpans(s)
    BY <1>2, <1>13 DEF SeriesSpans
  <2>5. s.series = <<>>
    <3>1. PICK t : t = Downsample(<<>>, MaxPoints)
      OBVIOUS
    <3>2. t = <<>>
      <4>1. Len(<<>>) <= MaxPoints
        BY SeriesAssumption
      <4> QED
        BY <3>1, <4>1 DEF Downsample
    <3>3. DOMAIN t = 1 .. 0
      BY <3>2
    <3> QED
      BY <1>2, <1>13, <3>1, <3>3 DEF Tier0Series
  <2> QED
    BY <1>5, <2>3, <2>4, <2>5 DEF Near
<1>14. CASE ss # <<>>
  <2>1. n # 0 /\ W # {}
    BY <1>3, <1>9, <1>14
  <2>2. PICK c \in Nat : c = Cardinality(hits) /\ s.hitRate = [hits |-> c, of |-> n]
    <3>1. /\ Cardinality(hits) \in Nat
          /\ Share(hits, W) = [hits |-> Cardinality(hits), of |-> Cardinality(W)]
      <4>1. IsFiniteSet(W) /\ W # {} /\ hits \in SUBSET W
        BY <1>9, <1>10, <2>1
      <4> QED
        BY <4>1, ShareOfPart
    <3>2. s.hitRate = [hits |-> Cardinality(hits), of |-> n]
      BY <1>9, <1>11, <3>1
    <3> QED
      BY <3>1, <3>2
  <2>3. s.hitRate.hits = s.hitRate.of <=> \A e \in Range(ss) : e.balance >= e.target
    <3>1. c = n <=> hits = W
      BY <1>9, <1>11, <2>1, <2>2, ShareOfPart
    <3>2. hits = W <=> \A e \in Range(ss) : e.balance >= e.target
      BY <1>10, <1>12
    <3> QED
      BY <2>2, <3>1, <3>2
  <2>4. Near(s)
    <3>1. Cardinality(W \ hits) = n - c
      BY <1>9, <1>11, <2>1, <2>2, ShareOfPart
    <3>2. n \in Nat \ {0}
      BY <2>1
    <3>3. /\ Shown(s.hitRate) = 0 => 2 * Grain * c < n
          /\ Shown(s.hitRate) = Grain => 2 * Grain * (n - c) <= n
      BY <2>2, <3>2, ShownIsNear
    <3>4. DOMAIN s.samples = W /\ hits = {i \in W : s.samples[i].balance >= s.samples[i].target}
      BY <1>2, <1>8, <1>10
    <3> QED
      BY <1>9, <2>2, <3>1, <3>3, <3>4 DEF Near
  <2>5. (\A e \in Range(ss) : e.floor # NoFloor /\ e.floor <= e.target)
          => s.hitRate.hits * s.uptime.of <= s.uptime.hits * s.hitRate.of
    <3>1. SUFFICES ASSUME \A e \in Range(ss) : e.floor # NoFloor /\ e.floor <= e.target
                   PROVE  s.hitRate.hits * s.uptime.of <= s.uptime.hits * s.hitRate.of
      OBVIOUS
    <3>2. \A i \in W : ss[i].floor # NoFloor /\ ss[i].floor <= ss[i].target
      BY <1>12, <3>1
    <3>3. {i \in DOMAIN ss : ss[i].floor # NoFloor} = W
      BY <1>8, <3>2
    <3>4. PICK up : up = {i \in W : ss[i].balance >= ss[i].floor}
      OBVIOUS
    <3>5. s.uptime = Share(up, W)
      BY <1>2, <3>3, <3>4 DEF AgentUptime
    <3>6. up \in SUBSET W /\ hits \subseteq up
      BY <1>6, <1>9, <1>10, <3>2, <3>4
    <3>7. PICK d \in Nat : d = Cardinality(up) /\ s.uptime = [hits |-> d, of |-> n]
      <4>1. IsFiniteSet(W) /\ W # {} /\ up \in SUBSET W
        BY <1>9, <2>1, <3>6
      <4>2. /\ Cardinality(up) \in Nat
            /\ Share(up, W) = [hits |-> Cardinality(up), of |-> Cardinality(W)]
        BY <4>1, ShareOfPart
      <4>3. s.uptime = [hits |-> Cardinality(up), of |-> n]
        BY <1>9, <3>5, <4>2
      <4> QED
        BY <4>2, <4>3
    <3>8. c * n <= d * n
      BY <1>9, <1>11, <2>1, <2>2, <3>6, <3>7, ShareOfPart
    <3> QED
      BY <2>2, <3>7, <3>8
  <2>6. SharesAreRight(s)
    BY <1>2, <1>14, <2>3, <2>5 DEF SharesAreRight
  <2>7. SeriesSpans(s)
    <3>1. PICK t : t = Downsample(ss, MaxPoints)
      OBVIOUS
    <3>2. /\ t \in Seq(SampleEvents) /\ Len(t) # 0
          /\ t[1] = ss[1] /\ t[Len(t)] = ss[Len(ss)]
      BY <1>14, <3>1, DownsampleShape, SeriesAssumption
    <3>3. PICK m \in Nat : m = Len(t) /\ DOMAIN t = 1 .. m /\ m # 0
      BY <3>2
    <3>4. PICK u : u = Tier0Series(ss) /\ u = [i \in 1 .. m |->
                     [at |-> t[i].at, balance |-> t[i].balance, target |-> t[i].target]]
      BY <3>1, <3>3 DEF Tier0Series
    <3>5. Len(u) = m /\ 1 \in 1 .. m /\ m \in 1 .. m
      BY <3>3, <3>4
    <3>6. u[1].at = ss[1].at /\ u[m].at = ss[n].at
      BY <1>3, <3>2, <3>3, <3>4, <3>5
    <3>7. Head(u) = u[1] /\ Last(u) = u[m] /\ Head(ss) = ss[1] /\ Last(ss) = ss[n]
      BY <1>3, <1>14, <3>4, <3>5 DEF Last
    <3> QED
      BY <1>2, <3>4, <3>6, <3>7 DEF SeriesSpans
  <2> QED
    BY <1>5, <2>4, <2>6, <2>7
<1> QED
  BY <1>13, <1>14

LEMMA SnapshotsAreTrue == FilesInv => SnapshotIsTrue
<1> SUFFICES ASSUME FilesInv PROVE SnapshotIsTrue
  OBVIOUS
<1>1. PICK s : s = ReadSlaSnapshot
  OBVIOUS
<1>2. CASE s = NoSnapshot
  <2>1. Panel.chart # "balance against target"
    BY <1>1, <1>2 DEF Panel
  <2> QED
    BY <1>1, <1>2, <2>1 DEF SnapshotIsTrue, RoundNumbersAreNear
<1>3. CASE s # NoSnapshot
  <2>1. snapshot = s /\ snapshot \notin {NoSnapshot, Torn}
    BY <1>1, <1>3 DEF ReadSlaSnapshot
  <2>2. PICK r \in Drafts : /\ s = SlaSnapshot(r) /\ SamplesFine(r.samples, r.start)
                            /\ r.missed \in 0 .. 2 * r.tears
    BY <2>1 DEF FilesInv, SnapshotFine
  <2>3. /\ CountsTheLog(s) /\ SharesAreRight(s) /\ SeriesSpans(s)
        /\ Near(s)
    BY <2>2, DraftsAreTrue
  <2>4. Panel.hitRate = Shown(s.hitRate) /\ Panel.chart = Tier0Chart(s.series)
    BY <1>1, <1>3 DEF Panel
  <2>5. Panel.chart = "balance against target" => s.series # <<>>
    BY <2>4 DEF Tier0Chart
  <2>6. RoundNumbersAreNear
    BY <2>1, <2>3, <2>4, <2>5 DEF Near, RoundNumbersAreNear
  <2> QED
    BY <1>1, <2>3, <2>6 DEF SnapshotIsTrue
<1> QED
  BY <1>2, <1>3

-----------------------------------------------------------------------------
\* Whatever the burns, whichever appends were cut short, and however the three
\* processes interleave over the two files: what the reporter publishes of the
\* model's errors, the latencies, the series and the samples is what it says it is,
\* and a hit rate the panel rounds to nothing, or to everything, is within half a step
\* of it (reporter.ts, SlaTelemetryPanel.tsx).
THEOREM ReportsAreHonest == ReportSpec => []ReportIsHonest
<1>1. Init /\ ReportInit => ForecastInv /\ FilesInv
  BY ForecastInvInit, FilesInvInit
<1>2. ForecastInv /\ FilesInv /\ [EitherNext]_bothVars => (ForecastInv /\ FilesInv)'
  <2> SUFFICES ASSUME ForecastInv, FilesInv, [EitherNext]_bothVars
               PROVE  ForecastInv' /\ FilesInv'
    OBVIOUS
  <2>1. [Next]_vars
    BY DEF EitherNext, bothVars
  <2>2. ReportNext \/ UNCHANGED reportVars
    BY DEF EitherNext, bothVars
  <2> QED
    BY <2>1, <2>2, ForecastInvNext, FilesInvStep, FilesInvStutter
<1>3. ForecastInv /\ FilesInv => ReportIsHonest
  BY StatisticsTrue, SnapshotsAreTrue DEF ForecastInv, ReportIsHonest
<1> QED
  BY <1>1, <1>2, <1>3, PTL DEF ReportSpec
=============================================================================
