-------------------------- MODULE LinkQualityProofs --------------------------
(***************************************************************************)
(* Proofs about LinkQuality for any set of neighbours and devices, any     *)
(* timeouts with a refresh interval of at least the retry timeout, and any *)
(* interleaving of the tick with its refreshes, pings and the shutdown.    *)
(***************************************************************************)
EXTENDS LinkQuality, FiniteSetTheorems, TLAPS

USE DEF vars

LEMMA ConstantTypes ==
    /\ IsFiniteSet(Mac) /\ Supported \subseteq Device
    /\ RefreshBase \in Nat /\ RefreshRetry \in Nat /\ RefreshRange \in Nat
    /\ RefreshRetry > 0 /\ RefreshBase >= RefreshRetry
    /\ PingLimit \in Nat /\ HttpLimit \in Nat /\ PingLimit > 0 /\ HttpLimit > 0
    /\ LastSeenTimeout \in Nat /\ LastUpMargin \in Nat /\ MaxTime \in Nat /\ MaxTime > 0 /\ MaxRoutes \in Nat
    /\ Full \in Nat /\ Penalty \in Nat /\ Full >= Penalty /\ Penalty > 1
    /\ Delivered \subseteq 0 .. Full /\ Metrics \subseteq Nat
  BY LinkQualityAssumption

-----------------------------------------------------------------------------
(* Qualities stay between zero and the best.                               *)

LEMMA ClampType == ASSUME NEW q \in Nat PROVE Clamp(q) \in 0 .. Full
  <1>1. \E x \in {Full, q} : \A y \in {Full, q} : x =< y
    BY ConstantTypes
  <1>2. Min({Full, q}) \in {Full, q} /\ Min({Full, q}) <= Full
    BY <1>1, ConstantTypes DEF Min
  <1> QED BY <1>2, ConstantTypes DEF Clamp

LEMMA PingedType ==
  ASSUME NEW q \in 0 .. Full, NEW success \in BOOLEAN
  PROVE  Pinged(q, success) \in 0 .. Full
  <1>1. CASE success
    BY <1>1, ClampType, ConstantTypes DEF Pinged
  <1>2. CASE ~success
    BY <1>2, ConstantTypes DEF Pinged
  <1> QED BY <1>1, <1>2

LEMMA QualityType ==
  ASSUME NEW tx \in 0 .. Full, NEW ping \in 0 .. Full
  PROVE  QualityOf(tx, ping) \in (0 .. Full) \cup {Nil}
  BY ConstantTypes DEF QualityOf, Nil

-----------------------------------------------------------------------------
(* Types.                                                                  *)

TrackersOK == DOMAIN trackers \subseteq Mac /\ \A m \in DOMAIN trackers : trackers[m] \in Tracker

\* Pings are under way in updateTrackingState only, which waits for them.
PingShape == pc # "ping" => toPing = {} /\ DOMAIN pinging = {}

\* A tracker counts routes of the dump that is being read.
RouteShape ==
    /\ pc # "lines" => dump = Zero
    /\ dump.nodes <= dump.routes
    /\ pc = "lines" => \A m \in DOMAIN trackers : /\ trackers[m].BabelRouteCount <= dump.routes
                                                  /\ trackers[m].NodeRouteCount <= dump.nodes

TypeInv == TypeOK /\ PingShape /\ RouteShape

LEMMA TimeType ==
  ASSUME now \in 1 .. MaxTime
  PROVE  /\ now \in Time /\ 0 \in Time /\ now + RefreshRetry \in Time
         /\ \A jitter \in 0 .. RefreshRange : now + RefreshBase + jitter \in Time
  BY ConstantTypes DEF Time

LEMMA InitTypeInv == Init => TypeInv
  <1> SUFFICES ASSUME Init PROVE TypeInv
    OBVIOUS
  <1>1. DOMAIN trackers = {} /\ DOMAIN pinging = {}
    BY DEF Init
  <1>2. Cardinality({}) = 0
    BY FS_EmptySet
  <1>3. Zero \in [routes : 0 .. MaxRoutes, nodes : 0 .. MaxRoutes] /\ Zero.nodes <= Zero.routes
    BY ConstantTypes DEF Zero
  <1>4. TypeOK
    BY <1>1, <1>2, <1>3, ConstantTypes DEF Init, TypeOK, Range
  <1>5. PingShape /\ RouteShape
    BY <1>1, <1>3 DEF Init, PingShape, RouteShape
  <1> QED BY <1>4, <1>5 DEF TypeInv

\* The steps that leave the trackers alone.
LEMMA ControlType ==
  ASSUME TypeInv,
         \/ Start \/ Stop \/ StopReturn \/ runTick \/ runEnd \/ neighborsHang \/ routesFail
         \/ snapshotTrackers \/ pingsDone \/ writeState \/ Elapse
  PROVE  TypeInv'
  <1> USE DEF TypeInv, TypeOK, PingShape, RouteShape, BeginTick
  <1>1. CASE Start \/ runTick
    BY <1>1 DEF Start, runTick
  <1>2. CASE Stop \/ StopReturn
    BY <1>2 DEF Stop, StopReturn
  <1>3. CASE runEnd \/ neighborsHang \/ routesFail
    BY <1>3 DEF runEnd, neighborsHang, routesFail
  <1>4. CASE snapshotTrackers
    BY <1>4 DEF snapshotTrackers
  <1>5. CASE pingsDone
    BY <1>5 DEF pingsDone
  <1>6. CASE writeState
    BY <1>6 DEF writeState
  <1>7. CASE Elapse
    BY <1>7, ConstantTypes DEF Elapse
  <1> QED BY <1>1, <1>2, <1>3, <1>4, <1>5, <1>6, <1>7

\* The steps that change trackers and nothing a type depends on beside them.
LEMMA TrackersType ==
  ASSUME TypeInv, TrackersOK', DOMAIN trackers \subseteq DOMAIN trackers',
         pc' \in {"start", "neighbors", "hung", "routes", "lines", "stats", "averages", "refresh",
                  "snapshot", "ping", "prune", "write", "sleep", "blocked"},
         pc' # "ping" => pc # "ping", listed' \subseteq Mac, refreshes' \subseteq Refreshing,
         UNCHANGED <<now, tickStart, lastTick, dump, totals, toPing, stopPc>>,
         DOMAIN pinging' \subseteq DOMAIN pinging,
         \A m \in DOMAIN pinging' : pinging'[m] \in {"ping", "quality"},
         pc # "lines", pc' # "lines"
  PROVE  TypeInv'
  <1>1. IsFiniteSet(DOMAIN pinging) /\ DOMAIN pinging \subseteq Mac
    BY ConstantTypes, FS_Subset DEF TypeInv, TypeOK
  <1>2. IsFiniteSet(DOMAIN pinging') /\ Cardinality(DOMAIN pinging') <= Cardinality(DOMAIN pinging)
    BY <1>1, FS_Subset
  <1>3. /\ Cardinality(DOMAIN pinging) \in Nat /\ Cardinality(DOMAIN pinging') \in Nat
        /\ Cardinality(DOMAIN pinging) <= PingLimit
    BY <1>1, <1>2, FS_CardinalityType DEF TypeInv, TypeOK
  <1>4. Cardinality(DOMAIN pinging') <= PingLimit
    BY <1>2, <1>3, ConstantTypes
  <1>5. Range(pinging') \subseteq {"ping", "quality"}
    BY DEF Range
  <1>6. TypeOK'
    BY <1>4, <1>5 DEF TypeInv, TypeOK, TrackersOK
  <1>7. PingShape' /\ RouteShape'
    BY DEF TypeInv, PingShape, RouteShape
  <1> QED BY <1>6, <1>7 DEF TypeInv

LEMMA NewTrackerType == ASSUME now \in 1 .. MaxTime, NEW d \in Supported PROVE NewTracker(d) \in Tracker
  BY TimeType, ConstantTypes DEF NewTracker, Tracker

LEMMA NeighborsType == ASSUME TypeInv, updateNeighbors PROVE TypeInv'
  <1>0. PICK ms \in SUBSET Mac : \E on \in [ms -> Device] :
          /\ listed' = {m \in ms : on[m] \in Supported}
          /\ trackers' = [m \in DOMAIN trackers \cup listed' |->
                            IF m \in listed' THEN Seen(m, on[m]) ELSE trackers[m]]
    BY DEF updateNeighbors
  <1>1. PICK on \in [ms -> Device] :
          /\ listed' = {m \in ms : on[m] \in Supported}
          /\ trackers' = [m \in DOMAIN trackers \cup listed' |->
                            IF m \in listed' THEN Seen(m, on[m]) ELSE trackers[m]]
    BY <1>0
  <1>2. now \in 1 .. MaxTime /\ now \in Time
    BY TimeType DEF TypeInv, TypeOK
  <1>3. ASSUME NEW m \in listed' PROVE Seen(m, on[m]) \in Tracker
    <2>1. CASE m \in DOMAIN trackers
      BY <1>2, <2>1 DEF Seen, TypeInv, TypeOK, Tracker
    <2>2. CASE m \notin DOMAIN trackers
      BY <1>1, <1>2, <1>3, <2>2, NewTrackerType DEF Seen
    <2> QED BY <2>1, <2>2
  <1>4. TrackersOK' /\ DOMAIN trackers \subseteq DOMAIN trackers' /\ listed' \subseteq Mac
    BY <1>1, <1>3 DEF TrackersOK, TypeInv, TypeOK
  <1> QED BY <1>4, TrackersType DEF updateNeighbors, TypeInv, TypeOK, Range

LEMMA StatsType == ASSUME TypeInv, updateStats PROVE TypeInv'
  <1>1. TrackersOK' /\ DOMAIN trackers' = DOMAIN trackers
    BY DEF updateStats, TrackersOK, TypeInv, TypeOK, Tracker
  <1> QED BY <1>1, TrackersType DEF updateStats, TypeInv, TypeOK, Range

LEMMA AveragesType == ASSUME TypeInv, updateRunningAverages PROVE TypeInv'
  <1>1. PICK q \in [DOMAIN trackers -> Delivered] :
          trackers' = [m \in DOMAIN trackers |-> Averaged(trackers[m], q[m])]
    BY DEF updateRunningAverages
  <1>2. ASSUME NEW t \in Tracker, NEW e \in 0 .. Full PROVE Averaged(t, e) \in Tracker
    BY DEF Averaged, Tracker
  <1>3. TrackersOK' /\ DOMAIN trackers' = DOMAIN trackers
    BY <1>1, <1>2, ConstantTypes DEF TrackersOK, TypeInv, TypeOK
  <1> QED BY <1>3, TrackersType DEF updateRunningAverages, TypeInv, TypeOK, Range

LEMMA MaxInt32Type == MaxInt32 \in Nat
  BY SMT DEF MaxInt32

LEMMA ResetType == ASSUME TypeInv, routesReset PROVE TypeInv'
  <1>1. ASSUME NEW t \in Tracker
        PROVE  [t EXCEPT !.NodeRouteCount = 0, !.BabelRouteCount = 0, !.BabelMetric = MaxInt32] \in Tracker
    <2>1. 0 \in 0 .. MaxRoutes
      BY ConstantTypes
    <2> QED BY <2>1, MaxInt32Type DEF Tracker
  <1>2. \A m \in DOMAIN trackers : trackers[m] \in Tracker
    BY DEF TypeInv, TypeOK
  <1>3. DOMAIN trackers' = DOMAIN trackers /\ \A m \in DOMAIN trackers' : trackers'[m] \in Tracker
    BY <1>1, <1>2 DEF routesReset
  <1>4. TypeOK'
    BY <1>3 DEF TypeInv, TypeOK, routesReset
  <1>5. \A m \in DOMAIN trackers' : trackers'[m].NodeRouteCount = 0 /\ trackers'[m].BabelRouteCount = 0
    BY <1>2 DEF routesReset, Tracker
  <1>6. dump' = Zero /\ Zero.routes = 0 /\ Zero.nodes = 0
    BY DEF TypeInv, RouteShape, routesReset, Zero
  <1>7. PingShape' /\ RouteShape'
    BY <1>5, <1>6 DEF TypeInv, PingShape, RouteShape, routesReset
  <1> QED BY <1>4, <1>7 DEF TypeInv

LEMMA LineType == ASSUME TypeInv, routesLine PROVE TypeInv'
  <1>1. PICK via \in DOMAIN trackers \cup {None}, isNode \in BOOLEAN, metric \in Metrics :
          LET one == IF isNode /\ via # None THEN 1 ELSE 0
          IN  /\ dump' = [routes |-> dump.routes + 1, nodes |-> dump.nodes + one]
              /\ trackers' = [m \in DOMAIN trackers |-> IF m # via THEN trackers[m] ELSE
                   [trackers[m] EXCEPT
                      !.BabelRouteCount = @ + 1,
                      !.NodeRouteCount = @ + one,
                      !.BabelMetric = IF metric < @ THEN metric ELSE @]]
    BY DEF routesLine
  <1> DEFINE one == IF isNode /\ via # None THEN 1 ELSE 0
  <1>2. one \in {0, 1}
    OBVIOUS
  <1>3. /\ dump' = [routes |-> dump.routes + 1, nodes |-> dump.nodes + one]
        /\ trackers' = [m \in DOMAIN trackers |-> IF m # via THEN trackers[m] ELSE
                   [trackers[m] EXCEPT
                      !.BabelRouteCount = @ + 1,
                      !.NodeRouteCount = @ + one,
                      !.BabelMetric = IF metric < @ THEN metric ELSE @]]
    BY <1>1
  <1> HIDE DEF one
  <1>4. /\ dump.routes \in Nat /\ dump.nodes \in Nat /\ dump.nodes <= dump.routes
        /\ dump.routes < MaxRoutes /\ metric \in Nat
    <2>1. dump \in [routes : 0 .. MaxRoutes, nodes : 0 .. MaxRoutes]
      BY DEF TypeInv, TypeOK
    <2>2. dump.routes \in Nat /\ dump.nodes \in Nat
      BY <2>1, ConstantTypes
    <2>3. dump.nodes <= dump.routes /\ dump.routes < MaxRoutes
      BY DEF TypeInv, RouteShape, routesLine
    <2>4. metric \in Nat
      BY ConstantTypes
    <2> QED BY <2>2, <2>3, <2>4
  <1>a. dump' = [routes |-> dump.routes + 1, nodes |-> dump.nodes + one]
    BY <1>3
  <1>5. dump' \in [routes : 0 .. MaxRoutes, nodes : 0 .. MaxRoutes] /\ dump'.nodes <= dump'.routes
    <2>1. dump.routes + 1 \in 0 .. MaxRoutes /\ dump.nodes + one \in 0 .. MaxRoutes
      BY <1>2, <1>4, ConstantTypes
    <2>2. dump.nodes + one <= dump.routes + 1
      BY <1>2, <1>4
    <2> QED BY <1>a, <2>1, <2>2
  <1>6. ASSUME NEW m \in DOMAIN trackers
        PROVE  /\ trackers'[m] \in Tracker
               /\ trackers'[m].BabelRouteCount <= dump'.routes
               /\ trackers'[m].NodeRouteCount <= dump'.nodes
    <2>1. /\ trackers[m] \in Tracker /\ trackers[m].BabelRouteCount <= dump.routes
          /\ trackers[m].NodeRouteCount <= dump.nodes
      BY <1>6 DEF TypeInv, TypeOK, RouteShape, routesLine
    <2>2. /\ trackers[m].BabelRouteCount \in Nat /\ trackers[m].NodeRouteCount \in Nat
          /\ trackers[m].BabelMetric \in Nat
      BY <2>1, ConstantTypes DEF Tracker
    <2>3. CASE m # via
      <3>1. trackers'[m] = trackers[m]
        BY <1>3, <1>6, <2>3
      <3> QED BY <1>2, <1>a, <1>4, <2>1, <2>2, <3>1
    <2>4. CASE m = via
      <3>1. trackers'[m] = [trackers[m] EXCEPT
                      !.BabelRouteCount = @ + 1,
                      !.NodeRouteCount = @ + one,
                      !.BabelMetric = IF metric < @ THEN metric ELSE @]
        BY <1>3, <1>6, <2>4
      <3>2. /\ trackers'[m].BabelRouteCount = trackers[m].BabelRouteCount + 1
            /\ trackers'[m].NodeRouteCount = trackers[m].NodeRouteCount + one
        BY <2>1, <3>1 DEF Tracker
      <3>3. /\ trackers[m].BabelRouteCount + 1 \in 0 .. MaxRoutes
            /\ trackers[m].NodeRouteCount + one \in 0 .. MaxRoutes
            /\ (IF metric < trackers[m].BabelMetric THEN metric ELSE trackers[m].BabelMetric) \in Nat
        BY <1>2, <1>4, <2>1, <2>2, ConstantTypes
      <3>4. trackers'[m] \in Tracker
        BY <2>1, <3>1, <3>3 DEF Tracker
      <3> QED BY <1>2, <1>a, <1>4, <2>1, <2>2, <3>2, <3>4
    <2> QED BY <2>3, <2>4
  <1>7. DOMAIN trackers' = DOMAIN trackers
    BY <1>3
  <1>8. TypeOK'
    BY <1>5, <1>6, <1>7 DEF TypeInv, TypeOK, routesLine
  <1>9. PingShape' /\ RouteShape'
    BY <1>5, <1>6, <1>7 DEF TypeInv, PingShape, RouteShape, routesLine
  <1> QED BY <1>8, <1>9 DEF TypeInv

LEMMA EndType == ASSUME TypeInv, routesEnd PROVE TypeInv'
  <1>1. ASSUME NEW t \in Tracker
        PROVE  [t EXCEPT !.BabelMetric = IF @ = MaxInt32 THEN 0 ELSE @] \in Tracker
    BY DEF Tracker
  <1>2. DOMAIN trackers' = DOMAIN trackers /\ \A m \in DOMAIN trackers' : trackers'[m] \in Tracker
    BY <1>1 DEF TypeInv, TypeOK, routesEnd
  <1>3. Zero \in [routes : 0 .. MaxRoutes, nodes : 0 .. MaxRoutes] /\ Zero.nodes <= Zero.routes
    BY ConstantTypes DEF Zero
  <1>4. TypeOK'
    BY <1>2, <1>3 DEF TypeInv, TypeOK, routesEnd
  <1>5. PingShape' /\ RouteShape'
    BY <1>3 DEF TypeInv, PingShape, RouteShape, routesEnd
  <1> QED BY <1>4, <1>5 DEF TypeInv

LEMMA RemoteRefreshType == ASSUME TypeInv, remoteRefresh PROVE TypeInv'
  <1>1. now \in Time /\ now + RefreshRetry \in Time
    BY TimeType DEF TypeInv, TypeOK
  <1>2. ASSUME NEW t \in Tracker, NEW v \in BOOLEAN
        PROVE  [t EXCEPT !.Refresh = IF v THEN now + RefreshRetry ELSE @] \in Tracker
    BY <1>1 DEF Tracker
  <1>3. TrackersOK' /\ DOMAIN trackers' = DOMAIN trackers
    BY <1>2 DEF TrackersOK, TypeInv, TypeOK, remoteRefresh
  <1>4. \A m \in DOMAIN trackers : m \in Mac /\ trackers[m].FirstSeen \in Time
    BY DEF TypeInv, TypeOK, Tracker
  <1>5. Spawn \subseteq Refreshing
    BY <1>1, <1>4 DEF Spawn, Due, Refreshing
  <1>6. refreshes' \subseteq Refreshing
    BY <1>5 DEF TypeInv, TypeOK, remoteRefresh
  <1> QED BY <1>3, <1>6, TrackersType DEF remoteRefresh, TypeInv, TypeOK, Range

LEMMA AcquireHttpType == ASSUME TypeInv, NEW r \in refreshes, acquireHttp(r) PROVE TypeInv'
  <1>1. [r EXCEPT !.at = "get"] \in Refreshing
    BY DEF TypeInv, TypeOK, Refreshing
  <1>2. refreshes' \subseteq Refreshing
    BY <1>1 DEF TypeInv, TypeOK, acquireHttp
  <1> QED BY <1>2 DEF TypeInv, TypeOK, PingShape, RouteShape, acquireHttp

LEMMA RefreshTrackerType == ASSUME TypeInv, NEW r \in refreshes, refreshTracker(r) PROVE TypeInv'
  <1>1. refreshes' \subseteq Refreshing
    BY DEF TypeInv, TypeOK, refreshTracker
  <1>2. CASE UNCHANGED trackers
    BY <1>1, <1>2 DEF TypeInv, TypeOK, PingShape, RouteShape, refreshTracker
  <1>3. CASE \E jitter \in 0 .. RefreshRange :
                trackers' = [trackers EXCEPT ![r.mac].Refresh = now + RefreshBase + jitter]
    <2>1. PICK jitter \in 0 .. RefreshRange :
                trackers' = [trackers EXCEPT ![r.mac].Refresh = now + RefreshBase + jitter]
      BY <1>3
    <2>2. now + RefreshBase + jitter \in Time
      BY TimeType DEF TypeInv, TypeOK
    <2>3. DOMAIN trackers' = DOMAIN trackers
      BY <2>1
    <2>4. \A m \in DOMAIN trackers : /\ trackers'[m] \in Tracker
                                     /\ trackers'[m].BabelRouteCount = trackers[m].BabelRouteCount
                                     /\ trackers'[m].NodeRouteCount = trackers[m].NodeRouteCount
      BY <2>1, <2>2 DEF TypeInv, TypeOK, Tracker
    <2>5. TypeOK'
      BY <1>1, <2>3, <2>4 DEF TypeInv, TypeOK, refreshTracker
    <2>6. PingShape' /\ RouteShape'
      BY <2>3, <2>4 DEF TypeInv, PingShape, RouteShape, refreshTracker
    <2> QED BY <2>5, <2>6 DEF TypeInv
  <1> QED BY <1>2, <1>3 DEF refreshTracker

LEMMA AcquirePingType == ASSUME TypeInv, acquirePing PROVE TypeInv'
  <1>1. CASE UNCHANGED pinging /\ toPing' = {}
    BY <1>1 DEF TypeInv, TypeOK, PingShape, RouteShape, acquirePing
  <1>2. ASSUME NEW m \in toPing, Cardinality(DOMAIN pinging) < PingLimit, toPing' = toPing \ {m},
               pinging' = [k \in DOMAIN pinging \cup {m} |-> IF k = m THEN "ping" ELSE pinging[k]]
        PROVE  TypeInv'
    <2>1. IsFiniteSet(DOMAIN pinging)
      BY ConstantTypes, FS_Subset DEF TypeInv, TypeOK
    <2>2. DOMAIN pinging' = DOMAIN pinging \cup {m}
      BY <1>2
    <2>3. /\ Cardinality(DOMAIN pinging) \in Nat
          /\ \/ Cardinality(DOMAIN pinging') = Cardinality(DOMAIN pinging) + 1
             \/ Cardinality(DOMAIN pinging') = Cardinality(DOMAIN pinging)
      BY <2>1, <2>2, FS_CardinalityType, FS_AddElement
    <2>4. Cardinality(DOMAIN pinging') <= PingLimit
      BY <1>2, <2>3, ConstantTypes
    <2>5. Range(pinging') \subseteq {"ping", "quality"}
      BY <1>2, <2>2 DEF Range, TypeInv, TypeOK
    <2>6. TypeOK'
      BY <1>2, <2>2, <2>4, <2>5 DEF TypeInv, TypeOK, acquirePing
    <2>7. PingShape' /\ RouteShape'
      BY DEF TypeInv, PingShape, RouteShape, acquirePing
    <2> QED BY <2>6, <2>7 DEF TypeInv
  <1> QED BY <1>1, <1>2 DEF acquirePing

\* A ping changes the quality and the two times only.
LEMMA AfterPingType ==
  ASSUME NEW t \in Tracker, NEW success \in BOOLEAN, now \in Time
  PROVE  /\ AfterPing(t, success) \in Tracker
         /\ AfterPing(t, success).FirstSeen = t.FirstSeen
         /\ AfterPing(t, success).Refresh = t.Refresh
         /\ AfterPing(t, success).LastSeen = IF success THEN now ELSE t.LastSeen
         /\ AfterPing(t, success).LastUp =
                IF success /\ lastTick # 0 /\ t.LastSeen + LastUpMargin < lastTick
                THEN now ELSE t.LastUp
  <1> DEFINE up == IF success /\ lastTick # 0 /\ t.LastSeen + LastUpMargin < lastTick
                   THEN now ELSE t.LastUp
             seen == IF success THEN now ELSE t.LastSeen
             quality == Pinged(t.PingQuality, success)
  <1>1. quality \in 0 .. Full
    BY PingedType DEF Tracker
  <1>2. up \in Time /\ seen \in Time
    BY DEF Tracker
  <1>3. AfterPing(t, success) = [t EXCEPT !.PingQuality = quality, !.LastUp = up, !.LastSeen = seen]
    BY DEF AfterPing
  <1> HIDE DEF up, seen, quality
  <1>4. /\ AfterPing(t, success) \in Tracker
        /\ AfterPing(t, success).FirstSeen = t.FirstSeen
        /\ AfterPing(t, success).Refresh = t.Refresh
        /\ AfterPing(t, success).LastSeen = seen
        /\ AfterPing(t, success).LastUp = up
    BY <1>1, <1>2, <1>3 DEF Tracker
  <1> QED BY <1>4 DEF up, seen

LEMMA PingTrackerType == ASSUME TypeInv, NEW m \in DOMAIN pinging, pingTracker(m) PROVE TypeInv'
  <1>1. m \in DOMAIN trackers /\ trackers[m] \in Tracker /\ pc = "ping" /\ now \in Time
    BY TimeType DEF TypeInv, TypeOK, PingShape
  <1>2. PICK success \in BOOLEAN : trackers' = [trackers EXCEPT ![m] = AfterPing(trackers[m], success)]
    BY DEF pingTracker
  <1>3. AfterPing(trackers[m], success) \in Tracker
    BY <1>1, AfterPingType
  <1>4. TrackersOK' /\ DOMAIN trackers' = DOMAIN trackers
    BY <1>1, <1>2, <1>3 DEF TrackersOK, TypeInv, TypeOK
  <1>5. /\ DOMAIN pinging' = DOMAIN pinging
        /\ \A k \in DOMAIN pinging' : pinging'[k] \in {"ping", "quality"}
    BY DEF pingTracker, TypeInv, TypeOK, Range
  <1> QED BY <1>1, <1>4, <1>5, TrackersType DEF pingTracker, TypeInv, TypeOK

LEMMA CalculateQualityType == ASSUME TypeInv, NEW m \in DOMAIN pinging, calculateQuality(m) PROVE TypeInv'
  <1>1. m \in DOMAIN trackers /\ trackers[m] \in Tracker /\ pc = "ping"
    BY DEF TypeInv, TypeOK, PingShape
  <1>2. QualityOf(trackers[m].TxQuality, trackers[m].PingQuality) \in (0 .. Full) \cup {Nil}
    BY <1>1, QualityType DEF Tracker
  <1>3. TrackersOK' /\ DOMAIN trackers' = DOMAIN trackers
    BY <1>1, <1>2 DEF calculateQuality, TrackersOK, TypeInv, TypeOK, Tracker
  <1>4. /\ DOMAIN pinging' \subseteq DOMAIN pinging
        /\ \A k \in DOMAIN pinging' : pinging'[k] \in {"ping", "quality"}
    BY DEF calculateQuality, Restrict, TypeInv, TypeOK, Range
  <1> QED BY <1>1, <1>3, <1>4, TrackersType DEF calculateQuality, TypeInv, TypeOK

LEMMA PruneType == ASSUME TypeInv, pruneTrackers PROVE TypeInv'
  <1>1. /\ DOMAIN trackers' \subseteq DOMAIN trackers
        /\ \A m \in DOMAIN trackers' : trackers'[m] = trackers[m]
    BY DEF pruneTrackers, Restrict
  <1>2. toPing = {} /\ DOMAIN pinging = {}
    BY DEF pruneTrackers, TypeInv, PingShape
  <1>3. TypeOK'
    BY <1>1, <1>2 DEF pruneTrackers, TypeInv, TypeOK
  <1>4. PingShape' /\ RouteShape'
    BY DEF pruneTrackers, TypeInv, PingShape, RouteShape
  <1> QED BY <1>3, <1>4 DEF TypeInv

LEMMA NextTypeInv == TypeInv /\ [Next]_vars => TypeInv'
  <1> SUFFICES ASSUME TypeInv, [Next]_vars PROVE TypeInv'
    OBVIOUS
  <1>1. CASE Run
    BY <1>1, ControlType, NeighborsType, ResetType, EndType, StatsType, AveragesType,
       RemoteRefreshType, AcquirePingType, PruneType DEF Run
  <1>2. CASE routesLine \/ neighborsHang \/ Stop \/ StopReturn \/ Elapse
    BY <1>2, ControlType, LineType
  <1>3. CASE \E m \in DOMAIN pinging : Ping(m)
    BY <1>3, PingTrackerType, CalculateQualityType DEF Ping
  <1>4. CASE \E r \in refreshes : acquireHttp(r) \/ refreshTracker(r)
    BY <1>4, AcquireHttpType, RefreshTrackerType
  <1>5. CASE UNCHANGED vars
    BY <1>5 DEF TypeInv, TypeOK, PingShape, RouteShape
  <1> QED BY <1>1, <1>2, <1>3, <1>4, <1>5 DEF Next

\* TypeOK holds in every reachable state: no more than PingLimit pings run at
\* once, each for a tracker that is still in the map, and a tracker never counts
\* more routes than the dump had (updateTrackingState, updateRoutes).
THEOREM Types == Spec => []TypeOK
  <1>1. TypeInv => TypeOK
    BY DEF TypeInv
  <1> QED BY <1>1, InitTypeInv, NextTypeInv, PTL DEF Spec

-----------------------------------------------------------------------------
(* A stop is final.  The invariant is inductive as it stands: a Start that *)
(* follows a Stop blocks, and StopReturn waits for one that came before.   *)

\* StopIsFinal: after Stop has returned the goroutine of Start is in no tick,
\* whatever the registry calls (Start, Stop, run).
THEOREM Stopped == Spec => []StopIsFinal
  <1>1. Init => StopIsFinal
    BY DEF Init, StopIsFinal
  <1>2. StopIsFinal /\ [Next]_vars => StopIsFinal'
    <2> SUFFICES ASSUME StopIsFinal, [Next]_vars PROVE StopIsFinal'
      OBVIOUS
    <2> USE DEF StopIsFinal, stopping
    <2>1. CASE Run
      BY <2>1 DEF Run, Start, runTick, runEnd, updateNeighbors, routesFail, routesReset, routesEnd,
           updateStats, updateRunningAverages, remoteRefresh, snapshotTrackers, acquirePing,
           pingsDone, pruneTrackers, writeState
    <2>2. CASE routesLine \/ neighborsHang \/ Stop \/ StopReturn \/ Elapse
      BY <2>2 DEF routesLine, neighborsHang, Stop, StopReturn, Counted, Elapse
    <2>3. CASE \E m \in DOMAIN pinging : Ping(m)
      BY <2>3 DEF Ping, pingTracker, calculateQuality
    <2>4. CASE \E r \in refreshes : acquireHttp(r) \/ refreshTracker(r)
      BY <2>4 DEF acquireHttp, refreshTracker
    <2>5. CASE UNCHANGED vars
      BY <2>5
    <2> QED BY <2>1, <2>2, <2>3, <2>4, <2>5 DEF Next
  <1> QED BY <1>1, <1>2, PTL DEF Spec

-----------------------------------------------------------------------------
(* What a step does to the times of a tracker that is there before and     *)
(* after it.                                                               *)

\* FirstSeen stays, LastSeen moves to the clock only, Refresh only to what
\* remoteRefresh or a refresh sets.
TimesKept(m) ==
    /\ trackers'[m].FirstSeen = trackers[m].FirstSeen
    /\ trackers'[m].LastSeen \in {trackers[m].LastSeen, now}
    /\ \/ trackers'[m].Refresh = trackers[m].Refresh
       \/ trackers'[m].Refresh >= now + RefreshRetry
    /\ pc = "refresh" /\ pc' = "snapshot" /\ m \in Due => trackers'[m].Refresh = now + RefreshRetry

\* LastUp moves only for a tracker of which nothing was heard since the last tick.
UpKept(m) ==
    \/ trackers'[m].LastUp = trackers[m].LastUp
    \/ trackers[m].LastSeen + LastUpMargin < lastTick

LEMMA TimesOnPing ==
  ASSUME TypeInv, NEW k \in DOMAIN pinging, Ping(k)
  PROVE  \A m \in DOMAIN trackers : TimesKept(m) /\ UpKept(m)
  <1>1. k \in DOMAIN trackers /\ trackers[k] \in Tracker /\ pc = "ping" /\ now \in Time
    BY TimeType DEF TypeInv, TypeOK, PingShape
  <1>2. CASE pingTracker(k)
    <2>1. PICK success \in BOOLEAN : trackers' = [trackers EXCEPT ![k] = AfterPing(trackers[k], success)]
      BY <1>2 DEF pingTracker
    <2>2. \A m \in DOMAIN trackers : m # k => trackers'[m] = trackers[m]
      BY <2>1
    <2>3. trackers'[k] = AfterPing(trackers[k], success)
      BY <1>1, <2>1
    <2>4. TimesKept(k) /\ UpKept(k)
      BY <1>1, <2>3, AfterPingType DEF TimesKept, UpKept
    <2> QED BY <1>1, <2>2, <2>4 DEF TimesKept, UpKept
  <1>3. CASE calculateQuality(k)
    <2>1. \A m \in DOMAIN trackers :
              /\ trackers'[m].FirstSeen = trackers[m].FirstSeen
              /\ trackers'[m].LastSeen = trackers[m].LastSeen
              /\ trackers'[m].LastUp = trackers[m].LastUp
              /\ trackers'[m].Refresh = trackers[m].Refresh
      BY <1>1, <1>3 DEF calculateQuality, TypeInv, TypeOK, Tracker
    <2> QED BY <1>1, <2>1 DEF TimesKept, UpKept
  <1> QED BY <1>2, <1>3 DEF Ping

LEMMA TimesOnRefresh ==
  ASSUME TypeInv, remoteRefresh \/ \E r \in refreshes : acquireHttp(r) \/ refreshTracker(r)
  PROVE  /\ DOMAIN trackers' = DOMAIN trackers
         /\ \A m \in DOMAIN trackers : TimesKept(m) /\ UpKept(m)
  <1>1. now \in Nat /\ \A m \in DOMAIN trackers : trackers[m] \in Tracker
    BY ConstantTypes DEF TypeInv, TypeOK
  <1>2. CASE remoteRefresh
    <2>1. DOMAIN trackers' = DOMAIN trackers
      BY <1>2 DEF remoteRefresh
    <2>2. \A m \in DOMAIN trackers :
              /\ trackers'[m].FirstSeen = trackers[m].FirstSeen
              /\ trackers'[m].LastSeen = trackers[m].LastSeen
              /\ trackers'[m].LastUp = trackers[m].LastUp
              /\ m \notin Due => trackers'[m].Refresh = trackers[m].Refresh
              /\ m \in Due => trackers'[m].Refresh = now + RefreshRetry
      BY <1>1, <1>2 DEF remoteRefresh, Tracker
    <2> QED BY <1>1, <2>1, <2>2, ConstantTypes DEF TimesKept, UpKept
  <1>3. ASSUME NEW r \in refreshes, acquireHttp(r) \/ refreshTracker(r), UNCHANGED trackers
        PROVE  \A m \in DOMAIN trackers : TimesKept(m) /\ UpKept(m)
    BY <1>3 DEF acquireHttp, refreshTracker, TimesKept, UpKept
  <1>4. ASSUME NEW r \in refreshes, refreshTracker(r), NEW jitter \in 0 .. RefreshRange,
               trackers' = [trackers EXCEPT ![r.mac].Refresh = now + RefreshBase + jitter]
        PROVE  \A m \in DOMAIN trackers : TimesKept(m) /\ UpKept(m)
    <2>1. now + RefreshBase + jitter >= now + RefreshRetry
      BY <1>1, ConstantTypes
    <2>2. \A m \in DOMAIN trackers :
              /\ trackers'[m].FirstSeen = trackers[m].FirstSeen
              /\ trackers'[m].LastSeen = trackers[m].LastSeen
              /\ trackers'[m].LastUp = trackers[m].LastUp
              /\ trackers'[m].Refresh \in {trackers[m].Refresh, now + RefreshBase + jitter}
      BY <1>1, <1>4 DEF Tracker
    <2>3. pc' = pc
      BY <1>4 DEF refreshTracker
    <2> QED BY <2>1, <2>2, <2>3 DEF TimesKept, UpKept
  <1> QED BY <1>2, <1>3, <1>4 DEF acquireHttp, refreshTracker

LEMMA TimesOnDump ==
  ASSUME TypeInv, routesReset \/ routesLine \/ routesEnd \/ updateStats \/ updateRunningAverages
  PROVE  /\ DOMAIN trackers' = DOMAIN trackers
         /\ \A m \in DOMAIN trackers : TimesKept(m) /\ UpKept(m)
  <1>1. \A m \in DOMAIN trackers : trackers[m] \in Tracker
    BY DEF TypeInv, TypeOK
  <1> DEFINE Kept(m) == /\ trackers'[m].FirstSeen = trackers[m].FirstSeen
                        /\ trackers'[m].LastSeen = trackers[m].LastSeen
                        /\ trackers'[m].LastUp = trackers[m].LastUp
                        /\ trackers'[m].Refresh = trackers[m].Refresh
  <1>2. DOMAIN trackers' = DOMAIN trackers
    BY DEF routesReset, routesLine, routesEnd, updateStats, updateRunningAverages
  <1>3. CASE routesReset
    BY <1>1, <1>2, <1>3 DEF routesReset, Tracker, TimesKept, UpKept
  <1>4. CASE routesLine
    <2>1. PICK via \in DOMAIN trackers \cup {None}, isNode \in BOOLEAN, metric \in Metrics :
          LET one == IF isNode /\ via # None THEN 1 ELSE 0
          IN  /\ dump' = [routes |-> dump.routes + 1, nodes |-> dump.nodes + one]
              /\ trackers' = [m \in DOMAIN trackers |-> IF m # via THEN trackers[m] ELSE
                   [trackers[m] EXCEPT
                      !.BabelRouteCount = @ + 1,
                      !.NodeRouteCount = @ + one,
                      !.BabelMetric = IF metric < @ THEN metric ELSE @]]
      BY <1>4 DEF routesLine
    <2>2. \A m \in DOMAIN trackers : Kept(m)
      BY <1>1, <2>1 DEF Tracker
    <2> QED BY <1>2, <1>4, <2>2 DEF routesLine, TimesKept, UpKept
  <1>5. CASE routesEnd
    BY <1>1, <1>2, <1>5 DEF routesEnd, Tracker, TimesKept, UpKept
  <1>6. CASE updateStats
    <2>1. \A m \in DOMAIN trackers : Kept(m)
      BY <1>1, <1>6 DEF updateStats, Tracker
    <2> QED BY <1>2, <1>6, <2>1 DEF updateStats, TimesKept, UpKept
  <1>7. CASE updateRunningAverages
    <2>1. PICK q \in [DOMAIN trackers -> Delivered] :
            trackers' = [m \in DOMAIN trackers |-> Averaged(trackers[m], q[m])]
      BY <1>7 DEF updateRunningAverages
    <2>2. \A t \in Tracker, e \in Delivered :
            /\ Averaged(t, e).FirstSeen = t.FirstSeen /\ Averaged(t, e).LastSeen = t.LastSeen
            /\ Averaged(t, e).LastUp = t.LastUp /\ Averaged(t, e).Refresh = t.Refresh
      BY DEF Averaged, Tracker
    <2>3. \A m \in DOMAIN trackers : Kept(m)
      BY <1>1, <2>1, <2>2
    <2> QED BY <1>2, <1>7, <2>3 DEF updateRunningAverages, TimesKept, UpKept
  <1> QED BY <1>3, <1>4, <1>5, <1>6, <1>7

LEMMA TimesOnNeighbors ==
  ASSUME TypeInv, updateNeighbors
  PROVE  /\ DOMAIN trackers' = DOMAIN trackers \cup listed'
         /\ \A m \in DOMAIN trackers : TimesKept(m) /\ UpKept(m)
         /\ \A m \in listed' : trackers'[m].LastSeen = now
         /\ \A m \in DOMAIN trackers' \ DOMAIN trackers :
                trackers'[m].FirstSeen = now /\ trackers'[m].LastSeen = now
  <1>0. PICK ms \in SUBSET Mac : \E on \in [ms -> Device] :
          /\ listed' = {m \in ms : on[m] \in Supported}
          /\ trackers' = [m \in DOMAIN trackers \cup listed' |->
                            IF m \in listed' THEN Seen(m, on[m]) ELSE trackers[m]]
    BY DEF updateNeighbors
  <1>1. PICK on \in [ms -> Device] :
          /\ listed' = {m \in ms : on[m] \in Supported}
          /\ trackers' = [m \in DOMAIN trackers \cup listed' |->
                            IF m \in listed' THEN Seen(m, on[m]) ELSE trackers[m]]
    BY <1>0
  <1>2. \A m \in DOMAIN trackers : trackers[m] \in Tracker
    BY DEF TypeInv, TypeOK
  <1>3. \A m \in DOMAIN trackers : \A d : /\ Seen(m, d).FirstSeen = trackers[m].FirstSeen
                                          /\ Seen(m, d).LastSeen = now
                                          /\ Seen(m, d).LastUp = trackers[m].LastUp
                                          /\ Seen(m, d).Refresh = trackers[m].Refresh
    BY <1>2 DEF Seen, Tracker
  <1>4. \A m : \A d : m \notin DOMAIN trackers =>
            Seen(m, d).FirstSeen = now /\ Seen(m, d).LastSeen = now
    BY DEF Seen, NewTracker
  <1>5. DOMAIN trackers' = DOMAIN trackers \cup listed'
    BY <1>1
  <1>6. \A m \in listed' : trackers'[m] = Seen(m, on[m])
    BY <1>1
  <1>7. \A m \in DOMAIN trackers \ listed' : trackers'[m] = trackers[m]
    BY <1>1
  <1>8. \A m \in DOMAIN trackers : TimesKept(m) /\ UpKept(m)
    BY <1>3, <1>6, <1>7 DEF updateNeighbors, TimesKept, UpKept
  <1>9. \A m \in DOMAIN trackers' \ DOMAIN trackers :
            trackers'[m].FirstSeen = now /\ trackers'[m].LastSeen = now
    BY <1>4, <1>5, <1>6
  <1>10. \A m \in listed' : trackers'[m].LastSeen = now
    BY <1>3, <1>4, <1>6
  <1> QED BY <1>5, <1>8, <1>9, <1>10

\* All steps: who stays keeps its times, who comes is new, who goes was not heard
\* of for long.
LEMMA TimesMove ==
  ASSUME TypeInv, [Next]_vars
  PROVE  /\ \A m \in DOMAIN trackers \cap DOMAIN trackers' : TimesKept(m) /\ UpKept(m)
         /\ \A m \in DOMAIN trackers' \ DOMAIN trackers :
                trackers'[m].FirstSeen = now /\ trackers'[m].LastSeen = now
         /\ \A m \in DOMAIN trackers \ DOMAIN trackers' :
                ~ (tickStart <= trackers[m].LastSeen + LastSeenTimeout)
  <1>1. CASE UNCHANGED trackers /\ ~ (pc = "refresh" /\ pc' = "snapshot")
    BY <1>1 DEF TimesKept, UpKept
  <1>2. CASE pruneTrackers
    BY <1>2 DEF pruneTrackers, Restrict, TimesKept, UpKept
  <1>3. CASE updateNeighbors
    BY <1>3, TimesOnNeighbors
  <1>4. CASE routesReset \/ routesLine \/ routesEnd \/ updateStats \/ updateRunningAverages
    BY <1>4, TimesOnDump
  <1>5. CASE remoteRefresh \/ \E r \in refreshes : acquireHttp(r) \/ refreshTracker(r)
    BY <1>5, TimesOnRefresh
  <1>6. CASE \E m \in DOMAIN pinging : Ping(m)
    <2>1. DOMAIN trackers' = DOMAIN trackers
      BY <1>6 DEF Ping, pingTracker, calculateQuality
    <2> QED BY <1>6, <2>1, TimesOnPing
  <1>7. CASE \/ Start \/ runTick \/ runEnd \/ routesFail \/ snapshotTrackers \/ acquirePing
             \/ pingsDone \/ writeState \/ neighborsHang \/ Stop \/ StopReturn \/ Elapse
             \/ UNCHANGED vars
    BY <1>1, <1>7 DEF Start, runTick, runEnd, routesFail, snapshotTrackers, acquirePing, pingsDone,
         writeState, neighborsHang, Stop, StopReturn, Elapse, BeginTick
  <1> QED BY <1>2, <1>3, <1>4, <1>5, <1>6, <1>7 DEF Next, Run

-----------------------------------------------------------------------------
(* What the dump and the pings say of a neighbour, against the tick.       *)

\* The tick, the one before and the clock are in order.
TicksInOrder == lastTick <= tickStart /\ tickStart <= now

\* Between two ticks no dump counts.
ListedInTick == pc \in {"start", "neighbors", "hung", "sleep", "blocked"} => listed = {}

\* Whoever the dump named has a tracker, and was heard of in this tick.
ListedHeard == \A m \in listed : m \in DOMAIN trackers /\ tickStart <= trackers[m].LastSeen

\* What pruneTrackers leaves was heard of within the timeout.
Pruned == pc = "write" =>
    \A m \in DOMAIN trackers : tickStart <= trackers[m].LastSeen + LastSeenTimeout

HeardInv == TicksInOrder /\ ListedInTick /\ ListedHeard /\ Pruned

LEMMA Clocks ==
  ASSUME TypeInv
  PROVE  /\ now \in Nat /\ now > 0 /\ tickStart \in Nat /\ lastTick \in Nat
         /\ \A m \in DOMAIN trackers : /\ trackers[m].LastSeen \in Nat /\ trackers[m].FirstSeen \in Nat
                                       /\ trackers[m].Refresh \in Nat
         /\ \A r \in refreshes : r \in Refreshing /\ r.since \in Nat /\ r.made \in Nat
  <1>1. now \in Nat /\ now > 0 /\ tickStart \in Nat /\ lastTick \in Nat
    BY ConstantTypes DEF TypeInv, TypeOK
  <1>2. Time \subseteq Nat
    BY ConstantTypes DEF Time
  <1> QED BY <1>1, <1>2 DEF TypeInv, TypeOK, Tracker, Refreshing

LEMMA InitHeard == Init => HeardInv
  BY DEF Init, HeardInv, TicksInOrder, ListedInTick, ListedHeard, Pruned

LEMMA TicksStep ==
  ASSUME TypeInv, HeardInv, [Next]_vars
  PROVE  TicksInOrder' /\ ListedInTick' /\ (now' >= now) /\ (lastTick' # lastTick => pc = "write")
  <1>0. now \in Nat /\ tickStart \in Nat /\ lastTick \in Nat
    BY Clocks
  <1> USE DEF HeardInv, TicksInOrder, ListedInTick
  <1>1. CASE Start \/ runTick \/ runEnd \/ neighborsHang \/ writeState
    BY <1>0, <1>1 DEF Start, runTick, runEnd, BeginTick, neighborsHang, writeState
  <1>2. CASE updateNeighbors \/ routesFail \/ routesReset \/ routesEnd \/ routesLine \/ updateStats
             \/ updateRunningAverages \/ remoteRefresh \/ snapshotTrackers \/ acquirePing
             \/ pingsDone \/ pruneTrackers
    <2>1. /\ UNCHANGED <<now, tickStart, lastTick>>
          /\ pc' \notin {"start", "neighbors", "hung", "sleep", "blocked"}
      BY <1>2 DEF updateNeighbors, routesFail, routesReset, routesEnd, routesLine, updateStats,
         updateRunningAverages, remoteRefresh, snapshotTrackers, acquirePing, pingsDone, pruneTrackers
    <2> QED BY <1>0, <2>1
  <1>3. CASE \E m \in DOMAIN pinging : Ping(m)
    BY <1>0, <1>3 DEF Ping, pingTracker, calculateQuality
  <1>4. CASE \E r \in refreshes : acquireHttp(r) \/ refreshTracker(r)
    BY <1>0, <1>4 DEF acquireHttp, refreshTracker
  <1>5. CASE Stop \/ StopReturn \/ Elapse \/ UNCHANGED vars
    BY <1>0, <1>5 DEF Stop, StopReturn, Elapse
  <1> QED BY <1>1, <1>2, <1>3, <1>4, <1>5 DEF Next, Run

\* Who is listed after a step was listed before it in the same tick, or has just
\* been named by the dump.
LEMMA ListedStep ==
  ASSUME TypeInv, [Next]_vars
  PROVE  \/ updateNeighbors
         \/ listed' = {}
         \/ listed' = listed /\ tickStart' = tickStart
         \/ listed' = listed /\ pc \in {"start", "sleep"}
  <1>1. CASE Start \/ runTick
    BY <1>1 DEF Start, runTick
  <1>2. CASE runEnd \/ neighborsHang \/ writeState \/ routesFail \/ routesReset \/ routesEnd
             \/ routesLine \/ updateStats \/ updateRunningAverages \/ remoteRefresh
             \/ snapshotTrackers \/ acquirePing \/ pingsDone \/ pruneTrackers
    BY <1>2 DEF runEnd, neighborsHang, writeState, routesFail, routesReset, routesEnd, routesLine,
         updateStats, updateRunningAverages, remoteRefresh, snapshotTrackers, acquirePing,
         pingsDone, pruneTrackers
  <1>3. CASE \E m \in DOMAIN pinging : Ping(m)
    BY <1>3 DEF Ping, pingTracker, calculateQuality
  <1>4. CASE \E r \in refreshes : acquireHttp(r) \/ refreshTracker(r)
    BY <1>4 DEF acquireHttp, refreshTracker
  <1>5. CASE Stop \/ StopReturn \/ Elapse \/ UNCHANGED vars
    BY <1>5 DEF Stop, StopReturn, Elapse
  <1> QED BY <1>1, <1>2, <1>3, <1>4, <1>5 DEF Next, Run

\* A step that ends in the state to be written either prunes or leaves the tick,
\* the dump and the set of trackers alone.
LEMMA WriteStep ==
  ASSUME TypeInv, [Next]_vars, pc' = "write"
  PROVE  \/ pruneTrackers
         \/ pc = "write" /\ tickStart' = tickStart /\ DOMAIN trackers' = DOMAIN trackers
  <1>1. CASE Run \/ routesLine \/ neighborsHang
    BY <1>1 DEF Run, Start, runTick, runEnd, BeginTick, neighborsHang, writeState, updateNeighbors,
         routesFail, routesReset, routesEnd, routesLine, updateStats, updateRunningAverages,
         remoteRefresh, snapshotTrackers, acquirePing, pingsDone
  <1>2. CASE \E m \in DOMAIN pinging : Ping(m)
    BY <1>2 DEF Ping, pingTracker, calculateQuality
  <1>3. CASE \E r \in refreshes : acquireHttp(r) \/ refreshTracker(r)
    BY <1>3, TimesOnRefresh DEF acquireHttp, refreshTracker
  <1>4. CASE Stop \/ StopReturn \/ Elapse \/ UNCHANGED vars
    BY <1>4 DEF Stop, StopReturn, Elapse
  <1> QED BY <1>1, <1>2, <1>3, <1>4 DEF Next

LEMMA NextHeard == TypeInv /\ HeardInv /\ [Next]_vars => HeardInv'
  <1> SUFFICES ASSUME TypeInv, HeardInv, [Next]_vars PROVE HeardInv'
    OBVIOUS
  <1>1. TicksInOrder' /\ ListedInTick'
    BY TicksStep
  <1>2. /\ now \in Nat /\ tickStart \in Nat
        /\ \A m \in DOMAIN trackers : trackers[m].LastSeen \in Nat
    BY Clocks
  <1>3. ListedHeard'
    <2>1. CASE updateNeighbors
      BY <1>2, <2>1, TimesOnNeighbors DEF ListedHeard, HeardInv, TicksInOrder, updateNeighbors
    <2>2. CASE listed' = {} \/ (listed' = listed /\ pc \in {"start", "sleep"})
      BY <2>2 DEF ListedHeard, HeardInv, ListedInTick
    <2>3. CASE listed' = listed /\ tickStart' = tickStart
      <3> SUFFICES ASSUME NEW m \in listed PROVE m \in DOMAIN trackers' /\ tickStart <= trackers'[m].LastSeen
        BY <2>3 DEF ListedHeard
      <3>1. m \in DOMAIN trackers /\ tickStart <= trackers[m].LastSeen /\ tickStart <= now
        BY DEF HeardInv, ListedHeard, TicksInOrder
      <3>2. tickStart <= trackers[m].LastSeen + LastSeenTimeout
        BY <1>2, <3>1, ConstantTypes
      <3>3. m \in DOMAIN trackers'
        BY <3>1, <3>2, TimesMove
      <3>4. TimesKept(m)
        BY <3>1, <3>3, TimesMove
      <3> QED BY <3>1, <3>3, <3>4 DEF TimesKept
    <2> QED BY <2>1, <2>2, <2>3, ListedStep
  <1>4. Pruned'
    <2> SUFFICES ASSUME pc' = "write", NEW m \in DOMAIN trackers'
                 PROVE  tickStart' <= trackers'[m].LastSeen + LastSeenTimeout
      BY DEF Pruned
    <2>1. CASE pruneTrackers
      BY <2>1 DEF pruneTrackers, Restrict
    <2>2. CASE pc = "write" /\ tickStart' = tickStart /\ DOMAIN trackers' = DOMAIN trackers
      <3>1. tickStart <= trackers[m].LastSeen + LastSeenTimeout /\ tickStart <= now
        BY <2>2 DEF HeardInv, Pruned, TicksInOrder
      <3>2. trackers'[m].LastSeen \in {trackers[m].LastSeen, now}
        BY <2>2, TimesMove DEF TimesKept
      <3> QED BY <1>2, <2>2, <3>1, <3>2, ConstantTypes
    <2> QED BY <2>1, <2>2, WriteStep
  <1> QED BY <1>1, <1>3, <1>4 DEF HeardInv

\* NeighborsWritten: what writeState writes has every neighbour of the tick's dump
\* and nobody that was silent for longer than the timeout, for any number of
\* neighbours and however long the tick takes (updateNeighbors, pruneTrackers).
THEOREM Written == Spec => []NeighborsWritten
  <1>1. HeardInv => NeighborsWritten
    BY DEF HeardInv, ListedHeard, Pruned, NeighborsWritten
  <1> QED BY <1>1, InitTypeInv, NextTypeInv, InitHeard, NextHeard, PTL DEF Spec

\* UpOnlyWithoutBabel: no ping moves the LastUp of a neighbour the tick's dump has
\* named (updateNeighbors, pingTracker).
THEOREM Up == Spec => UpOnlyWithoutBabel
  <1> DEFINE UpStep == \A m \in DOMAIN trackers \cap DOMAIN trackers' :
          (trackers[m].FirstSeen = trackers'[m].FirstSeen /\ trackers'[m].LastUp # trackers[m].LastUp)
             => m \notin listed
  <1>1. TypeInv /\ HeardInv /\ [Next]_vars => [UpStep]_vars
    <2> SUFFICES ASSUME TypeInv, HeardInv, [Next]_vars,
                        NEW m \in DOMAIN trackers \cap DOMAIN trackers', m \in listed
                 PROVE  trackers'[m].LastUp = trackers[m].LastUp
      OBVIOUS
    <2>1. lastTick <= tickStart /\ tickStart <= trackers[m].LastSeen
      BY DEF HeardInv, TicksInOrder, ListedHeard
    <2>2. lastTick \in Nat /\ tickStart \in Nat /\ trackers[m].LastSeen \in Nat
      BY Clocks
    <2>3. ~ (trackers[m].LastSeen + LastUpMargin < lastTick)
      BY <2>1, <2>2, ConstantTypes
    <2> QED BY <2>3, TimesMove DEF UpKept
  <1>2. Spec => [](TypeInv /\ HeardInv)
    BY InitTypeInv, NextTypeInv, InitHeard, NextHeard, PTL DEF Spec
  <1>3. Spec => [][UpStep]_vars
    BY <1>1, <1>2, PTL DEF Spec
  <1> QED BY <1>3 DEF UpOnlyWithoutBabel

-----------------------------------------------------------------------------
(* Refreshes.  One that is under way keeps its tracker's next refresh away *)
(* for a retry timeout from its start; one of a tracker that was pruned is *)
(* older than any tracker made after it.                                   *)

SeenInOrder == \A m \in DOMAIN trackers :
    trackers[m].FirstSeen <= trackers[m].LastSeen /\ trackers[m].LastSeen <= now

RefreshesPast == \A r \in refreshes : r.since <= now

\* A tracker that is gone was made before this moment.
MadeBefore == \A r \in refreshes :
    IF r.mac \in DOMAIN trackers THEN r.made <= trackers[r.mac].FirstSeen ELSE r.made < now

\* The mark of remoteRefresh holds.
Marked == \A r \in refreshes :
    r.mac \in DOMAIN trackers /\ r.made = trackers[r.mac].FirstSeen =>
        r.since + RefreshRetry <= trackers[r.mac].Refresh

Spaced == \A r, s \in refreshes :
    (r # s /\ r.mac = s.mac /\ r.made = s.made) =>
        r.since + RefreshRetry <= s.since \/ s.since + RefreshRetry <= r.since

Requests == {r \in refreshes : r.at = "get"}

RequestsBounded == IsFiniteSet(Requests) /\ Cardinality(Requests) <= HttpLimit

RefreshInv == SeenInOrder /\ RefreshesPast /\ MadeBefore /\ Marked /\ Spaced /\ RequestsBounded

LEMMA InitRefresh == Init => RefreshInv
  <1> SUFFICES ASSUME Init PROVE RefreshInv
    OBVIOUS
  <1>1. DOMAIN trackers = {} /\ refreshes = {} /\ Requests = {}
    BY DEF Init, Requests
  <1>2. IsFiniteSet({}) /\ Cardinality({}) = 0
    BY FS_EmptySet
  <1>3. RequestsBounded
    BY <1>1, <1>2, ConstantTypes DEF RequestsBounded
  <1> QED BY <1>1, <1>3 DEF RefreshInv, SeenInOrder, RefreshesPast, MadeBefore, Marked, Spaced

\* Where refreshes come from: one that was there, with its semaphore or without,
\* or one remoteRefresh starts.
LEMMA RefreshesStep ==
  ASSUME TypeInv, [Next]_vars
  PROVE  \/ remoteRefresh
         \/ \E r \in refreshes : acquireHttp(r)
         \/ refreshes' \subseteq refreshes
  <1>1. CASE Run \/ routesLine \/ neighborsHang
    BY <1>1 DEF Run, Start, runTick, runEnd, neighborsHang, writeState, updateNeighbors,
         routesFail, routesReset, routesEnd, routesLine, updateStats, updateRunningAverages,
         snapshotTrackers, acquirePing, pingsDone, pruneTrackers
  <1>2. CASE \E m \in DOMAIN pinging : Ping(m)
    BY <1>2 DEF Ping, pingTracker, calculateQuality
  <1>3. CASE \E r \in refreshes : acquireHttp(r) \/ refreshTracker(r)
    BY <1>3 DEF refreshTracker
  <1>4. CASE Stop \/ StopReturn \/ Elapse \/ UNCHANGED vars
    BY <1>4 DEF Stop, StopReturn, Elapse
  <1> QED BY <1>1, <1>2, <1>3, <1>4 DEF Next

\* Every refresh after a step is an old one, but for its place, or was started by
\* this step for a tracker that was due.
LEMMA RefreshesFrom ==
  ASSUME TypeInv, [Next]_vars, NEW s \in refreshes'
  PROVE  \/ \E r \in refreshes : s.mac = r.mac /\ s.made = r.made /\ s.since = r.since
         \/ s \in Spawn /\ remoteRefresh
  <1>1. CASE remoteRefresh
    BY <1>1 DEF remoteRefresh
  <1>2. ASSUME NEW r \in refreshes, acquireHttp(r)
        PROVE  \E q \in refreshes : s.mac = q.mac /\ s.made = q.made /\ s.since = q.since
    <2>1. r \in Refreshing
      BY Clocks
    <2>2. s \in refreshes \/ s = [r EXCEPT !.at = "get"]
      BY <1>2 DEF acquireHttp
    <2>3. CASE s = [r EXCEPT !.at = "get"]
      BY <2>1, <2>3 DEF Refreshing
    <2> QED BY <2>2, <2>3
  <1>3. CASE refreshes' \subseteq refreshes
    BY <1>3
  <1> QED BY <1>1, <1>2, <1>3, RefreshesStep

LEMMA SpawnFacts ==
  ASSUME NEW s \in Spawn
  PROVE  /\ s.mac \in DOMAIN trackers /\ s.made = trackers[s.mac].FirstSeen /\ s.since = now
         /\ s.at = "acquire" /\ trackers[s.mac].Refresh <= now /\ s.mac \in Due
  BY DEF Spawn, Due

LEMMA SeenStep == ASSUME TypeInv, HeardInv, RefreshInv, [Next]_vars PROVE SeenInOrder' /\ RefreshesPast'
  <1>1. /\ now \in Nat
        /\ \A m \in DOMAIN trackers : trackers[m].LastSeen \in Nat /\ trackers[m].FirstSeen \in Nat
        /\ \A r \in refreshes : r.since \in Nat
    BY Clocks
  <1>2. now' \in Nat /\ now <= now'
    <2>1. TypeInv'
      BY NextTypeInv
    <2>2. now' \in Nat
      BY <2>1, ConstantTypes DEF TypeInv, TypeOK
    <2> QED BY <1>1, <2>2, TicksStep
  <1>3. SeenInOrder'
    <2> SUFFICES ASSUME NEW m \in DOMAIN trackers'
                 PROVE  trackers'[m].FirstSeen <= trackers'[m].LastSeen /\ trackers'[m].LastSeen <= now'
      BY DEF SeenInOrder
    <2>1. CASE m \in DOMAIN trackers
      <3>1. /\ trackers'[m].FirstSeen = trackers[m].FirstSeen
            /\ trackers'[m].LastSeen \in {trackers[m].LastSeen, now}
        BY <2>1, TimesMove DEF TimesKept
      <3>2. trackers[m].FirstSeen <= trackers[m].LastSeen /\ trackers[m].LastSeen <= now
        BY <2>1 DEF RefreshInv, SeenInOrder
      <3> QED BY <1>1, <1>2, <2>1, <3>1, <3>2
    <2>2. CASE m \notin DOMAIN trackers
      BY <1>1, <1>2, <2>2, TimesMove
    <2> QED BY <2>1, <2>2
  <1>4. RefreshesPast'
    <2> SUFFICES ASSUME NEW s \in refreshes' PROVE s.since <= now'
      BY DEF RefreshesPast
    <2>1. CASE s \in Spawn
      BY <1>1, <1>2, <2>1, SpawnFacts
    <2>2. CASE \E r \in refreshes : s.since = r.since
      BY <1>1, <1>2, <2>2 DEF RefreshInv, RefreshesPast
    <2> QED BY <2>1, <2>2, RefreshesFrom
  <1> QED BY <1>3, <1>4

LEMMA MadeStep == ASSUME TypeInv, HeardInv, RefreshInv, [Next]_vars PROVE MadeBefore'
  <1> SUFFICES ASSUME NEW s \in refreshes'
               PROVE  IF s.mac \in DOMAIN trackers' THEN s.made <= trackers'[s.mac].FirstSeen
                      ELSE s.made < now'
    BY DEF MadeBefore
  <1>1. /\ now \in Nat /\ tickStart \in Nat /\ tickStart <= now
        /\ \A m \in DOMAIN trackers : trackers[m].LastSeen \in Nat /\ trackers[m].FirstSeen \in Nat
        /\ \A r \in refreshes : r.made \in Nat
    BY Clocks DEF HeardInv, TicksInOrder
  <1>2. now' \in Nat /\ now <= now'
    <2>1. TypeInv'
      BY NextTypeInv
    <2>2. now' \in Nat
      BY <2>1, ConstantTypes DEF TypeInv, TypeOK
    <2> QED BY <1>1, <2>2, TicksStep
  \* Before the step.
  <1>3. /\ s.made \in Nat
        /\ s.mac \in DOMAIN trackers => s.made <= trackers[s.mac].FirstSeen
        /\ s.mac \notin DOMAIN trackers => s.made < now
    <2>1. CASE s \in Spawn
      BY <1>1, <2>1, SpawnFacts
    <2>2. CASE \E r \in refreshes : s.mac = r.mac /\ s.made = r.made
      BY <1>1, <2>2 DEF RefreshInv, MadeBefore
    <2> QED BY <2>1, <2>2, RefreshesFrom
  <1>4. CASE s.mac \in DOMAIN trackers /\ s.mac \in DOMAIN trackers'
    <2>1. trackers'[s.mac].FirstSeen = trackers[s.mac].FirstSeen
      BY <1>4, TimesMove DEF TimesKept
    <2> QED BY <1>3, <1>4, <2>1
  <1>5. CASE s.mac \in DOMAIN trackers /\ s.mac \notin DOMAIN trackers'
    <2>1. ~ (tickStart <= trackers[s.mac].LastSeen + LastSeenTimeout)
      BY <1>5, TimesMove
    <2>2. trackers[s.mac].FirstSeen <= trackers[s.mac].LastSeen
      BY <1>5 DEF RefreshInv, SeenInOrder
    <2> QED BY <1>1, <1>2, <1>3, <1>5, <2>1, <2>2, ConstantTypes
  <1>6. CASE s.mac \notin DOMAIN trackers /\ s.mac \in DOMAIN trackers'
    <2>1. trackers'[s.mac].FirstSeen = now
      BY <1>6, TimesMove
    <2> QED BY <1>1, <1>3, <1>6, <2>1
  <1>7. CASE s.mac \notin DOMAIN trackers /\ s.mac \notin DOMAIN trackers'
    BY <1>1, <1>2, <1>3, <1>7
  <1> QED BY <1>4, <1>5, <1>6, <1>7

LEMMA MarkedStep == ASSUME TypeInv, HeardInv, RefreshInv, [Next]_vars PROVE Marked'
  <1> SUFFICES ASSUME NEW s \in refreshes', s.mac \in DOMAIN trackers',
                      s.made = trackers'[s.mac].FirstSeen
               PROVE  s.since + RefreshRetry <= trackers'[s.mac].Refresh
    BY DEF Marked
  <1>1. /\ now \in Nat
        /\ \A m \in DOMAIN trackers : trackers[m].FirstSeen \in Nat /\ trackers[m].Refresh \in Nat
        /\ \A r \in refreshes : r.made \in Nat /\ r.since \in Nat
    BY Clocks
  <1>2. ASSUME s \in Spawn, remoteRefresh PROVE s.since + RefreshRetry <= trackers'[s.mac].Refresh
    <2>1. s.mac \in DOMAIN trackers /\ s.since = now /\ s.mac \in Due
      BY <1>2, SpawnFacts
    <2>2. pc = "refresh" /\ pc' = "snapshot"
      BY <1>2 DEF remoteRefresh
    <2>3. trackers'[s.mac].Refresh = now + RefreshRetry
      BY <2>1, <2>2, TimesMove DEF TimesKept
    <2> QED BY <1>1, <2>1, <2>3, ConstantTypes
  <1>3. ASSUME NEW r \in refreshes, s.mac = r.mac, s.made = r.made, s.since = r.since
        PROVE  s.since + RefreshRetry <= trackers'[s.mac].Refresh
    <2>1. r.since <= now
      BY <1>3 DEF RefreshInv, RefreshesPast
    <2>2. s.mac \in DOMAIN trackers
      <3>1. s.mac \notin DOMAIN trackers => trackers'[s.mac].FirstSeen = now /\ r.made < now
        BY <1>3, TimesMove DEF RefreshInv, MadeBefore
      <3> QED BY <1>1, <1>3, <3>1
    <2>3. /\ trackers'[s.mac].FirstSeen = trackers[s.mac].FirstSeen
          /\ \/ trackers'[s.mac].Refresh = trackers[s.mac].Refresh
             \/ trackers'[s.mac].Refresh >= now + RefreshRetry
      BY <2>2, TimesMove DEF TimesKept
    <2>4. r.since + RefreshRetry <= trackers[s.mac].Refresh
      BY <1>3, <2>2, <2>3 DEF RefreshInv, Marked
    <2>5. trackers'[s.mac].Refresh \in Nat
      <3>1. TypeInv'
        BY NextTypeInv
      <3>2. trackers'[s.mac] \in Tracker /\ Time \subseteq Nat
        BY <3>1, ConstantTypes DEF TypeInv, TypeOK, Time
      <3> QED BY <3>2 DEF Tracker
    <2> QED BY <1>1, <1>3, <2>1, <2>2, <2>3, <2>4, <2>5, ConstantTypes
  <1> QED BY <1>2, <1>3, RefreshesFrom

LEMMA SpacedStep == ASSUME TypeInv, RefreshInv, [Next]_vars PROVE Spaced'
  <1>1. /\ now \in Nat /\ \A r \in refreshes : r \in Refreshing /\ r.since \in Nat
        /\ \A m \in DOMAIN trackers : trackers[m].Refresh \in Nat
    BY Clocks
  <1>2. CASE refreshes' \subseteq refreshes
    BY <1>2 DEF RefreshInv, Spaced
  <1>3. CASE remoteRefresh
    <2>1. ASSUME NEW r \in refreshes, NEW s \in Spawn, r.mac = s.mac, r.made = s.made
          PROVE  r.since + RefreshRetry <= s.since
      <3>1. /\ s.mac \in DOMAIN trackers /\ s.made = trackers[s.mac].FirstSeen /\ s.since = now
            /\ trackers[s.mac].Refresh <= now
        BY SpawnFacts
      <3>2. r.since + RefreshRetry <= trackers[s.mac].Refresh
        BY <2>1, <3>1 DEF RefreshInv, Marked
      <3> QED BY <1>1, <3>1, <3>2, ConstantTypes
    <2>2. \A r, s \in Spawn : r.mac = s.mac => r = s
      BY DEF Spawn
    <2>3. refreshes' = refreshes \cup Spawn
      BY <1>3 DEF remoteRefresh
    <2> QED BY <2>1, <2>2, <2>3 DEF RefreshInv, Spaced
  <1>4. ASSUME NEW r \in refreshes, acquireHttp(r) PROVE Spaced'
    <2> DEFINE g == [r EXCEPT !.at = "get"]
    <2>1. g.mac = r.mac /\ g.made = r.made /\ g.since = r.since
      BY <1>1 DEF Refreshing
    <2>2. refreshes' \subseteq (refreshes \ {r}) \cup {g}
      BY <1>4 DEF acquireHttp
    <2> HIDE DEF g
    <2> QED BY <2>1, <2>2 DEF RefreshInv, Spaced
  <1> QED BY <1>2, <1>3, <1>4, RefreshesStep

LEMMA RequestsStep == ASSUME TypeInv, RefreshInv, [Next]_vars PROVE RequestsBounded'
  <1>1. IsFiniteSet(Requests) /\ Cardinality(Requests) \in Nat /\ Cardinality(Requests) <= HttpLimit
    BY FS_CardinalityType DEF RefreshInv, RequestsBounded
  <1>2. ASSUME Requests' \subseteq Requests PROVE RequestsBounded'
    <2>1. IsFiniteSet(Requests') /\ Cardinality(Requests') <= Cardinality(Requests)
      BY <1>1, <1>2, FS_Subset
    <2>2. Cardinality(Requests') \in Nat
      BY <2>1, FS_CardinalityType
    <2> QED BY <1>1, <2>1, <2>2, ConstantTypes DEF RequestsBounded
  <1>3. CASE refreshes' \subseteq refreshes
    BY <1>2, <1>3 DEF Requests
  <1>4. CASE remoteRefresh
    <2>1. \A s \in Spawn : s.at # "get"
      BY SpawnFacts
    <2>2. refreshes' = refreshes \cup Spawn
      BY <1>4 DEF remoteRefresh
    <2> QED BY <1>2, <2>1, <2>2 DEF Requests
  <1>5. ASSUME NEW r \in refreshes, acquireHttp(r) PROVE RequestsBounded'
    <2> DEFINE g == [r EXCEPT !.at = "get"]
    <2>1. CASE refreshes' = refreshes \ {r}
      BY <1>2, <2>1 DEF Requests
    <2>2. CASE Cardinality(Requests) < HttpLimit /\ refreshes' = (refreshes \ {r}) \cup {g}
      <3>1. Requests' \subseteq Requests \cup {g}
        BY <2>2 DEF Requests
      <3> HIDE DEF g
      <3>2. /\ IsFiniteSet(Requests \cup {g})
            /\ \/ Cardinality(Requests \cup {g}) = Cardinality(Requests) + 1
               \/ Cardinality(Requests \cup {g}) = Cardinality(Requests)
        BY <1>1, FS_AddElement
      <3>3. IsFiniteSet(Requests') /\ Cardinality(Requests') <= Cardinality(Requests \cup {g})
        BY <3>1, <3>2, FS_Subset
      <3>4. Cardinality(Requests') \in Nat
        BY <3>3, FS_CardinalityType
      <3> QED BY <1>1, <2>2, <3>2, <3>3, <3>4, ConstantTypes DEF RequestsBounded
    <2> QED BY <1>5, <2>1, <2>2 DEF acquireHttp, Requests
  <1> QED BY <1>3, <1>4, <1>5, RefreshesStep

LEMMA NextRefresh == TypeInv /\ HeardInv /\ RefreshInv /\ [Next]_vars => RefreshInv'
  BY SeenStep, MadeStep, MarkedStep, SpacedStep, RequestsStep DEF RefreshInv

\* RefreshesBounded: two refreshes of one tracker overlap only when they were
\* started a retry timeout apart, and no more than HttpLimit requests are under
\* way, for any number of neighbours that come, go and come back and requests that
\* take any time (remoteRefresh, refreshTracker, httpSem).
THEOREM Refreshes == Spec => []RefreshesBounded
  <1>1. RefreshInv => RefreshesBounded
    BY DEF RefreshInv, Spaced, RequestsBounded, Requests, RefreshesBounded
  <1> QED BY <1>1, InitTypeInv, NextTypeInv, InitHeard, NextHeard, InitRefresh, NextRefresh, PTL DEF Spec

-----------------------------------------------------------------------------
(* The route counts.  While a dump is read they belong to it; at all other *)
(* times to the last one that was read to its end or its deadline.         *)

LEMMA RecordsFinite ==
  ASSUME NEW S, IsFiniteSet(S), NEW T, IsFiniteSet(T)
  PROVE  IsFiniteSet([via : S, no : T])
  <1> DEFINE R == [via : S, no : T]
             f == [p \in S \X T |-> [via |-> p[1], no |-> p[2]]]
  <1>1. IsFiniteSet(S \X T)
    BY FS_Product
  <1>2. f \in [S \X T -> R]
    OBVIOUS
  <1>3. ASSUME NEW r \in R PROVE \E p \in S \X T : f[p] = r
    <2>1. <<r.via, r.no>> \in S \X T /\ r = [via |-> r.via, no |-> r.no]
      OBVIOUS
    <2>2. f[<<r.via, r.no>>] = r
      BY <2>1
    <2> QED BY <2>1, <2>2
  <1> HIDE DEF f, R
  <1>4. f \in Surjection(S \X T, R)
    BY <1>2, <1>3 DEF Surjection
  <1>5. IsFiniteSet(R)
    BY <1>1, <1>4, FS_Surjection
  <1> QED BY <1>5 DEF R

LEMMA RoutesFinite ==
  ASSUME TypeInv
  PROVE  /\ IsFiniteSet(BabelRoutes) /\ Cardinality(BabelRoutes) \in Nat
         /\ IsFiniteSet(NodeRoutes) /\ Cardinality(NodeRoutes) \in Nat
  <1>1. IsFiniteSet(DOMAIN trackers)
    BY ConstantTypes, FS_Subset DEF TypeInv, TypeOK
  <1>2. IsFiniteSet(1 .. MaxRoutes)
    BY ConstantTypes, FS_Interval
  <1>3. IsFiniteSet(Route)
    BY <1>1, <1>2, RecordsFinite, Zenon DEF Route
  <1>4. BabelRoutes \subseteq Route /\ NodeRoutes \subseteq Route
    BY DEF BabelRoutes, NodeRoutes
  <1>5. IsFiniteSet(BabelRoutes) /\ IsFiniteSet(NodeRoutes)
    BY <1>3, <1>4, FS_Subset
  <1> QED BY <1>5, FS_CardinalityType

\* The counts the routes are part of.
Counters == IF pc = "lines" THEN dump ELSE totals

RouteInv ==
    /\ Cardinality(BabelRoutes) <= Counters.routes
    /\ Cardinality(NodeRoutes) <= Counters.nodes
    /\ pc # "lines" => \A m \in DOMAIN trackers : trackers[m].BabelMetric # MaxInt32

LEMMA InitRoutes == Init => RouteInv
  <1> SUFFICES ASSUME Init PROVE RouteInv
    OBVIOUS
  <1>1. DOMAIN trackers = {}
    BY DEF Init
  <1>2. BabelRoutes = {} /\ NodeRoutes = {}
    BY <1>1 DEF Route, BabelRoutes, NodeRoutes
  <1>3. Cardinality(BabelRoutes) = 0 /\ Cardinality(NodeRoutes) = 0
    BY <1>2, FS_EmptySet
  <1> QED BY <1>1, <1>3 DEF Init, RouteInv, Counters, Zero

\* The route counts of a tracker stay, or it is a new one without routes.
CountsKept(m) ==
    \/ /\ m \in DOMAIN trackers
       /\ trackers'[m].BabelRouteCount = trackers[m].BabelRouteCount
       /\ trackers'[m].NodeRouteCount = trackers[m].NodeRouteCount
       /\ trackers'[m].BabelMetric = trackers[m].BabelMetric
    \/ /\ trackers'[m].BabelRouteCount = 0
       /\ trackers'[m].NodeRouteCount = 0
       /\ trackers'[m].BabelMetric = 0

LEMMA KeptCounts ==
  ASSUME TypeInv, TypeInv', RouteInv, \A m \in DOMAIN trackers' : CountsKept(m),
         Counters' = Counters, pc' # "lines" => pc # "lines"
  PROVE  RouteInv'
  <1>1. BabelRoutes' \subseteq BabelRoutes /\ NodeRoutes' \subseteq NodeRoutes
    BY ConstantTypes DEF Route, BabelRoutes, NodeRoutes, CountsKept
  <1>2. /\ Cardinality(BabelRoutes') <= Cardinality(BabelRoutes)
        /\ Cardinality(NodeRoutes') <= Cardinality(NodeRoutes)
    BY <1>1, RoutesFinite, FS_Subset
  <1>3. /\ Cardinality(BabelRoutes) \in Nat /\ Cardinality(BabelRoutes') \in Nat
        /\ Cardinality(NodeRoutes) \in Nat /\ Cardinality(NodeRoutes') \in Nat
    BY <1>1, RoutesFinite, FS_Subset, FS_CardinalityType
  <1>4. Counters.routes \in Nat /\ Counters.nodes \in Nat
    BY ConstantTypes DEF Counters, TypeInv, TypeOK
  <1>5. /\ Cardinality(BabelRoutes') <= Counters'.routes
        /\ Cardinality(NodeRoutes') <= Counters'.nodes
    BY <1>2, <1>3, <1>4 DEF RouteInv
  <1>6. pc' # "lines" => \A m \in DOMAIN trackers' : trackers'[m].BabelMetric # MaxInt32
    BY DEF CountsKept, RouteInv, MaxInt32
  <1> QED BY <1>5, <1>6 DEF RouteInv

LEMMA ResetRoutes == ASSUME TypeInv, TypeInv', RouteInv, routesReset PROVE RouteInv'
  <1>0. \A m \in DOMAIN trackers : trackers[m] \in Tracker
    BY DEF TypeInv, TypeOK
  <1>1. \A m \in DOMAIN trackers' : trackers'[m].BabelRouteCount = 0 /\ trackers'[m].NodeRouteCount = 0
    BY <1>0 DEF routesReset, Tracker
  <1>2. BabelRoutes' = {} /\ NodeRoutes' = {}
    BY <1>1, ConstantTypes DEF Route, BabelRoutes, NodeRoutes
  <1>3. Cardinality(BabelRoutes') = 0 /\ Cardinality(NodeRoutes') = 0
    BY <1>2, FS_EmptySet
  <1>4. Counters'.routes \in Nat /\ Counters'.nodes \in Nat
    BY ConstantTypes DEF Counters, TypeInv, TypeOK
  <1>5. Cardinality(BabelRoutes') <= Counters'.routes /\ Cardinality(NodeRoutes') <= Counters'.nodes
    BY <1>3, <1>4
  <1>6. pc' = "lines"
    BY DEF routesReset
  <1> QED BY <1>5, <1>6 DEF RouteInv

LEMMA EndRoutes == ASSUME TypeInv, TypeInv', RouteInv, routesEnd PROVE RouteInv'
  <1>1. \A m \in DOMAIN trackers' :
          /\ m \in DOMAIN trackers
          /\ trackers'[m].BabelRouteCount = trackers[m].BabelRouteCount
          /\ trackers'[m].NodeRouteCount = trackers[m].NodeRouteCount
          /\ trackers'[m].BabelMetric # MaxInt32
    BY DEF routesEnd, TypeInv, TypeOK, Tracker, MaxInt32
  <1>2. DOMAIN trackers' = DOMAIN trackers
    BY DEF routesEnd
  <1>3. BabelRoutes' = BabelRoutes /\ NodeRoutes' = NodeRoutes
    BY <1>1, <1>2 DEF Route, BabelRoutes, NodeRoutes
  <1>4. Counters' = Counters
    BY DEF Counters, routesEnd
  <1> QED BY <1>1, <1>3, <1>4 DEF RouteInv, routesEnd

\* A route that is counted is one more than what the tracker had.
LEMMA LineRoutes == ASSUME TypeInv, TypeInv', RouteInv, routesLine PROVE RouteInv'
  <1>0. \A m \in DOMAIN trackers : trackers[m] \in Tracker
    BY DEF TypeInv, TypeOK
  <1>1. PICK via \in DOMAIN trackers \cup {None}, isNode \in BOOLEAN, metric \in Metrics :
          LET one == IF isNode /\ via # None THEN 1 ELSE 0
          IN  /\ dump' = [routes |-> dump.routes + 1, nodes |-> dump.nodes + one]
              /\ trackers' = [m \in DOMAIN trackers |-> IF m # via THEN trackers[m] ELSE
                   [trackers[m] EXCEPT
                      !.BabelRouteCount = @ + 1,
                      !.NodeRouteCount = @ + one,
                      !.BabelMetric = IF metric < @ THEN metric ELSE @]]
    BY DEF routesLine
  <1> DEFINE one == IF isNode /\ via # None THEN 1 ELSE 0
             b == [via |-> via, no |-> trackers[via].BabelRouteCount + 1]
             n == [via |-> via, no |-> trackers[via].NodeRouteCount + 1]
  <1>2. DOMAIN trackers' = DOMAIN trackers /\ one \in {0, 1} /\ pc = "lines" /\ pc' = "lines"
    BY <1>1 DEF routesLine
  <1>3. \A m \in DOMAIN trackers :
          /\ trackers[m].BabelRouteCount \in Nat /\ trackers[m].NodeRouteCount \in Nat
          /\ m # via => trackers'[m] = trackers[m]
          /\ m = via => /\ trackers'[m].BabelRouteCount = trackers[m].BabelRouteCount + 1
                        /\ trackers'[m].NodeRouteCount = trackers[m].NodeRouteCount + one
    <2>1. \A m \in DOMAIN trackers : trackers[m].BabelRouteCount \in Nat /\ trackers[m].NodeRouteCount \in Nat
      BY <1>0, ConstantTypes DEF Tracker
    <2>2. \A m \in DOMAIN trackers : m # via => trackers'[m] = trackers[m]
      BY <1>1
    <2>3. ASSUME via \in DOMAIN trackers
          PROVE  /\ trackers'[via].BabelRouteCount = trackers[via].BabelRouteCount + 1
                 /\ trackers'[via].NodeRouteCount = trackers[via].NodeRouteCount + one
      BY <1>0, <1>1, <2>3 DEF Tracker
    <2> QED BY <2>1, <2>2, <2>3
  <1>4. dump'.routes = dump.routes + 1 /\ dump'.nodes = dump.nodes + one
    BY <1>1
  <1>5. dump.routes \in Nat /\ dump.nodes \in Nat
    BY ConstantTypes DEF TypeInv, TypeOK
  <1>6. /\ Cardinality(BabelRoutes) <= dump.routes /\ Cardinality(BabelRoutes) \in Nat
        /\ Cardinality(NodeRoutes) <= dump.nodes /\ Cardinality(NodeRoutes) \in Nat
    BY <1>2, RoutesFinite DEF RouteInv, Counters
  <1> HIDE DEF one
  <1>7. Cardinality(BabelRoutes') <= dump'.routes
    <2>1. BabelRoutes' \subseteq BabelRoutes \cup {b}
      BY <1>2, <1>3 DEF Route, BabelRoutes
    <2> HIDE DEF b
    <2>2. /\ IsFiniteSet(BabelRoutes \cup {b})
          /\ Cardinality(BabelRoutes \cup {b}) \in {Cardinality(BabelRoutes), Cardinality(BabelRoutes) + 1}
      BY RoutesFinite, FS_AddElement
    <2>3. Cardinality(BabelRoutes') <= Cardinality(BabelRoutes \cup {b}) /\ Cardinality(BabelRoutes') \in Nat
      BY <2>1, <2>2, FS_Subset, FS_CardinalityType
    <2> QED BY <1>4, <1>5, <1>6, <2>2, <2>3
  <1>8. Cardinality(NodeRoutes') <= dump'.nodes
    <2>1. CASE one = 0
      <3>1. NodeRoutes' = NodeRoutes
        BY <1>2, <1>3, <2>1 DEF Route, NodeRoutes
      <3> QED BY <1>4, <1>5, <1>6, <2>1, <3>1
    <2>2. CASE one = 1
      <3>1. NodeRoutes' \subseteq NodeRoutes \cup {n}
        BY <1>2, <1>3, <2>2 DEF Route, NodeRoutes
      <3> HIDE DEF n
      <3>2. /\ IsFiniteSet(NodeRoutes \cup {n})
            /\ Cardinality(NodeRoutes \cup {n}) \in {Cardinality(NodeRoutes), Cardinality(NodeRoutes) + 1}
        BY RoutesFinite, FS_AddElement
      <3>3. Cardinality(NodeRoutes') <= Cardinality(NodeRoutes \cup {n}) /\ Cardinality(NodeRoutes') \in Nat
        BY <3>1, <3>2, FS_Subset, FS_CardinalityType
      <3> QED BY <1>4, <1>5, <1>6, <2>2, <3>2, <3>3
    <2> QED BY <1>2, <2>1, <2>2
  <1> QED BY <1>2, <1>7, <1>8 DEF RouteInv, Counters

\* Every other step leaves the counts alone.
LEMMA OtherCounts ==
  ASSUME TypeInv, [Next]_vars, ~routesReset, ~routesLine, ~routesEnd
  PROVE  /\ Counters' = Counters /\ (pc' # "lines" => pc # "lines")
         /\ \A m \in DOMAIN trackers' : CountsKept(m)
  <1> DEFINE Same(m) == /\ m \in DOMAIN trackers
                        /\ trackers'[m].BabelRouteCount = trackers[m].BabelRouteCount
                        /\ trackers'[m].NodeRouteCount = trackers[m].NodeRouteCount
                        /\ trackers'[m].BabelMetric = trackers[m].BabelMetric
  <1>0. \A m \in DOMAIN trackers : trackers[m] \in Tracker
    BY DEF TypeInv, TypeOK
  <1>1. CASE /\ UNCHANGED trackers
             /\ \/ Start \/ Stop \/ StopReturn \/ runTick \/ runEnd \/ neighborsHang \/ routesFail
                \/ snapshotTrackers \/ acquirePing \/ pingsDone \/ writeState \/ Elapse
                \/ (\E r \in refreshes : acquireHttp(r) \/ refreshTracker(r)) \/ UNCHANGED vars
    <2>1. \A m \in DOMAIN trackers' : CountsKept(m)
      BY <1>1 DEF CountsKept
    <2>2. dump' = dump /\ totals' = totals /\ (pc = "lines" <=> pc' = "lines")
      BY <1>1 DEF Start, Stop, StopReturn, runTick, runEnd, BeginTick, neighborsHang, routesFail,
           snapshotTrackers, acquirePing, pingsDone, writeState, Elapse, acquireHttp, refreshTracker
    <2> QED BY <2>1, <2>2 DEF Counters
  <1>2. CASE updateNeighbors
    <2>1. PICK ms \in SUBSET Mac : \E on \in [ms -> Device] :
            trackers' = [m \in DOMAIN trackers \cup listed' |->
                            IF m \in listed' THEN Seen(m, on[m]) ELSE trackers[m]]
      BY <1>2 DEF updateNeighbors
    <2>2. PICK on \in [ms -> Device] :
            trackers' = [m \in DOMAIN trackers \cup listed' |->
                            IF m \in listed' THEN Seen(m, on[m]) ELSE trackers[m]]
      BY <2>1
    <2>3. ASSUME NEW m \in DOMAIN trackers' PROVE CountsKept(m)
      <3>1. CASE m \in DOMAIN trackers
        BY <1>0, <2>2, <3>1 DEF CountsKept, Seen, Tracker
      <3>2. CASE m \notin DOMAIN trackers
        BY <2>2, <3>2 DEF CountsKept, Seen, NewTracker
      <3> QED BY <3>1, <3>2
    <2> QED BY <1>2, <2>3 DEF updateNeighbors, Counters
  <1>3. CASE updateStats
    <2>1. \A m \in DOMAIN trackers' : Same(m)
      BY <1>0, <1>3 DEF updateStats, Tracker
    <2> QED BY <1>3, <2>1 DEF updateStats, Counters, CountsKept
  <1>4. CASE updateRunningAverages
    <2>1. PICK q \in [DOMAIN trackers -> Delivered] :
            trackers' = [m \in DOMAIN trackers |-> Averaged(trackers[m], q[m])]
      BY <1>4 DEF updateRunningAverages
    <2>2. \A t \in Tracker, e \in Delivered :
            /\ Averaged(t, e).BabelRouteCount = t.BabelRouteCount
            /\ Averaged(t, e).NodeRouteCount = t.NodeRouteCount
            /\ Averaged(t, e).BabelMetric = t.BabelMetric
      BY DEF Averaged, Tracker
    <2>3. \A m \in DOMAIN trackers' : Same(m)
      BY <1>0, <2>1, <2>2
    <2> QED BY <1>4, <2>3 DEF updateRunningAverages, Counters, CountsKept
  <1>5. CASE remoteRefresh
    <2>1. \A m \in DOMAIN trackers' : Same(m)
      BY <1>0, <1>5 DEF remoteRefresh, Tracker
    <2> QED BY <1>5, <2>1 DEF remoteRefresh, Counters, CountsKept
  <1>6. ASSUME NEW r \in refreshes, refreshTracker(r)
        PROVE  /\ Counters' = Counters /\ pc' = pc
               /\ \A m \in DOMAIN trackers' : CountsKept(m)
    <2>0. ASSUME UNCHANGED trackers PROVE \A m \in DOMAIN trackers' : Same(m)
      BY <2>0
    <2>1. ASSUME NEW t \in Nat, trackers' = [trackers EXCEPT ![r.mac].Refresh = t]
          PROVE  \A m \in DOMAIN trackers' : Same(m)
      BY <1>0, <2>1 DEF Tracker
    <2>2. now \in Nat /\ \A jitter \in 0 .. RefreshRange : now + RefreshBase + jitter \in Nat
      BY ConstantTypes DEF TypeInv, TypeOK
    <2>3. \A m \in DOMAIN trackers' : Same(m)
      BY <1>6, <2>0, <2>1, <2>2 DEF refreshTracker
    <2> QED BY <1>6, <2>3 DEF refreshTracker, Counters, CountsKept
  <1>7. ASSUME NEW k \in DOMAIN pinging, pingTracker(k)
        PROVE  /\ Counters' = Counters /\ pc' = pc
               /\ \A m \in DOMAIN trackers' : CountsKept(m)
    <2>1. PICK success \in BOOLEAN : trackers' = [trackers EXCEPT ![k] = AfterPing(trackers[k], success)]
      BY <1>7 DEF pingTracker
    <2>2. \A t \in Tracker :
            /\ AfterPing(t, success).BabelRouteCount = t.BabelRouteCount
            /\ AfterPing(t, success).NodeRouteCount = t.NodeRouteCount
            /\ AfterPing(t, success).BabelMetric = t.BabelMetric
      BY DEF AfterPing, Tracker
    <2>3. \A m \in DOMAIN trackers' : Same(m)
      BY <1>0, <2>1, <2>2
    <2> QED BY <1>7, <2>3 DEF pingTracker, Counters, CountsKept
  <1>8. ASSUME NEW k \in DOMAIN pinging, calculateQuality(k)
        PROVE  /\ Counters' = Counters /\ pc' = pc
               /\ \A m \in DOMAIN trackers' : CountsKept(m)
    <2>1. \A m \in DOMAIN trackers' : Same(m)
      BY <1>0, <1>8 DEF calculateQuality, Tracker
    <2> QED BY <1>8, <2>1 DEF calculateQuality, Counters, CountsKept
  <1>9. CASE pruneTrackers
    <2>1. \A m \in DOMAIN trackers' : m \in DOMAIN trackers /\ trackers'[m] = trackers[m]
      BY <1>9 DEF pruneTrackers, Restrict
    <2> QED BY <1>9, <2>1 DEF pruneTrackers, Counters, CountsKept
  <1>10. CASE \E r \in refreshes : acquireHttp(r) \/ refreshTracker(r)
    BY <1>1, <1>6, <1>10 DEF acquireHttp
  <1>11. CASE \E m \in DOMAIN pinging : Ping(m)
    BY <1>7, <1>8, <1>11 DEF Ping
  <1>12. CASE \/ Start \/ Stop \/ StopReturn \/ runTick \/ runEnd \/ neighborsHang \/ routesFail
              \/ snapshotTrackers \/ acquirePing \/ pingsDone \/ writeState \/ Elapse \/ UNCHANGED vars
    <2>1. UNCHANGED trackers
      BY <1>12 DEF Start, Stop, StopReturn, runTick, runEnd, neighborsHang, routesFail,
           snapshotTrackers, acquirePing, pingsDone, writeState, Elapse
    <2> QED BY <1>1, <1>12, <2>1
  <1> QED BY <1>2, <1>3, <1>4, <1>5, <1>9, <1>10, <1>11, <1>12 DEF Next, Run

LEMMA NextRoutes == TypeInv /\ TypeInv' /\ RouteInv /\ [Next]_vars => RouteInv'
  BY KeptCounts, ResetRoutes, LineRoutes, EndRoutes, OtherCounts

\* RoutesAddUp: the routes of the trackers that are written add up to no more than
\* the totals written beside them, for any number of neighbours and routes, however
\* dumps fail, end early and neighbours come and go between them (updateRoutes,
\* pruneTrackers, writeState).
THEOREM Routes == Spec => []RoutesAddUp
  <1>1. RouteInv => RoutesAddUp
    BY DEF RouteInv, RoutesAddUp, Counters
  <1> QED BY <1>1, InitTypeInv, NextTypeInv, InitRoutes, NextRoutes, PTL DEF Spec
=============================================================================
