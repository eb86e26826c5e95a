------------------------------ MODULE LinkQuality ------------------------------
(***************************************************************************)
(* The link quality manager, internal/services/lqm/lqm.go: one tracker for *)
(* each neighbour babeld knows, brought up to date every tick and written  *)
(* to /tmp/lqm.info.  The tick runs in the goroutine of Start; a refresh   *)
(* from a neighbour's sysinfo runs in a goroutine nobody waits for, a ping *)
(* in one the tick waits for; Stop is called by the shutdown.              *)
(*                                                                         *)
(* What is done under mu is one step.  Time is in coarse units (a ticker   *)
(* may fire any number of times in one), 0 being Go's zero time.  Of the   *)
(* transmit counters it is kept whether one has grown and whether the      *)
(* average is positive; of a route line the tracker its next hop belongs   *)
(* to.  Fields that are only copied to the file (costs, round trip times,  *)
(* names, positions, addresses) are left out.                              *)
(***************************************************************************)
EXTENDS Integers, FiniteSets, FiniteSetsExt, Functions

CONSTANTS
    Mac,                \* neighbours
    Device,             \* interfaces babeld may name
    Supported,          \* those deviceToType knows (br-dtdlink, wg*)
    RefreshBase, RefreshRange, RefreshRetry, LastSeenTimeout, LastUpMargin,
    Full, Penalty,      \* the best quality, pingPenalty
    PingLimit,          \* weight of pingSem
    HttpLimit,          \* weight of httpSem
    Delivered,          \* shares of the packets sent that did not fail, as qualities
    Metrics,            \* of installed routes
    MaxTime, MaxRoutes, \* bounds of the model
    Hangs,              \* may babeld accept a connection and never answer?
    Stops               \* is there a shutdown?

ASSUME LinkQualityAssumption ==
    /\ IsFiniteSet(Mac) /\ Supported \subseteq Device
    /\ {RefreshBase, RefreshRetry, PingLimit, HttpLimit, MaxTime} \subseteq Nat \ {0}
    /\ {RefreshRange, LastSeenTimeout, LastUpMargin, MaxRoutes} \subseteq Nat
    /\ RefreshBase >= RefreshRetry      \* twelve and five minutes
    /\ Penalty \in Nat /\ Full \in Nat /\ Full >= Penalty /\ Penalty > 1
    /\ Delivered \subseteq 0 .. Full
    /\ Metrics \subseteq Nat /\ {Hangs, Stops} \subseteq BOOLEAN

VARIABLES
    now,        \* the clock
    pc,         \* where the goroutine of Start is
    tickStart,  \* `now' of tick
    lastTick,
    trackers,   \* a function from a subset of Mac to Tracker
    listed,     \* neighbours the dump of this tick named
    dump,       \* locals of updateRoutes: totalRoutes and totalNodeRoutes
    totals,     \* totalRouteCount and totalNodeRouteCount
    refreshes,  \* goroutines of remoteRefresh
    toPing,     \* trackers updateTrackingState has still to start
    pinging,    \* the goroutines it has started: [mac -> "ping" | "quality"]
    stopPc      \* where the goroutine of Stop is: "none", "wait", "returned"

vars == <<now, pc, tickStart, lastTick, trackers, listed, dump, totals, refreshes,
          toPing, pinging, stopPc>>

None == "none"
Nil == -1               \* a Quality that is nil
MaxInt32 == 2147483647  \* the metric of a tracker no route was found for yet
Time == 0 .. MaxTime + RefreshBase + RefreshRange + RefreshRetry

Tracker == [
    FirstSeen : Time, LastSeen : Time, LastUp : Time, Refresh : Time,
    Device : Supported,
    sample : {"none", "same", "grown"},     \* TxPackets against LastTxPackets
    sending : BOOLEAN,                      \* AvgTx > 0
    TxQuality : 0 .. Full, PingQuality : 0 .. Full,
    Quality : (0 .. Full) \cup {Nil},
    BabelRouteCount : 0 .. MaxRoutes, NodeRouteCount : 0 .. MaxRoutes,
    BabelMetric : Nat ]

\* A tracker is known by its neighbour and by when it was made: one that was
\* pruned is not the one made later for the same neighbour.
Refreshing == [mac : Mac, made : Time, since : Time, at : {"acquire", "get"}]

TypeOK ==
    /\ now \in 1 .. MaxTime
    /\ pc \in {"start", "neighbors", "hung", "routes", "lines", "stats", "averages", "refresh",
               "snapshot", "ping", "prune", "write", "sleep", "blocked"}
    /\ tickStart \in 0 .. MaxTime /\ lastTick \in 0 .. MaxTime
    /\ DOMAIN trackers \subseteq Mac /\ \A m \in DOMAIN trackers : trackers[m] \in Tracker
    /\ listed \subseteq Mac
    /\ dump \in [routes : 0 .. MaxRoutes, nodes : 0 .. MaxRoutes]
    /\ totals \in [routes : 0 .. MaxRoutes, nodes : 0 .. MaxRoutes]
    /\ refreshes \subseteq Refreshing
    /\ toPing \subseteq DOMAIN trackers
    /\ DOMAIN pinging \subseteq DOMAIN trackers /\ Range(pinging) \subseteq {"ping", "quality"}
    /\ Cardinality(DOMAIN pinging) <= PingLimit
    /\ stopPc \in {"none", "wait", "returned"}

Zero == [routes |-> 0, nodes |-> 0]

Init ==
    /\ now = 1 /\ pc = "start" /\ tickStart = 0 /\ lastTick = 0
    /\ trackers = <<>> /\ listed = {} /\ dump = Zero /\ totals = Zero
    /\ refreshes = {} /\ toPing = {} /\ pinging = <<>>
    /\ stopPc = "none"

\* The context is cancelled; Stop does so together with setting s.stopping.
stopping == stopPc # "none"

\* The goroutine is counted in s.wg.
Counted == pc \notin {"start", "blocked"}

NewTracker(d) == [
    FirstSeen |-> now, LastSeen |-> now, LastUp |-> now, Refresh |-> 0, Device |-> d,
    sample |-> "none", sending |-> FALSE, TxQuality |-> 0, PingQuality |-> 0, Quality |-> Nil,
    BabelRouteCount |-> 0, NodeRouteCount |-> 0, BabelMetric |-> 0]

-----------------------------------------------------------------------------
(* Start, Stop and run.  The registry calls Start again whenever it        *)
(* returns, so a Start that finds s.stopping blocks.                       *)

BeginTick == tickStart' = now /\ pc' = "neighbors"

\* Variant: Start does not look at s.stopping.
StartAgain ==
    /\ pc = "start"
    /\ BeginTick
    /\ UNCHANGED <<now, lastTick, trackers, listed, dump, totals, refreshes, toPing, pinging, stopPc>>

Start ==
    /\ pc = "start"
    /\ IF stopping THEN pc' = "blocked" /\ UNCHANGED tickStart ELSE BeginTick
    /\ UNCHANGED <<now, lastTick, trackers, listed, dump, totals, refreshes, toPing, pinging, stopPc>>

Stop ==
    /\ Stops
    /\ stopPc = "none" /\ stopPc' = "wait"
    /\ UNCHANGED <<now, pc, tickStart, lastTick, trackers, listed, dump, totals, refreshes,
                   toPing, pinging>>

StopReturn ==
    /\ stopPc = "wait" /\ ~Counted
    /\ stopPc' = "returned"
    /\ UNCHANGED <<now, pc, tickStart, lastTick, trackers, listed, dump, totals, refreshes,
                   toPing, pinging>>

\* The select of run: with both channels ready either case is taken.
runTick ==
    /\ pc = "sleep" /\ BeginTick
    /\ UNCHANGED <<now, lastTick, trackers, listed, dump, totals, refreshes, toPing, pinging, stopPc>>

\* Variant: the loop does not look at the context.
runEndDeaf ==
    /\ pc = "sleep" /\ stopPc = "returned" /\ pc' = "start"
    /\ UNCHANGED <<now, tickStart, lastTick, trackers, listed, dump, totals, refreshes, toPing,
                   pinging, stopPc>>

runEnd ==
    /\ pc = "sleep" /\ stopping /\ pc' = "start"
    /\ UNCHANGED <<now, tickStart, lastTick, trackers, listed, dump, totals, refreshes, toPing,
                   pinging, stopPc>>

-----------------------------------------------------------------------------
(* updateNeighbors, updateRoutes                                           *)

\* The tracker of a neighbour after a line of the dump that names device d.
Seen(m, d) ==
    IF m \in DOMAIN trackers THEN [trackers[m] EXCEPT !.LastSeen = now] ELSE NewTracker(d)

\* The whole loop runs under mu.  The dump may not come (no connection) or be
\* cut short, and a line with another device is skipped.  A known tracker keeps
\* the device it was made with.
updateNeighbors ==
    /\ pc = "neighbors" /\ pc' = "routes"
    /\ \E ms \in SUBSET Mac : \E on \in [ms -> Device] :
          /\ listed' = {m \in ms : on[m] \in Supported}
          /\ trackers' = [m \in DOMAIN trackers \cup listed' |->
                            IF m \in listed' THEN Seen(m, on[m]) ELSE trackers[m]]
    /\ UNCHANGED <<now, tickStart, lastTick, dump, totals, refreshes, toPing, pinging, stopPc>>

\* The read has no deadline and does not look at the context.
neighborsHang ==
    /\ Hangs
    /\ pc = "neighbors" /\ pc' = "hung"
    /\ UNCHANGED <<now, tickStart, lastTick, trackers, listed, dump, totals, refreshes, toPing,
                   pinging, stopPc>>

\* updateRoutes gives up before it has changed anything.
routesFail ==
    /\ pc = "routes" /\ pc' = "stats"
    /\ UNCHANGED <<now, tickStart, lastTick, trackers, listed, dump, totals, refreshes, toPing,
                   pinging, stopPc>>

routesReset ==
    /\ pc = "routes" /\ pc' = "lines"
    /\ trackers' = [m \in DOMAIN trackers |-> [trackers[m] EXCEPT
                      !.NodeRouteCount = 0, !.BabelRouteCount = 0, !.BabelMetric = MaxInt32]]
    /\ UNCHANGED <<now, tickStart, lastTick, listed, dump, totals, refreshes, toPing, pinging, stopPc>>

\* An installed IPv4 route, whose next hop is some tracker's or nobody's.  Lines
\* of other routes change nothing.
routesLine ==
    /\ pc = "lines"
    /\ dump.routes < MaxRoutes
    /\ \E via \in DOMAIN trackers \cup {None}, isNode \in BOOLEAN, metric \in Metrics :
          LET one == IF isNode /\ via # None THEN 1 ELSE 0
          IN  /\ dump' = [routes |-> dump.routes + 1, nodes |-> dump.nodes + one]
              /\ trackers' = [m \in DOMAIN trackers |-> IF m # via THEN trackers[m] ELSE
                   [trackers[m] EXCEPT
                      !.BabelRouteCount = @ + 1,
                      !.NodeRouteCount = @ + one,
                      !.BabelMetric = IF metric < @ THEN metric ELSE @]]
    /\ UNCHANGED <<now, pc, tickStart, lastTick, listed, totals, refreshes, toPing, pinging, stopPc>>

\* Variant: a dump that was cut short by the deadline is given up.
routesEndOnlyWhole ==
    /\ pc = "lines" /\ pc' = "stats"
    /\ dump' = Zero
    /\ \/ /\ totals' = dump
          /\ trackers' = [m \in DOMAIN trackers |->
                [trackers[m] EXCEPT !.BabelMetric = IF @ = MaxInt32 THEN 0 ELSE @]]
       \/ UNCHANGED <<totals, trackers>>
    /\ UNCHANGED <<now, tickStart, lastTick, listed, refreshes, toPing, pinging, stopPc>>

\* The end of the dump or the deadline: the totals are those of the lines read.
routesEnd ==
    /\ pc = "lines" /\ pc' = "stats"
    /\ totals' = dump /\ dump' = Zero
    /\ trackers' = [m \in DOMAIN trackers |->
          [trackers[m] EXCEPT !.BabelMetric = IF @ = MaxInt32 THEN 0 ELSE @]]
    /\ UNCHANGED <<now, tickStart, lastTick, listed, refreshes, toPing, pinging, stopPc>>

-----------------------------------------------------------------------------
(* updateStats, updateRunningAverages                                      *)

\* For each device one tracker, any one, gets the device's counters; they have
\* grown since its last sample or not (the interface may be a new one).
updateStats ==
    /\ pc = "stats" /\ pc' = "averages"
    /\ \E grown \in SUBSET {m \in DOMAIN trackers : trackers[m].sample # "none"} :
          /\ \A m, k \in grown : trackers[m].Device = trackers[k].Device => m = k
          /\ trackers' = [m \in DOMAIN trackers |->
                IF m \in grown THEN [trackers[m] EXCEPT !.sample = "grown"] ELSE trackers[m]]
    /\ UNCHANGED <<now, tickStart, lastTick, listed, dump, totals, refreshes, toPing, pinging, stopPc>>

\* The first sample is only remembered.  A positive average never falls to zero
\* again; the quality is then 100 times the share that did not fail.
Averaged(t, q) ==
    LET sending == t.sending \/ t.sample = "grown"
    IN  [t EXCEPT !.sample = "same", !.sending = sending, !.TxQuality = IF sending THEN q ELSE @]

updateRunningAverages ==
    /\ pc = "averages" /\ pc' = "refresh"
    /\ \E q \in [DOMAIN trackers -> Delivered] :
          trackers' = [m \in DOMAIN trackers |-> Averaged(trackers[m], q[m])]
    /\ UNCHANGED <<now, tickStart, lastTick, listed, dump, totals, refreshes, toPing, pinging, stopPc>>

-----------------------------------------------------------------------------
(* remoteRefresh and its goroutines                                        *)

\* Refresh is in whole seconds, so the second it names is already after it.
Due == {m \in DOMAIN trackers : now >= trackers[m].Refresh}

Spawn == {[mac |-> m, made |-> trackers[m].FirstSeen, since |-> now, at |-> "acquire"] : m \in Due}

\* Variant: the next refresh is set by the refresh itself only.
remoteRefreshUnmarked ==
    /\ pc = "refresh" /\ pc' = "snapshot"
    /\ refreshes' = refreshes \cup Spawn
    /\ UNCHANGED <<now, tickStart, lastTick, trackers, listed, dump, totals, toPing, pinging, stopPc>>

remoteRefresh ==
    /\ pc = "refresh" /\ pc' = "snapshot"
    /\ trackers' = [m \in DOMAIN trackers |->
          [trackers[m] EXCEPT !.Refresh = IF m \in Due THEN now + RefreshRetry ELSE @]]
    /\ refreshes' = refreshes \cup Spawn
    /\ UNCHANGED <<now, tickStart, lastTick, listed, dump, totals, toPing, pinging, stopPc>>

\* httpSem.Acquire; with the context cancelled the goroutine ends.
acquireHttp(r) ==
    /\ r.at = "acquire"
    /\ \/ /\ Cardinality({s \in refreshes : s.at = "get"}) < HttpLimit
          /\ refreshes' = (refreshes \ {r}) \cup {[r EXCEPT !.at = "get"]}
       \/ /\ stopping
          /\ refreshes' = refreshes \ {r}
    /\ UNCHANGED <<now, pc, tickStart, lastTick, trackers, listed, dump, totals, toPing, pinging, stopPc>>

\* The request, its result, and the release of httpSem.  No answer, or one that
\* is not JSON, leaves the mark of remoteRefresh.  What a goroutine writes
\* through its pointer is lost if the tracker is no longer the one in the map.
refreshTracker(r) ==
    /\ r.at = "get"
    /\ refreshes' = refreshes \ {r}
    /\ \/ UNCHANGED trackers
       \/ /\ r.mac \in DOMAIN trackers /\ trackers[r.mac].FirstSeen = r.made
          /\ \E jitter \in 0 .. RefreshRange :
                trackers' = [trackers EXCEPT ![r.mac].Refresh = now + RefreshBase + jitter]
    /\ UNCHANGED <<now, pc, tickStart, lastTick, listed, dump, totals, toPing, pinging, stopPc>>

-----------------------------------------------------------------------------
(* updateTrackingState, pingTracker, calculateQuality                      *)

snapshotTrackers ==
    /\ pc = "snapshot" /\ pc' = "ping"
    /\ toPing' = DOMAIN trackers
    /\ UNCHANGED <<now, tickStart, lastTick, trackers, listed, dump, totals, refreshes, pinging, stopPc>>

\* pingSem.Acquire comes before the goroutine; with the context cancelled it may
\* fail, and the rest of the trackers is left out.
acquirePing ==
    /\ pc = "ping" /\ toPing # {}
    /\ \/ /\ Cardinality(DOMAIN pinging) < PingLimit
          /\ \E m \in toPing :
                /\ toPing' = toPing \ {m}
                /\ pinging' = [k \in DOMAIN pinging \cup {m} |-> IF k = m THEN "ping" ELSE pinging[k]]
       \/ /\ stopping
          /\ toPing' = {} /\ UNCHANGED pinging
    /\ UNCHANGED <<now, pc, tickStart, lastTick, trackers, listed, dump, totals, refreshes, stopPc>>

Clamp(q) == Min({Full, q})

\* The quality after a ping.  A first success counts in full; a failure costs
\* the penalty, less the one every ping adds, and never goes below zero.
Pinged(q, success) ==
    CASE q = 0 /\ success -> Full
      [] q = 0 /\ ~success -> 0
      [] q > 0 /\ success -> Clamp(q + 1)
      [] q > 0 /\ ~success -> IF q + 1 <= Penalty THEN 0 ELSE q + 1 - Penalty

\* Variant: LastUp is compared with the clock and not with the last tick.
pingTrackerNow(m) ==
    /\ pinging[m] = "ping" /\ pinging' = [pinging EXCEPT ![m] = "quality"]
    /\ \E success \in BOOLEAN :
          trackers' = [trackers EXCEPT ![m] = [@ EXCEPT
             !.PingQuality = Pinged(@, success),
             !.LastUp = IF success /\ trackers[m].LastSeen + LastUpMargin < now THEN now ELSE @,
             !.LastSeen = IF success THEN now ELSE @]]
    /\ UNCHANGED <<now, pc, tickStart, lastTick, listed, dump, totals, refreshes, toPing, stopPc>>

\* The tracker after a ping.  LastUp moves when the last tick was later than what
\* was heard of the neighbour before.
AfterPing(t, success) ==
    [t EXCEPT
        !.PingQuality = Pinged(t.PingQuality, success),
        !.LastUp = IF success /\ lastTick # 0 /\ t.LastSeen + LastUpMargin < lastTick
                   THEN now ELSE t.LastUp,
        !.LastSeen = IF success THEN now ELSE t.LastSeen]

\* ping6 has run and mu is held.
pingTracker(m) ==
    /\ pinging[m] = "ping" /\ pinging' = [pinging EXCEPT ![m] = "quality"]
    /\ \E success \in BOOLEAN : trackers' = [trackers EXCEPT ![m] = AfterPing(trackers[m], success)]
    /\ UNCHANGED <<now, pc, tickStart, lastTick, listed, dump, totals, refreshes, toPing, stopPc>>

QualityOf(tx, ping) ==
    CASE tx > 0 /\ ping > 0 -> (tx + ping + 1) \div 2     \* math.Round of the mean
      [] tx > 0 /\ ping = 0 -> tx
      [] tx = 0 /\ ping > 0 -> ping
      [] tx = 0 /\ ping = 0 -> Nil

\* Then wg.Done and the release of pingSem.
calculateQuality(m) ==
    /\ pinging[m] = "quality"
    /\ pinging' = Restrict(pinging, DOMAIN pinging \ {m})
    /\ trackers' = [trackers EXCEPT ![m].Quality =
          QualityOf(trackers[m].TxQuality, trackers[m].PingQuality)]
    /\ UNCHANGED <<now, pc, tickStart, lastTick, listed, dump, totals, refreshes, toPing, stopPc>>

pingsDone ==
    /\ pc = "ping" /\ toPing = {} /\ DOMAIN pinging = {}
    /\ pc' = "prune"
    /\ UNCHANGED <<now, tickStart, lastTick, trackers, listed, dump, totals, refreshes, toPing,
                   pinging, stopPc>>

-----------------------------------------------------------------------------
(* pruneTrackers, writeState                                               *)

\* Variant: the age is counted from when the tracker was made.
pruneTrackersByAge ==
    /\ pc = "prune" /\ pc' = "write"
    /\ trackers' = Restrict(trackers,
          {m \in DOMAIN trackers : tickStart <= trackers[m].FirstSeen + LastSeenTimeout})
    /\ UNCHANGED <<now, tickStart, lastTick, listed, dump, totals, refreshes, toPing, pinging, stopPc>>

pruneTrackers ==
    /\ pc = "prune" /\ pc' = "write"
    /\ trackers' = Restrict(trackers,
          {m \in DOMAIN trackers : tickStart <= trackers[m].LastSeen + LastSeenTimeout})
    /\ UNCHANGED <<now, tickStart, lastTick, listed, dump, totals, refreshes, toPing, pinging, stopPc>>

\* The trackers and the totals of this state go to the file; s.lastTick is set.
writeState ==
    /\ pc = "write" /\ pc' = "sleep"
    /\ lastTick' = tickStart /\ listed' = {}
    /\ UNCHANGED <<now, tickStart, trackers, dump, totals, refreshes, toPing, pinging, stopPc>>

\* The other steps of a tick do not read the clock.
Elapse ==
    /\ pc \in {"start", "neighbors", "refresh", "ping", "sleep"}
    /\ now < MaxTime /\ now' = now + 1
    /\ UNCHANGED <<pc, tickStart, lastTick, trackers, listed, dump, totals, refreshes, toPing,
                   pinging, stopPc>>

-----------------------------------------------------------------------------

\* The goroutine of Start, except for the choice of another route line.
Run ==
    \/ Start \/ runTick \/ runEnd
    \/ updateNeighbors \/ routesFail \/ routesReset \/ routesEnd
    \/ updateStats \/ updateRunningAverages \/ remoteRefresh
    \/ snapshotTrackers \/ acquirePing \/ pingsDone \/ pruneTrackers \/ writeState

Ping(m) == pingTracker(m) \/ calculateQuality(m)

Next ==
    \/ Run \/ routesLine \/ neighborsHang
    \/ \E m \in DOMAIN pinging : Ping(m)
    \/ \E r \in refreshes : acquireHttp(r) \/ refreshTracker(r)
    \/ Stop \/ StopReturn
    \/ Elapse

Spec == Init /\ [][Next]_vars

\* The goroutines are scheduled; a ping ends by its own timeout, a dump of the
\* routes by its deadline; run's select,
\* which chooses at random, does not ignore the context for ever.
FairSpec ==
    /\ Spec
    /\ WF_vars(Run) /\ WF_vars(StopReturn) /\ SF_vars(runEnd)
    /\ WF_vars(\E m \in DOMAIN pinging : Ping(m))

-----------------------------------------------------------------------------
(* Properties                                                              *)

\* The routes the trackers count, one by one: as many as the counts add up to.
Route       == [via : DOMAIN trackers, no : 1 .. MaxRoutes]
BabelRoutes == {r \in Route : r.no <= trackers[r.via].BabelRouteCount}
NodeRoutes  == {r \in Route : r.no <= trackers[r.via].NodeRouteCount}

\* RoutesAddUp: in the state that is written no tracker carries the metric that
\* stands for none, and the trackers' route counts add up to no more than the
\* totals, although dumps fail or are cut short and trackers come and go between
\* two dumps (updateRoutes, pruneTrackers, writeState).
RoutesAddUp ==
    pc = "write" =>
        /\ \A m \in DOMAIN trackers : trackers[m].BabelMetric # MaxInt32
        /\ Cardinality(BabelRoutes) <= totals.routes
        /\ Cardinality(NodeRoutes) <= totals.nodes

\* RefreshesBounded: however slow the neighbours are, two refreshes of one tracker
\* are under way together only if the older was started a whole retry timeout
\* before (the mark remoteRefresh sets against "re-scheduling in the next tick"),
\* and no more than HttpLimit requests are made at once.
RefreshesBounded ==
    /\ \A r, s \in refreshes :
        (r # s /\ r.mac = s.mac /\ r.made = s.made) =>
            r.since + RefreshRetry <= s.since \/ s.since + RefreshRetry <= r.since
    /\ Cardinality({r \in refreshes : r.at = "get"}) <= HttpLimit

\* NeighborsWritten: what is written has a tracker for every neighbour of this
\* tick's dump, and none for one that was not heard of, by dump or ping, within
\* the timeout before the tick (updateNeighbors, pruneTrackers).
NeighborsWritten ==
    pc = "write" =>
        /\ listed \subseteq DOMAIN trackers
        /\ \A m \in DOMAIN trackers : tickStart <= trackers[m].LastSeen + LastSeenTimeout

\* UpOnlyWithoutBabel: LastUp moves only for a neighbour this tick's dump did not
\* name: the dump has set LastSeen before the ping compares it (pingTracker).
UpOnlyWithoutBabel ==
    [][\A m \in DOMAIN trackers \cap DOMAIN trackers' :
          (trackers[m].FirstSeen = trackers'[m].FirstSeen /\ trackers'[m].LastUp # trackers[m].LastUp)
             => m \notin listed]_vars

\* StopIsFinal: once Stop has returned no tick runs and none will, although the
\* registry goes on calling Start (startStopMu, s.stopping, s.wg).
StopIsFinal == stopPc = "returned" => pc \in {"start", "blocked"}

\* StopReturns: a Stop returns, unless the tick waits for babeld in
\* updateNeighbors, where nothing ends the wait.
StopReturns == stopPc = "wait" ~> (stopPc = "returned" \/ pc = "hung")
=============================================================================
