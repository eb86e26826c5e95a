--------------------------- MODULE InterfaceWatcher ---------------------------
(***************************************************************************)
(* How a tunnel's row learns whether the tunnel is up:                     *)
(*   internal/ifacewatcher/watcher.go    the watcher's one second loop     *)
(*   internal/bandwidth/stat_counter.go  one goroutine per watched interface*)
(*   internal/metrics/olsr.go            OLSRWatcher's goroutine           *)
(*   cmd/server.go                       the two shutdown steps            *)
(* They share the tunnels table (each writes whole rows it read earlier,   *)
(* with gorm's Save, which inserts a row that is missing) and the kernel's *)
(* interfaces, which the wireguard manager creates and deletes meanwhile.  *)
(*                                                                         *)
(* Interface and tunnel are one to one, so an interface's name is its      *)
(* tunnel.  Of a row, the columns Active and TunnelInterface are kept; the *)
(* traffic figures and the events sent to the websocket are left out.      *)
(***************************************************************************)
EXTENDS Naturals, Sequences, FiniteSets

CONSTANTS
    Tunnel,     \* the tunnels in the table at startup
    NoTunnel,
    Server,     \* the tunnels this node hosts (interfaces wgs...)
    Legacy,     \* vtun tunnels (interfaces tun...); the others are wireguard
    Slot,       \* bound: goroutines of one interface that may overlap
    MaxIndex,   \* bound: times an interface is created
    Olsr,       \* config.OLSR: does OLSRWatcher run?
    Stale,      \* tunnels whose row still names an interface at startup
    Unstable,   \* tunnels whose interface is deleted and created meanwhile
    Deletes,    \* tunnels whose row a DELETE may remove
    Stops,      \* may the server be stopped?
    Failures    \* may net.Interfaces or a statement of the database fail?

ASSUME WatcherAssumption ==
    /\ IsFiniteSet(Tunnel) /\ NoTunnel \notin Tunnel
    /\ Server \subseteq Tunnel /\ Legacy \subseteq Tunnel
    /\ Server \cap Legacy = {}
    /\ Stale \subseteq Tunnel /\ Unstable \subseteq Tunnel /\ Deletes \subseteq Tunnel
    /\ Slot \subseteq Nat \ {0}
    /\ MaxIndex \in Nat \ {0}
    /\ Olsr \in BOOLEAN /\ Stops \in BOOLEAN /\ Failures \in BOOLEAN

VARIABLES
    row,        \* [Tunnel]: is the row there, its Active, is TunnelInterface set
    link,       \* [Tunnel]: index of its interface, 0 if there is none
    made,       \* [Tunnel]: how often its interface was created
    fresh,      \* [Tunnel]: was the last handshake within 180 seconds?
    wpc,        \* the watcher's next step
    backing,    \* array behind w.interfaces, as long as when the sweep began
    len,        \* len(w.interfaces)
    pos,        \* the index of the range loop
    snap,       \* what net.Interfaces returned and is not yet looked at
    seen,       \* what net.Interfaces returned
    found,      \* the interface findTunnel has found the tunnel of
    toMark,     \* w.interfacesToMarkInactive
    counters,   \* [Tunnel]: the counter registered for the interface, 0 if none
    loop,       \* [Tunnel][Slot]: the counter's goroutine
    running,    \* [Tunnel][Slot]: the counter's running flag
    olsr,       \* tunnel whose row OLSRWatcher has read and not yet saved
    shutdown    \* progress of cmd/server.go's stop

env      == <<link, made, fresh>>
watcher  == <<wpc, backing, len, pos, snap, seen, found, toMark>>
counting == <<counters, loop, running>>
vars == <<row, env, watcher, counting, olsr, shutdown>>

Row   == [in : BOOLEAN, active : BOOLEAN, named : BOOLEAN]
Iface == [t : Tunnel, idx : 1 .. MaxIndex]
Entry == [t : Tunnel, idx : 1 .. MaxIndex, active : BOOLEAN]
Nobody == [t |-> NoTunnel, idx |-> 0, active |-> FALSE]

TypeOK ==
    /\ row \in [Tunnel -> Row]
    /\ link \in [Tunnel -> 0 .. MaxIndex] /\ made \in [Tunnel -> 0 .. MaxIndex]
    /\ fresh \in [Tunnel -> BOOLEAN]
    /\ wpc \in {"list", "sweep", "discover", "add", "inactive", "active", "done", "crashed"}
    /\ backing \in Seq(Entry) /\ toMark \in Seq(Entry)
    /\ len \in 0 .. Len(backing)
    /\ pos \in Nat
    /\ snap \subseteq Iface /\ seen \subseteq Iface
    /\ found \in Entry \cup {Nobody}
    /\ counters \in [Tunnel -> Slot \cup {0}]
    /\ loop \in [Tunnel -> [Slot -> {"off", "sleep", "save"}]]
    /\ running \in [Tunnel -> [Slot -> BOOLEAN]]
    /\ olsr \in Tunnel \cup {NoTunnel}
    /\ shutdown \in {"no", "stopped", "cleared"}

\* The rows after ClearActiveFromAllTunnels, which leaves TunnelInterface as the
\* last run of the server left it; the interfaces are the wireguard manager's.
Init ==
    /\ row = [t \in Tunnel |-> [in |-> TRUE, active |-> FALSE, named |-> t \in Stale]]
    /\ link = [t \in Tunnel |-> 1] /\ made = [t \in Tunnel |-> 1]
    /\ fresh = [t \in Tunnel |-> FALSE]
    /\ wpc = "list" /\ backing = <<>> /\ len = 0 /\ pos = 1
    /\ snap = {} /\ seen = {} /\ found = Nobody /\ toMark = <<>>
    /\ counters = [t \in Tunnel |-> 0]
    /\ loop = [t \in Tunnel |-> [s \in Slot |-> "off"]]
    /\ running = [t \in Tunnel |-> [s \in Slot |-> FALSE]]
    /\ olsr = NoTunnel /\ shutdown = "no"

\* A panic of the watcher's goroutine ends the process.
Crashed == wpc = "crashed"

-----------------------------------------------------------------------------
(* The table and the slice.                                                *)

\* Save of a whole row: it writes Active and TunnelInterface, inserts the row
\* when it is missing, and may fail; the watcher ignores the error.
Save(t, active, named) ==
    row' \in {[row EXCEPT ![t] = [in |-> TRUE, active |-> active, named |-> named]]}
             \cup (IF Failures THEN {row} ELSE {})

\* w.interfaces
interfaces == SubSeq(backing, 1, len)

Tracked == {interfaces[k].t : k \in 1 .. len}

\* The tunnel's interface is up, as far as the watcher's test can tell.
wgInterfaceActive(t) == link[t] # 0 /\ fresh[t]

\* remove(w.interfaces, e): append(s[:k], s[k+1:]...) moves the entries behind k
\* down in the array the sweep is still iterating over.
Shifted(k) == [j \in 1 .. Len(backing) |-> IF k <= j /\ j < len THEN backing[j + 1] ELSE backing[j]]

Matches(e, k) == interfaces[k].t = e.t /\ interfaces[k].idx = e.idx

-----------------------------------------------------------------------------
(* The loop of Watch.                                                      *)

\* net.Interfaces(); on an error the cycle goes straight to reconcileDB.
ListInterfaces ==
    /\ wpc = "list"
    /\ toMark' = <<>> /\ pos' = 1
    /\ \/ /\ shutdown # "no"
          /\ wpc' = "done"
          /\ UNCHANGED <<snap, seen>>
       \/ /\ shutdown = "no"
          /\ seen' = {[t |-> t, idx |-> link[t]] : t \in {t \in Tunnel : link[t] # 0}}
          /\ snap' = seen'
          /\ wpc' = "sweep"
       \/ /\ shutdown = "no" /\ Failures
          /\ wpc' = "inactive"
          /\ UNCHANGED <<snap, seen>>
    /\ UNCHANGED <<row, env, backing, len, found, counting, olsr, shutdown>>

\* Is the interface of a watched entry gone, by the test for its kind?
Gone(e) ==
    IF e.t \in Legacy
    THEN [t |-> e.t, idx |-> e.idx] \notin seen
    ELSE ~wgInterfaceActive(e.t)

\* Stats.Remove: the counter is forgotten and its goroutine told to stop.
StatsRemove(t) ==
    /\ counters' = [counters EXCEPT ![t] = 0]
    /\ running' = [running EXCEPT ![t][counters[t]] = FALSE]
    /\ UNCHANGED loop

\* Variant: an entry no counter is registered for is removed and marked as well.
SweepOneAnyway ==
    /\ wpc = "sweep" /\ pos <= Len(backing)
    /\ LET e == backing[pos]
       IN  IF Gone(e)
           THEN /\ IF counters[e.t] # 0 THEN StatsRemove(e.t) ELSE UNCHANGED counting
                /\ toMark' = Append(toMark, e)
                /\ \E k \in 1 .. len + 1 :
                      /\ \A j \in 1 .. k - 1 : ~Matches(e, j)
                      /\ \/ k <= len /\ Matches(e, k) /\ backing' = Shifted(k) /\ len' = len - 1
                         \/ k = len + 1 /\ UNCHANGED <<backing, len>>
           ELSE UNCHANGED <<toMark, backing, len, counting>>
    /\ pos' = pos + 1
    /\ UNCHANGED <<row, env, wpc, snap, seen, found, olsr, shutdown>>

\* Variant: remove is handed a copy and its result is dropped.
SweepOneKept ==
    /\ wpc = "sweep" /\ pos <= Len(backing)
    /\ LET e == backing[pos]
       IN  IF Gone(e) /\ counters[e.t] # 0
           THEN /\ StatsRemove(e.t)
                /\ toMark' = Append(toMark, e)
           ELSE UNCHANGED <<toMark, counting>>
    /\ pos' = pos + 1
    /\ UNCHANGED <<row, env, wpc, backing, len, snap, seen, found, olsr, shutdown>>

\* One turn of the loop over w.interfaces.  It ranges over the slice as it was,
\* while remove shifts the array: entries are skipped, others met twice.  An
\* entry met again has no counter any more and goes no further.
SweepOne ==
    /\ wpc = "sweep" /\ pos <= Len(backing)
    /\ LET e == backing[pos]
       IN  IF Gone(e) /\ counters[e.t] # 0
           THEN /\ StatsRemove(e.t)
                /\ toMark' = Append(toMark, e)
                /\ \E k \in 1 .. len + 1 :
                      /\ \A j \in 1 .. k - 1 : ~Matches(e, j)
                      /\ \/ k <= len /\ Matches(e, k) /\ backing' = Shifted(k) /\ len' = len - 1
                         \/ k = len + 1 /\ UNCHANGED <<backing, len>>
           ELSE UNCHANGED <<toMark, backing, len, counting>>
    /\ pos' = pos + 1
    /\ UNCHANGED <<row, env, wpc, snap, seen, found, olsr, shutdown>>

SweepDone ==
    /\ wpc = "sweep" /\ pos > Len(backing)
    /\ backing' = interfaces
    /\ wpc' = "discover"
    /\ UNCHANGED <<row, env, len, pos, snap, seen, found, toMark, counting, olsr, shutdown>>

\* An interface that is up and not in w.interfaces.
IsNew(e) ==
    /\ e.t \in Legacy \/ wgInterfaceActive(e.t)
    /\ ~\E k \in 1 .. len : Matches(e, k)

\* One turn of the loop over net.Interfaces(), up to findTunnel.  An interface that
\* is gone has no addresses and iface.Addrs() may fail: either way there is no tunnel,
\* and the interface is passed over.  When no row has the IPv4 address, or the
\* database fails, findTunnel goes on to the IPv6 address, whose To4() is nil: for
\* a hosted tunnel that finds nothing, for the others the octet arithmetic on nil
\* panics.
DiscoverOne ==
    /\ wpc = "discover"
    /\ \E e \in snap :
          /\ snap' = snap \ {e}
          /\ \/ /\ \/ ~IsNew(e)
                   \/ Failures
                   \/ link[e.t] # e.idx
                /\ UNCHANGED <<wpc, found>>
             \/ /\ IsNew(e) /\ link[e.t] = e.idx /\ row[e.t].in
                /\ found' = [t |-> e.t, idx |-> e.idx, active |-> row[e.t].active]
                /\ wpc' = "add"
             \/ /\ IsNew(e) /\ link[e.t] = e.idx
                /\ ~row[e.t].in \/ Failures
                /\ wpc' = IF e.t \in Server THEN wpc ELSE "crashed"
                /\ UNCHANGED found
    /\ UNCHANGED <<row, env, backing, len, pos, seen, toMark, counting, olsr, shutdown>>

\* StatCounter.Start, when the link is there: a goroutine that begins with a sleep.
Start(t, s) ==
    /\ link[t] # 0
    /\ loop' = [loop EXCEPT ![t][s] = "sleep"]
    /\ running' = [running EXCEPT ![t][s] = TRUE]

\* Variant: a second counter replaces the registered one.
AddOneReplacing ==
    /\ wpc = "add"
    /\ LET t == found.t
       IN  \E s \in {s \in Slot : loop[t][s] = "off" /\ counters[t] # s} :
                 /\ counters' = [counters EXCEPT ![t] = s]
                 /\ \/ link[t] = 0 /\ UNCHANGED <<backing, len, loop, running>>
                    \/ Start(t, s) /\ backing' = Append(backing, found) /\ len' = len + 1
    /\ found' = Nobody
    /\ wpc' = "discover"
    /\ UNCHANGED <<row, env, pos, snap, seen, toMark, olsr, shutdown>>

\* Stats.Add, and the entry joins w.interfaces if it succeeds.  A registered
\* counter is an error; a link that has vanished is one as well, but leaves the
\* counter registered.
AddOne ==
    /\ wpc = "add"
    /\ LET t == found.t
       IN  \/ /\ counters[t] # 0
              /\ UNCHANGED <<backing, len, counting>>
           \/ /\ counters[t] = 0
              /\ \E s \in {s \in Slot : loop[t][s] = "off"} :
                    /\ counters' = [counters EXCEPT ![t] = s]
                    /\ \/ link[t] = 0 /\ UNCHANGED <<backing, len, loop, running>>
                       \/ Start(t, s) /\ backing' = Append(backing, found) /\ len' = len + 1
    /\ found' = Nobody
    /\ wpc' = "discover"
    /\ UNCHANGED <<row, env, pos, snap, seen, toMark, olsr, shutdown>>

DiscoverDone ==
    /\ wpc = "discover" /\ snap = {}
    /\ wpc' = "inactive" /\ pos' = 1
    /\ UNCHANGED <<row, env, backing, len, snap, seen, found, toMark, counting, olsr, shutdown>>

\* reconcileDB, the loop over interfacesToMarkInactive.
MarkInactive ==
    /\ wpc = "inactive"
    /\ IF pos <= Len(toMark)
       THEN /\ Save(toMark[pos].t, FALSE, FALSE)
            /\ pos' = pos + 1
            /\ UNCHANGED wpc
       ELSE /\ pos' = 1 /\ wpc' = "active"
            /\ UNCHANGED row
    /\ UNCHANGED <<env, backing, len, snap, seen, found, toMark, counting, olsr, shutdown>>

\* reconcileDB, the loop over w.interfaces: only entries whose copy of the row is
\* not active yet are written.  Then the second's sleep, and the next cycle.
MarkActive ==
    /\ wpc = "active"
    /\ IF pos <= len
       THEN /\ IF backing[pos].active
               THEN UNCHANGED <<row, backing>>
               ELSE /\ Save(backing[pos].t, TRUE, TRUE)
                    /\ backing' = [backing EXCEPT ![pos].active = TRUE]
            /\ pos' = pos + 1
            /\ UNCHANGED <<wpc, snap, seen, toMark>>
       ELSE /\ pos' = 1 /\ wpc' = "list"
            /\ snap' = {} /\ seen' = {} /\ toMark' = <<>>
            /\ UNCHANGED <<row, backing>>
    /\ UNCHANGED <<env, len, found, counting, olsr, shutdown>>

Watch ==
    \/ ListInterfaces \/ SweepOne \/ SweepDone \/ DiscoverOne \/ AddOne \/ DiscoverDone
    \/ MarkInactive \/ MarkActive

-----------------------------------------------------------------------------
(* The goroutine of StatCounter.Start: sleep, look the row up by interface  *)
(* name, look the link up, count, on every other tick save the row.        *)

\* The test of "for s.running", reached after each tick.
LoopTop(t, s) == loop' = [loop EXCEPT ![t][s] = IF running[t][s] THEN "sleep" ELSE "off"]

CounterLook(t, s) ==
    /\ ~Crashed
    /\ loop[t][s] = "sleep"
    /\ \/ /\ Failures \/ ~row[t].in \/ ~row[t].named \/ ~row[t].active \/ link[t] = 0
          /\ loop' = [loop EXCEPT ![t][s] = "off"]
       \/ /\ row[t].in /\ row[t].named /\ row[t].active /\ link[t] # 0
          /\ \/ loop' = [loop EXCEPT ![t][s] = "save"]
             \/ LoopTop(t, s)
    /\ UNCHANGED <<row, env, watcher, counters, running, olsr, shutdown>>

\* db.Save(tunnel): the row as it was read, active and named.  The INSERT of a
\* missing row is given a value, not a pointer, and may fail.
CounterSave(t, s) ==
    /\ ~Crashed
    /\ loop[t][s] = "save"
    /\ \/ Save(t, TRUE, TRUE)
       \/ ~row[t].in /\ UNCHANGED row
    /\ LoopTop(t, s)
    /\ UNCHANGED <<env, watcher, counters, running, olsr, shutdown>>

Counter == \E t \in Tunnel, s \in Slot : CounterLook(t, s) \/ CounterSave(t, s)

-----------------------------------------------------------------------------
(* OLSRWatcher's goroutine, for one interface of olsrd's link list.        *)

OlsrFind(t) ==
    /\ ~Crashed
    /\ Olsr /\ olsr = NoTunnel
    /\ row[t].in /\ row[t].named
    /\ olsr' = t
    /\ UNCHANGED <<row, env, watcher, counting, shutdown>>

OlsrSave ==
    /\ ~Crashed
    /\ olsr # NoTunnel
    /\ Save(olsr, TRUE, TRUE)
    /\ olsr' = NoTunnel
    /\ UNCHANGED <<env, watcher, counting, shutdown>>

OLSRWatcher == OlsrSave \/ \E t \in Tunnel : OlsrFind(t)

-----------------------------------------------------------------------------
(* The wireguard manager, the peers and the handlers.                      *)

LinkUp(t) ==
    /\ ~Crashed
    /\ link[t] = 0 /\ row[t].in /\ made[t] < MaxIndex
    /\ link' = [link EXCEPT ![t] = made[t] + 1]
    /\ made' = [made EXCEPT ![t] = made[t] + 1]
    /\ UNCHANGED <<row, fresh, watcher, counting, olsr, shutdown>>

LinkDown(t) ==
    /\ ~Crashed
    /\ link[t] # 0 /\ t \in Unstable
    /\ link' = [link EXCEPT ![t] = 0]
    /\ fresh' = [fresh EXCEPT ![t] = FALSE]
    /\ UNCHANGED <<row, made, watcher, counting, olsr, shutdown>>

\* A peer's handshake, and three minutes without one.
Handshake(t) ==
    /\ ~Crashed
    /\ link[t] # 0 /\ t \notin Legacy
    /\ fresh' = [fresh EXCEPT ![t] = ~fresh[t]]
    /\ UNCHANGED <<row, link, made, watcher, counting, olsr, shutdown>>

\* DELETETunnel's statement; RemovePeer (LinkDown) follows later or fails.
DeleteRow(t) ==
    /\ ~Crashed
    /\ t \in Deletes /\ row[t].in
    /\ row' = [row EXCEPT ![t] = [in |-> FALSE, active |-> FALSE, named |-> FALSE]]
    /\ UNCHANGED <<env, watcher, counting, olsr, shutdown>>

Environment == \E t \in Tunnel : LinkUp(t) \/ LinkDown(t) \/ Handshake(t) \/ DeleteRow(t)

\* Watcher.Stop with Stats.Stop, then ClearActiveFromAllTunnels.
Stop ==
    \/ /\ shutdown = "no" /\ shutdown' = "stopped"
       /\ running' = [t \in Tunnel |-> [s \in Slot |-> running[t][s] /\ counters[t] # s]]
       /\ UNCHANGED row
    \/ /\ shutdown = "stopped" /\ shutdown' = "cleared"
       /\ row' = [t \in Tunnel |-> [row[t] EXCEPT !.active = FALSE]]
       /\ UNCHANGED running

StopServer == Stops /\ ~Crashed /\ Stop /\ UNCHANGED <<env, watcher, counters, loop, olsr>>

-----------------------------------------------------------------------------
Next == Watch \/ Counter \/ OLSRWatcher \/ Environment \/ StopServer

Spec == Init /\ [][Next]_vars

\* The watcher and the counters are goroutines the runtime keeps scheduling.  That
\* a cycle of watch is never stuck assumes besides that its two sends on the event
\* channel are received: while the event hub is blocked, as SendersGoOn of
\* EventHub allows it to be, watch waits in one of them and nothing here goes on.
FairSpec ==
    /\ Spec
    /\ WF_vars(Watch)
    /\ WF_vars(OLSRWatcher)
    /\ \A t \in Tunnel, s \in Slot : WF_vars(CounterLook(t, s) \/ CounterSave(t, s))

-----------------------------------------------------------------------------
(* Properties                                                              *)

\* TrackedHaveCounters: an interface is watched at most once, and each watched
\* one has a registered counter, so that the Stats.Remove of the sweep, whose
\* error would leave the interface watched for ever, always finds it.
TrackedHaveCounters ==
    /\ \A t \in Tracked : counters[t] # 0
    /\ \A j, k \in 1 .. len : interfaces[j].t = interfaces[k].t => j = k

\* MarkedOnce: although the sweep can meet an entry twice in the array that
\* remove shifts, no entry is marked inactive twice in a cycle (its traffic
\* would be added to the totals twice), and none is marked and still watched.
MarkedOnce ==
    /\ \A j, k \in 1 .. Len(toMark) : toMark[j].t = toMark[k].t => j = k
    /\ wpc = "sweep" => \A j \in 1 .. Len(toMark) : toMark[j].t \notin Tracked

\* StopsCounting: a counter the watcher has forgotten has been told to stop, so
\* at most one goroutine of an interface goes on for more than one tick.
StopsCounting ==
    \A t \in Tunnel, s \in Slot : running[t][s] => counters[t] = s

\* GoneIsUntracked: as long as the event hub takes its events, an interface that
\* stays down is not watched for ever, although the sweep may skip it for some
\* cycles (watch's first loop).
GoneIsUntracked ==
    \A t \in Tunnel : (<>[](link[t] = 0) /\ []~Crashed /\ [](shutdown = "no")) => <>[](t \notin Tracked)
=============================================================================
