-------------------------------- MODULE Server --------------------------------
(***************************************************************************)
(* The daemon from start to exit, around the event hub:                    *)
(*   cmd/server.go               runServer and its stop function           *)
(*   internal/server/server.go   the HTTP server                           *)
(*   internal/services/registry.go, olsr/service.go   the supervised olsrd *)
(*   internal/db/db.go, models/user.go  MakeDB and its seed                *)
(*   internal/db/models/tunnel.go  ClearActiveFromAllTunnels               *)
(*   internal/server/api/controllers/v1/users.go  the name `admin'         *)
(* The error group of the stop function has the limit 1, so its functions  *)
(* run one after the other, and an error of one does not keep the next     *)
(* from running.  The process may be killed at any step; the database      *)
(* survives that.  Of it these are kept: is a tunnel marked active, how far *)
(* has the seed come, is there a user `admin' (user names are unique).     *)
(*                                                                         *)
(* Of WireGuard's Stop (module WireguardManager) and of the services' Stops *)
(* (the link quality manager's is in module LinkQuality) only this is kept: *)
(* they return, or they never do.  External: http.Server, os/exec and the  *)
(* signal listener behave as this code uses them.                          *)
(***************************************************************************)
EXTENDS EventHub

CONSTANT
    MaxMisreads \* bound: starts at which the first read of the database fails

ASSUME ServerAssumption == MaxMisreads \in Nat

VARIABLES
    main,       \* where runServer, then its stop function, is
    http,       \* the goroutine of ListenAndServe
    shut,       \* has Shutdown been called?
    active,     \* database: is a tunnel marked active?
    marked,     \* ghost: has this process marked one?
    settings,   \* database: the first AppSettings row, "none", "unseeded", "seeded"
    admin,      \* database: is there a user of that name?
    seeds,      \* ghost: how many times was the admin seeded?
    misreads,   \* ghost: how often was a settings row there and its read failed?
    loop,       \* the registry's loop around olsrd's Start: "start", "wait"
    cmd,        \* olsrCmd: "new", "started" (Process # nil), "waited", "failed"
    olsrds      \* olsrd processes that run

db == <<settings, admin, seeds, misreads>>
serverVars == <<main, http, shut, active, marked, db>>
olsrVars == <<loop, cmd, olsrds>>
vars == <<hubVars, serverVars, olsrVars>>

Boot == {"open", "seeded", "seedOther", "seededOther", "clear", "manager", "watch", "serve"}
Stopping == {"stopManager", "managerHangs", "shutdown", "drain", "receive", "stopWatcher",
             "clearActive", "closeBus", "stopServices", "servicesHang", "return"}

TypeOK ==
    /\ HubTypeOK
    /\ main \in Boot \cup {"up"} \cup Stopping
    /\ http \in {"off", "starting", "listening", "failed", "closed", "ended"}
    /\ shut \in BOOLEAN /\ active \in BOOLEAN /\ marked \in BOOLEAN
    /\ loop \in {"start", "wait"} /\ cmd \in {"new", "started", "waited", "failed"}
    /\ olsrds \in 0 .. 1
    /\ settings \in {"none", "unseeded", "seeded"} /\ admin \in BOOLEAN
    /\ seeds \in Nat /\ misreads \in 0 .. MaxMisreads

\* The first start; StartAll has been called.
Init ==
    /\ NoneConnected
    /\ sender = [s \in Sender |-> "ended"] /\ hub = "off"
    /\ main = "open" /\ http = "off" /\ shut = FALSE /\ marked = FALSE
    /\ active = FALSE /\ settings = "none" /\ admin = FALSE /\ seeds = 0 /\ misreads = 0
    /\ loop = "start" /\ cmd = "new" /\ olsrds = 0

-----------------------------------------------------------------------------
(* runServer up to the signal listener.  Any of its steps may fail, which  *)
(* ends the process.                                                       *)

Exit ==
    /\ process' = "exited"
    /\ UNCHANGED <<queue, closed, sender, told, hub, connectedCount, connections, serverVars, olsrVars>>

BootFails == Running /\ main \in Boot \ {"serve"} /\ Exit

\* MakeDB: no row is found, by a read that works or by one that fails.
createSettings ==
    /\ Running /\ main = "open" /\ settings = "none"
    /\ settings' = "unseeded"
    /\ UNCHANGED <<hubVars, main, http, shut, active, marked, admin, seeds, misreads, olsrVars>>

\* The error of db.First is not looked at: when the read fails there are no rows
\* either, and another row is made.  Later starts read the first one again.
createAnother ==
    /\ Running /\ main = "open" /\ settings # "none" /\ misreads < MaxMisreads
    /\ main' = "seedOther" /\ misreads' = misreads + 1
    /\ UNCHANGED <<hubVars, http, shut, active, marked, settings, admin, seeds, olsrVars>>

\* The seed, a transaction of its own.  It fails if the name is taken, and then
\* MakeDB and the process end.
Seed(next) ==
    IF admin THEN Exit
    ELSE /\ admin' = TRUE /\ seeds' = seeds + 1 /\ main' = next
         /\ UNCHANGED <<hubVars, http, shut, active, marked, settings, misreads, olsrVars>>

seed == Running /\ main = "open" /\ settings = "unseeded" /\ Seed("seeded")
seedForOther == Running /\ main = "seedOther" /\ Seed("seededOther")

\* Variant: the row is not saved.
saveSeededNot ==
    /\ Running /\ main = "seeded" /\ main' = "clear"
    /\ UNCHANGED <<hubVars, http, shut, active, marked, db, olsrVars>>

saveSeeded ==
    /\ Running /\ main = "seeded" /\ main' = "clear"
    /\ settings' = "seeded"
    /\ UNCHANGED <<hubVars, http, shut, active, marked, admin, seeds, misreads, olsrVars>>

\* The row that is saved is the other one.
saveOther ==
    /\ Running /\ main = "seededOther" /\ main' = "clear"
    /\ UNCHANGED <<hubVars, http, shut, active, marked, db, olsrVars>>

alreadySeeded ==
    /\ Running /\ main = "open" /\ settings = "seeded" /\ main' = "clear"
    /\ UNCHANGED <<hubVars, http, shut, active, marked, db, olsrVars>>

\* Variant: the marks of an earlier process stay.
clearAtBootSkipped ==
    /\ Running /\ main = "clear" /\ main' = "manager"
    /\ UNCHANGED <<hubVars, http, shut, active, marked, db, olsrVars>>

\* ClearActiveFromAllTunnels
clearAtBoot ==
    /\ Running /\ main = "clear" /\ main' = "manager"
    /\ active' = FALSE
    /\ UNCHANGED <<hubVars, http, shut, marked, db, olsrVars>>

\* wireguard.NewManager and Run, and the event bus
runManager ==
    /\ Running /\ main = "manager" /\ main' = "watch"
    /\ UNCHANGED <<hubVars, http, shut, active, marked, db, olsrVars>>

\* ifWatcher.Watch starts the watcher's and the counters' loops.
watch ==
    /\ Running /\ main = "watch" /\ main' = "serve"
    /\ sender' = [s \in Sender |-> "work"]
    /\ UNCHANGED <<queue, closed, told, process, hub, connectedCount, connections, http, shut, active, marked, db, olsrVars>>

\* srv.Run: the hub is started with the routes, then ListenAndServe.
serve ==
    /\ Running /\ main = "serve" /\ main' = "up"
    /\ hub' = "receive" /\ http' = "starting"
    /\ UNCHANGED <<bus, connectedCount, connections, shut, active, marked, db, olsrVars>>

\* A turn of the watcher, or of a counter that has read its row before, saves a
\* row as active.
saveActive(s) ==
    /\ Running /\ sender[s] = "send"
    /\ active' = TRUE /\ marked' = TRUE
    /\ UNCHANGED <<hubVars, main, http, shut, db, olsrVars>>

\* The last tunnel disconnects.
saveInactive(s) ==
    /\ Running /\ sender[s] = "send" /\ active
    /\ active' = FALSE
    /\ UNCHANGED <<hubVars, main, http, shut, marked, db, olsrVars>>

-----------------------------------------------------------------------------
(* The HTTP server: run                                                    *)

\* ListenAndServe listens or fails, or fails later when it cannot accept.  The error
\* is logged and nobody is told.
listen ==
    /\ Running /\ ~shut
    /\ \/ http = "starting" /\ http' = "listening"
       \/ http \in {"starting", "listening"} /\ http' = "failed"
    /\ UNCHANGED <<hubVars, main, shut, active, marked, db, olsrVars>>

\* Variant: run returns without a word.
serverClosedSilent ==
    /\ Running /\ http \in {"starting", "listening"} /\ shut
    /\ http' = "ended"
    /\ UNCHANGED <<hubVars, main, shut, active, marked, db, olsrVars>>

\* ErrServerClosed: it goes on to send on shutdownChannel.
serverClosed ==
    /\ Running /\ http \in {"starting", "listening"} /\ shut
    /\ http' = "closed"
    /\ UNCHANGED <<hubVars, main, shut, active, marked, db, olsrVars>>

\* The requests that make or rename a user find out first whether the name is
\* taken; the index of the table refuses it in any case.
Users(a) ==
    /\ Running /\ http = "listening" /\ admin' = a
    /\ UNCHANGED <<hubVars, main, http, shut, active, marked, settings, seeds, misreads, olsrVars>>

POSTUser == ~admin /\ Users(TRUE)
PATCHUser == Users(~admin)
DELETEUser == admin /\ Users(FALSE)

-----------------------------------------------------------------------------
(* The stop function                                                       *)

\* What a step of the stop function leaves alone beside main.
Only == UNCHANGED <<hubVars, http, shut, active, marked, db, olsrVars>>

signal == Running /\ main = "up" /\ main' = "stopManager" /\ Only

\* Manager.Stop returns, or waits for ever on a confirmation it does not get.
stopManager == Running /\ main = "stopManager" /\ main' = "shutdown" /\ Only
managerHangs == Running /\ main = "stopManager" /\ main' = "managerHangs" /\ Only

\* srv.Stop: Shutdown closes the listener, and waits for requests to end ...
shutdown ==
    /\ Running /\ main = "shutdown" /\ main' = "drain"
    /\ shut' = TRUE
    /\ UNCHANGED <<hubVars, http, active, marked, db, olsrVars>>

\* ... which they do, or the timeout passes and Stop returns an error.  The
\* connections of websockets are not waited for.
drained == Running /\ main = "drain" /\ main' = "receive" /\ Only
drainTimesOut == Running /\ main = "drain" /\ main' = "stopWatcher" /\ Only

\* shutdownChannel has no buffer.
receive ==
    /\ Running /\ main = "receive" /\ http = "closed"
    /\ main' = "stopWatcher" /\ http' = "ended"
    /\ UNCHANGED <<hubVars, shut, active, marked, db, olsrVars>>

\* ifWatcher.Stop tells the loops to end and does not wait for them.
stopWatcher ==
    /\ Running /\ main = "stopWatcher" /\ main' = "clearActive"
    /\ told' = TRUE
    /\ UNCHANGED <<queue, closed, sender, process, hub, connectedCount, connections, http, shut, active, marked, db, olsrVars>>

\* ClearActiveFromAllTunnels again; its error stops nothing.
clearActive ==
    /\ Running /\ main = "clearActive" /\ main' = "closeBus"
    /\ active' \in {FALSE, active}
    /\ UNCHANGED <<hubVars, http, shut, marked, db, olsrVars>>

closeBus ==
    /\ Running /\ main = "closeBus" /\ main' = "stopServices"
    /\ closed' = TRUE
    /\ UNCHANGED <<queue, sender, told, process, hub, connectedCount, connections, http, shut, active, marked, db, olsrVars>>

\* StopAll: olsrd is sent SIGTERM, which fails when it has ended.  The Stop of the
\* link quality manager may wait for ever on a babeld that hangs.
stopServices == Running /\ main = "stopServices" /\ main' = "return" /\ Only
servicesHang == Running /\ main = "stopServices" /\ main' = "servicesHang" /\ Only

return == Running /\ main = "return" /\ Exit

-----------------------------------------------------------------------------
(* olsrd: the loop of StartAll, and Start                                  *)

startOlsrd ==
    /\ Running /\ loop = "start" /\ cmd \in {"new", "waited"}
    /\ cmd' = "started" /\ loop' = "wait" /\ olsrds' = olsrds + 1
    /\ UNCHANGED <<hubVars, serverVars>>

\* The command fails to start.  Its ProcessState stays nil, so Start makes no other
\* command: it tries this one over and over, which is refused each time.
startOlsrdFails ==
    /\ Running /\ loop = "start" /\ cmd \in {"new", "waited"}
    /\ cmd' = "failed"
    /\ UNCHANGED <<hubVars, serverVars, loop, olsrds>>

\* Variant: a failed Wait is taken for the end of the process.
waitFailsEnded ==
    /\ Running /\ loop = "wait"
    /\ loop' = "start" /\ cmd' = "waited"
    /\ UNCHANGED <<hubVars, serverVars, olsrds>>

\* Wait fails, ProcessState stays nil; Start then waits for the same process.
waitFails ==
    /\ Running /\ loop = "wait" /\ loop' = "start"
    /\ UNCHANGED <<hubVars, serverVars, cmd, olsrds>>

waitAgain ==
    /\ Running /\ loop = "start" /\ cmd = "started" /\ loop' = "wait"
    /\ UNCHANGED <<hubVars, serverVars, cmd, olsrds>>

olsrdExits ==
    /\ Running /\ olsrds > 0 /\ olsrds' = olsrds - 1
    /\ UNCHANGED <<hubVars, serverVars, loop, cmd>>

\* Variant: the loop ends with the process it has waited for.
waitReturnsForGood ==
    /\ Running /\ loop = "wait" /\ olsrds = 0 /\ cmd # "waited"
    /\ cmd' = "waited"
    /\ UNCHANGED <<hubVars, serverVars, loop, olsrds>>

waitReturns ==
    /\ Running /\ loop = "wait" /\ olsrds = 0
    /\ loop' = "start" /\ cmd' = "waited"
    /\ UNCHANGED <<hubVars, serverVars, olsrds>>

-----------------------------------------------------------------------------

\* A panic elsewhere, the kernel or the user ends the process.
Kill == Running /\ Exit

\* The container is started again.
Restart ==
    /\ ~Running
    /\ queue' = 0 /\ closed' = FALSE /\ sender' = [s \in Sender |-> "ended"]
    /\ told' = FALSE /\ process' = "running" /\ hub' = "off" /\ connectedCount' = 0
    /\ cancel' = NoConn /\ sock' = NoConn
    /\ open' = [c \in Conn |-> FALSE] /\ handler' = [c \in Conn |-> "none"]
    /\ tmp' = [c \in Conn |-> 0] /\ reading' = [c \in Conn |-> NoConn]
    /\ writing' = [c \in Conn |-> NoConn] /\ blocked' = [c \in Conn |-> FALSE]
    /\ forwarder' = [c \in Conn |-> FALSE] /\ cancelled' = [c \in Conn |-> FALSE]
    /\ raced' = FALSE /\ shared' = FALSE
    /\ main' = "open" /\ http' = "off" /\ shut' = FALSE /\ marked' = FALSE
    /\ loop' = "start" /\ cmd' = "new" /\ olsrds' = 0
    /\ UNCHANGED <<active, db>>

Main ==
    \/ createSettings \/ seed \/ saveSeeded \/ alreadySeeded \/ seedForOther \/ saveOther
    \/ clearAtBoot \/ runManager \/ watch \/ serve
    \/ stopManager \/ shutdown \/ drained \/ receive
    \/ stopWatcher \/ clearActive \/ closeBus \/ stopServices \/ return

Http == listen \/ serverClosed

Supervise == waitAgain \/ waitReturns \/ startOlsrd \/ startOlsrdFails

Next ==
    \/ HubNext /\ (sock' # sock => http = "listening") /\ UNCHANGED <<serverVars, olsrVars>>
    \/ Main \/ createAnother \/ BootFails \/ signal \/ drainTimesOut \/ Http
    \/ managerHangs \/ servicesHang
    \/ \E s \in Sender : saveActive(s) \/ saveInactive(s)
    \/ waitFails \/ Supervise \/ olsrdExits
    \/ POSTUser \/ PATCHUser \/ DELETEUser
    \/ Kill \/ Restart

\* The goroutines are scheduled, and a wait that is repeated does not fail for ever.
\* A Stop that hangs and a read that fails have no fairness, and Main goes on with
\* the Stop that returns, the listener with either outcome.
Fairness ==
    /\ WF_vars(Main) /\ WF_vars(Http) /\ WF_vars(waitAgain)
    /\ WF_vars(startOlsrd \/ startOlsrdFails) /\ SF_vars(waitReturns)

Spec == Init /\ [][Next]_vars /\ Fairness

-----------------------------------------------------------------------------
(* Properties                                                              *)

\* NoStaleMark: a tunnel is marked active by this process only. Marks that an
\* earlier one left, because it crashed or because a loop saved its row after the
\* shutdown had cleared them, are gone before the watcher and the API start
\* (runServer).
NoStaleMark == active /\ main \in {"manager", "watch", "serve", "up"} \cup Stopping => marked

\* SeededOnce: however often the daemon is killed and started again, the admin with
\* its initial password is made once: one that was renamed or deleted since comes
\* back at most once for each start at which the read of the settings failed, whose
\* error is taken for a missing row (MakeDB).
SeededOnce == seeds <= 1 + misreads

\* ShutdownEnds: after a signal the process ends, or it hangs in one of three places:
\* in the wireguard manager's Stop, in a service's Stop, or on shutdownChannel, and
\* there only when the HTTP server had stopped listening by itself (Stop, run).
ShutdownEnds ==
    main \in Stopping ~>
        \/ ~Running
        \/ main \in {"managerHangs", "servicesHang"}
        \/ main = "receive" /\ http = "failed"

\* OlsrdComesBack: an olsrd that has ended is running again at last, as long as the
\* daemon runs, unless its command once failed to start: then it never does, though
\* the loop goes on (StartAll, Start).
OlsrdComesBack == Running /\ olsrds = 0 ~> ~Running \/ olsrds = 1 \/ cmd = "failed"
=============================================================================
