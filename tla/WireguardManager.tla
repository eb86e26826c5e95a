-------------------------- MODULE WireguardManager --------------------------
(***************************************************************************)
(* internal/wireguard/wireguard.go: the manager that turns tunnel rows     *)
(* into kernel WireGuard interfaces.                                       *)
(*                                                                         *)
(* Callers (HTTP handlers, and the errgroup goroutines of                  *)
(* initializeTunnels and removeAllPeers) hand a peer to the run() loop     *)
(* over an unbuffered channel and then wait on one confirmation channel    *)
(* SHARED by all callers of the same operation.  run() starts one worker   *)
(* goroutine (addPeer or removePeer) per request; the worker drives the    *)
(* kernel and sends the peer on the confirmation channel.  A caller that   *)
(* receives somebody else's confirmation sends it back on the channel.     *)
(*                                                                         *)
(* Every send and receive of an unbuffered channel is one joint step of    *)
(* the two goroutines that meet.                                           *)
(***************************************************************************)
EXTENDS Naturals, FiniteSets

CONSTANTS
    Tunnel,     \* tunnels, each with an ID of its own and hence its own interface
    NoTunnel,   \* the zero models.Tunnel (ID 0) a closed channel yields
    Caller,     \* goroutines of HTTP handlers
    Worker,     \* bound: addPeer / removePeer goroutines alive at one time
    Stored,     \* enabled wireguard tunnels in the database at startup
    Calls,      \* <<caller, op, tunnel>>: the calls the handlers may make
    ShortKey,   \* tunnels a PATCH may have given a too short password (unchecked)
    Failures,   \* may netlink, wgctrl, key parsing, DNS or the database fail?
    Timeouts    \* may defTimeout (10s) expire while a caller waits?

Op == {"add", "remove"}

ASSUME ConstantsAssumption ==
    /\ NoTunnel \notin Tunnel
    /\ Caller \cap Tunnel = {}
    /\ Stored \subseteq Tunnel
    /\ Calls \subseteq Caller \X Op \X Tunnel
    /\ ShortKey \subseteq Tunnel
    /\ Failures \in BOOLEAN
    /\ Timeouts \in BOOLEAN

\* A goroutine that calls AddPeer or RemovePeer: an HTTP handler, or the
\* errgroup goroutine that serves tunnel t (named by t itself).
Proc == Caller \cup Tunnel

VARIABLES
    main,       \* the main goroutine: Run, then Stop
    run,        \* the run() loop
    closed,     \* have the four peer channels been closed?
    panicked,   \* a panic no goroutine recovers has killed the process
    cpc,        \* [Proc]: where the goroutine is in AddPeer / RemovePeer
    cop,        \* [Proc]: the operation of its current or last call
    cpeer,      \* [Proc]: the peer of that call
    held,       \* [Proc]: the wrong confirmation it is sending back
    res,        \* [Proc]: the result of its last call
    wpc,        \* [Worker]: where the goroutine is in addPeer / removePeer
    wop,        \* [Worker]: which of the two it runs
    wpeer,      \* [Worker]: its peer
    active,     \* keys of activePeers
    link,       \* [Tunnel]: the kernel interface (external)
    rules,      \* tunnels with routing rules in the kernel (external)
    confirmed,  \* ghost: <<op, t>> for which some worker has come to its confirmation
    failed,     \* ghost: <<op, t>> on which some worker gave up
    tokenTaken  \* ghost: a waiting caller received Stop's shutdown token

callerVars == <<cpc, cop, cpeer, held, res>>
workerVars == <<wpc, wop, wpeer>>
kernelVars == <<active, link, rules>>
ghostVars  == <<confirmed, failed, tokenTaken>>
vars == <<main, run, closed, panicked, callerVars, workerVars, kernelVars, ghostVars>>

MainState   == {"start", "initializing", "initFailed", "running", "removing",
                "sendToken", "awaitConfirm", "stopped", "stopFailed"}
RunState    == {"select", "closing", "sendConfirm", "exited"}
CallerState == {"idle", "request", "wait", "pushback"}
Result      == {"none", "ok", "disabled", "timeout", "shutdown"}
AddState    == {"lookup", "create", "configure", "store"}
RemoveState == {"unlist", "rmLookup", "delete"}
WorkerState == {"idle", "confirm"} \cup AddState \cup RemoveState
LinkState   == {"none", "created", "configured"}

TypeOK ==
    /\ main \in MainState
    /\ run \in RunState
    /\ closed \in BOOLEAN
    /\ panicked \in BOOLEAN
    /\ cpc \in [Proc -> CallerState]
    /\ cop \in [Proc -> Op]
    /\ cpeer \in [Proc -> Tunnel \cup {NoTunnel}]
    /\ held \in [Proc -> Tunnel \cup {NoTunnel}]
    /\ res \in [Proc -> Result]
    /\ wpc \in [Worker -> WorkerState]
    /\ wop \in [Worker -> Op]
    /\ wpeer \in [Worker -> Tunnel \cup {NoTunnel}]
    /\ active \in SUBSET Tunnel
    /\ link \in [Tunnel -> LinkState]
    /\ rules \in SUBSET Tunnel
    /\ confirmed \in SUBSET (Op \X Tunnel)
    /\ failed \in SUBSET (Op \X Tunnel)
    /\ tokenTaken \in BOOLEAN

\* NewManager: channels open, no active peer; Run has started run().
Init ==
    /\ main = "start"
    /\ run = "select"
    /\ closed = FALSE
    /\ panicked = FALSE
    /\ cpc = [g \in Proc |-> "idle"]
    /\ cop = [g \in Proc |-> "add"]
    /\ cpeer = [g \in Proc |-> NoTunnel]
    /\ held = [g \in Proc |-> NoTunnel]
    /\ res = [g \in Proc |-> "none"]
    /\ wpc = [w \in Worker |-> "idle"]
    /\ wop = [w \in Worker |-> "add"]
    /\ wpeer = [w \in Worker |-> NoTunnel]
    /\ active = {}
    /\ link = [t \in Tunnel |-> "none"]
    /\ rules = {}
    /\ confirmed = {}
    /\ failed = {}
    /\ tokenTaken = FALSE

\* The process runs until a panic, or until Run's error ends runServer.
Alive == ~panicked /\ main # "initFailed"

-----------------------------------------------------------------------------
(* The main goroutine: Run and Stop.                                       *)

\* An errgroup goroutine per peer in S calls AddPeer or RemovePeer.
StartGroup(op, S) ==
    /\ cpc' = [g \in Proc |-> IF g \in S THEN "request" ELSE cpc[g]]
    /\ cop' = [g \in Proc |-> IF g \in S THEN op ELSE cop[g]]
    /\ cpeer' = [g \in Proc |-> IF g \in S THEN g ELSE cpeer[g]]
    /\ res' = [g \in Proc |-> IF g \in Tunnel THEN "none" ELSE res[g]]
    /\ UNCHANGED held

\* errGroup.Wait() returns, with an error if some goroutine returned one.
GroupDone   == \A t \in Tunnel : cpc[t] = "idle"
GroupFailed == \E t \in Tunnel : res[t] \in {"timeout", "shutdown"}

InitializeTunnels ==
    /\ Alive
    /\ main = "start"
    /\ \/ /\ main' = "initializing"
          /\ StartGroup("add", Stored)
       \/ /\ Failures                       \* ListWireguardTunnels failed
          /\ main' = "initFailed"
          /\ UNCHANGED callerVars
    /\ UNCHANGED <<run, closed, panicked, workerVars, kernelVars, ghostVars>>

InitializeDone ==
    /\ Alive
    /\ main = "initializing"
    /\ GroupDone
    /\ main' = IF GroupFailed THEN "initFailed" ELSE "running"
    /\ UNCHANGED <<run, closed, panicked, callerVars, workerVars, kernelVars, ghostVars>>

\* Stop: removeAllPeers ranges over activePeers.
RemoveAllPeers ==
    /\ Alive
    /\ main = "running"
    /\ main' = "removing"
    /\ StartGroup("remove", active)
    /\ UNCHANGED <<run, closed, panicked, workerVars, kernelVars, ghostVars>>

\* Stop returns removeAllPeers' error and leaves run() and the channels alone.
RemoveAllDone ==
    /\ Alive
    /\ main = "removing"
    /\ GroupDone
    /\ main' = IF GroupFailed THEN "stopFailed" ELSE "sendToken"
    /\ UNCHANGED <<run, closed, panicked, callerVars, workerVars, kernelVars, ghostVars>>

\* shutdownChan <- struct{}{} meets run()'s select ...
TokenToRun ==
    /\ Alive
    /\ main = "sendToken"
    /\ run = "select"
    /\ main' = "awaitConfirm"
    /\ run' = "closing"
    /\ UNCHANGED <<closed, panicked, callerVars, workerVars, kernelVars, ghostVars>>

\* ... or the select of a caller that waits for its confirmation.
TokenToWaiter(g) ==
    /\ Alive
    /\ main = "sendToken"
    /\ cpc[g] = "wait"
    /\ main' = "awaitConfirm"
    /\ cpc' = [cpc EXCEPT ![g] = "idle"]
    /\ res' = [res EXCEPT ![g] = "shutdown"]
    /\ tokenTaken' = TRUE
    /\ UNCHANGED <<run, closed, panicked, cop, cpeer, held, workerVars, kernelVars,
                   confirmed, failed>>

CloseChannels ==
    /\ Alive
    /\ run = "closing"
    /\ run' = "sendConfirm"
    /\ closed' = TRUE
    /\ UNCHANGED <<main, panicked, callerVars, workerVars, kernelVars, ghostVars>>

\* Variant: Stop does not wait for run()'s confirmation.
ShutdownConfirmNotAwaited ==
    /\ Alive
    /\ main = "awaitConfirm"
    /\ main' = "stopped"
    /\ UNCHANGED <<run, closed, panicked, callerVars, workerVars, kernelVars, ghostVars>>

ShutdownConfirm ==
    /\ Alive
    /\ run = "sendConfirm"
    /\ main = "awaitConfirm"
    /\ run' = "exited"
    /\ main' = "stopped"
    /\ UNCHANGED <<closed, panicked, callerVars, workerVars, kernelVars, ghostVars>>

-----------------------------------------------------------------------------
(* AddPeer, RemovePeer and the two waitForPeer functions.                  *)

\* A handler calls; the HTTP server runs from the end of Run until after Stop.
\* AddPeer of a tunnel that is not enabled returns nil at once.
Call(g, op, t, enabled) ==
    /\ Alive
    /\ main \notin {"start", "initializing"}
    /\ cpc[g] = "idle"
    /\ cop' = [cop EXCEPT ![g] = op]
    /\ cpeer' = [cpeer EXCEPT ![g] = t]
    /\ IF op = "add" /\ ~enabled
       THEN /\ res' = [res EXCEPT ![g] = "disabled"]
            /\ UNCHANGED cpc
       ELSE /\ res' = [res EXCEPT ![g] = "none"]
            /\ cpc' = [cpc EXCEPT ![g] = "request"]
    /\ UNCHANGED <<main, run, closed, panicked, held, workerVars, kernelVars, ghostVars>>

\* run() receives the request and starts a worker goroutine for it.
Accept(g, w) ==
    /\ Alive
    /\ run = "select"
    /\ cpc[g] = "request"
    /\ wpc[w] = "idle"
    /\ cpc' = [cpc EXCEPT ![g] = "wait"]
    /\ wpc' = [wpc EXCEPT ![w] = IF cop[g] = "add" THEN "lookup" ELSE "unlist"]
    /\ wop' = [wop EXCEPT ![w] = cop[g]]
    /\ wpeer' = [wpeer EXCEPT ![w] = cpeer[g]]
    /\ UNCHANGED <<main, run, closed, panicked, cop, cpeer, held, res, kernelVars, ghostVars>>

\* The worker goroutine ends.
WorkerEnds(w) ==
    /\ wpc' = [wpc EXCEPT ![w] = "idle"]
    /\ wop' = [wop EXCEPT ![w] = "add"]
    /\ wpeer' = [wpeer EXCEPT ![w] = NoTunnel]

\* What a waiting caller does with a confirmation for tunnel t: its own ends
\* the call, any other is kept to be sent back (outside the select, so neither
\* the timeout nor the shutdown token can interrupt that send).
AfterReceiveDropping(g, t) == IF t = cpeer[g] THEN "idle" ELSE "wait"  \* variant: no send back
ResultAfterAny(g, t)       == "ok"                                     \* variant: no ID check
AfterReceive(g, t)  == IF t = cpeer[g] THEN "idle" ELSE "pushback"
HeldAfter(g, t)     == IF t = cpeer[g] THEN NoTunnel ELSE t
ResultAfter(g, t)   == IF t = cpeer[g] THEN "ok" ELSE res[g]

ReceiveFromWorker(g, w) ==
    /\ Alive
    /\ ~closed
    /\ cpc[g] = "wait"
    /\ wpc[w] = "confirm"
    /\ wop[w] = cop[g]
    /\ cpc' = [cpc EXCEPT ![g] = AfterReceive(g, wpeer[w])]
    /\ held' = [held EXCEPT ![g] = HeldAfter(g, wpeer[w])]
    /\ res' = [res EXCEPT ![g] = ResultAfter(g, wpeer[w])]
    /\ WorkerEnds(w)
    /\ UNCHANGED <<main, run, closed, panicked, cop, cpeer, kernelVars, ghostVars>>

\* g receives what h sends back; h goes back to its select.
ReceiveFromPushback(g, h) ==
    /\ Alive
    /\ ~closed
    /\ cpc[g] = "wait"
    /\ cpc[h] = "pushback"
    /\ cop[g] = cop[h]
    /\ cpc' = [cpc EXCEPT ![g] = AfterReceive(g, held[h]), ![h] = "wait"]
    /\ held' = [held EXCEPT ![g] = HeldAfter(g, held[h]), ![h] = NoTunnel]
    /\ res' = [res EXCEPT ![g] = ResultAfter(g, held[h])]
    /\ UNCHANGED <<main, run, closed, panicked, cop, cpeer, workerVars, kernelVars, ghostVars>>

\* ctx.Done() fires: the call returns ctx.Err(), its worker keeps running.
Timeout(g) ==
    /\ Alive
    /\ Timeouts
    /\ cpc[g] = "wait"
    /\ cpc' = [cpc EXCEPT ![g] = "idle"]
    /\ res' = [res EXCEPT ![g] = "timeout"]
    /\ UNCHANGED <<main, run, closed, panicked, cop, cpeer, held, workerVars, kernelVars, ghostVars>>

\* A closed confirmation channel yields the zero Tunnel, never the caller's peer.
ReceiveClosed(g) ==
    /\ Alive
    /\ closed
    /\ cpc[g] = "wait"
    /\ cpc' = [cpc EXCEPT ![g] = "pushback"]
    /\ held' = [held EXCEPT ![g] = NoTunnel]
    /\ UNCHANGED <<main, run, closed, panicked, cop, cpeer, res, workerVars, kernelVars, ghostVars>>

\* Any goroutine whose send is pending on a closed channel panics.
SendOnClosed ==
    /\ Alive
    /\ closed
    /\ \/ \E g \in Proc : cpc[g] \in {"request", "pushback"}
       \/ \E w \in Worker : wpc[w] = "confirm"
    /\ panicked' = TRUE
    /\ UNCHANGED <<main, run, closed, callerVars, workerVars, kernelVars, ghostVars>>

-----------------------------------------------------------------------------
(* addPeer.  Every error path returns without a confirmation and leaves    *)
(* whatever the earlier steps have made in the kernel.                     *)

GiveUp(w) ==
    /\ WorkerEnds(w)
    /\ failed' = failed \cup {<<wop[w], wpeer[w]>>}

\* netlink.LinkByName
AddLookup(w) ==
    /\ Alive
    /\ wpc[w] = "lookup"
    /\ \/ wpc' = [wpc EXCEPT ![w] = IF link[wpeer[w]] = "none" THEN "create" ELSE "configure"]
       \/ /\ Failures                       \* any other error also leads to LinkAdd
          /\ wpc' = [wpc EXCEPT ![w] = "create"]
    /\ UNCHANGED <<main, run, closed, panicked, callerVars, wop, wpeer, kernelVars, ghostVars>>

\* netlink.LinkAdd: fails if the name is taken by now.
AddCreate(w) ==
    /\ Alive
    /\ wpc[w] = "create"
    /\ \/ /\ link[wpeer[w]] = "none"
          /\ link' = [link EXCEPT ![wpeer[w]] = "created"]
          /\ wpc' = [wpc EXCEPT ![w] = "configure"]
          /\ UNCHANGED <<wop, wpeer, failed>>
       \/ /\ Failures \/ link[wpeer[w]] # "none"
          /\ GiveUp(w)
          /\ UNCHANGED link
    /\ UNCHANGED <<main, run, closed, panicked, callerVars, active, rules,
                   confirmed, tokenTaken>>

\* Variant: the interface is left in a state removePeer knows nothing of.
AddConfigureUp(w) ==
    /\ Alive
    /\ wpc[w] = "configure"
    /\ link' = [link EXCEPT ![wpeer[w]] = "up"]
    /\ wpc' = [wpc EXCEPT ![w] = "store"]
    /\ UNCHANGED <<main, run, closed, panicked, callerVars, wop, wpeer, active, rules, ghostVars>>

\* LinkSetUp, the two addresses, ConfigureDevice, six RuleAdd.  A rule that is
\* there already is an error (the request is exclusive), and removePeer deletes
\* none: the second addPeer of a tunnel ends at its first rule.
AddConfigure(w) ==
    /\ Alive
    /\ wpc[w] = "configure"
    /\ \/ /\ link[wpeer[w]] # "none" /\ wpeer[w] \notin rules
          /\ link' = [link EXCEPT ![wpeer[w]] = "configured"]
          /\ rules' = rules \cup {wpeer[w]}
          /\ wpc' = [wpc EXCEPT ![w] = "store"]
          /\ UNCHANGED <<wop, wpeer, failed>>
       \/ /\ Failures \/ link[wpeer[w]] = "none"     \* up to ConfigureDevice
          /\ GiveUp(w)
          /\ UNCHANGED <<link, rules>>
       \/ /\ link[wpeer[w]] # "none"                 \* at one of the rules
          /\ Failures \/ wpeer[w] \in rules
          /\ link' = [link EXCEPT ![wpeer[w]] = "configured"]
          /\ rules' \in {rules, rules \cup {wpeer[w]}}
          /\ GiveUp(w)
    /\ UNCHANGED <<main, run, closed, panicked, callerVars, active,
                   confirmed, tokenTaken>>

\* peer.Password[88:], [:44] or [44:88] of a password that is too short; a call
\* that was made before the PATCH still has the old one.
KeyTooShort(w) ==
    /\ Alive
    /\ wpc[w] = "configure"
    /\ wpeer[w] \in ShortKey
    /\ panicked' = TRUE
    /\ UNCHANGED <<main, run, closed, callerVars, workerVars, kernelVars, ghostVars>>

\* Variant: addPeer confirms without storing the peer.
AddStoreForgotten(w) ==
    /\ Alive
    /\ wpc[w] = "store"
    /\ wpc' = [wpc EXCEPT ![w] = "confirm"]
    /\ confirmed' = confirmed \cup {<<"add", wpeer[w]>>}
    /\ UNCHANGED <<main, run, closed, panicked, callerVars, wop, wpeer, kernelVars,
                   failed, tokenTaken>>

\* activePeers.Store, then the worker stands at its confirmation send.
AddStore(w) ==
    /\ Alive
    /\ wpc[w] = "store"
    /\ active' = active \cup {wpeer[w]}
    /\ wpc' = [wpc EXCEPT ![w] = "confirm"]
    /\ confirmed' = confirmed \cup {<<"add", wpeer[w]>>}
    /\ UNCHANGED <<main, run, closed, panicked, callerVars, wop, wpeer, link, rules,
                   failed, tokenTaken>>

-----------------------------------------------------------------------------
(* removePeer.  It never deletes the routing rules.                        *)

\* Variant: removePeer confirms before the interface is gone.
RemoveUnlistEarlyConfirm(w) ==
    /\ Alive
    /\ wpc[w] = "unlist"
    /\ active' = active \ {wpeer[w]}
    /\ wpc' = [wpc EXCEPT ![w] = "confirm"]
    /\ confirmed' = confirmed \cup {<<"remove", wpeer[w]>>}
    /\ UNCHANGED <<main, run, closed, panicked, callerVars, wop, wpeer, link, rules,
                   failed, tokenTaken>>

\* Variant: removePeer returns silently when the peer is not listed.
RemoveUnlistSilent(w) ==
    /\ Alive
    /\ wpc[w] = "unlist"
    /\ active' = active \ {wpeer[w]}
    /\ IF wpeer[w] \in active
       THEN /\ wpc' = [wpc EXCEPT ![w] = "rmLookup"]
            /\ UNCHANGED <<wop, wpeer>>
       ELSE WorkerEnds(w)
    /\ UNCHANGED <<main, run, closed, panicked, callerVars, link, rules, ghostVars>>

\* activePeers.LoadAndDelete: a peer that is not listed is confirmed at once.
RemoveUnlist(w) ==
    /\ Alive
    /\ wpc[w] = "unlist"
    /\ active' = active \ {wpeer[w]}
    /\ IF wpeer[w] \in active
       THEN /\ wpc' = [wpc EXCEPT ![w] = "rmLookup"]
            /\ UNCHANGED confirmed
       ELSE /\ wpc' = [wpc EXCEPT ![w] = "confirm"]
            /\ confirmed' = confirmed \cup {<<"remove", wpeer[w]>>}
    /\ UNCHANGED <<main, run, closed, panicked, callerVars, wop, wpeer, link, rules,
                   failed, tokenTaken>>

\* netlink.LinkByName: any error is taken for a missing interface.
RemoveLookup(w) ==
    /\ Alive
    /\ wpc[w] = "rmLookup"
    /\ \/ /\ link[wpeer[w]] # "none"
          /\ wpc' = [wpc EXCEPT ![w] = "delete"]
          /\ UNCHANGED <<confirmed, failed>>
       \/ /\ Failures \/ link[wpeer[w]] = "none"
          /\ wpc' = [wpc EXCEPT ![w] = "confirm"]
          /\ confirmed' = confirmed \cup {<<"remove", wpeer[w]>>}
          /\ failed' = IF link[wpeer[w]] = "none" THEN failed
                       ELSE failed \cup {<<"remove", wpeer[w]>>}
    /\ UNCHANGED <<main, run, closed, panicked, callerVars, wop, wpeer, kernelVars, tokenTaken>>

\* netlink.LinkSetDown and LinkDel
RemoveDelete(w) ==
    /\ Alive
    /\ wpc[w] = "delete"
    /\ \/ /\ link[wpeer[w]] # "none"
          /\ link' = [link EXCEPT ![wpeer[w]] = "none"]
          /\ wpc' = [wpc EXCEPT ![w] = "confirm"]
          /\ confirmed' = confirmed \cup {<<"remove", wpeer[w]>>}
          /\ UNCHANGED <<wop, wpeer, failed>>
       \/ /\ Failures \/ link[wpeer[w]] = "none"
          /\ GiveUp(w)
          /\ UNCHANGED <<link, confirmed>>
    /\ UNCHANGED <<main, run, closed, panicked, callerVars, active, rules, tokenTaken>>

-----------------------------------------------------------------------------
MainStep ==
    \/ InitializeTunnels
    \/ InitializeDone
    \/ RemoveAllPeers
    \/ RemoveAllDone
    \/ TokenToRun
    \/ \E g \in Proc : TokenToWaiter(g)
    \/ ShutdownConfirm

AddStep(w)    == AddLookup(w) \/ AddCreate(w) \/ AddConfigure(w) \/ KeyTooShort(w) \/ AddStore(w)
RemoveStep(w) == RemoveUnlist(w) \/ RemoveLookup(w) \/ RemoveDelete(w)

Receive(g) ==
    \/ \E w \in Worker : ReceiveFromWorker(g, w)
    \/ \E h \in Proc : ReceiveFromPushback(g, h)
    \/ ReceiveClosed(g)

Next ==
    \/ MainStep
    \/ CloseChannels
    \/ \E c \in Calls, enabled \in BOOLEAN : Call(c[1], c[2], c[3], enabled)
    \/ \E g \in Proc, w \in Worker : Accept(g, w)
    \/ \E g \in Proc : Receive(g)
    \/ \E g \in Proc : Timeout(g)
    \/ SendOnClosed
    \/ \E w \in Worker : AddStep(w)
    \/ \E w \in Worker : RemoveStep(w)

Spec == Init /\ [][Next]_vars

(***************************************************************************)
(* Fairness.  The Go scheduler runs every runnable goroutine, and the wait *)
(* queue of a channel is first-in first-out, so a goroutine that can meet  *)
(* a partner again and again does so: strong fairness of a goroutine's own *)
(* rendezvous.  Handlers need not call, Stop need not be requested, kernel *)
(* operations need not fail and the timeout need not fire.                 *)
(***************************************************************************)
Fairness ==
    /\ WF_vars(InitializeTunnels \/ InitializeDone \/ RemoveAllDone)
    /\ WF_vars(TokenToRun \/ (\E g \in Proc : TokenToWaiter(g)) \/ ShutdownConfirm)
    /\ WF_vars(CloseChannels)
    /\ WF_vars(SendOnClosed)
    /\ \A g \in Proc : SF_vars(\E w \in Worker : Accept(g, w))
    /\ \A g \in Proc : SF_vars(Receive(g))
    /\ \A w \in Worker : WF_vars(AddStep(w) \/ RemoveStep(w))

FairSpec == Spec /\ Fairness

-----------------------------------------------------------------------------
(* Properties                                                              *)

\* A worker that still has to deal with the interface of tunnel t.
Handles(w, t) ==
    /\ wpeer[w] = t
    /\ wpc[w] \in {"configure", "store", "rmLookup", "delete"}

\* Some worker has given up on tunnel t.
Abandoned(t) == \E op \in Op : <<op, t>> \in failed

\* NoOrphanInterface: a kernel interface that activePeers does not list (and
\* that Stop will therefore never remove) is being worked on by some addPeer
\* or removePeer goroutine, or some goroutine has given up on that tunnel
\* (the error returns of addPeer and removePeer, which clean nothing up).
\* However adds and removes of one tunnel interleave, only errors leak.
NoOrphanInterface ==
    \A t \in Tunnel :
        link[t] # "none" /\ t \notin active =>
            Abandoned(t) \/ \E w \in Worker : Handles(w, t)

\* ConfirmationsTruthful: however confirmations are taken, sent back and taken
\* again by other callers (waitForPeerAddition, waitForPeerRemoval), a
\* confirmation in flight names an operation some worker has completed, a
\* caller sends back only somebody else's, and AddPeer or RemovePeer reports
\* success only for an operation that was completed.  That operation may be the
\* one an earlier call of the same kind asked for, whose answer came too late for
\* it; and a removal that cannot read the link counts as completed.
ConfirmationsTruthful ==
    /\ \A w \in Worker : wpc[w] = "confirm" => <<wop[w], wpeer[w]>> \in confirmed
    /\ \A g \in Proc : cpc[g] = "pushback" /\ held[g] # NoTunnel =>
           held[g] # cpeer[g] /\ <<cop[g], held[g]>> \in confirmed
    /\ \A g \in Proc : res[g] = "ok" => <<cop[g], cpeer[g]>> \in confirmed

\* ShutdownHandshake: Stop waits for a run() loop that is still serving
\* requests only if a waiting caller took its token; Stop reports success
\* only after run() has closed the channels and left; if removeAllPeers
\* failed the channels stay open.  The process dies of a send on a closed
\* channel only after that close, and never once a caller took the token; its
\* one other panic is the slice of a password that is too short.  (That the
\* token can be taken, and that a late send panics, is what the code does.)
ShutdownHandshake ==
    /\ main = "awaitConfirm" /\ run = "select" => tokenTaken
    /\ main = "stopped" => closed /\ run = "exited"
    /\ main = "stopFailed" => ~closed
    /\ panicked => \/ closed /\ ~tokenTaken
                   \/ \E w \in Worker : wpc[w] = "configure" /\ wpeer[w] \in ShortKey

\* ConfirmationsMatchWaiters: while nothing times out or shuts down, and until
\* a worker gives up on that operation on the tunnel, the callers that wait for
\* an operation on a tunnel are exactly as many as the confirmations of it that
\* are being made or are held by some caller: none is lost, none is duplicated.
ConfirmationsMatchWaiters ==
    ~closed /\ ~tokenTaken =>
    \A op \in Op, t \in Tunnel :
        <<op, t>> \notin failed =>
        Cardinality({g \in Proc : cpc[g] \in {"wait", "pushback"} /\ cop[g] = op /\ cpeer[g] = t})
        = Cardinality({w \in Worker : wpc[w] # "idle" /\ wop[w] = op /\ wpeer[w] = t})
          + Cardinality({g \in Proc : cpc[g] = "pushback" /\ cop[g] = op /\ held[g] = t})

\* NilMeansDone: when every tunnel has one caller at a time and nothing but a
\* rule left by an earlier addPeer fails, and nothing times out, a nil from
\* AddPeer means the interface is configured and listed, and a nil from
\* RemovePeer means it is gone, although the confirmation may have come
\* through any number of other callers.
NilMeansDone ==
    LET Settled == CASE main = "initializing" -> Tunnel
                     [] main = "running" -> Caller
                     [] OTHER -> {}
    IN  \A g \in Settled :
            cpc[g] = "idle" /\ res[g] = "ok" =>
                IF cop[g] = "add"
                THEN cpeer[g] \in active /\ link[cpeer[g]] = "configured"
                ELSE cpeer[g] \notin active /\ link[cpeer[g]] = "none"

\* EveryCallReturns: when all callers work on one tunnel, an AddPeer or
\* RemovePeer call returns without the help of its timeout unless the process
\* dies or a worker gives up on that operation on that tunnel (addPeer does as
\* soon as the tunnel was added before); Stop's token, which any waiting caller
\* may take, leaves no other caller without an answer.
EveryCallReturns ==
    \A g \in Proc :
        cpc[g] # "idle" ~> cpc[g] = "idle" \/ panicked \/ <<cop[g], cpeer[g]>> \in failed
=============================================================================
