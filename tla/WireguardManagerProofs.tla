----------------------- MODULE WireguardManagerProofs -----------------------
(***************************************************************************)
(* Proofs about WireguardManager for any sets of tunnels, handlers and     *)
(* workers, with or without failures and timeouts.                         *)
(*                                                                         *)
(* Each invariance proof has one step per action.                          *)
(***************************************************************************)
EXTENDS WireguardManager, FiniteSetTheorems, TLAPS

\* What the control state of a goroutine says about its own peer and
\* operation: a goroutine at work has a real peer, and a worker inside addPeer
\* (removePeer) runs the operation "add" ("remove").
Shape ==
    /\ \A w \in Worker : wpc[w] # "idle" => wpeer[w] \in Tunnel
    /\ \A w \in Worker : wpc[w] \in AddState => wop[w] = "add"
    /\ \A w \in Worker : wpc[w] \in RemoveState => wop[w] = "remove"
    /\ \A g \in Proc : cpc[g] # "idle" => cpeer[g] \in Tunnel

TypeInv == TypeOK /\ Shape

USE DEF vars, callerVars, workerVars, kernelVars, ghostVars

LEMMA InitTypeInv == Init => TypeInv
  <1> SUFFICES ASSUME Init PROVE TypeInv
    OBVIOUS
  <1>1. TypeOK
    BY DEF Init, TypeOK, MainState, RunState, CallerState, Result, WorkerState, LinkState, Op
  <1>2. Shape
    BY DEF Init, Shape, AddState, RemoveState
  <1> QED BY <1>1, <1>2 DEF TypeInv

LEMMA StartGroupTypeInv ==
  ASSUME TypeInv, NEW op \in Op, NEW S \in SUBSET Tunnel, StartGroup(op, S),
         main' \in MainState,
         UNCHANGED <<run, closed, panicked, workerVars, kernelVars, ghostVars>>
  PROVE  TypeInv'
  <1>1. TypeOK'
    BY DEF TypeInv, TypeOK, StartGroup, Proc, CallerState, Result
  <1>2. Shape'
    BY DEF TypeInv, TypeOK, Shape, StartGroup, Proc
  <1> QED BY <1>1, <1>2 DEF TypeInv

LEMMA MainTypeInv == TypeInv /\ MainStep => TypeInv'
  <1> SUFFICES ASSUME TypeInv, MainStep PROVE TypeInv'
    OBVIOUS
  <1> USE DEF TypeInv, TypeOK, Shape, MainState, RunState, CallerState, Result
  <1>1. CASE InitializeTunnels
    <2>1. CASE StartGroup("add", Stored) /\ main' = "initializing"
      BY <1>1, <2>1, StartGroupTypeInv, ConstantsAssumption DEF InitializeTunnels, Op
    <2>2. CASE main' = "initFailed" /\ UNCHANGED callerVars
      BY <1>1, <2>2 DEF InitializeTunnels
    <2> QED BY <1>1, <2>1, <2>2 DEF InitializeTunnels
  <1>2. CASE InitializeDone
    BY <1>2 DEF InitializeDone
  <1>3. CASE RemoveAllPeers
    BY <1>3, StartGroupTypeInv DEF RemoveAllPeers, Op
  <1>4. CASE RemoveAllDone
    BY <1>4 DEF RemoveAllDone
  <1>5. CASE TokenToRun
    BY <1>5 DEF TokenToRun
  <1>6. ASSUME NEW g \in Proc, TokenToWaiter(g) PROVE TypeInv'
    BY <1>6 DEF TokenToWaiter
  <1>7. CASE ShutdownConfirm
    BY <1>7 DEF ShutdownConfirm
  <1> QED BY <1>1, <1>2, <1>3, <1>4, <1>5, <1>6, <1>7 DEF MainStep

LEMMA CallTypeInv ==
  ASSUME TypeInv, NEW c \in Calls, NEW enabled \in BOOLEAN, Call(c[1], c[2], c[3], enabled)
  PROVE  TypeInv'
  <1>1. c[1] \in Proc /\ c[2] \in Op /\ c[3] \in Tunnel
    BY ConstantsAssumption DEF Proc
  <1> QED BY <1>1 DEF TypeInv, TypeOK, Shape, Call, CallerState, Result

LEMMA AcceptTypeInv ==
  ASSUME TypeInv, NEW g \in Proc, NEW w \in Worker, Accept(g, w)
  PROVE  TypeInv'
  <1>1. cpeer[g] \in Tunnel /\ cop[g] \in Op
    BY DEF TypeInv, TypeOK, Shape, Accept
  <1>2. TypeOK'
    BY <1>1 DEF TypeInv, TypeOK, Accept, CallerState, WorkerState, AddState, RemoveState
  <1>3. Shape'
    BY <1>1 DEF TypeInv, TypeOK, Shape, Accept, AddState, RemoveState, Op
  <1> QED BY <1>2, <1>3 DEF TypeInv

LEMMA ReceiveTypeInv ==
  ASSUME TypeInv, NEW g \in Proc, Receive(g)
  PROVE  TypeInv'
  <1> USE DEF AfterReceive, HeldAfter, ResultAfter
  <1>1. ASSUME NEW w \in Worker, ReceiveFromWorker(g, w) PROVE TypeInv'
    <2>1. TypeOK'
      BY <1>1 DEF TypeInv, TypeOK, ReceiveFromWorker, WorkerEnds, CallerState, Result, WorkerState, Op
    <2>2. Shape'
      BY <1>1 DEF TypeInv, TypeOK, Shape, ReceiveFromWorker, WorkerEnds, AddState, RemoveState
    <2> QED BY <2>1, <2>2 DEF TypeInv
  <1>2. ASSUME NEW h \in Proc, ReceiveFromPushback(g, h) PROVE TypeInv'
    <2>1. TypeOK'
      BY <1>2 DEF TypeInv, TypeOK, ReceiveFromPushback, CallerState, Result
    <2>2. Shape'
      BY <1>2 DEF TypeInv, TypeOK, Shape, ReceiveFromPushback
    <2> QED BY <2>1, <2>2 DEF TypeInv
  <1>3. CASE ReceiveClosed(g)
    BY <1>3 DEF TypeInv, TypeOK, Shape, ReceiveClosed, CallerState
  <1> QED BY <1>1, <1>2, <1>3 DEF Receive

LEMMA WorkerTypeInv ==
  ASSUME TypeInv, NEW w \in Worker, AddStep(w) \/ RemoveStep(w)
  PROVE  TypeInv'
  <1> USE DEF TypeInv, TypeOK, Shape, WorkerState, AddState, RemoveState, LinkState, Op
  <1>1. wpc[w] # "idle" => wpeer[w] \in Tunnel
    OBVIOUS
  <1>2. CASE AddLookup(w)
    BY <1>1, <1>2 DEF AddLookup
  <1>3. CASE AddCreate(w)
    BY <1>1, <1>3 DEF AddCreate, GiveUp, WorkerEnds
  <1>4. CASE AddConfigure(w) \/ KeyTooShort(w)
    <2>1. CASE KeyTooShort(w)
      BY <2>1 DEF KeyTooShort
    <2>2. CASE AddConfigure(w) /\ GiveUp(w)
      BY <1>1, <2>2 DEF AddConfigure, GiveUp, WorkerEnds
    <2>3. CASE AddConfigure(w) /\ ~GiveUp(w)
      BY <1>1, <2>3 DEF AddConfigure
    <2> QED BY <1>4, <2>1, <2>2, <2>3
  <1>5. CASE AddStore(w)
    BY <1>1, <1>5 DEF AddStore
  <1>6. CASE RemoveUnlist(w)
    BY <1>1, <1>6 DEF RemoveUnlist
  <1>7. CASE RemoveLookup(w)
    BY <1>1, <1>7 DEF RemoveLookup
  <1>8. CASE RemoveDelete(w)
    BY <1>1, <1>8 DEF RemoveDelete, GiveUp, WorkerEnds
  <1> QED BY <1>2, <1>3, <1>4, <1>5, <1>6, <1>7, <1>8 DEF AddStep, RemoveStep

LEMMA NextTypeInv == TypeInv /\ [Next]_vars => TypeInv'
  <1> SUFFICES ASSUME TypeInv, [Next]_vars PROVE TypeInv'
    OBVIOUS
  <1>1. CASE MainStep
    BY <1>1, MainTypeInv
  <1>2. CASE CloseChannels
    BY <1>2 DEF TypeInv, TypeOK, Shape, CloseChannels, RunState
  <1>3. CASE \E c \in Calls, enabled \in BOOLEAN : Call(c[1], c[2], c[3], enabled)
    BY <1>3, CallTypeInv
  <1>4. CASE \E g \in Proc, w \in Worker : Accept(g, w)
    BY <1>4, AcceptTypeInv
  <1>5. CASE \E g \in Proc : Receive(g)
    BY <1>5, ReceiveTypeInv
  <1>6. ASSUME NEW g \in Proc, Timeout(g) PROVE TypeInv'
    BY <1>6 DEF TypeInv, TypeOK, Shape, Timeout, CallerState, Result
  <1>7. CASE SendOnClosed
    BY <1>7 DEF TypeInv, TypeOK, Shape, SendOnClosed
  <1>8. CASE \E w \in Worker : AddStep(w)
    BY <1>8, WorkerTypeInv
  <1>9. CASE \E w \in Worker : RemoveStep(w)
    BY <1>9, WorkerTypeInv
  <1>10. CASE UNCHANGED vars
    BY <1>10 DEF TypeInv, TypeOK, Shape
  <1> QED BY <1>1, <1>2, <1>3, <1>4, <1>5, <1>6, <1>7, <1>8, <1>9, <1>10 DEF Next

\* TypeCorrect: the state of the manager, its callers and its workers stays
\* within its types in every behaviour of wireguard.go, and a goroutine at
\* work always has a real peer.
THEOREM TypeCorrect == Spec => [](TypeOK /\ Shape)
  <1>1. Init => TypeInv
    BY InitTypeInv
  <1>2. TypeInv /\ [Next]_vars => TypeInv'
    BY NextTypeInv
  <1> QED BY <1>1, <1>2, PTL DEF Spec, TypeInv

-----------------------------------------------------------------------------
(* No orphan interface without an error.                                   *)

LEMMA OrphanInit == Init => NoOrphanInterface
  BY DEF Init, NoOrphanInterface

\* A step that leaves the workers, the kernel and the ghost of failures alone.
LEMMA OrphanFrame ==
  ASSUME NoOrphanInterface, UNCHANGED <<wpc, wpeer, active, link, failed>>
  PROVE  NoOrphanInterface'
  BY DEF NoOrphanInterface, Handles, Abandoned

LEMMA OrphanWorker ==
  ASSUME TypeInv, NoOrphanInterface, NEW w \in Worker, AddStep(w) \/ RemoveStep(w)
  PROVE  NoOrphanInterface'
  <1> USE DEF NoOrphanInterface, Handles, TypeInv, TypeOK, Shape
  <1> DEFINE p == wpeer[w]
  <1>0. wpc[w] # "idle" => p \in Tunnel /\ wop[w] \in Op
    OBVIOUS
  <1>1. failed \subseteq failed' => \A t : Abandoned(t) => Abandoned(t)'
    BY DEF Abandoned
  <1>2. GiveUp(w) /\ wpc[w] # "idle" => (\A t : t = p => Abandoned(t)') /\ \A t : Abandoned(t) => Abandoned(t)'
    BY <1>0 DEF Abandoned, GiveUp
  <1> HIDE DEF Abandoned
  <1>3. CASE AddLookup(w)
    BY <1>0, <1>1, <1>3 DEF AddLookup
  <1>4. CASE GiveUp(w) /\ wpc[w] # "idle" /\ UNCHANGED active /\ \A t \in Tunnel : t # p => link'[t] = link[t]
    BY <1>0, <1>2, <1>4 DEF GiveUp, WorkerEnds
  <1>5. CASE AddCreate(w)
    BY <1>0, <1>1, <1>4, <1>5 DEF AddCreate
  <1>6. CASE AddConfigure(w)
    BY <1>0, <1>1, <1>4, <1>6 DEF AddConfigure
  <1>7. CASE KeyTooShort(w)
    BY <1>1, <1>7 DEF KeyTooShort
  <1>8. CASE AddStore(w)
    BY <1>0, <1>1, <1>8 DEF AddStore
  <1>9. CASE RemoveUnlist(w)
    BY <1>0, <1>1, <1>9 DEF RemoveUnlist
  <1>10. CASE RemoveLookup(w)
    <2>1. failed \subseteq failed' /\ (wpc'[w] = "confirm" /\ link[p] # "none" => \A t : t = p => Abandoned(t)')
      BY <1>0, <1>10 DEF RemoveLookup, Abandoned, Op
    <2> QED BY <1>0, <1>1, <1>10, <2>1 DEF RemoveLookup
  <1>11. CASE RemoveDelete(w)
    BY <1>0, <1>1, <1>4, <1>11 DEF RemoveDelete
  <1> QED BY <1>3, <1>5, <1>6, <1>7, <1>8, <1>9, <1>10, <1>11 DEF AddStep, RemoveStep

\* NoOrphans: an interface activePeers does not list is in the hands of a
\* worker, or a worker has given up on its tunnel (the error returns of
\* addPeer and removePeer); interleaving alone never leaks an interface.
THEOREM NoOrphans == Spec => []NoOrphanInterface
  <1>1. Init => TypeInv /\ NoOrphanInterface
    BY InitTypeInv, OrphanInit
  <1>2. TypeInv /\ NoOrphanInterface /\ [Next]_vars => (TypeInv /\ NoOrphanInterface)'
    <2> SUFFICES ASSUME TypeInv, NoOrphanInterface, [Next]_vars PROVE NoOrphanInterface'
      BY NextTypeInv
    <2>1. CASE MainStep
      BY <2>1, OrphanFrame DEF MainStep, InitializeTunnels, InitializeDone, RemoveAllPeers,
         RemoveAllDone, TokenToRun, TokenToWaiter, ShutdownConfirm
    <2>2. CASE CloseChannels
      BY <2>2, OrphanFrame DEF CloseChannels
    <2>3. CASE \E c \in Calls, enabled \in BOOLEAN : Call(c[1], c[2], c[3], enabled)
      BY <2>3, OrphanFrame DEF Call
    <2>4. ASSUME NEW g \in Proc, NEW w \in Worker, Accept(g, w) PROVE NoOrphanInterface'
      BY <2>4 DEF Accept, NoOrphanInterface, Handles, Abandoned, TypeInv, TypeOK
    <2>5. ASSUME NEW g \in Proc, Receive(g) PROVE NoOrphanInterface'
      <3>1. ASSUME NEW w \in Worker, ReceiveFromWorker(g, w) PROVE NoOrphanInterface'
        BY <3>1 DEF ReceiveFromWorker, WorkerEnds, NoOrphanInterface, Handles, Abandoned, TypeInv, TypeOK
      <3>2. CASE ReceiveClosed(g) \/ \E h \in Proc : ReceiveFromPushback(g, h)
        BY <3>2, OrphanFrame DEF ReceiveClosed, ReceiveFromPushback
      <3> QED BY <2>5, <3>1, <3>2 DEF Receive
    <2>6. CASE \E g \in Proc : Timeout(g)
      BY <2>6, OrphanFrame DEF Timeout
    <2>7. CASE SendOnClosed
      BY <2>7, OrphanFrame DEF SendOnClosed
    <2>8. CASE \E w \in Worker : AddStep(w)
      BY <2>8, OrphanWorker
    <2>9. CASE \E w \in Worker : RemoveStep(w)
      BY <2>9, OrphanWorker
    <2>10. CASE UNCHANGED vars
      BY <2>10, OrphanFrame
    <2> QED BY <2>1, <2>2, <2>3, <2>4, <2>5, <2>6, <2>7, <2>8, <2>9, <2>10 DEF Next
  <1> QED BY <1>1, <1>2, PTL DEF Spec

-----------------------------------------------------------------------------
(* Confirmations tell the truth.                                           *)

LEMMA TruthInit == Init => ConfirmationsTruthful
  BY DEF Init, ConfirmationsTruthful

\* Steps of the callers, the workers and `confirmed' left alone.
LEMMA TruthFrame ==
  ASSUME ConfirmationsTruthful, UNCHANGED <<callerVars, workerVars, confirmed>>
  PROVE  ConfirmationsTruthful'
  BY DEF ConfirmationsTruthful

LEMMA TruthGroup ==
  ASSUME TypeInv, ConfirmationsTruthful, NEW op \in Op, NEW S \in SUBSET Tunnel,
         StartGroup(op, S), UNCHANGED <<workerVars, confirmed>>
  PROVE  ConfirmationsTruthful'
  BY DEF ConfirmationsTruthful, StartGroup, TypeInv, TypeOK, Proc

LEMMA TruthMain ==
  ASSUME TypeInv, ConfirmationsTruthful, MainStep
  PROVE  ConfirmationsTruthful'
  <1>1. CASE InitializeTunnels
    <2>1. CASE StartGroup("add", Stored)
      BY <1>1, <2>1, TruthGroup, ConstantsAssumption DEF InitializeTunnels, Op
    <2>2. CASE UNCHANGED callerVars
      BY <1>1, <2>2, TruthFrame DEF InitializeTunnels
    <2> QED BY <1>1, <2>1, <2>2 DEF InitializeTunnels
  <1>2. CASE RemoveAllPeers
    BY <1>2, TruthGroup DEF RemoveAllPeers, Op, TypeInv, TypeOK
  <1>3. ASSUME NEW g \in Proc, TokenToWaiter(g) PROVE ConfirmationsTruthful'
    BY <1>3 DEF TokenToWaiter, ConfirmationsTruthful, TypeInv, TypeOK
  <1>4. CASE InitializeDone \/ RemoveAllDone \/ TokenToRun \/ ShutdownConfirm
    BY <1>4, TruthFrame DEF InitializeDone, RemoveAllDone, TokenToRun, ShutdownConfirm
  <1> QED BY <1>1, <1>2, <1>3, <1>4 DEF MainStep

LEMMA TruthReceive ==
  ASSUME TypeInv, ConfirmationsTruthful, NEW g \in Proc, Receive(g)
  PROVE  ConfirmationsTruthful'
  <1> USE DEF ConfirmationsTruthful, AfterReceive, HeldAfter, ResultAfter, TypeInv, TypeOK
  <1>0. cpc[g] = "wait" => cpeer[g] \in Tunnel
    BY DEF Shape
  <1>1. ASSUME NEW w \in Worker, ReceiveFromWorker(g, w) PROVE ConfirmationsTruthful'
    <2>1. <<cop[g], wpeer[w]>> \in confirmed
      BY <1>1 DEF ReceiveFromWorker
    <2> QED BY <1>1, <2>1 DEF ReceiveFromWorker, WorkerEnds
  <1>2. ASSUME NEW h \in Proc, ReceiveFromPushback(g, h) PROVE ConfirmationsTruthful'
    <2>1. g # h
      BY <1>2 DEF ReceiveFromPushback
    <2>2. held[h] # NoTunnel => <<cop[g], held[h]>> \in confirmed
      BY <1>2 DEF ReceiveFromPushback
    <2>3. held[h] = cpeer[g] => held[h] # NoTunnel
      BY <1>0, <1>2, ConstantsAssumption DEF ReceiveFromPushback
    <2> QED BY <1>2, <2>1, <2>2, <2>3 DEF ReceiveFromPushback
  <1>3. CASE ReceiveClosed(g)
    BY <1>3 DEF ReceiveClosed
  <1> QED BY <1>1, <1>2, <1>3 DEF Receive

LEMMA TruthWorker ==
  ASSUME TypeInv, ConfirmationsTruthful, NEW w \in Worker, AddStep(w) \/ RemoveStep(w)
  PROVE  ConfirmationsTruthful'
  <1> USE DEF ConfirmationsTruthful, TypeInv, TypeOK
  <1>1. CASE AddLookup(w)
    BY <1>1 DEF AddLookup
  <1>2. CASE AddCreate(w)
    BY <1>2 DEF AddCreate, GiveUp, WorkerEnds
  <1>3. CASE AddConfigure(w) \/ KeyTooShort(w)
    BY <1>3 DEF AddConfigure, KeyTooShort, GiveUp, WorkerEnds
  <1>4. CASE AddStore(w)
    BY <1>4 DEF AddStore, Shape, AddState
  <1>5. CASE RemoveUnlist(w)
    BY <1>5 DEF RemoveUnlist, Shape, RemoveState
  <1>6. CASE RemoveLookup(w)
    BY <1>6 DEF RemoveLookup, Shape, RemoveState
  <1>7. CASE RemoveDelete(w)
    BY <1>7 DEF RemoveDelete, GiveUp, WorkerEnds, Shape, RemoveState
  <1> QED BY <1>1, <1>2, <1>3, <1>4, <1>5, <1>6, <1>7 DEF AddStep, RemoveStep

\* Truthful: whatever way a confirmation takes through the callers that send
\* back what is not theirs, AddPeer and RemovePeer return nil (for an enabled
\* tunnel) only if some worker completed that operation on that tunnel.
THEOREM Truthful == Spec => []ConfirmationsTruthful
  <1>1. Init => TypeInv /\ ConfirmationsTruthful
    BY InitTypeInv, TruthInit
  <1>2. TypeInv /\ ConfirmationsTruthful /\ [Next]_vars => (TypeInv /\ ConfirmationsTruthful)'
    <2> SUFFICES ASSUME TypeInv, ConfirmationsTruthful, [Next]_vars PROVE ConfirmationsTruthful'
      BY NextTypeInv
    <2>1. CASE MainStep
      BY <2>1, TruthMain
    <2>2. CASE CloseChannels \/ SendOnClosed
      BY <2>2, TruthFrame DEF CloseChannels, SendOnClosed
    <2>3. ASSUME NEW c \in Calls, NEW enabled \in BOOLEAN, Call(c[1], c[2], c[3], enabled)
          PROVE  ConfirmationsTruthful'
      <3>1. c[1] \in Proc
        BY ConstantsAssumption DEF Proc
      <3> QED BY <2>3, <3>1 DEF Call, ConfirmationsTruthful, TypeInv, TypeOK
    <2>4. ASSUME NEW g \in Proc, NEW w \in Worker, Accept(g, w) PROVE ConfirmationsTruthful'
      BY <2>4 DEF Accept, ConfirmationsTruthful, TypeInv, TypeOK
    <2>5. CASE \E g \in Proc : Receive(g)
      BY <2>5, TruthReceive
    <2>6. ASSUME NEW g \in Proc, Timeout(g) PROVE ConfirmationsTruthful'
      BY <2>6 DEF Timeout, ConfirmationsTruthful, TypeInv, TypeOK
    <2>7. CASE \E w \in Worker : AddStep(w) \/ RemoveStep(w)
      BY <2>7, TruthWorker
    <2>8. CASE UNCHANGED vars
      BY <2>8, TruthFrame
    <2> QED BY <2>1, <2>2, <2>3, <2>4, <2>5, <2>6, <2>7, <2>8 DEF Next
  <1> QED BY <1>1, <1>2, PTL DEF Spec

-----------------------------------------------------------------------------
(* The shutdown handshake.                                                 *)

\* The inductive form: the channels are closed exactly when run() has passed
\* its close calls, run() leaves its select only for a Stop that waits, and a
\* token taken by a caller leaves Stop waiting for a run() that goes on.
HandshakeInv ==
    /\ ShutdownHandshake
    /\ closed <=> run \in {"sendConfirm", "exited"}
    /\ run # "select" => main \in {"awaitConfirm", "stopped"}
    /\ tokenTaken => main = "awaitConfirm" /\ run = "select"

\* Handshake: Stop returns nil only after run() has closed the channels and
\* left; it waits in vain only if a waiting caller received its token; a Stop
\* that failed leaves the channels open; and unless a PATCH stored a password
\* that is too short for addPeer's slices, nothing panics before the channels are
\* closed, nor ever after a caller took the token.
THEOREM Handshake == Spec => []ShutdownHandshake
  <1> USE DEF HandshakeInv, ShutdownHandshake
  <1>1. Init => HandshakeInv
    BY DEF Init
  <1>2. HandshakeInv /\ [Next]_vars => HandshakeInv'
    <2> SUFFICES ASSUME HandshakeInv, [Next]_vars PROVE HandshakeInv'
      OBVIOUS
    <2>1. CASE MainStep
      <3>1. CASE InitializeTunnels
        BY <3>1 DEF InitializeTunnels, Alive
      <3>2. CASE InitializeDone
        BY <3>2 DEF InitializeDone, Alive
      <3>3. CASE RemoveAllPeers
        BY <3>3 DEF RemoveAllPeers, Alive
      <3>4. CASE RemoveAllDone
        BY <3>4 DEF RemoveAllDone, Alive
      <3>5. CASE TokenToRun
        BY <3>5 DEF TokenToRun, Alive
      <3>6. CASE \E g \in Proc : TokenToWaiter(g)
        BY <3>6 DEF TokenToWaiter, Alive
      <3>7. CASE ShutdownConfirm
        BY <3>7 DEF ShutdownConfirm, Alive
      <3> QED BY <2>1, <3>1, <3>2, <3>3, <3>4, <3>5, <3>6, <3>7 DEF MainStep
    <2>2. CASE CloseChannels
      BY <2>2 DEF CloseChannels, Alive
    <2>3. CASE SendOnClosed
      BY <2>3 DEF SendOnClosed
    <2>4. CASE \E w \in Worker : KeyTooShort(w)
      BY <2>4 DEF KeyTooShort
    <2>5. CASE Alive /\ UNCHANGED <<main, run, closed, panicked, tokenTaken>>
      BY <2>5 DEF Alive
    <2>6. CASE \E c \in Calls, enabled \in BOOLEAN : Call(c[1], c[2], c[3], enabled)
      BY <2>5, <2>6 DEF Call
    <2>7. CASE \E g \in Proc, w \in Worker : Accept(g, w)
      BY <2>5, <2>7 DEF Accept
    <2>8. CASE \E g \in Proc : Receive(g) \/ Timeout(g)
      BY <2>5, <2>8 DEF Receive, ReceiveFromWorker, ReceiveFromPushback, ReceiveClosed, Timeout
    <2>9. CASE \E w \in Worker : AddStep(w)
      BY <2>4, <2>5, <2>9 DEF AddStep, AddLookup, AddCreate, AddConfigure, AddStore
    <2>10. CASE \E w \in Worker : RemoveStep(w)
      BY <2>5, <2>10 DEF RemoveStep, RemoveUnlist, RemoveLookup, RemoveDelete
    <2>11. CASE UNCHANGED vars
      BY <2>11
    <2> QED BY <2>1, <2>2, <2>3, <2>6, <2>7, <2>8, <2>9, <2>10, <2>11 DEF Next
  <1>3. HandshakeInv => ShutdownHandshake
    OBVIOUS
  <1> QED BY <1>1, <1>2, <1>3, PTL DEF Spec
-----------------------------------------------------------------------------
(* Confirmations are neither lost nor duplicated.                          *)

Waiting(op, t)  == {g \in Proc : cpc[g] \in {"wait", "pushback"} /\ cop[g] = op /\ cpeer[g] = t}
Making(op, t)   == {w \in Worker : wpc[w] # "idle" /\ wop[w] = op /\ wpeer[w] = t}
SentBack(op, t) == {g \in Proc : cpc[g] = "pushback" /\ cop[g] = op /\ held[g] = t}

Balanced(op, t) ==
    Cardinality(Waiting(op, t)) = Cardinality(Making(op, t)) + Cardinality(SentBack(op, t))

\* The errgroup goroutines of the tunnels are there only during Run and Stop, so
\* a group never starts over a call that is still waiting.
GroupIdle == main \in {"start", "running"} => \A t \in Tunnel : cpc[t] = "idle"

CountInv ==
    /\ GroupIdle
    /\ ~closed /\ ~tokenTaken => \A op \in Op, t \in Tunnel : <<op, t>> \notin failed => Balanced(op, t)

LEMMA InitCount == Init => CountInv
  <1> SUFFICES ASSUME Init PROVE CountInv
    OBVIOUS
  <1>1. GroupIdle
    BY DEF Init, GroupIdle, Proc
  <1>2. ASSUME NEW op, NEW t \in Tunnel PROVE Balanced(op, t)
    <2>1. Waiting(op, t) = {} /\ Making(op, t) = {} /\ SentBack(op, t) = {}
      BY DEF Init, Waiting, Making, SentBack
    <2>2. Cardinality({}) = 0
      BY FS_EmptySet
    <2> QED BY <2>1, <2>2 DEF Balanced
  <1> QED BY <1>1, <1>2 DEF CountInv

LEMMA GroupStep ==
  ASSUME TypeInv, GroupIdle, [Next]_vars
  PROVE  GroupIdle'
  <1> USE DEF TypeInv, TypeOK, GroupIdle, Proc
  <1>1. CASE MainStep
    BY <1>1 DEF MainStep, InitializeTunnels, InitializeDone, RemoveAllPeers, RemoveAllDone, TokenToRun,
       TokenToWaiter, ShutdownConfirm, GroupDone
  <1>2. CASE CloseChannels \/ SendOnClosed
    BY <1>2 DEF CloseChannels, SendOnClosed
  <1>3. ASSUME NEW c \in Calls, NEW enabled \in BOOLEAN, Call(c[1], c[2], c[3], enabled) PROVE GroupIdle'
    <2>1. c[1] \in Caller /\ c[1] \notin Tunnel
      BY ConstantsAssumption
    <2> QED BY <1>3, <2>1 DEF Call
  <1>4. ASSUME NEW g \in Proc, NEW w \in Worker, Accept(g, w) PROVE GroupIdle'
    BY <1>4 DEF Accept
  <1>5. ASSUME NEW g \in Proc, Receive(g) PROVE GroupIdle'
    BY <1>5 DEF Receive, ReceiveFromWorker, ReceiveFromPushback, ReceiveClosed, AfterReceive
  <1>6. ASSUME NEW g \in Proc, Timeout(g) PROVE GroupIdle'
    BY <1>6 DEF Timeout
  <1>7. ASSUME NEW w \in Worker, AddStep(w) PROVE GroupIdle'
    BY <1>7 DEF AddStep, AddLookup, AddCreate, AddConfigure, KeyTooShort, AddStore
  <1>8. ASSUME NEW w \in Worker, RemoveStep(w) PROVE GroupIdle'
    BY <1>8 DEF RemoveStep, RemoveUnlist, RemoveLookup, RemoveDelete
  <1>9. CASE UNCHANGED vars
    BY <1>9
  <1> QED BY <1>1, <1>2, <1>3, <1>4, <1>5, <1>6, <1>7, <1>8, <1>9 DEF Next

\* Finitely many goroutines, so that they can be counted.
FiniteProcs == IsFiniteSet(Proc) /\ IsFiniteSet(Worker)

LEMMA Countable ==
  ASSUME FiniteProcs, NEW op, NEW t
  PROVE  IsFiniteSet(Waiting(op, t)) /\ IsFiniteSet(Making(op, t)) /\ IsFiniteSet(SentBack(op, t))
  <1>1. /\ Waiting(op, t) \in SUBSET Proc /\ Making(op, t) \in SUBSET Worker
        /\ SentBack(op, t) \in SUBSET Proc
    BY DEF Waiting, Making, SentBack
  <1> QED BY <1>1, FS_Subset DEF FiniteProcs

LEMMA OneMore ==
  ASSUME NEW S, IsFiniteSet(S), NEW x, x \notin S
  PROVE  Cardinality(S \cup {x}) = Cardinality(S) + 1
  BY FS_AddElement

LEMMA OneLess ==
  ASSUME NEW S, IsFiniteSet(S), NEW x \in S
  PROVE  Cardinality(S \ {x}) = Cardinality(S) - 1
  BY FS_RemoveElement

\* Accept: one more waits and one more is being made.
LEMMA AcceptBalanced ==
  ASSUME FiniteProcs, TypeInv, NEW g \in Proc, NEW w \in Worker, Accept(g, w),
         NEW op \in Op, NEW t \in Tunnel, Balanced(op, t)
  PROVE  Balanced(op, t)'
  <1> USE DEF TypeInv, TypeOK, Accept, Waiting, Making, SentBack
  <1>1. SentBack(op, t)' = SentBack(op, t)
    OBVIOUS
  <1>2. CASE cop[g] = op /\ cpeer[g] = t
    <2>1. Waiting(op, t)' = Waiting(op, t) \cup {g} /\ g \notin Waiting(op, t)
      BY <1>2
    <2>2. Making(op, t)' = Making(op, t) \cup {w} /\ w \notin Making(op, t)
      BY <1>2
    <2> HIDE DEF Waiting, Making, SentBack, TypeInv, TypeOK, Accept
    <2>3. Cardinality(Waiting(op, t)') = Cardinality(Waiting(op, t)) + 1
      BY <2>1, Countable, OneMore
    <2>4. Cardinality(Making(op, t)') = Cardinality(Making(op, t)) + 1
      BY <2>2, Countable, OneMore
    <2>5. Cardinality(Making(op, t)) \in Nat /\ Cardinality(SentBack(op, t)) \in Nat
      BY Countable, FS_CardinalityType
    <2> QED BY <1>1, <2>3, <2>4, <2>5 DEF Balanced
  <1>3. CASE ~(cop[g] = op /\ cpeer[g] = t)
    <2>1. Waiting(op, t)' = Waiting(op, t)
      BY <1>3
    <2>2. Making(op, t)' = Making(op, t)
      BY <1>3
    <2> QED BY <1>1, <2>1, <2>2 DEF Balanced
  <1> QED BY <1>2, <1>3

\* A confirmation reaches its own caller, who leaves, or another, who keeps it.
LEMMA WorkerReceiveBalanced ==
  ASSUME FiniteProcs, TypeInv, NEW g \in Proc, NEW w \in Worker, ReceiveFromWorker(g, w),
         NEW op \in Op, NEW t \in Tunnel, Balanced(op, t)
  PROVE  Balanced(op, t)'
  <1> USE DEF TypeInv, TypeOK, ReceiveFromWorker, WorkerEnds, AfterReceive, HeldAfter, Waiting, Making, SentBack
  <1>0. wpeer[w] \in Tunnel /\ cpeer[g] \in Tunnel
    BY DEF Shape
  <1>1. CASE ~(wop[w] = op /\ wpeer[w] = t)
    <2>1. Waiting(op, t)' = Waiting(op, t)
      BY <1>1
    <2>2. Making(op, t)' = Making(op, t)
      BY <1>1
    <2>3. SentBack(op, t)' = SentBack(op, t)
      BY <1>0, <1>1, ConstantsAssumption
    <2> QED BY <2>1, <2>2, <2>3 DEF Balanced
  <1>2. CASE wop[w] = op /\ wpeer[w] = t
    <2>1. Making(op, t)' = Making(op, t) \ {w} /\ w \in Making(op, t)
      BY <1>2
    <2>2. CASE cpeer[g] = t
      <3>1. Waiting(op, t)' = Waiting(op, t) \ {g} /\ g \in Waiting(op, t)
        BY <1>2, <2>2
      <3>2. SentBack(op, t)' = SentBack(op, t)
        BY <1>2, <2>2, ConstantsAssumption
      <3> HIDE DEF Waiting, Making, SentBack, TypeInv, TypeOK, ReceiveFromWorker, WorkerEnds
      <3>3. Cardinality(Waiting(op, t)') = Cardinality(Waiting(op, t)) - 1
        BY <3>1, Countable, OneLess
      <3>4. Cardinality(Making(op, t)') = Cardinality(Making(op, t)) - 1
        BY <2>1, Countable, OneLess
      <3>5. Cardinality(Making(op, t)) \in Nat /\ Cardinality(SentBack(op, t)) \in Nat
        BY Countable, FS_CardinalityType
      <3> QED BY <3>2, <3>3, <3>4, <3>5 DEF Balanced
    <2>3. CASE cpeer[g] # t
      <3>1. Waiting(op, t)' = Waiting(op, t)
        BY <1>2, <2>3
      <3>2. SentBack(op, t)' = SentBack(op, t) \cup {g} /\ g \notin SentBack(op, t)
        BY <1>2, <2>3
      <3> HIDE DEF Waiting, Making, SentBack, TypeInv, TypeOK, ReceiveFromWorker, WorkerEnds
      <3>3. Cardinality(SentBack(op, t)') = Cardinality(SentBack(op, t)) + 1
        BY <3>2, Countable, OneMore
      <3>4. Cardinality(Making(op, t)') = Cardinality(Making(op, t)) - 1
        BY <2>1, Countable, OneLess
      <3>5. Cardinality(Making(op, t)) \in Nat /\ Cardinality(SentBack(op, t)) \in Nat
        BY Countable, FS_CardinalityType
      <3> QED BY <3>1, <3>3, <3>4, <3>5 DEF Balanced
    <2> QED BY <2>2, <2>3
  <1> QED BY <1>1, <1>2

\* So does one that is sent back.
LEMMA PushbackBalanced ==
  ASSUME FiniteProcs, TypeInv, NEW g \in Proc, NEW h \in Proc, ReceiveFromPushback(g, h),
         NEW op \in Op, NEW t \in Tunnel, Balanced(op, t)
  PROVE  Balanced(op, t)'
  <1> USE DEF TypeInv, TypeOK, ReceiveFromPushback, AfterReceive, HeldAfter, Waiting, Making, SentBack
  <1>0. g # h /\ cpeer[g] \in Tunnel
    BY DEF Shape
  <1>1. Making(op, t)' = Making(op, t)
    OBVIOUS
  <1>2. CASE ~(cop[h] = op /\ held[h] = t)
    <2>1. Waiting(op, t)' = Waiting(op, t)
      BY <1>0, <1>2
    <2>2. SentBack(op, t)' = SentBack(op, t)
      BY <1>0, <1>2, ConstantsAssumption
    <2> QED BY <1>1, <2>1, <2>2 DEF Balanced
  <1>3. CASE cop[h] = op /\ held[h] = t /\ cpeer[g] = t
    <2>1. Waiting(op, t)' = Waiting(op, t) \ {g} /\ g \in Waiting(op, t)
      BY <1>0, <1>3
    <2>2. SentBack(op, t)' = SentBack(op, t) \ {h} /\ h \in SentBack(op, t)
      BY <1>0, <1>3, ConstantsAssumption
    <2> HIDE DEF Waiting, Making, SentBack, TypeInv, TypeOK, ReceiveFromPushback
    <2>3. Cardinality(Waiting(op, t)') = Cardinality(Waiting(op, t)) - 1
      BY <2>1, Countable, OneLess
    <2>4. Cardinality(SentBack(op, t)') = Cardinality(SentBack(op, t)) - 1
      BY <2>2, Countable, OneLess
    <2>5. Cardinality(Making(op, t)) \in Nat /\ Cardinality(SentBack(op, t)) \in Nat
      BY Countable, FS_CardinalityType
    <2> QED BY <1>1, <2>3, <2>4, <2>5 DEF Balanced
  <1>4. CASE cop[h] = op /\ held[h] = t /\ cpeer[g] # t
    <2>1. Waiting(op, t)' = Waiting(op, t)
      BY <1>0, <1>4
    <2>2. SentBack(op, t)' = (SentBack(op, t) \ {h}) \cup {g} /\ h \in SentBack(op, t) /\ g \notin SentBack(op, t)
      BY <1>0, <1>4, ConstantsAssumption
    <2> HIDE DEF Waiting, Making, SentBack, TypeInv, TypeOK, ReceiveFromPushback
    <2>3. IsFiniteSet(SentBack(op, t) \ {h}) /\ Cardinality(SentBack(op, t) \ {h}) = Cardinality(SentBack(op, t)) - 1
      BY <2>2, Countable, FS_RemoveElement
    <2>4. Cardinality(SentBack(op, t)') = Cardinality(SentBack(op, t) \ {h}) + 1
      BY <2>2, <2>3, OneMore
    <2>5. Cardinality(SentBack(op, t)) \in Nat
      BY Countable, FS_CardinalityType
    <2>6. Cardinality(SentBack(op, t)') = Cardinality(SentBack(op, t))
      BY <2>3, <2>4, <2>5
    <2> QED BY <1>1, <2>1, <2>6 DEF Balanced
  <1> QED BY <1>2, <1>3, <1>4

\* A worker that has not given up on the tunnel still makes what it made.
LEMMA WorkerBalanced ==
  ASSUME TypeInv, NEW w \in Worker, AddStep(w) \/ RemoveStep(w),
         NEW op \in Op, NEW t \in Tunnel, <<op, t>> \notin failed', Balanced(op, t)
  PROVE  Balanced(op, t)'
  <1>1. Waiting(op, t)' = Waiting(op, t) /\ SentBack(op, t)' = SentBack(op, t)
    BY DEF AddStep, RemoveStep, AddLookup, AddCreate, AddConfigure, KeyTooShort, AddStore, RemoveUnlist, RemoveLookup,
       RemoveDelete, Waiting, SentBack
  <1>2. Making(op, t)' = Making(op, t)
    <2>1. CASE GiveUp(w)
      BY <2>1 DEF GiveUp, WorkerEnds, Making, TypeInv, TypeOK
    <2>2. CASE KeyTooShort(w)
      BY <2>2 DEF KeyTooShort, Making
    <2>3. CASE ~GiveUp(w) /\ ~KeyTooShort(w)
      <3>1. /\ wop' = wop /\ wpeer' = wpeer /\ wpc[w] # "idle"
            /\ \E s : s # "idle" /\ wpc' = [wpc EXCEPT ![w] = s]
        BY <2>3 DEF AddStep, RemoveStep, AddLookup, AddCreate, AddConfigure, AddStore, RemoveUnlist,
           RemoveLookup, RemoveDelete
      <3> QED BY <3>1 DEF Making, TypeInv, TypeOK
    <2> QED BY <2>1, <2>2, <2>3
  <1> QED BY <1>1, <1>2 DEF Balanced

\* The other steps leave the waiting callers and the workers as they are.
LEMMA BalancedFrame ==
  ASSUME \A g \in Proc : \/ /\ cpc'[g] = cpc[g] /\ cop'[g] = cop[g]
                            /\ cpeer'[g] = cpeer[g] /\ held'[g] = held[g]
                         \/ cpc[g] \in {"idle", "request"} /\ cpc'[g] \in {"idle", "request"},
         UNCHANGED workerVars, NEW op, NEW t, Balanced(op, t)
  PROVE  Balanced(op, t)'
  <1>1. Waiting(op, t)' = Waiting(op, t) /\ SentBack(op, t)' = SentBack(op, t)
    BY DEF Waiting, SentBack
  <1>2. Making(op, t)' = Making(op, t)
    BY DEF Making
  <1> QED BY <1>1, <1>2 DEF Balanced

LEMMA CountStep ==
  ASSUME ~Timeouts, FiniteProcs, TypeInv, CountInv, [Next]_vars, ~closed', ~tokenTaken',
         NEW op \in Op, NEW t \in Tunnel, <<op, t>> \notin failed'
  PROVE  Balanced(op, t)'
  <1>0. failed \subseteq failed' /\ ~closed /\ ~tokenTaken
    <2>1. CASE MainStep
      BY <2>1 DEF MainStep, InitializeTunnels, InitializeDone, RemoveAllPeers, RemoveAllDone, TokenToRun,
         TokenToWaiter, ShutdownConfirm
    <2>2. CASE \E w \in Worker : AddStep(w) \/ RemoveStep(w)
      BY <2>2 DEF AddStep, RemoveStep, AddLookup, AddCreate, AddConfigure, KeyTooShort, AddStore, RemoveUnlist,
         RemoveLookup, RemoveDelete, GiveUp
    <2> QED BY <2>1, <2>2 DEF Next, CloseChannels, SendOnClosed, Call, Accept, Receive, ReceiveFromWorker,
         ReceiveFromPushback, ReceiveClosed, Timeout
  <1>1. Balanced(op, t) /\ GroupIdle
    BY <1>0 DEF CountInv
  <1>2. ASSUME NEW o, NEW S \in SUBSET Tunnel, StartGroup(o, S), UNCHANGED workerVars, main \in {"start", "running"}
        PROVE  Balanced(op, t)'
    <2>1. \A g \in S : cpc[g] = "idle" /\ g \in Proc
      BY <1>1, <1>2 DEF GroupIdle, Proc
    <2>2. \A g \in Proc : \/ /\ cpc'[g] = cpc[g] /\ cop'[g] = cop[g]
                             /\ cpeer'[g] = cpeer[g] /\ held'[g] = held[g]
                          \/ cpc[g] \in {"idle", "request"} /\ cpc'[g] \in {"idle", "request"}
      BY <1>2, <2>1 DEF StartGroup
    <2> QED BY <1>1, <1>2, <2>2, BalancedFrame
  <1>3. CASE UNCHANGED <<callerVars, workerVars>>
    BY <1>1, <1>3 DEF Balanced, Waiting, Making, SentBack
  <1>4. CASE InitializeTunnels
    <2>1. CASE StartGroup("add", Stored)
      BY <1>2, <1>4, <2>1, ConstantsAssumption DEF InitializeTunnels
    <2>2. CASE UNCHANGED callerVars
      BY <1>4, <1>3, <2>2 DEF InitializeTunnels
    <2> QED BY <1>4, <2>1, <2>2 DEF InitializeTunnels
  <1>5. CASE RemoveAllPeers
    BY <1>2, <1>5 DEF RemoveAllPeers, TypeInv, TypeOK
  <1>6. CASE MainStep
    BY <1>0, <1>4, <1>5, <1>3, <1>6 DEF MainStep, InitializeDone, RemoveAllDone, TokenToRun, TokenToWaiter,
       ShutdownConfirm
  <1>7. ASSUME NEW c \in Calls, NEW enabled \in BOOLEAN, Call(c[1], c[2], c[3], enabled) PROVE Balanced(op, t)'
    <2>1. \A g \in Proc : \/ /\ cpc'[g] = cpc[g] /\ cop'[g] = cop[g]
                             /\ cpeer'[g] = cpeer[g] /\ held'[g] = held[g]
                          \/ cpc[g] \in {"idle", "request"} /\ cpc'[g] \in {"idle", "request"}
      BY <1>7 DEF Call, TypeInv, TypeOK
    <2>2. UNCHANGED workerVars
      BY <1>7 DEF Call
    <2> QED BY <1>1, <2>1, <2>2, BalancedFrame
  <1>8. ASSUME NEW g \in Proc, Receive(g) PROVE Balanced(op, t)'
    BY <1>0, <1>1, <1>8, WorkerReceiveBalanced, PushbackBalanced DEF Receive, ReceiveClosed
  <1>9. CASE \E g \in Proc, w \in Worker : Accept(g, w)
    BY <1>1, <1>9, AcceptBalanced
  <1>10. CASE \E w \in Worker : AddStep(w) \/ RemoveStep(w)
    BY <1>1, <1>10, WorkerBalanced
  <1> QED BY <1>0, <1>3, <1>6, <1>7, <1>8, <1>9, <1>10 DEF Next, CloseChannels, SendOnClosed, Timeout

\* Counted: while no call times out, none of the confirmations of a tunnel on which
\* no worker gave up is lost or duplicated on its way through the shared channels,
\* whatever handlers call for whatever tunnels: there are always as many of them as
\* calls that wait.
THEOREM Counted ==
  ASSUME ~Timeouts, FiniteProcs
  PROVE  Spec => []ConfirmationsMatchWaiters
  <1>1. TypeInv /\ CountInv /\ [Next]_vars => CountInv'
    <2> SUFFICES ASSUME TypeInv, CountInv, [Next]_vars PROVE CountInv'
      OBVIOUS
    <2>1. GroupIdle'
      BY GroupStep DEF CountInv
    <2>2. ~closed' /\ ~tokenTaken' => \A op \in Op, t \in Tunnel : <<op, t>> \notin failed' => Balanced(op, t)'
      BY CountStep
    <2> QED BY <2>1, <2>2 DEF CountInv
  <1>2. CountInv => ConfirmationsMatchWaiters
    BY DEF CountInv, ConfirmationsMatchWaiters, Balanced, Waiting, Making, SentBack
  <1> QED BY <1>1, <1>2, InitTypeInv, NextTypeInv, InitCount, PTL DEF Spec

-----------------------------------------------------------------------------
(* What a nil means when every tunnel has one caller at a time.            *)

\* No two handlers call for the same tunnel.
OwnTunnels ==
    \A c, d \in Caller, op, o \in Op, t \in Tunnel :
        <<c, op, t>> \in Calls /\ <<d, o, t>> \in Calls => c = d

Up(t)   == t \in active /\ link[t] = "configured"
Down(t) == t \notin active /\ link[t] = "none"
Done(op, t) == IF op = "add" THEN Up(t) ELSE Down(t)

\* Whose goroutines may be at work: those of the tunnels during Run, the handlers
\* from then on.
AtWork == CASE main = "initializing" -> Tunnel
            [] main = "running" -> Caller
            [] OTHER -> {}

\* Each goroutine works on a tunnel of its own, and run() serves it.
Owners ==
    /\ run = "select" /\ ~closed
    /\ \A g \in Proc \ AtWork : cpc[g] = "idle"
    /\ main = "start" => \A g \in Proc : cpeer[g] = NoTunnel /\ res[g] = "none"
    /\ main = "initializing" => \A c \in Caller : cpeer[c] = NoTunnel /\ res[c] = "none"
    /\ main = "initializing" => \A t \in Tunnel : cpeer[t] \in {t, NoTunnel}
    /\ main = "running" => \A c \in Caller : cpeer[c] \in Tunnel => \E op \in Op : <<c, op, cpeer[c]>> \in Calls

\* The call that waits for an operation on tunnel t.
Awaited(op, t) == \E g \in Proc : cpc[g] \in {"wait", "pushback"} /\ cop[g] = op /\ cpeer[g] = t

\* One confirmation per tunnel, in the making or sent back, and somebody waits for it.
OneEach ==
    /\ \A w \in Worker : wpc[w] # "idle" => Awaited(wop[w], wpeer[w])
    /\ \A v, w \in Worker : wpc[v] # "idle" /\ wpc[w] # "idle" /\ wpeer[v] = wpeer[w] => v = w
    /\ \A g \in Proc : cpc[g] = "pushback" => held[g] \in Tunnel /\ Awaited(cop[g], held[g])
    /\ \A g, h \in Proc : cpc[g] = "pushback" /\ cpc[h] = "pushback" /\ held[g] = held[h] => g = h
    /\ \A g \in Proc, w \in Worker : cpc[g] = "pushback" /\ wpc[w] # "idle" => held[g] # wpeer[w]

\* How far a worker has brought the interface of its tunnel.
Reached(w, t) ==
    /\ wpc[w] \in {"lookup", "unlist"} => Up(t) \/ Down(t)
    /\ wpc[w] = "create" => Down(t)
    /\ wpc[w] = "configure" => link[t] # "none"
    /\ wpc[w] = "store" => link[t] = "configured"
    /\ wpc[w] \in {"rmLookup", "delete"} => t \notin active /\ link[t] = "configured"
    /\ wpc[w] = "confirm" => Done(wop[w], t)

Free(t) == \A w \in Worker : wpc[w] # "idle" => wpeer[w] # t

Interfaces ==
    /\ \A w \in Worker : wpc[w] # "idle" => Reached(w, wpeer[w])
    /\ \A t \in Tunnel : Free(t) /\ ~Abandoned(t) => Up(t) \/ Down(t)
    /\ \A g \in Proc : cpc[g] = "pushback" => Done(cop[g], held[g])
    /\ \A g \in AtWork : cpc[g] = "idle" /\ res[g] = "ok" => cpeer[g] \in Tunnel /\ Done(cop[g], cpeer[g])

Serving == main \in {"start", "initializing", "running"}

\* The call whose worker gave up waits for ever: nobody else touches its tunnel.
Stuck ==
    \A t \in Tunnel : Abandoned(t) =>
        /\ Free(t)
        /\ \A g \in Proc : cpc[g] = "pushback" => held[g] # t
        /\ \E op \in Op : Awaited(op, t)

NilInv == Serving => Owners /\ OneEach /\ Interfaces /\ Stuck

LEMMA InitNil == Init => NilInv
  <1> SUFFICES ASSUME Init PROVE Owners /\ OneEach /\ Interfaces /\ Stuck
    BY DEF NilInv
  <1>1. Owners
    BY DEF Init, Owners, AtWork
  <1>2. OneEach
    BY DEF Init, OneEach
  <1>3. Interfaces
    BY DEF Init, Interfaces, AtWork, Up, Down
  <1>4. Stuck
    BY DEF Init, Stuck, Abandoned
  <1> QED BY <1>1, <1>2, <1>3, <1>4

\* Two goroutines at work have different tunnels.
LEMMA Alone ==
  ASSUME OwnTunnels, Serving, Owners, NEW g \in AtWork, NEW h \in AtWork, cpeer[g] = cpeer[h], cpeer[g] \in Tunnel
  PROVE  g = h
  <1>1. CASE main = "initializing"
    BY <1>1, ConstantsAssumption DEF Owners, AtWork
  <1>2. CASE main = "running"
    BY <1>2 DEF Owners, AtWork, OwnTunnels
  <1>3. CASE main = "start"
    BY <1>3 DEF AtWork
  <1> QED BY <1>1, <1>2, <1>3 DEF Serving

LEMMA BusyAtWork ==
  ASSUME TypeInv, Owners, NEW g \in Proc, cpc[g] # "idle"
  PROVE  g \in AtWork /\ cpeer[g] \in Tunnel
  BY DEF Owners, TypeInv, Shape

\* A tunnel somebody waits for is nobody else's.
LEMMA OnlyWaiter ==
  ASSUME OwnTunnels, Serving, TypeInv, Owners, NEW op, NEW t \in Tunnel, Awaited(op, t),
         NEW g \in AtWork, cpeer[g] = t
  PROVE  cpc[g] \in {"wait", "pushback"} /\ cop[g] = op
  BY Alone, BusyAtWork DEF Awaited

\* A worker takes its next step: only its own tunnel changes.
LEMMA WorkerMoves ==
  ASSUME OwnTunnels, Serving, TypeInv, Owners, OneEach, Interfaces, NEW w \in Worker, wpc[w] # "idle",
         UNCHANGED <<main, run, closed, callerVars, wop, wpeer, failed>>,
         NEW s, s # "idle", wpc' = [wpc EXCEPT ![w] = s],
         \A t \in Tunnel : t # wpeer[w] => link'[t] = link[t] /\ (t \in active' <=> t \in active),
         Reached(w, wpeer[w])'
  PROVE  Owners' /\ OneEach' /\ Interfaces'
  <1>1. Owners'
    BY DEF Owners, AtWork
  <1>2. \A v \in Worker : wpc'[v] # "idle" <=> wpc[v] # "idle"
    BY DEF TypeInv, TypeOK
  <1>3. OneEach'
    BY <1>2 DEF OneEach, Awaited
  <1>4. wpeer[w] \in Tunnel /\ Awaited(wop[w], wpeer[w])
    BY DEF TypeInv, Shape, OneEach
  <1>5. \A v \in Worker : wpc'[v] # "idle" => Reached(v, wpeer[v])'
    <2> SUFFICES ASSUME NEW v \in Worker, wpc'[v] # "idle", v # w PROVE Reached(v, wpeer[v])'
      OBVIOUS
    <2>1. wpc'[v] = wpc[v] /\ wpeer[v] # wpeer[w] /\ wpeer[v] \in Tunnel /\ Reached(v, wpeer[v])
      BY <1>2 DEF OneEach, Interfaces, TypeInv, TypeOK, Shape
    <2> QED BY <2>1 DEF Reached, Up, Down, Done
  <1>6. \A t \in Tunnel : Free(t)' /\ ~Abandoned(t)' => Up(t)' \/ Down(t)'
    BY <1>2 DEF Free, Interfaces, Up, Down, Abandoned
  <1>7. \A g \in Proc : cpc'[g] = "pushback" => Done(cop[g], held[g])'
    BY DEF Interfaces, OneEach, Done, Up, Down
  <1>8. \A g \in AtWork' : cpc'[g] = "idle" /\ res'[g] = "ok" => cpeer'[g] \in Tunnel /\ Done(cop[g], cpeer[g])'
    <2> SUFFICES ASSUME NEW g \in AtWork, cpc[g] = "idle", res[g] = "ok"
                 PROVE  cpeer[g] \in Tunnel /\ Done(cop[g], cpeer[g])'
      BY DEF AtWork
    <2>1. cpeer[g] \in Tunnel /\ Done(cop[g], cpeer[g])
      BY DEF Interfaces
    <2>2. cpeer[g] # wpeer[w]
      BY <1>4, OnlyWaiter
    <2> QED BY <2>1, <2>2 DEF Done, Up, Down
  <1> QED BY <1>1, <1>3, <1>5, <1>6, <1>7, <1>8 DEF Interfaces

\* A worker gives up: its tunnel is in no worker's hands any more.
LEMMA WorkerStops ==
  ASSUME OwnTunnels, Serving, TypeInv, Owners, OneEach, Interfaces, NEW w \in Worker, wpc[w] # "idle",
         UNCHANGED <<main, run, closed, callerVars>>, GiveUp(w),
         \A t \in Tunnel : t # wpeer[w] => link'[t] = link[t] /\ (t \in active' <=> t \in active)
  PROVE  Owners' /\ OneEach' /\ Interfaces'
  <1>1. /\ wpc'[w] = "idle"
        /\ \A v \in Worker : v # w => wpc'[v] = wpc[v] /\ wop'[v] = wop[v] /\ wpeer'[v] = wpeer[v]
        /\ wpeer[w] \in Tunnel /\ wop[w] \in Op /\ Awaited(wop[w], wpeer[w])
    BY DEF GiveUp, WorkerEnds, TypeInv, TypeOK, Shape, OneEach
  <1>2. Owners'
    BY DEF Owners, AtWork
  <1>3. OneEach'
    BY <1>1 DEF OneEach, Awaited
  <1>4. \A v \in Worker : wpc'[v] # "idle" => Reached(v, wpeer[v])'
    <2> SUFFICES ASSUME NEW v \in Worker, wpc'[v] # "idle", v # w PROVE Reached(v, wpeer[v])'
      BY <1>1
    <2>1. wpeer[v] # wpeer[w] /\ wpeer[v] \in Tunnel /\ Reached(v, wpeer[v])
      BY <1>1 DEF OneEach, Interfaces, TypeInv, Shape
    <2> QED BY <1>1, <2>1 DEF Reached, Up, Down, Done
  <1>5. \A t \in Tunnel : Free(t)' /\ ~Abandoned(t)' => Up(t)' \/ Down(t)'
    <2> SUFFICES ASSUME NEW t \in Tunnel, Free(t)', ~Abandoned(t)' PROVE Up(t)' \/ Down(t)'
      OBVIOUS
    <2>1. t # wpeer[w] /\ ~Abandoned(t)
      BY <1>1 DEF Abandoned, GiveUp
    <2>2. Free(t)
      BY <1>1, <2>1 DEF Free
    <2> QED BY <2>1, <2>2 DEF Interfaces, Up, Down
  <1>6. \A g \in Proc : cpc'[g] = "pushback" => Done(cop[g], held[g])'
    BY DEF Interfaces, OneEach, Done, Up, Down
  <1>7. \A g \in AtWork' : cpc'[g] = "idle" /\ res'[g] = "ok" => cpeer'[g] \in Tunnel /\ Done(cop[g], cpeer[g])'
    <2> SUFFICES ASSUME NEW g \in AtWork, cpc[g] = "idle", res[g] = "ok"
                 PROVE  cpeer[g] \in Tunnel /\ Done(cop[g], cpeer[g])'
      BY DEF AtWork
    <2>1. cpeer[g] \in Tunnel /\ Done(cop[g], cpeer[g])
      BY DEF Interfaces
    <2>2. cpeer[g] # wpeer[w]
      BY <1>1, OnlyWaiter
    <2> QED BY <2>1, <2>2 DEF Done, Up, Down
  <1> QED BY <1>2, <1>3, <1>4, <1>5, <1>6, <1>7 DEF Interfaces

LEMMA WorkerNil ==
  ASSUME ~Failures, OwnTunnels, TypeInv, Serving, Owners, OneEach, Interfaces,
         NEW w \in Worker, AddStep(w) \/ RemoveStep(w)
  PROVE  Owners' /\ OneEach' /\ Interfaces'
  <1> DEFINE t == wpeer[w]
  <1>0. /\ wpc[w] # "idle" => t \in Tunnel /\ Reached(w, t)
        /\ wpc[w] \in AddState => wop[w] = "add"
        /\ wpc[w] \in RemoveState => wop[w] = "remove"
    BY DEF TypeInv, Shape, Interfaces
  <1>1. CASE AddLookup(w)
    <2>1. /\ wpc[w] = "lookup" /\ UNCHANGED <<main, run, closed, callerVars, wop, wpeer, failed, active, link>>
          /\ wpc' = [wpc EXCEPT ![w] = IF link[t] = "none" THEN "create" ELSE "configure"]
      BY <1>1 DEF AddLookup
    <2>2. Reached(w, wpeer[w])'
      BY <1>0, <2>1 DEF Reached, Up, Down, TypeInv, TypeOK
    <2> QED BY <2>1, <2>2, WorkerMoves
  <1>2. CASE AddCreate(w)
    <2>1. link[t] = "none" /\ t \notin active /\ t \in Tunnel /\ wpc[w] = "create"
      BY <1>0, <1>2 DEF AddCreate, Reached, Down
    <2>2. /\ UNCHANGED <<main, run, closed, callerVars, wop, wpeer, failed, active>>
          /\ wpc' = [wpc EXCEPT ![w] = "configure"] /\ link' = [link EXCEPT ![t] = "created"]
      BY <1>2, <2>1 DEF AddCreate
    <2>3. Reached(w, wpeer[w])'
      BY <2>1, <2>2 DEF Reached, TypeInv, TypeOK
    <2> QED BY <2>1, <2>2, <2>3, WorkerMoves DEF TypeInv, TypeOK
  <1>3. CASE AddConfigure(w)
    <2>1. link[t] # "none" /\ t \in Tunnel /\ wpc[w] = "configure"
      BY <1>0, <1>3 DEF AddConfigure, Reached
    <2>2. CASE t \notin rules
      <3>1. /\ UNCHANGED <<main, run, closed, callerVars, wop, wpeer, failed, active>>
            /\ wpc' = [wpc EXCEPT ![w] = "store"] /\ link' = [link EXCEPT ![t] = "configured"]
        BY <1>3, <2>1, <2>2 DEF AddConfigure
      <3>2. Reached(w, wpeer[w])'
        BY <2>1, <3>1 DEF Reached, TypeInv, TypeOK
      <3> QED BY <2>1, <3>1, <3>2, WorkerMoves DEF TypeInv, TypeOK
    <2>3. CASE t \in rules
      <3>1. /\ UNCHANGED <<main, run, closed, callerVars, active>>
            /\ link' = [link EXCEPT ![t] = "configured"] /\ GiveUp(w)
        BY <1>3, <2>1, <2>3 DEF AddConfigure
      <3> QED BY <2>1, <3>1, WorkerStops DEF TypeInv, TypeOK
    <2> QED BY <2>2, <2>3
  <1>8. CASE KeyTooShort(w)
    <2>1. /\ wpc[w] = "configure" /\ UNCHANGED <<main, run, closed, callerVars, wop, wpeer, failed, active, link>>
          /\ wpc' = [wpc EXCEPT ![w] = "configure"]
      BY <1>8 DEF KeyTooShort, TypeInv, TypeOK
    <2>2. Reached(w, wpeer[w])'
      BY <1>0, <2>1 DEF Reached, TypeInv, TypeOK
    <2> QED BY <2>1, <2>2, WorkerMoves
  <1>4. CASE AddStore(w)
    <2>1. link[t] = "configured" /\ t \in Tunnel /\ wpc[w] = "store" /\ wop[w] = "add"
      BY <1>0, <1>4 DEF AddStore, Reached, AddState
    <2>2. /\ UNCHANGED <<main, run, closed, callerVars, wop, wpeer, failed, link>>
          /\ wpc' = [wpc EXCEPT ![w] = "confirm"] /\ active' = active \cup {t}
      BY <1>4 DEF AddStore
    <2>3. Reached(w, wpeer[w])'
      BY <2>1, <2>2 DEF Reached, Done, Up, TypeInv, TypeOK
    <2> QED BY <2>1, <2>2, <2>3, WorkerMoves
  <1>5. CASE RemoveUnlist(w)
    <2>1. (Up(t) \/ Down(t)) /\ t \in Tunnel /\ wpc[w] = "unlist" /\ wop[w] = "remove"
      BY <1>0, <1>5 DEF RemoveUnlist, Reached, RemoveState
    <2>2. /\ UNCHANGED <<main, run, closed, callerVars, wop, wpeer, failed, link>>
          /\ wpc' = [wpc EXCEPT ![w] = IF t \in active THEN "rmLookup" ELSE "confirm"]
          /\ active' = active \ {t}
      BY <1>5 DEF RemoveUnlist
    <2>3. Reached(w, wpeer[w])'
      BY <2>1, <2>2 DEF Reached, Done, Up, Down, TypeInv, TypeOK
    <2> QED BY <2>1, <2>2, <2>3, WorkerMoves
  <1>6. CASE RemoveLookup(w)
    <2>1. link[t] = "configured" /\ t \notin active /\ t \in Tunnel /\ wpc[w] = "rmLookup"
      BY <1>0, <1>6 DEF RemoveLookup, Reached
    <2>2. /\ UNCHANGED <<main, run, closed, callerVars, wop, wpeer, failed, link, active>>
          /\ wpc' = [wpc EXCEPT ![w] = "delete"]
      BY <1>6, <2>1 DEF RemoveLookup
    <2>3. Reached(w, wpeer[w])'
      BY <2>1, <2>2 DEF Reached, TypeInv, TypeOK
    <2> QED BY <2>1, <2>2, <2>3, WorkerMoves
  <1>7. CASE RemoveDelete(w)
    <2>1. link[t] = "configured" /\ t \notin active /\ t \in Tunnel /\ wpc[w] = "delete" /\ wop[w] = "remove"
      BY <1>0, <1>7 DEF RemoveDelete, Reached, RemoveState
    <2>2. /\ UNCHANGED <<main, run, closed, callerVars, wop, wpeer, failed, active>>
          /\ wpc' = [wpc EXCEPT ![w] = "confirm"] /\ link' = [link EXCEPT ![t] = "none"]
      BY <1>7, <2>1 DEF RemoveDelete
    <2>3. Reached(w, wpeer[w])'
      BY <2>1, <2>2 DEF Reached, Done, Down, TypeInv, TypeOK
    <2> QED BY <2>1, <2>2, <2>3, WorkerMoves DEF TypeInv, TypeOK
  <1> QED BY <1>1, <1>2, <1>3, <1>4, <1>5, <1>6, <1>7, <1>8 DEF AddStep, RemoveStep
\* Run starts with nobody at work, and ends with its group at rest.
LEMMA MainNil ==
  ASSUME TypeInv, Serving, Owners, OneEach, Interfaces, Stuck, MainStep, Serving'
  PROVE  Owners' /\ OneEach' /\ Interfaces'
  <1>1. CASE InitializeTunnels /\ main' = "initializing"
    <2>0. /\ main = "start" /\ StartGroup("add", Stored) /\ UNCHANGED <<run, closed, workerVars, kernelVars>>
      BY <1>1 DEF InitializeTunnels
    <2>1. \A g \in Proc : cpc[g] = "idle" /\ cpeer[g] = NoTunnel /\ res[g] = "none"
      BY <2>0 DEF Owners, AtWork
    <2>2. \A w \in Worker : wpc[w] = "idle"
      BY <2>1 DEF OneEach, Awaited
    <2>3. \A g \in Proc : cpc'[g] \in {"idle", "request"} /\ res'[g] = "none"
      BY <2>0, <2>1 DEF StartGroup
    <2>4. Owners'
      <3>1. AtWork' = Tunnel /\ run' = "select" /\ ~closed'
        BY <1>1, <2>0 DEF AtWork, Owners
      <3>2. \A c \in Caller : c \in Proc /\ c \notin Stored
        BY ConstantsAssumption DEF Proc
      <3>3. \A c \in Caller : cpc'[c] = "idle" /\ cpeer'[c] = NoTunnel /\ res'[c] = "none"
        BY <2>0, <2>1, <2>3, <3>2 DEF StartGroup
      <3>4. \A t \in Tunnel : cpeer'[t] \in {t, NoTunnel}
        BY <2>0, <2>1 DEF StartGroup, Proc
      <3> QED BY <1>1, <3>1, <3>3, <3>4 DEF Owners, Proc
    <2>5. OneEach'
      BY <2>0, <2>2, <2>3 DEF OneEach
    <2>6. Interfaces'
      <3>1. \A t \in Tunnel : Up(t)' \/ Down(t)'
        <4>1. \A t \in Tunnel : ~Abandoned(t)
          BY <2>1 DEF Stuck, Awaited
        <4> QED BY <2>0, <2>2, <4>1 DEF Interfaces, Free, Up, Down
      <3>2. AtWork' \subseteq Proc
        BY <1>1 DEF AtWork, Proc
      <3> QED BY <2>0, <2>2, <2>3, <3>1, <3>2 DEF Interfaces
    <2> QED BY <2>4, <2>5, <2>6
  <1>2. CASE InitializeDone /\ main' = "running"
    <2>0. /\ main = "initializing" /\ UNCHANGED <<run, closed, callerVars, workerVars, kernelVars, failed>>
          /\ \A t \in Tunnel : cpc[t] = "idle"
      BY <1>2 DEF InitializeDone, GroupDone
    <2>1. \A c \in Caller : cpc[c] = "idle" /\ cpeer[c] = NoTunnel /\ res[c] = "none"
      BY <2>0, ConstantsAssumption DEF Owners, AtWork, Proc
    <2>2. Owners'
      BY <1>2, <2>0, <2>1, ConstantsAssumption DEF Owners, AtWork, Proc
    <2>3. OneEach'
      BY <2>0 DEF OneEach, Awaited
    <2>4. Interfaces'
      <3>1. AtWork' = Caller
        BY <1>2 DEF AtWork
      <3>2. \A w \in Worker : wpc[w] # "idle" => Reached(w, wpeer[w])'
        BY <2>0 DEF Interfaces, Reached, Up, Down, Done
      <3>3. \A t \in Tunnel : Free(t)' /\ ~Abandoned(t)' => Up(t)' \/ Down(t)'
        BY <2>0 DEF Interfaces, Free, Up, Down, Abandoned
      <3>4. \A g \in Proc : cpc[g] = "pushback" => Done(cop[g], held[g])'
        BY <2>0 DEF Interfaces, Done, Up, Down
      <3> QED BY <2>0, <2>1, <3>1, <3>2, <3>3, <3>4 DEF Interfaces
    <2> QED BY <2>2, <2>3, <2>4
  <1> QED BY <1>1, <1>2 DEF MainStep, Serving, InitializeTunnels, InitializeDone, RemoveAllPeers,
       RemoveAllDone, TokenToRun, TokenToWaiter, ShutdownConfirm

LEMMA CallNil ==
  ASSUME TypeInv, Serving, Owners, OneEach, Interfaces,
         NEW c \in Calls, NEW enabled \in BOOLEAN, Call(c[1], c[2], c[3], enabled)
  PROVE  Owners' /\ OneEach' /\ Interfaces'
  <1>0. /\ main = "running" /\ UNCHANGED <<main, run, closed, held, workerVars, kernelVars, failed>>
        /\ cpc[c[1]] = "idle"
    BY DEF Call, Serving
  <1>1. c[1] \in Caller /\ c[1] \in Proc /\ c[2] \in Op /\ c[3] \in Tunnel /\ c = <<c[1], c[2], c[3]>>
    BY ConstantsAssumption DEF Proc
  <1>2. /\ cpc'[c[1]] \in {"idle", "request"} /\ cpeer'[c[1]] = c[3] /\ res'[c[1]] \in {"none", "disabled"}
        /\ \A g \in Proc : g # c[1] => /\ cpc'[g] = cpc[g] /\ cpeer'[g] = cpeer[g]
                                       /\ cop'[g] = cop[g] /\ res'[g] = res[g]
    BY <1>0, <1>1 DEF Call, TypeInv, TypeOK
  <1>3. AtWork = Caller /\ AtWork' = Caller
    BY <1>0 DEF AtWork
  <1>4. Owners'
    <2>1. \A g \in Proc \ Caller : cpc'[g] = "idle"
      BY <1>1, <1>2, <1>3 DEF Owners
    <2>2. \A d \in Caller : cpeer'[d] \in Tunnel => \E op \in Op : <<d, op, cpeer'[d]>> \in Calls
      BY <1>0, <1>1, <1>2 DEF Owners, Proc
    <2> QED BY <1>0, <1>3, <2>1, <2>2 DEF Owners
  <1>5. \A op, t : Awaited(op, t) => Awaited(op, t)'
    BY <1>0, <1>2 DEF Awaited
  <1>6. \A g \in Proc : cpc'[g] = "pushback" => g # c[1] /\ cpc[g] = "pushback" /\ cop'[g] = cop[g] /\ held'[g] = held[g]
    BY <1>0, <1>2
  <1>7. OneEach'
    <2>1. \A w \in Worker : wpc[w] # "idle" => Awaited(wop[w], wpeer[w])'
      BY <1>0, <1>5 DEF OneEach, Awaited
    <2>2. ASSUME NEW g \in Proc, cpc'[g] = "pushback" PROVE held'[g] \in Tunnel /\ Awaited(cop[g], held[g])'
      <3>1. cpc[g] = "pushback" /\ cop'[g] = cop[g] /\ held'[g] = held[g]
        BY <1>6, <2>2
      <3>2. held[g] \in Tunnel /\ Awaited(cop[g], held[g])
        BY <3>1 DEF OneEach
      <3>3. PICK h \in Proc : cpc[h] \in {"wait", "pushback"} /\ cop[h] = cop[g] /\ cpeer[h] = held[g]
        BY <3>2 DEF Awaited
      <3>4. h # c[1]
        BY <1>0, <3>3
      <3>5. cpc'[h] \in {"wait", "pushback"} /\ cop'[h] = cop'[g] /\ cpeer'[h] = held'[g]
        BY <1>2, <3>1, <3>3, <3>4
      <3> QED BY <3>1, <3>2, <3>5 DEF Awaited
    <2> QED BY <1>0, <1>6, <2>1, <2>2 DEF OneEach
  <1>8. Interfaces'
    <2>1. \A w \in Worker : wpc[w] # "idle" => Reached(w, wpeer[w])'
      BY <1>0 DEF Interfaces, Reached, Up, Down, Done
    <2>2. \A t \in Tunnel : Free(t)' /\ ~Abandoned(t)' => Up(t)' \/ Down(t)'
      BY <1>0 DEF Interfaces, Free, Up, Down, Abandoned
    <2>3. \A g \in Proc : cpc'[g] = "pushback" => Done(cop[g], held[g])'
      BY <1>0, <1>6 DEF Interfaces, Done, Up, Down
    <2>4. \A g \in Caller : cpc'[g] = "idle" /\ res'[g] = "ok" => cpeer'[g] \in Tunnel /\ Done(cop[g], cpeer[g])'
      BY <1>0, <1>2, <1>3 DEF Interfaces, Done, Up, Down, Proc
    <2> QED BY <1>0, <1>3, <2>1, <2>2, <2>3, <2>4 DEF Interfaces
  <1> QED BY <1>4, <1>7, <1>8

LEMMA AcceptNil ==
  ASSUME OwnTunnels, TypeInv, Serving, Owners, OneEach, Interfaces, Stuck,
         NEW g \in Proc, NEW w \in Worker, Accept(g, w)
  PROVE  Owners' /\ OneEach' /\ Interfaces'
  <1> DEFINE t == cpeer[g]
  <1>0. /\ UNCHANGED <<main, run, closed, cop, cpeer, held, res, active, link, failed>>
        /\ cpc[g] = "request" /\ cpc' = [cpc EXCEPT ![g] = "wait"] /\ wpc[w] = "idle"
        /\ wpc'[w] \in {"lookup", "unlist"} /\ wop'[w] = cop[g] /\ wpeer'[w] = t
        /\ \A v \in Worker : v # w => wpc'[v] = wpc[v] /\ wop'[v] = wop[v] /\ wpeer'[v] = wpeer[v]
    BY DEF Accept, TypeInv, TypeOK
  <1>1. t \in Tunnel /\ g \in AtWork
    BY <1>0, BusyAtWork
  <1>2. \A op : ~Awaited(op, t)
    BY <1>0, <1>1, OnlyWaiter
  <1>3. \A v \in Worker : wpc[v] # "idle" => wpeer[v] # t
    BY <1>2 DEF OneEach
  <1>4. \A h \in Proc : cpc[h] = "pushback" => held[h] # t
    BY <1>2 DEF OneEach
  <1>5. \A h \in Proc : h # g => cpc'[h] = cpc[h]
    BY <1>0 DEF TypeInv, TypeOK
  <1>6. cpc'[g] = "wait"
    BY <1>0 DEF TypeInv, TypeOK
  <1>7. AtWork' = AtWork
    BY <1>0 DEF AtWork
  <1>8. Owners'
    BY <1>0, <1>1, <1>5, <1>7 DEF Owners
  <1>9. \A op, u : Awaited(op, u) => Awaited(op, u)'
    BY <1>0, <1>5, <1>6 DEF Awaited
  <1>10. OneEach'
    <2>1. \A v \in Worker : wpc'[v] # "idle" => Awaited(wop[v], wpeer[v])'
      <3>1. Awaited(wop[w], wpeer[w])'
        BY <1>0, <1>6 DEF Awaited
      <3>2. \A v \in Worker : v # w /\ wpc[v] # "idle" => Awaited(wop[v], wpeer[v])'
        BY <1>0, <1>9 DEF OneEach, Awaited
      <3> QED BY <1>0, <3>1, <3>2
    <2>2. \A h \in Proc : cpc'[h] = "pushback" => cpc[h] = "pushback"
      BY <1>5, <1>6
    <2>3. \A h \in Proc : cpc'[h] = "pushback" => held'[h] \in Tunnel /\ Awaited(cop[h], held[h])'
      BY <1>0, <1>9, <2>2 DEF OneEach, Awaited
    <2>4. \A u, v \in Worker : wpc'[u] # "idle" /\ wpc'[v] # "idle" /\ wpeer'[u] = wpeer'[v] => u = v
      BY <1>0, <1>3 DEF OneEach
    <2>5. \A h \in Proc, v \in Worker : cpc'[h] = "pushback" /\ wpc'[v] # "idle" => held'[h] # wpeer'[v]
      BY <1>0, <1>4, <2>2 DEF OneEach
    <2>6. \A f, h \in Proc : cpc'[f] = "pushback" /\ cpc'[h] = "pushback" /\ held'[f] = held'[h] => f = h
      BY <1>0, <2>2 DEF OneEach
    <2> QED BY <2>1, <2>3, <2>4, <2>5, <2>6 DEF OneEach
  <1>11. Interfaces'
    <2>1. Up(t) \/ Down(t)
      BY <1>1, <1>2, <1>3 DEF Interfaces, Free, Stuck
    <2>2. \A v \in Worker : wpc'[v] # "idle" => Reached(v, wpeer[v])'
      <3>1. Reached(w, wpeer[w])'
        BY <1>0, <2>1 DEF Reached, Up, Down
      <3>2. \A v \in Worker : v # w /\ wpc[v] # "idle" => Reached(v, wpeer[v])'
        BY <1>0 DEF Interfaces, Reached, Up, Down, Done
      <3> QED BY <1>0, <3>1, <3>2
    <2>3. \A u \in Tunnel : Free(u)' /\ ~Abandoned(u)' => Up(u)' \/ Down(u)'
      BY <1>0, <2>1 DEF Interfaces, Free, Up, Down, Abandoned
    <2>4. \A h \in Proc : cpc'[h] = "pushback" => Done(cop[h], held[h])'
      BY <1>0, <1>5, <1>6 DEF Interfaces, Done, Up, Down
    <2>5. \A h \in AtWork : h \in Proc
      BY DEF AtWork, Proc, Serving
    <2>6. \A h \in AtWork : cpc'[h] = "idle" /\ res'[h] = "ok" => cpeer'[h] \in Tunnel /\ Done(cop[h], cpeer[h])'
      BY <1>0, <1>5, <1>6, <2>5 DEF Interfaces, Done, Up, Down
    <2> QED BY <1>7, <2>2, <2>3, <2>4, <2>6 DEF Interfaces
  <1> QED BY <1>8, <1>10, <1>11
\* A confirmation comes from a worker.
LEMMA WorkerReceiveNil ==
  ASSUME TypeInv, Serving, Owners, OneEach, Interfaces,
         NEW g \in Proc, NEW w \in Worker, ReceiveFromWorker(g, w)
  PROVE  Owners' /\ OneEach' /\ Interfaces'
  <1> DEFINE t == wpeer[w]
             own == t = cpeer[g]
  <1>0. /\ UNCHANGED <<main, run, closed, cop, cpeer, active, link, failed>>
        /\ cpc[g] = "wait" /\ wpc[w] = "confirm" /\ wop[w] = cop[g] /\ wpc'[w] = "idle"
        /\ \A v \in Worker : v # w => wpc'[v] = wpc[v] /\ wop'[v] = wop[v] /\ wpeer'[v] = wpeer[v]
        /\ \A h \in Proc : h # g => cpc'[h] = cpc[h] /\ held'[h] = held[h] /\ res'[h] = res[h]
        /\ own => cpc'[g] = "idle" /\ res'[g] = "ok"
        /\ ~own => cpc'[g] = "pushback" /\ held'[g] = t /\ res'[g] = res[g]
    BY DEF ReceiveFromWorker, WorkerEnds, AfterReceive, HeldAfter, ResultAfter, TypeInv, TypeOK
  <1>1. t \in Tunnel /\ Done(cop[g], t) /\ Awaited(cop[g], t)
    BY <1>0 DEF TypeInv, Shape, Interfaces, Reached, OneEach
  <1>2. AtWork' = AtWork /\ g \in AtWork /\ AtWork \subseteq Proc
    BY <1>0, BusyAtWork DEF AtWork, Proc, Serving
  <1>3. Owners'
    <2>1. \A h \in Proc \ AtWork : cpc'[h] = "idle"
      BY <1>0, <1>2 DEF Owners
    <2>2. main # "start" /\ (main = "initializing" => \A c \in Caller : res'[c] = res[c])
      BY <1>0, <1>2, ConstantsAssumption DEF AtWork, Proc
    <2> QED BY <1>0, <1>2, <2>1, <2>2 DEF Owners
  <1>4. \A op, u : Awaited(op, u) /\ ~(own /\ u = t) => Awaited(op, u)'
    BY <1>0 DEF Awaited
  <1>5. \A v \in Worker : wpc'[v] # "idle" => v # w /\ wpc[v] # "idle" /\ wpeer[v] # t
    BY <1>0 DEF OneEach
  <1>6. \A h \in Proc : cpc[h] = "pushback" => h # g /\ held[h] # t
    BY <1>0 DEF OneEach
  <1>7. OneEach'
    <2>1. \A v \in Worker : wpc'[v] # "idle" => Awaited(wop[v], wpeer[v])'
      BY <1>0, <1>4, <1>5 DEF OneEach, Awaited
    <2>2. \A h \in Proc : cpc'[h] = "pushback" => held'[h] \in Tunnel /\ Awaited(cop[h], held[h])'
      <3>1. \A h \in Proc : h # g /\ cpc[h] = "pushback" => held'[h] \in Tunnel /\ Awaited(cop[h], held[h])'
        BY <1>0, <1>4, <1>6 DEF OneEach, Awaited
      <3>2. ~own => held'[g] \in Tunnel /\ Awaited(cop[g], held[g])'
        BY <1>0, <1>1, <1>4 DEF Awaited
      <3> QED BY <1>0, <3>1, <3>2
    <2>3. \A u, v \in Worker : wpc'[u] # "idle" /\ wpc'[v] # "idle" /\ wpeer'[u] = wpeer'[v] => u = v
      BY <1>0, <1>5 DEF OneEach
    <2>4. \A h \in Proc, v \in Worker : cpc'[h] = "pushback" /\ wpc'[v] # "idle" => held'[h] # wpeer'[v]
      BY <1>0, <1>5 DEF OneEach
    <2>5. \A f, h \in Proc : cpc'[f] = "pushback" /\ cpc'[h] = "pushback" /\ held'[f] = held'[h] => f = h
      BY <1>0, <1>6 DEF OneEach
    <2> QED BY <2>1, <2>2, <2>3, <2>4, <2>5 DEF OneEach
  <1>8. Interfaces'
    <2>1. \A v \in Worker : wpc'[v] # "idle" => Reached(v, wpeer[v])'
      BY <1>0, <1>5 DEF Interfaces, Reached, Up, Down, Done
    <2>2. \A u \in Tunnel : Free(u)' /\ ~Abandoned(u)' => Up(u)' \/ Down(u)'
      <3>1. \A u \in Tunnel : u # t /\ Free(u)' => Free(u)
        BY <1>0 DEF Free
      <3>2. \A u \in Tunnel : u # t /\ Free(u)' /\ ~Abandoned(u)' => Up(u)' \/ Down(u)'
        BY <1>0, <3>1 DEF Interfaces, Up, Down, Abandoned
      <3>3. \A u \in Tunnel : u = t => Up(u)' \/ Down(u)'
        BY <1>0, <1>1 DEF Done, Up, Down
      <3> QED BY <3>2, <3>3
    <2>3. \A h \in Proc : cpc'[h] = "pushback" => Done(cop[h], held[h])'
      BY <1>0, <1>1 DEF Interfaces, Done, Up, Down
    <2>4. \A h \in AtWork : cpc'[h] = "idle" /\ res'[h] = "ok" => cpeer'[h] \in Tunnel /\ Done(cop[h], cpeer[h])'
      BY <1>0, <1>1, <1>2 DEF Interfaces, Done, Up, Down
    <2> QED BY <1>2, <2>1, <2>2, <2>3, <2>4 DEF Interfaces
  <1> QED BY <1>3, <1>7, <1>8

\* A confirmation comes from a caller that sends it back.
LEMMA PushbackNil ==
  ASSUME TypeInv, Serving, Owners, OneEach, Interfaces,
         NEW g \in Proc, NEW f \in Proc, ReceiveFromPushback(g, f)
  PROVE  Owners' /\ OneEach' /\ Interfaces'
  <1> DEFINE t == held[f]
             own == t = cpeer[g]
  <1>0. /\ UNCHANGED <<main, run, closed, cop, cpeer, wpc, wop, wpeer, active, link, failed>>
        /\ cpc[g] = "wait" /\ cpc[f] = "pushback" /\ cop[f] = cop[g] /\ cpc'[f] = "wait" /\ g # f
        /\ res'[f] = res[f]
        /\ \A h \in Proc : h # g /\ h # f => cpc'[h] = cpc[h] /\ held'[h] = held[h] /\ res'[h] = res[h]
        /\ own => cpc'[g] = "idle" /\ res'[g] = "ok"
        /\ ~own => cpc'[g] = "pushback" /\ held'[g] = t /\ res'[g] = res[g]
    BY DEF ReceiveFromPushback, AfterReceive, HeldAfter, ResultAfter, TypeInv, TypeOK
  <1>1. t \in Tunnel /\ Done(cop[g], t) /\ Awaited(cop[g], t)
    BY <1>0 DEF Interfaces, OneEach
  <1>2. AtWork' = AtWork /\ g \in AtWork /\ f \in AtWork /\ AtWork \subseteq Proc
    BY <1>0, BusyAtWork DEF AtWork, Proc, Serving
  <1>3. Owners'
    <2>1. \A h \in Proc \ AtWork : cpc'[h] = "idle"
      BY <1>0, <1>2 DEF Owners
    <2>2. main # "start" /\ (main = "initializing" => \A c \in Caller : res'[c] = res[c])
      BY <1>0, <1>2, ConstantsAssumption DEF AtWork, Proc
    <2> QED BY <1>0, <1>2, <2>1, <2>2 DEF Owners
  <1>4. \A op, u : Awaited(op, u) /\ ~(own /\ u = t) => Awaited(op, u)'
    BY <1>0 DEF Awaited
  <1>5. \A v \in Worker : wpc[v] # "idle" => wpeer[v] # t
    BY <1>0 DEF OneEach
  <1>6. \A h \in Proc : cpc[h] = "pushback" /\ h # f => h # g /\ held[h] # t
    BY <1>0 DEF OneEach
  <1>7. OneEach'
    <2>1. \A v \in Worker : wpc'[v] # "idle" => Awaited(wop[v], wpeer[v])'
      BY <1>0, <1>4, <1>5 DEF OneEach, Awaited
    <2>2. \A h \in Proc : cpc'[h] = "pushback" => held'[h] \in Tunnel /\ Awaited(cop[h], held[h])'
      <3>1. \A h \in Proc : h # g /\ h # f /\ cpc[h] = "pushback" =>
               held'[h] \in Tunnel /\ Awaited(cop[h], held[h])'
        BY <1>0, <1>4, <1>6 DEF OneEach, Awaited
      <3>2. ~own => held'[g] \in Tunnel /\ Awaited(cop[g], held[g])'
        BY <1>0, <1>1, <1>4 DEF Awaited
      <3> QED BY <1>0, <3>1, <3>2
    <2>3. \A u, v \in Worker : wpc'[u] # "idle" /\ wpc'[v] # "idle" /\ wpeer'[u] = wpeer'[v] => u = v
      BY <1>0 DEF OneEach
    <2>4. \A h \in Proc, v \in Worker : cpc'[h] = "pushback" /\ wpc'[v] # "idle" => held'[h] # wpeer'[v]
      BY <1>0, <1>5 DEF OneEach
    <2>5. \A d, h \in Proc : cpc'[d] = "pushback" /\ cpc'[h] = "pushback" /\ held'[d] = held'[h] => d = h
      BY <1>0, <1>6 DEF OneEach
    <2> QED BY <2>1, <2>2, <2>3, <2>4, <2>5 DEF OneEach
  <1>8. Interfaces'
    <2>1. \A v \in Worker : wpc'[v] # "idle" => Reached(v, wpeer[v])'
      BY <1>0 DEF Interfaces, Reached, Up, Down, Done
    <2>2. \A u \in Tunnel : Free(u)' /\ ~Abandoned(u)' => Up(u)' \/ Down(u)'
      BY <1>0 DEF Interfaces, Free, Up, Down, Abandoned
    <2>3. \A h \in Proc : cpc'[h] = "pushback" => Done(cop[h], held[h])'
      BY <1>0, <1>1 DEF Interfaces, Done, Up, Down
    <2>4. \A h \in AtWork : cpc'[h] = "idle" /\ res'[h] = "ok" => cpeer'[h] \in Tunnel /\ Done(cop[h], cpeer[h])'
      BY <1>0, <1>1, <1>2 DEF Interfaces, Done, Up, Down
    <2> QED BY <1>2, <2>1, <2>2, <2>3, <2>4 DEF Interfaces
  <1> QED BY <1>3, <1>7, <1>8

\* The tunnel of a call that waits for ever is left alone.
LEMMA NextStuck ==
  ASSUME ~Failures, ~Timeouts, OwnTunnels, TypeInv, Serving, Owners, OneEach, Interfaces, Stuck, Next, Serving'
  PROVE  Stuck'
  <1>1. ASSUME NEW t \in Tunnel, Abandoned(t) PROVE Free(t)' /\ (\E op \in Op : Awaited(op, t)')
                                                 /\ \A g \in Proc : cpc'[g] = "pushback" => held'[g] # t
    <2>1. PICK op \in Op : Awaited(op, t)
      BY <1>1 DEF Stuck
    <2>2. PICK h \in Proc : cpc[h] \in {"wait", "pushback"} /\ cop[h] = op /\ cpeer[h] = t
      BY <2>1 DEF Awaited
    <2>3. Free(t) /\ \A g \in Proc : cpc[g] = "pushback" => held[g] # t
      BY <1>1 DEF Stuck
    <2>4. CASE MainStep
      BY <2>2, <2>3, <2>4, BusyAtWork DEF MainStep, InitializeTunnels, InitializeDone, RemoveAllPeers, RemoveAllDone,
         TokenToRun, TokenToWaiter, ShutdownConfirm, Serving, AtWork, GroupDone
    <2>5. ASSUME NEW c \in Calls, NEW enabled \in BOOLEAN, Call(c[1], c[2], c[3], enabled)
          PROVE  Free(t)' /\ Awaited(op, t)' /\ \A g \in Proc : cpc'[g] = "pushback" => held'[g] # t
      BY <2>2, <2>3, <2>5, ConstantsAssumption DEF Call, Free, Awaited, TypeInv, TypeOK
    <2>6. ASSUME NEW g \in Proc, NEW w \in Worker, Accept(g, w)
          PROVE  Free(t)' /\ Awaited(op, t)' /\ \A f \in Proc : cpc'[f] = "pushback" => held'[f] # t
      <3>1. g # h /\ cpeer[g] # t
        BY <2>1, <2>2, <2>6, OnlyWaiter, BusyAtWork DEF Accept
      <3> QED BY <2>2, <2>3, <2>6, <3>1 DEF Accept, Free, Awaited, TypeInv, TypeOK
    <2>7. ASSUME NEW g \in Proc, NEW w \in Worker, ReceiveFromWorker(g, w)
          PROVE  Free(t)' /\ Awaited(op, t)' /\ \A f \in Proc : cpc'[f] = "pushback" => held'[f] # t
      <3>1. wpeer[w] # t
        BY <2>3, <2>7 DEF ReceiveFromWorker, Free
      <3> QED BY <2>2, <2>3, <2>7, <3>1 DEF ReceiveFromWorker, WorkerEnds, AfterReceive, HeldAfter, Free, Awaited,
             TypeInv, TypeOK
    <2>8. ASSUME NEW g \in Proc, NEW f \in Proc, ReceiveFromPushback(g, f)
          PROVE  Free(t)' /\ Awaited(op, t)' /\ \A e \in Proc : cpc'[e] = "pushback" => held'[e] # t
      <3>1. held[f] # t
        BY <2>3, <2>8 DEF ReceiveFromPushback
      <3> QED BY <2>2, <2>3, <2>8, <3>1, ConstantsAssumption DEF ReceiveFromPushback, AfterReceive, HeldAfter, Free,
             Awaited, TypeInv, TypeOK
    <2>9. ASSUME NEW w \in Worker, AddStep(w) \/ RemoveStep(w)
          PROVE  Free(t)' /\ Awaited(op, t)' /\ \A g \in Proc : cpc'[g] = "pushback" => held'[g] # t
      <3>1. /\ UNCHANGED callerVars /\ wpc[w] # "idle"
            /\ \A v \in Worker : v # w => wpc'[v] = wpc[v] /\ wpeer'[v] = wpeer[v]
            /\ wpc'[w] # "idle" => wpeer'[w] = wpeer[w]
        BY <2>9 DEF AddStep, RemoveStep, AddLookup, AddCreate, AddConfigure, KeyTooShort, AddStore, RemoveUnlist,
           RemoveLookup, RemoveDelete, GiveUp, WorkerEnds, TypeInv, TypeOK
      <3> QED BY <2>2, <2>3, <3>1 DEF Free, Awaited
    <2>10. ~CloseChannels /\ ~SendOnClosed /\ ~(\E g \in Proc : Timeout(g) \/ ReceiveClosed(g))
      BY DEF CloseChannels, SendOnClosed, Timeout, ReceiveClosed, Owners
    <2> QED BY <2>4, <2>5, <2>6, <2>7, <2>8, <2>9, <2>10 DEF Next, Receive
  <1>2. ASSUME NEW t \in Tunnel, ~Abandoned(t), Abandoned(t)'
        PROVE  Free(t)' /\ (\E op \in Op : Awaited(op, t)') /\ \A g \in Proc : cpc'[g] = "pushback" => held'[g] # t
    <2>1. failed' # failed
      BY <1>2 DEF Abandoned
    <2>2. PICK w \in Worker : AddConfigure(w) \/ AddCreate(w) \/ RemoveLookup(w) \/ RemoveDelete(w)
      BY <2>1 DEF Next, MainStep, InitializeTunnels, InitializeDone, RemoveAllPeers, RemoveAllDone, TokenToRun,
         TokenToWaiter, ShutdownConfirm, CloseChannels, SendOnClosed, Call, Accept, Receive, ReceiveFromWorker,
         ReceiveFromPushback, ReceiveClosed, Timeout, AddStep, AddLookup, KeyTooShort, AddStore, RemoveStep,
         RemoveUnlist
    <2>3. UNCHANGED callerVars /\ wpc[w] # "idle" /\ Reached(w, wpeer[w]) /\ wpeer[w] \in Tunnel
      BY <2>2 DEF AddConfigure, AddCreate, RemoveLookup, RemoveDelete, Interfaces, TypeInv, Shape
    <2>4. GiveUp(w)
      BY <2>1, <2>2, <2>3 DEF AddConfigure, AddCreate, RemoveLookup, RemoveDelete, Reached, Down
    <2>5. t = wpeer[w]
      BY <1>2, <2>4 DEF GiveUp, Abandoned
    <2>6. \A v \in Worker : wpc'[v] # "idle" => wpc[v] # "idle" /\ v # w /\ wpeer'[v] = wpeer[v]
      BY <2>4 DEF GiveUp, WorkerEnds, TypeInv, TypeOK
    <2>7. Free(t)'
      BY <2>3, <2>5, <2>6 DEF Free, OneEach
    <2>8. \E op \in Op : Awaited(op, t)'
      BY <2>3, <2>5 DEF OneEach, Awaited, TypeInv, TypeOK
    <2>9. \A g \in Proc : cpc'[g] = "pushback" => held'[g] # t
      BY <2>3, <2>5 DEF OneEach
    <2> QED BY <2>7, <2>8, <2>9
  <1> QED BY <1>1, <1>2 DEF Stuck
LEMMA NextNil ==
  ASSUME ~Failures, ~Timeouts, OwnTunnels
  PROVE  TypeInv /\ NilInv /\ [Next]_vars => NilInv'
  <1> SUFFICES ASSUME TypeInv, NilInv, [Next]_vars, Serving' PROVE Owners' /\ OneEach' /\ Interfaces' /\ Stuck'
    BY DEF NilInv
  <1>0. CASE UNCHANGED vars
    BY <1>0 DEF NilInv, Serving, Owners, OneEach, Interfaces, Stuck, Abandoned, AtWork, Awaited, Reached, Free,
       Done, Up, Down
  <1>1. CASE Next
    <2>1. Serving /\ Owners /\ OneEach /\ Interfaces /\ Stuck
      <3>1. Serving
        BY <1>1 DEF Serving, Next, MainStep, InitializeTunnels, InitializeDone, RemoveAllPeers, RemoveAllDone,
           TokenToRun, TokenToWaiter, ShutdownConfirm, CloseChannels, SendOnClosed, Call, Accept, Receive,
           ReceiveFromWorker, ReceiveFromPushback, ReceiveClosed, Timeout, AddStep, AddLookup, AddCreate,
           AddConfigure, KeyTooShort, AddStore, RemoveStep, RemoveUnlist, RemoveLookup, RemoveDelete
      <3> QED BY <3>1 DEF NilInv
    <2>2. Stuck'
      BY <1>1, <2>1, NextStuck
    <2>3. CASE MainStep
      BY <2>1, <2>2, <2>3, MainNil
    <2>4. CASE \E c \in Calls, enabled \in BOOLEAN : Call(c[1], c[2], c[3], enabled)
      BY <2>1, <2>2, <2>4, CallNil
    <2>5. CASE \E g \in Proc, w \in Worker : Accept(g, w)
      BY <2>1, <2>2, <2>5, AcceptNil
    <2>6. ASSUME NEW g \in Proc, Receive(g) PROVE Owners' /\ OneEach' /\ Interfaces'
      BY <2>1, <2>6, WorkerReceiveNil, PushbackNil DEF Receive, ReceiveClosed, Owners
    <2>7. CASE \E w \in Worker : AddStep(w) \/ RemoveStep(w)
      BY <2>1, <2>2, <2>7, WorkerNil
    <2>8. ~CloseChannels /\ ~SendOnClosed /\ ~\E g \in Proc : Timeout(g)
      BY <2>1 DEF CloseChannels, SendOnClosed, Timeout, Owners
    <2> QED BY <1>1, <2>2, <2>3, <2>4, <2>5, <2>6, <2>7, <2>8 DEF Next
  <1> QED BY <1>0, <1>1

\* NilIsDone: when no two handlers call for the same tunnel, nothing fails but a rule
\* that an earlier addPeer left behind, and nothing times out, a call that returned nil finds the interface as it asked for, until it
\* calls again: other callers that pass its confirmation on do not matter.
THEOREM NilIsDone ==
  ASSUME ~Failures, ~Timeouts, OwnTunnels
  PROVE  Spec => []NilMeansDone
  <1>1. TypeInv /\ NilInv /\ [Next]_vars => NilInv'
    BY NextNil
  <1>2. NilInv => NilMeansDone
    BY DEF NilInv, Serving, Interfaces, AtWork, NilMeansDone, Done, Up, Down
  <1> QED BY <1>1, <1>2, InitTypeInv, NextTypeInv, InitNil, PTL DEF Spec
=============================================================================
