---------------------------- MODULE ServerProofs ----------------------------
(***************************************************************************)
(* Proofs about EventHub, for any number of senders and connections and    *)
(* any capacity of the queue, and then about Server: the daemon with its   *)
(* hub through any number of kills, crashes and restarts.                  *)
(***************************************************************************)
EXTENDS Server, Integers, FiniteSetTheorems, TLAPS

USE HubAssumption, ServerAssumption
USE DEF hubVars, bus, connections, writes

-----------------------------------------------------------------------------
(* Types.                                                                  *)

LEMMA WrapType == Cardinality(Conn) \in Nat /\ Wrap = Cardinality(Conn) + 1
  BY FS_CardinalityType DEF Wrap

\* The count never leaves the range of its type, wherever it wraps.
LEMMA WrapRange ==
  ASSUME NEW i \in Nat
  PROVE  /\ (i + 1) % Wrap \in 0 .. Cardinality(Conn)
         /\ (i + Wrap - 1) % Wrap \in 0 .. Cardinality(Conn)
  BY WrapType

\* Between zero and its limit the count goes up and down by one.
LEMMA NoWrap ==
  ASSUME NEW i \in 0 .. Cardinality(Conn)
  PROVE  /\ i < Cardinality(Conn) => (i + 1) % Wrap = i + 1
         /\ i > 0 => (i + Wrap - 1) % Wrap = i - 1
  <1>1. ASSUME NEW m \in Nat \ {0}, NEW j \in 0 .. m - 1 PROVE (j + m) % m = j
    OBVIOUS
  <1>2. ASSUME i > 0 PROVE (i + Wrap - 1) % Wrap = i - 1
    <2>1. i - 1 \in 0 .. Wrap - 1 /\ Wrap \in Nat \ {0} /\ (i - 1) + Wrap = i + Wrap - 1
      BY <1>2, WrapType
    <2>2. ((i - 1) + Wrap) % Wrap = i - 1
      BY <1>1, <2>1
    <2> QED BY <2>1, <2>2
  <1> QED BY <1>2, WrapType

LEMMA NoneConnectedType ==
  ASSUME NoneConnected, sender \in [Sender -> {"work", "send", "ended"}],
         hub \in {"off", "receive", "test", "send"}
  PROVE  HubTypeOK
  <1>1. /\ tmp \in [Conn -> 0 .. Cardinality(Conn)] /\ connectedCount \in 0 .. Cardinality(Conn)
        /\ queue \in 0 .. Capacity
    BY WrapType DEF NoneConnected
  <1>2. handler \in [Conn -> {"none", "upgraded", "serving", "ending", "gone"} \cup Connecting \cup Leaving]
    BY DEF NoneConnected
  <1>3. /\ open \in [Conn -> BOOLEAN] /\ forwarder \in [Conn -> BOOLEAN] /\ cancelled \in [Conn -> BOOLEAN]
        /\ reading \in [Conn -> Conn \cup {NoConn}] /\ writing \in [Conn -> Conn \cup {NoConn}]
        /\ blocked \in [Conn -> BOOLEAN]
    BY DEF NoneConnected
  <1>4. /\ closed \in BOOLEAN /\ told \in BOOLEAN /\ process \in {"running", "crashed", "exited"}
        /\ cancel \in Conn \cup {NoConn} /\ sock \in Conn \cup {NoConn}
        /\ raced \in BOOLEAN /\ shared \in BOOLEAN
    BY DEF NoneConnected
  <1> QED BY <1>1, <1>2, <1>3, <1>4 DEF HubTypeOK

LEMMA SendType == ASSUME HubTypeOK, NEW s \in Sender, Send(s) PROVE HubTypeOK'
  BY DEF HubTypeOK, Send, SenderTurn, SenderSend

\* Where the forwarders wait is all that a step changes beside the hub's place.
LEMMA BlockedType ==
  ASSUME HubTypeOK, NEW c \in Conn, NEW b \in BOOLEAN,
         blocked' = blocked \/ blocked' = [blocked EXCEPT ![c] = b], hub' \in {"off", "receive", "test", "send"},
         UNCHANGED <<bus, connectedCount, cancel, sock, open, handler, tmp, reading, forwarder, writing, cancelled, raced, shared>>
  PROVE  HubTypeOK'
  BY DEF HubTypeOK

LEMMA HubStepType == ASSUME HubTypeOK, Hub PROVE HubTypeOK'
  <1>1. CASE HubReceive \/ HubTest
    BY <1>1 DEF HubTypeOK, HubReceive, HubTest
  <1>2. ASSUME NEW c \in Conn, HubSend(c) PROVE HubTypeOK'
    BY <1>2, BlockedType DEF HubSend
  <1> QED BY <1>1, <1>2 DEF Hub

\* All that a handler does.
Handle(c) ==
    \/ Upgrade(c) \/ OnConnect(c) \/ OnConnectCount(c) \/ StartReader(c) \/ ReadMessage(c)
    \/ HandleReturns(c) \/ OnDisconnectCount(c) \/ OnDisconnectCancel(c) \/ HandlerEnds(c)

LEMMA HandleType == ASSUME HubTypeOK, NEW c \in Conn, Handle(c) PROVE HubTypeOK'
  <1> USE DEF HubTypeOK, Goto, Connecting, Leaving
  <1>1. CASE Upgrade(c)
    BY <1>1 DEF Upgrade
  <1>2. CASE OnConnect(c)
    BY <1>2 DEF OnConnect
  <1>3. CASE OnConnectCount(c)
    <2>1. connectedCount' \in 0 .. Cardinality(Conn) /\ 0 \in 0 .. Cardinality(Conn)
      BY <1>3, WrapRange, WrapType DEF OnConnectCount
    <2> QED BY <1>3, <2>1 DEF OnConnectCount
  <1>4. CASE StartReader(c)
    BY <1>4 DEF StartReader
  <1>5. CASE ReadMessage(c)
    BY <1>5 DEF ReadMessage
  <1>6. CASE HandleReturns(c)
    BY <1>6 DEF HandleReturns
  <1>7. CASE OnDisconnectCount(c)
    <2>1. connectedCount' \in 0 .. Cardinality(Conn) /\ 0 \in 0 .. Cardinality(Conn)
      BY <1>7, WrapRange, WrapType DEF OnDisconnectCount
    <2> QED BY <1>7, <2>1 DEF OnDisconnectCount
  <1>8. CASE OnDisconnectCancel(c)
    BY <1>8 DEF OnDisconnectCancel
  <1>9. CASE HandlerEnds(c)
    BY <1>9 DEF HandlerEnds
  <1> QED BY <1>1, <1>2, <1>3, <1>4, <1>5, <1>6, <1>7, <1>8, <1>9 DEF Handle

\* What the browser and the buffer do to a connection between steps of its handler
\* and its forwarder.
Flow(c) == ClientCloses(c) \/ WriteBlocks(c) \/ WriteReturns(c) \/ ForwarderWrites(c)

LEMMA FlowType == ASSUME HubTypeOK, NEW c \in Conn, Flow(c) PROVE HubTypeOK'
  <1>1. CASE ClientCloses(c)
    BY <1>1 DEF HubTypeOK, ClientCloses
  <1>2. CASE WriteBlocks(c)
    BY <1>2 DEF HubTypeOK, WriteBlocks
  <1>3. CASE WriteReturns(c)
    BY <1>3 DEF HubTypeOK, WriteReturns
  <1>4. CASE ForwarderWrites(c)
    BY <1>4, BlockedType DEF ForwarderWrites, HubTypeOK
  <1> QED BY <1>1, <1>2, <1>3, <1>4 DEF Flow

LEMMA FlowFrame ==
  ASSUME NEW c \in Conn, Flow(c)
  PROVE  UNCHANGED <<bus, hub, connectedCount, handler, tmp, forwarder, cancel, cancelled, raced, shared>>
  BY DEF Flow, ClientCloses, WriteBlocks, WriteReturns, ForwarderWrites

\* The steps of a connection are those of its handler, of the flow of its messages,
\* and the end of its forwarder.
LEMMA ConnSteps ==
  ASSUME NEW c \in Conn, Client(c) \/ Serve(c) \/ Forward(c) \/ Resume(c)
  PROVE  Handle(c) \/ ForwarderEnds(c) \/ Flow(c)
  BY DEF Client, Serve, Forward, Resume, Handle, ReadFails, WriteFails, WriteAborts, Flow

LEMMA HubNextType == HubTypeOK /\ HubNext => HubTypeOK'
  <1> SUFFICES ASSUME HubTypeOK, HubNext PROVE HubTypeOK'
    OBVIOUS
  <1>1. ASSUME NEW s \in Sender, Send(s) PROVE HubTypeOK'
    BY <1>1, SendType
  <1>2. CASE Hub
    BY <1>2, HubStepType
  <1>3. ASSUME NEW c \in Conn, Client(c) \/ Serve(c) \/ Forward(c) \/ Resume(c) PROVE HubTypeOK'
    <2>1. CASE ForwarderEnds(c)
      BY <2>1 DEF HubTypeOK, ForwarderEnds
    <2> QED BY <1>3, <2>1, ConnSteps, HandleType, FlowType
  <1> QED BY <1>1, <1>2, <1>3 DEF HubNext

-----------------------------------------------------------------------------
(* The count of the connections.                                           *)

Counted == {c \in Conn : handler[c] \in {"connected", "serving", "uncounting"}}

\* As long as no two updates have overlapped, at most one is under way, and the
\* count is still what that one has read.
OneUpdate ==
    ~raced => /\ \A c, k \in Updating : c = k
              /\ \A c \in Updating : tmp[c] = connectedCount

CountInv == HubTypeOK /\ OneUpdate /\ CountMatches

LEMMA CountedFinite ==
  /\ IsFiniteSet(Counted) /\ Cardinality(Counted) \in 0 .. Cardinality(Conn)
  /\ \A c \in Conn \ Counted : Cardinality(Counted) < Cardinality(Conn)
  <1>1. Counted \subseteq Conn
    BY DEF Counted
  <1>2. IsFiniteSet(Counted) /\ Cardinality(Counted) \in Nat /\ Cardinality(Conn) \in Nat
        /\ Cardinality(Counted) <= Cardinality(Conn)
    BY <1>1, FS_Subset, FS_CardinalityType
  <1>3. ASSUME NEW c \in Conn \ Counted PROVE Cardinality(Counted) < Cardinality(Conn)
    BY <1>1, <1>2, <1>3, FS_Subset
  <1> QED BY <1>2, <1>3

LEMMA CountFrame ==
  ASSUME CountInv, HubTypeOK', UNCHANGED <<connectedCount, handler, tmp, raced>>
  PROVE  CountInv'
  BY DEF CountInv, OneUpdate, CountMatches, Updating

\* A handler that moves between two places where it is not updating the count, and
\* on one side of being counted.
LEMMA CountMove ==
  ASSUME CountInv, HubTypeOK', NEW c \in Conn, NEW to, handler' = [handler EXCEPT ![c] = to],
         UNCHANGED <<connectedCount, tmp, raced>>,
         handler[c] \notin {"counting", "uncounting"}, to \notin {"counting", "uncounting"},
         handler[c] \in {"connected", "serving"} <=> to \in {"connected", "serving"}
  PROVE  CountInv'
  <1>1. Counted' = Counted /\ Updating' = Updating
    BY DEF Counted, Updating, CountInv, HubTypeOK
  <1> QED BY <1>1 DEF CountInv, OneUpdate, CountMatches, Counted

LEMMA HandleCount == ASSUME CountInv, NEW c \in Conn, Handle(c) PROVE CountInv'
  <1>0. HubTypeOK'
    BY HandleType DEF CountInv
  <1>t. /\ handler \in [Conn -> {"none", "upgraded", "serving", "ending", "gone"} \cup Connecting \cup Leaving]
        /\ tmp \in [Conn -> 0 .. Cardinality(Conn)] /\ connectedCount \in 0 .. Cardinality(Conn)
        /\ raced \in BOOLEAN
    BY DEF CountInv, HubTypeOK
  <1>1. CASE Upgrade(c)
    BY <1>0, <1>1, CountMove DEF Upgrade, Goto
  <1>2. CASE OnConnect(c)
    <2>1. Counted' = Counted
      BY <1>2, <1>t DEF OnConnect, Goto, Counted
    <2>2. ~raced' => ~raced /\ Updating' = {c} /\ tmp'[c] = connectedCount
      BY <1>2, <1>t DEF OnConnect, Goto, Updating
    <2> QED BY <1>0, <1>2, <2>1, <2>2 DEF CountInv, OneUpdate, CountMatches, Counted, OnConnect
  <1>3. CASE OnConnectCount(c)
    <2>1. Counted' = Counted \cup {c} /\ c \notin Counted /\ c \in Updating /\ Updating' = Updating \ {c}
      BY <1>3, <1>t DEF OnConnectCount, Goto, Counted, Updating
    <2>2. Cardinality(Counted') = Cardinality(Counted) + 1
      BY <2>1, CountedFinite, FS_AddElement
    <2>3. ~raced => connectedCount = Cardinality(Counted) /\ tmp[c] = connectedCount /\ Updating = {c}
      BY <2>1 DEF CountInv, OneUpdate, CountMatches, Counted
    <2>4. (Cardinality(Counted) + 1) % Wrap = Cardinality(Counted) + 1
      BY <2>1, CountedFinite, NoWrap
    <2>5. ~raced => connectedCount' = Cardinality(Counted) + 1
      BY <1>3, <2>3, <2>4 DEF OnConnectCount
    <2> QED BY <1>0, <1>3, <2>1, <2>2, <2>3, <2>5 DEF CountInv, OneUpdate, CountMatches, Counted, OnConnectCount
  <1>4. CASE StartReader(c)
    BY <1>0, <1>4, CountMove DEF StartReader, Goto
  <1>5. CASE ReadMessage(c)
    BY <1>0, <1>5, CountFrame DEF ReadMessage
  <1>6. CASE HandleReturns(c)
    <2>1. Counted' = Counted
      BY <1>6, <1>t DEF HandleReturns, Goto, Counted
    <2>2. ~raced' => ~raced /\ Updating' = {c} /\ tmp'[c] = connectedCount
      BY <1>6, <1>t DEF HandleReturns, Goto, Updating
    <2> QED BY <1>0, <1>6, <2>1, <2>2 DEF CountInv, OneUpdate, CountMatches, Counted, HandleReturns
  <1>7. CASE OnDisconnectCount(c)
    <2>1. Counted' = Counted \ {c} /\ c \in Counted /\ c \in Updating /\ Updating' = Updating \ {c}
      BY <1>7, <1>t DEF OnDisconnectCount, Goto, Counted, Updating
    <2>2. Cardinality(Counted') = Cardinality(Counted) - 1 /\ Cardinality(Counted') \in Nat
      BY <2>1, CountedFinite, FS_RemoveElement, FS_CardinalityType
    <2>3. ~raced => connectedCount = Cardinality(Counted) /\ tmp[c] = connectedCount /\ Updating = {c}
      BY <2>1 DEF CountInv, OneUpdate, CountMatches, Counted
    <2>4. (Cardinality(Counted) + Wrap - 1) % Wrap = Cardinality(Counted) - 1
      BY <2>2, CountedFinite, NoWrap
    <2>5. ~raced => connectedCount' = Cardinality(Counted) - 1
      BY <1>7, <2>3, <2>4 DEF OnDisconnectCount
    <2> QED BY <1>0, <1>7, <2>1, <2>2, <2>3, <2>5 DEF CountInv, OneUpdate, CountMatches, Counted, OnDisconnectCount
  <1>8. CASE OnDisconnectCancel(c)
    BY <1>0, <1>8, CountMove DEF OnDisconnectCancel, Goto
  <1>9. CASE HandlerEnds(c)
    BY <1>0, <1>9, CountMove DEF HandlerEnds, Goto
  <1> QED BY <1>1, <1>2, <1>3, <1>4, <1>5, <1>6, <1>7, <1>8, <1>9 DEF Handle

LEMMA HubNextCount == CountInv /\ HubNext => CountInv'
  <1> SUFFICES ASSUME CountInv, HubNext PROVE CountInv'
    OBVIOUS
  <1>0. HubTypeOK'
    BY HubNextType DEF CountInv
  <1>1. ASSUME NEW s \in Sender, Send(s) PROVE CountInv'
    BY <1>0, <1>1, CountFrame DEF Send, SenderTurn, SenderSend
  <1>2. CASE Hub
    BY <1>0, <1>2, CountFrame DEF Hub, HubReceive, HubTest, HubSend
  <1>3. ASSUME NEW c \in Conn, Client(c) \/ Serve(c) \/ Forward(c) \/ Resume(c) PROVE CountInv'
    <2>1. CASE ForwarderEnds(c)
      BY <1>0, <2>1, CountFrame DEF ForwarderEnds
    <2>2. CASE Flow(c)
      BY <1>0, <2>2, CountFrame, FlowFrame
    <2> QED BY <1>3, <2>1, <2>2, ConnSteps, HandleCount
  <1> QED BY <1>1, <1>2, <1>3 DEF HubNext

\* Nobody is connected and the count is zero.
LEMMA NoneConnectedCount == ASSUME NoneConnected, HubTypeOK PROVE CountInv
  <1>1. Counted = {} /\ Updating = {}
    BY DEF NoneConnected, Counted, Updating
  <1>2. Cardinality(Counted) = 0
    BY <1>1, FS_EmptySet
  <1> QED BY <1>1, <1>2 DEF CountInv, OneUpdate, CountMatches, Counted, NoneConnected

-----------------------------------------------------------------------------
(* The forwarders.                                                         *)

Live(c) == handler[c] \notin {"none", "gone"} \/ forwarder[c]

\* While there has been one connection at a time: c.cancel is the one of the
\* connection that is there, its context is cancelled by OnDisconnect and not
\* before, and so its forwarder stays from OnConnect until then.
Alone ==
    /\ \A c, k \in Conn : Live(c) /\ Live(k) => c = k
    /\ \A c \in Conn :
        /\ handler[c] \in Connecting \cup {"serving"} \cup Leaving => cancel = c
        /\ handler[c] \in {"none", "upgraded", "serving"} \cup Connecting \cup Leaving => ~cancelled[c]
        /\ handler[c] \in {"connected", "serving"} \cup Leaving => forwarder[c]
        /\ handler[c] = "gone" => cancelled[c]

OwnInv == HubTypeOK /\ (~shared => Alone)

LEMMA OwnInvImplies == OwnInv => OwnForwarder
  BY DEF OwnInv, Alone, OwnForwarder, Connecting, Leaving

LEMMA OwnFrame ==
  ASSUME OwnInv, HubTypeOK', UNCHANGED <<handler, forwarder, cancel, cancelled, shared>>
  PROVE  OwnInv'
  BY DEF OwnInv, Alone, Live

LEMMA HandleOwn == ASSUME OwnInv, NEW c \in Conn, Handle(c) PROVE OwnInv'
  <1>0. HubTypeOK'
    BY HandleType DEF OwnInv
  <1> SUFFICES ASSUME ~shared' PROVE Alone'
    BY <1>0 DEF OwnInv
  <1> USE DEF OwnInv, HubTypeOK, Alone, Live, Goto, Connecting, Leaving
  <1>1. CASE Upgrade(c)
    BY <1>1 DEF Upgrade
  <1>2. CASE OnConnect(c)
    BY <1>2 DEF OnConnect
  <1>3. CASE OnConnectCount(c)
    BY <1>3 DEF OnConnectCount
  <1>4. CASE StartReader(c)
    BY <1>4 DEF StartReader
  <1>5. CASE ReadMessage(c)
    BY <1>5 DEF ReadMessage
  <1>6. CASE HandleReturns(c)
    BY <1>6 DEF HandleReturns
  <1>7. CASE OnDisconnectCount(c)
    BY <1>7 DEF OnDisconnectCount
  <1>8. CASE OnDisconnectCancel(c)
    BY <1>8 DEF OnDisconnectCancel
  <1>9. CASE HandlerEnds(c)
    BY <1>9 DEF HandlerEnds
  <1> QED BY <1>1, <1>2, <1>3, <1>4, <1>5, <1>6, <1>7, <1>8, <1>9 DEF Handle

LEMMA HubNextOwn == OwnInv /\ HubNext => OwnInv'
  <1> SUFFICES ASSUME OwnInv, HubNext PROVE OwnInv'
    OBVIOUS
  <1>0. HubTypeOK'
    BY HubNextType DEF OwnInv
  <1>1. ASSUME NEW s \in Sender, Send(s) PROVE OwnInv'
    BY <1>0, <1>1, OwnFrame DEF Send, SenderTurn, SenderSend
  <1>2. CASE Hub
    BY <1>0, <1>2, OwnFrame DEF Hub, HubReceive, HubTest, HubSend
  <1>3. ASSUME NEW c \in Conn, Client(c) \/ Serve(c) \/ Forward(c) \/ Resume(c) PROVE OwnInv'
    <2>1. CASE ForwarderEnds(c)
      BY <1>0, <2>1 DEF OwnInv, HubTypeOK, Alone, Live, ForwarderEnds, Connecting, Leaving
    <2>2. CASE Flow(c)
      BY <1>0, <2>2, OwnFrame, FlowFrame
    <2> QED BY <1>3, <2>1, <2>2, ConnSteps, HandleOwn
  <1> QED BY <1>1, <1>2, <1>3 DEF HubNext

LEMMA NoneConnectedOwn == ASSUME NoneConnected, HubTypeOK PROVE OwnInv
  BY DEF OwnInv, Alone, Live, NoneConnected, Connecting, Leaving

-----------------------------------------------------------------------------
(* The hub by itself.                                                      *)

LEMMA HubInitType == HubInit => HubTypeOK
  BY NoneConnectedType DEF HubInit

\* HubTypes: whatever updates of the count are lost and wherever it wraps, the
\* queue keeps to its capacity and every variable to its type (EventBus,
\* EventsWebsocket).
THEOREM HubTypes == HubSpec => []HubTypeOK
  <1>1. HubTypeOK /\ [HubNext]_hubVars => HubTypeOK'
    BY HubNextType DEF HubTypeOK
  <1> QED BY <1>1, HubInitType, PTL DEF HubSpec

\* Count: as long as no two updates of it have overlapped, connectedCount is the
\* number of connections between OnConnect and OnDisconnect, for any number of
\* connections (OnConnect, OnDisconnect).
THEOREM Count == HubSpec => []CountMatches
  <1>1. HubInit => CountInv
    BY HubInitType, NoneConnectedCount DEF HubInit
  <1>2. CountInv /\ [HubNext]_hubVars => CountInv'
    BY HubNextCount, CountFrame DEF CountInv, HubTypeOK
  <1>3. CountInv => CountMatches
    BY DEF CountInv
  <1> QED BY <1>1, <1>2, <1>3, PTL DEF HubSpec

\* Forwarders: as long as connections come one after the other, a connection that
\* is served has a forwarder with a live context, and none outlives its connection
\* without having been told to end (OnConnect, OnDisconnect).
THEOREM Forwarders == HubSpec => []OwnForwarder
  <1>1. HubInit => OwnInv
    BY HubInitType, NoneConnectedOwn DEF HubInit
  <1>2. OwnInv /\ [HubNext]_hubVars => OwnInv'
    BY HubNextOwn, OwnFrame DEF OwnInv, HubTypeOK
  <1> QED BY <1>1, <1>2, OwnInvImplies, PTL DEF HubSpec

-----------------------------------------------------------------------------
(* The daemon.                                                             *)

\* Start waits for a process as long as it has one, so there is at most one.
OneOlsrd == olsrds \in 0 .. 1 /\ (cmd # "started" => olsrds = 0)

\* With the first row unseeded, an admin that no failed read accounts for is still
\* there, and no start got past it: the seed would fail.  No user can be changed
\* before the process is past the seed.
SeedInv ==
    /\ main = "seeded" => settings = "unseeded" /\ admin
    /\ main = "seedOther" =>
        /\ settings # "none" /\ seeds <= misreads
        /\ settings = "unseeded" => admin \/ seeds < misreads
    /\ main \notin {"open", "seeded"} => settings # "none"
    /\ settings = "none" => seeds = 0 /\ ~admin
    /\ settings = "unseeded" =>
        seeds <= misreads \/ (seeds = misreads + 1 /\ admin /\ main \in {"open", "seeded"})
    /\ settings = "seeded" => seeds <= misreads + 1
    /\ http # "off" => main \notin Boot

ServerType ==
    /\ HubTypeOK
    /\ main \in Boot \cup {"up"} \cup Stopping
    /\ http \in {"off", "starting", "listening", "failed", "closed", "ended"}
    /\ shut \in BOOLEAN /\ active \in BOOLEAN /\ marked \in BOOLEAN
    /\ loop \in {"start", "wait"} /\ cmd \in {"new", "started", "waited", "failed"}
    /\ settings \in {"none", "unseeded", "seeded"} /\ admin \in BOOLEAN
    /\ seeds \in Nat /\ misreads \in 0 .. MaxMisreads

ServerInv == ServerType /\ OneOlsrd /\ SeedInv /\ NoStaleMark

USE DEF vars, serverVars, olsrVars, db

-----------------------------------------------------------------------------

LEMMA ServerInvImplies == ServerInv => TypeOK /\ NoStaleMark /\ SeededOnce
  BY DEF ServerInv, ServerType, OneOlsrd, SeedInv, TypeOK, NoStaleMark, SeededOnce

LEMMA NoneConnectedHub ==
  NoneConnected /\ sender \in [Sender -> {"work", "send", "ended"}] /\ hub = "off"
    => HubTypeOK /\ CountInv /\ OwnInv
  BY NoneConnectedType, NoneConnectedCount, NoneConnectedOwn

\* A restart finds the hub as the first start did.
LEMMA RestartHub == Restart => HubTypeOK' /\ CountInv' /\ OwnInv'
  <1>1. Restart => (NoneConnected /\ sender \in [Sender -> {"work", "send", "ended"}] /\ hub = "off")'
    BY DEF Restart, NoneConnected
  <1> QED BY <1>1, NoneConnectedHub, PTL

LEMMA InitServerInv == Init => ServerInv
  <1> SUFFICES ASSUME Init PROVE ServerInv
    OBVIOUS
  <1>1. HubTypeOK
    BY NoneConnectedHub DEF Init
  <1>2. ServerType
    <2>1. seeds \in Nat /\ misreads \in 0 .. MaxMisreads
      BY DEF Init
    <2> QED BY <1>1, <2>1 DEF Init, ServerType, Boot
  <1>3. OneOlsrd /\ SeedInv /\ NoStaleMark
    BY DEF Init, OneOlsrd, SeedInv, NoStaleMark, Boot, Stopping
  <1> QED BY <1>2, <1>3 DEF ServerInv

\* What the stop function and the boot may touch of the hub.
LEMMA HubStays ==
  ASSUME HubTypeOK, UNCHANGED <<queue, connectedCount, connections>>,
         sender' \in [Sender -> {"work", "send", "ended"}], hub' \in {"off", "receive", "test", "send"},
         closed' \in BOOLEAN, told' \in BOOLEAN, process' \in {"running", "crashed", "exited"}
  PROVE  HubTypeOK'
  BY DEF HubTypeOK

LEMMA HubServerInv ==
  ASSUME ServerInv, HubNext, UNCHANGED <<serverVars, olsrVars>>
  PROVE  ServerInv'
  <1>1. HubTypeOK'
    BY HubNextType DEF ServerInv, ServerType
  <1>2. ServerType' /\ OneOlsrd' /\ SeedInv' /\ NoStaleMark'
    BY <1>1 DEF ServerInv, ServerType, OneOlsrd, SeedInv, NoStaleMark
  <1> QED BY <1>2 DEF ServerInv

LEMMA ExitInv == ASSUME ServerInv, Exit PROVE ServerInv'
  <1>1. HubTypeOK'
    BY HubStays DEF Exit, ServerInv, ServerType, HubTypeOK
  <1> QED BY <1>1 DEF Exit, ServerInv, ServerType, OneOlsrd, SeedInv, NoStaleMark

LEMMA RestartInv == ASSUME ServerInv, Restart PROVE ServerInv'
  <1>1. HubTypeOK'
    BY RestartHub
  <1>2. ServerType'
    BY <1>1 DEF Restart, ServerInv, ServerType, Boot
  <1>3. OneOlsrd' /\ SeedInv' /\ NoStaleMark'
    BY DEF Restart, ServerInv, ServerType, OneOlsrd, SeedInv, NoStaleMark, Boot, Stopping
  <1> QED BY <1>2, <1>3 DEF ServerInv

\* The steps of runServer and of its stop function leave the connections alone.
LEMMA MainHub ==
  ASSUME ServerInv, Main \/ createAnother \/ signal \/ drainTimesOut \/ managerHangs \/ servicesHang
  PROVE  HubTypeOK' /\ UNCHANGED <<connectedCount, connections>>
  <1>0. HubTypeOK
    BY DEF ServerInv, ServerType
  <1>1. CASE UNCHANGED hubVars
    BY <1>0, <1>1 DEF HubTypeOK
  <1>2. CASE watch
    BY <1>0, <1>2, HubStays DEF watch, HubTypeOK
  <1>3. CASE serve
    BY <1>0, <1>3, HubStays DEF serve, HubTypeOK
  <1>4. CASE stopWatcher
    BY <1>0, <1>4, HubStays DEF stopWatcher, HubTypeOK
  <1>5. CASE closeBus
    BY <1>0, <1>5, HubStays DEF closeBus, HubTypeOK
  <1>6. CASE Exit
    BY <1>0, <1>6, HubStays DEF Exit, HubTypeOK
  <1>7. CASE Main /\ ~(watch \/ serve \/ stopWatcher \/ closeBus \/ Exit)
    <2>1. UNCHANGED hubVars
      BY <1>7 DEF Main, Only, createSettings, seed, seedForOther, Seed, saveSeeded, saveOther, alreadySeeded,
             clearAtBoot, runManager,
             stopManager, shutdown, drained, receive, clearActive, stopServices, return
    <2> QED BY <1>1, <2>1
  <1>8. CASE createAnother \/ signal \/ drainTimesOut \/ managerHangs \/ servicesHang
    BY <1>1, <1>8 DEF createAnother, signal, drainTimesOut, managerHangs, servicesHang, Only
  <1> QED BY <1>2, <1>3, <1>4, <1>5, <1>6, <1>7, <1>8

LEMMA MainInv ==
  ASSUME ServerInv, Main \/ createAnother \/ signal \/ drainTimesOut \/ managerHangs \/ servicesHang
  PROVE  ServerInv'
  <1>0. HubTypeOK'
    BY MainHub
  <1> USE DEF ServerInv, ServerType, OneOlsrd, SeedInv, NoStaleMark, Boot, Stopping, Only
  <1>1. CASE createSettings
    BY <1>0, <1>1 DEF createSettings
  <1>2. CASE seed
    <2>1. CASE admin
      BY <1>2, <2>1, ExitInv DEF seed, Seed
    <2>2. CASE ~admin
      BY <1>0, <1>2, <2>2 DEF seed, Seed
    <2> QED BY <2>1, <2>2
  <1>3. CASE saveSeeded
    BY <1>0, <1>3 DEF saveSeeded
  <1>4. CASE alreadySeeded
    BY <1>0, <1>4 DEF alreadySeeded
  <1>5. CASE clearAtBoot
    BY <1>0, <1>5 DEF clearAtBoot
  <1>6. CASE runManager
    BY <1>0, <1>6 DEF runManager
  <1>7. CASE watch
    BY <1>0, <1>7 DEF watch
  <1>8. CASE serve
    BY <1>0, <1>8 DEF serve
  <1>9. CASE signal \/ stopManager \/ managerHangs \/ drained \/ drainTimesOut \/ stopServices \/ servicesHang
    BY <1>0, <1>9 DEF signal, stopManager, managerHangs, drained, drainTimesOut, stopServices, servicesHang
  <1>10. CASE shutdown
    BY <1>0, <1>10 DEF shutdown
  <1>11. CASE receive
    BY <1>0, <1>11 DEF receive
  <1>12. CASE stopWatcher
    BY <1>0, <1>12 DEF stopWatcher
  <1>13. CASE clearActive
    <2>1. active' = FALSE \/ active' = active
      BY <1>13 DEF clearActive
    <2>2. CASE active' = FALSE
      BY <1>0, <1>13, <2>2 DEF clearActive
    <2>3. CASE active' = active
      BY <1>0, <1>13, <2>3 DEF clearActive
    <2> QED BY <2>1, <2>2, <2>3
  <1>14. CASE closeBus
    BY <1>0, <1>14 DEF closeBus
  <1>15. CASE return
    BY <1>15, ExitInv DEF return
  <1>16. CASE createAnother
    BY <1>0, <1>16 DEF createAnother
  <1>17. CASE seedForOther
    <2>1. CASE admin
      BY <1>17, <2>1, ExitInv DEF seedForOther, Seed
    <2>2. CASE ~admin
      BY <1>0, <1>17, <2>2 DEF seedForOther, Seed
    <2> QED BY <2>1, <2>2
  <1>18. CASE saveOther
    BY <1>0, <1>18 DEF saveOther
  <1> QED BY <1>1, <1>2, <1>3, <1>4, <1>5, <1>6, <1>7, <1>8, <1>9, <1>10, <1>11, <1>12, <1>13, <1>14, <1>15,
             <1>16, <1>17, <1>18
          DEF Main

\* The requests on users come when the seed is over.
LEMMA UsersInv ==
  ASSUME ServerInv, HubTypeOK', POSTUser \/ PATCHUser \/ DELETEUser
  PROVE  ServerInv'
  <1>1. main \notin Boot /\ settings # "none"
    BY DEF ServerInv, SeedInv, POSTUser, PATCHUser, DELETEUser, Users, Boot
  <1>2. UNCHANGED <<main, http, shut, active, marked, settings, seeds, misreads, loop, cmd, olsrds>>
    BY DEF POSTUser, PATCHUser, DELETEUser, Users
  <1>3. admin' = TRUE \/ admin' = FALSE
    BY DEF POSTUser, PATCHUser, DELETEUser, Users
  <1>4. ServerType'
    BY <1>2, <1>3 DEF ServerInv, ServerType
  <1>5. SeedInv'
    BY <1>1, <1>2 DEF ServerInv, SeedInv, Boot
  <1>6. OneOlsrd' /\ NoStaleMark'
    BY <1>2 DEF ServerInv, OneOlsrd, NoStaleMark
  <1> QED BY <1>4, <1>5, <1>6 DEF ServerInv

\* The rows that the loops save.
LEMMA MarksInv ==
  ASSUME ServerInv, HubTypeOK', NEW s \in Sender, saveActive(s) \/ saveInactive(s)
  PROVE  ServerInv'
  <1>1. UNCHANGED <<main, http, shut, settings, admin, seeds, misreads, loop, cmd, olsrds>>
    BY DEF saveActive, saveInactive
  <1>2. (active' = FALSE /\ marked' = marked) \/ (active' = TRUE /\ marked' = TRUE)
    BY DEF saveActive, saveInactive
  <1>3. ServerType'
    BY <1>1, <1>2 DEF ServerInv, ServerType
  <1>4. OneOlsrd' /\ SeedInv'
    BY <1>1 DEF ServerInv, OneOlsrd, SeedInv
  <1>5. NoStaleMark'
    BY <1>2 DEF NoStaleMark
  <1> QED BY <1>3, <1>4, <1>5 DEF ServerInv

LEMMA OtherInv ==
  ASSUME ServerInv,
         \/ Http \/ waitFails \/ Supervise \/ olsrdExits
         \/ POSTUser \/ PATCHUser \/ DELETEUser
         \/ \E s \in Sender : saveActive(s) \/ saveInactive(s)
  PROVE  ServerInv' /\ UNCHANGED hubVars
  <1>0. UNCHANGED hubVars
    BY DEF Http, listen, serverClosed, startOlsrdFails, waitFails, Supervise, waitAgain, waitReturns, startOlsrd,
           olsrdExits, POSTUser, PATCHUser, DELETEUser, Users, saveActive, saveInactive
  <1>t. HubTypeOK'
    BY <1>0 DEF ServerInv, ServerType, HubTypeOK
  <1>1. CASE Http
    BY <1>t, <1>1 DEF Http, listen, serverClosed, ServerInv, ServerType, OneOlsrd, SeedInv, NoStaleMark
  <1>2. CASE waitFails \/ Supervise \/ olsrdExits
    BY <1>t, <1>2 DEF startOlsrdFails, waitFails, Supervise, waitAgain, waitReturns, startOlsrd, olsrdExits,
       ServerInv, ServerType, OneOlsrd, SeedInv, NoStaleMark
  <1> QED BY <1>0, <1>t, <1>1, <1>2, UsersInv, MarksInv

LEMMA NextServerInv == ServerInv /\ [Next]_vars => ServerInv'
  <1> SUFFICES ASSUME ServerInv, [Next]_vars PROVE ServerInv'
    OBVIOUS
  <1>1. CASE HubNext /\ UNCHANGED <<serverVars, olsrVars>>
    BY <1>1, HubServerInv
  <1>2. CASE Main \/ createAnother \/ signal \/ drainTimesOut \/ managerHangs \/ servicesHang
    BY <1>2, MainInv
  <1>3. CASE BootFails \/ Kill
    BY <1>3, ExitInv DEF BootFails, Kill
  <1>4. CASE Restart
    BY <1>4, RestartInv
  <1>5. CASE UNCHANGED vars
    BY <1>5 DEF ServerInv, ServerType, HubTypeOK, OneOlsrd, SeedInv, NoStaleMark
  <1> QED BY <1>1, <1>2, <1>3, <1>4, <1>5, OtherInv DEF Next

LEMMA ServerInvHolds == Spec => []ServerInv
  BY InitServerInv, NextServerInv, PTL DEF Spec

\* ServerTypes: every variable of the daemon keeps to its type, in particular there
\* is never a second olsrd, however often Wait fails (runServer, Start).
THEOREM ServerTypes == Spec => []TypeOK
  BY ServerInvHolds, ServerInvImplies, PTL

\* MarksAreOwn: after its start the daemon never shows a tunnel as active because of
\* a mark an earlier process left, however that one ended (runServer,
\* ClearActiveFromAllTunnels).
THEOREM MarksAreOwn == Spec => []NoStaleMark
  BY ServerInvHolds, ServerInvImplies, PTL

\* Seeding: through any number of kills and restarts, also between the seed and the
\* save of the settings, the admin is seeded at most once, and once more for each
\* start at which the read of the settings failed, however many there are (MakeDB).
THEOREM Seeding == Spec => []SeededOnce
  BY ServerInvHolds, ServerInvImplies, PTL

-----------------------------------------------------------------------------
(* What was proved of the hub by itself holds of it inside the daemon.     *)

HubInv == ServerInv /\ CountInv /\ OwnInv

LEMMA NextHubInv == HubInv /\ [Next]_vars => HubInv'
  <1> SUFFICES ASSUME HubInv, [Next]_vars PROVE HubInv'
    OBVIOUS
  <1>0. ServerInv /\ CountInv /\ OwnInv /\ ServerInv' /\ HubTypeOK'
    BY NextServerInv DEF HubInv, ServerInv, ServerType
  <1>1. CASE HubNext
    BY <1>0, <1>1, HubNextCount, HubNextOwn DEF HubInv
  <1>2. CASE Restart
    BY <1>0, <1>2, RestartHub DEF HubInv
  <1>3. CASE UNCHANGED <<connectedCount, connections>>
    BY <1>0, <1>3, CountFrame, OwnFrame DEF HubInv
  <1>4. UNCHANGED <<connectedCount, connections>> \/ HubNext \/ Restart
    BY <1>0, MainHub, OtherInv DEF Next, BootFails, Kill, Exit
  <1> QED BY <1>1, <1>2, <1>3, <1>4

\* HubInDaemon: the count and the forwarders are right under the same conditions
\* when the hub is started, stopped and restarted by the daemon (srv.Run).
THEOREM HubInDaemon == Spec => [](CountMatches /\ OwnForwarder)
  <1>1. Init => HubInv
    BY InitServerInv, NoneConnectedHub DEF Init, HubInv
  <1>2. HubInv => CountMatches /\ OwnForwarder
    BY OwnInvImplies DEF HubInv, CountInv
  <1> QED BY <1>1, <1>2, NextHubInv, PTL DEF Spec
=============================================================================
