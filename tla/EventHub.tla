------------------------------- MODULE EventHub -------------------------------
(***************************************************************************)
(* How events reach the browsers:                                          *)
(*   internal/events/events.go                the queue                    *)
(*   internal/server/api/websocket/events.go  the hub and its forwarders   *)
(*   internal/server/websocket/ws.go          the handler of a connection  *)
(* The loops of the watcher and of the bandwidth counters put events on    *)
(* the queue; one hub takes them off and hands each to one forwarder, the  *)
(* goroutine of some connection.  All connections share one handler with   *)
(* one `conn' and one EventsWebsocket with one `cancel' and one count.     *)
(*                                                                         *)
(* Events are not told apart: the queue is its length.  The buffer of 1024 *)
(* messages between a forwarder and its handler may be full whenever the   *)
(* handler does not empty it, because the browser does not read or because *)
(* the handler has gone.  A member of Conn is used for one connection only. *)
(***************************************************************************)
EXTENDS Naturals, FiniteSets

CONSTANTS
    Sender,     \* goroutines that send events
    Conn,       \* connections, each with its goroutines
    NoConn,
    Capacity    \* of the queue; 100 in the code

ASSUME HubAssumption ==
    /\ IsFiniteSet(Conn) /\ NoConn \notin Conn
    /\ Capacity \in Nat \ {0}

VARIABLES
    queue, closed,  \* eventQueue
    sender,         \* [Sender]: "work", "send", "ended"
    told,           \* have the senders been told to stop?
    process,        \* "running", "crashed" by a panic nobody recovers, "exited"
    hub,            \* start(): "off", "receive", "test", "send"
    connectedCount,
    cancel,         \* the connection whose context c.cancel cancels
    sock,           \* the connection whose socket handler.conn is
    open,           \* [Conn]: is its socket open?
    handler,        \* [Conn]: where its handler is
    tmp,            \* [Conn]: connectedCount as it was read for ++ or --
    reading,        \* [Conn]: the connection whose socket its reader reads
    forwarder,      \* [Conn]: is its forwarder there?
    writing,        \* [Conn]: the connection in whose socket's write its handler waits
    blocked,        \* [Conn]: does its forwarder wait for room in the buffer?
    cancelled,      \* [Conn]: is newCtx, or the request's context, cancelled?
    raced,          \* ghost: have two updates of the count overlapped?
    shared          \* ghost: have two connections been there at once?

bus == <<queue, closed, sender, told, process>>
writes == <<writing, blocked>>
connections == <<cancel, sock, open, handler, tmp, reading, forwarder, writes, cancelled, raced, shared>>
hubVars == <<bus, hub, connectedCount, connections>>

Connecting == {"counting", "connected"}
Leaving == {"uncounting", "left"}

HubTypeOK ==
    /\ queue \in 0 .. Capacity /\ closed \in BOOLEAN
    /\ sender \in [Sender -> {"work", "send", "ended"}]
    /\ told \in BOOLEAN /\ process \in {"running", "crashed", "exited"}
    /\ hub \in {"off", "receive", "test", "send"}
    /\ connectedCount \in 0 .. Cardinality(Conn)
    /\ cancel \in Conn \cup {NoConn} /\ sock \in Conn \cup {NoConn}
    /\ open \in [Conn -> BOOLEAN]
    /\ handler \in [Conn -> {"none", "upgraded", "serving", "ending", "gone"} \cup Connecting \cup Leaving]
    /\ tmp \in [Conn -> 0 .. Cardinality(Conn)]
    /\ reading \in [Conn -> Conn \cup {NoConn}] /\ writing \in [Conn -> Conn \cup {NoConn}]
    /\ forwarder \in [Conn -> BOOLEAN] /\ blocked \in [Conn -> BOOLEAN] /\ cancelled \in [Conn -> BOOLEAN]
    /\ raced \in BOOLEAN /\ shared \in BOOLEAN

\* The queue with nobody connected.
NoneConnected ==
    /\ queue = 0 /\ closed = FALSE
    /\ told = FALSE /\ process = "running" /\ connectedCount = 0
    /\ cancel = NoConn /\ sock = NoConn
    /\ open = [c \in Conn |-> FALSE]
    /\ handler = [c \in Conn |-> "none"]
    /\ tmp = [c \in Conn |-> 0]
    /\ reading = [c \in Conn |-> NoConn] /\ writing = [c \in Conn |-> NoConn]
    /\ blocked = [c \in Conn |-> FALSE]
    /\ forwarder = [c \in Conn |-> FALSE] /\ cancelled = [c \in Conn |-> FALSE]
    /\ raced = FALSE /\ shared = FALSE

HubInit ==
    /\ NoneConnected
    /\ sender = [s \in Sender |-> "work"] /\ hub = "receive"

-----------------------------------------------------------------------------
(* The senders: the watcher's loop and StatCounterManager's.               *)

\* A turn of the loop comes to a send, or the loop ends.
SenderTurn(s) ==
    /\ sender[s] = "work"
    /\ sender' = [sender EXCEPT ![s] = IF told THEN "ended" ELSE "send"]
    /\ UNCHANGED <<queue, closed, told, process, hub, connectedCount, connections>>

\* A send on a closed channel panics, also one that is already waiting.
SenderSend(s) ==
    /\ sender[s] = "send"
    /\ \/ /\ ~closed /\ queue < Capacity
          /\ queue' = queue + 1
          /\ sender' = [sender EXCEPT ![s] = "work"]
          /\ UNCHANGED process
       \/ /\ closed /\ process' = "crashed"
          /\ UNCHANGED <<queue, sender>>
    /\ UNCHANGED <<closed, told, hub, connectedCount, connections>>

-----------------------------------------------------------------------------
(* start(): the hub.                                                       *)

\* A closed queue that is empty gives zero events without end.
HubReceive ==
    /\ hub = "receive" /\ hub' = "test"
    /\ \/ queue > 0 /\ queue' = queue - 1
       \/ queue = 0 /\ closed /\ UNCHANGED queue
    /\ UNCHANGED <<closed, sender, told, process, connectedCount, connections>>

\* Variant: the event is handed over whether or not someone is connected.
HubTestNot ==
    /\ hub = "test" /\ hub' = "send"
    /\ UNCHANGED <<bus, connectedCount, connections>>

HubTest ==
    /\ hub = "test"
    /\ hub' = IF connectedCount > 0 THEN "send" ELSE "receive"
    /\ UNCHANGED <<bus, connectedCount, connections>>

\* Variant: the forwarder ends with the first event.
HubSendOnce(c) ==
    /\ hub = "send" /\ hub' = "receive"
    /\ forwarder[c] /\ forwarder' = [forwarder EXCEPT ![c] = FALSE]
    /\ UNCHANGED <<bus, connectedCount, cancel, sock, open, handler, tmp, reading, writes, cancelled, raced, shared>>

\* The loop of handle empties the buffer, unless a write to the socket has not returned.
Draining(c) == handler[c] = "serving" /\ writing[c] = NoConn

\* websocketChannel has no buffer: the hub waits for a forwarder that is at its
\* select.  The forwarder's WriteMessage then waits for room, if there is none.
HubSend(c) ==
    /\ hub = "send" /\ hub' = "receive"
    /\ forwarder[c] /\ ~blocked[c]
    /\ \/ UNCHANGED blocked
       \/ ~Draining(c) /\ blocked' = [blocked EXCEPT ![c] = TRUE]
    /\ UNCHANGED <<bus, connectedCount, cancel, sock, open, handler, tmp, reading, forwarder, writing, cancelled, raced, shared>>

-----------------------------------------------------------------------------
(* The handler of a connection: Upgrade, OnConnect, handle, OnDisconnect.   *)

Goto(c, to) == handler' = [handler EXCEPT ![c] = to]

\* connectedCount is a uint.  Each connection counts up once and down once, so modulo
\* Wrap it is zero exactly when it is modulo 2^64.
Wrap == Cardinality(Conn) + 1

Updating == {c \in Conn : handler[c] \in {"counting", "uncounting"}}

Upgrade(c) ==
    /\ handler[c] = "none" /\ Goto(c, "upgraded")
    /\ sock' = c /\ open' = [open EXCEPT ![c] = TRUE]
    /\ shared' = (shared \/ \E k \in Conn : handler[k] \notin {"none", "gone"} \/ forwarder[k])
    /\ UNCHANGED <<bus, hub, connectedCount, cancel, tmp, reading, forwarder, writes, cancelled, raced>>

\* c.cancel = cancel, and the read of connectedCount++
OnConnect(c) ==
    /\ handler[c] = "upgraded" /\ Goto(c, "counting")
    /\ cancel' = c
    /\ tmp' = [tmp EXCEPT ![c] = connectedCount]
    /\ raced' = (raced \/ Updating # {})
    /\ UNCHANGED <<bus, hub, connectedCount, sock, open, reading, forwarder, writes, cancelled, shared>>

\* The write of connectedCount++, and the forwarder is started.
OnConnectCount(c) ==
    /\ handler[c] = "counting" /\ Goto(c, "connected")
    /\ connectedCount' = (tmp[c] + 1) % Wrap
    /\ tmp' = [tmp EXCEPT ![c] = 0]
    /\ forwarder' = [forwarder EXCEPT ![c] = TRUE]
    /\ UNCHANGED <<bus, hub, cancel, sock, open, reading, writes, cancelled, raced, shared>>

\* The reader starts; it reads whatever handler.conn is now.
StartReader(c) ==
    /\ handler[c] = "connected" /\ Goto(c, "serving")
    /\ reading' = [reading EXCEPT ![c] = sock]
    /\ UNCHANGED <<bus, hub, connectedCount, cancel, sock, open, tmp, forwarder, writes, cancelled, raced, shared>>

\* A message was read: the next is read from what handler.conn is by then.
ReadMessage(c) ==
    /\ handler[c] = "serving" /\ open[reading[c]]
    /\ reading' = [reading EXCEPT ![c] = sock]
    /\ UNCHANGED <<bus, hub, connectedCount, cancel, sock, open, handler, tmp, forwarder, writes, cancelled, raced, shared>>

ClientCloses(c) ==
    /\ open[c] /\ open' = [open EXCEPT ![c] = FALSE]
    /\ UNCHANGED <<bus, hub, connectedCount, cancel, sock, handler, tmp, reading, forwarder, writes, cancelled, raced, shared>>

\* handle returns, and OnDisconnect begins with the read of connectedCount--.
HandleReturns(c) ==
    /\ handler[c] = "serving" /\ Goto(c, "uncounting")
    /\ reading' = [reading EXCEPT ![c] = NoConn]
    /\ tmp' = [tmp EXCEPT ![c] = connectedCount]
    /\ raced' = (raced \/ Updating # {})
    /\ writing' = [writing EXCEPT ![c] = NoConn]
    /\ UNCHANGED <<bus, hub, connectedCount, cancel, sock, open, forwarder, blocked, cancelled, shared>>

\* The reader's error reaches the select of handle.
ReadFails(c) == HandleReturns(c) /\ Draining(c) /\ ~open[reading[c]]

\* A write to handler.conn fails, or panics because another handler writes to it
\* at the same time; gin recovers the panic and the deferred function runs.
WriteFails(c) ==
    /\ HandleReturns(c) /\ Draining(c)
    /\ ~open[sock] \/ \E k \in Conn \ {c} : handler[k] = "serving"

\* conn.WriteMessage has no deadline: it waits as long as the browser does not read,
WriteBlocks(c) ==
    /\ Draining(c) /\ open[sock] /\ \A k \in Conn : writing[k] # sock
    /\ writing' = [writing EXCEPT ![c] = sock]
    /\ UNCHANGED <<bus, hub, connectedCount, cancel, sock, open, handler, tmp, reading, forwarder, blocked, cancelled, raced, shared>>

\* returns when it reads again,
WriteReturns(c) ==
    /\ writing[c] # NoConn /\ open[writing[c]]
    /\ writing' = [writing EXCEPT ![c] = NoConn]
    /\ UNCHANGED <<bus, hub, connectedCount, cancel, sock, open, handler, tmp, reading, forwarder, blocked, cancelled, raced, shared>>

\* and fails when the socket is closed.
WriteAborts(c) ==
    /\ HandleReturns(c)
    /\ writing[c] # NoConn /\ ~open[writing[c]]

\* Variant: the count of a connection that ends is not taken back.
OnDisconnectCountKept(c) ==
    /\ handler[c] = "uncounting" /\ Goto(c, "left")
    /\ tmp' = [tmp EXCEPT ![c] = 0]
    /\ UNCHANGED <<bus, hub, connectedCount, cancel, sock, open, reading, forwarder, writes, cancelled, raced, shared>>

\* The write of connectedCount--, which wraps below zero.
OnDisconnectCount(c) ==
    /\ handler[c] = "uncounting" /\ Goto(c, "left")
    /\ connectedCount' = (tmp[c] + Wrap - 1) % Wrap
    /\ tmp' = [tmp EXCEPT ![c] = 0]
    /\ UNCHANGED <<bus, hub, cancel, sock, open, reading, forwarder, writes, cancelled, raced, shared>>

\* c.cancel() cancels the context of the connection that came last.
OnDisconnectCancel(c) ==
    /\ handler[c] = "left" /\ Goto(c, "ending")
    /\ cancelled' = [cancelled EXCEPT ![cancel] = TRUE]
    /\ UNCHANGED <<bus, hub, connectedCount, cancel, sock, open, tmp, reading, forwarder, writes, raced, shared>>

\* handler.conn.Close(), the socket of the connection that came last; then the
\* request ends and its context with it.
HandlerEnds(c) ==
    /\ handler[c] = "ending" /\ Goto(c, "gone")
    /\ open' = [open EXCEPT ![sock] = FALSE]
    /\ cancelled' = [cancelled EXCEPT ![c] = TRUE]
    /\ UNCHANGED <<bus, hub, connectedCount, cancel, sock, tmp, reading, forwarder, writes, raced, shared>>

\* The select of the forwarder finds its context cancelled.
ForwarderEnds(c) ==
    /\ forwarder[c] /\ ~blocked[c] /\ cancelled[c]
    /\ forwarder' = [forwarder EXCEPT ![c] = FALSE]
    /\ UNCHANGED <<bus, hub, connectedCount, cancel, sock, open, handler, tmp, reading, writes, cancelled, raced, shared>>

\* The handler has made room for the message.  No context ends this wait.
ForwarderWrites(c) ==
    /\ blocked[c] /\ Draining(c)
    /\ blocked' = [blocked EXCEPT ![c] = FALSE]
    /\ UNCHANGED <<bus, hub, connectedCount, cancel, sock, open, handler, tmp, reading, forwarder, writing, cancelled, raced, shared>>

-----------------------------------------------------------------------------

Running == process = "running"

Send(s) == Running /\ (SenderTurn(s) \/ SenderSend(s))

Hub == Running /\ (HubReceive \/ HubTest \/ \E c \in Conn : HubSend(c))

\* What the handler of a connection does by itself
Serve(c) ==
    /\ Running
    /\ \/ OnConnect(c) \/ OnConnectCount(c) \/ StartReader(c) \/ ReadFails(c) \/ WriteAborts(c)
       \/ OnDisconnectCount(c) \/ OnDisconnectCancel(c) \/ HandlerEnds(c)

Forward(c) == Running /\ ForwarderEnds(c)
Resume(c) == Running /\ ForwarderWrites(c)

\* What depends on the browser
Client(c) ==
    /\ Running
    /\ \/ Upgrade(c) \/ ReadMessage(c) \/ ClientCloses(c)
       \/ WriteFails(c) \/ WriteBlocks(c) \/ WriteReturns(c)

HubNext ==
    \/ \E s \in Sender : Send(s)
    \/ Hub
    \/ \E c \in Conn : Client(c) \/ Serve(c) \/ Forward(c) \/ Resume(c)

\* The goroutines are scheduled; a channel serves the senders that wait on it in
\* their order, and a select that can end does so at last. A browser need not read.
HubFairness ==
    /\ WF_hubVars(Hub)
    /\ \A s \in Sender : SF_hubVars(Send(s))
    /\ \A c \in Conn : WF_hubVars(Serve(c)) /\ SF_hubVars(Forward(c)) /\ SF_hubVars(Resume(c))

HubSpec == HubInit /\ [][HubNext]_hubVars /\ HubFairness

-----------------------------------------------------------------------------
(* Properties                                                              *)

\* CountMatches: while no two updates of it have overlapped, connectedCount is
\* the number of connections that OnConnect has seen and OnDisconnect has not,
\* and so never falls below zero.
CountMatches ==
    ~raced => connectedCount =
        Cardinality({c \in Conn : handler[c] \in {"connected", "serving", "uncounting"}})

\* OwnForwarder: while there has been one connection at a time, a connection that
\* is served has its forwarder, and no forwarder is left whose context has not been
\* cancelled, so that it ends unless it waits for room (OnConnect, OnDisconnect).
OwnForwarder ==
    ~shared => \A c \in Conn :
        /\ handler[c] = "serving" => forwarder[c] /\ ~cancelled[c]
        /\ handler[c] = "gone" /\ forwarder[c] => cancelled[c]

\* SendersGoOn: a loop of the watcher or of the counters that stays blocked on the
\* queue for ever has the hub waiting for a forwarder at its select, and there is
\* none, for one of two reasons: a connection has ended since the hub found somebody
\* connected, or a forwarder waits for room, behind a browser that is connected and
\* does not read or behind a handler that has gone (start, OnConnect, handle).
SendersGoOn ==
    \A s \in Sender : <>[](Running /\ sender[s] = "send") =>
        <>[](/\ hub = "send"
             /\ \A c \in Conn : forwarder[c] =>
                    /\ blocked[c]
                    /\ handler[c] = "gone" \/ (writing[c] # NoConn /\ open[writing[c]])
             /\ \E c \in Conn : handler[c] = "gone" \/ blocked[c])
=============================================================================
