-------------------------------- MODULE Walker --------------------------------
(***************************************************************************)
(* The walk of the mesh: internal/walker and cmd/walk.go.  A dispatcher    *)
(* starts one goroutine for each task; each fetches a node's sysinfo and   *)
(* offers a task for every host named there that was not seen before.  The *)
(* responses go through a channel of capacity one to runWalk, which writes *)
(* the map of the mesh.                                                    *)
(*                                                                         *)
(* A host is its upper-cased name, as in w.seen.  Of a response the node   *)
(* and whether it is nil are kept.  An attempt of Client.Get ends by its   *)
(* timeout and there are finitely many, so Get is one step with a result.  *)
(* A file is the sequence of its parts.                                    *)
(***************************************************************************)
EXTENDS Naturals, Sequences, FiniteSets, SequencesExt

CONSTANTS
    Node,
    Start,      \* config.ServerName
    Main,       \* the goroutine of runWalk and Walk
    Alias,      \* names of the form lan.*.local.mesh and mid<n>.*
    Hosts,      \* [Node]: the hosts a node's sysinfo names
    Located,    \* nodes whose sysinfo has a latitude and a longitude
    Leftover,   \* what an earlier run may have left in out.json.new
    Failures    \* may a fetch or a file operation fail?

ASSUME WalkerAssumption ==
    /\ IsFiniteSet(Node) /\ Start \in Node /\ Main \notin Node
    /\ Node \cap Alias = {}
    /\ Hosts \in [Node -> SUBSET (Node \cup Alias)]
    /\ Located \subseteq Node
    /\ Failures \in BOOLEAN

VARIABLES
    at,         \* where each goroutine is; a node's goroutine is its sender,
                \* and then the one its task runs in
    todo,       \* hosts the loop of walk has still to look at
    answer,     \* was the node's sysinfo fetched?
    seen,       \* w.seen
    wg,         \* w.wg
    chan,       \* w.responseChan
    closed,     \* are w.tasks and w.responseChan closed?
    responses,  \* the temporary file of runWalk
    new,        \* /meshmap/data/out.json.new
    out         \* /meshmap/data/out.json

files == <<responses, new, out>>
vars == <<at, todo, answer, seen, wg, chan, closed, files>>

Goroutine == Node \cup {Main}
Capacity == 1

\* The node a goroutine walks.
Target(p) == IF p = Main THEN Start ELSE p

MainSteps == {"get", "list", "send", "open", "read", "bracket", "create", "key", "copy",
              "close", "rename", "done", "failed"}
Ended == {"done", "failed"}

\* Each of these nodes and the comma after it
CommaList(nodes) ==
    [i \in 1 .. 2 * Len(nodes) |-> IF i % 2 = 1 THEN nodes[(i + 1) \div 2] ELSE ","]

\* out.json with these nodes
Document(nodes) ==
    <<"head", "nodeInfo">> \o <<"[">> \o Front(CommaList(nodes)) \o <<"]", "}">>

\* out.json after a walk in which no located node answered: the bracket that was
\* to replace the last comma replaced the opening one.  This is not JSON.
Unopened == <<"head", "nodeInfo">> \o <<"]", "}">>

TypeOK ==
    /\ at \in [Goroutine -> MainSteps \cup {"none", "offer", "sent", "gone"}]
    /\ at[Main] \in MainSteps
    /\ todo \in [Goroutine -> SUBSET (Node \cup Alias)]
    /\ answer \in [Goroutine -> BOOLEAN]
    /\ seen \subseteq Node
    /\ wg \in Nat
    /\ chan \in Seq([node : Node, ok : BOOLEAN]) /\ Len(chan) <= Capacity
    /\ closed \in BOOLEAN
    /\ \A f \in {responses, new, out} : f \in Seq(Node \cup {"head", "nodeInfo", "[", ",", "]", "}"})

Init ==
    /\ at = [p \in Goroutine |-> IF p = Main THEN "get" ELSE "none"]
    /\ todo = [p \in Goroutine |-> {}]
    /\ answer = [p \in Goroutine |-> FALSE]
    /\ seen = {} /\ wg = 0 /\ chan = <<>> /\ closed = FALSE
    /\ responses = <<>> /\ new \in Leftover /\ out \in {<<>>, Unopened, Document(<<Start>>)}

\* The process ends with runWalk.
Running == at[Main] \notin Ended

-----------------------------------------------------------------------------
(* walk, for the starting node in Main and for the others in their tasks.  *)

Dispatch(n) ==
    /\ Running
    /\ at[n] = "offer" /\ ~closed
    /\ at' = [at EXCEPT ![n] = "get"]
    /\ UNCHANGED <<todo, answer, seen, wg, chan, closed, files>>

\* Client.Get.  If the starting node cannot be fetched there is no walk; a task
\* that fails still sends its nil response.
Fetch(p) ==
    /\ Running
    /\ at[p] = "get"
    /\ \/ /\ at' = [at EXCEPT ![p] = "list"]
          /\ answer' = [answer EXCEPT ![p] = TRUE]
          /\ todo' = [todo EXCEPT ![p] = Hosts[Target(p)]]
       \/ /\ Failures
          /\ at' = [at EXCEPT ![p] = IF p = Main THEN "failed" ELSE "send"]
          /\ UNCHANGED <<answer, todo>>
    /\ UNCHANGED <<seen, wg, chan, closed, files>>

\* Variant: Contains and Append in place of ContainsOrSet: a host already seen
\* may be walked again.
ListAgain(p) ==
    /\ Running
    /\ at[p] = "list"
    /\ \E h \in todo[p] :
          /\ todo' = [todo EXCEPT ![p] = @ \ {h}]
          /\ \/ /\ h \in Alias
                /\ UNCHANGED <<at, seen, wg>>
             \/ /\ h \notin Alias /\ at[h] \in {"none", "sent"}
                /\ seen' = seen \cup {h} /\ wg' = wg + 1
                /\ at' = [at EXCEPT ![h] = "offer"]
             \/ /\ h \in seen /\ UNCHANGED <<at, seen, wg>>
    /\ UNCHANGED <<answer, chan, closed, files>>

\* Variant: the goroutine that offers the task is not counted before it starts.
ListUncounted(p) ==
    /\ Running
    /\ at[p] = "list"
    /\ \E h \in todo[p] :
          /\ todo' = [todo EXCEPT ![p] = @ \ {h}]
          /\ \/ /\ h \in Alias \cup seen
                /\ UNCHANGED <<at, seen>>
             \/ /\ h \notin Alias \cup seen
                /\ seen' = seen \cup {h}
                /\ at' = [at EXCEPT ![h] = "offer"]
    /\ UNCHANGED <<answer, wg, chan, closed, files>>

\* One host of the response: ContainsOrSet is atomic, and wg.Add comes before
\* the goroutine that offers the task.
List(p) ==
    /\ Running
    /\ at[p] = "list"
    /\ \E h \in todo[p] :
          /\ todo' = [todo EXCEPT ![p] = @ \ {h}]
          /\ \/ /\ h \in Alias \cup seen
                /\ UNCHANGED <<at, seen, wg>>
             \/ /\ h \notin Alias \cup seen
                /\ seen' = seen \cup {h} /\ wg' = wg + 1
                /\ at' = [at EXCEPT ![h] = "offer"]
    /\ UNCHANGED <<answer, chan, closed, files>>

ListEnd(p) ==
    /\ Running
    /\ at[p] = "list" /\ todo[p] = {}
    /\ at' = [at EXCEPT ![p] = "send"]
    /\ UNCHANGED <<todo, answer, seen, wg, chan, closed, files>>

\* w.responseChan <- response
Send(p) ==
    /\ Running
    /\ at[p] = "send" /\ ~closed
    /\ Len(chan) < Capacity
    /\ chan' = Append(chan, [node |-> Target(p), ok |-> answer[p]])
    /\ at' = [at EXCEPT ![p] = IF p = Main THEN "open" ELSE "sent"]
    /\ UNCHANGED <<todo, answer, seen, wg, closed, files>>

\* Variant: wg.Done is not deferred, and an error returns before it.
DoneOnSuccess(n) ==
    /\ Running
    /\ at[n] = "sent" /\ answer[n]
    /\ at' = [at EXCEPT ![n] = "gone"]
    /\ wg' = wg - 1
    /\ UNCHANGED <<todo, answer, seen, chan, closed, files>>

\* The deferred w.wg.Done.
Done(n) ==
    /\ Running
    /\ at[n] = "sent"
    /\ at' = [at EXCEPT ![n] = "gone"]
    /\ wg' = wg - 1
    /\ UNCHANGED <<todo, answer, seen, chan, closed, files>>

\* The goroutine Walk starts last: wg.Wait, then close of both channels.
Close ==
    /\ Running
    /\ at[Main] \notin {"get", "list", "send"}
    /\ wg = 0
    /\ ~closed /\ closed' = TRUE
    /\ UNCHANGED <<at, todo, answer, seen, wg, chan, files>>

-----------------------------------------------------------------------------
(* runWalk and createFile.                                                 *)

MainStep(from, to) ==
    /\ at[Main] = from
    /\ at' = [at EXCEPT ![Main] = to]
    /\ UNCHANGED <<todo, answer, seen, wg, closed>>

OpenResponses ==
    /\ MainStep("open", "read")
    /\ responses' = <<"[">>
    /\ UNCHANGED <<chan, new, out>>

\* One turn of the loop over the channel: a nil response is skipped, one without
\* a position only counted, the others are encoded and followed by a comma.
Receive ==
    /\ MainStep("read", "read")
    /\ chan # <<>> /\ chan' = Tail(chan)
    /\ LET r == Head(chan)
       IN  responses' = responses \o IF r.ok /\ r.node \in Located THEN <<r.node, ",">> ELSE <<>>
    /\ UNCHANGED <<new, out>>

\* The channel is closed and empty; the buffer is flushed.
ReceiveEnd ==
    /\ MainStep("read", "bracket")
    /\ chan = <<>> /\ closed
    /\ UNCHANGED <<chan, files>>

\* Seek(-1, io.SeekEnd) and a bracket over what is there: the last comma, or the
\* opening bracket when no located node answered.
Bracket ==
    /\ MainStep("bracket", "create")
    /\ responses' = Front(responses) \o <<"]">>
    /\ UNCHANGED <<chan, new, out>>

\* Variant: out.json.new is opened without being truncated.
CreateNewAppend ==
    /\ MainStep("create", "key")
    /\ new' = new \o <<"head", "}">>
    /\ UNCHANGED <<chan, responses, out>>

\* os.Create truncates what an earlier run left, then the counters are encoded.
CreateNew ==
    /\ MainStep("create", "key")
    /\ new' = <<"head", "}">>
    /\ UNCHANGED <<chan, responses, out>>

\* Opened again, the key is written over the closing brace.
WriteKey ==
    /\ MainStep("key", "copy")
    /\ new' = Front(new) \o <<"nodeInfo">>
    /\ UNCHANGED <<chan, responses, out>>

CopyResponses ==
    /\ MainStep("copy", "close")
    /\ new' = new \o responses
    /\ UNCHANGED <<chan, responses, out>>

CloseNew ==
    /\ MainStep("close", "rename")
    /\ new' = Append(new, "}")
    /\ UNCHANGED <<chan, responses, out>>

Rename ==
    /\ MainStep("rename", "done")
    /\ out' = new /\ new' = <<>>
    /\ UNCHANGED <<chan, responses>>

\* An error return of runWalk or createFile; a write may be cut short.  The
\* temporary file is removed, out.json.new stays.
Fail ==
    /\ Failures
    /\ at[Main] \in {"open", "read", "bracket", "create", "key", "copy", "close", "rename"}
    /\ MainStep(at[Main], "failed")
    /\ responses' = <<>>
    /\ new' \in {new} \cup (IF at[Main] = "create" THEN {<<>>} ELSE {})
    /\ UNCHANGED <<chan, out>>

RunWalk ==
    \/ OpenResponses \/ Receive \/ ReceiveEnd \/ Bracket
    \/ CreateNew \/ WriteKey \/ CopyResponses \/ CloseNew \/ Rename

Walk(p) == Fetch(p) \/ List(p) \/ ListEnd(p) \/ Send(p)

Task(n) == Dispatch(n) \/ Walk(n) \/ Done(n)

Next == RunWalk \/ Fail \/ Walk(Main) \/ (\E n \in Node : Task(n)) \/ Close

Spec == Init /\ [][Next]_vars

\* Every goroutine is scheduled; a fetch ends, by its timeout if not otherwise.
FairSpec ==
    /\ Spec
    /\ WF_vars(RunWalk) /\ WF_vars(Walk(Main)) /\ WF_vars(Close)
    /\ \A n \in Node : WF_vars(Task(n))

-----------------------------------------------------------------------------
(* Properties                                                              *)

\* WaitGroupCounts: the wait group counts the tasks that were offered and have
\* not ended, from the Add in walk to the deferred Done, so that it cannot reach
\* zero while a task is still waiting for the dispatcher.
WaitGroupCounts ==
    wg = Cardinality({n \in Node : at[n] \notin {"none", "gone"}})

\* The walk as its reader sees it.
CrawlView == INSTANCE Crawl WITH
    Links <- [n \in Node |-> Hosts[n] \ Alias],
    begun <- answer[Main],
    found <- seen,
    answered <- {n \in Node : answer[n]},
    reported <- {n \in Node : at[n] \in {"sent", "gone"}},
    over <- closed

\* WalkImplementsCrawl: with all its goroutines the walk finds each named node
\* once, reports it once, reports an answering node only when all it names was
\* found, and closes its channels only when everything found was reported, so that
\* nobody is left to send on them (Walk, walk,
\* ContainsOrSet).
WalkImplementsCrawl == CrawlView!Spec

\* The nodes of a document, which stand at every other place
NodesIn(file) == [k \in 1 .. (Len(file) - 4) \div 2 |-> file[2 * k + 2]]

\* PublishedComplete: whatever failed and whatever an earlier run left behind,
\* out.json is never a part of a document: it is a whole one with at least one
\* node, or the Unopened file of a walk in which no located node answered, which
\* no reader can parse.  After a walk that succeeded it lists exactly the located
\* nodes that answered, each once; the starting node, which is not in w.seen at
\* first, may be listed twice (runWalk, createFile).
PublishedComplete ==
    LET nodes == NodesIn(out)
    IN  /\ out \notin {<<>>, Unopened} =>
             nodes # <<>> /\ out = Document(nodes) /\ ToSet(nodes) \subseteq Node
        /\ at[Main] = "done" =>
             /\ ToSet(nodes) = Located \cap ({n \in Node : answer[n]} \cup {Start})
             /\ out # <<>>
             /\ \A j, k \in DOMAIN nodes : nodes[j] = nodes[k] /\ j # k => nodes[j] = Start
             /\ Cardinality({k \in DOMAIN nodes : nodes[k] = Start}) <= 2

\* WalkEnds: once Walk has returned its channel to runWalk the rest of the walk
\* comes to an end, although each task blocks on a channel of capacity one.
\* Walk itself may not return: its own response is sent before anybody
\* receives, so that a task's response in the channel blocks it for good.
WalkEnds == at[Main] = "open" ~> at[Main] \in Ended
=============================================================================
