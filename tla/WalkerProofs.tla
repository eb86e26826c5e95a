---------------------------- MODULE WalkerProofs ----------------------------
(***************************************************************************)
(* Proofs about Walker for any mesh: any finite set of nodes, whatever     *)
(* hosts they name, with or without failures, and whatever an earlier run  *)
(* left in out.json.new.                                                   *)
(***************************************************************************)
EXTENDS Walker, FiniteSetTheorems, SequenceTheorems, TLAPS

TaskSteps == {"none", "offer", "get", "list", "send", "sent", "gone"}

\* Tasks that w.wg has to count.
Pending == {n \in Node : at[n] \notin {"none", "gone"}}

\* The part of TypeOK that is about the goroutines and their channel.
WalkType ==
    /\ at \in [Goroutine -> MainSteps \cup TaskSteps]
    /\ at[Main] \in MainSteps
    /\ \A n \in Node : at[n] \in TaskSteps
    /\ todo \in [Goroutine -> SUBSET (Node \cup Alias)]
    /\ answer \in [Goroutine -> BOOLEAN]
    /\ seen \subseteq Node
    /\ wg \in Nat
    /\ closed \in BOOLEAN

\* A node has a goroutine from the moment it is in w.seen.
SeenStarted == \A n \in Node : at[n] = "none" <=> n \notin seen

\* A goroutine knows its node's hosts after it has fetched them, and not before.
FetchedFirst ==
    /\ at[Main] = "get" => ~answer[Main]
    /\ at[Main] \notin {"get", "failed"} => answer[Main]
    /\ \A n \in Node : at[n] \in {"none", "offer", "get"} => ~answer[n]
    /\ \A n \in Node : at[n] = "list" => answer[n]

\* The loop over the hosts of a response: what it has passed is an alias or was
\* seen, and it is left with nothing to look at.
Listed ==
    /\ \A p \in Goroutine : todo[p] \subseteq Hosts[Target(p)]
    /\ \A p \in Goroutine : at[p] # "list" => todo[p] = {}
    /\ \A p \in Goroutine : answer[p] => Hosts[Target(p)] \subseteq Alias \cup seen \cup todo[p]

\* Once the channels are closed no goroutine is left that uses them.
ClosedLast ==
    closed => at[Main] \notin {"get", "list", "send"} /\ \A n \in Node : at[n] \in {"none", "gone"}

WalkInv == WalkType /\ SeenStarted /\ FetchedFirst /\ Listed /\ ClosedLast /\ WaitGroupCounts

USE WalkerAssumption
USE DEF vars, files, Goroutine

-----------------------------------------------------------------------------
(* The wait group.                                                         *)

LEMMA PendingFinite == IsFiniteSet(Pending) /\ Cardinality(Pending) \in Nat
  <1>1. Pending \subseteq Node
    BY DEF Pending
  <1> QED BY <1>1, FS_Subset, FS_CardinalityType

\* A wait group at zero means that no task is pending.
LEMMA ZeroMeansNone ==
  ASSUME WaitGroupCounts, wg = 0
  PROVE  \A n \in Node : at[n] \in {"none", "gone"}
  <1>1. Cardinality(Pending) = 0
    BY DEF WaitGroupCounts, Pending
  <1>2. Pending = {}
    BY <1>1, PendingFinite, FS_EmptySet
  <1> QED BY <1>2 DEF Pending

\* A step that leaves wg alone keeps the count if it moves no task out of or into
\* the pending ones.
LEMMA CountFrame ==
  ASSUME WaitGroupCounts, wg' = wg,
         \A n \in Node : at[n] \in {"none", "gone"} <=> at'[n] \in {"none", "gone"}
  PROVE  WaitGroupCounts'
  <1>1. Pending' = Pending
    BY DEF Pending
  <1> QED BY <1>1 DEF WaitGroupCounts, Pending

LEMMA CountUp ==
  ASSUME WaitGroupCounts, wg' = wg + 1, NEW h \in Node, WalkType,
         at[h] = "none", at' = [at EXCEPT ![h] = "offer"]
  PROVE  WaitGroupCounts'
  <1>1. Pending' = Pending \cup {h} /\ h \notin Pending
    BY DEF Pending, WalkType
  <1>2. Cardinality(Pending') = Cardinality(Pending) + 1
    BY <1>1, PendingFinite, FS_AddElement
  <1> QED BY <1>2 DEF WaitGroupCounts, Pending

LEMMA CountDown ==
  ASSUME WaitGroupCounts, wg' = wg - 1, NEW h \in Node, WalkType,
         at[h] = "sent", at' = [at EXCEPT ![h] = "gone"]
  PROVE  WaitGroupCounts' /\ wg' \in Nat
  <1>1. Pending' = Pending \ {h} /\ h \in Pending
    BY DEF Pending, WalkType
  <1>2. IsFiniteSet(Pending') /\ Cardinality(Pending') = Cardinality(Pending) - 1
    BY <1>1, PendingFinite, FS_RemoveElement
  <1>3. Cardinality(Pending') \in Nat
    BY <1>2, FS_CardinalityType
  <1> QED BY <1>2, <1>3 DEF WaitGroupCounts, Pending

-----------------------------------------------------------------------------
(* The invariant.                                                          *)

LEMMA InitWalkInv == Init => WalkInv
  <1> SUFFICES ASSUME Init PROVE WalkInv
    OBVIOUS
  <1>1. WalkType /\ SeenStarted /\ FetchedFirst /\ Listed /\ ClosedLast
    BY DEF Init, WalkType, MainSteps, TaskSteps, SeenStarted, FetchedFirst, Listed, ClosedLast, Target
  <1>2. Pending = {}
    BY DEF Init, Pending
  <1>3. WaitGroupCounts
    BY <1>2, FS_EmptySet DEF Init, WaitGroupCounts, Pending
  <1> QED BY <1>1, <1>3 DEF WalkInv

\* Steps of a goroutine that change nothing but where it is, and perhaps what it
\* sends or writes to a file.
LEMMA MoveInv ==
  ASSUME WalkInv, NEW p \in Goroutine, NEW to \in MainSteps \cup TaskSteps,
         at' = [at EXCEPT ![p] = to], UNCHANGED <<todo, answer, seen, wg, closed>>,
         p = Main => to \in MainSteps /\ (to \in {"get", "list", "send"} => ~closed),
         p \in Node => to \in TaskSteps \ {"none", "gone"} /\ at[p] \notin {"none", "gone"},
         at[p] # "get" \/ to = "get" \/ (p = Main /\ to = "failed"),
         at[p] = "list" => todo[p] = {},
         to = "get" => at[p] \in {"get", "offer"}, to \notin {"offer", "list"},
         p = Main => at[p] # "offer" /\ at[p] # "failed"
  PROVE  WalkInv'
  <1>1. WalkType'
    BY DEF WalkInv, WalkType
  <1>2. SeenStarted'
    BY DEF WalkInv, WalkType, SeenStarted
  <1>3. FetchedFirst'
    BY DEF WalkInv, WalkType, FetchedFirst
  <1>4. Listed'
    BY DEF WalkInv, WalkType, Listed
  <1>5. ClosedLast'
    BY DEF WalkInv, WalkType, ClosedLast
  <1>6. WaitGroupCounts'
    BY CountFrame DEF WalkInv, WalkType
  <1> QED BY <1>1, <1>2, <1>3, <1>4, <1>5, <1>6 DEF WalkInv

LEMMA FetchInv == ASSUME WalkInv, NEW p \in Goroutine, Fetch(p) PROVE WalkInv'
  <1> USE DEF Fetch, Running, Ended
  <1>0. Hosts[Target(p)] \subseteq Node \cup Alias
    BY DEF Target
  <1>1. WalkType'
    BY <1>0 DEF WalkInv, WalkType, MainSteps, TaskSteps
  <1>2. SeenStarted'
    BY DEF WalkInv, WalkType, SeenStarted
  <1>3. FetchedFirst'
    BY DEF WalkInv, WalkType, FetchedFirst
  <1>4. Listed'
    BY DEF WalkInv, WalkType, Listed
  <1>5. ClosedLast'
    BY DEF WalkInv, WalkType, ClosedLast
  <1>6. WaitGroupCounts'
    BY CountFrame DEF WalkInv, WalkType
  <1> QED BY <1>1, <1>2, <1>3, <1>4, <1>5, <1>6 DEF WalkInv

LEMMA ListInv == ASSUME WalkInv, NEW p \in Goroutine, List(p) PROVE WalkInv'
  <1>0. PICK h \in todo[p] :
          /\ todo' = [todo EXCEPT ![p] = @ \ {h}]
          /\ \/ h \in Alias \cup seen /\ UNCHANGED <<at, seen, wg>>
             \/ /\ h \notin Alias \cup seen
                /\ seen' = seen \cup {h} /\ wg' = wg + 1
                /\ at' = [at EXCEPT ![h] = "offer"]
    BY DEF List
  <1>a. UNCHANGED <<answer, closed>> /\ at[p] = "list" /\ ~closed
    BY DEF List, WalkInv, ClosedLast
  <1>b. h \notin Alias \cup seen => h \in Node /\ h # Main /\ at[h] = "none" /\ h # p
    BY <1>0, <1>a DEF WalkInv, WalkType, SeenStarted
  <1>1. WalkType'
    BY <1>0, <1>a, <1>b DEF WalkInv, WalkType, MainSteps, TaskSteps
  <1>2. SeenStarted'
    BY <1>0, <1>a, <1>b DEF WalkInv, WalkType, SeenStarted
  <1>3. FetchedFirst'
    BY <1>0, <1>a, <1>b DEF WalkInv, WalkType, FetchedFirst
  <1>4. Listed'
    BY <1>0, <1>a, <1>b DEF WalkInv, WalkType, Listed
  <1>5. ClosedLast'
    BY <1>a DEF ClosedLast
  <1>6. WaitGroupCounts'
    <2>1. CASE h \in Alias \cup seen
      BY <1>0, <2>1, CountFrame DEF WalkInv, WalkType
    <2>2. CASE h \notin Alias \cup seen
      BY <1>0, <1>b, <2>2, CountUp DEF WalkInv
    <2> QED BY <2>1, <2>2
  <1> QED BY <1>1, <1>2, <1>3, <1>4, <1>5, <1>6 DEF WalkInv

LEMMA DoneInv == ASSUME WalkInv, NEW n \in Node, Done(n) PROVE WalkInv'
  <1> USE DEF Done
  <1>1. WaitGroupCounts' /\ wg' \in Nat
    BY CountDown DEF WalkInv
  <1>2. WalkType'
    BY <1>1 DEF WalkInv, WalkType, TaskSteps
  <1>3. SeenStarted' /\ FetchedFirst' /\ Listed' /\ ClosedLast'
    BY DEF WalkInv, WalkType, SeenStarted, FetchedFirst, Listed, ClosedLast
  <1> QED BY <1>1, <1>2, <1>3 DEF WalkInv

LEMMA CloseInv == ASSUME WalkInv, Close PROVE WalkInv'
  <1>1. \A n \in Node : at[n] \in {"none", "gone"}
    BY ZeroMeansNone DEF Close, WalkInv
  <1>2. ClosedLast'
    BY <1>1 DEF Close, ClosedLast
  <1>3. WalkType' /\ SeenStarted' /\ FetchedFirst' /\ Listed'
    BY DEF Close, WalkInv, WalkType, SeenStarted, FetchedFirst, Listed
  <1>4. WaitGroupCounts'
    BY CountFrame DEF Close, WalkInv
  <1> QED BY <1>2, <1>3, <1>4 DEF WalkInv

LEMMA WalkStepInv == ASSUME WalkInv, NEW p \in Goroutine, Walk(p) PROVE WalkInv'
  <1>1. CASE Fetch(p)
    BY <1>1, FetchInv
  <1>2. CASE List(p)
    BY <1>2, ListInv
  <1>3. CASE ListEnd(p)
    <2>1. at[p] = "list" /\ todo[p] = {} /\ ~closed
      BY <1>3 DEF ListEnd, WalkInv, ClosedLast
    <2>2. at' = [at EXCEPT ![p] = "send"] /\ UNCHANGED <<todo, answer, seen, wg, closed>>
      BY <1>3 DEF ListEnd
    <2>3. "send" \in MainSteps \cap TaskSteps
      BY DEF MainSteps, TaskSteps
    <2> QED BY <2>1, <2>2, <2>3, MoveInv
  <1>4. CASE Send(p)
    <2> DEFINE to == IF p = Main THEN "open" ELSE "sent"
    <2>1. at[p] = "send" /\ at' = [at EXCEPT ![p] = to] /\ UNCHANGED <<todo, answer, seen, wg, closed>>
      BY <1>4 DEF Send
    <2>2. to \in MainSteps \cup TaskSteps /\ (p = Main => to = "open" /\ to \in MainSteps)
          /\ (p \in Node => to = "sent" /\ to \in TaskSteps)
      BY DEF MainSteps, TaskSteps
    <2>3. to \in {"open", "sent"}
      OBVIOUS
    <2> HIDE DEF to
    <2> QED BY <2>1, <2>2, <2>3, MoveInv
  <1> QED BY <1>1, <1>2, <1>3, <1>4 DEF Walk

LEMMA TaskInv == ASSUME WalkInv, NEW n \in Node, Task(n) PROVE WalkInv'
  <1>1. CASE Dispatch(n)
    <2>1. at[n] = "offer" /\ at' = [at EXCEPT ![n] = "get"] /\ UNCHANGED <<todo, answer, seen, wg, closed>>
      BY <1>1 DEF Dispatch
    <2>2. "get" \in TaskSteps
      BY DEF TaskSteps
    <2> QED BY <2>1, <2>2, MoveInv
  <1>2. CASE Walk(n)
    BY <1>2, WalkStepInv
  <1>3. CASE Done(n)
    BY <1>3, DoneInv
  <1> QED BY <1>1, <1>2, <1>3 DEF Task

\* runWalk, from the moment Walk has returned, only moves Main.
LEMMA RunWalkMoves ==
  ASSUME RunWalk \/ Fail
  PROVE  /\ at[Main] \notin {"get", "list", "send", "done", "failed"}
         /\ \E to \in MainSteps \ {"get", "list", "send"} : at' = [at EXCEPT ![Main] = to]
         /\ UNCHANGED <<todo, answer, seen, wg, closed>>
  BY DEF RunWalk, OpenResponses, Receive, ReceiveEnd, Bracket, CreateNew, WriteKey,
         CopyResponses, CloseNew, Rename, Fail, MainStep, MainSteps

LEMMA NextWalkInv == WalkInv /\ [Next]_vars => WalkInv'
  <1> SUFFICES ASSUME WalkInv, [Next]_vars PROVE WalkInv'
    OBVIOUS
  <1>1. CASE RunWalk \/ Fail
    <2>1. at[Main] \in MainSteps
      BY DEF WalkInv, WalkType
    <2> QED BY <1>1, <2>1, RunWalkMoves, MoveInv DEF MainSteps
  <1>2. CASE Walk(Main)
    BY <1>2, WalkStepInv
  <1>3. ASSUME NEW n \in Node, Task(n) PROVE WalkInv'
    BY <1>3, TaskInv
  <1>4. CASE Close
    BY <1>4, CloseInv
  <1>5. CASE UNCHANGED vars
    BY <1>5, CountFrame DEF WalkInv, WalkType, SeenStarted, FetchedFirst, Listed, ClosedLast
  <1> QED BY <1>1, <1>2, <1>3, <1>4, <1>5 DEF Next

LEMMA WalkInvHolds == Spec => []WalkInv
  BY InitWalkInv, NextWalkInv, PTL DEF Spec

\* WaitGroup: in every walk of every mesh w.wg is the number of tasks that were
\* offered and have not ended, so that the goroutine of Walk that waits for it
\* cannot close the channels under a task that still waits for the dispatcher
\* (walk, Walk).
THEOREM WaitGroup == Spec => []WaitGroupCounts
  BY WalkInvHolds, PTL DEF WalkInv

-----------------------------------------------------------------------------
(* The walk implements Crawl: every step of the walk is one step of the    *)
(* crawl, or none.                                                         *)

USE DEF CrawlView!crawl

LEMMA InitRefines == Init => CrawlView!Init
  BY DEF Init, CrawlView!Init

\* What the crawl does not see.
LEMMA Stutters ==
  ASSUME WalkInv, NEW p \in Goroutine, NEW to, at' = [at EXCEPT ![p] = to],
         UNCHANGED <<answer, seen, closed>>,
         p \in Node => (at[p] \in {"sent", "gone"} <=> to \in {"sent", "gone"})
  PROVE  UNCHANGED CrawlView!crawl
  BY DEF WalkInv, WalkType

LEMMA FetchRefines ==
  ASSUME WalkInv, NEW p \in Goroutine, Fetch(p)
  PROVE  [CrawlView!Next]_CrawlView!crawl
  <1>0. at[p] = "get" /\ UNCHANGED <<seen, closed>>
    BY DEF Fetch
  <1>1. CASE UNCHANGED answer
    BY <1>0, <1>1, Stutters DEF Fetch
  <1>2. CASE answer' = [answer EXCEPT ![p] = TRUE] /\ at' = [at EXCEPT ![p] = "list"]
    <2>1. CASE p = Main
      BY <1>0, <1>2, <2>1 DEF CrawlView!Next, CrawlView!Begin, WalkInv, WalkType, FetchedFirst
    <2>2. CASE p \in Node
      <3>1. CrawlView!Answer(p)
        BY <1>0, <1>2, <2>2 DEF CrawlView!Answer, WalkInv, WalkType, FetchedFirst, SeenStarted
      <3> QED BY <2>2, <3>1 DEF CrawlView!Next
    <2> QED BY <2>1, <2>2
  <1> QED BY <1>1, <1>2 DEF Fetch

LEMMA ListRefines ==
  ASSUME WalkInv, NEW p \in Goroutine, List(p)
  PROVE  [CrawlView!Next]_CrawlView!crawl
  <1>0. PICK h \in todo[p] :
          \/ h \in Alias \cup seen /\ UNCHANGED <<at, seen, wg>>
          \/ /\ h \notin Alias \cup seen
             /\ seen' = seen \cup {h} /\ wg' = wg + 1
             /\ at' = [at EXCEPT ![h] = "offer"]
    BY DEF List
  <1>a. UNCHANGED <<answer, closed>> /\ at[p] = "list" /\ ~closed
    BY DEF List, WalkInv, ClosedLast
  <1>1. CASE h \in Alias \cup seen
    BY <1>0, <1>a, <1>1
  <1>2. CASE h \notin Alias \cup seen
    <2>1. h \in Node /\ h # Main /\ at[h] = "none" /\ h \in Hosts[Target(p)] \ Alias
      BY <1>0, <1>2 DEF WalkInv, WalkType, SeenStarted, Listed
    <2>2. answer[p] /\ (p \in Node => at[p] \notin {"sent", "gone"})
      BY <1>a DEF WalkInv, FetchedFirst
    <2>3. CrawlView!Find(h)
      BY <1>0, <1>a, <1>2, <2>1, <2>2 DEF CrawlView!Find, Target, WalkInv, WalkType
    <2> QED BY <2>1, <2>3 DEF CrawlView!Next
  <1> QED BY <1>1, <1>2

LEMMA SendRefines ==
  ASSUME WalkInv, NEW p \in Goroutine, Send(p)
  PROVE  [CrawlView!Next]_CrawlView!crawl
  <1>1. CASE p = Main
    BY <1>1, Stutters DEF Send
  <1>2. CASE p \in Node
    <2>1. answer[p] => Hosts[p] \ Alias \subseteq seen
      BY <1>2 DEF Send, WalkInv, Listed, Target
    <2>2. CrawlView!Report(p)
      BY <1>2, <2>1 DEF Send, CrawlView!Report, WalkInv, WalkType, SeenStarted
    <2> QED BY <1>2, <2>2 DEF CrawlView!Next
  <1> QED BY <1>1, <1>2

LEMMA CloseRefines ==
  ASSUME WalkInv, Close
  PROVE  CrawlView!Finish
  <1>1. \A n \in Node : at[n] \in {"none", "gone"}
    BY ZeroMeansNone DEF Close, WalkInv
  <1>2. seen = {n \in Node : at[n] \in {"sent", "gone"}}
    BY <1>1 DEF WalkInv, WalkType, SeenStarted
  <1>3. answer[Main] /\ Hosts[Start] \ Alias \subseteq seen
    BY DEF Close, Running, Ended, WalkInv, FetchedFirst, Listed, Target
  <1> QED BY <1>2, <1>3 DEF Close, CrawlView!Finish, WalkInv

LEMMA NextRefines == WalkInv /\ [Next]_vars => [CrawlView!Next]_CrawlView!crawl
  <1> SUFFICES ASSUME WalkInv, [Next]_vars PROVE [CrawlView!Next]_CrawlView!crawl
    OBVIOUS
  <1>1. CASE RunWalk \/ Fail
    BY <1>1, RunWalkMoves, Stutters
  <1>2. ASSUME NEW p \in Goroutine, Walk(p) PROVE [CrawlView!Next]_CrawlView!crawl
    <2>1. CASE ListEnd(p)
      BY <2>1, Stutters DEF ListEnd
    <2> QED BY <1>2, <2>1, FetchRefines, ListRefines, SendRefines DEF Walk
  <1>3. ASSUME NEW n \in Node, Dispatch(n) \/ Done(n) PROVE UNCHANGED CrawlView!crawl
    BY <1>3, Stutters DEF Dispatch, Done
  <1>4. CASE Close
    BY <1>4, CloseRefines DEF CrawlView!Next
  <1>5. CASE UNCHANGED vars
    BY <1>5
  <1> QED BY <1>1, <1>2, <1>3, <1>4, <1>5 DEF Next, Task

\* Refinement: the walk with its goroutines, wait group and channels implements
\* Crawl. Each named node is found once and reported once, a node that answered
\* only when all it names was found, and the channels are closed only when
\* everything found was reported (Walk, walk, ContainsOrSet).
THEOREM Refinement == Spec => WalkImplementsCrawl
  BY WalkInvHolds, InitRefines, NextRefines, PTL DEF Spec, WalkImplementsCrawl, CrawlView!Spec

-----------------------------------------------------------------------------
(* The files: where a document has its nodes.                              *)

\* What runWalk has written before and after it puts the last bracket
Opened(nodes) == <<"[">> \o CommaList(nodes)
Body(nodes) == Front(Opened(nodes)) \o <<"]">>

Piece == Node \cup {"head", "nodeInfo", "[", ",", "]", "}"}

LEMMA ShortSeqs ==
  ASSUME NEW S, NEW x \in S, NEW y \in S
  PROVE  /\ <<x>> \in Seq(S) /\ Len(<<x>>) = 1 /\ <<x>>[1] = x
         /\ <<x, y>> \in Seq(S) /\ Len(<<x, y>>) = 2 /\ <<x, y>>[1] = x /\ <<x, y>>[2] = y
  OBVIOUS

LEMMA PairIsConcat == ASSUME NEW x, NEW y PROVE <<x, y>> = <<x>> \o <<y>>
  <1> DEFINE S == {x, y}
  <1>1. <<x>> \in Seq(S) /\ Len(<<x>>) = 1 /\ <<x>>[1] = x /\ <<y>> \in Seq(S) /\ Len(<<y>>) = 1 /\ <<y>>[1] = y
    BY ShortSeqs
  <1>2. <<x, y>> \in Seq(S) /\ Len(<<x, y>>) = 2 /\ <<x, y>>[1] = x /\ <<x, y>>[2] = y
    BY ShortSeqs
  <1> HIDE DEF S
  <1>3. /\ <<x>> \o <<y>> \in Seq(S) /\ Len(<<x>> \o <<y>>) = 2
        /\ (<<x>> \o <<y>>)[1] = x /\ (<<x>> \o <<y>>)[2] = y
    BY <1>1
  <1> DEFINE s == <<x, y>>
             t == <<x>> \o <<y>>
  <1>4. s \in Seq(S) /\ t \in Seq(S) /\ Len(s) = 2 /\ Len(t) = 2 /\ s[1] = t[1] /\ s[2] = t[2]
    BY <1>2, <1>3
  <1> HIDE DEF s, t
  <1>5. \A i \in 1 .. Len(s) : s[i] = t[i]
    BY <1>4
  <1>6. s = t
    BY <1>4, <1>5, SeqEqual
  <1> QED BY <1>6 DEF s, t

LEMMA CommaListIs ==
  ASSUME NEW nodes \in Seq(Node)
  PROVE  /\ CommaList(nodes) \in Seq(Piece) /\ Len(CommaList(nodes)) = 2 * Len(nodes)
         /\ \A i \in 1 .. 2 * Len(nodes) :
              CommaList(nodes)[i] = IF i % 2 = 1 THEN nodes[(i + 1) \div 2] ELSE ","
  <1>1. Len(nodes) \in Nat /\ \A k \in 1 .. Len(nodes) : nodes[k] \in Node
    OBVIOUS
  <1>2. \A i \in 1 .. 2 * Len(nodes) : i % 2 = 1 => (i + 1) \div 2 \in 1 .. Len(nodes)
    BY <1>1
  <1>3. CommaList(nodes) \in [1 .. 2 * Len(nodes) -> Piece]
    BY <1>1, <1>2 DEF CommaList, Piece
  <1>4. CommaList(nodes) \in Seq(Piece) /\ Len(CommaList(nodes)) = 2 * Len(nodes)
    BY <1>1, <1>3
  <1>5. \A i \in 1 .. 2 * Len(nodes) :
          CommaList(nodes)[i] = IF i % 2 = 1 THEN nodes[(i + 1) \div 2] ELSE ","
    BY DEF CommaList
  <1> QED BY <1>4, <1>5

\* One more response: the node and a comma
LEMMA CommaListMore ==
  ASSUME NEW nodes \in Seq(Node), NEW x \in Node
  PROVE  Opened(Append(nodes, x)) = Opened(nodes) \o <<x, ",">>
  <1> DEFINE n == Len(nodes)
             a == CommaList(nodes)
             b == CommaList(Append(nodes, x))
             m == Append(nodes, x)
  <1>1. n \in Nat /\ m \in Seq(Node) /\ Len(m) = n + 1 /\ m[n + 1] = x /\ \A k \in 1 .. n : m[k] = nodes[k]
    OBVIOUS
  <1>2. /\ a \in Seq(Piece) /\ Len(a) = 2 * n
        /\ \A i \in 1 .. 2 * n : a[i] = IF i % 2 = 1 THEN nodes[(i + 1) \div 2] ELSE ","
    BY CommaListIs
  <1>3. /\ b \in Seq(Piece) /\ Len(b) = 2 * Len(m)
        /\ \A i \in 1 .. 2 * Len(m) : b[i] = IF i % 2 = 1 THEN m[(i + 1) \div 2] ELSE ","
    <2> HIDE DEF m
    <2>1. m \in Seq(Node) /\ b = CommaList(m)
      BY <1>1 DEF m
    <2> HIDE DEF b
    <2> QED BY <2>1, CommaListIs
  <1> HIDE DEF a, b, n, m
  <1>4. ASSUME NEW i \in 1 .. 2 * n PROVE b[i] = a[i]
    <2>1. i % 2 = 1 => (i + 1) \div 2 \in 1 .. n
      BY <1>1
    <2>2. i \in 1 .. 2 * Len(m)
      BY <1>1
    <2>3. b[i] = IF i % 2 = 1 THEN m[(i + 1) \div 2] ELSE ","
      BY <2>2, <1>3
    <2>4. a[i] = IF i % 2 = 1 THEN nodes[(i + 1) \div 2] ELSE ","
      BY <1>2
    <2> QED BY <2>1, <2>3, <2>4, <1>1
  <1>5. b[2 * n + 1] = x /\ b[2 * n + 2] = ","
    <2>1. (2 * n + 1) % 2 = 1 /\ (2 * n + 1 + 1) \div 2 = n + 1 /\ (2 * n + 2) % 2 = 0
      BY <1>1
    <2>2. 2 * n + 1 \in 1 .. 2 * Len(m) /\ 2 * n + 2 \in 1 .. 2 * Len(m)
      BY <1>1
    <2>3. b[2 * n + 1] = m[(2 * n + 1 + 1) \div 2]
      BY <2>1, <2>2, <1>3
    <2>4. b[2 * n + 2] = IF (2 * n + 2) % 2 = 1 THEN m[(2 * n + 2 + 1) \div 2] ELSE ","
      BY <2>2, <1>3
    <2>o. ~((2 * n + 2) % 2 = 1)
      BY <2>1
    <2>5. b[2 * n + 2] = ","
      BY <2>o, <2>4, Zenon
    <2> QED BY <2>1, <2>3, <2>5, <1>1
  <1> DEFINE e == <<x, ",">>
  <1>p. x \in Piece /\ "," \in Piece /\ "[" \in Piece
    BY DEF Piece
  <1>e. e \in Seq(Piece) /\ Len(e) = 2 /\ e[1] = x /\ e[2] = ","
    BY <1>p, ShortSeqs, Zenon
  <1>a. a \in Seq(Piece)
    BY <1>2
  <1>f. e \in Seq(Piece)
    BY <1>e
  <1>o. <<"[">> \in Seq(Piece)
    BY <1>p, ShortSeqs, Zenon
  <1> HIDE DEF e
  <1>6. b = a \o e
    <2>1. /\ a \o e \in Seq(Piece) /\ Len(a \o e) = Len(a) + Len(e)
          /\ \A i \in 1 .. Len(a) + Len(e) : (a \o e)[i] = IF i <= Len(a) THEN a[i] ELSE e[i - Len(a)]
      BY <1>a, <1>f, ConcatProperties
    <2>2. Len(b) = 2 * n + 2 /\ Len(a \o e) = 2 * n + 2
      <3>1. Len(a) = 2 * n /\ Len(e) = 2 /\ Len(m) = n + 1 /\ Len(b) = 2 * Len(m)
        BY <1>1, <1>2, <1>3, <1>e
      <3> QED BY <3>1, <2>1, <1>1
    <2>3. ASSUME NEW i \in 1 .. 2 * n + 2 PROVE b[i] = (a \o e)[i]
      <3>1. (a \o e)[i] = IF i <= 2 * n THEN a[i] ELSE e[i - 2 * n]
        BY <2>1, <1>1, <1>2, <1>e
      <3>2. i \in 1 .. 2 * n \/ i = 2 * n + 1 \/ i = 2 * n + 2
        BY <1>1
      <3>3. CASE i \in 1 .. 2 * n
        BY <3>1, <3>3, <1>1, <1>4
      <3>4. CASE i = 2 * n + 1
        <4>1. (a \o e)[i] = e[1]
          BY <3>1, <3>4, <1>1
        <4> QED BY <4>1, <3>4, <1>5, <1>e
      <3>5. CASE i = 2 * n + 2
        <4>1. (a \o e)[i] = e[2]
          BY <3>1, <3>5, <1>1
        <4> QED BY <4>1, <3>5, <1>5, <1>e
      <3> QED BY <3>2, <3>3, <3>4, <3>5
    <2> QED BY <2>1, <2>2, <2>3, <1>3, SeqEqual
  <1>7. <<"[">> \o (a \o e) = (<<"[">> \o a) \o e
    BY <1>a, <1>f, <1>o, ConcatAssociative
  <1> QED BY <1>6, <1>7 DEF Opened, a, b, m, e

LEMMA Punctuation == {"head", "nodeInfo", "[", ",", "]", "}"} \subseteq Piece /\ Node \subseteq Piece
  BY DEF Piece

LEMMA FrontIs ==
  ASSUME NEW S, NEW s \in Seq(S), Len(s) > 0
  PROVE  /\ Front(s) \in Seq(S) /\ Len(Front(s)) = Len(s) - 1
         /\ \A i \in 1 .. Len(s) - 1 : Front(s)[i] = s[i]
  <1>1. Len(s) \in Nat /\ \A i \in 1 .. Len(s) - 1 : s[i] \in S
    OBVIOUS
  <1>2. 1 \in Int /\ Len(s) - 1 \in Int
    BY <1>1
  <1>3. PICK m \in Int : m = Len(s) - 1
    BY <1>2
  <1>4. /\ SubSeq(s, 1, m) \in Seq(S) /\ Len(SubSeq(s, 1, m)) = IF 1 <= m THEN m - 1 + 1 ELSE 0
        /\ \A i \in 1 .. m - 1 + 1 : SubSeq(s, 1, m)[i] = s[1 + i - 1]
    BY <1>1, <1>2, <1>3, SubSeqProperties
  <1>5. Len(SubSeq(s, 1, m)) = m /\ \A i \in 1 .. m : SubSeq(s, 1, m)[i] = s[i]
    BY <1>1, <1>3, <1>4
  <1> QED BY <1>3, <1>4, <1>5 DEF Front

\* The nodes in what runWalk has written
LEMMA OpenedIs ==
  ASSUME NEW nodes \in Seq(Node)
  PROVE  /\ Opened(nodes) \in Seq(Piece) /\ Len(Opened(nodes)) = 2 * Len(nodes) + 1
         /\ \A k \in 1 .. Len(nodes) : Opened(nodes)[2 * k] = nodes[k]
  <1> DEFINE o == <<"[">>
             c == CommaList(nodes)
             n == Len(nodes)
  <1>1. o \in Seq(Piece) /\ Len(o) = 1
    BY Punctuation, ShortSeqs, Zenon
  <1>2. /\ c \in Seq(Piece) /\ Len(c) = 2 * n
        /\ \A i \in 1 .. 2 * n : c[i] = IF i % 2 = 1 THEN nodes[(i + 1) \div 2] ELSE ","
    BY CommaListIs
  <1>n. n \in Nat
    OBVIOUS
  <1> HIDE DEF o, c, n
  <1>a. o \in Seq(Piece)
    BY <1>1
  <1>c. c \in Seq(Piece)
    BY <1>2
  <1>3. /\ o \o c \in Seq(Piece) /\ Len(o \o c) = Len(o) + Len(c)
        /\ \A i \in 1 .. Len(o) + Len(c) : (o \o c)[i] = IF i <= Len(o) THEN o[i] ELSE c[i - Len(o)]
    BY <1>a, <1>c, ConcatProperties
  <1>l. Len(o) = 1 /\ Len(c) = 2 * n
    BY <1>1, <1>2
  <1>4. Len(o \o c) = 2 * n + 1
    BY <1>l, <1>3, <1>n
  <1>5. ASSUME NEW k \in 1 .. n PROVE (o \o c)[2 * k] = nodes[k]
    <2>1. (o \o c)[2 * k] = IF 2 * k <= 1 THEN o[2 * k] ELSE c[2 * k - 1]
      <3>1. 2 * k \in 1 .. Len(o) + Len(c)
        BY <1>l, <1>n
      <3> QED BY <3>1, <1>l, <1>3
    <2>2. (o \o c)[2 * k] = c[2 * k - 1] /\ 2 * k - 1 \in 1 .. 2 * n
      BY <2>1, <1>n
    <2>3. (2 * k - 1) % 2 = 1 /\ (2 * k - 1 + 1) \div 2 = k
      BY <1>n
    <2>4. c[2 * k - 1] = IF (2 * k - 1) % 2 = 1 THEN nodes[(2 * k - 1 + 1) \div 2] ELSE ","
      BY <2>2, <1>2
    <2>5. c[2 * k - 1] = nodes[k]
      BY <2>3, <2>4, Zenon
    <2> QED BY <2>2, <2>5
  <1> QED BY <1>3, <1>4, <1>5 DEF Opened, o, c, n

\* What runWalk and createFile write when these nodes were received
Written(nodes) ==
    <<"head", "nodeInfo">> \o Front(Opened(nodes)) \o <<"]", "}">>

\* What is written, and the nodes in it
LEMMA WrittenIs ==
  ASSUME NEW nodes \in Seq(Node)
  PROVE  /\ Written(nodes) \in Seq(Piece) /\ Len(Written(nodes)) = 2 * Len(nodes) + 4
         /\ NodesIn(Written(nodes)) = nodes
         /\ Append(<<"head", "nodeInfo">> \o Body(nodes), "}") = Written(nodes)
         /\ <<"head", "nodeInfo">> \o Body(nodes) \in Seq(Piece) /\ Body(nodes) \in Seq(Piece)
  <1> DEFINE h == <<"head", "nodeInfo">>
             f == Front(Opened(nodes))
             c == <<"]">>
             b == <<"}">>
             t == <<"]", "}">>
             n == Len(nodes)
  <1>n. n \in Nat
    OBVIOUS
  <1>h. h \in Seq(Piece) /\ Len(h) = 2
    BY Punctuation, ShortSeqs, Zenon
  <1>t. t \in Seq(Piece) /\ Len(t) = 2 /\ t = c \o b
    <2>1. "]" \in Piece /\ "}" \in Piece
      BY Punctuation
    <2> QED BY <2>1, PairIsConcat, ShortSeqs, Zenon
  <1>c. c \in Seq(Piece) /\ b \in Seq(Piece)
    BY Punctuation, ShortSeqs, Zenon
  <1>1. /\ Opened(nodes) \in Seq(Piece) /\ Len(Opened(nodes)) = 2 * n + 1
        /\ \A k \in 1 .. n : Opened(nodes)[2 * k] = nodes[k]
    BY OpenedIs
  <1> HIDE DEF n
  <1>2. /\ f \in Seq(Piece) /\ Len(f) = 2 * n
        /\ \A i \in 1 .. 2 * n : f[i] = Opened(nodes)[i]
    <2>1. Len(Opened(nodes)) > 0 /\ Len(Opened(nodes)) - 1 = 2 * n
      BY <1>1, <1>n
    <2>2. Opened(nodes) \in Seq(Piece)
      BY <1>1
    <2>3. /\ f \in Seq(Piece) /\ Len(f) = Len(Opened(nodes)) - 1
          /\ \A i \in 1 .. Len(Opened(nodes)) - 1 : f[i] = Opened(nodes)[i]
      BY <2>1, <2>2, FrontIs
    <2> QED BY <2>1, <2>3
  <1> HIDE DEF h, f, c, b, t
  <1>f. f \in Seq(Piece)
    BY <1>2
  <1>d. h \in Seq(Piece)
    BY <1>h
  <1>3. Written(nodes) = (h \o f) \o t /\ Body(nodes) = f \o c
    BY DEF Written, Body, h, f, t, c
  <1>4. /\ h \o f \in Seq(Piece) /\ Len(h \o f) = Len(h) + Len(f)
        /\ \A i \in 1 .. Len(h) + Len(f) : (h \o f)[i] = IF i <= Len(h) THEN h[i] ELSE f[i - Len(h)]
    BY <1>d, <1>f, ConcatProperties
  <1> DEFINE g == h \o f
  <1>5. g \in Seq(Piece) /\ Len(g) = 2 * n + 2 /\ \A i \in 1 .. 2 * n : g[i + 2] = f[i]
    BY <1>4, <1>h, <1>2, <1>n
  <1> HIDE DEF g
  <1>g. g \in Seq(Piece)
    BY <1>5
  <1>6. /\ g \o t \in Seq(Piece) /\ Len(g \o t) = Len(g) + Len(t)
        /\ \A i \in 1 .. Len(g) + Len(t) : (g \o t)[i] = IF i <= Len(g) THEN g[i] ELSE t[i - Len(g)]
    BY <1>g, <1>t, ConcatProperties
  <1>7. Len(g \o t) = 2 * n + 4 /\ \A k \in 1 .. n : (g \o t)[2 * k + 2] = g[2 * k + 2]
    BY <1>5, <1>6, <1>t, <1>n
  <1>8. \A k \in 1 .. n : (g \o t)[2 * k + 2] = nodes[k]
    <2> TAKE k \in 1 .. n
    <2>1. 2 * k \in 1 .. 2 * n
      BY <1>n
    <2> QED BY <2>1, <1>1, <1>2, <1>5, <1>7
  <1>9. NodesIn(g \o t) = nodes
    <2>1. (Len(g \o t) - 4) \div 2 = n
      BY <1>7, <1>n
    <2>2. NodesIn(g \o t) = [k \in 1 .. n |-> (g \o t)[2 * k + 2]]
      BY <2>1 DEF NodesIn
    <2>3. nodes = [k \in 1 .. n |-> nodes[k]]
      BY DEF n
    <2> QED BY <2>2, <2>3, <1>8
  <1>10. h \o (f \o c) = g \o c
    BY <1>d, <1>f, <1>c, ConcatAssociative DEF g
  <1>11. g \o c \in Seq(Piece) /\ (g \o c) \o b = g \o (c \o b) /\ f \o c \in Seq(Piece)
    BY <1>g, <1>f, <1>c, ConcatAssociative, ConcatProperties
  <1>12. Append(g \o c, "}") = (g \o c) \o b
    <2>1. "}" \in Piece
      BY Punctuation
    <2> QED BY <2>1, <1>11, AppendIsConcat DEF b
  <1> QED BY <1>3, <1>6, <1>7, <1>9, <1>10, <1>11, <1>12, <1>t DEF g, h, n

\* With a node the last comma is replaced, and what is written is the document.
LEMMA WrittenIsDocument ==
  ASSUME NEW nodes \in Seq(Node), nodes # <<>>
  PROVE  Written(nodes) = Document(nodes)
  <1> DEFINE o == <<"[">>
             c == CommaList(nodes)
             n == Len(nodes)
  <1>n. n \in Nat /\ n > 0
    OBVIOUS
  <1>1. o \in Seq(Piece) /\ Len(o) = 1 /\ o[1] = "["
    BY Punctuation, ShortSeqs, Zenon
  <1>2. c \in Seq(Piece) /\ Len(c) = 2 * n
    BY CommaListIs
  <1> HIDE DEF o, c, n
  <1>o. o \in Seq(Piece)
    BY <1>1
  <1>c. c \in Seq(Piece) /\ Len(c) > 0 /\ Len(c) - 1 = 2 * n - 1
    BY <1>2, <1>n
  <1>d. c \in Seq(Piece)
    BY <1>c
  <1>3. /\ o \o c \in Seq(Piece) /\ Len(o \o c) = Len(o) + Len(c)
        /\ \A i \in 1 .. Len(o) + Len(c) : (o \o c)[i] = IF i <= Len(o) THEN o[i] ELSE c[i - Len(o)]
    BY <1>o, <1>d, ConcatProperties
  <1> DEFINE oc == o \o c
             f == Front(oc)
             g == Front(c)
  <1>4. /\ oc \in Seq(Piece) /\ Len(oc) = 2 * n + 1
        /\ \A i \in 1 .. 2 * n + 1 : oc[i] = IF i <= 1 THEN o[i] ELSE c[i - 1]
    BY <1>1, <1>2, <1>3, <1>n
  <1> HIDE DEF oc
  <1>5. /\ f \in Seq(Piece) /\ Len(f) = 2 * n /\ \A i \in 1 .. 2 * n : f[i] = oc[i]
    <2>1. oc \in Seq(Piece) /\ Len(oc) > 0 /\ Len(oc) - 1 = 2 * n
      BY <1>4, <1>n
    <2> QED BY <2>1, FrontIs
  <1>6. /\ g \in Seq(Piece) /\ Len(g) = 2 * n - 1 /\ \A i \in 1 .. 2 * n - 1 : g[i] = c[i]
    BY <1>c, FrontIs
  <1> HIDE DEF f, g
  <1>g. g \in Seq(Piece)
    BY <1>6
  <1>7. /\ o \o g \in Seq(Piece) /\ Len(o \o g) = Len(o) + Len(g)
        /\ \A i \in 1 .. Len(o) + Len(g) : (o \o g)[i] = IF i <= Len(o) THEN o[i] ELSE g[i - Len(o)]
    BY <1>o, <1>g, ConcatProperties
  <1> DEFINE og == o \o g
  <1>8. /\ og \in Seq(Piece) /\ Len(og) = 2 * n
        /\ \A i \in 1 .. 2 * n : og[i] = IF i <= 1 THEN o[i] ELSE g[i - 1]
    BY <1>1, <1>6, <1>7, <1>n
  <1> HIDE DEF og
  <1>9. ASSUME NEW i \in 1 .. 2 * n PROVE f[i] = og[i]
    <2>1. f[i] = IF i <= 1 THEN o[i] ELSE c[i - 1]
      <3>1. i \in 1 .. 2 * n + 1
        BY <1>n
      <3>2. f[i] = oc[i]
        BY <1>5
      <3> QED BY <3>1, <3>2, <1>4
    <2>2. og[i] = IF i <= 1 THEN o[i] ELSE g[i - 1]
      BY <1>8
    <2>3. i > 1 => i - 1 \in 1 .. 2 * n - 1
      BY <1>n
    <2>4. CASE i <= 1
      BY <2>1, <2>2, <2>4
    <2>5. CASE i > 1
      <3>1. g[i - 1] = c[i - 1]
        BY <2>3, <2>5, <1>6
      <3> QED BY <2>1, <2>2, <2>5, <3>1, <1>n
    <2> QED BY <2>4, <2>5, <1>n
  <1>10. f = og
    BY <1>5, <1>8, <1>9, SeqEqual
  <1> DEFINE h == <<"head", "nodeInfo">>
             t == <<"]", "}">>
  <1>h. h \in Seq(Piece)
    BY Punctuation, ShortSeqs, Zenon
  <1>11. Opened(nodes) = oc
    BY DEF Opened, oc, o, c
  <1> HIDE DEF h, t
  <1>12. h \o (o \o g) = (h \o o) \o g
    BY <1>h, <1>o, <1>g, ConcatAssociative
  <1>13. Written(nodes) = (h \o f) \o t
    BY <1>11 DEF Written, h, t, f
  <1>14. Document(nodes) = ((h \o o) \o g) \o t
    BY DEF Document, h, o, g, c, t
  <1> QED BY <1>10, <1>12, <1>13, <1>14 DEF og

\* Without one it is the opening bracket that is replaced.
LEMMA WrittenWithoutNodes == Written(<<>>) = Unopened
  <1> DEFINE e == CommaList(<<>>)
             o == <<"[">>
             h == <<"head", "nodeInfo">>
  <1>1. <<>> \in Seq(Node) /\ Len(<<>>) = 0
    OBVIOUS
  <1>2. Opened(<<>>) \in Seq(Piece) /\ Len(Opened(<<>>)) = 2 * 0 + 1
    BY <1>1, OpenedIs
  <1>3. Front(Opened(<<>>)) \in Seq(Piece) /\ Len(Front(Opened(<<>>))) = 0
    <2> DEFINE q == Opened(<<>>)
    <2>1. q \in Seq(Piece) /\ Len(q) > 0 /\ Len(q) - 1 = 0
      BY <1>2
    <2> HIDE DEF q
    <2>2. Front(q) \in Seq(Piece) /\ Len(Front(q)) = 0
      BY <2>1, FrontIs
    <2> QED BY <2>2 DEF q
  <1>4. Front(Opened(<<>>)) = <<>>
    BY <1>3
  <1>5. h \in Seq(Piece)
    BY Punctuation, ShortSeqs, Zenon
  <1> HIDE DEF h
  <1>6. h \o <<>> = h
    BY <1>5
  <1> QED BY <1>4, <1>6 DEF Written, Unopened, h

-----------------------------------------------------------------------------
(* What is published: every response that was sent is in the channel or    *)
(* was written, once.                                                      *)

Sent(p) == IF p = Main THEN at[Main] \notin {"get", "list", "send"} ELSE at[p] \in {"sent", "gone"}

\* Will p's response be written?
Writes(p) == answer[p] /\ Target(p) \in Located

\* The responses of `from' were written, in that order; c's is in the channel
\* when there is one.
Account(from, c) ==
    /\ \A j, k \in DOMAIN from : from[j] = from[k] => j = k
    /\ \A k \in DOMAIN from : Sent(from[k]) /\ Writes(from[k])
    /\ chan # <<>> => /\ Sent(c) /\ chan = <<[node |-> Target(c), ok |-> answer[c]]>>
                      /\ \A k \in DOMAIN from : from[k] # c
    /\ \A p \in Goroutine : Sent(p) /\ Writes(p) =>
         (chan # <<>> /\ p = c) \/ \E k \in DOMAIN from : from[k] = p

Walked(from) == [k \in DOMAIN from |-> Target(from[k])]

\* What is in the files at each step of runWalk and createFile
FilesHold(from) ==
    /\ at[Main] \in {"get", "list", "send", "open"} => from = <<>>
    /\ at[Main] \in {"read", "bracket"} => responses = Opened(Walked(from))
    /\ at[Main] \in {"create", "key", "copy"} => responses = Body(Walked(from))
    /\ at[Main] = "key" => new = <<"head", "}">>
    /\ at[Main] = "copy" => new = <<"head", "nodeInfo">>
    /\ at[Main] = "close" => new = <<"head", "nodeInfo">> \o Body(Walked(from))
    /\ at[Main] = "rename" => new = Written(Walked(from))
    /\ at[Main] = "done" => out = Written(Walked(from))
    /\ at[Main] \in {"bracket", "create", "key", "copy", "close", "rename", "done"} => chan = <<>> /\ closed

OutWhole == out = <<>> \/ \E nodes \in Seq(Node) : out = Written(nodes)

PublishInv ==
    /\ OutWhole
    /\ at[Main] # "failed" =>
         \E from \in Seq(Goroutine), c \in Goroutine : Account(from, c) /\ FilesHold(from)

LEMMA WalkedType ==
  ASSUME NEW from \in Seq(Goroutine)
  PROVE  /\ Walked(from) \in Seq(Node) /\ DOMAIN Walked(from) = DOMAIN from /\ Len(Walked(from)) = Len(from)
         /\ \A k \in DOMAIN from : from[k] \in Goroutine /\ Walked(from)[k] = Target(from[k]) /\ Target(from[k]) \in Node
  <1>1. DOMAIN from = 1 .. Len(from) /\ Len(from) \in Nat /\ \A k \in DOMAIN from : from[k] \in Goroutine
    OBVIOUS
  <1>2. \A k \in DOMAIN from : Target(from[k]) \in Node
    BY <1>1 DEF Target
  <1>3. Walked(from) \in [1 .. Len(from) -> Node]
    BY <1>1, <1>2 DEF Walked
  <1>4. Walked(from) \in Seq(Node) /\ DOMAIN Walked(from) = DOMAIN from /\ Len(Walked(from)) = Len(from)
    BY <1>1, <1>3
  <1> QED BY <1>1, <1>2, <1>4 DEF Walked

LEMMA InitPublish == Init => PublishInv
  <1> SUFFICES ASSUME Init PROVE PublishInv
    OBVIOUS
  <1>1. OutWhole
    <2>1. <<Start>> \in Seq(Node) /\ <<Start>> # <<>> /\ <<>> \in Seq(Node)
      BY ShortSeqs, WalkerAssumption
    <2>2. Written(<<Start>>) = Document(<<Start>>) /\ Written(<<>>) = Unopened
      BY <2>1, WrittenIsDocument, WrittenWithoutNodes
    <2> QED BY <2>1, <2>2 DEF Init, OutWhole
  <1>2. at = [p \in Goroutine |-> IF p = Main THEN "get" ELSE "none"] /\ chan = <<>>
    BY DEF Init
  <1>3. \A p \in Goroutine : ~Sent(p)
    BY <1>2 DEF Sent
  <1>4. <<>> \in Seq(Goroutine) /\ DOMAIN <<>> = {} /\ Main \in Goroutine
    OBVIOUS
  <1>5. Account(<<>>, Main)
    BY <1>2, <1>3 DEF Account
  <1>6. FilesHold(<<>>)
    BY <1>2 DEF FilesHold
  <1> QED BY <1>1, <1>4, <1>5, <1>6 DEF PublishInv

\* A step that sends and receives nothing, and after which every answer that was
\* sent is what it was
LEMMA QuietAccount ==
  ASSUME NEW from \in Seq(Goroutine), NEW c \in Goroutine, Account(from, c), chan' = chan,
         \A p \in Goroutine : (Sent(p)' <=> Sent(p)) /\ (Sent(p) => answer'[p] = answer[p])
  PROVE  Account(from, c)'
  <1>1. \A k \in DOMAIN from : from[k] \in Goroutine
    OBVIOUS
  <1>2. \A p \in Goroutine : Sent(p) => (Writes(p)' <=> Writes(p))
    BY DEF Writes
  <1> QED BY <1>1, <1>2 DEF Account

\* Steps of a task, or of Main before Walk returns, that send nothing
LEMMA QuietPublish ==
  ASSUME WalkInv, PublishInv, Running, UNCHANGED <<chan, files>>, closed => closed',
         \A p \in Goroutine : (Sent(p)' <=> Sent(p)) /\ (Sent(p) => answer'[p] = answer[p]),
         at'[Main] = at[Main] \/ at'[Main] = "failed"
           \/ (at[Main] \in {"get", "list", "send"} /\ at'[Main] \in {"get", "list", "send"})
  PROVE  PublishInv'
  <1>1. OutWhole'
    BY DEF PublishInv, OutWhole
  <1>2. ASSUME at'[Main] # "failed"
        PROVE  \E from \in Seq(Goroutine), c \in Goroutine : Account(from, c)' /\ FilesHold(from)'
    <2>1. PICK from \in Seq(Goroutine), c \in Goroutine : Account(from, c) /\ FilesHold(from)
      BY DEF PublishInv, Running, Ended
    <2>2. Account(from, c)'
      BY <2>1, QuietAccount
    <2>3. FilesHold(from)'
      BY <2>1, <1>2 DEF FilesHold
    <2> QED BY <2>2, <2>3
  <1> QED BY <1>1, <1>2 DEF PublishInv

\* A walk that failed leaves out.json as it was.
LEMMA FailedPublish ==
  ASSUME PublishInv, at'[Main] = "failed", out' = out
  PROVE  PublishInv'
  BY DEF PublishInv, OutWhole

\* The steps of walk and of the dispatcher that send nothing
LEMMA TaskPublish ==
  ASSUME WalkInv, PublishInv, NEW p \in Goroutine,
         Fetch(p) \/ List(p) \/ ListEnd(p) \/ (p \in Node /\ (Dispatch(p) \/ Done(p)))
  PROVE  PublishInv'
  <1> USE DEF WalkInv, WalkType
  <1>r. Running
    BY DEF Fetch, List, ListEnd, Dispatch, Done
  <1>1. CASE Fetch(p)
    <2>0. UNCHANGED <<chan, files, closed>> /\ at[p] = "get"
      BY <1>1 DEF Fetch
    <2>1. CASE p = Main /\ at' = [at EXCEPT ![p] = "failed"]
      BY <2>0, <2>1, FailedPublish
    <2>2. CASE ~(p = Main /\ at' = [at EXCEPT ![p] = "failed"])
      <3>1. PICK to \in {"list", "send"} : at' = [at EXCEPT ![p] = to]
        BY <1>1, <2>2 DEF Fetch
      <3>2. answer' = [answer EXCEPT ![p] = TRUE] \/ answer' = answer
        BY <1>1 DEF Fetch
      <3>3. \A q \in Goroutine : (Sent(q)' <=> Sent(q)) /\ (Sent(q) => answer'[q] = answer[q])
        BY <2>0, <3>1, <3>2 DEF Sent
      <3>4. at'[Main] = at[Main] \/ (at[Main] \in {"get", "list", "send"} /\ at'[Main] \in {"get", "list", "send"})
        BY <2>0, <3>1
      <3> QED BY <2>0, <3>3, <3>4, <1>r, QuietPublish
    <2> QED BY <2>1, <2>2
  <1>2. CASE List(p)
    <2>0. UNCHANGED <<chan, files, closed, answer>>
      BY <1>2 DEF List
    <2>1. \/ at' = at
          \/ \E h \in Node : at[h] = "none" /\ at' = [at EXCEPT ![h] = "offer"]
      BY <1>2 DEF List, SeenStarted
    <2>2. at'[Main] = at[Main] /\ \A q \in Goroutine : Sent(q)' <=> Sent(q)
      BY <2>1 DEF Sent
    <2> QED BY <2>0, <2>2, <1>r, QuietPublish
  <1>3. CASE ListEnd(p) \/ (p \in Node /\ (Dispatch(p) \/ Done(p)))
    <2>0. UNCHANGED <<chan, files, closed, answer>>
      BY <1>3 DEF ListEnd, Dispatch, Done
    <2>1. \/ at[p] = "list" /\ at' = [at EXCEPT ![p] = "send"]
          \/ p \in Node /\ at[p] = "offer" /\ at' = [at EXCEPT ![p] = "get"]
          \/ p \in Node /\ at[p] = "sent" /\ at' = [at EXCEPT ![p] = "gone"]
      BY <1>3 DEF ListEnd, Dispatch, Done
    <2>2. \A q \in Goroutine : Sent(q)' <=> Sent(q)
      BY <2>1 DEF Sent
    <2>3. at'[Main] = at[Main] \/ (at[Main] \in {"get", "list", "send"} /\ at'[Main] \in {"get", "list", "send"})
      BY <2>1
    <2> QED BY <2>0, <2>2, <2>3, <1>r, QuietPublish
  <1> QED BY <1>1, <1>2, <1>3

LEMMA SendPublish ==
  ASSUME WalkInv, PublishInv, NEW p \in Goroutine, Send(p)
  PROVE  PublishInv'
  <1>0. Running /\ at[p] = "send" /\ Len(chan) < 1 /\ UNCHANGED <<answer, files, closed>> /\ ~closed
    BY DEF Send, Capacity
  <1>1. PICK from \in Seq(Goroutine), c \in Goroutine : Account(from, c) /\ FilesHold(from)
    BY <1>0 DEF PublishInv, Running, Ended
  <1>2. chan = <<>>
    BY <1>0, <1>1 DEF Account
  <1>3. chan' = <<[node |-> Target(p), ok |-> answer[p]]>> /\ chan' # <<>>
    BY <1>2 DEF Send
  <1>4. at' = [at EXCEPT ![p] = IF p = Main THEN "open" ELSE "sent"]
    BY DEF Send
  <1>5. \A q \in Goroutine : Sent(q)' <=> Sent(q) \/ q = p
    BY <1>0, <1>4 DEF Sent, WalkInv, WalkType
  <1>6. ~Sent(p) /\ Sent(p)'
    BY <1>0, <1>5 DEF Sent
  <1>7. \A q \in Goroutine : Writes(q)' <=> Writes(q)
    BY <1>0 DEF Writes
  <1>8. \A k \in DOMAIN from : from[k] \in Goroutine
    OBVIOUS
  <1>9. Account(from, p)'
    BY <1>0, <1>1, <1>2, <1>3, <1>5, <1>6, <1>7, <1>8 DEF Account
  <1>10. FilesHold(from)'
    BY <1>0, <1>1, <1>4 DEF FilesHold, WalkInv, WalkType
  <1>11. OutWhole'
    BY <1>0 DEF PublishInv, OutWhole
  <1> QED BY <1>9, <1>10, <1>11 DEF PublishInv

LEMMA ClosePublish ==
  ASSUME WalkInv, PublishInv, Close
  PROVE  PublishInv'
  <1>1. Running /\ UNCHANGED <<at, answer, chan, files>> /\ closed'
    BY DEF Close
  <1>2. \A q \in Goroutine : Sent(q)' <=> Sent(q)
    BY <1>1 DEF Sent
  <1> QED BY <1>1, <1>2, QuietPublish

-----------------------------------------------------------------------------
(* runWalk and createFile.                                                 *)

\* After Walk has returned Main's steps change nobody's response.
LEMMA MainSent ==
  ASSUME WalkInv, NEW to \in MainSteps \ {"get", "list", "send"}, at[Main] \notin {"get", "list", "send"},
         at' = [at EXCEPT ![Main] = to], answer' = answer
  PROVE  /\ at'[Main] = to
         /\ \A p \in Goroutine : (Sent(p)' <=> Sent(p)) /\ (Writes(p)' <=> Writes(p))
  BY DEF WalkInv, WalkType, Sent, Writes

\* One response more is written.
LEMMA WalkedMore ==
  ASSUME NEW from \in Seq(Goroutine), NEW c \in Goroutine
  PROVE  Walked(Append(from, c)) = Append(Walked(from), Target(c))
  <1>1. Walked(from) \in Seq(Node) /\ Len(Walked(from)) = Len(from)
    BY WalkedType
  <1>2. Target(c) \in Node
    BY DEF Target
  <1>3. Walked(Append(from, c)) \in Seq(Node) /\ Len(Walked(Append(from, c))) = Len(from) + 1
    <2>1. Append(from, c) \in Seq(Goroutine)
      OBVIOUS
    <2>2. Len(Append(from, c)) = Len(from) + 1
      OBVIOUS
    <2>3. Walked(Append(from, c)) \in Seq(Node) /\ Len(Walked(Append(from, c))) = Len(Append(from, c))
      BY <2>1, WalkedType, Zenon
    <2> QED BY <2>2, <2>3
  <1>4. \A k \in 1 .. Len(from) + 1 : Walked(Append(from, c))[k] = Target(Append(from, c)[k])
    BY DEF Walked
  <1>5. \A k \in 1 .. Len(from) : Walked(from)[k] = Target(from[k])
    BY DEF Walked
  <1>6. \A k \in 1 .. Len(from) + 1 : Walked(Append(from, c))[k] = Append(Walked(from), Target(c))[k]
    BY <1>1, <1>2, <1>4, <1>5
  <1>7. Append(Walked(from), Target(c)) \in Seq(Node) /\ Len(Append(Walked(from), Target(c))) = Len(from) + 1
    BY <1>1, <1>2
  <1> QED BY <1>3, <1>6, <1>7, SeqEqual

LEMMA ReceivePublish ==
  ASSUME WalkInv, PublishInv, Receive
  PROVE  PublishInv'
  <1>0. /\ at[Main] = "read" /\ at' = [at EXCEPT ![Main] = "read"] /\ chan # <<>> /\ chan' = Tail(chan)
        /\ UNCHANGED <<answer, closed, new, out>>
    BY DEF Receive, MainStep
  <1>1. PICK from \in Seq(Goroutine), c \in Goroutine : Account(from, c) /\ FilesHold(from)
    BY <1>0 DEF PublishInv
  <1>2. Sent(c) /\ chan = <<[node |-> Target(c), ok |-> answer[c]]>> /\ \A k \in DOMAIN from : from[k] # c
    BY <1>0, <1>1 DEF Account
  <1>3. chan' = <<>> /\ Head(chan).node = Target(c) /\ Head(chan).ok = answer[c]
    BY <1>0, <1>2
  <1>4. at'[Main] = "read" /\ \A p \in Goroutine : (Sent(p)' <=> Sent(p)) /\ (Writes(p)' <=> Writes(p))
    BY <1>0, MainSent DEF MainSteps
  <1>5. responses = Opened(Walked(from)) /\ Walked(from) \in Seq(Node) /\ Target(c) \in Node
    BY <1>0, <1>1, WalkedType DEF FilesHold, Target
  <1>6. responses' = responses \o IF Writes(c) THEN <<Target(c), ",">> ELSE <<>>
    BY <1>3 DEF Receive, Writes
  <1>7. \A k \in DOMAIN from : from[k] \in Goroutine
    OBVIOUS
  <1>8. OutWhole'
    BY <1>0 DEF PublishInv, OutWhole
  <1>9. CASE Writes(c)
    <2> DEFINE more == Append(from, c)
    <2>1. more \in Seq(Goroutine) /\ DOMAIN more = 1 .. Len(from) + 1 /\ DOMAIN from = 1 .. Len(from)
          /\ Len(from) \in Nat /\ more[Len(from) + 1] = c /\ \A k \in DOMAIN from : more[k] = from[k]
      OBVIOUS
    <2>2. responses' = Opened(Walked(more))
      BY <1>5, <1>6, <1>9, WalkedMore, CommaListMore
    <2> HIDE DEF more
    <2>3. \A k \in DOMAIN more : k \in DOMAIN from \/ k = Len(from) + 1
      BY <2>1
    <2>4. \A j, k \in DOMAIN more : more[j] = more[k] => j = k
      BY <1>1, <1>2, <2>1, <2>3 DEF Account
    <2>5. \A k \in DOMAIN more : Sent(more[k])' /\ Writes(more[k])'
      <3> TAKE k \in DOMAIN more
      <3>1. more[k] \in Goroutine /\ Sent(more[k]) /\ Writes(more[k])
        BY <1>1, <1>2, <1>7, <1>9, <2>1, <2>3 DEF Account
      <3> QED BY <3>1, <1>4
    <2>6. \A p \in Goroutine : Sent(p)' /\ Writes(p)' => \E k \in DOMAIN more : more[k] = p
      <3> SUFFICES ASSUME NEW p \in Goroutine, Sent(p), Writes(p) PROVE \E k \in DOMAIN more : more[k] = p
        BY <1>4
      <3>1. p = c \/ \E k \in DOMAIN from : from[k] = p
        BY <1>1 DEF Account
      <3>2. Len(from) + 1 \in DOMAIN more /\ DOMAIN from \subseteq DOMAIN more
        BY <2>1
      <3> QED BY <3>1, <3>2, <2>1
    <2>7. Account(more, c)'
      BY <1>3, <2>4, <2>5, <2>6 DEF Account
    <2>8. FilesHold(more)'
      BY <1>4, <2>2 DEF FilesHold
    <2> QED BY <1>8, <2>1, <2>7, <2>8 DEF PublishInv
  <1>10. CASE ~Writes(c)
    <2>1. responses \in Seq(Piece)
      BY <1>5, OpenedIs
    <2>2. responses' = responses
      BY <1>6, <1>10, <2>1, ConcatEmptySeq
    <2>3. Account(from, c)'
      BY <1>1, <1>3, <1>4, <1>7, <1>10 DEF Account
    <2>4. FilesHold(from)'
      BY <1>4, <1>5, <2>2 DEF FilesHold
    <2> QED BY <1>8, <2>3, <2>4 DEF PublishInv
  <1> QED BY <1>9, <1>10

\* The other steps take nothing from the channel.
LEMMA MainPublish ==
  ASSUME WalkInv, PublishInv, NEW to \in MainSteps \ {"get", "list", "send", "failed"},
         at[Main] \notin {"get", "list", "send", "failed"}, at' = [at EXCEPT ![Main] = to],
         UNCHANGED <<answer, chan>>, OutWhole',
         \A from \in Seq(Goroutine) : FilesHold(from) => FilesHold(from)'
  PROVE  PublishInv'
  <1>1. PICK from \in Seq(Goroutine), c \in Goroutine : Account(from, c) /\ FilesHold(from)
    BY DEF PublishInv
  <1>2. \A p \in Goroutine : (Sent(p)' <=> Sent(p)) /\ answer'[p] = answer[p]
    BY MainSent
  <1>3. Account(from, c)'
    BY <1>1, <1>2, QuietAccount
  <1> QED BY <1>1, <1>3 DEF PublishInv

\* The key is written over the closing brace.
LEMMA KeyOverBrace == Front(<<"head", "}">>) \o <<"nodeInfo">> = <<"head", "nodeInfo">>
  <1> DEFINE s == <<"head", "}">>
             h == <<"head">>
  <1>1. s \in Seq(Piece) /\ Len(s) = 2 /\ s[1] = "head" /\ h \in Seq(Piece) /\ Len(h) = 1 /\ h[1] = "head"
    BY Punctuation, ShortSeqs, Zenon
  <1>p. "head" \in Piece /\ "nodeInfo" \in Piece
    BY Punctuation
  <1> HIDE DEF s, h
  <1>s. s \in Seq(Piece) /\ Len(s) > 0
    BY <1>1
  <1>2. Front(s) \in Seq(Piece) /\ Len(Front(s)) = Len(s) - 1 /\ \A i \in 1 .. Len(s) - 1 : Front(s)[i] = s[i]
    BY <1>s, FrontIs
  <1>3. Front(s) \in Seq(Piece) /\ Len(Front(s)) = 1 /\ Front(s)[1] = "head"
    BY <1>1, <1>2
  <1>4. Front(s) = h
    <2>1. \A i \in 1 .. Len(h) : Front(s)[i] = h[i]
      BY <1>1, <1>3
    <2> QED BY <1>1, <1>3, <2>1, SeqEqual
  <1>5. h \o <<"nodeInfo">> = <<"head", "nodeInfo">>
    BY <1>p, PairIsConcat, Zenon DEF h
  <1> QED BY <1>4, <1>5 DEF s

LEMMA RunWalkPublish ==
  ASSUME WalkInv, PublishInv, RunWalk
  PROVE  PublishInv'
  <1> DEFINE head == <<"head", "nodeInfo">>
  <1>0. UNCHANGED <<answer, closed>>
    BY DEF RunWalk, OpenResponses, Receive, ReceiveEnd, Bracket, CreateNew, WriteKey,
           CopyResponses, CloseNew, Rename, MainStep
  <1>a. /\ at \in [Goroutine -> MainSteps \cup TaskSteps]
        /\ {"open", "read", "bracket", "create", "key", "copy", "close", "rename", "done"}
             \subseteq MainSteps \ {"get", "list", "send", "failed"}
    BY DEF WalkInv, WalkType, MainSteps
  <1>o. out' = out => OutWhole'
    BY DEF PublishInv, OutWhole
  <1>1. CASE OpenResponses
    <2>1. at[Main] = "open" /\ at' = [at EXCEPT ![Main] = "read"] /\ UNCHANGED <<chan, out>> /\ responses' = <<"[">>
      BY <1>1 DEF OpenResponses, MainStep
    <2>2. Opened(Walked(<<>>)) = <<"[">>
      <3>1. Walked(<<>>) \in Seq(Node) /\ Len(Walked(<<>>)) = 0
        <4>1. <<>> \in Seq(Goroutine) /\ Len(<<>>) = 0
          OBVIOUS
        <4>2. PICK from \in Seq(Goroutine) : from = <<>>
          BY <4>1
        <4>3. Walked(from) \in Seq(Node) /\ Len(Walked(from)) = Len(from)
          BY WalkedType
        <4> QED BY <4>1, <4>2, <4>3
      <3>2. CommaList(Walked(<<>>)) \in Seq(Piece) /\ Len(CommaList(Walked(<<>>))) = 0
        <4>1. PICK nodes \in Seq(Node) : nodes = Walked(<<>>) /\ Len(nodes) = 0
          BY <3>1
        <4>2. CommaList(nodes) \in Seq(Piece) /\ Len(CommaList(nodes)) = 2 * Len(nodes)
          BY CommaListIs
        <4> QED BY <4>1, <4>2
      <3>3. CommaList(Walked(<<>>)) = <<>>
        BY <3>2, EmptySeq
      <3>4. <<"[">> \in Seq(Piece)
        BY Punctuation, ShortSeqs, Zenon
      <3>5. <<"[">> \o <<>> = <<"[">>
        BY <3>4, ConcatEmptySeq
      <3> QED BY <3>3, <3>5 DEF Opened
    <2>3. \A from \in Seq(Goroutine) : FilesHold(from) => FilesHold(from)'
      BY <1>a, <2>1, <2>2 DEF FilesHold
    <2> QED BY <1>0, <1>a, <1>o, <2>1, <2>3, MainPublish
  <1>2. CASE Receive
    BY <1>2, ReceivePublish
  <1>3. CASE ReceiveEnd
    <2>1. /\ at[Main] = "read" /\ at' = [at EXCEPT ![Main] = "bracket"] /\ UNCHANGED <<chan, files>>
          /\ chan = <<>> /\ closed
      BY <1>3 DEF ReceiveEnd, MainStep
    <2>2. \A from \in Seq(Goroutine) : FilesHold(from) => FilesHold(from)'
      BY <1>0, <1>a, <2>1 DEF FilesHold
    <2> QED BY <1>0, <1>a, <1>o, <2>1, <2>2, MainPublish
  <1>4. CASE Bracket
    <2>1. /\ at[Main] = "bracket" /\ at' = [at EXCEPT ![Main] = "create"] /\ UNCHANGED <<chan, out>>
          /\ responses' = Front(responses) \o <<"]">>
      BY <1>4 DEF Bracket, MainStep
    <2>2. \A from \in Seq(Goroutine) : FilesHold(from) => FilesHold(from)'
      BY <1>0, <1>a, <2>1 DEF FilesHold, Body
    <2> QED BY <1>0, <1>a, <1>o, <2>1, <2>2, MainPublish
  <1>5. CASE CreateNew
    <2>1. /\ at[Main] = "create" /\ at' = [at EXCEPT ![Main] = "key"] /\ UNCHANGED <<chan, responses, out>>
          /\ new' = <<"head", "}">>
      BY <1>5 DEF CreateNew, MainStep
    <2>2. \A from \in Seq(Goroutine) : FilesHold(from) => FilesHold(from)'
      BY <1>0, <1>a, <2>1 DEF FilesHold
    <2> QED BY <1>0, <1>a, <1>o, <2>1, <2>2, MainPublish
  <1>6. CASE WriteKey
    <2>1. /\ at[Main] = "key" /\ at' = [at EXCEPT ![Main] = "copy"] /\ UNCHANGED <<chan, responses, out>>
          /\ new' = Front(new) \o <<"nodeInfo">>
      BY <1>6 DEF WriteKey, MainStep
    <2>2. Front(<<"head", "}">>) \o <<"nodeInfo">> = head
      BY KeyOverBrace
    <2>3. \A from \in Seq(Goroutine) : FilesHold(from) => FilesHold(from)'
      BY <1>0, <1>a, <2>1, <2>2 DEF FilesHold
    <2> QED BY <1>0, <1>a, <1>o, <2>1, <2>3, MainPublish
  <1>7. CASE CopyResponses
    <2>1. /\ at[Main] = "copy" /\ at' = [at EXCEPT ![Main] = "close"] /\ UNCHANGED <<chan, responses, out>>
          /\ new' = new \o responses
      BY <1>7 DEF CopyResponses, MainStep
    <2>2. \A from \in Seq(Goroutine) : FilesHold(from) => FilesHold(from)'
      BY <1>0, <1>a, <2>1 DEF FilesHold
    <2> QED BY <1>0, <1>a, <1>o, <2>1, <2>2, MainPublish
  <1>8. CASE CloseNew
    <2>1. /\ at[Main] = "close" /\ at' = [at EXCEPT ![Main] = "rename"] /\ UNCHANGED <<chan, responses, out>>
          /\ new' = Append(new, "}")
      BY <1>8 DEF CloseNew, MainStep
    <2>2. \A from \in Seq(Goroutine) : Append(head \o Body(Walked(from)), "}") = Written(Walked(from))
      BY WalkedType, WrittenIs
    <2>3. \A from \in Seq(Goroutine) : FilesHold(from) => FilesHold(from)'
      BY <1>0, <1>a, <2>1, <2>2 DEF FilesHold
    <2> QED BY <1>0, <1>a, <1>o, <2>1, <2>3, MainPublish
  <1>9. CASE Rename
    <2>1. /\ at[Main] = "rename" /\ at' = [at EXCEPT ![Main] = "done"] /\ UNCHANGED <<chan, responses>>
          /\ out' = new
      BY <1>9 DEF Rename, MainStep
    <2>2. \A from \in Seq(Goroutine) : FilesHold(from) => FilesHold(from)'
      BY <1>0, <1>a, <2>1 DEF FilesHold
    <2>3. PICK from \in Seq(Goroutine), c \in Goroutine : FilesHold(from)
      BY <2>1 DEF PublishInv
    <2>4. OutWhole'
      BY <2>1, <2>3, WalkedType DEF FilesHold, OutWhole
    <2> QED BY <1>0, <1>a, <2>1, <2>2, <2>4, MainPublish
  <1> QED BY <1>1, <1>2, <1>3, <1>4, <1>5, <1>6, <1>7, <1>8, <1>9 DEF RunWalk

LEMMA NextPublish == WalkInv /\ PublishInv /\ [Next]_vars => PublishInv'
  <1> SUFFICES ASSUME WalkInv, PublishInv, [Next]_vars PROVE PublishInv'
    OBVIOUS
  <1>1. CASE RunWalk
    BY <1>1, RunWalkPublish
  <1>2. CASE Fail
    BY <1>2, FailedPublish DEF Fail, MainStep, WalkInv, WalkType
  <1>3. ASSUME NEW p \in Goroutine, Walk(p) PROVE PublishInv'
    BY <1>3, TaskPublish, SendPublish DEF Walk
  <1>4. ASSUME NEW n \in Node, Task(n) PROVE PublishInv'
    BY <1>3, <1>4, TaskPublish DEF Task
  <1>5. CASE Close
    BY <1>5, ClosePublish
  <1>6. CASE UNCHANGED vars
    <2>1. OutWhole' <=> OutWhole
      BY <1>6 DEF OutWhole
    <2>2. \A p \in Goroutine : (Sent(p)' <=> Sent(p)) /\ answer'[p] = answer[p]
      BY <1>6 DEF Sent
    <2>3. \A from \in Seq(Goroutine), c \in Goroutine : Account(from, c) => Account(from, c)'
      BY <1>6, <2>2, QuietAccount
    <2>4. \A from \in Seq(Goroutine) : FilesHold(from) => FilesHold(from)'
      BY <1>6 DEF FilesHold
    <2> QED BY <1>6, <2>1, <2>3, <2>4 DEF PublishInv
  <1> QED BY <1>1, <1>2, <1>3, <1>4, <1>5, <1>6 DEF Next

LEMMA PublishHolds == Spec => [](WalkInv /\ PublishInv)
  BY InitWalkInv, NextWalkInv, InitPublish, NextPublish, PTL DEF Spec

\* At the end of a walk everything that was sent was written.
LEMMA WrittenAtEnd ==
  ASSUME WalkInv, at[Main] = "done", NEW from \in Seq(Goroutine), NEW c \in Goroutine,
         Account(from, c), FilesHold(from)
  PROVE  /\ {Walked(from)[k] : k \in DOMAIN Walked(from)} = Located \cap ({n \in Node : answer[n]} \cup {Start})
         /\ \A j, k \in DOMAIN Walked(from) : Walked(from)[j] = Walked(from)[k] /\ j # k => Walked(from)[j] = Start
         /\ Cardinality({k \in DOMAIN Walked(from) : Walked(from)[k] = Start}) <= 2
  <1> DEFINE nodes == Walked(from)
  <1>1. chan = <<>> /\ closed
    BY DEF FilesHold
  <1>2. \A n \in Node : at[n] \in {"none", "gone"}
    BY <1>1 DEF WalkInv, ClosedLast
  <1>3. \A n \in Node : answer[n] => Sent(n)
    BY <1>2 DEF WalkInv, FetchedFirst, Sent
  <1>4. Sent(Main) /\ answer[Main] /\ Target(Main) = Start
    BY DEF WalkInv, FetchedFirst, Sent, Target
  <1>5. /\ DOMAIN nodes = DOMAIN from
        /\ \A k \in DOMAIN from : from[k] \in Goroutine /\ nodes[k] = Target(from[k]) /\ Target(from[k]) \in Node
    BY WalkedType
  <1> HIDE DEF nodes
  <1>6. \A k \in DOMAIN from : Writes(from[k])
    BY DEF Account
  <1>7. \A p \in Goroutine : Sent(p) /\ Writes(p) => \E k \in DOMAIN from : from[k] = p
    BY <1>1 DEF Account
  <1>8. \A j, k \in DOMAIN from : from[j] = from[k] => j = k
    BY DEF Account
  <1>9. {nodes[k] : k \in DOMAIN nodes} = Located \cap ({n \in Node : answer[n]} \cup {Start})
    <2>1. ASSUME NEW k \in DOMAIN nodes
          PROVE  nodes[k] \in Located \cap ({n \in Node : answer[n]} \cup {Start})
      BY <1>5, <1>6 DEF Writes, Target
    <2>2. ASSUME NEW n \in Located, n \in {m \in Node : answer[m]} \cup {Start}
          PROVE  \E k \in DOMAIN nodes : nodes[k] = n
      <3>1. CASE n = Start
        BY <3>1, <1>4, <1>5, <1>7 DEF Writes
      <3>2. CASE n \in Node /\ answer[n]
        <4>1. n \in Goroutine /\ Target(n) = n
          BY <3>2 DEF Target
        <4>2. Writes(n) /\ Sent(n)
          BY <3>2, <4>1, <1>3 DEF Writes
        <4>3. PICK k \in DOMAIN from : from[k] = n
          BY <4>1, <4>2, <1>7
        <4> QED BY <4>1, <4>3, <1>5
      <3> QED BY <2>2, <3>1, <3>2
    <2> QED BY <2>1, <2>2
  <1>10. ASSUME NEW j \in DOMAIN nodes, NEW k \in DOMAIN nodes, nodes[j] = nodes[k], j # k
         PROVE  nodes[j] = Start
    BY <1>5, <1>8, <1>10 DEF Target
  <1>11. Cardinality({k \in DOMAIN nodes : nodes[k] = Start}) <= 2
    <2> DEFINE S == {k \in DOMAIN nodes : nodes[k] = Start}
               T == {Main, Start}
               f == [k \in S |-> from[k]]
    <2>1. \A k \in S : from[k] \in T
      BY <1>5 DEF Target
    <2>2. f \in Injection(S, T)
      BY <2>1, <1>5, <1>8 DEF Injection, IsInjective
    <2>3. IsFiniteSet(T) /\ Cardinality(T) = 2
      <3>1. IsFiniteSet({Main}) /\ Cardinality({Main}) = 1
        BY FS_Singleton
      <3>2. IsFiniteSet({Main} \cup {Start}) /\ Cardinality({Main} \cup {Start}) = 1 + 1
        BY <3>1, FS_AddElement
      <3>3. T = {Main} \cup {Start}
        OBVIOUS
      <3> QED BY <3>2, <3>3
    <2>4. Cardinality(S) <= Cardinality(T)
      BY <2>2, <2>3, FS_Injection
    <2> QED BY <2>3, <2>4
  <1> QED BY <1>9, <1>10, <1>11 DEF nodes

\* Published: in every walk of every mesh, whatever fails and whatever an earlier
\* run left behind, out.json holds no part of a document: it has at least one node
\* and is whole, or no located node had answered and its list was never opened.
\* After a walk that succeeded it lists exactly the located nodes that answered: no
\* response is lost between the tasks, the channel of one place and the two files,
\* and none is written twice (Walk, walk, runWalk, createFile).
THEOREM Published == Spec => []PublishedComplete
  <1>1. ASSUME WalkInv, PublishInv PROVE PublishedComplete
    <2> DEFINE nodes == NodesIn(out)
    <2>1. ASSUME out \notin {<<>>, Unopened}
          PROVE  nodes # <<>> /\ out = Document(nodes) /\ ToSet(nodes) \subseteq Node
      <3>1. PICK list \in Seq(Node) : out = Written(list)
        BY <1>1, <2>1 DEF PublishInv, OutWhole
      <3>2. nodes = list
        BY <3>1, WrittenIs
      <3>3. list # <<>>
        BY <2>1, <3>1, WrittenWithoutNodes
      <3>4. out = Document(list)
        BY <3>1, <3>3, WrittenIsDocument
      <3>5. \A k \in DOMAIN list : list[k] \in Node
        OBVIOUS
      <3> QED BY <3>2, <3>3, <3>4, <3>5 DEF ToSet
    <2>2. ASSUME at[Main] = "done"
          PROVE  /\ ToSet(nodes) = Located \cap ({n \in Node : answer[n]} \cup {Start})
                 /\ out # <<>>
                 /\ \A j, k \in DOMAIN nodes : nodes[j] = nodes[k] /\ j # k => nodes[j] = Start
                 /\ Cardinality({k \in DOMAIN nodes : nodes[k] = Start}) <= 2
      <3>1. PICK from \in Seq(Goroutine), c \in Goroutine : Account(from, c) /\ FilesHold(from)
        BY <1>1, <2>2 DEF PublishInv
      <3>2. out = Written(Walked(from)) /\ Walked(from) \in Seq(Node)
        BY <2>2, <3>1, WalkedType DEF FilesHold
      <3>3. nodes = Walked(from)
        BY <3>2, WrittenIs
      <3>e. out # <<>>
        <4> DEFINE w == Walked(from)
        <4>1. w \in Seq(Node) /\ out = Written(w)
          BY <3>2
        <4> HIDE DEF w
        <4>2. Len(out) = 2 * Len(w) + 4
          BY <4>1, WrittenIs
        <4>3. Len(w) \in Nat
          BY <4>1
        <4> QED BY <4>2, <4>3
      <3> HIDE DEF nodes
      <3>4. /\ {Walked(from)[k] : k \in DOMAIN Walked(from)} = Located \cap ({n \in Node : answer[n]} \cup {Start})
            /\ \A j, k \in DOMAIN Walked(from) : Walked(from)[j] = Walked(from)[k] /\ j # k => Walked(from)[j] = Start
            /\ Cardinality({k \in DOMAIN Walked(from) : Walked(from)[k] = Start}) <= 2
        BY <1>1, <2>2, <3>1, WrittenAtEnd
      <3>5. ToSet(nodes) = {Walked(from)[k] : k \in DOMAIN Walked(from)}
        BY <3>3 DEF ToSet
      <3> QED BY <3>3, <3>4, <3>5, <3>e
    <2> QED BY <2>1, <2>2 DEF PublishedComplete
  <1> QED BY <1>1, PublishHolds, PTL
=============================================================================
