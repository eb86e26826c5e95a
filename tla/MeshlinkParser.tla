---------------------------- MODULE MeshlinkParser ----------------------------
(***************************************************************************)
(* The parser of meshlink's files, internal/services/meshlink/parser.go,   *)
(* called by every page that shows hosts (babel.go, aredn_compat.go), from *)
(* any number of HTTP goroutines at once.  It reads the directories of     *)
(* hosts and of services only if one has changed since the last time, and  *)
(* lets one goroutine parse while the others go on with what there is.     *)
(*                                                                         *)
(* A directory is the time of its last change, and what was parsed is the  *)
(* times of the two directories when they were read, or Missing if a file  *)
(* could not be read: parseHosts goes on without it and returns no error.  *)
(***************************************************************************)
EXTENDS Naturals, FiniteSets

CONSTANTS
    Request,        \* HTTP goroutines
    Again,          \* bound: goroutines that parse again at the same time
    MaxChanges,     \* bound: changes of the files
    MaxFailures     \* bound: walks of a directory and reads of a file that fail

ASSUME ParserAssumption ==
    /\ Request \cap Again = {}
    /\ MaxChanges \in Nat \ {0} /\ MaxFailures \in Nat

VARIABLES
    files,          \* [Dir]: time of the last change
    isParsing, needParse, lastModTime,
    counts,         \* nodesCount and totalCount: the hosts they were counted in
    currentHosts,   \* [Dir]: what the hosts and their services were read from
    serviceCount,   \* the services it was counted in
    at,             \* where each goroutine is
    newest,         \* latestModTime, as far as it was computed
    read,           \* [Dir]: what parseHosts has read
    forked,         \* goroutines to parse again that have not begun
    failures,
    overlap         \* ghost: have two goroutines parsed at the same time?

flags == <<isParsing, needParse, lastModTime>>
published == <<counts, currentHosts, serviceCount>>
vars == <<files, flags, published, at, newest, read, forked, failures, overlap>>

Dir == {"hosts", "services"}
Goroutine == Request \cup Again

\* From the call of Parse to its return.
Stage == {"idle", "statHosts", "statServices", "compare", "enter", "defer", "set",
          "readHosts", "readServices", "setCounts", "setHosts", "setServices", "setLast",
          "again", "leave"}

\* Between isParsing.Store(true) and its deferred counterpart.
Inside == {"readHosts", "readServices", "setCounts", "setHosts", "setServices", "setLast",
           "again", "leave"}

Newest(a, b) == IF a > b THEN a ELSE b
Latest == Newest(files["hosts"], files["services"])
Nothing == [d \in Dir |-> 0]

Missing == MaxChanges + 2
Content == 0 .. Missing

TypeOK ==
    /\ files \in [Dir -> 1 .. MaxChanges + 1]
    /\ isParsing \in BOOLEAN /\ needParse \in BOOLEAN
    /\ lastModTime \in 0 .. MaxChanges + 1
    /\ counts \in Content /\ serviceCount \in Content
    /\ currentHosts \in [Dir -> Content]
    /\ at \in [Goroutine -> Stage]
    /\ newest \in [Goroutine -> 0 .. MaxChanges + 1]
    /\ read \in [Goroutine -> [Dir -> Content]]
    /\ forked \in Nat
    /\ failures \in 0 .. MaxFailures
    /\ overlap \in BOOLEAN

Init ==
    /\ files = [d \in Dir |-> 1]
    /\ isParsing = FALSE /\ needParse = FALSE /\ lastModTime = 0
    /\ counts = 0 /\ serviceCount = 0 /\ currentHosts = Nothing
    /\ at = [g \in Goroutine |-> "idle"]
    /\ newest = [g \in Goroutine |-> 0]
    /\ read = [g \in Goroutine |-> Nothing]
    /\ forked = 0 /\ failures = 0 /\ overlap = FALSE

Goto(g, stage) == at' = [at EXCEPT ![g] = stage]

\* Parse returns; its locals are gone.
Return(g) ==
    /\ Goto(g, "idle")
    /\ newest' = [newest EXCEPT ![g] = 0]
    /\ read' = [read EXCEPT ![g] = Nothing]

-----------------------------------------------------------------------------
(* Parse, up to the decision who parses.                                   *)

Call(g) ==
    /\ g \in Request /\ at[g] = "idle"
    /\ Goto(g, "statHosts")
    /\ UNCHANGED <<files, flags, published, newest, read, forked, failures, overlap>>

\* newestModTime, one directory after the other.
StatHosts(g) ==
    /\ at[g] = "statHosts" /\ Goto(g, "statServices")
    /\ newest' = [newest EXCEPT ![g] = files["hosts"]]
    /\ UNCHANGED <<files, flags, published, read, forked, failures, overlap>>

StatServices(g) ==
    /\ at[g] = "statServices" /\ Goto(g, "compare")
    /\ newest' = [newest EXCEPT ![g] = Newest(@, files["services"])]
    /\ UNCHANGED <<files, flags, published, read, forked, failures, overlap>>

\* Nothing has changed since lastModTime: return.  A zero lastModTime is older
\* than every file.
Compare(g) ==
    /\ at[g] = "compare"
    /\ IF newest[g] <= lastModTime THEN Return(g)
       ELSE Goto(g, "enter") /\ UNCHANGED <<newest, read>>
    /\ UNCHANGED <<files, flags, published, forked, failures, overlap>>

\* isParsing.Load; both branches go on with a Store of their own.
Enter(g) ==
    /\ at[g] = "enter"
    /\ Goto(g, IF isParsing THEN "defer" ELSE "set")
    /\ UNCHANGED <<files, flags, published, newest, read, forked, failures, overlap>>

DeferParse(g) ==
    /\ at[g] = "defer" /\ Return(g)
    /\ needParse' = TRUE
    /\ UNCHANGED <<files, isParsing, lastModTime, published, forked, failures, overlap>>

SetParsing(g) ==
    /\ at[g] = "set" /\ Goto(g, "readHosts")
    /\ isParsing' = TRUE
    /\ overlap' = (overlap \/ \E k \in Goroutine : at[k] \in Inside)
    /\ UNCHANGED <<files, needParse, lastModTime, published, newest, read, forked, failures>>

-----------------------------------------------------------------------------
(* parseHosts: the file of each host, and the services of that host.       *)

\* os.ReadFile gives the file, or fails, and the error is logged.
ReadHosts(g) ==
    /\ at[g] = "readHosts" /\ Goto(g, "readServices")
    /\ \/ read' = [read EXCEPT ![g]["hosts"] = files["hosts"]] /\ UNCHANGED failures
       \/ /\ failures < MaxFailures /\ failures' = failures + 1
          /\ read' = [read EXCEPT ![g]["hosts"] = Missing]
    /\ UNCHANGED <<files, flags, published, newest, forked, overlap>>

\* Likewise for the services, whose error is not even logged.  Those of a host
\* whose own file is missing are not looked for.
ReadServices(g) ==
    /\ at[g] = "readServices" /\ Goto(g, "setCounts")
    /\ \/ /\ read[g]["hosts"] # Missing
          /\ read' = [read EXCEPT ![g]["services"] = files["services"]]
          /\ UNCHANGED failures
       \/ /\ read[g]["hosts"] # Missing
          /\ failures < MaxFailures /\ failures' = failures + 1
          /\ read' = [read EXCEPT ![g]["services"] = Missing]
       \/ /\ read[g]["hosts"] = Missing
          /\ read' = [read EXCEPT ![g]["services"] = Missing]
          /\ UNCHANGED failures
    /\ UNCHANGED <<files, flags, published, newest, forked, overlap>>

\* Variant: an error of parseHosts returns without clearing isParsing.
FailStuck(g) ==
    /\ failures < MaxFailures /\ failures' = failures + 1
    /\ at[g] \in {"statHosts", "statServices", "readHosts"} /\ Return(g)
    /\ UNCHANGED <<files, flags, published, forked, overlap>>

\* A walk fails: an error return, which clears isParsing if it was set.
Fail(g) ==
    /\ failures < MaxFailures /\ failures' = failures + 1
    /\ \/ at[g] \in {"statHosts", "statServices"} /\ Return(g)
       \/ at[g] = "readHosts" /\ Goto(g, "leave") /\ UNCHANGED <<newest, read>>
    /\ UNCHANGED <<files, flags, published, forked, overlap>>

SetCounts(g) ==
    /\ at[g] = "setCounts" /\ Goto(g, "setHosts")
    /\ counts' = read[g]["hosts"]
    /\ UNCHANGED <<files, flags, currentHosts, serviceCount, newest, read, forked, failures, overlap>>

SetHosts(g) ==
    /\ at[g] = "setHosts" /\ Goto(g, "setServices")
    /\ currentHosts' = read[g]
    /\ UNCHANGED <<files, flags, counts, serviceCount, newest, read, forked, failures, overlap>>

SetServices(g) ==
    /\ at[g] = "setServices" /\ Goto(g, "setLast")
    /\ serviceCount' = read[g]["services"]
    /\ UNCHANGED <<files, flags, counts, currentHosts, newest, read, forked, failures, overlap>>

\* Variant: the time is taken when the parse has ended.
SetLastNow(g) ==
    /\ at[g] = "setLast" /\ Goto(g, "again")
    /\ lastModTime' = Latest
    /\ UNCHANGED <<files, isParsing, needParse, published, newest, read, forked, failures, overlap>>

\* lastModTime is the time found before the files were read.
SetLast(g) ==
    /\ at[g] = "setLast" /\ Goto(g, "again")
    /\ lastModTime' = newest[g]
    /\ UNCHANGED <<files, isParsing, needParse, published, newest, read, forked, failures, overlap>>

\* needParse.Load, and a goroutine that clears it and calls Parse; it may be
\* there before isParsing is cleared.
ParseAgain(g) ==
    /\ at[g] = "again" /\ Goto(g, "leave")
    /\ forked' = IF needParse THEN forked + 1 ELSE forked
    /\ UNCHANGED <<files, flags, published, newest, read, failures, overlap>>

Forked(g) ==
    /\ g \in Again /\ at[g] = "idle" /\ Goto(g, "statHosts")
    /\ forked > 0 /\ forked' = forked - 1
    /\ needParse' = FALSE
    /\ UNCHANGED <<files, isParsing, lastModTime, published, newest, read, failures, overlap>>

\* Variant: the goroutine that has parsed does not clear isParsing.
LeaveSet(g) ==
    /\ at[g] = "leave" /\ Return(g)
    /\ UNCHANGED <<files, flags, published, forked, failures, overlap>>

\* The deferred isParsing.Store(false).
Leave(g) ==
    /\ at[g] = "leave" /\ Return(g)
    /\ isParsing' = FALSE
    /\ UNCHANGED <<files, needParse, lastModTime, published, forked, failures, overlap>>

-----------------------------------------------------------------------------

\* meshlink writes a file; its time is later than all before.
Change(d) ==
    /\ Latest <= MaxChanges
    /\ files' = [files EXCEPT ![d] = Latest + 1]
    /\ UNCHANGED <<flags, published, at, newest, read, forked, failures, overlap>>

\* The steps a goroutine goes on with by itself.
Parse(g) ==
    \/ StatHosts(g) \/ StatServices(g) \/ Compare(g) \/ Enter(g) \/ DeferParse(g) \/ SetParsing(g)
    \/ ReadHosts(g) \/ ReadServices(g)
    \/ SetCounts(g) \/ SetHosts(g) \/ SetServices(g) \/ SetLast(g)
    \/ ParseAgain(g) \/ Forked(g) \/ Leave(g)

Next ==
    \/ \E g \in Goroutine : Call(g) \/ Parse(g) \/ Fail(g)
    \/ \E d \in Dir : Change(d)

Spec == Init /\ [][Next]_vars

\* Goroutines are scheduled.
FairSpec == Spec /\ \A g \in Goroutine : WF_vars(Parse(g))

\* Moreover, pages go on being requested.
PolledSpec == FairSpec /\ WF_vars(\E g \in Request : Call(g))

-----------------------------------------------------------------------------
(* Properties                                                              *)

\* FlagHeld: while no two goroutines have parsed at once, isParsing says exactly
\* that one is parsing, after errors as well; it is never left set when no one is
\* there to clear it (Parse, its deferred Store).
FlagHeld ==
    /\ isParsing => \E g \in Goroutine : at[g] \in Inside
    /\ ~overlap => \A g \in Goroutine : at[g] \in Inside => isParsing

\* NoLostChange: while no two goroutines have parsed at once, a change of the
\* files that lastModTime covers, which the next page skips as old, is in what is
\* published, unless the very parse that published it could not read a file: that
\* error is swallowed and the time stored all the same.  And what is published fits
\* together whenever no one is writing it (Parse, parseHosts).
NoLostChange ==
    ~overlap =>
        /\ \A d \in Dir : files[d] <= lastModTime => currentHosts[d] \in {files[d], Missing}
        /\ (\A g \in Goroutine : at[g] \notin {"setHosts", "setServices"}) =>
              counts = currentHosts["hosts"] /\ serviceCount = currentHosts["services"]

\* PagesCatchUp: once the files stay as they are, the hosts shown come to be
\* theirs, as long as pages are requested and no two goroutines have parsed at
\* once, whatever re-parses were lost on the way.  Only what the last parse could
\* not read stays missing, and it does so until a file changes again (Parse).
PagesCatchUp == []~overlap => <>[](\A d \in Dir : currentHosts[d] \in {files[d], Missing})
=============================================================================
