------------------------ MODULE MeshlinkParserProofs ------------------------
(***************************************************************************)
(* Proofs about MeshlinkParser for any number of requests, of changes of   *)
(* the files and of failures.                                              *)
(***************************************************************************)
EXTENDS MeshlinkParser, TLAPS

USE ParserAssumption
USE DEF vars, flags, published

-----------------------------------------------------------------------------
(* Types.                                                                  *)

Times == 0 .. MaxChanges + 1

LEMMA ContentType ==
  /\ Missing \in Content /\ 0 \in Content
  /\ \A t \in Times : t \in Content /\ t # Missing
  /\ \A t \in 1 .. MaxChanges + 1 : t \in Times
  BY DEF Missing, Content, Times

LEMMA InitType == Init => TypeOK
  <1> SUFFICES ASSUME Init PROVE TypeOK
    OBVIOUS
  <1>1. 0 \in Times /\ 1 \in 1 .. MaxChanges + 1 /\ 0 \in 0 .. MaxFailures
    BY DEF Times
  <1>2. files \in [Dir -> 1 .. MaxChanges + 1] /\ currentHosts \in [Dir -> Content]
    BY <1>1, ContentType DEF Init, Nothing
  <1>3. newest \in [Goroutine -> Times] /\ read \in [Goroutine -> [Dir -> Content]]
    BY <1>1, ContentType DEF Init, Nothing
  <1>4. at \in [Goroutine -> Stage]
    BY DEF Init, Stage
  <1> QED BY <1>1, <1>2, <1>3, <1>4, ContentType DEF Init, TypeOK, Times

LEMMA ReturnType ==
  ASSUME TypeOK, NEW g \in Goroutine, Return(g)
  PROVE  at' \in [Goroutine -> Stage] /\ newest' \in [Goroutine -> Times]
         /\ read' \in [Goroutine -> [Dir -> Content]]
  BY ContentType DEF TypeOK, Return, Goto, Stage, Nothing, Times

\* Parse up to the decision who parses.
LEMMA EnterType ==
  ASSUME TypeOK, NEW g \in Goroutine,
         \/ Call(g) \/ StatHosts(g) \/ StatServices(g) \/ Compare(g) \/ Enter(g)
         \/ DeferParse(g) \/ SetParsing(g) \/ Forked(g)
  PROVE  TypeOK'
  <1>1. CASE Call(g)
    BY <1>1 DEF Call, TypeOK, Goto, Stage
  <1>2. CASE StatHosts(g)
    BY <1>2 DEF StatHosts, TypeOK, Goto, Stage, Dir
  <1>3. CASE StatServices(g)
    BY <1>3 DEF StatServices, TypeOK, Goto, Stage, Dir, Newest
  <1>4. CASE Compare(g)
    <2>1. CASE Return(g)
      BY <1>4, <2>1, ReturnType DEF Compare, TypeOK, Times
    <2>2. CASE ~Return(g)
      BY <1>4, <2>2 DEF Compare, TypeOK, Goto, Stage
    <2> QED BY <2>1, <2>2
  <1>5. CASE Enter(g)
    BY <1>5 DEF Enter, TypeOK, Goto, Stage
  <1>6. CASE DeferParse(g)
    BY <1>6, ReturnType DEF DeferParse, TypeOK, Times
  <1>7. CASE SetParsing(g)
    <2>1. overlap' \in BOOLEAN
      BY <1>7, Zenon DEF SetParsing
    <2> QED BY <1>7, <2>1 DEF SetParsing, TypeOK, Goto, Stage
  <1>8. CASE Forked(g)
    <2>1. forked' \in Nat
      BY <1>8 DEF Forked, TypeOK
    <2>2. at' \in [Goroutine -> Stage]
      BY <1>8 DEF Forked, TypeOK, Goto, Stage
    <2> QED BY <1>8, <2>1, <2>2 DEF Forked, TypeOK
  <1> QED BY <1>1, <1>2, <1>3, <1>4, <1>5, <1>6, <1>7, <1>8

\* The steps of the goroutine that parses.
LEMMA InsideType ==
  ASSUME TypeOK, NEW g \in Goroutine,
         \/ ReadHosts(g) \/ ReadServices(g) \/ SetCounts(g) \/ SetHosts(g) \/ SetServices(g)
         \/ SetLast(g) \/ ParseAgain(g) \/ Leave(g) \/ Fail(g)
  PROVE  TypeOK'
  <1>0. "hosts" \in Dir /\ "services" \in Dir
    BY DEF Dir
  <1>1. CASE ReadHosts(g) \/ ReadServices(g)
    <2>1. PICK d \in Dir : read' = [read EXCEPT ![g][d] = files[d]] \/ read' = [read EXCEPT ![g][d] = Missing]
      BY <1>0, <1>1 DEF ReadHosts, ReadServices
    <2>2. files[d] \in Content /\ Missing \in Content
      BY ContentType DEF TypeOK
    <2>3. read' \in [Goroutine -> [Dir -> Content]]
      BY <2>1, <2>2 DEF TypeOK
    <2>4. failures' \in 0 .. MaxFailures
      BY <1>1 DEF ReadHosts, ReadServices, TypeOK
    <2>5. at' \in [Goroutine -> Stage]
      BY <1>1 DEF ReadHosts, ReadServices, TypeOK, Goto, Stage
    <2> QED BY <1>1, <2>3, <2>4, <2>5 DEF ReadHosts, ReadServices, TypeOK
  <1>3. CASE SetCounts(g)
    BY <1>0, <1>3 DEF SetCounts, TypeOK, Goto, Stage
  <1>4. CASE SetHosts(g)
    BY <1>4 DEF SetHosts, TypeOK, Goto, Stage
  <1>5. CASE SetServices(g)
    BY <1>0, <1>5 DEF SetServices, TypeOK, Goto, Stage
  <1>6. CASE SetLast(g)
    BY <1>6 DEF SetLast, TypeOK, Goto, Stage
  <1>7. CASE ParseAgain(g)
    BY <1>7 DEF ParseAgain, TypeOK, Goto, Stage
  <1>8. CASE Leave(g)
    BY <1>8, ReturnType DEF Leave, TypeOK, Times
  <1>9. CASE Fail(g)
    <2>1. CASE Return(g)
      BY <1>9, <2>1, ReturnType DEF Fail, TypeOK, Times
    <2>2. CASE ~Return(g)
      BY <1>9, <2>2 DEF Fail, TypeOK, Goto, Stage
    <2> QED BY <2>1, <2>2
  <1> QED BY <1>1, <1>3, <1>4, <1>5, <1>6, <1>7, <1>8, <1>9

LEMMA ChangeType == ASSUME TypeOK, NEW d \in Dir, Change(d) PROVE TypeOK'
  BY DEF TypeOK, Change, Latest, Newest, Dir

LEMMA NextType == TypeOK /\ [Next]_vars => TypeOK'
  <1> SUFFICES ASSUME TypeOK, [Next]_vars PROVE TypeOK'
    OBVIOUS
  <1>1. ASSUME NEW g \in Goroutine, Call(g) \/ Parse(g) \/ Fail(g) PROVE TypeOK'
    BY <1>1, EnterType, InsideType DEF Parse
  <1>2. ASSUME NEW d \in Dir, Change(d) PROVE TypeOK'
    BY <1>2, ChangeType
  <1>3. CASE UNCHANGED vars
    BY <1>3 DEF TypeOK
  <1> QED BY <1>1, <1>2, <1>3 DEF Next

\* Types: every variable of the parser keeps to its type (Parse).
THEOREM Types == Spec => []TypeOK
  BY InitType, NextType, PTL DEF Spec

-----------------------------------------------------------------------------
(* isParsing.                                                              *)

\* As long as no two have parsed at once, one parses at a time.
OneInside ==
    ~overlap => \A g, k \in Goroutine : at[g] \in Inside /\ at[k] \in Inside => g = k

FlagInv == TypeOK /\ FlagHeld /\ OneInside

\* A goroutine that moves neither in nor out.
LEMMA FlagMove ==
  ASSUME FlagInv, TypeOK', NEW g \in Goroutine, NEW to, Goto(g, to),
         UNCHANGED <<isParsing, overlap>>, at[g] \in Inside <=> to \in Inside
  PROVE  FlagInv'
  <1>1. \A k \in Goroutine : at'[k] \in Inside <=> at[k] \in Inside
    BY DEF FlagInv, TypeOK, Goto
  <1>2. FlagHeld'
    BY <1>1 DEF FlagInv, FlagHeld
  <1>3. OneInside'
    BY <1>1 DEF FlagInv, OneInside
  <1> QED BY <1>2, <1>3 DEF FlagInv

LEMMA EnterFlag ==
  ASSUME FlagInv, TypeOK', NEW g \in Goroutine,
         Call(g) \/ StatHosts(g) \/ StatServices(g) \/ Compare(g) \/ Enter(g) \/ DeferParse(g) \/ Forked(g)
  PROVE  FlagInv'
  <1>1. at[g] \notin Inside /\ UNCHANGED <<isParsing, overlap>>
    BY DEF Call, StatHosts, StatServices, Compare, Enter, DeferParse, Forked, Inside
  <1>2. \E to \in {"idle", "statHosts", "statServices", "compare", "enter", "defer", "set"} : Goto(g, to)
    BY DEF Call, StatHosts, StatServices, Compare, Enter, DeferParse, Forked, Return
  <1> QED BY <1>1, <1>2, FlagMove DEF Inside

LEMMA SetParsingFlag == ASSUME FlagInv, TypeOK', NEW g \in Goroutine, SetParsing(g) PROVE FlagInv'
  <1>1. \A k \in Goroutine : at'[k] \in Inside <=> (k = g \/ at[k] \in Inside)
    BY DEF FlagInv, TypeOK, SetParsing, Goto, Inside
  <1>2. isParsing' = TRUE /\ (~overlap' => \A k \in Goroutine : at[k] \notin Inside)
    BY DEF SetParsing
  <1>3. FlagHeld'
    BY <1>1, <1>2 DEF FlagHeld
  <1>4. OneInside'
    BY <1>1, <1>2 DEF OneInside
  <1> QED BY <1>3, <1>4 DEF FlagInv

LEMMA InsideFlag ==
  ASSUME FlagInv, TypeOK', NEW g \in Goroutine,
         \/ ReadHosts(g) \/ ReadServices(g) \/ SetCounts(g) \/ SetHosts(g) \/ SetServices(g)
         \/ SetLast(g) \/ ParseAgain(g) \/ Fail(g)
  PROVE  FlagInv'
  <1>1. UNCHANGED <<isParsing, overlap>>
    BY DEF ReadHosts, ReadServices, SetCounts, SetHosts, SetServices, SetLast, ParseAgain, Fail
  <1>2. \E to \in Inside \cup {"idle"} : Goto(g, to) /\ (at[g] \in Inside <=> to \in Inside)
    BY DEF ReadHosts, ReadServices, SetCounts, SetHosts, SetServices, SetLast, ParseAgain, Fail, Return, Inside
  <1> QED BY <1>1, <1>2, FlagMove

LEMMA LeaveFlag == ASSUME FlagInv, TypeOK', NEW g \in Goroutine, Leave(g) PROVE FlagInv'
  <1>1. \A k \in Goroutine : at'[k] \in Inside <=> (k # g /\ at[k] \in Inside)
    BY DEF FlagInv, TypeOK, Leave, Return, Goto, Inside
  <1>2. isParsing' = FALSE /\ overlap' = overlap /\ at[g] \in Inside
    BY DEF Leave, Inside
  <1>3. FlagHeld'
    BY <1>1, <1>2 DEF FlagHeld, FlagInv, OneInside
  <1>4. OneInside'
    BY <1>1, <1>2 DEF OneInside, FlagInv
  <1> QED BY <1>3, <1>4 DEF FlagInv

LEMMA FlagFrame == ASSUME FlagInv, TypeOK', UNCHANGED <<at, isParsing, overlap>> PROVE FlagInv'
  BY DEF FlagInv, FlagHeld, OneInside

LEMMA NextFlag == FlagInv /\ [Next]_vars => FlagInv'
  <1> SUFFICES ASSUME FlagInv, [Next]_vars PROVE FlagInv'
    OBVIOUS
  <1>0. TypeOK'
    BY NextType DEF FlagInv
  <1>1. ASSUME NEW g \in Goroutine, Call(g) \/ Parse(g) \/ Fail(g) PROVE FlagInv'
    BY <1>0, <1>1, EnterFlag, SetParsingFlag, InsideFlag, LeaveFlag DEF Parse
  <1>2. ASSUME NEW d \in Dir, Change(d) PROVE FlagInv'
    BY <1>0, <1>2, FlagFrame DEF Change
  <1>3. CASE UNCHANGED vars
    BY <1>0, <1>3, FlagFrame
  <1> QED BY <1>1, <1>2, <1>3 DEF Next

LEMMA FlagInvHolds == Spec => []FlagInv
  <1>1. Init => FlagInv
    BY InitType DEF Init, FlagInv, FlagHeld, OneInside, Inside
  <1> QED BY <1>1, NextFlag, PTL DEF Spec

\* Flag: for any number of requests, isParsing is never left set with nobody to
\* clear it, after errors as well, and as long as no two goroutines have parsed at
\* once it is set whenever one parses (Parse).
THEOREM Flag == Spec => []FlagHeld
  BY FlagInvHolds, PTL DEF FlagInv

-----------------------------------------------------------------------------
(* What is published.                                                      *)

\* No time that was found is later than the last change.
NotLater == lastModTime <= Latest /\ \A g \in Goroutine : newest[g] <= Latest

HaveHosts == {"readServices", "setCounts", "setHosts", "setServices", "setLast"}
HaveServices == {"setCounts", "setHosts", "setServices", "setLast"}

\* What g has read of a directory is what is there, or lacks a file it could not
\* read, unless it has changed after both the time g has found and lastModTime.
Holds(g, d) ==
    files[d] <= newest[g] \/ files[d] <= lastModTime => read[g][d] \in {files[d], Missing}

ReadsHold ==
    \A g \in Goroutine :
        /\ at[g] \in HaveHosts => Holds(g, "hosts")
        /\ at[g] \in HaveServices => Holds(g, "services")

\* The steps in which a goroutine publishes what it has read.
Writing ==
    \A g \in Goroutine :
        /\ at[g] \in {"setHosts", "setServices"} => counts = read[g]["hosts"]
        /\ at[g] \in {"setServices", "setLast"} => currentHosts = read[g]

Covered == \A d \in Dir : files[d] <= lastModTime => currentHosts[d] \in {files[d], Missing}

Together ==
    (\A g \in Goroutine : at[g] \notin {"setHosts", "setServices"}) =>
        counts = currentHosts["hosts"] /\ serviceCount = currentHosts["services"]

Fits == ReadsHold /\ Writing /\ Covered /\ Together

ChangeInv == FlagInv /\ NotLater /\ (~overlap => Fits)

LEMMA ChangeInvImplies == ChangeInv => NoLostChange
  BY DEF ChangeInv, Fits, Covered, Together, NoLostChange

LEMMA LatestType == ASSUME TypeOK PROVE Latest \in Nat /\ \A d \in Dir : files[d] \in Nat /\ files[d] <= Latest
  BY DEF TypeOK, Latest, Newest, Dir

\* A step that leaves the files alone and finds no time of its own.
LEMMA NotLaterFrame ==
  ASSUME NotLater, UNCHANGED files, lastModTime' = lastModTime,
         \A k \in Goroutine : newest'[k] = newest[k] \/ newest'[k] = 0, TypeOK
  PROVE  NotLater'
  BY LatestType DEF NotLater, Latest

\* The steps before isParsing is set, and the last one: what is published stays.
LEMMA OutsideFits ==
  ASSUME TypeOK, Fits, NEW g \in Goroutine, NEW to, Goto(g, to),
         UNCHANGED <<files, lastModTime, published>>,
         to \notin HaveHosts, at[g] \notin {"setHosts", "setServices"},
         \A k \in Goroutine \ {g} : newest'[k] = newest[k] /\ read'[k] = read[k]
  PROVE  Fits'
  <1>1. \A k \in Goroutine : at'[k] = IF k = g THEN to ELSE at[k]
    BY DEF TypeOK, Goto
  <1>2. ReadsHold' /\ Writing'
    BY <1>1 DEF Fits, ReadsHold, Writing, Holds, HaveHosts, HaveServices
  <1>3. Covered' /\ Together'
    BY <1>1 DEF Fits, Covered, Together, HaveHosts
  <1> QED BY <1>2, <1>3 DEF Fits

LEMMA OutsideChange ==
  ASSUME ChangeInv, FlagInv', NEW g \in Goroutine,
         \/ Call(g) \/ StatHosts(g) \/ StatServices(g) \/ Compare(g) \/ Enter(g) \/ DeferParse(g)
         \/ SetParsing(g) \/ Forked(g) \/ ParseAgain(g) \/ Leave(g) \/ Fail(g)
  PROVE  ChangeInv'
  <1>0. TypeOK /\ TypeOK'
    BY DEF ChangeInv, FlagInv
  <1> USE DEF Call, StatHosts, StatServices, Compare, Enter, DeferParse, SetParsing, Forked, ParseAgain, Leave, Fail
  <1>1. UNCHANGED <<files, lastModTime, published>>
    OBVIOUS
  <1>a. ~overlap' => ~overlap
    BY Zenon
  <1>2. \E to \in {"idle", "statHosts", "statServices", "compare", "enter", "defer", "set", "readHosts", "leave"} :
          Goto(g, to)
    BY DEF Return
  <1>3. at[g] \notin {"setHosts", "setServices"}
    OBVIOUS
  <1>4. \A k \in Goroutine \ {g} : newest'[k] = newest[k] /\ read'[k] = read[k]
    BY <1>0 DEF TypeOK, Return
  <1>5. NotLater'
    <2>1. newest'[g] \in {newest[g], 0, files["hosts"], Newest(newest[g], files["services"])}
      BY <1>0 DEF TypeOK, Return
    <2>2. newest[g] \in Nat /\ newest[g] <= Latest /\ lastModTime <= Latest
          /\ \A k \in Goroutine : newest[k] <= Latest
      BY <1>0 DEF ChangeInv, NotLater, TypeOK
    <2>3. newest'[g] <= Latest
      BY <1>0, <2>1, <2>2, LatestType DEF Newest, Dir
    <2>4. Latest' = Latest
      BY <1>1 DEF Latest
    <2> QED BY <1>1, <1>4, <2>2, <2>3, <2>4 DEF NotLater
  <1>6. ASSUME ~overlap' PROVE Fits'
    <2>1. Fits
      BY <1>a, <1>6 DEF ChangeInv
    <2> HIDE DEF Call, StatHosts, StatServices, Compare, Enter, DeferParse, SetParsing, Forked, ParseAgain, Leave, Fail
    <2> QED BY <1>0, <1>1, <1>2, <1>3, <1>4, <2>1, OutsideFits DEF HaveHosts
  <1> QED BY <1>5, <1>6 DEF ChangeInv

LEMMA InsideChange ==
  ASSUME ChangeInv, FlagInv', NEW g \in Goroutine,
         ReadHosts(g) \/ ReadServices(g) \/ SetCounts(g) \/ SetHosts(g) \/ SetServices(g) \/ SetLast(g)
  PROVE  ChangeInv'
  <1>0. TypeOK /\ UNCHANGED <<files, newest, overlap>> /\ "hosts" \in Dir /\ "services" \in Dir
    BY DEF ChangeInv, FlagInv, ReadHosts, ReadServices, SetCounts, SetHosts, SetServices, SetLast, Dir
  <1>1. NotLater'
    <2>1. lastModTime' \in {lastModTime, newest[g]}
      BY DEF ReadHosts, ReadServices, SetCounts, SetHosts, SetServices, SetLast
    <2> QED BY <1>0, <2>1 DEF ChangeInv, NotLater, Latest
  <1> SUFFICES ASSUME ~overlap PROVE Fits'
    BY <1>0, <1>1 DEF ChangeInv
  <1>2. Fits /\ at[g] \in Inside /\ \A k \in Goroutine \ {g} : at[k] \notin Inside
    BY DEF ChangeInv, FlagInv, OneInside, ReadHosts, ReadServices, SetCounts, SetHosts, SetServices, SetLast, Inside
  <1> USE DEF Fits, ReadsHold, Writing, Covered, Together, Holds, HaveHosts, HaveServices, TypeOK, Goto, Inside
  <1>a. at[g] \in HaveServices => \A d \in Dir : Holds(g, d)
    BY <1>2 DEF Dir
  <1>3. CASE ReadHosts(g)
    BY <1>0, <1>2, <1>3 DEF ReadHosts
  <1>4. CASE ReadServices(g)
    BY <1>0, <1>2, <1>4 DEF ReadServices
  <1>5. CASE SetCounts(g)
    BY <1>0, <1>2, <1>5 DEF SetCounts
  <1>6. CASE SetHosts(g)
    BY <1>0, <1>a, <1>2, <1>6 DEF SetHosts
  <1>7. CASE SetServices(g)
    BY <1>0, <1>2, <1>7 DEF SetServices
  <1>8. CASE SetLast(g)
    BY <1>0, <1>a, <1>2, <1>8 DEF SetLast
  <1> QED BY <1>3, <1>4, <1>5, <1>6, <1>7, <1>8

\* A file that changes gets a time after all that were found.
LEMMA FilesChange == ASSUME ChangeInv, FlagInv', NEW d \in Dir, Change(d) PROVE ChangeInv'
  <1>0. TypeOK /\ UNCHANGED <<flags, published, at, newest, read, overlap>>
    BY DEF ChangeInv, FlagInv, Change
  <1>1. files'[d] = Latest + 1 /\ \A e \in Dir \ {d} : files'[e] = files[e]
    BY <1>0 DEF Change, TypeOK
  <1>2. Latest \in Nat /\ Latest' = Latest + 1
    BY <1>0, <1>1, LatestType DEF Latest, Newest, Dir
  <1>3. /\ lastModTime \in Nat /\ lastModTime <= Latest
        /\ \A g \in Goroutine : newest[g] \in Nat /\ newest[g] <= Latest
    BY <1>0 DEF ChangeInv, NotLater, TypeOK
  <1>4. NotLater'
    BY <1>0, <1>2, <1>3 DEF NotLater
  <1>5. ASSUME ~overlap' PROVE Fits'
    <2>1. Fits
      BY <1>0, <1>5 DEF ChangeInv
    <2>2. ReadsHold'
      BY <1>0, <1>1, <1>2, <1>3, <2>1 DEF Fits, ReadsHold, Holds, Dir
    <2>3. Covered'
      BY <1>0, <1>1, <1>2, <1>3, <2>1 DEF Fits, Covered
    <2>4. Writing' /\ Together'
      BY <1>0, <2>1 DEF Fits, Writing, Together
    <2> QED BY <2>2, <2>3, <2>4 DEF Fits
  <1> QED BY <1>4, <1>5 DEF ChangeInv

LEMMA NextChange == ChangeInv /\ [Next]_vars => ChangeInv'
  <1> SUFFICES ASSUME ChangeInv, [Next]_vars PROVE ChangeInv'
    OBVIOUS
  <1>0. FlagInv'
    BY NextFlag DEF ChangeInv
  <1>1. ASSUME NEW g \in Goroutine, Call(g) \/ Parse(g) \/ Fail(g) PROVE ChangeInv'
    BY <1>0, <1>1, OutsideChange, InsideChange DEF Parse
  <1>2. ASSUME NEW d \in Dir, Change(d) PROVE ChangeInv'
    BY <1>0, <1>2, FilesChange
  <1>3. CASE UNCHANGED vars
    BY <1>0, <1>3 DEF ChangeInv, NotLater, Latest, Fits, ReadsHold, Holds, Writing, Covered, Together
  <1> QED BY <1>1, <1>2, <1>3 DEF Next

LEMMA InitChange == Init => ChangeInv
  <1> SUFFICES ASSUME Init PROVE ChangeInv
    OBVIOUS
  <1>1. FlagInv
    BY InitType DEF Init, FlagInv, FlagHeld, OneInside, Inside
  <1>2. NotLater
    BY DEF Init, NotLater, Latest, Newest, Dir
  <1>3. Fits
    BY DEF Init, Fits, ReadsHold, Writing, Covered, Together, HaveHosts, HaveServices, Nothing, Dir
  <1> QED BY <1>1, <1>2, <1>3 DEF ChangeInv

\* Changes: for any number of requests, changes and failures, as long as no two
\* goroutines have parsed at once, a change that lastModTime covers, which the next
\* page skips as old, was published, whole or without a file that the parse which
\* published it could not read (Parse, parseHosts).
THEOREM Changes == Spec => []NoLostChange
  BY InitChange, NextChange, ChangeInvImplies, PTL DEF Spec
=============================================================================
