------------------------ MODULE InterfaceWatcherProofs ------------------------
(***************************************************************************)
(* Proofs about InterfaceWatcher for any tunnels, any number of watched    *)
(* interfaces and of counters that overlap, with or without failures.      *)
(***************************************************************************)
EXTENDS InterfaceWatcher, SequenceTheorems, TLAPS

USE DEF vars, env, watcher, counting

LEMMA ConstantTypes ==
    /\ NoTunnel \notin Tunnel /\ Slot \subseteq Nat /\ 0 \notin Slot
    /\ MaxIndex \in Nat /\ MaxIndex > 0
  BY WatcherAssumption

-----------------------------------------------------------------------------
(* Sequences of entries, as the loops see them.                            *)

LEMMA EntrySeq ==
  ASSUME NEW s \in Seq(Entry)
  PROVE  /\ Len(s) \in Nat /\ DOMAIN s = 1 .. Len(s)
         /\ \A k \in 1 .. Len(s) : s[k] \in Entry /\ s[k].t \in Tunnel
  <1>1. Len(s) \in Nat /\ DOMAIN s = 1 .. Len(s)
    BY LenProperties
  <1>2. \A k \in 1 .. Len(s) : s[k] \in Entry
    BY ElementOfSeq
  <1>3. \A e \in Entry : e.t \in Tunnel
    BY DEF Entry
  <1> QED BY <1>1, <1>2, <1>3

LEMMA AppendEntry ==
  ASSUME NEW s \in Seq(Entry), NEW e \in Entry
  PROVE  /\ Append(s, e) \in Seq(Entry) /\ Len(Append(s, e)) = Len(s) + 1
         /\ Append(s, e)[Len(s) + 1] = e
         /\ \A k \in 1 .. Len(s) : Append(s, e)[k] = s[k]
  BY AppendProperties

\* w.interfaces is the front of the array behind it.
LEMMA Front ==
  ASSUME backing \in Seq(Entry), len \in 0 .. Len(backing)
  PROVE  /\ interfaces \in Seq(Entry) /\ Len(interfaces) = len
         /\ \A k \in 1 .. len : interfaces[k] = backing[k]
  <1>1. Len(backing) \in Nat /\ \A k \in 1 .. Len(backing) : backing[k] \in Entry
    BY EntrySeq
  <1>2. len \in Int /\ 1 \in Int /\ \A k \in 1 .. len : backing[k] \in Entry
    BY <1>1
  <1>3. /\ SubSeq(backing, 1, len) \in Seq(Entry)
        /\ Len(SubSeq(backing, 1, len)) = IF 1 <= len THEN len - 1 + 1 ELSE 0
        /\ \A k \in 1 .. len - 1 + 1 : SubSeq(backing, 1, len)[k] = backing[1 + k - 1]
    BY <1>2, SubSeqProperties
  <1>4. len \in Nat
    BY <1>1
  <1> QED BY <1>3, <1>4 DEF interfaces

\* What remove leaves in the array: the entries of w.interfaces without the one at
\* k, in order, and behind them entries that were there before.
LEMMA ShiftedEntries ==
  ASSUME backing \in Seq(Entry), len \in 0 .. Len(backing), NEW k \in 1 .. len
  PROVE  /\ Shifted(k) \in Seq(Entry) /\ Len(Shifted(k)) = Len(backing)
         /\ len - 1 \in 0 .. Len(Shifted(k))
         /\ \A j \in 1 .. len - 1 : Shifted(k)[j] = IF j < k THEN backing[j] ELSE backing[j + 1]
         /\ \A j \in 1 .. Len(backing) : \E i \in 1 .. Len(backing) : Shifted(k)[j] = backing[i]
  <1>1. Len(backing) \in Nat /\ \A j \in 1 .. Len(backing) : backing[j] \in Entry
    BY EntrySeq
  <1>2. len \in Nat /\ len <= Len(backing) /\ k \in Nat /\ k <= len /\ k >= 1
    BY <1>1
  <1> DEFINE n == Len(backing)
             f == [j \in 1 .. n |-> IF k <= j /\ j < len THEN backing[j + 1] ELSE backing[j]]
  <1>3. \A j \in 1 .. n : f[j] = IF k <= j /\ j < len THEN backing[j + 1] ELSE backing[j]
    OBVIOUS
  <1>4. \A j \in 1 .. n : \E i \in 1 .. n : f[j] = backing[i]
    <2> SUFFICES ASSUME NEW j \in 1 .. n PROVE \E i \in 1 .. n : f[j] = backing[i]
      OBVIOUS
    <2>1. CASE k <= j /\ j < len
      <3>1. j + 1 \in 1 .. n
        BY <1>1, <1>2, <2>1
      <3> QED BY <1>3, <2>1, <3>1
    <2>2. CASE ~ (k <= j /\ j < len)
      BY <1>3, <2>2
    <2> QED BY <2>1, <2>2
  <1>5. \A j \in 1 .. n : f[j] \in Entry
    BY <1>1, <1>4
  <1>6. f \in [1 .. n -> Entry]
    BY <1>5
  <1>7. f \in Seq(Entry)
    BY <1>1, <1>6, SeqDef
  <1>8. Len(f) = n
    BY <1>1, <1>6, <1>7, LenProperties
  <1>9. Shifted(k) = f
    BY DEF Shifted
  <1>10. len - 1 \in 0 .. n
    BY <1>1, <1>2
  <1> HIDE DEF f
  <1>11. \A j \in 1 .. len - 1 : f[j] = IF j < k THEN backing[j] ELSE backing[j + 1]
    <2> SUFFICES ASSUME NEW j \in 1 .. len - 1 PROVE f[j] = IF j < k THEN backing[j] ELSE backing[j + 1]
      OBVIOUS
    <2>1. j \in 1 .. n /\ j < len
      BY <1>1, <1>2
    <2> QED BY <1>2, <1>3, <2>1
  <1> QED BY <1>4, <1>7, <1>8, <1>9, <1>10, <1>11

-----------------------------------------------------------------------------
(* Types.                                                                  *)

\* The range loops count from one; outside the sweep the array is w.interfaces;
\* between findTunnel and Stats.Add there is a tunnel.
Shape ==
    /\ pos >= 1
    /\ wpc # "sweep" => len = Len(backing)
    /\ wpc = "add" => found \in Entry

TypeInv == TypeOK /\ Shape

LEMMA InitTypeInv == Init => TypeInv
  <1> SUFFICES ASSUME Init PROVE TypeInv
    OBVIOUS
  <1>1. <<>> \in Seq(Entry) /\ Len(<<>>) = 0
    BY EmptySeq
  <1>2. TypeOK
    BY <1>1, ConstantTypes DEF Init, TypeOK, Row
  <1>3. Shape
    BY <1>1 DEF Init, Shape
  <1> QED BY <1>2, <1>3 DEF TypeInv

LEMMA SaveType ==
  ASSUME row \in [Tunnel -> Row], NEW t \in Tunnel, NEW a \in BOOLEAN, NEW n \in BOOLEAN, Save(t, a, n)
  PROVE  row' \in [Tunnel -> Row]
  <1>1. row' = row \/ row' = [row EXCEPT ![t] = [in |-> TRUE, active |-> a, named |-> n]]
    BY DEF Save
  <1>2. [in |-> TRUE, active |-> a, named |-> n] \in Row
    BY DEF Row
  <1> QED BY <1>1, <1>2

\* Steps that leave the watcher alone.
LEMMA OthersTypeInv ==
  ASSUME TypeInv, Counter \/ OLSRWatcher \/ Environment \/ StopServer
  PROVE  TypeInv' /\ UNCHANGED watcher
  <1>1. ASSUME NEW t \in Tunnel, NEW s \in Slot, CounterLook(t, s) \/ CounterSave(t, s)
        PROVE  TypeInv' /\ UNCHANGED watcher
    <2>1. row' \in [Tunnel -> Row]
      BY <1>1, SaveType DEF CounterLook, CounterSave, TypeInv, TypeOK
    <2>2. loop' \in [Tunnel -> [Slot -> {"off", "sleep", "save"}]]
      <3>1. \E v \in {"off", "sleep", "save"} : loop' = [loop EXCEPT ![t][s] = v]
        BY <1>1 DEF CounterLook, CounterSave, LoopTop
      <3> QED BY <3>1 DEF TypeInv, TypeOK
    <2>3. UNCHANGED <<env, watcher, counters, running, olsr, shutdown>>
      BY <1>1 DEF CounterLook, CounterSave
    <2> QED BY <2>1, <2>2, <2>3 DEF TypeInv, TypeOK, Shape
  <1>2. CASE OlsrSave
    <2>1. olsr \in Tunnel
      BY <1>2 DEF OlsrSave, TypeInv, TypeOK
    <2>2. row' \in [Tunnel -> Row]
      BY <1>2, <2>1, SaveType DEF OlsrSave, TypeInv, TypeOK
    <2> QED BY <1>2, <2>2 DEF OlsrSave, TypeInv, TypeOK, Shape
  <1>3. ASSUME NEW t \in Tunnel, OlsrFind(t) PROVE TypeInv' /\ UNCHANGED watcher
    BY <1>3 DEF OlsrFind, TypeInv, TypeOK, Shape
  <1>4. ASSUME NEW t \in Tunnel, LinkUp(t) PROVE TypeInv' /\ UNCHANGED watcher
    <2>1. made[t] + 1 \in 0 .. MaxIndex
      BY <1>4, ConstantTypes DEF LinkUp, TypeInv, TypeOK
    <2>2. link' \in [Tunnel -> 0 .. MaxIndex] /\ made' \in [Tunnel -> 0 .. MaxIndex]
      BY <1>4, <2>1 DEF LinkUp, TypeInv, TypeOK
    <2> QED BY <1>4, <2>2 DEF LinkUp, TypeInv, TypeOK, Shape
  <1>5. ASSUME NEW t \in Tunnel, LinkDown(t) PROVE TypeInv' /\ UNCHANGED watcher
    <2>1. link' \in [Tunnel -> 0 .. MaxIndex]
      BY <1>5, ConstantTypes DEF LinkDown, TypeInv, TypeOK
    <2> QED BY <1>5, <2>1 DEF LinkDown, TypeInv, TypeOK, Shape
  <1>6. ASSUME NEW t \in Tunnel, Handshake(t) PROVE TypeInv' /\ UNCHANGED watcher
    BY <1>6 DEF Handshake, TypeInv, TypeOK, Shape
  <1>7. ASSUME NEW t \in Tunnel, DeleteRow(t) PROVE TypeInv' /\ UNCHANGED watcher
    BY <1>7 DEF DeleteRow, TypeInv, TypeOK, Shape, Row
  <1>8. CASE StopServer
    <2>1. row' \in [Tunnel -> Row]
      <3>1. row' = row \/ row' = [t \in Tunnel |-> [row[t] EXCEPT !.active = FALSE]]
        BY <1>8 DEF StopServer, Stop
      <3>2. row \in [Tunnel -> Row]
        BY DEF TypeInv, TypeOK
      <3>3. \A r \in Row : [r EXCEPT !.active = FALSE] \in Row
        BY DEF Row
      <3> QED BY <3>1, <3>2, <3>3
    <2>2. running' \in [Tunnel -> [Slot -> BOOLEAN]]
      <3>1. \/ running' = running
            \/ running' = [t \in Tunnel |-> [s \in Slot |-> running[t][s] /\ counters[t] # s]]
        BY <1>8 DEF StopServer, Stop
      <3>2. [t \in Tunnel |-> [s \in Slot |-> running[t][s] /\ counters[t] # s]]
                \in [Tunnel -> [Slot -> BOOLEAN]]
        BY Zenon
      <3> QED BY <3>1, <3>2 DEF TypeInv, TypeOK
    <2>3. shutdown' \in {"no", "stopped", "cleared"} /\ UNCHANGED <<env, watcher, counters, loop, olsr>>
      BY <1>8 DEF StopServer, Stop
    <2> QED BY <2>1, <2>2, <2>3 DEF TypeInv, TypeOK, Shape
  <1> QED BY <1>1, <1>2, <1>3, <1>4, <1>5, <1>6, <1>7, <1>8 DEF Counter, OLSRWatcher, Environment

LEMMA ListTypeInv == ASSUME TypeInv, ListInterfaces PROVE TypeInv'
  <1>1. <<>> \in Seq(Entry) /\ Len(<<>>) = 0
    BY EmptySeq
  <1>2. {[t |-> t, idx |-> link[t]] : t \in {t \in Tunnel : link[t] # 0}} \subseteq Iface
    BY ConstantTypes DEF TypeInv, TypeOK, Iface
  <1>3. seen' \subseteq Iface /\ snap' \subseteq Iface
    BY <1>2 DEF ListInterfaces, TypeInv, TypeOK
  <1> QED BY <1>1, <1>3 DEF ListInterfaces, TypeInv, TypeOK, Shape

LEMMA StatsRemoveType ==
  ASSUME TypeInv, NEW t \in Tunnel, counters[t] # 0, StatsRemove(t)
  PROVE  /\ counters' \in [Tunnel -> Slot \cup {0}]
         /\ running' \in [Tunnel -> [Slot -> BOOLEAN]]
         /\ loop' = loop
  BY DEF StatsRemove, TypeInv, TypeOK

LEMMA SweepTypeInv == ASSUME TypeInv, SweepOne \/ SweepDone PROVE TypeInv'
  <1>0. /\ backing \in Seq(Entry) /\ len \in 0 .. Len(backing) /\ toMark \in Seq(Entry)
        /\ pos \in Nat /\ pos >= 1
    BY DEF TypeInv, TypeOK, Shape
  <1>1. CASE SweepDone
    <2>1. interfaces \in Seq(Entry) /\ Len(interfaces) = len
      BY <1>0, Front
    <2>2. len \in 0 .. len
      BY <1>0, EntrySeq
    <2> QED BY <1>1, <2>1, <2>2 DEF SweepDone, TypeInv, TypeOK, Shape
  <1>2. CASE SweepOne
    <2>1. pos \in 1 .. Len(backing)
      BY <1>0, <1>2, EntrySeq DEF SweepOne
    <2>2. backing[pos] \in Entry /\ backing[pos].t \in Tunnel
      BY <1>0, <2>1, EntrySeq
    <2>3. pos + 1 \in Nat /\ pos + 1 >= 1
      BY <1>0
    <2>4. CASE UNCHANGED <<toMark, backing, len, counting>>
      BY <1>2, <2>3, <2>4 DEF SweepOne, TypeInv, TypeOK, Shape
    <2>5. CASE Gone(backing[pos]) /\ counters[backing[pos].t] # 0
      <3>1. /\ counters' \in [Tunnel -> Slot \cup {0}] /\ running' \in [Tunnel -> [Slot -> BOOLEAN]]
            /\ loop' = loop
        BY <1>2, <2>2, <2>5, StatsRemoveType DEF SweepOne
      <3>2. toMark' \in Seq(Entry)
        BY <1>0, <1>2, <2>2, <2>5, AppendEntry DEF SweepOne
      <3>3. backing' \in Seq(Entry) /\ len' \in 0 .. Len(backing')
        <4>1. ASSUME NEW k \in 1 .. len + 1, k <= len, backing' = Shifted(k), len' = len - 1
              PROVE  backing' \in Seq(Entry) /\ len' \in 0 .. Len(backing')
          <5>1. k \in 1 .. len
            BY <1>0, <4>1, EntrySeq
          <5> QED BY <1>0, <4>1, <5>1, ShiftedEntries
        <4> QED BY <1>0, <1>2, <2>5, <4>1 DEF SweepOne
      <3> QED BY <1>2, <2>3, <3>1, <3>2, <3>3 DEF SweepOne, TypeInv, TypeOK, Shape
    <2> QED BY <1>2, <2>4, <2>5 DEF SweepOne
  <1> QED BY <1>1, <1>2

LEMMA DiscoverTypeInv == ASSUME TypeInv, DiscoverOne \/ DiscoverDone PROVE TypeInv'
  <1>1. CASE DiscoverDone
    BY <1>1 DEF DiscoverDone, TypeInv, TypeOK, Shape
  <1>2. CASE DiscoverOne
    <2>1. PICK e \in snap :
            /\ snap' = snap \ {e}
            /\ \/ UNCHANGED <<wpc, found>>
               \/ /\ found' = [t |-> e.t, idx |-> e.idx, active |-> row[e.t].active]
                  /\ wpc' = "add"
               \/ /\ wpc' = IF e.t \in Server THEN wpc ELSE "crashed"
                  /\ UNCHANGED found
      BY <1>2 DEF DiscoverOne
    <2>2. e.t \in Tunnel /\ e.idx \in 1 .. MaxIndex
      BY DEF TypeInv, TypeOK, Iface
    <2>3. [t |-> e.t, idx |-> e.idx, active |-> row[e.t].active] \in Entry
      BY <2>2 DEF TypeInv, TypeOK, Row, Entry
    <2> QED BY <1>2, <2>1, <2>3 DEF DiscoverOne, TypeInv, TypeOK, Shape
  <1> QED BY <1>1, <1>2

LEMMA AddTypeInv == ASSUME TypeInv, AddOne PROVE TypeInv'
  <1>0. /\ found \in Entry /\ found.t \in Tunnel /\ backing \in Seq(Entry) /\ len = Len(backing)
        /\ len \in Nat
    BY EntrySeq DEF AddOne, TypeInv, TypeOK, Shape, Entry
  <1>1. CASE UNCHANGED <<backing, len, counting>>
    BY <1>1 DEF AddOne, TypeInv, TypeOK, Shape
  <1>2. ASSUME NEW s \in Slot, counters' = [counters EXCEPT ![found.t] = s],
               \/ UNCHANGED <<backing, len, loop, running>>
               \/ Start(found.t, s) /\ backing' = Append(backing, found) /\ len' = len + 1
        PROVE  TypeInv'
    <2>1. counters' \in [Tunnel -> Slot \cup {0}]
      BY <1>0, <1>2 DEF TypeInv, TypeOK
    <2>2. /\ loop' \in [Tunnel -> [Slot -> {"off", "sleep", "save"}]]
          /\ running' \in [Tunnel -> [Slot -> BOOLEAN]]
      <3>1. CASE UNCHANGED <<loop, running>>
        BY <3>1 DEF TypeInv, TypeOK
      <3>2. CASE Start(found.t, s)
        BY <1>0, <3>2 DEF Start, TypeInv, TypeOK
      <3> QED BY <1>2, <3>1, <3>2
    <2>3. backing' \in Seq(Entry) /\ len' = Len(backing') /\ len' \in Nat
      BY <1>0, <1>2, AppendEntry
    <2>4. len' \in 0 .. Len(backing')
      BY <2>3
    <2> QED BY <2>1, <2>2, <2>3, <2>4 DEF AddOne, TypeInv, TypeOK, Shape
  <1> QED BY <1>1, <1>2 DEF AddOne

LEMMA MarkTypeInv == ASSUME TypeInv, MarkInactive \/ MarkActive PROVE TypeInv'
  <1>0. /\ backing \in Seq(Entry) /\ toMark \in Seq(Entry) /\ pos \in Nat /\ pos >= 1
        /\ pos + 1 \in Nat /\ pos + 1 >= 1 /\ len \in Nat /\ len \in 0 .. Len(backing)
    BY EntrySeq DEF TypeInv, TypeOK, Shape
  <1>1. CASE MarkInactive
    <2>1. row' \in [Tunnel -> Row]
      <3>1. CASE pos <= Len(toMark)
        <4>1. pos \in 1 .. Len(toMark)
          BY <1>0, <3>1, EntrySeq
        <4>2. toMark[pos].t \in Tunnel
          BY <1>0, <4>1, EntrySeq
        <4> QED BY <1>1, <3>1, <4>2, SaveType DEF MarkInactive, TypeInv, TypeOK
      <3> QED BY <1>1, <3>1 DEF MarkInactive, TypeInv, TypeOK
    <2>2. pos' \in Nat /\ pos' >= 1 /\ wpc' \in {"inactive", "active"} /\ wpc = "inactive"
      <3>1. CASE pos <= Len(toMark)
        BY <1>0, <1>1, <3>1 DEF MarkInactive
      <3>2. CASE ~ (pos <= Len(toMark))
        BY <1>1, <3>2 DEF MarkInactive
      <3> QED BY <3>1, <3>2
    <2>3. UNCHANGED <<env, backing, len, snap, seen, found, toMark, counting, olsr, shutdown>>
      BY <1>1 DEF MarkInactive
    <2> QED BY <2>1, <2>2, <2>3 DEF TypeInv, TypeOK, Shape
  <1>2. CASE MarkActive
    <2>1. CASE pos <= len
      <3>1. pos \in 1 .. Len(backing)
        BY <1>0, <2>1, EntrySeq
      <3>2. backing[pos] \in Entry /\ backing[pos].t \in Tunnel
        BY <1>0, <3>1, EntrySeq
      <3>3. row' \in [Tunnel -> Row]
        BY <1>2, <2>1, <3>2, SaveType DEF MarkActive, TypeInv, TypeOK
      <3>4. [backing[pos] EXCEPT !.active = TRUE] \in Entry
        BY <3>2 DEF Entry
      <3>5. /\ [backing EXCEPT ![pos] = [backing[pos] EXCEPT !.active = TRUE]] \in Seq(Entry)
            /\ Len([backing EXCEPT ![pos] = [backing[pos] EXCEPT !.active = TRUE]]) = Len(backing)
        BY <1>0, <3>1, <3>4, ExceptSeq
      <3>6. backing' \in Seq(Entry) /\ Len(backing') = Len(backing)
        BY <1>0, <1>2, <2>1, <3>5 DEF MarkActive
      <3> QED BY <1>0, <1>2, <2>1, <3>3, <3>6 DEF MarkActive, TypeInv, TypeOK, Shape
    <2>2. CASE ~ (pos <= len)
      <3>1. <<>> \in Seq(Entry)
        BY EmptySeq
      <3> QED BY <1>0, <1>2, <2>2, <3>1 DEF MarkActive, TypeInv, TypeOK, Shape
    <2> QED BY <2>1, <2>2
  <1> QED BY <1>1, <1>2

LEMMA NextTypeInv == TypeInv /\ [Next]_vars => TypeInv'
  <1> SUFFICES ASSUME TypeInv, [Next]_vars PROVE TypeInv'
    OBVIOUS
  <1>1. CASE Watch
    BY <1>1, ListTypeInv, SweepTypeInv, DiscoverTypeInv, AddTypeInv, MarkTypeInv DEF Watch
  <1>2. CASE Counter \/ OLSRWatcher \/ Environment \/ StopServer
    BY <1>2, OthersTypeInv
  <1>3. CASE UNCHANGED vars
    BY <1>3 DEF TypeInv, TypeOK, Shape
  <1> QED BY <1>1, <1>2, <1>3 DEF Next

-----------------------------------------------------------------------------
(* Counters.                                                               *)

LEMMA InitCounting == Init => StopsCounting
  BY DEF Init, StopsCounting

LEMMA NextCounting == TypeInv /\ StopsCounting /\ [Next]_vars => StopsCounting'
  <1> SUFFICES ASSUME TypeInv, StopsCounting, [Next]_vars PROVE StopsCounting'
    OBVIOUS
  <1>0. /\ counters \in [Tunnel -> Slot \cup {0}] /\ running \in [Tunnel -> [Slot -> BOOLEAN]]
        /\ 0 \notin Slot
    BY ConstantTypes DEF TypeInv, TypeOK
  <1>1. CASE UNCHANGED <<counters, running>>
    BY <1>1 DEF StopsCounting
  <1>2. CASE SweepOne
    <2>1. ASSUME StatsRemove(backing[pos].t) PROVE StopsCounting'
      BY <1>0, <2>1 DEF StatsRemove, StopsCounting
    <2> QED BY <1>1, <1>2, <2>1 DEF SweepOne
  <1>3. CASE AddOne
    <2>1. ASSUME NEW s \in Slot, counters[found.t] = 0, counters' = [counters EXCEPT ![found.t] = s],
                 UNCHANGED running \/ Start(found.t, s)
          PROVE  StopsCounting'
      <3>1. found.t \in Tunnel
        BY <1>3 DEF AddOne, TypeInv, Shape, Entry
      <3>2. \A r \in Slot : ~running[found.t][r]
        BY <1>0, <2>1, <3>1 DEF StopsCounting
      <3> QED BY <1>0, <2>1, <3>1, <3>2 DEF StopsCounting, Start
    <2> QED BY <1>1, <1>3, <2>1 DEF AddOne
  <1>4. CASE ListInterfaces \/ SweepDone \/ DiscoverOne \/ DiscoverDone \/ MarkInactive \/ MarkActive
    BY <1>1, <1>4 DEF ListInterfaces, SweepDone, DiscoverOne, DiscoverDone, MarkInactive, MarkActive
  <1>5. CASE Counter \/ OLSRWatcher \/ Environment
    BY <1>1, <1>5 DEF Counter, CounterLook, CounterSave, OLSRWatcher, OlsrFind, OlsrSave, Environment,
         LinkUp, LinkDown, Handshake, DeleteRow
  <1>6. CASE StopServer
    <2>1. ASSUME running' = [t \in Tunnel |-> [s \in Slot |-> running[t][s] /\ counters[t] # s]],
                 counters' = counters
          PROVE  StopsCounting'
      BY <1>0, <2>1 DEF StopsCounting
    <2> QED BY <1>1, <1>6, <2>1 DEF StopServer, Stop
  <1> QED BY <1>1, <1>2, <1>3, <1>4, <1>5, <1>6 DEF Next, Watch

\* StopsCounting: of the goroutines that count for one interface only the one of
\* the registered counter goes on, for any number that overlap (Stats.Add,
\* Stats.Remove, Stats.Stop).
THEOREM OneCounts == Spec => []StopsCounting
  BY InitTypeInv, NextTypeInv, InitCounting, NextCounting, PTL DEF Spec

-----------------------------------------------------------------------------
(* The slice the sweep shrinks while it ranges over it.                    *)

\* Entries of one tunnel are copies of one another, also behind the slice.
Copies == \A j, k \in 1 .. Len(backing) :
    backing[j].t = backing[k].t => backing[j].idx = backing[k].idx

WatchedOnce == \A j, k \in 1 .. len : backing[j].t = backing[k].t => j = k

WatchedCounted == \A j \in 1 .. len : counters[backing[j].t] # 0

\* Who is to be marked inactive has no counter until the sweep is over, so an
\* entry that is met again is not marked again.
MarkedForgotten == wpc = "sweep" => \A j \in 1 .. Len(toMark) : counters[toMark[j].t] = 0

MarkedDistinct == \A j, k \in 1 .. Len(toMark) : toMark[j].t = toMark[k].t => j = k

SliceInv == Copies /\ WatchedOnce /\ WatchedCounted /\ MarkedForgotten /\ MarkedDistinct

LEMMA InitSlice == Init => SliceInv
  <1>1. Len(<<>>) = 0
    BY EmptySeq
  <1> QED BY <1>1 DEF Init, SliceInv, Copies, WatchedOnce, WatchedCounted, MarkedForgotten, MarkedDistinct

\* A step that leaves the slice, the counters and the marks alone, in the sweep or
\* out of it.
LEMMA SliceFrame ==
  ASSUME SliceInv, UNCHANGED <<backing, len, counters, toMark>>, wpc' = "sweep" => wpc = "sweep"
  PROVE  SliceInv'
  BY DEF SliceInv, Copies, WatchedOnce, WatchedCounted, MarkedForgotten, MarkedDistinct

\* Stats.Remove and remove, for an entry of the array that has a counter.
LEMMA SliceRemove ==
  ASSUME TypeInv, SliceInv, SweepOne,
         Gone(backing[pos]), counters[backing[pos].t] # 0
  PROVE  SliceInv'
  <1> DEFINE e == backing[pos]
  <1>0. /\ backing \in Seq(Entry) /\ toMark \in Seq(Entry) /\ pos \in Nat /\ pos >= 1
        /\ len \in Nat /\ len \in 0 .. Len(backing) /\ Len(backing) \in Nat
        /\ counters \in [Tunnel -> Slot \cup {0}] /\ pos <= Len(backing) /\ wpc = "sweep" /\ len <= Len(backing)
    BY EntrySeq DEF TypeInv, TypeOK, Shape, SweepOne
  <1>1. pos \in 1 .. Len(backing) /\ e \in Entry /\ e.t \in Tunnel
    <2>1. pos \in 1 .. Len(backing)
      BY <1>0
    <2> QED BY <1>0, <2>1, EntrySeq
  <1>2. counters' = [counters EXCEPT ![e.t] = 0] /\ toMark' = Append(toMark, e) /\ wpc' = "sweep"
    BY <1>0 DEF SweepOne, StatsRemove
  <1>3. /\ toMark' \in Seq(Entry) /\ Len(toMark') = Len(toMark) + 1 /\ toMark'[Len(toMark) + 1] = e
        /\ \A k \in 1 .. Len(toMark) : toMark'[k] = toMark[k]
        /\ Len(toMark) \in Nat
    BY <1>0, <1>1, <1>2, AppendEntry, EntrySeq
  <1>4. \A j \in 1 .. Len(toMark) : toMark[j].t # e.t /\ toMark[j].t \in Tunnel
    BY <1>0, EntrySeq DEF SliceInv, MarkedForgotten
  <1>5. MarkedDistinct' /\ MarkedForgotten'
    <2>1. \A j \in 1 .. Len(toMark') : j \in 1 .. Len(toMark) \/ j = Len(toMark) + 1
      BY <1>3
    <2>2. MarkedDistinct'
      BY <1>3, <1>4, <2>1 DEF MarkedDistinct, SliceInv
    <2>3. \A j \in 1 .. Len(toMark') : counters'[toMark'[j].t] = 0
      BY <1>0, <1>1, <1>2, <1>3, <1>4, <2>1 DEF SliceInv, MarkedForgotten
    <2> QED BY <2>2, <2>3 DEF MarkedForgotten
  <1>6. PICK k \in 1 .. len + 1 :
          /\ \A j \in 1 .. k - 1 : ~Matches(e, j)
          /\ \/ k <= len /\ Matches(e, k) /\ backing' = Shifted(k) /\ len' = len - 1
             \/ k = len + 1 /\ UNCHANGED <<backing, len>>
    BY DEF SweepOne
  <1>7. \A j \in 1 .. len : interfaces[j] = backing[j]
    BY <1>0, Front
  \* Only the entry that is removed is of this tunnel.
  <1>8. \A j \in 1 .. len : backing[j].t = e.t => Matches(e, j)
    BY <1>0, <1>1, <1>7 DEF Matches, SliceInv, Copies
  <1>9. CASE k = len + 1 /\ UNCHANGED <<backing, len>>
    <2>1. \A j \in 1 .. len : backing[j].t # e.t
      BY <1>0, <1>6, <1>8, <1>9
    <2>2. \A j \in 1 .. len : backing[j].t \in Tunnel
      BY <1>0, EntrySeq
    <2>3. WatchedCounted'
      BY <1>0, <1>1, <1>2, <1>9, <2>1, <2>2 DEF SliceInv, WatchedCounted
    <2> QED BY <1>5, <1>9, <2>3 DEF SliceInv, Copies, WatchedOnce
  <1>10. CASE k <= len /\ Matches(e, k) /\ backing' = Shifted(k) /\ len' = len - 1
    <2>1. k \in 1 .. len /\ k \in Nat
      BY <1>0, <1>10
    <2>2. /\ Len(backing') = Len(backing)
          /\ \A j \in 1 .. len - 1 : backing'[j] = IF j < k THEN backing[j] ELSE backing[j + 1]
          /\ \A j \in 1 .. Len(backing) : \E i \in 1 .. Len(backing) : backing'[j] = backing[i]
      BY <1>0, <1>10, <2>1, ShiftedEntries
    <2>3. Copies'
      BY <2>2 DEF SliceInv, Copies
    \* Where an entry of the new slice was in the old one.
    <2> DEFINE old(j) == IF j < k THEN j ELSE j + 1
    <2>4. \A j \in 1 .. len' : old(j) \in 1 .. len /\ old(j) # k /\ backing'[j] = backing[old(j)]
      <3> SUFFICES ASSUME NEW j \in 1 .. len'
                   PROVE  old(j) \in 1 .. len /\ old(j) # k /\ backing'[j] = backing[old(j)]
        OBVIOUS
      <3>1. j \in 1 .. len - 1 /\ j \in Nat
        BY <1>0, <1>10
      <3>2. backing'[j] = IF j < k THEN backing[j] ELSE backing[j + 1]
        BY <2>2, <3>1
      <3>3. backing'[j] = backing[old(j)]
        BY <3>2
      <3>4. old(j) \in 1 .. len /\ old(j) # k
        BY <1>0, <2>1, <3>1
      <3> QED BY <3>3, <3>4
    <2>5. \A i, j \in 1 .. len' : old(i) = old(j) => i = j
      BY <1>0, <1>10, <2>1
    <2> HIDE DEF old
    <2>6. WatchedOnce'
      BY <2>4, <2>5 DEF SliceInv, WatchedOnce
    <2>7. backing[k].t = e.t
      BY <1>7, <1>10, <2>1 DEF Matches
    <2>8. \A j \in 1 .. len' : backing'[j].t # e.t /\ backing'[j].t \in Tunnel
      <3>1. \A j \in 1 .. len : backing[j].t \in Tunnel
        BY <1>0, EntrySeq
      <3> QED BY <2>1, <2>4, <2>7, <3>1 DEF SliceInv, WatchedOnce
    <2>9. WatchedCounted'
      BY <1>0, <1>1, <1>2, <2>4, <2>8 DEF SliceInv, WatchedCounted
    <2> QED BY <1>5, <2>3, <2>6, <2>9 DEF SliceInv
  <1> QED BY <1>6, <1>9, <1>10

LEMMA SliceAdd == ASSUME TypeInv, SliceInv, AddOne PROVE SliceInv'
  <1>0. /\ found \in Entry /\ found.t \in Tunnel /\ backing \in Seq(Entry) /\ len = Len(backing)
        /\ len \in Nat /\ counters \in [Tunnel -> Slot \cup {0}] /\ wpc' # "sweep" /\ toMark' = toMark
    BY EntrySeq DEF AddOne, TypeInv, TypeOK, Shape, Entry
  <1>1. CASE UNCHANGED <<backing, len, counting>>
    BY <1>0, <1>1, SliceFrame
  <1>2. ASSUME NEW s \in Slot, counters[found.t] = 0, counters' = [counters EXCEPT ![found.t] = s],
               \/ UNCHANGED <<backing, len>>
               \/ backing' = Append(backing, found) /\ len' = len + 1
        PROVE  SliceInv'
    <2>1. \A j \in 1 .. len : backing[j].t # found.t /\ backing[j].t \in Tunnel
      BY <1>0, <1>2, EntrySeq DEF SliceInv, WatchedCounted
    <2>2. s # 0
      BY ConstantTypes
    <2>3. \A j \in 1 .. len : counters'[backing[j].t] # 0
      BY <1>0, <1>2, <2>1 DEF SliceInv, WatchedCounted
    <2>4. MarkedForgotten' /\ MarkedDistinct'
      BY <1>0 DEF SliceInv, MarkedForgotten, MarkedDistinct
    <2>5. CASE UNCHANGED <<backing, len>>
      BY <2>3, <2>4, <2>5 DEF SliceInv, Copies, WatchedOnce, WatchedCounted
    <2>6. CASE backing' = Append(backing, found) /\ len' = len + 1
      <3>1. /\ Len(backing') = len + 1 /\ backing'[len + 1] = found
            /\ \A j \in 1 .. len : backing'[j] = backing[j]
        BY <1>0, <2>6, AppendEntry
      <3>2. \A j \in 1 .. len' : j \in 1 .. len \/ j = len + 1
        BY <1>0, <2>6
      <3>3. Copies' /\ WatchedOnce'
        BY <1>0, <2>1, <2>6, <3>1, <3>2 DEF SliceInv, Copies, WatchedOnce
      <3>4. counters'[found.t] = s
        BY <1>0, <1>2
      <3>5. WatchedCounted'
        BY <2>2, <2>3, <3>1, <3>2, <3>4 DEF WatchedCounted
      <3> QED BY <2>4, <3>3, <3>5 DEF SliceInv
    <2> QED BY <1>2, <2>5, <2>6
  <1> QED BY <1>1, <1>2 DEF AddOne

LEMMA SliceList == ASSUME TypeInv, SliceInv, ListInterfaces PROVE SliceInv'
  <1>1. toMark' = <<>> /\ Len(<<>>) = 0
    BY EmptySeq DEF ListInterfaces
  <1> QED BY <1>1 DEF ListInterfaces, SliceInv, Copies, WatchedOnce, WatchedCounted, MarkedForgotten,
            MarkedDistinct

LEMMA SliceDone == ASSUME TypeInv, SliceInv, SweepDone PROVE SliceInv'
  <1>0. /\ Len(backing) \in Nat /\ len \in 0 .. Len(backing) /\ backing \in Seq(Entry)
    BY EntrySeq DEF TypeInv, TypeOK
  <1>1. Len(backing') = len /\ \A j \in 1 .. len : backing'[j] = backing[j]
    BY <1>0, Front DEF SweepDone
  <1>2. \A j \in 1 .. len : j \in 1 .. Len(backing)
    BY <1>0
  <1> QED BY <1>1, <1>2 DEF SweepDone, SliceInv, Copies, WatchedOnce, WatchedCounted, MarkedForgotten,
            MarkedDistinct

LEMMA SliceMark == ASSUME TypeInv, SliceInv, MarkActive PROVE SliceInv'
  <1>0. /\ backing \in Seq(Entry) /\ pos \in Nat /\ pos >= 1 /\ len \in Nat /\ len = Len(backing)
    BY EntrySeq DEF MarkActive, TypeInv, TypeOK, Shape
  <1>1. CASE ~ (pos <= len)
    <2>1. Len(<<>>) = 0
      BY EmptySeq
    <2> QED BY <1>1, <2>1 DEF MarkActive, SliceInv, Copies, WatchedOnce, WatchedCounted,
               MarkedForgotten, MarkedDistinct
  <1>2. CASE pos <= len
    <2>1. pos \in 1 .. Len(backing)
      BY <1>0, <1>2
    <2>2. backing[pos] \in Entry
      BY <1>0, <2>1, EntrySeq
    <2> DEFINE e == [backing[pos] EXCEPT !.active = TRUE]
    <2>3. e \in Entry /\ e.t = backing[pos].t /\ e.idx = backing[pos].idx
      BY <2>2 DEF Entry
    <2> HIDE DEF e
    <2>4. /\ Len([backing EXCEPT ![pos] = e]) = Len(backing)
          /\ \A j \in 1 .. Len(backing) : [backing EXCEPT ![pos] = e][j] = IF j = pos THEN e ELSE backing[j]
      BY <1>0, <2>1, <2>3, ExceptSeq
    <2>5. backing' = backing \/ backing' = [backing EXCEPT ![pos] = e]
      BY <1>2 DEF MarkActive, e
    <2>6. /\ Len(backing') = Len(backing)
          /\ \A j \in 1 .. Len(backing) : backing'[j].t = backing[j].t /\ backing'[j].idx = backing[j].idx
      BY <2>3, <2>4, <2>5
    <2>7. UNCHANGED <<len, counters, toMark, wpc>>
      BY <1>2 DEF MarkActive
    <2>8. Copies' /\ WatchedOnce' /\ WatchedCounted'
      BY <1>0, <2>6, <2>7 DEF SliceInv, Copies, WatchedOnce, WatchedCounted
    <2> QED BY <2>7, <2>8 DEF SliceInv, MarkedForgotten, MarkedDistinct
  <1> QED BY <1>1, <1>2

LEMMA NextSlice == TypeInv /\ SliceInv /\ [Next]_vars => SliceInv'
  <1> SUFFICES ASSUME TypeInv, SliceInv, [Next]_vars PROVE SliceInv'
    OBVIOUS
  <1>1. CASE SweepOne
    <2>1. CASE Gone(backing[pos]) /\ counters[backing[pos].t] # 0
      BY <1>1, <2>1, SliceRemove
    <2>2. CASE ~ (Gone(backing[pos]) /\ counters[backing[pos].t] # 0)
      BY <1>1, <2>2, SliceFrame DEF SweepOne
    <2> QED BY <2>1, <2>2
  <1>2. CASE ListInterfaces \/ SweepDone \/ AddOne \/ MarkActive
    BY <1>2, SliceList, SliceDone, SliceAdd, SliceMark
  <1>3. CASE DiscoverOne \/ DiscoverDone \/ MarkInactive
    BY <1>3, SliceFrame DEF DiscoverOne, DiscoverDone, MarkInactive
  <1>4. CASE Counter \/ OLSRWatcher \/ Environment \/ StopServer
    <2>1. UNCHANGED counters
      BY <1>4 DEF Counter, CounterLook, CounterSave, OLSRWatcher, OlsrFind, OlsrSave, Environment,
           LinkUp, LinkDown, Handshake, DeleteRow, StopServer
    <2>2. UNCHANGED watcher
      BY <1>4, OthersTypeInv
    <2> QED BY <2>1, <2>2, SliceFrame
  <1>5. CASE UNCHANGED vars
    BY <1>5, SliceFrame
  <1> QED BY <1>1, <1>2, <1>3, <1>4, <1>5 DEF Next, Watch

LEMMA SliceImplies == TypeInv /\ SliceInv => TrackedHaveCounters /\ MarkedOnce
  <1> SUFFICES ASSUME TypeInv, SliceInv PROVE TrackedHaveCounters /\ MarkedOnce
    OBVIOUS
  <1>1. \A k \in 1 .. len : interfaces[k] = backing[k]
    BY Front DEF TypeInv, TypeOK
  <1>2. \A t \in Tracked : \E k \in 1 .. len : t = backing[k].t
    BY <1>1 DEF Tracked
  <1>3. TrackedHaveCounters
    BY <1>1, <1>2 DEF TrackedHaveCounters, SliceInv, WatchedCounted, WatchedOnce
  <1>4. MarkedOnce
    BY <1>2 DEF MarkedOnce, SliceInv, MarkedDistinct, MarkedForgotten, WatchedCounted
  <1> QED BY <1>3, <1>4

\* TrackedHaveCounters: no interface is watched twice and each watched one has a
\* counter for the sweep to remove, for any number of interfaces (watch, remove,
\* Stats.Add).
THEOREM Watched == Spec => []TrackedHaveCounters
  BY InitTypeInv, NextTypeInv, InitSlice, NextSlice, SliceImplies, PTL DEF Spec

\* MarkedOnce: the sweep over the array that remove shifts marks no interface
\* inactive twice, and none that stays watched, for any number of interfaces
\* (watch, remove, reconcileDB).
THEOREM Marking == Spec => []MarkedOnce
  BY InitTypeInv, NextTypeInv, InitSlice, NextSlice, SliceImplies, PTL DEF Spec
=============================================================================
