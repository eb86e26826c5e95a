---------------------------- MODULE OlsrHostsProofs ----------------------------
(***************************************************************************)
(* Proofs about OlsrHosts for any finite sets of names and addresses, and  *)
(* for files of any length.                                                *)
(***************************************************************************)
EXTENDS OlsrHosts, FiniteSetTheorems, WellFoundedInduction, TLAPS

USE DEF vars, local

LEMMA ConstantTypes ==
    /\ IsFiniteSet(Name) /\ IsFiniteSet(IP) /\ NoIP \notin IP
    /\ MaxLines \in Nat /\ MaxServices \in Nat
  BY OlsrAssumption

\* A set of naturals has a least element: this takes the place of induction.
LEMMA LeastElement ==
  ASSUME NEW T \in SUBSET Nat, T # {}
  PROVE  \E x \in T : \A y \in T : x <= y
  <1>1. \E x \in T : \A y \in T : ~(<<y, x>> \in OpToRel(<, Nat))
    BY NatLessThanWellFounded, WFMin
  <1>2. PICK x \in T : \A y \in T : ~(<<y, x>> \in OpToRel(<, Nat))
    BY <1>1
  <1>3. \A y \in T : ~(y < x)
    BY <1>2 DEF OpToRel
  <1> QED BY <1>3

-----------------------------------------------------------------------------
(* Types.                                                                  *)

\* What is found and counted is no more than what was read.
Bounds ==
    /\ Len(ret) <= Len(file) /\ count <= Len(file) /\ totalCount <= Len(file)
    /\ Len(services) <= MaxServices /\ Len(published.currentHosts) <= MaxLines

\* No service is looked for before the last line is read.
Fresh == pc = "lines" => foundServices = {} /\ hostIdx = 1

TypeInv == TypeOK /\ Bounds /\ Fresh

LEMMA LineTypes ==
  ASSUME NEW l \in Line, l.kind = "host"
  PROVE  l.name \in Name /\ l.ip \in IP /\ ParentIP(l) \in IP \cup {NoIP}
  BY DEF Line, HostLine, ParentIP

LEMMA InitTypeInv == Init => TypeInv
  BY ConstantTypes DEF Init, TypeInv, TypeOK, Bounds, Fresh

LEMMA FileTypes ==
  ASSUME TypeInv, NEW l \in Line, Read(l)
  PROVE  /\ file' \in Seq(Line) /\ Len(file') = Len(file) + 1 /\ Len(file') <= MaxLines
         /\ Len(file) \in Nat /\ DOMAIN file = 1 .. Len(file) /\ DOMAIN file' = 1 .. Len(file) + 1
         /\ \A k \in DOMAIN file : file'[k] = file[k]
         /\ file'[Len(file) + 1] = l
  BY ConstantTypes DEF TypeInv, TypeOK, Read

LEMMA HostTypes ==
  ASSUME TypeInv
  PROVE  /\ DOMAIN ret = 1 .. Len(ret) /\ Len(ret) \in Nat
         /\ \A h \in DOMAIN ret :
              /\ ret[h] \in Host /\ ret[h].ip \in IP /\ ret[h].name \in Name
              /\ ret[h].children \in Seq(Entry) /\ Len(ret[h].children) \in Nat
              /\ DOMAIN ret[h].children = 1 .. Len(ret[h].children)
              /\ \A i \in DOMAIN ret[h].children : ret[h].children[i] \in Entry
  <1>1. ret \in Seq(Host)
    BY DEF TypeInv, TypeOK
  <1>2. DOMAIN ret = 1 .. Len(ret) /\ Len(ret) \in Nat /\ \A h \in DOMAIN ret : ret[h] \in Host
    BY <1>1
  <1>3. ASSUME NEW h \in DOMAIN ret
        PROVE  ret[h].ip \in IP /\ ret[h].name \in Name /\ ret[h].children \in Seq(Entry)
    BY <1>2 DEF Host
  <1>4. ASSUME NEW s \in Seq(Entry)
        PROVE  Len(s) \in Nat /\ DOMAIN s = 1 .. Len(s) /\ \A i \in DOMAIN s : s[i] \in Entry
    OBVIOUS
  <1> QED BY <1>2, <1>3, <1>4

\* The host that a child is added to is the first one of its address.
FirstParent(ip) == CHOOSE k \in Parents(ip) : \A m \in Parents(ip) : k <= m

LEMMA FirstParentIs ==
  ASSUME TypeInv, NEW ip, Parents(ip) # {}
  PROVE  /\ FirstParent(ip) \in DOMAIN ret /\ ret[FirstParent(ip)].ip = ip
         /\ \A m \in DOMAIN ret : ret[m].ip = ip => FirstParent(ip) <= m
  <1>1. Parents(ip) \in SUBSET Nat
    BY HostTypes DEF Parents
  <1>2. \E x \in Parents(ip) : \A y \in Parents(ip) : x <= y
    BY <1>1, LeastElement
  <1>3. FirstParent(ip) \in Parents(ip) /\ \A m \in Parents(ip) : FirstParent(ip) <= m
    BY <1>2 DEF FirstParent
  <1> QED BY <1>3 DEF Parents

NewChild(l) == [name |-> l.name, ip |-> l.ip, services |-> {}]

\* What a line that belongs to a known host does to ret
LEMMA ChildAdded ==
  ASSUME TypeInv, NEW l \in Line, AddChild(l), NEW h, h = FirstParent(ParentIP(l))
  PROVE  /\ h \in DOMAIN ret /\ ret[h].ip = ParentIP(l) /\ IsFirst(h)
         /\ \A m \in DOMAIN ret : ret[m].ip = ParentIP(l) => h <= m
         /\ ret' = [ret EXCEPT ![h] = [ret[h] EXCEPT !.children = Append(ret[h].children, NewChild(l))]]
  <1>1. /\ h \in DOMAIN ret /\ ret[h].ip = ParentIP(l)
        /\ \A m \in DOMAIN ret : ret[m].ip = ParentIP(l) => h <= m
    BY FirstParentIs DEF AddChild
  <1>2. IsFirst(h)
    BY <1>1, HostTypes DEF IsFirst
  <1>3. ret' = [ret EXCEPT ![h].children = Append(@, NewChild(l))]
    BY DEF AddChild, FirstParent, NewChild
  <1>4. ret' = [ret EXCEPT ![h] = [ret[h] EXCEPT !.children = Append(ret[h].children, NewChild(l))]]
    BY <1>3, <1>1
  <1> QED BY <1>1, <1>2, <1>4

LEMMA AdoptedFinite ==
  ASSUME TypeInv, NEW ip
  PROVE  IsFiniteSet(Adopted(ip)) /\ Cardinality(Adopted(ip)) \in Nat /\ Adopted(ip) \subseteq DOMAIN orphanedChildren
  <1>1. Adopted(ip) \in SUBSET Name
    BY DEF TypeInv, TypeOK, Adopted
  <1>2. IsFiniteSet(Adopted(ip))
    BY <1>1, FS_Subset, ConstantTypes
  <1> QED BY <1>2, FS_CardinalityType DEF Adopted

\* What the line of a node does to ret: the names it adopts, in some order
LEMMA HostAdded ==
  ASSUME TypeInv, NEW l \in Line, AddHost(l)
  PROVE  \E names \in [1 .. Cardinality(Adopted(l.ip)) -> Adopted(l.ip)] :
           /\ \A i, j \in 1 .. Cardinality(Adopted(l.ip)) : i # j => names[i] # names[j]
           /\ \A n \in Adopted(l.ip) : \E i \in 1 .. Cardinality(Adopted(l.ip)) : names[i] = n
           /\ ret' = Append(ret, NewHost(l, names))
  <1> DEFINE S == Adopted(l.ip)
             D == 1 .. Cardinality(Adopted(l.ip))
  <1>1. PICK names \in SetToSeqs(S) : ret' = Append(ret, NewHost(l, names))
    BY DEF AddHost
  <1>2. names \in [D -> S] /\ \A i, j \in D : i # j => names[i] # names[j]
    BY <1>1 DEF SetToSeqs
  <1>3. IsFiniteSet(S) /\ Cardinality(S) \in Nat
    BY AdoptedFinite
  <1>4. names \in Injection(D, S)
    BY <1>2 DEF Injection, IsInjective
  <1>5. Cardinality(D) = Cardinality(S)
    BY <1>3, FS_Interval
  <1> HIDE DEF S, D
  <1>6. names \in Surjection(D, S)
    BY <1>3, <1>4, <1>5, FS_Injection
  <1>7. \A n \in S : \E i \in D : names[i] = n
    BY <1>6 DEF Surjection
  <1> QED BY <1>1, <1>2, <1>7 DEF S, D

LEMMA NewHostType ==
  ASSUME TypeInv, NEW l \in Line, IsNode(l), NEW c \in Nat, NEW names \in [1 .. c -> Adopted(l.ip)]
  PROVE  /\ NewHost(l, names) \in Host /\ NewHost(l, names).ip = l.ip
         /\ NewHost(l, names).children \in Seq(Entry) /\ Len(NewHost(l, names).children) = c
  <1>1. \A i \in 1 .. c : /\ names[i] \in Name /\ names[i] \in DOMAIN orphanedChildren
                          /\ orphanedChildren[names[i]].ip \in IP
    BY DEF TypeInv, TypeOK, Adopted
  <1>2. l.name \in Name /\ l.ip \in IP
    BY LineTypes DEF IsNode
  <1>3. \A i \in 1 .. c : [name |-> names[i], ip |-> orphanedChildren[names[i]].ip, services |-> {}] \in Entry
    BY <1>1 DEF Entry
  <1>4. DOMAIN names = 1 .. c
    OBVIOUS
  <1>5. NewHost(l, names).children \in [1 .. c -> Entry]
    BY <1>3, <1>4 DEF NewHost
  <1>6. NewHost(l, names).children \in Seq(Entry) /\ Len(NewHost(l, names).children) = c
    BY <1>5
  <1> QED BY <1>2, <1>6 DEF NewHost, Host

LEMMA SkipTypes == ASSUME TypeInv, NEW l \in Line, SkipLine(l) PROVE TypeInv'
  <1>1. Read(l) /\ UNCHANGED <<ret, orphanedChildren, totalCount, services, foundServices, hostIdx, published, pc>>
    BY DEF SkipLine, Read
  <1>2. count' \in Nat /\ count' <= Len(file) + 1
    BY DEF SkipLine, TypeInv, TypeOK, Bounds
  <1> QED BY <1>1, <1>2, FileTypes, ConstantTypes DEF TypeInv, TypeOK, Bounds, Fresh

LEMMA ChildTypes == ASSUME TypeInv, NEW l \in Line, AddChild(l) PROVE TypeInv'
  <1>1. Read(l) /\ UNCHANGED <<orphanedChildren, count, services, foundServices, hostIdx, published, pc>>
    BY DEF AddChild, Read
  <1>2. totalCount' \in Nat /\ totalCount' <= Len(file) + 1
    BY DEF AddChild, TypeInv, TypeOK, Bounds
  <1> DEFINE h == FirstParent(ParentIP(l))
  <1>3. /\ h \in DOMAIN ret
        /\ ret' = [ret EXCEPT ![h] = [ret[h] EXCEPT !.children = Append(ret[h].children, NewChild(l))]]
    BY ChildAdded
  <1> HIDE DEF h
  <1>4. NewChild(l) \in Entry
    BY LineTypes DEF AddChild, IsChild, NewChild, Entry
  <1>5. ret[h].children \in Seq(Entry) /\ ret[h] \in Host
    BY <1>3, HostTypes
  <1>6. Append(ret[h].children, NewChild(l)) \in Seq(Entry)
    BY <1>4, <1>5
  <1>7. [ret[h] EXCEPT !.children = Append(ret[h].children, NewChild(l))] \in Host
    BY <1>5, <1>6 DEF Host
  <1>8. ret \in Seq(Host)
    BY DEF TypeInv, TypeOK
  <1>9. ret' \in Seq(Host) /\ Len(ret') = Len(ret)
    BY <1>3, <1>7, <1>8
  <1> QED BY <1>1, <1>2, <1>9, FileTypes, ConstantTypes DEF TypeInv, TypeOK, Bounds, Fresh

LEMMA OrphanTypes == ASSUME TypeInv, NEW l \in Line, Orphan(l) PROVE TypeInv'
  <1>1. Read(l) /\ UNCHANGED <<ret, count, services, foundServices, hostIdx, published, pc>>
    BY DEF Orphan, Read
  <1>2. totalCount' \in Nat /\ totalCount' <= Len(file) + 1
    BY DEF Orphan, TypeInv, TypeOK, Bounds
  <1>3. l.name \in Name /\ Waiting(l) \in [ip : IP, parent : IP \cup {NoIP}]
    BY LineTypes DEF Orphan, IsChild, Waiting
  <1>4. /\ DOMAIN orphanedChildren' \subseteq Name
        /\ \A n \in DOMAIN orphanedChildren' : orphanedChildren'[n] \in [ip : IP, parent : IP \cup {NoIP}]
    BY <1>3 DEF Orphan, TypeInv, TypeOK
  <1> QED BY <1>1, <1>2, <1>4, FileTypes, ConstantTypes DEF TypeInv, TypeOK, Bounds, Fresh

LEMMA NodeTypes == ASSUME TypeInv, NEW l \in Line, AddHost(l) PROVE TypeInv'
  <1>1. Read(l) /\ UNCHANGED <<count, services, foundServices, hostIdx, published, pc>>
    BY DEF AddHost, Read
  <1>2. totalCount' \in Nat /\ totalCount' <= Len(file) + 1
    BY DEF AddHost, TypeInv, TypeOK, Bounds
  <1>3. /\ DOMAIN orphanedChildren' \subseteq Name
        /\ \A n \in DOMAIN orphanedChildren' : orphanedChildren'[n] \in [ip : IP, parent : IP \cup {NoIP}]
    BY DEF AddHost, TypeInv, TypeOK
  <1>4. PICK names \in [1 .. Cardinality(Adopted(l.ip)) -> Adopted(l.ip)] : ret' = Append(ret, NewHost(l, names))
    BY HostAdded
  <1>5. NewHost(l, names) \in Host
    BY NewHostType, AdoptedFinite DEF AddHost
  <1>6. ret \in Seq(Host)
    BY DEF TypeInv, TypeOK
  <1>7. ret' \in Seq(Host) /\ Len(ret') = Len(ret) + 1
    BY <1>4, <1>5, <1>6
  <1> QED BY <1>1, <1>2, <1>3, <1>7, FileTypes, ConstantTypes DEF TypeInv, TypeOK, Bounds, Fresh

LEMMA ServicesTypes ==
  ASSUME TypeInv, NEW n \in 0 .. MaxServices, NEW s \in [1 .. n -> Name], ReadServices(s)
  PROVE  TypeInv'
  <1>1. s \in Seq(Name) /\ Len(s) <= MaxServices /\ foundServices' \subseteq DOMAIN s
    <2>1. n \in Nat /\ n <= MaxServices
      BY ConstantTypes
    <2> QED BY <2>1 DEF ReadServices, TypeInv, Fresh
  <1> QED BY <1>1 DEF ReadServices, TypeInv, TypeOK, Bounds, Fresh

\* The host whose services come next gets some, and nothing else changes.
LEMMA Attached ==
  ASSUME TypeInv, Attach
  PROVE  /\ hostIdx \in DOMAIN ret /\ Len(ret') = Len(ret) /\ DOMAIN ret' = DOMAIN ret
         /\ ret'[hostIdx] = WithServices(ret[hostIdx])
         /\ \A h \in DOMAIN ret : h # hostIdx => ret'[h] = ret[h]
         /\ ret' = [ret EXCEPT ![hostIdx] = WithServices(ret[hostIdx])]
  BY DEF TypeInv, TypeOK, Attach

LEMMA WithServicesIs ==
  ASSUME TypeInv, NEW h \in DOMAIN ret, NEW w, w = WithServices(ret[h])
  PROVE  /\ w \in Host /\ w.name = ret[h].name /\ w.ip = ret[h].ip
         /\ DOMAIN w.children = DOMAIN ret[h].children
         /\ w.services = IF \E i \in DOMAIN ret[h].children : ret[h].children[i].name = ret[h].name
                         THEN {} ELSE Unfound(ret[h].name)
         /\ \A i \in DOMAIN ret[h].children :
              /\ w.children[i].name = ret[h].children[i].name
              /\ w.children[i].ip = ret[h].children[i].ip
              /\ w.children[i].services =
                   IF \E j \in 1 .. i - 1 : ret[h].children[j].name = ret[h].children[i].name
                   THEN {} ELSE Unfound(ret[h].children[i].name)
  <1> DEFINE c == ret[h].children
             u(i) == IF \E j \in 1 .. i - 1 : c[j].name = c[i].name THEN {} ELSE Unfound(c[i].name)
             v == IF \E i \in DOMAIN c : c[i].name = ret[h].name THEN {} ELSE Unfound(ret[h].name)
             d == [i \in DOMAIN c |-> [c[i] EXCEPT !.services = u(i)]]
  <1>1. /\ ret[h] \in Host /\ c \in Seq(Entry) /\ Len(c) \in Nat /\ DOMAIN c = 1 .. Len(c)
        /\ \A i \in DOMAIN c : c[i] \in Entry
    BY HostTypes
  <1>2. \A n : Unfound(n) \subseteq 1 .. MaxServices
    <2>1. DOMAIN services = 1 .. Len(services) /\ Len(services) \in Nat /\ Len(services) <= MaxServices
      BY DEF TypeInv, TypeOK, Bounds
    <2> QED BY <2>1, ConstantTypes DEF Unfound
  <1>3. (\A i : u(i) \subseteq 1 .. MaxServices) /\ v \subseteq 1 .. MaxServices
    BY <1>2
  <1>4. w = [[ret[h] EXCEPT !.children = d] EXCEPT !.services = v]
    BY DEF WithServices
  <1> HIDE DEF u, v
  <1>5. \A i \in DOMAIN c : d[i] \in Entry /\ d[i].name = c[i].name /\ d[i].ip = c[i].ip /\ d[i].services = u(i)
    BY <1>1, <1>3 DEF Entry
  <1>6. DOMAIN d = DOMAIN c /\ d \in [1 .. Len(c) -> Entry]
    BY <1>1, <1>5
  <1> HIDE DEF d, c
  <1>7. d \in Seq(Entry)
    BY <1>6, <1>1
  <1>8. /\ w \in Host /\ w.name = ret[h].name /\ w.ip = ret[h].ip /\ w.children = d /\ w.services = v
    BY <1>1, <1>3, <1>4, <1>7 DEF Host
  <1> QED BY <1>5, <1>6, <1>8 DEF u, v, c

LEMMA AttachTypes == ASSUME TypeInv, Attach PROVE TypeInv'
  <1>1. WithServices(ret[hostIdx]) \in Host
    BY Attached, WithServicesIs
  <1>2. ret \in Seq(Host)
    BY DEF TypeInv, TypeOK
  <1>3. ret' \in Seq(Host) /\ Len(ret') = Len(ret)
    BY <1>1, <1>2, Attached
  <1>4. foundServices' \subseteq DOMAIN services
    BY DEF TypeInv, TypeOK, Attach, Unfound
  <1>5. hostIdx' \in 1 .. Len(ret) + 1
    BY Attached, HostTypes DEF Attach
  <1> QED BY <1>3, <1>4, <1>5 DEF Attach, TypeInv, TypeOK, Bounds, Fresh

LEMMA NextTypeInv == TypeInv /\ [Next]_vars => TypeInv'
  <1> SUFFICES ASSUME TypeInv, [Next]_vars PROVE TypeInv'
    OBVIOUS
  <1>1. CASE \E l \in Line : SkipLine(l) \/ AddChild(l) \/ Orphan(l) \/ AddHost(l)
    BY <1>1, SkipTypes, ChildTypes, OrphanTypes, NodeTypes
  <1>2. CASE \E n \in 0 .. MaxServices : \E s \in [1 .. n -> Name] : ReadServices(s)
    BY <1>2, ServicesTypes
  <1>3. CASE ReadFails
    BY <1>3 DEF ReadFails, TypeInv, TypeOK, Bounds, Fresh
  <1>4. CASE Attach
    BY <1>4, AttachTypes
  <1>5. CASE Publish
    BY <1>5 DEF Publish, TypeInv, TypeOK, Bounds, Fresh
  <1>6. CASE UNCHANGED vars
    BY <1>6 DEF TypeInv, TypeOK, Bounds, Fresh
  <1> QED BY <1>1, <1>2, <1>3, <1>4, <1>5, <1>6 DEF Next

LEMMA TypesHold == Spec => []TypeInv
  BY InitTypeInv, NextTypeInv, PTL DEF Spec

\* Types: every variable has its type; no index leaves the sequence it indexes
\* (parseHosts, Parse).
THEOREM Types == Spec => []TypeOK
  <1>1. TypeInv => TypeOK
    BY DEF TypeInv
  <1> QED BY <1>1, TypesHold, PTL

-----------------------------------------------------------------------------
(* The lines read so far and what is made of them.                         *)

\* The addresses of the hosts found are those of the nodes read.
Known ==
    /\ \A j \in DOMAIN file : IsNode(file[j]) => Parents(file[j].ip) # {}
    /\ \A h \in DOMAIN ret : \E j \in DOMAIN file : IsNode(file[j]) /\ file[j].ip = ret[h].ip

\* Line k is one that still waits for its node.
Waits(k) == Parents(ParentIP(file[k])) = {} /\ ~Replaced(k)

\* What waits is what orphanedChildren holds.
WaitingHeld ==
    /\ \A k \in Children : Waits(k) =>
         file[k].name \in DOMAIN orphanedChildren /\ orphanedChildren[file[k].name] = Waiting(file[k])
    /\ \A n \in DOMAIN orphanedChildren : \E k \in Children : Waits(k) /\ file[k].name = n

LinesInv == Known /\ WaitingHeld

LEMMA NoNodes ==
  ASSUME TypeInv, Known, NEW p
  PROVE  Parents(p) = {} <=> Nodes(p, 0, Len(file) + 1) = {}
  <1>1. DOMAIN file = 1 .. Len(file) /\ Len(file) \in Nat
    BY DEF TypeInv, TypeOK
  <1> QED BY <1>1 DEF Known, Parents, Nodes

LEMMA ChildrenNext ==
  ASSUME TypeInv, NEW l \in Line, Read(l)
  PROVE  /\ Children' = IF IsChild(l) THEN Children \cup {Len(file) + 1} ELSE Children
         /\ Len(file) + 1 \notin Children
  <1>1. \A k \in DOMAIN file : IsChild(file'[k]) <=> IsChild(file[k])
    BY FileTypes
  <1>2. IsChild(file'[Len(file) + 1]) <=> IsChild(l)
    BY FileTypes
  <1> QED BY <1>1, <1>2, FileTypes DEF Children

\* A line comes to be replaced when it waits and a line of its name comes to wait.
LEMMA ReplacedNext ==
  ASSUME TypeInv, Known, NEW l \in Line, Read(l)
  PROVE  /\ \A k \in DOMAIN file :
              Replaced(k)' <=>
                \/ Replaced(k)
                \/ /\ IsChild(l) /\ l.name = file[k].name
                   /\ Parents(ParentIP(file[k])) = {} /\ Parents(ParentIP(l)) = {}
         /\ \A k \in DOMAIN file' \ DOMAIN file : ~Replaced(k)'
  <1> DEFINE N == Len(file)
             Nd(p, m) == {j \in DOMAIN file : 0 < j /\ j < m /\ IsNode(file[j]) /\ file[j].ip = p}
             Nd1(p, m) == {j \in DOMAIN file' : 0 < j /\ j < m /\ IsNode(file'[j]) /\ file'[j].ip = p}
             By(k, m) == /\ k < m /\ IsChild(file[m]) /\ file[m].name = file[k].name
                         /\ Nd(ParentIP(file[k]), m) = {} /\ Nd(ParentIP(file[m]), m) = {}
             By1(k, m) == /\ k < m /\ IsChild(file'[m]) /\ file'[m].name = file'[k].name
                          /\ Nd1(ParentIP(file'[k]), m) = {} /\ Nd1(ParentIP(file'[m]), m) = {}
  <1>1. /\ N \in Nat /\ DOMAIN file = 1 .. N /\ DOMAIN file' = 1 .. N + 1
        /\ \A k \in 1 .. N : file'[k] = file[k]
        /\ file'[N + 1] = l
    BY FileTypes
  <1>2. \A k : Replaced(k) <=> \E m \in DOMAIN file : By(k, m)
    BY DEF Replaced, Nodes
  <1>3. \A k : Replaced(k)' <=> \E m \in DOMAIN file' : By1(k, m)
    BY DEF Replaced, Nodes, IsChild, IsNode, ParentIP
  <1>4. \A p : Parents(p) = {} <=> Nd(p, N + 1) = {}
    BY NoNodes DEF Nodes
  <1> HIDE DEF N
  <1>5. \A p : \A m \in 1 .. N + 1 : Nd1(p, m) = Nd(p, m)
    BY <1>1
  <1> HIDE DEF Nd, Nd1
  <1>6. \A k, m \in 1 .. N : By1(k, m) <=> By(k, m)
    BY <1>1, <1>5
  <1>7. \A k \in 1 .. N : By1(k, N + 1) <=> /\ IsChild(l) /\ l.name = file[k].name
                                            /\ Nd(ParentIP(file[k]), N + 1) = {} /\ Nd(ParentIP(l), N + 1) = {}
    BY <1>1, <1>5
  <1>8. \A m \in 1 .. N + 1 : ~By1(N + 1, m)
    BY <1>1
  <1> HIDE DEF By, By1
  <1>9. ASSUME NEW k \in DOMAIN file
        PROVE  Replaced(k)' <=>
                \/ Replaced(k)
                \/ /\ IsChild(l) /\ l.name = file[k].name
                   /\ Parents(ParentIP(file[k])) = {} /\ Parents(ParentIP(l)) = {}
    <2>1. k \in 1 .. N /\ 1 .. N + 1 = 1 .. N \cup {N + 1}
      BY <1>1
    <2>2. Replaced(k)' <=> (\E m \in 1 .. N : By1(k, m)) \/ By1(k, N + 1)
      BY <2>1, <1>1, <1>3
    <2> QED BY <2>1, <2>2, <1>1, <1>2, <1>4, <1>6, <1>7
  <1>10. ASSUME NEW k \in DOMAIN file' \ DOMAIN file PROVE ~Replaced(k)'
    BY <1>1, <1>3, <1>8
  <1> QED BY <1>9, <1>10

\* Two lines that wait have different names: the later one would have replaced
\* the other.
LEMMA WaitsOnce ==
  ASSUME TypeInv, Known, NEW k \in Children, NEW m \in Children,
         Waits(k), Waits(m), file[k].name = file[m].name
  PROVE  k = m
  <1>1. DOMAIN file = 1 .. Len(file) /\ Len(file) \in Nat
    BY DEF TypeInv, TypeOK
  <1>2. ASSUME NEW i \in DOMAIN file, NEW p, Parents(p) = {} PROVE Nodes(p, 0, i) = {}
    <2>1. Nodes(p, 0, Len(file) + 1) = {}
      BY <1>2, NoNodes
    <2> QED BY <2>1, <1>1 DEF Nodes
  <1>3. ASSUME NEW i \in Children, NEW j \in Children, Waits(i), Waits(j), file[i].name = file[j].name, i < j
        PROVE  FALSE
    BY <1>2, <1>3 DEF Waits, Replaced, Children
  <1> QED BY <1>1, <1>3 DEF Children

\* A line is only read into ret as the file has it: Known and WaitingHeld, for
\* each kind of line.
LEMMA InitLinesInv == Init => LinesInv
  BY DEF Init, LinesInv, Known, WaitingHeld, Children

LEMMA SkipLinesInv == ASSUME TypeInv, LinesInv, NEW l \in Line, SkipLine(l) PROVE LinesInv'
  <1>1. Read(l) /\ ~IsChild(l) /\ ~IsNode(l) /\ UNCHANGED <<ret, orphanedChildren>>
    BY DEF SkipLine, IsChild, IsNode
  <1>2. \A p : Parents(p)' = Parents(p)
    BY <1>1 DEF Parents
  <1>3. Known'
    <2>1. \A j \in DOMAIN file' : IsNode(file'[j]) => j \in DOMAIN file
      BY <1>1, FileTypes
    <2> QED BY <2>1, <1>1, <1>2, FileTypes DEF LinesInv, Known, Parents
  <1>4. Children' = Children /\ \A k \in Children : k \in DOMAIN file /\ file'[k] = file[k]
    BY <1>1, ChildrenNext, FileTypes DEF Children
  <1>5. \A k \in Children : Replaced(k)' <=> Replaced(k)
    BY <1>1, <1>4, ReplacedNext DEF LinesInv
  <1>6. \A k \in Children : Waits(k)' <=> Waits(k)
    BY <1>1, <1>2, <1>4, <1>5 DEF Waits, ParentIP
  <1>7. WaitingHeld'
    BY <1>1, <1>4, <1>6 DEF LinesInv, WaitingHeld, Waiting, ParentIP
  <1> QED BY <1>3, <1>7 DEF LinesInv

\* The addresses of the hosts stay as they are when a child is added.
LEMMA ChildKeeps ==
  ASSUME TypeInv, NEW l \in Line, AddChild(l)
  PROVE  /\ DOMAIN ret' = DOMAIN ret /\ \A m \in DOMAIN ret : ret'[m].ip = ret[m].ip
         /\ \A p : Parents(p)' = Parents(p)
  <1> DEFINE h == FirstParent(ParentIP(l))
  <1>1. /\ h \in DOMAIN ret
        /\ ret' = [ret EXCEPT ![h] = [ret[h] EXCEPT !.children = Append(ret[h].children, NewChild(l))]]
    BY ChildAdded
  <1> HIDE DEF h
  <1>2. ret[h] \in Host
    BY <1>1, HostTypes
  <1>3. DOMAIN ret' = DOMAIN ret /\ \A m \in DOMAIN ret : ret'[m].ip = ret[m].ip
    BY <1>1, <1>2 DEF Host
  <1> QED BY <1>3 DEF Parents

LEMMA ChildLinesInv == ASSUME TypeInv, LinesInv, NEW l \in Line, AddChild(l) PROVE LinesInv'
  <1>1. Read(l) /\ IsChild(l) /\ ~IsNode(l) /\ UNCHANGED orphanedChildren /\ Parents(ParentIP(l)) # {}
    BY DEF AddChild, IsChild, IsNode
  <1>2. \A p : Parents(p)' = Parents(p)
    BY ChildKeeps
  <1>3. Known'
    <2>1. \A j \in DOMAIN file' : IsNode(file'[j]) => j \in DOMAIN file
      BY <1>1, FileTypes
    <2>2. \A j \in DOMAIN file' : IsNode(file'[j]) => Parents(file'[j].ip) # {}
      BY <2>1, <1>1, FileTypes DEF LinesInv, Known
    <2>3. \A j \in DOMAIN file' : IsNode(file'[j]) => Parents(file[j].ip)' # {}
      BY <2>2, ChildKeeps DEF Parents
    <2>4. \A j \in DOMAIN file : j \in DOMAIN file' /\ file'[j] = file[j]
      BY <1>1, FileTypes
    <2>5. \A m \in DOMAIN ret' : \E j \in DOMAIN file' : IsNode(file'[j]) /\ file'[j].ip = ret'[m].ip
      BY <2>4, ChildKeeps DEF LinesInv, Known
    <2> QED BY <2>3, <2>5 DEF Known, IsNode, ParentIP
  <1>4. /\ Children' = Children \cup {Len(file) + 1} /\ file'[Len(file) + 1] = l
        /\ \A k \in Children : k \in DOMAIN file /\ file'[k] = file[k]
    BY <1>1, ChildrenNext, FileTypes DEF Children
  <1>5. \A k \in Children : Replaced(k)' <=> Replaced(k)
    BY <1>1, <1>4, ReplacedNext DEF LinesInv
  <1>6. \A k \in Children : Waits(k)' <=> Waits(k)
    BY <1>1, <1>2, <1>4, <1>5 DEF Waits, ParentIP
  <1>7. \A k \in Children' : Waits(k)' => k \in Children
    BY <1>1, <1>2, <1>4 DEF Waits, ParentIP
  <1>8. WaitingHeld'
    BY <1>1, <1>4, <1>6, <1>7 DEF LinesInv, WaitingHeld, Waiting, ParentIP
  <1> QED BY <1>3, <1>8 DEF LinesInv

LEMMA OrphanLinesInv == ASSUME TypeInv, LinesInv, NEW l \in Line, Orphan(l) PROVE LinesInv'
  <1>1. Read(l) /\ IsChild(l) /\ ~IsNode(l) /\ UNCHANGED ret /\ Parents(ParentIP(l)) = {}
    BY DEF Orphan, IsChild, IsNode
  <1>2. \A p : Parents(p)' = Parents(p)
    BY <1>1 DEF Parents
  <1>3. Known'
    <2>1. \A j \in DOMAIN file' : IsNode(file'[j]) => j \in DOMAIN file
      BY <1>1, FileTypes
    <2> QED BY <2>1, <1>1, <1>2, FileTypes DEF LinesInv, Known, Parents
  <1>4. /\ Children' = Children \cup {Len(file) + 1} /\ file'[Len(file) + 1] = l
        /\ Len(file) + 1 \in DOMAIN file' \ DOMAIN file
        /\ \A k \in Children : k \in DOMAIN file /\ file'[k] = file[k]
    BY <1>1, ChildrenNext, FileTypes DEF Children
  <1>5. \A k \in Children : Replaced(k)' <=>
            Replaced(k) \/ (l.name = file[k].name /\ Parents(ParentIP(file[k])) = {})
    BY <1>1, <1>4, ReplacedNext DEF LinesInv
  <1>6. \A k \in Children : Waits(k)' <=> Waits(k) /\ file[k].name # l.name
    BY <1>1, <1>2, <1>4, <1>5 DEF Waits, ParentIP
  <1>7. \A k \in Children' \ Children : Waits(k)'
    BY <1>1, <1>2, <1>4, ReplacedNext DEF LinesInv, Waits, ParentIP
  <1>8. /\ DOMAIN orphanedChildren' = DOMAIN orphanedChildren \cup {l.name}
        /\ orphanedChildren'[l.name] = Waiting(l)
        /\ \A n \in DOMAIN orphanedChildren : n # l.name => orphanedChildren'[n] = orphanedChildren[n]
    BY DEF Orphan
  <1>9. ASSUME NEW k \in Children', Waits(k)'
        PROVE  /\ file'[k].name \in DOMAIN orphanedChildren'
               /\ orphanedChildren'[file'[k].name] = Waiting(file'[k])
    <2>1. CASE k \in Children
      BY <2>1, <1>4, <1>6, <1>8, <1>9 DEF LinesInv, WaitingHeld
    <2>2. CASE k = Len(file) + 1
      BY <2>2, <1>4, <1>8
    <2> QED BY <2>1, <2>2, <1>4
  <1>10. ASSUME NEW n \in DOMAIN orphanedChildren'
         PROVE  \E k \in Children' : Waits(k)' /\ file'[k].name = n
    <2>1. CASE n = l.name
      BY <2>1, <1>4, <1>7, ChildrenNext, <1>1
    <2>2. CASE n \in DOMAIN orphanedChildren /\ n # l.name
      BY <2>2, <1>4, <1>6 DEF LinesInv, WaitingHeld
    <2> QED BY <2>1, <2>2, <1>8
  <1>11. WaitingHeld'
    BY <1>9, <1>10 DEF WaitingHeld, Waiting, ParentIP
  <1> QED BY <1>3, <1>11 DEF LinesInv

LEMMA NodeLinesInv == ASSUME TypeInv, LinesInv, NEW l \in Line, AddHost(l) PROVE LinesInv'
  <1>1. Read(l) /\ IsNode(l) /\ ~IsChild(l)
    BY DEF AddHost, IsChild, IsNode
  <1>2. PICK names \in [1 .. Cardinality(Adopted(l.ip)) -> Adopted(l.ip)] : ret' = Append(ret, NewHost(l, names))
    BY HostAdded
  <1>3. NewHost(l, names) \in Host /\ NewHost(l, names).ip = l.ip
    BY <1>1, NewHostType, AdoptedFinite
  <1>4. ret \in Seq(Host) /\ Len(ret) \in Nat /\ DOMAIN ret = 1 .. Len(ret)
    BY HostTypes DEF TypeInv, TypeOK
  <1>5. /\ DOMAIN ret' = DOMAIN ret \cup {Len(ret) + 1} /\ ret'[Len(ret) + 1].ip = l.ip
        /\ \A h \in DOMAIN ret : ret'[h] = ret[h]
    BY <1>2, <1>3, <1>4
  <1>6. \A p : Parents(p)' = {} <=> Parents(p) = {} /\ p # l.ip
    BY <1>5 DEF Parents
  <1>7. /\ DOMAIN file' = DOMAIN file \cup {Len(file) + 1} /\ file'[Len(file) + 1] = l
        /\ \A k \in DOMAIN file : file'[k] = file[k]
    <2>1. Len(file) \in Nat /\ DOMAIN file = 1 .. Len(file) /\ DOMAIN file' = 1 .. Len(file) + 1
      BY <1>1, FileTypes
    <2>2. DOMAIN file' = DOMAIN file \cup {Len(file) + 1}
      BY <2>1
    <2> QED BY <2>2, <1>1, FileTypes
  <1>8. Known'
    <2>1. \A j \in DOMAIN file : IsNode(file[j]) => Parents(file[j].ip) # {}
      BY DEF LinesInv, Known
    <2>2. \A j \in DOMAIN file' : IsNode(file'[j]) => Parents(file[j].ip)' # {}
      BY <2>1, <1>5, <1>7 DEF Parents
    <2>3. \A h \in DOMAIN ret : \E j \in DOMAIN file : IsNode(file[j]) /\ file[j].ip = ret[h].ip
      BY DEF LinesInv, Known
    <2>4. \A m \in DOMAIN ret' : \E j \in DOMAIN file' : IsNode(file'[j]) /\ file'[j].ip = ret'[m].ip
      BY <2>3, <1>1, <1>5, <1>7
    <2> QED BY <2>2, <2>4 DEF Known, IsNode, ParentIP
  <1>9. Children' = Children /\ \A k \in Children : k \in DOMAIN file /\ file'[k] = file[k]
    BY <1>1, <1>7, ChildrenNext DEF Children
  <1>10. \A k \in Children : Replaced(k)' <=> Replaced(k)
    BY <1>1, <1>9, ReplacedNext DEF LinesInv
  <1>11. \A k \in Children : Waits(k)' <=> Waits(k) /\ ParentIP(file[k]) # l.ip
    BY <1>6, <1>9, <1>10 DEF Waits, ParentIP
  <1>12. /\ DOMAIN orphanedChildren' = {n \in DOMAIN orphanedChildren : orphanedChildren[n].parent # l.ip}
         /\ \A n \in DOMAIN orphanedChildren' : orphanedChildren'[n] = orphanedChildren[n]
    BY DEF AddHost, Adopted
  <1>13. \A k \in Children : Waiting(file[k]).parent = ParentIP(file[k])
    BY DEF Waiting
  <1>14. \A k \in Children : Waits(k)' =>
            /\ file[k].name \in DOMAIN orphanedChildren'
            /\ orphanedChildren'[file[k].name] = Waiting(file[k])
    BY <1>11, <1>12, <1>13 DEF LinesInv, WaitingHeld
  <1>15. \A n \in DOMAIN orphanedChildren' : \E k \in Children : Waits(k)' /\ file[k].name = n
    BY <1>11, <1>12, <1>13 DEF LinesInv, WaitingHeld
  <1>16. WaitingHeld'
    BY <1>9, <1>14, <1>15 DEF WaitingHeld, Waiting, ParentIP
  <1> QED BY <1>8, <1>16 DEF LinesInv

LEMMA AttachKeeps ==
  ASSUME TypeInv, Attach
  PROVE  /\ DOMAIN ret' = DOMAIN ret
         /\ \A h \in DOMAIN ret :
              /\ ret'[h].name = ret[h].name /\ ret'[h].ip = ret[h].ip
              /\ DOMAIN ret'[h].children = DOMAIN ret[h].children
              /\ \A i \in DOMAIN ret[h].children :
                   /\ ret'[h].children[i].name = ret[h].children[i].name
                   /\ ret'[h].children[i].ip = ret[h].children[i].ip
  <1>1. SUFFICES ASSUME NEW h \in DOMAIN ret
                 PROVE  /\ ret'[h].name = ret[h].name /\ ret'[h].ip = ret[h].ip
                        /\ DOMAIN ret'[h].children = DOMAIN ret[h].children
                        /\ \A i \in DOMAIN ret[h].children :
                             /\ ret'[h].children[i].name = ret[h].children[i].name
                             /\ ret'[h].children[i].ip = ret[h].children[i].ip
    BY Attached
  <1>2. CASE h = hostIdx
    BY <1>2, Attached, WithServicesIs
  <1>3. CASE h # hostIdx
    BY <1>3, Attached
  <1> QED BY <1>2, <1>3

LEMMA StillLinesInv ==
  ASSUME LinesInv, UNCHANGED <<file, orphanedChildren>>, DOMAIN ret' = DOMAIN ret,
         \A h \in DOMAIN ret : ret'[h].ip = ret[h].ip
  PROVE  LinesInv'
  <1>1. \A p : Parents(p)' = Parents(p)
    BY DEF Parents
  <1>2. Known'
    BY DEF LinesInv, Known, Parents, IsNode, ParentIP
  <1>3. Children' = Children /\ \A k : Replaced(k)' <=> Replaced(k)
    BY DEF Children, Replaced, Nodes, IsNode, IsChild, ParentIP
  <1>4. \A k : Waits(k)' <=> Waits(k)
    BY <1>1, <1>3 DEF Waits, ParentIP
  <1>5. WaitingHeld'
    BY <1>3, <1>4 DEF LinesInv, WaitingHeld, Waiting, ParentIP
  <1> QED BY <1>2, <1>5 DEF LinesInv

LEMMA NextLinesInv == TypeInv /\ LinesInv /\ [Next]_vars => LinesInv'
  <1> SUFFICES ASSUME TypeInv, LinesInv, [Next]_vars PROVE LinesInv'
    OBVIOUS
  <1>1. CASE \E l \in Line : SkipLine(l) \/ AddChild(l) \/ Orphan(l) \/ AddHost(l)
    BY <1>1, SkipLinesInv, ChildLinesInv, OrphanLinesInv, NodeLinesInv
  <1>2. CASE (\E n \in 0 .. MaxServices : \E s \in [1 .. n -> Name] : ReadServices(s)) \/ ReadFails \/ Publish
    BY <1>2, StillLinesInv DEF ReadServices, ReadFails, Publish
  <1>3. CASE Attach
    BY <1>3, AttachKeeps, StillLinesInv DEF Attach
  <1>4. CASE UNCHANGED vars
    BY <1>4, StillLinesInv
  <1> QED BY <1>1, <1>2, <1>3, <1>4 DEF Next

LEMMA LinesHold == Spec => [](TypeInv /\ LinesInv)
  <1>1. Init => LinesInv
    BY InitLinesInv
  <1>2. TypeInv /\ LinesInv /\ [Next]_vars => LinesInv'
    BY NextLinesInv
  <1> QED BY <1>1, <1>2, InitTypeInv, NextTypeInv, PTL DEF Spec

-----------------------------------------------------------------------------
(* Every host is a child of its node: the two sets ChildrenComplete counts *)

Held(h, n, ip) ==
    {i \in DOMAIN ret[h].children : ret[h].children[i].name = n /\ ret[h].children[i].ip = ip}

Due(h, n, ip) ==
    {k \in Children : /\ file[k].name = n /\ file[k].ip = ip
                      /\ ParentIP(file[k]) = ret[h].ip /\ ~Replaced(k)}

\* The sizes agree for a host of ret.
Served(h, n, ip) ==
    Cardinality(Held(h, n, ip)) = IF IsFirst(h) THEN Cardinality(Due(h, n, ip)) ELSE 0

LEMMA ServedIs ==
  /\ ChildrenComplete => \A h \in DOMAIN ret, n \in Name, ip \in IP : Served(h, n, ip)
  /\ (\A h \in DOMAIN ret', n \in Name, ip \in IP : Served(h, n, ip)') => ChildrenComplete'
  <1>1. ChildrenComplete => \A h \in DOMAIN ret, n \in Name, ip \in IP : Served(h, n, ip)
    BY DEF ChildrenComplete, Served, Held, Due
  <1>2. (\A h \in DOMAIN ret', n \in Name, ip \in IP : Served(h, n, ip)') => ChildrenComplete'
    BY DEF ChildrenComplete, Served, Held, Due
  <1> QED BY <1>1, <1>2

LEMMA HeldFinite ==
  ASSUME TypeInv, NEW h \in DOMAIN ret, NEW n, NEW ip
  PROVE  IsFiniteSet(Held(h, n, ip))
  <1>1. DOMAIN ret[h].children = 1 .. Len(ret[h].children) /\ Len(ret[h].children) \in Nat
    BY HostTypes
  <1>2. IsFiniteSet(DOMAIN ret[h].children)
    BY <1>1, FS_Interval
  <1>3. Held(h, n, ip) \in SUBSET DOMAIN ret[h].children
    BY DEF Held
  <1> QED BY <1>2, <1>3, FS_Subset

LEMMA ChildrenFinite ==
  ASSUME TypeInv
  PROVE  IsFiniteSet(Children) /\ \A S \in SUBSET Children : IsFiniteSet(S) /\ Cardinality(S) \in Nat
  <1>1. DOMAIN file = 1 .. Len(file) /\ Len(file) \in Nat
    BY DEF TypeInv, TypeOK
  <1>2. IsFiniteSet(DOMAIN file) /\ Children \in SUBSET DOMAIN file
    BY <1>1, FS_Interval DEF Children
  <1>3. IsFiniteSet(Children)
    BY <1>2, FS_Subset
  <1> QED BY <1>3, FS_Subset, FS_CardinalityType

\* Nothing a host holds or is due changes.
LEMMA StillServed ==
  ASSUME NEW h, NEW n, NEW ip, Served(h, n, ip), Held(h, n, ip)' = Held(h, n, ip),
         IsFirst(h)' <=> IsFirst(h), Due(h, n, ip)' = Due(h, n, ip)
  PROVE  Served(h, n, ip)'
  BY DEF Served

LEMMA SkipComplete ==
  ASSUME TypeInv, LinesInv, ChildrenComplete, NEW l \in Line, SkipLine(l)
  PROVE  ChildrenComplete'
  <1>1. Read(l) /\ ~IsChild(l) /\ UNCHANGED ret
    BY DEF SkipLine, IsChild
  <1>2. Children' = Children /\ \A k \in Children : k \in DOMAIN file /\ file'[k] = file[k]
    BY <1>1, ChildrenNext, FileTypes DEF Children
  <1>3. \A k \in Children : Replaced(k)' <=> Replaced(k)
    BY <1>1, <1>2, ReplacedNext DEF LinesInv
  <1>4. ASSUME NEW h \in DOMAIN ret, NEW n \in Name, NEW ip \in IP PROVE Served(h, n, ip)'
    <2>1. Due(h, n, ip)' = Due(h, n, ip)
      BY <1>1, <1>2, <1>3 DEF Due, ParentIP
    <2>2. Held(h, n, ip)' = Held(h, n, ip) /\ (IsFirst(h)' <=> IsFirst(h))
      BY <1>1 DEF Held, IsFirst
    <2> QED BY <2>1, <2>2, ServedIs, StillServed
  <1>5. \A h \in DOMAIN ret', n \in Name, ip \in IP : Served(h, n, ip)'
    BY <1>1, <1>4
  <1> QED BY <1>5, ServedIs

LEMMA OrphanComplete ==
  ASSUME TypeInv, LinesInv, ChildrenComplete, NEW l \in Line, Orphan(l)
  PROVE  ChildrenComplete'
  <1>1. Read(l) /\ IsChild(l) /\ UNCHANGED ret /\ Parents(ParentIP(l)) = {}
    BY DEF Orphan
  <1>2. /\ Children' = Children \cup {Len(file) + 1} /\ file'[Len(file) + 1] = l
        /\ \A k \in Children : k \in DOMAIN file /\ file'[k] = file[k]
    BY <1>1, ChildrenNext, FileTypes DEF Children
  <1>3. \A k \in Children : Replaced(k)' <=>
            Replaced(k) \/ (l.name = file[k].name /\ Parents(ParentIP(file[k])) = {})
    BY <1>1, <1>2, ReplacedNext DEF LinesInv
  <1>4. ASSUME NEW h \in DOMAIN ret, NEW n \in Name, NEW ip \in IP PROVE Served(h, n, ip)'
    <2>1. Parents(ret[h].ip) # {} /\ ParentIP(l) # ret[h].ip
      BY <1>1 DEF Parents
    <2>2. \A k \in Children : ParentIP(file[k]) = ret[h].ip => (Replaced(k)' <=> Replaced(k))
      BY <1>3, <2>1
    <2>3. Due(h, n, ip)' = Due(h, n, ip)
      BY <1>1, <1>2, <2>1, <2>2 DEF Due, ParentIP
    <2>4. Held(h, n, ip)' = Held(h, n, ip) /\ (IsFirst(h)' <=> IsFirst(h))
      BY <1>1 DEF Held, IsFirst
    <2> QED BY <2>3, <2>4, ServedIs, StillServed
  <1>5. \A h \in DOMAIN ret', n \in Name, ip \in IP : Served(h, n, ip)'
    BY <1>1, <1>4
  <1> QED BY <1>5, ServedIs

LEMMA ChildComplete ==
  ASSUME TypeInv, LinesInv, ChildrenComplete, NEW l \in Line, AddChild(l)
  PROVE  ChildrenComplete'
  <1> DEFINE g == FirstParent(ParentIP(l))
             c == ret[g].children
  <1>1. Read(l) /\ IsChild(l) /\ Parents(ParentIP(l)) # {}
    BY DEF AddChild
  <1>2. /\ Children' = Children \cup {Len(file) + 1} /\ file'[Len(file) + 1] = l
        /\ Len(file) + 1 \notin Children /\ Len(file) + 1 \in DOMAIN file' \ DOMAIN file
        /\ \A k \in Children : k \in DOMAIN file /\ file'[k] = file[k]
    BY <1>1, ChildrenNext, FileTypes DEF Children
  <1>3. \A k \in Children : Replaced(k)' <=> Replaced(k)
    BY <1>1, <1>2, ReplacedNext DEF LinesInv
  <1>4. /\ g \in DOMAIN ret /\ ret[g].ip = ParentIP(l) /\ IsFirst(g)
        /\ \A m \in DOMAIN ret : ret[m].ip = ParentIP(l) => g <= m
        /\ ret' = [ret EXCEPT ![g] = [ret[g] EXCEPT !.children = Append(c, NewChild(l))]]
    BY ChildAdded
  <1>5. DOMAIN ret' = DOMAIN ret /\ \A m \in DOMAIN ret : ret'[m].ip = ret[m].ip
    BY ChildKeeps
  <1>6. DOMAIN ret = 1 .. Len(ret) /\ Len(ret) \in Nat
    BY HostTypes
  <1>7. \A h \in DOMAIN ret : IsFirst(h)' <=> IsFirst(h)
    BY <1>5, <1>6 DEF IsFirst
  <1> HIDE DEF g
  <1>8. c \in Seq(Entry) /\ Len(c) \in Nat /\ DOMAIN c = 1 .. Len(c) /\ ret[g] \in Host /\ NewChild(l) \in Entry
    BY <1>1, <1>4, HostTypes, LineTypes DEF IsChild, NewChild, Entry
  <1>9. ret'[g].children = Append(c, NewChild(l)) /\ \A h \in DOMAIN ret : h # g => ret'[h] = ret[h]
    BY <1>4, <1>8 DEF Host
  <1>10. /\ DOMAIN ret'[g].children = DOMAIN c \cup {Len(c) + 1} /\ Len(c) + 1 \notin DOMAIN c
         /\ ret'[g].children[Len(c) + 1] = NewChild(l)
         /\ \A i \in DOMAIN c : ret'[g].children[i] = c[i]
    BY <1>8, <1>9
  <1>11. ASSUME NEW h \in DOMAIN ret, NEW n \in Name, NEW ip \in IP PROVE Served(h, n, ip)'
    <2> DEFINE Mine == l.name = n /\ l.ip = ip
    <2>1. Served(h, n, ip)
      BY ServedIs
    <2>2. CASE h # g
      <3>1. Held(h, n, ip)' = Held(h, n, ip)
        BY <2>2, <1>9 DEF Held
      <3>2. CASE IsFirst(h)
        <4>1. ret[h].ip # ParentIP(l)
          BY <2>2, <3>2, <1>4, <1>6 DEF IsFirst
        <4>2. Due(h, n, ip)' = Due(h, n, ip)
          BY <4>1, <1>2, <1>3, <1>5 DEF Due, ParentIP
        <4> QED BY <4>2, <3>1, <2>1, <1>7, StillServed
      <3>3. CASE ~IsFirst(h)
        BY <3>3, <3>1, <2>1, <1>7 DEF Served
      <3> QED BY <3>2, <3>3
    <2>3. CASE h = g
      <3>1. NewChild(l).name = l.name /\ NewChild(l).ip = l.ip
        BY DEF NewChild
      <3>2. Held(h, n, ip)' = IF Mine THEN Held(h, n, ip) \cup {Len(c) + 1} ELSE Held(h, n, ip)
        BY <2>3, <3>1, <1>10 DEF Held
      <3>3. Due(h, n, ip)' = IF Mine THEN Due(h, n, ip) \cup {Len(file) + 1} ELSE Due(h, n, ip)
        <4>1. \A k \in Children' \ Children : ~Replaced(k)'
          BY <1>1, <1>2, ReplacedNext DEF LinesInv
        <4> QED BY <2>3, <4>1, <1>2, <1>3, <1>4, <1>5 DEF Due, ParentIP
      <3>4. Len(c) + 1 \notin Held(h, n, ip) /\ Len(file) + 1 \notin Due(h, n, ip)
        BY <2>3, <1>2, <1>10 DEF Held, Due
      <3>5. IsFiniteSet(Held(h, n, ip)) /\ IsFiniteSet(Due(h, n, ip))
        <4>1. Due(h, n, ip) \in SUBSET Children
          BY DEF Due
        <4> QED BY <4>1, HeldFinite, ChildrenFinite
      <3>6. IsFirst(h) /\ IsFirst(h)'
        BY <2>3, <1>4, <1>7
      <3>7. Cardinality(Held(h, n, ip)) = Cardinality(Due(h, n, ip))
        BY <2>1, <3>6 DEF Served
      <3>8. Cardinality(Held(h, n, ip)') = Cardinality(Due(h, n, ip)')
        <4>1. /\ Cardinality(Held(h, n, ip) \cup {Len(c) + 1}) = Cardinality(Held(h, n, ip)) + 1
              /\ Cardinality(Due(h, n, ip) \cup {Len(file) + 1}) = Cardinality(Due(h, n, ip)) + 1
          BY <3>4, <3>5, FS_AddElement
        <4> QED BY <4>1, <3>2, <3>3, <3>7
      <3> QED BY <3>6, <3>8 DEF Served
    <2> QED BY <2>2, <2>3
  <1>12. \A h \in DOMAIN ret', n \in Name, ip \in IP : Served(h, n, ip)'
    BY <1>5, <1>11
  <1> QED BY <1>12, ServedIs

\* A set with at most one element has as many as another one that is empty with it.
LEMMA AtMostOne ==
  ASSUME NEW S, NEW T, IsFiniteSet(S), IsFiniteSet(T), S = {} <=> T = {},
         \A x, y \in S : x = y, \A x, y \in T : x = y
  PROVE  Cardinality(S) = Cardinality(T)
  <1>1. CASE S = {}
    BY <1>1
  <1>2. CASE S # {}
    <2>1. PICK x \in S, y \in T : TRUE
      BY <1>2
    <2>2. S = {x} /\ T = {y}
      BY <2>1
    <2> QED BY <2>2, FS_Singleton
  <1> QED BY <1>1, <1>2

LEMMA NodeComplete ==
  ASSUME TypeInv, LinesInv, ChildrenComplete, NEW l \in Line, AddHost(l)
  PROVE  ChildrenComplete'
  <1> DEFINE g == Len(ret) + 1
             D == 1 .. Cardinality(Adopted(l.ip))
  <1>1. Read(l) /\ IsNode(l) /\ ~IsChild(l)
    BY DEF AddHost, IsChild, IsNode
  <1>2. PICK names \in [D -> Adopted(l.ip)] :
          /\ \A i, j \in D : i # j => names[i] # names[j]
          /\ \A n \in Adopted(l.ip) : \E i \in D : names[i] = n
          /\ ret' = Append(ret, NewHost(l, names))
    BY HostAdded
  <1>3. NewHost(l, names) \in Host /\ NewHost(l, names).ip = l.ip
    BY <1>1, NewHostType, AdoptedFinite
  <1>4. ret \in Seq(Host) /\ Len(ret) \in Nat /\ DOMAIN ret = 1 .. Len(ret)
    BY HostTypes DEF TypeInv, TypeOK
  <1>5. /\ DOMAIN ret' = DOMAIN ret \cup {g} /\ ret'[g] = NewHost(l, names) /\ g \notin DOMAIN ret
        /\ \A h \in DOMAIN ret : ret'[h] = ret[h]
    BY <1>2, <1>3, <1>4
  <1>6. Children' = Children /\ \A k \in Children : k \in DOMAIN file /\ file'[k] = file[k]
    BY <1>1, ChildrenNext, FileTypes DEF Children
  <1>7. \A k \in Children : Replaced(k)' <=> Replaced(k)
    BY <1>1, <1>6, ReplacedNext DEF LinesInv
  <1>8. ASSUME NEW h \in DOMAIN ret, NEW n \in Name, NEW ip \in IP PROVE Served(h, n, ip)'
    <2>1. Held(h, n, ip)' = Held(h, n, ip)
      BY <1>5 DEF Held
    <2>2. IsFirst(h)' <=> IsFirst(h)
      BY <1>4, <1>5 DEF IsFirst
    <2>3. Due(h, n, ip)' = Due(h, n, ip)
      BY <1>5, <1>6, <1>7 DEF Due, ParentIP
    <2> QED BY <2>1, <2>2, <2>3, ServedIs, StillServed
  <1>9. ASSUME NEW n \in Name, NEW ip \in IP, NEW h, h = g PROVE Served(h, n, ip)'
    <2>1. ret'[h] = NewHost(l, names) /\ ret'[h].ip = l.ip
      BY <1>3, <1>5, <1>9
    <2>2. Held(h, n, ip)' = {i \in D : names[i] = n /\ orphanedChildren[n].ip = ip}
      BY <2>1 DEF Held, NewHost
    <2>3. Due(h, n, ip)' = {k \in Children : /\ file[k].name = n /\ file[k].ip = ip
                                             /\ ParentIP(file[k]) = l.ip /\ ~Replaced(k)}
      BY <2>1, <1>6, <1>7 DEF Due, ParentIP
    <2>4. IsFirst(h)' <=> Parents(l.ip) = {}
      BY <2>1, <1>4, <1>5, <1>9 DEF IsFirst, Parents
    <2>5. \A m \in Adopted(l.ip) : \E k \in Children : /\ Waits(k) /\ file[k].name = m
                                                       /\ ParentIP(file[k]) = l.ip
                                                       /\ file[k].ip = orphanedChildren[m].ip
      <3> SUFFICES ASSUME NEW m \in Adopted(l.ip)
                   PROVE  \E k \in Children : /\ Waits(k) /\ file[k].name = m
                                               /\ ParentIP(file[k]) = l.ip
                                               /\ file[k].ip = orphanedChildren[m].ip
        OBVIOUS
      <3>1. m \in DOMAIN orphanedChildren /\ orphanedChildren[m].parent = l.ip
        BY DEF Adopted
      <3>2. PICK k \in Children : Waits(k) /\ file[k].name = m
        BY <3>1 DEF LinesInv, WaitingHeld
      <3>3. orphanedChildren[m] = Waiting(file[k])
        BY <3>2 DEF LinesInv, WaitingHeld
      <3> QED BY <3>1, <3>2, <3>3 DEF Waiting
    <2>6. CASE Parents(l.ip) # {}
      <3>1. Adopted(l.ip) = {}
        BY <2>5, <2>6 DEF Waits
      <3>2. Held(h, n, ip)' = {}
        BY <3>1, <2>2, <1>2
      <3> QED BY <3>2, <2>4, <2>6, FS_EmptySet DEF Served
    <2>7. CASE Parents(l.ip) = {}
      <3>1. ASSUME NEW k \in Children, file[k].name = n, file[k].ip = ip, ParentIP(file[k]) = l.ip, ~Replaced(k)
            PROVE  Waits(k) /\ n \in Adopted(l.ip) /\ orphanedChildren[n].ip = ip
        <4>1. Waits(k)
          BY <3>1, <2>7 DEF Waits
        <4>2. n \in DOMAIN orphanedChildren /\ orphanedChildren[n] = Waiting(file[k])
          BY <4>1, <3>1 DEF LinesInv, WaitingHeld
        <4> QED BY <4>1, <4>2, <3>1 DEF Adopted, Waiting
      <3>2. \A k, m \in Due(h, n, ip)' : k = m
        BY <3>1, <2>3, WaitsOnce DEF LinesInv
      <3>3. \A i, j \in Held(h, n, ip)' : i = j
        BY <2>2, <1>2
      <3>4. Due(h, n, ip)' # {} => Held(h, n, ip)' # {}
        BY <3>1, <2>2, <2>3, <1>2
      <3>5. Held(h, n, ip)' # {} => Due(h, n, ip)' # {}
        BY <2>2, <2>3, <2>5, <1>2 DEF Waits
      <3>6. IsFiniteSet(Held(h, n, ip)') /\ IsFiniteSet(Due(h, n, ip)')
        <4>1. Held(h, n, ip)' \in SUBSET D /\ Due(h, n, ip)' \in SUBSET Children
          BY <2>2, <2>3
        <4>2. IsFiniteSet(D)
          BY AdoptedFinite, FS_Interval
        <4> QED BY <4>1, <4>2, FS_Subset, ChildrenFinite
      <3> HIDE DEF D
      <3>7. Cardinality(Held(h, n, ip)') = Cardinality(Due(h, n, ip)')
        BY <3>2, <3>3, <3>4, <3>5, <3>6, AtMostOne
      <3> QED BY <3>7, <2>4, <2>7 DEF Served
    <2> QED BY <2>6, <2>7
  <1>10. \A h \in DOMAIN ret', n \in Name, ip \in IP : Served(h, n, ip)'
    BY <1>5, <1>8, <1>9
  <1> QED BY <1>10, ServedIs

LEMMA StillComplete ==
  ASSUME TypeInv, ChildrenComplete, UNCHANGED file, DOMAIN ret' = DOMAIN ret,
         \A h \in DOMAIN ret :
            /\ ret'[h].ip = ret[h].ip
            /\ DOMAIN ret'[h].children = DOMAIN ret[h].children
            /\ \A i \in DOMAIN ret[h].children :
                 /\ ret'[h].children[i].name = ret[h].children[i].name
                 /\ ret'[h].children[i].ip = ret[h].children[i].ip
  PROVE  ChildrenComplete'
  <1>1. Children' = Children /\ \A k : Replaced(k)' <=> Replaced(k)
    BY DEF Children, Replaced, Nodes, IsNode, IsChild, ParentIP
  <1>2. DOMAIN ret = 1 .. Len(ret) /\ Len(ret) \in Nat
    BY HostTypes
  <1>3. ASSUME NEW h \in DOMAIN ret, NEW n \in Name, NEW ip \in IP PROVE Served(h, n, ip)'
    <2>1. Held(h, n, ip)' = Held(h, n, ip)
      BY DEF Held
    <2>2. IsFirst(h)' <=> IsFirst(h)
      BY <1>2 DEF IsFirst
    <2>3. Due(h, n, ip)' = Due(h, n, ip)
      BY <1>1 DEF Due, ParentIP
    <2> QED BY <2>1, <2>2, <2>3, ServedIs, StillServed
  <1>4. \A h \in DOMAIN ret', n \in Name, ip \in IP : Served(h, n, ip)'
    BY <1>3
  <1> QED BY <1>4, ServedIs

LEMMA NextComplete == TypeInv /\ LinesInv /\ ChildrenComplete /\ [Next]_vars => ChildrenComplete'
  <1> SUFFICES ASSUME TypeInv, LinesInv, ChildrenComplete, [Next]_vars PROVE ChildrenComplete'
    OBVIOUS
  <1>1. CASE \E l \in Line : SkipLine(l) \/ AddChild(l) \/ Orphan(l) \/ AddHost(l)
    BY <1>1, SkipComplete, ChildComplete, OrphanComplete, NodeComplete
  <1>2. CASE (\E n \in 0 .. MaxServices : \E s \in [1 .. n -> Name] : ReadServices(s)) \/ ReadFails \/ Publish
    BY <1>2, StillComplete DEF ReadServices, ReadFails, Publish
  <1>3. CASE Attach
    BY <1>3, AttachKeeps, StillComplete DEF Attach
  <1>4. CASE UNCHANGED vars
    BY <1>4, StillComplete
  <1> QED BY <1>1, <1>2, <1>3, <1>4 DEF Next

\* Complete: wherever its line is, a host is a child of the first node with its
\* parent's address and of no other, once for each of its lines, unless another
\* line of its name came to wait while it waited (parseHosts).
THEOREM Complete == Spec => []ChildrenComplete
  <1>1. Init => ChildrenComplete
    BY DEF Init, ChildrenComplete
  <1> QED BY <1>1, NextComplete, LinesHold, PTL DEF Spec

-----------------------------------------------------------------------------
(* The total: entries, hosts that wait and hosts that were replaced.       *)

Lost == {k \in Children : Replaced(k)}

\* What the lines that were read add up to
AddsUp ==
    totalCount = Cardinality(Entries) + Cardinality(DOMAIN orphanedChildren)
                 + Cardinality({k \in Children : Replaced(k)})

Totals == IsFiniteSet(Entries) /\ AddsUp

LEMMA LostFinite == ASSUME TypeInv PROVE IsFiniteSet(Lost) /\ Cardinality(Lost) \in Nat
  <1>1. Lost \in SUBSET Children
    BY DEF Lost
  <1> QED BY <1>1, ChildrenFinite

LEMMA OrphansFinite ==
  ASSUME TypeInv
  PROVE  IsFiniteSet(DOMAIN orphanedChildren) /\ Cardinality(DOMAIN orphanedChildren) \in Nat
  <1>1. DOMAIN orphanedChildren \in SUBSET Name
    BY DEF TypeInv, TypeOK
  <1> QED BY <1>1, FS_Subset, FS_CardinalityType, ConstantTypes

LEMMA EntryIs ==
  /\ \A e : e \in Entries <=>
       \E h \in DOMAIN ret : \E i \in {0} \cup DOMAIN ret[h].children : e = [host |-> h, no |-> i]
  /\ \A e : e \in Entries' <=>
       \E h \in DOMAIN ret' : \E i \in {0} \cup DOMAIN ret'[h].children : e = [host |-> h, no |-> i]
  /\ \A h, i, g, j : [host |-> h, no |-> i] = [host |-> g, no |-> j] => h = g /\ i = j
  <1>1. \A h, i, g, j : [host |-> h, no |-> i] = [host |-> g, no |-> j] => h = g /\ i = j
    <2> TAKE h, i, g, j
    <2>1. [host |-> h, no |-> i].host = h /\ [host |-> h, no |-> i].no = i
      OBVIOUS
    <2>2. [host |-> g, no |-> j].host = g /\ [host |-> g, no |-> j].no = j
      OBVIOUS
    <2> QED BY <2>1, <2>2
  <1>2. \A e : e \in Entries <=>
          \E h \in DOMAIN ret : \E i \in {0} \cup DOMAIN ret[h].children : e = [host |-> h, no |-> i]
    <2> DEFINE Block(h) == {[host |-> h, no |-> i] : i \in {0} \cup DOMAIN ret[h].children}
    <2>1. Entries = UNION {Block(h) : h \in DOMAIN ret}
      BY DEF Entries
    <2>2. \A h, e : e \in Block(h) <=> \E i \in {0} \cup DOMAIN ret[h].children : e = [host |-> h, no |-> i]
      OBVIOUS
    <2> HIDE DEF Block
    <2>3. \A e : e \in Entries <=> \E h \in DOMAIN ret : e \in Block(h)
      BY <2>1
    <2> QED BY <2>2, <2>3
  <1>3. \A e : e \in Entries' <=>
          \E h \in DOMAIN ret' : \E i \in {0} \cup DOMAIN ret'[h].children : e = [host |-> h, no |-> i]
    <2> DEFINE Block(h) == {[host |-> h, no |-> i] : i \in {0} \cup DOMAIN ret'[h].children}
    <2>1. Entries' = UNION {Block(h) : h \in DOMAIN ret'}
      BY DEF Entries
    <2>2. \A h, e : e \in Block(h) <=> \E i \in {0} \cup DOMAIN ret'[h].children : e = [host |-> h, no |-> i]
      OBVIOUS
    <2> HIDE DEF Block
    <2>3. \A e : e \in Entries' <=> \E h \in DOMAIN ret' : e \in Block(h)
      BY <2>1
    <2> QED BY <2>2, <2>3
  <1> QED BY <1>1, <1>2, <1>3

LEMMA StillEntries ==
  ASSUME DOMAIN ret' = DOMAIN ret,
         \A h \in DOMAIN ret : DOMAIN ret'[h].children = DOMAIN ret[h].children
  PROVE  Entries' = Entries
  BY DEF Entries

LEMMA StillTotals ==
  ASSUME Totals, Entries' = Entries, Lost' = Lost, UNCHANGED <<orphanedChildren, totalCount>>
  PROVE  Totals'
  BY DEF Totals, AddsUp, Lost

LEMMA SkipTotals == ASSUME TypeInv, LinesInv, Totals, NEW l \in Line, SkipLine(l) PROVE Totals'
  <1>1. Read(l) /\ ~IsChild(l) /\ UNCHANGED <<ret, orphanedChildren, totalCount>>
    BY DEF SkipLine, IsChild
  <1>2. Children' = Children /\ \A k \in Children : k \in DOMAIN file
    BY <1>1, ChildrenNext DEF Children
  <1>3. Lost' = Lost
    BY <1>1, <1>2, ReplacedNext DEF LinesInv, Lost
  <1> QED BY <1>1, <1>3, StillEntries, StillTotals

LEMMA ChildTotals == ASSUME TypeInv, LinesInv, Totals, NEW l \in Line, AddChild(l) PROVE Totals'
  <1> DEFINE g == FirstParent(ParentIP(l))
             c == ret[g].children
             e == [host |-> g, no |-> Len(c) + 1]
  <1>1. Read(l) /\ IsChild(l) /\ Parents(ParentIP(l)) # {} /\ UNCHANGED orphanedChildren /\ totalCount' = totalCount + 1
    BY DEF AddChild
  <1>2. /\ Children' = Children \cup {Len(file) + 1} /\ Len(file) + 1 \in DOMAIN file' \ DOMAIN file
        /\ \A k \in Children : k \in DOMAIN file
    BY <1>1, ChildrenNext, FileTypes DEF Children
  <1>3. Lost' = Lost
    BY <1>1, <1>2, ReplacedNext DEF LinesInv, Lost
  <1>4. /\ g \in DOMAIN ret
        /\ ret' = [ret EXCEPT ![g] = [ret[g] EXCEPT !.children = Append(c, NewChild(l))]]
    BY ChildAdded
  <1> HIDE DEF g
  <1>5. c \in Seq(Entry) /\ Len(c) \in Nat /\ DOMAIN c = 1 .. Len(c) /\ ret[g] \in Host /\ NewChild(l) \in Entry
    BY <1>1, <1>4, HostTypes, LineTypes DEF IsChild, NewChild, Entry
  <1>6. /\ DOMAIN ret' = DOMAIN ret /\ ret'[g].children = Append(c, NewChild(l))
        /\ \A h \in DOMAIN ret : h # g => ret'[h] = ret[h]
    BY <1>4, <1>5 DEF Host
  <1>7. DOMAIN ret'[g].children = DOMAIN c \cup {Len(c) + 1} /\ Len(c) + 1 \notin DOMAIN c /\ Len(c) + 1 # 0
    BY <1>5, <1>6
  <1>8. Entries' = Entries \cup {e} /\ e \notin Entries
    <2> HIDE DEF e, c
    <2>1. e = [host |-> g, no |-> Len(c) + 1]
      BY DEF e
    <2>2. e \notin Entries
      BY <2>1, <1>7, EntryIs DEF c
    <2>3. ASSUME NEW x \in Entries' PROVE x \in Entries \/ x = e
      <3>0. PICK h \in DOMAIN ret' : \E i \in {0} \cup DOMAIN ret'[h].children : x = [host |-> h, no |-> i]
        BY <2>3, EntryIs
      <3>1. PICK i \in {0} \cup DOMAIN ret'[h].children : x = [host |-> h, no |-> i]
        BY <3>0
      <3>2. CASE h = g
        BY <3>1, <3>2, <2>1, <1>4, <1>7, EntryIs DEF c
      <3>3. CASE h # g
        BY <3>1, <3>3, <1>6, EntryIs
      <3> QED BY <3>2, <3>3
    <2>4. ASSUME NEW x \in Entries \cup {e} PROVE x \in Entries'
      <3>1. CASE x = e
        BY <3>1, <2>1, <1>4, <1>6, <1>7, EntryIs
      <3>2. CASE x \in Entries
        <4>0. PICK h \in DOMAIN ret : \E i \in {0} \cup DOMAIN ret[h].children : x = [host |-> h, no |-> i]
          BY <3>2, EntryIs
        <4>1. PICK i \in {0} \cup DOMAIN ret[h].children : x = [host |-> h, no |-> i]
          BY <4>0
        <4>2. h \in DOMAIN ret' /\ i \in {0} \cup DOMAIN ret'[h].children
          BY <4>1, <1>6, <1>7 DEF c
        <4> QED BY <4>1, <4>2, EntryIs
      <3> QED BY <3>1, <3>2
    <2> QED BY <2>2, <2>3, <2>4
  <1>9. IsFiniteSet(Entries') /\ Cardinality(Entries') = Cardinality(Entries) + 1
    BY <1>8, FS_AddElement DEF Totals
  <1>10. Cardinality(Entries) \in Nat
    BY FS_CardinalityType DEF Totals
  <1>11. AddsUp'
    <2>1. totalCount = Cardinality(Entries) + Cardinality(DOMAIN orphanedChildren) + Cardinality(Lost)
      BY DEF Totals, AddsUp, Lost
    <2>2. totalCount' = Cardinality(Entries') + Cardinality(DOMAIN orphanedChildren') + Cardinality(Lost')
      BY <2>1, <1>1, <1>3, <1>9, <1>10, LostFinite, OrphansFinite
    <2> QED BY <2>2 DEF AddsUp, Lost
  <1> QED BY <1>9, <1>11 DEF Totals

\* A host that comes to wait takes the place of one of its name, which is lost,
\* or there was none.
LEMMA OrphanTotals == ASSUME TypeInv, LinesInv, Totals, NEW l \in Line, Orphan(l) PROVE Totals'
  <1>1. Read(l) /\ IsChild(l) /\ Parents(ParentIP(l)) = {} /\ UNCHANGED ret /\ totalCount' = totalCount + 1
    BY DEF Orphan
  <1>2. /\ Children' = Children \cup {Len(file) + 1} /\ Len(file) + 1 \in DOMAIN file' \ DOMAIN file
        /\ \A k \in Children : k \in DOMAIN file
    BY <1>1, ChildrenNext, FileTypes DEF Children
  <1>3. Lost' = Lost \cup {k \in Children : l.name = file[k].name /\ Parents(ParentIP(file[k])) = {}}
    BY <1>1, <1>2, ReplacedNext DEF LinesInv, Lost
  <1>4. Lost' = Lost \cup {k \in Children : Waits(k) /\ file[k].name = l.name}
    BY <1>3 DEF Lost, Waits
  <1>5. DOMAIN orphanedChildren' = DOMAIN orphanedChildren \cup {l.name}
    BY DEF Orphan
  <1>6. Entries' = Entries
    BY <1>1, StillEntries
  <1>7. Cardinality(DOMAIN orphanedChildren') + Cardinality(Lost') =
        Cardinality(DOMAIN orphanedChildren) + Cardinality(Lost) + 1
    <2>1. CASE l.name \in DOMAIN orphanedChildren
      <3>1. PICK k \in Children : Waits(k) /\ file[k].name = l.name
        BY <2>1 DEF LinesInv, WaitingHeld
      <3>2. {m \in Children : Waits(m) /\ file[m].name = l.name} = {k}
        BY <3>1, WaitsOnce DEF LinesInv
      <3>3. Lost' = Lost \cup {k} /\ k \notin Lost
        BY <3>1, <3>2, <1>4 DEF Lost, Waits
      <3>4. Cardinality(Lost') = Cardinality(Lost) + 1
        BY <3>3, LostFinite, FS_AddElement
      <3>5. DOMAIN orphanedChildren' = DOMAIN orphanedChildren
        BY <2>1, <1>5
      <3> QED BY <3>4, <3>5, LostFinite, OrphansFinite
    <2>2. CASE l.name \notin DOMAIN orphanedChildren
      <3>1. Lost' = Lost
        BY <2>2, <1>4 DEF LinesInv, WaitingHeld
      <3>2. Cardinality(DOMAIN orphanedChildren') = Cardinality(DOMAIN orphanedChildren) + 1
        BY <2>2, <1>5, OrphansFinite, FS_AddElement
      <3> QED BY <3>1, <3>2, LostFinite, OrphansFinite
    <2> QED BY <2>1, <2>2
  <1>8. AddsUp'
    <2>1. totalCount = Cardinality(Entries) + Cardinality(DOMAIN orphanedChildren) + Cardinality(Lost)
      BY DEF Totals, AddsUp, Lost
    <2>2. Cardinality(Entries) \in Nat /\ Cardinality(Lost) \in Nat /\ Cardinality(DOMAIN orphanedChildren) \in Nat
      BY FS_CardinalityType, LostFinite, OrphansFinite DEF Totals
    <2>3. Cardinality(Lost') \in Nat /\ Cardinality(DOMAIN orphanedChildren') \in Nat
      <3>1. Lost' \in SUBSET Children'
        BY DEF Lost
      <3>2. IsFiniteSet(Children \cup {Len(file) + 1})
        BY ChildrenFinite, FS_AddElement
      <3>3. IsFiniteSet(DOMAIN orphanedChildren \cup {l.name})
        BY OrphansFinite, FS_AddElement
      <3>4. IsFiniteSet(Lost')
        BY <3>1, <3>2, <1>2, FS_Subset
      <3> QED BY <3>3, <3>4, <1>5, FS_CardinalityType
    <2>4. totalCount' = Cardinality(Entries') + Cardinality(DOMAIN orphanedChildren') + Cardinality(Lost')
      BY <2>1, <2>2, <2>3, <1>1, <1>6, <1>7
    <2> QED BY <2>4 DEF AddsUp, Lost
  <1> QED BY <1>6, <1>8 DEF Totals

\* A node with its c children is c + 1 entries.
LEMMA BlockSize ==
  ASSUME NEW g, NEW c \in Nat, NEW B, B = {[host |-> g, no |-> i] : i \in 0 .. c}
  PROVE  IsFiniteSet(B) /\ Cardinality(B) = c + 1
  <1> DEFINE f == [i \in 0 .. c |-> [host |-> g, no |-> i]]
  <1>1. \A i, j \in 0 .. c : f[i] = f[j] => i = j
    BY EntryIs
  <1>2. f \in [0 .. c -> B] /\ \A x \in B : \E i \in 0 .. c : f[i] = x
    OBVIOUS
  <1> HIDE DEF f
  <1>3. f \in Injection(0 .. c, B) /\ f \in Surjection(0 .. c, B)
    BY <1>1, <1>2 DEF Injection, IsInjective, Surjection
  <1>4. ExistsBijection(0 .. c, B)
    BY <1>3 DEF ExistsBijection, Bijection
  <1>5. IsFiniteSet(0 .. c) /\ Cardinality(0 .. c) = c + 1
    BY FS_Interval
  <1> QED BY <1>4, <1>5, FS_Bijection

LEMMA NodeTotals == ASSUME TypeInv, LinesInv, Totals, NEW l \in Line, AddHost(l) PROVE Totals'
  <1> DEFINE g == Len(ret) + 1
             c == Cardinality(Adopted(l.ip))
             B == {[host |-> g, no |-> i] : i \in 0 .. c}
  <1>1. Read(l) /\ IsNode(l) /\ ~IsChild(l) /\ totalCount' = totalCount + 1
    BY DEF AddHost, IsChild, IsNode
  <1>2. PICK names \in [1 .. c -> Adopted(l.ip)] : ret' = Append(ret, NewHost(l, names))
    BY HostAdded
  <1>3. c \in Nat
    BY AdoptedFinite
  <1>4. NewHost(l, names) \in Host /\ DOMAIN NewHost(l, names).children = 1 .. c
    <2>1. DOMAIN names = 1 .. c
      OBVIOUS
    <2> QED BY <2>1, <1>1, <1>3, NewHostType DEF NewHost
  <1>5. ret \in Seq(Host) /\ Len(ret) \in Nat /\ DOMAIN ret = 1 .. Len(ret)
    BY HostTypes DEF TypeInv, TypeOK
  <1>6. /\ DOMAIN ret' = DOMAIN ret \cup {g} /\ g \notin DOMAIN ret
        /\ DOMAIN ret'[g].children = 1 .. c
        /\ \A h \in DOMAIN ret : ret'[h] = ret[h]
    BY <1>2, <1>4, <1>5
  <1>7. Children' = Children /\ \A k \in Children : k \in DOMAIN file
    BY <1>1, ChildrenNext DEF Children
  <1>8. Lost' = Lost
    BY <1>1, <1>7, ReplacedNext DEF LinesInv, Lost
  <1>9. IsFiniteSet(B) /\ Cardinality(B) = c + 1
    <2> HIDE DEF B, g, c
    <2>1. B = {[host |-> g, no |-> i] : i \in 0 .. c}
      BY DEF B
    <2> QED BY <2>1, <1>3, BlockSize
  <1>10. {0} \cup (1 .. c) = 0 .. c
    BY <1>3
  <1>11. \A x : x \in B <=> \E i \in {0} \cup DOMAIN ret'[g].children : x = [host |-> g, no |-> i]
    BY <1>6, <1>10
  <1> HIDE DEF B, g, c
  <1>12. Entries' = Entries \cup B
    <2>1. ASSUME NEW x \in Entries' PROVE x \in Entries \cup B
      <3>1. PICK h \in DOMAIN ret' : \E i \in {0} \cup DOMAIN ret'[h].children : x = [host |-> h, no |-> i]
        BY <2>1, EntryIs
      <3>2. CASE h = g
        BY <3>1, <3>2, <1>11
      <3>3. CASE h \in DOMAIN ret
        BY <3>1, <3>3, <1>6, EntryIs
      <3> QED BY <3>2, <3>3, <1>6
    <2>2. ASSUME NEW x \in Entries PROVE x \in Entries'
      <3>1. PICK h \in DOMAIN ret : \E i \in {0} \cup DOMAIN ret[h].children : x = [host |-> h, no |-> i]
        BY <2>2, EntryIs
      <3> QED BY <3>1, <1>6, EntryIs
    <2>3. ASSUME NEW x \in B PROVE x \in Entries'
      BY <2>3, <1>6, <1>11, EntryIs
    <2> QED BY <2>1, <2>2, <2>3
  <1>13. Entries \cap B = {}
    BY <1>6, <1>11, EntryIs
  <1>14. IsFiniteSet(Entries') /\ Cardinality(Entries') = Cardinality(Entries) + c + 1
    <2>1. IsFiniteSet(Entries \cup B) /\ Cardinality(Entries \cup B) = Cardinality(Entries) + Cardinality(B) - 0
      BY <1>9, <1>13, FS_Union, FS_EmptySet DEF Totals
    <2>2. Cardinality(Entries) \in Nat
      BY FS_CardinalityType DEF Totals
    <2> QED BY <2>1, <2>2, <1>3, <1>9, <1>12
  <1>15. Cardinality(DOMAIN orphanedChildren') = Cardinality(DOMAIN orphanedChildren) - c
    <2>1. DOMAIN orphanedChildren' = DOMAIN orphanedChildren \ Adopted(l.ip)
      BY DEF AddHost
    <2>2. DOMAIN orphanedChildren \cap Adopted(l.ip) = Adopted(l.ip)
      BY AdoptedFinite
    <2>3. Cardinality(DOMAIN orphanedChildren \ Adopted(l.ip)) =
            Cardinality(DOMAIN orphanedChildren) - Cardinality(DOMAIN orphanedChildren \cap Adopted(l.ip))
      BY OrphansFinite, FS_Difference
    <2> QED BY <2>1, <2>2, <2>3 DEF c
  <1>16. AddsUp'
    <2>1. totalCount = Cardinality(Entries) + Cardinality(DOMAIN orphanedChildren) + Cardinality(Lost)
      BY DEF Totals, AddsUp, Lost
    <2>2. Cardinality(Entries) \in Nat /\ Cardinality(Lost) \in Nat /\ Cardinality(DOMAIN orphanedChildren) \in Nat
      BY FS_CardinalityType, LostFinite, OrphansFinite DEF Totals
    <2>3. totalCount' = Cardinality(Entries') + Cardinality(DOMAIN orphanedChildren') + Cardinality(Lost')
      BY <2>1, <2>2, <1>1, <1>3, <1>8, <1>14, <1>15
    <2> QED BY <2>3 DEF AddsUp, Lost
  <1> QED BY <1>14, <1>16 DEF Totals

LEMMA QuietTotals ==
  ASSUME Totals, UNCHANGED <<file, orphanedChildren, totalCount>>, DOMAIN ret' = DOMAIN ret,
         \A h \in DOMAIN ret : DOMAIN ret'[h].children = DOMAIN ret[h].children
  PROVE  Totals'
  <1>1. Lost' = Lost
    BY DEF Lost, Children, Replaced, Nodes, IsNode, IsChild, ParentIP
  <1> QED BY <1>1, StillEntries, StillTotals

LEMMA NextTotals == TypeInv /\ LinesInv /\ Totals /\ [Next]_vars => Totals'
  <1> SUFFICES ASSUME TypeInv, LinesInv, Totals, [Next]_vars PROVE Totals'
    OBVIOUS
  <1>1. CASE \E l \in Line : SkipLine(l) \/ AddChild(l) \/ Orphan(l) \/ AddHost(l)
    BY <1>1, SkipTotals, ChildTotals, OrphanTotals, NodeTotals
  <1>2. CASE (\E n \in 0 .. MaxServices : \E s \in [1 .. n -> Name] : ReadServices(s)) \/ ReadFails \/ Publish
    BY <1>2, QuietTotals DEF ReadServices, ReadFails, Publish
  <1>3. CASE Attach
    BY <1>3, AttachKeeps, QuietTotals DEF Attach
  <1>4. CASE UNCHANGED vars
    BY <1>4, QuietTotals
  <1> QED BY <1>1, <1>2, <1>3, <1>4 DEF Next

\* The dtdlink names are counted, and what is published is what was counted.
LinksCounted ==
    /\ IsFiniteSet(DtdLinks) /\ count = Cardinality(DtdLinks)
    /\ pc = "done" => published.totalCount = totalCount /\ published.nodesCount = count

LEMMA LinkRead ==
  ASSUME TypeInv, LinksCounted, NEW l \in Line, Read(l),
         count' = IF l.kind = "dtdlink" THEN count + 1 ELSE count
  PROVE  LinksCounted'
  <1> DEFINE m == Len(file) + 1
  <1>1. /\ DOMAIN file' = DOMAIN file \cup {m} /\ m \notin DOMAIN file /\ file'[m] = l
        /\ \A k \in DOMAIN file : file'[k] = file[k]
    <2>1. DOMAIN file = 1 .. Len(file) /\ DOMAIN file' = 1 .. Len(file) + 1 /\ Len(file) \in Nat
      BY FileTypes
    <2>2. file'[Len(file) + 1] = l /\ \A k \in DOMAIN file : file'[k] = file[k]
      BY FileTypes
    <2>3. DOMAIN file' = DOMAIN file \cup {m} /\ m \notin DOMAIN file
      BY <2>1
    <2> QED BY <2>2, <2>3
  <1>2. pc' # "done"
    BY DEF Read
  <1> HIDE DEF m
  <1>3. CASE l.kind = "dtdlink"
    <2>1. DtdLinks' = DtdLinks \cup {m} /\ m \notin DtdLinks
      BY <1>1, <1>3 DEF DtdLinks
    <2>2. IsFiniteSet(DtdLinks') /\ Cardinality(DtdLinks') = Cardinality(DtdLinks) + 1
      BY <2>1, FS_AddElement DEF LinksCounted
    <2> QED BY <2>2, <1>2, <1>3 DEF LinksCounted
  <1>4. CASE l.kind # "dtdlink"
    <2>1. DtdLinks' = DtdLinks
      BY <1>1, <1>4 DEF DtdLinks
    <2> QED BY <2>1, <1>2, <1>4 DEF LinksCounted
  <1> QED BY <1>3, <1>4

LEMMA NextLinks == TypeInv /\ LinksCounted /\ [Next]_vars => LinksCounted'
  <1> SUFFICES ASSUME TypeInv, LinksCounted, [Next]_vars PROVE LinksCounted'
    OBVIOUS
  <1>1. ASSUME NEW l \in Line, SkipLine(l) PROVE LinksCounted'
    BY <1>1, LinkRead DEF SkipLine
  <1>2. ASSUME NEW l \in Line, AddChild(l) \/ Orphan(l) \/ AddHost(l) PROVE LinksCounted'
    <2>1. Read(l) /\ l.kind # "dtdlink" /\ count' = count
      BY <1>2 DEF AddChild, Orphan, AddHost, IsChild, IsNode
    <2> QED BY <2>1, LinkRead
  <1>3. CASE Publish
    <2>1. DtdLinks' = DtdLinks
      BY <1>3 DEF Publish, DtdLinks
    <2> QED BY <1>3, <2>1 DEF Publish, LinksCounted
  <1>4. ASSUME UNCHANGED <<file, count>>, pc' # "done" \/ UNCHANGED <<pc, totalCount, published>>
        PROVE  LinksCounted'
    <2>1. DtdLinks' = DtdLinks
      BY <1>4 DEF DtdLinks
    <2> QED BY <1>4, <2>1 DEF LinksCounted
  <1>5. CASE (\E n \in 0 .. MaxServices : \E s \in [1 .. n -> Name] : ReadServices(s)) \/ ReadFails \/ Attach
    <2>1. UNCHANGED <<file, count>> /\ pc' # "done"
      BY <1>5 DEF ReadServices, ReadFails, Attach
    <2> QED BY <2>1, <1>4
  <1>6. CASE UNCHANGED vars
    BY <1>4, <1>6
  <1> QED BY <1>1, <1>2, <1>3, <1>5, <1>6 DEF Next

\* Total: for files of any length totalCount counts each entry once, with the
\* hosts that wait or were replaced, and the total that is shown counts the
\* dtdlink names besides (parseHosts, Parse, GetTotalHostsCount).
THEOREM Total == Spec => []TotalAddsUp
  <1>1. Init => Totals /\ LinksCounted
    <2> SUFFICES ASSUME Init PROVE Totals /\ LinksCounted
      OBVIOUS
    <2>1. Entries = {} /\ Lost = {} /\ DtdLinks = {} /\ DOMAIN orphanedChildren = {}
      BY DEF Init, Entries, Lost, Children, DtdLinks
    <2>2. totalCount = 0 /\ count = 0 /\ pc # "done"
      BY DEF Init
    <2> QED BY <2>1, <2>2, FS_EmptySet DEF Totals, AddsUp, Lost, LinksCounted
  <1>2. TypeInv /\ Totals /\ LinksCounted => TotalAddsUp
    <2> SUFFICES ASSUME TypeInv, Totals, LinksCounted PROVE TotalAddsUp
      OBVIOUS
    <2>1. AddsUp
      BY DEF Totals
    <2>2. pc = "done" => GetTotalHostsCount = totalCount + Cardinality(DtdLinks)
      BY DEF LinksCounted, GetTotalHostsCount
    <2> QED BY <2>1, <2>2 DEF AddsUp, TotalAddsUp
  <1> QED BY <1>1, <1>2, NextTotals, NextLinks, LinesHold, PTL DEF Spec

-----------------------------------------------------------------------------
(* Services: entry i of host h, the host itself for 0.                     *)

At(h, i) == IF i = 0 THEN ret[h] ELSE ret[h].children[i]

Nos(h) == {0} \cup DOMAIN ret[h].children

\* A service is found once a host that comes before hostIdx has an entry of its
\* name; it is then listed under one entry, and before that under none.
ListedByName ==
    \A h \in DOMAIN ret : \A i \in Nos(h) :
        /\ h >= hostIdx => At(h, i).services = {}
        /\ \A s \in At(h, i).services : s \in foundServices /\ services[s] = At(h, i).name
        /\ h < hostIdx => \A s \in DOMAIN services : services[s] = At(h, i).name => s \in foundServices

FoundListed == \A s \in foundServices : \E h \in DOMAIN ret : \E i \in Nos(h) : s \in At(h, i).services

ListedOnce ==
    \A h, g \in DOMAIN ret : \A i \in Nos(h), j \in Nos(g) : \A s :
        s \in At(h, i).services /\ s \in At(g, j).services => h = g /\ i = j

ListingInv ==
    /\ pc = "done" => hostIdx = Len(ret) + 1
    /\ ListedByName /\ FoundListed /\ ListedOnce

\* While lines are read nothing is listed.
NoneListed == \A h \in DOMAIN ret : \A i \in Nos(h) : At(h, i).services = {}

LEMMA NoneListedHolds == ASSUME TypeInv, ListingInv, pc = "lines" PROVE NoneListed
  BY HostTypes DEF ListingInv, ListedByName, NoneListed, TypeInv, Fresh

LEMMA NoneListedNext == ASSUME TypeInv', NoneListed', pc' = "lines" PROVE ListingInv'
  <1>1. hostIdx' = 1 /\ foundServices' = {} /\ DOMAIN ret' = 1 .. Len(ret') /\ Len(ret') \in Nat
    BY DEF TypeInv, TypeOK, Fresh
  <1>2. ListedByName'
    BY <1>1 DEF ListedByName, NoneListed
  <1>3. FoundListed' /\ ListedOnce'
    BY <1>1 DEF FoundListed, ListedOnce, NoneListed
  <1> QED BY <1>2, <1>3 DEF ListingInv

LEMMA ChildNoneListed == ASSUME TypeInv, NoneListed, NEW l \in Line, AddChild(l) PROVE NoneListed'
  <1> DEFINE g == FirstParent(ParentIP(l))
             c == ret[g].children
  <1>1. /\ g \in DOMAIN ret
        /\ ret' = [ret EXCEPT ![g] = [ret[g] EXCEPT !.children = Append(c, NewChild(l))]]
    BY ChildAdded
  <1> HIDE DEF g
  <1>2. c \in Seq(Entry) /\ Len(c) \in Nat /\ DOMAIN c = 1 .. Len(c) /\ ret[g] \in Host /\ NewChild(l) \in Entry
    BY <1>1, HostTypes, LineTypes DEF AddChild, IsChild, NewChild, Entry
  <1>3. /\ DOMAIN ret' = DOMAIN ret /\ ret'[g].children = Append(c, NewChild(l))
        /\ ret'[g].services = ret[g].services
        /\ \A h \in DOMAIN ret : h # g => ret'[h] = ret[h]
    BY <1>1, <1>2 DEF Host
  <1>4. /\ DOMAIN ret'[g].children = DOMAIN c \cup {Len(c) + 1}
        /\ ret'[g].children[Len(c) + 1] = NewChild(l) /\ \A i \in DOMAIN c : ret'[g].children[i] = c[i] /\ i # 0
    BY <1>2, <1>3
  <1>5. NewChild(l).services = {}
    BY DEF NewChild
  <1>6. \A h \in DOMAIN ret : ret[h].services = {} /\ \A i \in DOMAIN ret[h].children : ret[h].children[i].services = {}
    <2>1. \A h \in DOMAIN ret : \A i \in DOMAIN ret[h].children : i # 0
      BY HostTypes
    <2> QED BY <2>1 DEF NoneListed, Nos, At
  <1>7. \A h \in DOMAIN ret' : ret'[h].services = {} /\ \A i \in DOMAIN ret'[h].children : ret'[h].children[i].services = {}
    BY <1>1, <1>3, <1>4, <1>5, <1>6
  <1> QED BY <1>7 DEF NoneListed, Nos, At

LEMMA NodeNoneListed == ASSUME TypeInv, NoneListed, NEW l \in Line, AddHost(l) PROVE NoneListed'
  <1>1. PICK names \in [1 .. Cardinality(Adopted(l.ip)) -> Adopted(l.ip)] : ret' = Append(ret, NewHost(l, names))
    BY HostAdded
  <1>2. NewHost(l, names) \in Host
    BY NewHostType, AdoptedFinite DEF AddHost
  <1>3. ret \in Seq(Host) /\ Len(ret) \in Nat /\ DOMAIN ret = 1 .. Len(ret)
    BY HostTypes DEF TypeInv, TypeOK
  <1>4. /\ DOMAIN ret' = DOMAIN ret \cup {Len(ret) + 1} /\ ret'[Len(ret) + 1] = NewHost(l, names)
        /\ \A h \in DOMAIN ret : ret'[h] = ret[h]
    BY <1>1, <1>2, <1>3
  <1>5. /\ NewHost(l, names).services = {}
        /\ \A i \in DOMAIN NewHost(l, names).children : NewHost(l, names).children[i].services = {}
    BY DEF NewHost
  <1>6. \A h \in DOMAIN ret : ret[h].services = {} /\ \A i \in DOMAIN ret[h].children : ret[h].children[i].services = {}
    <2>1. \A h \in DOMAIN ret : \A i \in DOMAIN ret[h].children : i # 0
      BY HostTypes
    <2> QED BY <2>1 DEF NoneListed, Nos, At
  <1>7. \A h \in DOMAIN ret' : ret'[h].services = {} /\ \A i \in DOMAIN ret'[h].children : ret'[h].children[i].services = {}
    BY <1>4, <1>5, <1>6
  <1> QED BY <1>7 DEF NoneListed, Nos, At

\* What the host at hostIdx gets: each service not found yet, under the first
\* entry of its name.
LEMMA AttachGives ==
  ASSUME TypeInv, Attach, NEW h, h = hostIdx
  PROVE  /\ h \in DOMAIN ret
         /\ \A i \in Nos(h) : \A s \in At(h, i)'.services : s \in Unfound(At(h, i).name)
         /\ \A i \in Nos(h) : \A s \in Unfound(At(h, i).name) : \E j \in Nos(h) : s \in At(h, j)'.services
         /\ \A i, j \in Nos(h) : \A s : s \in At(h, i)'.services /\ s \in At(h, j)'.services => i = j
         /\ \A s : s \in foundServices' <=> s \in foundServices \/ \E i \in Nos(h) : s \in Unfound(At(h, i).name)
  <1> DEFINE c == ret[h].children
             w == ret'[h]
  <1>1. h \in DOMAIN ret /\ w = WithServices(ret[h])
    BY Attached
  <1>2. DOMAIN c = 1 .. Len(c) /\ Len(c) \in Nat
    BY <1>1, HostTypes
  <1>3. /\ DOMAIN w.children = DOMAIN c
        /\ w.services = IF \E i \in DOMAIN c : c[i].name = ret[h].name THEN {} ELSE Unfound(ret[h].name)
        /\ \A i \in DOMAIN c : w.children[i].services =
                   IF \E j \in 1 .. i - 1 : c[j].name = c[i].name THEN {} ELSE Unfound(c[i].name)
    BY <1>1, WithServicesIs
  <1>4. \A i : /\ At(h, i).name = IF i = 0 THEN ret[h].name ELSE c[i].name
               /\ At(h, i)'.services = IF i = 0 THEN w.services ELSE w.children[i].services
    BY DEF At
  <1>5. foundServices' = foundServices \cup Unfound(ret[h].name) \cup UNION {Unfound(c[i].name) : i \in DOMAIN c}
    BY DEF Attach
  <1>6. \A n, s : s \in Unfound(n) => services[s] = n
    BY DEF Unfound
  <1> HIDE DEF c, w
  <1>7. 0 \notin DOMAIN c /\ Nos(h) = {0} \cup DOMAIN c
    BY <1>2 DEF Nos, c
  <1>8. \A i \in Nos(h) : \A s \in At(h, i)'.services : s \in Unfound(At(h, i).name)
    BY <1>3, <1>4, <1>7
  <1>9. ASSUME NEW i \in DOMAIN c, NEW s \in Unfound(c[i].name)
        PROVE  \E j \in DOMAIN c : s \in w.children[j].services
    <2> DEFINE T == {j \in DOMAIN c : c[j].name = c[i].name}
    <2>1. T \in SUBSET Nat /\ T # {}
      BY <1>2
    <2>2. PICK j \in T : \A k \in T : j <= k
      BY <2>1, LeastElement
    <2>3. ~\E k \in 1 .. j - 1 : c[k].name = c[j].name
      BY <2>2, <1>2
    <2> QED BY <2>2, <2>3, <1>3
  <1>10. ASSUME NEW i \in Nos(h), NEW s \in Unfound(At(h, i).name)
         PROVE  \E j \in Nos(h) : s \in At(h, j)'.services
    <2>1. CASE i # 0
      BY <2>1, <1>4, <1>7, <1>9
    <2>2. CASE i = 0 /\ \E k \in DOMAIN c : c[k].name = ret[h].name
      BY <2>2, <1>4, <1>7, <1>9
    <2>3. CASE i = 0 /\ ~\E k \in DOMAIN c : c[k].name = ret[h].name
      BY <2>3, <1>3, <1>4, <1>7
    <2> QED BY <2>1, <2>2, <2>3
  <1>11. ASSUME NEW i \in DOMAIN c, NEW j \in DOMAIN c, NEW s, s \in w.children[i].services, s \in w.children[j].services, i < j
         PROVE  FALSE
    <2>1. c[i].name = c[j].name
      BY <1>3, <1>6, <1>11
    <2> QED BY <2>1, <1>2, <1>3, <1>11
  <1>12. ASSUME NEW i \in DOMAIN c, NEW s, s \in w.children[i].services, s \in w.services
         PROVE  FALSE
    BY <1>3, <1>6, <1>12
  <1>13. ASSUME NEW i \in Nos(h), NEW j \in Nos(h), NEW s, s \in At(h, i)'.services, s \in At(h, j)'.services
         PROVE  i = j
    BY <1>2, <1>4, <1>7, <1>11, <1>12, <1>13
  <1>14. \A s : s \in foundServices' <=> s \in foundServices \/ \E i \in Nos(h) : s \in Unfound(At(h, i).name)
    BY <1>4, <1>5, <1>7
  <1> QED BY <1>1, <1>8, <1>10, <1>13, <1>14

LEMMA AttachListing ==
  ASSUME TypeInv, ListingInv, Attach, NEW h, h = hostIdx
  PROVE  ListingInv'
  <1>1. /\ h \in DOMAIN ret /\ DOMAIN ret' = DOMAIN ret /\ DOMAIN ret = 1 .. Len(ret) /\ Len(ret) \in Nat
        /\ hostIdx' = h + 1 /\ UNCHANGED services /\ pc' = "attach"
    BY Attached, HostTypes DEF Attach
  <1>2. \A g \in DOMAIN ret : Nos(g)' = Nos(g)
    BY AttachKeeps DEF Nos
  <1>3. \A g \in DOMAIN ret : \A i \in Nos(g) : At(g, i)'.name = At(g, i).name
    BY AttachKeeps DEF Nos, At
  <1>4. \A g \in DOMAIN ret : g # h => \A i \in Nos(g) : At(g, i)' = At(g, i)
    BY Attached DEF At
  <1>5. \A n, s : s \in Unfound(n) <=> s \in DOMAIN services /\ s \notin foundServices /\ services[s] = n
    BY DEF Unfound
  <1>6. /\ \A i \in Nos(h) : \A s \in At(h, i)'.services : s \in Unfound(At(h, i).name)
        /\ \A i \in Nos(h) : \A s \in Unfound(At(h, i).name) : \E j \in Nos(h) : s \in At(h, j)'.services
        /\ \A i, j \in Nos(h) : \A s : s \in At(h, i)'.services /\ s \in At(h, j)'.services => i = j
        /\ \A s : s \in foundServices' <=> s \in foundServices \/ \E i \in Nos(h) : s \in Unfound(At(h, i).name)
    BY AttachGives
  <1>7. ASSUME NEW g \in DOMAIN ret', NEW i \in Nos(g)'
        PROVE  /\ g >= hostIdx' => At(g, i)'.services = {}
               /\ \A s \in At(g, i)'.services : s \in foundServices' /\ services'[s] = At(g, i)'.name
               /\ g < hostIdx' => \A s \in DOMAIN services' : services'[s] = At(g, i)'.name => s \in foundServices'
    <2>1. CASE g = h
      BY <2>1, <1>1, <1>2, <1>3, <1>5, <1>6, <1>7
    <2>2. CASE g # h
      <3>1. /\ g >= h => At(g, i).services = {}
            /\ \A s \in At(g, i).services : s \in foundServices /\ services[s] = At(g, i).name
            /\ g < h => \A s \in DOMAIN services : services[s] = At(g, i).name => s \in foundServices
        BY <1>1, <1>2, <1>7 DEF ListingInv, ListedByName
      <3> QED BY <2>2, <3>1, <1>1, <1>2, <1>4, <1>6, <1>7
    <2> QED BY <2>1, <2>2
  <1>8. ListedByName'
    BY <1>7 DEF ListedByName
  <1>9. ASSUME NEW s \in foundServices' PROVE \E g \in DOMAIN ret' : \E i \in Nos(g)' : s \in At(g, i)'.services
    <2>1. CASE s \in foundServices
      <3>1. PICK g \in DOMAIN ret : \E i \in Nos(g) : s \in At(g, i).services
        BY <2>1 DEF ListingInv, FoundListed
      <3>2. g # h
        BY <3>1, <1>1 DEF ListingInv, ListedByName
      <3> QED BY <3>1, <3>2, <1>1, <1>2, <1>4
    <2>2. CASE s \notin foundServices
      <3>1. PICK i \in Nos(h) : s \in Unfound(At(h, i).name)
        BY <2>2, <1>6, <1>9
      <3>2. \E j \in Nos(h) : s \in At(h, j)'.services
        BY <3>1, <1>6
      <3> QED BY <3>2, <1>1, <1>2
    <2> QED BY <2>1, <2>2
  <1>10. FoundListed'
    BY <1>9 DEF FoundListed
  <1>11. ASSUME NEW f \in DOMAIN ret', NEW g \in DOMAIN ret', NEW i \in Nos(f)', NEW j \in Nos(g)', NEW s,
                s \in At(f, i)'.services, s \in At(g, j)'.services
         PROVE  f = g /\ i = j
    <2>1. \A k \in DOMAIN ret : \A m \in Nos(k) : k # h => \A t \in At(k, m)'.services : t \in foundServices
      BY <1>4 DEF ListingInv, ListedByName
    <2>2. \A m \in Nos(h) : \A t \in At(h, m)'.services : t \notin foundServices
      BY <1>5, <1>6
    <2>3. CASE f = h /\ g = h
      BY <2>3, <1>1, <1>2, <1>6, <1>11
    <2>4. CASE f # h /\ g # h
      BY <2>4, <1>1, <1>2, <1>4, <1>11 DEF ListingInv, ListedOnce
    <2>5. CASE (f = h /\ g # h) \/ (f # h /\ g = h)
      BY <2>1, <2>2, <2>5, <1>1, <1>2, <1>11
    <2> QED BY <2>3, <2>4, <2>5
  <1>12. ListedOnce'
    BY <1>11 DEF ListedOnce
  <1> QED BY <1>1, <1>8, <1>10, <1>12 DEF ListingInv

LEMMA NextListing == TypeInv /\ ListingInv /\ [Next]_vars => ListingInv'
  <1> SUFFICES ASSUME TypeInv, ListingInv, [Next]_vars PROVE ListingInv'
    OBVIOUS
  <1>1. TypeInv'
    BY NextTypeInv
  <1>2. CASE \E l \in Line : SkipLine(l) \/ AddChild(l) \/ Orphan(l) \/ AddHost(l)
    <2>1. PICK l \in Line : SkipLine(l) \/ AddChild(l) \/ Orphan(l) \/ AddHost(l)
      BY <1>2
    <2>2. pc = "lines" /\ pc' = "lines"
      BY <2>1 DEF SkipLine, AddChild, Orphan, AddHost, Read
    <2>3. NoneListed
      BY <2>2, NoneListedHolds
    <2>4. CASE SkipLine(l) \/ Orphan(l)
      <3>1. UNCHANGED ret
        BY <2>4 DEF SkipLine, Orphan
      <3>2. NoneListed'
        BY <3>1, <2>3 DEF NoneListed, Nos, At
      <3> QED BY <3>2, <2>2, <1>1, NoneListedNext
    <2>5. CASE AddChild(l)
      BY <2>2, <2>3, <2>5, <1>1, ChildNoneListed, NoneListedNext
    <2>6. CASE AddHost(l)
      BY <2>2, <2>3, <2>6, <1>1, NodeNoneListed, NoneListedNext
    <2> QED BY <2>1, <2>4, <2>5, <2>6
  <1>3. CASE \E n \in 0 .. MaxServices : \E s \in [1 .. n -> Name] : ReadServices(s)
    <2>1. pc = "lines" /\ pc' = "attach" /\ UNCHANGED <<ret, foundServices, hostIdx>>
      BY <1>3 DEF ReadServices
    <2>2. NoneListed /\ hostIdx = 1 /\ foundServices = {} /\ DOMAIN ret = 1 .. Len(ret) /\ Len(ret) \in Nat
      BY <2>1, NoneListedHolds, HostTypes DEF TypeInv, Fresh
    <2>3. NoneListed'
      BY <2>1, <2>2 DEF NoneListed, Nos, At
    <2>4. ListedByName'
      BY <2>1, <2>2, <2>3 DEF ListedByName, NoneListed
    <2>5. FoundListed' /\ ListedOnce'
      BY <2>1, <2>2, <2>3 DEF FoundListed, ListedOnce, NoneListed
    <2> QED BY <2>1, <2>4, <2>5 DEF ListingInv
  <1>4. CASE ReadFails \/ Publish \/ UNCHANGED vars
    <2>1. UNCHANGED <<ret, services, foundServices, hostIdx>>
      BY <1>4 DEF ReadFails, Publish
    <2>2. pc' = "done" => hostIdx' = Len(ret') + 1
      BY <1>4, HostTypes DEF ReadFails, Publish, ListingInv, TypeInv, TypeOK
    <2>3. ListedByName' /\ FoundListed' /\ ListedOnce'
      BY <2>1 DEF ListingInv, ListedByName, FoundListed, ListedOnce, Nos, At
    <2> QED BY <2>2, <2>3 DEF ListingInv
  <1>5. CASE Attach
    BY <1>5, AttachListing
  <1> QED BY <1>2, <1>3, <1>4, <1>5 DEF Next

LEMMA ListingHolds == Spec => [](TypeInv /\ ListingInv)
  <1>1. Init => ListingInv
    BY DEF Init, ListingInv, ListedByName, FoundListed, ListedOnce
  <1> QED BY <1>1, InitTypeInv, NextTypeInv, NextListing, PTL DEF Spec

\* Once: when the parse is done, a service is listed under one entry, which has
\* its name, if an entry has it, and under none otherwise (parseHosts).
THEOREM Once == Spec => []ServicesOnce
  <1>1. TypeInv /\ ListingInv => ServicesOnce
    <2> SUFFICES ASSUME TypeInv, ListingInv, pc = "done", NEW s \in DOMAIN services
                 PROVE  /\ Cardinality(Listing(s)) =
                             IF \E e \in Entries : EntryAt(e).name = services[s] THEN 1 ELSE 0
                        /\ \A e \in Listing(s) : EntryAt(e).name = services[s]
      BY DEF ServicesOnce
    <2>1. \A h \in DOMAIN ret : h < hostIdx
      BY HostTypes DEF ListingInv
    <2>2. ASSUME NEW e \in Entries
          PROVE  \E h \in DOMAIN ret : \E i \in Nos(h) : e = [host |-> h, no |-> i] /\ EntryAt(e) = At(h, i)
      <3>1. PICK h \in DOMAIN ret : \E i \in {0} \cup DOMAIN ret[h].children : e = [host |-> h, no |-> i]
        BY <2>2, EntryIs
      <3>2. PICK i \in Nos(h) : e = [host |-> h, no |-> i]
        BY <3>1 DEF Nos
      <3>3. EntryAt(e) = At(h, i)
        BY <3>2 DEF EntryAt, At
      <3> QED BY <3>2, <3>3
    <2>3. ASSUME NEW h \in DOMAIN ret, NEW i \in Nos(h)
          PROVE  [host |-> h, no |-> i] \in Entries /\ EntryAt([host |-> h, no |-> i]) = At(h, i)
      BY <2>3, EntryIs DEF Nos, EntryAt, At
    <2>4. \A e \in Listing(s) : EntryAt(e).name = services[s]
      BY <2>2 DEF Listing, ListingInv, ListedByName
    <2>5. \A e, f \in Listing(s) : e = f
      BY <2>2 DEF Listing, ListingInv, ListedOnce
    <2>6. CASE \E e \in Entries : EntryAt(e).name = services[s]
      <3>1. s \in foundServices
        BY <2>1, <2>2, <2>6 DEF ListingInv, ListedByName
      <3>2. \E h \in DOMAIN ret : \E i \in Nos(h) : s \in At(h, i).services
        BY <3>1 DEF ListingInv, FoundListed
      <3>3. Listing(s) # {}
        BY <3>2, <2>3 DEF Listing
      <3>4. PICK e \in Listing(s) : TRUE
        BY <3>3
      <3>5. Listing(s) = {e}
        BY <3>4, <2>5
      <3> QED BY <3>5, <2>4, <2>6, FS_Singleton
    <2>7. CASE ~\E e \in Entries : EntryAt(e).name = services[s]
      <3>1. Listing(s) = {}
        BY <2>4, <2>7 DEF Listing
      <3> QED BY <3>1, <2>7, FS_EmptySet
    <2> QED BY <2>4, <2>6, <2>7
  <1> QED BY <1>1, ListingHolds, PTL

-----------------------------------------------------------------------------
(* Pages.                                                                  *)

LEMMA MatchesFinite ==
  ASSUME NEW S, NEW hosts \in Seq(S), NEW filter
  PROVE  /\ IsFiniteSet(Matches(hosts, filter)) /\ Matches(hosts, filter) \subseteq 1 .. Len(hosts)
         /\ Cardinality(Matches(hosts, filter)) \in 0 .. Len(hosts)
  <1>1. DOMAIN hosts = 1 .. Len(hosts) /\ Len(hosts) \in Nat
    OBVIOUS
  <1>2. IsFiniteSet(1 .. Len(hosts)) /\ Cardinality(1 .. Len(hosts)) = Len(hosts)
    BY <1>1, FS_Interval
  <1>3. Matches(hosts, filter) \in SUBSET (1 .. Len(hosts))
    BY <1>1 DEF Matches
  <1>4. /\ IsFiniteSet(Matches(hosts, filter)) /\ Cardinality(Matches(hosts, filter)) <= Len(hosts)
    BY <1>2, <1>3, FS_Subset
  <1>5. Cardinality(Matches(hosts, filter)) \in Nat
    BY <1>4, FS_CardinalityType
  <1> QED BY <1>1, <1>3, <1>4, <1>5

\* InOrder: Matching is every host that matches the filter, once, in the order
\* they have: what appending the matches one by one gives (GetHostsPaginated).
THEOREM InOrder ==
  ASSUME NEW S, NEW hosts \in Seq(S), NEW filter
  PROVE  LET M == Matches(hosts, filter)
         IN  /\ \A k \in M : /\ Rank(hosts, filter, k) \in DOMAIN Matching(hosts, filter)
                             /\ Matching(hosts, filter)[Rank(hosts, filter, k)] = hosts[k]
             /\ \A j, k \in M : j < k => Rank(hosts, filter, j) < Rank(hosts, filter, k)
             /\ \A i \in DOMAIN Matching(hosts, filter) : \E k \in M : Rank(hosts, filter, k) = i
  <1> DEFINE M == Matches(hosts, filter)
             N == Cardinality(M)
             Upto(k) == {j \in M : j <= k}
             R == [k \in M |-> Cardinality(Upto(k))]
  <1>1. IsFiniteSet(M) /\ M \subseteq Nat /\ N \in Nat
    BY MatchesFinite
  <1>2. \A k : Rank(hosts, filter, k) = Cardinality(Upto(k))
    BY DEF Rank
  <1>3. DOMAIN Matching(hosts, filter) = 1 .. N
    BY DEF Matching
  <1> HIDE DEF M
  <1>4. \A k : IsFiniteSet(Upto(k)) /\ Cardinality(Upto(k)) \in Nat /\ Cardinality(Upto(k)) <= N
    <2> TAKE k
    <2>1. Upto(k) \in SUBSET M
      OBVIOUS
    <2> QED BY <2>1, <1>1, FS_Subset, FS_CardinalityType
  <1>5. ASSUME NEW j \in M, NEW k \in M, j < k PROVE Cardinality(Upto(j)) < Cardinality(Upto(k))
    <2>1. j \in Nat /\ k \in Nat /\ \A x \in M : x \in Nat
      BY <1>1
    <2>2. Upto(j) \in SUBSET Upto(k) /\ k \in Upto(k) /\ k \notin Upto(j)
      <3>1. \A x \in Upto(j) : x \in Upto(k)
        BY <2>1, <1>5
      <3>2. k \in Upto(k)
        BY <2>1
      <3>3. k \notin Upto(j)
        BY <2>1, <1>5
      <3> QED BY <3>1, <3>2, <3>3
    <2> HIDE DEF Upto
    <2>3. /\ Cardinality(Upto(j)) <= Cardinality(Upto(k))
          /\ Cardinality(Upto(k)) = Cardinality(Upto(j)) => Upto(k) = Upto(j)
      BY <2>2, <1>4, FS_Subset
    <2>4. Cardinality(Upto(j)) \in Nat /\ Cardinality(Upto(k)) \in Nat
      BY <1>4
    <2>5. Cardinality(Upto(k)) # Cardinality(Upto(j))
      BY <2>2, <2>3
    <2> QED BY <2>3, <2>4, <2>5
  <1>6. \A k \in M : Cardinality(Upto(k)) \in 1 .. N
    <2> TAKE k \in M
    <2>1. k \in Upto(k)
      BY <1>1
    <2> HIDE DEF Upto
    <2>2. Cardinality(Upto(k)) # 0
      BY <2>1, <1>4, FS_EmptySet
    <2>3. Cardinality(Upto(k)) \in Nat /\ Cardinality(Upto(k)) <= N
      BY <1>4
    <2> QED BY <2>2, <2>3, <1>1
  <1> HIDE DEF Upto
  <1>7. \A j, k \in M : Cardinality(Upto(j)) = Cardinality(Upto(k)) => j = k
    BY <1>1, <1>4, <1>5
  <1>8. R \in Injection(M, 1 .. N)
    BY <1>6, <1>7 DEF Injection, IsInjective
  <1>9. IsFiniteSet(1 .. N) /\ Cardinality(1 .. N) = N
    BY <1>1, FS_Interval
  <1> HIDE DEF R
  <1>10. R \in Surjection(M, 1 .. N)
    BY <1>8, <1>9, FS_Injection
  <1>11. \A i \in 1 .. N : \E k \in M : Cardinality(Upto(k)) = i
    BY <1>10 DEF Surjection, R
  <1>12. \A k \in M : Matching(hosts, filter)[Cardinality(Upto(k))] = hosts[k]
    <2> TAKE k \in M
    <2> DEFINE i == Cardinality(Upto(k))
    <2>1. Matching(hosts, filter)[i] = hosts[CHOOSE j \in M : Cardinality(Upto(j)) = i]
      BY <1>2, <1>6 DEF Matching, M
    <2>2. (CHOOSE j \in M : Cardinality(Upto(j)) = i) = k
      BY <1>7
    <2> QED BY <2>1, <2>2
  <1> QED BY <1>2, <1>3, <1>5, <1>6, <1>11, <1>12 DEF M

\* A page is cut out of the sequence at the place its number says.
LEMMA PageIs ==
  ASSUME NEW S, NEW hosts \in Seq(S), NEW limit \in Nat \ {0}, NEW p \in Nat \ {0}
  PROVE  /\ Len(Page(hosts, p, limit)) <= limit
         /\ \A i : i \in DOMAIN Page(hosts, p, limit) <=> i \in 1 .. limit /\ (p - 1) * limit + i <= Len(hosts)
         /\ \A i \in DOMAIN Page(hosts, p, limit) : Page(hosts, p, limit)[i] = hosts[(p - 1) * limit + i]
  <1>1. PICK start \in Nat : start = (p - 1) * limit
    OBVIOUS
  <1>2. Page(hosts, p, limit) = IF start > Len(hosts) THEN <<>>
                                ELSE SubSeq(hosts, start + 1, Lesser(start + limit, Len(hosts)))
    BY <1>1 DEF Page
  <1>3. Len(hosts) \in Nat /\ Lesser(start + limit, Len(hosts)) \in Nat
    BY DEF Lesser
  <1>4. /\ Len(Page(hosts, p, limit)) <= limit
        /\ \A i : i \in DOMAIN Page(hosts, p, limit) <=> i \in 1 .. limit /\ start + i <= Len(hosts)
        /\ \A i \in DOMAIN Page(hosts, p, limit) : Page(hosts, p, limit)[i] = hosts[start + i]
    <2>1. CASE start > Len(hosts)
      <3>1. Page(hosts, p, limit) = <<>>
        BY <2>1, <1>2
      <3> QED BY <3>1, <2>1, <1>3
    <2>2. CASE start <= Len(hosts)
      <3> DEFINE m == Lesser(start + limit, Len(hosts))
      <3>1. /\ m \in Nat /\ m >= start /\ m <= start + limit /\ m <= Len(hosts)
            /\ m = start + limit \/ m = Len(hosts)
        BY <1>3, <2>2 DEF Lesser
      <3>2. Page(hosts, p, limit) = SubSeq(hosts, start + 1, m)
        BY <1>2, <1>3, <2>2
      <3> HIDE DEF m
      <3>3. /\ Len(SubSeq(hosts, start + 1, m)) = m - start
            /\ DOMAIN SubSeq(hosts, start + 1, m) = 1 .. m - start
            /\ \A i \in 1 .. m - start : SubSeq(hosts, start + 1, m)[i] = hosts[start + i]
        BY <3>1, <1>3
      <3>4. \A i : i \in 1 .. m - start <=> i \in 1 .. limit /\ start + i <= Len(hosts)
        BY <3>1, <1>3
      <3> QED BY <3>1, <3>2, <3>3, <3>4
    <2> QED BY <2>1, <2>2, <1>3
  <1> QED BY <1>1, <1>4

\* The page that shows the k-th host
LEMMA PageOf ==
  ASSUME NEW limit \in Nat \ {0}, NEW k \in Nat \ {0}
  PROVE  \E p \in 1 .. k : \E i \in 1 .. limit : (p - 1) * limit + i = k
  <1> DEFINE T == {p \in 1 .. k : p * limit >= k}
  <1>1. k \in T
    <2>1. k * limit = k + k * (limit - 1) /\ k * (limit - 1) \in Nat
      OBVIOUS
    <2> QED BY <2>1
  <1>2. T \in SUBSET Nat
    OBVIOUS
  <1>3. PICK p \in T : \A q \in T : p <= q
    BY <1>1, <1>2, LeastElement
  <1>4. (p - 1) * limit < k
    <2>1. CASE p = 1
      BY <2>1
    <2>2. CASE p # 1
      <3>1. p - 1 \in 1 .. k /\ p - 1 \notin T
        BY <2>2, <1>3
      <3> QED BY <3>1
    <2> QED BY <2>1, <2>2
  <1>5. p * limit = (p - 1) * limit + limit /\ (p - 1) * limit \in Nat
    OBVIOUS
  <1>6. k - (p - 1) * limit \in 1 .. limit
    BY <1>3, <1>4, <1>5
  <1> QED BY <1>3, <1>5, <1>6

\* Paging: the pages of any size show the hosts that match, in their order and each
\* in one place, with none left out between two pages or at the end
\* (GetHostsPaginated).
THEOREM Paging == Spec => []PagesCover
  <1>1. TypeInv => PagesCover
    <2> SUFFICES ASSUME TypeInv, NEW limit \in 1 .. MaxLines + 1, NEW filter \in SUBSET Name
                 PROVE  LET hosts    == Matching(published.currentHosts, filter)
                            Numbers  == 1 .. MaxLines + 1
                            Shown(p) == GetHostsPaginated(p, limit, filter)
                            Place(p, i) == (p - 1) * limit + i
                        IN  /\ \A p \in Numbers :
                                 /\ Len(Shown(p)) <= limit
                                 /\ \A i \in DOMAIN Shown(p) : Shown(p)[i] = hosts[Place(p, i)]
                            /\ \A k \in DOMAIN hosts : \E p \in Numbers : \E i \in DOMAIN Shown(p) : Place(p, i) = k
      BY DEF PagesCover
    <2> DEFINE hosts == Matching(published.currentHosts, filter)
               all == published.currentHosts
               n == Cardinality(Matches(all, filter))
               V == {hosts[i] : i \in 1 .. n}
    <2>1. all \in Seq(Host) /\ Len(all) <= MaxLines
      BY DEF TypeInv, TypeOK, Bounds
    <2> HIDE DEF all
    <2>2. n \in 0 .. Len(all)
      BY <2>1, MatchesFinite
    <2>3. n \in Nat /\ n <= MaxLines
      BY <2>1, <2>2, ConstantTypes
    <2>4. hosts = [i \in 1 .. n |-> all[CHOOSE k \in Matches(all, filter) : Rank(all, filter, k) = i]]
      BY DEF Matching, all
    <2> HIDE DEF n, hosts
    <2>5. hosts \in [1 .. n -> V] /\ DOMAIN hosts = 1 .. n
      BY <2>4
    <2> HIDE DEF V
    <2>6. hosts \in Seq(V) /\ Len(hosts) = n
      BY <2>3, <2>5
    <2>7. \A p : GetHostsPaginated(p, limit, filter) = Page(hosts, p, limit)
      BY DEF GetHostsPaginated, hosts
    <2>8. limit \in Nat \ {0} /\ MaxLines \in Nat
      BY ConstantTypes
    <2>9. ASSUME NEW p \in 1 .. MaxLines + 1
          PROVE  /\ Len(GetHostsPaginated(p, limit, filter)) <= limit
                 /\ \A i \in DOMAIN GetHostsPaginated(p, limit, filter) :
                      GetHostsPaginated(p, limit, filter)[i] = hosts[(p - 1) * limit + i]
      <3>1. p \in Nat \ {0}
        BY <2>8
      <3> QED BY <3>1, <2>6, <2>7, <2>8, PageIs
    <2>10. ASSUME NEW k \in DOMAIN hosts
           PROVE  \E p \in 1 .. MaxLines + 1 :
                    \E i \in DOMAIN GetHostsPaginated(p, limit, filter) : (p - 1) * limit + i = k
      <3>1. k \in Nat \ {0} /\ k <= n
        BY <2>3, <2>5
      <3>2. PICK p \in 1 .. k : \E i \in 1 .. limit : (p - 1) * limit + i = k
        BY <3>1, <2>8, PageOf
      <3>3. PICK i \in 1 .. limit : (p - 1) * limit + i = k
        BY <3>2
      <3>4. p \in Nat \ {0} /\ p \in 1 .. MaxLines + 1
        BY <3>1, <3>2, <2>3, <2>8
      <3>5. i \in DOMAIN Page(hosts, p, limit) <=> i \in 1 .. limit /\ (p - 1) * limit + i <= Len(hosts)
        BY <3>4, <2>6, <2>8, PageIs
      <3>6. i \in DOMAIN GetHostsPaginated(p, limit, filter)
        BY <3>1, <3>3, <3>5, <2>6, <2>7
      <3> QED BY <3>3, <3>4, <3>6
    <2> QED BY <2>9, <2>10 DEF hosts
  <1> QED BY <1>1, TypesHold, PTL
=============================================================================
