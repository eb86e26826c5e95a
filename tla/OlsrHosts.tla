------------------------------- MODULE OlsrHosts -------------------------------
(***************************************************************************)
(* internal/services/olsr/hosts_parser.go and services_parser.go: one      *)
(* Parse, line by line.  The file olsrd writes lists nodes and, in any     *)
(* order, the hosts behind them, each line with the address of the node it *)
(* belongs to in its comment.  A line whose node has not been met waits in *)
(* orphanedChildren, a map keyed by its host name.                         *)
(*                                                                         *)
(* A line is read when it is parsed: `file' is what has been read so far.  *)
(* Names are taken in one case, since services are matched to hosts with   *)
(* EqualFold; the text of a line that is skipped does not matter.          *)
(***************************************************************************)
EXTENDS Naturals, FiniteSets, Sequences, SequencesExt

CONSTANTS
    Name,           \* host names
    IP, NoIP,       \* addresses; net.IP(nil)
    MaxLines,       \* bound on the lines of the hosts file
    MaxServices     \* bound on the lines of the services file

ASSUME OlsrAssumption ==
    /\ IsFiniteSet(Name) /\ IsFiniteSet(IP) /\ NoIP \notin IP
    /\ MaxLines \in Nat /\ MaxServices \in Nat

VARIABLES
    pc,                 \* "lines", "attach", "publish", "done", "failed"
    file,               \* the lines of the hosts file read so far
    ret,                \* the hosts found, each with its children
    orphanedChildren,   \* [name -> [ip, parent]]
    count, totalCount,
    services,           \* the host names in the URLs of the services file
    foundServices,      \* indices into services
    hostIdx,            \* the host whose services come next
    published           \* the parser's currentHosts, nodesCount and totalCount

local == <<ret, orphanedChildren, count, totalCount>>
vars == <<pc, file, local, services, foundServices, hostIdx, published>>

\* Comments, empty and invalid lines, localhost, names with a dot are "skipped".
HostLine == [kind : {"host"}, name : Name, ip : IP, comment : IP \cup {NoIP, "myself"}]
Line == HostLine \cup [kind : {"skipped", "dtdlink"}]

Entry == [name : Name, ip : IP, services : SUBSET (1 .. MaxServices)]
Host == [name : Name, ip : IP, services : SUBSET (1 .. MaxServices), children : Seq(Entry)]

TypeOK ==
    /\ pc \in {"lines", "attach", "publish", "done", "failed"}
    /\ file \in Seq(Line) /\ Len(file) <= MaxLines
    /\ ret \in Seq(Host) /\ Len(ret) <= MaxLines
    /\ DOMAIN orphanedChildren \subseteq Name
    /\ \A n \in DOMAIN orphanedChildren :
         orphanedChildren[n] \in [ip : IP, parent : IP \cup {NoIP}]
    /\ count \in 0 .. MaxLines /\ totalCount \in 0 .. MaxLines
    /\ services \in Seq(Name) /\ foundServices \subseteq DOMAIN services
    /\ hostIdx \in 1 .. Len(ret) + 1
    /\ published.currentHosts \in Seq(Host)
    /\ published.nodesCount \in 0 .. MaxLines /\ published.totalCount \in 0 .. MaxLines

Init ==
    /\ pc = "lines" /\ file = <<>>
    /\ ret = <<>> /\ orphanedChildren = <<>> /\ count = 0 /\ totalCount = 0
    /\ services = <<>> /\ foundServices = {} /\ hostIdx = 1
    /\ published = [currentHosts |-> <<>>, nodesCount |-> 0, totalCount |-> 0]

-----------------------------------------------------------------------------
(* parseHosts: the lines                                                   *)

ParentIP(l) == IF l.comment = "myself" THEN l.ip ELSE l.comment

IsChild(l) == l.kind = "host" /\ ParentIP(l) # l.ip
IsNode(l) == l.kind = "host" /\ ParentIP(l) = l.ip

Read(l) ==
    /\ pc = "lines" /\ Len(file) < MaxLines
    /\ file' = Append(file, l)
    /\ UNCHANGED <<pc, services, foundServices, hostIdx, published>>

SkipLine(l) ==
    /\ l.kind # "host" /\ Read(l)
    /\ count' = IF l.kind = "dtdlink" THEN count + 1 ELSE count
    /\ UNCHANGED <<ret, orphanedChildren, totalCount>>

\* The hosts a child of parent ip belongs to, of which the first one is taken
Parents(ip) == {h \in DOMAIN ret : ret[h].ip = ip}

AddChild(l) ==
    /\ IsChild(l) /\ Parents(ParentIP(l)) # {} /\ Read(l)
    /\ totalCount' = totalCount + 1
    /\ LET h == CHOOSE k \in Parents(ParentIP(l)) : \A m \in Parents(ParentIP(l)) : k <= m
       IN  ret' = [ret EXCEPT ![h].children =
                     Append(@, [name |-> l.name, ip |-> l.ip, services |-> {}])]
    /\ UNCHANGED <<orphanedChildren, count>>

Waiting(l) == [ip |-> l.ip, parent |-> ParentIP(l)]

\* One that waits under the same name is replaced.
Orphan(l) ==
    /\ IsChild(l) /\ Parents(ParentIP(l)) = {} /\ Read(l)
    /\ totalCount' = totalCount + 1
    /\ orphanedChildren' = [n \in DOMAIN orphanedChildren \cup {l.name} |->
                              IF n = l.name THEN Waiting(l) ELSE orphanedChildren[n]]
    /\ UNCHANGED <<ret, count>>

Adopted(ip) == {n \in DOMAIN orphanedChildren : orphanedChildren[n].parent = ip}

NewHost(l, names) ==
    [name |-> l.name, ip |-> l.ip, services |-> {},
     children |-> [i \in DOMAIN names |->
        [name |-> names[i], ip |-> orphanedChildren[names[i]].ip, services |-> {}]]]

\* Variant: what was adopted goes on waiting.
AddHostKeeping(l) ==
    /\ IsNode(l) /\ Read(l)
    /\ totalCount' = totalCount + 1
    /\ \E names \in SetToSeqs(Adopted(l.ip)) : ret' = Append(ret, NewHost(l, names))
    /\ UNCHANGED <<orphanedChildren, count>>

\* Variant: what was adopted is counted again.
AddHostRecounting(l) ==
    /\ IsNode(l) /\ Read(l)
    /\ totalCount' = totalCount + 1 + Cardinality(Adopted(l.ip))
    /\ \E names \in SetToSeqs(Adopted(l.ip)) : ret' = Append(ret, NewHost(l, names))
    /\ orphanedChildren' = [n \in DOMAIN orphanedChildren \ Adopted(l.ip) |-> orphanedChildren[n]]
    /\ UNCHANGED count

\* A map is ranged over in any order.
AddHost(l) ==
    /\ IsNode(l) /\ Read(l)
    /\ totalCount' = totalCount + 1
    /\ \E names \in SetToSeqs(Adopted(l.ip)) : ret' = Append(ret, NewHost(l, names))
    /\ orphanedChildren' = [n \in DOMAIN orphanedChildren \ Adopted(l.ip) |-> orphanedChildren[n]]
    /\ UNCHANGED count

-----------------------------------------------------------------------------
(* parseHosts: the services, each for the first entry of its name, the     *)
(* children of a host before the host itself                               *)

\* The end of the file; parseServices reads the other one.
ReadServices(s) ==
    /\ pc = "lines" /\ pc' = "attach"
    /\ services' = s
    /\ UNCHANGED <<file, local, foundServices, hostIdx, published>>

\* One of the files cannot be read: Parse returns, and what it had is kept.
ReadFails ==
    /\ pc = "lines" /\ pc' = "failed"
    /\ UNCHANGED <<file, local, services, foundServices, hostIdx, published>>

Unfound(name) == {s \in DOMAIN services \ foundServices : services[s] = name}

WithServices(h) ==
    [h EXCEPT
        !.children = [i \in DOMAIN @ |-> [@[i] EXCEPT !.services =
            IF \E j \in 1 .. i - 1 : h.children[j].name = h.children[i].name
            THEN {} ELSE Unfound(h.children[i].name)]],
        !.services = IF \E i \in DOMAIN h.children : h.children[i].name = h.name
                     THEN {} ELSE Unfound(h.name)]

\* Variant: what was found is not remembered.
AttachForgetful ==
    /\ pc = "attach" /\ hostIdx <= Len(ret)
    /\ ret' = [ret EXCEPT ![hostIdx] = WithServices(@)]
    /\ hostIdx' = hostIdx + 1
    /\ UNCHANGED <<pc, file, orphanedChildren, count, totalCount, services, foundServices, published>>

Attach ==
    /\ pc = "attach" /\ hostIdx <= Len(ret)
    /\ ret' = [ret EXCEPT ![hostIdx] = WithServices(@)]
    /\ foundServices' = foundServices \cup Unfound(ret[hostIdx].name)
         \cup UNION {Unfound(ret[hostIdx].children[i].name) : i \in DOMAIN ret[hostIdx].children}
    /\ hostIdx' = hostIdx + 1
    /\ UNCHANGED <<pc, file, orphanedChildren, count, totalCount, services, published>>

Publish ==
    /\ pc = "attach" /\ hostIdx > Len(ret) /\ pc' = "done"
    /\ published' = [currentHosts |-> ret, nodesCount |-> count, totalCount |-> totalCount]
    /\ UNCHANGED <<file, local, services, foundServices, hostIdx>>

Next ==
    \/ \E l \in Line : SkipLine(l) \/ AddChild(l) \/ Orphan(l) \/ AddHost(l)
    \/ \E n \in 0 .. MaxServices : \E s \in [1 .. n -> Name] : ReadServices(s)
    \/ ReadFails \/ Attach \/ Publish

Spec == Init /\ [][Next]_vars

\* The total the API shows
GetTotalHostsCount == published.totalCount + published.nodesCount

-----------------------------------------------------------------------------
(* GetHostsPaginated; its caller has checked neither number.               *)

Matches(hosts, filter) == {k \in DOMAIN hosts : hosts[k].name \in filter}

\* How many hosts up to the k-th match
Rank(hosts, filter, k) == Cardinality({j \in Matches(hosts, filter) : j <= k})

\* The hosts that match, in their order: what the loop has appended to ret
Matching(hosts, filter) ==
    [i \in 1 .. Cardinality(Matches(hosts, filter)) |->
        hosts[CHOOSE k \in Matches(hosts, filter) : Rank(hosts, filter, k) = i]]

Lesser(a, b) == IF a < b THEN a ELSE b

\* Variant: the end is taken for the last index.
PageShort(hosts, page, limit) ==
    LET start == (page - 1) * limit
    IN  IF start > Len(hosts) THEN <<>>
        ELSE SubSeq(hosts, start + 1, Lesser(start + limit - 1, Len(hosts)))

\* Defined where page and limit are positive; the code panics on a page below 1.
Page(hosts, page, limit) ==
    LET start == (page - 1) * limit
    IN  IF start > Len(hosts) THEN <<>>
        ELSE SubSeq(hosts, start + 1, Lesser(start + limit, Len(hosts)))

GetHostsPaginated(page, limit, filter) ==
    Page(Matching(published.currentHosts, filter), page, limit)

-----------------------------------------------------------------------------
(* Properties                                                              *)

Nodes(ip, k, m) == {j \in DOMAIN file : k < j /\ j < m /\ IsNode(file[j]) /\ file[j].ip = ip}

\* Line k waits when line m, another one of its name, comes to wait.
Replaced(k) ==
    \E m \in DOMAIN file :
        /\ k < m /\ IsChild(file[m]) /\ file[m].name = file[k].name
        /\ Nodes(ParentIP(file[k]), 0, m) = {} /\ Nodes(ParentIP(file[m]), 0, m) = {}

Children == {k \in DOMAIN file : IsChild(file[k])}

IsFirst(h) == \A g \in 1 .. h - 1 : ret[g].ip # ret[h].ip

\* ChildrenComplete: wherever in the file a host's line is, before its node's or
\* after it, the host is a child of the first node with that address and of no
\* other, once for each of its lines. The one exception is a line that waits when
\* another line with its name comes to wait (parseHosts).
ChildrenComplete ==
    \A h \in DOMAIN ret, n \in Name, ip \in IP :
        Cardinality({i \in DOMAIN ret[h].children :
                        ret[h].children[i].name = n /\ ret[h].children[i].ip = ip}) =
        IF ~IsFirst(h) THEN 0
        ELSE Cardinality({k \in Children : /\ file[k].name = n /\ file[k].ip = ip
                                           /\ ParentIP(file[k]) = ret[h].ip
                                           /\ ~Replaced(k)})

\* What is listed: a node is its own entry 0, its children are the others.
Entries == UNION {{[host |-> h, no |-> i] : i \in {0} \cup DOMAIN ret[h].children} : h \in DOMAIN ret}

EntryAt(e) == IF e.no = 0 THEN ret[e.host] ELSE ret[e.host].children[e.no]

DtdLinks == {k \in DOMAIN file : file[k].kind = "dtdlink"}

\* TotalAddsUp: totalCount counts the nodes, their children, the hosts whose node
\* was never listed and the hosts that were replaced while they waited, each once,
\* so it is more than what is listed when there are such.  The total that is shown
\* adds the dtdlink names, of which each node has one: with them a node counts
\* twice (parseHosts, Parse, GetTotalHostsCount).
TotalAddsUp ==
    /\ totalCount = Cardinality(Entries) + Cardinality(DOMAIN orphanedChildren)
                    + Cardinality({k \in Children : Replaced(k)})
    /\ pc = "done" => GetTotalHostsCount = totalCount + Cardinality(DtdLinks)

\* The entries that list service s
Listing(s) == {e \in Entries : s \in EntryAt(e).services}

\* ServicesOnce: a service is listed under one entry, of its name, if there is any
\* entry of its name, and under none otherwise (parseHosts).
ServicesOnce ==
    pc = "done" => \A s \in DOMAIN services :
        /\ Cardinality(Listing(s)) =
             IF \E e \in Entries : EntryAt(e).name = services[s] THEN 1 ELSE 0
        /\ \A e \in Listing(s) : EntryAt(e).name = services[s]

\* PagesCover: the pages of any size show the hosts that match the filter in their
\* order, each in one place: a page is no longer than asked for, the i-th host of
\* page p is host (p - 1) * limit + i of those that match, and none is left out at
\* the border of two pages or at the end (GetHostsPaginated).
PagesCover ==
    pc = "done" => \A limit \in 1 .. MaxLines + 1, filter \in SUBSET Name :
        LET hosts    == Matching(published.currentHosts, filter)
            Pages    == 1 .. MaxLines + 1
            Shown(p) == GetHostsPaginated(p, limit, filter)
            Place(p, i) == (p - 1) * limit + i
        IN  /\ \A p \in Pages :
                 /\ Len(Shown(p)) <= limit
                 /\ \A i \in DOMAIN Shown(p) : Shown(p)[i] = hosts[Place(p, i)]
            /\ \A k \in DOMAIN hosts : \E p \in Pages : \E i \in DOMAIN Shown(p) : Place(p, i) = k
=============================================================================
