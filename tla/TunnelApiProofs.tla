--------------------------- MODULE TunnelApiProofs ---------------------------
(***************************************************************************)
(* Proofs about TunnelApi for any hosts, addresses, ports and number of    *)
(* rows.  The types hold for any number of handlers at once; the rest is   *)
(* about requests that come one at a time, which is what it needs: the     *)
(* handlers use no transaction and no lock.                                *)
(***************************************************************************)
EXTENDS TunnelApi, TLAPS

USE DEF vars, local

\* Requests come one at a time.
Sequential == \E h : Handler = {h}

\* The configured first address is on the boundary of a block of four and not in
\* the last two third octets, where After finds no successor.
AlignedStart == StartAddress[2] % 4 = 0 /\ StartAddress[1] < Byte - 2

-----------------------------------------------------------------------------
(* Types.                                                                  *)

\* What the locals of a request hold at its steps.
Shape ==
    /\ \A h \in Handler : cur[h].port \in Port
    /\ \A h \in Handler : pc[h] \in {"findIP", "toggle", "save"} => want[h] \in Edit
    /\ \A h \in Handler : pc[h] = "ipCheck" => cur[h].ip \in Address

TypeInv == TypeOK /\ Shape

LEMMA ConstantTypes ==
    /\ Byte \in Nat /\ Byte >= 8 /\ Byte % 4 = 0 /\ PortSpace \in Nat /\ PortSpace > 0
    /\ StartAddress \in Address /\ StartPort \in Nat
    /\ ClientAddress \subseteq Address /\ MaxID \in Nat /\ 0 \in Port
    /\ NoAddress \notin Address /\ NoPort \notin Port
  <1>1. Byte \notin Octet /\ NoPort \notin Port
    BY AddressingAssumption DEF Octet, Port, NoPort
  <1>2. NoAddress \notin Address
    BY <1>1 DEF NoAddress, Address
  <1> QED BY <1>1, <1>2, AddressingAssumption, ApiAssumption DEF Address, Octet, Port

TableRow == {r \in Row : r.id # 0 /\ r.ip \in Address /\ r.port \in Port}

TablesOK ==
    /\ rows \subseteq TableRow
    /\ nextID \in 1 .. MaxID + 1
    /\ peers \subseteq 0 .. MaxID /\ babel \subseteq 0 .. MaxID
    /\ olsrConf \in [ids : SUBSET (1 .. MaxID), whole : BOOLEAN]

LocalsOK ==
    /\ pc \in [Handler -> Step]
    /\ op \in [Handler -> {"server", "client", "patch", "delete"}]
    /\ cur \in [Handler -> Row] /\ orig \in [Handler -> Row]
    /\ want \in [Handler -> Edit \cup {NoEdit}]
    /\ conf \in [Handler -> SUBSET (1 .. MaxID)]
    /\ dirty \subseteq 1 .. MaxID

StepOK(h) ==
    /\ pc[h] \in {"nextPort", "create", "toggle", "save", "ipCheck"} => cur[h].ip \in Address
    /\ cur[h].port \in Port
    /\ pc[h] \in {"findIP", "toggle", "save"} => want[h] \in Edit

LEMMA TypeParts == TypeInv <=> TablesOK /\ LocalsOK /\ \A h \in Handler : StepOK(h)
  BY DEF TypeInv, TypeOK, Shape, TablesOK, TableRow, LocalsOK, StepOK

LEMMA TypePartsNext ==
  ASSUME TablesOK', LocalsOK', \A h \in Handler : StepOK(h)'
  PROVE  TypeInv'
  BY DEF TypeInv, TypeOK, Shape, TablesOK, TableRow, LocalsOK, StepOK

LEMMA RowFields ==
  ASSUME NEW r \in Row
  PROVE  /\ r.id \in 0 .. MaxID /\ r.client \in BOOLEAN /\ r.wireguard \in BOOLEAN
         /\ r.host \in Host \cup ClientHost \cup {NoHost} /\ r.ip \in Address \cup {NoAddress}
         /\ r.port \in Port \cup {NoPort} /\ r.enabled \in BOOLEAN
  BY DEF Row

LEMMA ZeroRow == Zero \in Row /\ Zero.id = 0 /\ Zero.port \in Port /\ Zero.wireguard = FALSE
  BY ConstantTypes DEF Zero, Row

LEMMA CreatedRow ==
  ASSUME NEW r \in Row, nextID \in 1 .. MaxID
  PROVE  /\ Created(r) \in Row /\ Created(r).id = nextID /\ Created(r).ip = r.ip /\ Created(r).port = r.port
         /\ Created(r).client = r.client /\ Created(r).wireguard = r.wireguard /\ Created(r).enabled = TRUE
  <1>1. nextID \in 0 .. MaxID
    BY ConstantTypes
  <1> QED BY <1>1 DEF Created, Inserted, Row

LEMMA CreatedInTable ==
  ASSUME NEW r \in Row, nextID \in 1 .. MaxID, r.ip \in Address, r.port \in Port
  PROVE  Created(r) \in TableRow
  <1>1. nextID # 0
    BY ConstantTypes
  <1>2. Created(r) \in Row /\ Created(r).id = nextID /\ Created(r).ip = r.ip /\ Created(r).port = r.port
    BY CreatedRow
  <1>3. Created(r).id # 0 /\ Created(r).ip \in Address /\ Created(r).port \in Port
    BY <1>1, <1>2
  <1> QED BY <1>2, <1>3 DEF TableRow

LEMMA SavedRow ==
  ASSUME NEW r \in Row
  PROVE  /\ Saved(r) \in Row /\ Saved(r).id = r.id /\ Saved(r).ip = r.ip /\ Saved(r).port = r.port
         /\ Saved(r).client = r.client /\ Saved(r).wireguard = r.wireguard
  BY DEF Saved, Inserted, Row

LEMMA InitTypeInv == Init => TypeInv
  <1> SUFFICES ASSUME Init PROVE TypeInv
    OBVIOUS
  <1>1. TablesOK
    BY ConstantTypes DEF Init, TablesOK
  <1>2. LocalsOK
    BY ZeroRow DEF Init, LocalsOK, Step
  <1>3. \A h \in Handler : StepOK(h)
    BY ZeroRow DEF Init, StepOK
  <1> QED BY <1>1, <1>2, <1>3, TypeParts

LEMMA RespondType ==
  ASSUME TypeInv, NEW h \in Handler, NEW status, Respond(h, status)
  PROVE  LocalsOK' /\ \A g \in Handler : StepOK(g)'
  <1>1. LocalsOK /\ \A g \in Handler : StepOK(g)
    BY TypeParts
  <1>2. cur[h].id \in 0 .. MaxID
    BY <1>1, RowFields DEF LocalsOK
  <1>3. {cur[h].id} \ {0} \subseteq 1 .. MaxID
    BY <1>2, ConstantTypes
  <1>4. pc' \in [Handler -> Step] /\ op' \in [Handler -> {"server", "client", "patch", "delete"}]
    BY <1>1 DEF LocalsOK, Respond, Goto, Step
  <1>5. cur' \in [Handler -> Row] /\ orig' \in [Handler -> Row]
    BY <1>1, ZeroRow DEF LocalsOK, Respond
  <1>6. /\ want' \in [Handler -> Edit \cup {NoEdit}] /\ conf' \in [Handler -> SUBSET (1 .. MaxID)]
        /\ dirty' \subseteq 1 .. MaxID
    BY <1>1, <1>3 DEF LocalsOK, Respond
  <1>7. \A g \in Handler : StepOK(g)'
    BY <1>1, ZeroRow DEF LocalsOK, StepOK, Respond, Goto
  <1> QED BY <1>4, <1>5, <1>6, <1>7 DEF LocalsOK

LEMMA ContinueType ==
  ASSUME TypeInv, NEW h \in Handler, NEW step \in Step, Continue(h, step),
         step \in {"nextPort", "create", "toggle", "save", "ipCheck"} => cur[h].ip \in Address,
         step \notin {"findIP", "toggle", "save"}
  PROVE  LocalsOK' /\ \A g \in Handler : StepOK(g)'
  <1>1. LocalsOK /\ \A g \in Handler : StepOK(g)
    BY TypeParts
  <1> QED BY <1>1 DEF LocalsOK, StepOK, Continue, Goto

\* A step that gives the local tunnel another value.
LEMMA AssignType ==
  ASSUME TypeInv, NEW h \in Handler, NEW step \in Step, NEW r \in Row,
         Goto(h, step), cur' = [cur EXCEPT ![h] = r], r.port \in Port,
         step \in {"nextPort", "create", "toggle", "save", "ipCheck"} => r.ip \in Address,
         step \in {"findIP", "toggle", "save"} => want[h] \in Edit,
         UNCHANGED <<want, conf, dirty>>,
         op' \in [Handler -> {"server", "client", "patch", "delete"}], orig' \in [Handler -> Row]
  PROVE  LocalsOK' /\ \A g \in Handler : StepOK(g)'
  <1>1. LocalsOK /\ \A g \in Handler : StepOK(g)
    BY TypeParts
  <1> QED BY <1>1 DEF LocalsOK, StepOK, Goto

LEMMA BeginType ==
  ASSUME TypeInv, NEW h \in Handler, NEW request, NEW first, Begin(h, request, first)
  PROVE  /\ Goto(h, first) /\ UNCHANGED <<conf, dirty>> /\ orig' \in [Handler -> Row] /\ TablesOK'
         /\ op' \in [Handler -> {"server", "client", "patch", "delete"}]
  BY TypeParts, ApiAssumption DEF Begin, LocalsOK, TablesOK

LEMMA PostType == ASSUME TypeInv, NEW h \in Handler, Post(h) PROVE TypeInv'
  <1>0. /\ TablesOK /\ LocalsOK /\ StepOK(h) /\ cur[h] \in Row
    BY TypeParts DEF LocalsOK
  <1>1. ASSUME NEW host \in Host, PostServer(h, host) PROVE TypeInv'
    <2> DEFINE r == [Zero EXCEPT !.host = host, !.wireguard = TRUE, !.enabled = TRUE]
    <2>1. r \in Row /\ r.port \in Port
      BY ZeroRow DEF Row
    <2>2. Begin(h, "server", "hostCheck") /\ cur' = [cur EXCEPT ![h] = r] /\ UNCHANGED want
      BY <1>1 DEF PostServer
    <2> HIDE DEF r
    <2>3. /\ Goto(h, "hostCheck") /\ UNCHANGED <<conf, dirty>> /\ orig' \in [Handler -> Row] /\ TablesOK'
          /\ op' \in [Handler -> {"server", "client", "patch", "delete"}]
      BY <2>2, BeginType
    <2>4. LocalsOK' /\ \A g \in Handler : StepOK(g)'
      BY <2>1, <2>2, <2>3, AssignType DEF Step
    <2> QED BY <2>3, <2>4, TypePartsNext
  <1>2. ASSUME NEW host \in ClientHost, NEW ip \in ClientAddress, PostClient(h, host, ip) PROVE TypeInv'
    <2> DEFINE r == [Zero EXCEPT !.host = host, !.ip = ip, !.wireguard = TRUE, !.client = TRUE]
    <2>1. r \in Row /\ r.port \in Port /\ r.ip \in Address
      BY ZeroRow, ConstantTypes DEF Row
    <2>2. Begin(h, "client", "ipCheck") /\ cur' = [cur EXCEPT ![h] = r] /\ UNCHANGED want
      BY <1>2 DEF PostClient
    <2> HIDE DEF r
    <2>3. /\ Goto(h, "ipCheck") /\ UNCHANGED <<conf, dirty>> /\ orig' \in [Handler -> Row] /\ TablesOK'
          /\ op' \in [Handler -> {"server", "client", "patch", "delete"}]
      BY <2>2, BeginType
    <2>4. LocalsOK' /\ \A g \in Handler : StepOK(g)'
      BY <2>1, <2>2, <2>3, AssignType DEF Step
    <2> QED BY <2>3, <2>4, TypePartsNext
  <1>3. ASSUME HostCheck(h) \/ IPCheck(h) PROVE TypeInv'
    <2>1. TablesOK'
      BY <1>0, <1>3 DEF HostCheck, IPCheck, TablesOK
    <2>2. Respond(h, 400) \/ Continue(h, "nextIP") \/ (Continue(h, "create") /\ cur[h].ip \in Address)
      BY <1>0, <1>3 DEF HostCheck, IPCheck, StepOK
    <2>3. LocalsOK' /\ \A g \in Handler : StepOK(g)'
      BY <2>2, RespondType, ContinueType DEF Step
    <2> QED BY <2>1, <2>3, TypePartsNext
  <1>4. ASSUME NextIP(h) PROVE TypeInv'
    <2>1. TablesOK'
      BY <1>0, <1>4 DEF NextIP, TablesOK
    <2>2. CASE Respond(h, 500)
      BY <2>1, <2>2, RespondType, TypePartsNext
    <2>3. ASSUME NEW ip \in Address, cur' = [cur EXCEPT ![h].ip = ip], Goto(h, "nextPort"),
                 UNCHANGED <<op, orig, want, conf, dirty>>
          PROVE  TypeInv'
      <3> DEFINE r == [cur[h] EXCEPT !.ip = ip]
      <3>1. r \in Row /\ r.ip = ip /\ r.port \in Port /\ cur' = [cur EXCEPT ![h] = r]
        BY <1>0, <2>3 DEF Row, StepOK
      <3> HIDE DEF r
      <3>2. LocalsOK' /\ \A g \in Handler : StepOK(g)'
        BY <1>0, <2>3, <3>1, AssignType DEF Step, LocalsOK
      <3> QED BY <2>1, <3>2, TypePartsNext
    <2> QED BY <1>4, <2>2, <2>3 DEF NextIP
  <1>5. ASSUME NextPort(h) PROVE TypeInv'
    <2>1. TablesOK'
      BY <1>0, <1>5 DEF NextPort, TablesOK
    <2>2. CASE Respond(h, 500)
      BY <2>1, <2>2, RespondType, TypePartsNext
    <2>3. ASSUME NEW port \in Port, cur' = [cur EXCEPT ![h].port = port], Goto(h, "create"),
                 UNCHANGED <<op, orig, want, conf, dirty>>
          PROVE  TypeInv'
      <3> DEFINE r == [cur[h] EXCEPT !.port = port]
      <3>1. r \in Row /\ r.ip = cur[h].ip /\ r.port \in Port /\ cur' = [cur EXCEPT ![h] = r]
        BY <1>0, <2>3 DEF Row
      <3> HIDE DEF r
      <3>2. r.ip \in Address
        BY <1>0, <1>5, <3>1 DEF NextPort, StepOK
      <3>3. LocalsOK' /\ \A g \in Handler : StepOK(g)'
        BY <1>0, <2>3, <3>1, <3>2, AssignType DEF Step, LocalsOK
      <3> QED BY <2>1, <3>3, TypePartsNext
    <2> QED BY <1>5, <2>2, <2>3 DEF NextPort
  <1>6. ASSUME Create(h) PROVE TypeInv'
    <2>1. nextID \in 1 .. MaxID /\ nextID + 1 \in 1 .. MaxID + 1
      BY <1>0, <1>6, ConstantTypes DEF Create, TablesOK
    <2>2. cur[h].ip \in Address /\ cur[h].port \in Port
      BY <1>0, <1>6 DEF Create, StepOK
    <2>3. Created(cur[h]) \in TableRow
      BY <1>0, <2>1, <2>2, CreatedInTable
    <2>4. TablesOK'
      BY <1>0, <1>6, <2>1, <2>3 DEF Create, TablesOK
    <2>5. /\ Created(cur[h]) \in Row /\ Created(cur[h]).port \in Port
          /\ Goto(h, "addPeer") /\ cur' = [cur EXCEPT ![h] = Created(cur[h])]
          /\ UNCHANGED <<want, conf, dirty>> /\ orig' \in [Handler -> Row]
          /\ op' \in [Handler -> {"server", "client", "patch", "delete"}]
      BY <1>0, <1>6, <2>3 DEF Create, LocalsOK, TableRow
    <2>6. LocalsOK' /\ \A g \in Handler : StepOK(g)'
      BY <2>5, AssignType DEF Step
    <2> QED BY <2>4, <2>6, TypePartsNext
  <1> QED BY <1>1, <1>2, <1>3, <1>4, <1>5, <1>6 DEF Post

LEMMA PatchType == ASSUME TypeInv, NEW h \in Handler, Patch(h) PROVE TypeInv'
  <1>0. /\ TablesOK /\ LocalsOK /\ StepOK(h) /\ cur[h] \in Row
    BY TypeParts DEF LocalsOK
  <1>1. ASSUME NEW id \in 1 .. MaxID, NEW host \in Host \cup ClientHost, NEW enabled \in BOOLEAN,
               NEW wireguard \in BOOLEAN, NEW ip \in ClientAddress \cup {r.ip : r \in rows},
               StartPatch(h, [id |-> id, host |-> host, ip |-> ip, enabled |-> enabled,
                              wireguard |-> wireguard])
        PROVE  TypeInv'
    <2> DEFINE e == [id |-> id, host |-> host, ip |-> ip, enabled |-> enabled, wireguard |-> wireguard]
    <2>1. e \in Edit
      BY <1>0 DEF Edit, TablesOK, TableRow
    <2>2. Begin(h, "patch", "findIP") /\ want' = [want EXCEPT ![h] = e] /\ UNCHANGED cur
      BY <1>1 DEF StartPatch
    <2> HIDE DEF e
    <2>3. /\ Goto(h, "findIP") /\ UNCHANGED <<conf, dirty>> /\ orig' \in [Handler -> Row] /\ TablesOK'
          /\ op' \in [Handler -> {"server", "client", "patch", "delete"}]
      BY <2>2, BeginType
    <2>4. LocalsOK'
      BY <1>0, <2>1, <2>2, <2>3 DEF LocalsOK, Goto, Step
    <2>5. \A g \in Handler : StepOK(g)'
      BY <1>0, <2>1, <2>2, <2>3, TypeParts DEF LocalsOK, StepOK, Goto
    <2> QED BY <2>3, <2>4, <2>5, TypePartsNext
  <1>2. ASSUME FindIP(h) PROVE TypeInv'
    <2>1. TablesOK'
      BY <1>0, <1>2 DEF FindIP, TablesOK
    <2>2. CASE Respond(h, 400)
      BY <2>1, <2>2, RespondType, TypePartsNext
    <2>3. ASSUME NEW r \in rows \cup {Zero}, orig' = [orig EXCEPT ![h] = r],
                 cur' = [cur EXCEPT ![h] = [r EXCEPT !.host = want[h].host, !.ip = want[h].ip]],
                 Goto(h, "toggle"), UNCHANGED <<op, want, conf, dirty>>
          PROVE  TypeInv'
      <3> DEFINE s == [r EXCEPT !.host = want[h].host, !.ip = want[h].ip]
      <3>1. want[h] \in Edit
        BY <1>0, <1>2 DEF FindIP, StepOK
      <3>2. want[h].host \in Host \cup ClientHost /\ want[h].ip \in Address
        BY <3>1, ConstantTypes DEF Edit
      <3>3. r \in Row /\ r.port \in Port
        BY <1>0, ZeroRow DEF TablesOK, TableRow
      <3>4. s \in Row /\ s.port \in Port /\ s.ip \in Address
        BY <3>2, <3>3 DEF Row
      <3>5. cur' = [cur EXCEPT ![h] = s]
        BY <2>3
      <3> HIDE DEF s
      <3>6. orig' \in [Handler -> Row] /\ op' \in [Handler -> {"server", "client", "patch", "delete"}]
        BY <1>0, <2>3, <3>3 DEF LocalsOK
      <3>7. LocalsOK' /\ \A g \in Handler : StepOK(g)'
        BY <2>3, <3>1, <3>4, <3>5, <3>6, AssignType DEF Step
      <3> QED BY <2>1, <3>7, TypePartsNext
    <2> QED BY <1>2, <2>2, <2>3 DEF FindIP
  <1>3. ASSUME Toggle(h) PROVE TypeInv'
    <2>1. \A r \in rows : [r EXCEPT !.enabled = TRUE] \in TableRow
      BY <1>0 DEF TablesOK, TableRow, Row
    <2>2. \/ rows' = rows
          \/ rows' = {IF r.id = cur[h].id THEN [r EXCEPT !.enabled = TRUE] ELSE r : r \in rows}
      BY <1>3 DEF Toggle
    <2>3. rows' \subseteq TableRow
      BY <1>0, <2>1, <2>2 DEF TablesOK
    <2>4. TablesOK'
      BY <1>0, <1>3, <2>3 DEF Toggle, TablesOK, TableRow
    <2>5. CASE Respond(h, 500)
      BY <2>4, <2>5, RespondType, TypePartsNext
    <2>6. ASSUME cur' = [cur EXCEPT ![h].enabled = want[h].enabled], Goto(h, "save"),
                 UNCHANGED <<op, orig, want, conf, dirty>>
          PROVE  TypeInv'
      <3> DEFINE r == [cur[h] EXCEPT !.enabled = want[h].enabled]
      <3>1. want[h] \in Edit /\ cur[h].ip \in Address /\ cur[h].port \in Port
        BY <1>0, <1>3 DEF Toggle, StepOK
      <3>2. want[h].enabled \in BOOLEAN
        BY <3>1 DEF Edit
      <3>3. r \in Row /\ r.ip = cur[h].ip /\ r.port = cur[h].port
        BY <1>0, <3>2 DEF Row
      <3>4. cur' = [cur EXCEPT ![h] = r]
        BY <2>6
      <3> HIDE DEF r
      <3>5. orig' \in [Handler -> Row] /\ op' \in [Handler -> {"server", "client", "patch", "delete"}]
        BY <1>0, <2>6 DEF LocalsOK
      <3>6. LocalsOK' /\ \A g \in Handler : StepOK(g)'
        BY <2>6, <3>1, <3>3, <3>4, <3>5, AssignType DEF Step
      <3> QED BY <2>4, <3>6, TypePartsNext
    <2> QED BY <1>3, <2>5, <2>6 DEF Toggle
  <1>4. ASSUME SaveRow(h) PROVE TypeInv'
    <2>1. /\ cur[h].ip \in Address /\ cur[h].port \in Port
          /\ Goto(h, "removePeer") /\ UNCHANGED <<want, conf, dirty>> /\ orig' \in [Handler -> Row]
          /\ op' \in [Handler -> {"server", "client", "patch", "delete"}]
      BY <1>0, <1>4 DEF SaveRow, StepOK, LocalsOK
    <2>2. PICK r \in TableRow :
             /\ cur' = [cur EXCEPT ![h] = r]
             /\ rows' \subseteq rows \cup {r}
             /\ nextID' \in 1 .. MaxID + 1
      <3>1. CASE cur[h].id = 0
        <4>1. nextID \in 1 .. MaxID /\ nextID + 1 \in 1 .. MaxID + 1
          BY <1>0, <1>4, <3>1, ConstantTypes DEF SaveRow, TablesOK
        <4>2. Created(cur[h]) \in TableRow
          BY <1>0, <2>1, <4>1, CreatedInTable
        <4> QED BY <1>4, <3>1, <4>1, <4>2 DEF SaveRow
      <3>2. CASE cur[h].id # 0
        <4>1. Saved(cur[h]) \in TableRow
          BY <1>0, <2>1, <3>2, SavedRow DEF TableRow
        <4> QED BY <1>0, <1>4, <3>2, <4>1 DEF SaveRow, TablesOK
      <3> QED BY <3>1, <3>2
    <2>3. TablesOK'
      BY <1>0, <1>4, <2>2 DEF SaveRow, TablesOK, TableRow
    <2>4. r \in Row /\ r.port \in Port
      BY <2>2 DEF TableRow
    <2>5. LocalsOK' /\ \A g \in Handler : StepOK(g)'
      BY <2>1, <2>2, <2>4, AssignType DEF Step
    <2> QED BY <2>3, <2>5, TypePartsNext
  <1> QED BY <1>1, <1>2, <1>3, <1>4 DEF Patch

LEMMA DeleteType == ASSUME TypeInv, NEW h \in Handler, DeleteRequest(h) PROVE TypeInv'
  <1>0. /\ TablesOK /\ LocalsOK /\ StepOK(h) /\ cur[h] \in Row
    BY TypeParts DEF LocalsOK
  <1>1. ASSUME NEW id \in 1 .. MaxID, StartDelete(h, id) PROVE TypeInv'
    <2> DEFINE r == [cur[h] EXCEPT !.id = id]
    <2>0. id \in 0 .. MaxID
      BY ConstantTypes
    <2>1. r \in Row /\ r.port = cur[h].port
      BY <1>0, <2>0 DEF Row
    <2>2. Begin(h, "delete", "load") /\ cur' = [cur EXCEPT ![h] = r] /\ UNCHANGED want /\ r.port \in Port
      BY <1>0, <1>1, <2>1 DEF StartDelete, StepOK
    <2> HIDE DEF r
    <2>3. /\ Goto(h, "load") /\ UNCHANGED <<conf, dirty>> /\ orig' \in [Handler -> Row] /\ TablesOK'
          /\ op' \in [Handler -> {"server", "client", "patch", "delete"}]
      BY <2>2, BeginType
    <2>4. LocalsOK' /\ \A g \in Handler : StepOK(g)'
      BY <2>1, <2>2, <2>3, AssignType DEF Step
    <2> QED BY <2>3, <2>4, TypePartsNext
  <1>2. ASSUME Load(h) PROVE TypeInv'
    <2>1. TablesOK'
      BY <1>0, <1>2 DEF Load, TablesOK
    <2>2. CASE Respond(h, 500)
      BY <2>1, <2>2, RespondType, TypePartsNext
    <2>3. ASSUME NEW r \in rows, cur' = [cur EXCEPT ![h] = r], orig' = [orig EXCEPT ![h] = r],
                 Goto(h, "delete"), UNCHANGED <<op, want, conf, dirty>>
          PROVE  TypeInv'
      <3>1. r \in Row /\ r.port \in Port
        BY <1>0 DEF TablesOK, TableRow
      <3>2. orig' \in [Handler -> Row] /\ op' \in [Handler -> {"server", "client", "patch", "delete"}]
        BY <1>0, <2>3, <3>1 DEF LocalsOK
      <3>3. LocalsOK' /\ \A g \in Handler : StepOK(g)'
        BY <2>3, <3>1, <3>2, AssignType DEF Step
      <3> QED BY <2>1, <3>3, TypePartsNext
    <2> QED BY <1>2, <2>2, <2>3 DEF Load
  <1>3. ASSUME Delete(h) PROVE TypeInv'
    <2>1. TablesOK'
      BY <1>0, <1>3 DEF Delete, TablesOK, TableRow
    <2>2. LocalsOK' /\ \A g \in Handler : StepOK(g)'
      BY <1>3, ContinueType DEF Delete, Step
    <2> QED BY <2>1, <2>2, TypePartsNext
  <1> QED BY <1>1, <1>2, <1>3 DEF DeleteRequest

LEMMA CommonType == ASSUME TypeInv, NEW h \in Handler, Common(h) PROVE TypeInv'
  <1>0. /\ TablesOK /\ LocalsOK /\ StepOK(h) /\ cur[h].id \in 0 .. MaxID
    BY TypeParts, RowFields DEF LocalsOK
  <1>1. ASSUME AddPeer(h) \/ RemovePeer(h) \/ TruncateConf(h) \/ WriteConf(h) \/ BabelTunnel(h) \/ ReloadDNS(h)
               \/ Fail(h)
        PROVE  TypeInv'
    <2>1. peers' \subseteq 0 .. MaxID /\ babel' \subseteq 0 .. MaxID
      BY <1>0, <1>1 DEF AddPeer, RemovePeer, TruncateConf, WriteConf, BabelTunnel, ReloadDNS, Fail, TablesOK, LocalsOK
    <2>2. UNCHANGED <<rows, nextID>>
      BY <1>1 DEF AddPeer, RemovePeer, TruncateConf, WriteConf, BabelTunnel, ReloadDNS, Fail
    <2>3. olsrConf' \in [ids : SUBSET (1 .. MaxID), whole : BOOLEAN]
      <3>1. conf[h] \in SUBSET (1 .. MaxID)
        BY <1>0 DEF LocalsOK
      <3>2. CASE WriteConf(h)
        <4>1. \/ olsrConf' = [ids |-> conf[h], whole |-> TRUE]
              \/ \E part \in SUBSET conf[h] : olsrConf' = [ids |-> part, whole |-> FALSE]
          BY <3>2 DEF WriteConf
        <4>2. CASE olsrConf' = [ids |-> conf[h], whole |-> TRUE]
          BY <3>1, <4>2
        <4>3. CASE \E part \in SUBSET conf[h] : olsrConf' = [ids |-> part, whole |-> FALSE]
          <5>1. PICK part \in SUBSET conf[h] : olsrConf' = [ids |-> part, whole |-> FALSE]
            BY <4>3
          <5>2. part \in SUBSET (1 .. MaxID)
            BY <3>1
          <5> QED BY <5>1, <5>2
        <4> QED BY <4>1, <4>2, <4>3
      <3>3. CASE TruncateConf(h)
        BY <3>3 DEF TruncateConf
      <3> QED BY <1>0, <1>1, <3>2, <3>3 DEF AddPeer, RemovePeer, BabelTunnel, ReloadDNS, Fail, TablesOK
    <2>4. TablesOK'
      BY <1>0, <2>1, <2>2, <2>3 DEF TablesOK
    <2>5. \/ Respond(h, 200) \/ Respond(h, 500)
          \/ \E step \in {"generate", "addPeer", "fill", "dnsmasq", "babel"} : Continue(h, step)
      BY <1>1 DEF AddPeer, RemovePeer, TruncateConf, WriteConf, BabelTunnel, ReloadDNS, Fail, AfterRemove, AfterWrite
    <2>6. LocalsOK' /\ \A g \in Handler : StepOK(g)'
      BY <2>5, RespondType, ContinueType DEF Step
    <2> QED BY <2>4, <2>6, TypePartsNext
  <1>2. ASSUME Generate(h) PROVE TypeInv'
    <2>1. TablesOK'
      BY <1>0, <1>2 DEF Generate, TablesOK
    <2>2. \A r \in rows : r.id \in 1 .. MaxID
      BY <1>0, RowFields, ConstantTypes DEF TablesOK, TableRow
    <2>3. LocalsOK'
      BY <1>0, <1>2, <2>2 DEF Generate, Goto, LocalsOK, Step
    <2>4. \A g \in Handler : StepOK(g)'
      BY <1>0, <1>2, TypeParts DEF Generate, Goto, LocalsOK, StepOK
    <2> QED BY <2>1, <2>3, <2>4, TypePartsNext
  <1> QED BY <1>1, <1>2 DEF Common

LEMMA NextTypeInv == TypeInv /\ [Next]_vars => TypeInv'
  <1>1. ASSUME TypeInv, Next PROVE TypeInv'
    BY <1>1, PostType, PatchType, DeleteType, CommonType DEF Next
  <1>2. ASSUME TypeInv, UNCHANGED vars PROVE TypeInv'
    BY <1>2 DEF TypeInv, TypeOK, Shape
  <1> QED BY <1>1, <1>2

\* Types: every row written has a key, an address and a port, and every local of a
\* request has the value its next statement needs, with any number of handlers.
THEOREM Types == Spec => []TypeOK
  <1>1. Spec => []TypeInv
    BY InitTypeInv, NextTypeInv, PTL DEF Spec
  <1>2. TypeInv => TypeOK
    BY DEF TypeInv
  <1> QED BY <1>1, <1>2, PTL

-----------------------------------------------------------------------------
(* The table: one row for a key, keys not given out yet are in no row.     *)

Keys ==
    /\ \A r, s \in rows : r.id = s.id => r = s
    /\ \A r \in rows : r.id < nextID

-----------------------------------------------------------------------------
(* The manager and the routers, tunnel by tunnel.                          *)

PeerOK(id)  == id \in peers <=> \E r \in rows : r.id = id /\ r.enabled
Routed(id)  == \E r \in rows : r.id = id /\ r.wireguard /\ r.enabled
OlsrOK(id)  == (id \in olsrConf.ids => Routed(id)) /\ (olsrConf.whole /\ Routed(id) => id \in olsrConf.ids)
BabelOK(id) == id \in babel <=> \E r \in rows : r.id = id /\ r.wireguard

\* The row a PATCH edits is in the table, or it is none.
Edits(h) ==
    /\ orig[h].id = cur[h].id
    /\ IF cur[h].id = 0 THEN ~cur[h].wireguard
       ELSE \E r \in rows : /\ r.id = cur[h].id /\ r.ip = cur[h].ip /\ r.port = cur[h].port
                            /\ r.client = cur[h].client /\ r.wireguard = cur[h].wireguard

\* What a request holds before it changes the table...
Early(h) ==
    /\ pc[h] \in {"idle", "hostCheck", "nextIP", "nextPort", "ipCheck", "create", "findIP"} =>
           cur[h].id = 0
    /\ pc[h] \in {"hostCheck", "nextIP", "nextPort", "ipCheck", "create"} =>
           op[h] \in {"server", "client"} /\ cur[h].wireguard
    /\ pc[h] \in {"findIP", "toggle", "save"} => op[h] = "patch"
    /\ pc[h] \in {"load", "delete"} => op[h] = "delete"
    /\ pc[h] \in {"toggle", "save"} => Edits(h)
    /\ pc[h] = "delete" => orig[h].id = cur[h].id

\* ...and after: its row is the one in the table, or gone.
Late(h) ==
    /\ pc[h] \in {"removePeer", "addPeer", "generate", "write", "fill", "babel", "dnsmasq"} =>
           /\ IF op[h] = "delete" THEN cur[h].id \notin IDs ELSE cur[h] \in rows
           /\ op[h] \in {"server", "client"} => cur[h].wireguard
    /\ pc[h] = "removePeer" =>
           /\ op[h] \in {"patch", "delete"}
           /\ orig[h].id \in {0, cur[h].id}
           /\ orig[h].id # cur[h].id => op[h] = "patch"
    /\ pc[h] = "addPeer" => op[h] # "delete"
    /\ pc[h] \in {"write", "fill"} => conf[h] = {r.id : r \in {r \in rows : r.wireguard /\ r.enabled}}
    /\ pc[h] = "babel" => op[h] # "patch"

\* What the request has done for its own tunnel by its next step.
OwnOK(h, id) ==
    /\ pc[h] = "addPeer" => id \notin peers
    /\ pc[h] = "removePeer" /\ orig[h].id # id => id \notin peers
    /\ pc[h] \in {"generate", "write", "fill", "babel", "dnsmasq"} => PeerOK(id)
    /\ pc[h] \in {"babel", "dnsmasq"} => OlsrOK(id)
    /\ pc[h] = "dnsmasq" \/ op[h] = "patch" => BabelOK(id)

\* Every tunnel but that of the request under way, and those a request has failed
\* for, is up to date.
Tunnels(h) ==
    \A id \in (1 .. MaxID) \ dirty :
        IF id = cur[h].id THEN OwnOK(h, id) ELSE PeerOK(id) /\ OlsrOK(id) /\ BabelOK(id)

HandlerInv(h) == Early(h) /\ Late(h) /\ Tunnels(h)

MatchInv == Keys /\ \A h \in Handler : HandlerInv(h)

\* A step that leaves the rows, the peer and the routing of a tunnel alone.
LEMMA SameTunnel ==
  ASSUME NEW id, \A r : (r \in rows' /\ r.id = id) <=> (r \in rows /\ r.id = id),
         id \in peers' <=> id \in peers, olsrConf' = olsrConf, id \in babel' <=> id \in babel
  PROVE  (PeerOK(id)' <=> PeerOK(id)) /\ (OlsrOK(id)' <=> OlsrOK(id)) /\ (BabelOK(id)' <=> BabelOK(id))
  BY DEF PeerOK, OlsrOK, Routed, BabelOK

LEMMA TableIDs == TypeInv => \A r \in rows : r \in Row /\ r.id \in 1 .. MaxID
  BY TypeParts, RowFields, ConstantTypes DEF TablesOK, TableRow

\* With one request at a time, what holds of its handler is the invariant.
LEMMA OneHandler ==
  ASSUME Sequential, NEW h \in Handler, Keys', HandlerInv(h)'
  PROVE  MatchInv'
  BY DEF Sequential, MatchInv

\* Between requests there is nothing to remember.
LEMMA RespondMatch ==
  ASSUME Sequential, TypeInv, NEW h \in Handler, NEW status, Respond(h, status), Keys',
         \A id \in (1 .. MaxID) \ dirty' : PeerOK(id)' /\ OlsrOK(id)' /\ BabelOK(id)'
  PROVE  MatchInv'
  <1>1. pc'[h] = "idle" /\ cur'[h] = Zero
    BY TypeParts DEF LocalsOK, Respond, Goto
  <1>2. cur'[h].id = 0
    BY <1>1, ZeroRow
  <1>3. Early(h)' /\ Late(h)'
    BY <1>1, <1>2 DEF Early, Late
  <1>4. \A id \in 1 .. MaxID : id # 0
    BY ConstantTypes
  <1>5. Tunnels(h)'
    BY <1>2, <1>4 DEF Tunnels
  <1> QED BY <1>3, <1>5, OneHandler DEF HandlerInv

\* A request that fails is remembered in dirty, so the other tunnels are what counts.
LEMMA FailedMatch ==
  ASSUME Sequential, TypeInv, NEW h \in Handler, Respond(h, 500), Keys',
         \A id \in (1 .. MaxID) \ dirty : id # cur[h].id => PeerOK(id)' /\ OlsrOK(id)' /\ BabelOK(id)'
  PROVE  MatchInv'
  <1>1. dirty' = dirty \cup ({cur[h].id} \ {0})
    BY DEF Respond
  <1>2. \A id \in (1 .. MaxID) \ dirty' : id \in (1 .. MaxID) \ dirty /\ id # cur[h].id
    BY <1>1, ConstantTypes
  <1> QED BY <1>2, RespondMatch

LEMMA ContinueLocals ==
  ASSUME TypeInv, NEW h \in Handler, NEW step \in Step, Continue(h, step)
  PROVE  /\ pc'[h] = step /\ op'[h] = op[h] /\ cur'[h] = cur[h] /\ orig'[h] = orig[h] /\ conf'[h] = conf[h]
         /\ dirty' = dirty
  BY TypeParts DEF LocalsOK, Continue, Goto

\* A key not given out yet is unknown to the manager and the routers.
LEMMA FreshKey ==
  ASSUME TypeInv, MatchInv, NEW h \in Handler, cur[h].id = 0, nextID \in (1 .. MaxID) \ dirty
  PROVE  nextID \notin peers /\ nextID \notin olsrConf.ids /\ nextID \notin babel
  <1>1. \A r \in rows : r.id # nextID
    BY TypeParts, TableIDs DEF MatchInv, Keys, TablesOK
  <1>2. PeerOK(nextID) /\ OlsrOK(nextID) /\ BabelOK(nextID)
    BY ConstantTypes DEF MatchInv, HandlerInv, Tunnels
  <1> QED BY <1>1, <1>2 DEF PeerOK, OlsrOK, Routed, BabelOK

LEMMA InitMatch == Init => MatchInv
  <1> SUFFICES ASSUME Init PROVE MatchInv
    OBVIOUS
  <1>1. Keys /\ \A id : PeerOK(id) /\ OlsrOK(id) /\ BabelOK(id)
    BY DEF Init, Keys, PeerOK, OlsrOK, Routed, BabelOK
  <1>2. ASSUME NEW h \in Handler PROVE pc[h] = "idle" /\ cur[h] = Zero /\ cur[h].id = 0
    BY ZeroRow DEF Init
  <1>3. ASSUME NEW h \in Handler PROVE Early(h) /\ Late(h)
    BY <1>2 DEF Early, Late
  <1>4. ASSUME NEW h \in Handler PROVE Tunnels(h)
    <2>1. \A id \in 1 .. MaxID : id # 0
      BY ConstantTypes
    <2> QED BY <1>1, <1>2, <2>1 DEF Tunnels
  <1> QED BY <1>1, <1>3, <1>4 DEF MatchInv, HandlerInv

\* The steps that leave the table, the manager and the routers alone.
LEMMA SameTables ==
  ASSUME MatchInv, UNCHANGED <<rows, nextID, peers, olsrConf, babel>>
  PROVE  /\ Keys'
         /\ \A id : (PeerOK(id)' <=> PeerOK(id)) /\ (OlsrOK(id)' <=> OlsrOK(id)) /\ (BabelOK(id)' <=> BabelOK(id))
  BY DEF MatchInv, Keys, PeerOK, OlsrOK, Routed, BabelOK

\* A refusal (400) comes before the request has touched a tunnel.
LEMMA RefusedMatch ==
  ASSUME Sequential, TypeInv, MatchInv, NEW h \in Handler, cur[h].id = 0, Respond(h, 400),
         UNCHANGED <<rows, nextID, peers, olsrConf, babel>>
  PROVE  MatchInv'
  <1>1. dirty' = dirty
    BY DEF Respond
  <1>2. \A id \in (1 .. MaxID) \ dirty : PeerOK(id) /\ OlsrOK(id) /\ BabelOK(id)
    BY ConstantTypes DEF MatchInv, HandlerInv, Tunnels
  <1> QED BY <1>1, <1>2, SameTables, RespondMatch

\* So does a statement that fails before the manager or a router was told.
LEMMA BrokenMatch ==
  ASSUME Sequential, TypeInv, MatchInv, NEW h \in Handler, Respond(h, 500),
         UNCHANGED <<rows, nextID, peers, olsrConf, babel>>
  PROVE  MatchInv'
  <1>1. \A id \in (1 .. MaxID) \ dirty : id # cur[h].id => PeerOK(id) /\ OlsrOK(id) /\ BabelOK(id)
    BY DEF MatchInv, HandlerInv, Tunnels
  <1> QED BY <1>1, SameTables, FailedMatch

\* A step of POSTTunnel that only looks something up.
LEMMA LookupMatch ==
  ASSUME Sequential, TypeInv, MatchInv, NEW h \in Handler,
         UNCHANGED <<rows, nextID, peers, olsrConf, babel, dirty>>,
         pc'[h] \in {"hostCheck", "nextIP", "nextPort", "ipCheck", "create"},
         op'[h] \in {"server", "client"}, cur[h].id = 0, cur'[h].id = 0, cur'[h].wireguard
  PROVE  MatchInv'
  <1>1. Early(h)' /\ Late(h)'
    BY DEF Early, Late
  <1>2. \A id \in (1 .. MaxID) \ dirty : PeerOK(id) /\ OlsrOK(id) /\ BabelOK(id)
    BY ConstantTypes DEF MatchInv, HandlerInv, Tunnels
  <1>3. Tunnels(h)'
    BY <1>2, SameTables, ConstantTypes DEF Tunnels
  <1> QED BY <1>1, <1>3, SameTables, OneHandler DEF HandlerInv

\* A new row under a new key, with the request's locals set to it.
LEMMA AddedMatch ==
  ASSUME TypeInv, MatchInv, NEW h \in Handler, cur[h].id = 0, nextID \in 1 .. MaxID,
         NEW new \in Row, new.id = nextID, rows' = rows \cup {new}, nextID' = nextID + 1,
         cur'[h] = new, UNCHANGED <<peers, olsrConf, babel, dirty>>
  PROVE  /\ Keys'
         /\ \A id \in (1 .. MaxID) \ dirty : id # cur'[h].id => PeerOK(id)' /\ OlsrOK(id)' /\ BabelOK(id)'
         /\ \A id \in (1 .. MaxID) \ dirty : id = cur'[h].id =>
               id \notin peers' /\ (~new.wireguard => BabelOK(id)')
  <1>1. \A r \in rows : r.id < nextID /\ r.id \in Nat /\ nextID \in Nat
    BY TableIDs, ConstantTypes DEF MatchInv, Keys
  <1>2. Keys'
    BY <1>1 DEF MatchInv, Keys
  <1>3. ASSUME NEW id \in (1 .. MaxID) \ dirty, id # nextID
        PROVE  PeerOK(id)' /\ OlsrOK(id)' /\ BabelOK(id)'
    <2>1. PeerOK(id) /\ OlsrOK(id) /\ BabelOK(id)
      BY ConstantTypes DEF MatchInv, HandlerInv, Tunnels
    <2>2. \A r : (r \in rows' /\ r.id = id) <=> (r \in rows /\ r.id = id)
      BY <1>3
    <2> QED BY <2>1, <2>2, SameTunnel
  <1>4. ASSUME nextID \notin dirty PROVE nextID \notin peers /\ nextID \notin babel
    BY <1>4, FreshKey
  <1>5. ASSUME NEW id \in (1 .. MaxID) \ dirty, id = nextID, ~new.wireguard PROVE BabelOK(id)'
    <2>1. \A r \in rows' : r.id = id => ~r.wireguard
      BY <1>1, <1>5
    <2> QED BY <1>4, <1>5, <2>1 DEF BabelOK
  <1> QED BY <1>2, <1>3, <1>4, <1>5

LEMMA PostMatch == ASSUME Sequential, TypeInv, MatchInv, NEW h \in Handler, Post(h) PROVE MatchInv'
  <1>0. LocalsOK /\ HandlerInv(h) /\ cur[h] \in Row
    BY TypeParts DEF LocalsOK, MatchInv
  <1>1. ASSUME NEW host \in Host, PostServer(h, host) PROVE MatchInv'
    <2> DEFINE r == [Zero EXCEPT !.host = host, !.wireguard = TRUE, !.enabled = TRUE]
    <2>1. r.id = 0 /\ r.wireguard
      BY ZeroRow DEF Row
    <2>2. /\ UNCHANGED <<rows, nextID, peers, olsrConf, babel, dirty>> /\ pc'[h] = "hostCheck"
          /\ op'[h] = "server" /\ cur'[h] = r /\ cur[h].id = 0
      BY <1>0, <1>1 DEF PostServer, Begin, Goto, LocalsOK, HandlerInv, Early
    <2> HIDE DEF r
    <2> QED BY <2>1, <2>2, LookupMatch
  <1>2. ASSUME NEW host \in ClientHost, NEW ip \in ClientAddress, PostClient(h, host, ip) PROVE MatchInv'
    <2> DEFINE r == [Zero EXCEPT !.host = host, !.ip = ip, !.wireguard = TRUE, !.client = TRUE]
    <2>1. r.id = 0 /\ r.wireguard
      BY ZeroRow DEF Row
    <2>2. /\ UNCHANGED <<rows, nextID, peers, olsrConf, babel, dirty>> /\ pc'[h] = "ipCheck"
          /\ op'[h] = "client" /\ cur'[h] = r /\ cur[h].id = 0
      BY <1>0, <1>2 DEF PostClient, Begin, Goto, LocalsOK, HandlerInv, Early
    <2> HIDE DEF r
    <2> QED BY <2>1, <2>2, LookupMatch
  <1>3. ASSUME pc[h] \in {"hostCheck", "nextIP", "nextPort", "ipCheck", "create"}
        PROVE  cur[h].id = 0 /\ cur[h].wireguard /\ op[h] \in {"server", "client"}
    BY <1>0, <1>3 DEF HandlerInv, Early
  <1>4. ASSUME HostCheck(h) \/ IPCheck(h) PROVE MatchInv'
    <2>1. /\ UNCHANGED <<rows, nextID, peers, olsrConf, babel>> /\ pc[h] \in {"hostCheck", "ipCheck"}
          /\ Respond(h, 400) \/ \E step \in {"nextIP", "create"} : Continue(h, step)
      BY <1>4 DEF HostCheck, IPCheck
    <2>2. ASSUME NEW step \in {"nextIP", "create"}, Continue(h, step) PROVE MatchInv'
      BY <1>3, <2>1, <2>2, ContinueLocals, LookupMatch DEF Step
    <2> QED BY <1>3, <2>1, <2>2, RefusedMatch
  <1>5. ASSUME NextIP(h) \/ NextPort(h) PROVE MatchInv'
    <2>1. UNCHANGED <<rows, nextID, peers, olsrConf, babel>> /\ pc[h] \in {"nextIP", "nextPort"}
      BY <1>5 DEF NextIP, NextPort
    <2>2. CASE Respond(h, 500)
      BY <2>1, <2>2, BrokenMatch
    <2>3. ASSUME NEW step \in {"nextPort", "create"}, Goto(h, step), UNCHANGED <<op, orig, want, conf, dirty>>,
                 NEW v, \/ cur' = [cur EXCEPT ![h].ip = v]
                        \/ cur' = [cur EXCEPT ![h].port = v]
          PROVE  MatchInv'
      <3>1. cur'[h].id = cur[h].id /\ cur'[h].wireguard = cur[h].wireguard
        BY <1>0, <2>3 DEF LocalsOK, Row
      <3>2. pc'[h] = step /\ op'[h] = op[h]
        BY <1>0, <2>3 DEF LocalsOK, Goto
      <3> QED BY <1>3, <2>1, <2>3, <3>1, <3>2, LookupMatch
    <2> QED BY <1>5, <2>2, <2>3 DEF NextIP, NextPort
  <1>6. ASSUME Create(h) PROVE MatchInv'
    <2>1. pc[h] = "create" /\ nextID \in 1 .. MaxID
      BY <1>6, TypeParts, ConstantTypes DEF Create, TablesOK
    <2>2. PICK new \in Row : /\ new = Created(cur[h]) /\ new.id = nextID /\ new.wireguard = cur[h].wireguard
      BY <1>0, <2>1, CreatedRow
    <2>3. /\ rows' = rows \cup {new} /\ nextID' = nextID + 1 /\ UNCHANGED <<peers, olsrConf, babel, dirty>>
          /\ cur'[h] = new /\ pc'[h] = "addPeer" /\ op'[h] = op[h] /\ new \in rows'
      BY <1>0, <1>6, <2>2 DEF Create, Goto, LocalsOK
    <2>4. cur[h].id = 0 /\ cur[h].wireguard /\ op[h] \in {"server", "client"}
      BY <1>3, <2>1
    <2>5. /\ Keys'
          /\ \A id \in (1 .. MaxID) \ dirty : id # cur'[h].id => PeerOK(id)' /\ OlsrOK(id)' /\ BabelOK(id)'
          /\ \A id \in (1 .. MaxID) \ dirty : id = cur'[h].id => id \notin peers'
      BY <2>1, <2>2, <2>3, <2>4, AddedMatch
    <2>6. Early(h)' /\ Late(h)'
      BY <2>2, <2>3, <2>4 DEF Early, Late
    <2>7. Tunnels(h)'
      BY <2>3, <2>4, <2>5 DEF Tunnels, OwnOK
    <2> QED BY <2>5, <2>6, <2>7, OneHandler DEF HandlerInv
  <1> QED BY <1>1, <1>2, <1>4, <1>5, <1>6 DEF Post

\* A step that changes at most the rows of the request's own tunnel.
LEMMA OwnRowsChanged ==
  ASSUME TypeInv, MatchInv, NEW h \in Handler, UNCHANGED <<peers, olsrConf, babel>>,
         \A r : r.id # cur[h].id => (r \in rows' <=> r \in rows)
  PROVE  \A id \in (1 .. MaxID) \ dirty : id # cur[h].id => PeerOK(id)' /\ OlsrOK(id)' /\ BabelOK(id)'
  <1> SUFFICES ASSUME NEW id \in (1 .. MaxID) \ dirty, id # cur[h].id
               PROVE  PeerOK(id)' /\ OlsrOK(id)' /\ BabelOK(id)'
    OBVIOUS
  <1>1. PeerOK(id) /\ OlsrOK(id) /\ BabelOK(id)
    BY DEF MatchInv, HandlerInv, Tunnels
  <1>2. \A r : (r \in rows' /\ r.id = id) <=> (r \in rows /\ r.id = id)
    OBVIOUS
  <1> QED BY <1>1, <1>2, SameTunnel

LEMMA ToggleMatch == ASSUME Sequential, TypeInv, MatchInv, NEW h \in Handler, Toggle(h) PROVE MatchInv'
  <1> DEFINE On(r) == IF r.id = cur[h].id THEN [r EXCEPT !.enabled = TRUE] ELSE r
  <1>0. /\ LocalsOK /\ HandlerInv(h) /\ cur[h] \in Row /\ pc[h] = "toggle" /\ Keys
        /\ UNCHANGED <<nextID, peers, olsrConf, babel>>
    BY TypeParts DEF LocalsOK, MatchInv, Toggle
  <1>1. rows' = rows \/ rows' = {On(r) : r \in rows}
    BY DEF Toggle
  <1>2. \A r \in rows : /\ On(r).id = r.id /\ On(r).ip = r.ip /\ On(r).port = r.port
                        /\ On(r).client = r.client /\ On(r).wireguard = r.wireguard
                        /\ r.id # cur[h].id => On(r) = r
    BY TableIDs DEF Row
  <1> HIDE DEF On
  <1>3. \A r : r.id # cur[h].id => (r \in rows' <=> r \in rows)
    BY <1>1, <1>2
  <1>4. Keys'
    BY <1>0, <1>1, <1>2 DEF Keys
  <1>5. \A id : (\E r \in rows' : r.id = id /\ r.wireguard) <=> (\E r \in rows : r.id = id /\ r.wireguard)
    BY <1>1, <1>2
  <1>6. \A id \in (1 .. MaxID) \ dirty : id # cur[h].id => PeerOK(id)' /\ OlsrOK(id)' /\ BabelOK(id)'
    BY <1>0, <1>3, OwnRowsChanged
  <1>7. CASE Respond(h, 500)
    BY <1>4, <1>6, <1>7, FailedMatch
  <1>8. ASSUME cur' = [cur EXCEPT ![h].enabled = want[h].enabled], Goto(h, "save"),
               UNCHANGED <<op, orig, want, conf, dirty>>
        PROVE  MatchInv'
    <2>1. /\ pc'[h] = "save" /\ op'[h] = op[h] /\ orig'[h] = orig[h]
          /\ cur'[h].id = cur[h].id /\ cur'[h].ip = cur[h].ip /\ cur'[h].port = cur[h].port
          /\ cur'[h].client = cur[h].client /\ cur'[h].wireguard = cur[h].wireguard
      BY <1>0, <1>8 DEF LocalsOK, Goto, Row
    <2>2. op[h] = "patch" /\ Edits(h)
      BY <1>0 DEF HandlerInv, Early
    <2>3. Edits(h)'
      BY <1>1, <1>2, <2>1, <2>2 DEF Edits
    <2>4. Early(h)' /\ Late(h)'
      BY <2>1, <2>2, <2>3 DEF Early, Late
    <2>5. \A id \in (1 .. MaxID) \ dirty : id = cur[h].id => BabelOK(id)'
      BY <1>0, <1>5, <2>2 DEF HandlerInv, Tunnels, OwnOK, BabelOK
    <2>6. Tunnels(h)'
      BY <1>6, <1>8, <2>1, <2>5 DEF Tunnels, OwnOK
    <2> QED BY <1>4, <2>4, <2>6, OneHandler DEF HandlerInv
  <1> QED BY <1>7, <1>8 DEF Toggle

LEMMA SaveMatch == ASSUME Sequential, TypeInv, MatchInv, NEW h \in Handler, SaveRow(h) PROVE MatchInv'
  <1>0. /\ LocalsOK /\ HandlerInv(h) /\ cur[h] \in Row /\ pc[h] = "save" /\ Keys
        /\ UNCHANGED <<peers, olsrConf, babel, op, orig, want, conf, dirty>> /\ pc'[h] = "removePeer"
    BY TypeParts DEF LocalsOK, MatchInv, SaveRow, Goto
  <1>1. op[h] = "patch" /\ Edits(h)
    BY <1>0 DEF HandlerInv, Early
  <1>2. CASE cur[h].id = 0
    <2>1. nextID \in 1 .. MaxID
      BY <1>2, TypeParts, ConstantTypes DEF SaveRow, TablesOK
    <2>2. PICK new \in Row : /\ new = Created(cur[h]) /\ new.id = nextID /\ new.wireguard = cur[h].wireguard
      BY <1>0, <2>1, CreatedRow
    <2>3. rows' = rows \cup {new} /\ nextID' = nextID + 1 /\ cur'[h] = new /\ new \in rows'
      BY <1>0, <1>2, <2>2 DEF SaveRow, LocalsOK
    <2>4. ~new.wireguard /\ orig[h].id = 0
      BY <1>1, <1>2, <2>2 DEF Edits
    <2>5. /\ Keys'
          /\ \A id \in (1 .. MaxID) \ dirty : id # cur'[h].id => PeerOK(id)' /\ OlsrOK(id)' /\ BabelOK(id)'
          /\ \A id \in (1 .. MaxID) \ dirty : id = cur'[h].id => id \notin peers' /\ BabelOK(id)'
      BY <1>0, <1>2, <2>1, <2>2, <2>3, <2>4, AddedMatch
    <2>6. Early(h)' /\ Late(h)'
      BY <1>0, <1>1, <2>2, <2>3, <2>4 DEF Early, Late
    <2>7. Tunnels(h)'
      BY <1>0, <1>1, <2>3, <2>5 DEF Tunnels, OwnOK
    <2> QED BY <2>5, <2>6, <2>7, OneHandler DEF HandlerInv
  <1>3. CASE cur[h].id # 0
    <2>1. PICK r \in rows : r.id = cur[h].id /\ r.wireguard = cur[h].wireguard
      BY <1>1, <1>3 DEF Edits
    <2>2. Saved(cur[h]) = cur[h]
      BY <2>1 DEF Saved, IDs
    <2>3. rows' = {q \in rows : q.id # cur[h].id} \cup {cur[h]} /\ cur'[h] = cur[h] /\ nextID' = nextID
      BY <1>0, <1>3, <2>2 DEF SaveRow, LocalsOK
    <2>4. Keys'
      BY <1>0, <2>1, <2>3 DEF Keys
    <2>5. \A id \in (1 .. MaxID) \ dirty : id # cur[h].id => PeerOK(id)' /\ OlsrOK(id)' /\ BabelOK(id)'
      <3>1. \A q : q.id # cur[h].id => (q \in rows' <=> q \in rows)
        BY <2>3
      <3> QED BY <1>0, <3>1, OwnRowsChanged
    <2>6. ASSUME NEW id \in (1 .. MaxID) \ dirty, id = cur[h].id PROVE BabelOK(id)'
      <3>1. BabelOK(id)
        BY <1>0, <1>1, <2>6 DEF HandlerInv, Tunnels, OwnOK
      <3>2. \A q \in rows : q.id = id => q = r
        BY <1>0, <2>1, <2>6 DEF Keys
      <3>3. (\E q \in rows : q.id = id /\ q.wireguard) <=> cur[h].wireguard
        BY <2>1, <2>6, <3>2
      <3>4. (\E q \in rows' : q.id = id /\ q.wireguard) <=> cur[h].wireguard
        BY <2>3, <2>6
      <3> QED BY <1>0, <3>1, <3>3, <3>4 DEF BabelOK
    <2>7. Early(h)' /\ Late(h)'
      BY <1>0, <1>1, <2>3 DEF Early, Late, Edits
    <2>8. Tunnels(h)'
      BY <1>0, <1>1, <2>3, <2>5, <2>6 DEF Tunnels, OwnOK, Edits
    <2> QED BY <2>4, <2>7, <2>8, OneHandler DEF HandlerInv
  <1> QED BY <1>2, <1>3

LEMMA PatchMatch == ASSUME Sequential, TypeInv, MatchInv, NEW h \in Handler, Patch(h) PROVE MatchInv'
  <1>0. LocalsOK /\ HandlerInv(h) /\ cur[h] \in Row
    BY TypeParts DEF LocalsOK, MatchInv
  <1>1. ASSUME NEW edit, StartPatch(h, edit) PROVE MatchInv'
    <2>1. /\ UNCHANGED <<rows, nextID, peers, olsrConf, babel, dirty>> /\ pc'[h] = "findIP"
          /\ op'[h] = "patch" /\ cur'[h] = cur[h] /\ cur[h].id = 0
      BY <1>0, <1>1 DEF StartPatch, Begin, Goto, LocalsOK, HandlerInv, Early
    <2>2. Early(h)' /\ Late(h)'
      BY <2>1 DEF Early, Late
    <2>3. Tunnels(h)'
      BY <1>0, <2>1, SameTables, ConstantTypes DEF HandlerInv, Tunnels
    <2> QED BY <2>1, <2>2, <2>3, SameTables, OneHandler DEF HandlerInv
  <1>2. ASSUME FindIP(h) PROVE MatchInv'
    <2>1. UNCHANGED <<rows, nextID, peers, olsrConf, babel>> /\ cur[h].id = 0 /\ op[h] = "patch"
      BY <1>0, <1>2 DEF FindIP, HandlerInv, Early
    <2>2. CASE Respond(h, 400)
      BY <2>1, <2>2, RefusedMatch
    <2>3. ASSUME NEW r, (r \in rows /\ r.ip = want[h].ip) \/ r = Zero, orig' = [orig EXCEPT ![h] = r],
                 cur' = [cur EXCEPT ![h] = [r EXCEPT !.host = want[h].host, !.ip = want[h].ip]],
                 Goto(h, "toggle"), UNCHANGED <<op, want, conf, dirty>>
          PROVE  MatchInv'
      <3>1. r \in Row /\ (r.id = 0 => r = Zero) /\ (r.id # 0 => r \in rows /\ r.ip = want[h].ip)
        BY <2>3, TableIDs, ZeroRow, ConstantTypes
      <3>2. /\ cur'[h].id = r.id /\ cur'[h].wireguard = r.wireguard /\ cur'[h].client = r.client
            /\ cur'[h].port = r.port /\ cur'[h].ip = want[h].ip
            /\ orig'[h] = r /\ pc'[h] = "toggle" /\ op'[h] = "patch"
        BY <1>0, <2>1, <2>3, <3>1 DEF LocalsOK, Goto, Row
      <3>3. Edits(h)'
        BY <2>1, <2>3, <3>1, <3>2, ZeroRow DEF Edits
      <3>4. Early(h)' /\ Late(h)'
        BY <3>2, <3>3 DEF Early, Late
      <3>5. \A id \in (1 .. MaxID) \ dirty : PeerOK(id)' /\ OlsrOK(id)' /\ BabelOK(id)'
        BY <1>0, <2>1, SameTables, ConstantTypes DEF HandlerInv, Tunnels
      <3>6. Tunnels(h)'
        BY <2>3, <3>2, <3>5 DEF Tunnels, OwnOK
      <3> QED BY <2>1, <3>4, <3>6, SameTables, OneHandler DEF HandlerInv
    <2> QED BY <1>2, <2>2, <2>3 DEF FindIP
  <1> QED BY <1>1, <1>2, ToggleMatch, SaveMatch DEF Patch

LEMMA DeleteMatch == ASSUME Sequential, TypeInv, MatchInv, NEW h \in Handler, DeleteRequest(h) PROVE MatchInv'
  <1>0. LocalsOK /\ HandlerInv(h) /\ cur[h] \in Row
    BY TypeParts DEF LocalsOK, MatchInv
  <1>1. ASSUME NEW id \in 1 .. MaxID, StartDelete(h, id) PROVE MatchInv'
    <2>1. /\ UNCHANGED <<rows, nextID, peers, olsrConf, babel, dirty>> /\ pc'[h] = "load"
          /\ op'[h] = "delete" /\ cur'[h].id = id /\ cur[h].id = 0
      BY <1>0, <1>1 DEF StartDelete, Begin, Goto, LocalsOK, HandlerInv, Early, Row
    <2>2. Early(h)' /\ Late(h)'
      BY <2>1, ConstantTypes DEF Early, Late
    <2>3. \A i \in (1 .. MaxID) \ dirty : PeerOK(i)' /\ OlsrOK(i)' /\ BabelOK(i)'
      BY <1>0, <2>1, SameTables, ConstantTypes DEF HandlerInv, Tunnels
    <2>4. Tunnels(h)'
      BY <2>1, <2>3 DEF Tunnels, OwnOK
    <2> QED BY <2>1, <2>2, <2>4, SameTables, OneHandler DEF HandlerInv
  <1>2. ASSUME Load(h) PROVE MatchInv'
    <2>1. UNCHANGED <<rows, nextID, peers, olsrConf, babel>> /\ op[h] = "delete"
      BY <1>0, <1>2 DEF Load, HandlerInv, Early
    <2>2. CASE Respond(h, 500)
      BY <2>1, <2>2, BrokenMatch
    <2>3. ASSUME NEW r \in rows, r.id = cur[h].id, cur' = [cur EXCEPT ![h] = r],
                 orig' = [orig EXCEPT ![h] = r], Goto(h, "delete"), UNCHANGED <<op, want, conf, dirty>>
          PROVE  MatchInv'
      <3>1. cur'[h] = r /\ orig'[h] = r /\ pc'[h] = "delete" /\ op'[h] = "delete" /\ dirty' = dirty
        BY <1>0, <2>1, <2>3 DEF LocalsOK, Goto
      <3>2. Early(h)' /\ Late(h)'
        BY <3>1 DEF Early, Late
      <3>3. Tunnels(h)'
        BY <1>0, <2>1, <2>3, <3>1, SameTables DEF HandlerInv, Tunnels, OwnOK
      <3> QED BY <2>1, <3>2, <3>3, SameTables, OneHandler DEF HandlerInv
    <2> QED BY <1>2, <2>2, <2>3 DEF Load
  <1>3. ASSUME Delete(h) PROVE MatchInv'
    <2>1. /\ op[h] = "delete" /\ orig[h].id = cur[h].id
          /\ rows' = {r \in rows : r.id # cur[h].id} /\ UNCHANGED <<nextID, peers, olsrConf, babel>>
      BY <1>0, <1>3 DEF Delete, HandlerInv, Early
    <2>2. /\ pc'[h] = "removePeer" /\ op'[h] = "delete" /\ cur'[h] = cur[h] /\ orig'[h] = orig[h]
          /\ dirty' = dirty
      BY <1>3, <2>1, ContinueLocals DEF Delete, Step
    <2>3. Keys'
      BY <2>1 DEF MatchInv, Keys
    <2>4. Early(h)' /\ Late(h)'
      BY <2>1, <2>2 DEF Early, Late, IDs
    <2>5. Tunnels(h)'
      BY <2>1, <2>2, OwnRowsChanged DEF Tunnels, OwnOK
    <2> QED BY <2>3, <2>4, <2>5, OneHandler DEF HandlerInv
  <1> QED BY <1>1, <1>2, <1>3 DEF DeleteRequest

LEMMA CommonMatch == ASSUME Sequential, TypeInv, MatchInv, NEW h \in Handler, Common(h) PROVE MatchInv'
  <1>0. LocalsOK /\ HandlerInv(h) /\ cur[h] \in Row /\ Keys
    BY TypeParts DEF LocalsOK, MatchInv
  <1>1. \A id \in (1 .. MaxID) \ dirty : id # cur[h].id => PeerOK(id) /\ OlsrOK(id) /\ BabelOK(id)
    BY <1>0 DEF HandlerInv, Tunnels
  <1>2. ASSUME NEW id \in (1 .. MaxID) \ dirty, id = cur[h].id PROVE OwnOK(h, id)
    BY <1>0, <1>2 DEF HandlerInv, Tunnels
  <1>3. \A id \in 1 .. MaxID : id # 0
    BY ConstantTypes
  <1>4. ASSUME AddPeer(h) PROVE MatchInv'
    <2>1. /\ pc[h] = "addPeer" /\ UNCHANGED <<rows, nextID, olsrConf, babel>> /\ op[h] # "delete"
          /\ cur[h] \in rows /\ (op[h] \in {"server", "client"} => cur[h].wireguard)
      BY <1>0, <1>4 DEF AddPeer, HandlerInv, Late
    <2>2. \A id \in (1 .. MaxID) \ dirty : id # cur[h].id => PeerOK(id)' /\ OlsrOK(id)' /\ BabelOK(id)'
      BY <1>1, <1>4, <2>1, SameTunnel DEF AddPeer
    <2>3. Keys'
      BY <1>0, <2>1 DEF Keys
    <2>4. CASE Respond(h, 500)
      BY <2>2, <2>3, <2>4, FailedMatch
    <2>5. ASSUME peers' = IF cur[h].enabled THEN peers \cup {cur[h].id} ELSE peers, Continue(h, "generate")
          PROVE  MatchInv'
      <3>1. /\ pc'[h] = "generate" /\ op'[h] = op[h] /\ cur'[h] = cur[h] /\ dirty' = dirty
        BY <2>5, ContinueLocals DEF Step
      <3>2. Early(h)' /\ Late(h)'
        BY <2>1, <3>1 DEF Early, Late
      <3>3. ASSUME NEW id \in (1 .. MaxID) \ dirty, id = cur[h].id PROVE OwnOK(h, id)'
        <4>1. id \notin peers /\ (op[h] = "patch" => BabelOK(id))
          BY <1>2, <2>1, <3>3 DEF OwnOK
        <4>2. \A r \in rows : r.id = id => r = cur[h]
          BY <1>0, <2>1, <3>3 DEF Keys
        <4>3. PeerOK(id)'
          BY <2>1, <2>5, <3>3, <4>1, <4>2 DEF PeerOK
        <4>4. op[h] = "patch" => BabelOK(id)'
          BY <2>1, <4>1 DEF BabelOK
        <4> QED BY <3>1, <4>3, <4>4 DEF OwnOK
      <3>4. Tunnels(h)'
        BY <2>2, <3>1, <3>3 DEF Tunnels
      <3> QED BY <2>3, <3>2, <3>4, OneHandler DEF HandlerInv
    <2> QED BY <1>4, <2>4, <2>5 DEF AddPeer
  <1>5. ASSUME RemovePeer(h) PROVE MatchInv'
    <2>1. /\ pc[h] = "removePeer" /\ UNCHANGED <<rows, nextID, olsrConf, babel>>
          /\ op[h] \in {"patch", "delete"} /\ orig[h].id \in {0, cur[h].id}
          /\ orig[h].id # cur[h].id => op[h] = "patch"
          /\ IF op[h] = "delete" THEN cur[h].id \notin IDs ELSE cur[h] \in rows
      BY <1>0, <1>5 DEF RemovePeer, HandlerInv, Late
    <2>2. \A id \in (1 .. MaxID) \ dirty : id # cur[h].id => PeerOK(id)' /\ OlsrOK(id)' /\ BabelOK(id)'
      BY <1>1, <1>3, <1>5, <2>1, SameTunnel DEF RemovePeer
    <2>3. Keys'
      BY <1>0, <2>1 DEF Keys
    <2>4. CASE Respond(h, 500)
      BY <2>2, <2>3, <2>4, FailedMatch
    <2>5. ASSUME peers' = peers \ {orig[h].id}, Continue(h, AfterRemove(h)) PROVE MatchInv'
      <3>1. /\ pc'[h] = (IF op[h] = "patch" THEN "addPeer" ELSE "generate")
            /\ op'[h] = op[h] /\ cur'[h] = cur[h] /\ dirty' = dirty
        BY <2>5, ContinueLocals DEF Step, AfterRemove
      <3>2. Early(h)' /\ Late(h)'
        BY <2>1, <3>1 DEF Early, Late, IDs
      <3>3. ASSUME NEW id \in (1 .. MaxID) \ dirty, id = cur[h].id PROVE OwnOK(h, id)'
        <4>1. /\ orig[h].id # id => id \notin peers
              /\ op[h] = "patch" => BabelOK(id)
          BY <1>2, <2>1, <3>3 DEF OwnOK
        <4>2. id \notin peers'
          BY <2>5, <4>1
        <4>3. op[h] = "delete" => PeerOK(id)'
          BY <2>1, <3>3, <4>2 DEF PeerOK, IDs
        <4>4. op[h] = "patch" => BabelOK(id)'
          BY <2>1, <4>1 DEF BabelOK
        <4> QED BY <2>1, <3>1, <4>2, <4>3, <4>4 DEF OwnOK
      <3>4. Tunnels(h)'
        BY <2>2, <3>1, <3>3 DEF Tunnels
      <3> QED BY <2>3, <3>2, <3>4, OneHandler DEF HandlerInv
    <2> QED BY <1>5, <2>4, <2>5 DEF RemovePeer
  <1>6. ASSUME Generate(h) PROVE MatchInv'
    <2>1. /\ UNCHANGED <<rows, nextID, peers, olsrConf, babel, dirty>> /\ pc[h] = "generate" /\ pc'[h] = "write"
          /\ conf'[h] = {r.id : r \in {r \in rows : r.wireguard /\ r.enabled}}
          /\ op'[h] = op[h] /\ cur'[h] = cur[h]
      BY <1>0, <1>6 DEF Generate, Goto, LocalsOK
    <2>2. Early(h)' /\ Late(h)'
      BY <1>0, <2>1 DEF HandlerInv, Early, Late, IDs
    <2>3. Tunnels(h)'
      BY <1>1, <1>2, <2>1, SameTables DEF Tunnels, OwnOK
    <2> QED BY <2>1, <2>2, <2>3, SameTables, OneHandler DEF HandlerInv
  <1>7. ASSUME WriteConf(h) PROVE MatchInv'
    <2>1. /\ pc[h] = "fill" /\ UNCHANGED <<rows, nextID, peers, babel>>
          /\ conf[h] = {r.id : r \in {r \in rows : r.wireguard /\ r.enabled}}
          /\ \A id : id \in conf[h] <=> Routed(id)
      BY <1>0, <1>7 DEF WriteConf, HandlerInv, Late, Routed
    <2>2. \A id : OlsrOK(id)' /\ (PeerOK(id)' <=> PeerOK(id)) /\ (BabelOK(id)' <=> BabelOK(id))
      <3>1. \A id : (Routed(id)' <=> Routed(id)) /\ (PeerOK(id)' <=> PeerOK(id)) /\ (BabelOK(id)' <=> BabelOK(id))
        BY <2>1 DEF Routed, PeerOK, BabelOK
      <3>2. olsrConf' = [ids |-> conf[h], whole |-> TRUE] 
            \/ \E part \in SUBSET conf[h] : olsrConf' = [ids |-> part, whole |-> FALSE]
        BY <1>7 DEF WriteConf
      <3>3. /\ olsrConf'.ids \subseteq conf[h]
            /\ olsrConf'.whole => olsrConf'.ids = conf[h]
        BY <3>2
      <3> QED BY <2>1, <3>1, <3>3 DEF OlsrOK
    <2>3. Keys'
      BY <1>0, <2>1 DEF Keys
    <2>4. CASE Respond(h, 500)
      BY <1>1, <2>2, <2>3, <2>4, FailedMatch
    <2>5. ASSUME Continue(h, AfterWrite(h)) PROVE MatchInv'
      <3>1. /\ pc'[h] = (IF op[h] = "patch" THEN "dnsmasq" ELSE "babel")
            /\ op'[h] = op[h] /\ cur'[h] = cur[h] /\ dirty' = dirty
        BY <2>5, ContinueLocals DEF Step, AfterWrite
      <3>2. Early(h)' /\ Late(h)'
        BY <1>0, <2>1, <3>1 DEF HandlerInv, Early, Late, IDs
      <3>3. Tunnels(h)'
        BY <1>1, <1>2, <2>1, <2>2, <3>1 DEF Tunnels, OwnOK
      <3> QED BY <2>3, <3>2, <3>3, OneHandler DEF HandlerInv
    <2> QED BY <1>7, <2>4, <2>5 DEF WriteConf
  <1>11. ASSUME TruncateConf(h) PROVE MatchInv'
    <2>1. /\ pc[h] = "write" /\ UNCHANGED <<rows, nextID, peers, babel>>
          /\ olsrConf' = [ids |-> {}, whole |-> FALSE]
      BY <1>11 DEF TruncateConf
    <2>2. \A id : OlsrOK(id)' /\ (PeerOK(id)' <=> PeerOK(id)) /\ (BabelOK(id)' <=> BabelOK(id))
      BY <2>1 DEF OlsrOK, PeerOK, BabelOK
    <2>3. Keys'
      BY <1>0, <2>1 DEF Keys
    <2>4. pc'[h] = "fill" /\ op'[h] = op[h] /\ cur'[h] = cur[h] /\ dirty' = dirty /\ conf'[h] = conf[h]
      BY <1>11, ContinueLocals DEF TruncateConf, Step
    <2>5. Early(h)' /\ Late(h)'
      BY <1>0, <2>1, <2>4 DEF HandlerInv, Early, Late, IDs
    <2>6. Tunnels(h)'
      BY <1>1, <1>2, <2>1, <2>2, <2>4 DEF Tunnels, OwnOK
    <2> QED BY <2>3, <2>5, <2>6, OneHandler DEF HandlerInv
  <1>8. ASSUME BabelTunnel(h) PROVE MatchInv'
    <2>1. /\ pc[h] = "babel" /\ UNCHANGED <<rows, nextID, peers, olsrConf>> /\ op[h] # "patch"
          /\ IF op[h] = "delete" THEN cur[h].id \notin IDs ELSE cur[h] \in rows
          /\ op[h] \in {"server", "client"} => cur[h].wireguard
          /\ op[h] \in {"server", "client", "patch", "delete"}
          /\ babel' = IF op[h] = "delete" THEN babel \ {cur[h].id} ELSE babel \cup {cur[h].id}
      BY <1>0, <1>8 DEF BabelTunnel, HandlerInv, Late, LocalsOK
    <2>2. /\ pc'[h] = "dnsmasq" /\ op'[h] = op[h] /\ cur'[h] = cur[h] /\ dirty' = dirty
      BY <1>8, ContinueLocals DEF BabelTunnel, Step
    <2>3. Keys'
      BY <1>0, <2>1 DEF Keys
    <2>4. \A id \in (1 .. MaxID) \ dirty : id # cur[h].id => PeerOK(id)' /\ OlsrOK(id)' /\ BabelOK(id)'
      BY <1>1, <2>1, SameTunnel
    <2>5. ASSUME NEW id \in (1 .. MaxID) \ dirty, id = cur[h].id PROVE OwnOK(h, id)'
      <3>1. PeerOK(id) /\ OlsrOK(id)
        BY <1>2, <2>1, <2>5 DEF OwnOK
      <3>2. PeerOK(id)' /\ OlsrOK(id)'
        BY <2>1, <3>1 DEF PeerOK, OlsrOK, Routed
      <3>3. BabelOK(id)'
        BY <2>1, <2>5 DEF BabelOK, IDs
      <3> QED BY <2>2, <3>2, <3>3 DEF OwnOK
    <2>6. Early(h)' /\ Late(h)'
      BY <1>0, <2>1, <2>2 DEF HandlerInv, Early, Late, IDs
    <2>7. Tunnels(h)'
      BY <2>2, <2>4, <2>5 DEF Tunnels
    <2> QED BY <2>3, <2>6, <2>7, OneHandler DEF HandlerInv
  <1>9. ASSUME ReloadDNS(h) PROVE MatchInv'
    <2>1. UNCHANGED <<rows, nextID, peers, olsrConf, babel, dirty>> /\ Respond(h, 200) /\ pc[h] = "dnsmasq"
      BY <1>9 DEF ReloadDNS, Respond
    <2>2. \A id \in (1 .. MaxID) \ dirty : PeerOK(id) /\ OlsrOK(id) /\ BabelOK(id)
      BY <1>1, <1>2, <2>1 DEF OwnOK
    <2> QED BY <2>1, <2>2, SameTables, RespondMatch
  <1>10. ASSUME Fail(h) PROVE MatchInv'
    BY <1>10, BrokenMatch DEF Fail
  <1> QED BY <1>4, <1>5, <1>6, <1>7, <1>8, <1>9, <1>10, <1>11 DEF Common

LEMMA NextMatch == ASSUME Sequential PROVE TypeInv /\ MatchInv /\ [Next]_vars => MatchInv'
  <1>1. ASSUME TypeInv, MatchInv, Next PROVE MatchInv'
    BY <1>1, PostMatch, PatchMatch, DeleteMatch, CommonMatch DEF Next
  <1>2. ASSUME MatchInv, UNCHANGED vars PROVE MatchInv'
    BY <1>2 DEF MatchInv, HandlerInv, Keys, Early, Late, Edits, Tunnels, OwnOK, PeerOK, OlsrOK, Routed, BabelOK, IDs
  <1> QED BY <1>1, <1>2

LEMMA MatchHolds == ASSUME Sequential PROVE Spec => [](TypeInv /\ MatchInv)
  <1>1. Spec => []TypeInv
    BY InitTypeInv, NextTypeInv, PTL DEF Spec
  <1>2. TypeInv /\ MatchInv /\ [Next]_vars => MatchInv'
    BY NextMatch
  <1> QED BY <1>1, <1>2, InitMatch, PTL DEF Spec

LEMMA IdleTunnels ==
  ASSUME Sequential, MatchInv, Idle, NEW id \in (1 .. MaxID) \ dirty
  PROVE  PeerOK(id) /\ OlsrOK(id) /\ BabelOK(id)
  <1>1. PICK h : h \in Handler
    BY DEF Sequential
  <1>2. cur[h].id = 0
    BY <1>1 DEF Idle, MatchInv, HandlerInv, Early
  <1>3. id # cur[h].id
    BY <1>2, ConstantTypes
  <1> QED BY <1>1, <1>3 DEF MatchInv, HandlerInv, Tunnels

\* Peers: whatever sequence of requests came, one at a time, and wherever one of
\* them failed, the manager has a peer up exactly for the enabled rows, the
\* tunnels a request failed for aside.
THEOREM Peers == ASSUME Sequential PROVE Spec => []PeersMatchRows
  <1>1. TypeInv /\ MatchInv => PeersMatchRows
    <2> SUFFICES ASSUME TypeInv, MatchInv, Idle, NEW id \in (1 .. MaxID) \ dirty
                 PROVE  id \in peers <=> \E r \in rows : r.id = id /\ r.enabled
      BY DEF PeersMatchRows
    <2>1. PeerOK(id)
      BY IdleTunnels
    <2> QED BY <2>1 DEF PeerOK
  <1> QED BY <1>1, MatchHolds, PTL

\* Routers: likewise for what babeld was told and, while the last write of
\* olsrd.conf came to its end, for olsrd's configuration; a file whose write broke
\* off still has no interface without an enabled row.
THEOREM Routers == ASSUME Sequential PROVE Spec => []RoutersMatchRows
  <1>1. TypeInv /\ MatchInv => RoutersMatchRows
    <2> SUFFICES ASSUME TypeInv, MatchInv, Idle, NEW id \in (1 .. MaxID) \ dirty
                 PROVE  /\ id \in olsrConf.ids => Routed(id)
                        /\ olsrConf.whole /\ Routed(id) => id \in olsrConf.ids
                        /\ id \in babel <=> \E r \in rows : r.id = id /\ r.wireguard
      BY DEF RoutersMatchRows, Routed
    <2>1. OlsrOK(id) /\ BabelOK(id)
      BY IdleTunnels
    <2> QED BY <2>1 DEF OlsrOK, BabelOK
  <1> QED BY <1>1, MatchHolds, PTL

-----------------------------------------------------------------------------
(* Addresses and ports of the hosted tunnels.                              *)

Aligned(a) == a \in Address /\ a[2] % 4 = 0 /\ a[1] < Byte - 2

HostedApart ==
    /\ \A r \in ServerRows : Aligned(r.ip)
    /\ \A r, s \in ServerRows : r # s => r.ip # s.ip /\ r.port # s.port

\* What POSTTunnel has chosen is still free.
Chosen(h) ==
    /\ pc[h] = "ipCheck" => cur[h].client
    /\ pc[h] \in {"nextPort", "create"} /\ ~cur[h].client =>
           Aligned(cur[h].ip) /\ \A r \in ServerRows : r.ip # cur[h].ip
    /\ pc[h] = "create" /\ ~cur[h].client => \A r \in ServerRows : r.port # cur[h].port

AddressInv == HostedApart /\ \A h \in Handler : Chosen(h)

\* The arithmetic of blocks of four.
LEMMA AlignedOctet ==
  ASSUME NEW x \in Octet, x % 4 = 0
  PROVE  x + 3 < Byte
  BY ConstantTypes DEF Octet

LEMMA AddressParts ==
  ASSUME NEW a \in Address
  PROVE  a = <<a[1], a[2]>> /\ a[1] \in Octet /\ a[2] \in Octet /\ Octet \subseteq Nat
  BY ConstantTypes DEF Address, Octet

LEMMA ModByte == ASSUME NEW x \in Octet PROVE x % Byte = x /\ (x + Byte) % Byte = x
  BY ConstantTypes DEF Octet

\* GetNextWireguardIP returns the start of a block no hosted tunnel has.
LEMMA NextAddress ==
  ASSUME AlignedStart, NEW S, \A a \in S : Aligned(a), NEW ip \in Address, GetNextWireguardIP(ip, S)
  PROVE  Aligned(ip) /\ ip \notin S
  <1>1. PICK h \in S \cup {StartAddress} : IsHighest(h, S) /\ ip = After(h)
    BY DEF GetNextWireguardIP
  <1>2. Aligned(h) /\ h[1] \in Octet /\ h[2] \in Octet /\ h[2] % 4 = 0 /\ h[1] < Byte - 2
    BY <1>1, ConstantTypes, AddressParts DEF Aligned, AlignedStart
  <1>3. Aligned(ip) /\ Higher(ip, h)
    <2>1. CASE h[2] = Byte - 4
      <3>1. h[1] + 1 \in Octet /\ 0 \in Octet
        BY <1>2, ConstantTypes DEF Octet
      <3>2. (h[1] + 1) % Byte = h[1] + 1
        BY <3>1, ModByte
      <3>3. ip = <<h[1] + 1, 0>> /\ ~(h[1] + 1 >= Byte - 2)
        BY <1>1, <2>1, <3>2, ConstantTypes DEF After
      <3>4. h[1] + 1 < Byte - 2 /\ h[1] + 1 > h[1] /\ 0 % 4 = 0
        BY <1>2, <3>3, ConstantTypes DEF Octet
      <3> QED BY <3>1, <3>3, <3>4 DEF Aligned, Address, Higher
    <2>2. CASE h[2] # Byte - 4
      <3>1. h[2] + 4 \in Octet /\ (h[2] + 4) % 4 = 0 /\ h[2] + 4 > h[2]
        BY <1>2, <2>2, ConstantTypes DEF Octet
      <3>2. (h[2] + 4) % Byte = h[2] + 4
        BY <3>1, ModByte
      <3>3. ip = <<h[1], h[2] + 4>>
        BY <1>1, <2>2, <3>2 DEF After
      <3> QED BY <1>2, <3>1, <3>3 DEF Aligned, Address, Higher
    <2> QED BY <2>1, <2>2
  <1> QED BY <1>1, <1>3 DEF IsHighest

\* The five places that compute the other end of a hosted tunnel agree on it, and
\* two blocks do not meet.
LEMMA OneBlock ==
  ASSUME NEW a, Aligned(a)
  PROVE  /\ ClientSide(a) = <<a[1], a[2] + 1>> /\ IncrementIP(a) = ClientSide(a)
         /\ TunnelOfClientSide(ClientSide(a)) = a
         /\ deriveWireguardPeerIP("wgs", a) = ClientSide(a)
         /\ deriveWireguardPeerIP("wgc", ClientSide(a)) = a
  <1>1. a = <<a[1], a[2]>> /\ a[1] \in Octet /\ a[2] \in Octet /\ a[2] % 4 = 0
    BY AddressParts DEF Aligned
  <1>2. a[2] + 1 \in Octet /\ a[2] + 1 # 0 /\ a[2] # Byte - 1
    BY <1>1, AlignedOctet, ConstantTypes DEF Octet
  <1>3. (a[2] + 1) % Byte = a[2] + 1 /\ (a[2] + Byte) % Byte = a[2]
    BY <1>1, <1>2, ModByte
  <1>4. a[2] + 1 + Byte - 1 = a[2] + Byte
    BY <1>1, ConstantTypes DEF Octet
  <1>5. ClientSide(a) = <<a[1], a[2] + 1>>
    BY <1>2, <1>3 DEF ClientSide
  <1>6. ClientSide(a)[1] = a[1] /\ ClientSide(a)[2] = a[2] + 1
    BY <1>5
  <1>7. IncrementIP(a) = <<a[1], a[2] + 1>>
    BY <1>2 DEF IncrementIP
  <1>8. TunnelOfClientSide(ClientSide(a)) = <<a[1], a[2]>>
    BY <1>3, <1>4, <1>6 DEF TunnelOfClientSide
  <1>9. deriveWireguardPeerIP("wgs", a) = <<a[1], a[2] + 1>>
    BY <1>3 DEF deriveWireguardPeerIP
  <1>10. deriveWireguardPeerIP("wgc", ClientSide(a)) = <<a[1], a[2]>>
    BY <1>3, <1>4, <1>6 DEF deriveWireguardPeerIP
  <1> QED BY <1>1, <1>5, <1>7, <1>8, <1>9, <1>10

LEMMA TwoBlocks ==
  ASSUME NEW a, NEW b, Aligned(a), Aligned(b), a # b
  PROVE  Block(a) \cap Block(b) = {}
  <1>1. /\ a = <<a[1], a[2]>> /\ a[1] \in Nat /\ a[2] \in Nat /\ a[2] % 4 = 0
        /\ b = <<b[1], b[2]>> /\ b[1] \in Nat /\ b[2] \in Nat /\ b[2] % 4 = 0
    BY AddressParts DEF Aligned
  <1>2. Block(a) = {a, <<a[1], a[2] + 1>>} /\ Block(b) = {b, <<b[1], b[2] + 1>>}
    BY OneBlock DEF Block
  <1>3. a[2] # b[2] + 1 /\ b[2] # a[2] + 1
    BY <1>1
  <1>4. a # <<b[1], b[2] + 1>> /\ b # <<a[1], a[2] + 1>>
    BY <1>1, <1>3
  <1>5. <<a[1], a[2] + 1>> # <<b[1], b[2] + 1>>
    BY <1>1
  <1> QED BY <1>2, <1>4, <1>5
LEMMA InitAddress == Init => AddressInv
  BY DEF Init, AddressInv, HostedApart, Chosen, ServerRows

\* A step that replaces the table row by row with ones that have the same key,
\* address, port and kind, or drops some, keeps the hosted tunnels apart.
LEMMA KeptApart ==
  ASSUME HostedApart,
         \A r \in rows' : \E s \in rows :
             r.ip = s.ip /\ r.port = s.port /\ r.client = s.client /\ r.wireguard = s.wireguard /\ r.id = s.id,
         Keys'
  PROVE  HostedApart'
  <1>1. ASSUME NEW r \in rows', r.wireguard, ~r.client
        PROVE  \E s \in ServerRows : r.ip = s.ip /\ r.port = s.port /\ r.id = s.id
    BY <1>1 DEF ServerRows
  <1>2. \A r \in ServerRows' : Aligned(r.ip)
    BY <1>1 DEF HostedApart, ServerRows
  <1>3. ASSUME NEW q \in ServerRows', NEW r \in ServerRows', q # r PROVE q.ip # r.ip /\ q.port # r.port
    <2>1. PICK s \in ServerRows : q.ip = s.ip /\ q.port = s.port /\ q.id = s.id
      BY <1>1 DEF ServerRows
    <2>2. PICK t \in ServerRows : r.ip = t.ip /\ r.port = t.port /\ r.id = t.id
      BY <1>1 DEF ServerRows
    <2>3. q.id # r.id
      BY <1>3 DEF Keys, ServerRows
    <2>4. s # t
      BY <2>1, <2>2, <2>3
    <2> QED BY <2>1, <2>2, <2>4 DEF HostedApart
  <1> QED BY <1>2, <1>3 DEF HostedApart, Aligned

\* A new row that is no hosted tunnel, or one with an address and a port of its own.
LEMMA AddedApart ==
  ASSUME HostedApart, NEW new, rows' = rows \cup {new},
         new.wireguard /\ ~new.client =>
             Aligned(new.ip) /\ \A r \in ServerRows : r.ip # new.ip /\ r.port # new.port
  PROVE  HostedApart'
  <1>1. ServerRows' \subseteq ServerRows \cup {new} /\ (new \in ServerRows' => new.wireguard /\ ~new.client)
    BY DEF ServerRows
  <1>2. \A r \in ServerRows' : Aligned(r.ip)
    BY <1>1 DEF HostedApart
  <1>3. \A r, s \in ServerRows' : r # s => r.ip # s.ip /\ r.port # s.port
    BY <1>1 DEF HostedApart
  <1> QED BY <1>2, <1>3 DEF HostedApart, Aligned

LEMMA NextApart ==
  ASSUME TypeInv, MatchInv, AddressInv, MatchInv', NEW h \in Handler, Post(h) \/ Patch(h) \/ DeleteRequest(h) \/ Common(h)
  PROVE  HostedApart'
  <1>0. LocalsOK /\ HandlerInv(h) /\ Chosen(h) /\ HostedApart /\ cur[h] \in Row /\ Keys'
    BY TypeParts DEF LocalsOK, MatchInv, AddressInv
  <1>1. CASE rows' \subseteq rows
    BY <1>0, <1>1, KeptApart
  <1>2. ASSUME Create(h) \/ (SaveRow(h) /\ cur[h].id = 0) PROVE HostedApart'
    <2>1. rows' = rows \cup {Created(cur[h])} /\ nextID \in 1 .. MaxID
      BY <1>2, TypeParts, ConstantTypes DEF Create, SaveRow, TablesOK
    <2>2. PICK new \in Row : /\ new = Created(cur[h]) /\ new.ip = cur[h].ip /\ new.port = cur[h].port
                             /\ new.client = cur[h].client /\ new.wireguard = cur[h].wireguard
      BY <1>0, <2>1, CreatedRow
    <2>3. new.wireguard /\ ~new.client =>
             Aligned(new.ip) /\ \A r \in ServerRows : r.ip # new.ip /\ r.port # new.port
      <3>1. CASE Create(h)
        BY <1>0, <2>2, <3>1 DEF Create, Chosen
      <3>2. CASE SaveRow(h) /\ cur[h].id = 0
        BY <1>0, <2>2, <3>2 DEF SaveRow, HandlerInv, Early, Edits
      <3> QED BY <1>2, <3>1, <3>2
    <2> QED BY <1>0, <2>1, <2>2, <2>3, AddedApart
  <1>3. ASSUME SaveRow(h), cur[h].id # 0 PROVE HostedApart'
    <2>1. PICK r \in rows : /\ r.id = cur[h].id /\ r.ip = cur[h].ip /\ r.port = cur[h].port
                            /\ r.client = cur[h].client /\ r.wireguard = cur[h].wireguard
      BY <1>0, <1>3 DEF SaveRow, HandlerInv, Early, Edits
    <2>2. rows' = {q \in rows : q.id # cur[h].id} \cup {cur[h]}
      BY <1>3, <2>1 DEF SaveRow, Saved, IDs
    <2> QED BY <1>0, <2>1, <2>2, KeptApart
  <1>4. ASSUME Toggle(h) PROVE HostedApart'
    <2>1. \A r \in rows : /\ [r EXCEPT !.enabled = TRUE].id = r.id /\ [r EXCEPT !.enabled = TRUE].ip = r.ip
                          /\ [r EXCEPT !.enabled = TRUE].port = r.port
                          /\ [r EXCEPT !.enabled = TRUE].client = r.client
                          /\ [r EXCEPT !.enabled = TRUE].wireguard = r.wireguard
      BY TableIDs DEF Row
    <2>2. \A r \in rows' : \E s \in rows : r = s \/ r = [s EXCEPT !.enabled = TRUE]
      BY <1>4 DEF Toggle
    <2> QED BY <1>0, <2>1, <2>2, KeptApart
  <1> QED BY <1>1, <1>2, <1>3, <1>4
          DEF Post, PostServer, PostClient, Begin, HostCheck, NextIP, NextPort, IPCheck, Patch, StartPatch,
              FindIP, DeleteRequest, StartDelete, Load, Delete, Common, AddPeer, RemovePeer, Generate,
              TruncateConf, WriteConf, BabelTunnel, ReloadDNS, Fail

LEMMA NextChosen ==
  ASSUME AlignedStart, TypeInv, AddressInv, NEW h \in Handler, Post(h) \/ Patch(h) \/ DeleteRequest(h) \/ Common(h)
  PROVE  Chosen(h)'
  <1>0. LocalsOK /\ Chosen(h) /\ HostedApart /\ cur[h] \in Row
    BY TypeParts DEF LocalsOK, AddressInv
  <1>1. CASE pc'[h] \notin {"ipCheck", "nextPort", "create"}
    BY <1>1 DEF Chosen
  <1>2. ASSUME NEW host \in ClientHost, NEW ip \in ClientAddress, PostClient(h, host, ip) PROVE Chosen(h)'
    <2>1. cur'[h] = [Zero EXCEPT !.host = host, !.ip = ip, !.wireguard = TRUE, !.client = TRUE]
      BY <1>0, <1>2 DEF PostClient, LocalsOK
    <2>2. cur'[h].client
      BY <2>1, ZeroRow DEF Row
    <2> QED BY <2>2 DEF Chosen
  <1>3. ASSUME NextIP(h) PROVE Chosen(h)'
    <2>1. CASE Respond(h, 500)
      BY <1>0, <2>1 DEF Respond, Goto, LocalsOK, Chosen
    <2>2. ASSUME NEW ip \in Address, GetNextWireguardIP(ip, {r.ip : r \in ServerRows}),
                 cur' = [cur EXCEPT ![h].ip = ip], Goto(h, "nextPort"), rows' = rows
          PROVE  Chosen(h)'
      <3>1. \A a \in {r.ip : r \in ServerRows} : Aligned(a)
        BY <1>0 DEF HostedApart
      <3>2. Aligned(ip) /\ ip \notin {r.ip : r \in ServerRows}
        BY <2>2, <3>1, NextAddress
      <3>3. cur'[h].ip = ip /\ pc'[h] = "nextPort" /\ ServerRows' = ServerRows
        BY <1>0, <2>2 DEF LocalsOK, Row, Goto, ServerRows
      <3> QED BY <3>2, <3>3 DEF Chosen, Aligned
    <2> QED BY <1>3, <2>1, <2>2 DEF NextIP
  <1>4. ASSUME NextPort(h) PROVE Chosen(h)'
    <2>1. CASE Respond(h, 500)
      BY <1>0, <2>1 DEF Respond, Goto, LocalsOK, Chosen
    <2>2. ASSUME NEW port \in Port, GetNextWireguardPort(port, {r.port : r \in {r \in rows : r.wireguard}}),
                 cur' = [cur EXCEPT ![h].port = port], Goto(h, "create"), rows' = rows
          PROVE  Chosen(h)'
      <3>1. port \notin {r.port : r \in {r \in rows : r.wireguard}}
        BY <2>2, ConstantTypes DEF GetNextWireguardPort
      <3>2. \A r \in ServerRows : r.port # port
        BY <3>1 DEF ServerRows
      <3>3. /\ cur'[h].port = port /\ cur'[h].ip = cur[h].ip /\ cur'[h].client = cur[h].client
            /\ pc'[h] = "create" /\ ServerRows' = ServerRows
        BY <1>0, <2>2 DEF LocalsOK, Row, Goto, ServerRows
      <3> QED BY <1>0, <1>4, <3>2, <3>3 DEF NextPort, Chosen, Aligned
    <2> QED BY <1>4, <2>1, <2>2 DEF NextPort
  <1>5. ASSUME IPCheck(h) PROVE Chosen(h)'
    BY <1>0, <1>5 DEF IPCheck, Respond, Continue, Goto, LocalsOK, Chosen
  <1> QED BY <1>0, <1>1, <1>2, <1>3, <1>4, <1>5
          DEF Post, PostServer, Begin, HostCheck, Create, Patch, StartPatch, FindIP, Toggle, SaveRow,
              DeleteRequest, StartDelete, Load, Delete, Common, AddPeer, RemovePeer, Generate,
              TruncateConf, WriteConf, BabelTunnel, ReloadDNS, Fail, Respond, Continue, Goto, LocalsOK, AfterRemove, AfterWrite

LEMMA NextAddressInv ==
  ASSUME Sequential, AlignedStart
  PROVE  TypeInv /\ MatchInv /\ AddressInv /\ [Next]_vars => AddressInv'
  <1>1. ASSUME TypeInv, MatchInv, AddressInv, Next PROVE AddressInv'
    <2>1. PICK h \in Handler : Post(h) \/ Patch(h) \/ DeleteRequest(h) \/ Common(h)
      BY <1>1 DEF Next
    <2>2. MatchInv'
      BY <1>1, NextMatch
    <2>3. HostedApart' /\ Chosen(h)'
      BY <1>1, <2>1, <2>2, NextApart, NextChosen
    <2> QED BY <2>1, <2>3 DEF AddressInv, Sequential
  <1>2. ASSUME AddressInv, UNCHANGED vars PROVE AddressInv'
    BY <1>2 DEF AddressInv, HostedApart, Chosen, ServerRows, Aligned
  <1> QED BY <1>1, <1>2

\* Blocks: whatever sequence of creations, edits and deletions came, one request at
\* a time, two hosted tunnels share no port and no address, their clients'
\* included, and the five places that compute the other end of a tunnel agree.
THEOREM Blocks == ASSUME Sequential, AlignedStart PROVE Spec => []ServerBlocksDisjoint
  <1>1. TypeInv /\ MatchInv /\ AddressInv /\ [Next]_vars => AddressInv'
    BY NextAddressInv
  <1>2. AddressInv => ServerBlocksDisjoint
    BY OneBlock, TwoBlocks DEF AddressInv, HostedApart, ServerBlocksDisjoint
  <1> QED BY <1>1, <1>2, InitAddress, MatchHolds, PTL DEF Spec
=============================================================================
