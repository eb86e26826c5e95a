------------------------------ MODULE TunnelApi ------------------------------
(***************************************************************************)
(* The tunnel handlers of internal/server/api/controllers/v1/tunnels.go:   *)
(* POSTTunnel, PATCHTunnel and DELETETunnel, run by any number of HTTP     *)
(* goroutines over one table of tunnel rows without a transaction or a     *)
(* lock.  Every database statement, every call of the wireguard manager    *)
(* and every call of a routing service is a step of its own; any of them   *)
(* may fail and end the request with what was done so far left in place.   *)
(*                                                                         *)
(* AddPeer and RemovePeer are used by what they report (WireguardManager   *)
(* models them): success, or an error after which the peer may or may not  *)
(* have been changed.                                                      *)
(***************************************************************************)
EXTENDS TunnelAddressing

CONSTANTS
    Handler,        \* goroutines of the HTTP server
    Host,           \* names of hosted tunnels (no port) that pass validation
    ClientHost,     \* server addresses of client tunnels, host:port
    NoHost,         \* the empty host name
    ClientAddress,  \* addresses a client tunnel or an edit may ask for
    Requests,       \* the kinds of request the clients send
    MaxID,          \* bound: rows ever created
    Failures        \* may a statement, a peer operation or a reload fail?

ASSUME ApiAssumption ==
    /\ NoHost \notin Host \cup ClientHost
    /\ Host \cap ClientHost = {}
    /\ ClientAddress \subseteq Address
    /\ Requests \subseteq {"server", "client", "patch", "delete"}
    /\ MaxID \in Nat
    /\ Failures \in BOOLEAN

VARIABLES
    rows,       \* the tunnels table
    nextID,     \* the next primary key
    peers,      \* IDs of the peers the wireguard manager has up
    olsrConf,   \* /etc/olsrd/olsrd.conf: the IDs of its interfaces, and whether
                \* the last write of it came to its end
    babel,      \* IDs of the interfaces babeld was told of
    pc,         \* [Handler]: the next step of its request
    op,         \* [Handler]: its request
    cur,        \* [Handler]: the local variable tunnel
    orig,       \* [Handler]: the local variable origTunnel
    want,       \* [Handler]: what the PATCH body asks for
    conf,       \* [Handler]: the configuration Generate has returned
    dirty       \* ghost: IDs of the tunnels a request has ended with status 500 for

vars == <<rows, nextID, peers, olsrConf, babel, pc, op, cur, orig, want, conf, dirty>>
local == <<cur, orig, want, conf>>

Row == [id : 0 .. MaxID, client : BOOLEAN, wireguard : BOOLEAN, host : Host \cup ClientHost \cup {NoHost},
        ip : Address \cup {NoAddress}, port : Port \cup {NoPort}, enabled : BOOLEAN]

Zero == [id |-> 0, client |-> FALSE, wireguard |-> FALSE, host |-> NoHost,
         ip |-> NoAddress, port |-> 0, enabled |-> FALSE]

Edit == [id : 1 .. MaxID, host : Host \cup ClientHost, ip : ClientAddress \cup Address,
         enabled : BOOLEAN, wireguard : BOOLEAN]

Step == {"idle", "hostCheck", "nextIP", "nextPort", "ipCheck", "create", "addPeer",
         "findIP", "toggle", "save", "removePeer", "load", "delete",
         "generate", "write", "fill", "babel", "dnsmasq"}

NoEdit == [id |-> 0]

TypeOK ==
    /\ rows \subseteq {r \in Row : r.id # 0 /\ r.ip \in Address /\ r.port \in Port}
    /\ nextID \in 1 .. MaxID + 1
    /\ peers \subseteq 0 .. MaxID
    /\ olsrConf \in [ids : SUBSET (1 .. MaxID), whole : BOOLEAN]
    /\ babel \subseteq 0 .. MaxID
    /\ pc \in [Handler -> Step]
    /\ op \in [Handler -> {"server", "client", "patch", "delete"}]
    /\ cur \in [Handler -> Row]
    /\ orig \in [Handler -> Row]
    /\ want \in [Handler -> Edit \cup {NoEdit}]
    /\ conf \in [Handler -> SUBSET (1 .. MaxID)]
    /\ dirty \subseteq 1 .. MaxID
    /\ \A h \in Handler : pc[h] \in {"nextPort", "create", "toggle", "save"} => cur[h].ip \in Address

Init ==
    /\ rows = {}
    /\ nextID = 1
    /\ peers = {}
    /\ olsrConf = [ids |-> {}, whole |-> TRUE]
    /\ babel = {}
    /\ pc = [h \in Handler |-> "idle"]
    /\ op = [h \in Handler |-> "server"]
    /\ cur = [h \in Handler |-> Zero]
    /\ orig = [h \in Handler |-> Zero]
    /\ want = [h \in Handler |-> NoEdit]
    /\ conf = [h \in Handler |-> {}]
    /\ dirty = {}

-----------------------------------------------------------------------------
(* The table, through gorm (external).                                     *)

IDs == {r.id : r \in rows}
ServerRows == {r \in rows : r.wireguard /\ ~r.client}

\* An INSERT writes the default TRUE for the zero value of Enabled, in the
\* table and in the caller's variable.
Inserted(r) == [r EXCEPT !.enabled = TRUE]

\* db.Create: the next key of the table's sequence, which is never reused.
Created(r) == [Inserted(r) EXCEPT !.id = nextID]

\* db.Save of a row with a key: UPDATE, and INSERT when no row has the key.
Saved(r) == IF r.id \in IDs THEN r ELSE Inserted(r)

-----------------------------------------------------------------------------
(* Control common to the three handlers.                                   *)

Goto(h, step) == pc' = [pc EXCEPT ![h] = step]

\* The response is written; the handler's locals are gone.
Respond(h, status) ==
    /\ Goto(h, "idle")
    /\ op' = [op EXCEPT ![h] = "server"]
    /\ cur' = [cur EXCEPT ![h] = Zero]
    /\ orig' = [orig EXCEPT ![h] = Zero]
    /\ want' = [want EXCEPT ![h] = NoEdit]
    /\ conf' = [conf EXCEPT ![h] = {}]
    /\ dirty' = IF status = 500 THEN dirty \cup ({cur[h].id} \ {0}) ELSE dirty

Continue(h, step) == Goto(h, step) /\ UNCHANGED <<op, local, dirty>>

Begin(h, request, first) ==
    /\ request \in Requests
    /\ pc[h] = "idle"
    /\ Goto(h, first)
    /\ op' = [op EXCEPT ![h] = request]
    /\ UNCHANGED <<rows, nextID, peers, olsrConf, babel, orig, conf, dirty>>

\* A statement, the generation or the opening of a file fails: 500, nothing is
\* undone.
Fail(h) ==
    /\ Failures
    /\ pc[h] \notin {"idle", "addPeer", "removePeer", "fill"}
    /\ Respond(h, 500)
    /\ UNCHANGED <<rows, nextID, peers, olsrConf, babel>>

-----------------------------------------------------------------------------
(* POSTTunnel.  Requests that fail validation change nothing and are left  *)
(* out.                                                                    *)

PostServer(h, host) ==
    /\ Begin(h, "server", "hostCheck")
    /\ cur' = [cur EXCEPT ![h] = [Zero EXCEPT !.host = host, !.wireguard = TRUE, !.enabled = TRUE]]
    /\ UNCHANGED want

PostClient(h, host, ip) ==
    /\ Begin(h, "client", "ipCheck")
    /\ cur' = [cur EXCEPT ![h] = [Zero EXCEPT !.host = host, !.ip = ip, !.wireguard = TRUE,
                                              !.client = TRUE]]
    /\ UNCHANGED want

\* "Check if the hostname is already taken"
HostCheck(h) ==
    /\ pc[h] = "hostCheck"
    /\ IF \E r \in rows : r.wireguard /\ r.host = cur[h].host
       THEN Respond(h, 400)
       ELSE Continue(h, "nextIP")
    /\ UNCHANGED <<rows, nextID, peers, olsrConf, babel>>

\* GetNextWireguardIP; 500 when there is no address left.
NextIP(h) ==
    /\ pc[h] = "nextIP"
    /\ \E ip \in Address \cup {NoAddress} :
          /\ GetNextWireguardIP(ip, {r.ip : r \in ServerRows})
          /\ IF ip = NoAddress
             THEN Respond(h, 500)
             ELSE /\ cur' = [cur EXCEPT ![h].ip = ip]
                  /\ Goto(h, "nextPort")
                  /\ UNCHANGED <<op, orig, want, conf, dirty>>
    /\ UNCHANGED <<rows, nextID, peers, olsrConf, babel>>

NextPort(h) ==
    /\ pc[h] = "nextPort"
    /\ \E port \in Port \cup {NoPort} :
          /\ GetNextWireguardPort(port, {r.port : r \in {r \in rows : r.wireguard}})
          /\ IF port = NoPort
             THEN Respond(h, 500)
             ELSE /\ cur' = [cur EXCEPT ![h].port = port]
                  /\ Goto(h, "create")
                  /\ UNCHANGED <<op, orig, want, conf, dirty>>
    /\ UNCHANGED <<rows, nextID, peers, olsrConf, babel>>

\* "Check if the IP is already taken"
IPCheck(h) ==
    /\ pc[h] = "ipCheck"
    /\ IF \E r \in rows : r.ip = cur[h].ip
       THEN Respond(h, 400)
       ELSE Continue(h, "create")
    /\ UNCHANGED <<rows, nextID, peers, olsrConf, babel>>

\* di.DB.Create(&tunnel)
Create(h) ==
    /\ pc[h] = "create"
    /\ nextID <= MaxID
    /\ rows' = rows \cup {Created(cur[h])}
    /\ cur' = [cur EXCEPT ![h] = Created(cur[h])]
    /\ nextID' = nextID + 1
    /\ Goto(h, "addPeer")
    /\ UNCHANGED <<peers, olsrConf, babel, op, orig, want, conf, dirty>>

\* WireguardManager.AddPeer(tunnel): nil at once when it is not enabled.
AddPeer(h) ==
    /\ pc[h] = "addPeer"
    /\ \/ /\ peers' = IF cur[h].enabled THEN peers \cup {cur[h].id} ELSE peers
          /\ Continue(h, "generate")
       \/ /\ Failures /\ cur[h].enabled
          /\ peers' \in {peers, peers \cup {cur[h].id}}
          /\ Respond(h, 500)
    /\ UNCHANGED <<rows, nextID, olsrConf, babel>>

-----------------------------------------------------------------------------
(* PATCHTunnel                                                             *)

\* TunnelIDExists: 400 when there is no such row (nothing changes).
StartPatch(h, edit) ==
    /\ edit.id \in IDs
    /\ Begin(h, "patch", "findIP")
    /\ want' = [want EXCEPT ![h] = edit]
    /\ UNCHANGED cur

\* "Check if the IP is already taken": the row to edit is the one found by
\* ADDRESS; an address no row has leaves the zero row, whose ID is 0.
FindIP(h) ==
    /\ pc[h] = "findIP"
    /\ \E r \in IF \E s \in rows : s.ip = want[h].ip THEN {s \in rows : s.ip = want[h].ip}
                ELSE {Zero} :
          IF r.id \notin {0, want[h].id}
          THEN Respond(h, 400)
          ELSE /\ orig' = [orig EXCEPT ![h] = r]
               /\ cur' = [cur EXCEPT ![h] = [r EXCEPT !.host = want[h].host, !.ip = want[h].ip]]
               /\ Goto(h, "toggle")
               /\ UNCHANGED <<op, want, conf, dirty>>
    /\ UNCHANGED <<rows, nextID, peers, olsrConf, babel>>

\* Updates(models.Tunnel{Enabled: ...}): no condition without a key (error), a
\* FALSE is a zero value and is not written.  Then the check of the type.
Toggle(h) ==
    /\ pc[h] = "toggle"
    /\ LET changes == cur[h].enabled # want[h].enabled
           written == changes /\ want[h].enabled /\ cur[h].id # 0
       IN  /\ rows' = IF written
                      THEN {IF r.id = cur[h].id THEN [r EXCEPT !.enabled = TRUE] ELSE r : r \in rows}
                      ELSE rows
           /\ IF (changes /\ cur[h].id = 0) \/ cur[h].wireguard # want[h].wireguard
              THEN Respond(h, 500)
              ELSE /\ cur' = [cur EXCEPT ![h].enabled = want[h].enabled]
                   /\ Goto(h, "save")
                   /\ UNCHANGED <<op, orig, want, conf, dirty>>
    /\ UNCHANGED <<nextID, peers, olsrConf, babel>>

\* di.DB.Save(&tunnel): a zero key creates a row, a missing row is inserted.
SaveRow(h) ==
    /\ pc[h] = "save"
    /\ IF cur[h].id = 0
       THEN /\ nextID <= MaxID
            /\ rows' = rows \cup {Created(cur[h])}
            /\ cur' = [cur EXCEPT ![h] = Created(cur[h])]
            /\ nextID' = nextID + 1
       ELSE /\ rows' = {r \in rows : r.id # cur[h].id} \cup {Saved(cur[h])}
            /\ cur' = [cur EXCEPT ![h] = Saved(cur[h])]
            /\ UNCHANGED nextID
    /\ Goto(h, "removePeer")
    /\ UNCHANGED <<peers, olsrConf, babel, op, orig, want, conf, dirty>>

-----------------------------------------------------------------------------
(* DELETETunnel                                                            *)

\* TunnelIDExists: 400 when there is no such row (nothing changes).
StartDelete(h, id) ==
    /\ id \in IDs
    /\ Begin(h, "delete", "load")
    /\ cur' = [cur EXCEPT ![h].id = id]
    /\ UNCHANGED want

\* FindTunnelByID: an error when the row is gone by now.
Load(h) ==
    /\ pc[h] = "load"
    /\ IF cur[h].id \in IDs
       THEN \E r \in rows :
               /\ r.id = cur[h].id
               /\ cur' = [cur EXCEPT ![h] = r]
               /\ orig' = [orig EXCEPT ![h] = r]
               /\ Goto(h, "delete")
               /\ UNCHANGED <<op, want, conf, dirty>>
       ELSE Respond(h, 500)
    /\ UNCHANGED <<rows, nextID, peers, olsrConf, babel>>

\* models.DeleteTunnel: its transaction drops the statement's error, which the
\* commit then reports (see Fail).
Delete(h) ==
    /\ pc[h] = "delete"
    /\ rows' = {r \in rows : r.id # cur[h].id}
    /\ Continue(h, "removePeer")
    /\ UNCHANGED <<nextID, peers, olsrConf, babel>>

-----------------------------------------------------------------------------
(* What follows in all or two of the handlers.                             *)

\* PATCH takes the peer down to bring it up again, DELETE goes on to the routers.
AfterRemove(h) == IF op[h] = "patch" THEN "addPeer" ELSE "generate"

\* POST and DELETE tell babeld next, PATCH does not.
AfterWrite(h) == IF op[h] = "patch" THEN "dnsmasq" ELSE "babel"

\* Variant: the edited row's peer is not taken down (PATCH of a disabled tunnel).
RemovePeerSkipped(h) ==
    /\ pc[h] = "removePeer"
    /\ Continue(h, AfterRemove(h))
    /\ UNCHANGED <<rows, nextID, peers, olsrConf, babel>>

\* WireguardManager.RemovePeer(origTunnel) in PATCH, RemovePeer(tunnel) in DELETE.
RemovePeer(h) ==
    /\ pc[h] = "removePeer"
    /\ \/ /\ peers' = peers \ {orig[h].id}
          /\ Continue(h, AfterRemove(h))
       \/ /\ Failures
          /\ peers' \in {peers, peers \ {orig[h].id}}
          /\ Respond(h, 500)
    /\ UNCHANGED <<rows, nextID, olsrConf, babel>>

\* olsr.Generate: the enabled wireguard rows.
Generate(h) ==
    /\ pc[h] = "generate"
    /\ conf' = [conf EXCEPT ![h] = {r.id : r \in {r \in rows : r.wireguard /\ r.enabled}}]
    /\ Goto(h, "write")
    /\ UNCHANGED <<rows, nextID, peers, olsrConf, babel, op, cur, orig, want, dirty>>

\* os.WriteFile of olsrd.conf opens the file with O_TRUNC...
TruncateConf(h) ==
    /\ pc[h] = "write"
    /\ olsrConf' = [ids |-> {}, whole |-> FALSE]
    /\ Continue(h, "fill")
    /\ UNCHANGED <<rows, nextID, peers, babel>>

\* ... and writes it; a write that breaks off leaves the first part (500).  Then
\* olsrService.Reload, which may fail as well.
WriteConf(h) ==
    /\ pc[h] = "fill"
    /\ \/ /\ olsrConf' = [ids |-> conf[h], whole |-> TRUE]
          /\ Continue(h, AfterWrite(h)) \/ (Failures /\ Respond(h, 500))
       \/ /\ Failures
          /\ \E part \in SUBSET conf[h] : olsrConf' = [ids |-> part, whole |-> FALSE]
          /\ Respond(h, 500)
    /\ UNCHANGED <<rows, nextID, peers, babel>>

\* Variant: DELETE forgets to tell babeld.
BabelTunnelAddOnly(h) ==
    /\ pc[h] = "babel"
    /\ babel' = IF op[h] = "delete" THEN babel ELSE babel \cup {cur[h].id}
    /\ Continue(h, "dnsmasq")
    /\ UNCHANGED <<rows, nextID, peers, olsrConf>>

\* babelService.AddTunnel in POST, RemoveTunnel in DELETE; PATCH has neither.
BabelTunnel(h) ==
    /\ pc[h] = "babel"
    /\ babel' = IF op[h] = "delete" THEN babel \ {cur[h].id} ELSE babel \cup {cur[h].id}
    /\ Continue(h, "dnsmasq")
    /\ UNCHANGED <<rows, nextID, peers, olsrConf>>

ReloadDNS(h) ==
    /\ pc[h] = "dnsmasq"
    /\ Respond(h, 200)
    /\ UNCHANGED <<rows, nextID, peers, olsrConf, babel>>

-----------------------------------------------------------------------------
Post(h) ==
    \/ \E host \in Host : PostServer(h, host)
    \/ \E host \in ClientHost, ip \in ClientAddress : PostClient(h, host, ip)
    \/ HostCheck(h) \/ NextIP(h) \/ NextPort(h) \/ IPCheck(h) \/ Create(h)

Patch(h) ==
    \/ \E id \in 1 .. MaxID, host \in Host \cup ClientHost, enabled, wireguard \in BOOLEAN,
          ip \in ClientAddress \cup {r.ip : r \in rows} :
          StartPatch(h, [id |-> id, host |-> host, ip |-> ip, enabled |-> enabled,
                         wireguard |-> wireguard])
    \/ FindIP(h) \/ Toggle(h) \/ SaveRow(h)

DeleteRequest(h) ==
    \/ \E id \in 1 .. MaxID : StartDelete(h, id)
    \/ Load(h) \/ Delete(h)

Common(h) ==
    \/ AddPeer(h) \/ RemovePeer(h) \/ Generate(h) \/ TruncateConf(h) \/ WriteConf(h)
    \/ BabelTunnel(h) \/ ReloadDNS(h) \/ Fail(h)

Next == \E h \in Handler : Post(h) \/ Patch(h) \/ DeleteRequest(h) \/ Common(h)

Spec == Init /\ [][Next]_vars

-----------------------------------------------------------------------------
(* Properties                                                              *)

\* The two addresses a hosted tunnel uses: its own and its client's.
Block(a) == {a, ClientSide(a)}

\* ServerBlocksDisjoint: two tunnels this node hosts never share a port or an
\* address, the addresses of their clients included, whatever sequence of
\* creations, edits and deletions led there (GetNextWireguardIP,
\* GetNextWireguardPort); addPeer, migrate and the link quality manager agree on its
\* client's address, and the watcher and the link quality manager of the client
\* recover the tunnel's address from it.  It needs requests to come one at a time
\* and a starting address on a block boundary below the last two third octets.
ServerBlocksDisjoint ==
    \A r \in ServerRows :
        /\ TunnelOfClientSide(ClientSide(r.ip)) = r.ip
        /\ IncrementIP(r.ip) = ClientSide(r.ip)
        /\ deriveWireguardPeerIP("wgs", r.ip) = ClientSide(r.ip)
        /\ deriveWireguardPeerIP("wgc", ClientSide(r.ip)) = r.ip
        /\ \A s \in ServerRows :
              r # s => /\ Block(r.ip) \cap Block(s.ip) = {}
                       /\ r.port # s.port

Idle == \A h \in Handler : pc[h] = "idle"

\* PeersMatchRows: between requests, a tunnel no request has failed for has a
\* peer exactly when its row exists and is enabled: POST, PATCH (remove, then add
\* unless disabled) and DELETE keep the manager and the table together, and a
\* request that fails half way disturbs no other tunnel.
PeersMatchRows ==
    Idle => \A id \in 1 .. MaxID \ dirty :
                id \in peers <=> \E r \in rows : r.id = id /\ r.enabled

\* RoutersMatchRows: between requests, for a tunnel no request has failed for,
\* babeld was told of it exactly when its row is a wireguard tunnel, enabled or
\* not; olsrd's configuration has its interface only when the row is an enabled
\* wireguard tunnel, and always then if the last write of the file came to its
\* end.  One that broke off, in a request for any tunnel, has truncated the file
\* and may have lost the interfaces of all others until the next request.
RoutersMatchRows ==
    Idle => \A id \in 1 .. MaxID \ dirty :
                LET routed == \E r \in rows : r.id = id /\ r.wireguard /\ r.enabled
                IN  /\ id \in olsrConf.ids => routed
                    /\ olsrConf.whole /\ routed => id \in olsrConf.ids
                    /\ id \in babel <=> \E r \in rows : r.id = id /\ r.wireguard
=============================================================================
