--------------------------- MODULE TunnelAddressing ---------------------------
(***************************************************************************)
(* The address and port arithmetic of the tunnels:                         *)
(*   internal/db/models/tunnel.go   GetNextWireguardIP, GetNextWireguardPort*)
(*   internal/wireguard/wireguard.go  the client side address of addPeer   *)
(*   internal/ifacewatcher/watcher.go the inverse used by findTunnel       *)
(*   cmd/migrate.go                 incrementIP                            *)
(*   internal/services/lqm/lqm.go   deriveWireguardPeerIP                  *)
(*                                                                         *)
(* An address is the pair of its third and fourth octet; the first two are *)
(* those of the configured starting address throughout.  Octets and ports  *)
(* wrap like the code's byte and uint16: Byte stands for 256 and PortSpace *)
(* for 65536, and the code's 252 and 254 are Byte - 4 and Byte - 2.        *)
(***************************************************************************)
EXTENDS Naturals, FiniteSets

CONSTANTS
    Byte,           \* 256 in the code: the number of values of an octet
    PortSpace,      \* 65536 in the code: the number of values of a port
    StartAddress,   \* config.Wireguard.StartingAddress, third and fourth octet
    StartPort       \* config.Wireguard.StartingPort

Octet   == 0 .. Byte - 1
Address == Octet \X Octet
Port    == 0 .. PortSpace - 1

ASSUME AddressingAssumption ==
    /\ Byte \in Nat /\ Byte >= 8 /\ Byte % 4 = 0
    /\ PortSpace \in Nat \ {0}
    /\ StartAddress \in Octet \X Octet
    /\ StartPort \in 1 .. PortSpace - 1

\* "no more IPs available", "no more ports available"
NoAddress == <<Byte, Byte>>
NoPort    == PortSpace

\* The order of the scan for the highest address: third octet, then fourth.
Higher(a, b) == a[1] > b[1] \/ (a[1] = b[1] /\ a[2] > b[2])

\* What the scan over the addresses S of the server tunnels ends with.
IsHighest(h, S) ==
    /\ h \in S \cup {StartAddress}
    /\ \A b \in S \cup {StartAddress} : ~Higher(b, h)

\* Variant: the next address instead of the next block of four.
AfterByOne(h) ==
    IF h[2] = Byte - 1
    THEN <<(h[1] + 1) % Byte, 0>>
    ELSE <<h[1], h[2] + 1>>

\* The address that follows the highest one.
After(h) ==
    IF h[2] = Byte - 4
    THEN IF (h[1] + 1) % Byte >= Byte - 2
         THEN NoAddress
         ELSE <<(h[1] + 1) % Byte, 0>>
    ELSE <<h[1], (h[2] + 4) % Byte>>

\* a is what GetNextWireguardIP returns when S are the server tunnels' addresses.
GetNextWireguardIP(a, S) ==
    \E h \in S \cup {StartAddress} : IsHighest(h, S) /\ a = After(h)

\* p is what GetNextWireguardPort returns: the first port from StartPort on
\* that is not used; the loop ends when the uint16 wraps to 0.
GetNextWireguardPort(p, used) ==
    LET Free == (StartPort .. PortSpace - 1) \ used
    IN  IF Free = {} THEN p = NoPort ELSE p \in Free /\ \A q \in Free : p <= q

\* addPeer: the address of the client side, octet 4 plus one; a carry puts the
\* fourth octet to 1.
ClientSide(a) ==
    IF (a[2] + 1) % Byte = 0
    THEN <<(a[1] + 1) % Byte, 1>>
    ELSE <<a[1], a[2] + 1>>

\* findTunnel: the tunnel address of a wgc interface, octet 4 minus one.
TunnelOfClientSide(a) == <<a[1], (a[2] + Byte - 1) % Byte>>

\* cmd/migrate.go, incrementIP: one more than the address, with a full carry.
IncrementIP(a) ==
    IF a[2] = Byte - 1
    THEN <<(a[1] + 1) % Byte, 0>>
    ELSE <<a[1], a[2] + 1>>

\* services/lqm, deriveWireguardPeerIP: the other end of an interface from its own
\* address, without a carry.
deriveWireguardPeerIP(device, a) ==
    CASE device = "wgs" -> <<a[1], (a[2] + 1) % Byte>>
      [] device = "wgc" -> <<a[1], (a[2] + Byte - 1) % Byte>>
=============================================================================
