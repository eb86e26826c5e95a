------------------------- MODULE MCWireguardManager -------------------------
(* Instances of WireguardManager for TLC.                                  *)
EXTENDS WireguardManager, TLC

CONSTANTS t1, t2, a1, a2

\* Every handler may call anything on any tunnel.
AnyCalls == Caller \X Op \X Tunnel

\* Handler a1 works on tunnel t1 only, a2 on t2 only.
OwnTunnelCalls == {a1} \X Op \X {t1} \cup {a2} \X Op \X {t2}

\* Handler a1 adds and removes t1 and removes t2, which is there from startup.
MixedCalls == {<<a1, "add", t1>>, <<a1, "remove", t1>>, <<a1, "remove", t2>>}

WorkerSymmetry == Permutations(Worker)
=============================================================================
