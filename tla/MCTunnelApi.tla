----------------------------- MODULE MCTunnelApi -----------------------------
(* Instances of TunnelApi for TLC.                                         *)
EXTENDS TunnelApi, TLC

\* The last block of a third octet, so that the first tunnel carries and there
\* are addresses for two.
StartBeforeCarry == <<Byte - 4, Byte - 4>>

\* An address whose client side carries into the third octet.
ClientCarries == {<<1, Byte - 1>>}

HostSymmetry == Permutations(Host)
=============================================================================
