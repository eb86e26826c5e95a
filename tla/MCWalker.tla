------------------------------- MODULE MCWalker -------------------------------
(* An instance of Walker for TLC.                                          *)
EXTENDS Walker

CONSTANTS a, b, c, lan

\* Each node names others in both directions, itself and an alias.
MeshHosts == (a :> {a, b, lan}) @@ (b :> {a, c}) @@ (c :> {b, c})

\* Nothing, or what a run left that was stopped in createFile.
Leftovers == {<<>>, <<"head", "nodeInfo", "[">>}
=============================================================================
