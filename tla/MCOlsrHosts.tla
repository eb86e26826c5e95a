------------------------------ MODULE MCOlsrHosts ------------------------------
(* OlsrHosts for TLC: names are alike, and so are addresses.               *)
EXTENDS OlsrHosts

Sym == Permutations(Name) \cup Permutations(IP)
=============================================================================
