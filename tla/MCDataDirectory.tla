--------------------------- MODULE MCDataDirectory ---------------------------
(* A small instance of DataDirectory for TLC. *)
EXTENDS DataDirectory, TLC

CONSTANTS c1, c2, k1, k2

MCClients == {c1, c2}
MCKeys == {k1, k2}
Symmetry == Permutations(MCClients) \cup Permutations(MCKeys)
=============================================================================
