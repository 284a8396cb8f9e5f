---------------------------- MODULE MCDrainGate ----------------------------
(* A small instance of DrainGate for TLC. *)
EXTENDS DrainGate, TLC

CONSTANTS r1, r2, r3

MCRequests == {r1, r2, r3}

Symmetry == Permutations(MCRequests)
=============================================================================
