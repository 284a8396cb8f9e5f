----------------------------- MODULE MCTelemetry -----------------------------
(* A small instance of TelemetryPipeline for TLC. *)
EXTENDS TelemetryPipeline, TLC

CONSTANTS r1, r2, r3

MCRequests == {r1, r2, r3}

\* A request with an aged result, and a compaction; a provider that reports more
\* cached than input tokens, or nothing.
MCPrepared ==
  {[outcome |-> "Aged", saved |-> 7],
   [outcome |-> "CompactionBypass", saved |-> 0]}

MCUsages == {NoUsage, [input |-> 9, cached |-> 12]}

Symmetry == Permutations(MCRequests)
=============================================================================
