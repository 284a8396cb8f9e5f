------------------------------ MODULE MCConfig ------------------------------
(* A small instance of ConfigTransaction for TLC. *)
EXTENDS ConfigRefinement

CONSTANTS u1, e1, e2, c0, c1

MCUserUrls == {u1}
MCEndpoints == {e1, e2}
MCCallUrls == {c0, c1}
MCCallFor == [v \in {u1, Absent} |-> IF v = Absent THEN c0 ELSE c1]
MCCallForDefault == [v \in {Absent} |-> c0]
=============================================================================
