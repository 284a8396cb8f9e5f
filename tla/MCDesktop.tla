----------------------------- MODULE MCDesktop -----------------------------
(* A small instance of DesktopRuntime for TLC. *)
EXTENDS DesktopRuntime

CONSTANTS t1, t2, p1, p2

MCTasks == {t1, t2}
OneTask == {t1}
MCPolicies == {p1, p2}
OnePolicy == {p1}
=============================================================================
