---------------------------- MODULE MCAuditLog ----------------------------
(***************************************************************************)
(* A small instance of AuditLog: four appends and two restarts.            *)
(***************************************************************************)
EXTENDS AuditLog, TLC

CONSTANTS a1, a2, a3, a4

MCAppends == {a1, a2, a3, a4}

Symmetry == Permutations(MCAppends)
=============================================================================
