----------------------------- MODULE MCAuditLog -----------------------------
(* A small instance of AuditLog for TLC. *)
EXTENDS AuditLog, TLC

CONSTANTS g1, g2

TwoLoggers == {g1, g2}

Symmetry == Permutations(Loggers)
=============================================================================
