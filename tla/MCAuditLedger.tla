--------------------------- MODULE MCAuditLedger ---------------------------
(* Small instances of AuditLedger for TLC. *)
EXTENDS AuditLedger

CONSTANTS p1, p2, e1
=============================================================================
