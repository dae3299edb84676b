--------------------------- MODULE MCLedgerAudit ---------------------------
(***************************************************************************)
(* An instance of LedgerAudit for TLC: up to three rows, two payloads, two *)
(* times and two changes.                                                  *)
(***************************************************************************)
EXTENDS LedgerAudit

CONSTANTS p1, p2
=============================================================================
