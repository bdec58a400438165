----------------------------- MODULE MCAuditTrail -----------------------------
(* A small instance of AuditTrail for TLC. *)
EXTENDS AuditTrail

MCFilters == {[from |-> 0, to |-> AuditEnd + 1]}
=============================================================================
