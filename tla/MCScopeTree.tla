----------------------------- MODULE MCScopeTree -----------------------------
(* A small instance of ScopeTree for TLC: two moves may cross. *)
EXTENDS ScopeTree
=============================================================================
