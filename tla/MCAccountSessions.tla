-------------------------- MODULE MCAccountSessions --------------------------
(* Small instances of AccountSessions for TLC. *)
EXTENDS AccountSessions, TLC

(* Neither an attempt nor a reset is told apart by anything but its name. *)
Symmetry == Permutations(Logins) \cup Permutations(Resets)
=============================================================================
