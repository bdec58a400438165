------------------------- MODULE MCGrantInvalidation -------------------------
(* Small instances of GrantInvalidation for TLC. *)
EXTENDS GrantInvalidation, TLC

(* No guard or definition names a particular subject, role, permission,      *)
(* node, path, transaction or reader.                                        *)
Symmetry == Permutations(Subjects) \cup Permutations(Perms) \cup Permutations(Paths)
            \cup Permutations(Txs) \cup Permutations(Readers)
=============================================================================
