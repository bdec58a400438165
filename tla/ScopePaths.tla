------------------------------ MODULE ScopePaths ------------------------------
(***************************************************************************)
(* The rows of a tenant's scope_node and the materialised paths in them, as *)
(* ScopesService rewrites them and the permission guard compares them       *)
(* (apps/iam-api/src/scopes/path.util.ts; libs/db/src/migrations/0003).     *)
(*                                                                         *)
(* A path is the sequence of nodes its ltree labels name.                   *)
(***************************************************************************)
EXTENDS Naturals, Sequences, FiniteSets, SequencesExt

CONSTANTS
    Node,           \* scope nodes
    NoParent,       \* parent_id of a root
    Absent,         \* no row, or no node
    MaxDepth        \* MAX_SCOPE_TREE_DEPTH

ASSUME DistinctAssumption == NoParent \notin Node /\ Absent \notin Node \cup {NoParent}
ASSUME DepthAssumption == MaxDepth \in Nat \ {0}

TreePaths == UNION {[1 .. d -> Node] : d \in 0 .. MaxDepth}
Parents == Node \cup {NoParent, Absent}

(* The labels of a path lead from a root to the node, child by child. *)
LeadsTo(par, s, n) ==
    /\ par[s[1]] = NoParent /\ s[Len(s)] = n
    /\ \A i \in 1 .. Len(s) - 1 : par[s[i + 1]] = s[i]

(* The path of every node, <<>> for no row. *)
Derived(par) ==
    [n \in Node |-> IF par[n] = Absent THEN <<>>
                   ELSE CHOOSE s \in TreePaths \ {<<>>} : LeadsTo(par, s, n)]

(* The nodes whose path lies within that of n, and how many levels they span. *)
Subtree(pth, n) == {m \in Node : pth[m] # <<>> /\ IsPrefix(pth[n], pth[m])}
Height(pth, n) ==
    1 + (CHOOSE h \in 0 .. MaxDepth :
            /\ \E m \in Subtree(pth, n) : Len(pth[m]) = Len(pth[n]) + h
            /\ \A m \in Subtree(pth, n) : Len(pth[m]) <= Len(pth[n]) + h)
===============================================================================
