----------------------------- MODULE ScopeForest -----------------------------
(***************************************************************************)
(* What a tenant's scope tree promises, with no paths, transactions or     *)
(* locks: one root at most, every node below it, no deeper than MaxDepth,  *)
(* changed one node at a time.                                             *)
(***************************************************************************)
EXTENDS Naturals, FiniteSets

CONSTANTS Node, NoParent, Absent, MaxDepth

VARIABLE parent     \* the parent of each node, NoParent, or Absent

Present == {n \in Node : parent[n] # Absent}
Roots == {n \in Node : parent[n] = NoParent}

(* n and everything above it: what no set that has n, and with each node the  *)
(* node it hangs from, can be without.                                       *)
Upwards(par, n) ==
    {m \in Node : \A above \in SUBSET Node :
        n \in above /\ (\A k \in above : par[k] \in Node => par[k] \in above) => m \in above}

Depth(par, n) == Cardinality(Upwards(par, n))

IsTree(par) ==
    LET present == {n \in Node : par[n] # Absent}
        roots == {n \in Node : par[n] = NoParent}
    IN  /\ \A m, n \in roots : m = n
        /\ \A n \in present : /\ Upwards(par, n) \cap roots # {}
                              /\ Upwards(par, n) \subseteq present
                              /\ Depth(par, n) <= MaxDepth

Init == parent \in {par \in [Node -> Node \cup {NoParent, Absent}] : IsTree(par)}

AddRoot(n) ==
    /\ n \notin Present /\ Roots = {}
    /\ parent' = [parent EXCEPT ![n] = NoParent]

AddChild(n, p) ==
    /\ n \notin Present /\ p \in Present
    /\ Depth(parent, p) < MaxDepth
    /\ parent' = [parent EXCEPT ![n] = p]

RemoveLeaf(n) ==
    /\ n \in Present
    /\ \A m \in Node : parent[m] # n
    /\ parent' = [parent EXCEPT ![n] = Absent]

(* A node takes its whole subtree along, never beneath itself. *)
Reparent(n, p) ==
    /\ n \in Present /\ p \in Present
    /\ n \notin Upwards(parent, p)
    /\ parent' = [parent EXCEPT ![n] = p]
    /\ IsTree(parent')

Next == \E n \in Node : \/ AddRoot(n) \/ RemoveLeaf(n)
                        \/ \E p \in Node : AddChild(n, p) \/ Reparent(n, p)

Spec == Init /\ [][Next]_parent
=============================================================================
