--------------------------------- MODULE Menu ---------------------------------
(***************************************************************************)
(* What a caller sees of one application's nav catalog:                     *)
(* apps/iam-api/src/navigation/prune.ts.                                    *)
(*                                                                         *)
(* A catalog is what readCatalog returns: the parent of every active node   *)
(* (Top for a top-level one, and possibly a node that is not active), the   *)
(* public ones, and the gates.  Order, labels and icons are left out.       *)
(***************************************************************************)
EXTENDS Integers, FiniteSets

CONSTANTS
    Item,       \* nav nodes
    Top,        \* the parent of a top-level node
    Key         \* permission keys

ASSUME TopAssumption == Top \notin Item
ASSUME ItemAssumption == IsFiniteSet(Item)

Kids(cat, n) == {k \in DOMAIN cat.parent : cat.parent[k] = n}
GatesOn(cat, n) == {p \in Key : <<n, p>> \in cat.gates}

(* A leaf: any one of its keys, or the public flag when it has none. *)
LeafShown(cat, held, n) ==
    \/ GatesOn(cat, n) \cap held # {}
    \/ GatesOn(cat, n) = {} /\ n \in cat.public

(* visibleNode: what is kept of k and of the subtrees under it.             *)
VisibleNode(cat, held, k, below) ==
    IF Kids(cat, k) = {} THEN IF LeafShown(cat, held, k) THEN {k} ELSE {}
    ELSE IF below = {} THEN {} ELSE {k} \cup below

(* visibleAmong: what is kept of the subtrees under n.  The walk starts at  *)
(* the top, so it meets no cycle; d counts the levels left.                 *)
ShownAmong(cat, held) ==
    LET shown[d \in 0 .. Cardinality(Item)] ==
            [n \in Item \cup {Top} |->
                IF d = 0 THEN {}
                ELSE UNION {VisibleNode(cat, held, k, shown[d - 1][k]) : k \in Kids(cat, n)}]
    IN  shown

(* pruneNavTree. *)
Pruned(cat, held) == ShownAmong(cat, held)[Cardinality(Item)][Top]

(* Everything a node hangs from, directly or not.                           *)
Over(cat, n) ==
    {q \in Item \cup {Top} : \A up \in SUBSET (Item \cup {Top}) :
        /\ cat.parent[n] \in up
        /\ \A k \in up \cap DOMAIN cat.parent : cat.parent[k] \in up
        => q \in up}

(* What the rules of Doc 05 section 3 say of the same catalog: a leaf the   *)
(* caller may enter is visible, and so is everything above it, provided     *)
(* that its ancestors are all there, up to the top.                         *)
AllowedLeaves(cat, held) ==
    {n \in DOMAIN cat.parent :
        /\ \A k \in DOMAIN cat.parent : cat.parent[k] # n
        /\ Top \in Over(cat, n)
        /\ \/ \E p \in held : <<n, p>> \in cat.gates
           \/ n \in cat.public /\ \A p \in Key : <<n, p>> \notin cat.gates}

Allowed(cat, held) ==
    LET leaves == AllowedLeaves(cat, held)
    IN  leaves \cup {n \in DOMAIN cat.parent : \E l \in leaves : n \in Over(cat, l)}
=============================================================================
