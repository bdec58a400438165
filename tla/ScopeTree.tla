------------------------------ MODULE ScopeTree ------------------------------
(***************************************************************************)
(* A tenant's scope tree in Postgres, with its materialized paths, under   *)
(* concurrent POST, PATCH and DELETE /iam/scopes requests                  *)
(* (apps/iam-api/src/scopes/scopes.service.ts, scopes.controller.ts,       *)
(* path.util.ts; constraints from libs/db/src/migrations/0003).            *)
(*                                                                         *)
(* POST and DELETE run at READ COMMITTED: their lookups and their write are *)
(* two steps and see the tree as it is at each.  PATCH runs at REPEATABLE  *)
(* READ with retries: it reads a snapshot, its one UPDATE takes the row    *)
(* locks of the subtree or meets a serialization failure, and its COMMIT   *)
(* makes the rewrite visible.  pathIsWithin is the prefix test on paths.   *)
(***************************************************************************)
EXTENDS ScopePaths

CONSTANTS
    Retries,        \* @Transactional's retries on PATCH
    TreeTxs,        \* requests that may run at once
    MaxTreeOps      \* bound: requests begun in one behaviour

ASSUME BoundsAssumption == Retries \in Nat /\ MaxTreeOps \in Nat

VARIABLES
    parent,     \* scope_node.parent_id; Absent for no row
    path,       \* scope_node.path; <<>> for no row
    treeTx,     \* the requests
    treeOps,    \* requests begun so far
    overtaken   \* history: requests that have read what a commit has since changed
                \* beneath or above the node they attach to; one that commits all
                \* the same stays here

treeVars == <<parent, path, treeTx, treeOps, overtaken>>

TreeIdle == [pc |-> "idle"]

TreeTypeOK ==
    /\ parent \in [Node -> Parents]
    /\ \A n \in Node : /\ path[n] \in Seq(Node) /\ Len(path[n]) <= MaxDepth
                       /\ path[n] = <<>> <=> parent[n] = Absent
    /\ \A t \in TreeTxs :
          \/ treeTx[t] = TreeIdle
          \/ /\ treeTx[t].pc = "inserting"
             /\ treeTx[t].node \in Node /\ treeTx[t].under \in Node \cup {NoParent}
          \/ treeTx[t].pc = "deleting" /\ treeTx[t].node \in Node
          \/ /\ treeTx[t].pc \in {"retrying", "updating", "committing"}
             /\ treeTx[t].node \in Node /\ treeTx[t].under \in Node
             /\ treeTx[t].attempt \in 1 .. Retries + 1
    /\ treeOps \in 0 .. MaxTreeOps
    /\ overtaken \subseteq TreeTxs

(* The forest the rows implement: parent_id alone, the paths forgotten. *)
Forest == INSTANCE ScopeForest
          WITH parent <- parent, Node <- Node, NoParent <- NoParent,
               Absent <- Absent, MaxDepth <- MaxDepth

(* A tree built by earlier requests. *)
TreeInit ==
    /\ Forest!Init
    /\ path = Derived(parent)
    /\ treeTx = [t \in TreeTxs |-> TreeIdle]
    /\ treeOps = 0
    /\ overtaken = {}

-----------------------------------------------------------------------------
Present(n) == parent[n] # Absent
BeginTree(t, rec) ==
    /\ treeTx[t] = TreeIdle
    /\ treeOps < MaxTreeOps
    /\ treeOps' = treeOps + 1
    /\ treeTx' = [treeTx EXCEPT ![t] = rec]
End(t) == treeTx' = [treeTx EXCEPT ![t] = TreeIdle]

IsMoving(t) == treeTx[t].pc \in {"updating", "committing"}
IsAttaching(t) == treeTx[t].pc = "inserting" \/ IsMoving(t)
Moved(t) == Subtree(treeTx[t].path, treeTx[t].node)

(* The open requests that a commit of t overtakes: those attaching to a node  *)
(* that t moves, those moving the node t attaches to, and, if t is a root's,  *)
(* other roots'.                                                             *)
Overtakes(t) ==
    {u \in TreeTxs \ {t} :
        \/ IsAttaching(u) /\ IsMoving(t) /\ treeTx[u].under \in Moved(t)
        \/ IsMoving(u) /\ treeTx[t].under \in Moved(u)
        \/ /\ treeTx[u].pc = "inserting" /\ treeTx[t].pc = "inserting"
           /\ treeTx[u].under = NoParent /\ treeTx[t].under = NoParent}

(* A request that was overtaken has committed. *)
Crossed == \E t \in overtaken : treeTx[t] = TreeIdle

-----------------------------------------------------------------------------
(* A uuid is new: no row has it, and no open request has seen one with it.  *)
Fresh(n) ==
    /\ ~Present(n)
    /\ \A u \in TreeTxs : /\ treeTx[u].pc \in {"inserting", "deleting", "retrying"} => treeTx[u].node # n
                          /\ IsAttaching(u) => treeTx[u].under # n
                          /\ IsMoving(u) => treeTx[u].path[n] = <<>>

(* POST with no parent_id: refused when the tenant has a root. *)
BeginCreateRoot(t, n) ==
    /\ Fresh(n)
    /\ \A m \in Node : parent[m] # NoParent
    /\ BeginTree(t, [pc |-> "inserting", node |-> n, under |-> NoParent, new |-> <<n>>])
    /\ UNCHANGED <<parent, path, overtaken>>

(* POST under p: pathForNewNode reads the parent's path and bounds the depth. *)
BeginCreate(t, n, p) ==
    /\ Fresh(n) /\ Present(p)
    /\ Len(path[p]) + 1 <= MaxDepth
    /\ BeginTree(t, [pc |-> "inserting", node |-> n, under |-> p,
                     new |-> Append(path[p], n)])
    /\ UNCHANGED <<parent, path, overtaken>>

(* The INSERT and its COMMIT; the foreign key wants the parent still there. *)
CommitCreate(t) ==
    /\ treeTx[t].pc = "inserting"
    /\ treeTx[t].under # NoParent => Present(treeTx[t].under)
    /\ parent' = [parent EXCEPT ![treeTx[t].node] = treeTx[t].under]
    /\ path' = [path EXCEPT ![treeTx[t].node] = treeTx[t].new]
    /\ overtaken' = overtaken \cup Overtakes(t)
    /\ End(t)
    /\ UNCHANGED treeOps

-----------------------------------------------------------------------------
(* DELETE: refused while the node has children (or bindings: not modelled). *)
BeginTreeRemove(t, n) ==
    /\ Present(n)
    /\ \A m \in Node : parent[m] # n
    /\ BeginTree(t, [pc |-> "deleting", node |-> n])
    /\ UNCHANGED <<parent, path, overtaken>>

(* The DELETE waits for moves that hold the row, or a key-share lock on it   *)
(* as their new parent, and is refused if a child has come (on delete       *)
(* restrict); a row already gone is deleted again without complaint.        *)
CommitTreeRemove(t) ==
    LET n == treeTx[t].node IN
    /\ treeTx[t].pc = "deleting"
    /\ \A u \in TreeTxs : treeTx[u].pc = "committing" => n # treeTx[u].under /\ n \notin Moved(u)
    /\ \A m \in Node : parent[m] # n
    /\ parent' = [parent EXCEPT ![n] = Absent]
    /\ path' = [path EXCEPT ![n] = <<>>]
    /\ End(t)
    /\ UNCHANGED <<treeOps, overtaken>>

-----------------------------------------------------------------------------
(* Mutant: a node may be moved beneath its own descendants. *)
MutMovableAnywhere(n, p) ==
    /\ Present(n) /\ Present(p)
    /\ p # parent[n] /\ p # n
    /\ Len(path[p]) + Height(path, n) <= MaxDepth

(* update and move: both nodes exist, the parent would change, the new one   *)
(* is not the node or beneath it, and the subtree fits.                      *)
Movable(n, p) ==
    /\ Present(n) /\ Present(p)
    /\ p # parent[n]
    /\ ~IsPrefix(path[n], path[p])
    /\ Len(path[p]) + Height(path, n) <= MaxDepth

(* The snapshot PATCH reads everything from. *)
Snapshot(n, p, k) == [pc |-> "updating", node |-> n, under |-> p, attempt |-> k,
                      parent |-> parent, path |-> path]

BeginTreeMove(t, n, p) ==
    /\ Movable(n, p)
    /\ BeginTree(t, Snapshot(n, p, 1))
    /\ UNCHANGED <<parent, path, overtaken>>

(* The UPDATE locks every row of the subtree, waiting for whoever holds one; *)
(* each must be as the snapshot has it, and the new parent must exist.       *)
UpdateMove(t) ==
    /\ treeTx[t].pc = "updating"
    /\ \A u \in TreeTxs \ {t} : treeTx[u].pc = "committing" => Moved(t) \cap Moved(u) = {}
    /\ \A m \in Moved(t) : parent[m] = treeTx[t].parent[m] /\ path[m] = treeTx[t].path[m]
    /\ Present(treeTx[t].under)
    /\ treeTx' = [treeTx EXCEPT ![t].pc = "committing"]
    /\ UNCHANGED <<parent, path, treeOps, overtaken>>

(* 40001 or 40P01: a row of the subtree was rewritten, deleted or renamed    *)
(* since the snapshot.  The interceptor rolls back and runs the handler      *)
(* again, as often as Retries allows.                                        *)
SerializationFailure(t) ==
    /\ treeTx[t].pc = "updating"
    /\ treeTx' = [treeTx EXCEPT ![t] =
                         IF treeTx[t].attempt < Retries + 1
                         THEN [pc |-> "retrying", node |-> @.node, under |-> @.under,
                               attempt |-> @.attempt + 1]
                         ELSE TreeIdle]
    /\ overtaken' = overtaken \ {t}
    /\ UNCHANGED <<parent, path, treeOps>>

(* The handler again, against a new snapshot; it may now refuse. *)
RetryMove(t) ==
    LET n == treeTx[t].node  p == treeTx[t].under IN
    /\ treeTx[t].pc = "retrying"
    /\ treeTx' = [treeTx EXCEPT ![t] = IF Movable(n, p) THEN Snapshot(n, p, @.attempt) ELSE TreeIdle]
    /\ UNCHANGED <<parent, path, treeOps, overtaken>>

(* Mutant: only the row that was asked for is rewritten. *)
MutRewriteRowOnly(t, m) ==
    IF m = treeTx[t].node THEN Append(treeTx[t].path[treeTx[t].under], m) ELSE path[m]

(* path = new parent's path || subpath(path, nlevel(old) - 1) *)
Rewrite(t, m) ==
    LET old == treeTx[t].path IN
    old[treeTx[t].under] \o SubSeq(old[m], Len(old[treeTx[t].node]), Len(old[m]))

CommitTreeMove(t) ==
    /\ treeTx[t].pc = "committing"
    /\ parent' = [parent EXCEPT ![treeTx[t].node] = treeTx[t].under]
    /\ path' = [m \in Node |-> IF m \in Moved(t) THEN Rewrite(t, m) ELSE path[m]]
    /\ overtaken' = overtaken \cup Overtakes(t)
    /\ End(t)
    /\ UNCHANGED treeOps

(* Any other failure: a foreign key, a disconnected client, a crash. *)
TreeAbort(t) ==
    /\ treeTx[t].pc # "idle"
    /\ overtaken' = overtaken \ {t}
    /\ End(t)
    /\ UNCHANGED <<parent, path, treeOps>>

-----------------------------------------------------------------------------
TreeStep(t) ==
    \/ \E n \in Node : \/ BeginCreateRoot(t, n) \/ BeginTreeRemove(t, n)
                       \/ \E p \in Node : BeginCreate(t, n, p) \/ BeginTreeMove(t, n, p)
    \/ CommitCreate(t) \/ CommitTreeRemove(t)
    \/ UpdateMove(t) \/ SerializationFailure(t) \/ RetryMove(t) \/ CommitTreeMove(t)
    \/ TreeAbort(t)

(* Bound: a behaviour ends with the first race that is lost. *)
TreeNext == ~Crossed /\ \E t \in TreeTxs : TreeStep(t)

TreeSpec == TreeInit /\ [][TreeNext]_treeVars

-----------------------------------------------------------------------------
(* The materialized path of every node is its parent's with its own label    *)
(* appended, so coverage by prefix is ancestry, and there is no cycle, until *)
(* a request commits what it decided on a shape that is gone.                *)
PathsConsistent ==
    ~Crossed => \A n \in Node : Present(n) =>
        IF parent[n] = NoParent THEN path[n] = <<n>>
        ELSE path[n] = Append(path[parent[n]], n)

(* "A node cannot become its own ancestor": every node hangs from a root,    *)
(* with no exception.                                                        *)
Rooted ==
    \A n \in Node : Present(n) => \E m \in Forest!Upwards(parent, n) : parent[m] = NoParent

(* The rows are a tree within MaxDepth, changed one node at a time, by       *)
(* whatever interleaving of snapshots, retries and deletes, with the same    *)
(* exception: each step of the tree is a step of the forest, which has one   *)
(* root: "a second root would make `everything this admin covers' a question *)
(* with two answers".                                                        *)
ImplementsForest == Forest!Init /\ [][parent' # parent => Crossed' \/ Forest!Next]_parent
=============================================================================
