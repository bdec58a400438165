---------------------------- MODULE Authorization ----------------------------
(***************************************************************************)
(* One request before PermissionGuard (libs/auth-kit/src/permission.guard   *)
(* .ts), from the grants it is judged by to the decision of ScopeResolver   *)
(* .decide, beside moves of the scope tree and changes of bindings.         *)
(*                                                                         *)
(* The guard reads grants first (resolver.service.ts, grants.util.ts, or a  *)
(* cached answer to the same question) and then, in a statement of its own, *)
(* the path of the node the request names.  Both are paths: what a request  *)
(* may do is decided by comparing materialised paths, one of them possibly  *)
(* older than the other, and never by walking the tree.                     *)
(***************************************************************************)
EXTENDS ScopePaths

CONSTANTS
    Role,
    Key,            \* permission keys
    RoleKeys,       \* [Role -> SUBSET Key]: what each role permits
    Routes,         \* what routes declare
    MaxTreeEdits    \* bound: moves, bindings and unbindings

ASSUME RolesAssumption == RoleKeys \in [Role -> SUBSET Key]
ASSUME RoutesAssumption ==
    /\ Routes \subseteq [permissions : Seq(Key), scoped : BOOLEAN, optional : BOOLEAN]
    /\ Routes # {}
ASSUME TreeEditsAssumption == MaxTreeEdits \in Nat

VARIABLES
    above,          \* scope_node.parent_id
    authPath,       \* scope_node.path
    bound,          \* role_binding: pairs of role and node
    kept,           \* a cached answer: grants, and the bindings they came from
    ask,            \* the request
    edits

authVars == <<above, authPath, bound, kept, ask, edits>>

(* The tree the rows are, the paths forgotten.                              *)
Tree == INSTANCE ScopeForest
        WITH parent <- above, Node <- Node, NoParent <- NoParent,
             Absent <- Absent, MaxDepth <- MaxDepth

-----------------------------------------------------------------------------
(* path.util.ts, scope-resolver.ts and grants.util.ts.                      *)

(* Mutant: a path is not within itself. *)
MutPathIsWithin(p, prefix) == IsStrictPrefix(prefix, p)

(* path <@ prefix. *)
PathIsWithin(p, prefix) == IsPrefix(prefix, p)

(* newParentPath || subpath(path, nlevel(old) - 1). *)
RewritePrefix(p, old, parentPath) == parentPath \o SubSeq(p, Len(old), Len(p))

(* The join of resolve(): a row per binding and key of its role. *)
RowsOf(b) == {[role |-> t[1], key |-> k, path |-> authPath[t[2]]] : t \in b, k \in Key}
GrantRows(b) == {row \in RowsOf(b) : row.key \in RoleKeys[row.role]}

(* Deduplicated, then every path no other path contains. *)
MinimizePaths(rows) ==
    LET distinct == {row.path : row \in rows}
    IN  {p \in distinct : \A q \in distinct : q = p \/ ~PathIsWithin(p, q)}

AssembleGrants(rows) ==
    [k \in {row.key : row \in rows} |-> MinimizePaths({row \in rows : row.key = k})]

HoldsPermission(grants, k) == k \in DOMAIN grants

CoversPath(grants, k, target) ==
    HoldsPermission(grants, k) /\ \E p \in grants[k] : PathIsWithin(target, p)

AllowedPathsFor(grants, k) == IF HoldsPermission(grants, k) THEN grants[k] ELSE {}

(* The keys of a route that satisfy the test, by their places in its list.  *)
Held(route, grants) ==
    {i \in DOMAIN route.permissions : HoldsPermission(grants, route.permissions[i])}
Covering(route, grants, at) ==
    {i \in DOMAIN route.permissions : CoversPath(grants, route.permissions[i], at)}

Listed(route, places) == {route.permissions[i] : i \in places}

(* Allowed by the first of these; denied, naming all of them.               *)
Allow(route, places) ==
    LET first == CHOOSE i \in places : \A j \in places : i <= j
    IN  [outcome |-> "allowed", names |-> {route.permissions[first]}]
Deny(how, route, places) == [outcome |-> how, names |-> Listed(route, places)]

(* Mutant: a route that names no node is taken to need none. *)
MutUntargeted(route, held) == Allow(route, held)

(* The route declares a target and the request names none. *)
Untargeted(route, held) ==
    IF route.optional THEN Allow(route, held) ELSE Deny("scope_denied", route, held)

(* It names one the caller can see, at that path. *)
Targeted(grants, route, held, at) ==
    LET covering == Covering(route, grants, at)
    IN  IF covering = {} THEN Deny("scope_denied", route, held) ELSE Allow(route, covering)

Unheld(route) == Deny("permission_denied", route, DOMAIN route.permissions)

(* ScopeResolver.decide: held first, covered second.  at is the path of the *)
(* target, <<>> when no node of that id is visible to the caller.           *)
Decide(grants, route, target, at) ==
    LET held == Held(route, grants)
    IN  CASE held = {} -> Unheld(route)
          [] held # {} /\ route.scoped /\ target = Absent -> Untargeted(route, held)
          [] held # {} /\ target # Absent /\ at # <<>> -> Targeted(grants, route, held, at)
          [] OTHER -> Allow(route, held)

-----------------------------------------------------------------------------
NoDecision == [outcome |-> "none", names |-> {}]
NoGrants == AssembleGrants({})
NoRequest == [pc |-> "idle", route |-> CHOOSE r \in Routes : TRUE, target |-> Absent,
              from |-> {}, grants |-> NoGrants, under |-> {}, calm |-> TRUE, decision |-> NoDecision]

AuthTypeOK ==
    /\ above \in [Node -> Parents]
    /\ authPath \in [Node -> Seq(Node)]
    /\ bound \subseteq Role \X Node
    /\ kept.from \subseteq Role \X Node
    /\ ask.pc \in {"idle", "reading", "deciding", "decided"}
    /\ ask.decision.outcome \in {"none", "allowed", "permission_denied", "scope_denied"}
    /\ edits \in 0 .. MaxTreeEdits

(* A tree built by earlier requests.                                        *)
AuthInit ==
    /\ Tree!Init
    /\ authPath = Derived(above)
    /\ bound = {}
    /\ kept = [from |-> {}, grants |-> NoGrants]
    /\ ask = NoRequest
    /\ edits = 0

Shown(n) == above[n] # Absent

(* What grants at it cover n: n and everything above it.                    *)
Ancestors(n) == Tree!Upwards(above, n)

(* An edit of either kind: what was read before it is no longer the state.  *)
Unsettled == ask' = IF ask.pc = "deciding" \/ ask.pc = "reading" THEN [ask EXCEPT !.calm = FALSE] ELSE ask

(* ScopesService.move, one at a time (ScopeTree has them overlap). *)
MoveSubtree(n, p) ==
    /\ edits < MaxTreeEdits
    /\ Shown(n) /\ Shown(p)
    /\ p # above[n]
    /\ ~PathIsWithin(authPath[p], authPath[n])
    /\ Len(authPath[p]) + Height(authPath, n) <= MaxDepth
    /\ above' = [above EXCEPT ![n] = p]
    /\ authPath' = [m \in Node |-> IF PathIsWithin(authPath[m], authPath[n])
                                       THEN RewritePrefix(authPath[m], authPath[n], authPath[p]) ELSE authPath[m]]
    /\ edits' = edits + 1
    /\ Unsettled
    /\ UNCHANGED <<bound, kept>>

ChangeBinding(r, n) ==
    /\ edits < MaxTreeEdits
    /\ Shown(n)
    /\ bound' = IF <<r, n>> \in bound THEN bound \ {<<r, n>>} ELSE bound \cup {<<r, n>>}
    /\ edits' = edits + 1
    /\ Unsettled
    /\ UNCHANGED <<above, authPath, kept>>

(* Some other request of the same caller leaves its answer in the cache.    *)
Keep ==
    /\ kept' = [from |-> bound, grants |-> AssembleGrants(GrantRows(bound))]
    /\ UNCHANGED <<above, authPath, bound, ask, edits>>

(* A request reaches a guarded route.  Its id may name no node of the tenant. *)
Arrive ==
    /\ ask.pc = "idle"
    /\ \E route \in Routes, t \in Node \cup {Absent} :
           ask' = [ask EXCEPT !.pc = "reading", !.route = route,
                              !.target = IF route.scoped THEN t ELSE Absent]
    /\ UNCHANGED <<above, authPath, bound, kept, edits>>

ReadBy(from, grants, fresh) ==
    /\ ask.pc = "reading"
    /\ ask' = [ask EXCEPT !.pc = "deciding", !.from = from, !.grants = grants, !.calm = fresh]
    /\ UNCHANGED <<above, authPath, bound, kept, edits>>

(* grantsFor: from the tables, or from the cache (see GrantsCache for how   *)
(* old that may be).                                                        *)
ReadGrants == ReadBy(bound, AssembleGrants(GrantRows(bound)), TRUE)
ReadKept == ReadBy(kept.from, kept.grants, FALSE)

(* scopePathOf and decide, and canActivate's answer. *)
Conclude ==
    /\ ask.pc = "deciding"
    /\ LET at == IF ask.target \in Node THEN authPath[ask.target] ELSE <<>>
       IN  ask' = [ask EXCEPT !.pc = "decided",
                              !.decision = Decide(ask.grants, ask.route, ask.target, at),
                              !.under = IF at = <<>> THEN {} ELSE Ancestors(ask.target)]
    /\ UNCHANGED <<above, authPath, bound, kept, edits>>

AuthNext ==
    \/ \E n, p \in Node : MoveSubtree(n, p)
    \/ \E r \in Role, n \in Node : ChangeBinding(r, n)
    \/ Keep \/ Arrive \/ ReadGrants \/ ReadKept \/ Conclude

AuthSpec == AuthInit /\ [][AuthNext]_authVars

-----------------------------------------------------------------------------
(* What a binding means, by the tree and not by paths: its role's keys at   *)
(* its node and at everything under it.                                     *)
Meant(from, k, nodes) == \E t \in from : k \in RoleKeys[t[1]] /\ t[2] \in nodes

(* Paths agree with the tree: a key covers a node, and a list narrowed by   *)
(* allowedPaths shows it, exactly when a binding grants that key at the     *)
(* node or above it, after any moves.                                       *)
CoverIsTheTree ==
    LET now == AssembleGrants(GrantRows(bound))
    IN  \A n \in Node : Shown(n) =>
            LET up == Ancestors(n)
            IN  \A k \in Key :
                    /\ CoversPath(now, k, authPath[n]) <=> Meant(bound, k, up)
                    /\ (\E p \in AllowedPathsFor(now, k) : PathIsWithin(authPath[n], p))
                       <=> Meant(bound, k, up)

(* Grants are minimal: each path covers a node no other path of its key     *)
(* covers, so a set of paths is never longer than it has to be.             *)
NoPathToSpare ==
    LET now == AssembleGrants(GrantRows(bound))
    IN  \A k \in DOMAIN now : \A p \in now[k] :
            \E n \in Node : \A q \in now[k] : PathIsWithin(authPath[n], q) <=> q = p

(* A request let through to a node was let through by a key bound, when its *)
(* grants were resolved, at what is an ancestor of that node when its path  *)
(* is read: however stale the grants and wherever subtrees have gone since, *)
(* an old path never covers a node its binding does not.                    *)
AllowedIsMeant ==
    ask.decision.outcome = "allowed" =>
        \E k \in Listed(ask.route, DOMAIN ask.route.permissions) :
            /\ ask.decision.names = {k}
            /\ Meant(ask.from, k, IF ask.under = {} THEN Node ELSE ask.under)
            /\ ask.target = Absent => ~ask.route.scoped \/ ask.route.optional

(* A refusal of grants that are current when the decision falls is right,   *)
(* and says why: permission_denied that the caller holds none of the keys   *)
(* the route lists, all of which it names, scope_denied that the caller     *)
(* holds each key it names and none of them here.                           *)
RefusedForWhatItSays ==
    LET names == ask.decision.names
    IN  ask.calm =>
        /\ ask.decision.outcome = "permission_denied" =>
               /\ names = Listed(ask.route, DOMAIN ask.route.permissions)
               /\ \A k \in names : ~Meant(ask.from, k, Node)
        /\ ask.decision.outcome = "scope_denied" =>
               /\ names # {}
               /\ \A k \in names : Meant(ask.from, k, Node) /\ ~Meant(ask.from, k, ask.under)

(* Grants assembled from paths say what the bindings mean, in as few paths   *)
(* as can say it; by them the guard lets nobody through whom no binding      *)
(* meant, and refuses nobody without the reason it gives.                    *)
GuardDecides == CoverIsTheTree /\ NoPathToSpare /\ AllowedIsMeant /\ RefusedForWhatItSays
==============================================================================
