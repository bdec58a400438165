------------------------------- MODULE Registry -------------------------------
(***************************************************************************)
(* The catalog of one application and the requests that change it:          *)
(* manifest uploads (registry/manifest.service.ts, manifest-diff.ts) and    *)
(* the imperative routes they are composed of (nav.service.ts,              *)
(* permissions.service.ts).                                                 *)
(*                                                                         *)
(* A catalog is a function on cells: the row of a permission, the row of a  *)
(* nav node, the menu_permission row of a pair.  A request is one READ      *)
(* COMMITTED transaction: three reads that make a plan, the plan's          *)
(* statements one by one, and the COMMIT.  What it has written it alone     *)
(* sees, and nobody else may write, until then.  Labels, routes and the     *)
(* application's own name are left out.                                     *)
(***************************************************************************)
EXTENDS Integers, Sequences

CONSTANTS
    Perm,           \* permission keys
    NavNode,        \* nav node keys
    NavRoot,        \* the parent of a top-level node
    Upload,         \* requests that may run at once
    Manifests,      \* the documents that may be uploaded
    MaxCommits      \* bound: committed requests that changed something

ASSUME RootAssumption == NavRoot \notin NavNode
ASSUME MaxCommitsAssumption == MaxCommits \in Nat

(* applicationManifestSchema: no document declares a node twice. *)
ManifestEntry == [key : NavNode, parent : NavNode \cup {NavRoot}, public : BOOLEAN, requires : SUBSET Perm]
ASSUME ManifestsAssumption ==
    \A m \in Manifests :
        /\ m.perms \subseteq Perm /\ m.nav \in Seq(ManifestEntry)
        /\ \A i, j \in DOMAIN m.nav : m.nav[i].key = m.nav[j].key => i = j

VARIABLES
    catalog,        \* the committed rows
    request,        \* each request's progress
    written,        \* each request's own uncommitted writes, by cell
    regOvertaken,      \* history: requests beside whose plan another one committed
    inForce,        \* history: the manifest the last commit put in force, if it did
    commits,        \* history: requests that changed something
    lastBump        \* history: whether the last commit moved app_nav_version

regVars == <<catalog, request, written, regOvertaken, inForce, commits, lastBump>>

PermCell == {"perm"} \X Perm
NavCell == {"nav"} \X NavNode
GateCell == {"gate"} \X (NavNode \X Perm)
Cell == PermCell \cup NavCell \cup GateCell

RowStates == {"absent", "active", "retired"}
NavRow == [state : RowStates, parent : NavNode \cup {NavRoot}, public : BOOLEAN]
NoNavRow == [state |-> "absent", parent |-> NavRoot, public |-> FALSE]

ActivePerms(c) == {p \in Perm : c[<<"perm", p>>] = "active"}
ActiveNodes(c) == {n \in NavNode : c[<<"nav", n>>].state = "active"}
Gates(c, n) == {p \in Perm : c[<<"gate", <<n, p>>>>]}

(* The rows GET /iam/navigation reads: active nodes, and the gates on them. *)
Menu(c) == [n \in ActiveNodes(c) |-> [row |-> c[<<"nav", n>>], gates |-> Gates(c, n)]]

-----------------------------------------------------------------------------
(* A statement: its kind, its place among those of its kind where the        *)
(* document gives it one, and the values it means to leave in its cells.     *)
Statement(kind, place, cells) == [kind |-> kind, place |-> place, cells |-> cells]
SetPerms(kind, ps, state) == Statement(kind, 0, [c \in {"perm"} \X ps |-> state])
SetNav(kind, place, d) ==
    Statement(kind, place, [c \in {<<"nav", d.key>>} |->
                               [state |-> "active", parent |-> d.parent, public |-> d.public]])
SetGates(kind, pairs) == Statement(kind, 0, [c \in {"gate"} \X pairs |-> kind = "map"])
Retire(n) == Statement("retireNav", 0, [c \in {<<"nav", n>>} |-> NoNavRow])

(* A statement with nothing to write is not issued. *)
Issued(s) == IF DOMAIN s.cells = {} THEN {} ELSE {s}

(* planPermissions. *)
NewPerms(c, m) == {p \in m.perms : c[<<"perm", p>>] = "absent"}
ReturningPerms(c, m) == {p \in m.perms : c[<<"perm", p>>] = "retired"}

(* Mutant: what is retired already is retired again. *)
MutDroppedPerms(c, m) == {p \in Perm : c[<<"perm", p>>] # "absent"} \ m.perms

DroppedPerms(c, m) == ActivePerms(c) \ m.perms

(* planNav: the places of the declared nodes that differ from their row.     *)
RowOf(d) == [state |-> "active", parent |-> d.parent, public |-> d.public]
IsNew(c, d) == c[<<"nav", d.key>>].state = "absent"
NewNodes(c, m) == {i \in DOMAIN m.nav : IsNew(c, m.nav[i])}
ChangedNodes(c, m) ==
    {i \in DOMAIN m.nav : ~IsNew(c, m.nav[i]) /\ c[<<"nav", m.nav[i].key>>] # RowOf(m.nav[i])}
Declared(m) == {m.nav[i].key : i \in DOMAIN m.nav}
DroppedNodes(c, m) == ActiveNodes(c) \ Declared(m)

(* planMappings: only the nodes the manifest declares. *)
Wanted(m) == UNION {{<<m.nav[i].key, p>> : p \in m.nav[i].requires} : i \in DOMAIN m.nav}
Mapped(c) == {np \in NavNode \X Perm : c[<<"gate", np>>]}
ToMap(c, m) == Wanted(m) \ Mapped(c)
ToUnmap(c, m) == {np \in Mapped(c) \ Wanted(m) : np[1] \in Declared(m)}

(* The parts of the plan the three reads of snapshot() yield. *)
PermPlan(c, m) == [new |-> NewPerms(c, m), back |-> ReturningPerms(c, m), gone |-> DroppedPerms(c, m)]
NavPlan(c, m) == [new |-> NewNodes(c, m), changed |-> ChangedNodes(c, m), gone |-> DroppedNodes(c, m)]
GatePlan(c, m) == [map |-> ToMap(c, m), unmap |-> ToUnmap(c, m)]
NoPermPlan == [new |-> {}, back |-> {}, gone |-> {}]
NoNavPlan == [new |-> {}, changed |-> {}, gone |-> {}]

(* isNoOpDiff. *)
IsNoOp(pp, np, gp) ==
    /\ pp.new = {} /\ pp.back = {} /\ pp.gone = {}
    /\ np.new = {} /\ np.changed = {} /\ np.gone = {}
    /\ gp.map = {} /\ gp.unmap = {}

(* upsert, after planFor: what it has to do, ... *)
Statements(m, pp, np, gp) ==
    {SetPerms("addPerm", {p}, "active") : p \in pp.new}
    \cup {SetPerms("updatePerm", {p}, "active") : p \in pp.back}
    \cup {SetNav("addNav", i, m.nav[i]) : i \in np.new}
    \cup {SetNav("updateNav", i, m.nav[i]) : i \in np.changed}
    \cup Issued(SetGates("map", gp.map)) \cup Issued(SetGates("unmap", gp.unmap))
    \cup {Retire(n) : n \in np.gone}
    \cup Issued(SetPerms("retirePerm", pp.gone, "retired"))

(* ... and the order it works it off in.                                     *)
Passes == <<"addPerm", "updatePerm", "addNav", "updateNav", "map", "unmap", "retireNav", "retirePerm">>
Pass(s) == CHOOSE i \in DOMAIN Passes : Passes[i] = s.kind
Before(s, t) == Pass(s) < Pass(t) \/ (Pass(s) = Pass(t) /\ s.place < t.place)
Due(todo) == {s \in todo : ~\E t \in todo : Before(t, s)}

-----------------------------------------------------------------------------
NoDocument == [perms |-> {}, nav |-> <<>>]
NoUpload == [pc |-> "idle", doc |-> NoDocument, upload |-> FALSE, todo |-> {},
             permPlan |-> NoPermPlan, navPlan |-> NoNavPlan, bump |-> FALSE]

Pcs == {"idle", "readNav", "readGates", "writing"}

RegTypeOK ==
    /\ DOMAIN catalog = Cell
    /\ \A c \in PermCell : catalog[c] \in RowStates
    /\ \A c \in NavCell : catalog[c] \in NavRow
    /\ \A c \in GateCell : catalog[c] \in BOOLEAN
    /\ \A u \in Upload : request[u].pc \in Pcs /\ DOMAIN written[u] \subseteq Cell
    /\ \A u, v \in Upload : u # v => DOMAIN written[u] \cap DOMAIN written[v] = {}
    /\ regOvertaken \subseteq Upload
    /\ inForce \subseteq Manifests
    /\ commits \in 0 .. MaxCommits
    /\ lastBump \in BOOLEAN

Blank == [c \in Cell |-> CASE c \in PermCell -> "absent" [] c \in NavCell -> NoNavRow [] OTHER -> FALSE]

RegInit ==
    /\ catalog = Blank
    /\ request = [u \in Upload |-> NoUpload]
    /\ written = [u \in Upload |-> <<>>]
    /\ regOvertaken = {}
    /\ inForce = {}
    /\ commits = 0
    /\ lastBump = FALSE

(* The cells of f, and those of g that f has not. *)
Over(f, g) == [c \in DOMAIN f \cup DOMAIN g |-> IF c \in DOMAIN f THEN f[c] ELSE g[c]]

(* READ COMMITTED: what is committed now, under the request's own writes. *)
Seen(u) == Over(written[u], catalog)

(* planFor: the first read. *)
BeginUpload(u, m) ==
    /\ request[u].pc = "idle"
    /\ commits < MaxCommits
    /\ request' = [request EXCEPT ![u] = [NoUpload EXCEPT !.pc = "readNav", !.doc = m, !.upload = TRUE,
                                                          !.permPlan = PermPlan(catalog, m)]]
    /\ regOvertaken' = regOvertaken \ {u}
    /\ UNCHANGED <<catalog, written, inForce, commits, lastBump>>

ReadNav(u) ==
    /\ request[u].pc = "readNav"
    /\ request' = [request EXCEPT ![u].pc = "readGates",
                                  ![u].navPlan = NavPlan(catalog, request[u].doc)]
    /\ UNCHANGED <<catalog, written, regOvertaken, inForce, commits, lastBump>>

(* The third read completes the plan; an empty one ends the request there,  *)
(* with the answer that the document is in force already.                   *)
ReadGates(u) ==
    /\ request[u].pc = "readGates"
    /\ LET r == request[u]
           gp == GatePlan(catalog, r.doc)
           noOp == IsNoOp(r.permPlan, r.navPlan, gp)
       IN  /\ request' = [request EXCEPT ![u] =
                  IF noOp THEN NoUpload
                  ELSE [r EXCEPT !.pc = "writing", !.todo = Statements(r.doc, r.permPlan, r.navPlan, gp)]]
           /\ inForce' = IF noOp /\ u \notin regOvertaken THEN {r.doc} ELSE inForce
    /\ UNCHANGED <<catalog, written, regOvertaken, commits, lastBump>>

(* resolvePairs: the rows there are, retired ones among them. *)
KnownNodes == {n \in NavNode : catalog[<<"nav", n>>].state # "absent"}
KnownPerms == {p \in Perm : catalog[<<"perm", p>>] # "absent"}

(* The imperative routes: one statement, on rows the request has found.     *)
PermEdits == {SetPerms("addPerm", {p}, "active") : p \in Perm}
NavEdits ==
    {SetNav("addNav", 0, [key |-> n, parent |-> q, public |-> b]) :
        n \in NavNode, q \in KnownNodes \cup {NavRoot}, b \in BOOLEAN}
GateEdits ==
    {SetGates(kind, {<<n, p>>}) : kind \in {"map", "unmap"}, n \in KnownNodes, p \in KnownPerms}
Edits == PermEdits \cup NavEdits \cup GateEdits

BeginEdit(u) ==
    /\ request[u].pc = "idle"
    /\ commits < MaxCommits
    /\ \E s \in Edits : request' = [request EXCEPT ![u] = [NoUpload EXCEPT !.pc = "writing", !.todo = {s}]]
    /\ regOvertaken' = regOvertaken \ {u}
    /\ UNCHANGED <<catalog, written, inForce, commits, lastBump>>

-----------------------------------------------------------------------------
(* The rows a statement has to lock: a DELETE only those it can see.        *)
Touched(u, s) == {c \in DOMAIN s.cells : s.kind = "unmap" => Seen(u)[c]}

(* Mutant: only an upload is waited for. *)
MutBlockers(u, s) ==
    {v \in Upload \ {u} : request[v].upload /\ DOMAIN written[v] \cap Touched(u, s) # {}}

Blockers(u, s) == {v \in Upload \ {u} : DOMAIN written[v] \cap Touched(u, s) # {}}

Upcoming(u) == IF request[u].pc = "writing" THEN Due(request[u].todo) ELSE {}

(* A unique index refuses an insert of a key that is there (409). *)
Exists(u, c) == IF c \in NavCell THEN Seen(u)[c].state # "absent" ELSE Seen(u)[c] # "absent"
Refused(u, s) == s.kind \in {"addPerm", "addNav"} /\ \E c \in DOMAIN s.cells : Exists(u, c)

(* What the statement leaves: a retired node keeps its parent and flag, a   *)
(* mapping that is there already is not inserted, nor written.              *)
Effect(u, s) ==
    LET changed == {c \in Touched(u, s) : s.kind = "map" => ~Seen(u)[c]}
    IN  [c \in changed |-> IF s.kind = "retireNav" THEN [Seen(u)[c] EXCEPT !.state = "retired"]
                           ELSE s.cells[c]]

(* Mutant: deactivations are not counted among the catalog's changes. *)
MutMovesMenu(u, s) ==
    \/ s.kind \in {"addNav", "updateNav"}
    \/ s.kind \in {"map", "unmap"} /\ DOMAIN Effect(u, s) # {}

(* invalidateCatalog: what the nav services count as a change to the menu.  *)
MovesMenu(u, s) ==
    \/ s.kind \in {"addNav", "updateNav", "retireNav"}
    \/ s.kind \in {"map", "unmap"} /\ DOMAIN Effect(u, s) # {}

Write(u, s) ==
    /\ s \in Upcoming(u) /\ Blockers(u, s) = {} /\ ~Refused(u, s)
    /\ written' = [written EXCEPT ![u] = Over(Effect(u, s), @)]
    /\ request' = [request EXCEPT ![u].todo = @ \ {s}, ![u].bump = @ \/ MovesMenu(u, s)]
    /\ UNCHANGED <<catalog, regOvertaken, inForce, commits, lastBump>>

(* The transaction is rolled back, and nothing of it remains. *)
Rollback(u) ==
    /\ request' = [request EXCEPT ![u] = NoUpload]
    /\ written' = [written EXCEPT ![u] = <<>>]
    /\ UNCHANGED <<catalog, regOvertaken, inForce, commits, lastBump>>

Conflict(u, s) == s \in Upcoming(u) /\ Blockers(u, s) = {} /\ Refused(u, s) /\ Rollback(u)

(* Postgres ends a cycle of waiting requests by failing one (40P01). *)
AwaitedBy(u) == UNION {Blockers(u, s) : s \in Upcoming(u)}
DeadlockDetected(u) == (\E v \in AwaitedBy(u) : u \in AwaitedBy(v)) /\ Rollback(u)

Fail(u) == request[u].pc # "idle" /\ Rollback(u)

(* COMMIT, and the callbacks it owes: one INCR if the menu moved. *)
CommitChange(u) ==
    /\ request[u].pc = "writing"
    /\ request[u].todo = {}
    /\ LET changes == DOMAIN written[u] # {}
       IN  /\ changes => commits < MaxCommits
           /\ catalog' = Seen(u)
           /\ regOvertaken' = IF changes THEN {v \in Upload : v # u /\ request[v].pc # "idle"} \cup regOvertaken
                              ELSE regOvertaken
           /\ inForce' = IF request[u].upload /\ u \notin regOvertaken THEN {request[u].doc}
                         ELSE IF changes THEN {} ELSE inForce
           /\ commits' = IF changes THEN commits + 1 ELSE commits
           /\ lastBump' = request[u].bump
    /\ request' = [request EXCEPT ![u] = NoUpload]
    /\ written' = [written EXCEPT ![u] = <<>>]

RegStep(u) ==
    \/ \E m \in Manifests : BeginUpload(u, m)
    \/ BeginEdit(u) \/ ReadNav(u) \/ ReadGates(u)
    \/ \E s \in Upcoming(u) : Write(u, s) \/ Conflict(u, s)
    \/ DeadlockDetected(u) \/ Fail(u)
    \/ CommitChange(u)

RegNext == \E u \in Upload : RegStep(u)
RegSpec == RegInit /\ [][RegNext]_regVars

-----------------------------------------------------------------------------
(* An upload that nothing overtook leaves exactly what its document says,   *)
(* whatever was there before, retired rows included (Doc 02 section 7:      *)
(* the catalog converges on the manifest), so that uploading it again would *)
(* change nothing.                                                          *)
ManifestInForce ==
    \A m \in inForce :
        /\ ActivePerms(catalog) = m.perms
        /\ ActiveNodes(catalog) = Declared(m)
        /\ \A i \in DOMAIN m.nav : LET d == m.nav[i] IN
              catalog[<<"nav", d.key>>] = RowOf(d) /\ Gates(catalog, d.key) = d.requires
        /\ IsNoOp(PermPlan(catalog, m), NavPlan(catalog, m), GatePlan(catalog, m))

(* A commit that changes the menu tells the readers' cache. *)
MenuChangeBumps == [][catalog' # catalog => Menu(catalog') = Menu(catalog) \/ lastBump']_regVars
=============================================================================
