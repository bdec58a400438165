------------------------------ MODULE Navigation ------------------------------
(***************************************************************************)
(* GET /iam/navigation for one application: navigation.service.ts over the  *)
(* catalog cache of nav-catalog-cache.service.ts, beside edits that commit  *)
(* and then move app_nav_version (registry/nav.service.ts, manifest.service *)
(* .ts).                                                                    *)
(*                                                                         *)
(* The cache speaks the protocol of GrantsCache with two differences: the   *)
(* bump is one MULTI, and what is cached is read in two statements, nodes   *)
(* and then gates, at READ COMMITTED.  One entry serves every caller.       *)
(***************************************************************************)
EXTENDS Menu, Sequences

CONSTANTS
    Viewer,         \* requests that may be in flight at once
    Catalogs,       \* the states of the nav tables, each as one edit leaves it
    NavTtl,         \* NAV_CATALOG_TTL_SECONDS, in ticks
    MaxEdits,       \* bound: committed edits
    MaxRead         \* bound: ticks between a request's MGET and its SET

ASSUME NavTtlAssumption == NavTtl \in Nat \ {0}
ASSUME NavBoundsAssumption == MaxEdits \in Nat /\ MaxRead \in Nat
ASSUME CatalogsAssumption ==
    \A c \in Catalogs : /\ DOMAIN c.parent \subseteq Item
                       /\ \A n \in DOMAIN c.parent : c.parent[n] \in Item \cup {Top}

VARIABLES
    navPast,        \* the committed states of the tables, oldest first
    navEnabled,     \* client_application.enabled and application.is_active
    navCounter,     \* the `:v' key; val = 0 for a missing key
    navEntry,       \* the cached catalog: the states its two halves were read in
    viewer,         \* each request's progress
    navDue,         \* callbacks due: bumps of committed edits
    navFlushed,     \* history: the edits committed before the last landed bump
    navOrphaned     \* history: the counter expired under a read that holds it

navVars == <<navPast, navEnabled, navCounter, navEntry, viewer, navDue, navFlushed, navOrphaned>>

NoNavEntry == [v |-> -1, nodes |-> 1, gates |-> 1, ttl |-> 0]
NoNavCounter == [val |-> 0, ttl |-> 0]
Unstamped == -1

Rest(floor, nodes, gates, shown) ==
    [pc |-> "idle", held |-> {}, version |-> Unstamped, age |-> 0,
     floor |-> floor, nodes |-> nodes, gates |-> gates, shown |-> shown]

NavTypeOK ==
    /\ navPast \in Seq(Catalogs) /\ Len(navPast) \in 1 .. MaxEdits + 1
    /\ navEnabled \in BOOLEAN
    /\ navCounter.val \in Nat /\ navCounter.ttl \in 0 .. 2 * NavTtl
    /\ navEntry # NoNavEntry => navEntry.v \in Nat /\ navEntry.ttl \in 1 .. NavTtl
    /\ viewer \in [Viewer -> [pc : {"idle", "asking", "nodes", "gates", "writing"},
                              held : SUBSET Key, version : Nat \cup {Unstamped}, age : 0 .. MaxRead + 1,
                              floor : Nat, nodes : Nat, gates : Nat, shown : SUBSET Item]]
    /\ navDue \in Nat
    /\ navFlushed \in 1 .. Len(navPast)

NavInit ==
    /\ navPast \in {<<c>> : c \in Catalogs}
    /\ navEnabled = TRUE
    /\ navCounter = NoNavCounter
    /\ navEntry = NoNavEntry
    /\ viewer = [r \in Viewer |-> Rest(1, 1, 1, {})]
    /\ navDue = 0
    /\ navFlushed = 1
    /\ navOrphaned = FALSE

(* The nodes of one state and the gates of another: a gate is read through  *)
(* its node, which has to be active by then.                                *)
CatalogRead(i, j) ==
    [parent |-> navPast[i].parent, public |-> navPast[i].public,
     gates |-> {g \in navPast[j].gates : g[1] \in DOMAIN navPast[j].parent}]

ShownTo(held, i, j) == Pruned(CatalogRead(i, j), held)

(* enabledApplications, and then grantsFor. *)
AskMenu(r) ==
    /\ viewer[r].pc = "idle"
    /\ \E held \in SUBSET Key :
           viewer' = [viewer EXCEPT ![r] =
               IF navEnabled THEN [Rest(navFlushed, 1, 1, {}) EXCEPT !.pc = "asking", !.held = held]
               ELSE Rest(navFlushed, Len(navPast), Len(navPast), {})]
    /\ UNCHANGED <<navPast, navEnabled, navCounter, navEntry, navDue, navFlushed, navOrphaned>>

CurrentMenu == navEntry # NoNavEntry /\ navEntry.v = navCounter.val

(* read(): a current entry is the answer, pruned for this caller. *)
MenuHit(r) ==
    /\ viewer[r].pc = "asking"
    /\ CurrentMenu
    /\ viewer' = [viewer EXCEPT ![r] = Rest(@.floor, navEntry.nodes, navEntry.gates,
                                            ShownTo(@.held, navEntry.nodes, navEntry.gates))]
    /\ UNCHANGED <<navPast, navEnabled, navCounter, navEntry, navDue, navFlushed, navOrphaned>>

MenuMiss(r) ==
    /\ viewer[r].pc = "asking"
    /\ ~CurrentMenu
    /\ viewer' = [viewer EXCEPT ![r].pc = "nodes", ![r].version = navCounter.val]
    /\ UNCHANGED <<navPast, navEnabled, navCounter, navEntry, navDue, navFlushed, navOrphaned>>

(* The MGET failed: no version, so nothing may be written. *)
MenuUncached(r) ==
    /\ viewer[r].pc = "asking"
    /\ viewer' = [viewer EXCEPT ![r].pc = "nodes"]
    /\ UNCHANGED <<navPast, navEnabled, navCounter, navEntry, navDue, navFlushed, navOrphaned>>

(* readCatalog: two statements. *)
ReadNodes(r) ==
    /\ viewer[r].pc = "nodes"
    /\ viewer' = [viewer EXCEPT ![r].pc = "gates", ![r].nodes = Len(navPast)]
    /\ UNCHANGED <<navPast, navEnabled, navCounter, navEntry, navDue, navFlushed, navOrphaned>>

ReadMappings(r) ==
    /\ viewer[r].pc = "gates"
    /\ viewer' = [viewer EXCEPT ![r].pc = "writing", ![r].gates = Len(navPast)]
    /\ UNCHANGED <<navPast, navEnabled, navCounter, navEntry, navDue, navFlushed, navOrphaned>>

AnswerMenu(r) ==
    [viewer EXCEPT ![r] = Rest(@.floor, @.nodes, @.gates, ShownTo(@.held, @.nodes, @.gates))]

KeptAlive(c) == IF c.val = 0 THEN c ELSE [c EXCEPT !.ttl = 2 * NavTtl]

(* Mutant: the entry is stamped with the counter as it is by now. *)
MutStoreMenu(r) ==
    /\ viewer[r].pc = "writing" /\ viewer[r].version # Unstamped
    /\ navEntry' = [v |-> navCounter.val, nodes |-> viewer[r].nodes, gates |-> viewer[r].gates, ttl |-> NavTtl]
    /\ navCounter' = KeptAlive(navCounter)
    /\ viewer' = AnswerMenu(r)
    /\ UNCHANGED <<navPast, navEnabled, navDue, navFlushed, navOrphaned>>

(* write(): MULTI { SET entry EX ttl; EXPIRE counter 2*ttl }. *)
StoreMenu(r) ==
    /\ viewer[r].pc = "writing" /\ viewer[r].version # Unstamped
    /\ navEntry' = [v |-> viewer[r].version, nodes |-> viewer[r].nodes, gates |-> viewer[r].gates, ttl |-> NavTtl]
    /\ navCounter' = KeptAlive(navCounter)
    /\ viewer' = AnswerMenu(r)
    /\ UNCHANGED <<navPast, navEnabled, navDue, navFlushed, navOrphaned>>

(* Nothing to stamp it with, or the write failed. *)
LeaveMenu(r) ==
    /\ viewer[r].pc = "writing"
    /\ viewer' = AnswerMenu(r)
    /\ UNCHANGED <<navPast, navEnabled, navCounter, navEntry, navDue, navFlushed, navOrphaned>>

-----------------------------------------------------------------------------
(* An edit of the nav tables commits; its bump is due. *)
CommitEdit ==
    /\ Len(navPast) <= MaxEdits
    /\ \E c \in Catalogs : navPast' = Append(navPast, c)
    /\ navDue' = navDue + 1
    /\ UNCHANGED <<navEnabled, navCounter, navEntry, viewer, navFlushed, navOrphaned>>

(* bump(): MULTI { INCR; EXPIRE 2*ttl }. *)
BumpMenu ==
    /\ navDue > 0
    /\ navCounter' = [val |-> navCounter.val + 1, ttl |-> 2 * NavTtl]
    /\ navFlushed' = Len(navPast)
    /\ navDue' = navDue - 1
    /\ UNCHANGED <<navPast, navEnabled, navEntry, viewer, navOrphaned>>

(* The MULTI failed, or the process died after COMMIT; nothing retries it.  *)
LoseMenuBump ==
    /\ navDue > 0
    /\ navDue' = navDue - 1
    /\ UNCHANGED <<navPast, navEnabled, navCounter, navEntry, viewer, navFlushed, navOrphaned>>

(* The tenant's toggle or the platform's switch; neither touches the cache. *)
ToggleMenu ==
    /\ navEnabled' = ~navEnabled
    /\ UNCHANGED <<navPast, navCounter, navEntry, viewer, navDue, navFlushed, navOrphaned>>

Stamping(r) == viewer[r].pc \in {"nodes", "gates", "writing"} /\ viewer[r].version # Unstamped
MenuCounterExpires == navCounter.val # 0 /\ navCounter.ttl = 1

(* Redis drops a key when its time to live is up. *)
NavTick ==
    /\ \A r \in Viewer : Stamping(r) => viewer[r].age < MaxRead
    /\ viewer' = [r \in Viewer |-> IF Stamping(r) THEN [viewer[r] EXCEPT !.age = @ + 1] ELSE viewer[r]]
    /\ navEntry' = IF navEntry.ttl <= 1 THEN NoNavEntry ELSE [navEntry EXCEPT !.ttl = @ - 1]
    /\ navCounter' = CASE MenuCounterExpires -> NoNavCounter
                       [] navCounter.ttl > 1 -> [navCounter EXCEPT !.ttl = @ - 1]
                       [] OTHER -> navCounter
    /\ navOrphaned' = (navOrphaned \/ (MenuCounterExpires /\ \E r \in Viewer : Stamping(r)))
    /\ UNCHANGED <<navPast, navEnabled, navDue, navFlushed>>

ViewerStep(r) == \/ AskMenu(r) \/ MenuHit(r) \/ MenuMiss(r) \/ MenuUncached(r)
                 \/ ReadNodes(r) \/ ReadMappings(r) \/ StoreMenu(r) \/ LeaveMenu(r)

NavNext == \/ \E r \in Viewer : ViewerStep(r)
           \/ CommitEdit \/ BumpMenu \/ LoseMenuBump \/ ToggleMenu \/ NavTick

(* Time passes, and a request that reads the tables is answered.  Nothing   *)
(* obliges a bump to land.                                                  *)
NavFairness == /\ WF_navVars(NavTick)
               /\ \A r \in Viewer : /\ WF_navVars(ReadNodes(r))
                                    /\ WF_navVars(ReadMappings(r))
                                    /\ WF_navVars(LeaveMenu(r))

NavSpec == NavInit /\ [][NavNext]_navVars
NavFairSpec == NavSpec /\ NavFairness

-----------------------------------------------------------------------------
(* A menu is never built from tables older than the last edit whose bump    *)
(* had landed when it was asked for, whoever filled the cache, and however  *)
(* late: both halves.                                                       *)
MenuFresh ==
    ~navOrphaned =>
        \A r \in Viewer : viewer[r].pc = "idle" =>
            viewer[r].nodes >= viewer[r].floor /\ viewer[r].gates >= viewer[r].floor

(* With bumps lost at will, an edit is in the end in every entry, for good. *)
MenuTtlBackstop ==
    \A n \in 2 .. MaxEdits + 1 :
        (Len(navPast) >= n) ~> [](navEntry # NoNavEntry => navEntry.nodes >= n /\ navEntry.gates >= n)

(* A caller who holds nothing is shown an item only if the tables opened it *)
(* to everyone when the nodes were read; but for leaves both public and     *)
(* gated, which an edit between the two reads leaves without their gates.   *)
MenuNeverOpens ==
    \A r \in Viewer : viewer[r].pc = "writing" =>
        LET i == viewer[r].nodes
            j == viewer[r].gates
        IN  (\A k \in navPast[i].public : GatesOn(navPast[i], k) = {}) =>
                ShownTo({}, i, j) \subseteq Allowed(navPast[i], {})

(* Read from one state of the tables, a menu is what the rules say of that   *)
(* state: each leaf the caller may enter and what leads to it, no item more. *)
MenuExact ==
    \A r \in Viewer :
        viewer[r].pc = "writing" /\ viewer[r].nodes = viewer[r].gates =>
            ShownTo(viewer[r].held, viewer[r].nodes, viewer[r].gates) =
                Allowed(navPast[viewer[r].nodes], viewer[r].held)

(* A menu is as fresh as the bumps that landed; one read in one piece is     *)
(* exact, and a torn one opens nothing.                                      *)
MenuSound == MenuFresh /\ MenuExact /\ MenuNeverOpens
=============================================================================
