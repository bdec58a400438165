--------------------------- MODULE MCAdministration ---------------------------
(* What administrators do to scopes, roles, people and the catalog, what the *)
(* permission guard decides beside it, and the trail read back, on small     *)
(* instances.  The modules share no state: focus picks, at the start, the    *)
(* one that moves (the others stay in one of their initial states).          *)
EXTENDS Authorization, Registry, RoleEditing, Roster, AuditTrail, UploadScreen, TLC

CONSTANTS
    key1, key2,             \* two permissions
    clerk, chief,           \* two roles of the guard
    root, stray,            \* a scope node with the others under it; an id that no row has
    one, two,               \* two menu items
    ann, ben,               \* two addresses
    r1, v1                  \* a key of the console's manifests, and a version

MCRoleKeys == clerk :> {key1} @@ chief :> {key1, key2}

(* Three routes: a scope that may be left out, one that may not, and none.   *)
MCRoutes ==
    {[permissions |-> <<key1>>, scoped |-> TRUE, optional |-> TRUE],
     [permissions |-> <<key2, key1>>, scoped |-> TRUE, optional |-> FALSE],
     [permissions |-> <<key2, key1>>, scoped |-> FALSE, optional |-> FALSE]}

(* Where the guard's tree starts; moves lead to every shape from there.      *)
MCAbove == [n \in Node |-> CASE n = root -> NoParent [] n = stray -> Absent [] OTHER -> root]

(* Three releases of an application: a parent and its gated child; the same  *)
(* two the other way up; one item alone, open to everyone.                   *)
MCManifests ==
    LET Entry(key, parentKey, public, requires) ==
            [key |-> key, parent |-> parentKey, public |-> public, requires |-> requires]
    IN  {[perms |-> {key1}, nav |-> <<Entry(one, NavRoot, FALSE, {}), Entry(two, one, TRUE, {key1})>>],
         [perms |-> {key1}, nav |-> <<Entry(two, NavRoot, FALSE, {key1}), Entry(one, two, FALSE, {key1})>>],
         [perms |-> {}, nav |-> <<Entry(two, NavRoot, TRUE, {})>>]}

(* Staff lists: two that meet in opposite orders, one with an unreadable row *)
(* among them, one with a repeated row, one of a single row.                 *)
MCFiles == {<<ann, ben>>, <<ben, Unreadable, ann>>, <<ann, ann>>, <<ann>>}

(* A document that declares a key, and one that does not. *)
MCDocuments == {r1 :> v1, r1 :> Off}

(* The whole trail, and a part of it. *)
MCFilters == {[from |-> 0, to |-> AuditEnd + 1], [from |-> 1, to |-> 2]}

VARIABLE focus

AdministrationInit ==
    /\ focus \in {"guard", "registry", "role", "roster", "trail", "page"}
    /\ above = IF focus = "guard" THEN MCAbove ELSE [n \in Node |-> Absent]
    /\ AuthInit /\ RegInit /\ RoleInit /\ RosterInit /\ AuditInit /\ PageInit
    /\ focus # "page" => registered
    /\ focus # "role" => held = {}

(* Bounds: the trail is exported or paged, not both, and no further than an  *)
(* export's end.  A request the guard has to judge arrives as late as it     *)
(* can, which loses nothing: until its grants are read an edit, or another's *)
(* answer, could as well have come before it; answers kept after that are    *)
(* not for it; and with its decision it is over.                             *)
AdministrationNext ==
    /\ UNCHANGED focus
    /\ \/ /\ focus = "guard" /\ AuthNext /\ UNCHANGED <<regVars, roleVars, rosterVars, auditVars, pageVars>>
          /\ ask.pc # "decided"
          /\ ask.pc # "idle" => kept' = kept
          /\ ask.pc = "reading" => edits' = edits
       \/ focus = "registry" /\ RegNext /\ UNCHANGED <<authVars, roleVars, rosterVars, auditVars, pageVars>>
       \/ focus = "role" /\ RoleNext /\ UNCHANGED <<authVars, regVars, rosterVars, auditVars, pageVars>>
       \/ focus = "roster" /\ RosterNext /\ UNCHANGED <<authVars, regVars, roleVars, auditVars, pageVars>>
       \/ focus = "page" /\ PageNext /\ UNCHANGED <<authVars, regVars, roleVars, rosterVars, auditVars>>
       \/ /\ focus = "trail" /\ AuditNext /\ UNCHANGED <<authVars, regVars, roleVars, rosterVars, pageVars>>
          /\ export' = NoExport \/ pager' = NoPager
          /\ export.pc \notin {"answered", "refused", "failed"}

AdministrationSpec ==
    /\ AdministrationInit
    /\ [][AdministrationNext]_<<focus, authVars, regVars, roleVars, rosterVars, auditVars, pageVars>>

(* Two of the nodes under the root differ in name only, and so do uploads,   *)
(* edits and the writers of the trail, to which the cfg gives their names.   *)
Symmetry == Permutations(Upload)

(* Each module's state has its type.                                         *)
AdministrationTypeOK == AuthTypeOK /\ RegTypeOK /\ EditTypeOK /\ RosterTypeOK /\ AuditTypeOK /\ PageTypeOK
=============================================================================
