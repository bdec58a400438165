-------------------------- MODULE GrantInvalidation --------------------------
(***************************************************************************)
(* Who is invalidated when a tenant's grants change: the mutating          *)
(* transactions of bindings, roles, client applications, the registry and  *)
(* the scope tree, each enumerating the subjects it affects before COMMIT  *)
(* and bumping their cache counters after it                               *)
(* (apps/iam-api/src/authz/invalidation.service.ts), against requests that *)
(* fill the grants cache.                                                  *)
(*                                                                         *)
(* Begin... stands for a handler's lookups, writes and enumeration,        *)
(* Commit... for the COMMIT that makes its writes visible, and Bump for one *)
(* INCR of the afterCommit pipeline.  A transaction holds the row locks its *)
(* writes took until it ends.  Where what is written depends on an unlocked *)
(* read, the read (BeginUpdate, BeginEnable) and the write that waits for   *)
(* the row (WriteFlag) are steps of their own.                              *)
(* Requests run at READ COMMITTED.  One tenant                              *)
(* and one application: the cache keys, RLS and the joins keep tenants     *)
(* apart.  Expiring keys are GrantsCache's subject: here keys do not expire. *)
(***************************************************************************)
EXTENDS Naturals, FiniteSets

CONSTANTS
    Subjects, Roles, Perms, Nodes, Paths,
    Txs,            \* mutating requests that may run at once
    Readers,        \* requests that may fill the cache at once
    Kinds,          \* the kinds of change this instance makes
    MaxOps          \* bound: transactions begun in one behaviour

ASSUME KindsAssumption ==
    Kinds \subseteq {"bind", "unbind", "set", "remove", "toggle",
                     "deactivate", "reactivate", "app", "move"}
ASSUME MaxOpsAssumption == MaxOps \in Nat

VARIABLES
    bindings,   \* role_binding rows
    roles,      \* role rows
    mapping,    \* role_permission rows, by role
    active,     \* permissions with is_active
    enabled,    \* client_application.enabled
    appActive,  \* application.is_active
    place,      \* scope_node.path, by node
    tx,         \* each mutating request
    counter,    \* the subjects' version counters
    entry,      \* the subjects' cached entries
    reader,     \* each filling request
    excused,    \* history: why a subject's keys may be out of date until its next
                \* bump: one was "lost", an enumeration had "missed" it, or a
                \* change was "silent"
    ops         \* transactions begun so far

db == <<bindings, roles, mapping, active, enabled, appActive, place>>
cache == <<counter, entry, reader>>
vars == <<db, tx, cache, excused, ops>>

Binding == [subj : Subjects, role : Roles, node : Nodes]
Grants == SUBSET (Perms \X Paths)

Op == [kind : {"bind", "unbind"}, b : Binding]
      \cup [kind : {"set"}, role : Roles, add : SUBSET Perms, rem : SUBSET Perms,
            desired : SUBSET Perms]
      \cup [kind : {"remove"}, role : Roles]
      \cup [kind : {"toggle"}, on : BOOLEAN, bumps : BOOLEAN]
      \cup [kind : {"app"}, on : BOOLEAN]
      \cup [kind : {"deactivate", "reactivate"}, perm : Perms]
      \cup [kind : {"move"}, node : Nodes, path : Paths]

Idle == [pc |-> "idle"]
NoEntry == [v |-> MaxOps + 1, grants |-> {}]
NotFilling == [pc |-> "idle"]

TypeOK ==
    /\ bindings \subseteq Binding
    /\ roles \subseteq Roles
    /\ mapping \in [Roles -> SUBSET Perms]
    /\ active \subseteq Perms
    /\ enabled \in BOOLEAN /\ appActive \in BOOLEAN
    /\ place \in [Nodes -> Paths]
    /\ tx \in [Txs -> {Idle} \cup [pc : {"deciding", "open", "publishing"}, op : Op,
                                   owes : SUBSET Subjects, late : SUBSET Subjects]]
    /\ counter \in [Subjects -> 0 .. MaxOps]
    /\ entry \in [Subjects -> [v : 0 .. MaxOps, grants : Grants] \cup {NoEntry}]
    /\ reader \in [Readers -> {NotFilling} \cup
                      [pc : {"resolving", "writing"}, subj : Subjects,
                       v : 0 .. MaxOps, grants : Grants]]
    /\ excused \in [Subjects -> SUBSET {"lost", "missed", "silent"}]
    /\ ops \in 0 .. MaxOps

(* resolve(): the joins and the filters of the one SELECT, application.is_active *)
(* left to the end.                                                          *)
WhileAppActive(s) ==
    IF enabled THEN UNION {(active \cap mapping[b.role]) \X {place[b.node]} :
                               b \in {c \in bindings : c.subj = s}}
               ELSE {}
Resolve(s) == IF appActive THEN WhileAppActive(s) ELSE {}

Init ==
    /\ bindings \in {{}} \cup {{b} : b \in Binding}
    /\ roles = Roles
    /\ mapping \in [Roles -> SUBSET Perms]
    /\ active = Perms
    /\ enabled = TRUE
    /\ appActive = TRUE
    /\ place \in [Nodes -> Paths]
    /\ tx = [t \in Txs |-> Idle]
    /\ counter = [s \in Subjects |-> 0]
    /\ entry = [s \in Subjects |-> NoEntry]
    /\ reader = [r \in Readers |-> NotFilling]
    /\ excused = [s \in Subjects |-> {}]
    /\ ops = 0

-----------------------------------------------------------------------------
(* The rows an operation has written by the time it has begun.  A role is    *)
(* deleted by its transaction's last write, so "remove" holds none yet.      *)
Rows(op) ==
    CASE op.kind \in {"bind", "unbind"}           -> {<<"role_binding", op.b>>}
      [] op.kind = "set" -> {<<"role_permission", op.role, p>> : p \in op.add \cup op.rem}
      [] op.kind = "toggle"                       -> {<<"client_application">>}
      [] op.kind = "app"                          -> {<<"application">>}
      [] op.kind \in {"deactivate", "reactivate"} -> {<<"permission", op.perm>>}
      [] op.kind = "move"                         -> {<<"scope_node", op.node>>}
      [] OTHER                                    -> {}

Open(t) == tx[t].pc = "open"
Begin(t, op, owes) ==
    /\ tx[t] = Idle
    /\ op.kind \in Kinds
    /\ ops < MaxOps
    /\ \A u \in Txs : Open(u) => Rows(tx[u].op) \cap Rows(op) = {}
    /\ tx' = [tx EXCEPT ![t] = [pc |-> "open", op |-> op, owes |-> owes, late |-> {}]]
    /\ ops' = ops + 1
    /\ UNCHANGED <<db, cache, excused>>

(* subjectsBoundToRole, subjectsOfClient, subjectsBoundToPermissions, and    *)
(* subjectsUnder for a moved node.                                           *)
BoundToRole(r) == {b.subj : b \in {c \in bindings : c.role = r}}
OfClient == {b.subj : b \in bindings}
BoundToPermission(p) == {b.subj : b \in {c \in bindings : p \in mapping[c.role]}}
Under(n) == {b.subj : b \in {c \in bindings : c.node = n}}

(* validateAdditions: only what could be granted now may be mapped. *)
Mappable(p) == p \in active /\ enabled /\ appActive

-----------------------------------------------------------------------------
(* BindingsService.create: the role and the node exist, the grant is new. *)
BeginBind(t, b) ==
    /\ b.role \in roles /\ b \notin bindings
    /\ Begin(t, [kind |-> "bind", b |-> b], {b.subj})

(* BindingsService.remove *)
BeginUnbind(t, b) ==
    /\ b \in bindings
    /\ Begin(t, [kind |-> "unbind", b |-> b], {b.subj})

(* RolesService.setPermissions: a request for the set it already has writes  *)
(* and invalidates nothing; only additions are validated.                    *)
BeginSet(t, r, desired) ==
    LET add == desired \ mapping[r]
        rem == mapping[r] \ desired
    IN  /\ r \in roles
        /\ desired # mapping[r]
        /\ \A p \in add : Mappable(p)
        /\ Begin(t, [kind |-> "set", role |-> r, add |-> add, rem |-> rem,
                     desired |-> desired], BoundToRole(r))

(* Mutant: the subjects are looked up after the DELETE's cascade. *)
MutBeginRemoveAfterCascade(t, r) ==
    /\ r \in roles
    /\ Begin(t, [kind |-> "remove", role |-> r], {})

(* RolesService.remove: the bindings are read before the DELETE, and their   *)
(* subjects are whom it will invalidate.                                     *)
BeginRemove(t, r) ==
    /\ r \in roles
    /\ Begin(t, [kind |-> "remove", role |-> r], BoundToRole(r))

(* ClientApplicationsService.update and enable read the flag without a lock. *)
(* update writes one that is to move; enable, of an application that is on   *)
(* for everybody, writes TRUE in any case, and bumps whom it concerns only   *)
(* if what it read was not TRUE.                                             *)
ReadFlag(t, on, bumps) ==
    /\ tx[t] = Idle
    /\ "toggle" \in Kinds
    /\ ops < MaxOps
    /\ tx' = [tx EXCEPT ![t] = [pc |-> "deciding", owes |-> {}, late |-> {},
                                op |-> [kind |-> "toggle", on |-> on, bumps |-> bumps]]]
    /\ ops' = ops + 1
    /\ UNCHANGED <<db, cache, excused>>

BeginUpdate(t, on) == on # enabled /\ ReadFlag(t, on, TRUE)
BeginEnable(t) == appActive /\ ReadFlag(t, TRUE, ~enabled)

(* The write waits for the row; then the tenant's subjects are looked up.    *)
WritingFlag(t, owes) ==
    /\ tx[t].pc = "deciding"
    /\ \A u \in Txs : Open(u) => Rows(tx[u].op) \cap Rows(tx[t].op) = {}
    /\ tx' = [tx EXCEPT ![t].pc = "open", ![t].owes = owes]
    /\ UNCHANGED <<db, cache, excused, ops>>

(* Mutant: only switching an application on flushes the tenant. *)
MutWriteFlagOn(t) ==
    WritingFlag(t, IF tx[t].op.on /\ tx[t].op.bumps THEN OfClient ELSE {})

WriteFlag(t) == WritingFlag(t, IF tx[t].op.bumps THEN OfClient ELSE {})

(* ManifestService.upsert, a permission leaving the manifest ... *)
BeginDeactivate(t, p) ==
    /\ p \in active
    /\ Begin(t, [kind |-> "deactivate", perm |-> p], BoundToPermission(p))

(* ... or coming back: updatePermission sets is_active and looks up nobody. *)
BeginReactivate(t, p) ==
    /\ p \notin active
    /\ Begin(t, [kind |-> "reactivate", perm |-> p], {})

(* ApplicationsService.update of is_active: audited, and nothing else. *)
BeginApp(t, on) ==
    /\ on # appActive
    /\ Begin(t, [kind |-> "app", on |-> on], {})

(* ScopesService.move *)
BeginMove(t, n, path) ==
    /\ path # place[n]
    /\ Begin(t, [kind |-> "move", node |-> n, path |-> path], Under(n))

-----------------------------------------------------------------------------
Excused(S, reason) ==
    [s \in Subjects |-> IF s \in S THEN excused[s] \cup {reason} ELSE excused[s]]

(* The COMMIT of t, an operation of the given kind, which gives the subjects  *)
(* in gained something an open transaction's enumeration has not seen.  Its   *)
(* locks go, and its afterCommit callback is due.                            *)
Committing(t, kind, gained) ==
    /\ Open(t)
    /\ tx[t].op.kind = kind
    /\ tx' = [u \in Txs |->
                 IF u = t THEN IF tx[t].owes = {} THEN Idle
                                                  ELSE [tx[t] EXCEPT !.pc = "publishing"]
                 ELSE IF Open(u) THEN [tx[u] EXCEPT !.late = @ \cup gained]
                 ELSE tx[u]]
    /\ UNCHANGED <<cache, ops>>
Announced(t) == excused' = Excused(tx[t].late \ tx[t].owes, "missed")

CommitBind(t) ==
    /\ Committing(t, "bind", {tx[t].op.b.subj})
    /\ Announced(t)
    /\ bindings' = bindings \cup {tx[t].op.b}
    /\ UNCHANGED <<roles, mapping, active, enabled, appActive, place>>

CommitUnbind(t) ==
    /\ Committing(t, "unbind", {})
    /\ Announced(t)
    /\ bindings' = bindings \ {tx[t].op.b}
    /\ UNCHANGED <<roles, mapping, active, enabled, appActive, place>>

(* The diff computed at the start is applied to whatever is held by now. *)
CommitSet(t) ==
    LET op == tx[t].op IN
    /\ Committing(t, "set", IF op.add = {} THEN {} ELSE BoundToRole(op.role))
    /\ Announced(t)
    /\ mapping' = [mapping EXCEPT ![op.role] = (@ \ op.rem) \cup op.add]
    /\ UNCHANGED <<bindings, roles, active, enabled, appActive, place>>

(* The DELETE waits for every transaction holding a row of the role's or a   *)
(* reference to it; then role_binding and role_permission cascade.           *)
CommitRemove(t) ==
    LET op == tx[t].op
        cascade == {b \in bindings : b.role = op.role}
    IN  /\ Committing(t, "remove", {})
        /\ Announced(t)
        /\ \A u \in Txs \ {t} : Open(u) =>
              /\ ~(tx[u].op.kind \in {"bind", "unbind"} /\ tx[u].op.b.role = op.role)
              /\ ~(tx[u].op.kind = "set" /\ tx[u].op.role = op.role)
        /\ bindings' = bindings \ cascade
        /\ roles' = roles \ {op.role}
        /\ mapping' = [mapping EXCEPT ![op.role] = {}]
        /\ UNCHANGED <<active, enabled, appActive, place>>

(* An enable whose read is stale by now moves the flag and bumps nobody.     *)
CommitToggle(t) ==
    /\ Committing(t, "toggle", {})
    /\ IF tx[t].op.bumps THEN Announced(t)
       ELSE excused' = Excused(IF enabled = tx[t].op.on THEN {} ELSE OfClient, "silent")
    /\ enabled' = tx[t].op.on
    /\ UNCHANGED <<bindings, roles, mapping, active, appActive, place>>

CommitDeactivate(t) ==
    /\ Committing(t, "deactivate", {})
    /\ Announced(t)
    /\ active' = active \ {tx[t].op.perm}
    /\ UNCHANGED <<bindings, roles, mapping, enabled, appActive, place>>

CommitReactivate(t) ==
    /\ Committing(t, "reactivate", {})
    /\ active' = active \cup {tx[t].op.perm}
    /\ excused' = Excused(BoundToPermission(tx[t].op.perm), "silent")
    /\ UNCHANGED <<bindings, roles, mapping, enabled, appActive, place>>

CommitApp(t) ==
    /\ Committing(t, "app", {})
    /\ appActive' = tx[t].op.on
    /\ excused' = Excused(OfClient, "silent")
    /\ UNCHANGED <<bindings, roles, mapping, active, enabled, place>>

CommitMove(t) ==
    /\ Committing(t, "move", {})
    /\ Announced(t)
    /\ place' = [place EXCEPT ![tx[t].op.node] = tx[t].op.path]
    /\ UNCHANGED <<bindings, roles, mapping, active, enabled, appActive>>

(* A rollback discards the callbacks with the writes. *)
Abort(t) ==
    /\ tx[t].pc \in {"deciding", "open"}
    /\ tx' = [tx EXCEPT ![t] = Idle]
    /\ UNCHANGED <<db, cache, excused, ops>>

-----------------------------------------------------------------------------
(* Mutant: a bump that landed is still thought to be due. *)
MutBumpAgain(t, s) ==
    /\ tx[t].pc = "publishing"
    /\ s \in tx[t].owes
    /\ counter' = [counter EXCEPT ![s] = @ + 1]
    /\ excused' = [excused EXCEPT ![s] = {}]
    /\ UNCHANGED <<db, tx, entry, reader, ops>>

(* bumpMany: the INCRs of the pipeline land one by one. *)
Bump(t, s) ==
    LET rest == tx[t].owes \ {s} IN
    /\ tx[t].pc = "publishing"
    /\ s \in tx[t].owes
    /\ counter' = [counter EXCEPT ![s] = @ + 1]
    /\ tx' = [tx EXCEPT ![t] = IF rest = {} THEN Idle ELSE [tx[t] EXCEPT !.owes = rest]]
    /\ excused' = [excused EXCEPT ![s] = {}]
    /\ UNCHANGED <<db, entry, reader, ops>>

(* Redis fails, or the process dies, before or halfway through the pipeline. *)
LosePublish(t) ==
    /\ tx[t].pc = "publishing"
    /\ excused' = Excused(tx[t].owes, "lost")
    /\ tx' = [tx EXCEPT ![t] = Idle]
    /\ UNCHANGED <<db, cache, ops>>

-----------------------------------------------------------------------------
Current(s) == entry[s].v = counter[s]

(* grantsFor on a hit serves the entry and changes nothing. *)
Hit(r, s) ==
    /\ reader[r] = NotFilling
    /\ Current(s)
    /\ UNCHANGED vars

(* grantsFor on a miss: the version is observed first ... *)
Read(r, s) ==
    /\ reader[r] = NotFilling
    /\ ~Current(s)
    /\ reader' = [reader EXCEPT ![r] = [pc |-> "resolving", subj |-> s,
                                        v |-> counter[s], grants |-> {}]]
    /\ UNCHANGED <<db, tx, counter, entry, excused, ops>>

(* ... then the grants are resolved ... *)
Fill(r) ==
    /\ reader[r].pc = "resolving"
    /\ reader' = [reader EXCEPT ![r] = [pc |-> "writing", subj |-> @.subj, v |-> @.v,
                                        grants |-> Resolve(@.subj)]]
    /\ UNCHANGED <<db, tx, counter, entry, excused, ops>>

(* ... and the entry stored under the version observed, if Redis lets it. *)
Store(r) ==
    /\ reader[r].pc = "writing"
    /\ \/ entry' = [entry EXCEPT ![reader[r].subj] =
                        [v |-> reader[r].v, grants |-> reader[r].grants]]
       \/ UNCHANGED entry
    /\ reader' = [reader EXCEPT ![r] = NotFilling]
    /\ UNCHANGED <<db, tx, counter, excused, ops>>

-----------------------------------------------------------------------------
BeginSome(t) ==
    \/ \E b \in Binding : BeginBind(t, b) \/ BeginUnbind(t, b)
    \/ \E r \in Roles : BeginRemove(t, r) \/ \E P \in SUBSET Perms : BeginSet(t, r, P)
    \/ \E on \in BOOLEAN : BeginUpdate(t, on) \/ BeginApp(t, on)
    \/ BeginEnable(t)
    \/ \E p \in Perms : BeginDeactivate(t, p) \/ BeginReactivate(t, p)
    \/ \E n \in Nodes, path \in Paths : BeginMove(t, n, path)

CommitSome(t) ==
    \/ CommitBind(t) \/ CommitUnbind(t) \/ CommitSet(t) \/ CommitRemove(t)
    \/ CommitToggle(t) \/ CommitApp(t) \/ CommitDeactivate(t)
    \/ CommitReactivate(t) \/ CommitMove(t)

TxStep(t) == BeginSome(t) \/ WriteFlag(t) \/ CommitSome(t) \/ Abort(t) \/ LosePublish(t)
             \/ \E s \in Subjects : Bump(t, s)
ReaderStep(r) == Fill(r) \/ Store(r) \/ \E s \in Subjects : Hit(r, s) \/ Read(r, s)

Next == \/ \E t \in Txs : TxStep(t)
        \/ \E r \in Readers : ReaderStep(r)

Spec == Init /\ [][Next]_vars

-----------------------------------------------------------------------------
(* A committed change whose bump of s is still to come. *)
Owed(s) == \E t \in Txs : tx[t].pc = "publishing" /\ s \in tx[t].owes

Servable(s) == Current(s) /\ ~Owed(s)

(* "Any change that could alter a subject's grants must invalidate the       *)
(* relevant cache entries": once the invalidations due to s have landed, an  *)
(* entry the cache would serve is what resolve() answers, whatever the       *)
(* interleaving of transactions, bumps and fills.  The three exceptions are  *)
(* those of `excused', and last until the next bump of s.                    *)
Coherent ==
    \A s \in Subjects : Servable(s) /\ excused[s] = {} => entry[s].grants = Resolve(s)

(* "The enumeration is not a source of races": a subject who is bound while   *)
(* another transaction has its enumeration behind it is no exception.        *)
EnumerationNoRace ==
    \A s \in Subjects :
        Servable(s) /\ excused[s] \subseteq {"missed"} => entry[s].grants = Resolve(s)

(* A change nobody announces can only leave a subject short of grants, with   *)
(* one exception, the platform's own switch of the application: "prefer      *)
(* under-privileging on uncertainty".                                        *)
OverprivilegedByAppOnly ==
    \A s \in Subjects :
        Servable(s) /\ excused[s] \subseteq {"silent"} => entry[s].grants \subseteq WhileAppActive(s)
=============================================================================
