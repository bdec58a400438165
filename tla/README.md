# PlantOps IAM in TLA+

A formal model of the PlantOps IAM/RBAC service: `apps/iam-api`, the libraries that
other modules and the consoles use to talk to it, and the tools that install it, as
TLA+ modules that TLC model-checks on small instances, with theorems that TLAPS
proves for every value of the constants: every safety property of the passing runs,
the types included, is one.

Source paths below are relative to the repository; `PROJECT.json` maps every
definition that models code to the lines it models, lists the hazards the properties
are aimed at, and for each property one plausible bug that breaks it.

    tlc -workers 2 -config MCGrants.cfg MCGrants       # one run
    tlapm CachesProofs.tla                             # one module's proofs


## 1. Inventory

The service answers *who may do what where*: tenants (clients) have users and
service accounts, a tree of scope nodes, roles that map permissions, and bindings
of a subject to a role at a node. Applications upload manifests that declare the
permissions and the menu. Postgres holds all of it under row-level security; Redis
holds what must be fast or short-lived; access tokens are signed JWTs that other
modules verify without calling back. Several replicas run, none coordinates with
another except through Postgres and Redis, and every mutating request is one
Postgres transaction whose outside effects run in `afterCommit` callbacks, once,
best effort. Paths in the table are below `apps/iam-api/src` unless they name a
library or a tool.

| component | state | operations | met by |
|---|---|---|---|
| Grants cache and resolver (`authz/grants-cache.service.ts`, `resolver.service.ts`) | per subject a Redis entry stamped with a version, and a version counter, both expiring | `grantsFor` = MGET, resolve, MULTI SET/EXPIRE; `bumpMany` = pipelined INCR/EXPIRE | invalidation bumps it; guards and navigation read it |
| Grant invalidation (`authz/invalidation.service.ts` and its callers) | the tables grants are joined from; the callbacks due | bind, unbind, set a role's permissions, delete a role, enable or disable an application for a tenant, (de/re)activation by a manifest, platform switch, scope move | each enumerates subjects before COMMIT and bumps after it |
| Permission guard (`libs/auth-kit/src/permission.guard.ts`, `scope-resolver.ts`, `authz/grants.util.ts`, `scopes/path.util.ts`) | none of its own: grants, and the path of the node a request names | resolve, decide, narrow a list to paths | every guarded route |
| Scope tree (`scopes/*.ts`) | `scope_node` rows: parent link and materialised ltree path | create, rename, move, delete | bindings hang from nodes; grants carry paths |
| Roles (`roles/roles.service.ts`) | `role_permission` rows | replace the set, create, rename, delete | invalidation, the audit trail |
| Refresh rotation (`auth/refresh.service.ts`, `refresh-replay.cache.ts`, migration 0013) | session row: current and previous secret, rotation time, status; Redis election keys | elect a successor, decide under the row lock, publish reuse | the token session calls it; the guard hears of reuse |
| Client token session (`libs/iam-client/src/auth.ts`, `libs/web-kit/src/token-store.ts`) | one `localStorage` slot, one pending exchange per tab | renew, adopt, forget, logout | tabs share the slot and nothing else |
| Client resolve cache (`libs/iam-client/src/resolve-cache.ts`, `client.ts`) | entries and in-flight loads per tab | get, reload, invalidate, clear on a change of identity | the console's providers |
| Console providers (`libs/web-kit/src/iam-provider.tsx`, `grants-provider.tsx`, `use-async.ts`) | the subject a tab believes in, what it loaded for it | log in and out, hear of other tabs, load, keep | whatever the user sees |
| Login, account state, reset (`auth/auth.service.ts`, `account-state.service.ts`, `password-reset.service.ts`, migrations 0012, 0014, `tools/break-glass-admin.ts`) | user status and failure counter, sessions, reset tokens | login, failure and lockout, lock, unlock, disable, request and complete a reset, recover | ends sessions, publishes denials |
| Session revocation and guard (`auth/session.service.ts`, `revocation.cache.ts`, `libs/auth-kit/src/auth.guard.ts`) | session row, `revoked-sid` key in Redis | revoke, publish, judge a token with Redis up or down | everything that ends a session |
| Expiry sweep (`authz/expiry-sweep.job.ts`, migration 0016) | bindings with `expires_at` and their sweep mark | claim with SKIP LOCKED, audit, publish | the grants cache |
| Signing keys (`auth/keys.service.ts`, `libs/config/src/key-rotation.ts`, `libs/auth-kit/src/jwks-verifier.ts`) | the key set each instance booted with, a verifier's cached JWKS | publish, activate, retire; verify, refetch | every token |
| Service accounts (`service-accounts/*.ts`, `auth/service-token.service.ts`, migration 0015) | hash, status, the tenant's status | rotate, revoke, reactivate, suspend; exchange a secret for a token | the guard, the grants cache |
| Tenant context (`libs/db/src/rls-context.ts`, `data-source.ts`, `common/tenant-context.interceptor.ts`, `authz/grants-source.ts`) | the pool; per connection a transaction and its row-level-security settings | begin, visit another tenant, commit, roll back, retry, run callbacks | every handler |
| Registry (`registry/*.ts`) | rows of permissions, nav nodes and their mappings | upload a manifest, edit one row | navigation, invalidation |
| Navigation (`navigation/*.ts`) | per application a catalogue in Redis, stamped with a version | read in two statements, cache, prune for a caller | the registry bumps it |
| Users and bulk upload (`users/*.ts`) | addresses, unique | create, correct, upload a staff list | the roster's report and trail |
| Audit (`audit/*.ts`, migration 0010) | rows stamped with their transaction's time | write, export in chunks, page | every mutation writes, two screens read |
| Installation (`deploy/bootstrap.sh`, `tools/release-migrate.ts`, `bootstrap-install.mjs`, `apply-manifests.ts`, `clients/client-admin.service.ts`) | the migration ledger and its lock, the first tenant and administrator | migrate, start, apply, create, restart, verify; be killed and run again | an operator |
| Rate limiting (`common/throttler.guard.ts`, `rate-limit.decorator.ts`) | in Redis a counter per caller, handler and window | count with a deadline, let through, refuse with a time to come back | every guarded route; login and token exchange fail closed |
| Console screens (`apps/admin-web/src`) | per screen what was asked, what is shown, what is busy | preview and apply a manifest; show a new secret once; page the trail | the API |
| Filters, health, OpenAPI, configuration; contracts and entities; the other screens | | | not modelled (section 6) |

What is hard here, and where the properties are aimed:

* *Two stores, no common transaction.* A commit in Postgres and its announcement
  in Redis are separate steps; a crash or a failed command loses the second.
* *Read, decide, write.* At READ COMMITTED a handler's lookups and its writes see
  different databases. Who else is to be told is enumerated before the COMMIT, and
  a difference is written that was computed against a state no longer there.
* *Races by design.* Two tabs present one refresh token; several requests miss
  one cache entry; two moves run at once; two administrators replace one role.
* *Time.* TTLs, grace windows, token lifetimes, rotation waits and expiring
  counters, each of which must outlive another.
* *Borrowed state.* A connection carries its settings from request to request; a
  tab shares its store with tabs it never hears from directly; an instance signs
  with the keys it read at boot.
* *Work in pieces.* A sweep, an installation, an upload or an export is many steps,
  and may fail, die or be repeated between any two.


## 2. Modules

    GrantsCache            -- CachesProofs
    GrantInvalidation      -- GrantsProofs              (GrantsCache's keys, per subject, not expiring)
    ScopePaths                                          (rows of scope_node and their paths)
      +-- ScopeTree    -- ScopeTreeProofs               (refines ScopeForest)
      +-- Authorization -- AdministrationProofs         (walks ScopeForest's tree)
    RefreshRotation        -- RefreshRotationProofs
          +-- TokenSession -- SessionsProofs            (composition: EXTENDS the server's half)
    ResolveCache           -- GrantsProofs
    ConsoleShell           -- SessionsProofs
    AccountSessions        -- SessionsProofs
    SessionRevocation      -- CachesProofs
    KeyRotation            -- CredentialsProofs
    ServiceCredentials     -- CredentialsProofs
    RateLimit              -- CredentialsProofs
    SecretScreen           -- CredentialsProofs
    UploadScreen           -- AdministrationProofs
    Menu
      +-- Navigation     -- CachesProofs                (EXTENDS the pruning of a catalogue)
    Registry               -- AdministrationProofs
    RoleEditing            -- AdministrationProofs
    Roster                 -- AdministrationProofs
    AuditTrail             -- AdministrationProofs
    ExpirySweep            -- ProgressProofs
    RequestTransactions    -- ProgressProofs
    Installation           -- ProgressProofs

The proofs are kept by suite (section 3), so that the types of a suite can be proved
of its run's own specification; the facts about refresh rotation and about the scope
tree, which two suites need, have a module each.

`MCx.tla` with its `.cfg` instantiates modules for TLC. Definitions named `Mut...`
are one-line bugs used to show that a property can fail; nothing else uses them.

Three conventions hold in all modules. A Redis command, a database statement or a
synchronous stretch of JavaScript is one action, so anything may happen between
two of them. A failed or lost call is an action of its own, always possible where
the code meets it. And when the code has a race it can lose, the action stays what
the code does: a *history variable* marks the state as touched by that race, the
properties say what is promised outside it, and section 5 lists what happens
inside it.

### Grants

**GrantsCache** is one subject's keys. A grant set is abstracted to the number of
committed changes it reflects, so "older" is `<`. `Hit`, `Miss`, `ReadUncached`,
`Resolve`, `Write` and `SkipWrite` are the stages of `ResolverService.grantsFor`;
`Commit`, `Incr`, `ExpireCounter` and `LoseBump` are a transaction and its
`bumpMany`; `Tick` is Redis's clock, which drops keys. `orphaned` is set when the
counter expires while a fill still holds its value.

**GrantInvalidation** has the nine kinds of change. `BeginX` is the handler up to
its last statement: its lookups, its writes (visible to nobody yet, rows locked)
and its enumeration of subjects; `CommitX` makes them visible; `Bump` is one INCR;
`LosePublish` drops the rest. An application's flag for the tenant is read without a
lock (`BeginUpdate`, `BeginEnable`) and written when its row is free (`WriteFlag`), so
what was read may be stale by then. `Resolve(s)` is the resolver's join. `excused[s]` says
why a subject's entry may be out of date until its next bump: a bump was `lost`; an
enumeration `missed` a subject who gained the role, or a role that gained the
permission, after it ran; a change was `silent`, as the platform switch and a
permission's return in a manifest are in the code, and an enable that found the flag
on before a disable it then waited for.

**Authorization** is one request before the permission guard. Grants are read
(`ReadGrants`, or `ReadKept` for a cached answer), then the path of the node the
request names, then `Decide` is `ScopeResolver.decide` over both. Subtrees move and
bindings change in between. Paths are sequences of labels, and `CoversPath`,
`MinimizePaths` and `AllowedPathsFor` are the code's prefix computations; the
properties compare them with a walk of the tree.

**ExpirySweep** is the timer of every replica: `Claim` takes a batch of lapsed rows
nobody has locked and audits them in the same statement, `CommitClaim` makes that
visible, `BumpSwept` and `BumpSweptFails` are the bumps one by one, `SweeperDies` may
come anywhere. Readers of the subjects' grants run beside it with the clock of
their transaction's BEGIN, which is what `now()` in the resolver's join is.
`straddled` marks a reader older than a lapse and newer than its bump.

### The scope tree

`ScopeForest` is the promise: a tree with at most one root and bounded depth,
changed one node at a time. **ScopeTree** is the code: creates and deletes at READ
COMMITTED in two steps, moves at REPEATABLE READ with a snapshot, row locks,
serialization failures and retries, and the materialised path maintained beside
the parent link. Rename touches no path and is left out. `overtaken` records the
requests whose ground a commit has changed; a behaviour ends when one of those
commits all the same (`Crossed`), because nothing is promised after that.
`ImplementsForest` says that every step before it maps to a step of the forest,
under the identity on `parent`. What is above a node (`Upwards`) is stated without
recursion, as what no set closed under `parent` can be without. **ScopePaths** is what
the tree and the guard share: which sequence of labels is the path of a node, and the
depth of a subtree.

### Sessions and credentials

**RefreshRotation** is one session. `Begin`, `Elect`, `LoseElection`, `Follow`,
`ElectionFails` are `SET NX` / `GET` on the replay cache; `Rotate`, `Replay`, `Stale`,
`DetectReuse`, `Invalid` are the branches of `auth_rotate_refresh_token`, one
statement each; `PublishReuse`, `Deliver`, `Abandon` end the request. `Revoke`,
`PublishRevoked`, `Expire`, `Tick` are the rest of the world. Any token ever handed
out may be presented, at any time. `handed` is the history of answers.

**TokenSession** extends it with the tabs: `StartRefresh` (of a token about to lapse,
on any 401, or on request: at any time, sharing what is pending in the tab), `Adopt`, `Forget`, `ForgetInTransport`,
`SendLogout`, `ClearOnLogout`. A request whose tab has given up keeps running at the
server. `signedOut` distinguishes a logout that completed with nothing in flight
from one `crossed` by an exchange. `hasty` marks the renewal of a token not yet due
beside an exchange of an older one, which only a 401 or a request to renew can bring
about.

**AccountSessions** is one account. A login is its lookup, the argon2 verification,
the second look at the status inside `auth_begin_session`, the insert (which takes
the user's row lock only to clear a counter) and the commit. Lock, unlock and
disable hold the row lock from their guarded update, and so does the
operator's recovery with `break-glass-admin`; resets and wrong passwords are one
statement each, except a reset *request*, whose update and insert are two steps
with a snapshot. `overtaken` marks logins and reset requests whose account changed
after they had looked.

**SessionRevocation** is one session, its tokens and its denial. `Decide` and `Sign`
are issuing (the database's answer, then the signature), the revoker commits and
then publishes, Redis goes away, comes back, and may have forgotten. `Refused` is
`AuthGuard.isRevoked`: the key when Redis answers, the row when it does not. `late`
marks a token signed after the denial it should have been covered by; `told` says
that the published denial is still there.

**KeyRotation** has the operator's three steps with their waits (or `--force`), the
instances that read the environment once and are replaced one by one (`Boot`), one
watched token, and a verifier: `Verify` judges by the cached JWKS, `Consult` asks for
a refetch when a kid is unknown or the cache is old, joining a request in flight or
respecting the floor between two, `FetchAnswered` and `FetchFailed` end it.

**ServiceCredentials** is one service account and its tenant. Administrative
requests are split at their row lock, so that a second one waits or, for the
tenant, decides on a status read before it; `LookUpAccount` and `IssueToken` are
the two ends of an exchange, with the hash verified in between; `UseToken` brings
back the cached grants a revocation dropped, as `resolve()` does not look at the
account's status.

### The consoles

**ResolveCache** is the caches of the tabs of one browser over one token store. A
load is sent with whatever token the store has *by then*, answered later and landed
later still. `crossed` marks loads and entries that the identity, or an
invalidation, changed under.

**ConsoleShell** is what one tab shows and as whom. `slot` is the store with the
identity hint beside the tokens; logins, logouts and renewals happen here and
elsewhere, and what happens elsewhere reaches the tab by a storage event (`ApplyStored`).
`RunHit`, `RunLoad` and `Disabled` are the effect of `useAsync`, which runs when its
dependencies are not those of its last run. `hook` picks grants, which come through
the client's cache and share a load in flight, or the menu, a request of the run's
own.

**SecretScreen** is the screen of service accounts in the console: a secret is in
the answer to a creation or a rotation and nowhere else. `Mint` is the server,
`Reveal` puts an answer on the screen (over whatever is there), `Acknowledge` and
`Close` are the one button of its window, `Unheard` and `Forgotten` are an answer
that never comes or that nobody waits for, `LeaveScreen` unmounts all of it. `lost`
says of a secret nobody has copied why it is gone.

**UploadScreen** is the page that previews a manifest and applies it. The box can be
edited, and a dropped file read into it, while a preview, a registration or an
upload is under way; each answer is put on the screen whatever the box holds by
then. `crossed` marks what came back to a text that was gone. `DiffsMatch` compares
the change that was previewed with the one that was made.

### Administration

**Menu** is `prune.ts`, level by level, against the rules of the design document, as a
closure of the parent relation (`Allowed`). **Navigation** is the catalogue cache around it: the same protocol
as GrantsCache, except that the bump is one MULTI and that what is cached is read in
two statements, nodes and then gates. **Registry** is where catalogues come from: an
upload makes a plan from three reads and writes it statement by statement, beside
other uploads and single edits, under row locks, unique indexes and the deadlock
detector; `MovesMenu` is each handler's own opinion on whether the menu's readers must
be told.

**RoleEditing** is concurrent replacements of one role's permissions, each a
difference computed from what it read. **Roster** is staff lists of many rows beside
single users and corrected addresses: an `insert ... on conflict do nothing` that
takes addresses in the order of the file, waits for uncommitted ones, and may be the
victim of a deadlock; then a report, row by row.

**AuditTrail** is the trail read while it is written. Rows carry the instant their
transaction began and a random id, and are seen at the commit, so they turn up in
the middle. The export reads chunks of one snapshot, its cursor having been through
a JavaScript date (`ToDate`); the screen reads pages by offset, with a new snapshot
for each. A row's `Place` is the number of rows that precede it, and what a query
with an order, an offset and a limit answers (`InOrder`) are the rows at those places.

### Infrastructure

**RequestTransactions** is how a request reaches Postgres: the queue of the pool, the
guard's short transaction, that of a denial, the handler's with its retries, the
visit to another tenant and the nested connection of a failed login. `conn[c].set` is
what `set_config` has left in a connection; `Statement` compares it with what the
request is entitled to, and `strayed` records a difference. Callbacks are deferred
per attempt and told after the commit.

**Installation** is `bootstrap.sh` from the migration lock to the login that proves the
installation, with several runs, each with its own file of settings. A run may be
killed anywhere (`Kill`), the API may die (`ApiDies`), and a request for the first
administrator is executed statement by statement and outlives the run that sent it.

**RateLimit** is the requests of one caller to one handler (`visit`) and their
counter. `Increment` is the MULTI in Redis, `IncrementLate` one whose request has
given up, `CounterUnavailable` both answers to a counter that did not reply in 250
ms. `Forget` is Redis losing a count, by eviction, a flush or a restart (the compose
file gives it no append-only file), and `forgotten` says how many of those let through
it no longer knows of. A snapshot that brings back a count gone since makes the limit
stricter and is left out. Time passes in halves of a second, so that the whole seconds of the code fall on
both sides of a window's edge.


## 3. Runs

A run is an instance of a *suite*: one MC module extends several modules that share
no state, and its variable `focus` picks, in the initial state, the one that moves;
the others stay as they are. One run so asks one question of several mechanisms, at
the cost of the sum of their state spaces, not of the product. Each module keeps its
own fairness, asked of it only when it is in focus, and the properties are the
conjunctions of the modules' own.

| run | question | properties |
|---|---|---|
| `grants` (MCGrants) | Can a change of grants be missed? | `Coherent`: a servable entry equals what resolve() answers. `OverprivilegedByAppOnly`: silent changes leave subjects short, never over, but for the platform switch. `PathsConsistent`, `ImplementsForest`. `ConsumerSound`: a client's answer is of its own user, newer than the last invalidation, and stale for one window at most. |
| `caches` (MCCaches) | What is served from a cache that others fill and flush, and for how long? | `CacheSound`: no answer older than the last bump that had landed; no entry ahead of its counter. `MenuSound`: the same for menus; read in one piece one is what the rules say, and two reads put together open nothing. `DenialExact`: of no live session, and of every token signed before. `LossesAgeOut`: whatever flush is lost, its effect ends. |
| `sessions` (MCSessions) | Does a user stay signed in who should, and out who should not? | `HonestSurvives`: no honest tab is taken for a thief, and `TabsConverge`: racing tabs end with the row's token, unless one was `hasty`. `SignedOutStays`. `ShellSound` of what they show; `NobodyLeftIn` of the account: who is locked out, or reset, leaves no session behind. |
| `credentials` (MCCredentials) | Which credentials are honoured while they are being replaced? | `Lineage`: one successor, one predecessor. `DeniedIsRevoked`. `KeysSound`: a rotation that keeps its waits refuses nobody, and no cached key set is lost too early or kept too long. `ExposureBounded`: a dead secret has no token left after the window. `TrailIsTrue`. `SecretsShown`: no secret in force that nobody was shown. `RateSound`: at most twice the limit in a stretch of one window, and as many more as Redis lost count of; no refusal without its cause, and an end to it. |
| `progress` (MCProgress) | Does work that fails half-way come to its end, once? | `SweepSound`, `NeverStrays`, `CallbacksOfCommitted`, `InstallSound`, and the liveness `WorkEnds`. |
| `administration` (MCAdministration) | Does what overlapping administrators ask for come about, and does the guard decide by it? | `GuardDecides`, `ManifestInForce`, `UploadHonest`, `MenuChangeBumps`, `RoleAsRecorded`, `RosterIsTrue`, `TrailReadable`. |
| `grant_enumeration_overlap`, `scope_two_moves`, `login_beside_lock`, `pool_exhausted`, `export_drops_rows`, `grants_of_another` | each refutes one sentence of the repository | section 5 |

Each passing run also checks the type invariants of its modules.

**Bounds.** Every race in section 5 needs two concurrent requests and one observer,
and the runs have at least that; each property fails under its listed mutant within
these bounds, so the interesting states are inside them.

| suite | instance |
|---|---|
| grants | 2 subjects, 2 transactions at once and 3 in all of every kind, 1 fill; every tree of up to 4 nodes with 2 concurrent requests, 3 in all, 1 retry; 2 tabs, 2 callers, 2 people, 1 change |
| caches | 2 fills, 2 transactions, TTL 2; 1 viewer, 4 catalogues, 1 edit, TTL 2; 2 tokens, lifetime 3, leeway 1, Redis failing and forgetting |
| sessions | 2 tabs, 3 exchanges, 3 secrets, everything failing; 2 visitors, 3 sign-ins; 3 logins and 2 resets, lockout at the second failure |
| credentials | 2 refresh requests, 3 secrets, Redis failing; 2 keys, 2 instances, 2 verifications; 2 administrators, 1 exchange, 2 secrets; 2 accounts, 2 requests, 3 secrets; 2 requests at once and 4 in all, over two windows |
| progress | 2 bindings, 2 replicas, 1 reader, 1 crash; 2 connections, 2 requests of which 1 may nest, 1 retry; 2 runs, 2 administrators, 1 kill |
| administration | a root with 3 nodes under it and an id of no node, 2 roles, 3 routes, 3 edits of tree and bindings; 2 uploads, 3 manifests, 3 commits; 3 edits of 2 permissions; 2 staff lists of at most 3 rows, 1 single user, 1 correction; 2 writers, 4 records, chunks and pages of 2; 1 key, 2 documents, every catalogue |

Durations are ticks whose *order* matters: the counter's life is twice the entry's,
an election's is the grace window plus slack, a denial's is a token's lifetime plus
leeway. Some of the bounds need a word:

* `MaxFillTicks < TTL` (GrantsCache): a fill does not outlast the entry it
  writes; `CacheSound` does not depend on it.
* `Grace` exceeds twice `MaxDelay` (TokenSession): a tab that presents a token just
  before another tab's answer lands is decided up to two exchanges after the
  rotation. With a shorter window an honest tab is taken for a thief, as the code's
  own comment on the window implies. It is the hypothesis `InTime` of the theorems about
  the tabs.
* `MaxDepth` equals the number of nodes (ScopeTree), so that subtrees of more than
  one node can move; a mutant that drops the depth and cycle tests is caught by the
  forest. The guard's tree starts flat and three moves make every shape of it, two of
  them a subtree that moves as a whole; the three routes are one whose scope may be
  left out, one whose may not, and one without.
* `MaxDeploy <= VerifyLeeway` (KeyRotation): the waits of a rotation have no room
  for a slower deployment than the leeway; it is an assumption of the module.
* `MCGrants`: one tab at a time holds an entry or waits for one, the other signs
  somebody in. `MCSessions`: one tab at a time is signing out, and none beside a hasty
  one; with several logins one reset is asked for, with several
  resets there is one login; beside a screen one renewal at a time is in flight, and
  none once the last visitor has signed in or a late one has landed.
  `MCAdministration`: the trail is exported or paged, not both, and rests once its
  export has an outcome; kept answers change before the guard's request only,
  no edit falls while it reads its grants, and it is over with its decision.
  `MCCredentials`: a rotation is forced or the JWKS has an outage, not both,
  as nothing is promised with both. These are in the MC modules' next-state
  relations, not in the models.

**Symmetry** is declared where members of a set differ in name only and the run has
no liveness property. Constants of different modules are given the same names, so
that one small group of permutations serves the whole suite.

**Fairness.** Two suites check liveness.
In `caches`, time passes (`WF Tick`, `NavTick`, `SessTick`), a read that began ends
(`WF Resolve`, `SkipWrite`, `ReadNodes`, `ReadMappings`, `LeaveMenu`: Postgres
answers or errors, and a write is abandoned after `CACHE_TIMEOUT_MS`), and a decided
token is signed (`WF Sign`, a synchronous stretch of the same handler). Nothing
obliges a bump to land or a denial to be published, which is the point of
`LossesAgeOut`.
In `progress`, a replica's timer fires (`WF Claim`), its transaction commits if it is
tried time and again (`SF CommitClaim`: a failed attempt releases its rows and the
next timer tries anew), and of each row of a pass the bump is tried, landing or not;
a request that has a connection goes on (`WF Proceed`) and one that waits is handed
a connection that is free (`WF`, the pool's queue is served in order); the operator
restarts an installation that died, a script or a request that can take its next
step takes it, and the advisory lock is got by whoever keeps asking (`SF TakeLock`).

**Deadlock** is checked in `grant_enumeration_overlap` only: the suites and the other
runs have bounded work, and an idle system may stop. That nobody waits for ever is
stated where it matters, as `WorkEnds` of requests, sweeps and installations, and as
the victims of the deadlock detector in Roster and Registry.


## 4. Proofs

Each holds for any number of requests, subjects, tabs, keys, connections or replicas
and any value of the durations that the module's assumptions allow.

| module | about | theorems | what is proved |
|---|---|---|---|
| CachesProofs | GrantsCache | `TypeCorrect`, `Freshness`, `CounterAhead`, `Soundness` | `Spec => []CacheSound` |
| | SessionRevocation | `SessInvariant`, `Denial` | `SessSpec => []DenialExact` |
| | Navigation, Menu | `PrunedIsAllowed`, `MenusAreSound` | `NavSpec => []MenuSound`; for every catalogue and caller, `Pruned = Allowed` |
| | the suite | `CachesTyped` | `CachesSpec => []CachesTypeOK` |
| GrantsProofs | GrantInvalidation | `GrantsInvariant`, `GrantsTypes`, `CacheIsCoherent`, `OverprivilegedOnlyByApp` | `Spec => []Coherent`, `[]OverprivilegedByAppOnly` |
| | ResolveCache | `ResolveInvariant`, `ConsumersAreSound` | `ResolveSpec => []ConsumerSound` |
| | the suite | `GrantsTyped` | `GrantsSpec => []GrantsTypeOK` |
| ScopeTreeProofs | ScopeTree | `TreeInvariant`, `PathsAreConsistent`, `RefinesForest` | `TreeSpec => []PathsConsistent`, `TreeSpec => ImplementsForest` |
| RefreshRotationProofs | RefreshRotation | `TypeCorrect`, `Denial`, `OneSuccessor` | `Spec => []DeniedIsRevoked`, `[]Lineage` |
| SessionsProofs | TokenSession | `TabsInvariant`, `HonestTabs`, `TabsAgree`, `LoggedOut` | if `InTime`, `ClientSpec => []HonestSurvives`, `[](~hasty => TabsConverge)`; and `[]SignedOutStays` |
| | ConsoleShell | `ShellInvariant`, `ShellIsSound` | `ShellSpec => []ShellSound` |
| | AccountSessions | `AccountInvariant`, `AccountTypes`, `NobodyIsLeftIn` | `AccountSpec => []NobodyLeftIn` |
| | the suite | `SessionsTyped` | `SessionsSpec => []SessionsTypeOK` |
| CredentialsProofs | ServiceCredentials | `CredInvariant`, `Exposure`, `Trail` | `CredSpec => []ExposureBounded`, `[]TrailIsTrue` |
| | KeyRotation | `KeysInvariant`, `KeysAreSound` | `RotSpec => []KeysSound` |
| | SecretScreen | `SecretsInvariant`, `SecretsAreShown` | `ScreenSpec => []SecretsShown` |
| | RateLimit | `RateIsSound` | `RateSpec => []RateSound` |
| | the suite | `CredentialsTyped` | `CredentialsSpec => []CredentialsTypeOK` |
| ProgressProofs | ExpirySweep | `SweepInvariant`, `Swept` | `SweepSpec => []SweepSound` |
| | RequestTransactions | `PoolInvariant`, `Isolation`, `OnlyCommitted` | `TxSpec => []NeverStrays`, `[]CallbacksOfCommitted` |
| | Installation | `InstallInvariant`, `InstallationIsSound` | `InstallSpec => []InstallSound` |
| | the suite | `ProgressTyped` | `ProgressSpec => []ProgressTypeOK` |
| AdministrationProofs | RoleEditing | `RoleInvariant`, `RolesAreRecorded` | `RoleSpec => []RoleAsRecorded` |
| | Authorization | `AuthInvariant`, `GuardIsRight` | `AuthSpec => []GuardDecides` |
| | Roster | `RosterInvariant`, `RosterIsRight` | `RosterSpec => []RosterIsTrue` |
| | Registry | `RegInvariant`, `ManifestHolds`, `MenuChangesBump` | `RegSpec => []ManifestInForce`, `RegSpec => MenuChangeBumps` |
| | UploadScreen | `UploadIsHonest` | `PageSpec => []UploadHonest` |
| | AuditTrail | `TrailInvariant`, `TrailIsReadable` | `AuditSpec => []TrailReadable` |
| | the suite | `AdministrationTyped` | `AdministrationSpec => []AdministrationTypeOK` |

**Assumptions.** Those the modules name, which TLC evaluates on every run: a TTL is not
zero, a placeholder is not a member of the set it stands beside, a bound is a natural
number, finitely many requests of a caller are in flight, an application has finitely
many menu items and each hangs from an item or the top (`nav_node.parent_id`), a role
permits a set of keys, a route lists the keys it wants (and there is a route), a
manifest declares a key of the menu once (`applicationManifestSchema` refuses two), a
text that parses on the upload page is a catalogue, a chunk and a page have a row at
least, and an installation is begun by finitely many runs. Two say
more. `RotationAssumption` has `MaxDeploy <= VerifyLeeway`, without
which the operator's waits are too short. And `InTime`, a hypothesis of the theorems
about the tabs and not an assumption of the module, has
`2 * MaxDelay < Grace /\ MaxDelay < Period`: the code aborts a request after its
timeout, and is generous with the window for this reason.

**GrantsCache.** `ServedFresh` alone is not inductive: it says nothing of an entry
that is not current now but would become current if the counter came to its value,
nor of a fill still in flight. The invariant `IInv` is
`TypeOK /\ (~orphaned => Agreement)`, where `Agreement` says, of every live entry and
every fill, that its version is at most the counter, and that if the two are equal
then the grants reflect everything flushed (for a fill still resolving: that
everything flushed is in the database it is about to read). An INCR moves the
counter past all of them at once, so the equalities become false and nothing need be
known about the old grants. A counter that expires with no fill holding its value
takes every entry with it, because an entry never outlives its counter; that is the
part that needs the `EXPIRE 2*ttl` of `Write`. The lemmas `OrphanedStays` and
`TypeStep` let the step be proved under `~orphaned'` alone.

**Navigation.** The freshness of the entries is the argument of GrantsCache with two
readings in place of one: `NavInv` says of the entry and of every request that its
version is at most the counter and that, if the two are equal, each half it has read
is of the last bump that landed or later. What a menu then shows is a fact about
`prune.ts` alone. `PrunedIsAllowed`: whatever the catalogue, with inactive parents,
orphans and cycles, the walk from the top keeps the leaves the caller may enter that
hang from it, and what is above them. What is kept under a node leads to such a leaf
(`ShownLeads`); and from such a leaf the way up passes each item once, since coming
back to one would close a cycle that the top is not on, so it reaches the top within
as many levels as there are items (`WayGoesOn`, `ShownToTheEnd`). `MenuNeverOpens`
follows for two halves of different states, as an item that no gate is found for
hangs where the first state put it.

**GrantInvalidation.** A change reaches a subject at COMMIT and its keys with the bumps
that follow, but whom they are for was settled when the handler enumerated. So the
invariant carries the enumeration to the COMMIT: whomever an open transaction is
going to change it has found, or another COMMIT has brought since (`Enumerated`, kind
by kind). `AnswersRight` then says of what is stored, or about to be, under the
version a subject has, that it is right while no bump is due. No key is of a version
to come (`CacheTyped`), and a version is never past what is left to be had
(`Counted`), which takes the finiteness of the transactions that still owe a bump.

**RefreshRotation.** `Lineage` is about what was answered; what makes it inductive is
that secrets are numbered as they are minted, hence ordered. `Ordered` conjoins
`Lineage` with: every pair handed out increases (`PairsOrdered`), the row's `previous`
is below its `current` and the last pair is the row's (`RowOrdered`), every proposal
was minted after what it is proposed for (`ProposalsOrdered`), and so was every
election (`ElectionsOrdered`). `Denial` needs `Published`: a request that is publishing
has compromised the session, and a session never recovers.

**TokenSession.** An honest tab can be taken for a thief if it presents a token that
has been replaced for longer than the window. `Honest` says why none does. All
requests under way present one token, the row's or the one before it (`Alike`,
`OfTheRow`). The slot holds the one before only while an answer with its successor
is on the way to a tab (`StoreOfTheRow`), so who presents it began no later than
the longest exchange after the rotation (`BeganBefore`), and is decided one exchange
after that. `Undisturbed` is the rest while nothing is lost: an election belongs to
a request under way, so its key outlives every request that has to follow it.
Both hold until a tab is `hasty`. A renewal when the token is due finds nobody under
way with an older one, as exchanges end before that (`InTime`); one on a 401 may find
somebody, and unless it does, it is like any other (`StartStep`). That even then no tab
is signed out of a session that is live, and none refused for its proposal, as
`RacingTabsStaySignedIn` and `LoserNeverRefused` say, is left to TLC.
`OutForGood` is all that `LoggedOut` needs, hence no hypothesis about time.

**AccountSessions.** Who ends sessions does it in two steps, and a login takes four. So
what holds when the account is shut is claimed already when it is about to be
(`ShutOut`: what is under way, or will not be ended, has been overtaken); what a
session must know is claimed already of the login that becomes it
(`KnowTheSecret`); and a token about to be stored ends every one that works
(`OneLink`).

**SessionRevocation.** A denial outlives the tokens because it starts with more time
than any of them has and both age together. `RowEnded` says who may publish (only
after the commit), `Outlasts` that while the published key is there it has at least
as much time left as every token signed before it plus the leeway; a key that has
run out therefore leaves no such token.

**ServiceCredentials.** A token was signed by an exchange that looked its secret up
while it was good. `Ageing` follows that: a secret that is good has not been dead, an
exchange has been going on for at least as long as its secret has been dead, and a
token has a lifetime on top. Time adds to the one what it takes from the other. For
the trail, `Locked`: one request at a time holds the account's row, and the status it
wants is not the one the account has, so what it writes is news and true.

**KeyRotation.** Four holders of keys follow the environment, each behind it by its
own delay. `KeyLife` says which step of its life a key is at. `Behind`: an instance
has every key published before the step that is longest on its way, lacks every one
withdrawn before it, and signs with one that signed then. `TokenHasItsKey`: the
token's key has not been off duty for longer than the token's age and a deployment.
`Cached`: the verifier's keys are an instance's, as much older as the cache. The
waits make each delay shorter than what follows it. What a verification will find
(`FindsKey`) is settled when it looks, and no call waits for more than two fetches
(`CallsInTime`).

**RateLimit.** The count of a window is no bound on who went on if the counter can be
forgotten, or be behind. `RateInv` says when it is one. `WithinCap`: who has gone on
and who waits with a count that lets it are together at most the limit, and at most
the counter, for as long as a request of the window may be waiting, in each case but
for those `forgotten`. `Lasting`: until then the counter does not expire, because no command lands before its window opens
and each gives the counter two windows from then. `Numbered`: those who went on in a
half have different numbers, so the set of them has as many members. `Accounted`: the
counter and the commands on their way are no more than the requests made in that
window, so a refusal has its cause. `InItsWindow`: a request waits in the half second
it was made in or in the next, which is why `RetryInTime` finds whole seconds enough
to get past the window, and one window never too few. A stretch as long as a window
touches two of them (`BurstByInv`).

**ResolveCache.** `LoadGood`: a load that nothing crossed is of whoever is signed in,
and its answer misses nothing that is older than the load. `EntryGood` and
`CallerGood` hand that on to the entry and to whoever waits, each with its own age
added, which is where the window `ResolveTtl + MaxFlight` comes from.

**The screens.** *UploadScreen*: a result must be the comparison of the two catalogues
it was made from (`ResultSaysSo`); the lemma `SameDiff` says that catalogues to
which one manifest makes one change agree, if not everywhere, outside it.
*SecretScreen*: a minted secret is in one place at a time (`OneSight`), the buttons
allow one rotation of an account as far as the screen has heard (`Buttons`), and the
one that is shown or about to be is in force unless a later one is unheard
(`AllWork`). *ConsoleShell*: what no change of identity has crossed is of whoever is
signed in (`Uncrossed`); what the last run loads or loaded is so too if that run was
for the session in the slot (`RunsOwn`), since a former session comes back in a
`mixed` slot only.

**ExpirySweep.** `ClaimsApart` is what SKIP LOCKED buys: a row is in one pass at a time
and unmarked until that pass commits, which gives one audit record. `Noticed` says
that a request which missed after the bump with grants from before the lapse has been
noted in `straddled`, so a fill of anybody else has nothing to grant. `Aging` bounds
what is left: a request older than the lapse has been going on for as long as the
binding has been lapsed, and what it writes has a TTL to live.

**RequestTransactions.** `strayed` is a history and says nothing of what could still go
wrong. The invariant says where every setting is at every moment: a connection is
used by one request at a time (`Apart`), one nobody uses is as new (`Rested`), and a
request's own has the settings its stage calls for, the deferred callbacks being
those of its last attempt (`Fits`). Every action concerns one request, so the lemma
`OneRequest` proves the frame once: a step of `r` that leaves the others' connections
alone, uses only its own or free ones and fits afterwards keeps the whole invariant.
Each action then has a lemma about `r` only.

**Installation.** `LedgerTrue`: who holds the lock works from the ledger as it is, and
the ledger is what has been applied. `StageHas` says what a run has behind it at each
stage, or what disturbed it. `AdminsNew`: a request about to commit brings an
administrator whom no other request is about to bring and who is not there yet, so
the roots, one per commit at most, are no more than the administrators.

**RoleEditing.** What a replacement asked for can be untrue when it commits. `Asked`
says by whom it has been outrun then: one of the latest to commit agrees with the
role, and committed after the read of the one it outran. `Explained` is the same of
the trail's records that name a permission, and `Undisturbed` of a request nobody
has overtaken.

**ScopeTree.** `TreeRows` is the shape of the table: every node's path is a way to it from a
root (`LeadsTo`), no longer than `MaxDepth`, and there is one root at most. There is
one way to a node (`SameWay`), so what is above it is what is on its path (`Above`),
its depth is the path's length, and the prefix test is ancestry (`PrefixIsAncestry`).
The rest of the invariant says what each request may still rely on when it commits,
if nothing has overtaken it. An insert: its node is nobody else's and nobody has read
of it (`IsNew`), and its parent's path is the one it read (`Fits`). A move: it was legal
in its snapshot (`WasMovable`), its new parent has the path the snapshot has, and
nothing hangs from its node that the snapshot had not there (`AsRead`); once it is
committing, what it is going to rewrite is as read and no other move's (`Locked`). A
commit keeps this for every request it does not overtake, and is one step of the
forest. Two facts carry the move: what its snapshot had beneath the node is what is
beneath it now, and ways cut above the node and continued from its new parent are
ways again (`SubtreeMoved`). Where an argument goes along a path it is by the first
place at which it could fail, numbers having a least among them (`LeastOf`), since
no induction theorem of the library can be used.

**Authorization.** The guard compares paths and the properties walk the tree, so the
first fact is the scope tree's: `TreeRows(above, authPath)`, kept by a move as it is there
(`SubtreeMoved`), and with it that a prefix is an ancestor. `AssembledAre` says what
assembled grants are without the minimising: of each key the paths that are least
among those of its bindings, and every binding's path continues one of these
(`KeptContains`: of the prefixes of one path there is a shortest). Hence a key covers
a node exactly if a binding of it is at the node or above (`CoverIs`), now. Of grants
that are not of now the invariant says only whence they come (`Sourced`): every path
in them is one that the node of a binding had once, and its last label is still that
node. That is enough for an answer of "allowed", since a target's present path that
continues it goes through that node (`ConcludeIsRight`), and not for a refusal, which
is why a refusal is promised of grants that are `Current`.

**Roster.** A report is read long after its rows were written, so `Under` says of an
upload under way what its report is going to need: the addresses it holds are those
of rows it has passed, and each row passed is one of them, or has an address that
somebody else has had. `ClaimsFree` is the unique index: an address written and not
committed is nobody's. `Kept`: who came to be is still a member, under this address
or another, and the trail has one record of each. `Apart` is the row lock that two
corrections of one person queue at, without which the second would leave an address
behind with nobody in it.

**Registry.** `ManifestInForce` is about the moment of a commit and what follows. What
makes it inductive is where an upload is going. `Aim(c, m)` is the catalogue that the
document makes of a catalogue; the plan's statements write what is aimed at and
nothing else (`PlanAims`), and every cell that is not yet as aimed at has a statement
(`PlanCovers`), whatever the order of the three plans. `OnCourse` then says of an
upload that nothing has overtaken: it read the catalogue there is, each cell is as it
was or as it is to be, and what is missing is still in its list; so when the list is
empty the catalogue is the one aimed at, uploading the document again does nothing
(`AimIsNoOp`), and such a document is in force (`NoOpMeansInForce`). `MenuChangesBump` is an action property and needs of the same
invariant that a request which does not think it moves the menu has written
permissions only.

**AuditTrail.** *The export* reads in chunks, and rows can turn up in the middle of
what it has read; not in its snapshot, though. `ReadSoFar`: a row of the snapshot that
was not handed out comes after the last one that was, or the cursor's rounding jumped
it (`Jumped`, which is section 5's disagreement and excepted). A short chunk is
therefore the end. *The screen* has a new snapshot at each page, so a row may be
shown twice; that none is missed is `SeenUpTo`: whoever stands at a place that has
been turned over has been seen, and a place only grows, as nothing is deleted. Both
rest on a fact about ranks: if no two rows are at one place, every place below the
number of rows has a row (`RowsInPlace`, by counting), so a page or a chunk is as
long as what is left allows, and a `SetToSortSeq` is not needed to say so.

**Types.** A type invariant says which values a variable may have, and some of that is
worth saying: that no cell of the catalogue has two uncommitted writers, that nobody is
on the staff list under two addresses, that the row of a tenant has one holder, that
whoever queues for a connection is waiting. The six `...Typed` theorems are about the
suites' specifications, so each is proved once for all modules of a run: where one of
them moves the others stutter, and the conjunction of their invariants is kept. A
module's inductive invariant often implies its type as it is (RoleEditing, AuditTrail,
ConsoleShell, AccountSessions). What it leaves out, because nothing rests on it, is
added and carried along: bounds of counters and clocks (`AuthTyped`, `RegKinds`),
the finiteness of what is counted, the one address of each person (`OneAddress`,
which needs of the roster's invariant that an upload has made nobody before it
commits), the ScopeTree's rows where a lost race has left them wrong and
the tree's own invariant promises nothing (`TreeTyped`).

**Only model-checked.** Liveness (`LossesAgeOut`, `WorkEnds`) and `ENABLED`, which are
out of the prover's reach: WF and SF are stated for both, and a proof would have to
show the fair actions enabled. Nor do the theorems say anything of the six runs that
refute a sentence: a counterexample is TLC's to find.


## 5. What the checks show

### Disagreements between the code and what it says of itself

Six have a run whose counterexample is the execution.

1. `grant_enumeration_overlap`. `authz/invalidation.service.ts:58` says the enumeration
   "is *not* a source of races". It is one: a role change enumerates, a binding of
   the role commits and bumps, a request caches that subject's grants under the
   bumped version with the role's *old* permissions, the role change commits and
   bumps only those it had enumerated. The entry is wrong for a TTL.
2. `scope_two_moves`. `scopes/scopes.service.ts:401`: "A node cannot become its own
   ancestor." Two moves, A under B and B under A, are each legal in their own
   snapshot and their UPDATEs touch disjoint rows, so REPEATABLE READ does not
   object; the result is a cycle detached from the root.
3. `login_beside_lock`. Migration 0014, line 291: locking "force-logs-out
   everywhere". A login that has passed the status check in `auth_begin_session`
   inserts its session after the lock has revoked the ones it saw, and
   `auth_rotate_refresh_token` (migration 0013) never looks at the account, so that
   session renews itself until its own expiry.
4. `pool_exhausted`. `auth/auth.service.ts:213` sends the record of a failed login "to
   the pool, where it commits on its own", and a failure is "logged and swallowed".
   The request holds a connection meanwhile. When every connection is held by a
   failed login each waits for another, acquisition has no timeout
   (`libs/db/src/data-source.ts:269`), and no request is ever answered again.
5. `export_drops_rows`. `audit/audit-export.service.ts:26`: "The whole filter, or a
   refusal -- never a silent prefix". The cursor between chunks has been through
   milliseconds, the column keeps microseconds, and the rows later in the same
   millisecond as the last row of a full chunk are in no chunk.
6. `grants_of_another`. `libs/iam-client/src/resolve-cache.ts:106` calls serving one
   user's grants to the next "the one caching bug". `clear()` leaves in-flight loads
   alone, so one begun for a user is joined, cached and shown for the next.

Others were met while modelling and are visible in the models without a run of their
own:

* `account-state.service.ts:95`: lock() accepts any status, unlock() any locked
  account; so disable, lock, unlock brings an offboarded account back, which
  `users/users.service.ts:629` calls one-way. (AccountSessions, `BeginTransition`.)
* A revoked service account still resolves its grants: `resolver.service.ts:163` joins
  on the subject alone, and the first use of an outstanding token refills the cache
  that `service-accounts.service.ts:252` has just dropped, to make the remaining "token
  window carry no grants". (ServiceCredentials,
  `UseToken`; `ExposureBounded` says for how long.)
* `registry/nav.service.ts:300` takes unmapping a permission to hide a leaf at most;
  unmapping the last one from a public leaf shows it to everyone.
* A leaf both public and gated is shown to all when an edit falls between the two
  statements that read the catalogue. (`MenuNeverOpens` excepts it.)
* `deploy/bootstrap.sh:363` says "Nothing was left half-created" where the tenant is
  there and its administrator is not. A `409` for a race on the role is read by the
  installer as "already exists". Run again after its secret was rotated, a finished
  installation stops at the manifests. (Installation.)
* `clients/client-admin.service.ts:262` excludes an outcome that comes about when the
  second request looks for the role after the first has committed.
* `roles/roles.service.ts:364`: deleting a role audits its bindings, "one
  `role_binding.deleted` record each", and a test is named "cascades the bindings and
  audits each one before the rows go" (`roles.integration.spec.ts:763`). A binding
  committed between the read and the DELETE goes with the role and has no record, nor
  is its subject bumped. (GrantInvalidation, `CommitRemove`; the record itself is not
  modelled.)
* `clients/client-applications.service.ts:147` says of the unlocked read in `enable`
  that "the worst outcome is a duplicate `client_application.enabled` record". That is
  so of two enables. Beside a disable that commits in between it turns the application
  back on with no record and no bump, and grants cached empty last for a TTL.
  (GrantInvalidation, `CommitToggle`.)
* `libs/iam-client/src/auth.ts:163` renews on every 401, and `AuthGuard` answers one to a
  live session when it can ask neither Redis nor the database (`libs/auth-kit/src/auth.guard.ts:193`).
  A tab that has just been given a pair and renews it so, while another is still
  waiting with the token before, moves the row two tokens on: that other is
  taken for a thief well inside the grace window, or its late answer puts a replaced
  token into the slot. (TokenSession, `hasty`.)
* `users/bulk-upload.service.ts:17` "Nothing in the upload can make the insert
  error": two uploads with their addresses in opposite order deadlock, and one of
  them is the victim. (Roster, `Deadlocked`.)
* The admin console offers to reactivate a disabled user (`apps/admin-web/src/lib/users.ts:108`),
  which the API refuses.
* `libs/web-kit/src/use-async.ts:32` says that a disabled hook has no data; it keeps
  what it has, and keeps it too when its dependencies change or a load fails. The
  previous user's grants stay shown until the new load lands. (ConsoleShell,
  `Disabled`, `AtRest`.)
* `apps/admin-web/src/app/platform/applications/manifest/page.tsx:136`: "there is
  never a preview belonging to text that is no longer in the box". The box is
  editable while a preview is in flight, and its answer lands all the same; the
  page of the bulk upload (`app/admin/users/bulk/page.tsx:70`) has the same gap.
  (UploadScreen, `crossed`.) Its `asPreviewed` is "False when the catalog moved
  between the preview and the confirm" (`page.tsx:107`), but only if the keys of the
  two differences differ: a key that somebody has changed in between, and that both
  overwrite, is not reported. (`ToldOfMoves`.)
* `components/service-accounts/secret-reveal-modal.tsx:46`, "Guards the close button
  until the operator has said they have it": the answer of a second request takes
  the place of the first secret, unseen, and the window keeps what was said of the
  other. (SecretScreen, `covered`.)
* The deadline of a request in `libs/iam-client` is cleared when the headers
  arrive, so a body that stalls is waited for without end.

### Lost races

The models contain these executions; the properties except them through the history
variables, and dropping the exception makes TLC print the trace.

* A version counter that expires while a fill holds its value restarts from 0,
  and INCR can bring it back to that value (`orphaned`, `navOrphaned`).
* A binding created between a role deletion's read and its DELETE is cascaded away
  and its subject not bumped (`late`, hence `missed`).
* The platform switch of an application, a permission coming back in a manifest, and
  an enable whose read a disable has overtaken, announce nothing (`silent`).
* Redis may lose the count of a window halfway, and begins again at 1 (`forgotten`).
* A tab that renews a token not yet due beside an exchange of an older one (`hasty`).
* A request that began before a binding lapsed and missed after its bump caches the
  lapsed grant for a TTL (`straddled`).
* A node created under a parent that moves in between keeps the old path; two
  requests for the first node make two roots (ScopeTree's `overtaken`).
* A logout in one tab, crossed by an exchange in another, is followed by new
  tokens in the shared store when the logout call did not reach the server
  (`signedOut = "crossed"`).
* Any failure of an exchange, a timeout included, empties the store of a session
  that is alive; `RacingTabsStaySignedIn` is therefore stated with nothing failing.
* A renewal that lands late puts a former session back, under the name of whoever
  signed in since (`mixed`).
* A load in flight across a sign-in or an `invalidate()` fills the cache
  afterwards, and a sign-in in one tab leaves the other tab's cache (`crossed`).
* A login under way when a reset completes gets a session on the old password; two
  reset requests can both leave a live link (AccountSessions' `overtaken`).
* An access token signed after its session's denial was published outlives the
  denial by as much as the signature came late (`late`).
* Two uploads of a manifest, or an upload and an edit, may leave a catalogue neither
  asked for (`regOvertaken`); the same of two replacements of a role, permission by
  permission (`EachAsAsked` says how far).
* Two different administrators created at once may each bring a root node
  (`TwoRootsNeedTwoAdmins`).


## 6. Not modelled, and why

The modules cover the service's stateful core, and about an eighth of the lines of the
repository. Most of the rest is not behaviour that a state machine could add to:

* *Declarations*: entities, contracts and DTOs, OpenAPI documents, environment
  schemas, dependency wiring, the seed data of migrations. Constants that matter are
  parameters of the modules.
* *Views*: the screens, forms and tables of the two consoles, apart from the
  providers, the pager of the audit screen and the two screens named above. They
  render what the API answers.
* *The audit records of grants*: who is recorded to have lost a binding. Where the
  trail can be wrong by an interleaving it is modelled (service accounts, roles'
  permissions, the staff list, the sweep).
* *Single statements*: creation, rename, lists and lookups of clients, roles and
  users. They neither read before they write nor tell anyone.
* *Conversions and wording*: formatting, validation messages, CSV quoting,
  redaction of audit values, mail and its delivery, logging.
* *Tests, end-to-end suites, documents and the build of manuals.*
* *What tenants are kept apart by*: the row-level-security policies are SQL
  predicates over two settings. RequestTransactions models whose settings a
  statement runs under; that a policy then selects the right rows is a property of
  the policy. Elsewhere there is one tenant per model.
* The Redis channel that announces invalidations to other modules: nothing in the
  repository subscribes.
* Unknown e-mails and constant-time behaviour; signatures and hashes, which are taken
  as what they attest.
* A foreign key that refuses the deletion of a scope with bindings; labels, order and
  icons of the menu.


## 7. Plan

1. *Compositions*: ExpirySweep over the whole protocol of GrantsCache in place of the
   two effects it takes from it, and Registry with Navigation, so that
   `MenuChangeBumps` and `MenuFresh` meet in one state space.
2. *Proofs of compositions*: what is proved of GrantsCache (`Freshness`) cited for the
   entry that ExpirySweep's readers fill, in place of `Noticed` and `Aging`.
