---------------------------- MODULE Installation ----------------------------
(***************************************************************************)
(* A first installation: `deploy/bootstrap.sh` run to completion, or killed *)
(* and run again, or run twice at once.  A run migrates the schema under an *)
(* advisory lock (`tools/release-migrate.ts`), starts the API, applies the  *)
(* catalog, creates the organisation and its administrator through the API  *)
(* (`tools/bootstrap-install.mjs`), restarts an API that serves a single    *)
(* organisation so that it finds the one now there, and logs in to prove    *)
(* it.  The administrator's request runs in the API, statement by statement *)
(* (`client-admin.service.ts`), and outlives the run that sent it.          *)
(***************************************************************************)
EXTENDS Integers, FiniteSets

CONSTANTS
    Run,            \* runs of the script, each with a configuration of its own
    Emails,         \* administrators the runs may be configured with
    Nobody,
    Migrations,     \* how many migrations the release holds
    Seed,           \* the one that stores the platform credential
    MaxInstallCrashes      \* bound: kills of a run and of the API, together

ASSUME InstallAssumption ==
    /\ Nobody \notin Run /\ IsFiniteSet(Run)
    /\ Migrations \in Nat \ {0}
    /\ Seed \in 1..Migrations
    /\ MaxInstallCrashes \in Nat

VARIABLES
    mode,           \* DEPLOYMENT_MODE
    email,          \* PLANTOPS_ADMIN_EMAIL in the file of each run
    ledger,         \* migrations recorded as applied
    applied,        \* how often each was applied
    lock,           \* the run that holds the advisory lock
    secret,         \* "none", "file" (the one in .env) or "rotated"
    api,            \* "down", "open" (no organisation resolved) or "pinned"
    catalog,        \* the release's manifests are applied
    org,             \* the organisation's committed rows
    pc, seen,       \* where a run is, and the ledger it works from
    tx,             \* the request for run i's administrator
    disturbed,      \* runs that something outside them interrupted
    installCrashes

config == <<mode, email>>
schema == <<ledger, applied, lock, seen>>
platform == <<secret, catalog, org>>
faults == <<disturbed, installCrashes>>
installVars == <<config, schema, platform, api, pc, tx, faults>>

NoTx == [step |-> "none", root |-> FALSE, role |-> FALSE]
Stages == {"idle", "locking", "migrating", "starting", "catalog", "client",
           "admin", "waiting", "restart", "verify", "done", "dead"}

InstallTypeOK ==
    /\ mode \in {"saas", "single_tenant"}
    /\ email \in [Run -> Emails]
    /\ ledger \in 0..Migrations
    /\ applied \in [1..Migrations -> 0..Cardinality(Run)]
    /\ lock \in Run \union {Nobody}
    /\ secret \in {"none", "file", "rotated"}
    /\ api \in {"down", "open", "pinned"}
    /\ catalog \in BOOLEAN
    /\ org.tenant \in BOOLEAN /\ org.roots \in 0..Cardinality(org.admins)
    /\ org.role \in BOOLEAN /\ org.admins \subseteq Emails
    /\ pc \in [Run -> Stages]
    /\ seen \in [Run -> 0..Migrations]
    /\ \A i \in Run :
          /\ tx[i].step \in {"none", "root", "role", "insert", "user", "commit"}
          /\ tx[i].root \in BOOLEAN /\ tx[i].role \in BOOLEAN
    /\ disturbed \subseteq Run
    /\ installCrashes \in 0..MaxInstallCrashes

InstallInit ==
    /\ mode \in {"saas", "single_tenant"}
    /\ email \in [Run -> Emails]
    /\ ledger = 0 /\ applied = [n \in 1..Migrations |-> 0]
    /\ lock = Nobody /\ secret = "none" /\ api = "down" /\ catalog = FALSE
    /\ org = [tenant |-> FALSE, roots |-> 0, role |-> FALSE, admins |-> {}]
    /\ pc = [i \in Run |-> "idle"] /\ seen = [i \in Run |-> 0]
    /\ tx = [i \in Run |-> NoTx]
    /\ disturbed = {} /\ installCrashes = 0

-----------------------------------------------------------------------------
\* The script and the API's boot.

Goto(i, stage) == pc' = [pc EXCEPT ![i] = stage]

\* The transactions still open when the API stops; their runs get no answer.
InFlight == {i \in Run : tx[i].step # "none"}

\* The API starts: a single-tenant one looks its organisation up, and starts
\* without one only where there is none at all.
Boot(resolves) ==
    /\ api' = IF mode = "single_tenant" /\ resolves THEN "pinned" ELSE "open"
    /\ tx' = [i \in Run |-> NoTx]
    /\ disturbed' = disturbed \union InFlight

\* After an interruption the operator runs the script again.
Start(i) ==
    /\ pc[i] \in {"idle", "dead"}
    /\ Goto(i, "locking")
    /\ disturbed' = disturbed \ {i}
    /\ UNCHANGED <<config, schema, platform, api, tx, installCrashes>>

\* Mutant: the ledger is read without the lock.
MutTakeLock(i) ==
    /\ pc[i] = "locking"
    /\ lock' = i
    /\ seen' = [seen EXCEPT ![i] = ledger]
    /\ Goto(i, "migrating")
    /\ UNCHANGED <<config, platform, faults, ledger, applied, api, tx>>

\* `pg_advisory_lock` blocks; what is outstanding is read once it is held.
TakeLock(i) ==
    /\ pc[i] = "locking"
    /\ lock = Nobody
    /\ lock' = i
    /\ seen' = [seen EXCEPT ![i] = ledger]
    /\ Goto(i, "migrating")
    /\ UNCHANGED <<config, platform, faults, ledger, applied, api, tx>>

\* One migration in a transaction of its own.  The one that seeds the platform
\* account takes the secret of `.env` and leaves an existing account as it is.
ApplyMigration(i) ==
    LET n == seen[i] + 1 IN
    /\ pc[i] = "migrating"
    /\ n <= Migrations
    /\ seen' = [seen EXCEPT ![i] = n]
    /\ applied' = [applied EXCEPT ![n] = @ + 1]
    /\ ledger' = IF n > ledger THEN n ELSE ledger
    /\ secret' = IF n = Seed /\ secret = "none" THEN "file" ELSE secret
    /\ UNCHANGED <<config, faults, lock, api, catalog, org, pc, tx>>

ReleaseLock(i) ==
    /\ pc[i] = "migrating"
    /\ seen[i] = Migrations
    /\ lock' = Nobody
    /\ Goto(i, "starting")
    /\ UNCHANGED <<config, platform, faults, ledger, applied, api, seen, tx>>

\* `docker compose up -d`: starts what is not running.
UpApi(i) ==
    /\ pc[i] = "starting"
    /\ Goto(i, "catalog")
    /\ IF api = "down" THEN Boot(org.tenant)
                       ELSE UNCHANGED <<api, tx, disturbed>>
    /\ UNCHANGED <<config, schema, platform, installCrashes>>

\* The manifests need a platform token: with the secret rotated the run ends.
ApplyManifests(i) ==
    /\ pc[i] = "catalog"
    /\ IF secret = "file"
       THEN catalog' = TRUE /\ Goto(i, "client")
       ELSE UNCHANGED catalog /\ Goto(i, "dead")
    /\ UNCHANGED <<config, schema, faults, secret, api, org, tx>>

\* A 201, or the 409 of a client that is there: found by its slug and adopted.
EnsureClient(i) ==
    /\ pc[i] = "client"
    /\ secret = "file"
    /\ org' = [org EXCEPT !.tenant = TRUE]
    /\ Goto(i, "admin")
    /\ UNCHANGED <<config, schema, faults, secret, api, catalog, tx>>

\* A login is answered unless the deployment has yet to resolve its
\* organisation; it succeeds for an administrator who exists.
LoginWorks(i) ==
    /\ api # "down"
    /\ mode = "single_tenant" => api = "pinned"
    /\ email[i] \in org.admins

AfterProvision == IF mode = "single_tenant" THEN "restart" ELSE "verify"

\* The credential was rotated since the manifests went in: the installation is
\* finished if its administrator can log in.
ProvisionRefused(i) ==
    /\ pc[i] = "client"
    /\ secret # "file"
    /\ Goto(i, IF LoginWorks(i) THEN AfterProvision ELSE "dead")
    /\ UNCHANGED <<config, schema, platform, faults, api, tx>>

RestartApi(i) ==
    /\ pc[i] = "restart"
    /\ Goto(i, "verify")
    /\ Boot(org.tenant)
    /\ UNCHANGED <<config, schema, platform, installCrashes>>

Verify(i) ==
    /\ pc[i] = "verify"
    /\ Goto(i, IF LoginWorks(i) THEN "done" ELSE "dead")
    /\ UNCHANGED <<config, schema, platform, faults, api, tx>>

\* `--rotate-platform-secret`, once some run has reported success.
Rotate ==
    /\ secret = "file"
    /\ \E i \in Run : pc[i] = "done"
    /\ secret' = "rotated"
    /\ UNCHANGED <<config, schema, faults, api, catalog, org, pc, tx>>

-----------------------------------------------------------------------------
\* POST /clients/:id/admins, one transaction of the API.

Step(i, step) == tx' = [tx EXCEPT ![i].step = step]

RequestAdmin(i) ==
    /\ pc[i] = "admin"
    /\ tx[i].step = "none"
    /\ Step(i, "root")
    /\ Goto(i, "waiting")
    /\ UNCHANGED <<config, schema, platform, faults, api>>

\* `rootScopeNode`: the oldest root, or a new one.  Nothing makes roots unique.
RootScopeNode(i) ==
    /\ tx[i].step = "root"
    /\ tx' = [tx EXCEPT ![i].step = "role", ![i].root = org.roots = 0]
    /\ UNCHANGED <<config, schema, platform, faults, api, pc>>

\* `adminRole`: an existing role is adopted, and one is inserted otherwise.
AdminRole(i) ==
    /\ tx[i].step = "role"
    /\ Step(i, IF org.role THEN "user" ELSE "insert")
    /\ UNCHANGED <<config, schema, platform, faults, api, pc>>

\* A 409, whichever unique index it comes from, reads as "already exists".
Conflict(i) ==
    /\ tx' = [tx EXCEPT ![i] = NoTx]
    /\ pc' = [pc EXCEPT ![i] = IF @ = "waiting" THEN AfterProvision ELSE @]

\* The insert waits for another transaction's uncommitted role.
InsertRole(i) ==
    /\ tx[i].step = "insert"
    /\ \A j \in Run : ~tx[j].role
    /\ IF org.role
       THEN /\ Conflict(i)
            /\ disturbed' = disturbed \union {i}
       ELSE /\ tx' = [tx EXCEPT ![i].step = "user", ![i].role = TRUE]
            /\ UNCHANGED <<pc, disturbed>>
    /\ UNCHANGED <<config, schema, platform, api, installCrashes>>

\* The email is unique in the client; the insert waits for an uncommitted one.
InsertUser(i) ==
    /\ tx[i].step = "user"
    /\ \A j \in Run \ {i} : tx[j].step = "commit" => email[j] # email[i]
    /\ IF email[i] \in org.admins
       THEN Conflict(i)
       ELSE Step(i, "commit") /\ UNCHANGED pc
    /\ UNCHANGED <<config, schema, platform, faults, api>>

CommitAdmin(i) ==
    /\ tx[i].step = "commit"
    /\ org' = [org EXCEPT !.roots = IF tx[i].root THEN @ + 1 ELSE @,
                          !.role = TRUE,
                          !.admins = @ \union {email[i]}]
    /\ tx' = [tx EXCEPT ![i] = NoTx]
    /\ pc' = [pc EXCEPT ![i] = IF @ = "waiting" THEN AfterProvision ELSE @]
    /\ UNCHANGED <<config, schema, faults, secret, api, catalog>>

\* The transaction is gone and the run got no answer.
NoAnswer(i) ==
    /\ pc[i] = "waiting"
    /\ tx[i].step = "none"
    /\ Goto(i, "dead")
    /\ UNCHANGED <<config, schema, platform, faults, api, tx>>

-----------------------------------------------------------------------------
\* Failures.

\* Mutant: a lock that is not tied to the session that took it.
MutKill(i) ==
    /\ installCrashes < MaxInstallCrashes
    /\ pc[i] \notin {"idle", "done", "dead"}
    /\ installCrashes' = installCrashes + 1
    /\ Goto(i, "dead")
    /\ disturbed' = disturbed \union {i}
    /\ UNCHANGED <<config, schema, platform, api, tx>>

\* A run is killed: its session's lock goes with it, its request does not.
Kill(i) ==
    /\ installCrashes < MaxInstallCrashes
    /\ pc[i] \notin {"idle", "done", "dead"}
    /\ installCrashes' = installCrashes + 1
    /\ Goto(i, "dead")
    /\ disturbed' = disturbed \union {i}
    /\ lock' = IF lock = i THEN Nobody ELSE lock
    /\ UNCHANGED <<config, platform, ledger, applied, api, seen, tx>>

\* The API dies and the container's restart policy brings it back.
ApiDies ==
    /\ installCrashes < MaxInstallCrashes
    /\ api # "down"
    /\ installCrashes' = installCrashes + 1
    /\ Boot(org.tenant)
    /\ UNCHANGED <<config, schema, platform, pc>>

Script(i) ==
    \/ TakeLock(i) \/ ApplyMigration(i) \/ ReleaseLock(i) \/ UpApi(i)
    \/ ApplyManifests(i) \/ EnsureClient(i) \/ ProvisionRefused(i)
    \/ RequestAdmin(i) \/ NoAnswer(i) \/ RestartApi(i) \/ Verify(i)

AdminRequest(i) ==
    \/ RootScopeNode(i) \/ AdminRole(i) \/ InsertRole(i) \/ InsertUser(i)
    \/ CommitAdmin(i)

InstallNext ==
    \/ \E i \in Run : Start(i) \/ Script(i) \/ AdminRequest(i) \/ Kill(i)
    \/ Rotate \/ ApiDies

\* A process that runs takes its next step, and an operator whose run failed
\* "runs this script again"; nobody has to rotate anything.
InstallFairness ==
    \A i \in Run :
        /\ WF_installVars(pc[i] = "dead" /\ Start(i))
        /\ WF_installVars(Script(i) /\ pc[i] # "locking")
        /\ SF_installVars(TakeLock(i))
        /\ WF_installVars(AdminRequest(i))

InstallSpec == InstallInit /\ [][InstallNext]_installVars /\ InstallFairness

-----------------------------------------------------------------------------
\* However runs overlap and wherever they are killed, no migration is applied
\* twice: the ledger is read under the lock, which no two sessions hold.
EachMigrationOnce == \A n \in 1..Migrations : applied[n] <= 1

\* A run fails only for a cause outside it: it was killed, the API went away
\* under its request, another run's first administrator won the race for the
\* role, or the credential in its file has been retired.
FailsForCause ==
    \A i \in Run : pc[i] = "dead" => i \in disturbed \/ secret = "rotated"

\* "Installation complete" is said of an installation that works: the catalog
\* is there, and the administrator in the file can log in - and could after any
\* later restart.
CompleteMeansUsable ==
    \A i \in Run : pc[i] = "done" => catalog /\ LoginWorks(i)

\* An organisation has a second root only where two different administrators
\* were being created at once: running the installer twice never makes one.
TwoRootsNeedTwoAdmins == org.roots > 1 => Cardinality(org.admins) > 1

\* The runs that were started are finished by running them again, however often
\* they or the API are killed on the way, unless the credential is retired first.
InstallCompletes ==
    []<>(secret = "rotated" \/ \A i \in Run : pc[i] \in {"idle", "done"})

\* Runs that overlap, die and are repeated leave one installation, which works
\* when they say so, and a run that gives up has a reason.
InstallSound ==
    /\ EachMigrationOnce /\ FailsForCause
    /\ CompleteMeansUsable /\ TwoRootsNeedTwoAdmins
=============================================================================
