-------------------------- MODULE RequestTransactions --------------------------
(***************************************************************************)
(* How a request reaches Postgres: the pool of connections                 *)
(* (libs/db/src/data-source.ts), the guard's short transaction             *)
(* (apps/iam-api/src/authz/grants-source.ts) and the denial's              *)
(* (audit/audit.service.ts), the transaction the interceptor opens for the *)
(* handler and retries (common/tenant-context.interceptor.ts), the tenant  *)
(* context every one of them begins with, and the visit to another tenant  *)
(* (libs/db/src/rls-context.ts) -- the settings live in the connection,    *)
(* which other requests use next.                                          *)
(*                                                                         *)
(* Handlers of public routes get a transaction without a context, and      *)
(* those of login, refresh, token exchange and password reset run their    *)
(* one statement on a second connection while they hold the first.         *)
(***************************************************************************)
EXTENDS Naturals, Sequences

CONSTANTS
    Conn,           \* APP_POOL_SIZE connections
    Request,        \* requests in progress at once
    Nesting,        \* ... those of the public routes that use a second connection
    Tenant,         \* ordinary tenants
    Platform,       \* the tenant with slug "platform"
    MaxRetries      \* @Transactional retries

ASSUME PoolAssumption ==
    /\ Nesting \subseteq Request
    /\ Platform \notin Tenant
    /\ MaxRetries \in Nat

VARIABLES
    conn,       \* each connection: its transaction and its three settings, as two
    queue,      \* the pool's pending requests, first come first served
    req,        \* the requests
    strayed     \* history: a statement ran under settings that are not its caller's

txVars == <<conn, queue, req, strayed>>

Anyone == Tenant \cup {Platform}
Unset == [client |-> {}, platform |-> FALSE]
Idle == [txn |-> "none", set |-> Unset]
Gone == [pc |-> "gone"]

(* Where a request stands; those of Waits are in the queue. *)
Waits == {"guardWaits", "denyWaits", "waits", "nestWaits"}
Stands == Waits \cup {"deciding", "decided", "guarding", "denying", "opened", "handling",
                      "visiting", "nesting", "committed", "answered"}
Attempt == 1 .. MaxRetries + 1

TxTypeOK ==
    /\ conn \in [Conn -> [txn : {"none", "open", "aborted"},
                          set : [client : SUBSET Anyone, platform : BOOLEAN]]]
    /\ queue \in Seq(Request)
    /\ \A i \in 1 .. Len(queue) : req[queue[i]].pc \in Waits
    /\ req \in [Request -> {Gone} \cup
                   [pc : Stands, cid : SUBSET Anyone, own : SUBSET Conn, extra : SUBSET Conn,
                    target : SUBSET Tenant, previous : SUBSET Anyone, nested : BOOLEAN,
                    attempt : Attempt, deferred : SUBSET Attempt, told : SUBSET Attempt,
                    stands : SUBSET Attempt]]
    /\ strayed \in BOOLEAN

TxInit ==
    /\ conn = [c \in Conn |-> Idle]
    /\ queue = <<>>
    /\ req = [r \in Request |-> Gone]
    /\ strayed = FALSE

-----------------------------------------------------------------------------
(* The pool. *)
The(S) == CHOOSE x \in S : TRUE
At(r, pcs) == req[r] # Gone /\ req[r].pc \in pcs
Own(r) == The(req[r].own)
Taken(c) == conn[c].txn # "none" \/ \E r \in Request : req[r] # Gone /\ c \in req[r].own \cup req[r].extra

AskPool(r) == queue' = Append(queue, r)

(* Mutant: the settings are made for the session. *)
MutEnded(c) == [Idle EXCEPT !.set = conn[c].set]

(* A transaction that ends, either way, takes its local settings with it.    *)
Ended(c) == Idle

(* applyRlsContext: the tenant, then the flag the database derives from the  *)
(* bindings of the platform tenant that the policy shows, then the flag set. *)
(* Only subjects of that tenant are bound there.                             *)
ContextOf(set, cid) ==
    LET named == [set EXCEPT !.client = cid] IN
    [named EXCEPT !.platform = (named.platform \/ named.client = {Platform}) /\ cid = {Platform}]

(* Whose rows a statement of r may touch now. *)
Entitled(r) ==
    [client |-> IF req[r].pc = "visiting" THEN req[r].target ELSE req[r].cid,
     platform |-> req[r].cid = {Platform}]

-----------------------------------------------------------------------------
(* A request arrives, with verified claims or, on a public route, none. *)
Arrive(r, cid) ==
    /\ req[r] = Gone
    /\ (r \in Nesting) = (cid = {})
    /\ req' = [req EXCEPT ![r] =
                  [pc |-> IF cid = {} THEN "waits" ELSE "deciding", cid |-> cid, own |-> {},
                   extra |-> {}, target |-> {}, previous |-> {}, nested |-> FALSE, attempt |-> 1,
                   deferred |-> {}, told |-> {}, stands |-> {}]]
    /\ IF cid = {} THEN AskPool(r) ELSE UNCHANGED queue
    /\ UNCHANGED <<conn, strayed>>

(* PermissionGuard: with the grants of the cache, or after a transaction of  *)
(* its own, the request goes on or is denied, and the denial recorded in     *)
(* another.                                                                  *)
Decide(r) ==
    /\ At(r, {"deciding", "decided"})
    /\ \E pc \in {"guardWaits", "denyWaits", "waits"} :
          /\ pc = "guardWaits" => req[r].pc = "deciding"
          /\ req' = [req EXCEPT ![r].pc = pc]
    /\ AskPool(r)
    /\ UNCHANGED <<conn, strayed>>

(* The pool serves its pending requests in order; the first statement on a   *)
(* connection is BEGIN, but for the one that commits by itself.              *)
Connect(r, c) ==
    /\ queue # <<>> /\ r = Head(queue) /\ ~Taken(c)
    /\ queue' = Tail(queue)
    /\ IF req[r].pc = "nestWaits"
       THEN /\ req' = [req EXCEPT ![r].pc = "nesting", ![r].extra = {c}]
            /\ UNCHANGED conn
       ELSE /\ req' = [req EXCEPT ![r].own = {c},
                          ![r].pc = CASE @ = "guardWaits" -> "guarding"
                                      [] @ = "denyWaits" -> "denying"
                                      [] @ = "waits" -> "opened"]
            /\ conn' = [conn EXCEPT ![c].txn = "open"]
    /\ UNCHANGED strayed

(* The guard's transaction and the denial's: context, statement, COMMIT -- or *)
(* an error and ROLLBACK -- and release.                                     *)
GuardTransaction(r) ==
    /\ At(r, {"guarding", "denying"})
    /\ strayed' = (strayed \/ ContextOf(conn[Own(r)].set, req[r].cid) # Entitled(r))
    /\ conn' = [conn EXCEPT ![Own(r)] = Ended(Own(r))]
    /\ \E pc \in {"decided", "answered"} :
          /\ pc = "decided" => req[r].pc = "guarding"
          /\ req' = [req EXCEPT ![r].own = {}, ![r].pc = pc]
    /\ UNCHANGED queue

(* The interceptor applies the context, if there are claims. *)
Open(r) ==
    /\ At(r, {"opened"}) /\ conn[Own(r)].txn = "open"
    /\ conn' = [conn EXCEPT ![Own(r)].set = IF req[r].cid = {} THEN @ ELSE ContextOf(@, req[r].cid)]
    /\ req' = [req EXCEPT ![r].pc = "handling"]
    /\ UNCHANGED <<queue, strayed>>

(* A statement of the handler, on the ambient manager: a read, or a write    *)
(* with something to publish after the commit.                               *)
Statement(r) ==
    /\ At(r, {"handling", "visiting"}) /\ conn[Own(r)].txn = "open"
    /\ strayed' = (strayed \/ conn[Own(r)].set # Entitled(r))
    /\ \/ UNCHANGED req
       \/ req' = [req EXCEPT ![r].deferred = @ \cup {req[r].attempt}]
    /\ UNCHANGED <<conn, queue>>

(* withProvisioningTenant, entered by a platform administrator, once in a    *)
(* request ...                                                               *)
Visit(r, t) ==
    /\ At(r, {"handling"}) /\ conn[Own(r)].txn = "open"
    /\ conn[Own(r)].set.platform /\ req[r].target = {}
    /\ req' = [req EXCEPT ![r].pc = "visiting", ![r].target = {t},
                          ![r].previous = conn[Own(r)].set.client]
    /\ conn' = [conn EXCEPT ![Own(r)].set.client = {t}]
    /\ UNCHANGED <<queue, strayed>>

(* ... and left with the previous tenant restored. *)
Leave(r) ==
    /\ At(r, {"visiting"}) /\ conn[Own(r)].txn = "open"
    /\ conn' = [conn EXCEPT ![Own(r)].set.client = req[r].previous]
    /\ req' = [req EXCEPT ![r].pc = "handling"]
    /\ UNCHANGED <<queue, strayed>>

(* A statement fails: the transaction refuses every further one, the         *)
(* restoring of a visit included, and the handler throws.                    *)
StatementFails(r) ==
    /\ At(r, {"opened", "handling", "visiting"}) /\ conn[Own(r)].txn = "open"
    /\ conn' = [conn EXCEPT ![Own(r)].txn = "aborted"]
    /\ UNCHANGED <<queue, req, strayed>>

(* The handlers of Nesting: their statement wants a connection of its own,   *)
(* and commits by itself, whatever the request comes to.                     *)
NestStatement(r) ==
    /\ At(r, {"handling"}) /\ r \in Nesting /\ ~req[r].nested /\ conn[Own(r)].txn = "open"
    /\ req' = [req EXCEPT ![r].pc = "nestWaits", ![r].nested = TRUE]
    /\ AskPool(r)
    /\ UNCHANGED <<conn, strayed>>

NestDone(r) ==
    /\ At(r, {"nesting"})
    /\ strayed' = (strayed \/ conn[The(req[r].extra)].set # Unset)
    /\ req' = [req EXCEPT ![r].pc = "handling", ![r].extra = {}]
    /\ UNCHANGED <<conn, queue>>

-----------------------------------------------------------------------------
(* The handler returns and the transaction commits ... *)
CommitRequest(r) ==
    /\ At(r, {"handling"}) /\ conn[Own(r)].txn = "open"
    /\ conn' = [conn EXCEPT ![Own(r)] = Ended(Own(r))]
    /\ req' = [req EXCEPT ![r].pc = "committed", ![r].stands = {req[r].attempt}]
    /\ UNCHANGED <<queue, strayed>>

(* ... the deferred callbacks run, each failure logged, and only then is the *)
(* connection given back.                                                    *)
RunAfterCommit(r) ==
    /\ At(r, {"committed"})
    /\ req' = [req EXCEPT ![r].pc = "answered", ![r].told = req[r].deferred, ![r].own = {}]
    /\ UNCHANGED <<conn, queue, strayed>>

(* The handler throws, on its own account or because a statement failed:     *)
(* ROLLBACK, release, and no callback.                                       *)
Rollback(r) ==
    /\ At(r, {"opened", "handling", "visiting"})
    /\ conn' = [conn EXCEPT ![Own(r)] = Ended(Own(r))]
    /\ req' = [req EXCEPT ![r].pc = "answered", ![r].own = {}, ![r].deferred = {}]
    /\ UNCHANGED <<queue, strayed>>

(* Mutant: the next attempt inherits what the last one deferred. *)
MutRetryKeepsScope(r) ==
    /\ At(r, {"opened", "handling", "visiting"}) /\ conn[Own(r)].txn = "aborted"
    /\ r \notin Nesting /\ req[r].attempt <= MaxRetries
    /\ conn' = [conn EXCEPT ![Own(r)] = Ended(Own(r))]
    /\ req' = [req EXCEPT ![r].pc = "waits", ![r].own = {}, ![r].attempt = @ + 1,
                          ![r].target = {}, ![r].previous = {}]
    /\ AskPool(r)
    /\ UNCHANGED strayed

(* Mutant: the attempts are not counted. *)
MutRetryForever(r) ==
    /\ At(r, {"opened", "handling", "visiting"}) /\ conn[Own(r)].txn = "aborted"
    /\ r \notin Nesting
    /\ conn' = [conn EXCEPT ![Own(r)] = Ended(Own(r))]
    /\ req' = [req EXCEPT ![r].pc = "waits", ![r].own = {}, ![r].attempt = @ + 1,
                          ![r].target = {}, ![r].previous = {}, ![r].deferred = {}]
    /\ AskPool(r)
    /\ UNCHANGED strayed

(* A serialization failure starts the handler over, on another connection    *)
(* and with a scope of its own, where the route asks for it.                 *)
Retry(r) ==
    /\ At(r, {"opened", "handling", "visiting"}) /\ conn[Own(r)].txn = "aborted"
    /\ r \notin Nesting /\ req[r].attempt <= MaxRetries
    /\ conn' = [conn EXCEPT ![Own(r)] = Ended(Own(r))]
    /\ req' = [req EXCEPT ![r].pc = "waits", ![r].own = {}, ![r].attempt = @ + 1,
                          ![r].target = {}, ![r].previous = {}, ![r].deferred = {}]
    /\ AskPool(r)
    /\ UNCHANGED strayed

(* The answer is out; a guard may also refuse with nothing to record. *)
AnswerRequest(r) ==
    /\ At(r, {"answered", "deciding", "decided"})
    /\ req' = [req EXCEPT ![r] = Gone]
    /\ UNCHANGED <<conn, queue, strayed>>

-----------------------------------------------------------------------------
Proceed(r) ==
    \/ Decide(r) \/ GuardTransaction(r) \/ Open(r) \/ Statement(r) \/ Leave(r)
    \/ \E t \in Tenant : Visit(r, t)
    \/ NestStatement(r) \/ NestDone(r) \/ CommitRequest(r) \/ RunAfterCommit(r)
    \/ Rollback(r) \/ Retry(r) \/ AnswerRequest(r)

TxNext ==
    \E r \in Request :
        \/ Arrive(r, {}) \/ \E t \in Anyone : Arrive(r, {t})
        \/ \E c \in Conn : Connect(r, c)
        \/ Proceed(r) \/ StatementFails(r)

(* The server answers every statement, the pool serves whoever is first, and *)
(* a handler takes its next step; there is no time limit on any of them.     *)
TxFairness ==
    \A r \in Request : /\ WF_txVars(Proceed(r))
                       /\ WF_txVars(\E c \in Conn : Connect(r, c))

TxSpec == TxInit /\ [][TxNext]_txVars /\ TxFairness

-----------------------------------------------------------------------------
(* "Because they are transaction-local, they cannot leak between pooled      *)
(* connections" and "the audit write for the next operation in that          *)
(* transaction must not be stamped with the tenant this call was visiting":  *)
(* no statement runs under another tenant or another authority than its own  *)
(* request's, through refusals, errors, retries and visits.                  *)
NeverStrays == ~strayed

(* "The failed attempt's callbacks are discarded with its scope and never    *)
(* run": what is told to the world outside is what has been committed.       *)
CallbacksOfCommitted == \A r \in Request : req[r] # Gone => req[r].told \subseteq req[r].stands

(* Every request is answered -- as long as fewer requests than connections   *)
(* use two at once.                                                          *)
EveryRequestEnds == \A r \in Request : req[r] # Gone ~> req[r] = Gone
=============================================================================
