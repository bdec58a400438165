-------------------------- MODULE ServiceCredentials --------------------------
(***************************************************************************)
(* One service account and its tenant: rotation of its secret, revocation  *)
(* and reactivation (apps/iam-api/src/service-accounts/                    *)
(* service-accounts.service.ts), suspension of the tenant                  *)
(* (clients/clients.service.ts), and the exchange of the secret for a      *)
(* token that no session row stands behind (auth/service-token.service.ts, *)
(* libs/db/src/migrations/0015-service-account-auth.ts).                   *)
(*                                                                         *)
(* Secrets are numbered as they are minted.  An administrative request     *)
(* holds the row it has updated until it commits; the tenant's is read     *)
(* before it is updated.                                                   *)
(***************************************************************************)
EXTENDS Integers

CONSTANTS
    Admin,          \* administrative requests in progress at once
    Exchange,       \* exchanges in progress at once
    ServiceTtl,     \* SERVICE_TOKEN_TTL_SECONDS plus the verifiers' leeway, in ticks
    MaxExchange,    \* bound: ticks from an exchange's lookup to its signature
    MaxSecrets      \* bound: secrets minted after the first

ASSUME CredentialsAssumption ==
    ServiceTtl \in Nat \ {0} /\ MaxExchange \in Nat /\ MaxSecrets \in Nat

VARIABLES
    account,    \* the service_account row: status and secret
    tenant,     \* client.status
    change,     \* the administrative requests
    issued,     \* secrets minted so far
    trail,      \* the last status each of the two has in the audit trail
    repeated,   \* history: the account's trail repeats a status
    exchange,   \* the exchanges
    bearer,     \* tokens out: for how long still, by the secret they were bought with
    dead,       \* history: for how long each secret has been good for nothing
    grantsKept  \* the account's grants are cached

adminVars == <<account, tenant, change, issued, trail, repeated>>
credVars == <<adminVars, exchange, bearer, dead, grantsKept>>

Secret == 0 .. MaxSecrets
ExposureWindow == ServiceTtl + MaxExchange
AccountStatus == {"active", "revoked"}
TenantStatus == {"active", "suspended"}
NoChange == [kind |-> "none"]
NoExchangeYet == [pc |-> "none"]

Holds(a, kinds) == change[a].kind \in kinds /\ change[a].pc = "locked"

CredTypeOK ==
    /\ account \in [status : AccountStatus, secret : Secret]
    /\ tenant \in TenantStatus
    /\ change \in [Admin -> {NoChange} \cup
            [kind : {"status", "tenant"}, pc : {"read", "locked", "committed"},
             to : AccountStatus \cup TenantStatus, seen : AccountStatus \cup TenantStatus] \cup
            [kind : {"rotate"}, pc : {"locked"}, to : Secret]]
    /\ \A a, b \in Admin :        \* a locked row has one holder
          Holds(a, {"tenant"}) /\ Holds(b, {"tenant"}) => a = b
    /\ issued \in Secret
    /\ trail \in [account : AccountStatus, tenant : TenantStatus]
    /\ repeated \in BOOLEAN
    /\ exchange \in [Exchange -> {NoExchangeYet} \cup
            [pc : {"signing"}, secret : Secret, stay : 0 .. MaxExchange]]
    /\ bearer \in [Secret -> 0 .. ServiceTtl]
    /\ dead \in [Secret -> 0 .. ExposureWindow]
    /\ grantsKept \in BOOLEAN

CredInit ==
    /\ account = [status |-> "active", secret |-> 0]
    /\ tenant = "active"
    /\ change = [a \in Admin |-> NoChange]
    /\ issued = 0
    /\ trail = [account |-> "active", tenant |-> "active"]
    /\ repeated = FALSE
    /\ exchange = [x \in Exchange |-> NoExchangeYet]
    /\ bearer = [s \in Secret |-> 0]
    /\ dead = [s \in Secret |-> 0]
    /\ grantsKept = FALSE

-----------------------------------------------------------------------------
AccountLocked == \E a \in Admin : Holds(a, {"status", "rotate"})
TenantLocked == \E a \in Admin : Holds(a, {"tenant"})
Kept == <<exchange, bearer, grantsKept>>
Elsewhere == <<Kept, dead>>

(* classify(), over the rows as one statement read them. *)
ExchangeFailure(s) ==
    IF tenant # "active" THEN "client_suspended"
    ELSE IF account.secret # s THEN "bad_secret"
    ELSE IF account.status # "active" THEN "account_revoked"
    ELSE "none"

(* A secret that a step makes good starts anew. *)
Revive == dead' = [s \in Secret |-> IF ExchangeFailure(s)' = "none" THEN 0 ELSE dead[s]]

(* Mutant: the update does not ask for a different status. *)
MutBeginStatusAnyway(a, to) ==
    /\ change[a] = NoChange /\ ~AccountLocked
    /\ change' = [change EXCEPT ![a] =
                     [kind |-> "status", pc |-> "locked", to |-> to, seen |-> account.status]]
    /\ UNCHANGED <<account, tenant, issued, trail, repeated, Elsewhere>>

(* setStatus: one UPDATE with its own test, which waits for the row and sees *)
(* what it finds there; setting the status it has already is no change.      *)
BeginStatus(a, to) ==
    /\ change[a] = NoChange /\ ~AccountLocked
    /\ account.status # to
    /\ change' = [change EXCEPT ![a] =
                     [kind |-> "status", pc |-> "locked", to |-> to, seen |-> account.status]]
    /\ UNCHANGED <<account, tenant, issued, trail, repeated, Elsewhere>>

(* Its audit record commits with it; a revocation has a bump to publish.     *)
CommitStatus(a) ==
    /\ Holds(a, {"status"})
    /\ account' = [account EXCEPT !.status = change[a].to]
    /\ trail' = [trail EXCEPT !.account = change[a].to]
    /\ repeated' = (repeated \/ trail.account = change[a].to)
    /\ change' = [change EXCEPT ![a] = IF change[a].to = "revoked"
                                       THEN [@ EXCEPT !.pc = "committed"] ELSE NoChange]
    /\ UNCHANGED <<tenant, issued, Kept>>
    /\ Revive

(* The bump drops the cached grants, or is lost. *)
PublishRevocation(a) ==
    /\ change[a].kind = "status" /\ change[a].pc = "committed"
    /\ grantsKept' \in {FALSE, grantsKept}
    /\ change' = [change EXCEPT ![a] = NoChange]
    /\ UNCHANGED <<account, tenant, issued, trail, repeated, exchange, bearer, dead>>

(* rotate: a new hash over the old one, whatever the account's status. *)
BeginRotate(a) ==
    /\ change[a] = NoChange /\ ~AccountLocked
    /\ issued < MaxSecrets
    /\ issued' = issued + 1
    /\ change' = [change EXCEPT ![a] = [kind |-> "rotate", pc |-> "locked", to |-> issued + 1]]
    /\ UNCHANGED <<account, tenant, trail, repeated, Elsewhere>>

CommitRotate(a) ==
    /\ Holds(a, {"rotate"})
    /\ account' = [account EXCEPT !.secret = change[a].to]
    /\ change' = [change EXCEPT ![a] = NoChange]
    /\ UNCHANGED <<tenant, issued, trail, repeated, Kept>>
    /\ Revive

(* ClientsService.update reads the tenant ... *)
ReadTenant(a, to) ==
    /\ change[a] = NoChange
    /\ change' = [change EXCEPT ![a] =
                     [kind |-> "tenant", pc |-> "read", to |-> to, seen |-> tenant]]
    /\ UNCHANGED <<account, tenant, issued, trail, repeated, Elsewhere>>

(* ... and writes only what differs from what it read. *)
UpdateTenant(a) ==
    /\ change[a].kind = "tenant" /\ change[a].pc = "read"
    /\ IF change[a].to = change[a].seen
       THEN change' = [change EXCEPT ![a] = NoChange]
       ELSE /\ ~TenantLocked
            /\ change' = [change EXCEPT ![a].pc = "locked"]
    /\ UNCHANGED <<account, tenant, issued, trail, repeated, Elsewhere>>

(* client.suspended for a suspension, client.updated naming the status for   *)
(* its end.                                                                  *)
CommitTenant(a) ==
    /\ Holds(a, {"tenant"})
    /\ tenant' = change[a].to
    /\ trail' = [trail EXCEPT !.tenant = IF change[a].seen = "active" /\ change[a].to = "suspended"
                                         THEN "suspended" ELSE "active"]
    /\ change' = [change EXCEPT ![a] = NoChange]
    /\ UNCHANGED <<account, issued, repeated, Kept>>
    /\ Revive

RollbackChange(a) ==
    /\ Holds(a, {"status", "rotate", "tenant"})
    /\ change' = [change EXCEPT ![a] = NoChange]
    /\ UNCHANGED <<account, tenant, issued, trail, repeated, Elsewhere>>

-----------------------------------------------------------------------------
(* POST /auth/token with a secret that was returned once: looked up and      *)
(* found good.  A refused exchange changes nothing but the audit trail.      *)
LookUpAccount(x, s) ==
    /\ exchange[x] = NoExchangeYet
    /\ s <= issued
    /\ ExchangeFailure(s) = "none"
    /\ exchange' = [exchange EXCEPT ![x] = [pc |-> "signing", secret |-> s, stay |-> 0]]
    /\ UNCHANGED <<adminVars, bearer, dead, grantsKept>>

(* ... and signed for after the verification of the hash, whatever has       *)
(* become of the account meanwhile.                                          *)
IssueToken(x) ==
    /\ exchange[x] # NoExchangeYet
    /\ bearer' = [bearer EXCEPT ![exchange[x].secret] = ServiceTtl]
    /\ exchange' = [exchange EXCEPT ![x] = NoExchangeYet]
    /\ UNCHANGED <<adminVars, dead, grantsKept>>

(* Mutant: tokens are renewed by using them. *)
MutUseTokenRenews(s) ==
    /\ bearer[s] > 0
    /\ bearer' = [bearer EXCEPT ![s] = ServiceTtl]
    /\ grantsKept' = TRUE
    /\ UNCHANGED <<adminVars, exchange, dead>>

(* A request under a token: resolve() joins the account's bindings and does  *)
(* not look at its status, so what the cache has dropped comes back.         *)
UseToken(s) ==
    /\ bearer[s] > 0
    /\ grantsKept' = TRUE
    /\ UNCHANGED <<adminVars, exchange, bearer, dead>>

CredTick ==
    /\ \A x \in Exchange : exchange[x] # NoExchangeYet => exchange[x].stay < MaxExchange
    /\ exchange' = [x \in Exchange |-> IF exchange[x] = NoExchangeYet THEN NoExchangeYet
                                       ELSE [exchange[x] EXCEPT !.stay = @ + 1]]
    /\ bearer' = [s \in Secret |-> IF bearer[s] = 0 THEN 0 ELSE bearer[s] - 1]
    /\ dead' = [s \in Secret |-> IF ExchangeFailure(s) = "none" THEN 0
                                 ELSE IF dead[s] < ExposureWindow THEN dead[s] + 1 ELSE dead[s]]
    /\ UNCHANGED <<adminVars, grantsKept>>

-----------------------------------------------------------------------------
CredNext ==
    \/ \E a \in Admin :
          \/ \E to \in AccountStatus : BeginStatus(a, to)
          \/ \E to \in TenantStatus : ReadTenant(a, to)
          \/ CommitStatus(a) \/ PublishRevocation(a) \/ BeginRotate(a) \/ CommitRotate(a)
          \/ UpdateTenant(a) \/ CommitTenant(a) \/ RollbackChange(a)
    \/ \E s \in Secret : UseToken(s) \/ \E x \in Exchange : LookUpAccount(x, s)
    \/ \E x \in Exchange : IssueToken(x)
    \/ CredTick

CredSpec == CredInit /\ [][CredNext]_credVars

-----------------------------------------------------------------------------
(* "The exposure window is bounded by the TTL, and it is bounded whether the *)
(* revocation was noticed or not": a secret that has been rotated away,      *)
(* revoked or suspended for that long has no token left, the ones bought in  *)
(* mid-change included.                                                      *)
ExposureBounded == \A s \in Secret : dead[s] = ExposureWindow => bearer[s] = 0

(* What the trail says last of the account, and of its tenant, is what they  *)
(* are, however requests overlap and roll back, and it never says the same   *)
(* twice: "an audit trail that logs 'revoked' three times because a screen   *)
(* was double-clicked is one nobody can read".                               *)
TrailIsTrue == trail.account = account.status /\ trail.tenant = tenant /\ ~repeated

=============================================================================
