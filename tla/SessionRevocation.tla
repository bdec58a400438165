-------------------------- MODULE SessionRevocation --------------------------
(***************************************************************************)
(* What a verifier knows of one session's end.  A revocation commits in    *)
(* the database (apps/iam-api/src/auth/session.service.ts) and is then     *)
(* published as a Redis key with a lifetime (libs/auth-kit/src/            *)
(* revocation-cache.ts); the guard of every module asks for that key, and  *)
(* only when Redis cannot answer asks the database                         *)
(* (libs/auth-kit/src/auth.guard.ts).  Meanwhile refreshes mint access     *)
(* tokens that no one can take back.  Time is counted in ticks.            *)
(***************************************************************************)
EXTENDS Integers

CONSTANTS
    Tokens,         \* access tokens in use at once
    Lifetime,       \* ACCESS_TOKEN_TTL_SECONDS, in ticks
    Leeway,         \* CLOCK_SKEW_LEEWAY_SECONDS, in ticks
    DenylistFails,  \* may Redis go away and come back?
    CacheForgets    \* ... without its keys?

ASSUME TokenLifeAssumption == Lifetime \in Nat \ {0} /\ Leeway \in Nat
ASSUME CacheAssumption == {DenylistFails, CacheForgets} \subseteq BOOLEAN

VARIABLES
    row,        \* the session row, as committed
    revoker,    \* the request that revokes it
    key,        \* what is left of the revoked-sid key
    access,     \* the access tokens: signing or out, for how long accepted, and,
                \* history, whether a publish came before the signature
    cacheUp,    \* Redis answers
    told        \* history: a publish has reached Redis, which has kept it

sessVars == <<row, revoker, key, access, cacheUp, told>>

Accepted == Lifetime + Leeway   \* a verifier accepts a token until exp + leeway
NoAccess == [signing |-> FALSE, left |-> 0, late |-> FALSE]

SessTypeOK ==
    /\ row \in {"live", "revoked"}
    /\ revoker \in {"idle", "updated", "publishing"}
    /\ key \in 0 .. Accepted
    /\ access \in [Tokens -> [signing : BOOLEAN, left : 0 .. Accepted, late : BOOLEAN]]
    /\ cacheUp \in BOOLEAN /\ told \in BOOLEAN

SessInit ==
    /\ row = "live" /\ revoker = "idle" /\ key = 0
    /\ access = [t \in Tokens |-> NoAccess]
    /\ cacheUp = TRUE /\ told = FALSE

-----------------------------------------------------------------------------
(* A login or refresh is decided on the live row; a revocation in progress   *)
(* holds the row's lock.                                                     *)
AdmitRequest(t) ==
    /\ access[t] = NoAccess /\ revoker # "updated"
    /\ row = "live"
    /\ access' = [access EXCEPT ![t].signing = TRUE]
    /\ UNCHANGED <<row, revoker, key, cacheUp, told>>

(* issueAccessToken, from the answer of the database. *)
Sign(t) ==
    /\ access[t].signing
    /\ access' = [access EXCEPT ![t] = [signing |-> FALSE, left |-> Accepted,
                                         late |-> told]]
    /\ UNCHANGED <<row, revoker, key, cacheUp, told>>

-----------------------------------------------------------------------------
(* SessionService.revoke; a retry of one that is already revoked succeeds    *)
(* and publishes again.                                                      *)
BeginRevoke ==
    /\ revoker = "idle"
    /\ revoker' = "updated"
    /\ UNCHANGED <<row, key, access, cacheUp, told>>

CommitRevoke ==
    /\ revoker = "updated"
    /\ row' = "revoked"
    /\ revoker' = "publishing"
    /\ UNCHANGED <<key, access, cacheUp, told>>

RollbackRevoke ==
    /\ revoker = "updated"
    /\ revoker' = "idle"
    /\ UNCHANGED <<row, key, access, cacheUp, told>>

(* Mutant: the key lives as long as a token does, without the leeway. *)
MutPublishDenialNoLeeway ==
    /\ revoker = "publishing" /\ cacheUp
    /\ key' = Lifetime
    /\ told' = TRUE
    /\ revoker' = "idle"
    /\ UNCHANGED <<row, access, cacheUp>>

(* afterCommit: SET with the token's whole accepted life ... *)
PublishDenial ==
    /\ revoker = "publishing" /\ cacheUp
    /\ key' = Accepted
    /\ told' = TRUE
    /\ revoker' = "idle"
    /\ UNCHANGED <<row, access, cacheUp>>

(* ... or an error that is logged. *)
PublishDenialFails ==
    /\ revoker = "publishing" /\ ~cacheUp
    /\ revoker' = "idle"
    /\ UNCHANGED <<row, key, access, cacheUp, told>>

-----------------------------------------------------------------------------
CacheGoes ==
    /\ DenylistFails /\ cacheUp
    /\ cacheUp' = FALSE
    /\ UNCHANGED <<row, revoker, key, access, told>>

CacheReturns ==
    /\ ~cacheUp
    /\ cacheUp' = TRUE
    /\ \/ UNCHANGED <<key, told>>
       \/ CacheForgets /\ key' = 0 /\ told' = FALSE
    /\ UNCHANGED <<row, revoker, access>>

Less(n) == IF n = 0 THEN 0 ELSE n - 1

SessTick ==
    /\ key' = Less(key)
    /\ access' = [t \in Tokens |-> IF access[t].left = 1 THEN NoAccess
                                   ELSE [access[t] EXCEPT !.left = Less(@)]]
    /\ UNCHANGED <<row, revoker, cacheUp, told>>

Revoker == BeginRevoke \/ CommitRevoke \/ RollbackRevoke \/ PublishDenial \/ PublishDenialFails
SessNext ==
    \/ \E t \in Tokens : AdmitRequest(t) \/ Sign(t)
    \/ Revoker \/ CacheGoes \/ CacheReturns \/ SessTick

SessSpec == SessInit /\ [][SessNext]_sessVars

(* Time passes, and a request in progress ends. *)
SessFairness == WF_sessVars(SessTick) /\ \A t \in Tokens : WF_sessVars(Sign(t))

SessFairSpec == SessSpec /\ SessFairness

-----------------------------------------------------------------------------
(* AuthGuard.isRevoked: the key decides while Redis answers, the row when it *)
(* does not.                                                                 *)
Refused == IF cacheUp THEN key > 0 ELSE row = "revoked"

(* "A rollback would leave every verifier in the fleet refusing a session    *)
(* that is still live": no key without a committed revocation.               *)
NeverRefusesLive == key > 0 => row = "revoked"

(* "One access-token lifetime plus the skew leeway ... shorter re-opens the  *)
(* session": once the denial is published, every token signed before is      *)
(* refused for as long as its signature would be accepted, whether Redis     *)
(* answers or not.                                                           *)
DenialOutlivesTokens ==
    told => \A t \in Tokens : access[t].left > 0 /\ ~access[t].late => Refused

(* "Because access tokens are short-lived, the revocation window is          *)
(* bounded": whatever Redis loses, a revoked session ends for good.          *)
SessionEnds == row = "revoked" ~> [](\A t \in Tokens : access[t] = NoAccess)

(* The denial is exact: of no session that is live, and of every token       *)
(* signed before it for as long as that could be used.                       *)
DenialExact == NeverRefusesLive /\ DenialOutlivesTokens
=============================================================================
