----------------------------- MODULE KeyRotation -----------------------------
(***************************************************************************)
(* Rotation of the keys that sign access tokens: the operator's publish,   *)
(* activate and retire steps (libs/config/src/key-rotation.ts, driven by   *)
(* tools/rotate-keys.ts), the IAM instances that read the key environment  *)
(* once, at boot (apps/iam-api/src/auth/keys.service.ts), and a module's   *)
(* verifier that caches the JWKS (libs/auth-kit/src/jwks-verifier.ts).     *)
(*                                                                         *)
(* One token is watched, issued at any moment by any instance; calls may   *)
(* also bring tokens whose kid nobody ever published.  Every step is       *)
(* deployed instance by instance, MaxDeploy ticks at most after the        *)
(* operator ran it and noted the time.  Instants are kept as the time      *)
(* since, or left, up to where nothing distinguishes them any more.        *)
(***************************************************************************)
EXTENDS Integers

CONSTANTS
    Key,            \* key ids
    FirstKey,       \* the one that signs at the start
    Stranger,       \* a kid of no key
    Instance,       \* IAM processes
    Call,           \* verifications that may be in progress at once
    JwksMaxAge,     \* JWKS_CACHE_MAX_AGE_SECONDS, in ticks
    MinRefetch,     \* minRefetchIntervalSeconds
    VerifyLeeway,   \* CLOCK_SKEW_LEEWAY_SECONDS
    TokenTtl,       \* ACCESS_TOKEN_TTL_SECONDS
    MaxDeploy,      \* ticks until a step has reached every instance
    MaxFetch,       \* ticks a JWKS request takes at most
    Forcing         \* may the operator pass --force?

ASSUME RotationAssumption ==
    /\ FirstKey \in Key /\ Stranger \notin Key /\ Forcing \in BOOLEAN
    /\ \A t \in {JwksMaxAge, MinRefetch, VerifyLeeway, TokenTtl, MaxDeploy, MaxFetch} : t \in Nat
    /\ MaxDeploy <= VerifyLeeway      \* the waits allow for no slower deployment
    /\ MinRefetch <= JwksMaxAge
    /\ JwksMaxAge # 0 /\ TokenTtl # 0

VARIABLES
    env,            \* the key environment, as of the operator's last step
    published,      \* the operator's notes: since when each key is published ...
    deactivated,    \* ... and since when it no longer signs
    deployed,       \* the environment each instance booted with
    rollout,        \* how long the oldest step has been on its way to them
    token,          \* the watched token: its kid and the time to its exp
    cache,          \* JwksVerifier.cache
    flight,         \* JwksVerifier.inFlight
    call,           \* the verifications
    withdrawn,      \* history: since when each key is gone from the environment
    forced,         \* history: a wait has been skipped
    outage          \* history: a JWKS request has failed

operatorVars == <<env, published, deactivated, rollout, withdrawn, forced>>
verifierVars == <<cache, flight, call, outage>>
rotVars == <<operatorVars, deployed, token, verifierVars>>

Never == -1
PropagationWait == JwksMaxAge + VerifyLeeway
RetentionWait == TokenTtl + VerifyLeeway
ForgottenAfter == MaxDeploy + JwksMaxAge + MaxFetch
Stay == 2 * MaxFetch                \* the longest a verification waits
OldCache == JwksMaxAge + Stay
LongExpired == 0 - (VerifyLeeway + Stay)

RotEnvironment == [signer : Key, retained : SUBSET Key]
Jwks(e) == {e.signer} \cup e.retained

NoToken == [left |-> LongExpired]
NoCache == [age |-> Never]
NoFlight == [age |-> Never]
NoCall == [pc |-> "none"]

RotTypeOK ==
    /\ env \in RotEnvironment /\ env.signer \notin env.retained
    /\ published \in [Key -> 0 .. PropagationWait \cup {Never}]
    /\ deactivated \in [Key -> 0 .. RetentionWait \cup {Never}]
    /\ withdrawn \in [Key -> 0 .. ForgottenAfter \cup {Never}]
    /\ deployed \in [Instance -> RotEnvironment]
    /\ rollout \in 0 .. MaxDeploy
    /\ token \in [kid : Key, left : LongExpired + 1 .. TokenTtl] \cup {NoToken}
    /\ cache \in [keys : SUBSET Key, age : 0 .. OldCache] \cup {NoCache}
    /\ flight \in [age : 0 .. Stay, open : 0 .. MaxFetch] \cup {NoFlight}
    /\ call \in [Call -> {NoCall} \cup
                    [pc : {"consulting", "waiting", "accepted", "refused"}, forcing : BOOLEAN,
                     kid : Key \cup {Stranger}, age : 0 .. Stay, held : BOOLEAN]]
    /\ forced \in BOOLEAN /\ outage \in BOOLEAN

RotInit ==
    /\ env = [signer |-> FirstKey, retained |-> {}]
    /\ published = [k \in Key |-> Never]     \* no rolling back to the first key
    /\ deactivated = [k \in Key |-> Never]
    /\ withdrawn = [k \in Key |-> Never]
    /\ deployed = [i \in Instance |-> env]
    /\ rollout = 0
    /\ token = NoToken
    /\ cache = NoCache /\ flight = NoFlight
    /\ call = [c \in Call |-> NoCall]
    /\ forced = FALSE /\ outage = FALSE

-----------------------------------------------------------------------------
(* The operator applies a plan: new environment, note, deployment. *)
Deploying == \E i \in Instance : deployed[i] # env
Apply(next) ==
    /\ env' = next
    /\ rollout' = IF Deploying THEN rollout ELSE 0
    /\ UNCHANGED <<deployed, token, verifierVars>>

(* A step before its earliest time is refused, or forced. *)
Due(since, wait) ==
    /\ since >= wait \/ Forcing
    /\ forced' = (forced \/ since < wait)

PublishKey(k) ==
    /\ k \notin Jwks(env) /\ withdrawn[k] = Never
    /\ published' = [published EXCEPT ![k] = 0]
    /\ Apply([env EXCEPT !.retained = @ \cup {k}])
    /\ UNCHANGED <<deactivated, withdrawn, forced>>

(* Mutant: the key that signs from now on stays listed as retained too. *)
MutActivateKeyListsTwice(k) ==
    /\ k \in env.retained /\ published[k] # Never
    /\ Due(published[k], PropagationWait)
    /\ deactivated' = [deactivated EXCEPT ![env.signer] = 0]
    /\ Apply([signer |-> k, retained |-> env.retained \cup {env.signer}])
    /\ published' = [published EXCEPT ![k] = Never]
    /\ UNCHANGED withdrawn

(* The outgoing signer joins the retained keys in the same step.  A note     *)
(* that has served is thrown away.                                           *)
ActivateKey(k) ==
    /\ k \in env.retained /\ published[k] # Never
    /\ Due(published[k], PropagationWait)
    /\ deactivated' = [deactivated EXCEPT ![env.signer] = 0]
    /\ Apply([signer |-> k, retained |-> (env.retained \ {k}) \cup {env.signer}])
    /\ published' = [published EXCEPT ![k] = Never]
    /\ UNCHANGED withdrawn

(* Mutant: the leeway is left out of the retention wait. *)
MutRetireKeyAtTtl(k) ==
    /\ k \in env.retained /\ deactivated[k] # Never
    /\ Due(deactivated[k], TokenTtl)
    /\ withdrawn' = [withdrawn EXCEPT ![k] = 0]
    /\ deactivated' = [deactivated EXCEPT ![k] = Never]
    /\ Apply([env EXCEPT !.retained = @ \ {k}])
    /\ UNCHANGED published

RetireKey(k) ==
    /\ k \in env.retained /\ deactivated[k] # Never
    /\ Due(deactivated[k], RetentionWait)
    /\ withdrawn' = [withdrawn EXCEPT ![k] = 0]
    /\ deactivated' = [deactivated EXCEPT ![k] = Never]
    /\ Apply([env EXCEPT !.retained = @ \ {k}])
    /\ UNCHANGED published

(* An instance is replaced, by the deployment or by a crash: the new process *)
(* parses the environment it finds and never again.                          *)
Boot(i) ==
    /\ deployed[i] # env
    /\ deployed' = [deployed EXCEPT ![i] = env]
    /\ UNCHANGED <<operatorVars, token, verifierVars>>

(* issueAccessToken on any instance. *)
Issue(i) ==
    /\ token = NoToken
    /\ \A c \in Call : call[c] # NoCall => call[c].kid = Stranger
    /\ token' = [kid |-> deployed[i].signer, left |-> TokenTtl]
    /\ UNCHANGED <<operatorVars, deployed, verifierVars>>

-----------------------------------------------------------------------------
Expired(c) == token.left + call[c].age <= 0 - VerifyLeeway
Age(c) == cache.age - call[c].age

(* What a caller makes of the key set keyFor() gave it: a key, a second and  *)
(* forced look, or a refusal; the claims are looked at last.                 *)
Judged(c, keys) ==
    [call[c] EXCEPT
        !.pc = IF call[c].kid \in keys
               THEN IF Expired(c) THEN "refused" ELSE "accepted"
               ELSE IF call[c].forcing THEN "refused" ELSE "consulting",
        !.forcing = TRUE]

(* verify(token, now): its own clock reading goes with it to the end. *)
Verify(c) ==
    /\ call[c] = NoCall
    /\ \E kid \in {Stranger} \cup (IF token = NoToken THEN {} ELSE {token.kid}) :
          call' = [call EXCEPT ![c] =
              [pc |-> "consulting", forcing |-> FALSE, kid |-> kid, age |-> 0,
               held |-> IF cache = NoCache THEN FALSE ELSE kid \in cache.keys]]
    /\ UNCHANGED <<operatorVars, deployed, token, cache, flight, outage>>

MayRefetch(c) ==
    \/ cache = NoCache
    \/ IF call[c].forcing THEN Age(c) >= MinRefetch ELSE Age(c) >= JwksMaxAge

(* keyFor() from the cache ... *)
Consult(c) ==
    /\ call[c] # NoCall /\ call[c].pc = "consulting"
    /\ ~MayRefetch(c)
    /\ call' = [call EXCEPT ![c] = Judged(c, cache.keys)]
    /\ UNCHANGED <<operatorVars, deployed, token, cache, flight, outage>>

(* ... or from the request in flight, which the first to need one starts. *)
Refresh(c) ==
    /\ call[c] # NoCall /\ call[c].pc = "consulting"
    /\ MayRefetch(c)
    /\ call' = [call EXCEPT ![c].pc = "waiting"]
    /\ flight' = IF flight = NoFlight THEN [age |-> call[c].age, open |-> 0] ELSE flight
    /\ UNCHANGED <<operatorVars, deployed, token, cache, outage>>

Waiting == {c \in Call : call[c] # NoCall /\ call[c].pc = "waiting"}
Landed(keys) ==
    /\ call' = [c \in Call |-> IF c \in Waiting THEN Judged(c, keys) ELSE call[c]]
    /\ flight' = NoFlight

(* Any instance answers with the keys it booted with. *)
FetchAnswered(i) ==
    /\ flight # NoFlight
    /\ cache' = [keys |-> Jwks(deployed[i]), age |-> flight.age]
    /\ Landed(Jwks(deployed[i]))
    /\ UNCHANGED <<operatorVars, deployed, token, outage>>

(* Mutant: a failed request leaves no keys. *)
MutFetchFailedClears ==
    /\ flight # NoFlight
    /\ outage' = TRUE
    /\ cache' = NoCache
    /\ flight' = NoFlight
    /\ call' = [c \in Call |-> IF c \in Waiting THEN [call[c] EXCEPT !.pc = "refused"] ELSE call[c]]
    /\ UNCHANGED <<operatorVars, deployed, token>>

(* None does: the cache stays as it is, as old as it is; with no cache every *)
(* caller is refused.                                                        *)
FetchFailed ==
    /\ flight # NoFlight
    /\ outage' = TRUE
    /\ IF cache = NoCache
       THEN /\ flight' = NoFlight
            /\ call' = [c \in Call |-> IF c \in Waiting THEN [call[c] EXCEPT !.pc = "refused"]
                                       ELSE call[c]]
       ELSE Landed(cache.keys)
    /\ UNCHANGED <<operatorVars, deployed, token, cache>>

Done(c) ==
    /\ call[c] # NoCall /\ call[c].pc \in {"accepted", "refused"}
    /\ call' = [call EXCEPT ![c] = NoCall]
    /\ UNCHANGED <<operatorVars, deployed, token, cache, flight, outage>>

Later(since, cap) == IF since \in {Never, cap} THEN since ELSE since + 1
RotTick ==
    /\ Deploying => rollout < MaxDeploy
    /\ flight # NoFlight => flight.open < MaxFetch
    /\ \A c \in Call : call[c] # NoCall => call[c].pc = "waiting"
    /\ published' = [k \in Key |-> Later(published[k], PropagationWait)]
    /\ deactivated' = [k \in Key |-> Later(deactivated[k], RetentionWait)]
    /\ withdrawn' = [k \in Key |-> Later(withdrawn[k], ForgottenAfter)]
    /\ rollout' = IF Deploying THEN rollout + 1 ELSE 0
    /\ token' = IF token.left <= LongExpired + 1 THEN NoToken ELSE [token EXCEPT !.left = @ - 1]
    /\ cache' = [cache EXCEPT !.age = Later(@, OldCache)]
    /\ flight' = IF flight = NoFlight THEN NoFlight
                  ELSE [age |-> flight.age + 1, open |-> flight.open + 1]
    /\ call' = [c \in Call |-> IF call[c] = NoCall THEN NoCall ELSE [call[c] EXCEPT !.age = @ + 1]]
    /\ UNCHANGED <<env, deployed, forced, outage>>

-----------------------------------------------------------------------------
RotNext ==
    \/ \E k \in Key : PublishKey(k) \/ ActivateKey(k) \/ RetireKey(k)
    \/ \E i \in Instance : Boot(i) \/ Issue(i) \/ FetchAnswered(i)
    \/ \E c \in Call : Verify(c) \/ Consult(c) \/ Refresh(c) \/ Done(c)
    \/ FetchFailed \/ RotTick

RotSpec == RotInit /\ [][RotNext]_rotVars

-----------------------------------------------------------------------------
(* Refusals of a token that has not expired. *)
Wronged(c) == /\ call[c] # NoCall /\ call[c].pc = "refused"
              /\ call[c].kid # Stranger /\ token.left > 0

(* "Inside the IAM there is nothing to refetch": while the waits are kept,   *)
(* whichever instance signed, whichever instance verifies, however the       *)
(* deployments overlap, the key of an unexpired token is known.              *)
InstancesKnowKey ==
    ~forced /\ token.left > 0
        => \A i \in Instance : token.kid \in Jwks(deployed[i])

(* "A routine rotation" costs no consumer a token: with the waits kept and   *)
(* the JWKS reachable, no cache age and no overlap of requests refuses an    *)
(* unexpired one.                                                            *)
RotationRefusesNobody == ~forced /\ ~outage => \A c \in Call : ~Wronged(c)

(* "A brief IAM outage" is not "a fleet-wide auth outage": a key that was    *)
(* held when the verification began verifies its tokens, reachable or not.   *)
OutageKeepsKeys == ~forced => \A c \in Call : Wronged(c) => ~call[c].held

(* A withdrawn key, by a forced retirement too, is honoured no longer than   *)
(* its removal takes to reach the instances, a cache and a request.          *)
WithdrawnForgotten ==
    ~outage => \A c \in Call :
        call[c] # NoCall /\ call[c].pc = "accepted" /\ withdrawn[call[c].kid] # Never
            => withdrawn[call[c].kid] - call[c].age < ForgottenAfter

(* "The refetch is rate-limited": as long as the IAM answers, requests for   *)
(* its JWKS are MinRefetch apart, whatever kids callers bring.               *)
RefetchSpaced ==
    ~outage /\ flight # NoFlight /\ cache # NoCache
        => cache.age - flight.open >= MinRefetch

(* A rotation that keeps the waits refuses nobody: inside the IAM, and       *)
(* beyond it.                                                                *)
RotationSafe == InstancesKnowKey /\ RotationRefusesNobody

(* The cached JWKS is neither lost too early nor kept too long, and never    *)
(* asked for too often.                                                      *)
JwksCacheSound == OutageKeepsKeys /\ WithdrawnForgotten /\ RefetchSpaced

(* Through rotations and outages, a token that should be accepted is, and     *)
(* one that should no longer be is not.                                      *)
KeysSound == RotationSafe /\ JwksCacheSound
=============================================================================
