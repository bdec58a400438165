--------------------------- MODULE RefreshRotation ---------------------------
(***************************************************************************)
(* POST /auth/refresh on one session: the election of a successor in Redis *)
(* (apps/iam-api/src/auth/refresh-replay.cache.ts), the decision of        *)
(* iam.auth_rotate_refresh_token under the session's row lock              *)
(* (libs/db/src/migrations/0013-refresh-rotation.ts), and the answer or    *)
(* the published revocation (auth/refresh.service.ts).                     *)
(*                                                                         *)
(* Refresh secrets are numbered in the order they are minted; 0 is the one *)
(* login handed out.  The database function is one statement on the pool,  *)
(* so it is one step; every Redis command is another.                      *)
(***************************************************************************)
EXTENDS Integers

CONSTANTS
    Reqs,           \* refresh requests that may be in flight at once
    Grace,          \* REFRESH_REUSE_GRACE_SECONDS, in ticks
    Slack,          \* REPLAY_SLACK_SECONDS, in ticks
    MaxTokens,      \* bound: secrets minted after login
    MaxDelay,       \* bound: ticks from a request's arrival to its end
    CacheFails,     \* may Redis fail to answer an election?
    Abandons        \* may a request die before the database decides it?

ASSUME WindowAssumption == Grace \in Nat \ {0} /\ Slack \in Nat
ASSUME RotationBoundsAssumption == MaxTokens \in Nat /\ MaxDelay \in Nat
ASSUME FailuresAssumption == CacheFails \in BOOLEAN /\ Abandons \in BOOLEAN

VARIABLES
    session,    \* the row's rotation state; "compromised" is revoked and audited as reuse
    elected,    \* refresh-replay:<presented> keys
    req,        \* the requests
    minted,     \* secrets minted so far
    handed,     \* history: <<presented, successor>> for every success
    denied      \* the session's revoked-sid key is published

vars == <<session, elected, req, minted, handed, denied>>

Token == 0 .. MaxTokens
None == -1
NoElection == [succ |-> None, ttl |-> 0]
Idle == [pc |-> "idle"]

SessionType == [current : Token, previous : Token \cup {None}, age : 0 .. Grace,
                status : {"live", "expired", "revoked", "compromised"}]
ReqType == [pc : {"electing", "following", "rotating", "publishing", "answered"},
            presented : Token, proposal : Token, ok : BOOLEAN, age : 0 .. MaxDelay]

TypeOK ==
    /\ session \in SessionType
    /\ elected \in [Token -> [succ : Token, ttl : 1 .. Grace + Slack] \cup {NoElection}]
    /\ req \in [Reqs -> ReqType \cup {Idle}]
    /\ minted \in Token
    /\ handed \subseteq Token \X Token
    /\ denied \in BOOLEAN

Init ==
    /\ session = [current |-> 0, previous |-> None, age |-> 0, status |-> "live"]
    /\ elected = [t \in Token |-> NoElection]
    /\ req = [r \in Reqs |-> Idle]
    /\ minted = 0
    /\ handed = {}
    /\ denied = FALSE

(* The tokens a client has been given. *)
Known == {0} \cup {pair[2] : pair \in handed}

-----------------------------------------------------------------------------
(* elect(): the candidate is minted before anything else. *)
Begin(r, t) ==
    /\ req[r] = Idle
    /\ minted < MaxTokens
    /\ minted' = minted + 1
    /\ req' = [req EXCEPT ![r] = [pc |-> "electing", presented |-> t,
                                  proposal |-> minted + 1, ok |-> FALSE, age |-> 0]]
    /\ UNCHANGED <<session, elected, handed, denied>>

(* Mutant: SET without NX. *)
MutElectOverwrites(r) ==
    /\ req[r].pc = "electing"
    /\ elected' = [elected EXCEPT ![req[r].presented] =
                      [succ |-> req[r].proposal, ttl |-> Grace + Slack]]
    /\ req' = [req EXCEPT ![r].pc = "rotating"]
    /\ UNCHANGED <<session, minted, handed, denied>>

(* SET NX wrote: this request's candidate is the successor. *)
Elect(r) ==
    LET t == req[r].presented IN
    /\ req[r].pc = "electing"
    /\ elected[t] = NoElection
    /\ elected' = [elected EXCEPT ![t] = [succ |-> req[r].proposal, ttl |-> Grace + Slack]]
    /\ req' = [req EXCEPT ![r].pc = "rotating"]
    /\ UNCHANGED <<session, minted, handed, denied>>

(* SET NX answered nil: somebody has been elected ... *)
LoseElection(r) ==
    /\ req[r].pc = "electing"
    /\ elected[req[r].presented] # NoElection
    /\ req' = [req EXCEPT ![r].pc = "following"]
    /\ UNCHANGED <<session, elected, minted, handed, denied>>

(* ... and GET says who, unless the key has expired in between. *)
Follow(r) ==
    LET winner == elected[req[r].presented] IN
    /\ req[r].pc = "following"
    /\ req' = [req EXCEPT ![r] = [@ EXCEPT !.pc = "rotating",
                  !.proposal = IF winner = NoElection THEN req[r].proposal
                                                       ELSE winner.succ]]
    /\ UNCHANGED <<session, elected, minted, handed, denied>>

(* Redis cannot answer: the candidate is proposed unelected. *)
ElectionFails(r) ==
    /\ CacheFails
    /\ req[r].pc \in {"electing", "following"}
    /\ req' = [req EXCEPT ![r].pc = "rotating"]
    /\ UNCHANGED <<session, elected, minted, handed, denied>>

-----------------------------------------------------------------------------
(* The branches of auth_rotate_refresh_token. *)
Presents(r, t) == req[r].pc = "rotating" /\ req[r].presented = t
Live == session.status = "live"
IsReplay(r) == Presents(r, session.previous) /\ session.age < Grace

(* The answer on its way to the client. *)
Answering(r, success) ==
    /\ req' = [req EXCEPT ![r] = [@ EXCEPT !.pc = "answered", !.ok = success]]
    /\ handed' = IF success THEN handed \cup {<<req[r].presented, req[r].proposal>>}
                            ELSE handed
    /\ UNCHANGED <<elected, minted, denied>>

(* Mutant: what the successor replaced is not remembered. *)
MutRotateForgets(r) ==
    /\ Live /\ Presents(r, session.current)
    /\ session' = [session EXCEPT !.current = req[r].proposal, !.age = 0]
    /\ Answering(r, TRUE)

Rotate(r) ==
    /\ Live /\ Presents(r, session.current)
    /\ session' = [session EXCEPT !.previous = session.current,
                                  !.current = req[r].proposal, !.age = 0]
    /\ Answering(r, TRUE)

(* Mutant: a replay in the window gets whatever was elected for it. *)
MutReplayUnconfirmed(r) ==
    /\ Live /\ ~Presents(r, session.current) /\ IsReplay(r)
    /\ Answering(r, TRUE)
    /\ UNCHANGED session

Replay(r) ==
    /\ Live /\ ~Presents(r, session.current) /\ IsReplay(r)
    /\ req[r].proposal = session.current
    /\ Answering(r, TRUE)
    /\ UNCHANGED session

(* Refused, and pointedly not revoked. *)
Stale(r) ==
    /\ Live /\ ~Presents(r, session.current) /\ IsReplay(r)
    /\ req[r].proposal # session.current
    /\ Answering(r, FALSE)
    /\ UNCHANGED session

(* Any other token revokes the session; publishing follows. *)
DetectReuse(r) ==
    /\ Live /\ req[r].pc = "rotating"
    /\ ~Presents(r, session.current) /\ ~IsReplay(r)
    /\ session' = [session EXCEPT !.status = "compromised"]
    /\ req' = [req EXCEPT ![r].pc = "publishing"]
    /\ UNCHANGED <<elected, minted, handed, denied>>

(* Mutant: every refusal publishes the session as revoked. *)
MutInvalidPublishes(r) ==
    /\ ~Live /\ req[r].pc = "rotating"
    /\ denied' = TRUE
    /\ req' = [req EXCEPT ![r] = [@ EXCEPT !.pc = "answered", !.ok = FALSE]]
    /\ UNCHANGED <<session, elected, minted, handed>>

Invalid(r) ==
    /\ ~Live /\ req[r].pc = "rotating"
    /\ Answering(r, FALSE)
    /\ UNCHANGED session

(* publishRevocations: best effort, then the same 401. *)
PublishReuse(r) ==
    /\ req[r].pc = "publishing"
    /\ denied' \in {denied, TRUE}
    /\ req' = [req EXCEPT ![r] = [@ EXCEPT !.pc = "answered", !.ok = FALSE]]
    /\ UNCHANGED <<session, elected, minted, handed>>

(* The response reaches the client, or nobody. *)
Deliver(r) ==
    /\ req[r].pc = "answered"
    /\ req' = [req EXCEPT ![r] = Idle]
    /\ UNCHANGED <<session, elected, minted, handed, denied>>

(* The process dies, or the pool refuses, between the election and the       *)
(* decision.                                                                 *)
Abandon(r) ==
    /\ Abandons
    /\ req[r].pc \in {"electing", "following", "rotating"}
    /\ req' = [req EXCEPT ![r] = Idle]
    /\ UNCHANGED <<session, elected, minted, handed, denied>>

-----------------------------------------------------------------------------
(* A logout, lock, disable or reset revokes the session and publishes it ... *)
Revoke ==
    /\ session' = [session EXCEPT !.status = IF @ = "compromised" THEN @ ELSE "revoked"]
    /\ UNCHANGED <<elected, req, minted, handed, denied>>
PublishRevoked ==
    /\ session.status = "revoked"
    /\ denied' = TRUE
    /\ UNCHANGED <<session, elected, req, minted, handed>>

(* ... or it reaches the absolute expiry login gave it. *)
Expire ==
    /\ Live
    /\ session' = [session EXCEPT !.status = "expired"]
    /\ UNCHANGED <<elected, req, minted, handed, denied>>

Aged(e) == IF e.ttl <= 1 THEN NoElection ELSE [e EXCEPT !.ttl = @ - 1]

Tick ==
    /\ \A r \in Reqs : req[r] # Idle => req[r].age < MaxDelay
    /\ session' = [session EXCEPT !.age = IF @ < Grace THEN @ + 1 ELSE Grace]
    /\ elected' = [t \in Token |-> Aged(elected[t])]
    /\ req' = [r \in Reqs |-> IF req[r] = Idle THEN Idle ELSE [req[r] EXCEPT !.age = @ + 1]]
    /\ UNCHANGED <<minted, handed, denied>>

Decide(r) == Rotate(r) \/ Replay(r) \/ Stale(r) \/ DetectReuse(r) \/ Invalid(r)
ServerStep(r) == \/ Elect(r) \/ LoseElection(r) \/ Follow(r) \/ ElectionFails(r)
                 \/ Decide(r) \/ PublishReuse(r) \/ Abandon(r)
Environment == Revoke \/ PublishRevoked \/ Expire \/ Tick

Next == \/ \E r \in Reqs : ServerStep(r) \/ Deliver(r) \/ \E t \in Known : Begin(r, t)
        \/ Environment

Spec == Init /\ [][Next]_vars

-----------------------------------------------------------------------------
(* "Idempotence is the whole point: both clients must converge on one        *)
(* token."  However many requests race a token, whatever Redis forgets or    *)
(* refuses, one token has one successor and a successor one predecessor.     *)
Lineage == \A x, y \in handed : x[1] = y[1] <=> x[2] = y[2]

(* A session is published as revoked only when a revocation of it has        *)
(* committed: a refusal for any other reason denies nobody.                  *)
DeniedIsRevoked == denied => session.status \in {"revoked", "compromised"}

(* "The entry outlives the grace window ... so the database always decides   *)
(* where the window ends": no replay that the row allows is refused for      *)
(* holding a proposal nobody installed.                                      *)
RaceNeverRefused ==
    \A r \in Reqs : Live /\ ~Presents(r, session.current) /\ IsReplay(r)
                        => req[r].proposal = session.current
=============================================================================
