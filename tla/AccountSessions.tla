--------------------------- MODULE AccountSessions ---------------------------
(***************************************************************************)
(* One account, its logins and sessions, and everything that ends them:    *)
(* login (apps/iam-api/src/auth/auth.service.ts over the functions of      *)
(* libs/db/src/migrations/0012 and 0014), the lockout after too many wrong *)
(* passwords, the administrator's lock, unlock and disable                 *)
(* (auth/account-state.service.ts), the password reset                     *)
(* (auth/password-reset.service.ts) and the operator's break-glass         *)
(* recovery of the account (tools/break-glass-admin.ts).                   *)
(*                                                                         *)
(* A login and an administrator's request run in one transaction each, at  *)
(* READ COMMITTED; the other paths are one statement on the pool.  A login *)
(* attempt and the session it creates share a name.  The tenant stays      *)
(* active.                                                                 *)
(***************************************************************************)
EXTENDS Integers, FiniteSets

CONSTANTS
    Logins,             \* login attempts
    Resets,             \* password-reset requests
    MaxFails,           \* LOGIN_MAX_FAILED_ATTEMPTS
    MaxSecret           \* bound: passwords set by a reset

ASSUME AccountAssumption == MaxFails \in Nat \ {0} /\ MaxSecret \in Nat

VARIABLES
    user,           \* the committed user and user_identity rows
    holder,         \* who has the user row's lock
    login,          \* the attempts, and the session rows they created
    admin,          \* the administrator's, or the operator's, transaction
    resetToken,     \* the password_reset_token rows
    superseded,     \* the tokens each request's update has found
    unpublished,    \* revoked sessions whose afterCommit publish is still to run
    deniedSids,     \* revoked-sid keys
    overtaken       \* history: the attempts whose account, and the reset requests
                    \* whose tokens, changed after they had looked at them

accountVars == <<user, holder, login, admin, resetToken, superseded, unpublished,
                 deniedSids, overtaken>>

Nobody == "nobody"
Administrator == "administrator"
NoTransition == [pc |-> "idle", to |-> "active", sessions |-> {}]
NotTried == [pc |-> "none", right |-> FALSE, secret |-> 0, status |-> "active"]

Status == {"active", "locked", "disabled"}

AccountTypeOK ==
    /\ user \in [status : Status, fails : 0 .. MaxFails - 1, secret : 0 .. MaxSecret]
    /\ holder \in Logins \cup {Nobody, Administrator}
    /\ login \in [Logins -> [pc : {"none", "verifying", "eligible", "inserted", "live",
                                   "revoked", "refused"},
                             right : BOOLEAN, secret : 0 .. MaxSecret, status : Status]]
    /\ admin \in [pc : {"idle", "updated", "revoked", "recovering", "recovered"}, to : Status,
                  sessions : SUBSET Logins]
    /\ resetToken \in [Resets -> {"none", "storing", "live", "used", "expired"}]
    /\ superseded \in [Resets -> SUBSET Resets]
    /\ unpublished \subseteq Logins
    /\ deniedSids \subseteq Logins
    /\ overtaken \subseteq Logins \cup Resets

AccountInit ==
    /\ user = [status |-> "active", fails |-> 0, secret |-> 0]
    /\ holder = Nobody
    /\ login = [l \in Logins |-> NotTried]
    /\ admin = NoTransition
    /\ resetToken = [r \in Resets |-> "none"]
    /\ superseded = [r \in Resets |-> {}]
    /\ unpublished = {}
    /\ deniedSids = {}
    /\ overtaken = {}

Ended(pc) == [NotTried EXCEPT !.pc = pc]    \* what it had seen no longer matters
LiveSessions == {l \in Logins : login[l].pc = "live"}
Revoked(sessions) ==
    [l \in Logins |-> IF l \in sessions THEN Ended("revoked") ELSE login[l]]

(* The attempts that will create a session on the strength of the status,    *)
(* or of the password, as it is before this step.                            *)
PastStatus == {l \in Logins : login[l].pc \in {"eligible", "inserted"}}
PastSecret == PastStatus \cup {l \in Logins : login[l].pc = "verifying"}

-----------------------------------------------------------------------------
(* The credential lookup; argon2 is then given the hash that was read. *)
LookUp(l, right) ==
    /\ login[l].pc = "none"
    /\ login' = [login EXCEPT ![l] = [pc |-> "verifying", right |-> right,
                                      secret |-> user.secret, status |-> user.status]]
    /\ UNCHANGED <<user, holder, admin, resetToken, superseded, unpublished, deniedSids, overtaken>>

(* The right password of an account that was locked or disabled: audited. *)
Refuse(l) ==
    /\ login[l].pc = "verifying" /\ login[l].right /\ login[l].status # "active"
    /\ login' = [login EXCEPT ![l] = Ended("refused")]
    /\ UNCHANGED <<user, holder, admin, resetToken, superseded, unpublished, deniedSids, overtaken>>

(* Mutant: the threshold is passed before it locks. *)
MutWrongPasswordOver(l) ==
    /\ login[l].pc = "verifying" /\ ~login[l].right
    /\ user' = IF user.status # "active" THEN user
               ELSE IF user.fails + 1 > MaxFails
                    THEN [user EXCEPT !.status = "locked", !.fails = 0]
                    ELSE [user EXCEPT !.fails = @ + 1]
    /\ login' = [login EXCEPT ![l] = Ended("refused")]
    /\ UNCHANGED <<holder, admin, resetToken, superseded, unpublished, deniedSids, overtaken>>

(* auth_record_login_failure, `bad_password`: counts against an active       *)
(* account under its row lock, which also waits for the foreign key of any   *)
(* session being inserted, and at the threshold locks it and revokes what    *)
(* is live.                                                                  *)
WrongPassword(l) ==
    LET counts == user.status = "active"
        locks == counts /\ user.fails + 1 >= MaxFails
        killed == IF locks THEN LiveSessions ELSE {}
    IN  /\ login[l].pc = "verifying" /\ ~login[l].right
        /\ counts => holder = Nobody /\ \A k \in Logins : login[k].pc # "inserted"
        /\ user' = IF locks THEN [user EXCEPT !.status = "locked", !.fails = 0]
                   ELSE IF counts THEN [user EXCEPT !.fails = @ + 1] ELSE user
        /\ login' = [Revoked(killed) EXCEPT ![l] = Ended("refused")]
        /\ unpublished' = unpublished \cup killed
        /\ overtaken' = IF locks THEN overtaken \cup PastStatus ELSE overtaken
        /\ UNCHANGED <<holder, admin, resetToken, superseded, deniedSids>>

(* Mutant: begin() trusts the status login has read. *)
MutCheckTrustsLookup(l) ==
    /\ login[l].pc = "verifying" /\ login[l].right /\ login[l].status = "active"
    /\ login' = [login EXCEPT ![l].pc = "eligible"]
    /\ overtaken' = IF admin.pc = "revoked" THEN overtaken \cup {l} ELSE overtaken
    /\ UNCHANGED <<user, holder, admin, resetToken, superseded, unpublished, deniedSids>>

(* auth_begin_session looks at the status again, without locking the row ... *)
CheckEligible(l) ==
    /\ login[l].pc = "verifying" /\ login[l].right /\ login[l].status = "active"
    /\ login' = [login EXCEPT ![l] = IF user.status = "active" THEN [@ EXCEPT !.pc = "eligible"]
                                                              ELSE Ended("refused")]
    /\ overtaken' = IF admin.pc = "revoked" THEN overtaken \cup {l} ELSE overtaken
    /\ UNCHANGED <<user, holder, admin, resetToken, superseded, unpublished, deniedSids>>

(* ... inserts the session, and takes the lock only to clear a counter ...   *)
InsertSession(l) ==
    /\ login[l].pc = "eligible"
    /\ user.fails # 0 => holder = Nobody
    /\ holder' = IF user.fails # 0 THEN l ELSE holder
    /\ login' = [login EXCEPT ![l].pc = "inserted"]
    /\ UNCHANGED <<user, admin, resetToken, superseded, unpublished, deniedSids, overtaken>>

(* ... and the request ends, with the session or without it. *)
EndLogin(l, outcome) ==
    /\ login[l].pc = "inserted"
    /\ login' = [login EXCEPT ![l] = IF outcome = "live" THEN [@ EXCEPT !.pc = "live"]
                                                         ELSE Ended("refused")]
    /\ user' = IF holder = l /\ outcome = "live" THEN [user EXCEPT !.fails = 0] ELSE user
    /\ holder' = IF holder = l THEN Nobody ELSE holder
    /\ overtaken' = IF admin.pc = "recovered" /\ outcome = "live" THEN overtaken \cup {l} ELSE overtaken
    /\ UNCHANGED <<admin, resetToken, superseded, unpublished, deniedSids>>

-----------------------------------------------------------------------------
(* AccountStateService.transition: the guarded update ... *)
BeginTransition(status) ==
    /\ admin = NoTransition /\ holder = Nobody
    /\ user.status # status
    /\ status = "active" => user.status = "locked"
    /\ holder' = Administrator
    /\ admin' = [NoTransition EXCEPT !.pc = "updated", !.to = status]
    /\ UNCHANGED <<user, login, resetToken, superseded, unpublished, deniedSids, overtaken>>

(* ... revokeAllForUser, on what is committed by now ... *)
RevokeAll ==
    /\ admin.pc = "updated" /\ admin.to # "active"
    /\ admin' = [admin EXCEPT !.pc = "revoked", !.sessions = LiveSessions]
    /\ overtaken' = overtaken \cup PastStatus
    /\ UNCHANGED <<user, holder, login, resetToken, superseded, unpublished, deniedSids>>

(* ... COMMIT, with the afterCommit publish ... *)
CommitTransition ==
    /\ admin.pc = IF admin.to = "active" THEN "updated" ELSE "revoked"
    /\ user' = [user EXCEPT !.status = admin.to, !.fails = 0]
    /\ login' = Revoked(admin.sessions)
    /\ unpublished' = unpublished \cup admin.sessions
    /\ admin' = NoTransition
    /\ holder' = Nobody
    /\ UNCHANGED <<resetToken, superseded, deniedSids, overtaken>>

(* ... or ROLLBACK. *)
RollbackTransition ==
    /\ admin # NoTransition
    /\ admin' = NoTransition
    /\ holder' = Nobody
    /\ UNCHANGED <<user, login, resetToken, superseded, unpublished, deniedSids, overtaken>>

(* break-glass-admin.ts `recover`: the account is made active whatever it    *)
(* was, under its row lock, with a new password ...                          *)
BeginRecovery ==
    /\ admin = NoTransition /\ holder = Nobody
    /\ user.secret < MaxSecret
    /\ holder' = Administrator
    /\ admin' = [NoTransition EXCEPT !.pc = "recovering"]
    /\ UNCHANGED <<user, login, resetToken, superseded, unpublished, deniedSids, overtaken>>

(* ... the sessions that are committed by now are revoked ...                *)
RecoveryRevokes ==
    /\ admin.pc = "recovering"
    /\ admin' = [admin EXCEPT !.pc = "recovered", !.sessions = LiveSessions]
    /\ UNCHANGED <<user, holder, login, resetToken, superseded, unpublished, deniedSids, overtaken>>

(* ... and COMMIT, which tells no verifier.  Logins that looked the account  *)
(* up, or were admitted, since then have seen the old password.              *)
CommitRecovery ==
    /\ admin.pc = "recovered"
    /\ user' = [user EXCEPT !.status = "active", !.fails = 0, !.secret = @ + 1]
    /\ login' = Revoked(admin.sessions)
    /\ overtaken' = overtaken \cup PastSecret
    /\ admin' = NoTransition
    /\ holder' = Nobody
    /\ UNCHANGED <<resetToken, superseded, unpublished, deniedSids>>

(* publishRevocations: best effort. *)
Publish(l) ==
    /\ l \in unpublished
    /\ unpublished' = unpublished \ {l}
    /\ deniedSids' \in {deniedSids, deniedSids \cup {l}}
    /\ UNCHANGED <<user, holder, login, admin, resetToken, superseded, overtaken>>

-----------------------------------------------------------------------------
(* auth_request_password_reset: the update supersedes what its snapshot      *)
(* holds ...                                                                 *)
RequestReset(r) ==
    /\ resetToken[r] = "none" /\ user.status = "active"
    /\ superseded' = [superseded EXCEPT ![r] = {q \in Resets : resetToken[q] \in {"live", "expired"}}]
    /\ resetToken' = [resetToken EXCEPT ![r] = "storing"]
    /\ UNCHANGED <<user, holder, login, admin, unpublished, deniedSids, overtaken>>

(* Mutant: a new token does not touch the outstanding ones. *)
MutStoreResetOnly(r) ==
    /\ resetToken[r] = "storing"
    /\ resetToken' = [resetToken EXCEPT ![r] = "live"]
    /\ superseded' = [superseded EXCEPT ![r] = {}]
    /\ overtaken' = overtaken \cup {q \in Resets \ {r} : resetToken[q] = "storing"}
    /\ UNCHANGED <<user, holder, login, admin, unpublished, deniedSids>>

(* ... and the new token is committed and sent. *)
StoreReset(r) ==
    /\ resetToken[r] = "storing"
    /\ resetToken' = [q \in Resets |-> IF q = r THEN "live"
                                       ELSE IF q \in superseded[r] THEN "used" ELSE resetToken[q]]
    /\ superseded' = [superseded EXCEPT ![r] = {}]
    /\ overtaken' = overtaken \cup {q \in Resets \ {r} : resetToken[q] = "storing"}
    /\ UNCHANGED <<user, holder, login, admin, unpublished, deniedSids>>

ExpireReset(r) ==
    /\ resetToken[r] = "live"
    /\ resetToken' = [resetToken EXCEPT ![r] = "expired"]
    /\ UNCHANGED <<user, holder, login, admin, superseded, unpublished, deniedSids, overtaken>>

(* auth_complete_password_reset: spends the token, sets the secret, clears   *)
(* the counter and revokes what is live, waiting for the rows an             *)
(* administrator has locked.  Anything else about the token answers          *)
(* `invalid` and changes nothing.                                            *)
CompleteReset(r) ==
    /\ resetToken[r] = "live" /\ user.status = "active"
    /\ user.fails # 0 => holder = Nobody
    /\ admin.sessions = {} /\ admin.pc \notin {"recovering", "recovered"}
    /\ user.secret < MaxSecret
    /\ overtaken' = overtaken \cup PastSecret
    /\ user' = [user EXCEPT !.secret = @ + 1, !.fails = 0]
    /\ resetToken' = [resetToken EXCEPT ![r] = "used"]
    /\ login' = Revoked(LiveSessions)
    /\ unpublished' = unpublished \cup LiveSessions
    /\ UNCHANGED <<holder, admin, superseded, deniedSids>>

LoginStep(l) == \/ \E right \in BOOLEAN : LookUp(l, right)
                \/ Refuse(l) \/ WrongPassword(l) \/ CheckEligible(l) \/ InsertSession(l)
                \/ \E outcome \in {"live", "refused"} : EndLogin(l, outcome)
AdminStep == \/ \E status \in Status : BeginTransition(status)
             \/ RevokeAll \/ CommitTransition \/ RollbackTransition
             \/ BeginRecovery \/ RecoveryRevokes \/ CommitRecovery
ResetStep(r) == RequestReset(r) \/ StoreReset(r) \/ ExpireReset(r) \/ CompleteReset(r)

AccountNext == \/ \E l \in Logins : LoginStep(l) \/ Publish(l)
               \/ AdminStep
               \/ \E r \in Resets : ResetStep(r)

AccountSpec == AccountInit /\ [][AccountNext]_accountVars

-----------------------------------------------------------------------------
(* "The person who can no longer log in must not still be logged in on the   *)
(* gate terminal they left running": whichever way an account came to be     *)
(* locked or disabled, its only live sessions are those whose login the      *)
(* change overtook.                                                          *)
LockedOutEverywhere == user.status # "active" => LiveSessions \subseteq overtaken

(* The same with no exception. *)
NoneInWhenLockedOut == user.status # "active" => LiveSessions = {}

(* A completed reset or recovery ends every session that was begun with the  *)
(* password it replaced, those of logins under way at that moment apart.     *)
SessionsKnowTheSecret == \A l \in LiveSessions \ overtaken : login[l].secret = user.secret

(* "One live token per account": of the links in a user's inbox, one works,  *)
(* unless two requests crossed.                                              *)
OneLiveToken ==
    \A p, q \in Resets : resetToken[p] = "live" /\ resetToken[q] = "live" =>
        p = q \/ {p, q} \cap overtaken # {}

(* Verifiers are told of a session only once its revocation is committed: a  *)
(* transition that rolls back denies nobody.                                 *)
DeniedWasRevoked == \A l \in deniedSids : login[l].pc = "revoked"

(* An account that is shut has no session going, and no session is denied    *)
(* that was not ended.                                                       *)
LockedOut == LockedOutEverywhere /\ DeniedWasRevoked

(* A reset leaves nothing behind that the old password, or another link,     *)
(* opens.                                                                    *)
ResetEndsThePast == SessionsKnowTheSecret /\ OneLiveToken

(* Who is shut out, by either, is out.                                       *)
NobodyLeftIn == LockedOut /\ ResetEndsThePast
=============================================================================
