--------------------------- MODULE CredentialsProofs ---------------------------
(***************************************************************************)
(* Theorems about the secrets of service accounts, about the keys that sign *)
(* tokens and about the limit to how often a secret may be tried, for any   *)
(* number of administrators, exchanges, keys, IAM instances, verifications  *)
(* and requests, and any durations the assumptions allow.                   *)
(*                                                                         *)
(* Exposure: a secret that is good has not been dead at all, an exchange    *)
(* that looked it up while it was good has been going on for as long as it  *)
(* has been dead since, and a token has a lifetime on top of that.  All     *)
(* three grow and shrink together.                                          *)
(* Trail: who holds the account's row wants a status it does not have, and  *)
(* nobody else can give it that one meanwhile.                              *)
(* KeysAreSound: what an instance booted with is no older than the step     *)
(* that is longest on its way, and what the verifier cached no older than   *)
(* that and its own age together.  So a key published for long enough is    *)
(* known to both, one withdrawn for long enough to neither, and the key of  *)
(* a token has not been off duty for longer than the token's life.          *)
(* RateIsSound: who went on in a window and who will is no more than were   *)
(* counted in it while its count lasts, and that is until nobody waits.     *)
(***************************************************************************)
EXTENDS MCCredentials, RefreshRotationProofs, FiniteSetTheorems

-----------------------------------------------------------------------------
(* ServiceCredentials.                                                       *)
StatusChange == [kind : {"status"}, pc : {"locked", "committed"}, to : AccountStatus, seen : AccountStatus]
TenantChange == [kind : {"tenant"}, pc : {"read", "locked"}, to : TenantStatus, seen : TenantStatus]
Rotation == [kind : {"rotate"}, pc : {"locked"}, to : Secret]
Signing == [pc : {"signing"}, secret : Secret, stay : 0 .. MaxExchange]

(* The requests, ...                                                         *)
ChangesTyped ==
    /\ account \in [status : AccountStatus, secret : Secret]
    /\ tenant \in TenantStatus
    /\ issued \in Secret
    /\ trail \in [account : AccountStatus, tenant : TenantStatus]
    /\ change \in [Admin -> {NoChange} \cup StatusChange \cup TenantChange \cup Rotation]

(* ... of which one at a time holds the account's row, with something to     *)
(* change; a tenant's update has something to change as well.                *)
Locked ==
    /\ \A a, b \in Admin :
          Holds(a, {"status", "rotate"}) /\ Holds(b, {"status", "rotate"}) => a = b
    /\ \A a \in Admin : Holds(a, {"status"}) => change[a].to # account.status
    /\ \A a \in Admin : Holds(a, {"tenant"}) => change[a].to # change[a].seen

(* The secrets, the exchanges and the tokens, ...                            *)
TokensTyped ==
    /\ exchange \in [Exchange -> {NoExchangeYet} \cup Signing]
    /\ bearer \in [Secret -> 0 .. ServiceTtl]
    /\ dead \in [Secret -> 0 .. ExposureWindow]

(* ... and their ages.                                                       *)
Ageing ==
    /\ \A s \in Secret : ExchangeFailure(s) = "none" => dead[s] = 0
    /\ \A x \in Exchange : exchange[x] # NoExchangeYet => dead[exchange[x].secret] <= exchange[x].stay
    /\ \A s \in Secret : bearer[s] > 0 => dead[s] + bearer[s] <= ExposureWindow

CredIInv == ChangesTyped /\ Locked /\ TokensTyped /\ Ageing /\ TrailIsTrue

-----------------------------------------------------------------------------

(* The kind of a request says what it is made of.                            *)
LEMMA Kinds ==
    ASSUME ChangesTyped, NEW a \in Admin
    PROVE  /\ change[a].kind = "status" => change[a] \in StatusChange
           /\ change[a].kind = "tenant" => change[a] \in TenantChange
           /\ change[a].kind = "rotate" => change[a] \in Rotation
<1>1. change[a] \in {NoChange} \cup StatusChange \cup TenantChange \cup Rotation
  BY DEF ChangesTyped
<1>2. change[a] = NoChange => change[a].kind = "none"
  BY DEF NoChange
<1>3. /\ change[a] \in StatusChange => change[a].kind = "status"
      /\ change[a] \in TenantChange => change[a].kind = "tenant"
      /\ change[a] \in Rotation => change[a].kind = "rotate"
  BY DEF StatusChange, TenantChange, Rotation
<1> QED BY <1>1, <1>2, <1>3

(* Requests that take a step put something of their kind in its place.       *)
LEMMA ChangesStep == ChangesTyped /\ [CredNext]_credVars => ChangesTyped'
<1> SUFFICES ASSUME ChangesTyped, [CredNext]_credVars PROVE ChangesTyped'
  OBVIOUS
<1> DEFINE Change == {NoChange} \cup StatusChange \cup TenantChange \cup Rotation
<1>0. change \in [Admin -> Change]
  BY DEF ChangesTyped
<1>1. ASSUME NEW a \in Admin, NEW to \in AccountStatus, BeginStatus(a, to) PROVE ChangesTyped'
  <2> DEFINE new == [kind |-> "status", pc |-> "locked", to |-> to, seen |-> account.status]
  <2>1. new \in StatusChange
    BY DEF ChangesTyped, StatusChange
  <2>2. change' = [change EXCEPT ![a] = new]
    BY <1>1 DEF BeginStatus
  <2> HIDE DEF new
  <2>3. change' \in [Admin -> Change]
    BY <1>0, <2>1, <2>2
  <2> QED BY <1>1, <2>3 DEF BeginStatus, ChangesTyped
<1>2. ASSUME NEW a \in Admin, CommitStatus(a) PROVE ChangesTyped'
  <2> DEFINE new == [change[a] EXCEPT !.pc = "committed"]
  <2>1. change[a] \in StatusChange
    BY <1>2, Kinds DEF CommitStatus, Holds
  <2>2. new \in StatusChange
    BY <2>1 DEF StatusChange
  <2>3. change' = [change EXCEPT ![a] = IF change[a].to = "revoked" THEN new ELSE NoChange]
    BY <1>2, <1>0 DEF CommitStatus
  <2> HIDE DEF new
  <2>4. change' \in [Admin -> Change]
    BY <1>0, <2>2, <2>3
  <2>5. change[a].to \in AccountStatus
    BY <2>1 DEF StatusChange
  <2>6. account' \in [status : AccountStatus, secret : Secret]
    BY <1>2, <2>5 DEF CommitStatus, ChangesTyped
  <2>7. trail' \in [account : AccountStatus, tenant : TenantStatus]
    BY <1>2, <2>5 DEF CommitStatus, ChangesTyped
  <2> QED BY <1>2, <2>4, <2>6, <2>7 DEF CommitStatus, ChangesTyped
<1>3. ASSUME NEW a \in Admin, PublishRevocation(a) \/ RollbackChange(a) PROVE ChangesTyped'
  <2>1. change' = [change EXCEPT ![a] = NoChange]
    BY <1>3 DEF PublishRevocation, RollbackChange
  <2>2. change' \in [Admin -> Change]
    BY <1>0, <2>1
  <2> QED BY <1>3, <2>2 DEF PublishRevocation, RollbackChange, ChangesTyped
<1>4. ASSUME NEW a \in Admin, BeginRotate(a) PROVE ChangesTyped'
  <2> DEFINE new == [kind |-> "rotate", pc |-> "locked", to |-> issued + 1]
  <2>1. issued + 1 \in Secret
    BY <1>4, CredentialsAssumption DEF BeginRotate, ChangesTyped, Secret
  <2>2. new \in Rotation
    BY <2>1 DEF Rotation
  <2>3. change' = [change EXCEPT ![a] = new]
    BY <1>4 DEF BeginRotate
  <2> HIDE DEF new
  <2>4. change' \in [Admin -> Change]
    BY <1>0, <2>2, <2>3
  <2> QED BY <1>4, <2>1, <2>4 DEF BeginRotate, ChangesTyped
<1>5. ASSUME NEW a \in Admin, CommitRotate(a) PROVE ChangesTyped'
  <2>1. change[a] \in Rotation
    BY <1>5, Kinds DEF CommitRotate, Holds
  <2>2. change[a].to \in Secret
    BY <2>1 DEF Rotation
  <2>3. account' \in [status : AccountStatus, secret : Secret]
    BY <1>5, <2>2 DEF CommitRotate, ChangesTyped
  <2>4. change' = [change EXCEPT ![a] = NoChange]
    BY <1>5 DEF CommitRotate
  <2>5. change' \in [Admin -> Change]
    BY <1>0, <2>4
  <2> QED BY <1>5, <2>3, <2>5 DEF CommitRotate, ChangesTyped
<1>6. ASSUME NEW a \in Admin, NEW to \in TenantStatus, ReadTenant(a, to) PROVE ChangesTyped'
  <2> DEFINE new == [kind |-> "tenant", pc |-> "read", to |-> to, seen |-> tenant]
  <2>1. new \in TenantChange
    BY DEF ChangesTyped, TenantChange
  <2>2. change' = [change EXCEPT ![a] = new]
    BY <1>6 DEF ReadTenant
  <2> HIDE DEF new
  <2>3. change' \in [Admin -> Change]
    BY <1>0, <2>1, <2>2
  <2> QED BY <1>6, <2>3 DEF ReadTenant, ChangesTyped
<1>7. ASSUME NEW a \in Admin, UpdateTenant(a) PROVE ChangesTyped'
  <2> DEFINE new == [change[a] EXCEPT !.pc = "locked"]
  <2>1. change[a] \in TenantChange
    BY <1>7, Kinds DEF UpdateTenant
  <2>2. new \in TenantChange
    BY <2>1 DEF TenantChange
  <2>3. change' = [change EXCEPT ![a] = NoChange] \/ change' = [change EXCEPT ![a] = new]
    BY <1>7, <1>0 DEF UpdateTenant
  <2> HIDE DEF new
  <2>4. change' \in [Admin -> Change]
    BY <1>0, <2>2, <2>3
  <2> QED BY <1>7, <2>4 DEF UpdateTenant, ChangesTyped
<1>8. ASSUME NEW a \in Admin, CommitTenant(a) PROVE ChangesTyped'
  <2>1. change[a] \in TenantChange
    BY <1>8, Kinds DEF CommitTenant, Holds
  <2>2. change[a].to \in TenantStatus
    BY <2>1 DEF TenantChange
  <2>3. change' = [change EXCEPT ![a] = NoChange]
    BY <1>8 DEF CommitTenant
  <2>4. change' \in [Admin -> Change]
    BY <1>0, <2>3
  <2>5. trail' \in [account : AccountStatus, tenant : TenantStatus]
    <3> DEFINE said == IF change[a].seen = "active" /\ change[a].to = "suspended"
                       THEN "suspended" ELSE "active"
    <3>1. said \in TenantStatus
      BY DEF TenantStatus
    <3>2. trail' = [trail EXCEPT !.tenant = said]
      BY <1>8 DEF CommitTenant
    <3> HIDE DEF said
    <3> QED BY <3>1, <3>2 DEF ChangesTyped
  <2> QED BY <1>8, <2>2, <2>4, <2>5 DEF CommitTenant, ChangesTyped
<1>9. ASSUME UNCHANGED adminVars PROVE ChangesTyped'
  BY <1>9 DEF adminVars, ChangesTyped
<1>10. ASSUME NEW s \in Secret, UseToken(s) PROVE ChangesTyped'
  BY <1>10, <1>9 DEF UseToken
<1>11. ASSUME NEW x \in Exchange, NEW s \in Secret, LookUpAccount(x, s) PROVE ChangesTyped'
  BY <1>11, <1>9 DEF LookUpAccount
<1>12. ASSUME NEW x \in Exchange, IssueToken(x) PROVE ChangesTyped'
  BY <1>12, <1>9 DEF IssueToken
<1>13. CASE CredTick
  BY <1>13, <1>9 DEF CredTick
<1>14. CASE UNCHANGED credVars
  BY <1>14, <1>9 DEF credVars
<1> QED
  BY <1>1, <1>2, <1>3, <1>4, <1>5, <1>6, <1>7, <1>8, <1>10, <1>11, <1>12, <1>13, <1>14 DEF CredNext

-----------------------------------------------------------------------------
(* A request holds a row from its update to its end, and another comes to    *)
(* hold it only when nobody does.                                            *)
LEMMA LockedStep ==
    ChangesTyped /\ Locked /\ [CredNext]_credVars => Locked'
<1> SUFFICES ASSUME ChangesTyped, Locked, [CredNext]_credVars PROVE Locked'
  OBVIOUS
<1> DEFINE OnRow(a) == Holds(a, {"status", "rotate"})
<1>0. DOMAIN change = Admin
  BY DEF ChangesTyped
<1>a. ASSUME UNCHANGED <<change, account>> PROVE Locked'
  BY <1>a DEF Locked, Holds
(* ... of one that lets go, and sets nothing another waits to set; ...       *)
<1>b. ASSUME NEW a \in Admin, NEW new,
             new.kind # "none" => new.pc # "locked",
             change' = [change EXCEPT ![a] = new],
             account'.status # account.status => OnRow(a)
      PROVE  Locked'
  <2>1. \A b \in Admin : b # a => change'[b] = change[b]
    BY <1>b, <1>0
  <2>2. change'[a] = new
    BY <1>b, <1>0
  <2>3. \A kinds : "none" \notin kinds => ~(Holds(a, kinds))'
    BY <1>b, <2>2 DEF Holds
  <2>4. \A b \in Admin : OnRow(b)' => b # a /\ OnRow(b)
    BY <2>1, <2>3 DEF Holds
  <2>5. \A b \in Admin : Holds(b, {"status"})' =>
            b # a /\ Holds(b, {"status"}) /\ change[b] = change'[b] /\ OnRow(b)
    BY <2>1, <2>3 DEF Holds
  <2>6. \A b \in Admin : Holds(b, {"tenant"})' =>
            b # a /\ Holds(b, {"tenant"}) /\ change[b] = change'[b]
    BY <2>1, <2>3 DEF Holds
  <2>7. \A b \in Admin : OnRow(b) /\ b # a => account'.status = account.status
    BY <1>b DEF Locked
  <2> QED BY <2>4, <2>5, <2>6, <2>7 DEF Locked
(* ... of one that takes hold of a row nobody holds, to change it.           *)
<1>c. ASSUME NEW a \in Admin, NEW new,
             change' = [change EXCEPT ![a] = new],
             UNCHANGED account,
             new.kind \in {"status", "rotate"} => ~AccountLocked,
             new.kind = "status" => new.to # account.status,
             new.kind = "tenant" /\ new.pc = "locked" => new.to # new.seen
      PROVE  Locked'
  <2>1. \A b \in Admin : b # a => change'[b] = change[b]
    BY <1>c, <1>0
  <2>2. change'[a] = new
    BY <1>c, <1>0
  <2>3. \A b \in Admin : b # a => (OnRow(b)' <=> OnRow(b))
    BY <2>1 DEF Holds
  <2>4. OnRow(a)' => \A b \in Admin : ~OnRow(b)
    BY <1>c, <2>2 DEF Holds, AccountLocked
  <2>5. \A b, c \in Admin : OnRow(b)' /\ OnRow(c)' => b = c
    BY <2>3, <2>4 DEF Locked
  <2>6. \A b \in Admin : Holds(b, {"status"})' => change'[b].to # account'.status
    BY <1>c, <2>1, <2>2 DEF Locked, Holds
  <2>7. \A b \in Admin : Holds(b, {"tenant"})' => change'[b].to # change'[b].seen
    BY <1>c, <2>1, <2>2 DEF Locked, Holds
  <2> QED BY <2>5, <2>6, <2>7 DEF Locked
<1>n. NoChange.kind = "none"
  BY DEF NoChange
<1>d. ASSUME NEW a \in Admin, change' = [change EXCEPT ![a] = NoChange],
             account'.status = account.status
      PROVE  Locked'
  <2>2. NoChange.kind # "none" => NoChange.pc # "locked"
    BY <1>n
  <2>3. account'.status # account.status => OnRow(a)
    BY <1>d
  <2> QED BY <1>b, <1>d, <2>2, <2>3, Zenon
<1>1. ASSUME NEW a \in Admin, NEW to \in AccountStatus, BeginStatus(a, to) PROVE Locked'
  BY <1>1, <1>c DEF BeginStatus
<1>2. ASSUME NEW a \in Admin, CommitStatus(a) PROVE Locked'
  <2> DEFINE rest == [change[a] EXCEPT !.pc = "committed"]
  <2> DEFINE new == IF change[a].to = "revoked" THEN rest ELSE NoChange
  <2>1. change[a] \in StatusChange
    BY <1>2, Kinds DEF CommitStatus, Holds
  <2>2. rest \in StatusChange /\ rest.pc = "committed"
    BY <2>1 DEF StatusChange
  <2>3. rest.kind = "status"
    BY <2>2 DEF StatusChange
  <2>4. change' = [change EXCEPT ![a] = new]
    BY <1>2, <1>0 DEF CommitStatus
  <2>5. OnRow(a)
    BY <1>2 DEF CommitStatus, Holds
  <2> HIDE DEF rest
  <2>7. new.kind # "none" => new.pc # "locked"
    BY <2>2, <2>3, <1>n
  <2>8. account'.status # account.status => OnRow(a)
    BY <2>5
  <2> HIDE DEF new
  <2> QED BY <1>b, <2>4, <2>7, <2>8, Zenon
<1>3. ASSUME NEW a \in Admin, PublishRevocation(a) \/ RollbackChange(a) PROVE Locked'
  <2>1. change' = [change EXCEPT ![a] = NoChange] /\ account' = account
    BY <1>3 DEF PublishRevocation, RollbackChange
  <2> QED BY <1>d, <2>1, Zenon
<1>4. ASSUME NEW a \in Admin, BeginRotate(a) PROVE Locked'
  BY <1>4, <1>c DEF BeginRotate
<1>5. ASSUME NEW a \in Admin, CommitRotate(a) PROVE Locked'
  <2>1. change' = [change EXCEPT ![a] = NoChange]
    BY <1>5 DEF CommitRotate
  <2>2. account'.status = account.status
    BY <1>5 DEF CommitRotate, ChangesTyped
  <2> QED BY <1>d, <2>1, <2>2, Zenon
<1>6. ASSUME NEW a \in Admin, NEW to \in TenantStatus, ReadTenant(a, to) PROVE Locked'
  BY <1>6, <1>c DEF ReadTenant
<1>7. ASSUME NEW a \in Admin, UpdateTenant(a) PROVE Locked'
  <2> DEFINE new == [change[a] EXCEPT !.pc = "locked"]
  <2>1. change[a] \in TenantChange
    BY <1>7, Kinds DEF UpdateTenant
  <2>2. new \in TenantChange /\ new.to = change[a].to /\ new.seen = change[a].seen
    BY <2>1 DEF TenantChange
  <2>3. new.kind = "tenant"
    BY <2>2 DEF TenantChange
  <2>4. \/ change' = [change EXCEPT ![a] = NoChange]
        \/ change[a].to # change[a].seen /\ change' = [change EXCEPT ![a] = new]
    BY <1>7, <1>0 DEF UpdateTenant
  <2>5. account' = account
    BY <1>7 DEF UpdateTenant
  <2> HIDE DEF new
  <2>6. CASE change' = [change EXCEPT ![a] = NoChange]
    BY <1>d, <2>5, <2>6, Zenon
  <2>7. CASE change[a].to # change[a].seen /\ change' = [change EXCEPT ![a] = new]
    <3>1. /\ new.kind \notin {"status", "rotate"}
          /\ new.kind # "status"
          /\ new.to # new.seen
      BY <2>2, <2>3, <2>7
    <3> QED BY <1>c, <2>5, <2>7, <3>1
  <2> QED BY <2>4, <2>6, <2>7
<1>8. ASSUME NEW a \in Admin, CommitTenant(a) PROVE Locked'
  <2>1. change' = [change EXCEPT ![a] = NoChange] /\ account' = account
    BY <1>8 DEF CommitTenant
  <2> QED BY <1>d, <2>1, Zenon
<1>9. ASSUME NEW s \in Secret, UseToken(s) PROVE Locked'
  BY <1>9, <1>a DEF UseToken, adminVars
<1>10. ASSUME NEW x \in Exchange, NEW s \in Secret, LookUpAccount(x, s) PROVE Locked'
  BY <1>10, <1>a DEF LookUpAccount, adminVars
<1>11. ASSUME NEW x \in Exchange, IssueToken(x) PROVE Locked'
  BY <1>11, <1>a DEF IssueToken, adminVars
<1>12. CASE CredTick
  BY <1>12, <1>a DEF CredTick, adminVars
<1>13. CASE UNCHANGED credVars
  BY <1>13, <1>a DEF credVars, adminVars
<1> QED
  BY <1>1, <1>2, <1>3, <1>4, <1>5, <1>6, <1>7, <1>8, <1>9, <1>10, <1>11, <1>12, <1>13 DEF CredNext

(* A change of status that commits is one, and the trail has just its name;  *)
(* so is a tenant's, which suspends nobody but an active one.                *)
LEMMA TrailStep ==
    ChangesTyped /\ Locked /\ TrailIsTrue /\ [CredNext]_credVars => TrailIsTrue'
<1> SUFFICES ASSUME ChangesTyped, Locked, TrailIsTrue, [CredNext]_credVars PROVE TrailIsTrue'
  OBVIOUS
<1>a. ASSUME UNCHANGED <<account, tenant, trail, repeated>> PROVE TrailIsTrue'
  BY <1>a DEF TrailIsTrue
<1>1. ASSUME NEW a \in Admin, CommitStatus(a) PROVE TrailIsTrue'
  <2>1. change[a].to # account.status
    BY <1>1 DEF CommitStatus, Locked
  <2>2. account'.status = change[a].to
    BY <1>1 DEF CommitStatus, ChangesTyped
  <2>3. trail'.account = change[a].to /\ trail'.tenant = trail.tenant
    BY <1>1 DEF CommitStatus, ChangesTyped
  <2>4. ~repeated'
    BY <1>1, <2>1 DEF CommitStatus, TrailIsTrue
  <2>5. tenant' = tenant
    BY <1>1 DEF CommitStatus
  <2> QED BY <2>2, <2>3, <2>4, <2>5 DEF TrailIsTrue
<1>2. ASSUME NEW a \in Admin, CommitRotate(a) PROVE TrailIsTrue'
  <2>1. account'.status = account.status
    BY <1>2 DEF CommitRotate, ChangesTyped
  <2> QED BY <1>2, <2>1 DEF CommitRotate, TrailIsTrue
<1>3. ASSUME NEW a \in Admin, CommitTenant(a) PROVE TrailIsTrue'
  <2> DEFINE said == IF change[a].seen = "active" /\ change[a].to = "suspended"
                     THEN "suspended" ELSE "active"
  <2>1. change[a] \in TenantChange
    BY <1>3, Kinds DEF CommitTenant, Holds
  <2>2. change[a].to \in TenantStatus /\ change[a].seen \in TenantStatus
    BY <2>1 DEF TenantChange
  <2>3. change[a].to # change[a].seen
    BY <1>3 DEF CommitTenant, Locked
  <2>4. said = change[a].to
    BY <2>2, <2>3 DEF TenantStatus
  <2>5. trail' = [trail EXCEPT !.tenant = said]
    BY <1>3 DEF CommitTenant
  <2> HIDE DEF said
  <2>6. trail'.tenant = said /\ trail'.account = trail.account
    BY <2>5 DEF ChangesTyped
  <2> QED BY <1>3, <2>4, <2>6 DEF CommitTenant, TrailIsTrue
<1>4. ASSUME NEW a \in Admin, NEW to, BeginStatus(a, to) \/ ReadTenant(a, to) PROVE TrailIsTrue'
  BY <1>4, <1>a DEF BeginStatus, ReadTenant
<1>5. ASSUME NEW a \in Admin,
             PublishRevocation(a) \/ BeginRotate(a) \/ UpdateTenant(a) \/ RollbackChange(a)
      PROVE  TrailIsTrue'
  BY <1>5, <1>a DEF PublishRevocation, BeginRotate, UpdateTenant, RollbackChange
<1>6. ASSUME NEW s \in Secret, UseToken(s) PROVE TrailIsTrue'
  BY <1>6, <1>a DEF UseToken, adminVars
<1>7. ASSUME NEW x \in Exchange, NEW s \in Secret, LookUpAccount(x, s) PROVE TrailIsTrue'
  BY <1>7, <1>a DEF LookUpAccount, adminVars
<1>8. ASSUME NEW x \in Exchange, IssueToken(x) PROVE TrailIsTrue'
  BY <1>8, <1>a DEF IssueToken, adminVars
<1>9. CASE CredTick
  BY <1>9, <1>a DEF CredTick, adminVars
<1>10. CASE UNCHANGED credVars
  BY <1>10, <1>a DEF credVars, adminVars
<1> QED
  BY <1>1, <1>2, <1>3, <1>4, <1>5, <1>6, <1>7, <1>8, <1>9, <1>10 DEF CredNext

-----------------------------------------------------------------------------
(* What Revive does: it takes a secret that is good for a new one.           *)
LEMMA Revived ==
    ASSUME TokensTyped, Revive
    PROVE  /\ dead' \in [Secret -> 0 .. ExposureWindow]
           /\ \A s \in Secret : dead'[s] <= dead[s]
           /\ \A s \in Secret : ExchangeFailure(s)' = "none" => dead'[s] = 0
<1>1. \A s \in Secret : dead[s] \in 0 .. ExposureWindow
  BY DEF TokensTyped
<1>2. \A s \in Secret : dead'[s] = IF ExchangeFailure(s)' = "none" THEN 0 ELSE dead[s]
  BY DEF Revive
<1>3. DOMAIN dead' = Secret /\ dead' = [s \in Secret |-> dead'[s]]
  BY DEF Revive
<1>4. ExposureWindow \in Nat
  BY CredentialsAssumption DEF ExposureWindow
<1>5. \A s \in Secret : /\ dead'[s] \in 0 .. ExposureWindow
                         /\ dead'[s] <= dead[s]
  <2> TAKE s \in Secret
  <2>1. CASE ExchangeFailure(s)' = "none"
    BY <1>1, <1>2, <1>4, <2>1
  <2>2. CASE ExchangeFailure(s)' # "none"
    BY <1>1, <1>2, <1>4, <2>2
  <2> QED BY <2>1, <2>2
<1> QED BY <1>2, <1>3, <1>5

(* Whoever looked a secret up did so while it was good, and time passes for  *)
(* a dead secret, an exchange and a token alike.                             *)
LEMMA AgeingStep ==
    TokensTyped /\ Ageing /\ [CredNext]_credVars => TokensTyped' /\ Ageing'
<1> SUFFICES ASSUME TokensTyped, Ageing, [CredNext]_credVars PROVE TokensTyped' /\ Ageing'
  OBVIOUS
<1>0. /\ ServiceTtl \in Nat /\ MaxExchange \in Nat
      /\ ExposureWindow = ServiceTtl + MaxExchange
  BY CredentialsAssumption DEF ExposureWindow
<1>t. /\ \A s \in Secret : bearer[s] \in 0 .. ServiceTtl /\ dead[s] \in 0 .. ExposureWindow
      /\ \A x \in Exchange : exchange[x] # NoExchangeYet => exchange[x] \in Signing
  BY DEF TokensTyped
<1>x. \A x \in Exchange : exchange[x] # NoExchangeYet =>
          exchange[x].secret \in Secret /\ exchange[x].stay \in 0 .. MaxExchange
  BY <1>t DEF Signing
(* Administrators at work: nothing ages, and what they make good is alive.   *)
<1>a. ASSUME UNCHANGED <<account, tenant, exchange, bearer, dead>> PROVE TokensTyped' /\ Ageing'
  <2>1. \A s \in Secret : ExchangeFailure(s)' = ExchangeFailure(s)
    BY <1>a DEF ExchangeFailure
  <2> QED BY <1>a, <2>1 DEF TokensTyped, Ageing
<1>b. ASSUME UNCHANGED <<exchange, bearer>>, Revive PROVE TokensTyped' /\ Ageing'
  <2>1. /\ dead' \in [Secret -> 0 .. ExposureWindow]
        /\ \A s \in Secret : dead'[s] <= dead[s]
        /\ \A s \in Secret : ExchangeFailure(s)' = "none" => dead'[s] = 0
    BY <1>b, Revived
  <2>2. \A s \in Secret : dead'[s] \in 0 .. ExposureWindow
    BY <2>1
  <2>3. \A x \in Exchange : exchange'[x] # NoExchangeYet => dead'[exchange'[x].secret] <= exchange'[x].stay
    <3> SUFFICES ASSUME NEW x \in Exchange, exchange[x] # NoExchangeYet
                 PROVE  dead'[exchange[x].secret] <= exchange[x].stay
      BY <1>b
    <3>1. dead[exchange[x].secret] <= exchange[x].stay
      BY DEF Ageing
    <3> QED BY <1>t, <1>x, <2>1, <2>2, <3>1
  <2>4. \A s \in Secret : bearer'[s] > 0 => dead'[s] + bearer'[s] <= ExposureWindow
    <3> SUFFICES ASSUME NEW s \in Secret, bearer[s] > 0
                 PROVE  dead'[s] + bearer[s] <= ExposureWindow
      BY <1>b
    <3>1. dead[s] + bearer[s] <= ExposureWindow
      BY DEF Ageing
    <3> QED BY <1>0, <1>t, <2>1, <2>2, <3>1
  <2> QED BY <1>b, <2>1, <2>3, <2>4 DEF TokensTyped, Ageing
<1>1. ASSUME NEW a \in Admin, CommitStatus(a) \/ CommitRotate(a) \/ CommitTenant(a)
      PROVE  TokensTyped' /\ Ageing'
  BY <1>1, <1>b DEF CommitStatus, CommitRotate, CommitTenant, Kept
<1>2. ASSUME NEW a \in Admin, NEW to, BeginStatus(a, to) \/ ReadTenant(a, to)
      PROVE  TokensTyped' /\ Ageing'
  BY <1>2, <1>a DEF BeginStatus, ReadTenant, Elsewhere, Kept
<1>3. ASSUME NEW a \in Admin,
             PublishRevocation(a) \/ BeginRotate(a) \/ UpdateTenant(a) \/ RollbackChange(a)
      PROVE  TokensTyped' /\ Ageing'
  BY <1>3, <1>a DEF PublishRevocation, BeginRotate, UpdateTenant, RollbackChange, Elsewhere, Kept
<1>4. ASSUME NEW s \in Secret, UseToken(s) PROVE TokensTyped' /\ Ageing'
  BY <1>4, <1>a DEF UseToken, adminVars
(* A lookup finds the secret good, hence not dead at all.                    *)
<1>5. ASSUME NEW x \in Exchange, NEW s \in Secret, LookUpAccount(x, s) PROVE TokensTyped' /\ Ageing'
  <2> DEFINE new == [pc |-> "signing", secret |-> s, stay |-> 0]
  <2>1. new \in Signing /\ new.secret = s /\ new.stay = 0
    BY <1>0 DEF Signing
  <2>2. exchange' = [exchange EXCEPT ![x] = new]
    BY <1>5 DEF LookUpAccount
  <2> HIDE DEF new
  <2>3. exchange' \in [Exchange -> {NoExchangeYet} \cup Signing]
    BY <2>1, <2>2 DEF TokensTyped
  <2>4. UNCHANGED <<account, tenant, bearer, dead>>
    BY <1>5 DEF LookUpAccount, adminVars
  <2>5. dead[s] = 0
    BY <1>5 DEF LookUpAccount, Ageing
  <2>6. \A y \in Exchange : exchange'[y] = IF y = x THEN new ELSE exchange[y]
    BY <2>2 DEF TokensTyped
  <2>7. \A y \in Exchange : exchange'[y] # NoExchangeYet => dead'[exchange'[y].secret] <= exchange'[y].stay
    BY <2>1, <2>4, <2>5, <2>6 DEF Ageing
  <2>8. \A q \in Secret : ExchangeFailure(q)' = ExchangeFailure(q)
    BY <2>4 DEF ExchangeFailure
  <2> QED BY <2>3, <2>4, <2>7, <2>8 DEF TokensTyped, Ageing
(* A token begins with a lifetime, and its secret has been dead for no       *)
(* longer than the exchange took.                                            *)
<1>6. ASSUME NEW x \in Exchange, IssueToken(x) PROVE TokensTyped' /\ Ageing'
  <2> DEFINE s == exchange[x].secret
  <2>1. exchange[x] # NoExchangeYet
    BY <1>6 DEF IssueToken
  <2>2. s \in Secret /\ exchange[x].stay \in 0 .. MaxExchange /\ dead[s] <= exchange[x].stay
    BY <1>x, <2>1 DEF Ageing
  <2>3. bearer' = [bearer EXCEPT ![s] = ServiceTtl] /\ exchange' = [exchange EXCEPT ![x] = NoExchangeYet]
    BY <1>6 DEF IssueToken
  <2> HIDE DEF s
  <2>4. UNCHANGED <<account, tenant, dead>>
    BY <1>6 DEF IssueToken, adminVars
  <2>5. /\ exchange' \in [Exchange -> {NoExchangeYet} \cup Signing]
        /\ bearer' \in [Secret -> 0 .. ServiceTtl]
    <3>1. ServiceTtl \in 0 .. ServiceTtl
      BY <1>0
    <3>2. exchange' \in [Exchange -> {NoExchangeYet} \cup Signing]
      BY <2>3 DEF TokensTyped
    <3>3. bearer' \in [Secret -> 0 .. ServiceTtl]
      BY <2>3, <3>1 DEF TokensTyped
    <3> QED BY <3>2, <3>3
  <2>6. \A y \in Exchange : exchange'[y] # NoExchangeYet => exchange'[y] = exchange[y]
    BY <2>3 DEF TokensTyped
  <2>7. dead[s] + ServiceTtl <= ExposureWindow
    BY <1>0, <1>t, <2>2
  <2>8. \A q \in Secret : bearer'[q] = IF q = s THEN ServiceTtl ELSE bearer[q]
    BY <2>3 DEF TokensTyped
  <2>9. \A q \in Secret : bearer'[q] > 0 => dead'[q] + bearer'[q] <= ExposureWindow
    BY <2>4, <2>7, <2>8 DEF Ageing
  <2>10. \A q \in Secret : ExchangeFailure(q)' = ExchangeFailure(q)
    BY <2>4 DEF ExchangeFailure
  <2> QED BY <2>4, <2>5, <2>6, <2>9, <2>10 DEF TokensTyped, Ageing
(* Time: all of them grow or shrink by one.                                  *)
<1>7. CASE CredTick
  <2>1. UNCHANGED <<account, tenant>>
    BY <1>7 DEF CredTick, adminVars
  <2>2. \A q \in Secret : ExchangeFailure(q)' = ExchangeFailure(q)
    BY <2>1 DEF ExchangeFailure
  <2>3. \A q \in Secret : bearer'[q] = IF bearer[q] = 0 THEN 0 ELSE bearer[q] - 1
    BY <1>7 DEF CredTick
  <2>4. \A q \in Secret : dead'[q] = IF ExchangeFailure(q) = "none" THEN 0
                                     ELSE IF dead[q] < ExposureWindow THEN dead[q] + 1 ELSE dead[q]
    BY <1>7 DEF CredTick
  <2>5. \A q \in Secret : bearer'[q] \in 0 .. ServiceTtl
    BY <1>0, <1>t, <2>3
  <2>6. \A q \in Secret : dead'[q] \in 0 .. ExposureWindow /\ dead'[q] <= dead[q] + 1
    <3> TAKE q \in Secret
    <3>1. dead[q] \in 0 .. ExposureWindow
      BY <1>t
    <3> QED BY <1>0, <2>4, <3>1
  <2>7. bearer' \in [Secret -> 0 .. ServiceTtl] /\ dead' \in [Secret -> 0 .. ExposureWindow]
    <3>1. bearer' = [q \in Secret |-> bearer'[q]] /\ dead' = [q \in Secret |-> dead'[q]]
      BY <1>7 DEF CredTick
    <3> QED BY <2>5, <2>6, <3>1
  <2>8. \A x \in Exchange : exchange[x] = NoExchangeYet => exchange'[x] = NoExchangeYet
    BY <1>7 DEF CredTick
  <2>9. \A x \in Exchange : exchange[x] # NoExchangeYet =>
            /\ exchange'[x] \in Signing
            /\ exchange'[x].secret = exchange[x].secret
            /\ exchange'[x].stay = exchange[x].stay + 1
    <3> SUFFICES ASSUME NEW x \in Exchange, exchange[x] # NoExchangeYet
                 PROVE  /\ exchange'[x] \in Signing
                        /\ exchange'[x].secret = exchange[x].secret
                        /\ exchange'[x].stay = exchange[x].stay + 1
      OBVIOUS
    <3>1. exchange'[x] = [exchange[x] EXCEPT !.stay = @ + 1] /\ exchange[x].stay < MaxExchange
      BY <1>7 DEF CredTick
    <3>2. exchange[x] \in Signing
      BY <1>t
    <3>3. exchange[x].stay + 1 \in 0 .. MaxExchange
      BY <1>0, <1>x, <3>1
    <3> QED BY <3>1, <3>2, <3>3 DEF Signing
  <2>10. exchange' \in [Exchange -> {NoExchangeYet} \cup Signing]
    <3>1. exchange' = [x \in Exchange |-> exchange'[x]]
      BY <1>7 DEF CredTick
    <3> QED BY <2>8, <2>9, <3>1
  <2>11. \A x \in Exchange : exchange'[x] # NoExchangeYet => dead'[exchange'[x].secret] <= exchange'[x].stay
    <3> SUFFICES ASSUME NEW x \in Exchange, exchange'[x] # NoExchangeYet
                 PROVE  dead'[exchange'[x].secret] <= exchange'[x].stay
      OBVIOUS
    <3>1. exchange[x] # NoExchangeYet
      BY <2>8
    <3>2. dead[exchange[x].secret] <= exchange[x].stay
      BY <3>1 DEF Ageing
    <3>3. exchange'[x].secret = exchange[x].secret /\ exchange'[x].stay = exchange[x].stay + 1
      BY <2>9, <3>1
    <3>4. exchange[x].secret \in Secret /\ exchange[x].stay \in Nat
      BY <1>0, <1>x, <3>1
    <3>5. /\ dead[exchange[x].secret] \in Nat /\ dead'[exchange[x].secret] \in Nat
          /\ dead'[exchange[x].secret] <= dead[exchange[x].secret] + 1
      BY <1>0, <1>t, <2>6, <3>4
    <3> QED BY <3>2, <3>3, <3>4, <3>5
  <2>12. \A q \in Secret : bearer'[q] > 0 => dead'[q] + bearer'[q] <= ExposureWindow
    <3> SUFFICES ASSUME NEW q \in Secret, bearer'[q] > 0
                 PROVE  dead'[q] + bearer'[q] <= ExposureWindow
      OBVIOUS
    <3>1. bearer[q] \in Nat /\ dead[q] \in Nat /\ dead'[q] \in Nat
      BY <1>0, <1>t, <2>6
    <3>2. bearer[q] > 0 /\ bearer'[q] = bearer[q] - 1
      BY <2>3, <3>1
    <3>3. dead[q] + bearer[q] <= ExposureWindow
      BY <3>2 DEF Ageing
    <3> QED BY <1>0, <2>6, <3>1, <3>2, <3>3
  <2>13. \A q \in Secret : ExchangeFailure(q)' = "none" => dead'[q] = 0
    BY <2>2, <2>4
  <2> QED BY <2>7, <2>10, <2>11, <2>12, <2>13 DEF TokensTyped, Ageing
<1>8. CASE UNCHANGED credVars
  BY <1>8, <1>a DEF credVars, adminVars
<1> QED
  BY <1>1, <1>2, <1>3, <1>4, <1>5, <1>6, <1>7, <1>8 DEF CredNext

-----------------------------------------------------------------------------
LEMMA CredStart == CredInit => CredIInv
<1> SUFFICES ASSUME CredInit PROVE CredIInv
  OBVIOUS
<1>1. ServiceTtl \in Nat /\ ExposureWindow \in Nat /\ 0 \in Secret
  BY CredentialsAssumption DEF ExposureWindow, Secret
<1>2. \A a \in Admin : \A kinds : "none" \notin kinds => ~Holds(a, kinds)
  BY DEF CredInit, Holds, NoChange
<1>3. ChangesTyped
  BY <1>1 DEF CredInit, ChangesTyped, AccountStatus, TenantStatus
<1>4. Locked
  BY <1>2 DEF Locked
<1>5. TokensTyped
  BY <1>1 DEF CredInit, TokensTyped
<1>6. Ageing
  BY <1>1 DEF CredInit, Ageing
<1>7. TrailIsTrue
  BY DEF CredInit, TrailIsTrue
<1> QED BY <1>3, <1>4, <1>5, <1>6, <1>7 DEF CredIInv

LEMMA CredStep == CredIInv /\ [CredNext]_credVars => CredIInv'
BY ChangesStep, LockedStep, TrailStep, AgeingStep DEF CredIInv

(* ServiceCredentials: rows are held one at a time, ages bounded.            *)
THEOREM CredInvariant == CredSpec => []CredIInv
<1> QED BY CredStart, CredStep, PTL DEF CredSpec

(* "The exposure window is bounded by the TTL, and it is bounded whether the *)
(* revocation was noticed or not", for any lifetime, and however many        *)
(* rotations, revocations, suspensions and exchanges overlap.                *)
THEOREM Exposure == CredSpec => []ExposureBounded
<1>1. CredIInv => ExposureBounded
  <2> SUFFICES ASSUME CredIInv, NEW s \in Secret, dead[s] = ExposureWindow PROVE bearer[s] = 0
    BY DEF ExposureBounded
  <2>1. bearer[s] \in Nat /\ ExposureWindow \in Nat
    BY CredentialsAssumption DEF CredIInv, TokensTyped, ExposureWindow
  <2>2. bearer[s] > 0 => dead[s] + bearer[s] <= ExposureWindow
    BY DEF CredIInv, Ageing
  <2> QED BY <2>1, <2>2
<1> QED BY <1>1, CredInvariant, PTL

(* The trail's last word on the account and on its tenant is what they are,  *)
(* and it never says of the account what it has said already, however        *)
(* administrators overlap, wait for each other and roll back.                *)
THEOREM Trail == CredSpec => []TrailIsTrue
<1>1. CredIInv => TrailIsTrue
  BY DEF CredIInv
<1> QED BY <1>1, CredInvariant, PTL

-----------------------------------------------------------------------------
(* KeyRotation.  A key is published, then signs, then is kept for the tokens *)
(* it signed, then is gone; and the notes say which, with the time.          *)
KeyLife(k) ==
    /\ k \in Jwks(env) => withdrawn[k] = Never
    /\ k = env.signer => published[k] = Never /\ deactivated[k] = Never
    /\ k \in env.retained => (published[k] = Never <=> deactivated[k] # Never)
    /\ k \notin Jwks(env) => published[k] = Never /\ deactivated[k] = Never
KeyLives == \A k \in Key : KeyLife(k)

(* It has signed; it may have to be known for that.                          *)
InUse(k) == k = env.signer \/ deactivated[k] # Never

(* What an instance booted with was in force when the step that is longest   *)
(* on its way was taken, or has been since: so it has every key published    *)
(* before that, lacks every key withdrawn before, and signs with one that    *)
(* signed then.                                                              *)
Behind(i, k) ==
    /\ published[k] > rollout => k \in Jwks(deployed[i])
    /\ k \in Jwks(deployed[i]) /\ withdrawn[k] # Never => withdrawn[k] <= rollout
    /\ ~forced /\ InUse(k) => k \in Jwks(deployed[i])
    /\ ~forced /\ k = deployed[i].signer /\ k # env.signer
          => deactivated[k] # Never /\ deactivated[k] <= rollout
InstancesBehind == \A i \in Instance, k \in Key : Behind(i, k)

(* A token's key signs, or has not been off duty for longer than the token's *)
(* age allows, ...                                                           *)
TokenHasItsKey ==
    ~forced /\ token.left > 0 =>
        /\ InUse(token.kid)
        /\ deactivated[token.kid] # Never
              => deactivated[token.kid] + token.left <= TokenTtl + MaxDeploy

(* ... and the cached keys are the instances', as much older as the cache.   *)
Cached(k) ==
    /\ published[k] > cache.age + MaxDeploy /\ cache.age < OldCache => k \in cache.keys
    /\ k \in cache.keys /\ withdrawn[k] # Never => withdrawn[k] <= cache.age + MaxDeploy
    /\ ~forced /\ InUse(k) /\ cache.age < JwksMaxAge => k \in cache.keys
CacheBehind == cache # NoCache => \A k \in Key : Cached(k)

(* No verification waits for more than two requests.                         *)
Forced(c) == IF call[c].forcing THEN MaxFetch ELSE 0
CallInTime(c) ==
    call[c] # NoCall =>
        /\ call[c].pc = "consulting" => call[c].age <= Forced(c)
        /\ call[c].pc = "waiting" => flight # NoFlight /\ call[c].age <= flight.open + Forced(c)
FlightInTime == flight # NoFlight => flight.age <= flight.open + MaxFetch
CallsInTime == FlightInTime /\ \A c \in Call : CallInTime(c)

(* A verification of the token, and what it has or will find.                *)
OfToken(c) == call[c] # NoCall /\ call[c].kid # Stranger /\ token.left > 0
FindsKey(c) ==
    OfToken(c) =>
        /\ call[c].kid = token.kid
        /\ ~forced /\ cache # NoCache /\ Age(c) < JwksMaxAge => call[c].kid \in cache.keys
        /\ ~forced /\ call[c].held => cache # NoCache /\ call[c].kid \in cache.keys
CallsFindKey == \A c \in Call : FindsKey(c)

(* Nothing but a key's signature is accepted.                                *)
SignedByKeys == \A c \in Call : call[c] # NoCall /\ call[c].pc = "accepted" => call[c].kid \in Key

RotIInv == /\ RotTypeOK /\ KeyLives /\ InstancesBehind /\ TokenHasItsKey /\ CacheBehind
           /\ CallsInTime /\ CallsFindKey /\ SignedByKeys
           /\ RotationRefusesNobody /\ JwksCacheSound

-----------------------------------------------------------------------------
(* The durations are numbers, and the waits longer than a deployment.        *)
LEMMA Durations ==
    /\ JwksMaxAge \in Nat /\ MinRefetch \in Nat /\ VerifyLeeway \in Nat /\ TokenTtl \in Nat
    /\ MaxDeploy \in Nat /\ MaxFetch \in Nat
    /\ JwksMaxAge >= 1 /\ TokenTtl >= 1 /\ MaxDeploy <= VerifyLeeway /\ MinRefetch <= JwksMaxAge
    /\ Never = -1 /\ Stay = 2 * MaxFetch /\ OldCache = JwksMaxAge + Stay
    /\ PropagationWait = JwksMaxAge + VerifyLeeway /\ RetentionWait = TokenTtl + VerifyLeeway
    /\ ForgottenAfter = MaxDeploy + JwksMaxAge + MaxFetch
    /\ LongExpired = 0 - (VerifyLeeway + Stay)
    /\ Stay \in Nat /\ OldCache \in Nat /\ PropagationWait \in Nat /\ RetentionWait \in Nat
    /\ ForgottenAfter \in Nat /\ LongExpired \in Int /\ LongExpired <= 0
<1>1. /\ JwksMaxAge \in Nat /\ MinRefetch \in Nat /\ VerifyLeeway \in Nat /\ TokenTtl \in Nat
      /\ MaxDeploy \in Nat /\ MaxFetch \in Nat
      /\ JwksMaxAge # 0 /\ TokenTtl # 0 /\ MaxDeploy <= VerifyLeeway /\ MinRefetch <= JwksMaxAge
  BY RotationAssumption
<1>2. /\ Never = -1 /\ Stay = 2 * MaxFetch /\ OldCache = JwksMaxAge + Stay
      /\ PropagationWait = JwksMaxAge + VerifyLeeway /\ RetentionWait = TokenTtl + VerifyLeeway
      /\ ForgottenAfter = MaxDeploy + JwksMaxAge + MaxFetch
      /\ LongExpired = 0 - (VerifyLeeway + Stay)
  BY DEF Never, Stay, OldCache, PropagationWait, RetentionWait, ForgottenAfter, LongExpired
<1> QED BY <1>1, <1>2

(* A clock that stops at its cap, or was never started.                      *)
LEMMA Clocks ==
    ASSUME NEW cap \in Nat, NEW n \in 0 .. cap \cup {Never}
    PROVE  /\ Later(n, cap) \in 0 .. cap \cup {Never}
           /\ (Later(n, cap) = Never) <=> (n = Never)
           /\ n <= Later(n, cap) /\ Later(n, cap) <= n + 1
           /\ n # Never /\ n < cap => Later(n, cap) = n + 1
  BY DEF Later, Never

(* What the verifier and the token are when they are something.              *)
CallRec == [pc : {"consulting", "waiting", "accepted", "refused"}, forcing : BOOLEAN,
            kid : Key \cup {Stranger}, age : 0 .. Stay, held : BOOLEAN]
CacheRec == [keys : SUBSET Key, age : 0 .. OldCache]
FlightRec == [age : 0 .. Stay, open : 0 .. MaxFetch]
TokenRec == [kid : Key, left : LongExpired + 1 .. TokenTtl]

LEMMA Parts ==
    ASSUME RotTypeOK
    PROVE  /\ token.left \in Int /\ LongExpired <= token.left /\ token.left <= TokenTtl
           /\ token # NoToken => token \in TokenRec /\ token.kid \in Key
           /\ token = NoToken => token.left <= 0
           /\ cache # NoCache => cache \in CacheRec /\ cache.keys \subseteq Key
                                 /\ cache.age \in 0 .. OldCache
           /\ flight # NoFlight => flight \in FlightRec /\ flight.age \in 0 .. Stay
                                   /\ flight.open \in 0 .. MaxFetch
           /\ \A c \in Call : call[c] # NoCall =>
                 call[c] \in CallRec /\ call[c].age \in 0 .. Stay /\ call[c].kid \in Key \cup {Stranger}
           /\ \A k \in Key : /\ published[k] \in 0 .. PropagationWait \cup {Never}
                             /\ deactivated[k] \in 0 .. RetentionWait \cup {Never}
                             /\ withdrawn[k] \in 0 .. ForgottenAfter \cup {Never}
           /\ env.signer \in Key /\ env.retained \subseteq Key /\ env.signer \notin env.retained
           /\ \A i \in Instance : deployed[i].signer \in Key /\ deployed[i].retained \subseteq Key
           /\ rollout \in 0 .. MaxDeploy
<1>1. token \in TokenRec \cup {NoToken} /\ NoToken.left = LongExpired
  BY DEF RotTypeOK, TokenRec, NoToken
<1>2. /\ token.left \in Int /\ LongExpired <= token.left /\ token.left <= TokenTtl
      /\ token # NoToken => token \in TokenRec /\ token.kid \in Key
      /\ token = NoToken => token.left <= 0
  BY <1>1, Durations DEF TokenRec
<1>3. /\ cache # NoCache => cache \in CacheRec /\ cache.keys \subseteq Key /\ cache.age \in 0 .. OldCache
      /\ flight # NoFlight => flight \in FlightRec /\ flight.age \in 0 .. Stay
                              /\ flight.open \in 0 .. MaxFetch
  BY DEF RotTypeOK, CacheRec, FlightRec
<1>4. \A c \in Call : call[c] # NoCall =>
          call[c] \in CallRec /\ call[c].age \in 0 .. Stay /\ call[c].kid \in Key \cup {Stranger}
  BY DEF RotTypeOK, CallRec
<1>5. /\ \A k \in Key : /\ published[k] \in 0 .. PropagationWait \cup {Never}
                        /\ deactivated[k] \in 0 .. RetentionWait \cup {Never}
                        /\ withdrawn[k] \in 0 .. ForgottenAfter \cup {Never}
      /\ env.signer \in Key /\ env.retained \subseteq Key /\ env.signer \notin env.retained
      /\ \A i \in Instance : deployed[i].signer \in Key /\ deployed[i].retained \subseteq Key
      /\ rollout \in 0 .. MaxDeploy
  BY DEF RotTypeOK, RotEnvironment
<1> QED BY <1>2, <1>3, <1>4, <1>5

(* The kinds of step, by what they leave alone.                              *)
OperatorStep == \E k \in Key : PublishKey(k) \/ ActivateKey(k) \/ RetireKey(k)
VerifierStep == \/ \E i \in Instance : FetchAnswered(i)
                \/ \E c \in Call : Verify(c) \/ Consult(c) \/ Refresh(c) \/ Done(c)
                \/ FetchFailed

LEMMA StepKinds ==
    /\ RotNext => \/ OperatorStep \/ (\E i \in Instance : Boot(i) \/ Issue(i))
                  \/ VerifierStep \/ RotTick
    /\ OperatorStep => UNCHANGED <<deployed, token, verifierVars>>
    /\ VerifierStep => UNCHANGED <<operatorVars, deployed, token>>
<1>1. RotNext => \/ OperatorStep \/ (\E i \in Instance : Boot(i) \/ Issue(i))
                 \/ VerifierStep \/ RotTick
  BY DEF RotNext, OperatorStep, VerifierStep
<1>2. OperatorStep => UNCHANGED <<deployed, token, verifierVars>>
  BY DEF OperatorStep, PublishKey, ActivateKey, RetireKey, Apply
<1>3. VerifierStep => UNCHANGED <<operatorVars, deployed, token>>
  BY DEF VerifierStep, FetchAnswered, Verify, Consult, Refresh, Done, FetchFailed
<1> QED BY <1>1, <1>2, <1>3

-----------------------------------------------------------------------------
(* Whatever a caller makes of a key set is a verification still.             *)
LEMMA JudgedCalls ==
    ASSUME RotTypeOK, NEW c \in Call, call[c] # NoCall, NEW keys
    PROVE  /\ Judged(c, keys) \in CallRec /\ Judged(c, keys) # NoCall
           /\ Judged(c, keys).kid = call[c].kid /\ Judged(c, keys).age = call[c].age
           /\ Judged(c, keys).held = call[c].held /\ Judged(c, keys).forcing = TRUE
           /\ Judged(c, keys).pc = "accepted" <=> call[c].kid \in keys /\ ~Expired(c)
           /\ Judged(c, keys).pc = "consulting" <=> call[c].kid \notin keys /\ call[c].forcing = FALSE
           /\ Judged(c, keys).pc \in {"accepted", "refused", "consulting"}
<1>1. call[c] \in CallRec
  BY Parts
<1>2. /\ Judged(c, keys) \in CallRec
      /\ Judged(c, keys).kid = call[c].kid /\ Judged(c, keys).age = call[c].age
      /\ Judged(c, keys).held = call[c].held /\ Judged(c, keys).forcing = TRUE
      /\ Judged(c, keys).pc = IF call[c].kid \in keys
                              THEN IF Expired(c) THEN "refused" ELSE "accepted"
                              ELSE IF call[c].forcing THEN "refused" ELSE "consulting"
  BY <1>1 DEF CallRec, Judged
<1>3. /\ Judged(c, keys).pc \in {"accepted", "refused", "consulting"}
      /\ Judged(c, keys).pc = "accepted" <=> call[c].kid \in keys /\ ~Expired(c)
      /\ Judged(c, keys).pc = "consulting" <=> call[c].kid \notin keys /\ call[c].forcing = FALSE
  <2>1. call[c].forcing \in BOOLEAN
    BY <1>1 DEF CallRec
  <2> QED BY <1>2, <2>1
<1> QED BY <1>2, <1>3 DEF NoCall

(* What Landed does, to each verification.                                   *)
LEMMA LandedCalls ==
    ASSUME RotTypeOK, NEW keys, Landed(keys), NEW c \in Call
    PROVE  /\ call' \in [Call -> {NoCall} \cup CallRec]
           /\ call'[c] = IF c \in Waiting THEN Judged(c, keys) ELSE call[c]
           /\ c \in Waiting <=> call[c] # NoCall /\ call[c].pc = "waiting"
           /\ flight' = NoFlight
<1>1. /\ call' = [d \in Call |-> IF d \in Waiting THEN Judged(d, keys) ELSE call[d]]
      /\ flight' = NoFlight
  BY DEF Landed
<1>2. \A d \in Call : d \in Waiting <=> call[d] # NoCall /\ call[d].pc = "waiting"
  BY DEF Waiting
<1>3. \A d \in Call : d \in Waiting => Judged(d, keys) \in CallRec
  BY <1>2, JudgedCalls
<1>4. \A d \in Call : call[d] \in {NoCall} \cup CallRec
  BY Parts
<1>5. call' \in [Call -> {NoCall} \cup CallRec]
  BY <1>1, <1>3, <1>4
<1> QED BY <1>1, <1>2, <1>5

LEMMA OperatorTypes == RotTypeOK /\ OperatorStep => RotTypeOK'
<1> SUFFICES ASSUME RotTypeOK, OperatorStep PROVE RotTypeOK'
  OBVIOUS
<1>0. UNCHANGED <<deployed, token, verifierVars>>
  BY StepKinds
<1>1. PICK k \in Key : PublishKey(k) \/ ActivateKey(k) \/ RetireKey(k)
  BY DEF OperatorStep
<1>2. 0 \in 0 .. PropagationWait /\ 0 \in 0 .. RetentionWait /\ 0 \in 0 .. ForgottenAfter
  BY Durations
<1>3. /\ published' \in [Key -> 0 .. PropagationWait \cup {Never}]
      /\ deactivated' \in [Key -> 0 .. RetentionWait \cup {Never}]
      /\ withdrawn' \in [Key -> 0 .. ForgottenAfter \cup {Never}]
      /\ forced' \in BOOLEAN
  BY <1>1, <1>2 DEF RotTypeOK, PublishKey, ActivateKey, RetireKey, Due
<1>4. env' \in RotEnvironment /\ env'.signer \notin env'.retained
  <2>1. env \in RotEnvironment /\ env.signer \notin env.retained
    BY DEF RotTypeOK
  <2>2. CASE PublishKey(k)
    BY <2>1, <2>2 DEF PublishKey, Apply, RotEnvironment, Jwks
  <2>3. CASE ActivateKey(k)
    BY <2>1, <2>3 DEF ActivateKey, Apply, RotEnvironment
  <2>4. CASE RetireKey(k)
    BY <2>1, <2>4 DEF RetireKey, Apply, RotEnvironment
  <2> QED BY <1>1, <2>2, <2>3, <2>4
<1>5. rollout' \in 0 .. MaxDeploy
  <2>1. rollout' \in {rollout, 0}
    BY <1>1 DEF PublishKey, ActivateKey, RetireKey, Apply
  <2> QED BY <2>1, Parts, Durations
<1> QED BY <1>0, <1>3, <1>4, <1>5 DEF RotTypeOK, verifierVars

LEMMA VerifierTypes == RotTypeOK /\ VerifierStep => RotTypeOK'
<1> SUFFICES ASSUME RotTypeOK, VerifierStep PROVE RotTypeOK'
  OBVIOUS
<1>0. UNCHANGED <<operatorVars, deployed, token>>
  BY StepKinds
<1> SUFFICES /\ cache' \in CacheRec \cup {NoCache} /\ flight' \in FlightRec \cup {NoFlight}
             /\ call' \in [Call -> {NoCall} \cup CallRec] /\ outage' \in BOOLEAN
  BY <1>0 DEF RotTypeOK, CacheRec, FlightRec, CallRec, operatorVars
<1>a. /\ cache \in CacheRec \cup {NoCache} /\ flight \in FlightRec \cup {NoFlight}
      /\ call \in [Call -> {NoCall} \cup CallRec] /\ outage \in BOOLEAN
  BY DEF RotTypeOK, CacheRec, FlightRec, CallRec
<1>b. \A q \in CallRec, pc \in {"consulting", "waiting", "accepted", "refused"} :
          [q EXCEPT !.pc = pc] \in CallRec
  BY DEF CallRec
<1>1. ASSUME NEW i \in Instance, FetchAnswered(i)
      PROVE  cache' \in CacheRec /\ flight' = NoFlight /\ call' \in [Call -> {NoCall} \cup CallRec]
             /\ outage' = outage
  <2>1. Landed(Jwks(deployed[i])) /\ outage' = outage /\ flight # NoFlight
        /\ cache' = [keys |-> Jwks(deployed[i]), age |-> flight.age]
    BY <1>1 DEF FetchAnswered
  <2>2. Jwks(deployed[i]) \subseteq Key /\ flight.age \in 0 .. OldCache
    BY <2>1, Parts, Durations DEF Jwks
  <2>3. call' \in [Call -> {NoCall} \cup CallRec]
    BY <2>1, LandedCalls DEF Landed, Waiting
  <2> QED BY <2>1, <2>2, <2>3 DEF CacheRec, Landed
<1>2. ASSUME NEW c \in Call, Verify(c)
      PROVE  call' \in [Call -> {NoCall} \cup CallRec] /\ UNCHANGED <<cache, flight, outage>>
  <2>1. PICK kid \in {Stranger} \cup (IF token = NoToken THEN {} ELSE {token.kid}) :
          call' = [call EXCEPT ![c] =
              [pc |-> "consulting", forcing |-> FALSE, kid |-> kid, age |-> 0,
               held |-> IF cache = NoCache THEN FALSE ELSE kid \in cache.keys]]
    BY <1>2 DEF Verify
  <2>2. kid \in Key \cup {Stranger} /\ 0 \in 0 .. Stay
    BY <2>1, Parts, Durations
  <2> DEFINE held == IF cache = NoCache THEN FALSE ELSE kid \in cache.keys
  <2>3. held \in BOOLEAN
    <3>1. CASE cache = NoCache
      BY <3>1
    <3>2. CASE cache # NoCache
      BY <3>2
    <3> QED BY <3>1, <3>2
  <2> HIDE DEF held
  <2>4. [pc |-> "consulting", forcing |-> FALSE, kid |-> kid, age |-> 0, held |-> held] \in CallRec
    BY <2>2, <2>3 DEF CallRec
  <2>5. call' = [call EXCEPT ![c] = [pc |-> "consulting", forcing |-> FALSE, kid |-> kid, age |-> 0, held |-> held]]
    BY <2>1 DEF held
  <2> QED BY <1>2, <1>a, <2>4, <2>5 DEF Verify
<1>3. ASSUME NEW c \in Call, Consult(c)
      PROVE  call' \in [Call -> {NoCall} \cup CallRec] /\ UNCHANGED <<cache, flight, outage>>
  <2>1. Judged(c, cache.keys) \in CallRec
    BY <1>3, JudgedCalls DEF Consult
  <2> QED BY <1>3, <1>a, <2>1 DEF Consult
<1>4. ASSUME NEW c \in Call, Refresh(c)
      PROVE  call' \in [Call -> {NoCall} \cup CallRec] /\ flight' \in FlightRec \cup {NoFlight}
             /\ UNCHANGED <<cache, outage>>
  <2>1. call[c] \in CallRec /\ [age |-> call[c].age, open |-> 0] \in FlightRec
    BY <1>4, Parts, Durations DEF Refresh, FlightRec
  <2> QED BY <1>4, <1>a, <1>b, <2>1 DEF Refresh
<1>5. ASSUME NEW c \in Call, Done(c)
      PROVE  call' \in [Call -> {NoCall} \cup CallRec] /\ UNCHANGED <<cache, flight, outage>>
  BY <1>5, <1>a DEF Done
<1>6. CASE FetchFailed
  <2>1. CASE cache = NoCache
    <3>1. call' = [c \in Call |-> IF c \in Waiting THEN [call[c] EXCEPT !.pc = "refused"] ELSE call[c]]
          /\ flight' = NoFlight /\ cache' = cache /\ outage' = TRUE
      BY <1>6, <2>1 DEF FetchFailed
    <3>2. \A c \in Waiting : [call[c] EXCEPT !.pc = "refused"] \in CallRec
      BY <1>b, Parts DEF Waiting
    <3> QED BY <1>a, <3>1, <3>2
  <2>2. CASE cache # NoCache
    BY <1>6, <1>a, <2>2, LandedCalls DEF FetchFailed, Landed, Waiting
  <2> QED BY <2>1, <2>2
<1> QED BY <1>a, <1>1, <1>2, <1>3, <1>4, <1>5, <1>6 DEF VerifierStep

(* What time does, to each variable.                                         *)
LEMMA KeysTick ==
    ASSUME RotTypeOK, CallsInTime, RotTick
    PROVE  /\ UNCHANGED <<env, deployed, forced, outage>>
           /\ \A k \in Key : /\ published'[k] = Later(published[k], PropagationWait)
                             /\ deactivated'[k] = Later(deactivated[k], RetentionWait)
                             /\ withdrawn'[k] = Later(withdrawn[k], ForgottenAfter)
           /\ Deploying => rollout' = rollout + 1 /\ rollout < MaxDeploy
           /\ ~Deploying => rollout' = 0
           /\ token' = NoToken \/ (token # NoToken /\ token' = [token EXCEPT !.left = @ - 1]
                                   /\ LongExpired + 1 < token.left)
           /\ cache = NoCache => cache' = NoCache
           /\ cache # NoCache => /\ cache' # NoCache /\ cache'.keys = cache.keys
                                 /\ cache'.age = Later(cache.age, OldCache)
           /\ flight = NoFlight => flight' = NoFlight
           /\ flight # NoFlight =>
                 /\ flight' = [age |-> flight.age + 1, open |-> flight.open + 1]
                 /\ flight.open < MaxFetch /\ flight.age + 1 <= Stay
           /\ \A c \in Call : call[c] = NoCall => call'[c] = NoCall
           /\ \A c \in Call : call[c] # NoCall =>
                 /\ call[c].pc = "waiting" /\ flight # NoFlight /\ call[c].age + 1 <= Stay
                 /\ call'[c] = [call[c] EXCEPT !.age = @ + 1]
<1>1. /\ UNCHANGED <<env, deployed, forced, outage>>
      /\ \A k \in Key : /\ published'[k] = Later(published[k], PropagationWait)
                        /\ deactivated'[k] = Later(deactivated[k], RetentionWait)
                        /\ withdrawn'[k] = Later(withdrawn[k], ForgottenAfter)
      /\ Deploying => rollout' = rollout + 1 /\ rollout < MaxDeploy
      /\ ~Deploying => rollout' = 0
      /\ flight = NoFlight => flight' = NoFlight
      /\ flight # NoFlight => flight' = [age |-> flight.age + 1, open |-> flight.open + 1]
                              /\ flight.open < MaxFetch
      /\ \A c \in Call : call[c] = NoCall => call'[c] = NoCall
      /\ \A c \in Call : call[c] # NoCall => call[c].pc = "waiting" /\ call'[c] = [call[c] EXCEPT !.age = @ + 1]
  BY DEF RotTick
<1>2. token' = NoToken \/ (token # NoToken /\ token' = [token EXCEPT !.left = @ - 1]
                           /\ LongExpired + 1 < token.left)
  <2>1. token' = IF token.left <= LongExpired + 1 THEN NoToken ELSE [token EXCEPT !.left = @ - 1]
    BY DEF RotTick
  <2>2. NoToken.left = LongExpired
    BY DEF NoToken
  <2> QED BY <2>1, <2>2, Parts, Durations
<1>3. cache' = [cache EXCEPT !.age = Later(cache.age, OldCache)]
  BY DEF RotTick
<1>4. cache = NoCache => cache' = NoCache
  <2>1. Later(Never, OldCache) = Never
    BY DEF Later
  <2> QED BY <1>3, <2>1 DEF NoCache
<1>5. cache # NoCache => /\ cache' # NoCache /\ cache'.keys = cache.keys
                         /\ cache'.age = Later(cache.age, OldCache)
  <2> SUFFICES ASSUME cache # NoCache
               PROVE  /\ cache' # NoCache /\ cache'.keys = cache.keys
                      /\ cache'.age = Later(cache.age, OldCache)
    OBVIOUS
  <2>1. cache \in CacheRec /\ cache.age \in 0 .. OldCache
    BY Parts
  <2>2. cache'.keys = cache.keys /\ cache'.age = Later(cache.age, OldCache)
    BY <1>3, <2>1 DEF CacheRec
  <2>3. cache'.age # Never
    BY <2>1, <2>2, Clocks, Durations
  <2> QED BY <2>2, <2>3 DEF NoCache
<1>6. flight # NoFlight => flight.age + 1 <= Stay
  <2> SUFFICES ASSUME flight # NoFlight PROVE flight.age + 1 <= Stay
    OBVIOUS
  <2>1. flight.open < MaxFetch /\ flight.age <= flight.open + MaxFetch
    BY <1>1 DEF CallsInTime, CallInTime, FlightInTime
  <2> QED BY <2>1, Parts, Durations
<1>7. \A c \in Call : call[c] # NoCall => flight # NoFlight /\ call[c].age + 1 <= Stay
  <2> SUFFICES ASSUME NEW c \in Call, call[c] # NoCall
               PROVE  flight # NoFlight /\ call[c].age + 1 <= Stay
    OBVIOUS
  <2>1. flight # NoFlight /\ call[c].age <= flight.open + Forced(c) /\ flight.open < MaxFetch
    BY <1>1 DEF CallsInTime, CallInTime, FlightInTime
  <2>2. Forced(c) \in Nat /\ Forced(c) <= MaxFetch
    BY Durations DEF Forced
  <2> QED BY <2>1, <2>2, Parts, Durations
<1> QED BY <1>1, <1>2, <1>4, <1>5, <1>6, <1>7

LEMMA TickTypes == RotTypeOK /\ CallsInTime /\ RotTick => RotTypeOK'
<1> SUFFICES ASSUME RotTypeOK, CallsInTime, RotTick PROVE RotTypeOK'
  OBVIOUS
<1>1. /\ published' \in [Key -> 0 .. PropagationWait \cup {Never}]
      /\ deactivated' \in [Key -> 0 .. RetentionWait \cup {Never}]
      /\ withdrawn' \in [Key -> 0 .. ForgottenAfter \cup {Never}]
  <2>1. /\ published' = [k \in Key |-> Later(published[k], PropagationWait)]
        /\ deactivated' = [k \in Key |-> Later(deactivated[k], RetentionWait)]
        /\ withdrawn' = [k \in Key |-> Later(withdrawn[k], ForgottenAfter)]
    BY DEF RotTick
  <2>2. \A k \in Key : /\ Later(published[k], PropagationWait) \in 0 .. PropagationWait \cup {Never}
                       /\ Later(deactivated[k], RetentionWait) \in 0 .. RetentionWait \cup {Never}
                       /\ Later(withdrawn[k], ForgottenAfter) \in 0 .. ForgottenAfter \cup {Never}
    BY Parts, Clocks, Durations
  <2> QED BY <2>1, <2>2
<1>2. rollout' \in 0 .. MaxDeploy
  BY KeysTick, Parts, Durations
<1>3. token' \in TokenRec \cup {NoToken}
  <2>1. ASSUME token # NoToken, token' = [token EXCEPT !.left = @ - 1], LongExpired + 1 < token.left
        PROVE  token' \in TokenRec
    <3>1. token \in TokenRec /\ token.left \in Int /\ token.left - 1 \in LongExpired + 1 .. TokenTtl
      BY <2>1, Parts, Durations
    <3> QED BY <2>1, <3>1 DEF TokenRec
  <2> QED BY <2>1, KeysTick
<1>4. cache' \in CacheRec \cup {NoCache}
  <2>1. ASSUME cache # NoCache PROVE cache' \in CacheRec
    <3>1. cache \in CacheRec /\ cache.age \in 0 .. OldCache
      BY <2>1, Parts
    <3>2. Later(cache.age, OldCache) \in 0 .. OldCache \cup {Never}
          /\ Later(cache.age, OldCache) # Never
      BY <3>1, Clocks, Durations
    <3>3. cache' = [cache EXCEPT !.age = Later(cache.age, OldCache)]
      BY DEF RotTick
    <3> QED BY <3>1, <3>2, <3>3 DEF CacheRec
  <2> QED BY <2>1, KeysTick
<1>5. flight' \in FlightRec \cup {NoFlight}
  <2>1. ASSUME flight # NoFlight PROVE flight' \in FlightRec
    <3>1. flight.age + 1 \in 0 .. Stay /\ flight.open + 1 \in 0 .. MaxFetch
      BY <2>1, KeysTick, Parts, Durations
    <3> QED BY <2>1, <3>1, KeysTick DEF FlightRec
  <2> QED BY <2>1, KeysTick
<1>6. call' \in [Call -> {NoCall} \cup CallRec]
  <2>1. call' = [c \in Call |-> IF call[c] = NoCall THEN NoCall ELSE [call[c] EXCEPT !.age = @ + 1]]
    BY DEF RotTick
  <2>2. ASSUME NEW c \in Call, call[c] # NoCall PROVE [call[c] EXCEPT !.age = @ + 1] \in CallRec
    <3>1. call[c].age + 1 <= Stay
      BY <2>2, KeysTick
    <3>2. call[c] \in CallRec /\ call[c].age \in 0 .. Stay
      BY <2>2, Parts
    <3>3. call[c].age + 1 \in 0 .. Stay
      BY <3>1, <3>2, Durations
    <3> QED BY <3>2, <3>3 DEF CallRec
  <2> QED BY <2>1, <2>2
<1> QED BY <1>1, <1>2, <1>3, <1>4, <1>5, <1>6, KeysTick
        DEF RotTypeOK, TokenRec, CacheRec, FlightRec, CallRec

LEMMA RotTypesStep == RotTypeOK /\ CallsInTime /\ [RotNext]_rotVars => RotTypeOK'
<1> SUFFICES ASSUME RotTypeOK, CallsInTime, [RotNext]_rotVars PROVE RotTypeOK'
  OBVIOUS
<1>1. ASSUME NEW i \in Instance, Boot(i) PROVE RotTypeOK'
  BY <1>1 DEF Boot, RotTypeOK, operatorVars, verifierVars
<1>2. ASSUME NEW i \in Instance, Issue(i) PROVE RotTypeOK'
  <2>1. [kid |-> deployed[i].signer, left |-> TokenTtl] \in TokenRec
    BY Parts, Durations DEF TokenRec
  <2> QED BY <1>2, <2>1 DEF Issue, RotTypeOK, TokenRec, operatorVars, verifierVars
<1>3. CASE UNCHANGED rotVars
  BY <1>3 DEF rotVars, RotTypeOK, operatorVars, verifierVars
<1> QED BY <1>1, <1>2, <1>3, OperatorTypes, VerifierTypes, TickTypes, StepKinds

-----------------------------------------------------------------------------
(* One step of the operator, key by key.                                     *)
LEMMA LivesStep == RotTypeOK /\ KeyLives /\ CallsInTime /\ [RotNext]_rotVars => KeyLives'
<1> SUFFICES ASSUME RotTypeOK, KeyLives, CallsInTime, [RotNext]_rotVars, NEW k \in Key
             PROVE  KeyLife(k)'
  BY DEF KeyLives
<1>a. KeyLife(k)
  BY DEF KeyLives
<1>b. /\ Never # 0 /\ env.signer \in Key /\ env.signer \notin env.retained /\ env \in RotEnvironment
      /\ published \in [Key -> 0 .. PropagationWait \cup {Never}]
      /\ deactivated \in [Key -> 0 .. RetentionWait \cup {Never}]
      /\ withdrawn \in [Key -> 0 .. ForgottenAfter \cup {Never}]
  BY DEF RotTypeOK, Never, RotEnvironment
<1>1. ASSUME NEW x \in Key, PublishKey(x)
      PROVE  KeyLife(k)'
  <2>1. /\ x \notin Jwks(env) /\ withdrawn[x] = Never /\ withdrawn' = withdrawn
        /\ deactivated' = deactivated /\ published' = [published EXCEPT ![x] = 0]
        /\ env'.signer = env.signer /\ env'.retained = env.retained \cup {x}
    BY <1>1, <1>b DEF PublishKey, Apply, RotEnvironment
  <2>2. x \notin env.retained /\ x # env.signer /\ deactivated[x] = Never
    BY <2>1 DEF Jwks, KeyLives, KeyLife
  <2> QED BY <1>a, <1>b, <2>1, <2>2 DEF Jwks, KeyLife
<1>2. ASSUME NEW x \in Key, ActivateKey(x)
      PROVE  KeyLife(k)'
  <2>1. /\ x \in env.retained /\ published[x] # Never /\ withdrawn' = withdrawn
        /\ deactivated' = [deactivated EXCEPT ![env.signer] = 0]
        /\ published' = [published EXCEPT ![x] = Never]
        /\ env'.signer = x /\ env'.retained = (env.retained \ {x}) \cup {env.signer}
    BY <1>2 DEF ActivateKey, Apply
  <2>2. x # env.signer /\ deactivated[x] = Never /\ published[env.signer] = Never
    BY <1>b, <2>1 DEF KeyLives, KeyLife
  <2> QED BY <1>a, <1>b, <2>1, <2>2 DEF Jwks, KeyLife
<1>3. ASSUME NEW x \in Key, RetireKey(x)
      PROVE  KeyLife(k)'
  <2>1. /\ x \in env.retained /\ deactivated[x] # Never /\ published' = published
        /\ withdrawn' = [withdrawn EXCEPT ![x] = 0]
        /\ deactivated' = [deactivated EXCEPT ![x] = Never]
        /\ env'.signer = env.signer /\ env'.retained = env.retained \ {x}
    BY <1>3, <1>b DEF RetireKey, Apply, RotEnvironment
  <2>2. x # env.signer /\ published[x] = Never
    BY <1>b, <2>1 DEF KeyLives, KeyLife
  <2> QED BY <1>a, <1>b, <2>1, <2>2 DEF Jwks, KeyLife
<1>4. CASE RotTick
  <2>1. /\ env' = env
        /\ (published'[k] = Never) <=> (published[k] = Never)
        /\ (deactivated'[k] = Never) <=> (deactivated[k] = Never)
        /\ (withdrawn'[k] = Never) <=> (withdrawn[k] = Never)
    BY <1>4, KeysTick, Parts, Clocks, Durations
  <2> QED BY <1>a, <2>1 DEF Jwks, KeyLife
<1>5. CASE UNCHANGED <<env, published, deactivated, withdrawn>>
  BY <1>a, <1>5 DEF Jwks, KeyLife
<1>6. \/ OperatorStep \/ RotTick \/ UNCHANGED <<env, published, deactivated, withdrawn>>
  BY StepKinds DEF Boot, Issue, operatorVars, rotVars
<1> QED BY <1>1, <1>2, <1>3, <1>4, <1>5, <1>6 DEF OperatorStep

(* A plan is deployed from an environment every instance has, or while one   *)
(* that is older is on its way.                                              *)
LEMMA RolledOut ==
    ASSUME RotTypeOK, KeyLives, InstancesBehind, NEW next, Apply(next), NEW i \in Instance, NEW k \in Key
    PROVE  /\ rollout' \in Nat /\ rollout' <= MaxDeploy /\ env' = next /\ deployed' = deployed
           /\ published[k] > rollout' => k \in Jwks(deployed[i])
           /\ k \in Jwks(deployed[i]) /\ withdrawn[k] # Never => withdrawn[k] <= rollout'
           /\ ~forced /\ InUse(k) => k \in Jwks(deployed[i])
           /\ ~forced /\ k = deployed[i].signer /\ k # env.signer
                 => deactivated[k] # Never /\ deactivated[k] <= rollout'
<1>1. /\ env' = next /\ deployed' = deployed
      /\ Deploying => rollout' = rollout
      /\ ~Deploying => rollout' = 0
  BY DEF Apply
<1>2. Behind(i, k) /\ KeyLife(k)
  BY DEF InstancesBehind, KeyLives
<1>3. rollout \in Nat /\ rollout <= MaxDeploy
  BY Parts, Durations
<1>4. CASE Deploying
  BY <1>1, <1>2, <1>3, <1>4 DEF Behind
<1>5. CASE ~Deploying
  <2>1. deployed[i] = env /\ rollout' = 0
    BY <1>1, <1>5 DEF Deploying
  <2>2. published[k] # Never => k \in Jwks(env)
    BY <1>2 DEF KeyLife
  <2>3. published[k] > 0 => published[k] # Never
    BY Durations
  <2>4. k \in Jwks(env) => withdrawn[k] = Never
    BY <1>2 DEF KeyLife
  <2>5. ~forced /\ InUse(k) => k \in Jwks(deployed[i])
    BY <1>2 DEF Behind
  <2> QED BY <1>1, <2>1, <2>2, <2>3, <2>4, <2>5, Durations
<1> QED BY <1>4, <1>5

(* The notes of the operator as time passes.                                 *)
LEMMA Notes ==
    ASSUME RotTypeOK, CallsInTime, RotTick, NEW k \in Key
    PROVE  /\ (published'[k] = Never) <=> (published[k] = Never)
           /\ (deactivated'[k] = Never) <=> (deactivated[k] = Never)
           /\ (withdrawn'[k] = Never) <=> (withdrawn[k] = Never)
           /\ published'[k] <= published[k] + 1 /\ published[k] \in Int /\ published'[k] \in Int
           /\ deactivated'[k] <= deactivated[k] + 1 /\ deactivated[k] \in Int /\ deactivated'[k] \in Int
           /\ withdrawn'[k] <= withdrawn[k] + 1 /\ withdrawn[k] \in Int /\ withdrawn'[k] \in Int
<1>a. /\ published[k] \in 0 .. PropagationWait \cup {Never}
      /\ deactivated[k] \in 0 .. RetentionWait \cup {Never}
      /\ withdrawn[k] \in 0 .. ForgottenAfter \cup {Never}
      /\ PropagationWait \in Nat /\ RetentionWait \in Nat /\ ForgottenAfter \in Nat /\ Never \in Int
  BY Parts, Durations
<1>b. /\ published'[k] = Later(published[k], PropagationWait)
      /\ deactivated'[k] = Later(deactivated[k], RetentionWait)
      /\ withdrawn'[k] = Later(withdrawn[k], ForgottenAfter)
  BY KeysTick
<1>1. /\ (published'[k] = Never) <=> (published[k] = Never)
      /\ published'[k] <= published[k] + 1 /\ published[k] \in Int /\ published'[k] \in Int
  <2>1. /\ published'[k] \in 0 .. PropagationWait \cup {Never} /\ published'[k] <= published[k] + 1
        /\ (published'[k] = Never) <=> (published[k] = Never)
    BY <1>a, <1>b, Clocks
  <2> QED BY <1>a, <2>1
<1>2. /\ (deactivated'[k] = Never) <=> (deactivated[k] = Never)
      /\ deactivated'[k] <= deactivated[k] + 1 /\ deactivated[k] \in Int /\ deactivated'[k] \in Int
  <2>1. /\ deactivated'[k] \in 0 .. RetentionWait \cup {Never} /\ deactivated'[k] <= deactivated[k] + 1
        /\ (deactivated'[k] = Never) <=> (deactivated[k] = Never)
    BY <1>a, <1>b, Clocks
  <2> QED BY <1>a, <2>1
<1>3. /\ (withdrawn'[k] = Never) <=> (withdrawn[k] = Never)
      /\ withdrawn'[k] <= withdrawn[k] + 1 /\ withdrawn[k] \in Int /\ withdrawn'[k] \in Int
  <2>1. /\ withdrawn'[k] \in 0 .. ForgottenAfter \cup {Never} /\ withdrawn'[k] <= withdrawn[k] + 1
        /\ (withdrawn'[k] = Never) <=> (withdrawn[k] = Never)
    BY <1>a, <1>b, Clocks
  <2> QED BY <1>a, <2>1
<1> QED BY <1>1, <1>2, <1>3

LEMMA BehindStep ==
    RotTypeOK /\ KeyLives /\ InstancesBehind /\ CallsInTime /\ [RotNext]_rotVars => InstancesBehind'
<1> SUFFICES ASSUME RotTypeOK, KeyLives, InstancesBehind, CallsInTime, [RotNext]_rotVars,
                    NEW i \in Instance, NEW k \in Key
             PROVE  Behind(i, k)'
  BY DEF InstancesBehind
<1>a. Behind(i, k) /\ KeyLife(k)
  BY DEF InstancesBehind, KeyLives
<1>b. /\ Never # 0 /\ env.signer \in Key /\ env.signer \notin env.retained /\ env \in RotEnvironment
      /\ published \in [Key -> 0 .. PropagationWait \cup {Never}]
      /\ deactivated \in [Key -> 0 .. RetentionWait \cup {Never}]
      /\ withdrawn \in [Key -> 0 .. ForgottenAfter \cup {Never}]
  BY DEF RotTypeOK, Never, RotEnvironment
<1>1. ASSUME NEW x \in Key, PublishKey(x) PROVE Behind(i, k)'
  <2>1. /\ withdrawn[x] = Never /\ withdrawn' = withdrawn /\ forced' = forced
        /\ deactivated' = deactivated /\ published' = [published EXCEPT ![x] = 0]
        /\ env'.signer = env.signer /\ Apply([env EXCEPT !.retained = @ \cup {x}])
    BY <1>1, <1>b DEF PublishKey, Apply, RotEnvironment
  <2>2. published'[k] > rollout' => published[k] > rollout'
    BY <1>b, <2>1, RolledOut
  <2> QED BY <2>1, <2>2, RolledOut DEF Behind, InUse
<1>2. ASSUME NEW x \in Key, ActivateKey(x) PROVE Behind(i, k)'
  <2>1. /\ x \in env.retained /\ published[x] # Never /\ withdrawn' = withdrawn
        /\ deactivated' = [deactivated EXCEPT ![env.signer] = 0]
        /\ published' = [published EXCEPT ![x] = Never]
        /\ env'.signer = x /\ Apply([signer |-> x, retained |-> (env.retained \ {x}) \cup {env.signer}])
        /\ forced' = (forced \/ published[x] < PropagationWait)
    BY <1>2 DEF ActivateKey, Apply, Due
  <2>2. ~forced' => ~forced /\ published[x] >= PropagationWait
    <3>1. ~forced' => ~forced /\ ~(published[x] < PropagationWait)
      BY <2>1
    <3>2. published[x] \in Int /\ PropagationWait \in Int
      BY <1>b, Durations
    <3> QED BY <3>1, <3>2
  <2>3. ~forced' => published[x] > rollout'
    BY <1>b, <2>1, <2>2, RolledOut, Durations
  <2>4. ~forced' => x \in Jwks(deployed[i])
    BY <2>1, <2>3, RolledOut
  <2>5. published'[k] > rollout' => published[k] > rollout'
    BY <1>b, <2>1, RolledOut, Durations
  <2>6. ~forced' /\ InUse(k)' => k \in Jwks(deployed'[i])
    BY <1>b, <2>1, <2>2, <2>4, RolledOut DEF InUse
  <2>7. ~forced' /\ k = deployed'[i].signer /\ k # env'.signer
            => deactivated'[k] # Never /\ deactivated'[k] <= rollout'
    <3>1. CASE k = env.signer
      <4>1. deactivated'[k] = 0
        BY <1>b, <2>1, <3>1
      <4> QED BY <1>b, <2>1, <4>1, RolledOut
    <3>2. CASE k # env.signer
      <4>1. deactivated'[k] = deactivated[k]
        BY <1>b, <2>1, <3>2
      <4> QED BY <2>1, <2>2, <3>2, <4>1, RolledOut
    <3> QED BY <3>1, <3>2
  <2>8. /\ published'[k] > rollout' => k \in Jwks(deployed[i])
        /\ k \in Jwks(deployed[i]) /\ withdrawn'[k] # Never => withdrawn'[k] <= rollout'
        /\ deployed' = deployed
    BY <2>1, <2>5, RolledOut
  <2> QED BY <2>6, <2>7, <2>8 DEF Behind, Jwks
<1>3. ASSUME NEW x \in Key, RetireKey(x) PROVE Behind(i, k)'
  <2>1. /\ x \in env.retained /\ deactivated[x] # Never /\ published' = published
        /\ withdrawn' = [withdrawn EXCEPT ![x] = 0]
        /\ deactivated' = [deactivated EXCEPT ![x] = Never]
        /\ env'.signer = env.signer /\ Apply([env EXCEPT !.retained = @ \ {x}])
        /\ forced' = (forced \/ deactivated[x] < RetentionWait)
    BY <1>3, <1>b DEF RetireKey, Apply, RotEnvironment, Due
  <2>2. ~forced' => ~forced /\ deactivated[x] >= RetentionWait
    <3>1. ~forced' => ~forced /\ ~(deactivated[x] < RetentionWait)
      BY <2>1
    <3>2. deactivated[x] \in Int /\ RetentionWait \in Int
      BY <1>b, Durations
    <3> QED BY <3>1, <3>2
  <2>3. rollout' \in Nat /\ rollout' <= MaxDeploy
    BY <2>1, RolledOut
  <2>4. ~forced' /\ x = deployed[i].signer /\ x # env.signer => FALSE
    BY <1>b, <2>1, <2>2, <2>3, RolledOut, Durations
  <2>5. x # env.signer
    BY <1>b, <2>1
  <2>6. k \in Jwks(deployed[i]) /\ withdrawn'[k] # Never => withdrawn'[k] <= rollout'
    <3>1. CASE k = x
      BY <1>b, <2>1, <2>3, <3>1
    <3>2. CASE k # x
      BY <1>b, <2>1, <3>2, RolledOut
    <3> QED BY <3>1, <3>2
  <2>7. ~forced' /\ InUse(k)' => ~forced /\ InUse(k)
    BY <1>b, <2>1, <2>2 DEF InUse
  <2>8. ~forced' /\ k = deployed[i].signer /\ k # env'.signer
            => deactivated'[k] # Never /\ deactivated'[k] <= rollout'
    <3>1. CASE k = x
      BY <2>1, <2>4, <3>1
    <3>2. CASE k # x
      BY <1>b, <2>1, <2>2, <3>2, RolledOut
    <3> QED BY <3>1, <3>2
  <2>9. /\ published'[k] > rollout' => k \in Jwks(deployed[i])
        /\ ~forced' /\ InUse(k)' => k \in Jwks(deployed[i])
        /\ deployed' = deployed
    BY <2>1, <2>7, RolledOut
  <2> QED BY <2>6, <2>8, <2>9 DEF Behind, Jwks
<1>4. CASE RotTick
  <2>1. /\ env' = env /\ deployed' = deployed /\ forced' = forced
        /\ published'[k] = Later(published[k], PropagationWait)
        /\ deactivated'[k] = Later(deactivated[k], RetentionWait)
        /\ withdrawn'[k] = Later(withdrawn[k], ForgottenAfter)
    BY <1>4, KeysTick
  <2>2. /\ (published'[k] = Never) <=> (published[k] = Never)
        /\ (deactivated'[k] = Never) <=> (deactivated[k] = Never)
        /\ (withdrawn'[k] = Never) <=> (withdrawn[k] = Never)
    BY <1>4, Notes
  <2>3. CASE ~Deploying
    <3>1. deployed[i] = env /\ rollout' = 0
      BY <1>4, <2>3, KeysTick DEF Deploying
    <3>2. published'[k] > rollout' => k \in Jwks(env)
      BY <1>a, <2>2, <3>1, Durations DEF KeyLife
    <3>3. k \in Jwks(env) => withdrawn'[k] = Never
      BY <1>a, <2>2 DEF KeyLife
    <3>4. ~forced /\ InUse(k)' => k \in Jwks(deployed[i])
      BY <1>a, <2>1, <2>2 DEF Behind, InUse
    <3> QED BY <2>1, <3>1, <3>2, <3>3, <3>4 DEF Behind, Jwks
  <2>4. CASE Deploying
    <3>1. rollout' = rollout + 1 /\ rollout \in Nat /\ rollout' <= MaxDeploy
      BY <1>4, <2>4, KeysTick, Parts, Durations
    <3>2. published'[k] > rollout' => published[k] > rollout
      <4>1. published'[k] <= published[k] + 1 /\ published[k] \in Int /\ published'[k] \in Int
        BY <1>4, Notes
      <4> QED BY <3>1, <4>1
    <3>3. withdrawn[k] # Never /\ withdrawn[k] <= rollout => withdrawn'[k] <= rollout'
      <4>1. withdrawn'[k] <= withdrawn[k] + 1 /\ withdrawn[k] \in Int /\ withdrawn'[k] \in Int
        BY <1>4, Notes
      <4> QED BY <3>1, <4>1
    <3>4. deactivated[k] # Never /\ deactivated[k] <= rollout => deactivated'[k] <= rollout'
      <4>1. deactivated'[k] <= deactivated[k] + 1 /\ deactivated[k] \in Int /\ deactivated'[k] \in Int
        BY <1>4, Notes
      <4> QED BY <3>1, <4>1
    <3> QED BY <1>a, <2>1, <2>2, <3>2, <3>3, <3>4 DEF Behind, InUse, Jwks
  <2> QED BY <2>3, <2>4
<1>5. ASSUME NEW j \in Instance, Boot(j) PROVE Behind(i, k)'
  <2>1. UNCHANGED operatorVars /\ deployed' = [deployed EXCEPT ![j] = env]
    BY <1>5 DEF Boot
  <2>2. CASE i # j
    <3>1. deployed'[i] = deployed[i]
      BY <2>1, <2>2 DEF RotTypeOK
    <3> QED BY <1>a, <2>1, <3>1 DEF Behind, InUse, Jwks, operatorVars
  <2>3. CASE i = j
    <3>1. deployed'[i] = env
      BY <2>1, <2>3 DEF RotTypeOK
    <3>2. published[k] > rollout => published[k] # Never
      BY Parts, Durations
    <3> QED BY <1>a, <2>1, <3>1, <3>2 DEF Behind, KeyLife, InUse, Jwks, operatorVars
  <2> QED BY <2>2, <2>3
<1>6. CASE UNCHANGED <<operatorVars, deployed>>
  BY <1>a, <1>6 DEF Behind, InUse, Jwks, operatorVars
<1>7. \/ OperatorStep \/ RotTick \/ UNCHANGED <<operatorVars, deployed>>
      \/ \E j \in Instance : Boot(j)
  BY StepKinds DEF Issue, rotVars
<1> QED BY <1>1, <1>2, <1>3, <1>4, <1>5, <1>6, <1>7 DEF OperatorStep

(* A key that is in use when it may go is not one that a token needs.        *)
LEMMA TokenStep ==
    RotTypeOK /\ KeyLives /\ InstancesBehind /\ TokenHasItsKey /\ CallsInTime /\ [RotNext]_rotVars
        => TokenHasItsKey'
<1> SUFFICES ASSUME RotTypeOK, KeyLives, InstancesBehind, TokenHasItsKey, CallsInTime,
                    [RotNext]_rotVars, ~forced', token'.left > 0
             PROVE  /\ InUse(token.kid)'
                    /\ deactivated'[token'.kid] # Never
                          => deactivated'[token'.kid] + token'.left <= TokenTtl + MaxDeploy
  BY DEF TokenHasItsKey
<1>b. /\ Never # 0 /\ env.signer \in Key /\ env.signer \notin env.retained /\ env \in RotEnvironment
      /\ published \in [Key -> 0 .. PropagationWait \cup {Never}]
      /\ deactivated \in [Key -> 0 .. RetentionWait \cup {Never}]
  BY DEF RotTypeOK, Never, RotEnvironment
<1>c. ASSUME ~forced, token.left > 0
      PROVE  /\ InUse(token.kid) /\ token.kid \in Key
             /\ deactivated[token.kid] # Never
                   => deactivated[token.kid] + token.left <= TokenTtl + MaxDeploy
             /\ token.kid # env.signer => deactivated[token.kid] # Never
             /\ token.left \in Int
  BY <1>c, Parts DEF TokenHasItsKey, InUse
<1>1. ASSUME NEW x \in Key, PublishKey(x)
      PROVE  /\ InUse(token.kid)'
             /\ deactivated'[token'.kid] # Never
                   => deactivated'[token'.kid] + token'.left <= TokenTtl + MaxDeploy
  <2>1. /\ forced' = forced /\ deactivated' = deactivated /\ env'.signer = env.signer /\ token' = token
    BY <1>1, <1>b DEF PublishKey, Apply, RotEnvironment
  <2> QED BY <1>c, <2>1 DEF InUse
<1>2. ASSUME NEW x \in Key, ActivateKey(x)
      PROVE  /\ InUse(token.kid)'
             /\ deactivated'[token'.kid] # Never
                   => deactivated'[token'.kid] + token'.left <= TokenTtl + MaxDeploy
  <2>1. /\ deactivated' = [deactivated EXCEPT ![env.signer] = 0]
        /\ env'.signer = x /\ token' = token /\ (forced => forced')
    BY <1>2 DEF ActivateKey, Apply, Due
  <2>2. CASE token.kid = env.signer
    <3>1. deactivated'[token'.kid] = 0
      BY <1>b, <2>1, <2>2
    <3> QED BY <1>b, <1>c, <2>1, <3>1, Parts, Durations DEF InUse
  <2>3. CASE token.kid # env.signer
    <3>1. deactivated'[token'.kid] = deactivated[token.kid]
      BY <1>b, <1>c, <2>1, <2>3
    <3> QED BY <1>c, <2>1, <2>3, <3>1 DEF InUse
  <2> QED BY <2>2, <2>3
<1>3. ASSUME NEW x \in Key, RetireKey(x)
      PROVE  /\ InUse(token.kid)'
             /\ deactivated'[token'.kid] # Never
                   => deactivated'[token'.kid] + token'.left <= TokenTtl + MaxDeploy
  <2>1. /\ deactivated[x] # Never /\ x \in env.retained
        /\ deactivated' = [deactivated EXCEPT ![x] = Never]
        /\ env'.signer = env.signer /\ token' = token
        /\ forced' = (forced \/ deactivated[x] < RetentionWait)
    BY <1>3, <1>b DEF RetireKey, Apply, RotEnvironment, Due
  <2>2. ~forced /\ deactivated[x] >= RetentionWait
    <3>1. ~forced /\ ~(deactivated[x] < RetentionWait)
      BY <2>1
    <3>2. deactivated[x] \in Int /\ RetentionWait \in Int
      BY <1>b, Durations
    <3> QED BY <3>1, <3>2
  <2>3. x # token.kid
    <3>1. ASSUME x = token.kid PROVE FALSE
      <4>1. deactivated[x] + token.left <= TokenTtl + MaxDeploy /\ token.left > 0 /\ token.left \in Int
        BY <1>c, <2>1, <2>2, <3>1
      <4>2. deactivated[x] \in Int
        BY <1>b, Durations
      <4> QED BY <2>2, <4>1, <4>2, Durations
    <3> QED BY <3>1
  <2>4. deactivated'[token'.kid] = deactivated[token.kid]
    BY <1>b, <1>c, <2>1, <2>2, <2>3
  <2> QED BY <1>c, <2>1, <2>2, <2>4 DEF InUse
<1>4. CASE RotTick
  <2>1. /\ env' = env /\ forced' = forced
        /\ token # NoToken /\ token' = [token EXCEPT !.left = @ - 1]
    <3>1. token' # NoToken
      BY Durations DEF NoToken
    <3> QED BY <1>4, <3>1, KeysTick
  <2>2. token'.kid = token.kid /\ token'.left = token.left - 1 /\ token.left \in Int
    BY <2>1, Parts DEF TokenRec
  <2>3. token.left > 0
    BY <2>2
  <2>4. token.kid \in Key /\ InUse(token.kid)
    BY <1>c, <2>1, <2>3
  <2>5. /\ (deactivated'[token.kid] = Never) <=> (deactivated[token.kid] = Never)
        /\ deactivated'[token.kid] <= deactivated[token.kid] + 1
        /\ deactivated[token.kid] \in Int /\ deactivated'[token.kid] \in Int
    BY <1>4, <2>4, Notes
  <2>6. deactivated'[token'.kid] # Never => deactivated'[token'.kid] + token'.left <= TokenTtl + MaxDeploy
    BY <1>c, <2>1, <2>2, <2>3, <2>5, Durations
  <2> QED BY <2>1, <2>2, <2>4, <2>5, <2>6 DEF InUse
<1>5. ASSUME NEW i \in Instance, Issue(i)
      PROVE  /\ InUse(token.kid)'
             /\ deactivated'[token'.kid] # Never
                   => deactivated'[token'.kid] + token'.left <= TokenTtl + MaxDeploy
  <2>1. /\ token'.kid = deployed[i].signer /\ token'.left = TokenTtl
        /\ env' = env /\ deactivated' = deactivated /\ forced' = forced
    BY <1>5 DEF Issue, operatorVars
  <2>2. deployed[i].signer \in Key
    BY Parts
  <2>3. deployed[i].signer # env.signer
            => deactivated[deployed[i].signer] # Never /\ deactivated[deployed[i].signer] <= rollout
    BY <2>1, <2>2 DEF InstancesBehind, Behind
  <2>4. deactivated[env.signer] = Never
    BY <1>b DEF KeyLives, KeyLife
  <2>5. deactivated[deployed[i].signer] # Never
            => deactivated[deployed[i].signer] + TokenTtl <= TokenTtl + MaxDeploy
    <3>1. rollout <= MaxDeploy /\ rollout \in Int /\ deactivated[deployed[i].signer] \in Int
      BY <1>b, <2>2, Parts, Durations
    <3> QED BY <2>3, <2>4, <3>1, Durations
  <2> QED BY <2>1, <2>3, <2>5 DEF InUse
<1>6. CASE UNCHANGED <<operatorVars, token>>
  BY <1>c, <1>6 DEF InUse, operatorVars
<1>7. \/ OperatorStep \/ RotTick \/ UNCHANGED <<operatorVars, token>>
      \/ \E i \in Instance : Issue(i)
  BY StepKinds DEF Boot, rotVars
<1> QED BY <1>1, <1>2, <1>3, <1>4, <1>5, <1>6, <1>7 DEF OperatorStep

(* The cache has what an instance had when it was filled.                    *)
LEMMA CacheStep ==
    RotTypeOK /\ KeyLives /\ InstancesBehind /\ CacheBehind /\ CallsInTime /\ [RotNext]_rotVars
        => CacheBehind'
<1> SUFFICES ASSUME RotTypeOK, KeyLives, InstancesBehind, CacheBehind, CallsInTime,
                    [RotNext]_rotVars, cache' # NoCache, NEW k \in Key
             PROVE  Cached(k)'
  BY DEF CacheBehind
<1>b. /\ Never # 0 /\ env.signer \in Key /\ env.signer \notin env.retained /\ env \in RotEnvironment
      /\ published \in [Key -> 0 .. PropagationWait \cup {Never}]
      /\ deactivated \in [Key -> 0 .. RetentionWait \cup {Never}]
      /\ withdrawn \in [Key -> 0 .. ForgottenAfter \cup {Never}]
  BY DEF RotTypeOK, Never, RotEnvironment
<1>c. cache # NoCache => Cached(k) /\ cache.age \in Nat /\ cache.age <= OldCache
  BY Parts, Durations DEF CacheBehind
<1>1. ASSUME NEW x \in Key, PublishKey(x) PROVE Cached(k)'
  <2>1. /\ withdrawn' = withdrawn /\ forced' = forced /\ cache' = cache
        /\ deactivated' = deactivated /\ published' = [published EXCEPT ![x] = 0]
        /\ env'.signer = env.signer
    BY <1>1, <1>b DEF PublishKey, Apply, RotEnvironment, verifierVars
  <2>2. published'[k] > cache.age + MaxDeploy => published[k] > cache.age + MaxDeploy
    BY <1>b, <1>c, <2>1, Durations
  <2> QED BY <1>c, <2>1, <2>2 DEF Cached, InUse
<1>2. ASSUME NEW x \in Key, ActivateKey(x) PROVE Cached(k)'
  <2>1. /\ x \in env.retained /\ withdrawn' = withdrawn /\ cache' = cache
        /\ deactivated' = [deactivated EXCEPT ![env.signer] = 0]
        /\ published' = [published EXCEPT ![x] = Never]
        /\ env'.signer = x
        /\ forced' = (forced \/ published[x] < PropagationWait)
    BY <1>2 DEF ActivateKey, Apply, Due, verifierVars
  <2>2. ~forced' => ~forced /\ published[x] >= PropagationWait
    <3>1. ~forced' => ~forced /\ ~(published[x] < PropagationWait)
      BY <2>1
    <3>2. published[x] \in Int /\ PropagationWait \in Int
      BY <1>b, Durations
    <3> QED BY <3>1, <3>2
  <2>3. published'[k] > cache.age + MaxDeploy => published[k] > cache.age + MaxDeploy
    BY <1>b, <1>c, <2>1, Durations
  <2>4. ~forced' /\ cache.age < JwksMaxAge => x \in cache.keys
    <3>1. ASSUME ~forced', cache.age < JwksMaxAge
          PROVE  published[x] > cache.age + MaxDeploy /\ cache.age < OldCache
      <4>1. published[x] \in Int /\ cache.age \in Nat
        BY <1>b, <1>c, <2>1, Durations
      <4> QED BY <2>2, <3>1, <4>1, Durations
    <3>2. Cached(x)
      BY <2>1 DEF CacheBehind
    <3> QED BY <3>1, <3>2 DEF Cached
  <2>5. ~forced' /\ InUse(k)' /\ cache.age < JwksMaxAge => k \in cache.keys
    <3>1. CASE k = x
      BY <2>4, <3>1
    <3>2. CASE k # x /\ k # env.signer
      <4>1. InUse(k)' => InUse(k)
        BY <1>b, <2>1, <3>2 DEF InUse
      <4> QED BY <1>c, <2>1, <2>2, <4>1 DEF Cached
    <3>3. CASE k = env.signer
      BY <1>c, <2>1, <2>2, <3>3 DEF Cached, InUse
    <3> QED BY <3>1, <3>2, <3>3
  <2> QED BY <1>c, <2>1, <2>3, <2>5 DEF Cached
<1>3. ASSUME NEW x \in Key, RetireKey(x) PROVE Cached(k)'
  <2>1. /\ published' = published /\ cache' = cache /\ (forced => forced')
        /\ withdrawn' = [withdrawn EXCEPT ![x] = 0]
        /\ deactivated' = [deactivated EXCEPT ![x] = Never]
        /\ env'.signer = env.signer
    BY <1>3, <1>b DEF RetireKey, Apply, RotEnvironment, Due, verifierVars
  <2>2. InUse(k)' => InUse(k)
    BY <1>b, <2>1 DEF InUse
  <2>3. withdrawn'[k] = withdrawn[k] \/ (withdrawn'[k] = 0 /\ 0 <= cache.age + MaxDeploy)
    BY <1>b, <1>c, <2>1, Durations
  <2> QED BY <1>c, <2>1, <2>2, <2>3 DEF Cached
<1>4. CASE RotTick
  <2>1. /\ env' = env /\ forced' = forced /\ cache # NoCache
        /\ cache'.keys = cache.keys /\ cache'.age = Later(cache.age, OldCache)
    BY <1>4, KeysTick
  <2>2. /\ cache.age <= cache'.age /\ cache'.age <= cache.age + 1 /\ cache'.age \in Nat
        /\ cache.age < OldCache => cache'.age = cache.age + 1
        /\ cache.age \in Nat /\ cache.age <= OldCache /\ OldCache \in Nat
        /\ cache.age = OldCache => cache'.age = OldCache
    <3>1. cache.age \in 0 .. OldCache /\ cache.age # Never /\ OldCache \in Nat
      BY <1>c, <2>1, Durations
    <3>2. /\ cache'.age \in 0 .. OldCache \cup {Never} /\ cache'.age # Never
          /\ cache.age <= cache'.age /\ cache'.age <= cache.age + 1
          /\ cache.age < OldCache => cache'.age = cache.age + 1
      BY <2>1, <3>1, Clocks
    <3> QED BY <3>1, <3>2
  <2>3. published'[k] > cache'.age + MaxDeploy /\ cache'.age < OldCache
            => published[k] > cache.age + MaxDeploy /\ cache.age < OldCache
    <3>1. published'[k] <= published[k] + 1 /\ published[k] \in Int /\ published'[k] \in Int
      BY <1>4, Notes
    <3> QED BY <2>2, <3>1, Durations
  <2>4. /\ (withdrawn'[k] = Never) <=> (withdrawn[k] = Never)
        /\ withdrawn[k] <= cache.age + MaxDeploy => withdrawn'[k] <= cache'.age + MaxDeploy
    <3>1. /\ (withdrawn'[k] = Never) <=> (withdrawn[k] = Never)
          /\ withdrawn'[k] <= withdrawn[k] + 1 /\ withdrawn[k] \in Int /\ withdrawn'[k] \in Int
      BY <1>4, Notes
    <3>2. withdrawn'[k] <= ForgottenAfter
      <4>1. withdrawn'[k] = Later(withdrawn[k], ForgottenAfter)
        BY <1>4, KeysTick
      <4>2. withdrawn[k] \in 0 .. ForgottenAfter \cup {Never} /\ ForgottenAfter \in Nat /\ Never <= ForgottenAfter
        BY <1>b, Durations
      <4>3. Later(withdrawn[k], ForgottenAfter) \in 0 .. ForgottenAfter \cup {Never}
        BY <4>2, Clocks
      <4> QED BY <4>1, <4>2, <4>3
    <3>3. CASE cache.age < OldCache
      <4>1. cache'.age = cache.age + 1
        BY <2>2, <3>3
      <4> QED BY <2>2, <3>1, <4>1, Durations
    <3>4. CASE cache.age = OldCache
      BY <2>2, <3>1, <3>2, <3>4, Durations
    <3> QED BY <2>2, <3>3, <3>4
  <2>5. InUse(k)' <=> InUse(k)
    BY <1>4, <2>1, Notes DEF InUse
  <2>6. cache'.age < JwksMaxAge => cache.age < JwksMaxAge
    BY <2>2, Durations
  <2> QED BY <1>c, <2>1, <2>3, <2>4, <2>5, <2>6 DEF Cached
<1>5. ASSUME NEW i \in Instance, FetchAnswered(i) PROVE Cached(k)'
  <2>1. /\ cache'.keys = Jwks(deployed[i]) /\ cache'.age = flight.age /\ flight # NoFlight
        /\ UNCHANGED operatorVars
    BY <1>5 DEF FetchAnswered
  <2>2. /\ flight.age \in Nat /\ rollout \in Nat /\ rollout <= MaxDeploy /\ MaxDeploy \in Nat
        /\ published[k] \in Int /\ withdrawn[k] \in Int
    BY <1>b, <2>1, Parts, Durations
  <2>3. Behind(i, k)
    BY DEF InstancesBehind
  <2>4. published[k] > flight.age + MaxDeploy => published[k] > rollout
    BY <2>2
  <2>5. withdrawn[k] <= rollout => withdrawn[k] <= flight.age + MaxDeploy
    BY <2>2
  <2> QED BY <2>1, <2>3, <2>4, <2>5 DEF Cached, Behind, InUse, operatorVars
<1>6. CASE UNCHANGED <<operatorVars, cache>>
  BY <1>c, <1>6 DEF Cached, InUse, operatorVars
<1>7. \/ OperatorStep \/ RotTick \/ UNCHANGED <<operatorVars, cache>>
      \/ \E i \in Instance : FetchAnswered(i)
  BY StepKinds DEF Boot, Issue, VerifierStep, Verify, Consult, Refresh, Done, FetchFailed,
               verifierVars, rotVars
<1> QED BY <1>1, <1>2, <1>3, <1>4, <1>5, <1>6, <1>7 DEF OperatorStep

-----------------------------------------------------------------------------
(* No verification goes on for longer than two requests.                     *)
LEMMA InTimeStep ==
    RotTypeOK /\ CallsInTime /\ [RotNext]_rotVars => CallsInTime'
<1> SUFFICES ASSUME RotTypeOK, CallsInTime, [RotNext]_rotVars
             PROVE  FlightInTime' /\ \A c \in Call : CallInTime(c)'
  BY DEF CallsInTime
<1>a. FlightInTime /\ \A c \in Call : CallInTime(c)
  BY DEF CallsInTime
<1>b. /\ MaxFetch \in Nat
      /\ \A c \in Call : call[c] # NoCall => call[c].age \in Nat /\ call[c] \in CallRec
      /\ flight # NoFlight => flight.age \in Nat /\ flight.open \in Nat /\ flight.open <= MaxFetch
      /\ call \in [Call -> {NoCall} \cup CallRec]
      /\ \A c \in Call : Forced(c) \in {0, MaxFetch}
  BY Parts, Durations DEF RotTypeOK, CallRec, Forced
<1>1. ASSUME NEW c \in Call, Verify(c) PROVE FlightInTime' /\ \A d \in Call : CallInTime(d)'
  <2>1. /\ flight' = flight /\ \A d \in Call : d # c => call'[d] = call[d]
        /\ call'[c].pc = "consulting" /\ call'[c].forcing = FALSE /\ call'[c].age = 0
    BY <1>1, <1>b DEF Verify
  <2>2. CallInTime(c)'
    BY <1>b, <2>1 DEF CallInTime, Forced
  <2>3. ASSUME NEW d \in Call, d # c PROVE CallInTime(d)'
    BY <1>a, <2>1, <2>3 DEF CallInTime, Forced
  <2> QED BY <1>a, <2>1, <2>2, <2>3 DEF FlightInTime
<1>2. ASSUME NEW c \in Call, Consult(c) PROVE FlightInTime' /\ \A d \in Call : CallInTime(d)'
  <2>1. /\ flight' = flight /\ \A d \in Call : d # c => call'[d] = call[d]
        /\ call'[c] = Judged(c, cache.keys) /\ call[c] # NoCall /\ call[c].pc = "consulting"
    BY <1>2, <1>b DEF Consult
  <2>2. /\ call'[c].age = call[c].age /\ call'[c].forcing = TRUE
        /\ call'[c].pc \in {"accepted", "refused", "consulting"}
    <3>1. /\ Judged(c, cache.keys).age = call[c].age /\ Judged(c, cache.keys).forcing = TRUE
          /\ Judged(c, cache.keys).pc \in {"accepted", "refused", "consulting"}
      BY <2>1, JudgedCalls
    <3> QED BY <2>1, <3>1
  <2>3. CallInTime(c)'
    <3>1. Forced(c)' = MaxFetch
      BY <2>2 DEF Forced
    <3>2. call[c].age <= Forced(c) /\ call[c].age \in Nat
      BY <1>a, <1>b, <2>1 DEF CallInTime
    <3>3. call[c].age <= MaxFetch
      BY <1>b, <3>2
    <3> QED BY <2>2, <3>1, <3>3 DEF CallInTime
  <2>4. ASSUME NEW d \in Call, d # c PROVE CallInTime(d)'
    BY <1>a, <2>1, <2>4 DEF CallInTime, Forced
  <2> QED BY <1>a, <2>1, <2>3, <2>4 DEF FlightInTime
<1>3. ASSUME NEW c \in Call, Refresh(c) PROVE FlightInTime' /\ \A d \in Call : CallInTime(d)'
  <2>1. /\ \A d \in Call : d # c => call'[d] = call[d]
        /\ call' = [call EXCEPT ![c].pc = "waiting"] /\ call[c] # NoCall /\ call[c].pc = "consulting"
        /\ flight' = IF flight = NoFlight THEN [age |-> call[c].age, open |-> 0] ELSE flight
    BY <1>3, <1>b DEF Refresh
  <2>2. call'[c].pc = "waiting" /\ call'[c].age = call[c].age /\ call'[c].forcing = call[c].forcing
    BY <1>b, <2>1 DEF CallRec
  <2>3. call[c].age <= Forced(c) /\ call[c].age \in Nat
    BY <1>a, <1>b, <2>1 DEF CallInTime
  <2>4. flight = NoFlight => flight'.age = call[c].age /\ flight'.open = 0 /\ flight' # NoFlight
    BY <2>1, <2>3 DEF NoFlight, Never
  <2>5. Forced(c)' = Forced(c) /\ flight' # NoFlight /\ flight'.open \in Nat
    BY <1>b, <2>1, <2>2, <2>4 DEF Forced
  <2>6. CallInTime(c)'
    BY <1>b, <2>2, <2>3, <2>5 DEF CallInTime
  <2>7. ASSUME NEW d \in Call, d # c PROVE CallInTime(d)'
    <3>1. call'[d] = call[d] /\ Forced(d)' = Forced(d) /\ CallInTime(d)
      BY <1>a, <2>1, <2>7 DEF Forced
    <3> QED BY <2>1, <3>1 DEF CallInTime
  <2>8. FlightInTime'
    BY <1>a, <1>b, <2>1, <2>3, <2>4 DEF FlightInTime
  <2> QED BY <2>6, <2>7, <2>8
<1>4. ASSUME NEW c \in Call, Done(c) PROVE FlightInTime' /\ \A d \in Call : CallInTime(d)'
  <2>1. /\ flight' = flight /\ \A d \in Call : d # c => call'[d] = call[d]
        /\ call'[c] = NoCall
    BY <1>4, <1>b DEF Done
  <2>2. ASSUME NEW d \in Call, d # c PROVE CallInTime(d)'
    BY <1>a, <2>1, <2>2 DEF CallInTime, Forced
  <2> QED BY <1>a, <2>1, <2>2 DEF FlightInTime, CallInTime
<1>5. ASSUME NEW keys, Landed(keys) PROVE FlightInTime' /\ \A d \in Call : CallInTime(d)'
  <2>1. flight' = NoFlight
    BY <1>5 DEF Landed
  <2>2. ASSUME NEW d \in Call, call[d] # NoCall, call[d].pc = "waiting" PROVE CallInTime(d)'
    <3>1. call'[d] = Judged(d, keys)
      BY <1>5, <2>2, LandedCalls
    <3>2. /\ call'[d].age = call[d].age /\ call'[d].forcing = TRUE /\ call'[d].pc # "waiting"
          /\ call'[d].pc = "consulting" => call[d].forcing = FALSE
      <4>1. /\ Judged(d, keys).age = call[d].age /\ Judged(d, keys).forcing = TRUE
            /\ Judged(d, keys).pc \in {"accepted", "refused", "consulting"}
            /\ Judged(d, keys).pc = "consulting" => call[d].forcing = FALSE
        BY <2>2, JudgedCalls
      <4> QED BY <3>1, <4>1
    <3>3. call'[d].pc = "consulting" => call[d].age <= MaxFetch
      <4>1. call[d].forcing = FALSE => call[d].age <= flight.open /\ flight.open <= MaxFetch
                                       /\ flight.open \in Nat /\ call[d].age \in Nat
        BY <1>a, <1>b, <2>2 DEF CallInTime, Forced
      <4> QED BY <1>b, <3>2, <4>1
    <3> QED BY <3>2, <3>3 DEF CallInTime, Forced
  <2>3. ASSUME NEW d \in Call, ~(call[d] # NoCall /\ call[d].pc = "waiting") PROVE CallInTime(d)'
    <3>1. call'[d] = call[d]
      BY <1>5, <2>3, LandedCalls
    <3> QED BY <1>a, <2>3, <3>1 DEF CallInTime, Forced
  <2> QED BY <2>1, <2>2, <2>3 DEF FlightInTime
<1>6. CASE FetchFailed
  <2>1. CASE cache = NoCache
    <3>1. /\ flight' = NoFlight
          /\ call' = [c \in Call |-> IF c \in Waiting THEN [call[c] EXCEPT !.pc = "refused"] ELSE call[c]]
      BY <1>6, <2>1 DEF FetchFailed
    <3>2. ASSUME NEW d \in Call PROVE CallInTime(d)'
      <4>1. CASE d \in Waiting
        <5>1. call'[d].pc = "refused"
          BY <1>b, <3>1, <4>1 DEF CallRec, Waiting
        <5> QED BY <5>1 DEF CallInTime
      <4>2. CASE d \notin Waiting
        <5>1. call'[d] = call[d]
          BY <3>1, <4>2
        <5> QED BY <1>a, <4>2, <5>1 DEF CallInTime, Forced, Waiting
      <4> QED BY <4>1, <4>2
    <3> QED BY <3>1, <3>2 DEF FlightInTime
  <2>2. CASE cache # NoCache
    BY <1>5, <1>6, <2>2 DEF FetchFailed
  <2> QED BY <2>1, <2>2
<1>7. CASE RotTick
  <2>1. ASSUME NEW d \in Call PROVE CallInTime(d)'
    <3>1. CASE call[d] = NoCall
      BY <1>7, <3>1, KeysTick DEF CallInTime
    <3>2. CASE call[d] # NoCall
      <4>1. /\ flight # NoFlight /\ flight' = [age |-> flight.age + 1, open |-> flight.open + 1]
            /\ call[d].pc = "waiting" /\ call'[d] = [call[d] EXCEPT !.age = @ + 1]
        BY <1>7, <3>2, KeysTick
      <4>2. /\ call'[d].pc = "waiting" /\ call'[d].age = call[d].age + 1
            /\ call'[d].forcing = call[d].forcing
        BY <1>b, <3>2, <4>1 DEF CallRec
      <4>3. call[d].age <= flight.open + Forced(d) /\ Forced(d)' = Forced(d)
        BY <1>a, <3>2, <4>1, <4>2 DEF CallInTime, Forced
      <4>4. flight'.open = flight.open + 1 /\ flight'.age = flight.age + 1
        BY <4>1
      <4>5. flight' # NoFlight
        <5>1. flight'.age # Never
          BY <1>b, <4>1, <4>4, Durations
        <5> QED BY <5>1 DEF NoFlight
      <4>6. call'[d].age <= flight'.open + Forced(d)'
        BY <1>b, <3>2, <4>1, <4>2, <4>3, <4>4
      <4> QED BY <4>2, <4>5, <4>6 DEF CallInTime
    <3> QED BY <3>1, <3>2
  <2>2. FlightInTime'
    <3>1. flight = NoFlight => flight' = NoFlight
      BY <1>7, KeysTick
    <3>2. flight # NoFlight => flight'.age = flight.age + 1 /\ flight'.open = flight.open + 1
      BY <1>7, KeysTick
    <3> QED BY <1>a, <1>b, <3>1, <3>2 DEF FlightInTime
  <2> QED BY <2>1, <2>2
<1>8. CASE UNCHANGED <<flight, call>>
  BY <1>a, <1>8 DEF FlightInTime, CallInTime, Forced
<1>9. \/ VerifierStep \/ RotTick \/ UNCHANGED <<flight, call>>
  BY StepKinds DEF Boot, Issue, verifierVars, rotVars
<1>10. (\E i \in Instance : FetchAnswered(i)) => \E keys : Landed(keys)
  BY DEF FetchAnswered
<1> QED BY <1>1, <1>2, <1>3, <1>4, <1>5, <1>6, <1>7, <1>8, <1>9, <1>10 DEF VerifierStep

-----------------------------------------------------------------------------
(* What becomes of a verification: it is begun, with the token's kid or with *)
(* nobody's; or it goes on as the same one; ...                              *)
Begins(c) ==
    /\ VerifierStep /\ cache' = cache /\ call[c] = NoCall
    /\ call'[c].pc = "consulting" /\ call'[c].age = 0
    /\ call'[c].kid # Stranger => token # NoToken /\ call'[c].kid = token.kid
    /\ call'[c].held => cache # NoCache /\ call'[c].kid \in cache.keys
GoesOn(c) ==
    /\ call[c] # NoCall
    /\ call'[c].kid = call[c].kid /\ call'[c].held = call[c].held
    /\ call'[c].age = call[c].age \/ (RotTick /\ call'[c].age = call[c].age + 1)
    /\ RotTick => call'[c].age = call[c].age + 1

(* ... and it may be decided.                                                *)
DecidedFrom(c, keys) ==
    /\ GoesOn(c)
    /\ call'[c].age = call[c].age
    /\ call'[c].pc = "accepted" => call[c].kid \in keys
    /\ call'[c].pc = "refused" => Expired(c) \/ (call[c].kid \notin keys /\ call[c].forcing = TRUE)
Decision(c) ==
    \/ call'[c] = call[c]
    \/ Consult(c) /\ DecidedFrom(c, cache.keys)
    \/ \E i \in Instance : FetchAnswered(i) /\ DecidedFrom(c, Jwks(deployed[i]))
    \/ FetchFailed /\ cache # NoCache /\ DecidedFrom(c, cache.keys)
    \/ FetchFailed /\ cache = NoCache /\ GoesOn(c) /\ call'[c].pc = "refused"

(* Time passes for what is waiting only, and nothing else happens then.      *)
LEMMA TickApart ==
    ASSUME RotTypeOK, CallsInTime, RotTick, NEW c \in Call, call'[c] # NoCall
    PROVE  GoesOn(c) /\ call'[c].pc = "waiting" /\ call[c].pc = "waiting"
<1>1. call[c] # NoCall
  BY KeysTick
<1>2. call[c].pc = "waiting" /\ call'[c] = [call[c] EXCEPT !.age = @ + 1] /\ call[c] \in CallRec
  BY <1>1, KeysTick, Parts
<1> QED BY <1>1, <1>2 DEF CallRec, GoesOn

LEMMA Judging ==
    ASSUME RotTypeOK, NEW c \in Call, call[c] # NoCall, NEW keys, call'[c] = Judged(c, keys), ~RotTick
    PROVE  DecidedFrom(c, keys) /\ call'[c].pc # "waiting"
<1>1. call[c].forcing \in BOOLEAN
  BY Parts DEF CallRec
<1>2. /\ Judged(c, keys).kid = call[c].kid /\ Judged(c, keys).age = call[c].age
      /\ Judged(c, keys).held = call[c].held
      /\ Judged(c, keys).pc = "accepted" <=> call[c].kid \in keys /\ ~Expired(c)
      /\ Judged(c, keys).pc = "consulting" <=> call[c].kid \notin keys /\ call[c].forcing = FALSE
      /\ Judged(c, keys).pc \in {"accepted", "refused", "consulting"}
  BY JudgedCalls
<1> QED BY <1>1, <1>2 DEF DecidedFrom, GoesOn

LEMMA CallsMove ==
    ASSUME RotTypeOK, CallsInTime, [RotNext]_rotVars, NEW c \in Call, call'[c] # NoCall
    PROVE  /\ Begins(c) \/ GoesOn(c)
           /\ call'[c].pc \in {"accepted", "refused"} => Decision(c)
<1>0. CASE RotTick
  BY <1>0, TickApart
<1> SUFFICES ASSUME ~RotTick
             PROVE  /\ Begins(c) \/ GoesOn(c)
                    /\ call'[c].pc \in {"accepted", "refused"} => Decision(c)
  BY <1>0
<1>a. call \in [Call -> {NoCall} \cup CallRec]
  BY DEF RotTypeOK, CallRec
<1>1. CASE call'[c] = call[c]
  BY <1>1 DEF GoesOn, Decision
<1>2. ASSUME NEW d \in Call, Verify(d), call'[c] # call[c]
      PROVE  Begins(c) /\ call'[c].pc \notin {"accepted", "refused"}
  <2>1. PICK kid \in {Stranger} \cup (IF token = NoToken THEN {} ELSE {token.kid}) :
          call' = [call EXCEPT ![d] =
              [pc |-> "consulting", forcing |-> FALSE, kid |-> kid, age |-> 0,
               held |-> IF cache = NoCache THEN FALSE ELSE kid \in cache.keys]]
    BY <1>2 DEF Verify
  <2>2. c = d /\ call[c] = NoCall /\ cache' = cache /\ VerifierStep
    BY <1>2, <1>a, <2>1 DEF Verify, VerifierStep
  <2>3. call'[c] = [pc |-> "consulting", forcing |-> FALSE, kid |-> kid, age |-> 0,
               held |-> IF cache = NoCache THEN FALSE ELSE kid \in cache.keys]
    BY <1>a, <2>1, <2>2
  <2>4. call'[c].pc = "consulting" /\ call'[c].age = 0 /\ call'[c].kid = kid
    BY <2>3
  <2>5. call'[c].held => cache # NoCache /\ kid \in cache.keys
    <3>1. call'[c].held = IF cache = NoCache THEN FALSE ELSE kid \in cache.keys
      BY <2>3
    <3> QED BY <3>1
  <2>6. kid # Stranger => token # NoToken /\ kid = token.kid
    BY <2>1
  <2> QED BY <2>2, <2>4, <2>5, <2>6 DEF Begins
<1>3. ASSUME NEW d \in Call, Consult(d), call'[c] # call[c]
      PROVE  GoesOn(c) /\ Decision(c)
  <2>1. c = d /\ call[c] # NoCall /\ call'[c] = Judged(c, cache.keys)
    BY <1>3, <1>a DEF Consult
  <2> QED BY <1>3, <2>1, Judging DEF Decision, DecidedFrom
<1>4. ASSUME NEW d \in Call, Refresh(d), call'[c] # call[c]
      PROVE  GoesOn(c) /\ call'[c].pc \notin {"accepted", "refused"}
  <2>1. c = d /\ call[c] # NoCall /\ call'[c] = [call[c] EXCEPT !.pc = "waiting"] /\ call[c] \in CallRec
    BY <1>4, <1>a DEF Refresh
  <2> QED BY <2>1 DEF GoesOn, CallRec
<1>5. ASSUME NEW d \in Call, Done(d), call'[c] # call[c] PROVE FALSE
  BY <1>5, <1>a DEF Done
<1>6. ASSUME NEW i \in Instance, FetchAnswered(i), call'[c] # call[c]
      PROVE  GoesOn(c) /\ Decision(c)
  <2>1. Landed(Jwks(deployed[i]))
    BY <1>6 DEF FetchAnswered
  <2>2. call[c] # NoCall /\ call'[c] = Judged(c, Jwks(deployed[i]))
    BY <1>6, <2>1, LandedCalls
  <2> QED BY <1>6, <2>2, Judging DEF Decision, DecidedFrom
<1>7. ASSUME FetchFailed, call'[c] # call[c]
      PROVE  GoesOn(c) /\ Decision(c)
  <2>1. CASE cache = NoCache
    <3>1. /\ call' = [x \in Call |-> IF x \in Waiting THEN [call[x] EXCEPT !.pc = "refused"] ELSE call[x]]
      BY <1>7, <2>1 DEF FetchFailed
    <3>2. c \in Waiting /\ call[c] \in CallRec /\ call'[c] = [call[c] EXCEPT !.pc = "refused"]
      BY <1>7, <1>a, <3>1 DEF Waiting
    <3>3. GoesOn(c) /\ call'[c].pc = "refused"
      BY <3>2 DEF GoesOn, CallRec, Waiting
    <3> QED BY <1>7, <2>1, <3>3 DEF Decision
  <2>2. CASE cache # NoCache
    <3>1. Landed(cache.keys)
      BY <1>7, <2>2 DEF FetchFailed
    <3>2. call[c] # NoCall /\ call'[c] = Judged(c, cache.keys)
      BY <1>7, <3>1, LandedCalls
    <3> QED BY <1>7, <2>2, <3>2, Judging DEF Decision, DecidedFrom
  <2> QED BY <2>1, <2>2
<1>8. VerifierStep \/ call' = call
  BY StepKinds DEF Boot, Issue, verifierVars, rotVars
<1> QED BY <1>1, <1>2, <1>3, <1>4, <1>5, <1>6, <1>7, <1>8 DEF VerifierStep

-----------------------------------------------------------------------------
(* The cached keys and the held key serve a verification of the token, step  *)
(* by step.                                                                  *)
LEMMA FindsStep ==
    RotTypeOK /\ InstancesBehind /\ TokenHasItsKey /\ CacheBehind /\ CallsInTime /\ CallsFindKey
        /\ [RotNext]_rotVars => CallsFindKey'
<1> SUFFICES ASSUME RotTypeOK, InstancesBehind, TokenHasItsKey, CacheBehind, CallsInTime, CallsFindKey,
                    [RotNext]_rotVars, NEW c \in Call, OfToken(c)'
             PROVE  /\ call'[c].kid = token'.kid
                    /\ ~forced' /\ cache' # NoCache /\ Age(c)' < JwksMaxAge => call'[c].kid \in cache'.keys
                    /\ ~forced' /\ call'[c].held => cache' # NoCache /\ call'[c].kid \in cache'.keys
  BY DEF CallsFindKey, FindsKey
<1>a. call'[c] # NoCall /\ call'[c].kid # Stranger /\ token'.left > 0
  BY DEF OfToken
<1>b. Begins(c) \/ GoesOn(c)
  BY <1>a, CallsMove
<1>d. OfToken(c) => FindsKey(c)
  BY DEF CallsFindKey
<1>1. CASE Begins(c)
  <2>1. /\ UNCHANGED <<operatorVars, deployed, token, cache>> /\ token # NoToken
        /\ call'[c].kid = token.kid /\ call'[c].age = 0
        /\ call'[c].held => cache # NoCache /\ call'[c].kid \in cache.keys
    BY <1>a, <1>1, StepKinds DEF Begins
  <2>2. ASSUME ~forced, cache # NoCache, Age(c)' < JwksMaxAge PROVE token.kid \in cache.keys
    <3>1. token.kid \in Key /\ cache.age \in Nat
      BY <2>1, <2>2, Parts, Durations
    <3>2. InUse(token.kid)
      BY <1>a, <2>1, <2>2 DEF TokenHasItsKey
    <3>3. Age(c)' = cache.age
      BY <2>1, <3>1 DEF Age
    <3> QED BY <2>2, <3>1, <3>2, <3>3 DEF CacheBehind, Cached
  <2> QED BY <2>1, <2>2 DEF operatorVars
<1>2. CASE GoesOn(c) /\ RotTick
  <2>1. /\ forced' = forced /\ call[c] # NoCall /\ call'[c].kid = call[c].kid
        /\ call'[c].held = call[c].held /\ call'[c].age = call[c].age + 1
    BY <1>2, KeysTick DEF GoesOn
  <2>2. token # NoToken /\ token' = [token EXCEPT !.left = @ - 1]
    <3>1. NoToken.left \in Int /\ NoToken.left <= 0
      BY Durations DEF NoToken
    <3>2. token' # NoToken
      BY <1>a, <3>1
    <3> QED BY <1>2, <3>2, KeysTick
  <2>3. token'.kid = token.kid /\ token'.left = token.left - 1
    BY <2>2, Parts DEF TokenRec
  <2>4. FindsKey(c) /\ OfToken(c)
    BY <1>a, <1>d, <2>1, <2>3, Parts DEF OfToken
  <2>5. cache' # NoCache => cache # NoCache /\ cache'.keys = cache.keys
                            /\ cache'.age = Later(cache.age, OldCache)
    BY <1>2, KeysTick
  <2>6. cache # NoCache => cache' # NoCache
    BY <1>2, KeysTick
  <2>7. ASSUME cache' # NoCache, Age(c)' < JwksMaxAge PROVE Age(c) < JwksMaxAge
    <3>a. cache # NoCache /\ call[c].age + 1 <= Stay
      BY <1>2, <2>1, <2>5, <2>7, KeysTick
    <3>b. cache.age \in 0 .. OldCache /\ call[c].age \in 0 .. Stay
      BY <2>1, <3>a, Parts
    <3>1. /\ cache.age \in 0 .. OldCache /\ call[c].age \in Nat /\ cache # NoCache
          /\ call[c].age + 1 <= Stay
      BY <3>a, <3>b, Durations
    <3>2. CASE cache.age < OldCache
      <4>1. cache'.age = cache.age + 1
        BY <2>5, <2>7, <3>1, <3>2, Durations DEF Later
      <4>2. cache'.age - call'[c].age = cache.age - call[c].age
        BY <2>1, <3>1, <4>1
      <4> QED BY <2>7, <4>2 DEF Age
    <3>3. CASE cache.age = OldCache
      <4>1. cache'.age = OldCache
        BY <2>5, <2>7, <3>3 DEF Later
      <4>2. cache'.age - call'[c].age >= JwksMaxAge
        BY <2>1, <3>1, <4>1, Durations
      <4>3. cache'.age - call'[c].age < JwksMaxAge
        BY <2>7 DEF Age
      <4> QED BY <2>1, <3>1, <4>1, <4>2, <4>3, Durations
    <3> QED BY <3>1, <3>2, <3>3, Durations
  <2> QED BY <2>1, <2>3, <2>4, <2>5, <2>6, <2>7 DEF FindsKey
<1>3. CASE GoesOn(c) /\ ~RotTick
  <2>1. /\ call[c] # NoCall /\ call'[c].kid = call[c].kid
        /\ call'[c].held = call[c].held /\ call'[c].age = call[c].age
    BY <1>3 DEF GoesOn
  <2>2. token' = token
    <3>1. ASSUME NEW i \in Instance, Issue(i) PROVE FALSE
      BY <1>a, <2>1, <3>1 DEF Issue
    <3> QED BY <1>3, <3>1, StepKinds DEF Boot, rotVars
  <2>3. FindsKey(c) /\ OfToken(c)
    BY <1>a, <1>d, <2>1, <2>2 DEF OfToken
  <2>4. ~forced' => ~forced
    BY <1>3, StepKinds DEF OperatorStep, PublishKey, ActivateKey, RetireKey, Due, Boot, Issue,
                       operatorVars, rotVars
  <2>5. ASSUME NEW i \in Instance, FetchAnswered(i), ~forced
        PROVE  cache' # NoCache /\ call'[c].kid \in cache'.keys
    <3>1. cache' = [keys |-> Jwks(deployed[i]), age |-> flight.age] /\ flight # NoFlight
      BY <2>5 DEF FetchAnswered
    <3>2. cache'.age = flight.age /\ flight.age \in Nat
      BY <3>1, Parts, Durations
    <3>3. cache' # NoCache
      BY <3>2, Durations DEF NoCache
    <3>4. token # NoToken /\ token.kid \in Key /\ token.left > 0
      BY <2>3, Parts DEF OfToken
    <3>5. InUse(token.kid)
      BY <2>5, <3>4 DEF TokenHasItsKey
    <3>6. token.kid \in Jwks(deployed[i])
      BY <2>5, <3>4, <3>5 DEF InstancesBehind, Behind
    <3> QED BY <2>1, <2>3, <3>1, <3>3, <3>6 DEF FindsKey
  <2>6. CASE cache' = cache
    BY <2>1, <2>2, <2>3, <2>4, <2>6 DEF FindsKey, Age
  <2>7. cache' = cache \/ \E i \in Instance : FetchAnswered(i)
    BY <1>3, StepKinds DEF Boot, Issue, VerifierStep, Verify, Consult, Refresh, Done, FetchFailed,
                       verifierVars, rotVars
  <2>8. call'[c].kid = token'.kid
    BY <2>1, <2>2, <2>3 DEF FindsKey
  <2> QED BY <2>1, <2>2, <2>3, <2>4, <2>5, <2>6, <2>7, <2>8
<1> QED BY <1>b, <1>1, <1>2, <1>3

-----------------------------------------------------------------------------
(* A token that has not expired is refused only where a request failed, and  *)
(* not then if its key was held.                                             *)
Refusals(c) == ~forced /\ Wronged(c) => outage /\ ~call[c].held

LEMMA RefusalsAre ==
    RotationRefusesNobody /\ OutageKeepsKeys <=> \A c \in Call : Refusals(c)
  BY DEF RotationRefusesNobody, OutageKeepsKeys, Refusals

LEMMA RefusesStep ==
    ASSUME RotTypeOK, InstancesBehind, TokenHasItsKey, CallsInTime, CallsFindKey,
           \A c \in Call : Refusals(c), [RotNext]_rotVars
    PROVE  \A c \in Call : Refusals(c)'
<1> SUFFICES ASSUME NEW c \in Call, ~forced', Wronged(c)'
             PROVE  outage' /\ ~call'[c].held
  BY DEF Refusals
<1>a. call'[c] # NoCall /\ call'[c].pc = "refused" /\ call'[c].kid # Stranger /\ token'.left > 0
  BY DEF Wronged
<1>b. Decision(c)
  BY <1>a, CallsMove
<1>c. Decision(c) /\ ~RotTick
  BY <1>a, <1>b, TickApart
<1>d. ~forced /\ (outage => outage')
  <2>1. CASE OperatorStep
    <3>1. outage' = outage
      BY <2>1, StepKinds DEF verifierVars
    <3>2. forced => forced'
      BY <2>1 DEF OperatorStep, PublishKey, ActivateKey, RetireKey, Due
    <3> QED BY <3>1, <3>2
  <2>2. CASE VerifierStep
    <3>1. forced' = forced
      BY <2>2, StepKinds DEF operatorVars
    <3>2. outage => outage'
      BY <2>2 DEF VerifierStep, FetchAnswered, Verify, Consult, Refresh, Done, FetchFailed
    <3> QED BY <3>1, <3>2
  <2>3. CASE (\E i \in Instance : Boot(i) \/ Issue(i)) \/ UNCHANGED rotVars
    BY <2>3 DEF Boot, Issue, operatorVars, verifierVars, rotVars
  <2> QED BY <1>c, <2>1, <2>2, <2>3, StepKinds
<1>e. Refusals(c)
  OBVIOUS
<1>1. CASE call'[c] = call[c]
  <2>1. token' = token
    <3>1. ASSUME NEW i \in Instance, Issue(i) PROVE FALSE
      BY <1>a, <1>1, <3>1 DEF Issue
    <3> QED BY <1>c, <3>1, StepKinds DEF Boot, rotVars
  <2> QED BY <1>a, <1>d, <1>e, <1>1, <2>1 DEF Refusals, Wronged
<1>2. ASSUME VerifierStep, GoesOn(c) PROVE FindsKey(c) /\ OfToken(c) /\ call[c].kid = token.kid
  <2>1. token' = token
    BY <1>2, StepKinds
  <2> QED BY <1>a, <1>2, <2>1 DEF GoesOn, CallsFindKey, FindsKey, OfToken
<1>3. ASSUME NEW keys, VerifierStep, DecidedFrom(c, keys) PROVE call[c].kid \notin keys /\ call[c].forcing = TRUE
  <2>1. token.left > 0 /\ token.left \in Int /\ call[c].age \in Nat
    BY <1>2, <1>3, Parts, Durations DEF DecidedFrom, OfToken
  <2>2. ~Expired(c)
    BY <2>1, Durations DEF Expired
  <2> QED BY <1>a, <1>3, <2>2 DEF DecidedFrom
<1>4. CASE Consult(c) /\ DecidedFrom(c, cache.keys)
  <2>1. VerifierStep /\ GoesOn(c) /\ ~MayRefetch(c)
    BY <1>4 DEF VerifierStep, DecidedFrom, Consult
  <2>2. call[c].kid \notin cache.keys /\ call[c].forcing = TRUE
    BY <1>3, <1>4, <2>1
  <2>3. cache # NoCache /\ ~(Age(c) >= MinRefetch)
    BY <2>1, <2>2 DEF MayRefetch
  <2>4. cache.age \in Nat /\ call[c].age \in Nat
    BY <1>2, <2>1, <2>3, Parts, Durations DEF OfToken
  <2>5. Age(c) < JwksMaxAge
    BY <2>3, <2>4, Durations DEF Age
  <2> QED BY <1>2, <1>d, <2>1, <2>2, <2>3, <2>5 DEF FindsKey
<1>5. ASSUME NEW i \in Instance, FetchAnswered(i), DecidedFrom(c, Jwks(deployed[i]))
      PROVE  FALSE
  <2>1. VerifierStep /\ GoesOn(c)
    BY <1>5 DEF VerifierStep, DecidedFrom
  <2>2. call[c].kid \notin Jwks(deployed[i])
    BY <1>3, <1>5, <2>1
  <2>3. token.left > 0 /\ token.kid = call[c].kid
    BY <1>2, <2>1 DEF OfToken
  <2>4. token.kid \in Key
    BY <2>3, Parts, Durations
  <2>5. InUse(token.kid)
    BY <1>d, <2>3 DEF TokenHasItsKey
  <2> QED BY <1>d, <2>2, <2>3, <2>4, <2>5 DEF InstancesBehind, Behind
<1>6. CASE FetchFailed /\ cache # NoCache /\ DecidedFrom(c, cache.keys)
  <2>1. VerifierStep /\ GoesOn(c) /\ outage'
    BY <1>6 DEF VerifierStep, DecidedFrom, FetchFailed
  <2>2. call[c].kid \notin cache.keys
    BY <1>3, <1>6, <2>1
  <2> QED BY <1>2, <1>d, <2>1, <2>2 DEF FindsKey, GoesOn
<1>7. CASE FetchFailed /\ cache = NoCache /\ GoesOn(c)
  <2>1. VerifierStep /\ outage'
    BY <1>7 DEF VerifierStep, FetchFailed
  <2> QED BY <1>2, <1>7, <1>d, <2>1 DEF FindsKey, GoesOn
<1> QED BY <1>b, <1>1, <1>4, <1>5, <1>6, <1>7 DEF Decision

(* Nothing but a key's signature is accepted, step by step.                  *)
LEMMA SignedStep ==
    RotTypeOK /\ CallsInTime /\ SignedByKeys /\ [RotNext]_rotVars => SignedByKeys'
<1> SUFFICES ASSUME RotTypeOK, CallsInTime, SignedByKeys, [RotNext]_rotVars,
                    NEW c \in Call, call'[c] # NoCall, call'[c].pc = "accepted"
             PROVE  call'[c].kid \in Key
  BY DEF SignedByKeys
<1>1. Decision(c)
  BY CallsMove
<1>2. ASSUME NEW keys, keys \subseteq Key, DecidedFrom(c, keys) PROVE call'[c].kid \in Key
  BY <1>2 DEF DecidedFrom, GoesOn
<1>3. \A i \in Instance : Jwks(deployed[i]) \subseteq Key
  BY Parts DEF Jwks
<1>4. cache # NoCache => cache.keys \subseteq Key
  BY Parts
<1>5. Consult(c) => cache # NoCache
  BY DEF Consult, MayRefetch
<1> QED BY <1>1, <1>2, <1>3, <1>4, <1>5 DEF Decision, SignedByKeys

-----------------------------------------------------------------------------
(* What a step does to the note of a withdrawal: nothing, or it is made now. *)
LEMMA WithdrawnMoves ==
    ASSUME RotTypeOK, [RotNext]_rotVars, ~RotTick, NEW k \in Key
    PROVE  withdrawn'[k] \in {withdrawn[k], 0}
<1>1. ASSUME NEW x \in Key, RetireKey(x) PROVE withdrawn'[k] \in {withdrawn[k], 0}
  BY <1>1 DEF RetireKey, RotTypeOK
<1>2. ASSUME NEW x \in Key, PublishKey(x) \/ ActivateKey(x) PROVE withdrawn' = withdrawn
  BY <1>2 DEF PublishKey, ActivateKey
<1>3. OperatorStep \/ withdrawn' = withdrawn
  BY StepKinds DEF Boot, Issue, operatorVars, rotVars
<1> QED BY <1>1, <1>2, <1>3 DEF OperatorStep

(* A withdrawn key's signature is not accepted for long.                     *)
LEMMA ForgottenStep ==
    ASSUME RotTypeOK, InstancesBehind, CacheBehind, CallsInTime, SignedByKeys, WithdrawnForgotten,
           [RotNext]_rotVars
    PROVE  WithdrawnForgotten'
<1> SUFFICES ASSUME ~outage', NEW c \in Call, call'[c] # NoCall, call'[c].pc = "accepted",
                    withdrawn'[call'[c].kid] # Never
             PROVE  withdrawn'[call'[c].kid] - call'[c].age < ForgottenAfter
  BY DEF WithdrawnForgotten
<1> DEFINE k == call'[c].kid
<1>a. Decision(c) /\ ~RotTick
  BY CallsMove, TickApart
<1>b. k \in Key
  BY SignedStep DEF SignedByKeys
<1>c. withdrawn'[k] \in {withdrawn[k], 0} /\ withdrawn[k] \in Int
  BY <1>a, <1>b, WithdrawnMoves, Parts, Durations
<1>d. call'[c].age \in Nat
  <2>1. CASE call'[c] = call[c]
    BY <2>1, Parts, Durations
  <2>2. CASE GoesOn(c)
    BY <1>a, <2>2, Parts, Durations DEF GoesOn
  <2> QED BY <1>a, <2>1, <2>2 DEF Decision, DecidedFrom
<1>e. /\ ForgottenAfter = MaxDeploy + JwksMaxAge + MaxFetch /\ JwksMaxAge \in Nat /\ MaxDeploy \in Nat
      /\ MaxFetch \in Nat /\ JwksMaxAge >= 1 /\ MinRefetch <= JwksMaxAge /\ MinRefetch \in Nat
  BY Durations
<1>1. CASE withdrawn'[k] = 0
  BY <1>1, <1>d, <1>e
<1>2. CASE withdrawn'[k] # 0
  <2>0. withdrawn'[k] = withdrawn[k] /\ withdrawn[k] # Never
    BY <1>2, <1>c
  <2>1. ASSUME VerifierStep, NEW keys, DecidedFrom(c, keys)
        PROVE  k \in keys /\ call[c].age = call'[c].age /\ call[c].kid = k /\ call[c] # NoCall
    BY <2>1 DEF DecidedFrom, GoesOn
  <2>2. CASE call'[c] = call[c]
    <3>1. ~outage
      BY StepKinds, <1>a DEF OperatorStep, PublishKey, ActivateKey, RetireKey, Apply, Boot, Issue, VerifierStep,
                         FetchAnswered, Verify, Consult, Refresh, Done, FetchFailed, verifierVars, rotVars
    <3> QED BY <2>0, <2>2, <3>1 DEF WithdrawnForgotten
  <2>3. CASE Consult(c) /\ DecidedFrom(c, cache.keys)
    <3>1. VerifierStep /\ ~MayRefetch(c)
      BY <2>3 DEF VerifierStep, Consult
    <3>2. cache # NoCache /\ (~(Age(c) >= MinRefetch) \/ ~(Age(c) >= JwksMaxAge))
      BY <3>1 DEF MayRefetch
    <3>3. k \in cache.keys /\ call[c].age = call'[c].age /\ call[c] # NoCall
      BY <2>1, <2>3, <3>1
    <3>4. cache.age \in Nat
      BY <3>2, Parts, Durations
    <3>5. cache.age - call'[c].age < JwksMaxAge
      BY <1>d, <1>e, <3>2, <3>3, <3>4 DEF Age
    <3>6. withdrawn[k] <= cache.age + MaxDeploy
      BY <1>b, <2>0, <3>2, <3>3 DEF CacheBehind, Cached
    <3> QED BY <1>c, <1>d, <1>e, <2>0, <3>4, <3>5, <3>6
  <2>4. ASSUME NEW i \in Instance, FetchAnswered(i), DecidedFrom(c, Jwks(deployed[i]))
        PROVE  withdrawn'[k] - call'[c].age < ForgottenAfter
    <3>1. VerifierStep
      BY <2>4 DEF VerifierStep
    <3>2. k \in Jwks(deployed[i])
      BY <2>1, <2>4, <3>1
    <3>3. withdrawn[k] <= rollout /\ rollout \in Nat /\ rollout <= MaxDeploy
      BY <1>b, <2>0, <3>2, Parts, Durations DEF InstancesBehind, Behind
    <3> QED BY <1>c, <1>d, <1>e, <2>0, <3>3
  <2>5. ~FetchFailed
    BY DEF FetchFailed
  <2> QED BY <1>a, <2>2, <2>3, <2>4, <2>5 DEF Decision
<1> QED BY <1>1, <1>2

-----------------------------------------------------------------------------
(* A request is opened when the cache has aged enough, and both age alike.   *)
LEMMA SpacedStep ==
    ASSUME RotTypeOK, CallsInTime, RefetchSpaced, [RotNext]_rotVars
    PROVE  RefetchSpaced'
<1> SUFFICES ASSUME ~outage', flight' # NoFlight, cache' # NoCache
             PROVE  cache'.age - flight'.open >= MinRefetch
  BY DEF RefetchSpaced
<1>a. /\ MinRefetch \in Nat /\ JwksMaxAge \in Nat /\ MinRefetch <= JwksMaxAge /\ MaxFetch \in Nat
      /\ OldCache = JwksMaxAge + Stay /\ Stay = 2 * MaxFetch
  BY Durations
<1>1. ASSUME NEW c \in Call, Refresh(c) PROVE cache'.age - flight'.open >= MinRefetch
  <2>1. cache' = cache /\ outage' = outage /\ MayRefetch(c) /\ call[c] # NoCall
        /\ flight' = IF flight = NoFlight THEN [age |-> call[c].age, open |-> 0] ELSE flight
    BY <1>1 DEF Refresh
  <2>2. cache # NoCache /\ cache.age \in Nat /\ call[c].age \in Nat
    BY <2>1, Parts, Durations
  <2>3. CASE flight = NoFlight
    <3>1. flight'.open = 0
      BY <2>1, <2>3
    <3>2. Age(c) >= MinRefetch \/ Age(c) >= JwksMaxAge
      BY <2>1, <2>2 DEF MayRefetch
    <3> QED BY <1>a, <2>1, <2>2, <3>1, <3>2 DEF Age
  <2>4. CASE flight # NoFlight
    BY <2>1, <2>2, <2>4 DEF RefetchSpaced
  <2> QED BY <2>3, <2>4
<1>2. CASE RotTick
  <2>1. /\ flight # NoFlight /\ flight'.open = flight.open + 1 /\ flight.open < MaxFetch
        /\ cache # NoCache /\ cache'.age = Later(cache.age, OldCache) /\ outage' = outage
    <3>1. flight # NoFlight /\ cache # NoCache /\ outage' = outage
      BY <1>2, KeysTick
    <3> QED BY <1>2, <3>1, KeysTick
  <2>2. cache.age \in 0 .. OldCache /\ flight.open \in Nat /\ OldCache \in Nat
    BY <2>1, Parts, Durations
  <2>3. cache.age - flight.open >= MinRefetch
    BY <2>1 DEF RefetchSpaced
  <2>4. cache'.age = cache.age + 1 \/ cache'.age = OldCache
    BY <2>1, <2>2, Durations DEF Later
  <2> QED BY <1>a, <2>1, <2>2, <2>3, <2>4
<1>3. ASSUME NEW i \in Instance, FetchAnswered(i) PROVE FALSE
  BY <1>3 DEF FetchAnswered, Landed
<1>4. ~FetchFailed
  BY DEF FetchFailed
<1>5. CASE UNCHANGED <<cache, flight, outage>>
  BY <1>5 DEF RefetchSpaced
<1>6. VerifierStep \/ RotTick \/ UNCHANGED <<cache, flight, outage>>
  BY StepKinds DEF Boot, Issue, verifierVars, rotVars
<1>7. ASSUME NEW c \in Call, Verify(c) \/ Consult(c) \/ Done(c) PROVE UNCHANGED <<cache, flight, outage>>
  BY <1>7 DEF Verify, Consult, Done
<1> QED BY <1>1, <1>2, <1>3, <1>4, <1>5, <1>6, <1>7 DEF VerifierStep

-----------------------------------------------------------------------------
LEMMA RotInitially == RotInit => RotIInv
<1> SUFFICES ASSUME RotInit PROVE RotIInv
  OBVIOUS
<1>1. /\ env = [signer |-> FirstKey, retained |-> {}]
      /\ published = [k \in Key |-> Never] /\ deactivated = [k \in Key |-> Never]
      /\ withdrawn = [k \in Key |-> Never]
      /\ deployed = [i \in Instance |-> env] /\ rollout = 0
      /\ token = NoToken /\ cache = NoCache /\ flight = NoFlight
      /\ call = [c \in Call |-> NoCall] /\ forced = FALSE /\ outage = FALSE
  BY DEF RotInit
<1>2. env \in RotEnvironment /\ env.signer = FirstKey /\ env.retained = {} /\ FirstKey \in Key
  BY <1>1, RotationAssumption DEF RotEnvironment
<1>3. RotTypeOK
  <2>1. 0 \in 0 .. MaxDeploy
    BY Durations
  <2> QED BY <1>1, <1>2, <2>1 DEF RotTypeOK
<1>4. KeyLives
  BY <1>1, <1>2 DEF KeyLives, KeyLife, Jwks
<1>5. InstancesBehind
  <2> SUFFICES ASSUME NEW i \in Instance, NEW k \in Key PROVE Behind(i, k)
    BY DEF InstancesBehind
  <2>1. /\ deployed[i] = env /\ published[k] = Never /\ deactivated[k] = Never
        /\ withdrawn[k] = Never /\ ~(Never > 0)
    BY <1>1, Durations
  <2> QED BY <1>1, <2>1 DEF Behind, InUse, Jwks
<1>6. TokenHasItsKey
  <2>1. token.left <= 0 /\ token.left \in Int
    BY <1>1, <1>3, Parts
  <2> QED BY <2>1 DEF TokenHasItsKey
<1>7. CacheBehind /\ CallsInTime /\ CallsFindKey /\ SignedByKeys
  BY <1>1 DEF CacheBehind, CallsInTime, FlightInTime, CallInTime, CallsFindKey, FindsKey, OfToken,
              SignedByKeys
<1>8. RotationRefusesNobody /\ JwksCacheSound
  BY <1>1 DEF RotationRefusesNobody, JwksCacheSound, OutageKeepsKeys, WithdrawnForgotten, RefetchSpaced,
              Wronged
<1> QED BY <1>3, <1>4, <1>5, <1>6, <1>7, <1>8 DEF RotIInv

LEMMA RotStep == RotIInv /\ [RotNext]_rotVars => RotIInv'
<1> SUFFICES ASSUME RotIInv, [RotNext]_rotVars PROVE RotIInv'
  OBVIOUS
<1>1. /\ RotTypeOK /\ KeyLives /\ InstancesBehind /\ TokenHasItsKey /\ CacheBehind
      /\ CallsInTime /\ CallsFindKey /\ SignedByKeys
      /\ RotationRefusesNobody /\ OutageKeepsKeys /\ WithdrawnForgotten /\ RefetchSpaced
  BY DEF RotIInv, JwksCacheSound
<1>2. RotTypeOK' /\ KeyLives' /\ InstancesBehind' /\ TokenHasItsKey' /\ CacheBehind'
  BY <1>1, RotTypesStep, LivesStep, BehindStep, TokenStep, CacheStep
<1>3. CallsInTime' /\ CallsFindKey' /\ SignedByKeys'
  BY <1>1, InTimeStep, FindsStep, SignedStep
<1>4. RotationRefusesNobody' /\ OutageKeepsKeys'
  <2>1. \A c \in Call : Refusals(c)'
    BY <1>1, RefusalsAre, RefusesStep
  <2> QED BY <2>1 DEF RotationRefusesNobody, OutageKeepsKeys, Refusals
<1>5. WithdrawnForgotten' /\ RefetchSpaced'
  BY <1>1, ForgottenStep, SpacedStep
<1> QED BY <1>2, <1>3, <1>4, <1>5 DEF RotIInv, JwksCacheSound

(* The inductive invariant of a rotation and the verifier beside it.         *)
THEOREM KeysInvariant == RotSpec => []RotIInv
<1>1. RotInit => RotIInv
  BY RotInitially
<1>2. RotIInv /\ [RotNext]_rotVars => RotIInv'
  BY RotStep
<1> QED BY <1>1, <1>2, PTL DEF RotSpec

(* A rotation that keeps the waits refuses no token, inside the IAM or       *)
(* beyond it, an outage refuses none whose key was held, and a withdrawn key *)
(* is forgotten in time (the planners of libs/config/src/key-rotation.ts,    *)
(* the keys read at boot, and JwksVerifier).                                 *)
THEOREM KeysAreSound == RotSpec => []KeysSound
<1>1. RotIInv => KeysSound
  <2> SUFFICES ASSUME RotIInv PROVE KeysSound
    OBVIOUS
  <2>1. RotTypeOK /\ InstancesBehind /\ TokenHasItsKey /\ RotationRefusesNobody /\ JwksCacheSound
    BY DEF RotIInv
  <2>2. InstancesKnowKey
    <3> SUFFICES ASSUME ~forced, token.left > 0, NEW i \in Instance PROVE token.kid \in Jwks(deployed[i])
      BY DEF InstancesKnowKey
    <3>1. token.kid \in Key
      BY <2>1, Parts
    <3>2. InUse(token.kid)
      BY <2>1 DEF TokenHasItsKey
    <3> QED BY <2>1, <3>1, <3>2 DEF InstancesBehind, Behind
  <2> QED BY <2>1, <2>2 DEF KeysSound, RotationSafe
<1> QED BY <1>1, KeysInvariant, PTL

-----------------------------------------------------------------------------
(* SecretScreen.  What a request can be, ...                                 *)
Unminted == [pc : {"sent"}, account : Account, rotated : BOOLEAN, heard : BOOLEAN]
Minted == [pc : {"answered"}, account : Account, rotated : BOOLEAN, secret : Secrets,
           heard : BOOLEAN]
Shown == [account : Account, secret : Secrets, rotated : BOOLEAN]

(* ... and a secret: there is none but those minted, each of them new.        *)
MintedOnes ==
    /\ mints >= 1
    /\ \A a \in Account : inForce[a] <= mints
    /\ \A s \in Secrets : s > mints => lost[s] = "no"
    /\ \A k \in Ask : ask[k].pc = "answered" => ask[k].secret <= mints
    /\ revealed.secret <= mints

(* A secret is under way, on the screen or lost, and not two of these.        *)
OneSight ==
    /\ \A j, k \in Ask : ask[j].pc = "answered" /\ ask[k].pc = "answered"
                         /\ ask[j].secret = ask[k].secret => j = k
    /\ \A k \in Ask : ask[k].pc = "answered" =>
          lost[ask[k].secret] = "no" /\ ask[k].secret # revealed.secret
    /\ revealed # Nothing => lost[revealed.secret] = "no"

(* A rotation is asked for of an account that is there, one at a time as far  *)
(* as the screen knows; a creation of one that is not, one at a time.         *)
Rotating(k, a) == ask[k] # NotAsked /\ ask[k].rotated /\ ask[k].account = a
NoOther ==
    revealed.rotated => /\ inForce[revealed.account] # 0
                        /\ \A k \in Ask : ~(Rotating(k, revealed.account) /\ ask[k].heard)
Buttons ==
    /\ \A k \in Ask, a \in Account : Rotating(k, a) => inForce[a] # 0
    /\ \A k \in Ask : ask[k].pc = "sent" /\ ~ask[k].rotated => inForce[ask[k].account] = 0
    /\ \A j, k \in Ask : ask[j].pc = "sent" /\ ~ask[j].rotated /\ ask[k].pc = "sent"
                         /\ ask[j].account = ask[k].account => j = k
    /\ \A k \in Ask, a \in Account : Rotating(k, a) /\ ask[k].heard => a \in busy
    /\ \A j, k \in Ask, a \in Account :
          Rotating(j, a) /\ ask[j].heard /\ Rotating(k, a) /\ ask[k].heard => j = k
    /\ NoOther

(* Every secret ever minted is accounted for, ...                            *)
AccountedFor(s) ==
    \/ s \in copied
    \/ revealed.secret = s
    \/ Answered(s)
    \/ lost[s] \in {"unheard", "left"}
    \/ covered /\ lost[s] = "covered"
AllAccountedFor == \A s \in 1 .. mints : AccountedFor(s)

(* ... the window is not closed on one that is not copied, unless covered, ... *)
Closing == (acknowledged => revealed # Nothing) /\ ClosedWhenCopied

(* ... and the one that is shown, or about to be, works.                     *)
Works(a, secret) ==
    LET s == inForce[a] IN
    \/ s = secret
    \/ lost[s] = "unheard"
    \/ \E k \in Ask : ask[k].pc = "answered" /\ ~ask[k].heard /\ ask[k].secret = s
AllWork ==
    /\ revealed.rotated => Works(revealed.account, revealed.secret)
    /\ \A k \in Ask : ask[k].pc = "answered" /\ ask[k].rotated /\ ask[k].heard =>
                          Works(ask[k].account, ask[k].secret)

SecretsIInv == /\ ScreenTypeOK /\ MintedOnes /\ OneSight /\ Buttons
               /\ AllAccountedFor /\ Closing /\ AllWork

(* A request that has been sent is one of the two kinds.                     *)
LEMMA Requests ==
    ASSUME ScreenTypeOK, NEW k \in Ask
    PROVE  /\ ask[k].pc = "sent" => ask[k] \in Unminted
           /\ ask[k].pc = "answered" => ask[k] \in Minted
           /\ ask[k] # NotAsked => ask[k].pc \in {"sent", "answered"}
           /\ ask[k].pc \in {"sent", "answered"} => ask[k] # NotAsked
<1>1. ask[k] \in {NotAsked} \cup Unminted \cup Minted
  BY DEF ScreenTypeOK, Unminted, Minted
<1>2. NotAsked.pc = "none"
  BY DEF NotAsked
<1> QED BY <1>1, <1>2 DEF Unminted, Minted

LEMMA Sights ==
    ASSUME ScreenTypeOK
    PROVE  /\ revealed # Nothing => revealed \in Shown
           /\ Nothing.secret = 0 /\ Nothing.rotated = FALSE
           /\ revealed.secret \in 0 .. MaxMints
           /\ revealed.secret # 0 <=> revealed # Nothing
           /\ revealed.rotated => revealed \in Shown
  BY ScreenAssumption DEF ScreenTypeOK, Nothing, Shown, Secrets

(* What each step does to the requests: one of them is sent, ...             *)
LEMMA Sends ==
    ASSUME ScreenTypeOK, NEW k \in Ask, NEW a \in Account, RotateAccount(k, a) \/ Create(k, a)
    PROVE  /\ ask' \in [Ask -> {NotAsked} \cup Unminted \cup Minted]
           /\ ask[k] = NotAsked /\ revealed = Nothing
           /\ ask'[k] \in Unminted /\ ask'[k].account = a /\ ask'[k].heard
           /\ \/ ask'[k].rotated /\ inForce[a] # 0 /\ a \notin busy /\ busy' = busy \cup {a}
              \/ /\ ~ask'[k].rotated /\ inForce[a] = 0 /\ busy' = busy
                 /\ \A j \in Ask : ask[j].pc = "sent" => ask[j].account # a
           /\ \A j \in Ask \ {k} : ask'[j] = ask[j]
           /\ UNCHANGED <<inForce, mints, revealed, acknowledged, copied, covered, lost>>
<1> DEFINE new(rotated) == [pc |-> "sent", account |-> a, rotated |-> rotated, heard |-> TRUE]
<1>1. \A rotated \in BOOLEAN : /\ new(rotated) \in Unminted /\ new(rotated).account = a
                               /\ new(rotated).rotated = rotated /\ new(rotated).heard
  BY DEF Unminted
<1>2. /\ RotateAccount(k, a) => ask' = [ask EXCEPT ![k] = new(TRUE)]
      /\ Create(k, a) => ask' = [ask EXCEPT ![k] = new(FALSE)]
  BY DEF RotateAccount, Create, Send
<1> HIDE DEF new
<1>3. ask \in [Ask -> {NotAsked} \cup Unminted \cup Minted]
  BY DEF ScreenTypeOK, Unminted, Minted
<1>4. CASE RotateAccount(k, a)
  <2>1. ask'[k] = new(TRUE) /\ ask' \in [Ask -> {NotAsked} \cup Unminted \cup Minted]
        /\ \A j \in Ask \ {k} : ask'[j] = ask[j]
    BY <1>1, <1>2, <1>3, <1>4
  <2> QED BY <1>1, <1>4, <2>1 DEF RotateAccount, Send, Free
<1>5. CASE Create(k, a)
  <2>1. ask'[k] = new(FALSE) /\ ask' \in [Ask -> {NotAsked} \cup Unminted \cup Minted]
        /\ \A j \in Ask \ {k} : ask'[j] = ask[j]
    BY <1>1, <1>2, <1>3, <1>5
  <2> QED BY <1>1, <1>5, <2>1 DEF Create, Send, Free
<1> QED BY <1>4, <1>5

(* ... gets its secret, ...                                                  *)
LEMMA Mints ==
    ASSUME ScreenTypeOK, NEW k \in Ask, Mint(k)
    PROVE  /\ ask' \in [Ask -> {NotAsked} \cup Unminted \cup Minted]
           /\ ask[k] \in Unminted
           /\ ask'[k] \in Minted
           /\ ask'[k].account = ask[k].account /\ ask'[k].rotated = ask[k].rotated
           /\ ask'[k].heard = ask[k].heard
           /\ ask'[k].secret = mints + 1
           /\ \A j \in Ask \ {k} : ask'[j] = ask[j]
           /\ mints \in Nat /\ mints + 1 \in Secrets /\ mints' = mints + 1
           /\ inForce' = [inForce EXCEPT ![ask[k].account] = mints + 1]
           /\ UNCHANGED <<busy, revealed, acknowledged, copied, covered, lost>>
<1> DEFINE new == [pc |-> "answered", account |-> ask[k].account, rotated |-> ask[k].rotated,
                   secret |-> mints + 1, heard |-> ask[k].heard]
<1>1. ask[k] \in Unminted
  BY Requests DEF Mint
<1>2. mints \in Nat /\ mints + 1 \in Secrets /\ mints' = mints + 1
  BY ScreenAssumption DEF Mint, ScreenTypeOK, Secrets
<1>3. /\ new \in Minted
      /\ new.account = ask[k].account /\ new.rotated = ask[k].rotated
      /\ new.heard = ask[k].heard /\ new.secret = mints + 1
  BY <1>1, <1>2 DEF Unminted, Minted
<1>4. ask \in [Ask -> {NotAsked} \cup Unminted \cup Minted]
  BY DEF ScreenTypeOK, Unminted, Minted
<1>5. ask' = [ask EXCEPT ![k] = new]
  BY <1>2, <1>4 DEF Mint
<1> HIDE DEF new
<1> QED BY <1>1, <1>2, <1>3, <1>4, <1>5 DEF Mint

(* ... is over, ...                                                          *)
LEMMA Ends ==
    ASSUME ScreenTypeOK, NEW k \in Ask, Reveal(k) \/ Forgotten(k)
    PROVE  /\ ask' \in [Ask -> {NotAsked} \cup Unminted \cup Minted]
           /\ ask'[k] = NotAsked
           /\ \A j \in Ask \ {k} : ask'[j] = ask[j]
           /\ UNCHANGED <<inForce, mints>>
<1>1. ask \in [Ask -> {NotAsked} \cup Unminted \cup Minted]
  BY DEF ScreenTypeOK, Unminted, Minted
<1>2. ask' = [ask EXCEPT ![k] = NotAsked]
  BY DEF Reveal, Forgotten
<1> QED BY <1>1, <1>2 DEF Reveal, Forgotten

(* ... or is not listened to any more, it or all of them.                    *)
LEMMA Turns ==
    ASSUME ScreenTypeOK, (\E k \in Ask : Unheard(k)) \/ LeaveScreen
    PROVE  /\ ask' \in [Ask -> {NotAsked} \cup Unminted \cup Minted]
           /\ \A j \in Ask : ask'[j] = NotAsked <=> ask[j] = NotAsked
           /\ \A j \in Ask : ask[j] # NotAsked =>
                 /\ ask'[j].pc = ask[j].pc /\ ask'[j].account = ask[j].account
                 /\ ask'[j].rotated = ask[j].rotated
                 /\ ask[j].pc = "answered" => ask'[j].secret = ask[j].secret
                 /\ ask'[j].heard => ask[j].heard
                 /\ LeaveScreen \/ Unheard(j) => ~ask'[j].heard
           /\ UNCHANGED <<inForce, mints>>
<1>1. ask \in [Ask -> {NotAsked} \cup Unminted \cup Minted]
  BY DEF ScreenTypeOK, Unminted, Minted
<1> DEFINE Deaf(j) == [ask[j] EXCEPT !.heard = FALSE]
<1>2. ASSUME NEW j \in Ask, ask[j] # NotAsked
      PROVE  /\ Deaf(j) \in Unminted \cup Minted
             /\ Deaf(j).pc = ask[j].pc /\ Deaf(j).account = ask[j].account
             /\ Deaf(j).rotated = ask[j].rotated
             /\ ask[j].pc = "answered" => Deaf(j).secret = ask[j].secret
             /\ Deaf(j).heard = FALSE
             /\ Deaf(j) # NotAsked
  <2>1. CASE ask[j] \in Unminted
    BY <2>1 DEF Unminted, NotAsked
  <2>2. CASE ask[j] \in Minted
    BY <2>2 DEF Minted, NotAsked
  <2> QED BY <1>1, <1>2, <2>1, <2>2
<1>3. CASE LeaveScreen
  <2>1. ask' = [j \in Ask |-> IF ask[j] = NotAsked THEN NotAsked ELSE Deaf(j)]
    BY <1>3 DEF LeaveScreen
  <2> HIDE DEF Deaf
  <2>2. \A j \in Ask : ask'[j] = IF ask[j] = NotAsked THEN NotAsked ELSE Deaf(j)
    BY <2>1
  <2>3. ask' \in [Ask -> {NotAsked} \cup Unminted \cup Minted]
    BY <1>2, <2>1
  <2> QED BY <1>2, <1>3, <2>2, <2>3 DEF LeaveScreen
<1>4. ASSUME NEW k \in Ask, Unheard(k)
      PROVE  /\ ask' \in [Ask -> {NotAsked} \cup Unminted \cup Minted]
             /\ ask'[k] = Deaf(k) /\ ask[k] # NotAsked
             /\ \A j \in Ask \ {k} : ask'[j] = ask[j]
             /\ UNCHANGED <<inForce, mints>>
  <2>1. ask' = [ask EXCEPT ![k] = Deaf(k)] /\ ask[k] # NotAsked
    BY <1>4, Requests DEF Unheard
  <2> HIDE DEF Deaf
  <2> QED BY <1>1, <1>2, <1>4, <2>1 DEF Unheard
<1>5. CASE \E k \in Ask : Unheard(k)
  <2> PICK k \in Ask : Unheard(k)
    BY <1>5
  <2>1. \A j \in Ask : Unheard(j) => ask'[j] = Deaf(j) /\ ask[j] # NotAsked
    BY <1>4
  <2>2. /\ ask' \in [Ask -> {NotAsked} \cup Unminted \cup Minted]
        /\ ask'[k] = Deaf(k) /\ ask[k] # NotAsked
        /\ \A j \in Ask \ {k} : ask'[j] = ask[j]
        /\ UNCHANGED <<inForce, mints>>
    BY <1>4
  <2> HIDE DEF Deaf
  <2>3. CASE ~LeaveScreen
    BY <1>2, <2>1, <2>2, <2>3
  <2> QED BY <1>3, <2>3
<1> QED BY <1>3, <1>5

(* What is put out of sight was in sight.                                    *)
LEMMA OutOfSights ==
    ASSUME ScreenTypeOK, NEW why \in Losses, OutOfSight(why)
    PROVE  /\ lost' \in [Secrets -> {"no"} \cup Losses]
           /\ \A s \in Secrets : s # revealed.secret => lost'[s] = lost[s]
           /\ \A s \in Secrets : lost'[s] = lost[s] \/ lost'[s] = why
           /\ revealed # Nothing /\ revealed.secret \notin copied => lost'[revealed.secret] = why
  BY Sights DEF OutOfSight, ScreenTypeOK, Shown

(* Every step keeps every variable in its type.                              *)
LEMMA ScreenTypeStep == ScreenTypeOK /\ [ScreenNext]_screenVars => ScreenTypeOK'
<1> SUFFICES ASSUME ScreenTypeOK, [ScreenNext]_screenVars PROVE ScreenTypeOK'
  OBVIOUS
<1>0. /\ ask \in [Ask -> {NotAsked} \cup Unminted \cup Minted]
      /\ inForce \in [Account -> 0 .. MaxMints] /\ mints \in 0 .. MaxMints
      /\ lost \in [Secrets -> {"no"} \cup Losses]
  BY DEF ScreenTypeOK, Unminted, Minted
<1>l. Losses = {"unheard", "left", "covered"}
  BY DEF Losses
<1>1. ASSUME NEW k \in Ask, NEW a \in Account, RotateAccount(k, a) \/ Create(k, a) PROVE ScreenTypeOK'
  <2>1. busy' \subseteq Account
    BY <1>1, Sends DEF ScreenTypeOK
  <2> QED BY <1>1, <2>1, Sends DEF ScreenTypeOK, Unminted, Minted
<1>2. ASSUME NEW k \in Ask, Mint(k) PROVE ScreenTypeOK'
  <2>1. inForce' \in [Account -> 0 .. MaxMints] /\ mints' \in 0 .. MaxMints
    <3>1. mints + 1 \in 0 .. MaxMints
      BY <1>2, Mints, ScreenAssumption DEF Secrets
    <3> QED BY <1>0, <1>2, <3>1, Mints
  <2> QED BY <1>2, <2>1, Mints DEF ScreenTypeOK, Unminted, Minted
<1>3. ASSUME NEW k \in Ask, Reveal(k) PROVE ScreenTypeOK'
  <2>1. ask[k] \in Minted
    BY <1>3, Requests DEF Reveal
  <2>2. revealed' \in Shown
    BY <1>3, <2>1 DEF Reveal, Shown, Minted
  <2>3. lost' \in [Secrets -> {"no"} \cup Losses]
    BY <1>3, <1>l, OutOfSights DEF Reveal
  <2>4. busy' \subseteq Account /\ covered' \in BOOLEAN
    BY <1>3 DEF Reveal, Ready, ScreenTypeOK
  <2> QED BY <1>3, <2>2, <2>3, <2>4, Ends DEF Reveal, ScreenTypeOK, Unminted, Minted, Shown
<1>4. ASSUME NEW k \in Ask, Unheard(k) PROVE ScreenTypeOK'
  <2>1. busy' \subseteq Account
    BY <1>4 DEF Unheard, Ready, ScreenTypeOK
  <2> QED BY <1>4, <2>1, Turns DEF Unheard, ScreenTypeOK, Unminted, Minted
<1>5. ASSUME NEW k \in Ask, Forgotten(k) PROVE ScreenTypeOK'
  <2>1. lost' \in [Secrets -> {"no"} \cup Losses]
    BY <1>0, <1>5, <1>l DEF Forgotten
  <2>2. busy' \subseteq Account
    BY <1>5 DEF Forgotten, Ready, ScreenTypeOK
  <2> QED BY <1>5, <2>1, <2>2, Ends DEF Forgotten, ScreenTypeOK, Unminted, Minted
<1>6. CASE Acknowledge
  <2>1. revealed.secret \in Secrets
    BY <1>6, Sights DEF Acknowledge, Shown
  <2> QED BY <1>6, <2>1 DEF Acknowledge, ScreenTypeOK
<1>7. CASE Close
  <2>1. lost' \in [Secrets -> {"no"} \cup Losses]
    BY <1>7, <1>l, OutOfSights DEF Close
  <2> QED BY <1>7, <2>1 DEF Close, ScreenTypeOK
<1>8. CASE LeaveScreen
  <2>1. lost' \in [Secrets -> {"no"} \cup Losses]
    BY <1>8, <1>l, OutOfSights DEF LeaveScreen
  <2>2. ask' \in [Ask -> {NotAsked} \cup Unminted \cup Minted]
    BY <1>8, Turns
  <2> QED BY <1>8, <2>1, <2>2 DEF LeaveScreen, ScreenTypeOK, Unminted, Minted
<1>9. CASE UNCHANGED screenVars
  BY <1>9 DEF screenVars, ScreenTypeOK
<1> QED BY <1>1, <1>2, <1>3, <1>4, <1>5, <1>6, <1>7, <1>8, <1>9 DEF ScreenNext

(* A new secret is the next one: there is no trace of it yet.                *)
LEMMA MintedStep == ScreenTypeOK /\ MintedOnes /\ [ScreenNext]_screenVars => MintedOnes'
<1> SUFFICES ASSUME ScreenTypeOK, MintedOnes, [ScreenNext]_screenVars PROVE MintedOnes'
  OBVIOUS
<1>l. Losses = {"unheard", "left", "covered"}
  BY DEF Losses
<1>t. mints \in Nat /\ Secrets \subseteq Nat
  BY ScreenAssumption DEF ScreenTypeOK, Secrets
<1>n. NotAsked.pc = "none"
  BY DEF NotAsked
<1>1. ASSUME NEW k \in Ask, NEW a \in Account, RotateAccount(k, a) \/ Create(k, a) PROVE MintedOnes'
  <2>1. ask'[k].pc = "sent"
    BY <1>1, Sends DEF Unminted
  <2> QED BY <1>1, <2>1, Sends DEF MintedOnes
<1>2. ASSUME NEW k \in Ask, Mint(k) PROVE MintedOnes'
  <2>1. \A a \in Account : inForce'[a] <= mints'
    <3>1. \A a \in Account : inForce[a] \in Nat /\ inForce[a] <= mints
      BY ScreenAssumption DEF ScreenTypeOK, MintedOnes
    <3>2. \A a \in Account : inForce'[a] = inForce[a] \/ inForce'[a] = mints + 1
      BY <1>2, Mints DEF ScreenTypeOK
    <3>3. mints' = mints + 1
      BY <1>2, Mints
    <3> QED BY <1>t, <3>1, <3>2, <3>3
  <2>2. \A s \in Secrets : s > mints' => s > mints
    BY <1>2, <1>t, Mints
  <2>3. ASSUME NEW j \in Ask, ask'[j].pc = "answered" PROVE ask'[j].secret <= mints'
    <3>1. CASE j = k
      BY <1>2, <1>t, <3>1, Mints
    <3>2. CASE j # k
      <4>1. ask[j] \in Minted /\ ask'[j] = ask[j] /\ ask[j].secret <= mints
        BY <1>2, <2>3, <3>2, Mints, Requests DEF MintedOnes
      <4>2. ask[j].secret \in Nat
        BY <1>t, <4>1 DEF Minted
      <4> QED BY <1>2, <1>t, <4>1, <4>2, Mints
    <3> QED BY <3>1, <3>2
  <2>4. revealed'.secret <= mints'
    <3>1. revealed.secret \in Nat /\ revealed.secret <= mints
      BY Sights, ScreenAssumption DEF MintedOnes
    <3> QED BY <1>2, <1>t, <3>1, Mints
  <2> QED BY <1>2, <1>t, <2>1, <2>2, <2>3, <2>4, Mints DEF MintedOnes
<1>3. ASSUME NEW k \in Ask, Reveal(k) PROVE MintedOnes'
  <2>1. revealed'.secret = ask[k].secret /\ ask[k].secret <= mints
    BY <1>3 DEF Reveal, MintedOnes
  <2>2. \A s \in Secrets : s > mints => lost'[s] = "no"
    BY <1>3, <1>l, <1>t, OutOfSights, Sights DEF Reveal, MintedOnes
  <2> QED BY <1>3, <1>n, <2>1, <2>2, Ends DEF MintedOnes
<1>4. ASSUME NEW k \in Ask, Unheard(k) PROVE MintedOnes'
  BY <1>4, Turns, Requests DEF MintedOnes, Unheard
<1>5. ASSUME NEW k \in Ask, Forgotten(k) PROVE MintedOnes'
  <2>1. \A s \in Secrets : s > mints => lost'[s] = "no"
    <3>1. ask[k].pc = "answered" => ask[k].secret \in Nat /\ ask[k].secret <= mints
      BY <1>t, Requests DEF MintedOnes, Minted
    <3> QED BY <1>5, <1>t, <3>1 DEF Forgotten, MintedOnes, ScreenTypeOK
  <2> QED BY <1>5, <1>n, <2>1, Ends DEF MintedOnes, Forgotten
<1>6. CASE Acknowledge
  BY <1>6 DEF Acknowledge, MintedOnes
<1>7. CASE Close \/ LeaveScreen
  <2>1. \A s \in Secrets : s > mints => lost'[s] = "no"
    <3>1. \A s \in Secrets : s # revealed.secret => lost'[s] = lost[s]
      BY <1>7, <1>l, OutOfSights DEF Close, LeaveScreen
    <3> QED BY <1>t, <3>1, Sights DEF MintedOnes
  <2>2. revealed'.secret <= mints'
    <3>1. revealed' = Nothing /\ mints' = mints
      BY <1>7 DEF Close, LeaveScreen
    <3> QED BY <1>t, <3>1, Sights DEF MintedOnes, Nothing
  <2>3. \A j \in Ask : ask'[j].pc = "answered" => ask'[j].secret <= mints
    BY <1>7, Turns, Requests DEF Close, MintedOnes
  <2> QED BY <1>7, <2>1, <2>2, <2>3 DEF Close, LeaveScreen, MintedOnes
<1>8. CASE UNCHANGED screenVars
  BY <1>8 DEF screenVars, MintedOnes
<1> QED BY <1>1, <1>2, <1>3, <1>4, <1>5, <1>6, <1>7, <1>8 DEF ScreenNext

(* A secret comes into one sight only, and leaves it to be lost, or copied.  *)
LEMMA OneSightStep == ScreenTypeOK /\ MintedOnes /\ OneSight /\ [ScreenNext]_screenVars => OneSight'
<1> SUFFICES ASSUME ScreenTypeOK, MintedOnes, OneSight, [ScreenNext]_screenVars PROVE OneSight'
  OBVIOUS
<1>l. Losses = {"unheard", "left", "covered"}
  BY DEF Losses
<1>n. NotAsked.pc = "none"
  BY DEF NotAsked
<1>t. mints \in Nat /\ Secrets \subseteq Nat /\ 0 \notin Secrets
  BY ScreenAssumption DEF ScreenTypeOK, Secrets
<1>s. \A k \in Ask : ask[k].pc = "answered" => ask[k].secret \in Secrets
  BY Requests DEF Minted
<1>1. ASSUME NEW k \in Ask, NEW a \in Account, RotateAccount(k, a) \/ Create(k, a) PROVE OneSight'
  <2>1. ask'[k].pc = "sent"
    BY <1>1, Sends DEF Unminted
  <2> QED BY <1>1, <2>1, Sends DEF OneSight
<1>2. ASSUME NEW k \in Ask, Mint(k) PROVE OneSight'
  <2>1. \A j \in Ask \ {k} : ask'[j].pc = "answered" => ask'[j] = ask[j] /\ ask[j].secret # mints + 1
    <3>1. ASSUME NEW j \in Ask \ {k}, ask[j].pc = "answered" PROVE ask[j].secret # mints + 1
      <4>1. ask[j].secret \in Nat /\ ask[j].secret <= mints
        BY <1>s, <1>t, <3>1 DEF MintedOnes
      <4> QED BY <1>t, <4>1
    <3> QED BY <1>2, <3>1, Mints
  <2>2. lost[mints + 1] = "no" /\ revealed.secret # mints + 1
    <3>1. revealed.secret \in Nat /\ revealed.secret <= mints
      BY Sights, ScreenAssumption DEF MintedOnes
    <3> QED BY <1>2, <1>t, <3>1, Mints DEF MintedOnes
  <2> QED BY <1>2, <2>1, <2>2, Mints DEF OneSight
<1>3. ASSUME NEW k \in Ask, Reveal(k) PROVE OneSight'
  <2>1. /\ revealed'.secret = ask[k].secret /\ ask[k].pc = "answered"
        /\ \A s \in Secrets : s # revealed.secret => lost'[s] = lost[s]
    BY <1>3, <1>l, OutOfSights DEF Reveal
  <2>2. \A j \in Ask : ask'[j].pc = "answered" => j # k /\ ask'[j] = ask[j]
    BY <1>3, <1>n, Ends
  <2> QED BY <1>s, <2>1, <2>2 DEF OneSight
<1>4. ASSUME NEW k \in Ask, Unheard(k) PROVE OneSight'
  <2>1. \A j \in Ask : ask'[j].pc = "answered" => ask[j].pc = "answered" /\ ask'[j].secret = ask[j].secret
    BY <1>4, <1>n, Turns, Requests
  <2> QED BY <1>4, <2>1 DEF Unheard, OneSight
<1>5. ASSUME NEW k \in Ask, Forgotten(k) PROVE OneSight'
  <2>1. \A j \in Ask : ask'[j].pc = "answered" => j # k /\ ask'[j] = ask[j]
    BY <1>5, <1>n, Ends
  <2>2. \A s \in Secrets : (ask[k].pc = "answered" => s # ask[k].secret) => lost'[s] = lost[s]
    BY <1>5 DEF Forgotten, ScreenTypeOK
  <2>3. revealed' = revealed /\ (revealed # Nothing => revealed.secret \in Secrets)
    BY <1>5, Sights DEF Forgotten, Shown
  <2> QED BY <1>s, <2>1, <2>2, <2>3 DEF OneSight
<1>6. CASE Acknowledge
  BY <1>6 DEF Acknowledge, OneSight
<1>7. CASE Close \/ LeaveScreen
  <2>1. \A j \in Ask : ask'[j].pc = "answered" => ask[j].pc = "answered" /\ ask'[j].secret = ask[j].secret
    BY <1>7, <1>n, Turns, Requests DEF Close
  <2>2. revealed' = Nothing /\ \A s \in Secrets : s # revealed.secret => lost'[s] = lost[s]
    BY <1>7, <1>l, OutOfSights DEF Close, LeaveScreen
  <2>3. \A j \in Ask : ask'[j].pc = "answered" => ask'[j].secret # revealed'.secret
    BY <1>s, <1>t, <2>1, <2>2, Sights
  <2> QED BY <1>s, <2>1, <2>2, <2>3 DEF OneSight
<1>8. CASE UNCHANGED screenVars
  BY <1>8 DEF screenVars, OneSight
<1> QED BY <1>1, <1>2, <1>3, <1>4, <1>5, <1>6, <1>7, <1>8 DEF ScreenNext

(* The buttons wait for the rotations the screen waits for; an account is    *)
(* created once, and is there from then on.                                  *)
LEMMA ButtonsStep == ScreenTypeOK /\ MintedOnes /\ Buttons /\ [ScreenNext]_screenVars => Buttons'
<1> SUFFICES ASSUME ScreenTypeOK, MintedOnes, Buttons, [ScreenNext]_screenVars PROVE Buttons'
  OBVIOUS
<1>n. NotAsked.pc = "none"
  BY DEF NotAsked
<1>r. Nothing.rotated = FALSE
  BY DEF Nothing
<1>1. ASSUME NEW k \in Ask, NEW a \in Account, RotateAccount(k, a) \/ Create(k, a) PROVE Buttons'
  <2>1. /\ ask'[k].pc = "sent" /\ ask'[k] # NotAsked /\ ask'[k].account = a /\ ask'[k].heard
        /\ ask[k] = NotAsked /\ revealed' = Nothing /\ inForce' = inForce
        /\ \A j \in Ask \ {k} : ask'[j] = ask[j]
    BY <1>1, <1>n, Sends DEF Unminted
  <2>2. CASE ask'[k].rotated /\ inForce[a] # 0 /\ a \notin busy /\ busy' = busy \cup {a}
    BY <1>r, <2>1, <2>2 DEF NoOther, Buttons, Rotating
  <2>3. CASE /\ ~ask'[k].rotated /\ inForce[a] = 0 /\ busy' = busy
             /\ \A j \in Ask : ask[j].pc = "sent" => ask[j].account # a
    BY <1>r, <2>1, <2>3 DEF NoOther, Buttons, Rotating
  <2> QED BY <1>1, <2>2, <2>3, Sends
<1>2. ASSUME NEW k \in Ask, Mint(k) PROVE Buttons'
  <2>1. /\ ask'[k].pc = "answered" /\ ask[k].pc = "sent" /\ ask[k] # NotAsked
        /\ ask'[k].account = ask[k].account /\ ask'[k].rotated = ask[k].rotated
        /\ ask'[k].heard = ask[k].heard
        /\ \A j \in Ask \ {k} : ask'[j] = ask[j]
        /\ revealed' = revealed /\ busy' = busy
        /\ ask[k].account \in Account /\ ask[k].rotated \in BOOLEAN
    BY <1>2, <1>n, Mints DEF Unminted, Minted
  <2>2. /\ inForce'[ask[k].account] # 0
        /\ \A a \in Account : a # ask[k].account => inForce'[a] = inForce[a]
    <3>1. mints + 1 # 0
      BY <1>2, Mints
    <3> QED BY <1>2, <2>1, <3>1, Mints DEF ScreenTypeOK
  <2>3. \A j \in Ask, a \in Account :
            (Rotating(j, a)' => Rotating(j, a)) /\ (ask'[j].heard <=> ask[j].heard)
    BY <2>1 DEF Rotating
  <2>4. \A j \in Ask : ask'[j].pc = "sent" /\ ~ask'[j].rotated => inForce'[ask'[j].account] = 0
    <3>1. ASSUME NEW j \in Ask, ask'[j].pc = "sent", ~ask'[j].rotated
          PROVE  inForce'[ask'[j].account] = 0
      <4>1. j # k /\ ask'[j] = ask[j] /\ inForce[ask[j].account] = 0
        BY <2>1, <3>1 DEF NoOther, Buttons
      <4>2. ask[j].account \in Account
        BY <3>1, <4>1, Requests DEF Unminted
      <4>3. ask[j].account # ask[k].account
        BY <2>1, <3>1, <4>1 DEF NoOther, Buttons
      <4> QED BY <2>2, <4>1, <4>2, <4>3
    <3> QED BY <3>1
  <2>5. revealed'.rotated => inForce'[revealed'.account] # 0
    <3>1. revealed.rotated => revealed.account \in Account
      BY Sights DEF Shown
    <3> QED BY <2>1, <2>2, <3>1 DEF NoOther, Buttons
  <2>6. \A j \in Ask, a \in Account : Rotating(j, a)' => inForce'[a] # 0
    BY <2>2, <2>3 DEF NoOther, Buttons
  <2>7. \A i, j \in Ask : ask'[i].pc = "sent" /\ ~ask'[i].rotated /\ ask'[j].pc = "sent"
                         /\ ask'[i].account = ask'[j].account => i = j
    BY <2>1 DEF NoOther, Buttons
  <2>8. /\ \A j \in Ask, a \in Account : Rotating(j, a)' /\ ask'[j].heard => a \in busy'
        /\ \A i, j \in Ask, a \in Account :
              Rotating(i, a)' /\ ask'[i].heard /\ Rotating(j, a)' /\ ask'[j].heard => i = j
    BY <2>1, <2>3 DEF NoOther, Buttons
  <2>9. NoOther'
    <3>1. revealed.rotated => revealed.account \in Account
      BY Sights DEF Shown
    <3>2. ASSUME revealed.rotated, NEW j \in Ask PROVE ~(Rotating(j, revealed.account) /\ ask[j].heard)'
      BY <2>1, <2>3, <3>1, <3>2 DEF NoOther, Buttons, Rotating
    <3> QED BY <2>1, <2>5, <3>2 DEF NoOther
  <2> QED BY <2>4, <2>5, <2>6, <2>7, <2>8, <2>9 DEF NoOther, Buttons
<1>3. ASSUME NEW k \in Ask, Reveal(k) PROVE Buttons'
  <2>1. /\ ask[k].pc = "answered" /\ ask[k].heard /\ ask[k] \in Minted /\ ask[k] # NotAsked
        /\ revealed'.account = ask[k].account /\ revealed'.rotated = ask[k].rotated
        /\ busy' = IF ask[k].rotated /\ ask[k].heard THEN busy \ {ask[k].account} ELSE busy
    BY <1>3, Requests DEF Reveal, Ready
  <2>2. inForce' = inForce /\ ask'[k] = NotAsked /\ \A j \in Ask \ {k} : ask'[j] = ask[j]
    BY <1>3, Ends
  <2>3. \A j \in Ask, a \in Account : Rotating(j, a)' => j # k /\ Rotating(j, a)
    BY <2>2 DEF Rotating
  <2>4. ask[k].account \in Account /\ ask[k].rotated \in BOOLEAN
    BY <2>1 DEF Minted
  <2>5. revealed'.rotated => Rotating(k, ask[k].account)
    BY <2>1 DEF Rotating
  <2> QED BY <1>n, <2>1, <2>2, <2>3, <2>4, <2>5 DEF NoOther, Buttons
<1>4. ASSUME NEW k \in Ask, Unheard(k) PROVE Buttons'
  <2>1. /\ ask[k].heard /\ ask[k].pc = "sent" /\ ~ask'[k].heard /\ revealed' = revealed
        /\ busy' = IF ask[k].rotated /\ ask[k].heard THEN busy \ {ask[k].account} ELSE busy
    BY <1>4, Turns, Requests DEF Unheard, Ready
  <2>2. /\ inForce' = inForce
        /\ \A j \in Ask : ask'[j].pc = "sent" =>
              /\ ask[j].pc = "sent" /\ ask'[j].account = ask[j].account
              /\ ask'[j].rotated = ask[j].rotated
        /\ \A j \in Ask, a \in Account :
              Rotating(j, a)' => Rotating(j, a) /\ (ask'[j].heard => ask[j].heard)
    BY <1>4, <1>n, Turns, Requests DEF Rotating
  <2>3. ASSUME NEW j \in Ask, NEW a \in Account, Rotating(j, a)', ask'[j].heard PROVE a \in busy'
    <3>1. j # k /\ Rotating(j, a) /\ ask[j].heard
      BY <2>1, <2>2, <2>3
    <3>2. ask[k].rotated /\ ask[k].account = a => Rotating(k, a)
      BY <2>1, <1>n DEF Rotating
    <3> QED BY <2>1, <3>1, <3>2 DEF NoOther, Buttons
  <2>4. \A j \in Ask : ask[j].pc = "sent" => ask[j].account \in Account
    BY Requests DEF Unminted
  <2>5. revealed.rotated => revealed.account \in Account
    BY Sights DEF Shown
  <2> QED BY <2>1, <2>2, <2>3, <2>4, <2>5 DEF NoOther, Buttons
<1>5. ASSUME NEW k \in Ask, Forgotten(k) PROVE Buttons'
  <2>1. /\ revealed' = revealed /\ ask[k] # NotAsked
        /\ busy' = IF ask[k].rotated /\ ask[k].heard THEN busy \ {ask[k].account} ELSE busy
    BY <1>5 DEF Forgotten, Ready
  <2>2. inForce' = inForce /\ ask'[k] = NotAsked /\ \A j \in Ask \ {k} : ask'[j] = ask[j]
    BY <1>5, Ends
  <2>3. \A j \in Ask, a \in Account : Rotating(j, a)' => j # k /\ Rotating(j, a)
    BY <2>2 DEF Rotating
  <2>4. ask[k].rotated => Rotating(k, ask[k].account)
    BY <2>1 DEF Rotating
  <2>5. revealed.rotated => revealed.account \in Account
    BY Sights DEF Shown
  <2> QED BY <1>n, <2>1, <2>2, <2>3, <2>4, <2>5 DEF NoOther, Buttons
<1>6. CASE Acknowledge
  BY <1>6 DEF NoOther, Acknowledge, Buttons, Rotating
<1>7. CASE Close
  BY <1>7, <1>r DEF NoOther, Close, Buttons, Rotating
<1>8. CASE LeaveScreen
  <2>1. /\ inForce' = inForce
        /\ \A j \in Ask : ask'[j].pc = "sent" =>
              /\ ask[j].pc = "sent" /\ ask'[j].account = ask[j].account
              /\ ask'[j].rotated = ask[j].rotated
        /\ \A j \in Ask, a \in Account : Rotating(j, a)' => Rotating(j, a) /\ ~ask'[j].heard
        /\ revealed' = Nothing
    BY <1>8, <1>n, Turns, Requests DEF Rotating, LeaveScreen
  <2> QED BY <1>r, <2>1 DEF NoOther, Buttons
<1>9. CASE UNCHANGED screenVars
  BY <1>9 DEF NoOther, screenVars, Buttons, Rotating
<1> QED BY <1>1, <1>2, <1>3, <1>4, <1>5, <1>6, <1>7, <1>8, <1>9 DEF ScreenNext

-----------------------------------------------------------------------------
(* No secret drops out of account: it is copied before it is out of sight,   *)
(* or recorded as lost.                                                      *)
LEMMA AccountedStep ==
    ScreenTypeOK /\ AllAccountedFor /\ Closing /\ [ScreenNext]_screenVars => AllAccountedFor'
<1> SUFFICES ASSUME ScreenTypeOK, AllAccountedFor, Closing, [ScreenNext]_screenVars,
                    NEW s \in 1 .. mints'
             PROVE  AccountedFor(s)'
  BY DEF AllAccountedFor
<1>l. Losses = {"unheard", "left", "covered"}
  BY DEF Losses
<1>n. NotAsked.pc = "none"
  BY DEF NotAsked
<1>t. mints \in Nat /\ mints <= MaxMints /\ MaxMints \in Nat
  BY ScreenAssumption DEF ScreenTypeOK
<1>a. ASSUME mints' = mints
      PROVE  s \in Secrets /\ s # 0 /\ AccountedFor(s)
  BY <1>a, <1>t DEF Secrets, AllAccountedFor
<1>1. ASSUME NEW k \in Ask, NEW a \in Account, RotateAccount(k, a) \/ Create(k, a)
      PROVE  AccountedFor(s)'
  <2>1. Answered(s) => Answered(s)'
    BY <1>1, <1>n, Sends DEF Answered
  <2> QED BY <1>1, <1>a, <2>1, Sends DEF AccountedFor
<1>2. ASSUME NEW k \in Ask, Mint(k) PROVE AccountedFor(s)'
  <2>1. CASE s = mints + 1
    BY <1>2, <2>1, Mints DEF AccountedFor, Answered, Minted
  <2>2. CASE s # mints + 1
    <3>1. AccountedFor(s)
      BY <1>2, <1>t, <2>2, Mints DEF AllAccountedFor
    <3>2. Answered(s) => Answered(s)'
      BY <1>2, Mints DEF Answered, Unminted
    <3> QED BY <1>2, <3>1, <3>2, Mints DEF AccountedFor
  <2> QED BY <2>1, <2>2
<1>3. ASSUME NEW k \in Ask, Reveal(k) PROVE AccountedFor(s)'
  <2>0. s \in Secrets /\ s # 0 /\ AccountedFor(s)
    BY <1>3, <1>a DEF Reveal
  <2>1. /\ revealed'.secret = ask[k].secret /\ copied' = copied
        /\ covered \/ revealed # Nothing => covered'
        /\ s # revealed.secret => lost'[s] = lost[s]
        /\ lost'[s] = lost[s] \/ lost'[s] = "covered"
        /\ revealed # Nothing /\ revealed.secret \notin copied => lost'[revealed.secret] = "covered"
    BY <1>3, <1>l, <2>0, OutOfSights DEF Reveal
  <2>2. s = revealed.secret => revealed # Nothing
    BY <2>0, Sights
  <2>3. Answered(s) => Answered(s)' \/ s = ask[k].secret
    BY <1>3, Ends DEF Answered
  <2> QED BY <2>0, <2>1, <2>2, <2>3 DEF AccountedFor
<1>4. ASSUME NEW k \in Ask, Unheard(k) PROVE AccountedFor(s)'
  <2>1. Answered(s) => Answered(s)'
    BY <1>4, Turns, Requests DEF Answered
  <2> QED BY <1>4, <1>a, <2>1 DEF Unheard, AccountedFor
<1>5. ASSUME NEW k \in Ask, Forgotten(k) PROVE AccountedFor(s)'
  <2>0. s \in Secrets /\ AccountedFor(s)
    BY <1>5, <1>a DEF Forgotten
  <2>1. /\ lost'[s] = lost[s] \/ lost'[s] = "unheard"
        /\ ask[k].pc = "answered" /\ ask[k].secret = s => lost'[s] = "unheard"
    BY <1>5, <2>0 DEF Forgotten, ScreenTypeOK
  <2>2. Answered(s) => Answered(s)' \/ (ask[k].pc = "answered" /\ ask[k].secret = s)
    BY <1>5, Ends DEF Answered
  <2> QED BY <1>5, <2>0, <2>1, <2>2 DEF Forgotten, AccountedFor
<1>6. CASE Acknowledge
  BY <1>6, <1>a DEF Acknowledge, AccountedFor, Answered
<1>7. CASE Close
  <2>0. s \in Secrets /\ s # 0 /\ AccountedFor(s) /\ UNCHANGED <<ask, copied, covered>>
    BY <1>7, <1>a DEF Close
  <2>1. /\ s # revealed.secret => lost'[s] = lost[s]
        /\ revealed # Nothing /\ revealed.secret \notin copied => lost'[revealed.secret] = "covered"
    BY <1>7, <1>l, <2>0, OutOfSights DEF Close
  <2>2. revealed # Nothing /\ (revealed.secret \in copied \/ covered)
    BY <1>7 DEF Close, Closing, ClosedWhenCopied
  <2> QED BY <2>0, <2>1, <2>2 DEF AccountedFor, Answered
<1>8. CASE LeaveScreen
  <2>0. s \in Secrets /\ s # 0 /\ AccountedFor(s) /\ UNCHANGED <<copied, covered>>
    BY <1>8, <1>a DEF LeaveScreen
  <2>1. /\ s # revealed.secret => lost'[s] = lost[s]
        /\ lost'[s] = lost[s] \/ lost'[s] = "left"
        /\ revealed # Nothing /\ revealed.secret \notin copied => lost'[revealed.secret] = "left"
    BY <1>8, <1>l, <2>0, OutOfSights DEF LeaveScreen
  <2>2. Answered(s) => Answered(s)'
    BY <1>8, Turns, Requests DEF Answered
  <2>3. s = revealed.secret => revealed # Nothing
    BY <2>0, Sights
  <2> QED BY <2>0, <2>1, <2>2, <2>3 DEF AccountedFor
<1>9. CASE UNCHANGED screenVars
  BY <1>9, <1>a DEF screenVars, AccountedFor, Answered
<1> QED BY <1>1, <1>2, <1>3, <1>4, <1>5, <1>6, <1>7, <1>8, <1>9 DEF ScreenNext

LEMMA ClosingStep == ScreenTypeOK /\ Closing /\ [ScreenNext]_screenVars => Closing'
<1> SUFFICES ASSUME ScreenTypeOK, Closing, [ScreenNext]_screenVars PROVE Closing'
  OBVIOUS
<1> USE DEF Closing, ClosedWhenCopied
<1>1. ASSUME NEW k \in Ask, NEW a \in Account, RotateAccount(k, a) \/ Create(k, a) PROVE Closing'
  BY <1>1, Sends
<1>2. ASSUME NEW k \in Ask, Mint(k) PROVE Closing'
  BY <1>2, Mints
<1>3. ASSUME NEW k \in Ask, Reveal(k) PROVE Closing'
  <2>1. revealed' \in Shown
    BY <1>3, Requests DEF Reveal, Shown, Minted
  <2>2. revealed' # Nothing
    BY <2>1, ScreenAssumption DEF Shown, Nothing, Secrets
  <2>3. acknowledged' = acknowledged /\ (revealed # Nothing => covered')
    BY <1>3 DEF Reveal
  <2> QED BY <2>2, <2>3
<1>4. ASSUME NEW k \in Ask, Unheard(k) \/ Forgotten(k) PROVE Closing'
  BY <1>4 DEF Unheard, Forgotten
<1>5. CASE Acknowledge
  BY <1>5 DEF Acknowledge
<1>6. CASE Close \/ LeaveScreen
  BY <1>6 DEF Close, LeaveScreen
<1>7. CASE UNCHANGED screenVars
  BY <1>7 DEF screenVars
<1> QED BY <1>1, <1>2, <1>3, <1>4, <1>5, <1>6, <1>7 DEF ScreenNext

-----------------------------------------------------------------------------
WorksThen(a, secret) ==
    LET s == inForce'[a] IN
    \/ s = secret
    \/ lost'[s] = "unheard"
    \/ \E k \in Ask : ask'[k].pc = "answered" /\ ~ask'[k].heard /\ ask'[k].secret = s

(* A secret that works goes on working until somebody else's answer, which   *)
(* nobody hears, takes its place.                                            *)
LEMMA WorksStay ==
    ASSUME ScreenTypeOK, ScreenTypeOK', OneSight, [ScreenNext]_screenVars,
           NEW a \in Account, NEW secret, Works(a, secret),
           inForce'[a] = inForce[a], inForce[a] # 0
    PROVE  WorksThen(a, secret)
<1> DEFINE s == inForce[a]
           Silent == \E k \in Ask : ask[k].pc = "answered" /\ ~ask[k].heard /\ ask[k].secret = s
<1>l. Losses = {"unheard", "left", "covered"}
  BY DEF Losses
<1>n. NotAsked.pc = "none"
  BY DEF NotAsked
<1>s. s \in Secrets
  BY ScreenAssumption DEF ScreenTypeOK, Secrets
<1>0. s = secret \/ lost[s] = "unheard" \/ Silent
  BY DEF Works
<1>a. ASSUME lost[s] = "unheard" => lost'[s] = "unheard", Silent => lost'[s] = "unheard" \/ Silent'
      PROVE  WorksThen(a, secret)
  BY <1>0, <1>a DEF WorksThen
<1>b. lost[s] = "unheard" => s # revealed.secret
  BY <1>s, Sights, ScreenAssumption DEF OneSight, Secrets
<1>1. ASSUME NEW k \in Ask, NEW b \in Account, RotateAccount(k, b) \/ Create(k, b)
      PROVE  WorksThen(a, secret)
  <2>1. Silent => Silent'
    BY <1>1, <1>n, Sends
  <2> QED BY <1>1, <1>a, <2>1, Sends
<1>2. ASSUME NEW k \in Ask, Mint(k) PROVE WorksThen(a, secret)
  <2>1. Silent => Silent'
    BY <1>2, Mints DEF Unminted
  <2> QED BY <1>2, <1>a, <2>1, Mints
<1>3. ASSUME NEW k \in Ask, Reveal(k) PROVE WorksThen(a, secret)
  <2>1. lost[s] = "unheard" => lost'[s] = "unheard"
    BY <1>3, <1>b, <1>l, <1>s, OutOfSights DEF Reveal
  <2>2. Silent => Silent'
    BY <1>3, Ends DEF Reveal
  <2> QED BY <1>a, <2>1, <2>2
<1>4. ASSUME NEW k \in Ask, Unheard(k) PROVE WorksThen(a, secret)
  <2>1. Silent => Silent'
    BY <1>4, Turns, Requests
  <2> QED BY <1>4, <1>a, <2>1 DEF Unheard
<1>5. ASSUME NEW k \in Ask, Forgotten(k) PROVE WorksThen(a, secret)
  <2>1. /\ lost[s] = "unheard" => lost'[s] = "unheard"
        /\ ask[k].pc = "answered" /\ ask[k].secret = s => lost'[s] = "unheard"
    BY <1>5, <1>s DEF Forgotten, ScreenTypeOK
  <2>2. Silent => Silent' \/ (ask[k].pc = "answered" /\ ask[k].secret = s)
    BY <1>5, Ends
  <2> QED BY <1>a, <2>1, <2>2
<1>6. CASE Acknowledge
  BY <1>6, <1>a DEF Acknowledge
<1>7. CASE Close \/ LeaveScreen
  <2>1. lost[s] = "unheard" => lost'[s] = "unheard"
    BY <1>7, <1>b, <1>l, <1>s, OutOfSights DEF Close, LeaveScreen
  <2>2. Silent => Silent'
    <3>1. CASE Close
      BY <3>1 DEF Close
    <3>2. CASE LeaveScreen
      BY <3>2, Turns, Requests
    <3> QED BY <1>7, <3>1, <3>2
  <2> QED BY <1>a, <2>1, <2>2
<1>8. CASE UNCHANGED screenVars
  BY <1>8, <1>a DEF screenVars
<1> QED BY <1>1, <1>2, <1>3, <1>4, <1>5, <1>6, <1>7, <1>8 DEF ScreenNext

(* What is shown was the account's newest when it was minted, and a later    *)
(* one is of a request the screen has given up on.                           *)
LEMMA WorkStep ==
    ScreenTypeOK /\ ScreenTypeOK' /\ OneSight /\ Buttons /\ AllWork /\ [ScreenNext]_screenVars => AllWork'
<1> SUFFICES ASSUME ScreenTypeOK, ScreenTypeOK', OneSight, Buttons, AllWork, [ScreenNext]_screenVars
             PROVE  AllWork'
  OBVIOUS
<1>n. NotAsked.pc = "none"
  BY DEF NotAsked
<1>r. Nothing.rotated = FALSE
  BY DEF Nothing
<1>v. revealed.rotated => revealed.account \in Account /\ inForce[revealed.account] # 0
  BY Sights DEF Shown, Buttons, NoOther
<1>k. ASSUME NEW k \in Ask, ask[k].pc = "answered", ask[k].rotated
      PROVE  ask[k].account \in Account /\ inForce[ask[k].account] # 0 /\ Rotating(k, ask[k].account)
  <2>1. ask[k] \in Minted /\ ask[k] # NotAsked
    BY <1>k, Requests
  <2>2. Rotating(k, ask[k].account) /\ ask[k].account \in Account
    BY <1>k, <2>1 DEF Rotating, Minted
  <2> QED BY <2>2 DEF Buttons
<1>w. \A a \in Account : \A secret :
          inForce[a] # 0 /\ inForce'[a] = inForce[a] /\ Works(a, secret) => WorksThen(a, secret)
  BY WorksStay
<1>g. ASSUME revealed'.rotated => WorksThen(revealed'.account, revealed'.secret),
             \A k \in Ask : ask'[k].pc = "answered" /\ ask'[k].rotated /\ ask'[k].heard =>
                                WorksThen(ask'[k].account, ask'[k].secret)
      PROVE  AllWork'
  BY <1>g DEF AllWork, Works, WorksThen
(* Nothing is minted, and nothing listened to that was not.                  *)
<1>a. ASSUME inForce' = inForce,
             revealed'.rotated => revealed' = revealed,
             \A k \in Ask : ask'[k].pc = "answered" /\ ask'[k].rotated /\ ask'[k].heard =>
                 /\ ask[k].pc = "answered" /\ ask[k].rotated /\ ask[k].heard
                 /\ ask'[k].account = ask[k].account /\ ask'[k].secret = ask[k].secret
      PROVE  AllWork'
  BY <1>a, <1>g, <1>k, <1>v, <1>w DEF AllWork
<1>1. ASSUME NEW k \in Ask, NEW a \in Account, RotateAccount(k, a) \/ Create(k, a) PROVE AllWork'
  <2>1. ask'[k].pc = "sent"
    BY <1>1, Sends DEF Unminted
  <2> QED BY <1>1, <1>a, <2>1, Sends
<1>2. ASSUME NEW k \in Ask, Mint(k) PROVE AllWork'
  <2> DEFINE a == ask[k].account
  <2>1. /\ ask[k].pc = "sent" /\ ask[k] # NotAsked /\ a \in Account /\ ask[k].rotated \in BOOLEAN
        /\ ask'[k].pc = "answered" /\ ask'[k].account = a /\ ask'[k].secret = mints + 1
        /\ ask'[k].rotated = ask[k].rotated /\ ask'[k].heard = ask[k].heard
        /\ \A j \in Ask \ {k} : ask'[j] = ask[j]
        /\ revealed' = revealed
        /\ inForce'[a] = mints + 1
        /\ \A b \in Account : b # a => inForce'[b] = inForce[b]
    BY <1>2, <1>n, Mints DEF Unminted, Minted, ScreenTypeOK
  (* Of an account that is there, by a rotation nobody hears.                *)
  <2>2. ASSUME inForce[a] # 0, ~(Rotating(k, a) /\ ask[k].heard), NEW secret PROVE WorksThen(a, secret)
    <3>1. Rotating(k, a)
      BY <2>1, <2>2 DEF Buttons, Rotating
    <3>2. ~ask'[k].heard
      BY <2>1, <2>2, <3>1
    <3> QED BY <2>1, <3>2 DEF WorksThen
  <2>3. ASSUME revealed'.rotated PROVE WorksThen(revealed'.account, revealed'.secret)
    <3>1. revealed.rotated /\ Works(revealed.account, revealed.secret)
      BY <2>1, <2>3 DEF AllWork
    <3>2. ~(Rotating(k, revealed.account) /\ ask[k].heard)
      BY <3>1 DEF Buttons, NoOther
    <3>3. CASE revealed.account = a
      BY <1>v, <2>1, <2>2, <3>1, <3>2, <3>3
    <3>4. CASE revealed.account # a
      BY <1>v, <1>w, <2>1, <3>1, <3>4
    <3> QED BY <3>3, <3>4
  <2>4. ASSUME NEW j \in Ask, ask'[j].pc = "answered", ask'[j].rotated, ask'[j].heard
        PROVE  WorksThen(ask'[j].account, ask'[j].secret)
    <3>1. CASE j = k
      BY <2>1, <3>1 DEF WorksThen
    <3>2. CASE j # k
      <4>1. /\ ask'[j] = ask[j] /\ Works(ask[j].account, ask[j].secret)
            /\ ask[j].account \in Account /\ inForce[ask[j].account] # 0 /\ Rotating(j, ask[j].account)
        BY <1>k, <2>1, <2>4, <3>2 DEF AllWork
      <4>2. ask[j].account = a => ~(Rotating(k, a) /\ ask[k].heard)
        BY <2>1, <2>4, <3>2, <4>1 DEF Buttons
      <4>3. CASE ask[j].account = a
        BY <2>2, <4>1, <4>2, <4>3
      <4>4. CASE ask[j].account # a
        BY <1>w, <2>1, <4>1, <4>4
      <4> QED BY <4>3, <4>4
    <3> QED BY <3>1, <3>2
  <2> QED BY <1>g, <2>3, <2>4
<1>3. ASSUME NEW k \in Ask, Reveal(k) PROVE AllWork'
  <2>1. /\ ask[k].pc = "answered" /\ ask[k].heard
        /\ revealed'.rotated = ask[k].rotated /\ revealed'.account = ask[k].account
        /\ revealed'.secret = ask[k].secret
        /\ inForce' = inForce
        /\ \A j \in Ask : ask'[j].pc = "answered" => ask'[j] = ask[j]
    BY <1>3, <1>n, Ends DEF Reveal
  <2>2. ASSUME NEW j \in Ask, ask[j].pc = "answered", ask[j].rotated, ask[j].heard
        PROVE  WorksThen(ask[j].account, ask[j].secret)
    BY <1>k, <1>w, <2>1, <2>2 DEF AllWork
  <2> QED BY <1>g, <2>1, <2>2
<1>4. ASSUME NEW k \in Ask, Unheard(k) PROVE AllWork'
  BY <1>4, <1>a, <1>n, Turns, Requests DEF Unheard
<1>5. ASSUME NEW k \in Ask, Forgotten(k) PROVE AllWork'
  BY <1>5, <1>a, <1>n, Ends DEF Forgotten
<1>6. CASE Acknowledge
  BY <1>6, <1>a DEF Acknowledge
<1>7. CASE Close
  BY <1>7, <1>a, <1>r DEF Close
<1>8. CASE LeaveScreen
  <2>1. revealed' = Nothing
    BY <1>8 DEF LeaveScreen
  <2> QED BY <1>8, <1>a, <1>n, <1>r, <2>1, Turns, Requests
<1>9. CASE UNCHANGED screenVars
  BY <1>9, <1>a DEF screenVars
<1> QED BY <1>1, <1>2, <1>3, <1>4, <1>5, <1>6, <1>7, <1>8, <1>9 DEF ScreenNext

-----------------------------------------------------------------------------
LEMMA ScreenStart == ScreenInit => SecretsIInv
<1> SUFFICES ASSUME ScreenInit PROVE SecretsIInv
  OBVIOUS
<1>1. /\ inForce \in [Account -> {0, 1}] /\ mints = 1
      /\ \A k \in Ask : ask[k] = NotAsked /\ ask[k].pc = "none"
      /\ revealed = Nothing /\ revealed.secret = 0 /\ ~revealed.rotated
      /\ copied = {1} /\ lost = [s \in Secrets |-> "no"]
  BY DEF ScreenInit, NotAsked, Nothing
<1>2. 1 \in Secrets /\ {0, 1} \subseteq 0 .. MaxMints
  BY ScreenAssumption DEF Secrets
<1>3. ScreenTypeOK
  BY <1>1, <1>2 DEF ScreenInit, ScreenTypeOK
<1>4. MintedOnes
  BY <1>1 DEF MintedOnes
<1>5. OneSight
  BY <1>1 DEF OneSight
<1>6. Buttons
  BY <1>1 DEF Buttons, NoOther, Rotating
<1>7. AllAccountedFor
  BY <1>1 DEF AllAccountedFor, AccountedFor
<1>8. Closing /\ AllWork
  BY <1>1 DEF ScreenInit, Closing, ClosedWhenCopied, AllWork
<1> QED BY <1>3, <1>4, <1>5, <1>6, <1>7, <1>8 DEF SecretsIInv

(* SecretScreen: types, and each secret in one place at most, accounted for,  *)
(* and working if it is shown, at every moment.                              *)
THEOREM SecretsInvariant == ScreenSpec => []SecretsIInv
<1>1. SecretsIInv /\ [ScreenNext]_screenVars => SecretsIInv'
  BY ScreenTypeStep, MintedStep, OneSightStep, ButtonsStep, AccountedStep, ClosingStep, WorkStep
     DEF SecretsIInv
<1> QED BY <1>1, ScreenStart, PTL DEF ScreenSpec

(* However many requests overlap, are given up on or are answered to a screen *)
(* that is gone: a secret the server accepts has been copied, is on the       *)
(* screen or on its way, or nobody heard of it or stayed to see it; it is     *)
(* covered by another only; and what is shown of a rotated account works,     *)
(* unless a request nobody heard the end of came after.                       *)
THEOREM SecretsAreShown == ScreenSpec => []SecretsShown
<1>1. ASSUME SecretsIInv PROVE SecretsShown
  <2>1. EverySecretAccountedFor
    <3>1. ASSUME NEW a \in Account, inForce[a] # 0 PROVE AccountedFor(inForce[a])
      <4>1. inForce[a] \in 0 .. MaxMints /\ inForce[a] <= mints /\ mints \in 0 .. MaxMints
        BY <1>1 DEF SecretsIInv, ScreenTypeOK, MintedOnes
      <4>2. inForce[a] \in 1 .. mints
        BY <3>1, <4>1, ScreenAssumption
      <4> QED BY <1>1, <4>2 DEF SecretsIInv, AllAccountedFor
    <3> QED BY <3>1 DEF EverySecretAccountedFor, AccountedFor
  <2>2. WhatIsShownWorks
    BY <1>1 DEF SecretsIInv, AllWork, Works, WhatIsShownWorks
  <2> QED BY <1>1, <2>1, <2>2 DEF SecretsIInv, Closing, SecretsShown
<1> QED BY <1>1, SecretsInvariant, PTL

-----------------------------------------------------------------------------
(* RateLimit.  A window is counted by one key, and its count does not expire *)
(* while a request of the window waits for it.                               *)

Span == 2 * WindowSeconds
Opens(w) == Span * w

VisitType ==
    {NoVisit} \cup [pc : {"counting"}, window : Windows, since : Nat, reply : Nat]
              \cup [pc : {"abandoned"}, window : Windows]

RateTyped ==
    /\ clock \in Halves
    /\ counter \in [Windows -> [n : Nat, left : Nat]]
    /\ visit \in [Visit -> VisitType]
    /\ failOpen \in BOOLEAN
    /\ arrived \in [Windows -> Nat] /\ forgotten \in [Windows -> Nat]
    /\ passed \in SUBSET (Halves \X Nat) /\ IsFiniteSet(passed)

(* A request waits in the window it was made in, or in the half that follows *)
(* it; a command that lands late does so in no earlier one.                  *)
InItsWindow(v) ==
    /\ visit[v].pc # "none" => Opens(visit[v].window) <= clock
    /\ visit[v].pc = "counting" =>
          /\ visit[v].window = WindowOf(visit[v].since)
          /\ visit[v].since <= clock /\ clock <= visit[v].since + 1
          /\ visit[v].reply <= arrived[visit[v].window]

(* A count is there for two windows from its start at least.                 *)
Lasting(w) == counter[w].n # 0 => Opens(w) + 2 * Span <= clock + counter[w].left

(* What has not been counted yet, and what has been and will be let through. *)
IsPending(x, w) == x.pc # "none" /\ x.window = w /\ (x.pc = "counting" => x.reply = 0)
IsAdmitted(x, w) == x.pc = "counting" /\ x.window = w /\ x.reply \in 1 .. RateCap
Pending(w) == {v \in Visit : IsPending(visit[v], w)}
Admitted(w) == {v \in Visit : IsAdmitted(visit[v], w)}

(* Every count, kept or lost, is of a request that was made in the window.   *)
Accounted(w) == forgotten[w] + counter[w].n + Cardinality(Pending(w)) <= arrived[w]

PassedIn(w) == {p \in passed : WindowOf(p[1]) = w}
Usage(w) == Cardinality(PassedIn(w)) + Cardinality(Admitted(w))

(* No more go on than were counted, nor than the limit and what was lost.    *)
WithinCap(w) ==
    /\ Usage(w) <= forgotten[w] + RateCap
    /\ clock <= Opens(w) + Span => Usage(w) <= forgotten[w] + counter[w].n

Numbered == \A p \in passed : p[2] <= Cardinality(PassedOf(p[1]))

ToldTrue ==
    told # NoRefusal =>
        /\ arrived[told.window] > RateCap
        /\ WindowOf(told.at + 2 * told.after) > told.window
        /\ told.after <= WindowSeconds

RateInv ==
    /\ RateTyped
    /\ \A v \in Visit : InItsWindow(v)
    /\ \A w \in Windows : Lasting(w) /\ Accounted(w)
    /\ ~degraded => Numbered /\ \A w \in Windows : WithinCap(w)
    /\ ToldTrue

-----------------------------------------------------------------------------
(* Windows follow each other without a gap.                                  *)
LEMMA SpanType == Span \in Nat \ {0} /\ Span = 2 * WindowSeconds
BY RateAssumption DEF Span

LEMMA Division ==
    ASSUME NEW d \in Nat \ {0}, NEW h \in Nat
    PROVE  (h \div d) \in Nat /\ d * (h \div d) <= h /\ h < d * (h \div d) + d
OBVIOUS

LEMMA Multiples ==
    ASSUME NEW d \in Nat \ {0}, NEW q \in Nat, NEW u \in Nat, q < u
    PROVE  d * q + d <= d * u
<1>1. d * (u - q) >= d
  OBVIOUS
<1>2. d * u = d * q + d * (u - q)
  OBVIOUS
<1>3. d * u \in Nat /\ d * q \in Nat /\ d * (u - q) \in Nat
  OBVIOUS
<1> QED BY <1>1, <1>2, <1>3

LEMMA WindowBounds ==
    ASSUME NEW h \in Nat
    PROVE  /\ WindowOf(h) \in Nat /\ Opens(WindowOf(h)) \in Nat
           /\ Opens(WindowOf(h)) <= h /\ h < Opens(WindowOf(h)) + Span
<1>1. WindowOf(h) = h \div Span
  BY SpanType DEF WindowOf
<1>2. (h \div Span) \in Nat /\ Span * (h \div Span) <= h /\ h < Span * (h \div Span) + Span
  BY SpanType, Division
<1>3. Span * (h \div Span) \in Nat
  BY SpanType, <1>2
<1> QED BY <1>1, <1>2, <1>3 DEF Opens

LEMMA OpensType == \A w \in Nat : Opens(w) \in Nat
BY SpanType DEF Opens

LEMMA NextOpens ==
    ASSUME NEW w \in Nat, NEW u \in Nat, w < u
    PROVE  Opens(w) + Span <= Opens(u)
BY SpanType, Multiples DEF Opens

(* Which window a half is of.                                                *)
LEMMA WindowIs ==
    ASSUME NEW h \in Nat, NEW w \in Nat
    PROVE  /\ Opens(w) <= h => w <= WindowOf(h)
           /\ h < Opens(w) + Span => WindowOf(h) <= w
<1> DEFINE u == WindowOf(h)
<1>1. u \in Nat /\ Opens(u) \in Nat /\ Opens(u) <= h /\ h < Opens(u) + Span
  BY WindowBounds
<1>2. Opens(w) \in Nat /\ Span \in Nat
  BY OpensType, SpanType
<1> HIDE DEF u
<1>3. ASSUME Opens(w) <= h PROVE w <= u
  <2> SUFFICES ASSUME u < w PROVE FALSE
    BY <1>1
  <2>1. Opens(u) + Span <= Opens(w)
    BY <1>1, NextOpens
  <2> QED BY <1>1, <1>2, <1>3, <2>1
<1>4. ASSUME h < Opens(w) + Span PROVE u <= w
  <2> SUFFICES ASSUME w < u PROVE FALSE
    BY <1>1
  <2>1. Opens(w) + Span <= Opens(u)
    BY <1>1, NextOpens
  <2> QED BY <1>1, <1>2, <1>4, <2>1
<1> QED BY <1>3, <1>4 DEF u

LEMMA HalvesInWindows ==
    /\ MaxHalves \in Nat /\ Windows \subseteq Nat /\ Halves \subseteq Nat
    /\ \A h \in Halves : WindowOf(h) \in Windows
<1>1. MaxHalves \in Nat
  BY RateAssumption
<1>2. WindowOf(MaxHalves) \in Nat
  BY <1>1, WindowBounds
<1>3. ASSUME NEW h \in Halves PROVE WindowOf(h) \in Windows
  <2>1. h \in Nat /\ h <= MaxHalves
    BY <1>1 DEF Halves
  <2>2. Opens(WindowOf(h)) <= h /\ WindowOf(h) \in Nat /\ Opens(WindowOf(h)) \in Nat
    BY <2>1, WindowBounds
  <2>3. Opens(WindowOf(h)) <= MaxHalves
    BY <1>1, <2>1, <2>2
  <2>4. WindowOf(h) <= WindowOf(MaxHalves)
    BY <1>1, <2>2, <2>3, WindowIs
  <2> QED BY <1>2, <2>2, <2>4 DEF Windows
<1> QED BY <1>1, <1>2, <1>3 DEF Windows, Halves

-----------------------------------------------------------------------------
(* What a step of one request does to the sets of those that wait.           *)
One(holds) == IF holds THEN 1 ELSE 0

LEMMA CountStep ==
    ASSUME NEW S, NEW T, NEW v, IsFiniteSet(S),
           \A u : u # v => (u \in S <=> u \in T)
    PROVE  /\ IsFiniteSet(T) /\ Cardinality(T) \in Nat /\ Cardinality(S) \in Nat
           /\ Cardinality(T) + One(v \in S) = Cardinality(S) + One(v \in T)
<1>1. Cardinality(S) \in Nat
  BY FS_CardinalityType
<1>2. CASE v \in S /\ v \in T
  <2>1. S = T
    BY <1>2
  <2> QED BY <1>1, <1>2, <2>1
<1>3. CASE v \notin S /\ v \notin T
  <2>1. S = T
    BY <1>3
  <2> QED BY <1>1, <1>3, <2>1
<1>4. CASE v \notin S /\ v \in T
  <2>1. T = S \cup {v}
    BY <1>4
  <2>2. IsFiniteSet(T) /\ Cardinality(T) = Cardinality(S) + 1
    BY <1>4, <2>1, FS_AddElement
  <2> QED BY <1>1, <1>4, <2>2 DEF One
<1>5. CASE v \in S /\ v \notin T
  <2>1. S = T \cup {v} /\ T = S \ {v}
    BY <1>5
  <2>2. IsFiniteSet(T) /\ Cardinality(T) \in Nat
    BY <2>1, FS_RemoveElement, FS_CardinalityType
  <2>3. Cardinality(S) = Cardinality(T) + 1
    BY <1>5, <2>1, <2>2, FS_AddElement
  <2> QED BY <1>5, <2>2, <2>3 DEF One
<1> QED BY <1>2, <1>3, <1>4, <1>5

LEMMA WaitingFinite ==
    \A w : /\ IsFiniteSet(Pending(w)) /\ Cardinality(Pending(w)) \in Nat
           /\ IsFiniteSet(Admitted(w)) /\ Cardinality(Admitted(w)) \in Nat
BY VisitAssumption, FS_Subset, FS_CardinalityType DEF Pending, Admitted

LEMMA VisitStep ==
    ASSUME visit \in [Visit -> VisitType], NEW v \in Visit, NEW x,
           visit' = [visit EXCEPT ![v] = x], NEW w
    PROVE  /\ Cardinality(Pending(w)') \in Nat /\ Cardinality(Admitted(w)') \in Nat
           /\ Cardinality(Pending(w)') + One(IsPending(visit[v], w))
                = Cardinality(Pending(w)) + One(IsPending(x, w))
           /\ Cardinality(Admitted(w)') + One(IsAdmitted(visit[v], w))
                = Cardinality(Admitted(w)) + One(IsAdmitted(x, w))
<1>1. visit'[v] = x /\ \A u \in Visit : u # v => visit'[u] = visit[u]
  OBVIOUS
<1>2. IsFiniteSet(Pending(w)) /\ IsFiniteSet(Admitted(w))
  BY WaitingFinite
<1>3. \A u : u # v => (u \in Pending(w) <=> u \in Pending(w)')
  BY <1>1 DEF Pending
<1>4. \A u : u # v => (u \in Admitted(w) <=> u \in Admitted(w)')
  BY <1>1 DEF Admitted
<1>5. (v \in Pending(w)) = IsPending(visit[v], w) /\ (v \in Pending(w)') = IsPending(x, w)
  BY <1>1 DEF Pending, IsPending
<1>6. (v \in Admitted(w)) = IsAdmitted(visit[v], w) /\ (v \in Admitted(w)') = IsAdmitted(x, w)
  BY <1>1 DEF Admitted, IsAdmitted
<1> QED BY <1>2, <1>3, <1>4, <1>5, <1>6, CountStep

-----------------------------------------------------------------------------
LEMMA RateInvInit == RateInit => RateInv
<1> SUFFICES ASSUME RateInit PROVE RateInv
  OBVIOUS
<1>1. failOpen \in BOOLEAN /\ degraded = FALSE
  BY Zenon DEF RateInit
<1>2. 0 \in Halves /\ Windows \subseteq Nat
  BY HalvesInWindows DEF Halves
<1>3. NoVisit \in VisitType /\ NoVisit.pc = "none"
  BY DEF NoVisit, VisitType
<1>4. IsFiniteSet({}) /\ Cardinality({}) = 0
  BY FS_EmptySet
<1>5. RateTyped
  BY <1>1, <1>2, <1>3, <1>4 DEF RateInit, RateTyped, NoCount
<1>6. \A v \in Visit : visit[v].pc = "none"
  BY <1>3 DEF RateInit
<1>7. \A v \in Visit : InItsWindow(v)
  BY <1>6 DEF InItsWindow
<1>8. \A w : Pending(w) = {} /\ Admitted(w) = {} /\ PassedIn(w) = {}
  BY <1>6 DEF Pending, IsPending, Admitted, IsAdmitted, PassedIn, RateInit
<1>9. \A w \in Windows : counter[w].n = 0 /\ arrived[w] = 0 /\ forgotten[w] = 0
  BY DEF RateInit, NoCount
<1>10. \A w \in Windows : Lasting(w) /\ Accounted(w)
  BY <1>4, <1>8, <1>9 DEF Lasting, Accounted
<1>11. \A w \in Windows : WithinCap(w)
  BY <1>4, <1>8, <1>9, RateAssumption DEF WithinCap, Usage
<1>12. Numbered
  BY DEF Numbered, RateInit
<1>13. ToldTrue
  BY DEF RateInit, ToldTrue
<1> QED BY <1>5, <1>7, <1>10, <1>11, <1>12, <1>13 DEF RateInv

(* A step of one request keeps the invariant if it leaves that request where *)
(* it may be and counts nothing that was not pending.                        *)
LEMMA OneVisit ==
    ASSUME RateInv, NEW v \in Visit, NEW x \in VisitType,
           visit' = [visit EXCEPT ![v] = x], UNCHANGED <<clock, failOpen, forgotten>>,
           RateTyped',
           \A w \in Windows : arrived[w] <= arrived'[w],
           InItsWindow(v)', \A w \in Windows : Lasting(w)',
           \A w \in Windows : counter'[w].n + One(IsPending(x, w)) + arrived[w]
                                 <= counter[w].n + One(IsPending(visit[v], w)) + arrived'[w],
           ~degraded' => Numbered' /\ \A w \in Windows : WithinCap(w)',
           ToldTrue'
    PROVE  RateInv'
<1>1. RateTyped
  BY DEF RateInv
<1>2. ASSUME NEW u \in Visit PROVE InItsWindow(u)'
  <2>1. CASE u = v
    BY <2>1
  <2>2. CASE u # v
    <3>1. visit'[u] = visit[u] /\ visit[u] \in VisitType /\ InItsWindow(u)
      BY <1>1, <2>2 DEF RateTyped, RateInv
    <3>2. visit[u].pc = "counting" =>
             /\ visit[u].window \in Windows /\ visit[u].reply \in Nat
             /\ arrived[visit[u].window] \in Nat /\ arrived'[visit[u].window] \in Nat
      BY <1>1, <3>1 DEF VisitType, RateTyped, NoVisit
    <3> QED BY <3>1, <3>2 DEF InItsWindow
  <2> QED BY <2>1, <2>2
<1>3. ASSUME NEW w \in Windows PROVE Accounted(w)'
  <2>1. /\ Cardinality(Pending(w)') \in Nat
        /\ Cardinality(Pending(w)') + One(IsPending(visit[v], w))
                = Cardinality(Pending(w)) + One(IsPending(x, w))
    BY <1>1, VisitStep DEF RateTyped
  <2>2. forgotten[w] + counter[w].n + Cardinality(Pending(w)) <= arrived[w] /\ Cardinality(Pending(w)) \in Nat
    BY WaitingFinite DEF RateInv, Accounted
  <2>3. /\ counter[w].n \in Nat /\ arrived[w] \in Nat /\ counter'[w].n \in Nat /\ arrived'[w] \in Nat
        /\ forgotten[w] \in Nat
    BY <1>1 DEF RateTyped
  <2>4. \A b : One(b) \in Nat
    BY DEF One
  <2>5. forgotten'[w] + counter'[w].n + Cardinality(Pending(w)') <= arrived'[w]
    <3> DEFINE n == counter[w].n
               m == counter'[w].n
               c == Cardinality(Pending(w))
               d == Cardinality(Pending(w)')
               p == One(IsPending(visit[v], w))
               q == One(IsPending(x, w))
               a == arrived[w]
               b == arrived'[w]
               f == forgotten[w]
    <3>1. f \in Nat /\ n \in Nat /\ m \in Nat /\ c \in Nat /\ d \in Nat /\ p \in Nat /\ q \in Nat /\ a \in Nat /\ b \in Nat
      BY <2>1, <2>2, <2>3, <2>4
    <3>2. d + p = c + q /\ f + n + c <= a /\ m + q + a <= n + p + b
      BY <2>1, <2>2
    <3> HIDE DEF n, m, c, d, p, q, a, b, f
    <3>3. f + m + d <= b
      BY <3>1, <3>2
    <3> QED BY <3>3 DEF m, d, b, f
  <2> QED BY <2>5 DEF Accounted
<1> QED BY <1>2, <1>3 DEF RateInv

(* Nor does it let through more than may be, if it admits nobody.            *)
LEMMA CapKept ==
    ASSUME RateInv, ~degraded, NEW v \in Visit, NEW x \in VisitType,
           visit' = [visit EXCEPT ![v] = x], UNCHANGED <<clock, passed, forgotten>>,
           RateTyped',
           \A w \in Windows : counter[w].n <= counter'[w].n,
           \A w \in Windows : IsAdmitted(x, w) => IsAdmitted(visit[v], w)
    PROVE  Numbered' /\ \A w \in Windows : WithinCap(w)'
<1>1. RateTyped /\ Numbered /\ \A w \in Windows : WithinCap(w)
  BY DEF RateInv
<1>2. Numbered'
  BY <1>1 DEF Numbered, PassedOf
<1>3. ASSUME NEW w \in Windows PROVE WithinCap(w)'
  <2>1. PassedIn(w)' = PassedIn(w)
    BY DEF PassedIn
  <2>2. IsFiniteSet(PassedIn(w)) /\ Cardinality(PassedIn(w)) \in Nat
    BY <1>1, FS_Subset, FS_CardinalityType DEF RateTyped, PassedIn
  <2>3. /\ Cardinality(Admitted(w)') \in Nat
        /\ Cardinality(Admitted(w)') + One(IsAdmitted(visit[v], w))
                = Cardinality(Admitted(w)) + One(IsAdmitted(x, w))
    BY <1>1, VisitStep DEF RateTyped
  <2>4. Cardinality(Admitted(w)) \in Nat
    BY WaitingFinite
  <2>5. One(IsAdmitted(x, w)) <= One(IsAdmitted(visit[v], w)) /\ \A b : One(b) \in Nat
    BY DEF One
  <2>6. Cardinality(Admitted(w)') <= Cardinality(Admitted(w))
    BY <2>3, <2>4, <2>5
  <2>7. Usage(w)' \in Nat /\ Usage(w) \in Nat /\ Usage(w)' <= Usage(w)
    BY <2>1, <2>2, <2>3, <2>4, <2>6 DEF Usage
  <2>8. /\ Usage(w) <= forgotten[w] + RateCap
        /\ clock <= Opens(w) + Span => Usage(w) <= forgotten[w] + counter[w].n
    BY <1>1 DEF WithinCap
  <2>9. counter[w].n \in Nat /\ counter'[w].n \in Nat /\ RateCap \in Nat /\ forgotten[w] \in Nat
    BY <1>1, RateAssumption DEF RateTyped
  <2> QED BY <2>7, <2>8, <2>9 DEF WithinCap
<1> QED BY <1>2, <1>3

(* What waits is in a window that has opened.                                *)
LEMMA Waits ==
    ASSUME RateTyped, NEW v \in Visit
    PROVE  /\ visit[v] \in VisitType
           /\ visit[v].pc \in {"none", "counting", "abandoned"}
           /\ visit[v].pc = "none" => visit[v] = NoVisit
           /\ visit[v].pc # "none" => visit[v].window \in Windows
           /\ visit[v].pc = "counting" => visit[v].since \in Nat /\ visit[v].reply \in Nat
BY DEF RateTyped, VisitType, NoVisit

LEMMA NoVisitIsNobody ==
    /\ NoVisit \in VisitType /\ NoVisit.pc = "none"
    /\ \A w : ~IsPending(NoVisit, w) /\ ~IsAdmitted(NoVisit, w)
BY DEF NoVisit, VisitType, IsPending, IsAdmitted

LEMMA EnterStep ==
    ASSUME RateInv, NEW v \in Visit, Enter(v)
    PROVE  RateInv'
<1> DEFINE here == WindowOf(clock)
           x == [pc |-> "counting", window |-> here, since |-> clock, reply |-> 0]
<1>1. RateTyped /\ clock \in Nat /\ here \in Windows
  BY HalvesInWindows DEF RateInv, RateTyped
<1>2. /\ visit[v] = NoVisit
      /\ visit' = [visit EXCEPT ![v] = x]
      /\ arrived' = [arrived EXCEPT ![here] = @ + 1]
      /\ told' = NoRefusal
      /\ UNCHANGED <<clock, counter, failOpen, passed, degraded, forgotten>>
  BY DEF Enter, KeyWindow
<1>3. x \in VisitType
  BY <1>1 DEF VisitType
<1>4. x.pc = "counting" /\ x.window = here /\ x.since = clock /\ x.reply = 0
  OBVIOUS
<1> HIDE DEF x
<1>5. arrived' \in [Windows -> Nat] /\ \A w \in Windows : arrived'[w] = arrived[w] + One(w = here)
  BY <1>1, <1>2 DEF RateTyped, One
<1>6. visit' \in [Visit -> VisitType] /\ visit'[v] = x
  BY <1>1, <1>2, <1>3 DEF RateTyped
<1>7. RateTyped'
  BY <1>1, <1>2, <1>5, <1>6 DEF RateTyped
<1>8. \A w \in Windows : arrived[w] \in Nat /\ arrived'[w] \in Nat /\ arrived[w] <= arrived'[w]
  BY <1>1, <1>5 DEF RateTyped, One
<1>9. InItsWindow(v)'
  <2>1. Opens(here) <= clock
    BY <1>1, WindowBounds
  <2>2. 0 <= arrived'[here]
    BY <1>1, <1>8
  <2> HIDE DEF here
  <2> QED BY <1>1, <1>2, <1>4, <1>6, <2>1, <2>2 DEF InItsWindow, here
<1>10. \A w \in Windows : Lasting(w)'
  BY <1>2 DEF RateInv, Lasting
<1>11. ASSUME NEW w \in Windows
       PROVE  counter'[w].n + One(IsPending(x, w)) + arrived[w]
                 <= counter[w].n + One(IsPending(visit[v], w)) + arrived'[w]
  <2>1. One(IsPending(visit[v], w)) = 0
    BY <1>2, NoVisitIsNobody DEF One
  <2>2. One(IsPending(x, w)) = One(w = here)
    BY <1>4 DEF IsPending, One
  <2>3. counter'[w].n = counter[w].n /\ counter[w].n \in Nat
    BY <1>1, <1>2 DEF RateTyped
  <2>4. One(w = here) \in Nat /\ arrived[w] \in Nat /\ arrived'[w] = arrived[w] + One(w = here)
    BY <1>5, <1>8 DEF One
  <2> HIDE DEF here
  <2> QED BY <2>1, <2>2, <2>3, <2>4
<1>12. ASSUME ~degraded' PROVE Numbered' /\ \A w \in Windows : WithinCap(w)'
  <2>1. \A w \in Windows : IsAdmitted(x, w) => IsAdmitted(visit[v], w)
    BY <1>4, RateAssumption DEF IsAdmitted
  <2>2. \A w \in Windows : counter[w].n <= counter'[w].n
    BY <1>1, <1>2 DEF RateTyped
  <2> QED BY <1>2, <1>3, <1>7, <1>12, <2>1, <2>2, CapKept
<1>13. ToldTrue'
  BY <1>2 DEF ToldTrue
<1> QED BY <1>2, <1>3, <1>7, <1>8, <1>9, <1>10, <1>11, <1>12, <1>13, OneVisit

(* The window a request waits in cannot have lost its count.                 *)
LEMMA WindowIsOpen ==
    ASSUME RateInv, NEW v \in Visit, visit[v].pc = "counting"
    PROVE  LET w == visit[v].window
           IN  w \in Windows /\ w \in Nat /\ Opens(w) \in Nat /\ Opens(w) <= clock /\ clock <= Opens(w) + Span
<1> DEFINE w == visit[v].window
           s == visit[v].since
<1>1. RateTyped /\ InItsWindow(v) /\ clock \in Nat
  BY HalvesInWindows DEF RateInv, RateTyped
<1>2. w \in Windows /\ s \in Nat
  BY <1>1, Waits
<1>3. w = WindowOf(s) /\ clock <= s + 1 /\ Opens(w) <= clock
  BY <1>1 DEF InItsWindow
<1>4. w \in Nat /\ Opens(w) \in Nat /\ s < Opens(w) + Span
  BY <1>2, <1>3, WindowBounds
<1>5. clock <= Opens(w) + Span
  BY <1>1, <1>2, <1>3, <1>4, SpanType
<1> QED BY <1>2, <1>3, <1>4, <1>5

(* The counter of a window that has opened is incremented.                   *)
LEMMA CountedStep ==
    ASSUME RateInv, NEW at \in Windows, Opens(at) <= clock, UNCHANGED clock,
           counter' = [counter EXCEPT ![at] = Counted(at)]
    PROVE  /\ counter' \in [Windows -> [n : Nat, left : Nat]]
           /\ \A w \in Windows : Lasting(w)' /\ counter'[w].n = counter[w].n + One(w = at)
<1>1. RateTyped /\ clock \in Nat /\ at \in Nat
  BY HalvesInWindows DEF RateInv, RateTyped
<1>2. Counted(at) = [n |-> counter[at].n + 1, left |-> 2 * Span]
  <2>1. 2 * 2 * WindowSeconds = 2 * Span
    BY RateAssumption DEF Span
  <2> QED BY <2>1 DEF Counted
<1>3. Counted(at) \in [n : Nat, left : Nat]
  BY <1>1, <1>2, SpanType DEF RateTyped
<1>4. counter' \in [Windows -> [n : Nat, left : Nat]]
  BY <1>1, <1>3 DEF RateTyped
<1>5. ASSUME NEW w \in Windows PROVE Lasting(w)' /\ counter'[w].n = counter[w].n + One(w = at)
  <2>1. CASE w = at
    <3>1. counter'[w] = Counted(at)
      BY <1>1, <2>1 DEF RateTyped
    <3>2. counter'[w].n = counter[w].n + 1 /\ counter'[w].left = 2 * Span
      BY <1>2, <2>1, <3>1
    <3>3. Opens(w) + 2 * Span <= clock + 2 * Span
      BY <1>1, <2>1, SpanType, OpensType
    <3> QED BY <2>1, <3>2, <3>3 DEF Lasting, One
  <2>2. CASE w # at
    <3>1. counter'[w] = counter[w] /\ counter[w].n \in Nat
      BY <1>1, <2>2 DEF RateTyped
    <3> QED BY <2>2, <3>1 DEF RateInv, Lasting, One
  <2> QED BY <2>1, <2>2
<1> QED BY <1>4, <1>5

LEMMA IncrementStep ==
    ASSUME RateInv, NEW v \in Visit, Increment(v)
    PROVE  RateInv'
<1> DEFINE at == visit[v].window
           n == counter[at].n + 1
           x == [visit[v] EXCEPT !.reply = n]
<1>1. RateTyped /\ clock \in Nat /\ InItsWindow(v) /\ visit[v].pc = "counting" /\ visit[v].reply = 0
  BY HalvesInWindows DEF RateInv, RateTyped, Increment
<1>2. at \in Windows /\ at \in Nat /\ Opens(at) \in Nat /\ Opens(at) <= clock /\ clock <= Opens(at) + Span
  BY <1>1, WindowIsOpen
<1>3. counter' = [counter EXCEPT ![at] = Counted(at)] /\ UNCHANGED <<clock, failOpen, arrived, passed, degraded, forgotten>>
  BY DEF Increment
<1>4. counter[at].n \in Nat /\ n \in Nat /\ n # 0
  BY <1>1, <1>2 DEF RateTyped
<1>5. counter'[at].n = n
  BY <1>1, <1>2, <1>3 DEF RateTyped, Counted
<1>6. visit' = [visit EXCEPT ![v] = x]
  <2>1. visit' = [visit EXCEPT ![v].reply = counter'[at].n]
    BY DEF Increment
  <2> HIDE DEF n
  <2>2. visit' = [visit EXCEPT ![v].reply = n]
    BY <1>5, <2>1
  <2> QED BY <1>1, <2>2 DEF RateTyped
<1>7. /\ x \in VisitType /\ x.pc = "counting" /\ x.window = at /\ x.since = visit[v].since /\ x.reply = n
  <2>1. visit[v] \in [pc : {"counting"}, window : Windows, since : Nat, reply : Nat]
    BY <1>1, Waits DEF VisitType, NoVisit
  <2> HIDE DEF n, at
  <2>2. x.window = visit[v].window
    BY <2>1
  <2> QED BY <1>4, <2>1, <2>2 DEF VisitType, at
<1>8. /\ counter' \in [Windows -> [n : Nat, left : Nat]]
      /\ \A w \in Windows : Lasting(w)' /\ counter'[w].n = counter[w].n + One(w = at)
  <2> HIDE DEF at
  <2> QED BY <1>2, <1>3, CountedStep
<1>9. \A w : One(IsPending(visit[v], w)) = One(w = at) /\ One(IsPending(x, w)) = 0
  <2>1. \A w : IsPending(visit[v], w) <=> w = at
    BY <1>1 DEF IsPending
  <2> HIDE DEF x, at, n
  <2>2. \A w : ~IsPending(x, w)
    BY <1>4, <1>7 DEF IsPending
  <2> QED BY <2>1, <2>2 DEF One
<1> HIDE DEF x, n, at
<1>10. visit' \in [Visit -> VisitType] /\ visit'[v] = x
  BY <1>1, <1>6, <1>7 DEF RateTyped
<1>11. RateTyped'
  BY <1>1, <1>3, <1>8, <1>10 DEF RateTyped
<1>12. \A w \in Windows : arrived[w] \in Nat /\ arrived'[w] = arrived[w] /\ arrived[w] <= arrived'[w] /\ counter[w].n \in Nat
  BY <1>1, <1>3 DEF RateTyped
<1>13. InItsWindow(v)'
  <2>1. n <= arrived[at]
    <3>1. forgotten[at] + counter[at].n + Cardinality(Pending(at)) <= arrived[at] /\ forgotten[at] \in Nat
      BY <1>1, <1>2 DEF RateInv, Accounted, RateTyped
    <3>2. v \in Pending(at)
      BY <1>1 DEF Pending, IsPending, at
    <3>3. Cardinality(Pending(at)) \in Nat /\ Cardinality(Pending(at)) # 0
      BY <3>2, WaitingFinite, FS_EmptySet
    <3> QED BY <1>2, <1>4, <1>12, <3>1, <3>3 DEF n
  <2> QED BY <1>1, <1>2, <1>3, <1>7, <1>10, <2>1 DEF InItsWindow, at
<1>14. ASSUME NEW w \in Windows
       PROVE  counter'[w].n + One(IsPending(x, w)) + arrived[w]
                 <= counter[w].n + One(IsPending(visit[v], w)) + arrived'[w]
  <2>1. One(w = at) \in Nat
    BY DEF One
  <2> QED BY <1>8, <1>9, <1>12, <2>1
<1>15. ASSUME ~degraded', NEW w \in Windows PROVE WithinCap(w)'
  <2>1. WithinCap(w)
    BY <1>3, <1>15 DEF RateInv
  <2>2. IsFiniteSet(PassedIn(w)) /\ Cardinality(PassedIn(w)) \in Nat /\ PassedIn(w)' = PassedIn(w)
    BY <1>1, <1>3, FS_Subset, FS_CardinalityType DEF RateTyped, PassedIn
  <2>3. /\ Cardinality(Admitted(w)') \in Nat
        /\ Cardinality(Admitted(w)') + One(IsAdmitted(visit[v], w))
                = Cardinality(Admitted(w)) + One(IsAdmitted(x, w))
    <3>1. visit \in [Visit -> VisitType]
      BY <1>1 DEF RateTyped
    <3> QED BY <1>6, <3>1, VisitStep
  <2>4. Cardinality(Admitted(w)) \in Nat
    BY WaitingFinite
  <2>5. One(IsAdmitted(visit[v], w)) = 0 /\ One(IsAdmitted(x, w)) = One(w = at /\ n <= RateCap)
    <3>1. ~IsAdmitted(visit[v], w)
      BY <1>1, RateAssumption DEF IsAdmitted
    <3>2. IsAdmitted(x, w) <=> (w = at /\ n <= RateCap)
      BY <1>4, <1>7, RateAssumption DEF IsAdmitted
    <3> QED BY <3>1, <3>2 DEF One
  <2>6. /\ Usage(w) \in Nat /\ Usage(w)' = Usage(w) + One(w = at /\ n <= RateCap)
    <3>1. One(w = at /\ n <= RateCap) \in Nat
      BY DEF One
    <3> QED BY <2>2, <2>3, <2>4, <2>5, <3>1 DEF Usage
  <2>7. CASE w = at
    <3>1. Usage(w) <= forgotten[w] + RateCap /\ Usage(w) <= forgotten[w] + counter[w].n
      BY <1>2, <2>1, <2>7 DEF WithinCap
    <3>2. /\ counter'[w].n = n /\ n = counter[w].n + 1 /\ counter[w].n \in Nat /\ RateCap \in Nat
          /\ forgotten'[w] = forgotten[w] /\ forgotten[w] \in Nat
      BY <1>1, <1>3, <1>4, <1>5, <2>7, RateAssumption DEF n, RateTyped
    <3>3. CASE n <= RateCap
      <4>1. Usage(w)' = Usage(w) + 1
        BY <2>6, <2>7, <3>3 DEF One
      <4> QED BY <2>6, <3>1, <3>2, <3>3, <4>1 DEF WithinCap
    <3>4. CASE ~(n <= RateCap)
      <4>1. Usage(w)' = Usage(w)
        BY <2>6, <3>4 DEF One
      <4> QED BY <2>6, <3>1, <3>2, <4>1 DEF WithinCap
    <3> QED BY <3>3, <3>4
  <2>8. CASE w # at
    <3>1. Usage(w)' = Usage(w) /\ counter'[w].n = counter[w].n
      BY <1>8, <1>12, <2>6, <2>8 DEF One
    <3> QED BY <1>3, <2>1, <3>1 DEF WithinCap
  <2> QED BY <2>7, <2>8
<1>16. ASSUME ~degraded' PROVE Numbered'
  BY <1>3, <1>16 DEF RateInv, Numbered, PassedOf
<1>17. ToldTrue'
  BY DEF Increment, ToldTrue
<1> QED BY <1>3, <1>6, <1>7, <1>8, <1>11, <1>12, <1>13, <1>14, <1>15, <1>16, <1>17, OneVisit

(* One more of those made in this half has gone on.                          *)
LEMMA OneMoreOn ==
    ASSUME RateTyped, NEW s \in Halves, passed' = PassedWith(s)
    PROVE  /\ passed' \in SUBSET (Halves \X Nat) /\ IsFiniteSet(passed')
           /\ Numbered =>
                /\ Numbered'
                /\ \A w : /\ Cardinality(PassedIn(w)) \in Nat
                          /\ Cardinality(PassedIn(w)') = Cardinality(PassedIn(w)) + One(w = WindowOf(s))
<1> DEFINE c == Cardinality(PassedOf(s)) + 1
           e == <<s, c>>
<1>1. passed \in SUBSET (Halves \X Nat) /\ IsFiniteSet(passed)
  BY DEF RateTyped
<1>2. \A h : IsFiniteSet(PassedOf(h)) /\ Cardinality(PassedOf(h)) \in Nat
  BY <1>1, FS_Subset, FS_CardinalityType DEF PassedOf
<1>3. \A w : IsFiniteSet(PassedIn(w)) /\ Cardinality(PassedIn(w)) \in Nat
  BY <1>1, FS_Subset, FS_CardinalityType DEF PassedIn
<1>4. c \in Nat /\ e \in Halves \X Nat /\ e[1] = s /\ e[2] = c
  BY <1>2
<1>5. passed' = passed \cup {e}
  BY DEF PassedWith
<1>6. passed' \in SUBSET (Halves \X Nat) /\ IsFiniteSet(passed')
  <2> HIDE DEF e
  <2> QED BY <1>1, <1>4, <1>5, FS_AddElement
<1>7. ASSUME Numbered
      PROVE  /\ Numbered'
             /\ \A w : Cardinality(PassedIn(w)') = Cardinality(PassedIn(w)) + One(w = WindowOf(s))
  <2>1. e \notin passed
    <3> SUFFICES ASSUME e \in passed PROVE FALSE
      OBVIOUS
    <3>1. c <= Cardinality(PassedOf(s))
      <4> HIDE DEF c
      <4> QED BY <1>4, <1>7 DEF Numbered
    <3> QED BY <1>2, <3>1
  <2> HIDE DEF e, c
  <2>2. PassedOf(s)' = PassedOf(s) \cup {e} /\ e \notin PassedOf(s)
    BY <1>4, <1>5, <2>1 DEF PassedOf
  <2>3. Cardinality(PassedOf(s)') = c
    BY <1>2, <2>2, FS_AddElement DEF c
  <2>4. \A h : h # s => PassedOf(h)' = PassedOf(h)
    BY <1>4, <1>5 DEF PassedOf
  <2>5. ASSUME NEW p \in passed' PROVE p[2] <= Cardinality(PassedOf(p[1])')
    <3>1. CASE p = e
      <4>1. p[1] = s /\ p[2] = c
        BY <1>4, <3>1
      <4> QED BY <1>4, <2>3, <4>1
    <3>2. CASE p # e
      <4>1. p \in passed /\ p[2] \in Nat
        BY <1>1, <1>5, <3>2
      <4>2. p[2] <= Cardinality(PassedOf(p[1]))
        BY <1>7, <4>1 DEF Numbered
      <4>3. CASE p[1] = s
        <5>1. p[2] <= Cardinality(PassedOf(s)) /\ Cardinality(PassedOf(p[1])') = c
          BY <2>3, <4>2, <4>3
        <5> QED BY <1>2, <4>1, <5>1 DEF c
      <4>4. CASE p[1] # s
        BY <2>4, <4>2, <4>4
      <4> QED BY <4>3, <4>4
    <3> QED BY <3>1, <3>2
  <2>6. Numbered'
    BY <2>5 DEF Numbered
  <2>7. ASSUME NEW w PROVE Cardinality(PassedIn(w)') = Cardinality(PassedIn(w)) + One(w = WindowOf(s))
    <3>1. CASE w = WindowOf(s)
      <4>1. PassedIn(w)' = PassedIn(w) \cup {e} /\ e \notin PassedIn(w)
        BY <1>4, <1>5, <2>1, <3>1 DEF PassedIn
      <4> QED BY <1>3, <3>1, <4>1, FS_AddElement DEF One
    <3>2. CASE w # WindowOf(s)
      <4>1. PassedIn(w)' = PassedIn(w)
        BY <1>4, <1>5, <3>2 DEF PassedIn
      <4> QED BY <1>3, <3>2, <4>1 DEF One
    <3> QED BY <3>1, <3>2
  <2> QED BY <2>6, <2>7
<1> QED BY <1>3, <1>6, <1>7

LEMMA LetThroughStep ==
    ASSUME RateInv, NEW v \in Visit, LetThrough(v)
    PROVE  RateInv'
<1> DEFINE at == visit[v].window
           s == visit[v].since
<1>1. /\ RateTyped /\ clock \in Nat /\ clock <= MaxHalves /\ MaxHalves \in Nat /\ InItsWindow(v)
      /\ visit[v].pc = "counting" /\ visit[v].reply \in 1 .. RateCap
  BY HalvesInWindows DEF RateInv, RateTyped, LetThrough, Admit, Halves
<1>2. /\ passed' = PassedWith(s) /\ visit' = [visit EXCEPT ![v] = NoVisit] /\ told' = NoRefusal
      /\ UNCHANGED <<clock, counter, failOpen, arrived, degraded, forgotten>>
  BY DEF LetThrough, Admit
<1>3. s \in Halves /\ WindowOf(s) = at
  <2>1. s \in Nat /\ s <= clock
    BY <1>1, Waits DEF InItsWindow
  <2>2. WindowOf(s) = at
    BY <1>1 DEF InItsWindow
  <2> HIDE DEF s
  <2> QED BY <1>1, <2>1, <2>2 DEF Halves
<1> HIDE DEF s, at
<1>4. visit \in [Visit -> VisitType] /\ visit' \in [Visit -> VisitType] /\ visit'[v] = NoVisit
  BY <1>1, <1>2, NoVisitIsNobody DEF RateTyped
<1>5. RateTyped'
  BY <1>1, <1>2, <1>3, <1>4, OneMoreOn DEF RateTyped
<1>6. \A w \in Windows : arrived[w] <= arrived'[w] /\ arrived[w] \in Nat /\ counter[w].n \in Nat
  BY <1>1, <1>2 DEF RateTyped
<1>7. InItsWindow(v)'
  BY <1>4, NoVisitIsNobody DEF InItsWindow
<1>8. \A w \in Windows : Lasting(w)'
  BY <1>2 DEF RateInv, Lasting
<1>9. ASSUME NEW w \in Windows
      PROVE  counter'[w].n + One(IsPending(NoVisit, w)) + arrived[w]
                <= counter[w].n + One(IsPending(visit[v], w)) + arrived'[w]
  <2>1. One(IsPending(NoVisit, w)) = 0 /\ One(IsPending(visit[v], w)) \in Nat
    BY NoVisitIsNobody DEF One
  <2> QED BY <1>2, <1>6, <2>1
<1>10. ASSUME ~degraded', NEW w \in Windows PROVE WithinCap(w)'
  <2>1. WithinCap(w) /\ Numbered
    BY <1>2, <1>10 DEF RateInv
  <2>2. /\ Cardinality(PassedIn(w)) \in Nat
        /\ Cardinality(PassedIn(w)') = Cardinality(PassedIn(w)) + One(w = at)
    BY <1>1, <1>2, <1>3, <2>1, OneMoreOn
  <2>3. /\ Cardinality(Admitted(w)') \in Nat
        /\ Cardinality(Admitted(w)') + One(IsAdmitted(visit[v], w))
                = Cardinality(Admitted(w)) + One(IsAdmitted(NoVisit, w))
    BY <1>2, <1>4, VisitStep
  <2>4. One(IsAdmitted(visit[v], w)) = One(w = at) /\ One(IsAdmitted(NoVisit, w)) = 0
    <3>1. IsAdmitted(visit[v], w) <=> w = at
      BY <1>1 DEF IsAdmitted, at
    <3> QED BY <3>1, NoVisitIsNobody DEF One
  <2>5. One(w = at) \in Nat /\ Cardinality(Admitted(w)) \in Nat
    BY WaitingFinite DEF One
  <2>6. Usage(w)' = Usage(w)
    BY <2>2, <2>3, <2>4, <2>5 DEF Usage
  <2> QED BY <1>2, <2>1, <2>6 DEF WithinCap
<1>11. ASSUME ~degraded' PROVE Numbered'
  BY <1>1, <1>2, <1>3, <1>11, OneMoreOn DEF RateInv
<1>12. ToldTrue'
  BY <1>2 DEF ToldTrue
<1> QED BY <1>2, <1>5, <1>6, <1>7, <1>8, <1>9, <1>10, <1>11, <1>12, NoVisitIsNobody, OneVisit

(* Whoever is told to wait is told to wait for the next window to open.      *)
LEMMA RetryInTime ==
    ASSUME NEW w \in Nat, clock \in Nat, Opens(w) <= clock
    PROVE  /\ WindowOf(clock + 2 * RetryAfter(w)) > w
           /\ RetryAfter(w) \in 0 .. WindowSeconds /\ RetryAfter(w) <= WindowSeconds
<1> DEFINE r == ResetAt(w)
           half == clock \div 2
           a == RetryAfter(w)
<1>1. WindowSeconds \in Nat /\ WindowSeconds >= 1
  BY RateAssumption
<1>2. r \in Nat /\ Opens(w + 1) = 2 * r /\ Opens(w) + 2 * WindowSeconds = 2 * r /\ Opens(w) \in Nat
  <2>1. (w + 1) * WindowSeconds = w * WindowSeconds + WindowSeconds /\ w * WindowSeconds \in Nat
    BY <1>1
  <2>2. Span * w = 2 * (w * WindowSeconds) /\ Span * (w + 1) = 2 * ((w + 1) * WindowSeconds)
    BY <1>1 DEF Span
  <2> QED BY <1>1, <2>1, <2>2 DEF ResetAt, Opens
<1>3. half \in Nat /\ 2 * half <= clock /\ clock <= 2 * half + 1
  OBVIOUS
<1>4. a = Max({1, r - half})
  BY DEF RetryAfter
<1> HIDE DEF r, half, a
<1>5. a \in {1, r - half} /\ a >= 1 /\ a >= r - half
  <2>1. \E m \in {1, r - half} : \A y \in {1, r - half} : m >= y
    <3>1. r - half \in Int
      BY <1>2, <1>3
    <3>2. CASE 1 >= r - half
      BY <3>2
    <3>3. CASE ~(1 >= r - half)
      BY <3>1, <3>3
    <3> QED BY <3>2, <3>3
  <2>2. a \in {1, r - half} /\ \A y \in {1, r - half} : a >= y
    BY <1>4, <2>1 DEF Max
  <2> QED BY <2>2
<1>6. a \in Nat
  BY <1>2, <1>3, <1>5
<1>7. clock + 2 * a \in Nat /\ Opens(w + 1) <= clock + 2 * a
  BY <1>2, <1>3, <1>5, <1>6
<1>8. w + 1 <= WindowOf(clock + 2 * a)
  BY <1>7, WindowIs
<1>9. WindowOf(clock + 2 * a) > w
  BY <1>7, <1>8, WindowBounds
<1>10. a <= WindowSeconds
  BY <1>1, <1>2, <1>3, <1>5
<1>11. a \in 0 .. WindowSeconds
  BY <1>1, <1>6, <1>10
<1> QED BY <1>9, <1>10, <1>11 DEF a

LEMMA RefuseStep ==
    ASSUME RateInv, NEW v \in Visit, Refuse(v)
    PROVE  RateInv'
<1> DEFINE at == visit[v].window
<1>1. RateTyped /\ clock \in Nat /\ InItsWindow(v) /\ visit[v].pc = "counting" /\ visit[v].reply > RateCap
  BY HalvesInWindows DEF RateInv, RateTyped, Refuse
<1>2. /\ told' = [at |-> clock, window |-> at, after |-> RetryAfter(at)]
      /\ visit' = [visit EXCEPT ![v] = NoVisit]
      /\ UNCHANGED <<clock, counter, failOpen, arrived, passed, degraded, forgotten>>
  BY DEF Refuse
<1>3. at \in Windows /\ at \in Nat /\ Opens(at) <= clock
  BY <1>1, WindowIsOpen
<1>4. visit[v].reply \in Nat /\ visit[v].reply <= arrived[at]
  BY <1>1, Waits DEF InItsWindow
<1> HIDE DEF at
<1>5. visit \in [Visit -> VisitType] /\ visit' \in [Visit -> VisitType] /\ visit'[v] = NoVisit
  BY <1>1, <1>2, NoVisitIsNobody DEF RateTyped
<1>6. RateTyped'
  BY <1>1, <1>2, <1>5 DEF RateTyped
<1>7. \A w \in Windows : /\ arrived[w] <= arrived'[w] /\ arrived[w] \in Nat
                         /\ counter[w].n \in Nat /\ counter[w].n <= counter'[w].n
  BY <1>1, <1>2 DEF RateTyped
<1>8. InItsWindow(v)'
  BY <1>5, NoVisitIsNobody DEF InItsWindow
<1>9. \A w \in Windows : Lasting(w)'
  BY <1>2 DEF RateInv, Lasting
<1>10. ASSUME NEW w \in Windows
       PROVE  counter'[w].n + One(IsPending(NoVisit, w)) + arrived[w]
                 <= counter[w].n + One(IsPending(visit[v], w)) + arrived'[w]
  <2>1. One(IsPending(NoVisit, w)) = 0 /\ One(IsPending(visit[v], w)) \in Nat
    BY NoVisitIsNobody DEF One
  <2> QED BY <1>2, <1>7, <2>1
<1>11. ASSUME ~degraded' PROVE Numbered' /\ \A w \in Windows : WithinCap(w)'
  BY <1>2, <1>6, <1>7, <1>11, NoVisitIsNobody, CapKept
<1>12. ToldTrue'
  <2>1. arrived[at] > RateCap
    BY <1>1, <1>3, <1>4, <1>7, RateAssumption
  <2>2. WindowOf(clock + 2 * RetryAfter(at)) > at /\ RetryAfter(at) <= WindowSeconds
    BY <1>1, <1>3, RetryInTime
  <2>3. told'.at = clock /\ told'.window = at /\ told'.after = RetryAfter(at)
    BY <1>2
  <2>4. /\ arrived'[told'.window] > RateCap
        /\ WindowOf(told'.at + 2 * told'.after) > told'.window
        /\ told'.after <= WindowSeconds
    BY <1>2, <2>1, <2>2, <2>3
  <2> QED BY <2>4 DEF ToldTrue, WindowOf
<1> QED BY <1>2, <1>6, <1>7, <1>8, <1>9, <1>10, <1>11, <1>12, NoVisitIsNobody, OneVisit

LEMMA CounterUnavailableStep ==
    ASSUME RateInv, NEW v \in Visit, CounterUnavailable(v)
    PROVE  RateInv'
<1> DEFINE at == visit[v].window
           s == visit[v].since
           x == IF visit[v].reply = 0 THEN [pc |-> "abandoned", window |-> at] ELSE NoVisit
<1>1. /\ RateTyped /\ clock \in Nat /\ clock <= MaxHalves /\ MaxHalves \in Nat /\ InItsWindow(v)
      /\ visit[v].pc = "counting"
  <2>1. RateTyped /\ InItsWindow(v) /\ visit[v].pc = "counting"
    BY DEF RateInv, CounterUnavailable
  <2>2. MaxHalves \in Nat
    BY RateAssumption
  <2> QED BY <2>1, <2>2 DEF RateTyped, Halves
<1>2. /\ passed' = IF failOpen THEN PassedWith(s) ELSE passed
      /\ told' = NoRefusal
      /\ UNCHANGED <<clock, counter, failOpen, arrived, forgotten>>
  BY DEF CounterUnavailable
<1>3. degraded' = (degraded \/ failOpen)
  BY DEF CounterUnavailable
<1>4. visit \in [Visit -> VisitType] /\ visit' = [visit EXCEPT ![v] = x]
  BY <1>1 DEF CounterUnavailable, RateTyped
<1>5. at \in Windows /\ s \in Halves /\ Opens(at) <= clock
  <2>1. at \in Windows /\ s \in Nat /\ s <= clock /\ Opens(at) <= clock
    BY <1>1, Waits DEF InItsWindow
  <2> HIDE DEF s, at
  <2> QED BY <1>1, <2>1 DEF Halves
<1>6. /\ x \in VisitType /\ x.pc \in {"none", "abandoned"}
      /\ x.pc # "none" => x.window = at
      /\ \A w : ~IsAdmitted(x, w)
      /\ \A w : IsPending(x, w) => IsPending(visit[v], w)
  <2>1. CASE visit[v].reply = 0
    <3>1. x = [pc |-> "abandoned", window |-> at]
      BY <2>1
    <3>2. x \in VisitType /\ x.pc = "abandoned" /\ x.window = at
      BY <1>5, <3>1 DEF VisitType
    <3> QED BY <1>1, <2>1, <3>2 DEF IsAdmitted, IsPending
  <2>2. CASE visit[v].reply # 0
    BY <2>2, NoVisitIsNobody
  <2> QED BY <2>1, <2>2
<1> HIDE DEF x, s, at
<1>7. visit' \in [Visit -> VisitType] /\ visit'[v] = x
  <2>1. x \in VisitType
    BY <1>6
  <2> QED BY <1>4, <2>1
<1>8. passed' \in SUBSET (Halves \X Nat) /\ IsFiniteSet(passed')
  <2>1. CASE failOpen
    BY <1>1, <1>2, <1>5, <2>1, OneMoreOn
  <2>2. CASE ~failOpen
    BY <1>1, <1>2, <2>2 DEF RateTyped
  <2> QED BY <2>1, <2>2
<1>10. RateTyped'
  BY <1>1, <1>2, <1>7, <1>8 DEF RateTyped
<1>11. \A w \in Windows : /\ arrived[w] <= arrived'[w] /\ arrived[w] \in Nat
                          /\ counter[w].n \in Nat /\ counter[w].n <= counter'[w].n
  BY <1>1, <1>2 DEF RateTyped
<1>12. InItsWindow(v)'
  <2>1. visit'[v].pc # "none" => Opens(visit'[v].window) <= clock
    BY <1>5, <1>6, <1>7
  <2>2. visit'[v].pc # "counting"
    BY <1>6, <1>7
  <2> QED BY <1>2, <2>1, <2>2 DEF InItsWindow, Opens, Span
<1>13. \A w \in Windows : Lasting(w)'
  BY <1>2 DEF RateInv, Lasting
<1>14. ASSUME NEW w \in Windows
       PROVE  counter'[w].n + One(IsPending(x, w)) + arrived[w]
                 <= counter[w].n + One(IsPending(visit[v], w)) + arrived'[w]
  <2>1. /\ One(IsPending(x, w)) \in Nat /\ One(IsPending(visit[v], w)) \in Nat
        /\ One(IsPending(x, w)) <= One(IsPending(visit[v], w))
    BY <1>6 DEF One
  <2> QED BY <1>2, <1>11, <2>1
<1>15. ASSUME ~degraded' PROVE Numbered' /\ \A w \in Windows : WithinCap(w)'
  <2>1. ~degraded /\ ~failOpen
    BY <1>3, <1>15
  <2>2. passed' = passed
    BY <1>2, <2>1
  <2> QED BY <1>2, <1>4, <1>6, <1>10, <1>11, <2>1, <2>2, CapKept
<1>16. ToldTrue'
  BY <1>2 DEF ToldTrue
<1> QED BY <1>2, <1>4, <1>6, <1>10, <1>11, <1>12, <1>13, <1>14, <1>15, <1>16, OneVisit

LEMMA IncrementLateStep ==
    ASSUME RateInv, NEW v \in Visit, IncrementLate(v)
    PROVE  RateInv'
<1> DEFINE at == visit[v].window
<1>1. RateTyped /\ clock \in Nat /\ InItsWindow(v) /\ visit[v].pc = "abandoned"
  BY HalvesInWindows DEF RateInv, RateTyped, IncrementLate
<1>2. /\ told' = NoRefusal /\ visit' = [visit EXCEPT ![v] = NoVisit]
      /\ UNCHANGED <<clock, failOpen, arrived, passed, degraded, forgotten>>
  BY DEF IncrementLate
<1>3. counter' = [counter EXCEPT ![at] = Counted(at)] \/ counter' = counter
  BY DEF IncrementLate
<1>4. at \in Windows /\ Opens(at) <= clock
  BY <1>1, Waits DEF InItsWindow
<1>5. \A w : IsPending(visit[v], w) <=> w = at
  BY <1>1 DEF IsPending
<1> HIDE DEF at
<1>6. /\ counter' \in [Windows -> [n : Nat, left : Nat]]
      /\ \A w \in Windows : /\ Lasting(w)' /\ counter[w].n \in Nat
                            /\ counter[w].n <= counter'[w].n /\ counter'[w].n <= counter[w].n + One(w = at)
  <2>0. \A w \in Windows : counter[w].n \in Nat /\ One(w = at) \in Nat
    BY <1>1 DEF RateTyped, One
  <2>1. CASE counter' = [counter EXCEPT ![at] = Counted(at)]
    <3>1. /\ counter' \in [Windows -> [n : Nat, left : Nat]]
          /\ \A w \in Windows : Lasting(w)' /\ counter'[w].n = counter[w].n + One(w = at)
      BY <1>2, <1>4, <2>1, CountedStep
    <3> QED BY <2>0, <3>1
  <2>2. CASE counter' = counter
    <3>1. \A w \in Windows : Lasting(w)'
      BY <1>2, <2>2 DEF RateInv, Lasting
    <3> QED BY <1>1, <2>0, <2>2, <3>1 DEF RateTyped
  <2> QED BY <1>3, <2>1, <2>2
<1>7. visit \in [Visit -> VisitType] /\ visit' \in [Visit -> VisitType] /\ visit'[v] = NoVisit
  BY <1>1, <1>2, NoVisitIsNobody DEF RateTyped
<1>8. RateTyped'
  BY <1>1, <1>2, <1>6, <1>7 DEF RateTyped
<1>9. \A w \in Windows : arrived[w] <= arrived'[w] /\ arrived[w] \in Nat /\ counter'[w].n \in Nat
  BY <1>1, <1>2, <1>6 DEF RateTyped
<1>10. InItsWindow(v)'
  BY <1>7, NoVisitIsNobody DEF InItsWindow
<1>11. ASSUME NEW w \in Windows
       PROVE  counter'[w].n + One(IsPending(NoVisit, w)) + arrived[w]
                 <= counter[w].n + One(IsPending(visit[v], w)) + arrived'[w]
  <2>1. One(IsPending(NoVisit, w)) = 0 /\ One(IsPending(visit[v], w)) = One(w = at) /\ One(w = at) \in Nat
    BY <1>5, NoVisitIsNobody DEF One
  <2>2. counter'[w].n <= counter[w].n + One(w = at) /\ counter[w].n \in Nat /\ counter'[w].n \in Nat
    BY <1>6, <1>9
  <2>3. arrived'[w] = arrived[w] /\ arrived[w] \in Nat
    BY <1>2, <1>9
  <2> QED BY <2>1, <2>2, <2>3
<1>12. ASSUME ~degraded' PROVE Numbered' /\ \A w \in Windows : WithinCap(w)'
  BY <1>2, <1>6, <1>8, <1>12, NoVisitIsNobody, CapKept
<1>13. ToldTrue'
  BY <1>2 DEF ToldTrue
<1> QED BY <1>2, <1>6, <1>8, <1>9, <1>10, <1>11, <1>12, <1>13, NoVisitIsNobody, OneVisit

(* Time: a count is forgotten after its window, when nobody waits in it.     *)
LEMMA TickStep ==
    ASSUME RateInv, RateTick
    PROVE  RateInv'
<1>1. /\ RateTyped /\ clock \in Nat /\ clock < MaxHalves /\ MaxHalves \in Nat
      /\ \A v \in Visit : InItsWindow(v)
  BY HalvesInWindows DEF RateInv, RateTyped, RateTick
<1>2. /\ \A v \in Visit : visit[v].pc = "counting" => visit[v].since = clock
      /\ clock' = clock + 1
      /\ counter' = [w \in Windows |->
                      IF counter[w].left <= 1 THEN NoCount ELSE [counter[w] EXCEPT !.left = @ - 1]]
      /\ told' = NoRefusal
      /\ UNCHANGED <<visit, failOpen, arrived, passed, degraded, forgotten>>
  BY DEF RateTick
<1>3. ASSUME NEW w \in Windows
      PROVE  /\ counter[w] \in [n : Nat, left : Nat] /\ counter'[w] \in [n : Nat, left : Nat]
             /\ \/ counter[w].left <= 1 /\ counter'[w].n = 0
                \/ counter'[w].n = counter[w].n /\ counter'[w].left + 1 = counter[w].left
  <2>1. counter[w] \in [n : Nat, left : Nat]
    BY <1>1 DEF RateTyped
  <2>2. CASE counter[w].left <= 1
    <3>1. counter'[w] = NoCount
      BY <1>2, <2>2
    <3> QED BY <2>1, <2>2, <3>1 DEF NoCount
  <2>3. CASE ~(counter[w].left <= 1)
    <3>1. counter'[w] = [counter[w] EXCEPT !.left = counter[w].left - 1]
      BY <1>2, <2>3
    <3>2. counter[w].left - 1 \in Nat
      BY <2>1, <2>3
    <3> QED BY <2>1, <2>3, <3>1, <3>2
  <2> QED BY <2>2, <2>3
<1>4. counter' \in [Windows -> [n : Nat, left : Nat]]
  <2>1. counter' = [w \in Windows |-> counter'[w]]
    BY <1>2
  <2> QED BY <1>3, <2>1
<1>5. RateTyped'
  <2>1. clock' \in Halves
    BY <1>1, <1>2 DEF Halves
  <2> QED BY <1>1, <1>2, <1>4, <2>1 DEF RateTyped
<1>6. ASSUME NEW v \in Visit PROVE InItsWindow(v)'
  <2>1. InItsWindow(v) /\ visit'[v] = visit[v]
    BY <1>1, <1>2
  <2>2. visit[v].pc # "none" => visit[v].window \in Nat /\ Opens(visit[v].window) \in Nat
    BY <1>1, Waits, HalvesInWindows, OpensType
  <2>3. visit[v].pc # "none" => Opens(visit[v].window) <= clock'
    BY <1>1, <1>2, <2>1, <2>2 DEF InItsWindow
  <2>4. visit[v].pc = "counting" => visit[v].since <= clock' /\ clock' <= visit[v].since + 1
    BY <1>1, <1>2
  <2> QED BY <1>2, <2>1, <2>3, <2>4 DEF InItsWindow, Opens, Span, WindowOf
<1>7. ASSUME NEW w \in Windows PROVE Lasting(w)'
  <2>1. Lasting(w)
    BY DEF RateInv
  <2>2. Opens(w) \in Nat /\ Span \in Nat
    BY HalvesInWindows, OpensType, SpanType
  <2>3. ASSUME counter'[w].n # 0 PROVE Opens(w) + 2 * Span <= clock' + counter'[w].left
    <3>1. counter'[w].n = counter[w].n /\ counter'[w].left + 1 = counter[w].left
      BY <1>3, <2>3
    <3>2. counter[w].left \in Nat /\ counter'[w].left \in Nat
      BY <1>3
    <3>3. Opens(w) + 2 * Span <= clock + counter[w].left
      BY <2>1, <2>3, <3>1 DEF Lasting
    <3> QED BY <1>1, <1>2, <2>2, <3>1, <3>2, <3>3
  <2> QED BY <2>3 DEF Lasting, Opens, Span
<1>8. \A w : Pending(w)' = Pending(w) /\ Admitted(w)' = Admitted(w) /\ PassedIn(w)' = PassedIn(w)
  BY <1>2 DEF Pending, Admitted, PassedIn, WindowOf
<1>9. ASSUME NEW w \in Windows PROVE Accounted(w)'
  <2>1. /\ Accounted(w) /\ Cardinality(Pending(w)) \in Nat /\ arrived[w] \in Nat /\ arrived'[w] = arrived[w]
        /\ forgotten[w] \in Nat /\ forgotten'[w] = forgotten[w]
    BY <1>1, <1>2, WaitingFinite DEF RateInv, RateTyped
  <2>2. counter'[w].n <= counter[w].n /\ counter'[w].n \in Nat /\ counter[w].n \in Nat
    BY <1>3
  <2>3. forgotten'[w] + counter'[w].n + Cardinality(Pending(w)') <= arrived'[w]
    BY <1>8, <2>1, <2>2 DEF Accounted
  <2> QED BY <2>3 DEF Accounted
<1>10. ASSUME ~degraded', NEW w \in Windows PROVE WithinCap(w)'
  <2>1. WithinCap(w) /\ Lasting(w)
    BY <1>2, <1>10 DEF RateInv
  <2>2. Usage(w)' = Usage(w) /\ Usage(w) \in Nat
    <3>1. IsFiniteSet(PassedIn(w)) /\ Cardinality(PassedIn(w)) \in Nat
      BY <1>1, FS_Subset, FS_CardinalityType DEF RateTyped, PassedIn
    <3> QED BY <1>8, <3>1, WaitingFinite DEF Usage
  <2>3. Opens(w) \in Nat /\ Span \in Nat \ {0}
    BY HalvesInWindows, OpensType, SpanType
  <2>4. ASSUME clock + 1 <= Opens(w) + Span PROVE Usage(w) <= forgotten[w] + counter'[w].n
    <3>1. Usage(w) <= forgotten[w] + counter[w].n
      BY <1>1, <2>1, <2>3, <2>4 DEF WithinCap
    <3>2. counter[w].n \in Nat /\ counter[w].left \in Nat
      BY <1>3
    <3>3. CASE counter[w].n = 0
      BY <1>3, <2>2, <3>1, <3>3
    <3>4. CASE counter[w].n # 0
      <4>1. Opens(w) + 2 * Span <= clock + counter[w].left
        BY <2>1, <3>4 DEF Lasting
      <4>2. ~(counter[w].left <= 1)
        BY <1>1, <2>3, <2>4, <3>2, <4>1
      <4> QED BY <1>3, <3>1, <4>2
    <3> QED BY <3>3, <3>4
  <2>5. /\ Usage(w)' <= forgotten'[w] + RateCap
        /\ clock' <= Opens(w) + Span => Usage(w)' <= forgotten'[w] + counter'[w].n
    BY <1>2, <2>1, <2>2, <2>4 DEF WithinCap
  <2> QED BY <2>5 DEF WithinCap, Opens, Span
<1>11. ASSUME ~degraded' PROVE Numbered'
  BY <1>2, <1>11 DEF RateInv, Numbered, PassedOf
<1>12. ToldTrue'
  BY <1>2 DEF ToldTrue
<1> QED BY <1>5, <1>6, <1>7, <1>9, <1>10, <1>11, <1>12 DEF RateInv

(* What Redis forgets of a window adds to what the window may let through.   *)
LEMMA ForgetStep ==
    ASSUME RateInv, NEW at \in Windows, NEW n \in Nat, Forget(at, n)
    PROVE  RateInv'
<1> DEFINE m == counter[at].n
           d == Within(m) - Within(n)
           f == forgotten[at]
<1>1. /\ RateTyped /\ clock \in Nat /\ m \in Nat /\ f \in Nat /\ RateCap \in Nat
  BY HalvesInWindows, RateAssumption DEF RateInv, RateTyped
<1>2. /\ n < m
      /\ counter' = [counter EXCEPT ![at] = IF n = 0 THEN NoCount ELSE [@ EXCEPT !.n = n]]
      /\ forgotten' = [forgotten EXCEPT ![at] = f + Within(m) - Within(n)]
      /\ told' = NoRefusal
      /\ UNCHANGED <<clock, visit, failOpen, arrived, passed, degraded>>
  BY DEF Forget
<1> HIDE DEF m, f
<1>3. /\ Within(m) \in Nat /\ Within(n) \in Nat /\ Within(n) <= Within(m)
      /\ Within(m) + n <= m + Within(n)
      /\ Within(n) <= n /\ Within(m) \in {m, RateCap}
  BY <1>1, <1>2 DEF Within
<1>4. d \in Nat /\ d + n <= m
  BY <1>1, <1>3
<1>5. /\ forgotten' \in [Windows -> Nat] /\ forgotten'[at] = f + d
      /\ \A w \in Windows \ {at} : forgotten'[w] = forgotten[w]
  <2>1. f + Within(m) - Within(n) = f + d /\ f + d \in Nat
    BY <1>1, <1>3, <1>4
  <2> HIDE DEF d
  <2> QED BY <1>1, <1>2, <2>1 DEF RateTyped
<1>6. /\ counter'[at] \in [n : Nat, left : Nat] /\ counter'[at].n = n
      /\ n # 0 => counter'[at].left = counter[at].left
      /\ \A w \in Windows \ {at} : counter'[w] = counter[w]
  BY <1>1, <1>2 DEF RateTyped, NoCount
<1>7. counter' \in [Windows -> [n : Nat, left : Nat]]
  <2>1. \A w \in Windows : counter'[w] \in [n : Nat, left : Nat]
    BY <1>1, <1>6 DEF RateTyped
  <2>2. DOMAIN counter' = Windows /\ counter' = [w \in Windows |-> counter'[w]]
    BY <1>1, <1>2 DEF RateTyped
  <2> QED BY <2>1, <2>2
<1>8. RateTyped'
  BY <1>1, <1>2, <1>5, <1>7 DEF RateTyped
<1>9. ASSUME NEW v \in Visit PROVE InItsWindow(v)'
  BY <1>2 DEF RateInv, InItsWindow, Opens, Span, WindowOf
<1>10. ASSUME NEW w \in Windows PROVE Lasting(w)'
  <2>1. Lasting(w)
    BY DEF RateInv
  <2>2. counter'[w].n # 0 => counter[w].n # 0 /\ counter'[w].left = counter[w].left
    BY <1>1, <1>2, <1>6 DEF m
  <2> QED BY <1>2, <2>1, <2>2 DEF Lasting, Opens, Span
<1>11. \A w : Pending(w)' = Pending(w) /\ Usage(w)' = Usage(w)
  BY <1>2 DEF Pending, Usage, Admitted, PassedIn, WindowOf
<1>12. ASSUME NEW w \in Windows PROVE Accounted(w)'
  <2>1. /\ forgotten[w] + counter[w].n + Cardinality(Pending(w)) <= arrived[w]
        /\ Cardinality(Pending(w)) \in Nat /\ arrived[w] \in Nat
    BY <1>1, WaitingFinite DEF RateInv, RateTyped, Accounted
  <2>2. CASE w = at
    <3>1. f + m + Cardinality(Pending(w)) <= arrived[w]
      BY <2>1, <2>2 DEF f, m
    <3>2. f + d + n + Cardinality(Pending(w)) <= arrived[w]
      <4> HIDE DEF d
      <4> QED BY <1>1, <1>4, <2>1, <3>1
    <3> QED BY <1>2, <1>5, <1>6, <1>11, <2>2, <3>2 DEF Accounted
  <2>3. CASE w # at
    BY <1>2, <1>5, <1>6, <1>11, <2>1, <2>3 DEF Accounted
  <2> QED BY <2>2, <2>3
<1>13. ASSUME ~degraded', NEW w \in Windows PROVE WithinCap(w)'
  <2>1. WithinCap(w)
    BY <1>2, <1>13 DEF RateInv
  <2>2. CASE w = at
    <3>1. /\ Usage(w) <= f + RateCap
          /\ clock <= Opens(w) + Span => Usage(w) <= f + m
      BY <2>1, <2>2 DEF WithinCap, f, m
    <3>2. Usage(w) \in Nat
      <4>1. IsFiniteSet(PassedIn(w)) /\ Cardinality(PassedIn(w)) \in Nat
        BY <1>1, FS_Subset, FS_CardinalityType DEF RateTyped, PassedIn
      <4> QED BY <4>1, WaitingFinite DEF Usage
    <3>3. /\ Usage(w) <= f + d + RateCap
          /\ clock <= Opens(w) + Span => Usage(w) <= f + d + n
      BY <1>1, <1>3, <1>4, <3>1, <3>2
    <3> HIDE DEF d
    <3> QED BY <1>2, <1>5, <1>6, <1>11, <2>2, <3>3 DEF WithinCap, Opens, Span
  <2>3. CASE w # at
    <3>1. counter'[w] = counter[w] /\ forgotten'[w] = forgotten[w]
      BY <1>5, <1>6, <2>3
    <3> QED BY <1>2, <1>11, <2>1, <3>1 DEF WithinCap, Opens, Span
  <2> QED BY <2>2, <2>3
<1>14. ASSUME ~degraded' PROVE Numbered'
  BY <1>2, <1>14 DEF RateInv, Numbered, PassedOf
<1>15. ToldTrue'
  BY <1>2 DEF ToldTrue
<1> QED BY <1>8, <1>9, <1>10, <1>12, <1>13, <1>14, <1>15 DEF RateInv

LEMMA ForgetSome ==
    ASSUME RateInv, NEW w \in Windows, NEW n \in 0 .. MaxArrivals, Forget(w, n)
    PROVE  RateInv'
BY ForgetStep, RateAssumption

LEMMA RateInvStep == RateInv /\ [RateNext]_rateVars => RateInv'
<1> SUFFICES ASSUME RateInv, [RateNext]_rateVars PROVE RateInv'
  OBVIOUS
<1>1. CASE RateNext
  BY <1>1, EnterStep, IncrementStep, LetThroughStep, RefuseStep, CounterUnavailableStep,
     IncrementLateStep, ForgetSome, TickStep DEF RateNext
<1>2. CASE UNCHANGED rateVars
  BY <1>2 DEF rateVars, RateInv, RateTyped, InItsWindow, Lasting, Accounted, Pending, WithinCap, Usage,
     PassedIn, Admitted, Numbered, PassedOf, ToldTrue, Opens, Span, WindowOf
<1> QED BY <1>1, <1>2

(* A stretch as long as a window touches two of them.                        *)
LEMMA BurstByInv == RateInv => BurstBounded
<1> SUFFICES ASSUME RateInv, ~degraded, NEW h \in Halves
             PROVE  Cardinality({p \in passed : h <= p[1] /\ p[1] < h + 2 * WindowSeconds})
                      <= 2 * RateCap + Lost(WindowOf(h)) + Lost(WindowOf(h) + 1)
  BY DEF BurstBounded
<1> DEFINE w == WindowOf(h)
           burst == {p \in passed : h <= p[1] /\ p[1] < h + 2 * WindowSeconds}
<1>1. RateTyped /\ h \in Nat /\ w \in Windows /\ w \in Nat /\ RateCap \in Nat
  BY HalvesInWindows, RateAssumption DEF RateInv
<1>2. \A u : IsFiniteSet(PassedIn(u)) /\ Cardinality(PassedIn(u)) \in Nat
  BY <1>1, FS_Subset, FS_CardinalityType DEF RateTyped, PassedIn
<1>3. ASSUME NEW u \in Nat PROVE Lost(u) \in Nat /\ Cardinality(PassedIn(u)) <= Lost(u) + RateCap
  <2>1. CASE u \in Windows
    <3>1. Usage(u) <= Lost(u) + RateCap /\ Lost(u) \in Nat
      BY <1>1, <2>1 DEF RateInv, RateTyped, WithinCap, Lost
    <3>2. Cardinality(Admitted(u)) \in Nat /\ Cardinality(PassedIn(u)) \in Nat
      BY <1>2, WaitingFinite
    <3> QED BY <1>1, <3>1, <3>2 DEF Usage
  <2>2. CASE u \notin Windows
    <3>1. PassedIn(u) = {}
      <4>1. \A p \in passed : p[1] \in Halves
        BY <1>1 DEF RateTyped
      <4> QED BY <2>2, <4>1, HalvesInWindows DEF PassedIn
    <3>2. Lost(u) = 0
      BY <2>2 DEF Lost
    <3> QED BY <1>1, <3>1, <3>2, FS_EmptySet
  <2> QED BY <2>1, <2>2
<1>4. burst \subseteq PassedIn(w) \cup PassedIn(w + 1)
  <2> SUFFICES ASSUME NEW p \in passed, h <= p[1], p[1] < h + 2 * WindowSeconds
               PROVE  WindowOf(p[1]) = w \/ WindowOf(p[1]) = w + 1
    BY DEF PassedIn
  <2> DEFINE k == p[1]
             u == WindowOf(k)
  <2>1. k \in Nat /\ h <= k /\ k < h + Span /\ Span \in Nat
    <3>1. p[1] \in Halves
      BY <1>1 DEF RateTyped
    <3> QED BY <3>1, HalvesInWindows, SpanType
  <2> HIDE DEF k, w
  <2>2. Opens(w) \in Nat /\ Opens(w) <= h /\ h < Opens(w) + Span
    BY <1>1, WindowBounds DEF w
  <2>3. Opens(w) + Span <= Opens(w + 1) /\ Opens(w + 1) \in Nat /\ w + 1 \in Nat
    BY <1>1, NextOpens, OpensType
  <2>4. Opens(w) <= k /\ k < Opens(w + 1) + Span
    BY <1>1, <2>1, <2>2, <2>3
  <2>5. w <= u /\ u <= w + 1 /\ u \in Nat
    BY <1>1, <2>1, <2>3, <2>4, WindowIs, WindowBounds
  <2> HIDE DEF u
  <2>6. u = w \/ u = w + 1
    BY <1>1, <2>5
  <2> QED BY <2>6 DEF u, k
<1> HIDE DEF burst, w
<1>5. /\ IsFiniteSet(PassedIn(w) \cup PassedIn(w + 1))
      /\ Cardinality(PassedIn(w) \cup PassedIn(w + 1)) =
            Cardinality(PassedIn(w)) + Cardinality(PassedIn(w + 1))
              - Cardinality(PassedIn(w) \cap PassedIn(w + 1))
  BY <1>2, FS_Union
<1>6. Cardinality(PassedIn(w) \cap PassedIn(w + 1)) \in Nat
  BY <1>2, FS_Intersection, FS_CardinalityType
<1>7. Cardinality(PassedIn(w) \cup PassedIn(w + 1)) <= 2 * RateCap + Lost(w) + Lost(w + 1)
  <2>1. /\ Cardinality(PassedIn(w)) <= Lost(w) + RateCap /\ Cardinality(PassedIn(w)) \in Nat
        /\ Cardinality(PassedIn(w + 1)) <= Lost(w + 1) + RateCap /\ Cardinality(PassedIn(w + 1)) \in Nat
        /\ Lost(w) \in Nat /\ Lost(w + 1) \in Nat
    BY <1>1, <1>2, <1>3
  <2> QED BY <1>1, <1>5, <1>6, <2>1
<1>8. Cardinality(burst) <= Cardinality(PassedIn(w) \cup PassedIn(w + 1)) /\ Cardinality(burst) \in Nat
  BY <1>4, <1>5, FS_Subset, FS_CardinalityType
<1>9. Cardinality(PassedIn(w) \cup PassedIn(w + 1)) \in Nat
  BY <1>5, FS_CardinalityType
<1>10. Lost(w) \in Nat /\ Lost(w + 1) \in Nat
  BY <1>1, <1>3
<1>11. Cardinality(burst) <= 2 * RateCap + Lost(w) + Lost(w + 1)
  BY <1>1, <1>7, <1>8, <1>9, <1>10
<1> QED BY <1>11 DEF burst, w

(* However many requests there are, of however many replicas: the limit, the *)
(* refusals and what they say of when to come back.                          *)
THEOREM RateIsSound == RateSpec => []RateSound
<1>1. RateInv => RateSound
  <2> SUFFICES ASSUME RateInv PROVE RateSound
    OBVIOUS
  <2>1. RefusedForCause /\ RetryFindsRoom
    BY DEF RateInv, ToldTrue, RefusedForCause, RetryFindsRoom
  <2> QED BY <2>1, BurstByInv DEF RateSound
<1> QED BY <1>1, RateInvInit, RateInvStep, PTL DEF RateSpec

-----------------------------------------------------------------------------
(* What the types of the suite say besides.  ServiceCredentials: the row of  *)
(* the tenant has one holder, because an update waits for it.                *)
OneHolder == \A a, b \in Admin : Holds(a, {"tenant"}) /\ Holds(b, {"tenant"}) => a = b
CredBounds == OneHolder /\ repeated \in BOOLEAN /\ grantsKept \in BOOLEAN

LEMMA HolderStep == ChangesTyped /\ OneHolder /\ [CredNext]_credVars => OneHolder'
<1> SUFFICES ASSUME ChangesTyped, OneHolder, [CredNext]_credVars PROVE OneHolder'
  OBVIOUS
<1>0. DOMAIN change = Admin /\ NoChange.kind = "none"
  BY DEF ChangesTyped, NoChange
<1>a. ASSUME UNCHANGED change PROVE OneHolder'
  BY <1>a DEF OneHolder, Holds
<1>b. ASSUME NEW a \in Admin, NEW new, change' = [change EXCEPT ![a] = new],
             new.kind = "tenant" /\ new.pc = "locked" => ~TenantLocked
      PROVE  OneHolder'
  <2>1. /\ \A b \in Admin : b # a => (Holds(b, {"tenant"})' <=> Holds(b, {"tenant"}))
        /\ Holds(a, {"tenant"})' => ~TenantLocked
    BY <1>b, <1>0 DEF Holds
  <2> QED BY <2>1 DEF OneHolder, TenantLocked
<1>c. ASSUME NEW a \in Admin, change' = [change EXCEPT ![a] = NoChange] PROVE OneHolder'
  BY <1>b, <1>c, <1>0
<1>1. ASSUME NEW a \in Admin, NEW to \in AccountStatus, BeginStatus(a, to) PROVE OneHolder'
  <2> DEFINE new == [kind |-> "status", pc |-> "locked", to |-> to, seen |-> account.status]
  <2>1. change' = [change EXCEPT ![a] = new] /\ new.kind = "status"
    BY <1>1 DEF BeginStatus
  <2> HIDE DEF new
  <2> QED BY <1>b, <2>1
<1>2. ASSUME NEW a \in Admin, NEW to \in TenantStatus, ReadTenant(a, to) PROVE OneHolder'
  <2> DEFINE new == [kind |-> "tenant", pc |-> "read", to |-> to, seen |-> tenant]
  <2>1. change' = [change EXCEPT ![a] = new] /\ new.pc = "read"
    BY <1>2 DEF ReadTenant
  <2> HIDE DEF new
  <2> QED BY <1>b, <2>1
<1>3. ASSUME NEW a \in Admin, BeginRotate(a) PROVE OneHolder'
  <2> DEFINE new == [kind |-> "rotate", pc |-> "locked", to |-> issued + 1]
  <2>1. change' = [change EXCEPT ![a] = new] /\ new.kind = "rotate"
    BY <1>3 DEF BeginRotate
  <2> HIDE DEF new
  <2> QED BY <1>b, <2>1
<1>4. ASSUME NEW a \in Admin, CommitStatus(a) PROVE OneHolder'
  <2> DEFINE new == [change[a] EXCEPT !.pc = "committed"]
  <2>1. change[a] \in StatusChange
    BY <1>4, Kinds DEF CommitStatus, Holds
  <2>2. new.pc = "committed"
    BY <2>1 DEF StatusChange
  <2>3. change' = [change EXCEPT ![a] = new] \/ change' = [change EXCEPT ![a] = NoChange]
    BY <1>4, <1>0 DEF CommitStatus
  <2> HIDE DEF new
  <2> QED BY <1>b, <1>c, <2>2, <2>3
<1>5. ASSUME NEW a \in Admin, UpdateTenant(a) PROVE OneHolder'
  <2> DEFINE new == [change[a] EXCEPT !.pc = "locked"]
  <2>1. \/ change' = [change EXCEPT ![a] = new] /\ ~TenantLocked
        \/ change' = [change EXCEPT ![a] = NoChange]
    BY <1>5, <1>0 DEF UpdateTenant
  <2> HIDE DEF new
  <2> QED BY <1>b, <1>c, <2>1
<1>6. ASSUME NEW a \in Admin,
             PublishRevocation(a) \/ CommitRotate(a) \/ CommitTenant(a) \/ RollbackChange(a)
      PROVE  OneHolder'
  BY <1>6, <1>c DEF PublishRevocation, CommitRotate, CommitTenant, RollbackChange
<1>7. ASSUME NEW s \in Secret, UseToken(s) \/ \E x \in Exchange : LookUpAccount(x, s)
      PROVE  OneHolder'
  BY <1>7, <1>a DEF UseToken, LookUpAccount, adminVars
<1>8. CASE CredTick \/ (\E x \in Exchange : IssueToken(x)) \/ UNCHANGED credVars
  BY <1>8, <1>a DEF CredTick, IssueToken, credVars, adminVars
<1> QED BY <1>1, <1>2, <1>3, <1>4, <1>5, <1>6, <1>7, <1>8 DEF CredNext

LEMMA CredBoundsStep == ChangesTyped /\ CredBounds /\ [CredNext]_credVars => CredBounds'
<1> SUFFICES ASSUME ChangesTyped, CredBounds, [CredNext]_credVars PROVE CredBounds'
  OBVIOUS
<1>1. OneHolder'
  BY HolderStep DEF CredBounds
<1>2. repeated' \in BOOLEAN
  <2>1. ASSUME NEW a \in Admin, CommitStatus(a) PROVE repeated' \in BOOLEAN
    BY <2>1 DEF CommitStatus
  <2>2. CASE \A a \in Admin : ~CommitStatus(a)
    <3>1. repeated' = repeated
      BY <2>2 DEF CredNext, BeginStatus, ReadTenant, PublishRevocation, BeginRotate, CommitRotate,
         UpdateTenant, CommitTenant, RollbackChange, UseToken, LookUpAccount, IssueToken, CredTick,
         credVars, adminVars
    <3> QED BY <3>1 DEF CredBounds
  <2> QED BY <2>1, <2>2
<1>3. grantsKept' \in {grantsKept, TRUE, FALSE}
  BY DEF CredNext, BeginStatus, ReadTenant, PublishRevocation, BeginRotate, CommitRotate, CommitStatus,
         UpdateTenant, CommitTenant, RollbackChange, UseToken, LookUpAccount, IssueToken, CredTick,
         credVars, adminVars, Elsewhere, Kept
<1>4. grantsKept' \in BOOLEAN
  BY <1>3 DEF CredBounds
<1> QED BY <1>1, <1>2, <1>4 DEF CredBounds

LEMMA CredTypes == CredIInv /\ CredBounds => CredTypeOK
<1> SUFFICES ASSUME CredIInv, CredBounds PROVE CredTypeOK
  OBVIOUS
<1> DEFINE Said == [kind : {"status", "tenant"}, pc : {"read", "locked", "committed"},
                    to : AccountStatus \cup TenantStatus, seen : AccountStatus \cup TenantStatus]
<1>1. StatusChange \subseteq Said /\ TenantChange \subseteq Said
  BY DEF StatusChange, TenantChange
<1>2. change \in [Admin -> {NoChange} \cup Said \cup [kind : {"rotate"}, pc : {"locked"}, to : Secret]]
  <2> HIDE DEF Said
  <2> QED BY <1>1 DEF CredIInv, ChangesTyped, Rotation
<1>3. exchange \in [Exchange -> {NoExchangeYet} \cup [pc : {"signing"}, secret : Secret, stay : 0 .. MaxExchange]]
  BY DEF CredIInv, TokensTyped, Signing
<1> QED BY <1>2, <1>3 DEF CredIInv, ChangesTyped, TokensTyped, CredBounds, OneHolder, CredTypeOK

-----------------------------------------------------------------------------
(* RateLimit: how far its numbers go.  Whoever went on or has been waiting   *)
(* since was one of those who came.                                          *)
IsGoing(x, w) == x.pc = "counting" /\ x.window = w
Going(w) == {v \in Visit : IsGoing(visit[v], w)}
Came(w) == Cardinality(PassedIn(w)) + Cardinality(Going(w)) <= arrived[w]

RateBounds ==
    /\ arrivals \in 0 .. MaxArrivals
    /\ \A w \in Windows : arrived[w] <= arrivals /\ counter[w].left <= 2 * Span /\ Came(w)
    /\ \A p \in passed : p[2] \in 1 .. MaxArrivals
    /\ degraded \in BOOLEAN
    /\ told \in [at : Halves, window : Windows, after : 0 .. WindowSeconds]

LEMMA GoingFinite == \A w : IsFiniteSet(Going(w)) /\ Cardinality(Going(w)) \in Nat
BY VisitAssumption, FS_Subset, FS_CardinalityType DEF Going

LEMMA PassedFinite ==
    ASSUME RateTyped
    PROVE  /\ \A w : IsFiniteSet(PassedIn(w)) /\ Cardinality(PassedIn(w)) \in Nat
           /\ \A h : IsFiniteSet(PassedOf(h)) /\ Cardinality(PassedOf(h)) \in Nat
BY FS_Subset, FS_CardinalityType DEF RateTyped, PassedIn, PassedOf

LEMMA GoingStep ==
    ASSUME visit \in [Visit -> VisitType], NEW v \in Visit, NEW x,
           visit' = [visit EXCEPT ![v] = x], NEW w
    PROVE  /\ Cardinality(Going(w)') \in Nat
           /\ Cardinality(Going(w)') + One(IsGoing(visit[v], w)) = Cardinality(Going(w)) + One(IsGoing(x, w))
<1>1. visit'[v] = x /\ \A u \in Visit : u # v => visit'[u] = visit[u]
  OBVIOUS
<1>2. \A u : u # v => (u \in Going(w) <=> u \in Going(w)')
  BY <1>1 DEF Going
<1>3. (v \in Going(w)) = IsGoing(visit[v], w) /\ (v \in Going(w)') = IsGoing(x, w)
  BY <1>1 DEF Going, IsGoing
<1> QED BY <1>2, <1>3, GoingFinite, CountStep

(* One more of a window goes on, with the next number of its half.           *)
LEMMA OneMorePassed ==
    ASSUME RateTyped, NEW s \in Halves, passed' = PassedWith(s)
    PROVE  /\ \A w : Cardinality(PassedIn(w)') <= Cardinality(PassedIn(w)) + One(w = WindowOf(s))
           /\ \A p \in passed' : p \in passed \/ p[2] \in 1 .. Cardinality(PassedIn(WindowOf(s))) + 1
<1> DEFINE c == Cardinality(PassedOf(s)) + 1
           e == <<s, c>>
<1>1. passed' = passed \cup {e} /\ e[1] = s /\ e[2] = c
  BY DEF PassedWith
<1> HIDE DEF e
<1>2. ASSUME NEW w PROVE Cardinality(PassedIn(w)') <= Cardinality(PassedIn(w)) + One(w = WindowOf(s))
  <2>1. IsFiniteSet(PassedIn(w)) /\ Cardinality(PassedIn(w)) \in Nat
    BY PassedFinite
  <2>2. CASE w = WindowOf(s)
    <3>1. PassedIn(w)' = PassedIn(w) \cup {e}
      BY <1>1, <2>2 DEF PassedIn
    <3> QED BY <2>1, <2>2, <3>1, FS_AddElement DEF One
  <2>3. CASE w # WindowOf(s)
    <3>1. PassedIn(w)' = PassedIn(w)
      BY <1>1, <2>3 DEF PassedIn
    <3> QED BY <2>1, <2>3, <3>1 DEF One
  <2> QED BY <2>2, <2>3
<1>3. c \in 1 .. Cardinality(PassedIn(WindowOf(s))) + 1
  <2>1. PassedOf(s) \subseteq PassedIn(WindowOf(s))
    BY DEF PassedOf, PassedIn
  <2>2. Cardinality(PassedOf(s)) <= Cardinality(PassedIn(WindowOf(s)))
    BY <2>1, PassedFinite, FS_Subset
  <2>3. Cardinality(PassedOf(s)) \in Nat /\ Cardinality(PassedIn(WindowOf(s))) \in Nat
    BY PassedFinite
  <2> QED BY <2>2, <2>3
<1> QED BY <1>1, <1>2, <1>3

(* The bounds stay when one request moves and no more go on than come.       *)
LEMMA BoundsStay ==
    ASSUME RateTyped, RateTyped', RateBounds, NEW v \in Visit, NEW x \in VisitType,
           visit' = [visit EXCEPT ![v] = x],
           arrivals' \in 0 .. MaxArrivals,
           \A w \in Windows : arrived'[w] <= arrivals' /\ counter'[w].left <= 2 * Span,
           \A w \in Windows : Cardinality(PassedIn(w)') + One(IsGoing(x, w)) + arrived[w]
                <= Cardinality(PassedIn(w)) + One(IsGoing(visit[v], w)) + arrived'[w],
           \A p \in passed' : p[2] \in 1 .. MaxArrivals,
           degraded' \in BOOLEAN,
           told' \in [at : Halves, window : Windows, after : 0 .. WindowSeconds]
    PROVE  RateBounds'
<1>1. ASSUME NEW w \in Windows PROVE Came(w)'
  <2> DEFINE n == Cardinality(PassedIn(w))
             m == Cardinality(PassedIn(w)')
             c == Cardinality(Going(w))
             d == Cardinality(Going(w)')
             p == One(IsGoing(visit[v], w))
             q == One(IsGoing(x, w))
             a == arrived[w]
             b == arrived'[w]
  <2>1. visit \in [Visit -> VisitType] /\ a \in Nat /\ b \in Nat
    BY DEF RateTyped
  <2>2. n \in Nat /\ c \in Nat /\ n + c <= a
    BY PassedFinite, GoingFinite DEF RateBounds, Came
  <2>3. d \in Nat /\ d + p = c + q
    BY <2>1, GoingStep
  <2>4. p \in Nat /\ q \in Nat
    BY DEF One
  <2>5. m \in Nat
    <3>1. IsFiniteSet(PassedIn(w)')
      BY FS_Subset DEF RateTyped, PassedIn
    <3> QED BY <3>1, FS_CardinalityType
  <2>6. m + q + a <= n + p + b
    OBVIOUS
  <2> HIDE DEF n, m, c, d, p, q, a, b
  <2>7. m + d <= b
    BY <2>1, <2>2, <2>3, <2>4, <2>5, <2>6
  <2> QED BY <2>7 DEF Came, m, d, b
<1> QED BY <1>1 DEF RateBounds, Span

LEMMA NothingTold == NoRefusal \in [at : Halves, window : Windows, after : 0 .. WindowSeconds]
<1>1. 0 \in Halves /\ 0 \in 0 .. WindowSeconds
  BY RateAssumption, HalvesInWindows DEF Halves
<1>2. 0 \in Windows
  <2>1. WindowOf(MaxHalves) \in Nat
    BY HalvesInWindows, WindowBounds
  <2> QED BY <2>1 DEF Windows
<1> QED BY <1>1, <1>2 DEF NoRefusal

LEMMA EnterBounds ==
    ASSUME RateInv, RateInv', RateBounds, NEW v \in Visit, Enter(v)
    PROVE  RateBounds'
<1> DEFINE here == WindowOf(clock)
           x == [pc |-> "counting", window |-> here, since |-> clock, reply |-> 0]
<1>1. RateTyped /\ RateTyped' /\ clock \in Nat /\ here \in Windows
  BY HalvesInWindows DEF RateInv, RateTyped
<1>2. /\ visit[v] = NoVisit /\ arrivals < MaxArrivals /\ arrivals' = arrivals + 1
      /\ visit' = [visit EXCEPT ![v] = x]
      /\ arrived' = [arrived EXCEPT ![here] = @ + 1]
      /\ told' = NoRefusal
      /\ UNCHANGED <<clock, counter, failOpen, passed, degraded>>
  BY DEF Enter, KeyWindow
<1>3. x \in VisitType /\ x.pc = "counting" /\ x.window = here
  BY <1>1 DEF VisitType
<1> HIDE DEF x
<1>4. \A w \in Windows : arrived[w] \in Nat /\ arrived'[w] = arrived[w] + One(w = here)
  BY <1>1, <1>2 DEF RateTyped, One
<1> HIDE DEF here
<1>5. MaxArrivals \in Nat /\ arrivals \in Nat
  BY RateAssumption DEF RateBounds
<1>6. ASSUME NEW w \in Windows
      PROVE  /\ arrived'[w] <= arrivals' /\ counter'[w].left <= 2 * Span
             /\ Cardinality(PassedIn(w)') + One(IsGoing(x, w)) + arrived[w]
                  <= Cardinality(PassedIn(w)) + One(IsGoing(visit[v], w)) + arrived'[w]
  <2>1. arrived[w] <= arrivals /\ counter[w].left <= 2 * Span
    BY DEF RateBounds
  <2>2. One(IsGoing(x, w)) = One(w = here) /\ One(IsGoing(visit[v], w)) = 0 /\ One(w = here) \in 0 .. 1
    BY <1>2, <1>3, NoVisitIsNobody DEF IsGoing, One
  <2>3. PassedIn(w)' = PassedIn(w) /\ Cardinality(PassedIn(w)) \in Nat
    BY <1>1, <1>2, PassedFinite DEF PassedIn, WindowOf
  <2>4. arrived'[w] <= arrivals'
    BY <1>2, <1>4, <1>5, <2>1, <2>2
  <2> QED BY <1>2, <1>4, <2>1, <2>2, <2>3, <2>4
<1>7. arrivals' \in 0 .. MaxArrivals
  BY <1>2, <1>5
<1>8. /\ degraded' \in BOOLEAN /\ \A p \in passed' : p[2] \in 1 .. MaxArrivals
  BY <1>2 DEF RateBounds
<1> QED BY <1>1, <1>2, <1>3, <1>6, <1>7, <1>8, NothingTold, BoundsStay

LEMMA IncrementBounds ==
    ASSUME RateInv, RateInv', RateBounds, NEW v \in Visit, Increment(v)
    PROVE  RateBounds'
<1> DEFINE at == visit[v].window
           x == [visit[v] EXCEPT !.reply = counter'[at].n]
<1>1. RateTyped /\ RateTyped' /\ visit[v].pc = "counting"
  BY DEF RateInv, Increment
<1>2. /\ counter' = [counter EXCEPT ![at] = Counted(at)] /\ told' = NoRefusal
      /\ UNCHANGED <<clock, failOpen, arrived, arrivals, passed, degraded>>
  BY DEF Increment
<1>3. visit' = [visit EXCEPT ![v] = x] /\ x = visit'[v]
  BY <1>1 DEF Increment, RateTyped
<1>4. x \in VisitType
  BY <1>1, <1>3 DEF RateTyped
<1>5. x.pc = "counting" /\ x.window = at
  <2>1. visit[v] \in [pc : {"counting"}, window : Windows, since : Nat, reply : Nat]
    BY <1>1, Waits DEF VisitType, NoVisit
  <2> QED BY <2>1
<1>6. Counted(at).left = 2 * Span
  BY RateAssumption DEF Counted, Span
<1> HIDE DEF x, at
<1>7. ASSUME NEW w \in Windows
      PROVE  /\ arrived'[w] <= arrivals' /\ counter'[w].left <= 2 * Span
             /\ Cardinality(PassedIn(w)') + One(IsGoing(x, w)) + arrived[w]
                  <= Cardinality(PassedIn(w)) + One(IsGoing(visit[v], w)) + arrived'[w]
  <2>1. arrived[w] <= arrivals /\ counter[w].left <= 2 * Span /\ arrived[w] \in Nat
    BY <1>1 DEF RateBounds, RateTyped
  <2>2. counter'[w] \in {counter[w], Counted(at)}
    BY <1>1, <1>2 DEF RateTyped
  <2>3. counter'[w].left <= 2 * Span
    BY <1>6, <2>1, <2>2, SpanType
  <2>4. One(IsGoing(x, w)) = One(IsGoing(visit[v], w)) /\ One(IsGoing(x, w)) \in Nat
    BY <1>1, <1>5 DEF IsGoing, One, at
  <2>5. PassedIn(w)' = PassedIn(w) /\ Cardinality(PassedIn(w)) \in Nat
    BY <1>1, <1>2, PassedFinite DEF PassedIn, WindowOf
  <2> QED BY <1>2, <2>1, <2>3, <2>4, <2>5
<1>8. /\ arrivals' \in 0 .. MaxArrivals /\ degraded' \in BOOLEAN
      /\ \A p \in passed' : p[2] \in 1 .. MaxArrivals
  BY <1>2 DEF RateBounds
<1> QED BY <1>1, <1>2, <1>3, <1>4, <1>7, <1>8, NothingTold, BoundsStay

(* Who goes on, counted or not, was one of those who came.                   *)
LEMMA GoesOnBounds ==
    ASSUME RateInv, RateInv', RateBounds, NEW v \in Visit, visit[v].pc = "counting",
           NEW x \in VisitType, x.pc # "counting", visit' = [visit EXCEPT ![v] = x],
           passed' \in {PassedWith(visit[v].since), passed},
           degraded' \in BOOLEAN, told' \in [at : Halves, window : Windows, after : 0 .. WindowSeconds],
           UNCHANGED <<clock, counter, arrived, arrivals>>
    PROVE  RateBounds'
<1> DEFINE at == visit[v].window
           s == visit[v].since
<1>1. RateTyped /\ RateTyped' /\ InItsWindow(v) /\ clock \in Halves
  BY DEF RateInv, RateTyped
<1>2. at \in Windows /\ s \in Halves /\ at = WindowOf(s)
  <2>1. at \in Windows /\ s \in Nat /\ s <= clock /\ at = WindowOf(s)
    BY <1>1, Waits DEF InItsWindow
  <2> HIDE DEF at, s
  <2> QED BY <1>1, <2>1, HalvesInWindows DEF Halves
<1>3. MaxArrivals \in Nat /\ arrivals \in Nat /\ arrivals <= MaxArrivals
  BY RateAssumption DEF RateBounds
<1>4. Cardinality(PassedIn(at)) \in Nat /\ Cardinality(PassedIn(at)) + 1 <= MaxArrivals
  <2>1. v \in Going(at)
    BY DEF Going, IsGoing
  <2>2. Cardinality(Going(at)) \in Nat /\ Cardinality(Going(at)) # 0
    BY <2>1, GoingFinite, FS_EmptySet
  <2>3. Cardinality(PassedIn(at)) \in Nat /\ arrived[at] \in Nat
    BY <1>1, <1>2, PassedFinite DEF RateTyped
  <2>4. Cardinality(PassedIn(at)) + Cardinality(Going(at)) <= arrived[at] /\ arrived[at] <= arrivals
    BY <1>2 DEF RateBounds, Came
  <2> HIDE DEF at
  <2> QED BY <1>3, <2>2, <2>3, <2>4
<1>5. /\ \A w \in Windows : /\ Cardinality(PassedIn(w)') \in Nat
                           /\ Cardinality(PassedIn(w)') <= Cardinality(PassedIn(w)) + One(w = at)
      /\ \A p \in passed' : p[2] \in 1 .. MaxArrivals
  <2>0. \A w : IsFiniteSet(PassedIn(w)') /\ Cardinality(PassedIn(w)') \in Nat
    BY <1>1, FS_Subset, FS_CardinalityType DEF RateTyped, PassedIn
  <2>1. CASE passed' = PassedWith(s)
    <3>1. /\ \A w : Cardinality(PassedIn(w)') <= Cardinality(PassedIn(w)) + One(w = at)
          /\ \A p \in passed' : p \in passed \/ p[2] \in 1 .. Cardinality(PassedIn(at)) + 1
      BY <1>1, <1>2, <2>1, OneMorePassed
    <3>2. \A n \in 1 .. Cardinality(PassedIn(at)) + 1 : n \in 1 .. MaxArrivals
      BY <1>3, <1>4
    <3> QED BY <2>0, <3>1, <3>2 DEF RateBounds
  <2>2. CASE passed' = passed
    <3>1. \A w : PassedIn(w)' = PassedIn(w)
      BY <2>2 DEF PassedIn, WindowOf
    <3>2. \A w : Cardinality(PassedIn(w)) \in Nat /\ One(w = at) \in Nat
      BY <1>1, PassedFinite DEF One
    <3> QED BY <2>2, <3>1, <3>2 DEF RateBounds
  <2> QED BY <2>1, <2>2
<1>6. ASSUME NEW w \in Windows
      PROVE  /\ arrived'[w] <= arrivals' /\ counter'[w].left <= 2 * Span
             /\ Cardinality(PassedIn(w)') + One(IsGoing(x, w)) + arrived[w]
                  <= Cardinality(PassedIn(w)) + One(IsGoing(visit[v], w)) + arrived'[w]
  <2>1. arrived[w] <= arrivals /\ counter[w].left <= 2 * Span /\ arrived[w] \in Nat
    BY <1>1 DEF RateBounds, RateTyped
  <2>2. One(IsGoing(x, w)) = 0 /\ One(IsGoing(visit[v], w)) = One(w = at) /\ One(w = at) \in Nat
    BY DEF IsGoing, One
  <2>3. Cardinality(PassedIn(w)) \in Nat
    BY <1>1, PassedFinite
  <2> HIDE DEF at
  <2> QED BY <1>5, <2>1, <2>2, <2>3
<1>7. arrivals' \in 0 .. MaxArrivals
  BY DEF RateBounds
<1> QED BY <1>1, <1>5, <1>6, <1>7, BoundsStay

LEMMA RefuseBounds ==
    ASSUME RateInv, RateInv', RateBounds, NEW v \in Visit, Refuse(v)
    PROVE  RateBounds'
<1> DEFINE at == visit[v].window
<1>1. RateTyped /\ visit[v].pc = "counting" /\ clock \in Nat
  BY HalvesInWindows DEF RateInv, RateTyped, Refuse
<1>2. at \in Windows /\ at \in Nat /\ Opens(at) <= clock
  BY <1>1, WindowIsOpen
<1>3. told' = [at |-> clock, window |-> at, after |-> RetryAfter(at)]
  BY DEF Refuse
<1>4. RetryAfter(at) \in 0 .. WindowSeconds
  BY <1>1, <1>2, RetryInTime
<1>5. told' \in [at : Halves, window : Windows, after : 0 .. WindowSeconds]
  BY <1>1, <1>2, <1>3, <1>4 DEF RateTyped
<1> QED BY <1>1, <1>5, NoVisitIsNobody, GoesOnBounds DEF Refuse, RateBounds

LEMMA UnavailableBounds ==
    ASSUME RateInv, RateInv', RateBounds, NEW v \in Visit, CounterUnavailable(v)
    PROVE  RateBounds'
<1> DEFINE x == IF visit[v].reply = 0 THEN [pc |-> "abandoned", window |-> visit[v].window] ELSE NoVisit
<1>1. RateTyped /\ RateTyped' /\ visit[v].pc = "counting"
  BY DEF RateInv, CounterUnavailable
<1>2. visit' = [visit EXCEPT ![v] = x] /\ visit'[v] = x
  BY <1>1 DEF CounterUnavailable, RateTyped
<1>3. x \in VisitType
  BY <1>1, <1>2 DEF RateTyped
<1>4. x.pc # "counting"
  BY NoVisitIsNobody
<1>5. degraded' \in BOOLEAN
  BY DEF CounterUnavailable, RateBounds
<1>6. passed' \in {PassedWith(visit[v].since), passed} /\ told' = NoRefusal
      /\ UNCHANGED <<clock, counter, arrived, arrivals>>
  BY DEF CounterUnavailable
<1> HIDE DEF x
<1> QED BY <1>1, <1>2, <1>3, <1>4, <1>5, <1>6, NothingTold, GoesOnBounds

LEMMA LateBounds ==
    ASSUME RateInv, RateInv', RateBounds, NEW v \in Visit, IncrementLate(v)
    PROVE  RateBounds'
<1> DEFINE at == visit[v].window
<1>1. RateTyped /\ RateTyped' /\ visit[v].pc = "abandoned"
  BY DEF RateInv, IncrementLate
<1>2. /\ counter' = [counter EXCEPT ![at] = Counted(at)] \/ counter' = counter
      /\ told' = NoRefusal /\ visit' = [visit EXCEPT ![v] = NoVisit]
      /\ UNCHANGED <<clock, failOpen, arrived, arrivals, passed, degraded>>
  BY DEF IncrementLate
<1>3. Counted(at).left = 2 * Span
  BY RateAssumption DEF Counted, Span
<1> HIDE DEF at
<1>4. ASSUME NEW w \in Windows
      PROVE  /\ arrived'[w] <= arrivals' /\ counter'[w].left <= 2 * Span
             /\ Cardinality(PassedIn(w)') + One(IsGoing(NoVisit, w)) + arrived[w]
                  <= Cardinality(PassedIn(w)) + One(IsGoing(visit[v], w)) + arrived'[w]
  <2>1. arrived[w] <= arrivals /\ counter[w].left <= 2 * Span /\ arrived[w] \in Nat
    BY <1>1 DEF RateBounds, RateTyped
  <2>2. counter'[w] \in {counter[w], Counted(at)}
    BY <1>1, <1>2 DEF RateTyped
  <2>3. counter'[w].left <= 2 * Span
    BY <1>3, <2>1, <2>2, SpanType
  <2>4. One(IsGoing(NoVisit, w)) = 0 /\ One(IsGoing(visit[v], w)) = 0
    BY <1>1, NoVisitIsNobody DEF IsGoing, One
  <2>5. PassedIn(w)' = PassedIn(w) /\ Cardinality(PassedIn(w)) \in Nat
    BY <1>1, <1>2, PassedFinite DEF PassedIn, WindowOf
  <2> QED BY <1>2, <2>1, <2>3, <2>4, <2>5
<1>5. /\ arrivals' \in 0 .. MaxArrivals /\ degraded' \in BOOLEAN
      /\ \A p \in passed' : p[2] \in 1 .. MaxArrivals
  BY <1>2 DEF RateBounds
<1> QED BY <1>1, <1>2, <1>4, <1>5, NothingTold, NoVisitIsNobody, BoundsStay

LEMMA TickBounds ==
    ASSUME RateInv, RateBounds, RateTick
    PROVE  RateBounds'
<1>1. /\ counter' = [w \in Windows |->
                      IF counter[w].left <= 1 THEN NoCount ELSE [counter[w] EXCEPT !.left = @ - 1]]
      /\ told' = NoRefusal
      /\ UNCHANGED <<visit, failOpen, arrived, arrivals, passed, degraded>>
  BY DEF RateTick
<1>2. ASSUME NEW w \in Windows PROVE counter'[w].left <= 2 * Span
  <2>1. counter[w] \in [n : Nat, left : Nat] /\ counter[w].left <= 2 * Span
    BY DEF RateInv, RateTyped, RateBounds
  <2>2. CASE counter[w].left <= 1
    <3>1. counter'[w].left = 0
      BY <1>1, <2>2 DEF NoCount
    <3> QED BY <3>1, SpanType
  <2>3. CASE ~(counter[w].left <= 1)
    <3>1. counter'[w] = [counter[w] EXCEPT !.left = counter[w].left - 1]
      BY <1>1, <2>3
    <3>2. counter'[w].left = counter[w].left - 1
      BY <2>1, <3>1
    <3> QED BY <2>1, <3>2, SpanType
  <2> QED BY <2>2, <2>3
<1>3. \A w : PassedIn(w)' = PassedIn(w) /\ Going(w)' = Going(w)
  BY <1>1 DEF PassedIn, Going, WindowOf
<1>4. \A w \in Windows : Came(w)'
  BY <1>1, <1>3 DEF RateBounds, Came
<1>5. \A w \in Windows : arrived'[w] <= arrivals'
  BY <1>1 DEF RateBounds
<1> QED BY <1>1, <1>2, <1>4, <1>5, NothingTold DEF RateBounds, Span

LEMMA ForgetBounds ==
    ASSUME RateInv, RateBounds, NEW at \in Windows, NEW n \in 0 .. MaxArrivals, Forget(at, n)
    PROVE  RateBounds'
<1>1. /\ counter' = [counter EXCEPT ![at] = IF n = 0 THEN NoCount ELSE [@ EXCEPT !.n = n]]
      /\ told' = NoRefusal
      /\ UNCHANGED <<clock, visit, failOpen, arrived, arrivals, passed, degraded>>
  BY DEF Forget
<1>2. ASSUME NEW w \in Windows PROVE counter'[w].left <= 2 * Span
  <2>1. counter[w] \in [n : Nat, left : Nat] /\ counter[w].left <= 2 * Span
    BY DEF RateInv, RateTyped, RateBounds
  <2>2. counter'[w].left \in {0, counter[w].left}
    BY <1>1, <2>1 DEF RateInv, RateTyped, NoCount
  <2> QED BY <2>1, <2>2, SpanType
<1>3. \A w : PassedIn(w)' = PassedIn(w) /\ Going(w)' = Going(w)
  BY <1>1 DEF PassedIn, Going, WindowOf
<1>4. \A w \in Windows : Came(w)' /\ arrived'[w] <= arrivals'
  BY <1>1, <1>3 DEF RateBounds, Came
<1> QED BY <1>1, <1>2, <1>4, NothingTold DEF RateBounds, Span

LEMMA RateBoundsInit == RateInit => RateBounds
<1> SUFFICES ASSUME RateInit PROVE RateBounds
  OBVIOUS
<1>1. \A w : Going(w) = {} /\ PassedIn(w) = {}
  BY NoVisitIsNobody DEF RateInit, Going, IsGoing, PassedIn
<1>2. Cardinality({}) = 0
  BY FS_EmptySet
<1>3. ASSUME NEW w \in Windows
      PROVE  arrived[w] <= arrivals /\ counter[w].left <= 2 * Span /\ Came(w)
  <2>1. arrived[w] = 0 /\ arrivals = 0 /\ counter[w].left = 0
    BY DEF RateInit, NoCount
  <2>2. Cardinality(PassedIn(w)) = 0 /\ Cardinality(Going(w)) = 0
    BY <1>1, <1>2
  <2>3. Came(w)
    BY <2>1, <2>2 DEF Came
  <2>4. 0 <= 2 * Span
    BY SpanType
  <2> QED BY <2>1, <2>3, <2>4
<1>4. arrivals \in 0 .. MaxArrivals
  BY RateAssumption DEF RateInit
<1>5. degraded \in BOOLEAN /\ passed = {} /\ told = NoRefusal
  BY DEF RateInit
<1> QED BY <1>3, <1>4, <1>5, NothingTold DEF RateBounds

LEMMA RateBoundsStep == RateInv /\ RateBounds /\ [RateNext]_rateVars => RateBounds'
<1> SUFFICES ASSUME RateInv, RateBounds, [RateNext]_rateVars PROVE RateBounds'
  OBVIOUS
<1>1. RateInv'
  BY RateInvStep
<1>2. ASSUME NEW v \in Visit, LetThrough(v) PROVE RateBounds'
  BY <1>1, <1>2, NoVisitIsNobody, NothingTold, GoesOnBounds DEF LetThrough, Admit, RateBounds
<1>3. CASE RateNext
  BY <1>1, <1>2, <1>3, EnterBounds, IncrementBounds, RefuseBounds, UnavailableBounds, LateBounds,
     ForgetBounds, TickBounds DEF RateNext
<1>4. CASE UNCHANGED rateVars
  BY <1>4 DEF rateVars, RateBounds, Came, PassedIn, Going, Span, WindowOf
<1> QED BY <1>3, <1>4

LEMMA RateTypes == RateInv /\ RateBounds => RateTypeOK
<1> SUFFICES ASSUME RateInv, RateBounds PROVE RateTypeOK
  OBVIOUS
<1>1. RateTyped /\ MaxArrivals \in Nat /\ arrivals \in Nat /\ arrivals <= MaxArrivals
  BY RateAssumption DEF RateInv, RateBounds
<1>2. \A w \in Windows : arrived[w] \in Nat /\ arrived[w] <= arrivals
  BY <1>1 DEF RateTyped, RateBounds
<1>3. \A w \in Windows : arrived[w] \in 0 .. MaxArrivals
  BY <1>1, <1>2
<1>4. ASSUME NEW w \in Windows
      PROVE  /\ counter[w] \in [n : 0 .. MaxArrivals, left : 0 .. 4 * WindowSeconds]
             /\ forgotten[w] \in 0 .. MaxArrivals
  <2>1. counter[w] \in [n : Nat, left : Nat] /\ counter[w].left <= 2 * Span
    BY <1>1 DEF RateTyped, RateBounds
  <2>2. /\ forgotten[w] + counter[w].n + Cardinality(Pending(w)) <= arrived[w]
        /\ Cardinality(Pending(w)) \in Nat /\ forgotten[w] \in Nat
    BY <1>1, WaitingFinite DEF RateInv, RateTyped, Accounted
  <2>3. counter[w].n <= MaxArrivals /\ forgotten[w] <= MaxArrivals
    BY <1>1, <1>2, <2>1, <2>2
  <2>4. counter[w].left <= 4 * WindowSeconds
    BY <2>1, RateAssumption DEF Span
  <2>5. /\ counter[w].n \in 0 .. MaxArrivals /\ counter[w].left \in 0 .. 4 * WindowSeconds
        /\ forgotten[w] \in 0 .. MaxArrivals
    BY <1>1, <2>1, <2>2, <2>3, <2>4, RateAssumption
  <2> QED BY <2>1, <2>5
<1>5. ASSUME NEW v \in Visit
      PROVE  visit[v] \in {NoVisit}
                         \cup [pc : {"counting"}, window : Windows, since : Halves,
                               reply : 0 .. MaxArrivals]
                         \cup [pc : {"abandoned"}, window : Windows]
  <2>1. visit[v] \in VisitType /\ InItsWindow(v) /\ clock \in Halves
    BY <1>1 DEF RateTyped, RateInv
  <2>2. CASE visit[v] \in [pc : {"counting"}, window : Windows, since : Nat, reply : Nat]
    <3>1. /\ visit[v].since \in Nat /\ visit[v].since <= clock
          /\ visit[v].reply \in Nat /\ visit[v].reply <= arrived[visit[v].window]
          /\ visit[v].window \in Windows
      BY <2>1, <2>2 DEF InItsWindow
    <3>2. visit[v].since \in Halves
      BY <2>1, <3>1, HalvesInWindows DEF Halves
    <3>3. visit[v].reply \in 0 .. MaxArrivals
      BY <1>1, <1>2, <3>1
    <3> QED BY <2>2, <3>2, <3>3
  <2>3. CASE visit[v] \in {NoVisit} \cup [pc : {"abandoned"}, window : Windows]
    BY <2>3
  <2> QED BY <2>1, <2>2, <2>3 DEF VisitType
<1>6. passed \subseteq Halves \X (1 .. MaxArrivals)
  <2>1. ASSUME NEW p \in passed PROVE p \in Halves \X (1 .. MaxArrivals)
    BY <1>1, <2>1 DEF RateTyped, RateBounds
  <2> QED BY <2>1
<1>7. counter \in [Windows -> [n : 0 .. MaxArrivals, left : 0 .. 4 * WindowSeconds]]
  BY <1>1, <1>4 DEF RateTyped
<1>8. arrived \in [Windows -> 0 .. MaxArrivals] /\ forgotten \in [Windows -> 0 .. MaxArrivals]
  BY <1>1, <1>3, <1>4 DEF RateTyped
<1>9. visit \in [Visit -> {NoVisit}
                         \cup [pc : {"counting"}, window : Windows, since : Halves,
                               reply : 0 .. MaxArrivals]
                         \cup [pc : {"abandoned"}, window : Windows]]
  BY <1>1, <1>5 DEF RateTyped
<1> QED BY <1>1, <1>6, <1>7, <1>8, <1>9 DEF RateTyped, RateBounds, RateTypeOK

-----------------------------------------------------------------------------
(* Sessions, keys, secrets, requests and counts are of their types in every  *)
(* suite of the five side by side: the row of a tenant has one holder, ages  *)
(* and counts keep their bounds, and no answer is of an account or a secret  *)
(* there is not.                                                             *)
THEOREM CredentialsTyped == CredentialsSpec => []CredentialsTypeOK
<1> DEFINE Inv == /\ TypeOK /\ RotIInv /\ CredIInv /\ CredBounds /\ ScreenTypeOK
                  /\ RateInv /\ RateBounds
<1>1. CredentialsInit => Inv
  <2>1. ASSUME CredInit PROVE CredBounds
    <3>1. \A a \in Admin : change[a].kind = "none"
      BY <2>1 DEF CredInit, NoChange
    <3>2. OneHolder
      BY <3>1 DEF OneHolder, Holds
    <3>3. repeated = FALSE /\ grantsKept = FALSE
      BY <2>1 DEF CredInit
    <3> QED BY <3>2, <3>3 DEF CredBounds
  <2> QED BY <2>1, TypeStart, RotInitially, CredStart, ScreenStart, RateInvInit, RateBoundsInit
          DEF CredentialsInit, SecretsIInv
<1>2. Inv /\ [CredentialsNext]_<<focus, vars, rotVars, credVars, screenVars, rateVars>> => Inv'
  <2> SUFFICES ASSUME Inv, [CredentialsNext]_<<focus, vars, rotVars, credVars, screenVars, rateVars>>
               PROVE  Inv'
    OBVIOUS
  <2>1. /\ [Next]_vars /\ [RotNext]_rotVars /\ [CredNext]_credVars
        /\ [ScreenNext]_screenVars /\ [RateNext]_rateVars
    BY DEF CredentialsNext
  <2>2. CredBounds'
    BY <2>1, CredBoundsStep DEF CredIInv
  <2> QED BY <2>1, <2>2, TypeStep, RotStep, CredStep, ScreenTypeStep, RateInvStep, RateBoundsStep
<1>3. Inv => CredentialsTypeOK
  BY CredTypes, RateTypes DEF RotIInv, CredentialsTypeOK
<1> QED BY <1>1, <1>2, <1>3, PTL DEF CredentialsSpec
=============================================================================
