---------------------------- MODULE SessionsProofs ----------------------------
(***************************************************************************)
(* A user's sessions, in the browser's tabs, on its screen and in the      *)
(* account's row.                                                          *)
(*                                                                         *)
(* TokenSession: that honest tabs survive, agree and stay signed out, for  *)
(* any number of tabs.  InTime is what the grace window is there for: two  *)
(* exchanges, one begun as the other ends, fit into it, and an exchange    *)
(* ends before the token it brings is due.  Honest holds whatever is lost, *)
(* as long as no tab was hasty: a request whose token is no longer the row's began before the rotation  *)
(* that replaced it, and what it brings back, or what the slot holds, is   *)
(* the row's current or previous token inside the window.  Undisturbed     *)
(* adds, while nothing is lost, that the cache decides: the successor a    *)
(* request holds for the current token is the elected one, so the row is   *)
(* rotated to what everyone else follows.                                  *)
(*                                                                         *)
(* ConsoleShell: whose grants and menu a tab shows.  Of every answer in    *)
(* the tab - loading, kept, shown - no change of identity crossed it       *)
(* unnoticed (Uncrossed, RunsOwn), which needs that no renewal puts        *)
(* another session into a slot that is not mixed (OnTime).                 *)
(*                                                                         *)
(* AccountSessions: that nobody is left in, of an account that is locked,  *)
(* disabled or given a new password, for any number of logins, resets,     *)
(* passwords and wrong ones allowed.  Whoever ends a session does so in    *)
(* two steps that others come between: an administrator revokes what is    *)
(* live, then commits; a login looks the account up, checks it, inserts    *)
(* and commits.  So what holds when the account is shut is claimed of it   *)
(* already when it is about to be, and what a session must know is claimed *)
(* already of the login that becomes it; with the attempts a change has    *)
(* overtaken, and no others, left out.                                     *)
(***************************************************************************)
EXTENDS MCSessions, RefreshRotationProofs, FiniteSetTheorems, SequenceTheorems

-----------------------------------------------------------------------------
(* TokenSession: the tabs' exchanges end in time, ...                        *)
InTime == 2 * MaxDelay < Grace /\ MaxDelay < Period

UnderWay(r) == req[r] # Idle
(* What a request has presented is not the row's current token any more.     *)
Late(r) == UnderWay(r) /\ req[r].presented # session.current
Succeeded(r) == req[r].pc = "answered" /\ req[r].ok

(* ... share none, know what they have been handed, and are over for good    *)
(* once the user is out.                                                     *)
TabsApart == \A s, t \in InFlight : exchange[s] = exchange[t] => s = t
KnowTheirs ==
    /\ store # NoTokens => store.token \in Known
    /\ \A r \in Reqs : Succeeded(r) => <<req[r].presented, req[r].proposal>> \in handed
OutForGood == signedOut = "yes" => store = NoTokens /\ InFlight = {}

(* Requests under way present one token: the row's, or the one before it; a  *)
(* successor goes to those of the latter.  The slot holds that one only      *)
(* while a tab's answer with its successor is on the way.                    *)
Alike == \A q, r \in Reqs : UnderWay(q) /\ UnderWay(r) => req[q].presented = req[r].presented
OfTheRow ==
    \A r \in Reqs :
        /\ Late(r) => req[r].presented = session.previous
        /\ Succeeded(r) => Late(r) /\ req[r].proposal = session.current
Relieved == \E t \in InFlight : Succeeded(exchange[t]) /\ session.age <= req[exchange[t]].age
StoreOfTheRow ==
    store # NoTokens =>
        \/ store.token = session.current
        \/ store.token = session.previous /\ Relieved

(* Who presents the one before began before its successor was stored, and    *)
(* no later than the longest exchange after the rotation; who presents what  *)
(* is stored is some tab's.                                                  *)
BeganBefore ==
    \A r \in Reqs : Late(r) =>
        /\ store # NoTokens /\ store.token = session.current => store.age <= req[r].age
        /\ session.age <= req[r].age + MaxDelay
StorersOwned ==
    store # NoTokens /\ store.token = session.current =>
        \A r \in Reqs : UnderWay(r) /\ ~Late(r) => r \in Owned

Uncompromised == session.status # "compromised"
Honest ==
    /\ Uncompromised /\ \A r \in Reqs : req[r].pc # "publishing"
    /\ Live => Alike /\ OfTheRow /\ StoreOfTheRow /\ BeganBefore /\ StorersOwned

(* While nothing is lost every request is some tab's, and refused by none.   *)
(* An election of the token that is presented is one of the requests under   *)
(* way, so its key outlives them all, and they follow it.                    *)
Lives(t, age) == elected[t].ttl + age >= Grace + Slack
Elected(t) == elected[t] # NoElection
ElectorUnderWay(t) ==
    Elected(t) => \E r \in Reqs : UnderWay(r) /\ req[r].presented = t /\ Lives(t, req[r].age)
Followed(r) ==
    LET t == req[r].presented IN
    /\ Elected(t) => Lives(t, req[r].age + MaxDelay)
    /\ req[r].pc # "electing" => Elected(t)
    /\ req[r].pc \in {"rotating", "answered"} => req[r].proposal = elected[t].succ
    /\ t # session.current => Elected(t) /\ elected[t].succ = session.current
Elections ==
    /\ \A t \in Token : Elected(t) => t <= session.current
    /\ ElectorUnderWay(session.current)
    /\ store # NoTokens => ElectorUnderWay(store.token)
AllFollow == \A r \in Reqs : UnderWay(r) => Followed(r) /\ (req[r].pc = "answered" => req[r].ok)
AllOwned == \A r \in Reqs : UnderWay(r) => r \in Owned
Undisturbed ==
    /\ AllOwned
    /\ Live => (store = NoTokens => signedOut # "no") /\ Elections /\ AllFollow

TabsIInv ==
    /\ ClientTypeOK /\ Ordered /\ TabsApart /\ KnowTheirs /\ OutForGood
    /\ ~hasty => Honest
    /\ ~hasty /\ ~trouble => Undisturbed

LEMMA Numbers ==
    ASSUME ClientTypeOK
    PROVE  /\ session.current \in Nat /\ session.previous \in Int /\ session.age \in 0 .. Grace
           /\ \A r \in Reqs : UnderWay(r) =>
                 /\ req[r] \in ReqType /\ req[r].presented \in Token /\ req[r].proposal \in Token
                 /\ req[r].presented \in Nat /\ req[r].proposal \in Nat
                 /\ req[r].age \in Nat /\ req[r].age <= MaxDelay
           /\ \A r \in Reqs : req[r].pc # "idle" => UnderWay(r)
           /\ store # NoTokens => store.token \in Token /\ store.token \in Nat
                                  /\ store.age \in 0 .. Period
           /\ \A t \in InFlight : exchange[t] \in Reqs
           /\ Grace \in Nat /\ Slack \in Nat /\ MaxDelay \in Nat /\ Period \in Nat
<1>1. Token \subseteq Nat /\ None \in Int /\ MaxDelay \in Nat
  BY RotationBoundsAssumption DEF Token, None
<1>2. session.current \in Nat /\ session.previous \in Int /\ session.age \in 0 .. Grace
  <2>1. /\ session.current \in Token /\ session.previous \in Token \cup {None}
        /\ session.age \in 0 .. Grace
    BY DEF ClientTypeOK, TypeOK, SessionType
  <2>2. session.current \in Nat
    BY <1>1, <2>1
  <2>3. session.previous \in Int
    BY <2>1, RotationBoundsAssumption DEF Token, None
  <2> QED BY <2>1, <2>2, <2>3
<1>3. ASSUME NEW r \in Reqs, UnderWay(r)
      PROVE  /\ req[r] \in ReqType /\ req[r].presented \in Token /\ req[r].proposal \in Token
             /\ req[r].age \in 0 .. MaxDelay
  <2>1. req[r] \in ReqType
    BY <1>3 DEF ClientTypeOK, TypeOK, UnderWay
  <2> QED BY <2>1, Fields
<1>4. \A r \in Reqs : req[r].pc # "idle" => UnderWay(r)
  BY DEF UnderWay, Idle
<1>5. store # NoTokens => store.token \in Token /\ store.age \in 0 .. Period
  BY DEF ClientTypeOK
<1>6. \A t \in InFlight : exchange[t] \in Reqs
  BY DEF ClientTypeOK, InFlight
<1>7. \A r \in Reqs : UnderWay(r) =>
         /\ req[r] \in ReqType /\ req[r].presented \in Token /\ req[r].proposal \in Token
         /\ req[r].presented \in Nat /\ req[r].proposal \in Nat
         /\ req[r].age \in Nat /\ req[r].age <= MaxDelay
  <2> SUFFICES ASSUME NEW r \in Reqs, UnderWay(r)
               PROVE  /\ req[r] \in ReqType /\ req[r].presented \in Token /\ req[r].proposal \in Token
                      /\ req[r].presented \in Nat /\ req[r].proposal \in Nat
                      /\ req[r].age \in Nat /\ req[r].age <= MaxDelay
    OBVIOUS
  <2>1. /\ req[r] \in ReqType /\ req[r].presented \in Token /\ req[r].proposal \in Token
        /\ req[r].age \in 0 .. MaxDelay
    BY <1>3
  <2>2. req[r].presented \in Nat /\ req[r].proposal \in Nat
    BY <1>1, <2>1
  <2>3. req[r].age \in Nat /\ req[r].age <= MaxDelay
    BY <1>1, <2>1
  <2> QED BY <2>1, <2>2, <2>3
<1>8. store # NoTokens => store.token \in Token /\ store.token \in Nat
                          /\ store.age \in 0 .. Period
  BY <1>1, <1>5
<1>9. Grace \in Nat /\ Slack \in Nat /\ Period \in Nat
  BY WindowAssumption, PeriodAssumption
<1> QED BY <1>1, <1>2, <1>4, <1>6, <1>7, <1>8, <1>9

(* Whatever the tabs do is one of the steps of RefreshRotation, or none.     *)
LEMMA ServerLegal == ClientTypeOK /\ KnowTheirs /\ [ClientNext]_allVars => [Next]_vars
<1> SUFFICES ASSUME ClientTypeOK, KnowTheirs, [ClientNext]_allVars PROVE [Next]_vars
  OBVIOUS
<1>1. ASSUME NEW t \in Tabs, TabStep(t) PROVE [Next]_vars
  <2>1. ASSUME NEW r \in Reqs, StartRefresh(t, r) PROVE [Next]_vars
    <3>1. Begin(r, store.token) /\ store.token \in Known
      BY <2>1 DEF StartRefresh, KnowTheirs
    <3> QED BY <3>1 DEF Next
  <2>2. CASE Adopt(t) \/ Forget(t)
    <3>1. exchange[t] \in Reqs /\ Deliver(exchange[t])
      BY <2>2, Numbers DEF Adopt, Forget
    <3> QED BY <3>1 DEF Next
  <2>3. CASE ForgetInTransport(t) \/ ClearOnLogout(t)
    BY <2>3 DEF ForgetInTransport, ClearOnLogout
  <2>4. CASE SendLogout(t)
    BY <2>4 DEF SendLogout, Next, Environment
  <2> QED BY <1>1, <2>1, <2>2, <2>3, <2>4 DEF TabStep
<1>2. CASE ServerOnly
  <2>1. ASSUME NEW r \in Reqs, Orderly(r) PROVE Next
    BY <2>1 DEF Next, Orderly, ServerStep
  <2>2. CASE Revoke \/ PublishRevoked \/ Expire
    BY <2>2 DEF Next, Environment
  <2> QED BY <1>2, <2>1, <2>2 DEF ServerOnly
<1>3. CASE ServerFault
  BY <1>3 DEF ServerFault, Next, ServerStep
<1>4. CASE Clock
  BY <1>4 DEF Clock, Next, Environment
<1>5. CASE UNCHANGED allVars
  BY <1>5 DEF allVars
<1> QED BY <1>1, <1>2, <1>3, <1>4, <1>5 DEF ClientNext

LEMMA ClientTypeStep ==
    ClientTypeOK /\ KnowTheirs /\ [ClientNext]_allVars => ClientTypeOK'
<1> SUFFICES ASSUME ClientTypeOK, KnowTheirs, [ClientNext]_allVars PROVE ClientTypeOK'
  OBVIOUS
<1>1. TypeOK'
  BY TypeStep, ServerLegal DEF ClientTypeOK
<1>2. /\ NoTokens \in {NoTokens} /\ Period \in Nat /\ Period >= 1
      /\ \A v \in Token : [token |-> v, age |-> 0] \in [token : Token, age : 0 .. Period]
  BY PeriodAssumption
<1>3. ASSUME NEW t \in Tabs, TabStep(t) PROVE ClientTypeOK'
  <2>1. ASSUME NEW r \in Reqs, StartRefresh(t, r) PROVE ClientTypeOK'
    <3>1. hasty' \in BOOLEAN
      BY <2>1 DEF StartRefresh, ClientTypeOK
    <3> QED BY <1>1, <2>1, <3>1 DEF StartRefresh, ClientTypeOK
  <2>2. CASE Adopt(t)
    <3>1. exchange[t] \in Reqs /\ req[exchange[t]].pc = "answered"
      BY <2>2, Numbers DEF Adopt, Deliver
    <3>2. req[exchange[t]].proposal \in Token
      BY <3>1, Numbers
    <3> QED BY <1>1, <1>2, <2>2, <3>2 DEF Adopt, Settle, ClientTypeOK
  <2>3. CASE Forget(t)
    BY <1>1, <2>3 DEF Forget, Settle, ClientTypeOK
  <2>4. CASE ForgetInTransport(t)
    BY <1>1, <2>4 DEF ForgetInTransport, Settle, ClientTypeOK
  <2>5. CASE ClearOnLogout(t) \/ SendLogout(t)
    BY <1>1, <2>5 DEF ClearOnLogout, SendLogout, ClientTypeOK
  <2> QED BY <1>3, <2>1, <2>2, <2>3, <2>4, <2>5 DEF TabStep
<1>4. CASE ServerOnly \/ ServerFault
  BY <1>1, <1>4 DEF ServerOnly, ServerFault, clientVars, ClientTypeOK
<1>5. CASE Clock
  <2>1. store' \in [token : Token, age : 0 .. Period] \cup {NoTokens}
    BY <1>2, <1>5 DEF Clock, ClientTypeOK
  <2> QED BY <1>1, <1>5, <2>1 DEF Clock, ClientTypeOK
<1>6. CASE UNCHANGED allVars
  BY <1>1, <1>6 DEF allVars, clientVars, ClientTypeOK
<1> QED BY <1>3, <1>4, <1>5, <1>6 DEF ClientNext

(* An exchange is one tab's, and nobody begins one once the user is out.     *)
LEMMA ApartStep ==
    ClientTypeOK /\ TabsApart /\ OutForGood /\ [ClientNext]_allVars => TabsApart' /\ OutForGood'
<1> SUFFICES ASSUME ClientTypeOK, TabsApart, OutForGood, [ClientNext]_allVars
             PROVE  TabsApart' /\ OutForGood'
  OBVIOUS
<1>0. exchange \in [Tabs -> Reqs \cup {NoExchange}] /\ signedOut \in {"no", "crossed", "yes"}
  BY DEF ClientTypeOK
<1>1. ASSUME NEW t \in Tabs, TabStep(t) PROVE TabsApart' /\ OutForGood'
  <2>1. ASSUME NEW r \in Reqs, StartRefresh(t, r) PROVE TabsApart' /\ OutForGood'
    BY <1>0, <2>1 DEF StartRefresh, TabsApart, OutForGood, InFlight, Owned
  <2>2. CASE Adopt(t) \/ Forget(t) \/ ForgetInTransport(t)
    <3>1. /\ exchange' = [exchange EXCEPT ![t] = NoExchange] /\ t \in InFlight
          /\ signedOut' = signedOut
      BY <2>2 DEF Adopt, Forget, ForgetInTransport, Settle
    <3>2. InFlight' \subseteq InFlight /\ \A s \in InFlight' : exchange'[s] = exchange[s]
      BY <1>0, <3>1 DEF InFlight
    <3>3. signedOut # "yes"
      BY <3>1 DEF OutForGood
    <3> QED BY <3>1, <3>2, <3>3 DEF TabsApart, OutForGood
  <2>3. CASE ClearOnLogout(t)
    BY <2>3 DEF ClearOnLogout, TabsApart, OutForGood, InFlight
  <2>4. CASE SendLogout(t)
    BY <2>4 DEF SendLogout, TabsApart, OutForGood, InFlight
  <2> QED BY <1>1, <2>1, <2>2, <2>3, <2>4 DEF TabStep
<1>2. CASE ServerOnly \/ ServerFault \/ UNCHANGED allVars
  BY <1>2 DEF ServerOnly, ServerFault, allVars, clientVars, TabsApart, OutForGood, InFlight
<1>3. CASE Clock
  BY <1>3 DEF Clock, TabsApart, OutForGood, InFlight
<1> QED BY <1>1, <1>2, <1>3 DEF ClientNext

(* What is presented was handed over.                                        *)
LEMMA KnowStep ==
    ClientTypeOK /\ KnowTheirs /\ [ClientNext]_allVars => KnowTheirs'
<1> SUFFICES ASSUME ClientTypeOK, KnowTheirs, [ClientNext]_allVars
             PROVE  KnowTheirs'
  OBVIOUS
<1>0. req \in [Reqs -> ReqType \cup {Idle}] /\ Idle.pc = "idle"
  BY DEF ClientTypeOK, TypeOK, Idle
<1> DEFINE Handed(q) == Succeeded(q) => <<req[q].presented, req[q].proposal>> \in handed
           HandedThen(q) == req'[q].pc = "answered" /\ req'[q].ok =>
                                <<req'[q].presented, req'[q].proposal>> \in handed'
<1>h. \A q \in Reqs : Handed(q)
  BY DEF KnowTheirs
<1>1. handed \subseteq handed' /\ \A q \in Reqs : HandedThen(q)
  <2>1. ASSUME NEW r \in Reqs, NEW t \in Known, Begin(r, t)
        PROVE  handed' = handed /\ \A q \in Reqs : HandedThen(q)
    BY <1>0, <1>h, <2>1 DEF Begin, Succeeded
  <2>2. ASSUME NEW r \in Reqs, Elect(r) \/ LoseElection(r) \/ Follow(r) \/ ElectionFails(r)
        PROVE  handed' = handed /\ \A q \in Reqs : HandedThen(q)
    <3>1. req[r].pc \in Stages /\ handed' = handed
      BY <2>2 DEF Elect, LoseElection, Follow, ElectionFails, Stages
    <3>2. req[r] \in ReqType
      BY <3>1, Busy DEF ClientTypeOK
    <3>3. /\ req'[r].pc # "answered"
          /\ \A q \in Reqs \ {r} : req'[q] = req[q]
      BY <1>0, <2>2, <3>2 DEF Elect, LoseElection, Follow, ElectionFails, ReqType
    <3> QED BY <1>h, <3>1, <3>3 DEF Succeeded
  <2>3. ASSUME NEW r \in Reqs, Rotate(r) \/ Replay(r)
        PROVE  handed \subseteq handed' /\ \A q \in Reqs : HandedThen(q)
    <3>1. req[r].pc = "rotating" /\ Answering(r, TRUE)
      BY <2>3 DEF Rotate, Replay, Presents, IsReplay
    <3>2. req[r] \in ReqType
      BY <3>1, Busy DEF Stages, ClientTypeOK
    <3>3. /\ req'[r].presented = req[r].presented /\ req'[r].proposal = req[r].proposal
          /\ \A q \in Reqs \ {r} : req'[q] = req[q]
          /\ handed' = handed \cup {<<req[r].presented, req[r].proposal>>}
      BY <1>0, <3>1, <3>2 DEF Answering, ReqType
    <3> QED BY <1>h, <3>3 DEF Succeeded
  <2>4. ASSUME NEW r \in Reqs, Stale(r) \/ Invalid(r) \/ DetectReuse(r) \/ PublishReuse(r)
        PROVE  handed' = handed /\ \A q \in Reqs : HandedThen(q)
    <3>1. req[r].pc \in {"rotating", "publishing"} /\ handed' = handed
      BY <2>4 DEF Stale, Invalid, DetectReuse, PublishReuse, IsReplay, Presents, Answering
    <3>2. req[r] \in ReqType
      BY <3>1, Busy DEF Stages, ClientTypeOK
    <3>3. /\ req'[r].pc = "answered" => ~req'[r].ok
          /\ \A q \in Reqs \ {r} : req'[q] = req[q]
      BY <1>0, <2>4, <3>2 DEF Stale, Invalid, DetectReuse, PublishReuse, Answering, ReqType
    <3> QED BY <1>h, <3>1, <3>3 DEF Succeeded
  <2>5. ASSUME NEW r \in Reqs, Deliver(r) \/ Abandon(r)
        PROVE  handed' = handed /\ \A q \in Reqs : HandedThen(q)
    BY <1>0, <1>h, <2>5 DEF Deliver, Abandon, Succeeded
  <2>6. CASE Environment
    <3>1. /\ handed' = handed
          /\ \A q \in Reqs : \/ req'[q] = req[q]
                             \/ req[q] # Idle /\ req'[q] = [req[q] EXCEPT !.age = @ + 1]
      BY <2>6 DEF Environment, Revoke, PublishRevoked, Expire, Tick
    <3>2. ASSUME NEW q \in Reqs PROVE HandedThen(q)
      <4>1. CASE req'[q] = req[q]
        BY <1>h, <3>1, <4>1 DEF Succeeded
      <4>2. CASE req[q] # Idle /\ req'[q] = [req[q] EXCEPT !.age = @ + 1]
        <5>1. req[q] \in ReqType
          BY <1>0, <4>2
        <5>2. /\ req'[q].pc = req[q].pc /\ req'[q].ok = req[q].ok
              /\ req'[q].presented = req[q].presented /\ req'[q].proposal = req[q].proposal
          BY <4>2, <5>1 DEF ReqType
        <5> QED BY <1>h, <3>1, <5>2 DEF Succeeded
      <4> QED BY <3>1, <4>1, <4>2
    <3> QED BY <3>1, <3>2
  <2>7. CASE UNCHANGED vars
    BY <1>h, <2>7 DEF vars, Succeeded
  <2>8. [Next]_vars
    BY ServerLegal
  <2> QED BY <2>1, <2>2, <2>3, <2>4, <2>5, <2>6, <2>7, <2>8 DEF Next, ServerStep, Decide
<1>2. \A q \in Reqs : Succeeded(q)' => <<req'[q].presented, req'[q].proposal>> \in handed'
  BY <1>1 DEF Succeeded
<1>3. store' # NoTokens => store'.token \in Known'
  <2>1. Known \subseteq Known'
    BY <1>1 DEF Known
  <2>2. ASSUME NEW t \in Tabs, Adopt(t) PROVE store'.token \in Known'
    <3>1. exchange[t] \in Reqs /\ Succeeded(exchange[t])
      BY <2>2, Numbers DEF Adopt, Deliver, Succeeded
    <3>2. <<req[exchange[t]].presented, req[exchange[t]].proposal>> \in handed
      BY <1>h, <3>1
    <3>3. req[exchange[t]].proposal \in Known
      BY <3>2 DEF Known
    <3> QED BY <2>1, <2>2, <3>3 DEF Adopt
  <2>3. \/ store' = NoTokens
        \/ store # NoTokens /\ store'.token = store.token
        \/ \E t \in Tabs : Adopt(t)
    <3>1. ASSUME NEW t \in Tabs, TabStep(t), ~Adopt(t)
          PROVE  store' \in {store, NoTokens}
      BY <3>1 DEF TabStep, StartRefresh, Forget, ForgetInTransport, SendLogout, ClearOnLogout
    <3>2. CASE ServerOnly \/ ServerFault \/ UNCHANGED allVars
      BY <3>2 DEF ServerOnly, ServerFault, allVars, clientVars
    <3>3. CASE Clock
      BY <3>3 DEF Clock, ClientTypeOK
    <3> QED BY <3>1, <3>2, <3>3 DEF ClientNext
  <2> QED BY <2>1, <2>2, <2>3 DEF KnowTheirs
<1> QED BY <1>2, <1>3 DEF KnowTheirs

-----------------------------------------------------------------------------
(* A request is late by the time between rotation and delivery, so the row   *)
(* allows it as a replay, and no token presented is ever taken for stolen.   *)
LEMMA NeverStolen ==
    ASSUME ClientTypeOK, Honest, InTime, NEW r \in Reqs
    PROVE  ~DetectReuse(r) /\ ~PublishReuse(r)
<1>1. ASSUME DetectReuse(r) PROVE FALSE
  <2>1. Live /\ req[r].pc = "rotating" /\ ~Presents(r, session.current) /\ ~IsReplay(r)
    BY <1>1 DEF DetectReuse
  <2>2. Late(r)
    BY <2>1, Numbers DEF Presents, Late
  <2>3. req[r].presented = session.previous /\ session.age <= req[r].age + MaxDelay
    BY <2>1, <2>2 DEF Honest, OfTheRow, BeganBefore
  <2>4. session.age < Grace
    BY <2>2, <2>3, Numbers DEF InTime, Late
  <2> QED BY <2>1, <2>3, <2>4 DEF IsReplay, Presents
<1>2. ~PublishReuse(r)
  BY DEF Honest, PublishReuse
<1> QED BY <1>1, <1>2

(* A request goes on with what it presented, or is over; ...                 *)
Stays(q) ==
    UnderWay(q)' => /\ UnderWay(q) /\ req'[q] \in ReqType
                    /\ req'[q].presented = req[q].presented /\ req'[q].age = req[q].age
(* ... a successor is given to those only that present the one before, and   *)
(* it is the row's; ...                                                      *)
HandsOver(q) ==
    Succeeded(q)' => \/ Succeeded(q) /\ req'[q].proposal = req[q].proposal
                     \/ Late(q) /\ req'[q].proposal = session.current
(* ... and the slot is left alone, or cleared, or has the successor put into *)
(* it that one of them has got.                                              *)
Calm ==
    /\ session' = session
    /\ \A q \in Reqs : Stays(q) /\ HandsOver(q)
    /\ \/ store' = NoTokens
       \/ /\ store' = store /\ exchange' = exchange
          /\ \A t \in InFlight : Succeeded(exchange[t]) => req'[exchange[t]] = req[exchange[t]]
       \/ /\ store' = [token |-> session.current, age |-> 0]
          /\ \E q \in Reqs : Late(q)

LEMMA CalmStep ==
    ASSUME ClientTypeOK, RowOrdered, Live, Alike, OfTheRow, StoreOfTheRow, BeganBefore, StorersOwned,
           Calm
    PROVE  Alike' /\ OfTheRow' /\ StoreOfTheRow' /\ BeganBefore' /\ StorersOwned'
<1>1. /\ session' = session
      /\ \A q \in Reqs : Stays(q) /\ HandsOver(q)
  BY DEF Calm
<1>2. ASSUME NEW q \in Reqs
      PROVE  /\ UnderWay(q)' => UnderWay(q) /\ req'[q].presented = req[q].presented
                                /\ req'[q].age = req[q].age
             /\ Late(q)' <=> Late(q) /\ UnderWay(q)'
             /\ Succeeded(q)' => UnderWay(q)'
  <2>1. Succeeded(q)' => UnderWay(q)'
    BY DEF Succeeded, UnderWay, Idle
  <2> QED BY <1>1, <2>1 DEF Stays, Late, UnderWay
<1>3. Alike'
  BY <1>2 DEF Alike
<1>4. OfTheRow'
  <2>1. ASSUME NEW q \in Reqs, Late(q)' PROVE req'[q].presented = session'.previous
    BY <1>1, <1>2, <2>1 DEF OfTheRow, Late
  <2>2. ASSUME NEW q \in Reqs, Succeeded(q)' PROVE Late(q)' /\ req'[q].proposal = session'.current
    BY <1>1, <1>2, <2>2 DEF OfTheRow, HandsOver
  <2> QED BY <2>1, <2>2 DEF OfTheRow
<1>5. StoreOfTheRow'
  <2>1. CASE store' = NoTokens
    BY <2>1 DEF StoreOfTheRow
  <2>2. CASE /\ store' = store /\ exchange' = exchange
             /\ \A t \in InFlight : Succeeded(exchange[t]) => req'[exchange[t]] = req[exchange[t]]
    <3>1. ASSUME Relieved PROVE Relieved'
      BY <1>1, <2>2, <3>1 DEF Relieved, InFlight, Succeeded
    <3> QED BY <1>1, <2>2, <3>1 DEF StoreOfTheRow
  <2>3. CASE store' = [token |-> session.current, age |-> 0]
    BY <1>1, <2>3 DEF StoreOfTheRow
  <2> QED BY <2>1, <2>2, <2>3 DEF Calm
<1>6. BeganBefore'
  <2>1. ASSUME NEW q \in Reqs, Late(q)'
        PROVE  /\ session'.age <= req'[q].age + MaxDelay
               /\ store' # NoTokens /\ store'.token = session'.current => store'.age <= req'[q].age
    <3>1. Late(q) /\ req'[q].age = req[q].age /\ req[q].age \in Nat
      BY <1>2, <2>1, Numbers DEF Late
    <3> QED BY <1>1, <3>1 DEF BeganBefore, Calm
  <2> QED BY <2>1 DEF BeganBefore
<1>7. StorersOwned'
  <2>1. SUFFICES ASSUME store' # NoTokens, store'.token = session'.current,
                        NEW q \in Reqs, UnderWay(q)', ~Late(q)'
                 PROVE  q \in Owned'
    BY DEF StorersOwned
  <2>2. UnderWay(q) /\ ~Late(q)
    BY <1>2, <2>1
  <2>3. CASE store' = store /\ exchange' = exchange
    BY <1>1, <2>1, <2>2, <2>3 DEF StorersOwned, Owned, InFlight
  <2>4. ASSUME NEW p \in Reqs, Late(p) PROVE FALSE
    BY <2>2, <2>4 DEF Alike, Late
  <2> QED BY <2>1, <2>3, <2>4 DEF Calm
<1> QED BY <1>3, <1>4, <1>5, <1>6, <1>7

(* A rotation: whoever is under way presents what is now the one before, and *)
(* if the slot holds it, the one that rotated is some tab's.                 *)
LEMMA RotateStep ==
    ASSUME ClientTypeOK, Ordered, Live, Alike, OfTheRow, StoreOfTheRow, BeganBefore, StorersOwned,
           NEW r \in Reqs, Rotate(r), UNCHANGED <<store, exchange>>
    PROVE  Alike' /\ OfTheRow' /\ StoreOfTheRow' /\ BeganBefore' /\ StorersOwned'
<1>1. /\ req[r].pc = "rotating" /\ req[r].presented = session.current /\ UnderWay(r)
      /\ req[r] \in ReqType
  BY Numbers DEF Rotate, Presents
<1>2. /\ session'.current = req[r].proposal /\ session'.previous = session.current
      /\ session'.age = 0
  BY DEF Rotate, ClientTypeOK, TypeOK, SessionType
<1>3. /\ req'[r].pc = "answered" /\ req'[r].ok /\ req'[r].presented = req[r].presented
      /\ req'[r].proposal = req[r].proposal /\ req'[r].age = req[r].age
      /\ \A q \in Reqs \ {r} : req'[q] = req[q]
      /\ UnderWay(r)'
  BY <1>1 DEF Rotate, Answering, ClientTypeOK, TypeOK, ReqType, UnderWay, Idle
<1>4. session.current < req[r].proposal
  BY <1>1 DEF Ordered, ProposalsOrdered, Proposing
<1>5. session.current # session'.current
  BY <1>1, <1>2, <1>4, Numbers
<1>6. \A q \in Reqs : UnderWay(q) => req[q].presented = session.current /\ ~Late(q) /\ ~Succeeded(q)
  BY <1>1 DEF Alike, OfTheRow, Late
<1>7. ASSUME NEW q \in Reqs
      PROVE  /\ UnderWay(q)' <=> UnderWay(q)
             /\ UnderWay(q) => req'[q].presented = session.current /\ req'[q].age = req[q].age
             /\ Late(q)' <=> UnderWay(q)
             /\ Succeeded(q)' => q = r
  <2>1. UnderWay(q)' <=> UnderWay(q)
    BY <1>1, <1>3 DEF UnderWay
  <2>2. UnderWay(q) => req'[q].presented = session.current /\ req'[q].age = req[q].age
    BY <1>1, <1>3, <1>6
  <2>3. Late(q)' <=> UnderWay(q)
    BY <1>5, <2>1, <2>2 DEF Late
  <2>4. Succeeded(q)' => q = r
    BY <1>3, <1>6 DEF Succeeded, UnderWay, Idle
  <2> QED BY <2>1, <2>2, <2>3, <2>4
<1>8. Alike'
  BY <1>7 DEF Alike
<1>9. OfTheRow'
  <2>1. ASSUME NEW q \in Reqs, Late(q)' PROVE req'[q].presented = session'.previous
    BY <1>2, <1>7, <2>1
  <2>2. ASSUME NEW q \in Reqs, Succeeded(q)' PROVE Late(q)' /\ req'[q].proposal = session'.current
    BY <1>1, <1>2, <1>3, <1>7, <2>2
  <2> QED BY <2>1, <2>2 DEF OfTheRow
<1>10. store # NoTokens => store.token = session.current /\ r \in Owned
  <2>1. ~Relieved
    <3>1. \A t \in InFlight : exchange[t] \in Reqs /\ ~Succeeded(exchange[t])
      BY <1>6, Numbers DEF Succeeded
    <3> QED BY <3>1 DEF Relieved
  <2> QED BY <1>1, <1>6, <2>1 DEF StoreOfTheRow, StorersOwned
<1>11. StoreOfTheRow'
  <2>1. ASSUME NEW t \in InFlight, exchange[t] = r PROVE Relieved'
    <3>1. t \in InFlight' /\ exchange'[t] = r /\ req'[r].age >= 0
      BY <1>1, <1>3, <2>1, Numbers DEF InFlight
    <3> QED BY <1>2, <1>3, <3>1 DEF Relieved, Succeeded
  <2> QED BY <1>2, <1>10, <2>1 DEF StoreOfTheRow, Owned
<1>12. BeganBefore'
  <2>1. ASSUME NEW q \in Reqs, Late(q)'
        PROVE  session'.age <= req'[q].age + MaxDelay
    BY <1>2, <1>7, <2>1, Numbers
  <2>2. store' # NoTokens => store'.token # session'.current
    BY <1>5, <1>10
  <2> QED BY <2>1, <2>2 DEF BeganBefore
<1>13. StorersOwned'
  BY <1>7 DEF StorersOwned
<1> QED BY <1>8, <1>9, <1>11, <1>12, <1>13

(* A tab begins an exchange when nobody under way has presented another      *)
(* token than the stored one: such as were are over once it is a whole       *)
(* period old, and before that it would be hasty.                            *)
LEMMA StartStep ==
    ASSUME ClientTypeOK, RowOrdered, InTime, Live, Alike, OfTheRow, StoreOfTheRow, BeganBefore,
           StorersOwned, NEW t \in Tabs, NEW r \in Reqs, StartRefresh(t, r), ~hasty'
    PROVE  Alike' /\ OfTheRow' /\ StoreOfTheRow' /\ BeganBefore' /\ StorersOwned'
<1>1. /\ session' = session /\ store' = store /\ store # NoTokens
      /\ req[r] = Idle /\ exchange[t] = NoExchange /\ exchange' = [exchange EXCEPT ![t] = r]
      /\ r \notin Owned
  BY DEF StartRefresh, Begin
<1>2. /\ req'[r].presented = store.token /\ req'[r].age = 0 /\ req'[r].pc = "electing"
      /\ \A q \in Reqs \ {r} : req'[q] = req[q]
  BY DEF StartRefresh, Begin, ClientTypeOK, TypeOK
<1>3. UnderWay(r)' /\ ~UnderWay(r) /\ ~Succeeded(r)'
  BY <1>1, <1>2 DEF UnderWay, Succeeded, Idle
<1>4. \A q \in Reqs : UnderWay(q) => req[q].presented = store.token
  <2>0. ExpiringSoon \/ ~OlderUnderWay
    BY DEF StartRefresh
  <2>1. CASE ~OlderUnderWay
    BY <2>1 DEF OlderUnderWay, UnderWay
  <2>2. CASE ExpiringSoon /\ store.token = session.current
    BY <1>1, <2>2, Numbers DEF ExpiringSoon, BeganBefore, InTime, Late
  <2>3. CASE store.token = session.previous /\ Relieved
    <3>1. PICK s \in InFlight : Succeeded(exchange[s])
      BY <2>3 DEF Relieved
    <3>2. exchange[s] \in Reqs /\ UnderWay(exchange[s]) /\ req[exchange[s]].presented = store.token
      BY <2>3, <3>1, Numbers DEF OfTheRow, Succeeded
    <3> QED BY <3>2 DEF Alike
  <2> QED BY <1>1, <2>0, <2>1, <2>2, <2>3 DEF StoreOfTheRow
<1>5. store.token # session.current =>
          store.token = session.previous /\ Relieved /\ session.age <= MaxDelay
  <2>1. ASSUME Relieved PROVE session.age <= MaxDelay
    <3>1. PICK s \in InFlight : Succeeded(exchange[s]) /\ session.age <= req[exchange[s]].age
      BY <2>1 DEF Relieved
    <3>2. req[exchange[s]].age \in Nat /\ req[exchange[s]].age <= MaxDelay
      BY <3>1, Numbers DEF Succeeded
    <3> QED BY <3>1, <3>2, Numbers
  <2> QED BY <1>1, <2>1 DEF StoreOfTheRow
<1>6. \A q \in Reqs \ {r} : /\ UnderWay(q)' <=> UnderWay(q)
                            /\ Late(q)' <=> Late(q)
                            /\ Succeeded(q)' <=> Succeeded(q)
  BY <1>1, <1>2 DEF UnderWay, Late, Succeeded
<1>7. Alike'
  BY <1>2, <1>3, <1>4, <1>6 DEF Alike
<1>8. OfTheRow'
  <2>1. ASSUME NEW q \in Reqs, Late(q)' PROVE req'[q].presented = session'.previous
    BY <1>1, <1>2, <1>5, <1>6, <2>1 DEF OfTheRow, Late
  <2>2. ASSUME NEW q \in Reqs, Succeeded(q)' PROVE Late(q)' /\ req'[q].proposal = session'.current
    BY <1>1, <1>2, <1>3, <1>6, <2>2 DEF OfTheRow
  <2> QED BY <2>1, <2>2 DEF OfTheRow
<1>9. StoreOfTheRow'
  <2>1. ASSUME Relieved PROVE Relieved'
    <3>1. PICK s \in InFlight : Succeeded(exchange[s]) /\ session.age <= req[exchange[s]].age
      BY <2>1 DEF Relieved
    <3>2. /\ s # t /\ exchange[s] \in Reqs /\ exchange[s] # r /\ exchange'[s] = exchange[s]
          /\ s \in InFlight'
      BY <1>1, <1>3, <3>1, Numbers DEF InFlight, Owned, ClientTypeOK
    <3>3. req'[exchange[s]] = req[exchange[s]]
      BY <1>2, <3>2
    <3> QED BY <1>1, <3>1, <3>2, <3>3 DEF Relieved, Succeeded
  <2> QED BY <1>1, <2>1 DEF StoreOfTheRow
<1>10. BeganBefore'
  <2>1. ASSUME NEW q \in Reqs \ {r}, Late(q)'
        PROVE  /\ session'.age <= req'[q].age + MaxDelay
               /\ store' # NoTokens /\ store'.token = session'.current => store'.age <= req'[q].age
    BY <1>1, <1>2, <1>6, <2>1 DEF BeganBefore
  <2>2. ASSUME Late(r)'
        PROVE  /\ session'.age <= req'[r].age + MaxDelay
               /\ store'.token # session'.current
    BY <1>1, <1>2, <1>5, <2>2, Numbers DEF Late
  <2> QED BY <2>1, <2>2 DEF BeganBefore
<1>11. StorersOwned'
  <2>1. t \in InFlight' /\ exchange'[t] = r /\ \A s \in InFlight : s \in InFlight' /\ exchange'[s] = exchange[s]
    BY <1>1, ExchangeAssumption DEF InFlight, ClientTypeOK
  <2>2. r \in Owned' /\ Owned \subseteq Owned'
    BY <2>1 DEF Owned
  <2> QED BY <1>1, <1>6, <2>2 DEF StorersOwned
<1> QED BY <1>7, <1>8, <1>9, <1>10, <1>11

(* Time passes for all of them alike.                                        *)
LEMMA Ticks ==
    ASSUME ClientTypeOK, Clock
    PROVE  /\ exchange' = exchange
           /\ session'.current = session.current /\ session'.previous = session.previous
           /\ session'.status = session.status
           /\ session'.age \in Nat /\ session'.age <= session.age + 1
           /\ \A q \in Reqs : /\ UnderWay(q)' <=> UnderWay(q)
                              /\ UnderWay(q) =>
                                    /\ req'[q].presented = req[q].presented
                                    /\ req'[q].proposal = req[q].proposal
                                    /\ req'[q].pc = req[q].pc /\ req'[q].ok = req[q].ok
                                    /\ req'[q].age = req[q].age + 1 /\ req[q].age < MaxDelay
                              /\ Succeeded(q)' <=> Succeeded(q)
                              /\ Late(q)' <=> Late(q)
           /\ store' = NoTokens <=> store = NoTokens
           /\ store # NoTokens => store'.token = store.token /\ store'.age <= store.age + 1
<1>1. /\ session' = [session EXCEPT !.age = IF @ < Grace THEN @ + 1 ELSE Grace]
      /\ session \in SessionType
  BY DEF Clock, Tick, ClientTypeOK, TypeOK
<1>2. /\ session'.current = session.current /\ session'.previous = session.previous
      /\ session'.status = session.status
      /\ session'.age = IF session.age < Grace THEN session.age + 1 ELSE Grace
  BY <1>1 DEF SessionType
<1>3. session'.age \in Nat /\ session'.age <= session.age + 1
  BY <1>2, Numbers
<1>4. ASSUME NEW q \in Reqs
      PROVE  /\ UnderWay(q)' <=> UnderWay(q)
             /\ UnderWay(q) =>
                   /\ req'[q].presented = req[q].presented
                   /\ req'[q].proposal = req[q].proposal
                   /\ req'[q].pc = req[q].pc /\ req'[q].ok = req[q].ok
                   /\ req'[q].age = req[q].age + 1 /\ req[q].age < MaxDelay
  <2>1. CASE ~UnderWay(q)
    BY <2>1 DEF Clock, Tick, UnderWay
  <2>2. CASE UnderWay(q)
    <3>1. req[q] \in ReqType /\ req'[q] = [req[q] EXCEPT !.age = @ + 1] /\ req[q].age < MaxDelay
      BY <2>2, Numbers DEF Clock, Tick, UnderWay
    <3>2. /\ req'[q].presented = req[q].presented
          /\ req'[q].proposal = req[q].proposal
          /\ req'[q].pc = req[q].pc /\ req'[q].ok = req[q].ok
          /\ req'[q].age = req[q].age + 1
      BY <3>1 DEF ReqType
    <3>3. req'[q].pc # "idle"
      BY <3>1, <3>2 DEF ReqType
    <3> QED BY <2>2, <3>1, <3>2, <3>3 DEF UnderWay, Idle
  <2> QED BY <2>1, <2>2
<1>5. ASSUME NEW q \in Reqs
      PROVE  (Succeeded(q)' <=> Succeeded(q)) /\ (Late(q)' <=> Late(q))
  <2>1. CASE UnderWay(q)
    BY <1>2, <1>4, <2>1 DEF Succeeded, Late
  <2>2. CASE ~UnderWay(q)
    BY <1>4, <2>2 DEF Succeeded, Late, UnderWay, Idle
  <2> QED BY <2>1, <2>2
<1>6. store' = NoTokens <=> store = NoTokens
  BY Numbers DEF Clock, ClientTypeOK, NoTokens, None
<1>7. store # NoTokens => store'.token = store.token /\ store'.age <= store.age + 1
  <2>1. CASE store.age = Period
    BY <2>1, Numbers DEF Clock
  <2>2. CASE store # NoTokens /\ store.age # Period
    BY <2>2, Numbers DEF Clock, ClientTypeOK
  <2> QED BY <2>1, <2>2
<1> QED BY <1>2, <1>3, <1>4, <1>5, <1>6, <1>7 DEF Clock

LEMMA ClockStep ==
    ASSUME ClientTypeOK, Live, Alike, OfTheRow, StoreOfTheRow, BeganBefore, StorersOwned, Clock
    PROVE  Alike' /\ OfTheRow' /\ StoreOfTheRow' /\ BeganBefore' /\ StorersOwned'
<1>1. Alike'
  BY Ticks DEF Alike
<1>2. OfTheRow'
  <2>1. ASSUME NEW q \in Reqs, Late(q)' PROVE req'[q].presented = session'.previous
    BY Ticks, <2>1 DEF OfTheRow, Late
  <2>2. ASSUME NEW q \in Reqs, Succeeded(q)' PROVE Late(q)' /\ req'[q].proposal = session'.current
    BY Ticks, <2>2 DEF OfTheRow, Late
  <2> QED BY <2>1, <2>2 DEF OfTheRow
<1>3. StoreOfTheRow'
  <2>1. ASSUME Relieved PROVE Relieved'
    <3>1. PICK s \in InFlight : Succeeded(exchange[s]) /\ session.age <= req[exchange[s]].age
      BY <2>1 DEF Relieved
    <3>2. exchange[s] \in Reqs /\ UnderWay(exchange[s]) /\ exchange'[s] = exchange[s]
          /\ s \in InFlight'
      BY <3>1, Numbers, Ticks DEF Succeeded, InFlight
    <3>3. session'.age <= req'[exchange[s]].age
      BY <3>1, <3>2, Numbers, Ticks
    <3>4. req'[exchange[s]].pc = "answered" /\ req'[exchange[s]].ok
      BY <3>1, <3>2, Ticks DEF Succeeded
    <3> QED BY <3>2, <3>3, <3>4 DEF Relieved, Succeeded
  <2> QED BY <2>1, Ticks DEF StoreOfTheRow
<1>4. BeganBefore'
  <2>1. ASSUME NEW q \in Reqs, Late(q)'
        PROVE  /\ session'.age <= req'[q].age + MaxDelay
               /\ store' # NoTokens /\ store'.token = session'.current => store'.age <= req'[q].age
    <3>1. Late(q) /\ UnderWay(q)
      BY <2>1, Ticks DEF Late
    <3>2. session'.age <= req'[q].age + MaxDelay
      BY <3>1, Numbers, Ticks DEF BeganBefore
    <3>3. store' # NoTokens /\ store'.token = session'.current => store'.age <= req'[q].age
      <4>1. CASE store # NoTokens /\ store.token = session.current
        <5>1. store.age <= req[q].age /\ store'.age <= store.age + 1 /\ req'[q].age = req[q].age + 1
          BY <3>1, <4>1, Ticks DEF BeganBefore
        <5>2. store'.age \in Nat
          BY <4>1, Numbers, PeriodAssumption DEF Clock, ClientTypeOK
        <5> QED BY <3>1, <4>1, <5>1, <5>2, Numbers
      <4>2. CASE ~(store # NoTokens /\ store.token = session.current)
        BY <4>2, Ticks
      <4> QED BY <4>1, <4>2
    <3> QED BY <3>2, <3>3
  <2> QED BY <2>1 DEF BeganBefore
<1>5. StorersOwned'
  <2>1. Owned' = Owned
    BY Ticks DEF Owned, InFlight
  <2> QED BY <2>1, Ticks DEF StorersOwned
<1> QED BY <1>1, <1>2, <1>3, <1>4, <1>5

(* The rest of the steps are calm: those of the server on one request, ...   *)
LEMMA ServerCalm ==
    ASSUME ClientTypeOK, NEW r \in Reqs, UNCHANGED <<store, exchange>>,
           \/ Elect(r) \/ LoseElection(r) \/ Follow(r) \/ ElectionFails(r)
           \/ Replay(r) \/ Stale(r) \/ Invalid(r) \/ Abandon(r)
           \/ r \notin Owned /\ Deliver(r)
    PROVE  Calm
<1>0. req \in [Reqs -> ReqType \cup {Idle}]
  BY DEF ClientTypeOK, TypeOK
<1>1. session' = session /\ \A q \in Reqs \ {r} : req'[q] = req[q]
  BY <1>0 DEF Elect, LoseElection, Follow, ElectionFails, Replay, Stale, Invalid, Abandon, Deliver,
              Answering
<1>2. \/ req[r].pc \in {"electing", "following", "rotating"}
      \/ r \notin Owned /\ req[r].pc = "answered"
  BY DEF Elect, LoseElection, Follow, ElectionFails, Replay, Stale, Invalid, Abandon, Deliver,
         IsReplay, Presents
<1>3. UnderWay(r) /\ req[r] \in ReqType
  BY <1>2, Numbers
<1>4. Stays(r) /\ HandsOver(r)
  <2>1. CASE Elect(r) \/ LoseElection(r) \/ ElectionFails(r)
    <3>1. /\ req'[r] \in ReqType /\ req'[r].presented = req[r].presented
          /\ req'[r].age = req[r].age /\ req'[r].pc # "answered"
      <4>1. PICK pc \in {"following", "rotating"} : req'[r] = [req[r] EXCEPT !.pc = pc]
        BY <1>0, <2>1 DEF Elect, LoseElection, ElectionFails
      <4> QED BY <1>3, <4>1 DEF ReqType
    <3> QED BY <1>3, <3>1 DEF Stays, HandsOver, Succeeded
  <2>2. CASE Follow(r)
    <3> DEFINE winner == elected[req[r].presented]
               proposal == IF winner = NoElection THEN req[r].proposal ELSE winner.succ
    <3>1. req'[r] = [req[r] EXCEPT !.pc = "rotating", !.proposal = proposal]
      BY <1>0, <2>2 DEF Follow
    <3>2. proposal \in Token
      BY <1>3, Numbers DEF ClientTypeOK, TypeOK
    <3> HIDE DEF proposal
    <3>3. /\ req'[r] \in ReqType /\ req'[r].presented = req[r].presented
          /\ req'[r].age = req[r].age /\ req'[r].pc # "answered"
      BY <1>3, <3>1, <3>2 DEF ReqType
    <3> QED BY <1>3, <3>3 DEF Stays, HandsOver, Succeeded
  <2>3. CASE Replay(r) \/ Stale(r) \/ Invalid(r)
    <3>1. \E success \in BOOLEAN : Answering(r, success) /\ (success => Replay(r))
      BY <2>3 DEF Replay, Stale, Invalid
    <3>2. PICK success \in BOOLEAN : Answering(r, success) /\ (success => Replay(r))
      BY <3>1
    <3>3. /\ req'[r] \in ReqType /\ req'[r].presented = req[r].presented
          /\ req'[r].age = req[r].age /\ req'[r].proposal = req[r].proposal
          /\ req'[r].ok = success
      BY <1>0, <1>3, <3>2 DEF Answering, ReqType
    <3>4. Replay(r) => Late(r) /\ req[r].proposal = session.current
      BY <1>3 DEF Replay, IsReplay, Presents, Late
    <3> QED BY <1>3, <3>2, <3>3, <3>4 DEF Stays, HandsOver, Succeeded
  <2>4. CASE Abandon(r) \/ Deliver(r)
    <3>1. req'[r] = Idle
      BY <1>0, <2>4 DEF Abandon, Deliver
    <3> QED BY <3>1 DEF Stays, HandsOver, Succeeded, UnderWay, Idle
  <2> QED BY <2>1, <2>2, <2>3, <2>4
<1>5. \A q \in Reqs \ {r} : Stays(q) /\ HandsOver(q)
  BY <1>1, Numbers DEF Stays, HandsOver, Succeeded, UnderWay
<1>6. \A t \in InFlight : Succeeded(exchange[t]) => req'[exchange[t]] = req[exchange[t]]
  BY <1>1, <1>2, Numbers DEF Succeeded, Owned
<1> QED BY <1>1, <1>4, <1>5, <1>6 DEF Calm

(* ... and those of the tabs that begin nothing.                             *)
LEMMA TabCalm ==
    ASSUME ClientTypeOK, OfTheRow,
           \/ \E t \in Tabs : Adopt(t) \/ Forget(t) \/ ForgetInTransport(t) \/ ClearOnLogout(t)
           \/ UNCHANGED <<vars, store, exchange>>
    PROVE  Calm
<1>0. req \in [Reqs -> ReqType \cup {Idle}]
  BY DEF ClientTypeOK, TypeOK
<1>1. ASSUME NEW q \in Reqs, req'[q] \in {req[q], Idle}
      PROVE  Stays(q) /\ HandsOver(q)
  <2>1. CASE req'[q] = req[q]
    BY <2>1, Numbers DEF Stays, HandsOver, Succeeded, UnderWay
  <2>2. CASE req'[q] = Idle
    BY <2>2 DEF Stays, HandsOver, Succeeded, UnderWay, Idle
  <2> QED BY <1>1, <2>1, <2>2
<1>2. ASSUME NEW t \in Tabs, Adopt(t) \/ Forget(t)
      PROVE  Calm
  <2>1. exchange[t] \in Reqs /\ Deliver(exchange[t])
    BY <1>2, Numbers DEF Adopt, Forget
  <2>2. session' = session /\ \A q \in Reqs : req'[q] \in {req[q], Idle}
    BY <1>0, <2>1 DEF Deliver
  <2>3. CASE Adopt(t)
    <3>1. Succeeded(exchange[t]) /\ store' = [token |-> req[exchange[t]].proposal, age |-> 0]
      BY <2>1, <2>3 DEF Adopt, Deliver, Succeeded
    <3>2. Late(exchange[t]) /\ req[exchange[t]].proposal = session.current
      BY <2>1, <3>1 DEF OfTheRow
    <3>3. store' = [token |-> session.current, age |-> 0] /\ \E q \in Reqs : Late(q)
      BY <2>1, <3>1, <3>2
    <3> QED BY <1>1, <2>2, <3>3 DEF Calm
  <2>4. CASE Forget(t)
    <3>1. store' = NoTokens
      BY <2>4 DEF Forget
    <3> QED BY <1>1, <2>2, <3>1 DEF Calm
  <2> QED BY <1>2, <2>3, <2>4
<1>3. ASSUME NEW t \in Tabs, ForgetInTransport(t) \/ ClearOnLogout(t)
      PROVE  Calm
  BY <1>1, <1>3 DEF ForgetInTransport, ClearOnLogout, vars, Calm
<1>4. CASE UNCHANGED <<vars, store, exchange>>
  BY <1>1, <1>4 DEF vars, Calm
<1> QED BY <1>2, <1>3, <1>4

(* Haste is not forgotten.                                                   *)
LEMMA HastyStays == [ClientNext]_allVars /\ ~hasty' => ~hasty
BY DEF ClientNext, TabStep, StartRefresh, Adopt, Forget, ForgetInTransport, SendLogout, ClearOnLogout,
       ServerOnly, ServerFault, Clock, clientVars, allVars

(* No step compromises the session.                                          *)
LEMMA NobodyCompromised ==
    ASSUME ClientTypeOK, Honest, InTime, [Next]_vars
    PROVE  /\ Uncompromised' /\ \A q \in Reqs : req'[q].pc # "publishing"
           /\ Live' => Live
<1>0. /\ req \in [Reqs -> ReqType \cup {Idle}] /\ session \in SessionType
      /\ session.status # "compromised" /\ \A q \in Reqs : req[q].pc # "publishing"
  BY DEF ClientTypeOK, TypeOK, Honest, Uncompromised
<1>1. ASSUME NEW r \in Reqs, \E t \in Known : Begin(r, t)
      PROVE  session' = session /\ \A q \in Reqs : req'[q].pc # "publishing"
  BY <1>0, <1>1 DEF Begin
<1>2. ASSUME NEW r \in Reqs, ServerStep(r) \/ Deliver(r)
      PROVE  session'.status = session.status /\ \A q \in Reqs : req'[q].pc # "publishing"
  <2>1. ~DetectReuse(r) /\ ~PublishReuse(r)
    BY NeverStolen
  <2>2. /\ \A q \in Reqs \ {r} : req'[q] = req[q]
        /\ req[r].pc \in Stages /\ session'.status = session.status
    BY <1>0, <1>2, <2>1
       DEF ServerStep, Decide, Elect, LoseElection, Follow, ElectionFails, Rotate, Replay, Stale,
           Invalid, Abandon, Deliver, Answering, IsReplay, Presents, Stages, SessionType
  <2>3. req[r] \in ReqType
    BY <2>2, Busy DEF ClientTypeOK
  <2>4. CASE Elect(r) \/ LoseElection(r) \/ Follow(r) \/ ElectionFails(r)
    BY <1>0, <2>2, <2>3, <2>4 DEF Elect, LoseElection, Follow, ElectionFails, ReqType
  <2>5. CASE Rotate(r) \/ Replay(r) \/ Stale(r) \/ Invalid(r)
    BY <1>0, <2>2, <2>3, <2>5 DEF Rotate, Replay, Stale, Invalid, Answering, ReqType
  <2>6. CASE Abandon(r) \/ Deliver(r)
    BY <1>0, <2>2, <2>6 DEF Abandon, Deliver, Idle
  <2> QED BY <1>2, <2>1, <2>4, <2>5, <2>6 DEF ServerStep, Decide
<1>3. CASE Revoke \/ PublishRevoked \/ Expire
  BY <1>0, <1>3 DEF Revoke, PublishRevoked, Expire, SessionType, Uncompromised, Live
<1>4. CASE Tick
  <2>1. session'.status = session.status
    BY <1>0, <1>4 DEF Tick, SessionType
  <2>2. ASSUME NEW q \in Reqs PROVE req'[q].pc # "publishing"
    <3>1. CASE req[q] = Idle
      BY <1>4, <3>1 DEF Tick, Idle
    <3>2. CASE req[q] # Idle
      BY <1>0, <1>4, <3>2 DEF Tick, ReqType
    <3> QED BY <3>1, <3>2
  <2> QED BY <1>0, <2>1, <2>2 DEF Uncompromised, Live
<1>5. CASE UNCHANGED vars
  BY <1>0, <1>5 DEF vars, Uncompromised, Live
<1> QED BY <1>0, <1>1, <1>2, <1>3, <1>4, <1>5 DEF Next, Environment, Uncompromised, Live

LEMMA HonestStep ==
    ASSUME ClientTypeOK, Ordered, KnowTheirs, Honest, InTime, [ClientNext]_allVars, ~hasty'
    PROVE  Honest'
<1>1. /\ Uncompromised' /\ \A q \in Reqs : req'[q].pc # "publishing"
      /\ Live' => Live
  BY NobodyCompromised, ServerLegal
<1>2. SUFFICES ASSUME Live', Live
               PROVE  Alike' /\ OfTheRow' /\ StoreOfTheRow' /\ BeganBefore' /\ StorersOwned'
  BY <1>1 DEF Honest
<1>3. /\ Alike /\ OfTheRow /\ StoreOfTheRow /\ BeganBefore /\ StorersOwned /\ RowOrdered
  BY <1>2 DEF Honest, Ordered
<1>4. ASSUME Calm
      PROVE  Alike' /\ OfTheRow' /\ StoreOfTheRow' /\ BeganBefore' /\ StorersOwned'
  BY <1>2, <1>3, <1>4, CalmStep
<1>5. ~Revoke /\ ~Expire /\ ~PublishRevoked
  BY <1>2 DEF Revoke, Expire, PublishRevoked, Live, ClientTypeOK, TypeOK, SessionType
<1>6. ASSUME NEW t \in Tabs, TabStep(t)
      PROVE  Alike' /\ OfTheRow' /\ StoreOfTheRow' /\ BeganBefore' /\ StorersOwned'
  <2>1. ASSUME NEW r \in Reqs, StartRefresh(t, r)
        PROVE  Alike' /\ OfTheRow' /\ StoreOfTheRow' /\ BeganBefore' /\ StorersOwned'
    BY <1>2, <1>3, <2>1, StartStep
  <2>2. CASE Adopt(t) \/ Forget(t) \/ ForgetInTransport(t) \/ ClearOnLogout(t)
    BY <1>3, <1>4, <2>2, TabCalm
  <2>3. CASE SendLogout(t)
    <3>1. UNCHANGED <<vars, store, exchange>>
      BY <1>5, <2>3 DEF SendLogout
    <3> QED BY <1>3, <1>4, <3>1, TabCalm
  <2> QED BY <1>6, <2>1, <2>2, <2>3 DEF TabStep
<1>7. ASSUME NEW r \in Reqs, UNCHANGED <<store, exchange>>, Orderly(r) \/ ElectionFails(r) \/ Abandon(r)
      PROVE  Alike' /\ OfTheRow' /\ StoreOfTheRow' /\ BeganBefore' /\ StorersOwned'
  <2>1. CASE Rotate(r)
    BY <1>2, <1>3, <1>7, <2>1, RotateStep
  <2>2. ~DetectReuse(r) /\ ~PublishReuse(r)
    BY NeverStolen
  <2>3. CASE ~Rotate(r)
    <3>1. Calm
      BY <1>7, <2>2, <2>3, ServerCalm DEF Orderly, Decide
    <3> QED BY <1>4, <3>1
  <2> QED BY <2>1, <2>3
<1>8. CASE Clock
  BY <1>2, <1>3, <1>8, ClockStep
<1>9. CASE UNCHANGED allVars
  <2>1. UNCHANGED <<vars, store, exchange>>
    BY <1>9 DEF allVars, clientVars
  <2> QED BY <1>3, <1>4, <2>1, TabCalm
<1> QED BY <1>5, <1>6, <1>7, <1>8, <1>9 DEF ClientNext, ServerOnly, ServerFault, clientVars

-----------------------------------------------------------------------------
(* While nothing is lost, every request is some tab's.                       *)
LEMMA OwnedStep ==
    ASSUME ClientTypeOK, AllOwned, [ClientNext]_allVars, ~trouble'
    PROVE  AllOwned'
<1>0. /\ req \in [Reqs -> ReqType \cup {Idle}] /\ exchange \in [Tabs -> Reqs \cup {NoExchange}]
  BY DEF ClientTypeOK, TypeOK
<1>1. ASSUME exchange' = exchange, \A q \in Reqs : UnderWay(q)' => UnderWay(q)
      PROVE  AllOwned'
  BY <1>1 DEF AllOwned, Owned, InFlight
<1>2. ASSUME NEW t \in Tabs, TabStep(t) PROVE AllOwned'
  <2>1. ASSUME NEW r \in Reqs, StartRefresh(t, r) PROVE AllOwned'
    <3>1. /\ exchange[t] = NoExchange /\ exchange' = [exchange EXCEPT ![t] = r]
          /\ \A q \in Reqs \ {r} : req'[q] = req[q]
      BY <1>0, <2>1 DEF StartRefresh, Begin
    <3>2. /\ t \in InFlight' /\ exchange'[t] = r
          /\ \A s \in InFlight : s \in InFlight' /\ exchange'[s] = exchange[s]
      BY <1>0, <3>1, ExchangeAssumption DEF InFlight
    <3>3. r \in Owned' /\ Owned \subseteq Owned'
      BY <3>2 DEF Owned
    <3> QED BY <3>1, <3>3 DEF AllOwned, UnderWay
  <2>2. CASE Adopt(t) \/ Forget(t)
    <3>1. /\ exchange' = [exchange EXCEPT ![t] = NoExchange] /\ exchange[t] \in Reqs
          /\ req' = [req EXCEPT ![exchange[t]] = Idle]
      BY <2>2, Numbers DEF Adopt, Forget, Settle, Deliver
    <3>2. ASSUME NEW q \in Reqs, UnderWay(q)' PROVE q \in Owned'
      <4>1. q # exchange[t] /\ UnderWay(q)
        BY <1>0, <3>1, <3>2 DEF UnderWay
      <4>2. PICK s \in InFlight : exchange[s] = q
        BY <4>1 DEF AllOwned, Owned
      <4>3. s \in InFlight' /\ exchange'[s] = q
        BY <1>0, <3>1, <4>1, <4>2 DEF InFlight
      <4> QED BY <4>3 DEF Owned
    <3> QED BY <3>2 DEF AllOwned
  <2>3. CASE ForgetInTransport(t)
    BY <2>3 DEF ForgetInTransport
  <2>4. CASE ClearOnLogout(t)
    BY <1>1, <2>4 DEF ClearOnLogout, vars, UnderWay
  <2>5. CASE SendLogout(t)
    BY <1>1, <2>5 DEF SendLogout, Revoke, vars, UnderWay
  <2> QED BY <1>2, <2>1, <2>2, <2>3, <2>4, <2>5 DEF TabStep
<1>3. CASE ServerOnly
  <2>1. exchange' = exchange
    BY <1>3 DEF ServerOnly, clientVars
  <2>2. ASSUME NEW r \in Reqs, Orderly(r), NEW q \in Reqs, UnderWay(q)' PROVE UnderWay(q)
    <3>1. req[r] # Idle
      <4>1. req[r].pc \in Stages
        BY <2>2 DEF Orderly, Decide, Elect, LoseElection, Follow, Rotate, Replay, Stale, DetectReuse,
                    Invalid, PublishReuse, Deliver, IsReplay, Presents, Stages
      <4> QED BY <4>1 DEF Stages, Idle
    <3>2. q # r => req'[q] = req[q]
      BY <1>0, <2>2 DEF Orderly, Decide, Elect, LoseElection, Follow, Rotate, Replay, Stale,
                  DetectReuse, Invalid, PublishReuse, Deliver, Answering
    <3> QED BY <2>2, <3>1, <3>2 DEF UnderWay
  <2>3. CASE Revoke \/ PublishRevoked \/ Expire
    BY <1>1, <2>1, <2>3 DEF Revoke, PublishRevoked, Expire, UnderWay
  <2> QED BY <1>1, <1>3, <2>1, <2>2, <2>3 DEF ServerOnly
<1>4. CASE ServerFault
  BY <1>4 DEF ServerFault
<1>5. CASE Clock
  BY <1>1, <1>5, Ticks
<1>6. CASE UNCHANGED allVars
  BY <1>1, <1>6 DEF allVars, vars, clientVars, UnderWay
<1> QED BY <1>2, <1>3, <1>4, <1>5, <1>6 DEF ClientNext

(* Steps that leave the elections alone, and end no request but a late one   *)
(* whose answer is stored.                                                   *)
StillElected ==
    /\ session' = session /\ elected' = elected
    /\ \A q \in Reqs : Stays(q) /\ (UnderWay(q) => UnderWay(q)' \/ Late(q))
    /\ \/ store' = NoTokens
       \/ store' = store /\ \A q \in Reqs : UnderWay(q) => UnderWay(q)'
       \/ store'.token = session.current
StillFollows(q) ==
    LET t == req[q].presented IN
    UnderWay(q)' =>
        /\ req'[q].pc # "electing" => Elected(t)
        /\ req'[q].pc \in {"rotating", "answered"} => req'[q].proposal = elected[t].succ
        /\ req'[q].pc = "answered" => req'[q].ok

LEMMA StillStep ==
    ASSUME Elections, AllFollow, StillElected, \A q \in Reqs : StillFollows(q)
    PROVE  Elections' /\ AllFollow'
<1>1. /\ session' = session /\ elected' = elected
      /\ \A q \in Reqs : UnderWay(q)' => /\ UnderWay(q) /\ req'[q].presented = req[q].presented
                                         /\ req'[q].age = req[q].age
      /\ \A q \in Reqs : UnderWay(q) => UnderWay(q)' \/ Late(q)
  BY DEF StillElected, Stays
<1>2. ASSUME NEW q \in Reqs, UnderWay(q)' PROVE Followed(q)' /\ (req'[q].pc = "answered" => req'[q].ok)
  <2>1. Followed(q) /\ StillFollows(q)
    BY <1>1, <1>2 DEF AllFollow
  <2> QED BY <1>1, <1>2, <2>1 DEF Followed, StillFollows, Elected, Lives
<1>3. AllFollow'
  BY <1>2 DEF AllFollow
<1>4. \A t \in Token : Elected(t)' => t <= session'.current
  BY <1>1 DEF Elections, Elected
<1>5. ASSUME NEW q \in Reqs, UnderWay(q), req[q].presented = session.current
      PROVE  UnderWay(q)' /\ req'[q].presented = req[q].presented /\ req'[q].age = req[q].age
  BY <1>1, <1>5 DEF Late
<1>6. elected'[session'.current] # NoElection =>
          \E q \in Reqs : /\ UnderWay(q)' /\ req'[q].presented = session'.current
                          /\ elected'[session'.current].ttl + req'[q].age >= Grace + Slack
  BY <1>1, <1>5 DEF Elections, ElectorUnderWay, Elected, Lives
<1>7. store' # NoTokens /\ elected'[store'.token] # NoElection =>
          \E q \in Reqs : /\ UnderWay(q)' /\ req'[q].presented = store'.token
                          /\ elected'[store'.token].ttl + req'[q].age >= Grace + Slack
  <2>1. CASE store'.token = session.current
    BY <1>1, <1>6, <2>1
  <2>2. CASE store' = store /\ \A q \in Reqs : UnderWay(q) => UnderWay(q)'
    BY <1>1, <2>2 DEF Elections, ElectorUnderWay, Elected, Lives
  <2> QED BY <2>1, <2>2 DEF StillElected
<1> QED BY <1>3, <1>4, <1>6, <1>7 DEF Elections, ElectorUnderWay, Elected, Lives

(* One request at a time: it loses an election, or follows it, ...           *)
LEMMA FollowStep ==
    ASSUME ClientTypeOK, Ordered, Live, Alike, OfTheRow, Elections, AllFollow,
           NEW r \in Reqs, LoseElection(r) \/ Follow(r) \/ Replay(r), UNCHANGED <<store, exchange>>
    PROVE  Elections' /\ AllFollow'
<1>0. req \in [Reqs -> ReqType \cup {Idle}]
  BY DEF ClientTypeOK, TypeOK
<1>1. /\ session' = session /\ elected' = elected /\ store' = store
      /\ \A q \in Reqs \ {r} : req'[q] = req[q]
      /\ req[r].pc \in {"electing", "following", "rotating"}
  BY <1>0 DEF LoseElection, Follow, Replay, Answering, IsReplay, Presents
<1>2. UnderWay(r) /\ req[r] \in ReqType
  BY <1>1, Numbers
<1>3. Calm
  BY ServerCalm
<1>4. UnderWay(r)' /\ StillFollows(r)
  <2>1. CASE LoseElection(r)
    <3>1. Elected(req[r].presented) /\ req'[r] = [req[r] EXCEPT !.pc = "following"]
      BY <1>0, <2>1 DEF LoseElection, Elected
    <3>2. req'[r].pc = "following"
      BY <1>2, <3>1 DEF ReqType
    <3> QED BY <3>1, <3>2 DEF StillFollows, UnderWay, Idle
  <2>2. CASE Follow(r)
    <3>1. Elected(req[r].presented)
      BY <1>2, <2>2 DEF Follow, AllFollow, Followed
    <3> DEFINE proposal == elected[req[r].presented].succ
    <3>2. req'[r] = [req[r] EXCEPT !.pc = "rotating", !.proposal = proposal]
      BY <1>0, <2>2, <3>1 DEF Follow, Elected
    <3> HIDE DEF proposal
    <3>3. req'[r].pc = "rotating" /\ req'[r].proposal = proposal
      BY <1>2, <3>2 DEF ReqType
    <3> QED BY <3>1, <3>3 DEF StillFollows, UnderWay, Idle, proposal
  <2>3. CASE Replay(r)
    <3>1. /\ req[r].pc = "rotating" /\ req'[r].pc = "answered" /\ req'[r].ok
          /\ req'[r].proposal = req[r].proposal
      BY <1>0, <1>2, <2>3 DEF Replay, IsReplay, Presents, Answering, ReqType
    <3>2. Elected(req[r].presented) /\ req[r].proposal = elected[req[r].presented].succ
      BY <1>2, <3>1 DEF AllFollow, Followed
    <3> QED BY <3>1, <3>2 DEF StillFollows, UnderWay, Idle
  <2> QED BY <2>1, <2>2, <2>3
<1>5. ASSUME NEW q \in Reqs \ {r} PROVE StillFollows(q) /\ (UnderWay(q) => UnderWay(q)')
  BY <1>1, <1>5 DEF StillFollows, AllFollow, Followed, UnderWay
<1>6. StillElected
  BY <1>1, <1>2, <1>3, <1>4, <1>5 DEF StillElected, Calm
<1> QED BY <1>4, <1>5, <1>6, StillStep

(* ... is elected, ...                                                       *)
LEMMA ElectStep ==
    ASSUME ClientTypeOK, Ordered, Live, Alike, OfTheRow, Elections, AllFollow,
           NEW r \in Reqs, Elect(r), UNCHANGED <<store, exchange>>
    PROVE  Elections' /\ AllFollow'
<1> DEFINE p == req[r].presented
<1>0. /\ req \in [Reqs -> ReqType \cup {Idle}] /\ Grace + Slack \in Nat
      /\ DOMAIN elected = Token
  BY Numbers DEF ClientTypeOK, TypeOK
<1>1. /\ session' = session /\ store' = store /\ req[r].pc = "electing" /\ ~Elected(p)
      /\ elected' = [elected EXCEPT ![p] = [succ |-> req[r].proposal, ttl |-> Grace + Slack]]
      /\ req' = [req EXCEPT ![r] = [req[r] EXCEPT !.pc = "rotating"]]
  BY DEF Elect, Elected
<1>2. UnderWay(r) /\ req[r] \in ReqType /\ p \in Token /\ p \in Nat
  BY <1>1, Numbers
<1>3. /\ elected'[p].succ = req[r].proposal /\ elected'[p].ttl = Grace + Slack
      /\ \A t \in Token \ {p} : elected'[t] = elected[t]
  BY <1>0, <1>1, <1>2
<1>e. elected'[p] # NoElection
  BY <1>0, <1>3, WindowAssumption DEF NoElection
<1>4. /\ req'[r].pc = "rotating" /\ req'[r].presented = p /\ req'[r].proposal = req[r].proposal
      /\ req'[r].age = req[r].age /\ req[r].age \in Nat /\ UnderWay(r)'
      /\ \A q \in Reqs \ {r} : req'[q] = req[q]
  BY <1>0, <1>1, <1>2, Numbers DEF ReqType, UnderWay, Idle
<1>5. p = session.current
  BY <1>1, <1>2 DEF AllFollow, Followed
<1>6. \A t \in Token : elected'[t] # NoElection => t <= session'.current
  BY <1>1, <1>2, <1>3, <1>5 DEF Elections, Elected
<1>7. ASSUME NEW t \in Token, elected'[t] # NoElection, ElectorUnderWay(t)
      PROVE  \E q \in Reqs : /\ UnderWay(q)' /\ req'[q].presented = t
                             /\ elected'[t].ttl + req'[q].age >= Grace + Slack
  <2>1. CASE t = p
    BY <1>0, <1>3, <1>4, <2>1
  <2>2. CASE t # p
    <3>1. PICK q \in Reqs : UnderWay(q) /\ req[q].presented = t /\ Lives(t, req[q].age)
      BY <1>3, <1>7, <2>2 DEF ElectorUnderWay, Elected
    <3>2. q # r
      BY <2>2, <3>1
    <3> QED BY <1>3, <1>4, <2>2, <3>1, <3>2 DEF Lives, UnderWay
  <2> QED BY <2>1, <2>2
<1>8. session'.current \in Token /\ (store' # NoTokens => store'.token \in Token)
  BY <1>1, Numbers DEF ClientTypeOK, TypeOK, SessionType
<1>9. /\ elected'[session'.current] # NoElection =>
             \E q \in Reqs : /\ UnderWay(q)' /\ req'[q].presented = session'.current
                             /\ elected'[session'.current].ttl + req'[q].age >= Grace + Slack
      /\ store' # NoTokens /\ elected'[store'.token] # NoElection =>
             \E q \in Reqs : /\ UnderWay(q)' /\ req'[q].presented = store'.token
                             /\ elected'[store'.token].ttl + req'[q].age >= Grace + Slack
  BY <1>1, <1>7, <1>8 DEF Elections
<1>10. Elections'
  BY <1>6, <1>9 DEF Elections, ElectorUnderWay, Elected, Lives
<1>11. ASSUME NEW q \in Reqs, UnderWay(q)'
       PROVE  Followed(q)' /\ (req'[q].pc = "answered" => req'[q].ok)
  <2>1. CASE q = r
    BY <1>0, <1>1, <1>3, <1>e, <1>4, <1>5, <2>1, Numbers DEF Followed, Elected, Lives
  <2>2. CASE q # r
    <3>1. UnderWay(q) /\ req'[q] = req[q]
      BY <1>4, <1>11, <2>2 DEF UnderWay
    <3>2. req[q].presented = p /\ Followed(q) /\ (req[q].pc = "answered" => req[q].ok)
          /\ req[q].age \in Nat
      BY <1>2, <3>1, Numbers DEF Alike, AllFollow
    <3>3. req[q].pc = "electing"
      <4>1. ~Elected(p) /\ (req[q].pc # "electing" => Elected(p))
        BY <1>1, <3>2 DEF Followed
      <4> QED BY <4>1
    <3>4. elected'[p].ttl + (req[q].age + MaxDelay) >= Grace + Slack
      BY <1>0, <1>3, <3>2, Numbers
    <3> QED BY <1>1, <1>3, <1>e, <1>5, <3>1, <3>2, <3>3, <3>4 DEF Followed, Elected, Lives
  <2> QED BY <2>1, <2>2
<1> QED BY <1>10, <1>11 DEF AllFollow

(* ... or rotates the row to the one elected.                                *)
LEMMA RotateFollows ==
    ASSUME ClientTypeOK, Ordered, Live, Alike, OfTheRow, Elections, AllFollow,
           NEW r \in Reqs, Rotate(r), UNCHANGED <<store, exchange>>
    PROVE  Elections' /\ AllFollow'
<1> DEFINE p == session.current
           v == req[r].proposal
<1>0. req \in [Reqs -> ReqType \cup {Idle}] /\ p \in Token /\ p \in Nat
  BY Numbers DEF ClientTypeOK, TypeOK, SessionType
<1>1. req[r].pc = "rotating" /\ req[r].presented = p /\ UnderWay(r) /\ req[r] \in ReqType
  BY Numbers DEF Rotate, Presents
<1>2. session'.current = v /\ elected' = elected /\ store' = store
  BY DEF Rotate, Answering, ClientTypeOK, TypeOK, SessionType
<1>3. /\ req'[r].pc = "answered" /\ req'[r].ok /\ req'[r].presented = req[r].presented
      /\ req'[r].proposal = v /\ req'[r].age = req[r].age
      /\ \A q \in Reqs \ {r} : req'[q] = req[q]
      /\ UnderWay(r)'
  BY <1>0, <1>1 DEF Rotate, Answering, ReqType, UnderWay, Idle
<1>4. p < v /\ v \in Token /\ v \in Nat
  BY <1>1, Numbers DEF Ordered, ProposalsOrdered, Proposing
<1>5. Elected(p) /\ elected[p].succ = v
  BY <1>1 DEF AllFollow, Followed
<1>6. \A q \in Reqs : UnderWay(q)' => /\ UnderWay(q) /\ req'[q].presented = p
                                      /\ req'[q].age = req[q].age
  BY <1>1, <1>3 DEF Alike, UnderWay
<1>7. \A q \in Reqs : UnderWay(q) => UnderWay(q)' /\ req'[q].presented = req[q].presented
                                     /\ req'[q].age = req[q].age
  BY <1>1, <1>3 DEF UnderWay
<1>8. \A t \in Token : elected'[t] # NoElection => t <= session'.current
  <2>1. \A t \in Token : t \in Nat
    BY RotationBoundsAssumption DEF Token
  <2> QED BY <1>0, <1>2, <1>4, <2>1 DEF Elections, Elected
<1>9. elected'[session'.current] = NoElection
  BY <1>0, <1>2, <1>4 DEF Elections, Elected
<1>10. store' # NoTokens /\ elected'[store'.token] # NoElection =>
           \E q \in Reqs : /\ UnderWay(q)' /\ req'[q].presented = store'.token
                           /\ elected'[store'.token].ttl + req'[q].age >= Grace + Slack
  BY <1>2, <1>7 DEF Elections, ElectorUnderWay, Elected, Lives
<1>11. Elections'
  BY <1>8, <1>9, <1>10 DEF Elections, ElectorUnderWay, Elected, Lives
<1>12. ASSUME NEW q \in Reqs, UnderWay(q)'
       PROVE  Followed(q)' /\ (req'[q].pc = "answered" => req'[q].ok)
  <2>1. Followed(q) /\ req[q].presented = p /\ (req[q].pc = "answered" => req[q].ok)
    BY <1>1, <1>6, <1>12 DEF AllFollow, Alike
  <2>2. /\ req'[q].pc # "electing" => Elected(p)
        /\ req'[q].pc \in {"rotating", "answered"} => req'[q].proposal = elected[p].succ
        /\ req'[q].pc = "answered" => req'[q].ok
    BY <1>3, <1>5, <2>1 DEF Followed
  <2> QED BY <1>2, <1>5, <1>6, <1>12, <2>1, <2>2 DEF Followed, Elected, Lives
<1> QED BY <1>11, <1>12 DEF AllFollow

(* A tab's new request presents what the elector, if there is one, is still  *)
(* under way with.                                                           *)
LEMMA StartFollows ==
    ASSUME ClientTypeOK, Live, OfTheRow, StoreOfTheRow, Elections, AllFollow,
           NEW t \in Tabs, NEW r \in Reqs, StartRefresh(t, r)
    PROVE  Elections' /\ AllFollow'
<1> DEFINE p == store.token
<1>1. /\ session' = session /\ store' = store /\ elected' = elected /\ store # NoTokens
      /\ req[r] = Idle
  BY DEF StartRefresh, Begin
<1>2. /\ req'[r].presented = p /\ req'[r].age = 0 /\ req'[r].pc = "electing"
      /\ \A q \in Reqs \ {r} : req'[q] = req[q]
  BY DEF StartRefresh, Begin, ClientTypeOK, TypeOK
<1>3. \A q \in Reqs : UnderWay(q) => q # r /\ UnderWay(q)' /\ req'[q] = req[q]
  BY <1>1, <1>2 DEF UnderWay
<1>4. /\ elected'[session'.current] # NoElection =>
             \E q \in Reqs : /\ UnderWay(q)' /\ req'[q].presented = session'.current
                             /\ elected'[session'.current].ttl + req'[q].age >= Grace + Slack
      /\ store' # NoTokens /\ elected'[store'.token] # NoElection =>
             \E q \in Reqs : /\ UnderWay(q)' /\ req'[q].presented = store'.token
                             /\ elected'[store'.token].ttl + req'[q].age >= Grace + Slack
  BY <1>1, <1>3 DEF Elections, ElectorUnderWay, Elected, Lives
<1>5. Elections'
  BY <1>1, <1>4 DEF Elections, ElectorUnderWay, Elected, Lives
<1>6. Elected(p) => elected[p].ttl + MaxDelay >= Grace + Slack
  <2>1. ASSUME Elected(p) PROVE elected[p].ttl + MaxDelay >= Grace + Slack
    <3>1. PICK q \in Reqs : UnderWay(q) /\ Lives(p, req[q].age)
      BY <1>1, <2>1 DEF Elections, ElectorUnderWay
    <3>2. elected[p].ttl \in Nat
      BY <1>1, <2>1, Numbers DEF Elected, ClientTypeOK, TypeOK
    <3> QED BY <3>1, <3>2, Numbers DEF Lives
  <2> QED BY <2>1
<1>7. p # session.current => Elected(p) /\ elected[p].succ = session.current
  <2>1. ASSUME p = session.previous, Relieved, p # session.current
        PROVE  Elected(p) /\ elected[p].succ = session.current
    <3>1. PICK s \in InFlight : Succeeded(exchange[s])
      BY <2>1 DEF Relieved
    <3>2. /\ exchange[s] \in Reqs /\ UnderWay(exchange[s]) /\ req[exchange[s]].presented = p
      BY <2>1, <3>1, Numbers DEF OfTheRow, Succeeded
    <3> QED BY <2>1, <3>2 DEF AllFollow, Followed
  <2> QED BY <1>1, <2>1 DEF StoreOfTheRow
<1>8. Followed(r)'
  BY <1>1, <1>2, <1>6, <1>7, Numbers DEF Followed, Elected, Lives
<1>9. ASSUME NEW q \in Reqs \ {r}, UnderWay(q)'
      PROVE  Followed(q)' /\ (req'[q].pc = "answered" => req'[q].ok)
  BY <1>1, <1>2, <1>9 DEF AllFollow, Followed, Elected, Lives, UnderWay
<1> QED BY <1>2, <1>5, <1>8, <1>9 DEF AllFollow

(* No key expires under a request that needs it: it lives for the window and *)
(* the slack, and they need it no longer than two exchanges.                 *)
LEMMA ClockFollows ==
    ASSUME ClientTypeOK, InTime, Elections, AllFollow, Clock
    PROVE  Elections' /\ AllFollow'
<1>1. /\ session'.current = session.current /\ session.current \in Token
      /\ store' = NoTokens <=> store = NoTokens
      /\ store # NoTokens => store'.token = store.token /\ store.token \in Token
      /\ \A q \in Reqs : /\ UnderWay(q)' <=> UnderWay(q)
                         /\ UnderWay(q) =>
                               /\ req'[q].presented = req[q].presented
                               /\ req'[q].proposal = req[q].proposal
                               /\ req'[q].pc = req[q].pc /\ req'[q].ok = req[q].ok
                               /\ req'[q].age = req[q].age + 1 /\ req[q].age < MaxDelay
                               /\ req[q].age \in Nat /\ req[q].presented \in Token
  BY Ticks, Numbers DEF ClientTypeOK, TypeOK, SessionType
<1>2. ASSUME NEW t \in Token
      PROVE  /\ elected'[t] # NoElection =>
                    /\ elected[t] # NoElection /\ elected[t].ttl \in Nat
                    /\ elected'[t].ttl = elected[t].ttl - 1
                    /\ elected'[t].succ = elected[t].succ
             /\ elected[t] # NoElection /\ elected[t].ttl > 1 => elected'[t] # NoElection
             /\ elected[t] # NoElection => elected[t].ttl \in Nat
  <2>1. elected'[t] = Aged(elected[t])
    BY DEF Clock, Tick
  <2>2. CASE elected[t] = NoElection
    BY <2>1, <2>2 DEF Aged, NoElection
  <2>3. CASE elected[t] # NoElection
    <3>1. elected[t] \in [succ : Token, ttl : 1 .. Grace + Slack]
      BY <2>3 DEF ClientTypeOK, TypeOK
    <3>2. elected[t].ttl \in Nat
      BY <3>1, Numbers
    <3>3. CASE elected[t].ttl <= 1
      BY <2>1, <2>3, <3>2, <3>3 DEF Aged
    <3>4. CASE ~(elected[t].ttl <= 1)
      <4>1. elected'[t] = [elected[t] EXCEPT !.ttl = @ - 1]
        BY <2>1, <3>4 DEF Aged
      <4>2. elected'[t].ttl = elected[t].ttl - 1 /\ elected'[t].succ = elected[t].succ
        BY <3>1, <4>1
      <4>3. elected'[t].ttl # 0
        BY <3>2, <3>4, <4>2
      <4>4. elected'[t] # NoElection
        BY <4>3 DEF NoElection
      <4> QED BY <2>3, <3>2, <4>2, <4>4
    <3> QED BY <3>3, <3>4
  <2> QED BY <2>2, <2>3
<1>3. \A t \in Token : elected'[t] # NoElection => t <= session'.current
  BY <1>1, <1>2 DEF Elections, Elected
<1>4. ASSUME NEW t \in Token, ElectorUnderWay(t), elected'[t] # NoElection
      PROVE  \E q \in Reqs : /\ UnderWay(q)' /\ req'[q].presented = t
                             /\ elected'[t].ttl + req'[q].age >= Grace + Slack
  <2>1. PICK q \in Reqs : UnderWay(q) /\ req[q].presented = t /\ Lives(t, req[q].age)
    BY <1>2, <1>4 DEF ElectorUnderWay, Elected
  <2>2. elected'[t].ttl + req'[q].age >= Grace + Slack
    BY <1>1, <1>2, <1>4, <2>1, Numbers DEF Lives
  <2> QED BY <1>1, <2>1, <2>2
<1>5. Elections'
  BY <1>1, <1>3, <1>4 DEF Elections, ElectorUnderWay, Elected, Lives
<1>6. ASSUME NEW q \in Reqs, UnderWay(q)'
      PROVE  Followed(q)' /\ (req'[q].pc = "answered" => req'[q].ok)
  <2> DEFINE t == req[q].presented
  <2>1. UnderWay(q) /\ Followed(q) /\ t \in Token /\ (req[q].pc = "answered" => req[q].ok)
    BY <1>1, <1>6 DEF AllFollow
  <2>2. Elected(t) => elected'[t] # NoElection /\ elected'[t].succ = elected[t].succ
    <3>1. ASSUME Elected(t) PROVE elected[t].ttl > 1
      <4>1. elected[t].ttl + (req[q].age + MaxDelay) >= Grace + Slack /\ elected[t].ttl \in Nat
        BY <1>2, <2>1, <3>1 DEF Followed, Lives, Elected
      <4>2. req[q].age < MaxDelay /\ req[q].age \in Nat
        BY <1>1, <2>1
      <4> QED BY <4>1, <4>2, Numbers DEF InTime
    <3> QED BY <1>2, <2>1, <3>1 DEF Elected
  <2>3. elected'[t] # NoElection => elected'[t].ttl + (req'[q].age + MaxDelay) >= Grace + Slack
    <3>1. ASSUME elected'[t] # NoElection
          PROVE  elected'[t].ttl + (req'[q].age + MaxDelay) >= Grace + Slack
      <4>1. /\ elected[t].ttl + (req[q].age + MaxDelay) >= Grace + Slack
            /\ elected'[t].ttl = elected[t].ttl - 1 /\ elected[t].ttl \in Nat
        BY <1>2, <2>1, <3>1 DEF Followed, Lives, Elected
      <4>2. req'[q].age = req[q].age + 1 /\ req[q].age \in Nat
        BY <1>1, <2>1
      <4> QED BY <4>1, <4>2, Numbers
    <3> QED BY <3>1
  <2> QED BY <1>1, <2>1, <2>2, <2>3 DEF Followed, Elected, Lives
<1> QED BY <1>5, <1>6 DEF AllFollow

LEMMA UndisturbedStep ==
    ASSUME ClientTypeOK, Ordered, KnowTheirs, Honest, InTime, ~hasty,
           ~hasty /\ ~trouble => Undisturbed, [ClientNext]_allVars, ~trouble'
    PROVE  Undisturbed'
<1>1. ~trouble /\ ~ServerFault /\ \A t \in Tabs : ~ForgetInTransport(t)
  BY DEF ServerFault, ForgetInTransport, ClientNext, TabStep, StartRefresh, Adopt, Forget, SendLogout,
         ClearOnLogout, ServerOnly, Clock, clientVars, allVars
<1>2. AllOwned /\ AllOwned'
  BY <1>1, OwnedStep DEF Undisturbed
<1>3. SUFFICES ASSUME Live', Live
               PROVE  /\ store' = NoTokens => signedOut' # "no"
                      /\ Elections' /\ AllFollow'
  BY <1>2, NobodyCompromised, ServerLegal DEF Undisturbed
<1>4. /\ Alike /\ OfTheRow /\ StoreOfTheRow
      /\ store = NoTokens => signedOut # "no"
      /\ Elections /\ AllFollow
  BY <1>1, <1>3 DEF Honest, Undisturbed
<1>5. ~Revoke /\ ~Expire /\ ~PublishRevoked
  BY <1>3 DEF Revoke, Expire, PublishRevoked, Live, ClientTypeOK, TypeOK, SessionType
<1>6. ASSUME UNCHANGED <<vars, store>>
      PROVE  Elections' /\ AllFollow'
  BY <1>4, <1>6 DEF vars, Elections, AllFollow, ElectorUnderWay, Elected, Lives, Followed, UnderWay
<1>7. ASSUME NEW t \in Tabs, TabStep(t)
      PROVE  /\ store' = NoTokens => signedOut' # "no"
             /\ Elections' /\ AllFollow'
  <2>1. ASSUME NEW r \in Reqs, StartRefresh(t, r)
        PROVE  /\ store' = NoTokens => signedOut' # "no"
               /\ Elections' /\ AllFollow'
    <3>1. store' = store /\ signedOut' = signedOut
      BY <2>1 DEF StartRefresh
    <3> QED BY <1>3, <1>4, <2>1, <3>1, StartFollows
  <2>2. CASE Adopt(t)
    <3> DEFINE r == exchange[t]
    <3>1. /\ r \in Reqs /\ Succeeded(r) /\ req' = [req EXCEPT ![r] = Idle]
          /\ session' = session /\ elected' = elected
          /\ store' = [token |-> req[r].proposal, age |-> 0]
      BY <2>2, Numbers DEF Adopt, Deliver, Succeeded
    <3>2. Late(r) /\ req[r].proposal = session.current /\ session.current # None
      BY <1>4, <3>1, Numbers DEF OfTheRow, None
    <3>3. store'.token = session.current /\ store' # NoTokens
      BY <3>1, <3>2 DEF NoTokens
    <3>4. Calm
      BY <1>4, <2>2, TabCalm
    <3>5. \A q \in Reqs : (q = r /\ req'[q] = Idle) \/ req'[q] = req[q]
      BY <3>1 DEF ClientTypeOK, TypeOK
    <3>6. StillElected
      BY <3>1, <3>2, <3>3, <3>4, <3>5 DEF StillElected, Calm, UnderWay
    <3>7. \A q \in Reqs : StillFollows(q)
      BY <1>4, <3>5 DEF StillFollows, AllFollow, Followed, UnderWay
    <3> QED BY <1>4, <3>3, <3>6, <3>7, StillStep
  <2>3. ~Forget(t)
    <3>1. ASSUME Forget(t) PROVE FALSE
      <4>1. exchange[t] \in Reqs /\ req[exchange[t]].pc = "answered" /\ ~req[exchange[t]].ok
        BY <3>1, Numbers DEF Forget, Deliver
      <4> QED BY <1>4, <4>1, Numbers DEF AllFollow
    <3> QED BY <3>1
  <2>4. CASE ClearOnLogout(t)
    <3>1. UNCHANGED vars /\ store' = NoTokens /\ signedOut' # "no"
      BY <2>4 DEF ClearOnLogout
    <3>2. StillElected
      BY <3>1, Numbers DEF StillElected, vars, Stays, UnderWay
    <3>3. \A q \in Reqs : StillFollows(q)
      BY <1>4, <3>1 DEF vars, StillFollows, AllFollow, Followed, UnderWay
    <3> QED BY <1>4, <3>1, <3>2, <3>3, StillStep
  <2>5. CASE SendLogout(t)
    <3>1. UNCHANGED <<vars, store, signedOut>>
      BY <1>5, <2>5 DEF SendLogout
    <3> QED BY <1>4, <1>6, <3>1
  <2> QED BY <1>1, <1>7, <2>1, <2>2, <2>3, <2>4, <2>5 DEF TabStep
<1>8. CASE ServerOnly
  <2>1. UNCHANGED <<store, exchange, signedOut>>
    BY <1>8 DEF ServerOnly, clientVars
  <2>2. PICK r \in Reqs : Orderly(r)
    BY <1>5, <1>8 DEF ServerOnly
  <2>3. ~DetectReuse(r) /\ ~PublishReuse(r) /\ ~Invalid(r)
    BY <1>3, NeverStolen DEF Invalid
  <2>4. ~Stale(r)
    <3>1. ASSUME Stale(r) PROVE FALSE
      <4>1. /\ req[r].pc = "rotating" /\ UnderWay(r) /\ req[r].proposal # session.current
            /\ req[r].presented # session.current
        BY <3>1, Numbers DEF Stale, IsReplay, Presents
      <4> QED BY <1>4, <4>1 DEF AllFollow, Followed
    <3> QED BY <3>1
  <2>5. ~(r \notin Owned /\ Deliver(r))
    BY <1>2, Numbers DEF AllOwned, Deliver
  <2>6. Elections' /\ AllFollow'
    <3>1. CASE Elect(r)
      BY <1>3, <1>4, <2>1, <3>1, ElectStep
    <3>2. CASE LoseElection(r) \/ Follow(r) \/ Replay(r)
      BY <1>3, <1>4, <2>1, <3>2, FollowStep
    <3>3. CASE Rotate(r)
      BY <1>3, <1>4, <2>1, <3>3, RotateFollows
    <3> QED BY <2>2, <2>3, <2>4, <2>5, <3>1, <3>2, <3>3 DEF Orderly, Decide
  <2> QED BY <1>4, <2>1, <2>6
<1>9. CASE Clock
  <2>1. signedOut' = signedOut /\ (store' = NoTokens <=> store = NoTokens)
    BY <1>9, Ticks DEF Clock
  <2> QED BY <1>4, <1>9, <2>1, ClockFollows
<1>10. CASE UNCHANGED allVars
  BY <1>4, <1>6, <1>10 DEF allVars, clientVars
<1> QED BY <1>1, <1>7, <1>8, <1>9, <1>10 DEF ClientNext

LEMMA ClientStart == ClientInit => TabsIInv
<1> SUFFICES ASSUME ClientInit PROVE TabsIInv
  OBVIOUS
<1>1. /\ Init /\ store = [token |-> 0, age |-> 0] /\ InFlight = {}
      /\ exchange = [t \in Tabs |-> NoExchange] /\ leaving = {}
      /\ signedOut = "no" /\ trouble = FALSE /\ hasty = FALSE
  BY DEF ClientInit, InFlight
<1>2. TypeOK /\ Ordered
  <2>1. TypeOK
    BY <1>1, TypeStart
  <2> QED BY <1>1, <2>1
      DEF Init, Ordered, Lineage, PairsOrdered, RowOrdered, ProposalsOrdered, Proposing,
          ElectionsOrdered, None, Idle
<1>3. ClientTypeOK
  <2>1. 0 \in Token /\ 0 \in 0 .. Period
    BY RotationBoundsAssumption, PeriodAssumption DEF Token
  <2>2. store \in [token : Token, age : 0 .. Period]
    BY <1>1, <2>1
  <2>3. exchange \in [Tabs -> Reqs \cup {NoExchange}]
    BY <1>1
  <2> QED BY <1>1, <1>2, <2>2, <2>3 DEF ClientTypeOK
<1>4. /\ \A r \in Reqs : ~UnderWay(r) /\ req[r].pc = "idle"
      /\ session.current = 0 /\ session.status = "live" /\ 0 \in Known
      /\ \A t \in Token : ~Elected(t)
  BY <1>1 DEF Init, UnderWay, Idle, Known, Elected
<1>5. TabsApart /\ KnowTheirs /\ OutForGood
  BY <1>1, <1>4 DEF TabsApart, KnowTheirs, OutForGood, Succeeded
<1>6. Honest
  BY <1>1, <1>4 DEF Honest, Uncompromised, Alike, OfTheRow, StoreOfTheRow, BeganBefore, StorersOwned,
                    Succeeded, Late
<1>7. Undisturbed
  <2>1. store # NoTokens /\ 0 \in Token /\ store.token = 0
    BY <1>1, RotationBoundsAssumption DEF NoTokens, None, Token
  <2> QED BY <1>4, <2>1 DEF Undisturbed, AllOwned, Elections, AllFollow, ElectorUnderWay
<1> QED BY <1>2, <1>3, <1>5, <1>6, <1>7 DEF TabsIInv

(* The invariant of the tabs and their server, for any number of tabs and    *)
(* requests, whatever dies, is lost or is refused: provided that exchanges   *)
(* end within half the grace window, and before a token is due again.        *)
THEOREM TabsInvariant == ASSUME InTime PROVE ClientSpec => []TabsIInv
<1>1. TabsIInv /\ [ClientNext]_allVars => TabsIInv'
  <2> SUFFICES ASSUME TabsIInv, [ClientNext]_allVars
               PROVE  TabsIInv'
    OBVIOUS
  <2>1. /\ ClientTypeOK /\ Ordered /\ TabsApart /\ KnowTheirs /\ OutForGood
        /\ ~hasty => Honest
        /\ ~hasty /\ ~trouble => Undisturbed
    BY DEF TabsIInv
  <2>2. ClientTypeOK' /\ KnowTheirs' /\ TabsApart' /\ OutForGood'
    BY <2>1, ClientTypeStep, KnowStep, ApartStep
  <2>3. Ordered'
    BY <2>1, <2>2, ServerLegal, OrderedStep DEF ClientTypeOK
  <2>4. ~hasty' => Honest'
    BY <2>1, HastyStays, HonestStep
  <2>5. ~hasty' /\ ~trouble' => Undisturbed'
    BY <2>1, HastyStays, UndisturbedStep
  <2> QED BY <2>2, <2>3, <2>4, <2>5 DEF TabsIInv
<1> QED BY <1>1, ClientStart, PTL DEF ClientSpec

(* Tabs that only ever present what the shared slot held are never taken for *)
(* a thief, however their requests race, die and are forgotten: unless one   *)
(* renewed a token not yet due beside an exchange of an older one.           *)
THEOREM HonestTabs == ASSUME InTime PROVE ClientSpec => []HonestSurvives
<1>1. TabsIInv => HonestSurvives
  BY DEF TabsIInv, Honest, Uncompromised, HonestSurvives
<1> QED BY <1>1, TabsInvariant, PTL

(* Tabs that race for the shared slot end with the row's own token in it;    *)
(* and while nothing is lost none is refused, and none signed out of a live  *)
(* session: as long as none was hasty, which only the first of them needs in *)
(* what TLC has seen.                                                        *)
THEOREM TabsAgree == ASSUME InTime PROVE ClientSpec => [](~hasty => TabsConverge)
<1>1. TabsIInv => (~hasty => TabsConverge)
  <2> SUFFICES ASSUME TabsIInv, ~hasty PROVE TabsConverge
    OBVIOUS
  <2>1. StoreIsCurrent
    BY DEF TabsIInv, Honest, StoreOfTheRow, Relieved, StoreIsCurrent
  <2>2. RacingTabsStaySignedIn
    BY DEF TabsIInv, Undisturbed, RacingTabsStaySignedIn
  <2>3. LoserNeverRefused
    <3>1. SUFFICES ASSUME ~trouble, Live, NEW r \in Reqs, ~Presents(r, session.current), IsReplay(r)
                   PROVE  req[r].proposal = session.current
      BY DEF LoserNeverRefused, RaceNeverRefused
    <3>2. req[r].pc = "rotating" /\ UnderWay(r) /\ req[r].presented # session.current
      BY <3>1, Numbers DEF TabsIInv, IsReplay, Presents
    <3> QED BY <3>1, <3>2 DEF TabsIInv, Undisturbed, AllFollow, Followed
  <2> QED BY <2>1, <2>2, <2>3 DEF TabsConverge
<1> QED BY <1>1, TabsInvariant, PTL

(* Out for good: tokens cleared by a logout beside which nothing was in      *)
(* flight do not come back, whatever the server answers and however long     *)
(* exchanges take.                                                           *)
THEOREM LoggedOut == ClientSpec => []SignedOutStays
<1>1. ClientInit => ClientTypeOK /\ KnowTheirs /\ TabsApart /\ OutForGood
  BY ClientStart DEF TabsIInv
<1>2. ClientTypeOK /\ KnowTheirs /\ TabsApart /\ OutForGood /\ [ClientNext]_allVars
        => (ClientTypeOK /\ KnowTheirs /\ TabsApart /\ OutForGood)'
  BY ClientTypeStep, KnowStep, ApartStep
<1>3. OutForGood => SignedOutStays
  BY DEF OutForGood, SignedOutStays
<1> QED BY <1>1, <1>2, <1>3, PTL DEF ClientSpec

-----------------------------------------------------------------------------
(* ConsoleShell.  No number is of a session to come, ...                     *)
TabKnows ==
    /\ slot.session <= Len(owner) /\ tab.heard <= Len(owner) /\ tab.ran <= Len(owner)
    /\ \A w \in DOMAIN renewal : renewal[w].session <= Len(owner)

(* ... a renewal that is not late is of the session in the slot, ...         *)
OnTime ==
    \A w \in DOMAIN renewal :
        renewal[w].session # 0 /\ ~renewal[w].late => renewal[w].session = slot.session

(* ... what no change of identity has crossed is of whoever is signed in, ... *)
OfTheSignedIn(of) == slot.session # 0 /\ of = owner[slot.session]
Uncrossed ==
    /\ tab.flight.pc = "sent" /\ ~tab.flight.crossed => OfTheSignedIn(tab.flight.of)
    /\ tab.kept # NoAnswer /\ ~tab.kept.crossed => OfTheSignedIn(tab.kept.of)
    /\ tab.kept # NoAnswer => hook = "grants"

(* ... and so is what the last run loads, or has loaded, if that run was for  *)
(* the session in the slot: one that is gone comes back in a mixed slot only. *)
OfTheRun(of, across) ==
    \/ slot.mixed
    \/ tab.ran = 0 \/ tab.ran # slot.session
    \/ of = owner[tab.ran]
    \/ hook = "grants" /\ across
RunsOwn ==
    /\ tab.waiting /\ tab.flight.pc = "sent" => OfTheRun(tab.flight.of, tab.flight.crossed)
    /\ ~tab.waiting /\ ~tab.failed => OfTheRun(tab.data.of, tab.data.crossed)

ShellIInv == ShellTypeOK /\ TabKnows /\ OnTime /\ TabFollows /\ HeaderTrue /\ Uncrossed /\ RunsOwn

SlotRec == [session : SignIns, hint : Visitor \cup {NoVisitor}, mixed : BOOLEAN]
RenewalRec == [session : SignIns, late : BOOLEAN]
FlightRec == [pc : {"none", "unsent", "sent"}, of : Visitor \cup {NoVisitor}, crossed : BOOLEAN]
TabRec == [heard : SignIns, told : BOOLEAN, ran : SignIns, again : BOOLEAN, waiting : BOOLEAN,
           failed : BOOLEAN, data : LoadedAnswer, flight : FlightRec, kept : LoadedAnswer,
           form : Visitor \cup {NoVisitor}]
Where == {"here", "elsewhere"}

LEMMA ShellTyped ==
    ShellTypeOK <=> /\ slot \in SlotRec
                    /\ owner \in Seq(Visitor) /\ Len(owner) <= MaxSignIns
                    /\ renewal \in [Where -> RenewalRec]
                    /\ hook \in {"grants", "menu"}
                    /\ tab \in TabRec
  BY DEF ShellTypeOK, SlotRec, RenewalRec, TabRec, FlightRec, Where

LEMMA Nothings ==
    /\ NoAnswer \in LoadedAnswer /\ NoAnswer.crossed = FALSE
    /\ NoFlight \in FlightRec /\ NoFlight.pc = "none" /\ NoFlight.crossed = FALSE
    /\ NoRenewal \in RenewalRec /\ NoRenewal.session = 0
    /\ Empty \in SlotRec /\ Empty.session = 0 /\ Empty.mixed = FALSE
    /\ 0 \in SignIns /\ SignIns \subseteq Nat
  BY ShellAssumption DEF NoAnswer, NoFlight, NoRenewal, Empty, LoadedAnswer, FlightRec, RenewalRec,
     SlotRec, SignIns

(* What the tab holds when the slot has been given a session, itself apart:   *)
(* what is kept or loading is crossed if the session is another one.          *)
Wrote(sid) ==
    /\ slot' \in SlotRec /\ slot'.session = sid
    /\ tab' \in TabRec
    /\ tab'.ran = tab.ran /\ tab'.waiting = tab.waiting /\ tab'.failed = tab.failed
    /\ tab'.data = tab.data
    /\ tab'.heard \in {tab.heard, sid} /\ (tab'.told => tab'.heard = sid)
    /\ tab'.flight.pc = tab.flight.pc /\ tab'.flight.of = tab.flight.of
    /\ tab.flight.crossed => tab'.flight.crossed
    /\ tab.flight.pc = "sent" /\ sid # slot.session => tab'.flight.crossed
    /\ tab'.kept # NoAnswer =>
          /\ tab.kept # NoAnswer /\ tab'.kept.of = tab.kept.of
          /\ ~tab'.kept.crossed => ~tab.kept.crossed /\ sid = slot.session
    /\ renewal' \in [Where -> RenewalRec]
    /\ \A w \in Where :
          \/ renewal'[w].session = 0
          \/ /\ renewal'[w].session = renewal[w].session
             /\ ~renewal'[w].late => ~renewal[w].late /\ sid = slot.session
    /\ hook' = hook

LEMMA Helds ==
    ASSUME ShellTypeOK, NEW sid \in SignIns
    PROVE  LET t == Held(sid) IN
           /\ t \in TabRec
           /\ t.heard = tab.heard /\ t.ran = tab.ran /\ t.waiting = tab.waiting /\ t.failed = tab.failed
           /\ t.data = tab.data
           /\ t.flight.pc = tab.flight.pc /\ t.flight.of = tab.flight.of
           /\ tab.flight.crossed => t.flight.crossed
           /\ tab.flight.pc = "sent" /\ sid # slot.session => t.flight.crossed
           /\ t.kept # NoAnswer =>
                 /\ tab.kept # NoAnswer /\ t.kept.of = tab.kept.of
                 /\ ~t.kept.crossed => ~tab.kept.crossed /\ sid = slot.session
<1> DEFINE kept == IF sid # slot.session /\ tab.kept # NoAnswer
                     THEN [tab.kept EXCEPT !.crossed = TRUE] ELSE tab.kept
           flight == IF sid # slot.session /\ tab.flight # NoFlight
                       THEN [tab.flight EXCEPT !.crossed = TRUE] ELSE tab.flight
<1>1. tab \in TabRec /\ tab.kept \in LoadedAnswer /\ tab.flight \in FlightRec
  BY ShellTyped DEF TabRec
<1>2. /\ kept \in LoadedAnswer /\ kept.of = tab.kept.of
      /\ kept # NoAnswer => tab.kept # NoAnswer
      /\ ~kept.crossed /\ kept # NoAnswer => ~tab.kept.crossed /\ sid = slot.session
  BY <1>1 DEF LoadedAnswer
<1>3. /\ flight \in FlightRec /\ flight.pc = tab.flight.pc /\ flight.of = tab.flight.of
      /\ tab.flight.crossed => flight.crossed
      /\ tab.flight.pc = "sent" /\ sid # slot.session => flight.crossed
  BY <1>1, Nothings DEF FlightRec
<1>4. Held(sid) = [tab EXCEPT !.kept = kept, !.flight = flight]
  BY DEF Held
<1>6. kept \in LoadedAnswer /\ flight \in FlightRec
  BY <1>2, <1>3
<1> HIDE DEF kept, flight
<1> DEFINE t == [tab EXCEPT !.kept = kept, !.flight = flight]
<1>5. /\ t.kept = kept /\ t.flight = flight /\ t.heard = tab.heard /\ t.ran = tab.ran
      /\ t.waiting = tab.waiting /\ t.failed = tab.failed /\ t.data = tab.data
  BY <1>1 DEF TabRec
<1>7. t \in TabRec
  BY <1>1, <1>6 DEF TabRec
<1> HIDE DEF t
<1>8. Held(sid) = t
  BY <1>4 DEF t
<1> QED BY <1>2, <1>3, <1>5, <1>7, <1>8

LEMMA Delays ==
    ASSUME ShellTypeOK, NEW sid
    PROVE  LET q == Delayed(sid) IN
           /\ q \in [Where -> RenewalRec]
           /\ \A w \in Where :
                 /\ q[w].session = renewal[w].session
                 /\ ~q[w].late /\ q[w].session # 0 => ~renewal[w].late /\ sid = slot.session
<1> DEFINE one(w) == [renewal[w] EXCEPT !.late = @ \/ (renewal[w].session # 0 /\ sid # slot.session)]
<1>1. renewal \in [Where -> RenewalRec]
  BY ShellTyped
<1>2. \A w \in Where : /\ one(w) \in RenewalRec /\ one(w).session = renewal[w].session
                       /\ ~one(w).late /\ one(w).session # 0 => ~renewal[w].late /\ sid = slot.session
  BY <1>1 DEF RenewalRec
<1>3. Delayed(sid) = [w \in Where |-> one(w)]
  BY <1>1 DEF Delayed
<1> HIDE DEF one
<1> QED BY <1>2, <1>3

(* However it is written.                                                    *)
LEMMA Applies ==
    ASSUME ShellTypeOK, NEW sid \in SignIns, NEW t \in {AppliedHere(sid), [Held(sid) EXCEPT !.told = FALSE]},
           NEW kept \in {NoAnswer, t.kept}, NEW form \in Visitor \cup {NoVisitor},
           tab' \in {t, [t EXCEPT !.kept = kept], [t EXCEPT !.kept = kept, !.form = form]},
           slot' \in SlotRec, slot'.session = sid, hook' = hook,
           renewal' \in {Delayed(sid)} \cup {[Delayed(sid) EXCEPT ![w] = NoRenewal] : w \in Where}
    PROVE  Wrote(sid)
<1> DEFINE h == Held(sid)
           q == Delayed(sid)
<1>1. /\ h \in TabRec
      /\ h.heard = tab.heard /\ h.ran = tab.ran /\ h.waiting = tab.waiting /\ h.failed = tab.failed
      /\ h.data = tab.data
      /\ h.flight.pc = tab.flight.pc /\ h.flight.of = tab.flight.of
      /\ tab.flight.crossed => h.flight.crossed
      /\ tab.flight.pc = "sent" /\ sid # slot.session => h.flight.crossed
      /\ h.kept # NoAnswer =>
            /\ tab.kept # NoAnswer /\ h.kept.of = tab.kept.of
            /\ ~h.kept.crossed => ~tab.kept.crossed /\ sid = slot.session
  BY Helds
<1>2. /\ q \in [Where -> RenewalRec]
      /\ \A w \in Where :
            /\ q[w].session = renewal[w].session
            /\ ~q[w].late /\ q[w].session # 0 => ~renewal[w].late /\ sid = slot.session
  BY Delays
<1>3. t \in {[h EXCEPT !.told = TRUE, !.heard = sid], [h EXCEPT !.told = FALSE]}
  BY DEF AppliedHere
<1>5. renewal' \in {q} \cup {[q EXCEPT ![w] = NoRenewal] : w \in Where}
  OBVIOUS
<1> HIDE DEF h, q
<1>4. /\ t \in TabRec /\ t.ran = h.ran /\ t.waiting = h.waiting /\ t.failed = h.failed
      /\ t.data = h.data /\ t.flight = h.flight /\ t.kept = h.kept
      /\ t.heard \in {h.heard, sid} /\ (t.told => t.heard = sid)
  <2>1. h \in TabRec
    BY <1>1
  <2>2. CASE t = [h EXCEPT !.told = TRUE, !.heard = sid]
    BY <2>1, <2>2 DEF TabRec
  <2>3. CASE t = [h EXCEPT !.told = FALSE]
    BY <2>1, <2>3 DEF TabRec
  <2> QED BY <1>3, <2>2, <2>3
<1>6. /\ renewal' \in [Where -> RenewalRec]
      /\ \A w \in Where :
            \/ renewal'[w].session = 0
            \/ renewal'[w] = q[w]
  BY <1>2, <1>5, Nothings
<1>7. kept \in LoadedAnswer
  BY <1>4, Nothings DEF TabRec
<1>8. /\ tab' \in TabRec /\ tab'.ran = t.ran /\ tab'.waiting = t.waiting /\ tab'.failed = t.failed
      /\ tab'.data = t.data /\ tab'.flight = t.flight /\ tab'.kept \in {NoAnswer, t.kept}
      /\ tab'.heard = t.heard /\ tab'.told = t.told
  BY <1>4, <1>7 DEF TabRec
<1>9. \A w \in Where :
          \/ renewal'[w].session = 0
          \/ /\ renewal'[w].session = renewal[w].session
             /\ ~renewal'[w].late => ~renewal[w].late /\ sid = slot.session
  BY <1>2, <1>6
<1> QED BY <1>1, <1>4, <1>6, <1>8, <1>9 DEF Wrote

(* Whose session it is: a new one, nobody's, or one that was renewed; and     *)
(* then another than the one there only in a mixed slot.                     *)
Origin(sid) ==
    \/ \E v \in Visitor : /\ sid = Len(owner) + 1 /\ Len(owner) < MaxSignIns
                          /\ owner' = Append(owner, v) /\ slot'.hint = v
    \/ sid = 0 /\ owner' = owner
    \/ /\ sid # 0 /\ sid <= Len(owner) /\ owner' = owner /\ slot'.hint = slot.hint
       /\ ~slot'.mixed => ~slot.mixed /\ sid = slot.session

LEMMA Writes ==
    ASSUME ShellTypeOK, TabKnows, OnTime,
           \/ LoginLands \/ SignOut \/ SignOutElsewhere
           \/ \E v \in Visitor : LoginElsewhere(v)
           \/ \E w \in DOMAIN renewal : RenewalLands(w) \/ RenewalFails(w)
    PROVE  \E sid \in SignIns : Wrote(sid) /\ Origin(sid)
<1>0. /\ slot \in SlotRec /\ owner \in Seq(Visitor) /\ renewal \in [Where -> RenewalRec]
      /\ tab \in TabRec /\ tab.form \in Visitor \cup {NoVisitor}
      /\ NoVisitor \notin Visitor
  BY ShellTyped, ShellAssumption DEF TabRec
<1>1. ASSUME NEW v \in Visitor, Begun(v)
      PROVE  /\ Len(owner) + 1 \in SignIns /\ Origin(Len(owner) + 1)
             /\ slot' \in SlotRec /\ slot'.session = Len(owner) + 1
             /\ renewal' = Delayed(Len(owner) + 1) /\ hook' = hook
             /\ Len(owner') = Len(owner) + 1
  <2>1. Len(owner') = Len(owner) + 1 /\ Len(owner) + 1 \in SignIns
    BY <1>0, <1>1, ShellAssumption DEF Begun, SignIns
  <2> QED BY <1>1, <2>1 DEF Begun, Origin, SlotRec
<1>2. CASE LoginLands
  <2>1. tab.form \in Visitor /\ Begun(tab.form)
    BY <1>0, <1>2 DEF LoginLands
  <2>2. tab' = [AppliedHere(Len(owner) + 1) EXCEPT !.kept = NoAnswer, !.form = NoVisitor]
    BY <1>1, <1>2, <2>1 DEF LoginLands
  <2> QED BY <1>1, <2>1, <2>2, Applies
<1>3. ASSUME NEW v \in Visitor, LoginElsewhere(v)
      PROVE  \E sid \in SignIns : Wrote(sid) /\ Origin(sid)
  <2>1. tab' = [Held(Len(owner) + 1) EXCEPT !.told = FALSE] /\ Begun(v)
    BY <1>1, <1>3 DEF LoginElsewhere, Heard
  <2> DEFINE t == [Held(Len(owner) + 1) EXCEPT !.told = FALSE]
  <2>2. NoAnswer \in {NoAnswer, t.kept} /\ tab' = t
    BY <2>1
  <2> QED BY <1>0, <1>1, <2>1, <2>2, Applies
<1>4. 0 \in SignIns /\ Empty \in SlotRec /\ Empty.session = 0
  BY Nothings
<1>5. CASE SignOut
  <2>1. tab' = [AppliedHere(0) EXCEPT !.kept = NoAnswer] /\ slot' = Empty /\ renewal' = Delayed(0)
        /\ owner' = owner /\ hook' = hook
    BY <1>5 DEF SignOut
  <2>2. Origin(0)
    BY <2>1 DEF Origin
  <2> QED BY <1>0, <1>4, <2>1, <2>2, Applies
<1>6. CASE SignOutElsewhere
  <2>1. tab' = [Held(0) EXCEPT !.told = FALSE] /\ slot' = Empty /\ renewal' = Delayed(0)
        /\ owner' = owner /\ hook' = hook
    BY <1>6 DEF SignOutElsewhere, Heard
  <2>2. Origin(0)
    BY <2>1 DEF Origin
  <2> QED BY <1>0, <1>4, <2>1, <2>2, Applies
<1>7. ASSUME NEW w \in Where, RenewalFails(w)
      PROVE  \E sid \in SignIns : Wrote(sid) /\ Origin(sid)
  <2>1. /\ tab' \in {AppliedHere(0), [Held(0) EXCEPT !.told = FALSE]}
        /\ slot' = Empty /\ renewal' = [Delayed(0) EXCEPT ![w] = NoRenewal]
        /\ owner' = owner /\ hook' = hook
    BY <1>7 DEF RenewalFails, Heard
  <2>2. Origin(0)
    BY <2>1 DEF Origin
  <2> QED BY <1>0, <1>4, <2>1, <2>2, Applies
<1>8. ASSUME NEW w \in Where, RenewalLands(w)
      PROVE  \E sid \in SignIns : Wrote(sid) /\ Origin(sid)
  <2> DEFINE sid == renewal[w].session
             new == [slot EXCEPT !.session = sid, !.mixed = @ \/ renewal[w].late]
  <2>1. /\ tab' \in {AppliedHere(sid), [Held(sid) EXCEPT !.told = FALSE]}
        /\ slot' = new /\ renewal' = [Delayed(sid) EXCEPT ![w] = NoRenewal]
        /\ owner' = owner /\ hook' = hook /\ sid # 0
    BY <1>8 DEF RenewalLands, Heard
  <2>2. sid \in SignIns /\ renewal[w].late \in BOOLEAN /\ sid <= Len(owner)
    BY <1>0 DEF RenewalRec, TabKnows
  <2>3. /\ new \in SlotRec /\ new.session = sid /\ new.hint = slot.hint
        /\ ~new.mixed => ~slot.mixed /\ ~renewal[w].late
    BY <1>0, <2>2 DEF SlotRec
  <2>4. Origin(sid)
    BY <1>0, <2>1, <2>2, <2>3 DEF Origin, OnTime
  <2> QED BY <1>0, <2>1, <2>2, <2>3, <2>4, Applies
<1> QED BY <1>0, <1>2, <1>3, <1>5, <1>6, <1>7, <1>8

LEMMA WroteStep ==
    ASSUME ShellIInv, NEW sid \in SignIns, Wrote(sid), Origin(sid)
    PROVE  ShellIInv'
<1>0. /\ slot \in SlotRec /\ owner \in Seq(Visitor) /\ renewal \in [Where -> RenewalRec]
      /\ tab \in TabRec /\ Len(owner) \in Nat /\ Len(owner) <= MaxSignIns
      /\ TabKnows /\ OnTime /\ TabFollows /\ HeaderTrue /\ Uncrossed /\ RunsOwn
  BY ShellTyped DEF ShellIInv
<1>n. /\ sid \in Nat /\ slot.session \in Nat /\ tab.ran \in Nat /\ tab.heard \in Nat
      /\ \A w \in Where : renewal[w].session \in Nat
      /\ slot.session <= Len(owner) /\ tab.ran <= Len(owner) /\ tab.heard <= Len(owner)
      /\ \A w \in Where : renewal[w].session <= Len(owner)
  BY <1>0, Nothings DEF SlotRec, TabRec, RenewalRec, TabKnows
<1>1. /\ owner' \in Seq(Visitor) /\ Len(owner') \in Nat /\ Len(owner') <= MaxSignIns
      /\ Len(owner) <= Len(owner') /\ sid <= Len(owner')
      /\ \A i \in 1 .. Len(owner) : owner'[i] = owner[i]
  <2>1. ASSUME NEW v \in Visitor, sid = Len(owner) + 1, Len(owner) < MaxSignIns,
               owner' = Append(owner, v)
        PROVE  /\ owner' \in Seq(Visitor) /\ Len(owner') = Len(owner) + 1
               /\ \A i \in 1 .. Len(owner) : owner'[i] = owner[i]
    BY <1>0, <2>1
  <2>2. CASE \E v \in Visitor : /\ sid = Len(owner) + 1 /\ Len(owner) < MaxSignIns
                                /\ owner' = Append(owner, v) /\ slot'.hint = v
    BY <1>0, <1>n, <2>1, <2>2, ShellAssumption
  <2>3. CASE owner' = owner /\ sid <= Len(owner)
    BY <1>0, <1>n, <2>3
  <2> QED BY <1>0, <2>2, <2>3 DEF Origin
<1>2. /\ slot'.session = sid
      /\ tab'.ran = tab.ran /\ tab'.waiting = tab.waiting /\ tab'.failed = tab.failed
      /\ tab'.data = tab.data /\ hook' = hook
      /\ tab'.heard \in {tab.heard, sid} /\ (tab'.told => tab'.heard = sid)
      /\ tab'.flight.pc = tab.flight.pc /\ tab'.flight.of = tab.flight.of
      /\ tab.flight.crossed => tab'.flight.crossed
      /\ tab.flight.pc = "sent" /\ sid # slot.session => tab'.flight.crossed
      /\ tab'.kept # NoAnswer =>
            /\ tab.kept # NoAnswer /\ tab'.kept.of = tab.kept.of
            /\ ~tab'.kept.crossed => ~tab.kept.crossed /\ sid = slot.session
  BY DEF Wrote
<1>3. ShellTypeOK'
  <2>1. /\ slot' \in SlotRec /\ renewal' \in [Where -> RenewalRec] /\ tab' \in TabRec /\ hook' = hook
        /\ hook \in {"grants", "menu"}
    BY ShellTyped DEF Wrote, ShellIInv
  <2> QED BY <1>1, <2>1 DEF ShellTypeOK, SlotRec, RenewalRec, TabRec, FlightRec, Where
<1>4. TabKnows' /\ OnTime'
  <2>1. renewal' \in [Where -> RenewalRec]
        /\ \A w \in Where :
              \/ renewal'[w].session = 0
              \/ /\ renewal'[w].session = renewal[w].session
                 /\ ~renewal'[w].late => ~renewal[w].late /\ sid = slot.session
    BY DEF Wrote
  <2>2. DOMAIN renewal' = Where /\ DOMAIN renewal = Where
    BY <1>0, <2>1
  <2>3. TabKnows'
    BY <1>1, <1>2, <1>n, <2>1, <2>2 DEF TabKnows
  <2>4. OnTime'
    BY <1>0, <1>2, <2>1, <2>2 DEF OnTime
  <2> QED BY <2>3, <2>4
<1>5. TabFollows'
  BY <1>2 DEF TabFollows
<1>6. HeaderTrue'
  <2>1. ASSUME NEW v \in Visitor, sid = Len(owner) + 1, owner' = Append(owner, v), slot'.hint = v
        PROVE  HeaderTrue'
    BY <1>0, <1>2, <2>1 DEF HeaderTrue
  <2>2. CASE sid = 0
    BY <1>2, <2>2 DEF HeaderTrue
  <2>3. CASE /\ sid # 0 /\ sid <= Len(owner) /\ owner' = owner /\ slot'.hint = slot.hint
             /\ ~slot'.mixed => ~slot.mixed /\ sid = slot.session
    BY <1>0, <1>2, <2>3 DEF HeaderTrue
  <2> QED BY <2>1, <2>2, <2>3 DEF Origin
<1>7. Uncrossed'
  <2>1. \A of : OfTheSignedIn(of) /\ sid = slot.session =>
                   slot'.session # 0 /\ of = owner'[slot'.session]
    BY <1>1, <1>2, <1>n DEF OfTheSignedIn
  <2>2. tab'.kept # NoAnswer => hook' = "grants"
    BY <1>0, <1>2 DEF Uncrossed
  <2>3. tab'.flight.pc = "sent" /\ ~tab'.flight.crossed =>
            slot'.session # 0 /\ tab'.flight.of = owner'[slot'.session]
    BY <1>0, <1>2, <2>1 DEF Uncrossed
  <2>4. tab'.kept # NoAnswer /\ ~tab'.kept.crossed =>
            slot'.session # 0 /\ tab'.kept.of = owner'[slot'.session]
    BY <1>0, <1>2, <2>1 DEF Uncrossed
  <2> QED BY <2>2, <2>3, <2>4 DEF Uncrossed, OfTheSignedIn
<1>8. RunsOwn'
  <2>1. slot'.mixed \/ tab.ran = 0 \/ tab.ran # sid
        \/ (~slot.mixed /\ sid = slot.session /\ sid <= Len(owner))
    BY <1>n DEF Origin
  <2>2. ASSUME NEW of, NEW across, NEW later, across => later, OfTheRun(of, across)
        PROVE  \/ slot'.mixed
               \/ tab'.ran = 0 \/ tab'.ran # slot'.session
               \/ of = owner'[tab'.ran]
               \/ hook' = "grants" /\ later
    BY <1>1, <1>2, <1>n, <2>1, <2>2 DEF OfTheRun
  <2>3. tab'.waiting /\ tab'.flight.pc = "sent" =>
            \/ slot'.mixed
            \/ tab'.ran = 0 \/ tab'.ran # slot'.session
            \/ tab'.flight.of = owner'[tab'.ran]
            \/ hook' = "grants" /\ tab'.flight.crossed
    BY <1>0, <1>2, <2>2 DEF RunsOwn
  <2>4. ~tab'.waiting /\ ~tab'.failed =>
            \/ slot'.mixed
            \/ tab'.ran = 0 \/ tab'.ran # slot'.session
            \/ tab'.data.of = owner'[tab'.ran]
            \/ hook' = "grants" /\ tab'.data.crossed
    BY <1>0, <1>2, <2>2 DEF RunsOwn
  <2> QED BY <2>3, <2>4 DEF RunsOwn, OfTheRun
<1> QED BY <1>3, <1>4, <1>5, <1>6, <1>7, <1>8 DEF ShellIInv

(* A step that leaves the slot alone.                                        *)
Aside ==
    /\ UNCHANGED <<slot, owner, hook>>
    /\ renewal' = renewal \/ \E w \in Where : Renew(w)
    /\ tab' \in TabRec
    /\ tab'.heard \in {tab.heard, slot.session} /\ (tab'.told => tab'.heard = slot.session)
    /\ tab'.ran \in {tab.ran, tab.heard}

LEMMA AsideStep ==
    ASSUME ShellIInv, Aside, Uncrossed', RunsOwn'
    PROVE  ShellIInv'
<1>0. /\ slot \in SlotRec /\ owner \in Seq(Visitor) /\ renewal \in [Where -> RenewalRec]
      /\ tab \in TabRec /\ Len(owner) <= MaxSignIns /\ hook \in {"grants", "menu"}
      /\ TabKnows /\ OnTime /\ TabFollows /\ HeaderTrue
  BY ShellTyped DEF ShellIInv
<1>1. /\ slot' = slot /\ owner' = owner /\ hook' = hook /\ tab' \in TabRec
      /\ tab'.heard \in {tab.heard, slot.session} /\ (tab'.told => tab'.heard = slot.session)
      /\ tab'.ran \in {tab.ran, tab.heard}
  BY DEF Aside
<1>2. \/ renewal' = renewal
      \/ \E w \in Where : renewal' = [renewal EXCEPT ![w] = [session |-> slot.session, late |-> FALSE]]
  BY DEF Aside, Renew
<1>3. /\ renewal' \in [Where -> RenewalRec]
      /\ \A w \in Where : renewal'[w] = renewal[w] \/ renewal'[w].session = slot.session
  <2>1. [session |-> slot.session, late |-> FALSE] \in RenewalRec
    BY <1>0 DEF SlotRec, RenewalRec
  <2>2. ASSUME NEW w \in Where, renewal' = [renewal EXCEPT ![w] = [session |-> slot.session, late |-> FALSE]]
        PROVE  /\ renewal' \in [Where -> RenewalRec]
               /\ \A x \in Where : renewal'[x] = renewal[x] \/ renewal'[x].session = slot.session
    BY <1>0, <2>1, <2>2
  <2> QED BY <1>0, <1>2, <2>2
<1>4. ShellTypeOK'
  BY <1>0, <1>1, <1>3 DEF ShellTypeOK, SlotRec, RenewalRec, TabRec, FlightRec, Where
<1>5. DOMAIN renewal' = Where /\ DOMAIN renewal = Where
  BY <1>0, <1>3
<1>6. TabKnows'
  BY <1>0, <1>1, <1>3, <1>5 DEF TabKnows
<1>7. OnTime'
  BY <1>0, <1>1, <1>3, <1>5 DEF OnTime
<1>8. TabFollows' /\ HeaderTrue'
  BY <1>0, <1>1 DEF TabFollows, HeaderTrue
<1> QED BY <1>4, <1>6, <1>7, <1>8 DEF ShellIInv

(* What the rest of the steps do to the run: nothing, ...                    *)
LEMMA IdleStep ==
    ASSUME ShellIInv,
           \/ LoginRefused \/ ApplyStored \/ Lapse \/ ReloadScreen \/ UNCHANGED shellVars
           \/ \E v \in Visitor : SubmitLogin(v)
           \/ \E w \in Where : Renew(w)
    PROVE  ShellIInv'
<1>0. /\ tab \in TabRec /\ slot.session \in SignIns /\ NoAnswer \in LoadedAnswer /\ TabFollows
      /\ Uncrossed /\ RunsOwn
  BY ShellTyped, Nothings DEF ShellIInv, SlotRec
<1>1. /\ UNCHANGED <<slot, owner, hook>>
      /\ renewal' = renewal \/ \E w \in Where : Renew(w)
  BY DEF LoginRefused, ApplyStored, Lapse, ReloadScreen, SubmitLogin, Renew, shellVars
<1>2. \/ tab' = tab
      \/ tab' = [tab EXCEPT !.kept = NoAnswer]
      \/ tab' = [tab EXCEPT !.again = TRUE, !.kept = NoAnswer]
      \/ tab' = [tab EXCEPT !.told = TRUE, !.heard = slot.session]
      \/ \E form \in Visitor \cup {NoVisitor} : tab' = [tab EXCEPT !.form = form]
  BY DEF LoginRefused, ApplyStored, Lapse, ReloadScreen, SubmitLogin, Renew, shellVars
<1>3. /\ tab' \in TabRec
      /\ tab'.ran = tab.ran /\ tab'.waiting = tab.waiting /\ tab'.failed = tab.failed
      /\ tab'.data = tab.data /\ tab'.flight = tab.flight /\ tab'.kept \in {tab.kept, NoAnswer}
      /\ tab'.heard \in {tab.heard, slot.session} /\ (tab'.told => tab'.heard = slot.session)
  <2>1. CASE tab' = tab
    BY <1>0, <2>1 DEF TabFollows
  <2>2. CASE tab' = [tab EXCEPT !.kept = NoAnswer]
    BY <1>0, <2>2 DEF TabFollows, TabRec
  <2>3. CASE tab' = [tab EXCEPT !.again = TRUE, !.kept = NoAnswer]
    BY <1>0, <2>3 DEF TabFollows, TabRec
  <2>4. CASE tab' = [tab EXCEPT !.told = TRUE, !.heard = slot.session]
    BY <1>0, <2>4 DEF TabFollows, TabRec
  <2>5. ASSUME NEW form \in Visitor \cup {NoVisitor}, tab' = [tab EXCEPT !.form = form]
        PROVE  /\ tab' \in TabRec
               /\ tab'.ran = tab.ran /\ tab'.waiting = tab.waiting /\ tab'.failed = tab.failed
               /\ tab'.data = tab.data /\ tab'.flight = tab.flight /\ tab'.kept = tab.kept
               /\ tab'.heard = tab.heard /\ tab'.told = tab.told
    BY <1>0, <2>5 DEF TabRec
  <2>6. CASE \E form \in Visitor \cup {NoVisitor} : tab' = [tab EXCEPT !.form = form]
    BY <1>0, <2>5, <2>6 DEF TabFollows
  <2> QED BY <1>2, <2>1, <2>2, <2>3, <2>4, <2>6
<1>4. Aside
  BY <1>1, <1>3 DEF Aside
<1>5. Uncrossed' /\ RunsOwn'
  BY <1>0, <1>1, <1>3 DEF Uncrossed, OfTheSignedIn, RunsOwn, OfTheRun
<1> QED BY <1>4, <1>5, AsideStep

(* ... begin one, of which an answer at hand is the result at once, ...       *)
LEMMA RunStep == ShellIInv /\ (Disabled \/ RunHit \/ RunLoad) => ShellIInv'
<1> SUFFICES ASSUME ShellIInv, Disabled \/ RunHit \/ RunLoad
             PROVE  ShellIInv'
  OBVIOUS
<1>0. /\ tab \in TabRec /\ slot.session \in SignIns /\ NoAnswer \in LoadedAnswer
      /\ NoFlight \in FlightRec /\ TabFollows /\ Uncrossed /\ RunsOwn
  BY ShellTyped, Nothings DEF ShellIInv, SlotRec
<1>1. /\ UNCHANGED <<slot, owner, hook, renewal>>
  BY DEF Disabled, RunHit, RunLoad, Runs
<1>2. CASE Disabled
  <2> DEFINE data == IF hook = "menu" THEN NoAnswer ELSE tab.data
             failed == hook # "menu" /\ tab.failed
  <2>1. /\ tab.heard = 0 /\ data \in LoadedAnswer /\ failed \in BOOLEAN
        /\ tab' = [tab EXCEPT !.ran = tab.heard, !.again = FALSE, !.waiting = FALSE,
                              !.data = data, !.failed = failed]
    BY <1>0, <1>2 DEF Disabled, Runs, Restarted, TabRec
  <2> HIDE DEF data, failed
  <2>2. /\ tab' \in TabRec /\ tab'.heard = tab.heard /\ tab'.told = tab.told
        /\ tab'.ran = 0 /\ ~tab'.waiting /\ tab'.flight = tab.flight /\ tab'.kept = tab.kept
    BY <1>0, <2>1 DEF TabRec
  <2>3. Aside
    BY <1>0, <1>1, <2>1, <2>2 DEF Aside, TabFollows
  <2>4. Uncrossed' /\ RunsOwn'
    BY <1>0, <1>1, <2>2 DEF Uncrossed, OfTheSignedIn, RunsOwn, OfTheRun
  <2> QED BY <2>3, <2>4, AsideStep
<1>3. CASE RunHit
  <2>1. /\ tab.kept # NoAnswer
        /\ tab' = [tab EXCEPT !.ran = tab.heard, !.again = FALSE, !.waiting = FALSE,
                              !.failed = FALSE, !.data = tab.kept]
    BY <1>0, <1>3 DEF RunHit, Runs, Restarted, TabRec
  <2>2. /\ tab' \in TabRec /\ tab'.heard = tab.heard /\ tab'.told = tab.told
        /\ tab'.ran = tab.heard /\ ~tab'.waiting /\ tab'.flight = tab.flight
        /\ tab'.kept = tab.kept /\ tab'.data = tab.kept
    BY <1>0, <2>1 DEF TabRec
  <2>3. Aside
    BY <1>0, <1>1, <2>2 DEF Aside, TabFollows
  <2>4. Uncrossed'
    BY <1>0, <1>1, <2>2 DEF Uncrossed, OfTheSignedIn
  <2>5. RunsOwn'
    BY <1>0, <1>1, <2>1, <2>2 DEF Uncrossed, OfTheSignedIn, RunsOwn, OfTheRun
  <2> QED BY <2>3, <2>4, <2>5, AsideStep
<1>4. CASE RunLoad
  <2> DEFINE asked == [NoFlight EXCEPT !.pc = "unsent"]
             flight == IF hook = "grants" /\ tab.flight # NoFlight THEN tab.flight ELSE asked
  <2>1. /\ asked \in FlightRec /\ asked.pc = "unsent"
        /\ tab' = [tab EXCEPT !.ran = tab.heard, !.again = FALSE, !.waiting = TRUE, !.flight = flight]
    BY <1>0, <1>4 DEF RunLoad, Runs, Restarted, TabRec, FlightRec
  <2>2. /\ flight \in FlightRec
        /\ flight.pc = "sent" => hook = "grants" /\ flight = tab.flight
    BY <1>0, <2>1 DEF TabRec
  <2> HIDE DEF flight, asked
  <2>3. /\ tab' \in TabRec /\ tab'.heard = tab.heard /\ tab'.told = tab.told
        /\ tab'.ran = tab.heard /\ tab'.waiting /\ tab'.flight = flight
        /\ tab'.kept = tab.kept
    BY <1>0, <2>1, <2>2 DEF TabRec
  <2>4. Aside
    BY <1>0, <1>1, <2>3 DEF Aside, TabFollows
  <2>5. Uncrossed'
    BY <1>0, <1>1, <2>2, <2>3 DEF Uncrossed, OfTheSignedIn
  <2>6. RunsOwn'
    BY <1>0, <1>1, <2>2, <2>3 DEF Uncrossed, OfTheSignedIn, RunsOwn, OfTheRun
  <2> QED BY <2>4, <2>5, <2>6, AsideStep
<1> QED BY <1>2, <1>3, <1>4

(* ... or take a load a step further.                                        *)
LEMMA LoadStep == ShellIInv /\ (SendLoad \/ LoadLands \/ LoadFails) => ShellIInv'
<1> SUFFICES ASSUME ShellIInv, SendLoad \/ LoadLands \/ LoadFails
             PROVE  ShellIInv'
  OBVIOUS
<1>0. /\ tab \in TabRec /\ slot \in SlotRec /\ owner \in Seq(Visitor) /\ TabKnows
      /\ NoFlight \in FlightRec /\ NoFlight.pc = "none" /\ TabFollows /\ Uncrossed /\ RunsOwn
  BY ShellTyped, Nothings DEF ShellIInv
<1>1. UNCHANGED <<slot, owner, hook, renewal>>
  BY DEF SendLoad, LoadLands, LoadFails
<1>2. CASE SendLoad
  <2> DEFINE flight == [tab.flight EXCEPT !.pc = "sent", !.of = owner[slot.session]]
  <2>1. slot.session # 0 /\ tab' = [tab EXCEPT !.flight = flight]
    BY <1>2 DEF SendLoad
  <2>2. slot.session \in 1 .. Len(owner)
    BY <1>0, <2>1, Nothings DEF SlotRec, TabKnows
  <2>v. owner[slot.session] \in Visitor /\ tab.flight \in FlightRec
    BY <1>0, <2>2 DEF TabRec
  <2>3. flight \in FlightRec /\ flight.of = owner[slot.session]
    BY <2>v DEF FlightRec
  <2> HIDE DEF flight
  <2>4. /\ tab' \in TabRec /\ tab'.heard = tab.heard /\ tab'.told = tab.told
        /\ tab'.ran = tab.ran /\ tab'.waiting = tab.waiting /\ tab'.failed = tab.failed
        /\ tab'.data = tab.data /\ tab'.flight = flight /\ tab'.kept = tab.kept
    BY <1>0, <2>1, <2>3 DEF TabRec
  <2>5. Aside
    BY <1>0, <1>1, <2>4 DEF Aside, TabFollows
  <2>6. Uncrossed'
    BY <1>0, <1>1, <2>1, <2>3, <2>4 DEF Uncrossed, OfTheSignedIn
  <2>7. RunsOwn'
    BY <1>0, <1>1, <2>3, <2>4 DEF RunsOwn, OfTheRun
  <2> QED BY <2>5, <2>6, <2>7, AsideStep
<1>3. CASE LoadLands
  <2> DEFINE got == [of |-> tab.flight.of, crossed |-> tab.flight.crossed]
             kept == IF hook = "grants" THEN got ELSE tab.kept
             data == IF tab.waiting THEN got ELSE tab.data
             failed == tab.failed /\ ~tab.waiting
  <2>1. /\ tab.flight.pc = "sent"
        /\ tab' = [tab EXCEPT !.flight = NoFlight, !.kept = kept, !.data = data,
                              !.failed = failed, !.waiting = FALSE]
    BY <1>3 DEF LoadLands
  <2>2. got \in LoadedAnswer /\ got.of = tab.flight.of /\ got.crossed = tab.flight.crossed
    BY <1>0 DEF TabRec, FlightRec, LoadedAnswer
  <2> HIDE DEF got
  <2>3. kept \in LoadedAnswer /\ data \in LoadedAnswer /\ failed \in BOOLEAN
    BY <1>0, <2>2 DEF TabRec
  <2>4. /\ (kept = got /\ hook = "grants") \/ kept = tab.kept
        /\ \/ data = got /\ tab.waiting
           \/ data = tab.data /\ ~tab.waiting /\ failed = tab.failed
    BY <1>0 DEF TabRec
  <2> HIDE DEF kept, data, failed
  <2>5. /\ tab' \in TabRec /\ tab'.heard = tab.heard /\ tab'.told = tab.told
        /\ tab'.ran = tab.ran /\ ~tab'.waiting /\ tab'.failed = failed
        /\ tab'.data = data /\ tab'.flight = NoFlight /\ tab'.kept = kept
    BY <1>0, <2>1, <2>3 DEF TabRec
  <2>6. Aside
    BY <1>0, <1>1, <2>5 DEF Aside, TabFollows
  <2>7. Uncrossed'
    BY <1>0, <1>1, <2>1, <2>2, <2>4, <2>5 DEF Uncrossed, OfTheSignedIn
  <2>8. RunsOwn'
    <3>1. CASE data = got /\ tab.waiting
      BY <1>0, <1>1, <2>1, <2>2, <2>5, <3>1 DEF RunsOwn, OfTheRun
    <3>2. CASE data = tab.data /\ ~tab.waiting /\ failed = tab.failed
      BY <1>0, <1>1, <2>5, <3>2 DEF RunsOwn, OfTheRun
    <3> QED BY <2>4, <3>1, <3>2
  <2> QED BY <2>6, <2>7, <2>8, AsideStep
<1>4. CASE LoadFails
  <2>1. tab' = [tab EXCEPT !.flight = NoFlight, !.failed = tab.failed \/ tab.waiting, !.waiting = FALSE]
    BY <1>4 DEF LoadFails
  <2>2. /\ tab' \in TabRec /\ tab'.heard = tab.heard /\ tab'.told = tab.told
        /\ tab'.ran = tab.ran /\ ~tab'.waiting /\ (~tab'.failed => ~tab.failed /\ ~tab.waiting)
        /\ tab'.data = tab.data /\ tab'.flight = NoFlight /\ tab'.kept = tab.kept
    BY <1>0, <2>1 DEF TabRec
  <2>3. Aside
    BY <1>0, <1>1, <2>2 DEF Aside, TabFollows
  <2>4. Uncrossed' /\ RunsOwn'
    BY <1>0, <1>1, <2>2 DEF Uncrossed, OfTheSignedIn, RunsOwn, OfTheRun
  <2> QED BY <2>3, <2>4, AsideStep
<1> QED BY <1>2, <1>3, <1>4

LEMMA ShellStart == ShellInit => ShellIInv
<1> SUFFICES ASSUME ShellInit PROVE ShellIInv
  OBVIOUS
<1>1. /\ slot = Empty /\ owner = <<>> /\ Len(owner) = 0 /\ owner \in Seq(Visitor)
      /\ renewal = [w \in Where |-> NoRenewal] /\ hook \in {"grants", "menu"}
      /\ tab = [heard |-> 0, told |-> FALSE, ran |-> 0, again |-> FALSE, waiting |-> FALSE,
                failed |-> FALSE, data |-> NoAnswer, flight |-> NoFlight, kept |-> NoAnswer,
                form |-> NoVisitor]
  BY DEF ShellInit, Where
<1>2. tab \in TabRec /\ renewal \in [Where -> RenewalRec]
  BY <1>1, Nothings DEF TabRec
<1>3. ShellTypeOK
  BY <1>1, <1>2, Nothings, ShellTyped, ShellAssumption
<1>4. /\ tab.heard = 0 /\ tab.ran = 0 /\ ~tab.told /\ tab.flight = NoFlight /\ tab.kept = NoAnswer
      /\ ~tab.waiting
  BY <1>1
<1>5. TabKnows /\ OnTime
  BY <1>1, <1>4, Nothings DEF TabKnows, OnTime
<1>6. TabFollows /\ HeaderTrue /\ Uncrossed /\ RunsOwn
  BY <1>1, <1>4, Nothings DEF TabFollows, HeaderTrue, Uncrossed, RunsOwn, OfTheRun
<1> QED BY <1>3, <1>5, <1>6 DEF ShellIInv

LEMMA ShellStep == ShellIInv /\ [ShellNext]_shellVars => ShellIInv'
<1> SUFFICES ASSUME ShellIInv, [ShellNext]_shellVars
             PROVE  ShellIInv'
  OBVIOUS
<1>1. DOMAIN renewal = Where /\ ShellTypeOK /\ TabKnows /\ OnTime
  BY ShellTyped DEF ShellIInv
<1>2. CASE \/ LoginLands \/ SignOut \/ SignOutElsewhere
           \/ \E v \in Visitor : LoginElsewhere(v)
           \/ \E w \in DOMAIN renewal : RenewalLands(w) \/ RenewalFails(w)
  <2>1. PICK sid \in SignIns : Wrote(sid) /\ Origin(sid)
    BY <1>1, <1>2, Writes
  <2> QED BY <2>1, WroteStep
<1>3. CASE \/ LoginRefused \/ ApplyStored \/ Lapse \/ ReloadScreen \/ UNCHANGED shellVars
           \/ \E v \in Visitor : SubmitLogin(v)
           \/ \E w \in Where : Renew(w)
  BY <1>3, IdleStep
<1>4. CASE Disabled \/ RunHit \/ RunLoad
  BY <1>4, RunStep
<1>5. CASE SendLoad \/ LoadLands \/ LoadFails
  BY <1>5, LoadStep
<1> QED BY <1>1, <1>2, <1>3, <1>4, <1>5 DEF ShellNext

(* The invariant of a tab, for every number of visitors and of sign-ins.     *)
THEOREM ShellInvariant == ShellSpec => []ShellIInv
<1> QED BY ShellStep, ShellStart, PTL DEF ShellSpec

(* What a tab of a console shows at rest is of whoever it is signed in as,   *)
(* however logins, renewals, storage events and loads cross: the keys of     *)
(* useAsync name the session, onIdentityChange() empties the cache, and a    *)
(* renewal carries the hint over (ConsoleShell's exceptions apart).          *)
THEOREM ShellIsSound == ShellSpec => []ShellSound
<1>1. ShellIInv => ShellSound
  <2> SUFFICES ASSUME ShellIInv PROVE ShellSound
    OBVIOUS
  <2>1. TabFollows /\ HeaderTrue /\ RunsOwn
    BY DEF ShellIInv
  <2>2. ShowsOwn
    BY <2>1 DEF ShowsOwn, AtRest, Due, Key, TabFollows, RunsOwn, OfTheRun
  <2> QED BY <2>1, <2>2 DEF ShellSound
<1> QED BY <1>1, ShellInvariant, PTL

-----------------------------------------------------------------------------
(* A user's row, and a login attempt. *)
UserRow == [status : Status, fails : 0 .. MaxFails - 1, secret : 0 .. MaxSecret]
Attempt == [pc : {"none", "verifying", "eligible", "inserted", "live", "revoked", "refused"},
            right : BOOLEAN, secret : 0 .. MaxSecret, status : Status]

(* The rows have their types, and a recovery has a password left to set.     *)
AccountTyped ==
    /\ AccountTypeOK
    /\ admin.pc \in {"recovering", "recovered"} => user.secret < MaxSecret

(* Logins still under way at an account that is shut, or about to be, have   *)
(* been overtaken, and so have the sessions that its shutting will not end.  *)
ShutOut ==
    /\ LockedOutEverywhere
    /\ user.status # "active" => PastStatus \subseteq overtaken
    /\ admin.pc = "revoked" => /\ PastStatus \subseteq overtaken
                               /\ LiveSessions \ admin.sessions \subseteq overtaken

(* Nobody is told, or about to be told, of a session that has not ended.     *)
ToldOfTheEnded == \A l \in unpublished \cup deniedSids : login[l].pc = "revoked"

(* A login under way has read the password as it is, and a session that a    *)
(* recovery will leave going has been overtaken, as the rest will be.        *)
KnowTheSecret ==
    /\ SessionsKnowTheSecret
    /\ \A l \in PastSecret \ overtaken : login[l].secret = user.secret
    /\ admin.pc = "recovered" => LiveSessions \ admin.sessions \subseteq overtaken

(* A token about to be stored will put an end to every one that works.       *)
OneLink ==
    /\ OneLiveToken
    /\ \A r, q \in Resets :
          resetToken[r] = "storing" /\ resetToken[q] = "live" =>
              q \in superseded[r] \/ {r, q} \cap overtaken # {}

AccountIInv == AccountTyped /\ ShutOut /\ ToldOfTheEnded /\ KnowTheSecret /\ OneLink

-----------------------------------------------------------------------------
(* What an attempt becomes is an attempt.                                    *)
LEMMA Attempts ==
    ASSUME AccountTyped
    PROVE  /\ login \in [Logins -> Attempt]
           /\ user \in UserRow
           /\ \A pc \in {"revoked", "refused"} : Ended(pc) \in Attempt /\ Ended(pc).pc = pc
           /\ \A sessions \in SUBSET Logins : Revoked(sessions) \in [Logins -> Attempt]
<1>1. login \in [Logins -> Attempt]
  BY DEF AccountTyped, AccountTypeOK, Attempt
<1>u. user \in UserRow
  BY DEF AccountTyped, AccountTypeOK, UserRow
<1>2. ASSUME NEW pc \in {"revoked", "refused"} PROVE Ended(pc) \in Attempt /\ Ended(pc).pc = pc
  <2>1. NotTried \in Attempt
    BY AccountAssumption DEF Attempt, NotTried, Status
  <2> QED BY <2>1 DEF Ended, Attempt
<1>3. ASSUME NEW sessions \in SUBSET Logins PROVE Revoked(sessions) \in [Logins -> Attempt]
  BY <1>1, <1>2 DEF Revoked
<1> QED BY <1>1, <1>2, <1>3, <1>u

(* What changes to a user's row leave of it.                                 *)
Counted(u, f) == [u EXCEPT !.fails = f]
Switched(u, s) == [u EXCEPT !.status = s, !.fails = 0]
Renewed(u, c) == [u EXCEPT !.secret = c, !.fails = 0]
Recovered(u, c) == [u EXCEPT !.status = "active", !.fails = 0, !.secret = c]

LEMMA Rows ==
    ASSUME NEW u \in UserRow
    PROVE  /\ \A f : Counted(u, f) = [status |-> u.status, fails |-> f, secret |-> u.secret]
           /\ \A s : Switched(u, s) = [status |-> s, fails |-> 0, secret |-> u.secret]
           /\ \A c : Renewed(u, c) = [status |-> u.status, fails |-> 0, secret |-> c]
           /\ \A c : Recovered(u, c) = [status |-> "active", fails |-> 0, secret |-> c]
<1>0. u = [status |-> u.status, fails |-> u.fails, secret |-> u.secret]
  BY DEF UserRow
<1>1. ASSUME NEW f PROVE Counted(u, f) = [status |-> u.status, fails |-> f, secret |-> u.secret]
  BY <1>0 DEF Counted
<1>2. ASSUME NEW s PROVE Switched(u, s) = [status |-> s, fails |-> 0, secret |-> u.secret]
  <2> DEFINE w == [u EXCEPT !.status = s]
  <2>1. w = [status |-> s, fails |-> u.fails, secret |-> u.secret]
    BY <1>0
  <2> HIDE DEF w
  <2>2. [w EXCEPT !.fails = 0] = [status |-> s, fails |-> 0, secret |-> u.secret]
    BY <2>1
  <2> QED BY <2>2 DEF w, Switched
<1>3. ASSUME NEW c PROVE Renewed(u, c) = [status |-> u.status, fails |-> 0, secret |-> c]
  <2> DEFINE w == [u EXCEPT !.secret = c]
  <2>1. w = [status |-> u.status, fails |-> u.fails, secret |-> c]
    BY <1>0
  <2> HIDE DEF w
  <2>2. [w EXCEPT !.fails = 0] = [status |-> u.status, fails |-> 0, secret |-> c]
    BY <2>1
  <2> QED BY <2>2 DEF w, Renewed
<1>4. ASSUME NEW c PROVE Recovered(u, c) = [status |-> "active", fails |-> 0, secret |-> c]
  <2> DEFINE w == Switched(u, "active")
  <2>1. w = [status |-> "active", fails |-> 0, secret |-> u.secret]
    BY <1>2
  <2> HIDE DEF w
  <2>2. [w EXCEPT !.secret = c] = [status |-> "active", fails |-> 0, secret |-> c]
    BY <2>1
  <2> QED BY <2>2 DEF w, Switched, Recovered
<1> QED BY <1>1, <1>2, <1>3, <1>4

(* What each action makes of the user's row.                                 *)
LEMMA RowSteps ==
    ASSUME AccountTyped
    PROVE  /\ \A l \in Logins : WrongPassword(l) =>
                  /\ user.status # "active" => user' = user
                  /\ user.status = "active" /\ user.fails + 1 >= MaxFails =>
                         user' = [status |-> "locked", fails |-> 0, secret |-> user.secret]
                  /\ user.status = "active" /\ user.fails + 1 < MaxFails =>
                         user' = [status |-> "active", fails |-> user.fails + 1, secret |-> user.secret]
           /\ \A l \in Logins : \A outcome : EndLogin(l, outcome) =>
                  \/ user' = user
                  \/ user' = [status |-> user.status, fails |-> 0, secret |-> user.secret]
           /\ CommitTransition => user' = [status |-> admin.to, fails |-> 0, secret |-> user.secret]
           /\ CommitRecovery => user' = [status |-> "active", fails |-> 0, secret |-> user.secret + 1]
           /\ \A r \in Resets : CompleteReset(r) =>
                  user' = [status |-> user.status, fails |-> 0, secret |-> user.secret + 1]
<1>0. user \in UserRow
  BY Attempts
<1>1. ASSUME NEW l \in Logins, WrongPassword(l)
      PROVE  /\ user.status # "active" => user' = user
             /\ user.status = "active" /\ user.fails + 1 >= MaxFails =>
                    user' = [status |-> "locked", fails |-> 0, secret |-> user.secret]
             /\ user.status = "active" /\ user.fails + 1 < MaxFails =>
                    user' = [status |-> "active", fails |-> user.fails + 1, secret |-> user.secret]
  <2>1. user' = IF user.status = "active" /\ user.fails + 1 >= MaxFails THEN Switched(user, "locked")
                ELSE IF user.status = "active" THEN Counted(user, user.fails + 1) ELSE user
    BY <1>1 DEF WrongPassword, Switched, Counted
  <2>2. user.fails \in Int /\ MaxFails \in Int
    BY <1>0, AccountAssumption DEF UserRow
  <2> QED BY <1>0, <2>1, <2>2, Rows
<1>2. ASSUME NEW l \in Logins, NEW outcome, EndLogin(l, outcome)
      PROVE  \/ user' = user
             \/ user' = [status |-> user.status, fails |-> 0, secret |-> user.secret]
  <2>1. user' = user \/ user' = Counted(user, 0)
    BY <1>2 DEF EndLogin, Counted
  <2> QED BY <1>0, <2>1, Rows
<1>3. ASSUME CommitTransition
      PROVE  user' = [status |-> admin.to, fails |-> 0, secret |-> user.secret]
  <2>1. user' = Switched(user, admin.to)
    BY <1>3 DEF CommitTransition, Switched
  <2> QED BY <1>0, <2>1, Rows
<1>4. ASSUME CommitRecovery
      PROVE  user' = [status |-> "active", fails |-> 0, secret |-> user.secret + 1]
  <2>1. user' = Recovered(user, user.secret + 1)
    BY <1>4 DEF CommitRecovery, Recovered
  <2> QED BY <1>0, <2>1, Rows
<1>5. ASSUME NEW r \in Resets, CompleteReset(r)
      PROVE  user' = [status |-> user.status, fails |-> 0, secret |-> user.secret + 1]
  <2>1. user' = Renewed(user, user.secret + 1)
    BY <1>5 DEF CompleteReset, Renewed
  <2> QED BY <1>0, <2>1, Rows
<1> QED BY <1>1, <1>2, <1>3, <1>4, <1>5

(* A step leaves every row what it is.                                       *)
LEMMA TypedStep == AccountTyped /\ [AccountNext]_accountVars => AccountTyped'
<1> SUFFICES ASSUME AccountTyped, [AccountNext]_accountVars PROVE AccountTyped'
  OBVIOUS
<1> USE AccountAssumption
<1>0. /\ login \in [Logins -> Attempt]
      /\ user \in UserRow
      /\ \A pc \in {"revoked", "refused"} : Ended(pc) \in Attempt
      /\ \A sessions \in SUBSET Logins : Revoked(sessions) \in [Logins -> Attempt]
  BY Attempts
<1>1. ASSUME NEW l \in Logins, NEW right \in BOOLEAN, LookUp(l, right) PROVE AccountTyped'
  <2> DEFINE new == [pc |-> "verifying", right |-> right, secret |-> user.secret,
                     status |-> user.status]
  <2>1. new \in Attempt
    BY <1>0 DEF Attempt, UserRow
  <2>2. login' = [login EXCEPT ![l] = new]
    BY <1>1 DEF LookUp
  <2> HIDE DEF new
  <2>3. login' \in [Logins -> Attempt]
    BY <1>0, <2>1, <2>2
  <2> QED BY <1>1, <2>3 DEF LookUp, AccountTyped, AccountTypeOK, Attempt, UserRow
<1>2. ASSUME NEW l \in Logins, Refuse(l) PROVE AccountTyped'
  <2>1. login' \in [Logins -> Attempt]
    BY <1>0, <1>2 DEF Refuse
  <2> QED BY <1>2, <2>1 DEF Refuse, AccountTyped, AccountTypeOK, Attempt, UserRow
<1>3. ASSUME NEW l \in Logins, WrongPassword(l) PROVE AccountTyped'
  <2>1. login' \in [Logins -> Attempt] /\ LiveSessions \subseteq Logins
    BY <1>0, <1>3 DEF WrongPassword, LiveSessions
  <2>2. user' \in UserRow
    BY <1>0, <1>3, RowSteps DEF UserRow, Status
  <2>3. user'.secret = user.secret
    BY <1>0, <1>3, RowSteps DEF UserRow
  <2> QED BY <1>3, <2>1, <2>2, <2>3 DEF WrongPassword, AccountTyped, AccountTypeOK, Attempt, UserRow, PastStatus
<1>4. ASSUME NEW l \in Logins, CheckEligible(l) PROVE AccountTyped'
  <2> DEFINE new == [login[l] EXCEPT !.pc = "eligible"]
  <2>1. new \in Attempt
    BY <1>0 DEF Attempt
  <2>2. login' = [login EXCEPT ![l] = IF user.status = "active" THEN new ELSE Ended("refused")]
    BY <1>0, <1>4 DEF CheckEligible
  <2> HIDE DEF new
  <2>3. login' \in [Logins -> Attempt]
    BY <1>0, <2>1, <2>2
  <2> QED BY <1>4, <2>3 DEF CheckEligible, AccountTyped, AccountTypeOK, Attempt, UserRow
<1>5. ASSUME NEW l \in Logins, InsertSession(l) PROVE AccountTyped'
  <2> DEFINE new == [login[l] EXCEPT !.pc = "inserted"]
  <2>1. new \in Attempt
    BY <1>0 DEF Attempt
  <2>2. login' = [login EXCEPT ![l] = new]
    BY <1>0, <1>5 DEF InsertSession
  <2> HIDE DEF new
  <2>3. login' \in [Logins -> Attempt]
    BY <1>0, <2>1, <2>2
  <2> QED BY <1>5, <2>3 DEF InsertSession, AccountTyped, AccountTypeOK, Attempt, UserRow
<1>6. ASSUME NEW l \in Logins, NEW outcome, EndLogin(l, outcome) PROVE AccountTyped'
  <2> DEFINE new == [login[l] EXCEPT !.pc = "live"]
  <2>1. new \in Attempt
    BY <1>0 DEF Attempt
  <2>2. login' = [login EXCEPT ![l] = IF outcome = "live" THEN new ELSE Ended("refused")]
    BY <1>0, <1>6 DEF EndLogin
  <2> HIDE DEF new
  <2>3. login' \in [Logins -> Attempt]
    BY <1>0, <2>1, <2>2
  <2>4. /\ user' \in UserRow
        /\ user'.secret = user.secret
    BY <1>0, <1>6, RowSteps DEF UserRow
  <2> QED BY <1>6, <2>3, <2>4 DEF EndLogin, AccountTyped, AccountTypeOK, Attempt, UserRow
<1>7. ASSUME NEW status \in Status, BeginTransition(status) PROVE AccountTyped'
  BY <1>7 DEF BeginTransition, AccountTyped, AccountTypeOK, NoTransition
<1>8. ASSUME RevokeAll PROVE AccountTyped'
  BY <1>8 DEF RevokeAll, AccountTyped, AccountTypeOK, LiveSessions, PastStatus
<1>9. ASSUME CommitTransition PROVE AccountTyped'
  <2>1. login' \in [Logins -> Attempt]
    BY <1>0, <1>9 DEF CommitTransition, AccountTyped, AccountTypeOK
  <2>2. user' \in UserRow
    BY <1>0, <1>9, RowSteps DEF AccountTyped, AccountTypeOK, UserRow
  <2> QED BY <1>9, <2>1, <2>2 DEF CommitTransition, AccountTyped, AccountTypeOK, Attempt, UserRow, NoTransition, Status
<1>10. ASSUME RollbackTransition PROVE AccountTyped'
  BY <1>10 DEF RollbackTransition, AccountTyped, AccountTypeOK, NoTransition, Status
<1>11. ASSUME BeginRecovery PROVE AccountTyped'
  BY <1>11 DEF BeginRecovery, AccountTyped, AccountTypeOK, NoTransition, Status
<1>12. ASSUME RecoveryRevokes PROVE AccountTyped'
  BY <1>12 DEF RecoveryRevokes, AccountTyped, AccountTypeOK, LiveSessions
<1>13. ASSUME CommitRecovery PROVE AccountTyped'
  <2>1. login' \in [Logins -> Attempt]
    BY <1>0, <1>13 DEF CommitRecovery, AccountTyped, AccountTypeOK
  <2>2. user' \in UserRow
    BY <1>0, <1>13, RowSteps DEF CommitRecovery, AccountTyped, Status, UserRow
  <2> QED BY <1>13, <2>1, <2>2 DEF CommitRecovery, AccountTyped, AccountTypeOK, Attempt, UserRow, NoTransition, Status, PastSecret, PastStatus
<1>14. ASSUME NEW l \in Logins, Publish(l) PROVE AccountTyped'
  BY <1>14 DEF Publish, AccountTyped, AccountTypeOK
<1>15. ASSUME NEW r \in Resets, RequestReset(r) PROVE AccountTyped'
  BY <1>15 DEF RequestReset, AccountTyped, AccountTypeOK
<1>16. ASSUME NEW r \in Resets, StoreReset(r) PROVE AccountTyped'
  BY <1>16 DEF StoreReset, AccountTyped, AccountTypeOK
<1>17. ASSUME NEW r \in Resets, ExpireReset(r) PROVE AccountTyped'
  BY <1>17 DEF ExpireReset, AccountTyped, AccountTypeOK
<1>18. ASSUME NEW r \in Resets, CompleteReset(r) PROVE AccountTyped'
  <2>1. login' \in [Logins -> Attempt] /\ LiveSessions \subseteq Logins
    BY <1>0, <1>18 DEF CompleteReset, LiveSessions
  <2>2. user' \in UserRow
    <3>1. user' = [status |-> user.status, fails |-> 0, secret |-> user.secret + 1]
      BY <1>18, RowSteps
    <3> QED BY <1>0, <1>18, <3>1 DEF CompleteReset, UserRow
  <2> QED BY <1>18, <2>1, <2>2 DEF CompleteReset, AccountTyped, AccountTypeOK, Attempt, UserRow, PastSecret, PastStatus
<1>19. CASE UNCHANGED accountVars
  BY <1>19 DEF accountVars, AccountTyped, AccountTypeOK
<1> QED
  BY <1>1, <1>2, <1>3, <1>4, <1>5, <1>6, <1>7, <1>8, <1>9, <1>10, <1>11, <1>12, <1>13, <1>14, <1>15,
     <1>16, <1>17, <1>18, <1>19 DEF AccountNext, LoginStep, AdminStep, ResetStep

-----------------------------------------------------------------------------
(* Whoever shuts the account has its sessions ended, and the logins that are *)
(* past the check written down, in the step that makes it so; a login that   *)
(* passes the check between the two is written down there.                   *)
LEMMA ShutOutStep ==
    AccountTyped /\ ShutOut /\ [AccountNext]_accountVars => ShutOut'
<1> SUFFICES ASSUME AccountTyped, ShutOut, [AccountNext]_accountVars PROVE ShutOut'
  OBVIOUS
<1> USE DEF ShutOut, LockedOutEverywhere, LiveSessions, PastStatus
<1>0. /\ login \in [Logins -> Attempt]
      /\ \A pc \in {"revoked", "refused"} : Ended(pc).pc = pc
  BY Attempts
<1>1. ASSUME NEW l \in Logins, NEW right \in BOOLEAN, LookUp(l, right) PROVE ShutOut'
  BY <1>0, <1>1 DEF LookUp
<1>2. ASSUME NEW l \in Logins, Refuse(l) PROVE ShutOut'
  BY <1>0, <1>2 DEF Refuse
<1>3. ASSUME NEW l \in Logins, WrongPassword(l) PROVE ShutOut'
  BY <1>0, <1>3, RowSteps DEF WrongPassword, Revoked
<1>4. ASSUME NEW l \in Logins, CheckEligible(l) PROVE ShutOut'
  BY <1>0, <1>4 DEF CheckEligible
<1>5. ASSUME NEW l \in Logins, InsertSession(l) PROVE ShutOut'
  BY <1>0, <1>5 DEF InsertSession
<1>6. ASSUME NEW l \in Logins, NEW outcome, EndLogin(l, outcome) PROVE ShutOut'
  <2>1. user'.status = user.status
    BY <1>6, RowSteps
  <2> QED BY <1>0, <1>6, <2>1 DEF EndLogin
<1>7. ASSUME NEW status \in Status, BeginTransition(status) PROVE ShutOut'
  BY <1>7 DEF BeginTransition, NoTransition
<1>8. ASSUME RevokeAll PROVE ShutOut'
  BY <1>8 DEF RevokeAll, AccountTyped, AccountTypeOK
<1>9. ASSUME CommitTransition PROVE ShutOut'
  <2>1. user'.status = admin.to
    BY <1>9, RowSteps
  <2> QED BY <1>0, <1>9, <2>1 DEF CommitTransition, Revoked, NoTransition
<1>10. ASSUME RollbackTransition PROVE ShutOut'
  BY <1>10 DEF RollbackTransition, NoTransition
<1>11. ASSUME BeginRecovery PROVE ShutOut'
  BY <1>11 DEF BeginRecovery, NoTransition
<1>12. ASSUME RecoveryRevokes PROVE ShutOut'
  BY <1>12 DEF RecoveryRevokes, AccountTyped, AccountTypeOK
<1>13. ASSUME CommitRecovery PROVE ShutOut'
  <2>1. user'.status = "active"
    BY <1>13, RowSteps
  <2> QED BY <1>0, <1>13, <2>1 DEF CommitRecovery, NoTransition
<1>14. ASSUME NEW l \in Logins, Publish(l) PROVE ShutOut'
  BY <1>14 DEF Publish
<1>15. ASSUME NEW r \in Resets, RequestReset(r) \/ ExpireReset(r) PROVE ShutOut'
  BY <1>15 DEF RequestReset, ExpireReset
<1>16. ASSUME NEW r \in Resets, StoreReset(r) PROVE ShutOut'
  BY <1>16 DEF StoreReset
<1>17. ASSUME NEW r \in Resets, CompleteReset(r) PROVE ShutOut'
  <2>1. user'.status = user.status
    BY <1>17, RowSteps
  <2> QED BY <1>0, <1>17, <2>1 DEF CompleteReset, Revoked
<1>18. CASE UNCHANGED accountVars
  BY <1>18 DEF accountVars
<1> QED
  BY <1>1, <1>2, <1>3, <1>4, <1>5, <1>6, <1>7, <1>8, <1>9, <1>10, <1>11, <1>12, <1>13, <1>14, <1>15,
     <1>16, <1>17, <1>18 DEF AccountNext, LoginStep, AdminStep, ResetStep

-----------------------------------------------------------------------------
(* An ended session stays ended, and is told of after it has ended.          *)
LEMMA ToldStep ==
    AccountTyped /\ ToldOfTheEnded /\ [AccountNext]_accountVars => ToldOfTheEnded'
<1> SUFFICES ASSUME AccountTyped, ToldOfTheEnded, [AccountNext]_accountVars PROVE ToldOfTheEnded'
  OBVIOUS
<1> USE DEF ToldOfTheEnded
<1>0. /\ login \in [Logins -> Attempt]
      /\ \A pc \in {"revoked", "refused"} : Ended(pc).pc = pc
  BY Attempts
<1>a. unpublished \subseteq Logins /\ deniedSids \subseteq Logins /\ admin.sessions \subseteq Logins
  BY DEF AccountTyped, AccountTypeOK
<1>1. ASSUME NEW l \in Logins, NEW right \in BOOLEAN, LookUp(l, right) PROVE ToldOfTheEnded'
  BY <1>0, <1>a, <1>1 DEF LookUp
<1>2. ASSUME NEW l \in Logins, Refuse(l) PROVE ToldOfTheEnded'
  BY <1>0, <1>a, <1>2 DEF Refuse
<1>3. ASSUME NEW l \in Logins, WrongPassword(l) PROVE ToldOfTheEnded'
  BY <1>0, <1>a, <1>3 DEF WrongPassword, Revoked, LiveSessions
<1>4. ASSUME NEW l \in Logins, CheckEligible(l) PROVE ToldOfTheEnded'
  BY <1>0, <1>a, <1>4 DEF CheckEligible
<1>5. ASSUME NEW l \in Logins, InsertSession(l) PROVE ToldOfTheEnded'
  BY <1>0, <1>a, <1>5 DEF InsertSession
<1>6. ASSUME NEW l \in Logins, NEW outcome, EndLogin(l, outcome) PROVE ToldOfTheEnded'
  BY <1>0, <1>a, <1>6 DEF EndLogin
<1>7. ASSUME CommitTransition PROVE ToldOfTheEnded'
  BY <1>0, <1>a, <1>7 DEF CommitTransition, Revoked
<1>8. ASSUME CommitRecovery PROVE ToldOfTheEnded'
  BY <1>0, <1>a, <1>8 DEF CommitRecovery, Revoked
<1>9. ASSUME NEW l \in Logins, Publish(l) PROVE ToldOfTheEnded'
  BY <1>a, <1>9 DEF Publish
<1>10. ASSUME NEW r \in Resets, CompleteReset(r) PROVE ToldOfTheEnded'
  BY <1>0, <1>a, <1>10 DEF CompleteReset, Revoked, LiveSessions
<1>11. ASSUME UNCHANGED <<login, unpublished, deniedSids>> PROVE ToldOfTheEnded'
  BY <1>11
<1>12. ASSUME NEW status \in Status, BeginTransition(status) PROVE ToldOfTheEnded'
  BY <1>11, <1>12 DEF BeginTransition
<1>13. ASSUME RevokeAll \/ RollbackTransition \/ BeginRecovery \/ RecoveryRevokes PROVE ToldOfTheEnded'
  BY <1>11, <1>13 DEF RevokeAll, RollbackTransition, BeginRecovery, RecoveryRevokes
<1>14. ASSUME NEW r \in Resets, RequestReset(r) \/ StoreReset(r) \/ ExpireReset(r) PROVE ToldOfTheEnded'
  BY <1>11, <1>14 DEF RequestReset, StoreReset, ExpireReset
<1>15. CASE UNCHANGED accountVars
  BY <1>11, <1>15 DEF accountVars
<1> QED
  BY <1>1, <1>2, <1>3, <1>4, <1>5, <1>6, <1>7, <1>8, <1>9, <1>10, <1>12, <1>13, <1>14, <1>15
     DEF AccountNext, LoginStep, AdminStep, ResetStep

-----------------------------------------------------------------------------
(* The password changes in two steps, and either ends the sessions, or has   *)
(* them ended, and writes down the logins that have seen the old one.        *)
LEMMA SecretStep ==
    AccountTyped /\ KnowTheSecret /\ [AccountNext]_accountVars => KnowTheSecret'
<1> SUFFICES ASSUME AccountTyped, KnowTheSecret, [AccountNext]_accountVars PROVE KnowTheSecret'
  OBVIOUS
<1> USE DEF KnowTheSecret, SessionsKnowTheSecret, LiveSessions, PastSecret, PastStatus
<1>0. /\ login \in [Logins -> Attempt]
      /\ \A pc \in {"revoked", "refused"} : Ended(pc).pc = pc
  BY Attempts
<1>1. ASSUME NEW l \in Logins, NEW right \in BOOLEAN, LookUp(l, right) PROVE KnowTheSecret'
  BY <1>0, <1>1 DEF LookUp
<1>2. ASSUME NEW l \in Logins, Refuse(l) PROVE KnowTheSecret'
  BY <1>0, <1>2 DEF Refuse
<1>3. ASSUME NEW l \in Logins, WrongPassword(l) PROVE KnowTheSecret'
  <2>1. user'.secret = user.secret
    <3>1. user.fails \in Int /\ MaxFails \in Int
      BY Attempts, AccountAssumption DEF UserRow
    <3> QED BY <1>3, <3>1, RowSteps
  <2> QED BY <1>0, <1>3, <2>1 DEF WrongPassword, Revoked
<1>4. ASSUME NEW l \in Logins, CheckEligible(l) PROVE KnowTheSecret'
  <2>1. \A k \in Logins : /\ k # l => login'[k] = login[k]
                          /\ login'[l].pc \in {"eligible", "refused"}
                          /\ login'[l].pc = "eligible" => login'[l].secret = login[l].secret
    BY <1>0, <1>4 DEF CheckEligible, Attempt
  <2> QED BY <1>4, <2>1 DEF CheckEligible
<1>5. ASSUME NEW l \in Logins, InsertSession(l) PROVE KnowTheSecret'
  <2>1. \A k \in Logins : /\ k # l => login'[k] = login[k]
                          /\ login'[l].pc = "inserted" /\ login'[l].secret = login[l].secret
    BY <1>0, <1>5 DEF InsertSession, Attempt
  <2> QED BY <1>5, <2>1 DEF InsertSession
<1>6. ASSUME NEW l \in Logins, NEW outcome, EndLogin(l, outcome) PROVE KnowTheSecret'
  <2>1. user'.secret = user.secret
    BY <1>6, RowSteps
  <2>2. \A k \in Logins : /\ k # l => login'[k] = login[k]
                          /\ login'[l].pc \in {"live", "refused"}
                          /\ login'[l].pc = "live" => /\ login'[l].secret = login[l].secret
                                                      /\ outcome = "live"
    BY <1>0, <1>6 DEF EndLogin, Attempt
  <2> QED BY <1>6, <2>1, <2>2 DEF EndLogin
<1>7. ASSUME NEW status \in Status, BeginTransition(status) PROVE KnowTheSecret'
  BY <1>7 DEF BeginTransition, NoTransition
<1>8. ASSUME RevokeAll PROVE KnowTheSecret'
  BY <1>8 DEF RevokeAll, AccountTyped, AccountTypeOK
<1>9. ASSUME CommitTransition PROVE KnowTheSecret'
  <2>1. user'.secret = user.secret
    BY <1>9, RowSteps
  <2> QED BY <1>0, <1>9, <2>1 DEF CommitTransition, Revoked, NoTransition
<1>10. ASSUME RollbackTransition PROVE KnowTheSecret'
  BY <1>10 DEF RollbackTransition, NoTransition
<1>11. ASSUME BeginRecovery PROVE KnowTheSecret'
  BY <1>11 DEF BeginRecovery, NoTransition
<1>12. ASSUME RecoveryRevokes PROVE KnowTheSecret'
  BY <1>12 DEF RecoveryRevokes, AccountTyped, AccountTypeOK
<1>13. ASSUME CommitRecovery PROVE KnowTheSecret'
  BY <1>0, <1>13 DEF CommitRecovery, Revoked, NoTransition
<1>14. ASSUME NEW l \in Logins, Publish(l) PROVE KnowTheSecret'
  BY <1>14 DEF Publish
<1>15. ASSUME NEW r \in Resets, RequestReset(r) \/ ExpireReset(r) PROVE KnowTheSecret'
  BY <1>15 DEF RequestReset, ExpireReset
<1>16. ASSUME NEW r \in Resets, StoreReset(r) PROVE KnowTheSecret'
  BY <1>16 DEF StoreReset
<1>17. ASSUME NEW r \in Resets, CompleteReset(r) PROVE KnowTheSecret'
  BY <1>0, <1>17 DEF CompleteReset, Revoked
<1>18. CASE UNCHANGED accountVars
  BY <1>18 DEF accountVars
<1> QED
  BY <1>1, <1>2, <1>3, <1>4, <1>5, <1>6, <1>7, <1>8, <1>9, <1>10, <1>11, <1>12, <1>13, <1>14, <1>15,
     <1>16, <1>17, <1>18 DEF AccountNext, LoginStep, AdminStep, ResetStep

-----------------------------------------------------------------------------
(* Two requests that cross do not find each other's token; the one that is   *)
(* stored last is written down for every other that is still to be.          *)
LEMMA LinkStep ==
    AccountTyped /\ OneLink /\ [AccountNext]_accountVars => OneLink'
<1> SUFFICES ASSUME AccountTyped, OneLink, [AccountNext]_accountVars PROVE OneLink'
  OBVIOUS
<1> USE DEF OneLink, OneLiveToken
<1>0. resetToken \in [Resets -> {"none", "storing", "live", "used", "expired"}]
      /\ superseded \in [Resets -> SUBSET Resets]
  BY DEF AccountTyped, AccountTypeOK
<1>1. ASSUME UNCHANGED <<resetToken, superseded>>, overtaken \subseteq overtaken' PROVE OneLink'
  BY <1>1
<1>2. ASSUME NEW l \in Logins, LoginStep(l) \/ Publish(l) PROVE OneLink'
  BY <1>1, <1>2 DEF LoginStep, LookUp, Refuse, WrongPassword, CheckEligible, InsertSession, EndLogin, Publish
<1>3. ASSUME AdminStep PROVE OneLink'
  BY <1>1, <1>3 DEF AdminStep, BeginTransition, RevokeAll, CommitTransition, RollbackTransition,
                    BeginRecovery, RecoveryRevokes, CommitRecovery
<1>4. ASSUME NEW r \in Resets, RequestReset(r) PROVE OneLink'
  BY <1>0, <1>4 DEF RequestReset
<1>5. ASSUME NEW r \in Resets, StoreReset(r) PROVE OneLink'
  <2>1. /\ \A p \in Resets : p # r => /\ resetToken'[p] = "live" => /\ resetToken[p] = "live"
                                                                    /\ p \notin superseded[r]
                                      /\ resetToken'[p] = "storing" => /\ resetToken[p] = "storing"
                                                                       /\ p \in overtaken'
                                      /\ superseded'[p] = superseded[p]
        /\ resetToken'[r] = "live" /\ resetToken[r] = "storing" /\ overtaken \subseteq overtaken'
    BY <1>0, <1>5 DEF StoreReset
  <2>2. ASSUME NEW p \in Resets, NEW q \in Resets, resetToken'[p] = "live", resetToken'[q] = "live"
        PROVE  p = q \/ {p, q} \cap overtaken' # {}
    <3>1. CASE p # r /\ q # r
      BY <2>1, <2>2, <3>1
    <3>2. CASE p = r /\ q # r
      BY <2>1, <2>2, <3>2
    <3>3. CASE p # r /\ q = r
      BY <2>1, <2>2, <3>3
    <3> QED BY <3>1, <3>2, <3>3
  <2>3. ASSUME NEW p \in Resets, NEW q \in Resets, resetToken'[p] = "storing", resetToken'[q] = "live"
        PROVE  q \in superseded'[p] \/ {p, q} \cap overtaken' # {}
    BY <2>1, <2>3
  <2> QED BY <2>2, <2>3
<1>6. ASSUME NEW r \in Resets, ExpireReset(r) PROVE OneLink'
  BY <1>0, <1>6 DEF ExpireReset
<1>7. ASSUME NEW r \in Resets, CompleteReset(r) PROVE OneLink'
  BY <1>0, <1>7 DEF CompleteReset
<1>8. CASE UNCHANGED accountVars
  BY <1>1, <1>8 DEF accountVars
<1> QED
  BY <1>2, <1>3, <1>4, <1>5, <1>6, <1>7, <1>8 DEF AccountNext, ResetStep

-----------------------------------------------------------------------------
(* A fresh account has no login, no session and no link.                     *)
LEMMA AccountStart == AccountInit => AccountIInv
<1> SUFFICES ASSUME AccountInit PROVE AccountIInv
  OBVIOUS
<1> USE DEF AccountInit
<1>1. AccountTyped
  <2>1. NotTried \in Attempt
    BY AccountAssumption DEF NotTried, Attempt, Status
  <2>2. login \in [Logins -> Attempt]
    BY <2>1
  <2>3. 0 \in 0 .. MaxFails - 1 /\ 0 \in 0 .. MaxSecret
    BY AccountAssumption
  <2> QED BY <2>2, <2>3 DEF AccountTyped, AccountTypeOK, Attempt, NoTransition, Status
<1>2. \A l \in Logins : login[l].pc = "none"
  BY DEF NotTried
<1>3. ShutOut
  BY <1>2 DEF ShutOut, LockedOutEverywhere, LiveSessions, PastStatus, NoTransition
<1>4. ToldOfTheEnded
  BY DEF ToldOfTheEnded
<1>5. KnowTheSecret
  BY <1>2 DEF KnowTheSecret, SessionsKnowTheSecret, LiveSessions, PastSecret, PastStatus, NoTransition
<1>6. OneLink
  BY DEF OneLink, OneLiveToken
<1> QED BY <1>1, <1>3, <1>4, <1>5, <1>6 DEF AccountIInv

(* The rows have their types, an account is shut to whom it should be, and   *)
(* only the ended are told of, at every moment.                              *)
THEOREM AccountInvariant == AccountSpec => []AccountIInv
<1>1. AccountIInv /\ [AccountNext]_accountVars => AccountIInv'
  BY TypedStep, ShutOutStep, ToldStep, SecretStep, LinkStep DEF AccountIInv
<1> QED BY <1>1, AccountStart, PTL DEF AccountSpec

(* The tables, the locks and the requests are always what their types say:   *)
(* the failure count stays below the threshold that locks the account.       *)
THEOREM AccountTypes == AccountSpec => []AccountTypeOK
<1>1. AccountIInv => AccountTypeOK
  BY DEF AccountIInv, AccountTyped
<1> QED BY <1>1, AccountInvariant, PTL

(* Whichever way an account came to be locked or disabled, or its password   *)
(* to be changed, nobody it should have put out is left in, no verifier was  *)
(* told of a session that goes on, and one link at a time works; for any     *)
(* number of logins, requests and passwords.                                 *)
THEOREM NobodyIsLeftIn == AccountSpec => []NobodyLeftIn
<1>1. AccountIInv => NobodyLeftIn
  BY DEF AccountIInv, ShutOut, ToldOfTheEnded, KnowTheSecret, OneLink, NobodyLeftIn, LockedOut,
         ResetEndsThePast, DeniedWasRevoked
<1> QED BY <1>1, AccountInvariant, PTL

-----------------------------------------------------------------------------
(* Tabs and their server, screen and account are of their types in every     *)
(* suite of the three side by side: what the slot holds was minted, the      *)
(* failure count stays below the threshold, and no visitor the console does  *)
(* not know is ever shown.                                                   *)
THEOREM SessionsTyped == SessionsSpec => []SessionsTypeOK
<1> DEFINE Inv == ClientTypeOK /\ KnowTheirs /\ ShellIInv /\ AccountTyped
<1>1. SessionsInit => Inv
  BY ClientStart, ShellStart, AccountStart DEF SessionsInit, TabsIInv, AccountIInv
<1>2. Inv /\ [SessionsNext]_<<focus, allVars, shellVars, accountVars>> => Inv'
  <2> SUFFICES ASSUME Inv, [SessionsNext]_<<focus, allVars, shellVars, accountVars>> PROVE Inv'
    OBVIOUS
  <2>1. [ClientNext]_allVars /\ [ShellNext]_shellVars /\ [AccountNext]_accountVars
    BY DEF SessionsNext
  <2> QED BY <2>1, ClientTypeStep, KnowStep, ShellStep, TypedStep
<1>3. Inv => SessionsTypeOK
  BY DEF ShellIInv, AccountTyped, SessionsTypeOK
<1> QED BY <1>1, <1>2, <1>3, PTL DEF SessionsSpec
=============================================================================
