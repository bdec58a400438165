----------------------- MODULE RefreshRotationProofs -----------------------
(***************************************************************************)
(* Type correctness, that a published session is a revoked one, and that   *)
(* one token has one successor, for any number of requests, any grace      *)
(* window and any Redis.                                                   *)
(*                                                                         *)
(* Lineage is not inductive: Replay adds a pair whose successor is older   *)
(* than the request.  Ordered says where every pair stands relative to the *)
(* row: secrets are numbered as they are minted, so a successor is newer   *)
(* than what it replaces, only the row's own pair reaches the current      *)
(* secret, and every other pair ends at or before the previous one.        *)
(***************************************************************************)
EXTENDS RefreshRotation, TLAPS

Stages == {"electing", "following", "rotating", "publishing", "answered"}

(* A request that has a stage has the fields of a request, and keeps them    *)
(* when it moves on.                                                         *)
LEMMA Busy ==
    ASSUME TypeOK, NEW r \in Reqs, req[r].pc \in Stages
    PROVE  req[r] \in ReqType
  BY DEF TypeOK, Idle, Stages

LEMMA Moved ==
    ASSUME NEW q \in ReqType, NEW pc \in Stages
    PROVE  /\ [q EXCEPT !.pc = pc] \in ReqType
           /\ \A ok \in BOOLEAN : [q EXCEPT !.pc = pc, !.ok = ok] \in ReqType
           /\ \A s \in Token : [q EXCEPT !.pc = pc, !.proposal = s] \in ReqType
  BY DEF ReqType, Stages

LEMMA Fields ==
    ASSUME NEW q \in ReqType
    PROVE  /\ q.presented \in Token /\ q.proposal \in Token
           /\ q.pc \in Stages /\ q.age \in 0 .. MaxDelay
  BY DEF ReqType, Stages

(* Every step keeps every variable in its type.                              *)
LEMMA TypeStep == TypeOK /\ [Next]_vars => TypeOK'
<1> SUFFICES ASSUME TypeOK, [Next]_vars PROVE TypeOK'
  OBVIOUS
<1> USE WindowAssumption, RotationBoundsAssumption, FailuresAssumption
<1>1. ASSUME NEW r \in Reqs, NEW t \in Known, Begin(r, t) PROVE TypeOK'
  <2>1. t \in Token
    BY DEF TypeOK, Known, Token
  <2>2. minted + 1 \in Token
    <3>1. minted \in Token /\ minted < MaxTokens
      BY <1>1 DEF TypeOK, Begin
    <3>2. QED
      BY <3>1 DEF Token
  <2> DEFINE begun == [pc |-> "electing", presented |-> t, proposal |-> minted + 1,
                       ok |-> FALSE, age |-> 0]
  <2>3. begun \in ReqType
    BY <2>1, <2>2 DEF ReqType
  <2>4. req' = [req EXCEPT ![r] = begun] /\ minted' = minted + 1
    BY <1>1 DEF Begin
  <2>5. UNCHANGED <<session, elected, handed, denied>>
    BY <1>1 DEF Begin
  <2> HIDE DEF begun
  <2>6. req' \in [Reqs -> ReqType \cup {Idle}]
    BY <2>3, <2>4 DEF TypeOK
  <2>7. QED
    BY <2>2, <2>4, <2>5, <2>6 DEF TypeOK
<1>2. ASSUME NEW r \in Reqs, Elect(r) PROVE TypeOK'
  <2>1. /\ req[r] \in ReqType /\ req[r].presented \in Token /\ req[r].proposal \in Token
    <3>1. req[r] \in ReqType
      BY <1>2, Busy DEF Elect, Stages
    <3>2. QED
      BY <3>1, Fields
  <2>2. [succ |-> req[r].proposal, ttl |-> Grace + Slack]
            \in [succ : Token, ttl : 1 .. Grace + Slack]
    BY <2>1
  <2>3. elected' \in [Token -> [succ : Token, ttl : 1 .. Grace + Slack] \cup {NoElection}]
    BY <1>2, <2>1, <2>2 DEF TypeOK, Elect
  <2>4. [req[r] EXCEPT !.pc = "rotating"] \in ReqType
    BY <2>1, Moved DEF Stages
  <2>5. req' \in [Reqs -> ReqType \cup {Idle}]
    BY <1>2, <2>4 DEF TypeOK, Elect
  <2>6. QED
    BY <1>2, <2>3, <2>5 DEF TypeOK, Elect
<1>3. ASSUME NEW r \in Reqs, LoseElection(r) \/ ElectionFails(r) \/ Abandon(r) \/ Deliver(r)
      PROVE  TypeOK'
  <2>1. req[r] \in ReqType
    BY <1>3, Busy DEF LoseElection, ElectionFails, Abandon, Deliver, Stages
  <2>2. /\ [req[r] EXCEPT !.pc = "following"] \in ReqType
        /\ [req[r] EXCEPT !.pc = "rotating"] \in ReqType
    BY <2>1, Moved DEF Stages
  <2>3. req' \in [Reqs -> ReqType \cup {Idle}]
    BY <1>3, <2>2 DEF TypeOK, LoseElection, ElectionFails, Abandon, Deliver
  <2>4. QED
    BY <1>3, <2>3 DEF TypeOK, LoseElection, ElectionFails, Abandon, Deliver
<1>4. ASSUME NEW r \in Reqs, Follow(r) PROVE TypeOK'
  <2> DEFINE winner == elected[req[r].presented]
             choice == IF winner = NoElection THEN req[r].proposal ELSE winner.succ
  <2>1. /\ req[r] \in ReqType /\ req[r].presented \in Token /\ req[r].proposal \in Token
    <3>1. req[r] \in ReqType
      BY <1>4, Busy DEF Follow, Stages
    <3>2. QED
      BY <3>1, Fields
  <2>2. choice \in Token
    BY <2>1 DEF TypeOK
  <2>3. [req[r] EXCEPT !.pc = "rotating", !.proposal = choice] \in ReqType
    BY <2>1, <2>2, Moved DEF Stages
  <2>4. req' = [req EXCEPT ![r] = [req[r] EXCEPT !.pc = "rotating", !.proposal = choice]]
    BY <1>4 DEF TypeOK, Follow
  <2>5. QED
    BY <1>4, <2>3, <2>4 DEF TypeOK, Follow
<1>5. ASSUME NEW r \in Reqs, Decide(r) PROVE TypeOK'
  <2>1. /\ req[r] \in ReqType /\ req[r].presented \in Token /\ req[r].proposal \in Token
    <3>1. req[r].pc = "rotating"
      BY <1>5 DEF Decide, Rotate, Replay, Stale, DetectReuse, Invalid, Presents, IsReplay
    <3>2. req[r] \in ReqType
      BY <3>1, Busy DEF Stages
    <3>3. QED
      BY <3>2, Fields
  <2>2. ASSUME NEW success \in BOOLEAN, Answering(r, success)
        PROVE  /\ req' \in [Reqs -> ReqType \cup {Idle}] /\ handed' \subseteq Token \X Token
               /\ elected' = elected /\ minted' = minted /\ denied' = denied
    <3>1. [req[r] EXCEPT !.pc = "answered", !.ok = success] \in ReqType
      BY <2>1, Moved DEF Stages
    <3>2. req' = [req EXCEPT ![r] = [req[r] EXCEPT !.pc = "answered", !.ok = success]]
      BY <2>2 DEF TypeOK, Answering
    <3>3. req' \in [Reqs -> ReqType \cup {Idle}]
      BY <3>1, <3>2 DEF TypeOK
    <3>4. QED
      BY <2>1, <2>2, <3>3 DEF TypeOK, Answering
  <2>3. CASE Rotate(r)
    <3>1. Answering(r, TRUE)
      BY <2>3 DEF Rotate
    <3>2. session' = [current |-> req[r].proposal, previous |-> session.current, age |-> 0,
                      status |-> session.status]
      BY <2>3 DEF TypeOK, SessionType, Rotate
    <3>3. session.current \in Token /\ 0 \in 0 .. Grace
          /\ session.status \in {"live", "expired", "revoked", "compromised"}
      BY DEF TypeOK, SessionType
    <3>4. session' \in SessionType
      BY <2>1, <3>2, <3>3 DEF SessionType
    <3>5. QED
      BY <2>2, <3>1, <3>4 DEF TypeOK
  <2>4. CASE Replay(r) \/ Stale(r) \/ Invalid(r)
    <3>1. session' = session /\ \E success \in BOOLEAN : Answering(r, success)
      BY <2>4 DEF Replay, Stale, Invalid
    <3>2. QED
      BY <2>2, <3>1 DEF TypeOK
  <2>5. CASE DetectReuse(r)
    <3>1. session' \in SessionType
      BY <2>5 DEF TypeOK, SessionType, DetectReuse
    <3>2. [req[r] EXCEPT !.pc = "publishing"] \in ReqType
      BY <2>1, Moved DEF Stages
    <3>3. QED
      BY <2>5, <3>1, <3>2 DEF TypeOK, DetectReuse
  <2>6. QED
    BY <1>5, <2>3, <2>4, <2>5 DEF Decide
<1>6. ASSUME NEW r \in Reqs, PublishReuse(r) PROVE TypeOK'
  <2>1. req[r] \in ReqType
    BY <1>6, Busy DEF PublishReuse, Stages
  <2>2. [req[r] EXCEPT !.pc = "answered", !.ok = FALSE] \in ReqType
    BY <2>1, Moved DEF Stages
  <2>3. req' \in [Reqs -> ReqType \cup {Idle}]
    BY <1>6, <2>2 DEF TypeOK, PublishReuse
  <2>4. QED
    BY <1>6, <2>3 DEF TypeOK, PublishReuse
<1>7. ASSUME Revoke \/ PublishRevoked \/ Expire PROVE TypeOK'
  BY <1>7 DEF TypeOK, SessionType, Revoke, PublishRevoked, Expire
<1>8. ASSUME Tick PROVE TypeOK'
  <2>1. session' \in SessionType
    BY <1>8 DEF TypeOK, SessionType, Tick
  <2>2. elected' \in [Token -> [succ : Token, ttl : 1 .. Grace + Slack] \cup {NoElection}]
    <3>1. ASSUME NEW t \in Token
          PROVE  Aged(elected[t]) \in [succ : Token, ttl : 1 .. Grace + Slack] \cup {NoElection}
      <4>1. CASE elected[t] = NoElection
        BY <4>1 DEF Aged, NoElection
      <4>2. CASE elected[t] \in [succ : Token, ttl : 1 .. Grace + Slack]
        BY <4>2 DEF Aged
      <4>3. QED
        BY <4>1, <4>2 DEF TypeOK
    <3>2. elected' = [t \in Token |-> Aged(elected[t])]
      BY <1>8 DEF Tick
    <3>3. QED
      BY <3>1, <3>2
  <2>3. ASSUME NEW r \in Reqs PROVE req'[r] \in ReqType \cup {Idle}
    <3>1. CASE req[r] = Idle
      BY <1>8, <3>1 DEF TypeOK, Tick
    <3>2. CASE req[r] # Idle
      <4>1. req[r] \in ReqType /\ req[r].age < MaxDelay
        BY <1>8, <3>2 DEF TypeOK, Tick
      <4>2. req'[r] = [req[r] EXCEPT !.age = @ + 1]
        BY <1>8, <3>2 DEF TypeOK, Tick
      <4>3. req[r].age + 1 \in 0 .. MaxDelay
        BY <4>1, Fields
      <4>4. QED
        BY <4>1, <4>2, <4>3 DEF ReqType
    <3>3. QED
      BY <3>1, <3>2
  <2>4. QED
    BY <1>8, <2>1, <2>2, <2>3 DEF TypeOK, Tick
<1>9. CASE UNCHANGED vars
  BY <1>9 DEF vars, TypeOK
<1>10. QED
  BY <1>1, <1>2, <1>3, <1>4, <1>5, <1>6, <1>7, <1>8, <1>9 DEF Next, ServerStep, Environment

LEMMA TypeStart == Init => TypeOK
<1> SUFFICES ASSUME Init PROVE TypeOK
  OBVIOUS
<1>1. 0 \in Token /\ 0 \in 0 .. Grace
  BY WindowAssumption, RotationBoundsAssumption DEF Token
<1>2. session \in SessionType
  BY <1>1 DEF Init, SessionType
<1>3. elected \in [Token -> [succ : Token, ttl : 1 .. Grace + Slack] \cup {NoElection}]
  BY DEF Init
<1>4. req \in [Reqs -> ReqType \cup {Idle}]
  BY DEF Init
<1>5. minted \in Token /\ handed \subseteq Token \X Token /\ denied \in BOOLEAN
  BY <1>1 DEF Init
<1> QED BY <1>2, <1>3, <1>4, <1>5 DEF TypeOK

THEOREM TypeCorrect == Spec => []TypeOK
<1> QED BY TypeStart, TypeStep, PTL DEF Spec

-----------------------------------------------------------------------------
(* A revocation is published by whoever has seen it committed, and no step   *)
(* takes it back.                                                            *)
Published ==
    /\ DeniedIsRevoked
    /\ \A r \in Reqs : req[r].pc = "publishing" => session.status = "compromised"

(* The key every verifier reads denies this session only if its row is       *)
(* revoked: the property DeniedIsRevoked, for any number of requests.        *)
THEOREM Denial == Spec => []DeniedIsRevoked
<1>1. Init => Published
  BY DEF Init, Published, DeniedIsRevoked, Idle
<1>2. TypeOK /\ Published /\ [Next]_vars => Published'
  <2> SUFFICES ASSUME TypeOK, Published, [Next]_vars PROVE Published'
    OBVIOUS
  <2> USE DEF TypeOK, Published, DeniedIsRevoked
  <2>1. ASSUME NEW r \in Reqs, NEW t \in Known, Begin(r, t) PROVE Published'
    BY <2>1 DEF Begin, Idle
  <2>2. ASSUME NEW r \in Reqs, Elect(r) \/ LoseElection(r) \/ Follow(r) \/ ElectionFails(r)
        PROVE  Published'
    <3>1. req[r] \in ReqType
      BY <2>2, Busy DEF Elect, LoseElection, Follow, ElectionFails, Stages
    <3>2. req'[r].pc \in {"following", "rotating"}
      BY <2>2, <3>1 DEF Elect, LoseElection, Follow, ElectionFails, ReqType
    <3>3. \A q \in Reqs \ {r} : req'[q] = req[q]
      BY <2>2 DEF Elect, LoseElection, Follow, ElectionFails
    <3>4. UNCHANGED <<session, denied>>
      BY <2>2 DEF Elect, LoseElection, Follow, ElectionFails
    <3>5. QED
      BY <3>2, <3>3, <3>4
  <2>3. ASSUME NEW r \in Reqs, Rotate(r) \/ Replay(r) \/ Stale(r) \/ Invalid(r)
        PROVE  Published'
    <3>1. req[r] \in ReqType
      BY <2>3, Busy DEF Rotate, Replay, Stale, Invalid, Presents, IsReplay, Stages
    <3>2. req'[r].pc = "answered"
      BY <2>3, <3>1 DEF Rotate, Replay, Stale, Invalid, Answering, ReqType
    <3>3. \A q \in Reqs \ {r} : req'[q] = req[q]
      BY <2>3 DEF Rotate, Replay, Stale, Invalid, Answering
    <3>4. denied' = denied /\ session'.status = session.status
      BY <2>3 DEF Rotate, Replay, Stale, Invalid, Answering, SessionType
    <3>5. QED
      BY <3>2, <3>3, <3>4
  <2>4. ASSUME NEW r \in Reqs, DetectReuse(r) PROVE Published'
    BY <2>4 DEF DetectReuse, SessionType, Live
  <2>5. ASSUME NEW r \in Reqs, PublishReuse(r) \/ Abandon(r) \/ Deliver(r) PROVE Published'
    <3>1. req[r] \in ReqType
      BY <2>5, Busy DEF PublishReuse, Abandon, Deliver, Stages
    <3>2. req'[r].pc \in {"answered", "idle"}
      <4>1. ASSUME PublishReuse(r) PROVE req'[r].pc = "answered"
        BY <3>1, <4>1 DEF PublishReuse, ReqType
      <4>2. ASSUME Abandon(r) \/ Deliver(r) PROVE req'[r].pc = "idle"
        BY <4>2 DEF Abandon, Deliver, Idle
      <4>3. QED
        BY <2>5, <4>1, <4>2
    <3>3. \A q \in Reqs \ {r} : req'[q] = req[q]
      BY <2>5 DEF PublishReuse, Abandon, Deliver
    <3>4. session' = session /\ (denied' = denied \/ session.status = "compromised")
      BY <2>5 DEF PublishReuse, Abandon, Deliver
    <3>5. QED
      BY <3>2, <3>3, <3>4
  <2>6. ASSUME Revoke \/ PublishRevoked \/ Expire PROVE Published'
    BY <2>6 DEF Revoke, PublishRevoked, Expire, Live, SessionType
  <2>7. ASSUME Tick PROVE Published'
    BY <2>7 DEF Tick, Idle, SessionType
  <2>8. CASE UNCHANGED vars
    BY <2>8 DEF vars
  <2>9. QED
    BY <2>1, <2>2, <2>3, <2>4, <2>5, <2>6, <2>7, <2>8
       DEF Next, ServerStep, Decide, Environment
<1>3. Published => DeniedIsRevoked
  BY DEF Published
<1>4. QED
  BY <1>1, <1>2, <1>3, TypeCorrect, PTL DEF Spec

-----------------------------------------------------------------------------
(* Where the pairs, the proposals and the elections stand relative to the    *)
(* row: the strengthening of Lineage that every step keeps.                  *)
Proposing(r) == req[r].pc \in {"electing", "following", "rotating"}

PairsOrdered ==
    \A x \in handed : /\ x[1] < x[2] /\ x[2] <= session.current
                      /\ x[2] = session.current => x[1] = session.previous
                      /\ x[2] < session.current => x[2] <= session.previous
RowOrdered == session.previous < session.current /\ session.current <= minted
ProposalsOrdered ==
    \A r \in Reqs : Proposing(r) =>
        req[r].presented < req[r].proposal /\ req[r].proposal <= minted
ElectionsOrdered ==
    \A t \in Token : elected[t] # NoElection => t < elected[t].succ /\ elected[t].succ <= minted

Ordered == /\ Lineage /\ PairsOrdered /\ RowOrdered
           /\ ProposalsOrdered /\ ElectionsOrdered

(* A client only ever presents a secret that has been minted.                *)
LEMMA KnownMinted ==
    ASSUME TypeOK, PairsOrdered, RowOrdered
    PROVE  \A t \in Known : t \in Token /\ t <= minted
<1> SUFFICES ASSUME NEW t \in Known PROVE t \in Token /\ t <= minted
  OBVIOUS
<1>1. /\ minted \in Token /\ session.current \in Token
      /\ 0 \in Token /\ \A n \in Token : n \in Int /\ 0 <= n
  BY RotationBoundsAssumption DEF TypeOK, SessionType, Token
<1>2. CASE t = 0
  BY <1>1, <1>2
<1>3. ASSUME NEW x \in handed, t = x[2] PROVE t \in Token /\ t <= minted
  <2>1. t \in Token /\ t <= session.current
    BY <1>3 DEF TypeOK, PairsOrdered
  <2>2. QED
    BY <1>1, <2>1 DEF RowOrdered
<1>4. QED
  BY <1>2, <1>3 DEF Known

(* Steps that hand nothing over leave the pairs as they stand.               *)
LEMMA PairsKept ==
    ASSUME TypeOK, TypeOK', Lineage, PairsOrdered, RowOrdered, handed' = handed,
           session'.current = session.current, session'.previous = session.previous,
           minted <= minted'
    PROVE  Lineage' /\ PairsOrdered' /\ RowOrdered'
<1>1. minted \in Int /\ minted' \in Int /\ session.current \in Int
  BY RotationBoundsAssumption DEF TypeOK, SessionType, Token
<1>2. QED
  BY <1>1 DEF Lineage, PairsOrdered, RowOrdered

(* A step that moves one request on, and leaves its token and proposal be or *)
(* stops it proposing, keeps the proposals ordered.                          *)
LEMMA ProposalsKept ==
    ASSUME TypeOK, TypeOK', ProposalsOrdered, minted' = minted, NEW r \in Reqs,
           \A q \in Reqs \ {r} : req'[q] = req[q],
           Proposing(r)' => /\ req'[r].presented < req'[r].proposal
                            /\ req'[r].proposal <= minted
    PROVE  ProposalsOrdered'
  BY DEF ProposalsOrdered, Proposing

(* One token, one successor: the pair of a rotation is new on both sides,    *)
(* and the pair of a replay is the row's own.                                *)
LEMMA HandOver ==
    ASSUME TypeOK, TypeOK', Ordered, NEW r \in Reqs, Rotate(r) \/ Replay(r)
    PROVE  Lineage' /\ PairsOrdered' /\ RowOrdered'
<1> DEFINE pair == <<req[r].presented, req[r].proposal>>
<1>1. /\ req[r].pc = "rotating" /\ handed' = handed \cup {pair} /\ minted' = minted
  BY DEF Rotate, Replay, Presents, IsReplay, Answering
<1>2. req[r] \in ReqType
  BY <1>1, Busy DEF Stages
<1>3. /\ req[r].presented \in Int /\ req[r].proposal \in Int /\ minted \in Int
      /\ session.current \in Int /\ session.previous \in Int
      /\ \A x \in handed : x[1] \in Int /\ x[2] \in Int
  <2>1. Token \subseteq Int /\ None \in Int
    BY RotationBoundsAssumption DEF Token, None
  <2>2. req[r].presented \in Token /\ req[r].proposal \in Token
    BY <1>2, Fields
  <2>3. \A x \in handed : x[1] \in Token /\ x[2] \in Token
    BY DEF TypeOK
  <2>4. session.current \in Token /\ session.previous \in Token \cup {None} /\ minted \in Token
    BY DEF TypeOK, SessionType
  <2>5. QED
    BY <2>1, <2>2, <2>3, <2>4
<1>4. req[r].presented < req[r].proposal /\ req[r].proposal <= minted
  BY <1>1 DEF Ordered, ProposalsOrdered, Proposing
<1>5. pair[1] = req[r].presented /\ pair[2] = req[r].proposal
  OBVIOUS
<1> HIDE DEF pair
<1>6. CASE Rotate(r)
  <2>1. /\ req[r].presented = session.current
        /\ session'.current = req[r].proposal /\ session'.previous = session.current
    BY <1>6 DEF Rotate, Presents, TypeOK, SessionType
  <2>2. \A x \in handed : x[1] # pair[1] /\ x[2] # pair[2]
    BY <1>3, <1>4, <1>5, <2>1 DEF Ordered, PairsOrdered
  <2>3. Lineage'
    BY <1>1, <2>2 DEF Ordered, Lineage
  <2>4. PairsOrdered'
    BY <1>1, <1>3, <1>4, <1>5, <2>1 DEF Ordered, PairsOrdered
  <2>5. RowOrdered'
    BY <1>1, <1>3, <1>4, <2>1 DEF RowOrdered
  <2>6. QED
    BY <2>3, <2>4, <2>5
<1>7. CASE Replay(r)
  <2>1. /\ req[r].presented = session.previous /\ req[r].proposal = session.current
        /\ session' = session
    BY <1>7 DEF Replay, IsReplay, Presents
  <2>2. \A x \in handed : x[1] = pair[1] <=> x[2] = pair[2]
    BY <1>3, <1>4, <1>5, <2>1 DEF Ordered, PairsOrdered
  <2>3. Lineage'
    BY <1>1, <2>2 DEF Ordered, Lineage
  <2>4. PairsOrdered'
    BY <1>1, <1>3, <1>4, <1>5, <2>1 DEF Ordered, PairsOrdered
  <2>5. RowOrdered'
    BY <1>1, <2>1 DEF Ordered, RowOrdered
  <2>6. QED
    BY <2>3, <2>4, <2>5
<1>8. QED
  BY <1>6, <1>7

LEMMA OrderedStep == TypeOK /\ TypeOK' /\ Ordered /\ [Next]_vars => Ordered'
<1> SUFFICES ASSUME TypeOK, TypeOK', Ordered, [Next]_vars PROVE Ordered'
  OBVIOUS
<1>1. /\ Lineage /\ PairsOrdered /\ RowOrdered /\ ProposalsOrdered /\ ElectionsOrdered
      /\ minted \in Int /\ minted <= minted
  BY RotationBoundsAssumption DEF Ordered, TypeOK, Token
<1>2. ASSUME NEW r \in Reqs, NEW t \in Known, Begin(r, t) PROVE Ordered'
  <2>1. t \in Token /\ t \in Int /\ t <= minted
    BY <1>1, KnownMinted, RotationBoundsAssumption DEF Token
  <2>2. Lineage' /\ PairsOrdered' /\ RowOrdered'
    BY <1>1, <1>2, PairsKept DEF Begin
  <2>3. ElectionsOrdered'
    <3>1. \A u \in Token : elected[u] # NoElection => elected[u].succ \in Int
      BY RotationBoundsAssumption DEF TypeOK, Token
    <3>2. QED
      BY <1>1, <1>2, <3>1 DEF Begin, ElectionsOrdered
  <2>4. /\ req'[r].presented = t /\ req'[r].proposal = minted + 1
        /\ \A q \in Reqs \ {r} : req'[q] = req[q]
    BY <1>2 DEF Begin, TypeOK
  <2>5. \A q \in Reqs : Proposing(q) => req[q].proposal \in Int
    BY Busy, Fields, RotationBoundsAssumption DEF Proposing, Stages, Token
  <2>6. ProposalsOrdered'
    BY <1>1, <1>2, <2>1, <2>4, <2>5 DEF Begin, ProposalsOrdered, Proposing
  <2>7. QED
    BY <2>2, <2>3, <2>6 DEF Ordered
<1>3. ASSUME NEW r \in Reqs, Elect(r) PROVE Ordered'
  <2>1. Proposing(r) /\ req[r] \in ReqType /\ req[r].presented \in Token
    BY <1>3, Busy, Fields DEF Elect, Proposing, Stages
  <2>2. Lineage' /\ PairsOrdered' /\ RowOrdered'
    BY <1>1, <1>3, PairsKept DEF Elect
  <2>3. req[r].presented < req[r].proposal /\ req[r].proposal <= minted
    BY <1>1, <2>1 DEF ProposalsOrdered
  <2>4. /\ req'[r].presented = req[r].presented /\ req'[r].proposal = req[r].proposal
        /\ \A q \in Reqs \ {r} : req'[q] = req[q]
    BY <1>3, <2>1 DEF Elect, TypeOK, ReqType
  <2>5. ProposalsOrdered'
    BY <1>1, <1>3, <2>3, <2>4, ProposalsKept DEF Elect
  <2>6. ElectionsOrdered'
    BY <1>1, <1>3, <2>1, <2>3 DEF Elect, ElectionsOrdered, TypeOK
  <2>7. QED
    BY <2>2, <2>5, <2>6 DEF Ordered
<1>4. ASSUME NEW r \in Reqs, Follow(r) PROVE Ordered'
  <2>1. Proposing(r) /\ req[r] \in ReqType /\ req[r].presented \in Token
    BY <1>4, Busy, Fields DEF Follow, Proposing, Stages
  <2>2. Lineage' /\ PairsOrdered' /\ RowOrdered'
    BY <1>1, <1>4, PairsKept DEF Follow
  <2>3. req[r].presented < req[r].proposal /\ req[r].proposal <= minted
    BY <1>1, <2>1 DEF ProposalsOrdered
  <2>4. /\ req'[r].presented = req[r].presented
        /\ \/ req'[r].proposal = req[r].proposal
           \/ /\ elected[req[r].presented] # NoElection
              /\ req'[r].proposal = elected[req[r].presented].succ
        /\ \A q \in Reqs \ {r} : req'[q] = req[q]
    BY <1>4, <2>1 DEF Follow, TypeOK, ReqType
  <2>5. req'[r].presented < req'[r].proposal /\ req'[r].proposal <= minted
    BY <1>1, <2>1, <2>3, <2>4 DEF ElectionsOrdered
  <2>6. ProposalsOrdered'
    BY <1>1, <1>4, <2>4, <2>5, ProposalsKept DEF Follow
  <2>7. ElectionsOrdered'
    BY <1>1, <1>4 DEF Follow, ElectionsOrdered
  <2>8. QED
    BY <2>2, <2>6, <2>7 DEF Ordered
<1>5. ASSUME NEW r \in Reqs, LoseElection(r) \/ ElectionFails(r) PROVE Ordered'
  <2>1. Proposing(r) /\ req[r] \in ReqType
    BY <1>5, Busy DEF LoseElection, ElectionFails, Proposing, Stages
  <2>2. Lineage' /\ PairsOrdered' /\ RowOrdered'
    BY <1>1, <1>5, PairsKept DEF LoseElection, ElectionFails
  <2>3. /\ req'[r].presented = req[r].presented /\ req'[r].proposal = req[r].proposal
        /\ \A q \in Reqs \ {r} : req'[q] = req[q]
    BY <1>5, <2>1 DEF LoseElection, ElectionFails, TypeOK, ReqType
  <2>4. req[r].presented < req[r].proposal /\ req[r].proposal <= minted
    BY <1>1, <2>1 DEF ProposalsOrdered
  <2>5. ProposalsOrdered'
    BY <1>1, <1>5, <2>3, <2>4, ProposalsKept DEF LoseElection, ElectionFails
  <2>6. ElectionsOrdered'
    BY <1>1, <1>5 DEF LoseElection, ElectionFails, ElectionsOrdered
  <2>7. QED
    BY <2>2, <2>5, <2>6 DEF Ordered
<1>6. ASSUME NEW r \in Reqs,
             Decide(r) \/ PublishReuse(r) \/ Abandon(r) \/ Deliver(r)
      PROVE  Ordered'
  <2>1. req[r] \in ReqType
    BY <1>6, Busy DEF Decide, Rotate, Replay, Stale, DetectReuse, Invalid, Presents, IsReplay,
                      PublishReuse, Abandon, Deliver, Stages
  <2>2. ~Proposing(r)' /\ \A q \in Reqs \ {r} : req'[q] = req[q]
    <3>1. ASSUME NEW success \in BOOLEAN, Answering(r, success)
          PROVE  ~Proposing(r)' /\ \A q \in Reqs \ {r} : req'[q] = req[q]
      BY <2>1, <3>1 DEF Answering, Proposing, TypeOK, ReqType
    <3>2. ASSUME Rotate(r) \/ Replay(r) \/ Stale(r) \/ Invalid(r)
          PROVE  \E success \in BOOLEAN : Answering(r, success)
      BY <3>2 DEF Rotate, Replay, Stale, Invalid
    <3>3. ASSUME DetectReuse(r) \/ PublishReuse(r)
          PROVE  ~Proposing(r)' /\ \A q \in Reqs \ {r} : req'[q] = req[q]
      <4>1. CASE DetectReuse(r)
        BY <2>1, <4>1 DEF DetectReuse, Proposing, TypeOK, ReqType
      <4>2. CASE PublishReuse(r)
        BY <2>1, <4>2 DEF PublishReuse, Proposing, TypeOK, ReqType
      <4>3. QED
        BY <3>3, <4>1, <4>2
    <3>4. ASSUME Abandon(r) \/ Deliver(r)
          PROVE  ~Proposing(r)' /\ \A q \in Reqs \ {r} : req'[q] = req[q]
      BY <3>4 DEF Abandon, Deliver, Proposing, TypeOK, Idle
    <3>5. QED
      BY <1>6, <3>1, <3>2, <3>3, <3>4 DEF Decide
  <2>3. minted' = minted /\ elected' = elected
    BY <1>6 DEF Decide, Rotate, Replay, Stale, DetectReuse, Invalid, Answering,
                PublishReuse, Abandon, Deliver
  <2>4. ProposalsOrdered' /\ ElectionsOrdered'
    <3>1. ProposalsOrdered'
      BY <1>1, <2>2, <2>3, ProposalsKept
    <3>2. QED
      BY <1>1, <2>3, <3>1 DEF ElectionsOrdered
  <2>5. Lineage' /\ PairsOrdered' /\ RowOrdered'
    <3>1. CASE Rotate(r) \/ Replay(r)
      BY <3>1, HandOver
    <3>2. CASE ~(Rotate(r) \/ Replay(r))
      <4>1. handed' = handed
        BY <1>6, <3>2 DEF Decide, Stale, DetectReuse, Invalid, Answering,
                          PublishReuse, Abandon, Deliver
      <4>2. session'.current = session.current /\ session'.previous = session.previous
        BY <1>6, <3>2 DEF Decide, Stale, DetectReuse, Invalid, PublishReuse, Abandon, Deliver,
                          TypeOK, SessionType
      <4>3. QED
        BY <1>1, <2>3, <4>1, <4>2, PairsKept
    <3>3. QED
      BY <3>1, <3>2
  <2>6. QED
    BY <2>4, <2>5 DEF Ordered
<1>7. ASSUME Environment PROVE Ordered'
  <2>1. /\ handed' = handed /\ minted' = minted
        /\ session'.current = session.current /\ session'.previous = session.previous
    BY <1>7 DEF Environment, Revoke, PublishRevoked, Expire, Tick, TypeOK, SessionType
  <2>2. Lineage' /\ PairsOrdered' /\ RowOrdered'
    BY <1>1, <2>1, PairsKept
  <2>3. CASE Revoke \/ PublishRevoked \/ Expire
    BY <1>1, <2>1, <2>2, <2>3 DEF Revoke, PublishRevoked, Expire, Ordered,
                                  ProposalsOrdered, Proposing, ElectionsOrdered
  <2>4. CASE Tick
    <3>1. \A q \in Reqs : Proposing(q)' =>
              /\ Proposing(q) /\ req'[q].presented = req[q].presented
              /\ req'[q].proposal = req[q].proposal
      BY <2>4 DEF Tick, Proposing, TypeOK, ReqType, Idle
    <3>2. ProposalsOrdered'
      BY <1>1, <2>1, <3>1 DEF ProposalsOrdered
    <3>3. \A t \in Token : elected'[t] # NoElection =>
              elected[t] # NoElection /\ elected'[t].succ = elected[t].succ
      <4>1. SUFFICES ASSUME NEW t \in Token, elected'[t] # NoElection
                     PROVE  elected[t] # NoElection /\ elected'[t].succ = elected[t].succ
        OBVIOUS
      <4>2. elected'[t] = Aged(elected[t])
        BY <2>4 DEF Tick
      <4>3. CASE elected[t] = NoElection
        BY <4>1, <4>2, <4>3 DEF Aged, NoElection
      <4>4. CASE elected[t] \in [succ : Token, ttl : 1 .. Grace + Slack] /\ elected[t] # NoElection
        BY <4>1, <4>2, <4>4 DEF Aged
      <4>5. QED
        BY <4>3, <4>4 DEF TypeOK
    <3>4. QED
      BY <1>1, <2>1, <2>2, <3>2, <3>3 DEF Ordered, ElectionsOrdered
  <2>5. QED
    BY <1>7, <2>3, <2>4 DEF Environment
<1>8. CASE UNCHANGED vars
  BY <1>1, <1>8 DEF vars, Ordered, Lineage, PairsOrdered, RowOrdered, ProposalsOrdered,
                    Proposing, ElectionsOrdered
<1>9. QED
  BY <1>2, <1>3, <1>4, <1>5, <1>6, <1>7, <1>8 DEF Next, ServerStep

(* One token has one successor and a successor one predecessor, whatever     *)
(* races, expires, dies or is forgotten: the property Lineage.               *)
THEOREM OneSuccessor == Spec => []Lineage
<1>1. Init => Ordered
  BY DEF Init, Ordered, Lineage, PairsOrdered, RowOrdered, ProposalsOrdered, Proposing,
         ElectionsOrdered, None, Idle
<1>2. Ordered => Lineage
  BY DEF Ordered
<1>3. QED
  BY <1>1, <1>2, OrderedStep, TypeCorrect, PTL DEF Spec
=============================================================================
