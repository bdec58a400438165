--------------------------- MODULE ProgressProofs ----------------------------
(* Work that goes on in spite of failures: the sweep of lapsed bindings, the *)
(* requests on the connection pool, and the installation.                    *)
EXTENDS MCProgress, FiniteSetTheorems, TLAPS

-----------------------------------------------------------------------------
(* ExpirySweep.  That each lapsed binding is audited once, and that its      *)
(* grant leaves the cache by the bump or by its lifetime, for any number of  *)
(* bindings, replicas, readers and crashes, any batch and any lifetime.      *)
(* SweepSound is not inductive.  ClaimsApart is what SKIP LOCKED buys: a row *)
(* is in one pass at a time, and not marked before that pass commits.        *)
(* Noticed says that a request which missed after the bump, with grants from *)
(* before the lapse, has been noted; Aging that what a request or an entry   *)
(* still grants is younger than its own age allows.                          *)

PassRec == [pc : {"resting", "claiming", "publishing"}, rows : SUBSET Binding]
EntryRec == [grants : BOOLEAN, ttl : 0 .. EntryTtl]
AskRec == [pc : {"begun", "missed"}, of : Binding, live : BOOLEAN,
           bumped : BOOLEAN, stay : 0 .. MaxStay]

(* The state of the passes, ...                                              *)
PassesTyped ==
    /\ lapsed \subseteq Binding /\ swept \subseteq lapsed
    /\ audits \in [Binding -> Nat]
    /\ sweeper \in [Replica -> PassRec]
ClaimsApart ==
    /\ \A s \in Replica :
          /\ sweeper[s].pc = "resting" => sweeper[s].rows = {}
          /\ sweeper[s].pc = "claiming" => sweeper[s].rows \cap swept = {}
          /\ sweeper[s].pc = "publishing" => sweeper[s].rows \subseteq swept
          /\ sweeper[s].rows \subseteq lapsed
    /\ \A s, t \in Replica : s # t => sweeper[s].rows \cap sweeper[t].rows = {}
PassInv == PassesTyped /\ ClaimsApart /\ AuditedOnce

(* ... of the readers, ...                                                   *)
ReadersTyped ==
    /\ since \in [Binding -> 0 .. Horizon]
    /\ cached \in [Binding -> EntryRec]
    /\ asking \in [Reader -> {Absent} \cup AskRec]
Noticed ==
    \A q \in Reader : asking[q] # Absent /\ asking[q].pc = "missed" =>
        (asking[q].live /\ asking[q].bumped => asking[q].of \in straddled)

(* ... and their ages.                                                       *)
Aging ==
    /\ \A b \in Binding : b \notin lapsed => since[b] = 0
    /\ \A q \in Reader :
          asking[q] # Absent /\ asking[q].live => since[asking[q].of] <= asking[q].stay
    /\ \A b \in Binding : cached[b].ttl > 0 /\ cached[b].grants =>
          since[b] + cached[b].ttl <= EntryTtl + MaxStay

SweepIInv == PassInv /\ ReadersTyped /\ Noticed /\ SweptIsGone /\ Aging

LEMMA AbsentIsAbsent == Absent \notin AskRec
<1> SUFFICES ASSUME Absent \in AskRec PROVE FALSE
  OBVIOUS
<1>1. Absent.pc \in {"begun", "missed"}
  BY DEF AskRec
<1>2. QED
  BY <1>1 DEF Absent

LEMMA RecordsTyped == Resting \in PassRec /\ NotCached \in EntryRec
  BY SweepAssumption DEF Resting, PassRec, NotCached, EntryRec

(* Rows taken off a pass leave it a pass.                                    *)
LEMMA LessRows ==
    ASSUME NEW p \in PassRec, NEW b
    PROVE  LET rest == p.rows \ {b}
               q == IF rest = {} THEN Resting ELSE [p EXCEPT !.rows = rest]
           IN  /\ q \in PassRec /\ q.rows = rest
               /\ q.pc = IF rest = {} THEN "resting" ELSE p.pc
<1>1. CASE p.rows \ {b} = {}
  BY <1>1, RecordsTyped DEF Resting
<1>2. CASE p.rows \ {b} # {}
  BY <1>2 DEF PassRec
<1>3. QED
  BY <1>1, <1>2

(* Each pass has its own rows, and marks and audits them together.           *)
LEMMA PassStep == PassInv /\ [SweepNext]_sweepVars => PassInv'
<1> SUFFICES ASSUME PassInv, [SweepNext]_sweepVars PROVE PassInv'
  OBVIOUS
<1>1. ASSUME NEW s \in Replica, Claim(s) PROVE PassInv'
  <2>1. PICK rows \in SUBSET (lapsed \ (swept \cup Locked)) :
            sweeper' = [sweeper EXCEPT ![s] = [pc |-> "claiming", rows |-> rows]]
    BY <1>1 DEF Claim
  <2>2. [pc |-> "claiming", rows |-> rows] \in PassRec
    BY DEF PassRec, PassInv, PassesTyped
  <2>3. \A t \in Replica : t # s => rows \cap sweeper[t].rows = {}
    <3> SUFFICES ASSUME NEW t \in Replica, NEW b \in rows, b \in sweeper[t].rows PROVE FALSE
      OBVIOUS
    <3>1. b \notin swept /\ b \notin Locked
      OBVIOUS
    <3>2. sweeper[t].pc # "claiming" /\ sweeper[t].pc # "resting"
      BY <3>1 DEF Locked, PassInv, ClaimsApart
    <3>3. sweeper[t].pc = "publishing"
      BY <3>2 DEF PassInv, PassesTyped, PassRec
    <3>4. QED
      BY <3>1, <3>3 DEF PassInv, ClaimsApart
  <2>4. QED
    BY <1>1, <2>1, <2>2, <2>3 DEF PassInv, PassesTyped, ClaimsApart, AuditedOnce, Claim, tableVars
<1>2. ASSUME NEW s \in Replica, CommitClaim(s) PROVE PassInv'
  <2>1. sweeper' = [sweeper EXCEPT ![s] = [sweeper[s] EXCEPT !.pc = "publishing"]]
    BY <1>2 DEF CommitClaim, PassInv, PassesTyped
  <2>2. [sweeper[s] EXCEPT !.pc = "publishing"] \in PassRec
    BY DEF PassInv, PassesTyped, PassRec
  <2>3. \A t \in Replica : /\ sweeper'[t].rows = sweeper[t].rows
                           /\ sweeper'[t].pc = IF t = s THEN "publishing" ELSE sweeper[t].pc
    BY <2>1 DEF PassInv, PassesTyped, PassRec
  <2>4. sweeper[s].rows \subseteq lapsed \ swept
    BY <1>2 DEF CommitClaim, PassInv, ClaimsApart
  <2>5. PassesTyped'
    BY <1>2, <2>1, <2>2, <2>4 DEF CommitClaim, PassInv, PassesTyped
  <2>6. ClaimsApart'
    BY <1>2, <2>3, <2>4 DEF CommitClaim, PassInv, ClaimsApart
  <2>7. AuditedOnce'
    BY <1>2, <2>4 DEF CommitClaim, PassInv, AuditedOnce
  <2>8. QED
    BY <2>5, <2>6, <2>7 DEF PassInv
<1>3. ASSUME NEW s \in Replica, NEW p \in PassRec, sweeper' = [sweeper EXCEPT ![s] = p],
             UNCHANGED tableVars, p.rows \subseteq sweeper[s].rows,
             p.pc = IF p.rows = {} THEN "resting" ELSE sweeper[s].pc
      PROVE  PassInv'
  BY <1>3 DEF PassInv, PassesTyped, ClaimsApart, AuditedOnce, tableVars
<1>4. ASSUME NEW s \in Replica, ClaimFails(s) \/ SweeperDies(s) PROVE PassInv'
  <2>1. sweeper' = [sweeper EXCEPT ![s] = Resting] /\ UNCHANGED tableVars
    BY <1>4 DEF ClaimFails, SweeperDies
  <2>2. Resting.rows = {} /\ Resting.pc = "resting" /\ Resting \in PassRec
    BY RecordsTyped DEF Resting
  <2>3. QED
    BY <1>3, <2>1, <2>2
<1>5. ASSUME NEW s \in Replica, NEW b \in Binding, BumpSwept(s, b) \/ BumpSweptFails(s, b)
      PROVE  PassInv'
  <2> DEFINE rest == sweeper[s].rows \ {b}
             p == IF rest = {} THEN Resting ELSE [sweeper[s] EXCEPT !.rows = rest]
  <2>1. sweeper' = [sweeper EXCEPT ![s] = p] /\ UNCHANGED tableVars
    BY <1>5 DEF BumpSwept, BumpSweptFails, Published, PassInv, PassesTyped
  <2>2. /\ p \in PassRec /\ p.rows = rest /\ rest \subseteq sweeper[s].rows
        /\ p.pc = IF rest = {} THEN "resting" ELSE sweeper[s].pc
    BY LessRows DEF PassInv, PassesTyped
  <2> HIDE DEF p, rest
  <2>3. QED
    BY <1>3, <2>1, <2>2
<1>6. CASE UNCHANGED <<swept, audits, sweeper>> /\ lapsed \subseteq lapsed' /\ lapsed' \subseteq Binding
  BY <1>6 DEF PassInv, PassesTyped, ClaimsApart, AuditedOnce
<1>7. ASSUME NEW b \in Binding, NEW q \in Reader, BeginRead(q, b) PROVE PassInv'
  BY <1>6, <1>7 DEF BeginRead, tableVars, PassInv, PassesTyped
<1>8. ASSUME NEW b \in Binding, Lapse(b) PROVE PassInv'
  BY <1>6, <1>8 DEF Lapse, PassInv, PassesTyped
<1>9. ASSUME NEW q \in Reader, ServeCached(q) \/ MissCached(q) \/ Fill(q) PROVE PassInv'
  BY <1>6, <1>9 DEF ServeCached, MissCached, Fill, tableVars, PassInv, PassesTyped
<1>10. CASE SweepTick \/ UNCHANGED sweepVars
  BY <1>6, <1>10 DEF SweepTick, sweepVars, PassInv, PassesTyped
<1>11. QED
  BY <1>1, <1>2, <1>4, <1>5, <1>7, <1>8, <1>9, <1>10 DEF SweepNext, Pass

-----------------------------------------------------------------------------
(* The readers' variables keep their types.                                  *)
LEMMA ReadersStep == PassInv /\ ReadersTyped /\ [SweepNext]_sweepVars => ReadersTyped'
<1> SUFFICES ASSUME PassInv, ReadersTyped, [SweepNext]_sweepVars PROVE ReadersTyped'
  OBVIOUS
<1> USE SweepAssumption
<1>1. CASE UNCHANGED <<since, cached, asking>>
  BY <1>1 DEF ReadersTyped
<1>2. ASSUME NEW s \in Replica, Pass(s) \/ ClaimFails(s) \/ SweeperDies(s) PROVE ReadersTyped'
  <2>1. CASE \E b \in Binding : BumpSwept(s, b)
    BY <2>1, RecordsTyped DEF ReadersTyped, BumpSwept, tableVars
  <2>2. CASE ~ \E b \in Binding : BumpSwept(s, b)
    BY <1>1, <1>2, <2>2 DEF Pass, Claim, CommitClaim, BumpSweptFails, ClaimFails, SweeperDies,
                            tableVars
  <2>3. QED
    BY <2>1, <2>2
<1>3. ASSUME NEW b \in Binding, NEW q \in Reader, BeginRead(q, b) PROVE ReadersTyped'
  <2> DEFINE a == [pc |-> "begun", of |-> b, live |-> b \notin lapsed, bumped |-> FALSE, stay |-> 0]
  <2>1. a \in AskRec
    BY DEF AskRec
  <2> HIDE DEF a
  <2>2. asking' = [asking EXCEPT ![q] = a]
    BY <1>3 DEF BeginRead, a
  <2>3. QED
    BY <1>3, <2>1, <2>2 DEF ReadersTyped, BeginRead, tableVars
<1>4. ASSUME NEW q \in Reader, MissCached(q) PROVE ReadersTyped'
  <2> DEFINE a == [asking[q] EXCEPT !.pc = "missed", !.bumped = asking[q].of \in Bumped]
  <2>1. asking[q] \in AskRec
    BY <1>4 DEF ReadersTyped, MissCached
  <2>2. (asking[q].of \in Bumped) \in BOOLEAN /\ "missed" \in {"begun", "missed"}
    OBVIOUS
  <2> HIDE DEF Bumped
  <2>3. a \in AskRec
    BY <2>1, <2>2 DEF AskRec
  <2>4. asking' = [asking EXCEPT ![q] = a]
    BY <1>4 DEF MissCached, ReadersTyped
  <2> HIDE DEF a
  <2>5. QED
    BY <1>4, <2>3, <2>4 DEF ReadersTyped, MissCached, tableVars
<1>5. ASSUME NEW q \in Reader, Fill(q) PROVE ReadersTyped'
  <2> DEFINE e == IF asking[q].bumped = (asking[q].of \in Bumped)
                  THEN [grants |-> asking[q].live, ttl |-> EntryTtl] ELSE NotCached
  <2>1. asking[q] \in AskRec
    BY <1>5 DEF ReadersTyped, Fill
  <2>2. e \in EntryRec
    BY <2>1, RecordsTyped DEF AskRec, EntryRec
  <2>3. cached' = [cached EXCEPT ![asking[q].of] = e]
    BY <1>5 DEF Fill
  <2> HIDE DEF e
  <2>4. QED
    BY <1>5, <2>2, <2>3 DEF ReadersTyped, Fill, tableVars
<1>6. CASE SweepTick
  <2>1. since' \in [Binding -> 0 .. Horizon]
    BY <1>6 DEF ReadersTyped, SweepTick, Horizon
  <2>2. ASSUME NEW b \in Binding PROVE cached'[b] \in EntryRec
    <3>1. cached[b] \in EntryRec
      BY DEF ReadersTyped
    <3>2. cached[b].ttl > 1 => [cached[b] EXCEPT !.ttl = cached[b].ttl - 1] \in EntryRec
      BY <3>1 DEF EntryRec
    <3>3. cached'[b] = IF cached[b].ttl <= 1 THEN NotCached
                       ELSE [cached[b] EXCEPT !.ttl = cached[b].ttl - 1]
      BY <1>6 DEF SweepTick
    <3>4. cached[b].ttl \in Nat
      BY <3>1 DEF EntryRec
    <3>5. QED
      BY <3>2, <3>3, <3>4, RecordsTyped
  <2>3. ASSUME NEW q \in Reader PROVE asking'[q] \in {Absent} \cup AskRec
    <3>1. asking[q] # Absent => [asking[q] EXCEPT !.stay = asking[q].stay + 1] \in AskRec
      BY <1>6 DEF ReadersTyped, AskRec, SweepTick
    <3>2. asking'[q] = IF asking[q] = Absent THEN Absent
                       ELSE [asking[q] EXCEPT !.stay = asking[q].stay + 1]
      BY <1>6 DEF SweepTick
    <3>3. QED
      BY <3>1, <3>2
  <2>4. cached' \in [Binding -> EntryRec] /\ asking' \in [Reader -> {Absent} \cup AskRec]
    BY <1>6, <2>2, <2>3 DEF SweepTick
  <2>5. QED
    BY <2>1, <2>4 DEF ReadersTyped
<1>7. ASSUME NEW b \in Binding, Lapse(b) PROVE ReadersTyped'
  BY <1>1, <1>7 DEF Lapse
<1>8. ASSUME NEW q \in Reader, ServeCached(q) PROVE ReadersTyped'
  BY <1>8 DEF ReadersTyped, ServeCached, tableVars
<1>9. QED
  BY <1>1, <1>2, <1>3, <1>4, <1>5, <1>6, <1>7, <1>8 DEF SweepNext, sweepVars

(* A request that misses after the bump with grants from before the lapse is *)
(* noted as it misses.                                                       *)
LEMMA NoticedStep == ReadersTyped /\ Noticed /\ [SweepNext]_sweepVars => Noticed'
<1> SUFFICES ASSUME ReadersTyped, Noticed, [SweepNext]_sweepVars,
                    NEW p \in Reader, asking'[p] # Absent, asking'[p].pc = "missed",
                    asking'[p].live, asking'[p].bumped
             PROVE  asking'[p].of \in straddled'
  BY DEF Noticed
<1> HIDE DEF Bumped
<1>1. CASE UNCHANGED <<asking, straddled>>
  BY <1>1 DEF Noticed
<1>2. ASSUME NEW q \in Reader, MissCached(q) PROVE asking'[p].of \in straddled'
  <2>1. CASE p = q
    <3>1. asking[q] \in AskRec
      BY <1>2 DEF ReadersTyped, MissCached
    <3>2. /\ asking'[q].of = asking[q].of /\ asking'[q].live = asking[q].live
          /\ asking'[q].bumped = (asking[q].of \in Bumped)
      BY <1>2, <3>1 DEF ReadersTyped, MissCached, AskRec
    <3>3. asking[q].live /\ asking[q].of \in Bumped
      BY <2>1, <3>2
    <3>4. straddled' = straddled \cup {asking[q].of}
      BY <1>2, <3>3 DEF MissCached
    <3>5. QED
      BY <2>1, <3>2, <3>4
  <2>2. CASE p # q
    <3>1. asking'[p] = asking[p] /\ straddled \subseteq straddled'
      BY <1>2, <2>2 DEF ReadersTyped, MissCached
    <3>2. QED
      BY <3>1 DEF Noticed
  <2>3. QED
    BY <2>1, <2>2
<1>3. ASSUME NEW q \in Reader, NEW b \in Binding, BeginRead(q, b)
      PROVE  asking'[p].of \in straddled'
  BY <1>3 DEF ReadersTyped, BeginRead, Noticed
<1>4. ASSUME NEW q \in Reader, ServeCached(q) \/ Fill(q) PROVE asking'[p].of \in straddled'
  BY <1>4 DEF ReadersTyped, ServeCached, Fill, Noticed
<1>5. CASE SweepTick
  <2>1. asking[p] # Absent /\ asking'[p] = [asking[p] EXCEPT !.stay = asking[p].stay + 1]
    BY <1>5 DEF SweepTick
  <2>2. asking[p] \in AskRec
    BY <2>1 DEF ReadersTyped
  <2>3. /\ asking'[p].of = asking[p].of /\ asking'[p].live = asking[p].live
        /\ asking'[p].bumped = asking[p].bumped /\ asking'[p].pc = asking[p].pc
    BY <2>1, <2>2 DEF AskRec
  <2>4. QED
    BY <1>5, <2>1, <2>3 DEF SweepTick, Noticed
<1>6. CASE \/ \E s \in Replica : Pass(s) \/ ClaimFails(s) \/ SweeperDies(s)
           \/ \E b \in Binding : Lapse(b)
           \/ UNCHANGED sweepVars
  BY <1>1, <1>6 DEF Pass, Claim, CommitClaim, BumpSwept, BumpSweptFails, ClaimFails, SweeperDies,
                    Lapse, sweepVars
<1>7. QED
  BY <1>2, <1>3, <1>4, <1>5, <1>6 DEF SweepNext

(* A binding comes to be bumped by its bump alone.                           *)
LEMMA BumpedGrows ==
    ASSUME PassInv, [SweepNext]_sweepVars, NEW b \in Bumped', b \notin Bumped
    PROVE  \E s \in Replica : BumpSwept(s, b)
<1>1. b \in swept' /\ b \notin lost' /\ \A s \in Replica : b \notin sweeper'[s].rows
  BY DEF Bumped
<1>2. b \in Binding
  <2>1. PassInv'
    BY PassStep
  <2>2. QED
    BY <1>1, <2>1 DEF PassInv, PassesTyped
<1>3. ASSUME NEW s \in Replica, Claim(s) PROVE FALSE
  <2>1. PICK t \in Replica : b \in sweeper[t].rows
    BY <1>1, <1>3 DEF Bumped, Claim, tableVars
  <2>2. sweeper[t].pc = "resting" => sweeper[t].rows = {}
    BY DEF PassInv, ClaimsApart
  <2>3. QED
    BY <1>1, <1>3, <2>1, <2>2 DEF Claim, PassInv, PassesTyped
<1>4. ASSUME NEW s \in Replica, CommitClaim(s) PROVE FALSE
  <2>1. \A t \in Replica : sweeper'[t].rows = sweeper[t].rows
    BY <1>4 DEF CommitClaim, PassInv, PassesTyped, PassRec
  <2>2. QED
    BY <1>1, <1>4, <2>1 DEF CommitClaim, Bumped
<1>5. ASSUME NEW s \in Replica, ClaimFails(s) \/ SweeperDies(s) PROVE FALSE
  <2>1. PICK t \in Replica : b \in sweeper[t].rows
    BY <1>1, <1>5 DEF Bumped, ClaimFails, SweeperDies, tableVars
  <2>2. t = s
    BY <1>1, <1>5, <2>1 DEF ClaimFails, SweeperDies, PassInv, PassesTyped
  <2>3. sweeper[s].pc \in {"claiming", "publishing"} /\ b \in swept
    BY <1>1, <1>5 DEF ClaimFails, SweeperDies, tableVars, PassInv, PassesTyped, PassRec
  <2>4. QED
    BY <1>1, <1>5, <2>1, <2>2, <2>3 DEF ClaimFails, SweeperDies, PassInv, ClaimsApart
<1>6. ASSUME NEW s \in Replica, NEW c \in Binding, c # b \/ BumpSweptFails(s, c),
             BumpSwept(s, c) \/ BumpSweptFails(s, c)
      PROVE  FALSE
  <2> DEFINE rest == sweeper[s].rows \ {c}
             p == IF rest = {} THEN Resting ELSE [sweeper[s] EXCEPT !.rows = rest]
  <2>1. sweeper' = [sweeper EXCEPT ![s] = p] /\ p.rows = rest
    BY <1>6, LessRows DEF BumpSwept, BumpSweptFails, Published, PassInv, PassesTyped
  <2> HIDE DEF p
  <2>2. PICK t \in Replica : b \in sweeper[t].rows
    BY <1>1, <1>6 DEF Bumped, BumpSwept, BumpSweptFails, tableVars
  <2>3. t = s /\ b = c
    BY <1>1, <2>1, <2>2 DEF PassInv, PassesTyped
  <2>4. QED
    BY <1>1, <1>6, <2>3 DEF BumpSweptFails
<1>7. CASE UNCHANGED <<swept, sweeper, lost>>
  BY <1>7 DEF Bumped
<1>8. CASE \/ \E c \in Binding : Lapse(c) \/ \E q \in Reader : BeginRead(q, c)
           \/ \E q \in Reader : ServeCached(q) \/ MissCached(q) \/ Fill(q)
           \/ SweepTick \/ UNCHANGED sweepVars
  <2>1. UNCHANGED <<swept, sweeper, lost>>
    BY <1>8 DEF Lapse, BeginRead, ServeCached, MissCached, Fill, SweepTick, sweepVars, tableVars
  <2>2. QED
    BY <1>7, <2>1
<1>9. QED
  BY <1>2, <1>3, <1>4, <1>5, <1>6, <1>8 DEF SweepNext, Pass

(* What a bump has removed does not come back.                               *)
LEMMA GoneStep ==
    PassInv /\ ReadersTyped /\ Noticed /\ SweptIsGone /\ [SweepNext]_sweepVars => SweptIsGone'
<1> SUFFICES ASSUME PassInv, ReadersTyped, Noticed, SweptIsGone, [SweepNext]_sweepVars,
                    NEW b \in Bumped', b \notin straddled', cached'[b].ttl > 0
             PROVE  ~cached'[b].grants
  BY DEF SweptIsGone
<1>1. b \in Binding
  <2>1. PassInv' /\ b \in swept'
    BY PassStep DEF Bumped
  <2>2. QED
    BY <2>1 DEF PassInv, PassesTyped
<1>2. CASE b \notin Bumped
  <2>1. PICK s \in Replica : BumpSwept(s, b)
    BY <1>2, BumpedGrows
  <2>2. cached'[b] = NotCached
    BY <1>1, <2>1 DEF BumpSwept, ReadersTyped
  <2>3. QED
    BY <2>2 DEF NotCached
<1>3. CASE b \in Bumped
  <2>1. CASE cached'[b] = cached[b] /\ straddled \subseteq straddled'
    BY <1>3, <2>1 DEF SweptIsGone
  <2>2. ASSUME NEW q \in Reader, Fill(q), asking[q].of = b PROVE ~cached'[b].grants
    <3>1. asking[q] # Absent /\ asking[q].pc = "missed" /\ straddled' = straddled
      BY <2>2 DEF Fill
    <3>2. asking[q] \in AskRec
      BY <3>1 DEF ReadersTyped
    <3>3. cached'[b] = IF asking[q].bumped = (b \in Bumped)
                       THEN [grants |-> asking[q].live, ttl |-> EntryTtl] ELSE NotCached
      BY <1>1, <2>2 DEF Fill, ReadersTyped
    <3>4. CASE asking[q].bumped
      <4>1. ~asking[q].live
        BY <2>2, <3>1, <3>4 DEF Noticed
      <4>2. QED
        BY <3>3, <4>1 DEF NotCached
    <3>5. CASE ~asking[q].bumped
      <4>1. cached'[b] = NotCached
        BY <1>3, <3>2, <3>3, <3>5 DEF AskRec
      <4>2. QED
        BY <4>1 DEF NotCached
    <3>6. QED
      BY <3>4, <3>5
  <2>3. ASSUME NEW q \in Reader, Fill(q), asking[q].of # b PROVE ~cached'[b].grants
    BY <1>1, <2>1, <2>3 DEF Fill, ReadersTyped
  <2>4. CASE SweepTick
    <3>1. cached'[b] = IF cached[b].ttl <= 1 THEN NotCached
                       ELSE [cached[b] EXCEPT !.ttl = cached[b].ttl - 1]
      BY <1>1, <2>4 DEF SweepTick
    <3>2. cached[b] \in EntryRec /\ straddled' = straddled
      BY <1>1, <2>4 DEF ReadersTyped, SweepTick
    <3>3. CASE cached[b].ttl <= 1
      BY <3>1, <3>3 DEF NotCached
    <3>4. CASE ~(cached[b].ttl <= 1)
      <4>1. cached'[b].grants = cached[b].grants /\ cached[b].ttl > 0
        BY <3>1, <3>2, <3>4 DEF EntryRec
      <4>2. QED
        BY <1>3, <3>2, <4>1 DEF SweptIsGone
    <3>5. QED
      BY <3>3, <3>4
  <2>5. ASSUME NEW s \in Replica, NEW c \in Binding, BumpSwept(s, c) PROVE ~cached'[b].grants
    <3>1. cached'[b] = (IF b = c THEN NotCached ELSE cached[b]) /\ straddled' = straddled
      BY <1>1, <2>5 DEF BumpSwept, ReadersTyped
    <3>2. QED
      BY <2>1, <3>1 DEF NotCached
  <2>6. ASSUME cached' = cached /\ straddled \subseteq straddled' PROVE ~cached'[b].grants
    BY <2>1, <2>6
  <2>7. ASSUME NEW q \in Reader, MissCached(q) PROVE ~cached'[b].grants
    <3>1. straddled \subseteq straddled' /\ cached' = cached
      BY <2>7 DEF MissCached
    <3>2. QED
      BY <2>6, <3>1
  <2>8. CASE \/ \E s \in Replica : \/ Claim(s) \/ CommitClaim(s) \/ ClaimFails(s)
                                   \/ SweeperDies(s) \/ \E c \in Binding : BumpSweptFails(s, c)
             \/ \E c \in Binding : Lapse(c) \/ \E q \in Reader : BeginRead(q, c)
             \/ \E q \in Reader : ServeCached(q)
             \/ UNCHANGED sweepVars
    <3>1. cached' = cached /\ straddled' = straddled
      BY <2>8 DEF Claim, CommitClaim, ClaimFails, SweeperDies, BumpSweptFails, Lapse, BeginRead,
                  ServeCached, sweepVars
    <3>2. QED
      BY <2>6, <3>1
  <2>9. QED
    BY <2>2, <2>3, <2>4, <2>5, <2>7, <2>8 DEF SweepNext, Pass
<1>4. QED
  BY <1>2, <1>3

-----------------------------------------------------------------------------
(* Ages: a request that began before the lapse has been going on for as long *)
(* as the binding has been lapsed, and what it writes has a TTL to live.     *)
LEMMA AgingStep == PassInv /\ ReadersTyped /\ Aging /\ [SweepNext]_sweepVars => Aging'
<1> SUFFICES ASSUME PassInv, ReadersTyped, Aging, [SweepNext]_sweepVars PROVE Aging'
  OBVIOUS
<1> USE SweepAssumption
<1>1. CASE UNCHANGED <<lapsed, since, cached, asking>>
  BY <1>1 DEF Aging
<1>2. ASSUME NEW s \in Replica, NEW b \in Binding, BumpSwept(s, b) PROVE Aging'
  BY <1>2 DEF Aging, BumpSwept, tableVars, ReadersTyped, NotCached
<1>3. ASSUME NEW b \in Binding, Lapse(b) PROVE Aging'
  BY <1>3 DEF Aging, Lapse
<1>4. ASSUME NEW b \in Binding, NEW q \in Reader, BeginRead(q, b) PROVE Aging'
  <2> DEFINE a == [pc |-> "begun", of |-> b, live |-> b \notin lapsed, bumped |-> FALSE, stay |-> 0]
  <2>1. asking' = [asking EXCEPT ![q] = a] /\ UNCHANGED <<lapsed, since, cached>>
    BY <1>4 DEF BeginRead, tableVars
  <2>2. a.of = b /\ a.stay = 0 /\ (a.live => since[b] = 0)
    BY DEF Aging
  <2> HIDE DEF a
  <2>3. QED
    BY <2>1, <2>2 DEF Aging, ReadersTyped
<1>5. ASSUME NEW q \in Reader, ServeCached(q) PROVE Aging'
  BY <1>5 DEF Aging, ServeCached, tableVars, ReadersTyped
<1>6. ASSUME NEW q \in Reader, MissCached(q) PROVE Aging'
  <2> DEFINE a == [asking[q] EXCEPT !.pc = "missed", !.bumped = asking[q].of \in Bumped]
  <2>1. asking' = [asking EXCEPT ![q] = a] /\ UNCHANGED <<lapsed, since, cached>>
    BY <1>6 DEF MissCached, tableVars, ReadersTyped
  <2>2. asking[q] # Absent /\ asking[q] \in AskRec
    BY <1>6 DEF MissCached, ReadersTyped
  <2>3. a.of = asking[q].of /\ a.stay = asking[q].stay /\ a.live = asking[q].live
    BY <2>2 DEF AskRec
  <2> HIDE DEF a
  <2>4. QED
    BY <2>1, <2>2, <2>3 DEF Aging, ReadersTyped
<1>7. ASSUME NEW q \in Reader, Fill(q) PROVE Aging'
  <2> DEFINE b == asking[q].of
             e == IF asking[q].bumped = (b \in Bumped)
                  THEN [grants |-> asking[q].live, ttl |-> EntryTtl] ELSE NotCached
  <2>1. asking[q] # Absent /\ asking[q] \in AskRec
    BY <1>7 DEF Fill, ReadersTyped
  <2>2. cached' = [cached EXCEPT ![b] = e] /\ asking' = [asking EXCEPT ![q] = Absent]
    BY <1>7 DEF Fill
  <2>3. UNCHANGED <<lapsed, since>>
    BY <1>7 DEF Fill, tableVars
  <2>4. b \in Binding /\ asking[q].stay \in 0 .. MaxStay /\ since[b] \in 0 .. Horizon
    BY <2>1 DEF AskRec, ReadersTyped
  <2>5. e.ttl > 0 /\ e.grants => e.ttl = EntryTtl /\ asking[q].live
    BY DEF NotCached
  <2>6. e.ttl > 0 /\ e.grants => since[b] + e.ttl <= EntryTtl + MaxStay
    BY <2>1, <2>4, <2>5 DEF Aging, Horizon
  <2> HIDE DEF b, e
  <2>7. \A c \in Binding : cached'[c] = IF c = b THEN e ELSE cached[c]
    BY <2>2 DEF ReadersTyped
  <2>8. \A p \in Reader : asking'[p] = IF p = q THEN Absent ELSE asking[p]
    BY <2>2 DEF ReadersTyped
  <2>9. QED
    BY <2>3, <2>6, <2>7, <2>8 DEF Aging
<1>8. CASE SweepTick
  <2>1. \A b \in Binding : b \notin lapsed' => since'[b] = 0
    BY <1>8 DEF SweepTick, Aging
  <2>2. ASSUME NEW b \in Binding PROVE since'[b] <= since[b] + 1 /\ since[b] \in Nat /\ since'[b] \in Nat
    BY <1>8 DEF SweepTick, ReadersTyped, Horizon
  <2>3. ASSUME NEW p \in Reader, asking'[p] # Absent, asking'[p].live
        PROVE  since'[asking'[p].of] <= asking'[p].stay
    <3>1. asking[p] # Absent /\ asking'[p] = [asking[p] EXCEPT !.stay = asking[p].stay + 1]
      BY <1>8, <2>3 DEF SweepTick
    <3>2. asking[p] \in AskRec
      BY <3>1 DEF ReadersTyped
    <3>3. /\ asking'[p].of = asking[p].of /\ asking'[p].live = asking[p].live
          /\ asking'[p].stay = asking[p].stay + 1 /\ asking[p].stay \in Nat /\ asking[p].of \in Binding
      BY <3>1, <3>2 DEF AskRec
    <3>4. since[asking[p].of] <= asking[p].stay
      BY <2>3, <3>1, <3>3 DEF Aging
    <3>5. QED
      BY <2>2, <3>3, <3>4
  <2>4. ASSUME NEW b \in Binding, cached'[b].ttl > 0, cached'[b].grants
        PROVE  since'[b] + cached'[b].ttl <= EntryTtl + MaxStay
    <3>1. cached[b] \in EntryRec
      BY DEF ReadersTyped
    <3>2. cached'[b] = IF cached[b].ttl <= 1 THEN NotCached
                       ELSE [cached[b] EXCEPT !.ttl = cached[b].ttl - 1]
      BY <1>8 DEF SweepTick
    <3>3. cached[b].ttl > 1 /\ cached'[b] = [cached[b] EXCEPT !.ttl = cached[b].ttl - 1]
      BY <2>4, <3>1, <3>2 DEF NotCached, EntryRec
    <3>4. /\ cached'[b].ttl = cached[b].ttl - 1 /\ cached'[b].grants = cached[b].grants
          /\ cached[b].ttl \in Nat
      BY <3>1, <3>3 DEF EntryRec
    <3>5. since[b] + cached[b].ttl <= EntryTtl + MaxStay
      BY <2>4, <3>3, <3>4 DEF Aging
    <3>6. QED
      BY <2>2, <3>4, <3>5
  <2>5. QED
    BY <2>1, <2>3, <2>4 DEF Aging
<1>9. CASE \/ \E s \in Replica : \/ Claim(s) \/ CommitClaim(s) \/ ClaimFails(s)
                                 \/ SweeperDies(s) \/ \E c \in Binding : BumpSweptFails(s, c)
           \/ UNCHANGED sweepVars
  BY <1>1, <1>9 DEF Claim, CommitClaim, ClaimFails, SweeperDies, BumpSweptFails, tableVars, sweepVars
<1>10. QED
  BY <1>2, <1>3, <1>4, <1>5, <1>6, <1>7, <1>8, <1>9 DEF SweepNext, Pass

-----------------------------------------------------------------------------
LEMMA SweepInits == SweepInit => SweepIInv
<1> SUFFICES ASSUME SweepInit PROVE SweepIInv
  OBVIOUS
<1>1. PassInv
  BY RecordsTyped DEF SweepInit, PassInv, PassesTyped, ClaimsApart, AuditedOnce, Resting
<1>2. ReadersTyped
  BY RecordsTyped, SweepAssumption DEF SweepInit, ReadersTyped, Horizon
<1>3. Noticed
  BY DEF SweepInit, Noticed
<1>4. SweptIsGone
  BY DEF SweepInit, SweptIsGone, Bumped
<1>5. Aging
  BY DEF SweepInit, Aging, NotCached
<1> QED BY <1>1, <1>2, <1>3, <1>4, <1>5 DEF SweepIInv

LEMMA SweepSteps == SweepIInv /\ [SweepNext]_sweepVars => SweepIInv'
BY PassStep, ReadersStep, NoticedStep, GoneStep, AgingStep DEF SweepIInv

(* ExpirySweep: passes are apart, late readers noticed, ages bounded.        *)
THEOREM SweepInvariant == SweepSpec => []SweepIInv
BY SweepInits, SweepSteps, PTL DEF SweepSpec

(* However many replicas sweep and however they fail: one audit record for   *)
(* each swept binding and none for others; a bump that lands is final, but   *)
(* for what a request straddled; and whatever is lost, a lapsed grant is out *)
(* of the cache a TTL and one request after the lapse.                       *)
THEOREM Swept == SweepSpec => []SweepSound
<1>1. SweepIInv => SweepSound
  <2> SUFFICES ASSUME SweepIInv PROVE LapsedAgesOut
    BY DEF SweepIInv, PassInv, SweepSound
  <2> SUFFICES ASSUME NEW b \in Binding, since[b] > EntryTtl + MaxStay, cached[b].ttl > 0,
                      cached[b].grants
               PROVE  FALSE
    BY DEF LapsedAgesOut, SweepIInv, ReadersTyped, EntryRec
  <2>1. since[b] + cached[b].ttl <= EntryTtl + MaxStay
    BY DEF SweepIInv, Aging
  <2>2. since[b] \in Nat /\ cached[b].ttl \in Nat
    BY SweepAssumption DEF SweepIInv, ReadersTyped, EntryRec, Horizon
  <2>3. QED
    BY <2>1, <2>2, SweepAssumption
<1>2. QED
  BY <1>1, SweepInvariant, PTL

-----------------------------------------------------------------------------
(* RequestTransactions.  That no statement runs under another tenant or      *)
(* another authority than its own request's, and that what is told after a   *)
(* commit was committed, for any number of requests, connections, tenants    *)
(* and retries.  strayed is a history and says nothing of what could still   *)
(* go wrong.  The invariant says where every setting is at every moment: a   *)
(* connection is used by one request at a time (Apart), nobody's connection  *)
(* is as new (Rested), and a request's own has the settings its stage calls  *)
(* for, the deferred callbacks being those of its last attempt (Fits).       *)

ConnRec == [txn : {"none", "open", "aborted"},
            set : [client : SUBSET Anyone, platform : BOOLEAN]]
ReqRec == [pc : Stands, cid : SUBSET Anyone, own : SUBSET Conn, extra : SUBSET Conn,
           target : SUBSET Tenant, previous : SUBSET Anyone, nested : BOOLEAN,
           attempt : Attempt, deferred : SUBSET Attempt, told : SUBSET Attempt,
           stands : SUBSET Attempt]

Early == {"guarding", "denying", "opened"}
AtHome == {"handling", "nestWaits", "nesting"}
Holding == Early \cup AtHome \cup {"visiting", "committed"}

Home(q) == [client |-> q.cid, platform |-> q.cid = {Platform}]
Away(q) == [client |-> q.target, platform |-> q.cid = {Platform}]

(* What a request's own connection is set to. *)
Settled(q, k) ==
    /\ q.pc \in Early => k.set = Unset
    /\ q.pc \in AtHome => k.set = Home(q)
    /\ q.pc = "visiting" => k.set = Away(q) /\ q.previous = q.cid
    /\ q.pc = "committed" => k = Idle

(* What it has to tell. *)
Telling(q) ==
    /\ q.deferred \subseteq {q.attempt}
    /\ q.pc = "committed" => q.stands = {q.attempt}
    /\ q.told = {} \/ (q.pc = "answered" /\ q.told \subseteq q.stands)

Fits(q, cn) ==
    /\ IF q.pc \in Holding THEN \E c \in Conn : q.own = {c} ELSE q.own = {}
    /\ IF q.pc = "nesting" THEN \E c \in Conn : q.extra = {c} ELSE q.extra = {}
    /\ q.own \cap q.extra = {}
    /\ \A c \in q.own : Settled(q, cn[c])
    /\ \A c \in q.extra : cn[c] = Idle
    /\ Telling(q)

Uses(q) == IF q = Gone THEN {} ELSE q.own \cup q.extra

Typed == conn \in [Conn -> ConnRec] /\ req \in [Request -> ReqRec \cup {Gone}] /\ strayed \in BOOLEAN
Sound == \A r \in Request : req[r] # Gone => Fits(req[r], conn)
Apart == \A r, s \in Request : r # s => Uses(req[r]) \cap Uses(req[s]) = {}
Rested == \A c \in Conn : (\A r \in Request : c \notin Uses(req[r])) => conn[c] = Idle
Queued ==
    /\ queue \in Seq(Request)
    /\ \A i \in 1 .. Len(queue) : req[queue[i]].pc \in Waits
    /\ \A i, j \in 1 .. Len(queue) : queue[i] = queue[j] => i = j
PoolInv == Typed /\ Sound /\ Apart /\ Rested
TxIInv == PoolInv /\ Queued /\ ~strayed

LEMMA IdleTyped == Idle \in ConnRec /\ Unset \in [client : SUBSET Anyone, platform : BOOLEAN]
  BY DEF Idle, Unset, ConnRec

LEMMA OneOf == ASSUME NEW c PROVE The({c}) = c
  BY DEF The

LEMMA GoneIsGone == Gone \notin ReqRec
<1> SUFFICES ASSUME Gone \in ReqRec PROVE FALSE
  OBVIOUS
<1>1. Gone.pc \in Stands
  BY DEF ReqRec
<1>2. QED
  BY <1>1 DEF Gone, Stands, Waits

(* The context of a connection as it comes from the pool.                    *)
LEMMA FreshContext ==
    ASSUME NEW cid \in SUBSET Anyone
    PROVE  ContextOf(Unset, cid) = [client |-> cid, platform |-> cid = {Platform}]
<1> DEFINE Settings == [client : SUBSET Anyone, platform : BOOLEAN]
           named == [Unset EXCEPT !.client = cid]
           flag == (named.platform \/ named.client = {Platform}) /\ cid = {Platform}
<1>1. Unset \in Settings /\ Unset.platform = FALSE
  BY DEF Unset
<1>2. named \in Settings /\ named.client = cid /\ named.platform = FALSE
  BY <1>1
<1>3. flag = (cid = {Platform}) /\ flag \in BOOLEAN
  BY <1>2
<1> HIDE DEF named
<1>4. [named EXCEPT !.platform = flag] = [client |-> cid, platform |-> cid = {Platform}]
  BY <1>2, <1>3
<1>5. QED
  BY <1>4 DEF ContextOf, named

(* A step of one request, which leaves the connections of the others alone,  *)
(* uses only its own or free ones, fits afterwards, and leaves what nobody   *)
(* uses as new, keeps the invariant.                                         *)
LEMMA OneRequest ==
    ASSUME PoolInv, NEW r \in Request, NEW q \in ReqRec \cup {Gone},
           req' = [req EXCEPT ![r] = q],
           conn' \in [Conn -> ConnRec], strayed' \in BOOLEAN,
           q # Gone => Fits(q, conn'),
           \A s \in Request \ {r} : \A c \in Uses(req[s]) : c \notin Uses(q) /\ conn'[c] = conn[c],
           \A c \in Conn \ Uses(q) : (\A s \in Request \ {r} : c \notin Uses(req[s])) => conn'[c] = Idle
    PROVE  PoolInv'
<1>1. Typed'
  BY DEF PoolInv, Typed
<1>2. \A s \in Request : req'[s] = IF s = r THEN q ELSE req[s]
  BY DEF PoolInv, Typed
<1>3. Sound'
  <2> SUFFICES ASSUME NEW s \in Request, req'[s] # Gone PROVE Fits(req'[s], conn')
    BY DEF Sound
  <2>1. CASE s = r
    BY <1>2, <2>1
  <2>2. CASE s # r
    <3>1. req'[s] = req[s] /\ Fits(req[s], conn)
      BY <1>2, <2>2 DEF PoolInv, Sound
    <3>2. \A c \in req[s].own \cup req[s].extra : conn'[c] = conn[c]
      BY <2>2, <3>1 DEF Uses
    <3>3. QED
      BY <3>1, <3>2 DEF Fits
  <2>3. QED
    BY <2>1, <2>2
<1>4. Apart'
  <2> SUFFICES ASSUME NEW s \in Request, NEW t \in Request, s # t
               PROVE  Uses(req'[s]) \cap Uses(req'[t]) = {}
    BY DEF Apart, Uses
  <2>1. CASE s # r /\ t # r
    BY <1>2, <2>1 DEF PoolInv, Apart
  <2>2. CASE s = r \/ t = r
    BY <1>2, <2>2
  <2>3. QED
    BY <2>1, <2>2
<1>5. Rested'
  <2> SUFFICES ASSUME NEW c \in Conn, \A s \in Request : c \notin Uses(req'[s])
               PROVE  conn'[c] = Idle
    BY DEF Rested, Uses
  <2>1. c \notin Uses(q)
    BY <1>2
  <2>2. \A s \in Request \ {r} : c \notin Uses(req[s])
    BY <1>2
  <2>3. QED
    BY <2>1, <2>2
<1>6. QED
  BY <1>1, <1>3, <1>4, <1>5 DEF PoolInv

(* ... in particular one that touches no connection and holds what it held,  *)
LEMMA NoConnection ==
    ASSUME PoolInv, NEW r \in Request, NEW q \in ReqRec \cup {Gone},
           req' = [req EXCEPT ![r] = q], conn' = conn, strayed' \in BOOLEAN,
           q # Gone => Fits(q, conn), Uses(q) \subseteq Uses(req[r]),
           \A c \in Uses(req[r]) \ Uses(q) : conn[c] = Idle
    PROVE  PoolInv'
<1>1. \A s \in Request \ {r} : \A c \in Uses(req[s]) : c \notin Uses(q) /\ conn'[c] = conn[c]
  BY DEF PoolInv, Apart
<1>2. ASSUME NEW c \in Conn \ Uses(q), \A s \in Request \ {r} : c \notin Uses(req[s])
      PROVE  conn'[c] = Idle
  <2>1. CASE c \in Uses(req[r])
    BY <1>2, <2>1
  <2>2. CASE c \notin Uses(req[r])
    BY <1>2, <2>2 DEF PoolInv, Rested
  <2>3. QED
    BY <2>1, <2>2
<1>3. \A c \in Conn \ Uses(q) :
          (\A s \in Request \ {r} : c \notin Uses(req[s])) => conn'[c] = Idle
  BY <1>2
<1>4. conn' \in [Conn -> ConnRec] /\ (q # Gone => Fits(q, conn'))
  BY DEF PoolInv, Typed
<1>5. QED
  BY <1>1, <1>3, <1>4, OneRequest, Zenon

(* ... and one on its own connection, which it keeps or gives back as new.   *)
LEMMA OwnConnection ==
    ASSUME PoolInv, NEW r \in Request, req[r] # Gone, NEW q \in ReqRec,
           NEW c \in Conn, req[r].own = {c}, NEW k \in ConnRec,
           req' = [req EXCEPT ![r] = q], conn' = [conn EXCEPT ![c] = k], strayed' \in BOOLEAN,
           Fits(q, conn'), q.extra = {}, req[r].extra = {},
           q.own = {c} \/ (q.own = {} /\ k = Idle)
    PROVE  PoolInv'
<1>1. q # Gone /\ Uses(q) = q.own /\ Uses(req[r]) = {c}
  BY GoneIsGone DEF Uses
<1>2. conn' \in [Conn -> ConnRec]
  BY DEF PoolInv, Typed
<1>3. ASSUME NEW s \in Request \ {r}, NEW d \in Uses(req[s])
      PROVE  d \notin Uses(q) /\ conn'[d] = conn[d]
  <2>1. d # c
    BY <1>1 DEF PoolInv, Apart
  <2>2. req[s] # Gone /\ d \in Conn
    BY <1>3 DEF Uses, PoolInv, Typed, ReqRec
  <2>3. QED
    BY <1>1, <2>1, <2>2 DEF PoolInv, Typed
<1>4. ASSUME NEW d \in Conn \ Uses(q), \A s \in Request \ {r} : d \notin Uses(req[s])
      PROVE  conn'[d] = Idle
  <2>1. CASE d = c
    BY <1>1, <1>4, <2>1 DEF PoolInv, Typed
  <2>2. CASE d # c
    BY <1>1, <1>4, <2>2 DEF PoolInv, Typed, Rested
  <2>3. QED
    BY <2>1, <2>2
<1>5. q \in ReqRec \cup {Gone} /\ (q # Gone => Fits(q, conn'))
  OBVIOUS
<1>6. \A s \in Request \ {r} : \A d \in Uses(req[s]) : d \notin Uses(q) /\ conn'[d] = conn[d]
  BY <1>3
<1>7. \A d \in Conn \ Uses(q) :
          (\A s \in Request \ {r} : d \notin Uses(req[s])) => conn'[d] = Idle
  BY <1>4
<1>8. QED
  BY <1>2, <1>5, <1>6, <1>7, OneRequest, Zenon

-----------------------------------------------------------------------------
(* Of a request that holds a connection: which, and what is known of it.     *)
LEMMA Holds ==
    ASSUME PoolInv, NEW r \in Request, NEW pcs, At(r, pcs), pcs \subseteq Holding
    PROVE  /\ req[r] \in ReqRec /\ req[r] # Gone /\ req[r].pc \in pcs /\ Telling(req[r])
           /\ \E c \in Conn : /\ req[r].own = {c} /\ Own(r) = c /\ Settled(req[r], conn[c])
                              /\ conn[c] \in ConnRec
<1>1. req[r] \in ReqRec /\ req[r] # Gone /\ req[r].pc \in pcs
  BY DEF At, PoolInv, Typed
<1>2. Fits(req[r], conn)
  BY <1>1 DEF PoolInv, Sound
<1>3. PICK c \in Conn : req[r].own = {c}
  BY <1>1, <1>2 DEF Fits
<1>4. Own(r) = c
  BY <1>3, OneOf DEF Own
<1>5. QED
  BY <1>1, <1>2, <1>3, <1>4 DEF Fits, PoolInv, Typed

LEMMA NoExtra ==
    ASSUME PoolInv, NEW r \in Request, req[r] # Gone, req[r].pc # "nesting"
    PROVE  req[r].extra = {}
  BY DEF PoolInv, Sound, Fits

LEMMA FitsHolding ==
    ASSUME NEW q, NEW cn, NEW c \in Conn, q.own = {c}, q.extra = {}, q.pc \in Holding,
           q.pc # "nesting", Settled(q, cn[c]), Telling(q)
    PROVE  Fits(q, cn)
  BY DEF Fits

LEMMA FitsBare ==
    ASSUME NEW q, NEW cn, q.own = {}, q.extra = {}, q.pc \notin Holding, Telling(q)
    PROVE  Fits(q, cn)
  BY DEF Fits, Holding, AtHome

(* Requests that wait or have no transaction: they hold nothing.             *)
LEMMA Bare ==
    ASSUME PoolInv, NEW r \in Request, req[r] # Gone, req[r].pc \notin Holding
    PROVE  req[r] \in ReqRec /\ req[r].own = {} /\ req[r].extra = {} /\ Telling(req[r])
  BY DEF PoolInv, Typed, Sound, Fits, Holding, AtHome

LEMMA ArriveStep ==
    ASSUME PoolInv, NEW r \in Request, NEW cid \in SUBSET Anyone, Arrive(r, cid)
    PROVE  PoolInv'
<1> DEFINE q == [pc |-> IF cid = {} THEN "waits" ELSE "deciding", cid |-> cid, own |-> {},
                 extra |-> {}, target |-> {}, previous |-> {}, nested |-> FALSE, attempt |-> 1,
                 deferred |-> {}, told |-> {}, stands |-> {}]
<1>1. q \in ReqRec
  BY PoolAssumption DEF ReqRec, Stands, Waits, Attempt
<1>2. Fits(q, conn) /\ Uses(q) = {}
  BY <1>1, GoneIsGone DEF Fits, Uses, Holding, Early, AtHome, Telling
<1>3. req' = [req EXCEPT ![r] = q] /\ conn' = conn /\ strayed' \in BOOLEAN /\ req[r] = Gone
  BY DEF Arrive, PoolInv, Typed
<1>4. Uses(req[r]) = {}
  BY <1>3 DEF Uses
<1> HIDE DEF q
<1>5. QED
  BY <1>1, <1>2, <1>3, <1>4, NoConnection

LEMMA DecideStep ==
    ASSUME PoolInv, NEW r \in Request, Decide(r)
    PROVE  PoolInv'
<1>1. PICK stand \in {"guardWaits", "denyWaits", "waits"} : req' = [req EXCEPT ![r].pc = stand]
  BY DEF Decide
<1>2. req[r] # Gone /\ req[r].pc \in {"deciding", "decided"} /\ req[r].pc \notin Holding
  BY DEF Decide, At, Holding, Early, AtHome
<1>3. req[r] \in ReqRec /\ req[r].own = {} /\ req[r].extra = {} /\ Telling(req[r])
  BY <1>2, Bare
<1> DEFINE q == [req[r] EXCEPT !.pc = stand]
<1>4. q \in ReqRec /\ q.pc = stand /\ q.own = {} /\ q.extra = {} /\ Telling(q)
  BY <1>2, <1>3 DEF ReqRec, Stands, Waits, Telling
<1>5. req' = [req EXCEPT ![r] = q] /\ conn' = conn /\ strayed' \in BOOLEAN
  BY <1>1 DEF Decide, PoolInv, Typed
<1>6. Fits(q, conn)
  BY <1>4, FitsBare DEF Holding, Early, AtHome
<1>7. Uses(q) = {} /\ Uses(req[r]) = {}
  BY <1>2, <1>3, <1>4, GoneIsGone DEF Uses
<1> HIDE DEF q
<1>8. QED
  BY <1>4, <1>5, <1>6, <1>7, NoConnection

LEMMA AnswerStep ==
    ASSUME PoolInv, NEW r \in Request, AnswerRequest(r)
    PROVE  PoolInv'
<1>1. req[r] # Gone /\ req[r].pc \notin Holding
  BY DEF AnswerRequest, At, Holding, Early, AtHome
<1>2. Uses(req[r]) = {} /\ Uses(Gone) = {}
  BY <1>1, Bare DEF Uses
<1>3. req' = [req EXCEPT ![r] = Gone] /\ conn' = conn /\ strayed' \in BOOLEAN
  BY DEF AnswerRequest, PoolInv, Typed
<1>4. QED
  BY <1>2, <1>3, NoConnection

(* A transaction ends, and its connection goes back as new: the guard's, the *)
(* handler's.                                                                *)
LEMMA Released ==
    ASSUME PoolInv, NEW r \in Request, NEW q \in ReqRec, NEW pcs,
           At(r, pcs), pcs \subseteq Holding \ {"nesting"},
           req' = [req EXCEPT ![r] = q], strayed' \in BOOLEAN,
           conn' = [conn EXCEPT ![Own(r)] = Ended(Own(r))],
           q.own = {}, q.extra = {}, q.pc \notin Holding, Telling(q)
    PROVE  PoolInv'
<1>1. req[r] \in ReqRec /\ req[r] # Gone /\ req[r].pc \in pcs
  BY Holds
<1>2. PICK c \in Conn : req[r].own = {c} /\ Own(r) = c
  BY Holds
<1>3. req[r].extra = {}
  BY <1>1, NoExtra
<1>4. Fits(q, conn')
  BY FitsBare
<1>5. conn' = [conn EXCEPT ![c] = Idle]
  BY <1>2 DEF Ended
<1>6. QED
  BY <1>1, <1>2, <1>3, <1>4, <1>5, IdleTyped, OwnConnection

LEMMA GuardStep ==
    ASSUME PoolInv, NEW r \in Request, GuardTransaction(r)
    PROVE  PoolInv'
<1>1. At(r, {"guarding", "denying"}) /\ {"guarding", "denying"} \subseteq Holding \ {"nesting"}
  BY DEF GuardTransaction, Holding, Early
<1>2. PICK stand \in {"decided", "answered"} : req' = [req EXCEPT ![r].own = {}, ![r].pc = stand]
  BY DEF GuardTransaction
<1>3. req[r] \in ReqRec /\ req[r] # Gone /\ req[r].pc \in Early /\ Telling(req[r])
  BY <1>1, Holds DEF Early
<1>4. req[r].extra = {}
  BY <1>3, NoExtra DEF Early
<1> DEFINE q == [req[r] EXCEPT !.own = {}, !.pc = stand]
<1>5. q \in ReqRec /\ q.pc = stand /\ q.own = {} /\ q.extra = {} /\ Telling(q)
  BY <1>3, <1>4 DEF ReqRec, Stands, Telling, Early
<1>6. req' = [req EXCEPT ![r] = q] /\ strayed' \in BOOLEAN
  BY <1>2 DEF GuardTransaction, PoolInv, Typed
<1>7. q.pc \notin Holding
  BY <1>5 DEF Holding, Early, AtHome
<1>8. conn' = [conn EXCEPT ![Own(r)] = Ended(Own(r))]
  BY DEF GuardTransaction
<1> HIDE DEF q
<1>9. QED
  BY <1>1, <1>5, <1>6, <1>7, <1>8, Released

LEMMA RollbackStep ==
    ASSUME PoolInv, NEW r \in Request, Rollback(r) \/ Retry(r)
    PROVE  PoolInv'
<1> DEFINE pcs == {"opened", "handling", "visiting"}
<1>1. At(r, pcs) /\ pcs \subseteq Holding \ {"nesting"}
  BY DEF Rollback, Retry, Holding, Early, AtHome
<1>2. req[r] \in ReqRec /\ req[r] # Gone /\ req[r].pc \in pcs /\ Telling(req[r])
  BY <1>1, Holds
<1>3. req[r].extra = {}
  BY <1>2, NoExtra
<1>4. conn' = [conn EXCEPT ![Own(r)] = Ended(Own(r))] /\ strayed' \in BOOLEAN
  BY DEF Rollback, Retry, PoolInv, Typed
<1>5. CASE Rollback(r)
  <2> DEFINE q == [req[r] EXCEPT !.pc = "answered", !.own = {}, !.deferred = {}]
  <2>1. q \in ReqRec /\ q.pc = "answered" /\ q.own = {} /\ q.extra = {} /\ Telling(q)
    BY <1>2, <1>3 DEF ReqRec, Stands, Telling
  <2>2. req' = [req EXCEPT ![r] = q]
    BY <1>5 DEF Rollback, PoolInv, Typed
  <2>3. q.pc \notin Holding
    BY <2>1 DEF Holding, Early, AtHome
  <2> HIDE DEF q, pcs
  <2>4. QED
    BY <1>1, <1>4, <2>1, <2>2, <2>3, Released
<1>6. CASE Retry(r)
  <2> DEFINE q == [req[r] EXCEPT !.pc = "waits", !.own = {}, !.attempt = req[r].attempt + 1,
                                 !.target = {}, !.previous = {}, !.deferred = {}]
  <2>1. req[r].attempt + 1 \in Attempt
    BY <1>2, <1>6, PoolAssumption DEF Retry, ReqRec, Attempt
  <2>2. q \in ReqRec /\ q.pc = "waits" /\ q.own = {} /\ q.extra = {}
    BY <1>2, <1>3, <2>1 DEF ReqRec, Stands, Waits
  <2>3. Telling(q)
    BY <1>2 DEF ReqRec, Telling
  <2>4. req' = [req EXCEPT ![r] = q]
    BY <1>6 DEF Retry, PoolInv, Typed
  <2>5. q.pc \notin Holding
    BY <2>2 DEF Holding, Early, AtHome
  <2> HIDE DEF q, pcs
  <2>6. QED
    BY <1>1, <1>4, <2>2, <2>3, <2>4, <2>5, Released
<1>7. QED
  BY <1>5, <1>6

(* The connection is kept, with whatever settings suit the new stage.        *)
LEMMA Kept ==
    ASSUME PoolInv, NEW r \in Request, NEW q \in ReqRec, NEW k \in ConnRec, NEW pcs,
           At(r, pcs), pcs \subseteq Holding \ {"nesting"},
           req' = [req EXCEPT ![r] = q], strayed' \in BOOLEAN,
           conn' = [conn EXCEPT ![Own(r)] = k],
           q.own = req[r].own, q.extra = {}, q.pc \in Holding \ {"nesting"},
           Settled(q, k), Telling(q)
    PROVE  PoolInv'
<1>1. req[r] \in ReqRec /\ req[r] # Gone /\ req[r].pc \in pcs
  BY Holds
<1>2. PICK c \in Conn : req[r].own = {c} /\ Own(r) = c
  BY Holds
<1>3. req[r].extra = {}
  BY <1>1, NoExtra
<1>4. conn' = [conn EXCEPT ![c] = k] /\ conn'[c] = k
  BY <1>2 DEF PoolInv, Typed
<1>5. Fits(q, conn')
  BY <1>2, <1>4, FitsHolding
<1>6. q.own = {c} \/ (q.own = {} /\ k = Idle)
  BY <1>2
<1>7. conn' = [conn EXCEPT ![c] = k] /\ req[r] # Gone /\ req[r].own = {c}
  BY <1>1, <1>2, <1>4
<1>8. QED
  BY <1>3, <1>5, <1>6, <1>7, OwnConnection

LEMMA OpenStep ==
    ASSUME PoolInv, NEW r \in Request, Open(r)
    PROVE  PoolInv'
<1>1. At(r, {"opened"}) /\ {"opened"} \subseteq Holding \ {"nesting"}
  BY DEF Open, Holding, Early
<1>2. req[r] \in ReqRec /\ req[r] # Gone /\ req[r].pc = "opened" /\ Telling(req[r])
  BY <1>1, Holds
<1>3. conn[Own(r)] \in ConnRec /\ conn[Own(r)].set = Unset
  BY <1>1, <1>2, Holds DEF Settled, Early
<1>4. req[r].extra = {}
  BY <1>2, NoExtra
<1> DEFINE q == [req[r] EXCEPT !.pc = "handling"]
           set == IF req[r].cid = {} THEN conn[Own(r)].set
                  ELSE ContextOf(conn[Own(r)].set, req[r].cid)
           k == [conn[Own(r)] EXCEPT !.set = set]
<1>5. /\ q \in ReqRec /\ q.pc = "handling" /\ q.own = req[r].own /\ q.extra = {}
      /\ q.cid = req[r].cid /\ Telling(q)
  BY <1>2, <1>4 DEF ReqRec, Stands, Telling
<1>6. set = Home(req[r])
  BY <1>3 DEF Home, Unset, ContextOf
<1>7. Home(req[r]) \in [client : SUBSET Anyone, platform : BOOLEAN]
  BY <1>2 DEF Home, ReqRec
<1>8. k \in ConnRec /\ k.set = Home(req[r])
  BY <1>3, <1>6, <1>7 DEF ConnRec
<1>9. Home(q) = Home(req[r]) /\ Settled(q, k)
  BY <1>5, <1>8 DEF Home, Settled, Early, AtHome
<1>10. conn' = [conn EXCEPT ![Own(r)] = k]
  BY DEF Open, PoolInv, Typed
<1>11. req' = [req EXCEPT ![r] = q] /\ strayed' \in BOOLEAN
  BY DEF Open, PoolInv, Typed
<1>12. q.pc \in Holding \ {"nesting"}
  BY <1>5 DEF Holding, AtHome
<1> HIDE DEF q, k, set
<1>13. QED
  BY <1>1, <1>5, <1>8, <1>9, <1>10, <1>11, <1>12, Kept

LEMMA VisitStep ==
    ASSUME PoolInv, NEW r \in Request, NEW t \in Tenant, Visit(r, t)
    PROVE  PoolInv'
<1>1. At(r, {"handling"}) /\ {"handling"} \subseteq Holding \ {"nesting"}
  BY DEF Visit, Holding, AtHome
<1>2. req[r] \in ReqRec /\ req[r] # Gone /\ req[r].pc = "handling" /\ Telling(req[r])
  BY <1>1, Holds
<1>3. conn[Own(r)] \in ConnRec /\ conn[Own(r)].set = Home(req[r])
  BY <1>1, <1>2, Holds DEF Settled, AtHome
<1>4. req[r].extra = {}
  BY <1>2, NoExtra
<1> DEFINE q == [req[r] EXCEPT !.pc = "visiting", !.target = {t},
                               !.previous = conn[Own(r)].set.client]
           k == [conn[Own(r)] EXCEPT !.set = [conn[Own(r)].set EXCEPT !.client = {t}]]
<1>5. conn[Own(r)].set.client = req[r].cid /\ conn[Own(r)].set.platform = (req[r].cid = {Platform})
  BY <1>3 DEF Home
<1>6. /\ q \in ReqRec /\ q.pc = "visiting" /\ q.own = req[r].own /\ q.extra = {}
      /\ q.cid = req[r].cid /\ q.target = {t} /\ q.previous = req[r].cid /\ Telling(q)
  BY <1>2, <1>4, <1>5 DEF ReqRec, Stands, Telling
<1>7. k \in ConnRec /\ k.set = Away(q)
  BY <1>3, <1>5, <1>6 DEF ConnRec, Away, Anyone, Home
<1>8. Settled(q, k)
  BY <1>6, <1>7 DEF Settled, Early, AtHome
<1>9. conn' = [conn EXCEPT ![Own(r)] = k]
  BY DEF Visit, PoolInv, Typed
<1>10. req' = [req EXCEPT ![r] = q] /\ strayed' \in BOOLEAN
  BY DEF Visit, PoolInv, Typed
<1>11. q.pc \in Holding \ {"nesting"}
  BY <1>6 DEF Holding
<1> HIDE DEF q, k
<1>12. QED
  BY <1>1, <1>6, <1>7, <1>8, <1>9, <1>10, <1>11, Kept

LEMMA LeaveStep ==
    ASSUME PoolInv, NEW r \in Request, Leave(r)
    PROVE  PoolInv'
<1>1. At(r, {"visiting"}) /\ {"visiting"} \subseteq Holding \ {"nesting"}
  BY DEF Leave, Holding
<1>2. req[r] \in ReqRec /\ req[r] # Gone /\ req[r].pc = "visiting" /\ Telling(req[r])
  BY <1>1, Holds
<1>3. conn[Own(r)] \in ConnRec /\ conn[Own(r)].set = Away(req[r]) /\ req[r].previous = req[r].cid
  BY <1>1, <1>2, Holds DEF Settled
<1>4. req[r].extra = {}
  BY <1>2, NoExtra
<1> DEFINE q == [req[r] EXCEPT !.pc = "handling"]
           k == [conn[Own(r)] EXCEPT !.set = [conn[Own(r)].set EXCEPT !.client = req[r].previous]]
<1>5. /\ q \in ReqRec /\ q.pc = "handling" /\ q.own = req[r].own /\ q.extra = {}
      /\ q.cid = req[r].cid /\ Telling(q)
  BY <1>2, <1>4 DEF ReqRec, Stands, Telling
<1>6. k \in ConnRec /\ k.set = Home(q)
  BY <1>2, <1>3, <1>5 DEF ConnRec, Home, Away, ReqRec
<1>7. Settled(q, k)
  BY <1>5, <1>6 DEF Settled, Early, AtHome
<1>8. conn' = [conn EXCEPT ![Own(r)] = k]
  BY DEF Leave, PoolInv, Typed
<1>9. req' = [req EXCEPT ![r] = q] /\ strayed' \in BOOLEAN
  BY DEF Leave, PoolInv, Typed
<1>10. q.pc \in Holding \ {"nesting"}
  BY <1>5 DEF Holding, AtHome
<1> HIDE DEF q, k
<1>11. QED
  BY <1>1, <1>5, <1>6, <1>7, <1>8, <1>9, <1>10, Kept

LEMMA FailStep ==
    ASSUME PoolInv, NEW r \in Request, StatementFails(r)
    PROVE  PoolInv'
<1> DEFINE pcs == {"opened", "handling", "visiting"}
<1>1. At(r, pcs) /\ pcs \subseteq Holding \ {"nesting"}
  BY DEF StatementFails, Holding, Early, AtHome
<1>2. /\ req[r] \in ReqRec /\ req[r] # Gone /\ req[r].pc \in pcs /\ Telling(req[r])
      /\ Settled(req[r], conn[Own(r)]) /\ conn[Own(r)] \in ConnRec
  BY <1>1, Holds
<1>3. req[r].extra = {}
  BY <1>2, NoExtra
<1> DEFINE k == [conn[Own(r)] EXCEPT !.txn = "aborted"]
<1>4. k \in ConnRec /\ k.set = conn[Own(r)].set
  BY <1>2 DEF ConnRec
<1>5. Settled(req[r], k)
  BY <1>2, <1>4 DEF Settled
<1>6. req' = [req EXCEPT ![r] = req[r]] /\ strayed' \in BOOLEAN
  BY DEF StatementFails, PoolInv, Typed
<1>7. conn' = [conn EXCEPT ![Own(r)] = k]
  BY DEF StatementFails, PoolInv, Typed
<1>8. req[r].pc \in Holding \ {"nesting"}
  BY <1>1, <1>2
<1> HIDE DEF k, pcs
<1>9. QED
  BY <1>1, <1>2, <1>3, <1>4, <1>5, <1>6, <1>7, <1>8, Kept

(* Steps that touch no connection: a statement, its callbacks to come, the   *)
(* end of a nested connection, the callbacks.                                *)
LEMMA StatementStep ==
    ASSUME PoolInv, NEW r \in Request, Statement(r) \/ NestStatement(r)
    PROVE  PoolInv'
<1> DEFINE pcs == {"handling", "visiting"}
<1>1. At(r, pcs) /\ pcs \subseteq Holding \ {"nesting"}
  BY DEF Statement, NestStatement, At, Holding, AtHome
<1>2. /\ req[r] \in ReqRec /\ req[r] # Gone /\ req[r].pc \in pcs /\ Telling(req[r])
      /\ Settled(req[r], conn[Own(r)]) /\ conn[Own(r)] \in ConnRec
  BY <1>1, Holds
<1>3. req[r].extra = {}
  BY <1>2, NoExtra
<1>4. conn' = [conn EXCEPT ![Own(r)] = conn[Own(r)]] /\ strayed' \in BOOLEAN
  BY DEF Statement, NestStatement, PoolInv, Typed
<1>5. ASSUME NEW q \in {req[r], [req[r] EXCEPT !.deferred = req[r].deferred \cup {req[r].attempt}],
                        [req[r] EXCEPT !.pc = "nestWaits", !.nested = TRUE]},
             req' = [req EXCEPT ![r] = q],
             q.pc = "nestWaits" => req[r].pc = "handling"
      PROVE  PoolInv'
  <2>1. q \in ReqRec /\ q.own = req[r].own /\ q.extra = {} /\ q.cid = req[r].cid
    <3>1. req[r].attempt \in Attempt /\ req[r].deferred \subseteq Attempt
      BY <1>2 DEF ReqRec
    <3>2. req[r].deferred \cup {req[r].attempt} \in SUBSET Attempt
      BY <3>1
    <3>3. CASE q = req[r]
      BY <1>2, <1>3, <3>3
    <3>4. CASE q = [req[r] EXCEPT !.deferred = req[r].deferred \cup {req[r].attempt}]
      BY <1>2, <1>3, <3>2, <3>4 DEF ReqRec
    <3>5. CASE q = [req[r] EXCEPT !.pc = "nestWaits", !.nested = TRUE]
      BY <1>2, <1>3, <3>5 DEF ReqRec, Stands, Waits
    <3>6. QED
      BY <3>3, <3>4, <3>5
  <2>2. q.target = req[r].target /\ q.previous = req[r].previous /\ Telling(q)
    BY <1>2, <1>5 DEF ReqRec, Telling
  <2>3. q.pc = req[r].pc \/ (q.pc = "nestWaits" /\ req[r].pc = "handling")
    BY <1>2, <1>5 DEF ReqRec
  <2>4. Settled(q, conn[Own(r)])
    BY <1>2, <2>1, <2>2, <2>3 DEF Settled, Home, Away, Early, AtHome
  <2>5. q.pc \in Holding \ {"nesting"}
    BY <1>1, <1>2, <2>3 DEF Holding, AtHome
  <2> HIDE DEF pcs
  <2>6. QED
    BY <1>1, <1>2, <1>4, <1>5, <2>1, <2>2, <2>4, <2>5, Kept
<1>6. CASE Statement(r)
  <2>1. req' = req \/ req' = [req EXCEPT ![r].deferred = @ \cup {req[r].attempt}]
    BY <1>6 DEF Statement
  <2>2. req[r].pc # "nestWaits"
    BY <1>2
  <2>3. \/ req' = [req EXCEPT ![r] = req[r]]
        \/ req' = [req EXCEPT ![r] = [req[r] EXCEPT !.deferred = req[r].deferred \cup {req[r].attempt}]]
    BY <2>1 DEF PoolInv, Typed
  <2>4. [req[r] EXCEPT !.deferred = req[r].deferred \cup {req[r].attempt}].pc = req[r].pc
    BY <1>2 DEF ReqRec
  <2>5. QED
    BY <1>5, <2>2, <2>3, <2>4
<1>7. CASE NestStatement(r)
  <2>1. req' = [req EXCEPT ![r] = [req[r] EXCEPT !.pc = "nestWaits", !.nested = TRUE]]
    BY <1>7 DEF NestStatement, PoolInv, Typed
  <2>2. req[r].pc = "handling"
    BY <1>7 DEF NestStatement, At
  <2>3. QED
    BY <1>5, <2>1, <2>2
<1>8. QED
  BY <1>6, <1>7

LEMMA NestDoneStep ==
    ASSUME PoolInv, NEW r \in Request, NestDone(r)
    PROVE  PoolInv'
<1>1. At(r, {"nesting"}) /\ {"nesting"} \subseteq Holding
  BY DEF NestDone, Holding, AtHome
<1>2. req[r] \in ReqRec /\ req[r] # Gone /\ req[r].pc = "nesting" /\ Telling(req[r])
  BY <1>1, Holds
<1>3. Fits(req[r], conn)
  BY <1>2 DEF PoolInv, Sound
<1>4. PICK c \in Conn : req[r].own = {c} /\ Settled(req[r], conn[c])
  BY <1>1, Holds
<1> DEFINE q == [req[r] EXCEPT !.pc = "handling", !.extra = {}]
<1>5. /\ q \in ReqRec /\ q.pc = "handling" /\ q.own = {c} /\ q.extra = {}
      /\ q.cid = req[r].cid /\ Telling(q)
  BY <1>2, <1>4 DEF ReqRec, Stands, Telling
<1>6. Settled(q, conn[c])
  BY <1>2, <1>4, <1>5 DEF Settled, Home, Early, AtHome
<1>7. Fits(q, conn)
  BY <1>5, <1>6, FitsHolding DEF Holding, AtHome
<1>8. Uses(q) = {c} /\ Uses(req[r]) = {c} \cup req[r].extra
  BY <1>2, <1>4, <1>5, GoneIsGone DEF Uses
<1>9. \A d \in Uses(req[r]) \ Uses(q) : conn[d] = Idle
  BY <1>3, <1>8 DEF Fits
<1>10. req' = [req EXCEPT ![r] = q] /\ conn' = conn /\ strayed' \in BOOLEAN
  BY DEF NestDone, PoolInv, Typed
<1> HIDE DEF q
<1>11. QED
  BY <1>5, <1>7, <1>8, <1>9, <1>10, NoConnection

LEMMA CallbacksStep ==
    ASSUME PoolInv, NEW r \in Request, RunAfterCommit(r)
    PROVE  PoolInv'
<1>1. At(r, {"committed"}) /\ {"committed"} \subseteq Holding
  BY DEF RunAfterCommit, Holding
<1>2. req[r] \in ReqRec /\ req[r] # Gone /\ req[r].pc = "committed" /\ Telling(req[r])
  BY <1>1, Holds
<1>3. PICK c \in Conn : req[r].own = {c} /\ conn[c] = Idle
  BY <1>1, <1>2, Holds DEF Settled
<1>4. req[r].extra = {}
  BY <1>2, NoExtra
<1> DEFINE q == [req[r] EXCEPT !.pc = "answered", !.told = req[r].deferred, !.own = {}]
<1>5. q \in ReqRec /\ q.pc = "answered" /\ q.own = {} /\ q.extra = {} /\ Telling(q)
  BY <1>2, <1>4 DEF ReqRec, Stands, Telling
<1>6. Fits(q, conn)
  BY <1>5, FitsBare DEF Holding, Early, AtHome
<1>7. Uses(q) = {} /\ Uses(req[r]) = {c}
  BY <1>2, <1>3, <1>4, <1>5, GoneIsGone DEF Uses
<1>8. req' = [req EXCEPT ![r] = q] /\ conn' = conn /\ strayed' \in BOOLEAN
  BY DEF RunAfterCommit, PoolInv, Typed
<1> HIDE DEF q
<1>9. QED
  BY <1>3, <1>5, <1>6, <1>7, <1>8, NoConnection

LEMMA CommitStep ==
    ASSUME PoolInv, NEW r \in Request, CommitRequest(r)
    PROVE  PoolInv'
<1>1. At(r, {"handling"}) /\ {"handling"} \subseteq Holding \ {"nesting"}
  BY DEF CommitRequest, Holding, AtHome
<1>2. req[r] \in ReqRec /\ req[r] # Gone /\ req[r].pc = "handling" /\ Telling(req[r])
  BY <1>1, Holds
<1>3. req[r].extra = {}
  BY <1>2, NoExtra
<1> DEFINE q == [req[r] EXCEPT !.pc = "committed", !.stands = {req[r].attempt}]
<1>4. /\ q \in ReqRec /\ q.pc = "committed" /\ q.own = req[r].own /\ q.extra = {}
      /\ q.stands = {q.attempt} /\ q.deferred \subseteq {q.attempt} /\ q.told = {}
  BY <1>2, <1>3 DEF ReqRec, Stands, Telling
<1>5. Telling(q) /\ Settled(q, Idle)
  BY <1>4 DEF Telling, Settled, Early, AtHome
<1>6. conn' = [conn EXCEPT ![Own(r)] = Idle] /\ strayed' \in BOOLEAN
  BY DEF CommitRequest, Ended, PoolInv, Typed
<1>7. req' = [req EXCEPT ![r] = q]
  BY DEF CommitRequest, PoolInv, Typed
<1>8. q.pc \in Holding \ {"nesting"}
  BY <1>4 DEF Holding
<1> HIDE DEF q
<1>9. QED
  BY <1>1, <1>4, <1>5, <1>6, <1>7, <1>8, IdleTyped, Kept

LEMMA ConnectStep ==
    ASSUME PoolInv, NEW r \in Request, NEW c \in Conn, Connect(r, c), req[r].pc \in Waits
    PROVE  PoolInv'
<1>1. req[r] # Gone /\ req[r] \in ReqRec /\ Fits(req[r], conn) /\ Telling(req[r])
  BY DEF PoolInv, Typed, Sound, Fits, Gone, Waits
<1>2. \A s \in Request : c \notin Uses(req[s])
  BY DEF Connect, Taken, Uses
<1>3. conn[c] = Idle /\ strayed' \in BOOLEAN
  BY <1>2 DEF PoolInv, Rested, Typed, Connect
<1>4. ASSUME NEW q \in ReqRec, req' = [req EXCEPT ![r] = q], Fits(q, conn'),
             Uses(q) \subseteq Uses(req[r]) \cup {c}, Uses(req[r]) \subseteq Uses(q),
             conn' \in [Conn -> ConnRec], \A d \in Conn \ {c} : conn'[d] = conn[d], c \in Uses(q)
      PROVE  PoolInv'
  <2>1. q \in ReqRec \cup {Gone} /\ (q # Gone => Fits(q, conn'))
    BY <1>4
  <2>2. \A s \in Request \ {r} : \A d \in Uses(req[s]) : d \notin Uses(q) /\ conn'[d] = conn[d]
    <3> SUFFICES ASSUME NEW s \in Request \ {r}, NEW d \in Uses(req[s])
                 PROVE  d \notin Uses(q) /\ conn'[d] = conn[d]
      OBVIOUS
    <3>1. d # c /\ d \notin Uses(req[r])
      BY <1>2 DEF PoolInv, Apart
    <3>2. d \in Conn
      BY DEF Uses, PoolInv, Typed, ReqRec
    <3>3. QED
      BY <1>4, <3>1, <3>2
  <2>3. \A d \in Conn \ Uses(q) :
            (\A s \in Request \ {r} : d \notin Uses(req[s])) => conn'[d] = Idle
    BY <1>4 DEF PoolInv, Rested
  <2>4. QED
    BY <1>3, <1>4, <2>1, <2>2, <2>3, OneRequest, Zenon
<1>5. CASE req[r].pc = "nestWaits"
  <2> DEFINE q == [req[r] EXCEPT !.pc = "nesting", !.extra = {c}]
  <2>1. PICK d \in Conn : req[r].own = {d} /\ Settled(req[r], conn[d])
    BY <1>1, <1>5 DEF Fits, Holding, AtHome
  <2>2. /\ q \in ReqRec /\ q.pc = "nesting" /\ q.own = {d} /\ q.extra = {c}
        /\ q.cid = req[r].cid /\ Telling(q)
    BY <1>1, <1>5, <2>1 DEF ReqRec, Stands, Telling
  <2>3. req' = [req EXCEPT ![r] = q] /\ conn' = conn /\ conn \in [Conn -> ConnRec]
    BY <1>5 DEF Connect, PoolInv, Typed
  <2>4. Settled(q, conn[d])
    BY <1>5, <2>1, <2>2 DEF Settled, Home, Early, AtHome
  <2>5. d # c
    BY <1>1, <1>2, <2>1 DEF Uses
  <2>6. Fits(q, conn)
    BY <1>3, <2>2, <2>4, <2>5 DEF Fits, Holding, AtHome
  <2>7. Uses(q) = {c, d} /\ Uses(req[r]) = {d}
    BY <1>1, <1>5, <2>1, <2>2, GoneIsGone DEF Uses, Fits
  <2> HIDE DEF q
  <2>8. QED
    BY <1>4, <2>2, <2>3, <2>6, <2>7
<1>6. CASE req[r].pc # "nestWaits"
  <2> DEFINE stand == CASE req[r].pc = "guardWaits" -> "guarding"
                        [] req[r].pc = "denyWaits" -> "denying"
                        [] req[r].pc = "waits" -> "opened"
             q == [req[r] EXCEPT !.own = {c}, !.pc = stand]
             k == [Idle EXCEPT !.txn = "open"]
  <2>1. stand \in Early /\ stand \in Stands
    BY <1>6 DEF Early, Waits, Stands
  <2>2. req[r].own = {} /\ req[r].extra = {}
    BY <1>1, <1>6 DEF Fits, Holding, Early, AtHome, Waits
  <2> HIDE DEF stand
  <2>3. q \in ReqRec /\ q.pc = stand /\ q.own = {c} /\ q.extra = {} /\ Telling(q)
    BY <1>1, <2>1, <2>2 DEF ReqRec, Telling, Early, Waits
  <2>4. k \in ConnRec /\ k.set = Unset
    BY IdleTyped DEF Idle, ConnRec
  <2>5. conn' = [conn EXCEPT ![c] = k] /\ conn' \in [Conn -> ConnRec] /\ conn'[c] = k
    BY <1>3, <1>6, <2>4 DEF Connect, PoolInv, Typed
  <2>6. req' = [req EXCEPT ![r] = q]
    BY <1>6 DEF Connect, PoolInv, Typed, stand
  <2>7. Fits(q, conn')
    <3>1. Settled(q, k)
      BY <2>1, <2>3, <2>4 DEF Settled, Early, AtHome
    <3>2. q.pc \in Holding /\ q.pc # "nesting" /\ Settled(q, conn'[c])
      BY <2>1, <2>3, <2>5, <3>1 DEF Holding, Early
    <3> HIDE DEF q, k
    <3>3. QED
      BY <2>3, <3>2, FitsHolding
  <2>8. Uses(q) = {c} /\ Uses(req[r]) = {}
    BY <1>1, <2>2, <2>3, GoneIsGone DEF Uses
  <2>9. \A d \in Conn \ {c} : conn'[d] = conn[d]
    BY <2>5 DEF PoolInv, Typed
  <2> HIDE DEF q, k
  <2>10. QED
    BY <1>4, <2>3, <2>5, <2>6, <2>7, <2>8, <2>9
<1>7. QED
  BY <1>5, <1>6

-----------------------------------------------------------------------------
(* The queue: who waits is in it once.                                       *)
LEMMA QueueStays ==
    ASSUME PoolInv, Queued, NEW r \in Request, req[r].pc \notin Waits, NEW q,
           req' = [req EXCEPT ![r] = q], queue' = queue
    PROVE  Queued'
  BY DEF PoolInv, Typed, Queued

LEMMA QueueGrows ==
    ASSUME PoolInv, Queued, NEW r \in Request, req[r].pc \notin Waits, NEW q,
           req' = [req EXCEPT ![r] = q], q.pc \in Waits, queue' = Append(queue, r)
    PROVE  Queued'
<1>1. \A i \in 1 .. Len(queue) : queue[i] # r
  BY DEF Queued
<1>2. /\ queue' \in Seq(Request) /\ Len(queue') = Len(queue) + 1 /\ Len(queue) \in Nat
      /\ \A i \in 1 .. Len(queue) : queue'[i] = queue[i]
      /\ queue'[Len(queue) + 1] = r
  BY DEF Queued
<1>3. ASSUME NEW i \in 1 .. Len(queue')
      PROVE  i = Len(queue) + 1 \/ i \in 1 .. Len(queue)
  BY <1>2
<1>4. \A i \in 1 .. Len(queue') : req'[queue'[i]].pc \in Waits
  BY <1>2, <1>3 DEF PoolInv, Typed, Queued
<1>5. \A i, j \in 1 .. Len(queue') : queue'[i] = queue'[j] => i = j
  BY <1>1, <1>2, <1>3 DEF Queued
<1>6. QED
  BY <1>2, <1>4, <1>5 DEF Queued

LEMMA QueueServes ==
    ASSUME PoolInv, Queued, NEW r \in Request, queue # <<>>, r = Head(queue), NEW q,
           req' = [req EXCEPT ![r] = q], queue' = Tail(queue)
    PROVE  Queued'
<1>1. /\ queue' \in Seq(Request) /\ Len(queue') = Len(queue) - 1
      /\ Len(queue) \in Nat \ {0} /\ queue[1] = r
      /\ \A i \in 1 .. Len(queue') : i + 1 \in 1 .. Len(queue) /\ queue'[i] = queue[i + 1]
  BY DEF Queued
<1>2. \A i \in 1 .. Len(queue') : queue'[i] # r
  <2> SUFFICES ASSUME NEW i \in 1 .. Len(queue'), queue'[i] = r PROVE FALSE
    OBVIOUS
  <2>1. queue[i + 1] = queue[1] /\ 1 \in 1 .. Len(queue) /\ i + 1 # 1
    BY <1>1
  <2>2. QED
    BY <1>1, <2>1 DEF Queued
<1>3. \A i \in 1 .. Len(queue') : req'[queue'[i]].pc \in Waits
  BY <1>1, <1>2 DEF PoolInv, Typed, Queued
<1>4. ASSUME NEW i \in 1 .. Len(queue'), NEW j \in 1 .. Len(queue'), queue'[i] = queue'[j]
      PROVE  i = j
  <2>1. i + 1 = j + 1
    BY <1>1, <1>4 DEF Queued
  <2>2. QED
    BY <2>1
<1>5. QED
  BY <1>1, <1>3, <1>4 DEF Queued

(* Every step keeps the queue.                                               *)
LEMMA QueueStep ==
    ASSUME PoolInv, Queued, NEW r \in Request,
           \/ \E cid \in SUBSET Anyone : Arrive(r, cid)
           \/ \E c \in Conn : Connect(r, c)
           \/ Proceed(r) \/ StatementFails(r)
    PROVE  Queued'
<1>1. req \in [Request -> ReqRec \cup {Gone}] /\ Gone.pc \notin Waits
  BY DEF PoolInv, Typed, Gone, Waits
<1>2. ASSUME NEW cid \in SUBSET Anyone, Arrive(r, cid) PROVE Queued'
  <2> DEFINE q == [pc |-> IF cid = {} THEN "waits" ELSE "deciding", cid |-> cid, own |-> {},
                   extra |-> {}, target |-> {}, previous |-> {}, nested |-> FALSE, attempt |-> 1,
                   deferred |-> {}, told |-> {}, stands |-> {}]
  <2>1. req' = [req EXCEPT ![r] = q] /\ req[r].pc \notin Waits
    BY <1>1, <1>2 DEF Arrive
  <2>2. q.pc = IF cid = {} THEN "waits" ELSE "deciding"
    OBVIOUS
  <2>3. IF cid = {} THEN queue' = Append(queue, r) ELSE queue' = queue
    BY <1>2 DEF Arrive, AskPool
  <2> HIDE DEF q
  <2>4. CASE cid = {}
    BY <2>1, <2>2, <2>3, <2>4, QueueGrows DEF Waits
  <2>5. CASE cid # {}
    BY <2>1, <2>3, <2>5, QueueStays
  <2>6. QED
    BY <2>4, <2>5
<1>3. ASSUME NEW c \in Conn, Connect(r, c) PROVE Queued'
  <2>1. PICK q : req' = [req EXCEPT ![r] = q]
    BY <1>1, <1>3 DEF Connect
  <2>2. QED
    BY <1>3, <2>1, QueueServes DEF Connect
<1>4. CASE Decide(r) \/ NestStatement(r) \/ Retry(r)
  <2>1. PICK stand \in Waits, q \in ReqRec \cup {Gone} :
            req' = [req EXCEPT ![r] = [q EXCEPT !.pc = stand]] /\ q \in ReqRec
    <3>1. CASE Decide(r)
      <4>1. PICK stand \in Waits : req' = [req EXCEPT ![r].pc = stand]
        BY <3>1 DEF Decide, Waits
      <4>2. req' = [req EXCEPT ![r] = [req[r] EXCEPT !.pc = stand]] /\ req[r] \in ReqRec
        BY <1>1, <3>1, <4>1 DEF Decide, At
      <4>3. QED
        BY <4>2
    <3>2. CASE NestStatement(r)
      <4> DEFINE q == [req[r] EXCEPT !.nested = TRUE]
      <4>1. req[r] \in ReqRec
        BY <1>1, <3>2 DEF NestStatement, At
      <4>2. q \in ReqRec /\ [req[r] EXCEPT !.pc = "nestWaits", !.nested = TRUE]
                                = [q EXCEPT !.pc = "nestWaits"]
        BY <4>1 DEF ReqRec
      <4>3. req' = [req EXCEPT ![r] = [req[r] EXCEPT !.pc = "nestWaits", !.nested = TRUE]]
        BY <1>1, <3>2 DEF NestStatement
      <4>4. QED
        BY <4>2, <4>3 DEF Waits
    <3>3. CASE Retry(r)
      <4> DEFINE q == [req[r] EXCEPT !.own = {}, !.attempt = req[r].attempt + 1,
                                     !.target = {}, !.previous = {}, !.deferred = {}]
                 n == [req[r] EXCEPT !.pc = "waits", !.own = {}, !.attempt = req[r].attempt + 1,
                                     !.target = {}, !.previous = {}, !.deferred = {}]
      <4>1. req[r] \in ReqRec
        BY <1>1, <3>3 DEF Retry, At
      <4>2. req[r].attempt + 1 \in Attempt
        BY <3>3, <4>1, PoolAssumption DEF Retry, ReqRec, Attempt
      <4>3. q \in ReqRec /\ n = [q EXCEPT !.pc = "waits"]
        BY <4>1, <4>2 DEF ReqRec
      <4>4. req' = [req EXCEPT ![r] = n]
        BY <1>1, <3>3 DEF Retry
      <4>5. QED
        BY <4>3, <4>4 DEF Waits
    <3>4. QED
      BY <1>4, <3>1, <3>2, <3>3
  <2>2. [q EXCEPT !.pc = stand].pc = stand
    BY <2>1 DEF ReqRec
  <2>3. req[r].pc \notin Waits /\ queue' = Append(queue, r)
    BY <1>4 DEF Decide, NestStatement, Retry, At, Waits, AskPool
  <2>4. QED
    BY <2>1, <2>2, <2>3, QueueGrows
<1>5. CASE \/ GuardTransaction(r) \/ Open(r) \/ Statement(r) \/ Leave(r) \/ NestDone(r)
           \/ CommitRequest(r) \/ RunAfterCommit(r) \/ Rollback(r) \/ AnswerRequest(r)
           \/ StatementFails(r) \/ \E t \in Tenant : Visit(r, t)
  <2>1. req[r].pc \notin Waits /\ queue' = queue
    BY <1>5 DEF GuardTransaction, Open, Statement, Leave, NestDone, CommitRequest,
                RunAfterCommit, Rollback, AnswerRequest, StatementFails, Visit, At, Waits
  <2>2. \E q : req' = [req EXCEPT ![r] = q]
    <3>1. CASE GuardTransaction(r) \/ Statement(r) \/ Leave(r) \/ NestDone(r)
      <4>1. req' = [req EXCEPT ![r] = req'[r]]
        BY <1>1, <3>1 DEF GuardTransaction, Statement, Leave, NestDone
      <4>2. QED
        BY <4>1
    <3>2. CASE \/ CommitRequest(r) \/ RunAfterCommit(r) \/ Rollback(r) \/ AnswerRequest(r)
               \/ Open(r)
      <4>1. req' = [req EXCEPT ![r] = req'[r]]
        BY <1>1, <3>2 DEF CommitRequest, RunAfterCommit, Rollback, AnswerRequest, Open
      <4>2. QED
        BY <4>1
    <3>3. CASE StatementFails(r) \/ \E t \in Tenant : Visit(r, t)
      <4>1. req' = [req EXCEPT ![r] = req'[r]]
        BY <1>1, <3>3 DEF StatementFails, Visit
      <4>2. QED
        BY <4>1
    <3>4. QED
      BY <1>5, <3>1, <3>2, <3>3
  <2>3. QED
    BY <2>1, <2>2, QueueStays
<1>6. QED
  BY <1>2, <1>3, <1>4, <1>5 DEF Proceed

-----------------------------------------------------------------------------
(* No step strays: a statement runs on the request's own connection, set as  *)
(* its stage calls for.                                                      *)
LEMMA StaysHome ==
    ASSUME PoolInv, ~strayed, NEW r \in Request,
           \/ \E cid \in SUBSET Anyone : Arrive(r, cid)
           \/ \E c \in Conn : Connect(r, c)
           \/ Proceed(r) \/ StatementFails(r)
    PROVE  ~strayed'
<1>1. CASE GuardTransaction(r)
  <2>1. At(r, {"guarding", "denying"}) /\ {"guarding", "denying"} \subseteq Holding
    BY <1>1 DEF GuardTransaction, Holding, Early
  <2>2. req[r].pc \in {"guarding", "denying"} /\ conn[Own(r)].set = Unset
    BY <2>1, Holds DEF Settled, Early
  <2>3. ContextOf(Unset, req[r].cid) = Home(req[r])
    <3>1. req[r].cid \in SUBSET Anyone
      BY <2>1, Holds DEF ReqRec
    <3>2. QED
      BY <3>1, FreshContext DEF Home
  <2>4. Entitled(r) = Home(req[r])
    BY <2>2 DEF Entitled, Home
  <2>5. QED
    BY <1>1, <2>2, <2>3, <2>4 DEF GuardTransaction
<1>2. CASE Statement(r)
  <2>1. At(r, {"handling", "visiting"}) /\ {"handling", "visiting"} \subseteq Holding
    BY <1>2 DEF Statement, Holding, AtHome
  <2>2. req[r].pc \in {"handling", "visiting"} /\ Settled(req[r], conn[Own(r)])
    BY <2>1, Holds
  <2>3. conn[Own(r)].set = Entitled(r)
    BY <2>2 DEF Settled, AtHome, Entitled, Home, Away
  <2>4. QED
    BY <1>2, <2>3 DEF Statement
<1>3. CASE NestDone(r)
  <2>1. req[r] # Gone /\ req[r].pc = "nesting" /\ Fits(req[r], conn)
    BY <1>3 DEF NestDone, At, PoolInv, Sound
  <2>2. PICK c \in Conn : req[r].extra = {c} /\ conn[c] = Idle
    BY <2>1 DEF Fits
  <2>3. The(req[r].extra) = c /\ Idle.set = Unset
    BY <2>2, OneOf DEF Idle
  <2>4. QED
    BY <1>3, <2>2, <2>3 DEF NestDone
<1>4. CASE ~(GuardTransaction(r) \/ Statement(r) \/ NestDone(r))
  BY <1>4 DEF Proceed, Arrive, Connect, Decide, Open, Leave, Visit, NestStatement,
              CommitRequest, RunAfterCommit, Rollback, Retry, AnswerRequest, StatementFails
<1>5. QED
  BY <1>1, <1>2, <1>3, <1>4

LEMMA InvariantStep == TxIInv /\ [TxNext]_txVars => TxIInv'
<1> SUFFICES ASSUME TxIInv, [TxNext]_txVars PROVE TxIInv'
  OBVIOUS
<1>1. CASE UNCHANGED txVars
  BY <1>1 DEF TxIInv, PoolInv, Typed, Sound, Apart, Rested, Queued, Uses, Fits, txVars
<1>2. CASE TxNext
  <2>1. PICK r \in Request : \/ \E cid \in SUBSET Anyone : Arrive(r, cid)
                             \/ \E c \in Conn : Connect(r, c)
                             \/ Proceed(r) \/ StatementFails(r)
    BY <1>2 DEF TxNext
  <2>2. ASSUME NEW c \in Conn, Connect(r, c) PROVE PoolInv'
    <3>1. req[r].pc \in Waits
      <4>1. 1 \in 1 .. Len(queue) /\ queue[1] = r
        BY <2>2 DEF Connect, TxIInv, Queued
      <4>2. QED
        BY <4>1 DEF TxIInv, Queued
    <3>2. QED
      BY <2>2, <3>1, ConnectStep DEF TxIInv
  <2>3. PoolInv'
    BY <2>1, <2>2, ArriveStep, DecideStep, GuardStep, OpenStep, StatementStep, LeaveStep,
       VisitStep, NestDoneStep, CommitStep, CallbacksStep, RollbackStep, AnswerStep, FailStep
       DEF TxIInv, Proceed
  <2>4. QED
    BY <2>1, <2>3, QueueStep, StaysHome DEF TxIInv
<1>3. QED
  BY <1>1, <1>2

LEMMA PoolInits == TxInit => TxIInv
<1> SUFFICES ASSUME TxInit PROVE TxIInv
  OBVIOUS
<1>1. Typed
  BY IdleTyped DEF TxInit, Typed
<1>2. Sound /\ Apart /\ Rested
  BY DEF TxInit, Sound, Apart, Rested, Uses
<1>3. Queued
  BY DEF TxInit, Queued
<1> QED BY <1>1, <1>2, <1>3 DEF TxInit, TxIInv, PoolInv

(* RequestTransactions: where every setting is, at every moment.             *)
THEOREM PoolInvariant == TxSpec => []TxIInv
BY PoolInits, InvariantStep, PTL DEF TxSpec

(* No statement of the handlers, the guard or the visits to another tenant   *)
(* ever runs under another tenant or another authority than its request's    *)
(* (rls-context.ts on connections that are used again).                      *)
THEOREM Isolation == TxSpec => []NeverStrays
<1>1. TxIInv => NeverStrays
  BY DEF TxIInv, NeverStrays
<1>2. QED
  BY <1>1, PoolInvariant, PTL

(* The callbacks of an attempt run only if that attempt is what committed    *)
(* (the interceptor's scopes, one for each attempt).                         *)
THEOREM OnlyCommitted == TxSpec => []CallbacksOfCommitted
<1>1. TxIInv => CallbacksOfCommitted
  BY DEF TxIInv, PoolInv, Sound, Fits, Telling, CallbacksOfCommitted
<1>2. QED
  BY <1>1, PoolInvariant, PTL

-----------------------------------------------------------------------------
(* Installation.  That runs which overlap, die and are repeated leave one    *)
(* installation, for any number of runs, administrators, migrations and      *)
(* kills.  InstallSound is not inductive: that no migration is applied twice *)
(* rests on LedgerTrue (who holds the lock works from the ledger as it is),  *)
(* that a run fails for a cause on what each stage has behind it (StageHas:  *)
(* an API that is up, a catalog, an organisation, its administrator or a     *)
(* disturbance), and the roots on AdminsNew: a request about to commit brings *)
(* an administrator whom nobody else brings.                                 *)
TxRec == [step : {"none", "root", "role", "insert", "user", "commit"},
          root : BOOLEAN, role : BOOLEAN]
OrgRec == [tenant : BOOLEAN, roots : Nat, role : BOOLEAN, admins : SUBSET Emails]
InstallTyped ==
    /\ mode \in {"saas", "single_tenant"} /\ email \in [Run -> Emails]
    /\ ledger \in 0..Migrations /\ applied \in [1..Migrations -> Nat]
    /\ lock \in Run \union {Nobody}
    /\ seen \in [Run -> 0..Migrations]
    /\ secret \in {"none", "file", "rotated"} /\ api \in {"down", "open", "pinned"}
    /\ org \in OrgRec
    /\ pc \in [Run -> Stages] /\ tx \in [Run -> TxRec]
    /\ catalog \in BOOLEAN
    /\ disturbed \subseteq Run

(* Stages that come after others.                                            *)
Provisioned == {"restart", "verify", "done"}
Adopting == {"admin", "waiting"} \union Provisioned
Serving == {"catalog", "client"} \union Adopting
Migrated == {"starting"} \union Serving

(* The ledger is what has been applied, and who migrates knows it.           *)
LedgerTrue ==
    /\ \A n \in 1..Migrations : applied[n] = IF n <= ledger THEN 1 ELSE 0
    /\ \A i \in Run : pc[i] = "migrating" <=> lock = i
    /\ \A i \in Run : pc[i] = "migrating" => seen[i] = ledger
    /\ \A i \in Run : pc[i] \in Migrated => ledger = Migrations
    /\ ledger >= Seed => secret # "none"

(* What a stage has behind it.                                               *)
StageHas(i) ==
    /\ pc[i] \in Serving => api # "down"
    /\ pc[i] \in {"client"} \union Adopting => catalog
    /\ pc[i] \in Adopting \/ tx[i].step # "none" => org.tenant
    /\ pc[i] \in Provisioned => i \in disturbed \/ email[i] \in org.admins
    /\ pc[i] = "done" => email[i] \in org.admins
    /\ pc[i] \in {"verify", "done"} /\ mode = "single_tenant" => api = "pinned"
    /\ pc[i] = "waiting" /\ tx[i].step = "none" => i \in disturbed
    /\ pc[i] = "dead" => i \in disturbed \/ secret = "rotated"

(* An administrator is created once, and only in an organisation.            *)
AdminsNew ==
    /\ IsFiniteSet(org.admins) /\ org.roots <= Cardinality(org.admins)
    /\ org.admins # {} => org.tenant
    /\ \A i \in Run : tx[i].step = "commit" => email[i] \notin org.admins
    /\ \A i, j \in Run :
          i # j /\ tx[i].step = "commit" /\ tx[j].step = "commit" => email[i] # email[j]

InstallIInv == InstallTyped /\ LedgerTrue /\ (\A i \in Run : StageHas(i)) /\ AdminsNew

-----------------------------------------------------------------------------
LEMMA InstallInits == InstallInit => InstallIInv
<1> SUFFICES ASSUME InstallInit PROVE InstallIInv
  OBVIOUS
<1> USE InstallAssumption DEF InstallInit
<1>1. InstallTyped
  <2>1. org \in OrgRec /\ NoTx \in TxRec
    BY DEF OrgRec, TxRec, NoTx
  <2>2. ledger \in 0..Migrations /\ applied \in [1..Migrations -> Nat] /\ seen \in [Run -> 0..Migrations]
    OBVIOUS
  <2>3. pc \in [Run -> Stages] /\ tx \in [Run -> TxRec]
    BY <2>1 DEF Stages
  <2> QED
    BY <2>1, <2>2, <2>3 DEF InstallTyped
<1>2. LedgerTrue
  BY DEF LedgerTrue, Migrated, Serving, Adopting, Provisioned
<1>3. \A i \in Run : StageHas(i)
  <2>1. \A i \in Run : pc[i] = "idle" /\ tx[i].step = "none"
    BY DEF NoTx
  <2> QED
    BY <2>1 DEF StageHas, Serving, Adopting, Provisioned
<1>4. AdminsNew
  <2>1. \A i \in Run : tx[i].step # "commit"
    BY DEF NoTx
  <2>2. org.admins = {} /\ org.roots = 0
    OBVIOUS
  <2> QED
    BY <2>1, <2>2, FS_EmptySet DEF AdminsNew
<1> QED
  BY <1>1, <1>2, <1>3, <1>4 DEF InstallIInv

(* The types.                                                                *)
LEMMA NoTxTyped == NoTx \in TxRec
BY DEF NoTx, TxRec

LEMMA StepTyped ==
    ASSUME InstallTyped, NEW i \in Run, NEW step \in {"none", "root", "role", "insert", "user", "commit"},
           Step(i, step)
    PROVE  /\ tx' \in [Run -> TxRec] /\ tx'[i].step = step
           /\ \A j \in Run \ {i} : tx'[j] = tx[j]
<1>1. tx[i] \in TxRec
  BY DEF InstallTyped
<1>2. [tx[i] EXCEPT !.step = step] \in TxRec /\ [tx[i] EXCEPT !.step = step].step = step
  BY <1>1 DEF TxRec
<1>3. tx' = [tx EXCEPT ![i] = [tx[i] EXCEPT !.step = step]]
  BY DEF Step, InstallTyped
<1> QED
  BY <1>2, <1>3 DEF InstallTyped

LEMMA GotoTyped ==
    ASSUME InstallTyped, NEW i \in Run, NEW stage \in Stages, Goto(i, stage)
    PROVE  pc' \in [Run -> Stages] /\ pc'[i] = stage /\ \A j \in Run \ {i} : pc'[j] = pc[j]
BY DEF Goto, InstallTyped

LEMMA AfterTyped == AfterProvision \in {"restart", "verify"} /\ AfterProvision \in Stages
BY DEF AfterProvision, Stages

LEMMA BootTyped ==
    ASSUME InstallTyped, NEW resolves, Boot(resolves)
    PROVE  /\ api' \in {"down", "open", "pinned"} /\ tx' \in [Run -> TxRec] /\ disturbed' \subseteq Run
           /\ \A j \in Run : tx'[j] = NoTx
BY NoTxTyped DEF Boot, InstallTyped, InFlight

LEMMA ConflictTyped ==
    ASSUME InstallTyped, NEW i \in Run, Conflict(i)
    PROVE  /\ tx' \in [Run -> TxRec] /\ tx'[i] = NoTx /\ \A j \in Run \ {i} : tx'[j] = tx[j]
           /\ pc' \in [Run -> Stages] /\ \A j \in Run \ {i} : pc'[j] = pc[j]
           /\ pc'[i] = IF pc[i] = "waiting" THEN AfterProvision ELSE pc[i]
BY NoTxTyped, AfterTyped DEF Conflict, InstallTyped

LEMMA InstallTypedStep == ASSUME InstallTyped, InstallNext PROVE InstallTyped'
<1> USE InstallAssumption
<1>1. ASSUME NEW i \in Run, Start(i) PROVE InstallTyped'
  BY <1>1, GotoTyped DEF Start, InstallTyped, config, schema, platform, Stages
<1>2. ASSUME NEW i \in Run, TakeLock(i) PROVE InstallTyped'
  <2>1. pc' \in [Run -> Stages]
    BY <1>2, GotoTyped DEF TakeLock, Stages
  <2> QED
    BY <1>2, <2>1 DEF TakeLock, InstallTyped, config, platform, faults
<1>3. ASSUME NEW i \in Run, ApplyMigration(i) PROVE InstallTyped'
  <2> DEFINE n == seen[i] + 1
  <2>1. n \in 1..Migrations
    BY <1>3 DEF ApplyMigration, InstallTyped
  <2>2. /\ seen' = [seen EXCEPT ![i] = n] /\ applied' = [applied EXCEPT ![n] = @ + 1]
        /\ ledger' = IF n > ledger THEN n ELSE ledger
        /\ secret' = IF n = Seed /\ secret = "none" THEN "file" ELSE secret
    BY <1>3 DEF ApplyMigration
  <2> HIDE DEF n
  <2>3. seen' \in [Run -> 0..Migrations] /\ applied' \in [1..Migrations -> Nat] /\ ledger' \in 0..Migrations
    BY <2>1, <2>2 DEF InstallTyped
  <2>4. secret' \in {"none", "file", "rotated"}
    BY <2>2 DEF InstallTyped
  <2> QED
    BY <1>3, <2>3, <2>4 DEF ApplyMigration, InstallTyped, config, faults
<1>4. ASSUME NEW i \in Run, ReleaseLock(i) PROVE InstallTyped'
  <2>1. pc' \in [Run -> Stages]
    BY <1>4, GotoTyped DEF ReleaseLock, Stages
  <2> QED
    BY <1>4, <2>1 DEF ReleaseLock, InstallTyped, config, platform, faults
<1>5. ASSUME NEW i \in Run, UpApi(i) PROVE InstallTyped'
  <2>1. pc' \in [Run -> Stages]
    BY <1>5, GotoTyped DEF UpApi, Stages
  <2>2. api' \in {"down", "open", "pinned"} /\ tx' \in [Run -> TxRec] /\ disturbed' \subseteq Run
    BY <1>5, BootTyped DEF UpApi, InstallTyped
  <2> QED
    BY <1>5, <2>1, <2>2 DEF UpApi, InstallTyped, config, schema, platform
<1>6. ASSUME NEW i \in Run, ApplyManifests(i) PROVE InstallTyped'
  <2>1. pc' \in [Run -> Stages] /\ catalog' \in BOOLEAN
    BY <1>6, GotoTyped DEF ApplyManifests, Stages, InstallTyped
  <2> QED
    BY <1>6, <2>1 DEF ApplyManifests, InstallTyped, config, schema, faults
<1>7. ASSUME NEW i \in Run, EnsureClient(i) PROVE InstallTyped'
  <2>1. pc' \in [Run -> Stages]
    BY <1>7, GotoTyped DEF EnsureClient, Stages
  <2>2. org' \in OrgRec
    BY <1>7 DEF EnsureClient, InstallTyped, OrgRec
  <2> QED
    BY <1>7, <2>1, <2>2 DEF EnsureClient, InstallTyped, config, schema, faults
<1>8. ASSUME NEW i \in Run, ProvisionRefused(i) PROVE InstallTyped'
  <2>1. pc' \in [Run -> Stages]
    BY <1>8, GotoTyped, AfterTyped DEF ProvisionRefused, Stages
  <2> QED
    BY <1>8, <2>1 DEF ProvisionRefused, InstallTyped, config, schema, platform, faults
<1>9. ASSUME NEW i \in Run, RequestAdmin(i) PROVE InstallTyped'
  <2>1. pc' \in [Run -> Stages] /\ tx' \in [Run -> TxRec]
    BY <1>9, GotoTyped, StepTyped DEF RequestAdmin, Stages
  <2> QED
    BY <1>9, <2>1 DEF RequestAdmin, InstallTyped, config, schema, platform, faults
<1>10. ASSUME NEW i \in Run, NoAnswer(i) PROVE InstallTyped'
  <2>1. pc' \in [Run -> Stages]
    BY <1>10, GotoTyped DEF NoAnswer, Stages
  <2> QED
    BY <1>10, <2>1 DEF NoAnswer, InstallTyped, config, schema, platform, faults
<1>11. ASSUME NEW i \in Run, RestartApi(i) PROVE InstallTyped'
  <2>1. pc' \in [Run -> Stages]
    BY <1>11, GotoTyped DEF RestartApi, Stages
  <2>2. api' \in {"down", "open", "pinned"} /\ tx' \in [Run -> TxRec] /\ disturbed' \subseteq Run
    BY <1>11, BootTyped DEF RestartApi
  <2> QED
    BY <1>11, <2>1, <2>2 DEF RestartApi, InstallTyped, config, schema, platform
<1>12. ASSUME NEW i \in Run, Verify(i) PROVE InstallTyped'
  <2>1. pc' \in [Run -> Stages]
    BY <1>12, GotoTyped DEF Verify, Stages
  <2> QED
    BY <1>12, <2>1 DEF Verify, InstallTyped, config, schema, platform, faults
<1>13. ASSUME NEW i \in Run, RootScopeNode(i) PROVE InstallTyped'
  <2>1. [tx[i] EXCEPT !.step = "role", !.root = (org.roots = 0)] \in TxRec
    BY DEF InstallTyped, TxRec
  <2>2. tx' \in [Run -> TxRec]
    BY <1>13, <2>1 DEF RootScopeNode, InstallTyped
  <2> QED
    BY <1>13, <2>2 DEF RootScopeNode, InstallTyped, config, schema, platform, faults
<1>14. ASSUME NEW i \in Run, AdminRole(i) PROVE InstallTyped'
  <2>1. tx' \in [Run -> TxRec]
    BY <1>14, StepTyped DEF AdminRole
  <2> QED
    BY <1>14, <2>1 DEF AdminRole, InstallTyped, config, schema, platform, faults
<1>15. ASSUME NEW i \in Run, InsertRole(i) PROVE InstallTyped'
  <2>1. pc' \in [Run -> Stages] /\ tx' \in [Run -> TxRec] /\ disturbed' \subseteq Run
    <3>1. CASE org.role
      BY <1>15, <3>1, ConflictTyped DEF InsertRole, InstallTyped
    <3>2. CASE ~org.role
      <4>1. [tx[i] EXCEPT !.step = "user", !.role = TRUE] \in TxRec
        BY DEF InstallTyped, TxRec
      <4> QED
        BY <1>15, <3>2, <4>1 DEF InsertRole, InstallTyped
    <3> QED
      BY <3>1, <3>2
  <2> QED
    BY <1>15, <2>1 DEF InsertRole, InstallTyped, config, schema, platform
<1>16. ASSUME NEW i \in Run, InsertUser(i) PROVE InstallTyped'
  <2>1. pc' \in [Run -> Stages] /\ tx' \in [Run -> TxRec]
    BY <1>16, ConflictTyped, StepTyped DEF InsertUser, InstallTyped
  <2> QED
    BY <1>16, <2>1 DEF InsertUser, InstallTyped, config, schema, platform, faults
<1>17. ASSUME NEW i \in Run, CommitAdmin(i) PROVE InstallTyped'
  <2>1. pc' \in [Run -> Stages] /\ tx' \in [Run -> TxRec]
    BY <1>17, NoTxTyped, AfterTyped DEF CommitAdmin, InstallTyped
  <2>2. org' \in OrgRec
    <3>1. /\ org' = [org EXCEPT !.roots = IF tx[i].root THEN @ + 1 ELSE @,
                               !.role = TRUE, !.admins = @ \union {email[i]}]
          /\ org \in OrgRec /\ email[i] \in Emails
      BY <1>17 DEF CommitAdmin, InstallTyped
    <3>2. (IF tx[i].root THEN org.roots + 1 ELSE org.roots) \in Nat /\ org.admins \union {email[i]} \subseteq Emails
      BY <3>1 DEF OrgRec
    <3> QED
      BY <3>1, <3>2 DEF OrgRec
  <2> QED
    BY <1>17, <2>1, <2>2 DEF CommitAdmin, InstallTyped, config, schema, faults
<1>18. ASSUME NEW i \in Run, Kill(i) PROVE InstallTyped'
  <2>1. pc' \in [Run -> Stages]
    BY <1>18, GotoTyped DEF Kill, Stages
  <2> QED
    BY <1>18, <2>1 DEF Kill, InstallTyped, config, platform
<1>19. CASE Rotate
  BY <1>19 DEF Rotate, InstallTyped, config, schema, faults
<1>20. CASE ApiDies
  <2>1. api' \in {"down", "open", "pinned"} /\ tx' \in [Run -> TxRec] /\ disturbed' \subseteq Run
    BY <1>20, BootTyped DEF ApiDies
  <2> QED
    BY <1>20, <2>1 DEF ApiDies, InstallTyped, config, schema, platform
<1> QED
  BY <1>1, <1>2, <1>3, <1>4, <1>5, <1>6, <1>7, <1>8, <1>9, <1>10, <1>11, <1>12, <1>13, <1>14,
     <1>15, <1>16, <1>17, <1>18, <1>19, <1>20 DEF InstallNext, Script, AdminRequest

-----------------------------------------------------------------------------
(* The ledger.                                                               *)
LEMMA LedgerFrame ==
    ASSUME LedgerTrue, ledger' = ledger, applied' = applied, lock' = lock, seen' = seen,
           secret # "none" => secret' # "none",
           \A j \in Run : /\ pc'[j] = "migrating" <=> pc[j] = "migrating"
                          /\ pc'[j] \in Migrated => pc[j] \in Migrated
    PROVE  LedgerTrue'
BY DEF LedgerTrue, Migrated, Serving, Adopting, Provisioned

LEMMA LedgerStep == ASSUME InstallTyped, LedgerTrue, InstallNext PROVE LedgerTrue'
<1> USE InstallAssumption
<1> DEFINE Frame == /\ ledger' = ledger /\ applied' = applied /\ lock' = lock /\ seen' = seen
                    /\ secret # "none" => secret' # "none"
           Moves == \A j \in Run : /\ pc'[j] = "migrating" <=> pc[j] = "migrating"
                                   /\ pc'[j] \in Migrated => pc[j] \in Migrated
<1>1. ASSUME NEW i \in Run, TakeLock(i) PROVE LedgerTrue'
  <2>1. /\ pc'[i] = "migrating" /\ \A j \in Run \ {i} : pc'[j] = pc[j]
        /\ lock = Nobody /\ lock' = i /\ ledger' = ledger /\ applied' = applied /\ secret' = secret
        /\ seen'[i] = ledger /\ \A j \in Run \ {i} : seen'[j] = seen[j]
    BY <1>1 DEF TakeLock, Goto, InstallTyped, platform
  <2> QED
    BY <2>1 DEF LedgerTrue, Migrated, Serving, Adopting, Provisioned
<1>2. ASSUME NEW i \in Run, ApplyMigration(i) PROVE LedgerTrue'
  <2>1. pc[i] = "migrating" /\ lock = i /\ seen[i] = ledger /\ ledger + 1 <= Migrations /\ ledger \in Nat
    BY <1>2 DEF ApplyMigration, LedgerTrue, InstallTyped
  <2>2. /\ pc' = pc /\ lock' = lock /\ ledger' = ledger + 1
        /\ seen'[i] = ledger + 1 /\ \A j \in Run \ {i} : seen'[j] = seen[j]
        /\ applied'[ledger + 1] = applied[ledger + 1] + 1
        /\ \A n \in 1..Migrations : n # ledger + 1 => applied'[n] = applied[n]
        /\ secret' = IF ledger + 1 = Seed /\ secret = "none" THEN "file" ELSE secret
    BY <1>2, <2>1 DEF ApplyMigration, InstallTyped
  <2>3. \A n \in 1..Migrations : applied'[n] = IF n <= ledger' THEN 1 ELSE 0
    <3> SUFFICES ASSUME NEW n \in 1..Migrations PROVE applied'[n] = IF n <= ledger' THEN 1 ELSE 0
      OBVIOUS
    <3>1. applied[n] = IF n <= ledger THEN 1 ELSE 0
      BY DEF LedgerTrue
    <3>2. CASE n = ledger + 1
      BY <2>1, <2>2, <3>1, <3>2
    <3>3. CASE n # ledger + 1
      BY <2>1, <2>2, <3>1, <3>3
    <3> QED
      BY <3>2, <3>3
  <2>4. \A j \in Run : pc'[j] = "migrating" <=> lock' = j
    BY <2>2 DEF LedgerTrue
  <2>5. \A j \in Run : pc'[j] = "migrating" => seen'[j] = ledger'
    BY <2>1, <2>2, <2>4
  <2>6. \A j \in Run : pc'[j] \notin Migrated
    BY <2>1, <2>2 DEF LedgerTrue
  <2>7. ledger' >= Seed => secret' # "none"
    BY <2>1, <2>2 DEF LedgerTrue
  <2> QED
    BY <2>3, <2>4, <2>5, <2>6, <2>7 DEF LedgerTrue, Migrated, Serving, Adopting, Provisioned
<1>3. ASSUME NEW i \in Run, ReleaseLock(i) PROVE LedgerTrue'
  <2>1. /\ pc[i] = "migrating" /\ lock = i /\ seen[i] = ledger /\ ledger = Migrations
        /\ pc'[i] = "starting" /\ \A j \in Run \ {i} : pc'[j] = pc[j]
        /\ lock' = Nobody /\ ledger' = ledger /\ applied' = applied /\ secret' = secret /\ seen' = seen
    BY <1>3 DEF ReleaseLock, Goto, InstallTyped, LedgerTrue, platform
  <2> QED
    BY <2>1 DEF LedgerTrue, Migrated, Serving, Adopting, Provisioned
<1>4. ASSUME NEW i \in Run, Kill(i) PROVE LedgerTrue'
  <2>1. /\ pc'[i] = "dead" /\ \A j \in Run \ {i} : pc'[j] = pc[j]
        /\ lock' = (IF lock = i THEN Nobody ELSE lock)
        /\ ledger' = ledger /\ applied' = applied /\ secret' = secret /\ seen' = seen
    BY <1>4 DEF Kill, Goto, InstallTyped, platform
  <2>2. \A j \in Run : pc'[j] = "migrating" <=> lock' = j
    BY <2>1 DEF LedgerTrue
  <2> QED
    BY <2>1, <2>2 DEF LedgerTrue, Migrated, Serving, Adopting, Provisioned
<1>5. ASSUME NEW i \in Run, NEW stage \in Stages, Goto(i, stage),
             stage \in Migrated => pc[i] \in Migrated, stage # "migrating", pc[i] # "migrating"
      PROVE  Moves
  BY <1>5 DEF Goto, InstallTyped
<1>6. ASSUME NEW i \in Run, Start(i) PROVE Frame /\ Moves
  <2>1. Moves
    BY <1>6, <1>5 DEF Start, Stages, Migrated, Serving, Adopting, Provisioned
  <2> QED
    BY <1>6, <2>1 DEF Start, schema, platform
<1>7. ASSUME NEW i \in Run, UpApi(i) PROVE Frame /\ Moves
  <2>1. Moves
    BY <1>7, <1>5 DEF UpApi, Stages, Migrated, Serving, Adopting, Provisioned
  <2> QED
    BY <1>7, <2>1 DEF UpApi, schema, platform
<1>8. ASSUME NEW i \in Run, ApplyManifests(i) PROVE Frame /\ Moves
  <2>1. Moves
    BY <1>8, <1>5 DEF ApplyManifests, Stages, Migrated, Serving, Adopting, Provisioned
  <2> QED
    BY <1>8, <2>1 DEF ApplyManifests, schema
<1>9. ASSUME NEW i \in Run, EnsureClient(i) PROVE Frame /\ Moves
  <2>1. Moves
    BY <1>9, <1>5 DEF EnsureClient, Stages, Migrated, Serving, Adopting, Provisioned
  <2> QED
    BY <1>9, <2>1 DEF EnsureClient, schema
<1>10. ASSUME NEW i \in Run, ProvisionRefused(i) PROVE Frame /\ Moves
  <2>1. Moves
    BY <1>10, <1>5, AfterTyped DEF ProvisionRefused, Stages, Migrated, Serving, Adopting, Provisioned
  <2> QED
    BY <1>10, <2>1 DEF ProvisionRefused, schema, platform
<1>11. ASSUME NEW i \in Run, RequestAdmin(i) PROVE Frame /\ Moves
  <2>1. Moves
    BY <1>11, <1>5 DEF RequestAdmin, Stages, Migrated, Serving, Adopting, Provisioned
  <2> QED
    BY <1>11, <2>1 DEF RequestAdmin, schema, platform
<1>12. ASSUME NEW i \in Run, NoAnswer(i) PROVE Frame /\ Moves
  <2>1. Moves
    BY <1>12, <1>5 DEF NoAnswer, Stages, Migrated, Serving, Adopting, Provisioned
  <2> QED
    BY <1>12, <2>1 DEF NoAnswer, schema, platform
<1>13. ASSUME NEW i \in Run, RestartApi(i) PROVE Frame /\ Moves
  <2>1. Moves
    BY <1>13, <1>5 DEF RestartApi, Stages, Migrated, Serving, Adopting, Provisioned
  <2> QED
    BY <1>13, <2>1 DEF RestartApi, schema, platform
<1>14. ASSUME NEW i \in Run, Verify(i) PROVE Frame /\ Moves
  <2>1. Moves
    BY <1>14, <1>5 DEF Verify, Stages, Migrated, Serving, Adopting, Provisioned
  <2> QED
    BY <1>14, <2>1 DEF Verify, schema, platform
<1>15. ASSUME NEW i \in Run, RootScopeNode(i) \/ AdminRole(i) PROVE Frame /\ Moves
  BY <1>15 DEF RootScopeNode, AdminRole, schema, platform
<1>16. ASSUME NEW i \in Run, pc' = [pc EXCEPT ![i] = IF @ = "waiting" THEN AfterProvision ELSE @]
       PROVE  Moves
  BY <1>16, AfterTyped DEF InstallTyped, Migrated, Serving, Adopting, Provisioned
<1>17. ASSUME NEW i \in Run, InsertRole(i) PROVE Frame /\ Moves
  <2>1. Moves
    BY <1>17, <1>16 DEF InsertRole, Conflict
  <2> QED
    BY <1>17, <2>1 DEF InsertRole, schema, platform
<1>18. ASSUME NEW i \in Run, InsertUser(i) PROVE Frame /\ Moves
  <2>1. Moves
    BY <1>18, <1>16 DEF InsertUser, Conflict
  <2> QED
    BY <1>18, <2>1 DEF InsertUser, schema, platform
<1>19. ASSUME NEW i \in Run, CommitAdmin(i) PROVE Frame /\ Moves
  <2>1. Moves
    BY <1>19, <1>16 DEF CommitAdmin
  <2> QED
    BY <1>19, <2>1 DEF CommitAdmin, schema
<1>20. CASE Rotate \/ ApiDies
  <2>1. Frame /\ Moves
    BY <1>20 DEF Rotate, ApiDies, schema, platform
  <2> QED
    BY <2>1, LedgerFrame
<1> QED
  <2>1. Frame /\ Moves => LedgerTrue'
    BY LedgerFrame
  <2> HIDE DEF Frame, Moves
  <2> QED
    BY <1>1, <1>2, <1>3, <1>4, <1>6, <1>7, <1>8, <1>9, <1>10, <1>11, <1>12, <1>13, <1>14,
       <1>15, <1>17, <1>18, <1>19, <1>20, <2>1 DEF InstallNext, Script, AdminRequest

-----------------------------------------------------------------------------
(* A run that does not move has what it had, even when the API stops.        *)
LEMMA StageFrame ==
    ASSUME NEW j \in Run, StageHas(j), pc'[j] = pc[j], mode' = mode, email' = email,
           \/ tx'[j].step = tx[j].step
           \/ tx'[j].step = "none" /\ j \in disturbed',
           api' = api \/ (api' # "down" /\ (mode = "single_tenant" /\ org.tenant => api' = "pinned")),
           catalog => catalog', org.tenant => org'.tenant, org.admins \subseteq org'.admins,
           j \in disturbed => j \in disturbed', secret = "rotated" => secret' = "rotated"
    PROVE  StageHas(j)'
BY DEF StageHas, Serving, Adopting, Provisioned

LEMMA BootFrame ==
    ASSUME InstallTyped, Boot(org.tenant), NEW j \in Run
    PROVE  /\ tx'[j].step = "none"
           /\ tx'[j].step = tx[j].step \/ (tx'[j].step = "none" /\ j \in disturbed')
           /\ api' # "down" /\ (mode = "single_tenant" /\ org.tenant => api' = "pinned")
           /\ j \in disturbed => j \in disturbed'
<1>1. tx'[j] = NoTx /\ (tx[j].step = "none" \/ j \in InFlight)
  BY DEF Boot, InFlight
<1>2. tx'[j].step = "none"
  BY <1>1 DEF NoTx
<1> QED
  BY <1>1, <1>2 DEF Boot

LEMMA StagesStep ==
    ASSUME InstallIInv, InstallNext PROVE \A j \in Run : StageHas(j)'
<1>1. InstallTyped /\ LedgerTrue /\ AdminsNew /\ \A j \in Run : StageHas(j)
  BY DEF InstallIInv
<1> USE InstallAssumption
<1>2. ASSUME NEW i \in Run, Start(i) PROVE \A j \in Run : StageHas(j)'
  <2>1. /\ pc'[i] = "locking" /\ \A j \in Run \ {i} : pc'[j] = pc[j]
        /\ \A j \in Run \ {i} : j \in disturbed => j \in disturbed'
        /\ mode' = mode /\ email' = email /\ secret' = secret /\ api' = api /\ catalog' = catalog
        /\ org' = org /\ tx' = tx
    BY <1>1, <1>2 DEF Start, Goto, InstallTyped, config, platform
  <2>2. StageHas(i)'
    BY <1>1, <2>1 DEF StageHas, Serving, Adopting, Provisioned
  <2>3. \A j \in Run \ {i} : StageHas(j)'
    BY <1>1, <2>1, StageFrame
  <2> QED
    BY <2>2, <2>3
<1>3. ASSUME NEW i \in Run, TakeLock(i) \/ ReleaseLock(i) PROVE \A j \in Run : StageHas(j)'
  <2>1. /\ pc'[i] \in {"migrating", "starting"} /\ \A j \in Run \ {i} : pc'[j] = pc[j]
        /\ disturbed' = disturbed
        /\ mode' = mode /\ email' = email /\ secret' = secret /\ api' = api /\ catalog' = catalog
        /\ org' = org /\ tx' = tx
    BY <1>1, <1>3 DEF TakeLock, ReleaseLock, Goto, InstallTyped, config, platform, faults
  <2>2. StageHas(i)'
    BY <1>1, <2>1 DEF StageHas, Serving, Adopting, Provisioned
  <2>3. \A j \in Run \ {i} : StageHas(j)'
    BY <1>1, <2>1, StageFrame
  <2> QED
    BY <2>2, <2>3
<1>4. ASSUME NEW i \in Run, ApplyMigration(i) PROVE \A j \in Run : StageHas(j)'
  <2>1. /\ pc' = pc /\ disturbed' = disturbed
        /\ mode' = mode /\ email' = email /\ api' = api /\ catalog' = catalog
        /\ org' = org /\ tx' = tx
        /\ secret = "rotated" => secret' = "rotated"
    BY <1>1, <1>4 DEF ApplyMigration, config, faults
  <2> QED
    BY <1>1, <2>1, StageFrame
<1>5. ASSUME NEW i \in Run, UpApi(i) PROVE \A j \in Run : StageHas(j)'
  <2>1. /\ pc'[i] = "catalog" /\ \A j \in Run \ {i} : pc'[j] = pc[j]
        /\ mode' = mode /\ email' = email /\ secret' = secret /\ catalog' = catalog /\ org' = org
    BY <1>1, <1>5 DEF UpApi, Goto, InstallTyped, config, platform
  <2>2. \/ api # "down" /\ api' = api /\ tx' = tx /\ disturbed' = disturbed
        \/ Boot(org.tenant)
    BY <1>5 DEF UpApi
  <2>3. api' # "down" /\ (tx'[i].step # "none" => org'.tenant)
    BY <1>1, <2>1, <2>2, BootFrame DEF StageHas
  <2>4. StageHas(i)'
    BY <2>1, <2>3 DEF StageHas, Serving, Adopting, Provisioned
  <2>5. \A j \in Run \ {i} : StageHas(j)'
    BY <1>1, <2>1, <2>2, StageFrame, BootFrame
  <2> QED
    BY <2>4, <2>5
<1>6. ASSUME NEW i \in Run, ApplyManifests(i) PROVE \A j \in Run : StageHas(j)'
  <2>1. /\ pc[i] = "catalog" /\ \A j \in Run \ {i} : pc'[j] = pc[j]
        /\ \/ secret = "file" /\ catalog' = TRUE /\ pc'[i] = "client"
           \/ secret # "file" /\ catalog' = catalog /\ pc'[i] = "dead"
        /\ mode' = mode /\ email' = email /\ secret' = secret /\ org' = org
        /\ api' = api /\ tx' = tx /\ disturbed' = disturbed
    BY <1>1, <1>6 DEF ApplyManifests, Goto, InstallTyped, config, faults
  <2>2. ledger = Migrations /\ secret # "none" /\ secret \in {"none", "file", "rotated"}
    <3>1. ledger = Migrations
      BY <1>1, <2>1 DEF LedgerTrue, Migrated, Serving
    <3> QED
      BY <1>1, <3>1 DEF LedgerTrue, InstallTyped
  <2>3. StageHas(i)'
    BY <1>1, <2>1, <2>2 DEF StageHas, Serving, Adopting, Provisioned
  <2>4. \A j \in Run \ {i} : StageHas(j)'
    BY <1>1, <2>1, StageFrame
  <2> QED
    BY <2>3, <2>4
<1>7. ASSUME NEW i \in Run, EnsureClient(i) PROVE \A j \in Run : StageHas(j)'
  <2>1. /\ pc[i] = "client" /\ pc'[i] = "admin" /\ \A j \in Run \ {i} : pc'[j] = pc[j]
        /\ org'.tenant = TRUE /\ org'.admins = org.admins /\ catalog' = catalog
        /\ mode' = mode /\ email' = email /\ secret' = secret
        /\ api' = api /\ tx' = tx /\ disturbed' = disturbed
    BY <1>1, <1>7 DEF EnsureClient, Goto, InstallTyped, OrgRec, config, faults
  <2>2. StageHas(i)'
    BY <1>1, <2>1 DEF StageHas, Serving, Adopting, Provisioned
  <2>3. \A j \in Run \ {i} : StageHas(j)'
    BY <1>1, <2>1, StageFrame
  <2> QED
    BY <2>2, <2>3
<1>8. ASSUME NEW i \in Run, ProvisionRefused(i) PROVE \A j \in Run : StageHas(j)'
  <2>1. /\ pc[i] = "client" /\ secret # "file" /\ \A j \in Run \ {i} : pc'[j] = pc[j]
        /\ pc'[i] = IF LoginWorks(i) THEN AfterProvision ELSE "dead"
        /\ catalog' = catalog /\ mode' = mode /\ email' = email /\ secret' = secret /\ org' = org
        /\ api' = api /\ tx' = tx /\ disturbed' = disturbed
    BY <1>1, <1>8 DEF ProvisionRefused, Goto, InstallTyped, config, platform, faults
  <2>2. ledger = Migrations /\ secret = "rotated"
    <3>1. ledger = Migrations
      BY <1>1, <2>1 DEF LedgerTrue, Migrated, Serving
    <3>2. secret # "none"
      BY <1>1, <3>1 DEF LedgerTrue
    <3>3. secret # "file" /\ secret \in {"none", "file", "rotated"}
      BY <1>1, <2>1 DEF InstallTyped
    <3> QED
      BY <3>1, <3>2, <3>3
  <2>3. LoginWorks(i) => email[i] \in org.admins /\ org.tenant
    BY <1>1 DEF LoginWorks, AdminsNew
  <2>4. pc'[i] = "verify" => mode # "single_tenant"
    BY <2>1 DEF AfterProvision
  <2>5. StageHas(i)'
    BY <1>1, <2>1, <2>2, <2>3, <2>4, AfterTyped DEF StageHas, Serving, Adopting, Provisioned
  <2>6. \A j \in Run \ {i} : StageHas(j)'
    BY <1>1, <2>1, StageFrame
  <2> QED
    BY <2>5, <2>6
<1>9. ASSUME NEW i \in Run, RequestAdmin(i) PROVE \A j \in Run : StageHas(j)'
  <2>1. /\ pc[i] = "admin" /\ pc'[i] = "waiting" /\ \A j \in Run \ {i} : pc'[j] = pc[j]
        /\ tx'[i].step = "root" /\ \A j \in Run \ {i} : tx'[j] = tx[j]
        /\ catalog' = catalog /\ mode' = mode /\ email' = email /\ secret' = secret /\ org' = org
        /\ api' = api /\ disturbed' = disturbed
    BY <1>1, <1>9, StepTyped DEF RequestAdmin, Goto, InstallTyped, config, platform, faults
  <2>2. StageHas(i)'
    BY <1>1, <2>1 DEF StageHas, Serving, Adopting, Provisioned
  <2>3. \A j \in Run \ {i} : StageHas(j)'
    BY <1>1, <2>1, StageFrame
  <2> QED
    BY <2>2, <2>3
<1>10. ASSUME NEW i \in Run, NoAnswer(i) PROVE \A j \in Run : StageHas(j)'
  <2>1. /\ pc[i] = "waiting" /\ tx[i].step = "none" /\ pc'[i] = "dead"
        /\ \A j \in Run \ {i} : pc'[j] = pc[j]
        /\ catalog' = catalog /\ mode' = mode /\ email' = email /\ secret' = secret /\ org' = org
        /\ api' = api /\ tx' = tx /\ disturbed' = disturbed
    BY <1>1, <1>10 DEF NoAnswer, Goto, InstallTyped, config, platform, faults
  <2>2. StageHas(i)'
    BY <1>1, <2>1 DEF StageHas, Serving, Adopting, Provisioned
  <2>3. \A j \in Run \ {i} : StageHas(j)'
    BY <1>1, <2>1, StageFrame
  <2> QED
    BY <2>2, <2>3
<1>11. ASSUME NEW i \in Run, RestartApi(i) PROVE \A j \in Run : StageHas(j)'
  <2>1. /\ pc[i] = "restart" /\ pc'[i] = "verify" /\ \A j \in Run \ {i} : pc'[j] = pc[j]
        /\ catalog' = catalog /\ mode' = mode /\ email' = email /\ secret' = secret /\ org' = org
        /\ Boot(org.tenant)
    BY <1>1, <1>11 DEF RestartApi, Goto, InstallTyped, config, platform
  <2>2. StageHas(i)'
    BY <1>1, <2>1, BootFrame DEF StageHas, Serving, Adopting, Provisioned
  <2>3. \A j \in Run \ {i} : StageHas(j)'
    BY <1>1, <2>1, StageFrame, BootFrame
  <2> QED
    BY <2>2, <2>3
<1>12. ASSUME NEW i \in Run, Verify(i) PROVE \A j \in Run : StageHas(j)'
  <2>1. /\ pc[i] = "verify" /\ \A j \in Run \ {i} : pc'[j] = pc[j]
        /\ pc'[i] = IF LoginWorks(i) THEN "done" ELSE "dead"
        /\ catalog' = catalog /\ mode' = mode /\ email' = email /\ secret' = secret /\ org' = org
        /\ api' = api /\ tx' = tx /\ disturbed' = disturbed
    BY <1>1, <1>12 DEF Verify, Goto, InstallTyped, config, platform, faults
  <2>2. ~LoginWorks(i) => i \in disturbed
    BY <1>1, <2>1 DEF StageHas, LoginWorks, Serving, Adopting, Provisioned
  <2>3. StageHas(i)'
    BY <1>1, <2>1, <2>2 DEF StageHas, LoginWorks, Serving, Adopting, Provisioned
  <2>4. \A j \in Run \ {i} : StageHas(j)'
    BY <1>1, <2>1, StageFrame
  <2> QED
    BY <2>3, <2>4
<1>13. ASSUME NEW i \in Run, tx[i].step # "none", tx'[i].step # "none", pc'[i] = pc[i],
              \A j \in Run \ {i} : tx'[j] = tx[j] /\ pc'[j] = pc[j],
              UNCHANGED <<config, schema, platform, api, disturbed>>
       PROVE  \A j \in Run : StageHas(j)'
  <2>1. /\ catalog' = catalog /\ mode' = mode /\ email' = email /\ secret' = secret /\ org' = org
        /\ api' = api /\ disturbed' = disturbed
    BY <1>13 DEF config, platform
  <2>2. StageHas(i)'
    BY <1>1, <1>13, <2>1 DEF StageHas, Serving, Adopting, Provisioned
  <2>3. \A j \in Run \ {i} : StageHas(j)'
    BY <1>1, <1>13, <2>1, StageFrame
  <2> QED
    BY <2>2, <2>3
<1>14. ASSUME NEW i \in Run, RootScopeNode(i) \/ AdminRole(i) PROVE \A j \in Run : StageHas(j)'
  <2>1. tx[i].step # "none" /\ tx'[i].step # "none" /\ \A j \in Run \ {i} : tx'[j] = tx[j]
    <3>1. CASE RootScopeNode(i)
      <4>1. tx[i] \in TxRec /\ tx'[i] = [tx[i] EXCEPT !.step = "role", !.root = (org.roots = 0)]
        BY <1>1, <3>1 DEF RootScopeNode, InstallTyped
      <4>2. tx'[i].step = "role"
        BY <4>1 DEF TxRec
      <4> QED
        BY <1>1, <3>1, <4>2 DEF RootScopeNode, InstallTyped
    <3>2. CASE AdminRole(i)
      BY <1>1, <3>2, StepTyped DEF AdminRole
    <3> QED
      BY <1>14, <3>1, <3>2
  <2>2. pc' = pc /\ UNCHANGED <<config, schema, platform, api, disturbed>>
    BY <1>14 DEF RootScopeNode, AdminRole, faults
  <2> QED
    BY <1>13, <2>1, <2>2
<1>15. ASSUME NEW i \in Run, tx[i].step # "none", tx'[i] = NoTx,
              pc'[i] = (IF pc[i] = "waiting" THEN AfterProvision ELSE pc[i]),
              \A j \in Run \ {i} : tx'[j] = tx[j] /\ pc'[j] = pc[j],
              mode' = mode, email' = email, secret' = secret, catalog' = catalog, api' = api,
              org.tenant => org'.tenant, org.admins \subseteq org'.admins,
              disturbed \subseteq disturbed', email[i] \in org'.admins \/ i \in disturbed'
       PROVE  \A j \in Run : StageHas(j)'
  <2>1. org.tenant /\ org'.tenant /\ tx'[i].step = "none"
    BY <1>1, <1>15 DEF StageHas, NoTx
  <2>2. StageHas(i)'
    <3>1. CASE pc[i] = "waiting"
      <4>1. pc'[i] = "verify" => mode # "single_tenant"
        BY <1>15, <3>1 DEF AfterProvision
      <4>2. pc'[i] \in {"restart", "verify"}
        BY <1>15, <3>1, AfterTyped
      <4>3. api # "down" /\ catalog
        BY <1>1, <3>1 DEF StageHas, Serving, Adopting
      <4> QED
        BY <1>15, <2>1, <4>1, <4>2, <4>3 DEF StageHas, Serving, Adopting, Provisioned
    <3>2. CASE pc[i] # "waiting"
      BY <1>1, <1>15, <2>1, <3>2 DEF StageHas, Serving, Adopting, Provisioned
    <3> QED
      BY <3>1, <3>2
  <2>3. \A j \in Run \ {i} : StageHas(j)'
    BY <1>1, <1>15, StageFrame
  <2> QED
    BY <2>2, <2>3
<1>16. ASSUME NEW i \in Run, InsertRole(i) PROVE \A j \in Run : StageHas(j)'
  <2>1. /\ catalog' = catalog /\ mode' = mode /\ email' = email /\ secret' = secret /\ org' = org
        /\ api' = api /\ tx[i].step = "insert"
    BY <1>16 DEF InsertRole, config, platform
  <2>2. CASE org.role
    <3>1. Conflict(i) /\ disturbed' = disturbed \union {i}
      BY <1>16, <2>2 DEF InsertRole
    <3>2. /\ tx'[i] = NoTx /\ \A j \in Run \ {i} : tx'[j] = tx[j] /\ pc'[j] = pc[j]
          /\ pc'[i] = IF pc[i] = "waiting" THEN AfterProvision ELSE pc[i]
      BY <1>1, <3>1, ConflictTyped
    <3> QED
      BY <1>15, <2>1, <3>1, <3>2
  <2>3. CASE ~org.role
    <3>1. /\ tx[i] \in TxRec /\ tx'[i] = [tx[i] EXCEPT !.step = "user", !.role = TRUE]
          /\ \A j \in Run \ {i} : tx'[j] = tx[j]
          /\ pc' = pc /\ disturbed' = disturbed /\ UNCHANGED <<config, schema, platform, api>>
      BY <1>1, <1>16, <2>3 DEF InsertRole, InstallTyped
    <3>2. tx'[i].step = "user"
      BY <3>1 DEF TxRec
    <3> QED
      BY <1>13, <2>1, <3>1, <3>2
  <2> QED
    BY <2>2, <2>3
<1>17. ASSUME NEW i \in Run, InsertUser(i) PROVE \A j \in Run : StageHas(j)'
  <2>1. /\ catalog' = catalog /\ mode' = mode /\ email' = email /\ secret' = secret /\ org' = org
        /\ api' = api /\ tx[i].step = "user" /\ disturbed' = disturbed
        /\ UNCHANGED <<config, schema, platform, api, disturbed>>
    BY <1>17 DEF InsertUser, config, platform, faults
  <2>2. CASE email[i] \in org.admins
    <3>1. Conflict(i)
      BY <1>17, <2>2 DEF InsertUser
    <3>2. /\ tx'[i] = NoTx /\ \A j \in Run \ {i} : tx'[j] = tx[j] /\ pc'[j] = pc[j]
          /\ pc'[i] = IF pc[i] = "waiting" THEN AfterProvision ELSE pc[i]
      BY <1>1, <3>1, ConflictTyped
    <3> QED
      BY <1>15, <2>1, <2>2, <3>2
  <2>3. CASE email[i] \notin org.admins
    <3>1. Step(i, "commit") /\ pc' = pc
      BY <1>17, <2>3 DEF InsertUser
    <3>2. tx'[i].step = "commit" /\ \A j \in Run \ {i} : tx'[j] = tx[j]
      BY <1>1, <3>1, StepTyped
    <3> QED
      BY <1>13, <2>1, <3>1, <3>2
  <2> QED
    BY <2>2, <2>3
<1>18. ASSUME NEW i \in Run, CommitAdmin(i) PROVE \A j \in Run : StageHas(j)'
  <2>1. /\ catalog' = catalog /\ mode' = mode /\ email' = email /\ secret' = secret
        /\ api' = api /\ tx[i].step = "commit" /\ disturbed' = disturbed
        /\ tx'[i] = NoTx /\ \A j \in Run \ {i} : tx'[j] = tx[j] /\ pc'[j] = pc[j]
        /\ pc'[i] = IF pc[i] = "waiting" THEN AfterProvision ELSE pc[i]
    BY <1>1, <1>18 DEF CommitAdmin, config, faults, InstallTyped
  <2>2. org'.tenant = org.tenant /\ org'.admins = org.admins \union {email[i]}
    BY <1>1, <1>18 DEF CommitAdmin, InstallTyped, OrgRec
  <2> QED
    BY <1>15, <2>1, <2>2
<1>19. ASSUME NEW i \in Run, Kill(i) PROVE \A j \in Run : StageHas(j)'
  <2>1. /\ pc'[i] = "dead" /\ \A j \in Run \ {i} : pc'[j] = pc[j]
        /\ catalog' = catalog /\ mode' = mode /\ email' = email /\ secret' = secret /\ org' = org
        /\ api' = api /\ tx' = tx /\ disturbed' = disturbed \union {i}
    BY <1>1, <1>19 DEF Kill, Goto, InstallTyped, config, platform
  <2>2. StageHas(i)'
    BY <1>1, <2>1 DEF StageHas, Serving, Adopting, Provisioned
  <2>3. \A j \in Run \ {i} : StageHas(j)'
    BY <1>1, <2>1, StageFrame
  <2> QED
    BY <2>2, <2>3
<1>20. CASE Rotate
  <2>1. /\ pc' = pc /\ tx' = tx /\ catalog' = catalog /\ mode' = mode /\ email' = email
        /\ secret' = "rotated" /\ org' = org /\ api' = api /\ disturbed' = disturbed
    BY <1>20 DEF Rotate, config, faults
  <2> QED
    BY <1>1, <2>1, StageFrame
<1>21. CASE ApiDies
  <2>1. /\ pc' = pc /\ catalog' = catalog /\ mode' = mode /\ email' = email
        /\ secret' = secret /\ org' = org /\ Boot(org.tenant)
    BY <1>21 DEF ApiDies, config, platform
  <2> QED
    BY <1>1, <2>1, StageFrame, BootFrame
<1> QED
  BY <1>2, <1>3, <1>4, <1>5, <1>6, <1>7, <1>8, <1>9, <1>10, <1>11, <1>12, <1>14, <1>16, <1>17,
     <1>18, <1>19, <1>20, <1>21 DEF InstallNext, Script, AdminRequest

-----------------------------------------------------------------------------
(* The administrators.                                                       *)
LEMMA AdminsStep ==
    ASSUME InstallIInv, InstallNext PROVE AdminsNew'
<1>1. InstallTyped /\ AdminsNew /\ \A j \in Run : StageHas(j)
  BY DEF InstallIInv
<1>2. ASSUME org' = org, email' = email,
             \A j \in Run : tx'[j].step = "commit" => tx[j].step = "commit"
      PROVE  AdminsNew'
  BY <1>1, <1>2 DEF AdminsNew
<1>3. ASSUME NEW i \in Run, EnsureClient(i) PROVE AdminsNew'
  <2>1. org'.admins = org.admins /\ org'.roots = org.roots /\ org'.tenant = TRUE
    BY <1>1, <1>3 DEF EnsureClient, InstallTyped, OrgRec
  <2>2. tx' = tx /\ email' = email
    BY <1>3 DEF EnsureClient, config
  <2> QED
    BY <1>1, <2>1, <2>2 DEF AdminsNew
<1>4. ASSUME NEW i \in Run, InsertUser(i) PROVE AdminsNew'
  <2>1. org' = org /\ email' = email
    BY <1>4 DEF InsertUser, platform, config
  <2>2. CASE email[i] \in org.admins
    <3>1. tx'[i] = NoTx /\ \A j \in Run \ {i} : tx'[j] = tx[j]
      BY <1>1, <1>4, <2>2, ConflictTyped DEF InsertUser
    <3> QED
      BY <1>2, <2>1, <3>1 DEF NoTx
  <2>3. CASE email[i] \notin org.admins
    <3>1. tx'[i].step = "commit" /\ \A j \in Run \ {i} : tx'[j] = tx[j]
      BY <1>1, <1>4, <2>3, StepTyped DEF InsertUser
    <3>2. \A j \in Run \ {i} : tx[j].step = "commit" => email[j] # email[i]
      BY <1>4 DEF InsertUser
    <3> QED
      BY <1>1, <2>1, <2>3, <3>1, <3>2 DEF AdminsNew
  <2> QED
    BY <2>2, <2>3
<1>5. ASSUME NEW i \in Run, CommitAdmin(i) PROVE AdminsNew'
  <2>1. /\ tx[i].step = "commit" /\ email' = email
        /\ tx'[i] = NoTx /\ \A j \in Run \ {i} : tx'[j] = tx[j]
    BY <1>1, <1>5 DEF CommitAdmin, config, InstallTyped
  <2>2. /\ org'.admins = org.admins \union {email[i]} /\ org'.tenant = org.tenant
        /\ org'.roots = IF tx[i].root THEN org.roots + 1 ELSE org.roots
        /\ org.roots \in Nat
    BY <1>1, <1>5 DEF CommitAdmin, InstallTyped, OrgRec
  <2>3. email[i] \notin org.admins /\ org.tenant
    BY <1>1, <2>1 DEF AdminsNew, StageHas
  <2>4. /\ IsFiniteSet(org.admins) /\ org.roots <= Cardinality(org.admins)
        /\ Cardinality(org.admins) \in Nat
    BY <1>1, FS_CardinalityType DEF AdminsNew
  <2>5. /\ IsFiniteSet(org'.admins)
        /\ Cardinality(org'.admins) = Cardinality(org.admins) + 1
    BY <2>2, <2>3, <2>4, FS_AddElement
  <2>6. org'.roots <= Cardinality(org'.admins)
    BY <2>2, <2>4, <2>5
  <2>7. \A j \in Run : tx'[j].step = "commit" => /\ j # i /\ tx[j].step = "commit"
                                                 /\ email[j] \notin org.admins /\ email[j] # email[i]
    BY <1>1, <2>1 DEF AdminsNew, NoTx
  <2> QED
    BY <1>1, <2>1, <2>2, <2>3, <2>5, <2>6, <2>7 DEF AdminsNew
<1>6. ASSUME NEW i \in Run, RootScopeNode(i) \/ AdminRole(i) \/ RequestAdmin(i) PROVE AdminsNew'
  <2>1. org' = org /\ email' = email
    BY <1>6 DEF RootScopeNode, AdminRole, RequestAdmin, platform, config
  <2>2. \A j \in Run \ {i} : tx'[j] = tx[j]
    BY <1>1, <1>6 DEF RootScopeNode, AdminRole, RequestAdmin, Step, InstallTyped
  <2>3. tx'[i].step # "commit"
    <3>1. CASE RootScopeNode(i)
      <4>1. tx[i] \in TxRec /\ tx'[i] = [tx[i] EXCEPT !.step = "role", !.root = (org.roots = 0)]
        BY <1>1, <3>1 DEF RootScopeNode, InstallTyped
      <4>2. tx'[i].step = "role"
        BY <4>1 DEF TxRec
      <4> QED
        BY <4>2
    <3>2. CASE AdminRole(i) \/ RequestAdmin(i)
      BY <1>1, <3>2, StepTyped DEF AdminRole, RequestAdmin
    <3> QED
      BY <1>6, <3>1, <3>2
  <2> QED
    BY <1>2, <2>1, <2>2, <2>3
<1>7. ASSUME NEW i \in Run, InsertRole(i) PROVE AdminsNew'
  <2>1. org' = org /\ email' = email
    BY <1>7 DEF InsertRole, platform, config
  <2>2. \A j \in Run \ {i} : tx'[j] = tx[j]
    BY <1>1, <1>7 DEF InsertRole, Conflict, InstallTyped
  <2>3. tx'[i].step # "commit"
    <3>1. CASE org.role
      BY <1>1, <1>7, <3>1, ConflictTyped DEF InsertRole, NoTx
    <3>2. CASE ~org.role
      <4>1. tx[i] \in TxRec /\ tx'[i] = [tx[i] EXCEPT !.step = "user", !.role = TRUE]
        BY <1>1, <1>7, <3>2 DEF InsertRole, InstallTyped
      <4>2. tx'[i].step = "user"
        BY <4>1 DEF TxRec
      <4> QED
        BY <4>2
    <3> QED
      BY <3>1, <3>2
  <2> QED
    BY <1>2, <2>1, <2>2, <2>3
<1>8. ASSUME NEW i \in Run, \/ Start(i) \/ TakeLock(i) \/ ApplyMigration(i) \/ ReleaseLock(i)
                            \/ ApplyManifests(i) \/ ProvisionRefused(i) \/ NoAnswer(i) \/ Verify(i) \/ Kill(i)
      PROVE  AdminsNew'
  <2>1. org' = org /\ email' = email /\ tx' = tx
    BY <1>8 DEF Start, TakeLock, ApplyMigration, ReleaseLock, ApplyManifests, ProvisionRefused,
                NoAnswer, Verify, Kill, platform, config
  <2> QED
    BY <1>2, <2>1
<1>9. ASSUME NEW i \in Run, UpApi(i) \/ RestartApi(i) PROVE AdminsNew'
  <2>1. org' = org /\ email' = email /\ (tx' = tx \/ Boot(org.tenant))
    BY <1>9 DEF UpApi, RestartApi, platform, config
  <2>2. \A j \in Run : tx'[j] = tx[j] \/ tx'[j].step = "none"
    BY <1>1, <2>1, BootFrame
  <2> QED
    BY <1>2, <2>1, <2>2
<1>10. CASE Rotate
  <2>1. org' = org /\ email' = email /\ tx' = tx
    BY <1>10 DEF Rotate, config
  <2> QED
    BY <1>2, <2>1
<1>11. CASE ApiDies
  <2>1. org' = org /\ email' = email /\ Boot(org.tenant)
    BY <1>11 DEF ApiDies, platform, config
  <2>2. \A j \in Run : tx'[j].step = "none"
    BY <1>1, <2>1, BootFrame
  <2> QED
    BY <1>2, <2>1, <2>2
<1> QED
  BY <1>3, <1>4, <1>5, <1>6, <1>7, <1>8, <1>9, <1>10, <1>11 DEF InstallNext, Script, AdminRequest

-----------------------------------------------------------------------------
LEMMA InstallSteps == InstallIInv /\ [InstallNext]_installVars => InstallIInv'
<1>1. ASSUME InstallIInv, InstallNext PROVE InstallIInv'
  BY <1>1, InstallTypedStep, LedgerStep, StagesStep, AdminsStep DEF InstallIInv
<1>2. ASSUME InstallIInv, UNCHANGED installVars PROVE InstallIInv'
  BY <1>2 DEF InstallIInv, InstallTyped, LedgerTrue, StageHas, AdminsNew, installVars, config, schema,
      platform, faults
<1> QED BY <1>1, <1>2

(* However many runs overlap, wherever they or the API are killed, and       *)
(* however often they are started again.                                     *)
THEOREM InstallInvariant == InstallSpec => []InstallIInv
BY InstallInits, InstallSteps, PTL DEF InstallSpec

(* InstallSound: no migration is applied twice, a run fails only for a cause *)
(* outside it, "installation complete" is said of one that works, and there  *)
(* is a second root only where two different administrators were created.    *)
THEOREM InstallationIsSound == InstallSpec => []InstallSound
<1>1. InstallIInv => InstallSound
  <2> SUFFICES ASSUME InstallIInv PROVE InstallSound
    OBVIOUS
  <2>1. EachMigrationOnce
    BY DEF InstallIInv, LedgerTrue, EachMigrationOnce
  <2>2. FailsForCause
    BY DEF InstallIInv, StageHas, FailsForCause
  <2>3. CompleteMeansUsable
    BY DEF InstallIInv, StageHas, CompleteMeansUsable, LoginWorks, Serving, Adopting, Provisioned
  <2>4. TwoRootsNeedTwoAdmins
    <3>1. org.roots \in Nat /\ Cardinality(org.admins) \in Nat /\ org.roots <= Cardinality(org.admins)
      BY FS_CardinalityType DEF InstallIInv, InstallTyped, OrgRec, AdminsNew
    <3> QED
      BY <3>1 DEF TwoRootsNeedTwoAdmins
  <2> QED
    BY <2>1, <2>2, <2>3, <2>4 DEF InstallSound
<1> QED
  BY <1>1, InstallInvariant, PTL

-----------------------------------------------------------------------------
(* The types of the suite, with the bounds that the invariants leave out.    *)
SweepBounds == lost \subseteq swept /\ straddled \subseteq swept /\ crashes \in 0 .. MaxCrashes

LEMMA SweepBoundsStep == SweepIInv /\ SweepBounds /\ [SweepNext]_sweepVars => SweepBounds'
<1> SUFFICES ASSUME SweepIInv, SweepBounds, [SweepNext]_sweepVars PROVE SweepBounds'
  OBVIOUS
<1>1. \A s \in Replica : sweeper[s].pc = "publishing" => sweeper[s].rows \subseteq swept
  BY DEF SweepIInv, PassInv, ClaimsApart
<1>2. crashes' = crashes \/ (crashes < MaxCrashes /\ crashes' = crashes + 1)
  BY DEF SweepNext, Pass, Claim, CommitClaim, BumpSwept, BumpSweptFails, ClaimFails, SweeperDies,
         Lapse, BeginRead, ServeCached, MissCached, Fill, SweepTick, tableVars, sweepVars
<1>3. swept \subseteq swept'
  BY DEF SweepNext, Pass, Claim, CommitClaim, BumpSwept, BumpSweptFails, ClaimFails, SweeperDies,
         Lapse, BeginRead, ServeCached, MissCached, Fill, SweepTick, tableVars, sweepVars
<1>4. lost' \subseteq swept
  BY <1>1 DEF SweepBounds, SweepNext, Pass, Claim, CommitClaim, BumpSwept, BumpSweptFails, ClaimFails, SweeperDies,
         Lapse, BeginRead, ServeCached, MissCached, Fill, SweepTick, tableVars, sweepVars
<1>5. straddled' \subseteq swept
  BY DEF SweepBounds, Bumped, SweepNext, Pass, Claim, CommitClaim, BumpSwept, BumpSweptFails, ClaimFails, SweeperDies,
         Lapse, BeginRead, ServeCached, MissCached, Fill, SweepTick, tableVars, sweepVars
<1> QED BY <1>2, <1>3, <1>4, <1>5, SweepAssumption DEF SweepBounds

LEMMA SweepTypes == SweepIInv /\ SweepBounds => SweepTypeOK
<1> SUFFICES ASSUME SweepIInv, SweepBounds PROVE SweepTypeOK
  OBVIOUS
<1>1. audits \in [Binding -> 0 .. 1]
  BY DEF SweepIInv, PassInv, PassesTyped, AuditedOnce
<1> QED BY <1>1 DEF SweepIInv, SweepBounds, PassInv, PassesTyped, PassRec, ReadersTyped, EntryRec, AskRec, SweepTypeOK

LEMMA PoolTypes == TxIInv => TxTypeOK
BY DEF TxIInv, PoolInv, Typed, Queued, ConnRec, ReqRec, TxTypeOK

InstallBounds == (Run = {} => ledger = 0) /\ installCrashes \in 0 .. MaxInstallCrashes

LEMMA InstallBoundsStep == InstallBounds /\ [InstallNext]_installVars => InstallBounds'
<1> SUFFICES ASSUME InstallBounds, [InstallNext]_installVars PROVE InstallBounds'
  OBVIOUS
<1>1. ledger' = ledger \/ \E i \in Run : ApplyMigration(i)
  BY DEF InstallNext, Start, Script, AdminRequest, Kill, Rotate, ApiDies, TakeLock, ReleaseLock, UpApi,
         ApplyManifests, EnsureClient, ProvisionRefused, RequestAdmin, NoAnswer, RestartApi, Verify,
         RootScopeNode, AdminRole, InsertRole, InsertUser, CommitAdmin, installVars, schema
<1>2. \/ installCrashes' = installCrashes
      \/ installCrashes < MaxInstallCrashes /\ installCrashes' = installCrashes + 1
  BY DEF InstallNext, Start, Script, AdminRequest, Kill, Rotate, ApiDies, TakeLock, ApplyMigration, ReleaseLock, UpApi,
         ApplyManifests, EnsureClient, ProvisionRefused, RequestAdmin, NoAnswer, RestartApi, Verify,
         RootScopeNode, AdminRole, InsertRole, InsertUser, CommitAdmin, installVars, faults
<1> QED BY <1>1, <1>2, InstallAssumption DEF InstallBounds

LEMMA InstallTypes == InstallIInv /\ InstallBounds => InstallTypeOK
<1> SUFFICES ASSUME InstallIInv, InstallBounds PROVE InstallTypeOK
  OBVIOUS
<1> USE InstallAssumption
<1>1. InstallTyped /\ LedgerTrue /\ AdminsNew
  BY DEF InstallIInv
<1>2. applied \in [1..Migrations -> 0..Cardinality(Run)]
  <2>1. Cardinality(Run) \in Nat
    BY FS_CardinalityType
  <2>2. Run # {} => Cardinality(Run) # 0
    BY FS_EmptySet
  <2>3. ASSUME NEW n \in 1..Migrations PROVE applied[n] \in 0..Cardinality(Run)
    <3>1. CASE Run = {}
      BY <1>1, <2>1, <3>1 DEF InstallBounds, LedgerTrue
    <3>2. CASE Run # {}
      BY <1>1, <2>1, <2>2, <3>2 DEF LedgerTrue
    <3> QED BY <3>1, <3>2
  <2> QED BY <1>1, <2>3 DEF InstallTyped
<1>3. org.roots \in 0..Cardinality(org.admins)
  <2>1. org.roots \in Nat
    BY <1>1 DEF InstallTyped, OrgRec
  <2>2. Cardinality(org.admins) \in Nat /\ org.roots <= Cardinality(org.admins)
    BY <1>1, FS_CardinalityType DEF AdminsNew
  <2> QED BY <2>1, <2>2
<1> QED BY <1>1, <1>2, <1>3 DEF InstallTyped, OrgRec, TxRec, InstallBounds, InstallTypeOK

(* The state of the three modules side by side has its type, the order of a  *)
(* queue and the counts of a crash included, in every suite of them.         *)
THEOREM ProgressTyped == ProgressSpec => []ProgressTypeOK
<1> DEFINE Inv == SweepIInv /\ SweepBounds /\ TxIInv /\ InstallIInv /\ InstallBounds
<1>1. ProgressInit => Inv
  <2>1. SweepInit => SweepBounds
    BY SweepAssumption DEF SweepInit, SweepBounds
  <2>2. InstallInit => InstallBounds
    BY InstallAssumption DEF InstallInit, InstallBounds
  <2> QED BY <2>1, <2>2, SweepInits, PoolInits, InstallInits DEF ProgressInit
<1>2. Inv /\ [ProgressNext]_<<focus, sweepVars, txVars, installVars>> => Inv'
  <2> SUFFICES ASSUME Inv, [ProgressNext]_<<focus, sweepVars, txVars, installVars>> PROVE Inv'
    OBVIOUS
  <2>1. [SweepNext]_sweepVars /\ [TxNext]_txVars /\ [InstallNext]_installVars
    BY DEF ProgressNext
  <2> QED BY <2>1, SweepSteps, SweepBoundsStep, InvariantStep, InstallSteps, InstallBoundsStep
<1>3. Inv => ProgressTypeOK
  BY SweepTypes, PoolTypes, InstallTypes DEF ProgressTypeOK
<1> QED BY <1>1, <1>2, <1>3, PTL DEF ProgressSpec
=============================================================================
