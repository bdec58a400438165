---------------------------- MODULE CachesProofs -----------------------------
(* What is served from a cache, and for how long: the grants behind their    *)
(* version counter, the denials of revoked sessions, and the menus pruned    *)
(* from a cached catalog.                                                    *)
EXTENDS MCCaches, FiniteSetTheorems, WellFoundedInduction, TLAPS

-----------------------------------------------------------------------------
(* GrantsCache.  What the version counter guarantees, for any number of      *)
(* concurrent requests and mutations, any TTL and any number of changes.     *)
(* The argument: the counter only moves forward while a fill or an entry     *)
(* stamped with one of its values is alive, so a stamp equal to the counter  *)
(* was read after the last INCR, and grants resolved after that read reflect *)
(* every change committed before the INCR.                                   *)

(* An entry that would be served reflects everything flushed, no entry is   *)
(* ahead of the counter, and a counter with an expiry outlives the entry.   *)
EntryInv ==
    entry # NoEntry =>
        /\ entry.v <= counter.val
        /\ entry.v = counter.val => entry.grants >= flushed
        /\ counter.ttl # 0 => counter.ttl >= entry.ttl

(* A fill holds a version the counter has not fallen behind, and if the     *)
(* counter still has it, what the fill resolved reflects everything flushed. *)
FillInv(r) ==
    /\ reader[r].floor <= flushed
    /\ reader[r].version # NoVersion =>
        /\ reader[r].version <= counter.val
        /\ (reader[r].pc = "writing" /\ reader[r].version = counter.val)
              => reader[r].grants >= flushed
    /\ reader[r].pc = "writing" => reader[r].grants >= reader[r].floor
    /\ reader[r].pc = "idle" => /\ reader[r].served >= reader[r].floor
                                /\ reader[r].version = NoVersion

Agreement ==
    /\ flushed <= db
    /\ counter.val = 0 => counter.ttl = 0
    /\ EntryInv
    /\ \A r \in Readers : FillInv(r)

(* Nothing is claimed once a counter has expired under a fill: INCR then     *)
(* recreates it at a value the fill may hold.                                *)
IInv == TypeOK /\ (~orphaned => Agreement)

-----------------------------------------------------------------------------
(* Every step keeps the types. *)
LEMMA TypeStep == TypeOK /\ [Next]_vars => TypeOK'
<1> USE TTLAssumption
<1> SUFFICES ASSUME TypeOK, [Next]_vars PROVE TypeOK'
  OBVIOUS
<1> USE DEF TypeOK, CounterType, EntryType, ReaderType, NoEntry, NoCounter, NoVersion,
            Begun, Answered
<1>1. ASSUME NEW r \in Readers, ReaderStep(r) PROVE TypeOK'
  <2>1. CASE Hit(r)
    BY <2>1 DEF Hit, Current
  <2>2. CASE Miss(r)
    BY <2>2 DEF Miss
  <2>3. CASE ReadUncached(r)
    BY <2>3 DEF ReadUncached
  <2>4. CASE Resolve(r)
    BY <2>4 DEF Resolve
  <2>5. CASE Write(r)
    BY <2>5 DEF Write, Filled, Answer, Touched
  <2>6. CASE SkipWrite(r)
    BY <2>6 DEF SkipWrite, Answer
  <2> QED BY <1>1, <2>1, <2>2, <2>3, <2>4, <2>5, <2>6 DEF ReaderStep
<1>2. ASSUME NEW w \in Writers, WriterStep(w) PROVE TypeOK'
  BY <1>2 DEF WriterStep, Commit, Incr, ExpireCounter, LoseBump, Touched
<1>3. CASE Tick
  BY <1>3 DEF Tick, AgedEntry, AgedCounter, CounterExpires, Filling
<1>4. CASE UNCHANGED vars
  BY <1>4 DEF vars
<1> QED BY <1>1, <1>2, <1>3, <1>4 DEF Next

LEMMA TypeInit == Init => TypeOK
<1> SUFFICES ASSUME Init PROVE TypeOK
  OBVIOUS
<1>1. orphaned \in BOOLEAN
  BY Zenon DEF Init
<1> QED BY <1>1, TTLAssumption DEF Init, Answered, TypeOK, CounterType, ReaderType, NoEntry,
                                   NoCounter, NoVersion

(* Type correctness of the cache, its counter and the fills. *)
THEOREM TypeCorrect == Spec => []TypeOK
  BY TypeInit, TypeStep, PTL DEF Spec

-----------------------------------------------------------------------------
(* A history variable: once set it stays set. *)
LEMMA OrphanedStays == TypeOK /\ [Next]_vars /\ orphaned => orphaned'
  BY DEF TypeOK, Next, ReaderStep, WriterStep, Hit, Miss, ReadUncached, Resolve, Write,
         SkipWrite, Commit, Incr, ExpireCounter, LoseBump, Tick, vars

(* The inductive invariant. *)
LEMMA Inductive == Spec => []IInv
<1> USE TTLAssumption, MaxFillTicksAssumption
<1>1. Init => IInv
  BY TypeInit DEF Init, Answered, IInv, Agreement, EntryInv, FillInv, NoEntry, NoCounter,
                  NoVersion
<1>2. IInv /\ [Next]_vars => IInv'
  <2> SUFFICES ASSUME IInv, [Next]_vars, ~orphaned' PROVE Agreement'
    BY TypeStep DEF IInv
  <2>0. TypeOK /\ TypeOK' /\ Agreement
    BY TypeStep, OrphanedStays DEF IInv
  <2> USE <2>0 DEF Agreement, TypeOK, CounterType, EntryType, ReaderType,
                   NoEntry, NoCounter, NoVersion, Begun, Answered
  <2>1. ASSUME NEW r \in Readers, ReaderStep(r) PROVE Agreement'
    <3>1. CASE Hit(r)
      BY <3>1 DEF Hit, Current, EntryInv, FillInv
    <3>2. CASE Miss(r)
      BY <3>2 DEF Miss, EntryInv, FillInv
    <3>3. CASE ReadUncached(r)
      BY <3>3 DEF ReadUncached, EntryInv, FillInv
    <3>4. CASE Resolve(r)
      BY <3>4 DEF Resolve, EntryInv, FillInv
    <3>5. CASE Write(r)
      <4> USE <3>5 DEF Write, Filled, Answer, Touched
      <4>1. flushed' <= db' /\ (counter.val = 0 => counter.ttl = 0)'
        OBVIOUS
      <4>2. EntryInv'
        BY DEF EntryInv, FillInv
      <4>3. ASSUME NEW s \in Readers PROVE FillInv(s)'
        BY DEF FillInv
      <4> QED BY <4>1, <4>2, <4>3
    <3>6. CASE SkipWrite(r)
      BY <3>6 DEF SkipWrite, Answer, EntryInv, FillInv
    <3> QED BY <2>1, <3>1, <3>2, <3>3, <3>4, <3>5, <3>6 DEF ReaderStep
  <2>2. ASSUME NEW w \in Writers, WriterStep(w) PROVE Agreement'
    <3>1. CASE Commit(w)
      BY <3>1 DEF Commit, EntryInv, FillInv
    <3>2. CASE Incr(w)
      <4> USE <3>2 DEF Incr
      <4>1. flushed' <= db' /\ (counter.val = 0 => counter.ttl = 0)'
        OBVIOUS
      <4>2. EntryInv'
        BY DEF EntryInv
      <4>3. ASSUME NEW s \in Readers PROVE FillInv(s)'
        BY DEF FillInv
      <4> QED BY <4>1, <4>2, <4>3
    <3>3. CASE ExpireCounter(w)
      BY <3>3 DEF ExpireCounter, Touched, EntryInv, FillInv
    <3>4. CASE LoseBump(w)
      BY <3>4 DEF LoseBump, EntryInv, FillInv
    <3> QED BY <2>2, <3>1, <3>2, <3>3, <3>4 DEF WriterStep
  <2>3. CASE Tick
    <3>0. \A s \in Readers : ~(CounterExpires /\ Filling(s))
      BY <2>3, Zenon DEF Tick
    <3> USE <2>3, <3>0 DEF Tick, AgedEntry, AgedCounter, CounterExpires, Filling
    <3>1. flushed' <= db' /\ (counter.val = 0 => counter.ttl = 0)'
      OBVIOUS
    <3>2. EntryInv'
      BY DEF EntryInv
    <3>3. ASSUME NEW s \in Readers PROVE FillInv(s)'
      BY DEF FillInv
    <3> QED BY <3>1, <3>2, <3>3
  <2>4. CASE UNCHANGED vars
    BY <2>4 DEF vars, EntryInv, FillInv
  <2> QED BY <2>1, <2>2, <2>3, <2>4 DEF Next
<1> QED BY <1>1, <1>2, PTL DEF Spec

(* Every answer of grantsFor reflects every change whose invalidation had   *)
(* landed when the request began, until a counter expires under a fill.      *)
THEOREM Freshness == Spec => []ServedFresh
<1>1. IInv => ServedFresh
  BY DEF IInv, Agreement, FillInv, ServedFresh
<1> QED BY <1>1, Inductive, PTL

(* No live entry is ever ahead of the counter it is compared with. *)
THEOREM CounterAhead == Spec => []CounterOutlivesEntry
<1>1. IInv => CounterOutlivesEntry
  BY DEF IInv, Agreement, EntryInv, CounterOutlivesEntry
<1> QED BY <1>1, Inductive, PTL

(* The soundness of the cache, whole. *)
THEOREM Soundness == Spec => []CacheSound
BY Freshness, CounterAhead, PTL DEF CacheSound

-----------------------------------------------------------------------------
(* SessionRevocation.  That a denial is exact, for any number of tokens, any *)
(* lifetime and leeway, and a Redis that goes away, comes back and forgets   *)
(* as it likes.  DenialExact says nothing of how much of the key is left, so *)
(* it is not inductive: a tick may end a key before a token.  Outlasts adds  *)
(* that the key of a published denial has at least as long to live as every  *)
(* token signed before it, and RowEnded that whoever publishes, or has       *)
(* published, has committed the revocation first.                            *)

AccessType == [signing : BOOLEAN, left : 0 .. Accepted, late : BOOLEAN]

RowEnded == revoker = "publishing" \/ told \/ key > 0 => row = "revoked"
Outlasts == told => \A t \in Tokens : access[t].left > 0 /\ ~access[t].late => key >= access[t].left
SessIInv == SessTypeOK /\ RowEnded /\ Outlasts

(* Time left, counted down, stays a time left.                               *)
LEMMA LessBounds == ASSUME NEW n \in 0 .. Accepted
                    PROVE  /\ Less(n) \in 0 .. Accepted
                           /\ Less(n) > 0 => n > 1 /\ Less(n) = n - 1
  BY TokenLifeAssumption DEF Less, Accepted

LEMMA Typed == NoAccess \in AccessType /\ Accepted \in Nat /\ {0, Accepted} \subseteq 0 .. Accepted
  BY TokenLifeAssumption DEF NoAccess, AccessType, Accepted

(* Every step keeps every variable in its type.                              *)
LEMMA SessTypeStep == SessTypeOK /\ [SessNext]_sessVars => SessTypeOK'
<1> SUFFICES ASSUME SessTypeOK, [SessNext]_sessVars PROVE SessTypeOK'
  OBVIOUS
<1>1. ASSUME NEW t \in Tokens, AdmitRequest(t) PROVE SessTypeOK'
  <2>1. [access[t] EXCEPT !.signing = TRUE] \in AccessType
    BY Typed DEF SessTypeOK, AccessType
  <2>2. access' \in [Tokens -> AccessType]
    BY <1>1, <2>1 DEF SessTypeOK, AdmitRequest, AccessType
  <2>3. QED
    BY <1>1, <2>2 DEF SessTypeOK, AdmitRequest, AccessType
<1>2. ASSUME NEW t \in Tokens, Sign(t) PROVE SessTypeOK'
  <2>1. [signing |-> FALSE, left |-> Accepted, late |-> told] \in AccessType
    BY Typed DEF SessTypeOK, AccessType
  <2>2. access' \in [Tokens -> AccessType]
    BY <1>2, <2>1 DEF SessTypeOK, Sign, AccessType
  <2>3. QED
    BY <1>2, <2>2 DEF SessTypeOK, Sign, AccessType
<1>3. CASE Revoker
  BY <1>3, Typed
     DEF SessTypeOK, Revoker, BeginRevoke, CommitRevoke, RollbackRevoke, PublishDenial,
         PublishDenialFails
<1>4. CASE CacheGoes \/ CacheReturns
  BY <1>4, Typed DEF SessTypeOK, CacheGoes, CacheReturns
<1>5. CASE SessTick
  <2>1. ASSUME NEW t \in Tokens PROVE access'[t] \in AccessType
    <3>1. access[t] \in AccessType /\ Less(access[t].left) \in 0 .. Accepted
      BY LessBounds DEF SessTypeOK, AccessType
    <3>2. [access[t] EXCEPT !.left = Less(@)] \in AccessType
      BY <3>1 DEF AccessType
    <3>3. QED
      BY <1>5, <3>2, Typed DEF SessTick
  <2>2. access' \in [Tokens -> AccessType]
    BY <1>5, <2>1 DEF SessTick
  <2>3. key' \in 0 .. Accepted
    BY <1>5, LessBounds DEF SessTypeOK, SessTick
  <2>4. QED
    BY <1>5, <2>2, <2>3 DEF SessTypeOK, SessTick, AccessType
<1>6. CASE UNCHANGED sessVars
  BY <1>6 DEF SessTypeOK, sessVars
<1>7. QED
  BY <1>1, <1>2, <1>3, <1>4, <1>5, <1>6 DEF SessNext

(* A denial is published, and stays published, only of a row that has ended. *)
LEMMA RowStep == SessTypeOK /\ RowEnded /\ [SessNext]_sessVars => RowEnded'
<1> SUFFICES ASSUME SessTypeOK, RowEnded, [SessNext]_sessVars PROVE RowEnded'
  OBVIOUS
<1>1. ASSUME NEW t \in Tokens, AdmitRequest(t) \/ Sign(t) PROVE RowEnded'
  BY <1>1 DEF RowEnded, AdmitRequest, Sign
<1>2. CASE Revoker
  BY <1>2 DEF RowEnded, Revoker, BeginRevoke, CommitRevoke, RollbackRevoke, PublishDenial,
              PublishDenialFails
<1>3. CASE CacheGoes \/ CacheReturns
  BY <1>3 DEF RowEnded, CacheGoes, CacheReturns
<1>4. CASE SessTick
  <2>1. key' > 0 => key > 0
    BY <1>4, LessBounds DEF SessTypeOK, SessTick
  <2>2. QED
    BY <1>4, <2>1 DEF RowEnded, SessTick
<1>5. CASE UNCHANGED sessVars
  BY <1>5 DEF RowEnded, sessVars
<1>6. QED
  BY <1>1, <1>2, <1>3, <1>4, <1>5 DEF SessNext

(* The key of a published denial outlasts the tokens signed before it: it is *)
(* given a token's whole life, ticks with them, and what is signed after it  *)
(* is late.                                                                  *)
LEMMA OutlastsStep == SessTypeOK /\ Outlasts /\ [SessNext]_sessVars => Outlasts'
<1> SUFFICES ASSUME SessTypeOK, Outlasts, [SessNext]_sessVars,
                    told', NEW u \in Tokens, access'[u].left > 0, ~access'[u].late
             PROVE  key' >= access'[u].left
  BY DEF Outlasts
<1>1. access[u] \in AccessType /\ key \in 0 .. Accepted
  BY DEF SessTypeOK, AccessType
<1>2. access[u].left \in 0 .. Accepted
  BY <1>1 DEF AccessType
<1>3. ASSUME NEW t \in Tokens, AdmitRequest(t) PROVE key' >= access'[u].left
  <2>1. access'[u].left = access[u].left /\ access'[u].late = access[u].late
    BY <1>3 DEF SessTypeOK, AdmitRequest
  <2>2. QED
    BY <1>3, <2>1 DEF Outlasts, AdmitRequest
<1>4. ASSUME NEW t \in Tokens, Sign(t) PROVE key' >= access'[u].left
  <2>1. CASE u = t
    <3>1. access'[u].late = told
      BY <1>4, <2>1 DEF SessTypeOK, Sign
    <3>2. QED
      BY <1>4, <3>1 DEF Sign
  <2>2. CASE u # t
    BY <1>4, <2>2 DEF SessTypeOK, Outlasts, Sign
  <2>3. QED
    BY <2>1, <2>2
<1>5. CASE PublishDenial
  BY <1>5, <1>2, Typed DEF PublishDenial
<1>6. CASE BeginRevoke \/ CommitRevoke \/ RollbackRevoke \/ PublishDenialFails
  BY <1>6 DEF Outlasts, BeginRevoke, CommitRevoke, RollbackRevoke, PublishDenialFails
<1>7. CASE CacheGoes \/ CacheReturns
  BY <1>7 DEF Outlasts, CacheGoes, CacheReturns
<1>8. CASE SessTick
  <2>1. access[u].left # 1
    BY <1>8 DEF SessTick, NoAccess
  <2>2. access'[u] = [access[u] EXCEPT !.left = Less(@)]
    BY <1>8, <2>1 DEF SessTick
  <2>3. access'[u].left = Less(access[u].left) /\ access'[u].late = access[u].late
    BY <1>1, <2>2 DEF AccessType
  <2>4. access[u].left > 1 /\ access'[u].left = access[u].left - 1
    BY <1>2, <2>3, LessBounds
  <2>5. key >= access[u].left
    BY <1>2, <1>8, <2>3, <2>4 DEF Outlasts, SessTick
  <2>6. key' = key - 1
    BY <1>1, <1>2, <1>8, <2>4, <2>5 DEF SessTick, Less
  <2>7. QED
    BY <1>1, <1>2, <2>4, <2>5, <2>6
<1>9. CASE UNCHANGED sessVars
  BY <1>9 DEF Outlasts, sessVars
<1>10. QED
  BY <1>3, <1>4, <1>5, <1>6, <1>7, <1>8, <1>9 DEF SessNext, Revoker

(* SessionRevocation: every variable keeps its type, a denial is published   *)
(* of ended rows only, and its key outlasts what it denies.                  *)
THEOREM SessInvariant == SessSpec => []SessIInv
<1>1. SessInit => SessIInv
  <2> SUFFICES ASSUME SessInit PROVE SessIInv
    OBVIOUS
  <2>1. access \in [Tokens -> AccessType]
    BY Typed DEF SessInit
  <2>2. SessTypeOK
    BY <2>1, Typed DEF SessInit, SessTypeOK, AccessType
  <2>3. QED
    BY <2>2 DEF SessInit, SessIInv, RowEnded, Outlasts
<1>2. SessIInv /\ [SessNext]_sessVars => SessIInv'
  BY SessTypeStep, RowStep, OutlastsStep DEF SessIInv
<1>3. QED
  BY <1>1, <1>2, PTL DEF SessSpec

(* The guard refuses no token of a live session, and every token signed      *)
(* before its session's denial for as long as it would be accepted, whether  *)
(* Redis or the database is asked (AuthGuard.isRevoked).                     *)
THEOREM Denial == SessSpec => []DenialExact
<1>1. SessIInv => DenialExact
  <2> SUFFICES ASSUME SessIInv PROVE DenialExact
    OBVIOUS
  <2>1. NeverRefusesLive
    BY DEF SessIInv, RowEnded, NeverRefusesLive
  <2>2. ASSUME told, NEW t \in Tokens, access[t].left > 0, ~access[t].late PROVE Refused
    <3>1. key >= access[t].left /\ row = "revoked"
      BY <2>2 DEF SessIInv, Outlasts, RowEnded
    <3>2. access[t].left \in 0 .. Accepted /\ key \in 0 .. Accepted
      BY DEF SessIInv, SessTypeOK
    <3>3. QED
      BY <2>2, <3>1, <3>2, Typed DEF Refused
  <2>3. QED
    BY <2>1, <2>2 DEF DenialExact, DenialOutlivesTokens
<1>2. QED
  BY <1>1, SessInvariant, PTL

-----------------------------------------------------------------------------
(* Numbers have a least among them.                                          *)
LEMMA LeastOf ==
    ASSUME NEW T \in SUBSET Nat, T # {}
    PROVE  \E m \in T : \A k \in T : m <= k
<1>1. PICK x \in T : \A y \in T : ~ (<<y, x>> \in OpToRel(<, Nat))
  BY NatLessThanWellFounded, WFMin
<1>2. \A y \in T : ~(y < x)
  BY <1>1 DEF OpToRel
<1> QED
  BY <1>2

(* A menu is pruned level by level: there is a function that says what is    *)
(* kept with so many levels left, and ShownAmong is it.                      *)
MenuPlaces == Item \cup {Top}
NothingShown == [n \in MenuPlaces |-> {}]
OneMore(cat, held, rest) ==
    [n \in MenuPlaces |-> UNION {VisibleNode(cat, held, k, rest[k]) : k \in Kids(cat, n)}]
IsShown(cat, held, shown, top) ==
    shown = [d \in 0 .. top |-> IF d = 0 THEN NothingShown ELSE OneMore(cat, held, shown[d - 1])]

LEMMA ShownExists ==
    ASSUME NEW cat, NEW held, NEW top \in Nat
    PROVE  \E shown : IsShown(cat, held, shown, top)
<1> DEFINE Short == {d \in Nat : ~ \E shown : IsShown(cat, held, shown, d)}
<1> SUFFICES ASSUME Short # {} PROVE FALSE
  OBVIOUS
<1>1. PICK d \in Short : \A k \in Short : d <= k
  BY LeastOf
<1>2. d \in Nat /\ ~ \E shown : IsShown(cat, held, shown, d)
  BY <1>1
<1>3. d # 0
  <2> SUFFICES ASSUME d = 0 PROVE FALSE
    OBVIOUS
  <2> DEFINE f == [e \in 0 .. 0 |-> NothingShown]
  <2>1. IsShown(cat, held, f, 0)
    <3>1. f = [e \in 0 .. 0 |-> IF e = 0 THEN NothingShown ELSE OneMore(cat, held, f[e - 1])]
      <4>1. \A e \in 0 .. 0 : e = 0
        OBVIOUS
      <4> QED BY <4>1
    <3> QED BY <3>1 DEF IsShown
  <2> QED BY <1>2, <2>1
<1>4. d - 1 \in Nat /\ ~(d <= d - 1) /\ (d - 1) + 1 = d
  BY <1>2, <1>3
<1>5. PICK f : IsShown(cat, held, f, d - 1)
  <2>1. d - 1 \notin Short
    <3> HIDE DEF Short
    <3> QED BY <1>1, <1>4
  <2> QED BY <1>4, <2>1
<1> DEFINE g == [e \in 0 .. d |-> IF e = d THEN OneMore(cat, held, f[d - 1]) ELSE f[e]]
<1>6. ASSUME NEW e \in 0 .. d
      PROVE  g[e] = IF e = 0 THEN NothingShown ELSE OneMore(cat, held, g[e - 1])
  <2>1. CASE e = d
    <3>1. e # 0 /\ e - 1 \in 0 .. d /\ e - 1 # d /\ e - 1 = d - 1
      BY <1>2, <1>3, <2>1
    <3>2. g[e] = OneMore(cat, held, f[d - 1]) /\ g[e - 1] = f[d - 1]
      BY <2>1, <3>1
    <3> QED BY <3>1, <3>2
  <2>2. CASE e # d
    <3>1. e \in 0 .. d - 1 /\ g[e] = f[e]
      BY <1>2, <2>2
    <3>2. f[e] = IF e = 0 THEN NothingShown ELSE OneMore(cat, held, f[e - 1])
      BY <1>5, <3>1 DEF IsShown
    <3>3. CASE e = 0
      BY <3>1, <3>2, <3>3
    <3>4. CASE e # 0
      <4>1. e - 1 \in 0 .. d /\ e - 1 # d
        BY <1>2, <3>1, <3>4
      <4>2. g[e - 1] = f[e - 1]
        BY <4>1
      <4> QED BY <3>1, <3>2, <3>4, <4>2
    <3> QED BY <3>3, <3>4
  <2> QED BY <2>1, <2>2
<1>7. IsShown(cat, held, g, d)
  <2>1. g = [e \in 0 .. d |-> g[e]]
    OBVIOUS
  <2> HIDE DEF g
  <2> QED BY <1>6, <2>1 DEF IsShown
<1> QED BY <1>2, <1>7

LEMMA ShownIs ==
    ASSUME NEW cat, NEW held
    PROVE  \A d \in 0 .. Cardinality(Item), n \in MenuPlaces : \A m :
              m \in ShownAmong(cat, held)[d][n] <=>
                  /\ d # 0
                  /\ \E k \in Kids(cat, n) :
                         m \in VisibleNode(cat, held, k, ShownAmong(cat, held)[d - 1][k])
<1>1. Cardinality(Item) \in Nat
  BY ItemAssumption, FS_CardinalityType
<1> DEFINE top == Cardinality(Item)
<1>2. ShownAmong(cat, held) = CHOOSE shown : IsShown(cat, held, shown, top)
  BY DEF ShownAmong, IsShown, NothingShown, OneMore, MenuPlaces
<1>3. IsShown(cat, held, ShownAmong(cat, held), top)
  <2> HIDE DEF top
  <2>1. \E shown : IsShown(cat, held, shown, top)
    BY <1>1, ShownExists DEF top
  <2> QED BY <1>2, <2>1
<1> SUFFICES ASSUME NEW d \in 0 .. top, NEW n \in MenuPlaces, NEW m
             PROVE  m \in ShownAmong(cat, held)[d][n] <=>
                       /\ d # 0
                       /\ \E k \in Kids(cat, n) :
                              m \in VisibleNode(cat, held, k, ShownAmong(cat, held)[d - 1][k])
  OBVIOUS
<1> HIDE DEF top
<1>4. ShownAmong(cat, held)[d] = IF d = 0 THEN NothingShown ELSE OneMore(cat, held, ShownAmong(cat, held)[d - 1])
  BY <1>3 DEF IsShown
<1>5. CASE d = 0
  BY <1>4, <1>5 DEF NothingShown
<1>6. CASE d # 0
  BY <1>4, <1>6 DEF OneMore
<1> QED BY <1>5, <1>6

-----------------------------------------------------------------------------
(* A catalog as the tables can be: active nodes, each under a place.         *)
IsCatalog(cat) ==
    /\ DOMAIN cat.parent \subseteq Item
    /\ \A n \in DOMAIN cat.parent : cat.parent[n] \in MenuPlaces

(* The leaves a caller may enter, wherever they hang.                        *)
Enterable(cat, held) ==
    {l \in DOMAIN cat.parent : Kids(cat, l) = {} /\ LeafShown(cat, held, l)}

(* Above a node stand its parent, and what its parent hangs from.            *)
LEMMA OverParent ==
    ASSUME NEW cat, IsCatalog(cat), NEW l \in DOMAIN cat.parent
    PROVE  /\ cat.parent[l] \in Over(cat, l)
           /\ \A k \in Over(cat, l) \cap DOMAIN cat.parent : cat.parent[k] \in Over(cat, l)
BY DEF IsCatalog, Over, MenuPlaces

(* What is kept under a node leads to a leaf under it that may be entered.   *)
LeadsToLeaf(cat, held, n, m) ==
    /\ m \in DOMAIN cat.parent
    /\ \E l \in Enterable(cat, held) : n \in Over(cat, l) /\ (m = l \/ m \in Over(cat, l))

LEMMA ShownLeads ==
    ASSUME NEW cat, IsCatalog(cat), NEW held
    PROVE  \A d \in 0 .. Cardinality(Item) : \A n \in MenuPlaces :
              \A m \in ShownAmong(cat, held)[d][n] : LeadsToLeaf(cat, held, n, m)
<1> DEFINE S(d, n) == ShownAmong(cat, held)[d][n]
           Good(d) == \A n \in MenuPlaces : \A m \in S(d, n) : LeadsToLeaf(cat, held, n, m)
           Bad == {d \in 0 .. Cardinality(Item) : ~Good(d)}
<1>0. Cardinality(Item) \in Nat
  BY ItemAssumption, FS_CardinalityType
<1> SUFFICES ASSUME Bad # {} PROVE FALSE
  OBVIOUS
<1>1. PICK d \in Bad : \A k \in Bad : d <= k
  <2>1. Bad \in SUBSET Nat
    BY <1>0
  <2> HIDE DEF Bad
  <2> QED BY <2>1, LeastOf
<1>2. d \in 0 .. Cardinality(Item) /\ ~Good(d)
  BY <1>1
<1>3. PICK n \in MenuPlaces : \E m \in S(d, n) : ~LeadsToLeaf(cat, held, n, m)
  BY <1>2
<1>4. PICK m \in S(d, n) : ~LeadsToLeaf(cat, held, n, m)
  BY <1>3
<1>5. \A x : x \in S(d, n) <=> d # 0 /\ \E k \in Kids(cat, n) : x \in VisibleNode(cat, held, k, S(d - 1, k))
  <2>1. d \in 0 .. Cardinality(Item) /\ n \in MenuPlaces
    BY <1>2, <1>3
  <2> HIDE DEF Good
  <2> QED BY <2>1, ShownIs
<1>6. d # 0
  BY <1>4, <1>5
<1>7. d - 1 \in 0 .. Cardinality(Item) /\ ~(d <= d - 1)
  BY <1>0, <1>2, <1>6
<1>8. Good(d - 1)
  <2>1. d - 1 \notin Bad
    <3> HIDE DEF Bad
    <3> QED BY <1>1, <1>7
  <2> HIDE DEF Good
  <2> QED BY <1>7, <2>1
<1> HIDE DEF S, Bad
<1>9. PICK k \in Kids(cat, n) : m \in VisibleNode(cat, held, k, S(d - 1, k))
  BY <1>4, <1>5, <1>6
<1>10. k \in DOMAIN cat.parent /\ cat.parent[k] = n /\ k \in MenuPlaces
  BY <1>9 DEF Kids, IsCatalog, MenuPlaces
<1>11. CASE Kids(cat, k) = {}
  <2>1. m = k /\ LeafShown(cat, held, k)
    BY <1>9, <1>11 DEF VisibleNode
  <2>2. k \in Enterable(cat, held)
    BY <1>10, <1>11, <2>1 DEF Enterable
  <2>3. n \in Over(cat, k)
    BY <1>10, OverParent
  <2> QED BY <1>4, <1>10, <2>1, <2>2, <2>3 DEF LeadsToLeaf
<1>12. CASE Kids(cat, k) # {}
  <2>1. PICK b \in S(d - 1, k) : m = k \/ m = b
    BY <1>9, <1>12 DEF VisibleNode
  <2>2. LeadsToLeaf(cat, held, k, b)
    BY <1>8, <1>10, <2>1
  <2>3. PICK l \in Enterable(cat, held) : k \in Over(cat, l) /\ (b = l \/ b \in Over(cat, l))
    BY <2>2 DEF LeadsToLeaf
  <2>4. l \in DOMAIN cat.parent
    BY DEF Enterable
  <2>5. n \in Over(cat, l)
    BY <1>10, <2>3, <2>4, OverParent
  <2>6. m \in DOMAIN cat.parent /\ (m = l \/ m \in Over(cat, l))
    BY <1>10, <2>1, <2>2, <2>3 DEF LeadsToLeaf
  <2> QED BY <1>4, <2>5, <2>6 DEF LeadsToLeaf
<1> QED BY <1>11, <1>12

(* Nothing is kept of a catalog but what its rules allow.                    *)
LEMMA PrunedAllowed ==
    ASSUME NEW cat, IsCatalog(cat), NEW held \in SUBSET Key
    PROVE  Pruned(cat, held) \subseteq Allowed(cat, held)
<1> DEFINE leaves == AllowedLeaves(cat, held)
<1>1. Allowed(cat, held) = leaves \cup {n \in DOMAIN cat.parent : \E l \in leaves : n \in Over(cat, l)}
  BY DEF Allowed
<1>2. ASSUME NEW l \in Enterable(cat, held), Top \in Over(cat, l) PROVE l \in leaves
  BY <1>2 DEF AllowedLeaves, Enterable, LeafShown, GatesOn, Kids
<1> SUFFICES ASSUME NEW m \in Pruned(cat, held) PROVE m \in Allowed(cat, held)
  OBVIOUS
<1>3. LeadsToLeaf(cat, held, Top, m)
  <2>1. Cardinality(Item) \in 0 .. Cardinality(Item)
    BY ItemAssumption, FS_CardinalityType
  <2> QED BY <2>1, ShownLeads DEF Pruned, MenuPlaces
<1> HIDE DEF leaves
<1>4. PICK l \in Enterable(cat, held) : Top \in Over(cat, l) /\ (m = l \/ m \in Over(cat, l))
  BY <1>3 DEF LeadsToLeaf
<1> QED BY <1>1, <1>2, <1>3, <1>4 DEF LeadsToLeaf

-----------------------------------------------------------------------------
(* With more levels left, no less is kept.                                   *)
LEMMA ShownGrows ==
    ASSUME NEW cat, IsCatalog(cat), NEW held
    PROVE  \A d \in Nat : d < Cardinality(Item) =>
              \A n \in MenuPlaces : ShownAmong(cat, held)[d][n] \subseteq ShownAmong(cat, held)[d + 1][n]
<1> DEFINE S(d, n) == ShownAmong(cat, held)[d][n]
           Grows(d) == \A n \in MenuPlaces : S(d, n) \subseteq S(d + 1, n)
           Bad == {d \in Nat : d < Cardinality(Item) /\ ~Grows(d)}
<1>0. Cardinality(Item) \in Nat
  BY ItemAssumption, FS_CardinalityType
<1> SUFFICES ASSUME Bad # {} PROVE FALSE
  OBVIOUS
<1>1. PICK d \in Bad : \A k \in Bad : d <= k
  <2>1. Bad \in SUBSET Nat
    OBVIOUS
  <2> HIDE DEF Bad
  <2> QED BY <2>1, LeastOf
<1>2. d \in Nat /\ d < Cardinality(Item) /\ ~Grows(d)
  BY <1>1
<1>3. PICK n \in MenuPlaces : \E m \in S(d, n) : m \notin S(d + 1, n)
  BY <1>2
<1>4. PICK m \in S(d, n) : m \notin S(d + 1, n)
  BY <1>3
<1>5. d \in 0 .. Cardinality(Item) /\ d + 1 \in 0 .. Cardinality(Item) /\ d + 1 # 0 /\ (d + 1) - 1 = d
  BY <1>0, <1>2
<1>6. \A e \in 0 .. Cardinality(Item), q \in MenuPlaces : \A x :
         x \in S(e, q) <=> e # 0 /\ \E k \in Kids(cat, q) : x \in VisibleNode(cat, held, k, S(e - 1, k))
  <2> HIDE DEF Grows
  <2> QED BY ShownIs
<1> HIDE DEF S
<1>7. d # 0 /\ \E k \in Kids(cat, n) : m \in VisibleNode(cat, held, k, S(d - 1, k))
  BY <1>4, <1>5, <1>6
<1>8. PICK k \in Kids(cat, n) : m \in VisibleNode(cat, held, k, S(d - 1, k))
  BY <1>7
<1>9. k \in MenuPlaces
  BY <1>8 DEF Kids, IsCatalog, MenuPlaces
<1>10. d - 1 \in Nat /\ d - 1 < Cardinality(Item) /\ ~(d <= d - 1) /\ (d - 1) + 1 = d
  BY <1>0, <1>2, <1>7
<1>11. Grows(d - 1)
  <2>1. d - 1 \notin Bad
    <3> HIDE DEF Bad
    <3> QED BY <1>1, <1>10
  <2> HIDE DEF Grows
  <2> QED BY <1>10, <2>1
<1>12. S(d - 1, k) \subseteq S(d, k)
  BY <1>9, <1>10, <1>11
<1>13. m \in VisibleNode(cat, held, k, S(d, k))
  BY <1>8, <1>12 DEF VisibleNode
<1>14. m \in S(d + 1, n)
  BY <1>5, <1>6, <1>8, <1>13
<1> QED BY <1>4, <1>14

LEMMA ShownToTheEnd ==
    ASSUME NEW cat, IsCatalog(cat), NEW held, NEW n \in MenuPlaces, NEW d \in 0 .. Cardinality(Item)
    PROVE  ShownAmong(cat, held)[d][n] \subseteq ShownAmong(cat, held)[Cardinality(Item)][n]
<1> DEFINE S(e) == ShownAmong(cat, held)[e][n]
           top == Cardinality(Item)
           Far == {e \in Nat : e <= top /\ ~(S(top - e) \subseteq S(top))}
<1>0. top \in Nat
  BY ItemAssumption, FS_CardinalityType
<1>g. \A e \in Nat : e < top => S(e) \subseteq S(e + 1)
  BY ShownGrows
<1> HIDE DEF S, top
<1>1. Far = {}
  <2> SUFFICES ASSUME Far # {} PROVE FALSE
    OBVIOUS
  <2>1. PICK e \in Far : \A k \in Far : e <= k
    <3>1. Far \in SUBSET Nat
      OBVIOUS
    <3> HIDE DEF Far
    <3> QED BY <3>1, LeastOf
  <2>2. e \in Nat /\ e <= top /\ ~(S(top - e) \subseteq S(top))
    BY <2>1
  <2>3. e # 0
    <3> SUFFICES ASSUME e = 0 PROVE FALSE
      OBVIOUS
    <3>1. top - e = top
      BY <1>0
    <3> QED BY <2>2, <3>1
  <2>4. e - 1 \in Nat /\ e - 1 <= top /\ ~(e <= e - 1) /\ top - (e - 1) = (top - e) + 1
        /\ top - e \in Nat /\ top - e < top
    BY <1>0, <2>2, <2>3
  <2>5. S(top - (e - 1)) \subseteq S(top)
    <3>1. e - 1 \notin Far
      <4> HIDE DEF Far
      <4> QED BY <2>1, <2>4
    <3> QED BY <2>4, <3>1
  <2>6. S(top - e) \subseteq S((top - e) + 1)
    BY <1>g, <2>4
  <2> QED BY <2>2, <2>4, <2>5, <2>6
<1>2. d \in Nat /\ d <= top
  BY <1>0 DEF top
<1>3. top - d \in Nat /\ top - d <= top /\ top - (top - d) = d
  BY <1>0, <1>2
<1>4. S(top - (top - d)) \subseteq S(top)
  <2> QED BY <1>1, <1>3
<1>5. S(d) \subseteq S(top)
  BY <1>3, <1>4
<1> QED BY <1>5 DEF S, top

(* The way up from a leaf: below q are the items passed, all of them kept.   *)
WayUp(cat, held, l, q, passed) ==
    /\ passed \subseteq DOMAIN cat.parent
    /\ l \in passed /\ q \notin passed
    /\ \A s \in passed : cat.parent[s] \in passed \cup {q}
    /\ passed \subseteq ShownAmong(cat, held)[Cardinality(passed)][q]

LEMMA WayStarts ==
    ASSUME NEW cat, IsCatalog(cat), NEW held, NEW l \in Enterable(cat, held)
    PROVE  WayUp(cat, held, l, cat.parent[l], {l})
<1>1. l \in DOMAIN cat.parent /\ Kids(cat, l) = {} /\ LeafShown(cat, held, l)
  BY DEF Enterable
<1>2. l # cat.parent[l]
  BY <1>1 DEF Kids
<1>3. Cardinality({l}) = 1
  BY FS_Singleton
<1>4. Cardinality({l}) \in 0 .. Cardinality(Item)
  <2>1. Cardinality({l}) <= Cardinality(Item)
    BY <1>1, ItemAssumption, FS_Subset DEF IsCatalog
  <2>2. Cardinality(Item) \in Nat
    BY ItemAssumption, FS_CardinalityType
  <2> QED BY <1>3, <2>1, <2>2
<1>5. l \in Kids(cat, cat.parent[l]) /\ cat.parent[l] \in MenuPlaces
  BY <1>1 DEF Kids, IsCatalog
<1>6. l \in VisibleNode(cat, held, l, ShownAmong(cat, held)[1 - 1][l])
  BY <1>1 DEF VisibleNode
<1>7. l \in ShownAmong(cat, held)[1][cat.parent[l]]
  <2>1. 1 \in 0 .. Cardinality(Item) /\ 1 # 0
    BY <1>3, <1>4
  <2> QED BY <1>5, <1>6, <2>1, ShownIs
<1> QED BY <1>1, <1>2, <1>3, <1>7 DEF WayUp

(* What is passed holds all that stands above the leaf, but for q and what   *)
(* stands above it: so the way never comes back to what it passed, while the *)
(* top is still above.                                                       *)
LEMMA WayGoesOn ==
    ASSUME NEW cat, IsCatalog(cat), NEW held, NEW l \in Enterable(cat, held), Top \in Over(cat, l),
           NEW q \in DOMAIN cat.parent, NEW passed, WayUp(cat, held, l, q, passed)
    PROVE  WayUp(cat, held, l, cat.parent[q], passed \cup {q})
<1>0. q \in Item /\ passed \subseteq Item /\ l \in DOMAIN cat.parent
  BY DEF WayUp, IsCatalog, Enterable
<1>1. cat.parent[q] \notin passed \cup {q}
  <2> SUFFICES ASSUME cat.parent[q] \in passed \cup {q} PROVE FALSE
    OBVIOUS
  <2> DEFINE up == passed \cup {q}
  <2>1. up \in SUBSET (Item \cup {Top})
    BY <1>0
  <2>2. cat.parent[l] \in up /\ \A k \in up \cap DOMAIN cat.parent : cat.parent[k] \in up
    BY DEF WayUp
  <2> HIDE DEF up
  <2>3. Top \in up
    BY <2>1, <2>2 DEF Over
  <2> QED BY <1>0, <2>3, TopAssumption DEF up
<1>2. IsFiniteSet(passed) /\ Cardinality(passed) \in Nat
  BY <1>0, ItemAssumption, FS_Subset, FS_CardinalityType
<1>3. Cardinality(passed \cup {q}) = Cardinality(passed) + 1
  BY <1>2, FS_AddElement DEF WayUp
<1>4. Cardinality(passed) + 1 \in 0 .. Cardinality(Item)
  <2>1. Cardinality(passed \cup {q}) <= Cardinality(Item)
    BY <1>0, ItemAssumption, FS_Subset
  <2>2. Cardinality(Item) \in Nat
    BY ItemAssumption, FS_CardinalityType
  <2> QED BY <1>2, <1>3, <2>1, <2>2
<1> DEFINE c == Cardinality(passed)
<1>5. passed \cup {q} \subseteq ShownAmong(cat, held)[c + 1][cat.parent[q]]
  <2>1. q \in Kids(cat, cat.parent[q]) /\ cat.parent[q] \in MenuPlaces
    BY DEF Kids, IsCatalog
  <2>2. Kids(cat, q) # {}
    <3>1. passed \subseteq ShownAmong(cat, held)[c][q] /\ l \in passed
      BY DEF WayUp
    <3>2. c \in 0 .. Cardinality(Item) /\ q \in MenuPlaces
      <4>1. Cardinality(Item) \in Nat
        BY ItemAssumption, FS_CardinalityType
      <4> QED BY <1>0, <1>2, <1>4, <4>1 DEF MenuPlaces
    <3>3. l \in ShownAmong(cat, held)[c][q]
      BY <3>1
    <3> HIDE DEF c
    <3> QED BY <3>2, <3>3, ShownIs
  <2>3. passed \cup {q} \subseteq VisibleNode(cat, held, q, ShownAmong(cat, held)[c][q])
    BY <2>2 DEF WayUp, VisibleNode
  <2>4. c + 1 # 0 /\ (c + 1) - 1 = c
    BY <1>2
  <2>5. \A x : x \in ShownAmong(cat, held)[c + 1][cat.parent[q]] <=>
           /\ c + 1 # 0
           /\ \E k \in Kids(cat, cat.parent[q]) :
                 x \in VisibleNode(cat, held, k, ShownAmong(cat, held)[(c + 1) - 1][k])
    BY <1>4, <2>1, ShownIs
  <2> HIDE DEF c
  <2> QED BY <2>1, <2>3, <2>4, <2>5
<1>6. passed \cup {q} \subseteq DOMAIN cat.parent
  BY DEF WayUp
<1>7. \A s \in passed \cup {q} : cat.parent[s] \in (passed \cup {q}) \cup {cat.parent[q]}
  BY DEF WayUp
<1> QED BY <1>1, <1>3, <1>5, <1>6, <1>7 DEF WayUp

LEMMA WayToTheTop ==
    ASSUME NEW cat, IsCatalog(cat), NEW held, NEW l \in Enterable(cat, held), Top \in Over(cat, l)
    PROVE  \E passed : WayUp(cat, held, l, Top, passed)
<1> DEFINE up == {q \in MenuPlaces : \E passed : WayUp(cat, held, l, q, passed)}
<1>1. up \in SUBSET (Item \cup {Top})
  BY DEF MenuPlaces
<1>2. cat.parent[l] \in up
  BY WayStarts DEF IsCatalog, Enterable
<1>3. ASSUME NEW k \in up \cap DOMAIN cat.parent PROVE cat.parent[k] \in up
  <2>1. PICK passed : WayUp(cat, held, l, k, passed)
    BY <1>3
  <2>2. WayUp(cat, held, l, cat.parent[k], passed \cup {k})
    BY <1>3, <2>1, WayGoesOn
  <2> QED BY <1>3, <2>2 DEF IsCatalog
<1>4. Top \in up
  <2> HIDE DEF up
  <2> QED BY <1>1, <1>2, <1>3 DEF Over
<1> QED BY <1>4

(* All that the rules of a catalog allow is kept of it.                      *)
LEMMA AllowedPruned ==
    ASSUME NEW cat, IsCatalog(cat), NEW held \in SUBSET Key
    PROVE  Allowed(cat, held) \subseteq Pruned(cat, held)
<1> DEFINE leaves == AllowedLeaves(cat, held)
<1>1. Allowed(cat, held) = leaves \cup {n \in DOMAIN cat.parent : \E l \in leaves : n \in Over(cat, l)}
  BY DEF Allowed
<1>2. ASSUME NEW l \in leaves PROVE l \in Enterable(cat, held) /\ Top \in Over(cat, l)
  BY <1>2 DEF AllowedLeaves, Enterable, LeafShown, GatesOn, Kids
<1> HIDE DEF leaves
<1> SUFFICES ASSUME NEW n \in Allowed(cat, held) PROVE n \in Pruned(cat, held)
  OBVIOUS
<1>3. PICK l \in leaves : n = l \/ (n \in DOMAIN cat.parent /\ n \in Over(cat, l))
  BY <1>1
<1>4. l \in Enterable(cat, held) /\ Top \in Over(cat, l)
  BY <1>2
<1>5. PICK passed : WayUp(cat, held, l, Top, passed)
  BY <1>4, WayToTheTop
<1>6. n \in passed
  <2>1. CASE n = l
    BY <1>5, <2>1 DEF WayUp
  <2>2. CASE n \in DOMAIN cat.parent /\ n \in Over(cat, l)
    <3> DEFINE up == passed \cup {Top}
    <3>1. n \in Item
      BY <2>2 DEF IsCatalog
    <3>2. up \in SUBSET (Item \cup {Top})
      BY <1>5 DEF WayUp, IsCatalog
    <3>3. cat.parent[l] \in up /\ \A k \in up \cap DOMAIN cat.parent : cat.parent[k] \in up
      BY <1>5, TopAssumption DEF WayUp, IsCatalog
    <3> HIDE DEF up
    <3>4. n \in up
      BY <2>2, <3>2, <3>3 DEF Over
    <3> QED BY <3>1, <3>4, TopAssumption DEF up
  <2> QED BY <1>3, <2>1, <2>2
<1>7. passed \subseteq Item
  BY <1>5 DEF WayUp, IsCatalog
<1>8. Cardinality(passed) \in 0 .. Cardinality(Item)
  <2>1. IsFiniteSet(passed) /\ Cardinality(passed) <= Cardinality(Item)
    BY <1>7, ItemAssumption, FS_Subset
  <2> QED BY <2>1, ItemAssumption, FS_CardinalityType
<1>9. n \in ShownAmong(cat, held)[Cardinality(passed)][Top]
  BY <1>5, <1>6 DEF WayUp
<1>10. Top \in MenuPlaces
  BY DEF MenuPlaces
<1>11. n \in ShownAmong(cat, held)[Cardinality(Item)][Top]
  BY <1>8, <1>9, <1>10, ShownToTheEnd
<1> QED BY <1>11 DEF Pruned

(* pruneNavTree keeps exactly what the rules allow.                          *)
THEOREM PrunedIsAllowed ==
    ASSUME NEW cat, IsCatalog(cat), NEW held \in SUBSET Key
    PROVE  Pruned(cat, held) = Allowed(cat, held)
BY PrunedAllowed, AllowedPruned

-----------------------------------------------------------------------------
(* Navigation.  The counter moves with every bump that lands, so an entry or *)
(* a request that still agrees with it read both halves after the last one;  *)
(* and the counter outlives the entry, since each store keeps it alive for   *)
(* twice as long.                                                            *)

MenuEntryType ==
    /\ navEntry \in [v : Int, nodes : 1 .. Len(navPast), gates : 1 .. Len(navPast), ttl : 0 .. NavTtl]
    /\ navCounter \in [val : Nat, ttl : 0 .. 2 * NavTtl]
    /\ navOrphaned \in BOOLEAN

MenuEntryInv ==
    navEntry # NoNavEntry =>
        /\ navEntry.v <= navCounter.val
        /\ navEntry.v = navCounter.val => navEntry.nodes >= navFlushed /\ navEntry.gates >= navFlushed
        /\ navCounter.val # 0 => navCounter.ttl >= navEntry.ttl

(* What a request has read is a state that was committed.                    *)
ReadCommitted(r) == viewer[r].nodes \in 1 .. Len(navPast) /\ viewer[r].gates \in 1 .. Len(navPast)

StampInv(req) ==
    /\ req.pc \in {"idle", "asking"} => req.version = Unstamped
    /\ req.version # Unstamped =>
          /\ req.version <= navCounter.val
          /\ req.version = navCounter.val =>
                /\ req.pc \in {"gates", "writing"} => req.nodes >= navFlushed
                /\ req.pc = "writing" => req.gates >= navFlushed

FloorInv(req) ==
    /\ req.floor <= navFlushed
    /\ req.pc \in {"idle", "gates", "writing"} => req.nodes >= req.floor
    /\ req.pc \in {"idle", "writing"} => req.gates >= req.floor

MenuAgreement == MenuEntryInv /\ \A r \in Viewer : StampInv(viewer[r]) /\ FloorInv(viewer[r])

-----------------------------------------------------------------------------
LEMMA ReadIsCatalog ==
    ASSUME navPast \in Seq(Catalogs), NEW i \in 1 .. Len(navPast), NEW j \in 1 .. Len(navPast)
    PROVE  IsCatalog(CatalogRead(i, j)) /\ IsCatalog(navPast[i])
<1>1. navPast[i] \in Catalogs
  OBVIOUS
<1>2. CatalogRead(i, j).parent = navPast[i].parent
  BY DEF CatalogRead
<1> QED BY <1>1, <1>2, CatalogsAssumption DEF IsCatalog, MenuPlaces

LEMMA ShownItems ==
    ASSUME navPast \in Seq(Catalogs), NEW i \in 1 .. Len(navPast), NEW j \in 1 .. Len(navPast),
           NEW held \in SUBSET Key
    PROVE  ShownTo(held, i, j) \in SUBSET Item
<1> DEFINE cat == CatalogRead(i, j)
<1>1. IsCatalog(cat)
  BY ReadIsCatalog
<1> HIDE DEF cat
<1>2. Allowed(cat, held) \subseteq DOMAIN cat.parent
  BY DEF Allowed, AllowedLeaves
<1>3. Pruned(cat, held) \subseteq Item
  BY <1>1, <1>2, PrunedAllowed DEF IsCatalog
<1> QED BY <1>3 DEF ShownTo, cat

MenuTyped == NavTypeOK /\ MenuEntryType /\ \A r \in Viewer : ReadCommitted(r)

(* Nothing is claimed once a counter has expired under a request that holds  *)
(* one of its values: a bump then brings that value back.                    *)
NavInv == MenuTyped /\ (~navOrphaned => MenuAgreement)

ViewerType ==
    [pc : {"idle", "asking", "nodes", "gates", "writing"},
     held : SUBSET Key, version : Nat \cup {Unstamped}, age : 0 .. MaxRead + 1,
     floor : Nat, nodes : Nat, gates : Nat, shown : SUBSET Item]

(* A request that ends, answered from these two halves.                      *)
LEMMA RestTyped ==
    ASSUME NEW floor \in Nat, NEW i \in Nat, NEW j \in Nat, NEW shown \in SUBSET Item
    PROVE  Rest(floor, i, j, shown) \in ViewerType
BY NavBoundsAssumption DEF Rest, ViewerType, Unstamped

LEMMA MenuTypeInit == NavInit => MenuTyped
<1> SUFFICES ASSUME NavInit PROVE MenuTyped
  OBVIOUS
<1>1. navPast \in Seq(Catalogs) /\ Len(navPast) = 1
  <2>1. PICK c \in Catalogs : navPast = <<c>>
    BY DEF NavInit
  <2> QED BY <2>1
<1>2. Rest(1, 1, 1, {}) \in ViewerType
  BY RestTyped
<1>3. \A r \in Viewer : viewer[r] = Rest(1, 1, 1, {})
  BY DEF NavInit
<1>4. viewer \in [Viewer -> ViewerType]
  BY <1>2 DEF NavInit
<1>5. navEnabled \in BOOLEAN
  BY Zenon DEF NavInit
<1>6. navOrphaned \in BOOLEAN
  BY Zenon DEF NavInit
<1>7. NavTypeOK
  BY <1>1, <1>4, <1>5, NavTtlAssumption, NavBoundsAssumption
     DEF NavInit, NavTypeOK, ViewerType, NoNavEntry, NoNavCounter
<1>8. MenuEntryType
  BY <1>1, <1>6, NavTtlAssumption DEF NavInit, MenuEntryType, NoNavEntry, NoNavCounter
<1>9. \A r \in Viewer : ReadCommitted(r)
  BY <1>1, <1>3 DEF ReadCommitted, Rest
<1> QED BY <1>7, <1>8, <1>9 DEF MenuTyped

(* A step of one request: it is left with a record of its type, whose halves *)
(* are committed, and the tables and the history are left alone.             *)
LEMMA ViewerTyped ==
    ASSUME MenuTyped, NEW r \in Viewer, NEW now,
           now \in ViewerType, now.nodes \in 1 .. Len(navPast), now.gates \in 1 .. Len(navPast),
           viewer' = [viewer EXCEPT ![r] = now],
           UNCHANGED <<navPast, navEnabled, navDue, navFlushed, navOrphaned>>,
           MenuEntryType',
           navEntry' # NoNavEntry => navEntry'.v \in Nat /\ navEntry'.ttl \in 1 .. NavTtl
    PROVE  MenuTyped'
<1>1. viewer \in [Viewer -> ViewerType]
  BY DEF MenuTyped, NavTypeOK, ViewerType
<1>2. viewer' \in [Viewer -> ViewerType]
  BY <1>1
<1>3. \A q \in Viewer : ReadCommitted(q)'
  BY <1>1 DEF MenuTyped, ReadCommitted
<1>4. NavTypeOK'
  BY <1>2 DEF MenuTyped, NavTypeOK, MenuEntryType, ViewerType
<1> QED BY <1>3, <1>4 DEF MenuTyped

LEMMA ViewerStepTyped ==
    ASSUME MenuTyped, NEW r \in Viewer, ViewerStep(r)
    PROVE  MenuTyped'
<1>1. /\ viewer \in [Viewer -> ViewerType]
      /\ navPast \in Seq(Catalogs) /\ Len(navPast) \in Nat \ {0}
      /\ navFlushed \in 1 .. Len(navPast)
      /\ MenuEntryType
      /\ navEntry # NoNavEntry => navEntry.v \in Nat /\ navEntry.ttl \in 1 .. NavTtl
      /\ ReadCommitted(r)
  BY DEF MenuTyped, NavTypeOK, ViewerType
<1>2. viewer[r] \in ViewerType
  BY <1>1
<1> DEFINE e == viewer[r]
<1>3. UNCHANGED <<navEntry, navCounter, navPast, navOrphaned>> => MenuEntryType'
  BY <1>1 DEF MenuEntryType
<1>4. ASSUME NEW i \in 1 .. Len(navPast), NEW j \in 1 .. Len(navPast)
      PROVE  LET now == Rest(e.floor, i, j, ShownTo(e.held, i, j))
             IN  now \in ViewerType /\ now.nodes = i /\ now.gates = j
  <2>1. ShownTo(e.held, i, j) \in SUBSET Item
    BY <1>1, <1>2, ShownItems DEF ViewerType
  <2>2. e.floor \in Nat /\ i \in Nat /\ j \in Nat
    BY <1>1, <1>2 DEF ViewerType
  <2> QED BY <2>1, <2>2, RestTyped DEF Rest
<1>5. CASE AskMenu(r)
  <2>1. PICK held \in SUBSET Key :
           viewer' = [viewer EXCEPT ![r] =
               IF navEnabled THEN [Rest(navFlushed, 1, 1, {}) EXCEPT !.pc = "asking", !.held = held]
               ELSE Rest(navFlushed, Len(navPast), Len(navPast), {})]
    BY <1>5 DEF AskMenu
  <2> DEFINE asked == [Rest(navFlushed, 1, 1, {}) EXCEPT !.pc = "asking", !.held = held]
             off == Rest(navFlushed, Len(navPast), Len(navPast), {})
  <2>2. asked \in ViewerType /\ asked.nodes = 1 /\ asked.gates = 1
    <3>1. Rest(navFlushed, 1, 1, {}) \in ViewerType
      BY <1>1, RestTyped
    <3>2. Rest(navFlushed, 1, 1, {}).nodes = 1 /\ Rest(navFlushed, 1, 1, {}).gates = 1
      BY DEF Rest
    <3> QED BY <2>1, <3>1, <3>2 DEF ViewerType
  <2>3. off \in ViewerType /\ off.nodes = Len(navPast) /\ off.gates = Len(navPast)
    <3>1. off \in ViewerType
      BY <1>1, RestTyped
    <3> QED BY <3>1 DEF Rest
  <2> DEFINE now == IF navEnabled THEN asked ELSE off
  <2> HIDE DEF asked, off
  <2>4. now \in ViewerType /\ now.nodes \in 1 .. Len(navPast) /\ now.gates \in 1 .. Len(navPast)
    BY <1>1, <2>2, <2>3
  <2>5. viewer' = [viewer EXCEPT ![r] = now]
    BY <2>1 DEF asked, off
  <2>6. UNCHANGED <<navPast, navEnabled, navCounter, navEntry, navDue, navFlushed, navOrphaned>>
    BY <1>5 DEF AskMenu
  <2> HIDE DEF now
  <2> QED BY <1>1, <1>3, <2>4, <2>5, <2>6, ViewerTyped
<1>6. CASE MenuHit(r)
  <2> DEFINE i == navEntry.nodes
             j == navEntry.gates
             now == Rest(e.floor, i, j, ShownTo(e.held, i, j))
  <2>1. i \in 1 .. Len(navPast) /\ j \in 1 .. Len(navPast)
    BY <1>1 DEF MenuEntryType
  <2>2. now \in ViewerType /\ now.nodes = i /\ now.gates = j
    <3> HIDE DEF i, j
    <3> QED BY <1>4, <2>1
  <2>3. viewer' = [viewer EXCEPT ![r] = now]
    BY <1>6 DEF MenuHit
  <2>4. UNCHANGED <<navPast, navEnabled, navCounter, navEntry, navDue, navFlushed, navOrphaned>>
    BY <1>6 DEF MenuHit
  <2> HIDE DEF now, i, j
  <2> QED BY <1>1, <1>3, <2>1, <2>2, <2>3, <2>4, ViewerTyped
<1>7. ASSUME NEW now \in ViewerType, viewer' = [viewer EXCEPT ![r] = now],
             now.nodes \in {e.nodes, Len(navPast)}, now.gates \in {e.gates, Len(navPast)},
             UNCHANGED <<navPast, navEnabled, navCounter, navEntry, navDue, navFlushed, navOrphaned>>
      PROVE  MenuTyped'
  <2>1. now.nodes \in 1 .. Len(navPast) /\ now.gates \in 1 .. Len(navPast)
    BY <1>1, <1>7 DEF ReadCommitted
  <2> QED BY <1>1, <1>3, <1>7, <2>1, ViewerTyped
<1>8. CASE MenuMiss(r)
  <2> DEFINE now == [viewer[r] EXCEPT !.pc = "nodes", !.version = navCounter.val]
  <2>1. now \in ViewerType /\ now.nodes = e.nodes /\ now.gates = e.gates
    <3>1. navCounter.val \in Nat
      BY <1>1 DEF MenuEntryType
    <3> QED BY <1>2, <3>1 DEF ViewerType
  <2>2. viewer' = [viewer EXCEPT ![r] = now]
    BY <1>1, <1>8 DEF MenuMiss
  <2> HIDE DEF now, e
  <2> QED BY <1>7, <1>8, <2>1, <2>2 DEF MenuMiss
<1>9. CASE MenuUncached(r)
  <2> DEFINE now == [viewer[r] EXCEPT !.pc = "nodes"]
  <2>1. now \in ViewerType /\ now.nodes = e.nodes /\ now.gates = e.gates
    BY <1>1, <1>2 DEF ViewerType
  <2>2. viewer' = [viewer EXCEPT ![r] = now]
    BY <1>1, <1>9 DEF MenuUncached
  <2> HIDE DEF now, e
  <2> QED BY <1>7, <1>9, <2>1, <2>2 DEF MenuUncached
<1>10. CASE ReadNodes(r)
  <2> DEFINE now == [viewer[r] EXCEPT !.pc = "gates", !.nodes = Len(navPast)]
  <2>1. now \in ViewerType /\ now.nodes = Len(navPast) /\ now.gates = e.gates
    BY <1>1, <1>2 DEF ViewerType
  <2>2. viewer' = [viewer EXCEPT ![r] = now]
    BY <1>1, <1>10 DEF ReadNodes
  <2> HIDE DEF now, e
  <2> QED BY <1>7, <1>10, <2>1, <2>2 DEF ReadNodes
<1>11. CASE ReadMappings(r)
  <2> DEFINE now == [viewer[r] EXCEPT !.pc = "writing", !.gates = Len(navPast)]
  <2>1. now \in ViewerType /\ now.nodes = e.nodes /\ now.gates = Len(navPast)
    BY <1>1, <1>2 DEF ViewerType
  <2>2. viewer' = [viewer EXCEPT ![r] = now]
    BY <1>1, <1>11 DEF ReadMappings
  <2> HIDE DEF now, e
  <2> QED BY <1>7, <1>11, <2>1, <2>2 DEF ReadMappings
<1>12. ASSUME viewer' = AnswerMenu(r)
       PROVE  \E now \in ViewerType : /\ viewer' = [viewer EXCEPT ![r] = now]
                                      /\ now.nodes = e.nodes /\ now.gates = e.gates
  <2> DEFINE i == e.nodes
             j == e.gates
             now == Rest(e.floor, i, j, ShownTo(e.held, i, j))
  <2>1. i \in 1 .. Len(navPast) /\ j \in 1 .. Len(navPast)
    BY <1>1 DEF ReadCommitted
  <2>2. now \in ViewerType /\ now.nodes = i /\ now.gates = j
    <3> HIDE DEF i, j
    <3> QED BY <1>4, <2>1
  <2>3. viewer' = [viewer EXCEPT ![r] = now]
    BY <1>1, <1>12 DEF AnswerMenu
  <2> HIDE DEF now
  <2> QED BY <2>2, <2>3
<1>13. CASE StoreMenu(r)
  <2>1. PICK now \in ViewerType : /\ viewer' = [viewer EXCEPT ![r] = now]
                                  /\ now.nodes = e.nodes /\ now.gates = e.gates
    BY <1>12, <1>13 DEF StoreMenu
  <2>2. now.nodes \in 1 .. Len(navPast) /\ now.gates \in 1 .. Len(navPast)
    BY <1>1, <2>1 DEF ReadCommitted
  <2>3. navEntry' \in [v : Int, nodes : 1 .. Len(navPast), gates : 1 .. Len(navPast), ttl : 0 .. NavTtl]
    BY <1>1, <1>2, <1>13, NavTtlAssumption DEF StoreMenu, ReadCommitted, ViewerType
  <2>4. navCounter' \in [val : Nat, ttl : 0 .. 2 * NavTtl]
    BY <1>1, <1>13, NavTtlAssumption DEF StoreMenu, KeptAlive, MenuEntryType
  <2>5. MenuEntryType'
    BY <1>1, <1>13, <2>3, <2>4 DEF StoreMenu, MenuEntryType
  <2>6. navEntry'.v \in Nat /\ navEntry'.ttl \in 1 .. NavTtl
    <3>1. e.version \in Nat
      BY <1>2, <1>13 DEF StoreMenu, ViewerType
    <3> QED BY <1>13, <3>1, NavTtlAssumption DEF StoreMenu
  <2>7. UNCHANGED <<navPast, navEnabled, navDue, navFlushed, navOrphaned>>
    BY <1>13 DEF StoreMenu
  <2> QED BY <2>1, <2>2, <2>5, <2>6, <2>7, ViewerTyped
<1>14. CASE LeaveMenu(r)
  <2>1. PICK now \in ViewerType : /\ viewer' = [viewer EXCEPT ![r] = now]
                                  /\ now.nodes = e.nodes /\ now.gates = e.gates
    BY <1>12, <1>14 DEF LeaveMenu
  <2> HIDE DEF e
  <2> QED BY <1>7, <1>14, <2>1 DEF LeaveMenu
<1> QED BY <1>5, <1>6, <1>8, <1>9, <1>10, <1>11, <1>13, <1>14 DEF ViewerStep

LEMMA MenuTypeStep == MenuTyped /\ [NavNext]_navVars => MenuTyped'
<1> SUFFICES ASSUME MenuTyped, [NavNext]_navVars PROVE MenuTyped'
  OBVIOUS
<1>1. /\ viewer \in [Viewer -> ViewerType]
      /\ navPast \in Seq(Catalogs) /\ Len(navPast) \in 1 .. MaxEdits + 1
      /\ navFlushed \in 1 .. Len(navPast) /\ navDue \in Nat /\ navEnabled \in BOOLEAN
      /\ MenuEntryType
      /\ navEntry # NoNavEntry => navEntry.v \in Nat /\ navEntry.ttl \in 1 .. NavTtl
      /\ \A r \in Viewer : ReadCommitted(r)
  BY DEF MenuTyped, NavTypeOK, ViewerType
<1>2. ASSUME UNCHANGED <<viewer, navPast>> PROVE \A r \in Viewer : ReadCommitted(r)'
  BY <1>1, <1>2 DEF ReadCommitted
<1>3. CASE \E r \in Viewer : ViewerStep(r)
  BY <1>3, ViewerStepTyped
<1>4. CASE CommitEdit
  <2>1. PICK c \in Catalogs : navPast' = Append(navPast, c)
    BY <1>4 DEF CommitEdit
  <2>2. /\ navPast' \in Seq(Catalogs) /\ Len(navPast') = Len(navPast) + 1
        /\ Len(navPast') \in 1 .. MaxEdits + 1
    BY <1>1, <1>4, <2>1, NavBoundsAssumption DEF CommitEdit
  <2>3. UNCHANGED <<navEnabled, navCounter, navEntry, viewer, navFlushed, navOrphaned>> /\ navDue' \in Nat
    BY <1>1, <1>4 DEF CommitEdit
  <2>4. \A i \in 1 .. Len(navPast) : i \in 1 .. Len(navPast')
    BY <1>1, <2>2
  <2>5. MenuEntryType'
    BY <1>1, <2>3, <2>4 DEF MenuEntryType
  <2>6. \A r \in Viewer : ReadCommitted(r)'
    BY <1>1, <2>3, <2>4 DEF ReadCommitted
  <2>7. NavTypeOK'
    BY <1>1, <2>2, <2>3, <2>4 DEF NavTypeOK, MenuEntryType, ViewerType
  <2> QED BY <2>5, <2>6, <2>7 DEF MenuTyped
<1>5. CASE BumpMenu
  <2>1. navCounter' \in [val : Nat, ttl : 0 .. 2 * NavTtl]
    BY <1>1, <1>5, NavTtlAssumption DEF BumpMenu, MenuEntryType
  <2>2. UNCHANGED <<navPast, navEnabled, navEntry, viewer, navOrphaned>>
        /\ navFlushed' = Len(navPast) /\ navDue' \in Nat
    BY <1>1, <1>5 DEF BumpMenu
  <2>3. MenuEntryType'
    BY <1>1, <2>1, <2>2 DEF MenuEntryType
  <2>4. NavTypeOK'
    BY <1>1, <2>1, <2>2 DEF NavTypeOK, ViewerType
  <2> QED BY <1>2, <2>2, <2>3, <2>4 DEF MenuTyped
<1>6. CASE LoseMenuBump
  <2>1. UNCHANGED <<navPast, navEnabled, navCounter, navEntry, viewer, navFlushed, navOrphaned>>
        /\ navDue' \in Nat
    BY <1>1, <1>6 DEF LoseMenuBump
  <2>2. MenuEntryType'
    BY <1>1, <2>1 DEF MenuEntryType
  <2>3. NavTypeOK'
    BY <1>1, <2>1 DEF NavTypeOK, ViewerType, MenuEntryType
  <2> QED BY <1>2, <2>1, <2>2, <2>3 DEF MenuTyped
<1>7. CASE ToggleMenu
  <2>1. UNCHANGED <<navPast, navCounter, navEntry, viewer, navDue, navFlushed, navOrphaned>>
    BY <1>7 DEF ToggleMenu
  <2>2. navEnabled' \in BOOLEAN
    BY <1>7, Zenon DEF ToggleMenu
  <2>3. MenuEntryType'
    BY <1>1, <2>1 DEF MenuEntryType
  <2>4. NavTypeOK'
    BY <1>1, <2>1, <2>2 DEF NavTypeOK, ViewerType, MenuEntryType
  <2> QED BY <1>2, <2>1, <2>3, <2>4 DEF MenuTyped
<1>8. CASE NavTick
  <2>1. /\ UNCHANGED <<navPast, navEnabled, navDue, navFlushed>>
        /\ \A r \in Viewer : Stamping(r) => viewer[r].age < MaxRead
        /\ viewer' = [r \in Viewer |-> IF Stamping(r) THEN [viewer[r] EXCEPT !.age = @ + 1] ELSE viewer[r]]
    BY <1>8 DEF NavTick
  <2>2. ASSUME NEW r \in Viewer
        PROVE  viewer'[r] \in ViewerType /\ viewer'[r].nodes = viewer[r].nodes /\ viewer'[r].gates = viewer[r].gates
    <3>1. viewer[r] \in ViewerType
      BY <1>1
    <3>2. CASE Stamping(r)
      <4>1. viewer'[r] = [viewer[r] EXCEPT !.age = viewer[r].age + 1]
        BY <2>1, <3>2
      <4>2. viewer[r].age + 1 \in 0 .. MaxRead + 1
        BY <2>1, <3>1, <3>2, NavBoundsAssumption DEF ViewerType
      <4> QED BY <3>1, <4>1, <4>2 DEF ViewerType
    <3>3. CASE ~Stamping(r)
      BY <2>1, <3>1, <3>3
    <3> QED BY <3>2, <3>3
  <2>3. viewer' \in [Viewer -> ViewerType]
    BY <2>1, <2>2
  <2>4. \A r \in Viewer : ReadCommitted(r)'
    BY <1>1, <2>1, <2>2 DEF ReadCommitted
  <2>5. /\ navEntry' \in [v : Int, nodes : 1 .. Len(navPast), gates : 1 .. Len(navPast), ttl : 0 .. NavTtl]
        /\ navEntry' # NoNavEntry => navEntry'.v \in Nat /\ navEntry'.ttl \in 1 .. NavTtl
    <3>1. CASE navEntry.ttl <= 1
      <4>1. navEntry' = NoNavEntry
        BY <1>8, <3>1 DEF NavTick
      <4> QED BY <1>1, <4>1, NavTtlAssumption DEF NoNavEntry
    <3>2. CASE ~(navEntry.ttl <= 1)
      <4>1. navEntry' = [navEntry EXCEPT !.ttl = navEntry.ttl - 1]
        BY <1>8, <3>2 DEF NavTick
      <4>2. navEntry # NoNavEntry
        BY <3>2 DEF NoNavEntry
      <4> QED BY <1>1, <3>2, <4>1, <4>2, NavTtlAssumption DEF MenuEntryType
    <3> QED BY <3>1, <3>2
  <2>6. navCounter' \in [val : Nat, ttl : 0 .. 2 * NavTtl]
    <3>1. navCounter \in [val : Nat, ttl : 0 .. 2 * NavTtl]
      BY <1>1 DEF MenuEntryType
    <3>2. \/ navCounter' = NoNavCounter
          \/ navCounter.ttl > 1 /\ navCounter' = [navCounter EXCEPT !.ttl = navCounter.ttl - 1]
          \/ navCounter' = navCounter
      BY <1>8 DEF NavTick
    <3> QED BY <3>1, <3>2, NavTtlAssumption DEF NoNavCounter
  <2>7. navOrphaned' \in BOOLEAN
    BY <1>8, Zenon DEF NavTick
  <2>8. MenuEntryType'
    BY <2>1, <2>5, <2>6, <2>7 DEF MenuEntryType
  <2>9. NavTypeOK'
    BY <1>1, <2>1, <2>3, <2>5, <2>6 DEF NavTypeOK, ViewerType
  <2> QED BY <2>4, <2>8, <2>9 DEF MenuTyped
<1>9. CASE UNCHANGED navVars
  <2>1. UNCHANGED <<navPast, navEnabled, navCounter, navEntry, viewer, navDue, navFlushed, navOrphaned>>
    BY <1>9 DEF navVars
  <2>2. MenuEntryType'
    BY <1>1, <2>1 DEF MenuEntryType
  <2>3. NavTypeOK'
    BY <1>1, <2>1 DEF NavTypeOK, ViewerType, MenuEntryType
  <2> QED BY <1>2, <2>1, <2>2, <2>3 DEF MenuTyped
<1> QED BY <1>3, <1>4, <1>5, <1>6, <1>7, <1>8, <1>9 DEF NavNext

-----------------------------------------------------------------------------
LEMMA AgreementInit == NavInit => MenuAgreement
<1> SUFFICES ASSUME NavInit PROVE MenuAgreement
  OBVIOUS
<1>1. MenuEntryInv
  BY DEF NavInit, MenuEntryInv
<1>2. \A r \in Viewer : viewer[r] = Rest(1, 1, 1, {})
  BY DEF NavInit
<1>3. StampInv(Rest(1, 1, 1, {}))
  BY DEF Rest, StampInv
<1>4. FloorInv(Rest(1, 1, 1, {}))
  BY DEF NavInit, Rest, FloorInv
<1> QED BY <1>1, <1>2, <1>3, <1>4 DEF MenuAgreement

(* A step of one request that leaves the counter at its value disturbs       *)
(* nothing but its own record and the entry.                                 *)
LEMMA ViewerAgrees ==
    ASSUME MenuTyped, MenuAgreement, NEW r \in Viewer, NEW now,
           StampInv(now), FloorInv(now),
           viewer' = [viewer EXCEPT ![r] = now],
           navFlushed' = navFlushed, navCounter'.val = navCounter.val,
           MenuEntryInv'
    PROVE  MenuAgreement'
<1>1. viewer \in [Viewer -> ViewerType]
  BY DEF MenuTyped, NavTypeOK, ViewerType
<1>2. ASSUME NEW q \in Viewer PROVE StampInv(viewer[q])' /\ FloorInv(viewer[q])'
  <2> DEFINE then == viewer'[q]
  <2>1. StampInv(then) /\ FloorInv(then)
    <3>1. CASE q = r
      BY <1>1, <3>1
    <3>2. CASE q # r
      <4>1. then = viewer[q]
        BY <1>1, <3>2
      <4>2. StampInv(viewer[q]) /\ FloorInv(viewer[q])
        BY DEF MenuAgreement
      <4> HIDE DEF then
      <4> QED BY <4>1, <4>2
    <3> QED BY <3>1, <3>2
  <2>2. StampInv(viewer[q])'
    BY <2>1 DEF StampInv
  <2>3. FloorInv(viewer[q])'
    BY <2>1 DEF FloorInv
  <2> QED BY <2>2, <2>3
<1> QED BY <1>2 DEF MenuAgreement

LEMMA ViewerStepAgrees ==
    ASSUME MenuTyped, MenuAgreement, NEW r \in Viewer, ViewerStep(r)
    PROVE  MenuAgreement'
<1>1. /\ viewer \in [Viewer -> ViewerType]
      /\ Len(navPast) \in Nat
      /\ navFlushed \in 1 .. Len(navPast)
      /\ navCounter.val \in Nat /\ navCounter.ttl \in 0 .. 2 * NavTtl
      /\ navEntry.nodes \in Nat /\ navEntry.gates \in Nat
  BY DEF MenuTyped, NavTypeOK, ViewerType, MenuEntryType
<1>2. viewer[r] \in ViewerType /\ StampInv(viewer[r]) /\ FloorInv(viewer[r]) /\ MenuEntryInv
  BY <1>1 DEF MenuAgreement
<1> DEFINE e == viewer[r]
<1>3. UNCHANGED <<navEntry, navCounter, navFlushed>> => MenuEntryInv'
  BY <1>2 DEF MenuEntryInv
<1>4. ASSUME NEW floor \in Nat, NEW i \in Nat, NEW j \in Nat, NEW shown,
             floor <= navFlushed, i >= floor, j >= floor
      PROVE  LET now == Rest(floor, i, j, shown) IN StampInv(now) /\ FloorInv(now)
  <2> DEFINE now == Rest(floor, i, j, shown)
  <2>1. now.pc = "idle" /\ now.version = Unstamped /\ now.floor = floor /\ now.nodes = i /\ now.gates = j
    BY DEF Rest
  <2> HIDE DEF now
  <2>2. StampInv(now)
    BY <2>1 DEF StampInv
  <2>3. FloorInv(now)
    BY <1>4, <2>1 DEF FloorInv
  <2> QED BY <2>2, <2>3 DEF now
<1>5. CASE AskMenu(r)
  <2>1. PICK held \in SUBSET Key :
           viewer' = [viewer EXCEPT ![r] =
               IF navEnabled THEN [Rest(navFlushed, 1, 1, {}) EXCEPT !.pc = "asking", !.held = held]
               ELSE Rest(navFlushed, Len(navPast), Len(navPast), {})]
    BY <1>5 DEF AskMenu
  <2> DEFINE asked == [Rest(navFlushed, 1, 1, {}) EXCEPT !.pc = "asking", !.held = held]
             off == Rest(navFlushed, Len(navPast), Len(navPast), {})
  <2>2. StampInv(asked) /\ FloorInv(asked)
    <3>1. asked.pc = "asking" /\ asked.version = Unstamped /\ asked.floor = navFlushed
      BY DEF Rest
    <3> HIDE DEF asked
    <3> QED BY <1>1, <3>1 DEF StampInv, FloorInv
  <2>3. StampInv(off) /\ FloorInv(off)
    BY <1>1, <1>4
  <2> DEFINE now == IF navEnabled THEN asked ELSE off
  <2> HIDE DEF asked, off
  <2>4. StampInv(now) /\ FloorInv(now)
    BY <2>2, <2>3
  <2>5. viewer' = [viewer EXCEPT ![r] = now]
    BY <2>1 DEF asked, off
  <2>6. UNCHANGED <<navCounter, navEntry, navFlushed>>
    BY <1>5 DEF AskMenu
  <2> HIDE DEF now
  <2> QED BY <1>3, <2>4, <2>5, <2>6, ViewerAgrees
<1>6. CASE MenuHit(r)
  <2> DEFINE now == Rest(e.floor, navEntry.nodes, navEntry.gates,
                         ShownTo(e.held, navEntry.nodes, navEntry.gates))
  <2>1. navEntry.nodes >= navFlushed /\ navEntry.gates >= navFlushed
    BY <1>2, <1>6 DEF MenuHit, CurrentMenu, MenuEntryInv
  <2>2. e.floor \in Nat /\ e.floor <= navFlushed
    BY <1>2 DEF ViewerType, FloorInv
  <2>3. navEntry.nodes >= e.floor /\ navEntry.gates >= e.floor
    BY <1>1, <2>1, <2>2
  <2> HIDE DEF e
  <2>4. StampInv(now) /\ FloorInv(now)
    BY <1>1, <1>4, <2>2, <2>3
  <2>5. viewer' = [viewer EXCEPT ![r] = now]
    BY <1>6 DEF MenuHit, e
  <2>6. UNCHANGED <<navCounter, navEntry, navFlushed>>
    BY <1>6 DEF MenuHit
  <2> HIDE DEF now
  <2> QED BY <1>3, <2>4, <2>5, <2>6, ViewerAgrees
<1>7. CASE MenuMiss(r)
  <2> DEFINE now == [viewer[r] EXCEPT !.pc = "nodes", !.version = navCounter.val]
  <2>1. now.pc = "nodes" /\ now.version = navCounter.val /\ now.floor = e.floor
    BY <1>2 DEF ViewerType
  <2>2. viewer' = [viewer EXCEPT ![r] = now]
    BY <1>1, <1>7 DEF MenuMiss
  <2>3. UNCHANGED <<navCounter, navEntry, navFlushed>>
    BY <1>7 DEF MenuMiss
  <2> HIDE DEF now
  <2>4. StampInv(now) /\ FloorInv(now)
    BY <1>1, <1>2, <2>1 DEF StampInv, FloorInv
  <2> QED BY <1>3, <2>2, <2>3, <2>4, ViewerAgrees
<1>8. CASE MenuUncached(r)
  <2> DEFINE now == [viewer[r] EXCEPT !.pc = "nodes"]
  <2>1. now.pc = "nodes" /\ now.version = Unstamped /\ now.floor = e.floor
    BY <1>2, <1>8 DEF ViewerType, MenuUncached, StampInv
  <2>2. viewer' = [viewer EXCEPT ![r] = now]
    BY <1>1, <1>8 DEF MenuUncached
  <2>3. UNCHANGED <<navCounter, navEntry, navFlushed>>
    BY <1>8 DEF MenuUncached
  <2> HIDE DEF now
  <2>4. StampInv(now) /\ FloorInv(now)
    BY <1>1, <1>2, <2>1 DEF StampInv, FloorInv
  <2> QED BY <1>3, <2>2, <2>3, <2>4, ViewerAgrees
<1>9. CASE ReadNodes(r)
  <2> DEFINE now == [viewer[r] EXCEPT !.pc = "gates", !.nodes = Len(navPast)]
  <2>1. /\ now.pc = "gates" /\ now.version = e.version /\ now.floor = e.floor
        /\ now.nodes = Len(navPast)
    BY <1>2 DEF ViewerType
  <2>2. viewer' = [viewer EXCEPT ![r] = now]
    BY <1>1, <1>9 DEF ReadNodes
  <2>3. UNCHANGED <<navCounter, navEntry, navFlushed>>
    BY <1>9 DEF ReadNodes
  <2> HIDE DEF now
  <2>4. StampInv(now)
    BY <1>1, <1>2, <2>1 DEF StampInv
  <2>5. FloorInv(now)
    BY <1>1, <1>2, <2>1 DEF FloorInv, ViewerType
  <2> QED BY <1>3, <2>2, <2>3, <2>4, <2>5, ViewerAgrees
<1>10. CASE ReadMappings(r)
  <2> DEFINE now == [viewer[r] EXCEPT !.pc = "writing", !.gates = Len(navPast)]
  <2>1. /\ now.pc = "writing" /\ now.version = e.version /\ now.floor = e.floor
        /\ now.nodes = e.nodes /\ now.gates = Len(navPast) /\ e.pc = "gates"
    BY <1>2, <1>10 DEF ViewerType, ReadMappings
  <2>2. viewer' = [viewer EXCEPT ![r] = now]
    BY <1>1, <1>10 DEF ReadMappings
  <2>3. UNCHANGED <<navCounter, navEntry, navFlushed>>
    BY <1>10 DEF ReadMappings
  <2> HIDE DEF now
  <2>4. StampInv(now)
    BY <1>1, <1>2, <2>1 DEF StampInv
  <2>5. FloorInv(now)
    BY <1>1, <1>2, <2>1 DEF FloorInv, ViewerType
  <2> QED BY <1>3, <2>2, <2>3, <2>4, <2>5, ViewerAgrees
<1>11. ASSUME e.pc = "writing", viewer' = AnswerMenu(r)
       PROVE  \E now : viewer' = [viewer EXCEPT ![r] = now] /\ StampInv(now) /\ FloorInv(now)
  <2> DEFINE now == Rest(e.floor, e.nodes, e.gates, ShownTo(e.held, e.nodes, e.gates))
  <2>1. /\ e.floor \in Nat /\ e.nodes \in Nat /\ e.gates \in Nat
        /\ e.floor <= navFlushed /\ e.nodes >= e.floor /\ e.gates >= e.floor
    BY <1>2, <1>11 DEF ViewerType, FloorInv
  <2> HIDE DEF e
  <2>2. StampInv(now) /\ FloorInv(now)
    BY <1>4, <2>1
  <2>3. viewer' = [viewer EXCEPT ![r] = now]
    BY <1>11 DEF AnswerMenu, e
  <2> HIDE DEF now
  <2> QED BY <2>2, <2>3
<1>12. CASE StoreMenu(r)
  <2>1. PICK now : viewer' = [viewer EXCEPT ![r] = now] /\ StampInv(now) /\ FloorInv(now)
    BY <1>11, <1>12 DEF StoreMenu
  <2>2. navFlushed' = navFlushed
    BY <1>12 DEF StoreMenu
  <2>3. navCounter' = KeptAlive(navCounter)
    BY <1>12 DEF StoreMenu
  <2>4. /\ navCounter'.val = navCounter.val
        /\ navCounter.val # 0 => navCounter'.ttl = 2 * NavTtl
    <3>1. navCounter \in [val : Nat, ttl : 0 .. 2 * NavTtl]
      BY DEF MenuTyped, MenuEntryType
    <3> QED BY <2>3, <3>1 DEF KeptAlive
  <2>5. /\ navEntry'.v = e.version /\ navEntry'.nodes = e.nodes /\ navEntry'.gates = e.gates
        /\ navEntry'.ttl = NavTtl /\ e.pc = "writing" /\ e.version # Unstamped
    BY <1>12 DEF StoreMenu
  <2>6. /\ e.version <= navCounter.val
        /\ e.version = navCounter.val => e.nodes >= navFlushed /\ e.gates >= navFlushed
    BY <1>2, <2>5 DEF StampInv
  <2>7. 2 * NavTtl >= NavTtl
    BY NavTtlAssumption
  <2>8. MenuEntryInv'
    BY <2>2, <2>4, <2>5, <2>6, <2>7 DEF MenuEntryInv
  <2> QED BY <2>1, <2>2, <2>4, <2>8, ViewerAgrees
<1>13. CASE LeaveMenu(r)
  <2>1. PICK now : viewer' = [viewer EXCEPT ![r] = now] /\ StampInv(now) /\ FloorInv(now)
    BY <1>11, <1>13 DEF LeaveMenu
  <2>2. UNCHANGED <<navCounter, navEntry, navFlushed>>
    BY <1>13 DEF LeaveMenu
  <2> QED BY <1>3, <2>1, <2>2, ViewerAgrees
<1> QED BY <1>5, <1>6, <1>7, <1>8, <1>9, <1>10, <1>12, <1>13 DEF ViewerStep

LEMMA AgreementStep ==
    ASSUME MenuTyped, MenuAgreement, [NavNext]_navVars, ~navOrphaned'
    PROVE  MenuAgreement'
<1>1. /\ viewer \in [Viewer -> ViewerType]
      /\ Len(navPast) \in Nat
      /\ navFlushed \in 1 .. Len(navPast)
      /\ navCounter \in [val : Nat, ttl : 0 .. 2 * NavTtl]
      /\ navEntry \in [v : Int, nodes : Nat, gates : Nat, ttl : 0 .. NavTtl]
      /\ navEntry # NoNavEntry => navEntry.v \in Nat /\ navEntry.ttl \in 1 .. NavTtl
  BY DEF MenuTyped, NavTypeOK, ViewerType, MenuEntryType
<1>2. MenuEntryInv /\ \A r \in Viewer : StampInv(viewer[r]) /\ FloorInv(viewer[r])
  BY DEF MenuAgreement
<1>3. ASSUME UNCHANGED <<viewer, navCounter, navEntry, navFlushed>> PROVE MenuAgreement'
  <2>1. MenuEntryInv'
    BY <1>2, <1>3 DEF MenuEntryInv
  <2>2. \A r \in Viewer : StampInv(viewer[r])'
    BY <1>2, <1>3 DEF StampInv
  <2>3. \A r \in Viewer : FloorInv(viewer[r])'
    BY <1>2, <1>3 DEF FloorInv
  <2> QED BY <2>1, <2>2, <2>3 DEF MenuAgreement
<1>4. CASE \E r \in Viewer : ViewerStep(r)
  BY <1>4, ViewerStepAgrees
<1>5. CASE CommitEdit
  BY <1>3, <1>5 DEF CommitEdit
<1>6. CASE BumpMenu
  <2>1. /\ UNCHANGED <<viewer, navEntry>>
        /\ navCounter'.val = navCounter.val + 1 /\ navCounter'.ttl = 2 * NavTtl
        /\ navFlushed' = Len(navPast)
    BY <1>6 DEF BumpMenu
  <2>2. \A v \in Int : v <= navCounter.val => v <= navCounter'.val /\ v # navCounter'.val
    BY <1>1, <2>1
  <2>3. MenuEntryInv'
    <3>1. navEntry # NoNavEntry => navEntry.v <= navCounter'.val /\ navEntry.v # navCounter'.val
      BY <1>1, <1>2, <2>2 DEF MenuEntryInv
    <3>2. navEntry # NoNavEntry => 2 * NavTtl >= navEntry.ttl
      BY <1>1, NavTtlAssumption
    <3> QED BY <2>1, <3>1, <3>2 DEF MenuEntryInv
  <2>4. ASSUME NEW r \in Viewer PROVE StampInv(viewer[r])'
    <3>1. viewer[r].version \in Int
      BY <1>1 DEF ViewerType, Unstamped
    <3> QED BY <1>2, <2>1, <2>2, <3>1 DEF StampInv
  <2>5. ASSUME NEW r \in Viewer PROVE FloorInv(viewer[r])'
    <3>1. viewer[r].floor \in Nat
      BY <1>1 DEF ViewerType
    <3> QED BY <1>1, <1>2, <2>1, <3>1 DEF FloorInv
  <2> QED BY <2>3, <2>4, <2>5 DEF MenuAgreement
<1>7. CASE LoseMenuBump
  BY <1>3, <1>7 DEF LoseMenuBump
<1>8. CASE ToggleMenu
  BY <1>3, <1>8 DEF ToggleMenu
<1>9. CASE NavTick
  <2>1. /\ navFlushed' = navFlushed
        /\ viewer' = [r \in Viewer |-> IF Stamping(r) THEN [viewer[r] EXCEPT !.age = @ + 1] ELSE viewer[r]]
        /\ navEntry' = IF navEntry.ttl <= 1 THEN NoNavEntry ELSE [navEntry EXCEPT !.ttl = navEntry.ttl - 1]
    BY <1>9 DEF NavTick
  <2>2. ~(MenuCounterExpires /\ \E r \in Viewer : Stamping(r))
    BY <1>9, Zenon DEF NavTick
  <2>3. ASSUME NEW r \in Viewer
        PROVE  /\ viewer'[r].pc = viewer[r].pc /\ viewer'[r].version = viewer[r].version
               /\ viewer'[r].floor = viewer[r].floor
               /\ viewer'[r].nodes = viewer[r].nodes /\ viewer'[r].gates = viewer[r].gates
    <3>1. viewer[r] \in ViewerType
      BY <1>1
    <3> QED BY <2>1, <3>1 DEF ViewerType
  <2>4. ASSUME NEW r \in Viewer PROVE FloorInv(viewer[r])'
    BY <1>2, <2>1, <2>3 DEF FloorInv
  <2>5. CASE MenuCounterExpires
    <3>1. navCounter.val # 0 /\ navCounter.ttl = 1 /\ navCounter' = NoNavCounter
      BY <1>9, <2>5 DEF NavTick, MenuCounterExpires
    <3>2. navEntry' = NoNavEntry
      <4>1. navEntry # NoNavEntry => 1 >= navEntry.ttl
        BY <1>2, <3>1 DEF MenuEntryInv
      <4>2. navEntry.ttl <= 1
        BY <1>1, <4>1 DEF NoNavEntry
      <4> QED BY <2>1, <4>2
    <3>3. MenuEntryInv'
      BY <3>2 DEF MenuEntryInv
    <3>4. ASSUME NEW r \in Viewer PROVE StampInv(viewer[r])'
      <4>1. ~Stamping(r)
        BY <2>2, <2>5
      <4>2. viewer[r].pc \in {"idle", "asking"} \/ viewer[r].version = Unstamped
        BY <1>1, <4>1 DEF Stamping, ViewerType
      <4>3. viewer[r].version = Unstamped
        BY <1>2, <4>2 DEF StampInv
      <4> QED BY <2>3, <4>3 DEF StampInv
    <3> QED BY <2>4, <3>3, <3>4 DEF MenuAgreement
  <2>6. CASE ~MenuCounterExpires
    <3>1. /\ navCounter'.val = navCounter.val
          /\ navCounter.val # 0 => navCounter.ttl <= navCounter'.ttl + 1 /\ navCounter.ttl # 1
      <4>1. \/ navCounter.ttl > 1 /\ navCounter' = [navCounter EXCEPT !.ttl = navCounter.ttl - 1]
            \/ navCounter' = navCounter
        BY <1>9, <2>6 DEF NavTick
      <4>2. navCounter.val # 0 => navCounter.ttl # 1
        BY <2>6 DEF MenuCounterExpires
      <4>3. CASE navCounter' = navCounter
        BY <1>1, <4>2, <4>3
      <4>4. CASE navCounter.ttl > 1 /\ navCounter' = [navCounter EXCEPT !.ttl = navCounter.ttl - 1]
        BY <1>1, <4>2, <4>4, NavTtlAssumption
      <4> QED BY <4>1, <4>3, <4>4
    <3>2. MenuEntryInv'
      <4>1. CASE navEntry.ttl <= 1
        BY <2>1, <4>1 DEF MenuEntryInv
      <4>2. CASE ~(navEntry.ttl <= 1)
        <5>1. navEntry' = [navEntry EXCEPT !.ttl = navEntry.ttl - 1]
          BY <2>1, <4>2
        <5>2. /\ navEntry'.v = navEntry.v /\ navEntry'.nodes = navEntry.nodes
              /\ navEntry'.gates = navEntry.gates /\ navEntry'.ttl = navEntry.ttl - 1
          BY <1>1, <5>1
        <5>3. navEntry # NoNavEntry
          BY <4>2 DEF NoNavEntry
        <5>4. navCounter.val # 0 => navCounter'.ttl >= navEntry'.ttl
          <6>1. navCounter.val # 0 => navCounter.ttl >= navEntry.ttl
            BY <1>2, <5>3 DEF MenuEntryInv
          <6>2. navCounter.ttl \in Int /\ navCounter'.ttl \in Int /\ navEntry.ttl \in Int
            BY <1>1, <1>9, NavTtlAssumption DEF NavTick, NoNavCounter
          <6> QED BY <3>1, <5>2, <6>1, <6>2
        <5> QED BY <1>2, <2>1, <3>1, <5>2, <5>3, <5>4 DEF MenuEntryInv
      <4> QED BY <4>1, <4>2
    <3>3. ASSUME NEW r \in Viewer PROVE StampInv(viewer[r])'
      BY <1>2, <2>1, <2>3, <3>1 DEF StampInv
    <3> QED BY <2>4, <3>2, <3>3 DEF MenuAgreement
  <2> QED BY <2>5, <2>6
<1>10. CASE UNCHANGED navVars
  BY <1>3, <1>10 DEF navVars
<1> QED BY <1>4, <1>5, <1>6, <1>7, <1>8, <1>9, <1>10 DEF NavNext

LEMMA NavInvHolds == NavSpec => []NavInv
<1>1. NavInit => NavInv
  BY MenuTypeInit, AgreementInit DEF NavInv
<1>2. NavInv /\ [NavNext]_navVars => NavInv'
  <2> SUFFICES ASSUME NavInv, [NavNext]_navVars PROVE NavInv'
    OBVIOUS
  <2>1. MenuTyped'
    BY MenuTypeStep DEF NavInv
  <2>2. ASSUME ~navOrphaned' PROVE MenuAgreement'
    <3>1. ~navOrphaned
      BY <2>2 DEF NavNext, ViewerStep, AskMenu, MenuHit, MenuMiss, MenuUncached, ReadNodes,
                  ReadMappings, StoreMenu, LeaveMenu, CommitEdit, BumpMenu, LoseMenuBump,
                  ToggleMenu, NavTick, navVars
    <3> QED BY <2>2, <3>1, AgreementStep DEF NavInv
  <2> QED BY <2>1, <2>2 DEF NavInv
<1> QED BY <1>1, <1>2, PTL DEF NavSpec

(* No counter expired under a request: a menu is as fresh as the bumps that  *)
(* had landed when it was asked for, both halves of it.                      *)
LEMMA FreshByInv == NavInv => MenuFresh
<1> SUFFICES ASSUME NavInv, ~navOrphaned, NEW r \in Viewer, viewer[r].pc = "idle"
             PROVE  viewer[r].nodes >= viewer[r].floor /\ viewer[r].gates >= viewer[r].floor
  BY DEF MenuFresh
<1> QED BY DEF NavInv, MenuAgreement, FloorInv

(* Whatever two states a catalog is read from, what it opens to everyone was *)
(* public in the first: a leaf hangs where that state put it, and only an    *)
(* edit that takes its gates could make it look ungated.                     *)
LEMMA OpensByInv == NavInv => MenuNeverOpens
<1> SUFFICES ASSUME NavInv, NEW r \in Viewer, viewer[r].pc = "writing",
                    \A k \in navPast[viewer[r].nodes].public : GatesOn(navPast[viewer[r].nodes], k) = {},
                    NEW m \in ShownTo({}, viewer[r].nodes, viewer[r].gates)
             PROVE  m \in Allowed(navPast[viewer[r].nodes], {})
  BY Zenon DEF MenuNeverOpens
<1> DEFINE i == viewer[r].nodes
           j == viewer[r].gates
           cat == CatalogRead(i, j)
           then == navPast[i]
<1>1. navPast \in Seq(Catalogs) /\ i \in 1 .. Len(navPast) /\ j \in 1 .. Len(navPast)
  BY DEF NavInv, MenuTyped, NavTypeOK, ReadCommitted
<1>2. IsCatalog(cat) /\ IsCatalog(then)
  <2> HIDE DEF i, j
  <2> QED BY <1>1, ReadIsCatalog
<1>3. cat.parent = then.parent /\ cat.public = then.public
  BY DEF CatalogRead
<1>4. \A k \in then.public : GatesOn(then, k) = {}
  OBVIOUS
<1>5. m \in Pruned(cat, {})
  BY DEF ShownTo
<1> HIDE DEF cat, then, i, j
<1>6. \A n : Over(cat, n) = Over(then, n)
  BY <1>3 DEF Over
<1>7. LeadsToLeaf(cat, {}, Top, m)
  <2>1. Cardinality(Item) \in 0 .. Cardinality(Item)
    BY ItemAssumption, FS_CardinalityType
  <2> QED BY <1>2, <1>5, <2>1, ShownLeads DEF Pruned, MenuPlaces
<1>8. PICK l \in Enterable(cat, {}) : Top \in Over(cat, l) /\ (m = l \/ m \in Over(cat, l))
  BY <1>7 DEF LeadsToLeaf
<1>9. l \in DOMAIN then.parent /\ Kids(then, l) = {} /\ l \in then.public
  BY <1>3 DEF Enterable, LeafShown, Kids
<1>10. GatesOn(then, l) = {}
  BY <1>4, <1>9
<1>11. l \in Enterable(then, {})
  BY <1>9, <1>10 DEF Enterable, LeafShown
<1>12. m \in DOMAIN then.parent
  BY <1>3, <1>7 DEF LeadsToLeaf
<1>13. /\ l \in DOMAIN then.parent
       /\ \A k \in DOMAIN then.parent : then.parent[k] # l
       /\ Top \in Over(then, l)
       /\ l \in then.public /\ \A p \in Key : <<l, p>> \notin then.gates
  BY <1>6, <1>8, <1>9, <1>10 DEF Kids, GatesOn
<1>14. m = l \/ m \in Over(then, l)
  BY <1>6, <1>8
<1>15. m \in Allowed(then, {})
  BY <1>12, <1>13, <1>14 DEF Allowed, AllowedLeaves
<1> QED BY <1>15 DEF then, i

(* Read in one piece, the gates are those of the nodes.                      *)
LEMMA ExactByInv == NavInv => MenuExact
<1> SUFFICES ASSUME NavInv, NEW r \in Viewer, viewer[r].nodes = viewer[r].gates
             PROVE  ShownTo(viewer[r].held, viewer[r].nodes, viewer[r].gates) =
                        Allowed(navPast[viewer[r].nodes], viewer[r].held)
  BY Zenon DEF MenuExact
<1> DEFINE i == viewer[r].nodes
           cat == CatalogRead(i, i)
           then == navPast[i]
           held == viewer[r].held
<1>1. navPast \in Seq(Catalogs) /\ i \in 1 .. Len(navPast) /\ held \in SUBSET Key
  BY DEF NavInv, MenuTyped, NavTypeOK, ReadCommitted
<1>2. IsCatalog(cat)
  <2> HIDE DEF i
  <2> QED BY <1>1, ReadIsCatalog
<1>3. cat.parent = then.parent /\ cat.public = then.public
  BY DEF CatalogRead
<1>4. \A p : \A n \in DOMAIN then.parent : <<n, p>> \in cat.gates <=> <<n, p>> \in then.gates
  BY DEF CatalogRead
<1>5. ShownTo(held, i, i) = Pruned(cat, held)
  BY DEF ShownTo
<1> HIDE DEF cat, then, i, held
<1>6. \A n : Over(cat, n) = Over(then, n)
  BY <1>3 DEF Over
<1>7. Allowed(cat, held) = Allowed(then, held)
  <2>1. \A n : n \in AllowedLeaves(cat, held) <=> n \in AllowedLeaves(then, held)
    BY <1>3, <1>4, <1>6 DEF AllowedLeaves
  <2>2. AllowedLeaves(cat, held) = AllowedLeaves(then, held)
    BY <2>1
  <2> QED BY <1>3, <1>6, <2>2 DEF Allowed
<1>8. ShownTo(held, i, i) = Allowed(then, held)
  BY <1>1, <1>2, <1>5, <1>7, PrunedIsAllowed
<1> QED BY <1>8 DEF then, i, held

(* For any catalogs, any number of requests, edits and bumps, landed or lost.*)
THEOREM MenusAreSound == NavSpec => []MenuSound
<1>1. NavInv => MenuSound
  BY FreshByInv, ExactByInv, OpensByInv DEF MenuSound
<1> QED BY <1>1, NavInvHolds, PTL

-----------------------------------------------------------------------------
(* The state of the three modules side by side has its type in every suite   *)
(* of them, whatever the numbers of requests, tokens and menu items.         *)
THEOREM CachesTyped == CachesSpec => []CachesTypeOK
<1> DEFINE Types == TypeOK /\ MenuTyped /\ SessTypeOK
<1>1. CachesInit => Types
  <2>1. SessInit => SessTypeOK
    BY Typed DEF SessInit, SessTypeOK, AccessType
  <2> QED BY <2>1, TypeInit, MenuTypeInit DEF CachesInit
<1>2. Types /\ [CachesNext]_<<focus, vars, navVars, sessVars>> => Types'
  <2> SUFFICES ASSUME Types, [CachesNext]_<<focus, vars, navVars, sessVars>> PROVE Types'
    OBVIOUS
  <2>1. [Next]_vars /\ [NavNext]_navVars /\ [SessNext]_sessVars
    BY DEF CachesNext
  <2> QED BY <2>1, TypeStep, MenuTypeStep, SessTypeStep
<1>3. Types => CachesTypeOK
  BY DEF MenuTyped, CachesTypeOK
<1> QED BY <1>1, <1>2, <1>3, PTL DEF CachesSpec
=============================================================================
