----------------------------- MODULE ExpirySweep -----------------------------
(***************************************************************************)
(* Bindings that lapse: the timer of every replica                         *)
(* (apps/iam-api/src/authz/expiry-sweep.job.ts) claims those nobody has    *)
(* claimed, audits them in the claiming statement                          *)
(* (libs/db/src/migrations/0016-binding-expiry-sweep.ts) and then bumps    *)
(* their subjects' cached grants one by one.                               *)
(*                                                                         *)
(* Every binding has a subject of its own, whose grants are that binding   *)
(* or nothing; the cached entry's own counter and its expiry are those of  *)
(* GrantsCache, reduced to what a bump and a TTL do to it.                 *)
(***************************************************************************)
EXTENDS Naturals, FiniteSets

CONSTANTS
    Binding,
    Replica,        \* API processes with the sweep enabled
    Reader,         \* requests that ask for a subject's grants
    Batch,          \* EXPIRY_SWEEP_BATCH_SIZE
    EntryTtl,       \* GRANTS_CACHE_TTL_SECONDS, in ticks
    MaxStay,        \* bound: ticks from a request's BEGIN to its answer
    MaxCrashes      \* bound: processes that die in mid-sweep

ASSUME SweepAssumption ==
    /\ Batch \in Nat \ {0} /\ EntryTtl \in Nat \ {0}
    /\ MaxStay \in Nat /\ MaxCrashes \in Nat

VARIABLES
    lapsed,     \* bindings whose expires_at has passed
    since,      \* ticks since then, up to Horizon
    swept,      \* bindings with expiry_swept_at set
    audits,     \* role_binding.expired rows of each binding
    sweeper,    \* each replica's pass
    cached,     \* each subject's cached grants
    asking,     \* the requests
    lost,       \* history: bindings whose bump never landed
    straddled,  \* history: bindings read under a BEGIN older than their lapse
                \* and a counter newer than their bump
    crashes     \* processes lost so far

sweepVars == <<lapsed, since, swept, audits, sweeper, cached, asking, lost, straddled, crashes>>
tableVars == <<lapsed, since, swept, audits>>

Horizon == EntryTtl + MaxStay + 1
Resting == [pc |-> "resting", rows |-> {}]
NotCached == [grants |-> FALSE, ttl |-> 0]
Absent == [pc |-> "absent"]

SweepTypeOK ==
    /\ lapsed \subseteq Binding /\ swept \subseteq lapsed
    /\ since \in [Binding -> 0 .. Horizon]
    /\ audits \in [Binding -> 0 .. 1]
    /\ sweeper \in [Replica -> [pc : {"resting", "claiming", "publishing"}, rows : SUBSET Binding]]
    /\ cached \in [Binding -> [grants : BOOLEAN, ttl : 0 .. EntryTtl]]
    /\ asking \in [Reader -> {Absent} \cup
                     [pc : {"begun", "missed"}, of : Binding, live : BOOLEAN,
                      bumped : BOOLEAN, stay : 0 .. MaxStay]]
    /\ lost \subseteq swept /\ straddled \subseteq swept
    /\ crashes \in 0 .. MaxCrashes

SweepInit ==
    /\ lapsed = {} /\ swept = {}
    /\ since = [b \in Binding |-> 0]
    /\ audits = [b \in Binding |-> 0]
    /\ sweeper = [s \in Replica |-> Resting]
    /\ cached = [b \in Binding |-> NotCached]
    /\ asking = [q \in Reader |-> Absent]
    /\ lost = {} /\ straddled = {}
    /\ crashes = 0

(* The counter of a subject has been raised by the sweep of its binding.     *)
Bumped == {b \in swept : b \notin lost /\ \A s \in Replica : b \notin sweeper[s].rows}

-----------------------------------------------------------------------------
(* The instant expires_at passes. *)
Lapse(b) ==
    /\ b \notin lapsed
    /\ lapsed' = lapsed \cup {b}
    /\ UNCHANGED <<since, swept, audits, sweeper, cached, asking, lost, straddled, crashes>>

(* Rows another statement holds are skipped, not waited for. *)
Locked == UNION {sweeper[s].rows : s \in {t \in Replica : sweeper[t].pc = "claiming"}}

(* Mutant: without SKIP LOCKED and its recheck, a row is claimed as it was.  *)
MutClaimLockedToo(s) ==
    /\ sweeper[s].pc = "resting"
    /\ \E rows \in SUBSET (lapsed \ swept) :
          /\ rows # {} /\ Cardinality(rows) <= Batch
          /\ sweeper' = [sweeper EXCEPT ![s] = [pc |-> "claiming", rows |-> rows]]
    /\ UNCHANGED <<tableVars, cached, asking, lost, straddled, crashes>>

(* tick() of a replica with no pass running: the claiming statement locks a  *)
(* batch of the rows that are due.  A pass that finds nothing ends there.    *)
Claim(s) ==
    /\ sweeper[s].pc = "resting"
    /\ \E rows \in SUBSET (lapsed \ (swept \cup Locked)) :
          /\ rows # {} /\ Cardinality(rows) <= Batch
          /\ sweeper' = [sweeper EXCEPT ![s] = [pc |-> "claiming", rows |-> rows]]
    /\ UNCHANGED <<tableVars, cached, asking, lost, straddled, crashes>>

(* Its autocommit: the marks and the audit rows, together. *)
CommitClaim(s) ==
    /\ sweeper[s].pc = "claiming"
    /\ swept' = swept \cup sweeper[s].rows
    /\ audits' = [b \in Binding |-> IF b \in sweeper[s].rows THEN audits[b] + 1 ELSE audits[b]]
    /\ sweeper' = [sweeper EXCEPT ![s].pc = "publishing"]
    /\ UNCHANGED <<lapsed, since, cached, asking, lost, straddled, crashes>>

(* The statement fails: the rows stay unclaimed, for the next interval. *)
ClaimFails(s) ==
    /\ sweeper[s].pc = "claiming"
    /\ sweeper' = [sweeper EXCEPT ![s] = Resting]
    /\ UNCHANGED <<tableVars, cached, asking, lost, straddled, crashes>>

(* One row less to publish; after the last the pass is over. *)
Published(s, b) ==
    LET rest == sweeper[s].rows \ {b} IN
    sweeper' = [sweeper EXCEPT ![s] = IF rest = {} THEN Resting ELSE [@ EXCEPT !.rows = rest]]

(* publishAcrossTenants for one row: INCR, after which no entry made under   *)
(* the old count is served ...                                               *)
BumpSwept(s, b) ==
    /\ sweeper[s].pc = "publishing" /\ b \in sweeper[s].rows
    /\ cached' = [cached EXCEPT ![b] = NotCached]
    /\ Published(s, b)
    /\ UNCHANGED <<tableVars, asking, lost, straddled, crashes>>

(* ... or Redis refuses, which is logged and ends there. *)
BumpSweptFails(s, b) ==
    /\ sweeper[s].pc = "publishing" /\ b \in sweeper[s].rows
    /\ lost' = lost \cup {b}
    /\ Published(s, b)
    /\ UNCHANGED <<tableVars, cached, asking, straddled, crashes>>

(* The process dies.  Before the commit the claim is rolled back; after it   *)
(* nothing remembers the rows that were still to be published.               *)
SweeperDies(s) ==
    /\ crashes < MaxCrashes
    /\ sweeper[s].pc # "resting"
    /\ lost' = IF sweeper[s].pc = "publishing" THEN lost \cup sweeper[s].rows ELSE lost
    /\ sweeper' = [sweeper EXCEPT ![s] = Resting]
    /\ crashes' = crashes + 1
    /\ UNCHANGED <<tableVars, cached, asking, straddled>>

-----------------------------------------------------------------------------
(* BEGIN: the now() every statement of the request will compare expires_at   *)
(* with.                                                                     *)
BeginRead(q, b) ==
    /\ asking[q] = Absent
    /\ asking' = [asking EXCEPT ![q] = [pc |-> "begun", of |-> b, live |-> b \notin lapsed,
                                        bumped |-> FALSE, stay |-> 0]]
    /\ UNCHANGED <<tableVars, sweeper, cached, lost, straddled, crashes>>

(* A hit is answered as it is. *)
ServeCached(q) ==
    /\ asking[q] # Absent /\ asking[q].pc = "begun"
    /\ cached[asking[q].of].ttl > 0
    /\ asking' = [asking EXCEPT ![q] = Absent]
    /\ UNCHANGED <<tableVars, sweeper, cached, lost, straddled, crashes>>

(* A miss remembers the counter ... *)
MissCached(q) ==
    LET b == asking[q].of IN
    /\ asking[q] # Absent /\ asking[q].pc = "begun"
    /\ cached[b].ttl = 0
    /\ asking' = [asking EXCEPT ![q] = [@ EXCEPT !.pc = "missed", !.bumped = b \in Bumped]]
    /\ straddled' = IF asking[q].live /\ b \in Bumped THEN straddled \cup {b} ELSE straddled
    /\ UNCHANGED <<tableVars, sweeper, cached, lost, crashes>>

(* ... resolves as of its BEGIN and stores the answer under that counter: no *)
(* entry at all, as far as readers go, when the counter has moved meanwhile. *)
Fill(q) ==
    LET b == asking[q].of IN
    /\ asking[q] # Absent /\ asking[q].pc = "missed"
    /\ cached' = [cached EXCEPT ![b] =
                     IF asking[q].bumped = (b \in Bumped)
                     THEN [grants |-> asking[q].live, ttl |-> EntryTtl]
                     ELSE NotCached]
    /\ asking' = [asking EXCEPT ![q] = Absent]
    /\ UNCHANGED <<tableVars, sweeper, lost, straddled, crashes>>

SweepTick ==
    /\ \A q \in Reader : asking[q] # Absent => asking[q].stay < MaxStay
    /\ since' = [b \in Binding |-> IF b \in lapsed /\ since[b] < Horizon THEN since[b] + 1 ELSE since[b]]
    /\ cached' = [b \in Binding |-> IF cached[b].ttl <= 1 THEN NotCached
                                    ELSE [cached[b] EXCEPT !.ttl = @ - 1]]
    /\ asking' = [q \in Reader |-> IF asking[q] = Absent THEN Absent
                                   ELSE [asking[q] EXCEPT !.stay = @ + 1]]
    /\ UNCHANGED <<lapsed, swept, audits, sweeper, lost, straddled, crashes>>

-----------------------------------------------------------------------------
Pass(s) == Claim(s) \/ CommitClaim(s) \/ \E b \in Binding : BumpSwept(s, b) \/ BumpSweptFails(s, b)

SweepNext ==
    \/ \E s \in Replica : Pass(s) \/ ClaimFails(s) \/ SweeperDies(s)
    \/ \E b \in Binding : Lapse(b) \/ \E q \in Reader : BeginRead(q, b)
    \/ \E q \in Reader : ServeCached(q) \/ MissCached(q) \/ Fill(q)
    \/ SweepTick

(* The interval keeps firing in every live replica, and a claim that can     *)
(* commit again and again does: a database that refuses every one for ever   *)
(* is not assumed away by weak fairness of a single step.                    *)
SweepFairness ==
    \A s \in Replica :
        /\ WF_sweepVars(Claim(s)) /\ SF_sweepVars(CommitClaim(s))
        /\ WF_sweepVars(\E b \in Binding : BumpSwept(s, b) \/ BumpSweptFails(s, b))

SweepSpec == SweepInit /\ [][SweepNext]_sweepVars /\ SweepFairness

-----------------------------------------------------------------------------
(* "A binding is audited and invalidated exactly once no matter how many     *)
(* sweepers run or how often they restart" -- the audit half of it: one      *)
(* record for each swept binding, and none for the others.                   *)
AuditedOnce == \A b \in Binding : audits[b] = IF b \in swept THEN 1 ELSE 0

(* ... and the other half, as far as it goes: once a sweep has bumped a      *)
(* binding's subject the lapsed grant is not served from the cache again,    *)
(* unless the bump was lost or a request older than the lapse straddled it.  *)
SweptIsGone ==
    \A b \in Bumped \ straddled : cached[b].ttl > 0 => ~cached[b].grants

(* Whatever is lost, a lapsed grant leaves the cache within one TTL of the   *)
(* slowest request that began before the lapse.                              *)
LapsedAgesOut ==
    \A b \in Binding : since[b] > EntryTtl + MaxStay /\ cached[b].ttl > 0 => ~cached[b].grants

(* However often a pass dies or fails, the sweep catches up: time and again  *)
(* every binding that has lapsed is swept.                                   *)
EveryLapseSwept == []<>(lapsed \subseteq swept)

(* Each lapsed binding is audited once, and its grant leaves the cache by    *)
(* the bump or by its lifetime.                                              *)
SweepSound == AuditedOnce /\ SweptIsGone /\ LapsedAgesOut
=============================================================================
