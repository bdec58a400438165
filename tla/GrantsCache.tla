----------------------------- MODULE GrantsCache -----------------------------
(***************************************************************************)
(* One subject's entry in the grants cache (Redis) and the version counter *)
(* beside it: apps/iam-api/src/authz/grants-cache.service.ts, read through *)
(* by ResolverService.grantsFor (authz/resolver.service.ts) and            *)
(* invalidated by GrantInvalidationService.publish after a commit.         *)
(*                                                                         *)
(* Keys of different subjects never meet in one command that reads two of  *)
(* them, so one subject is enough.  A grant set is abstracted to the       *)
(* number of committed changes it reflects: `db' is the number of changes  *)
(* committed so far, and a resolve answers with `db'.                      *)
(*                                                                         *)
(* Each Redis command and each database statement is a step of its own, so *)
(* fills, commits, bumps and expiries interleave freely.  A timed-out      *)
(* command is not cancelled (common/with-timeout.ts), which is covered by  *)
(* the command taking its step arbitrarily late.                           *)
(***************************************************************************)
EXTENDS Integers

CONSTANTS
    Readers,        \* requests that may read the subject's grants at once
    Writers,        \* transactions that may change them at once
    TTL,            \* GRANTS_CACHE_TTL_SECONDS, in ticks of the clock
    MaxChanges,     \* bound: changes committed in one behaviour
    MaxFillTicks    \* bound: ticks between a fill's MGET and its SET

ASSUME TTLAssumption == TTL \in Nat \ {0}
ASSUME MaxChangesAssumption == MaxChanges \in Nat
ASSUME MaxFillTicksAssumption == MaxFillTicks \in Nat

VARIABLES
    db,         \* changes to the subject's grants committed in Postgres
    counter,    \* the `:v' key; val = 0 stands for a missing key
    entry,      \* the cached entry
    reader,     \* each request's progress through grantsFor
    writer,     \* each mutating request's progress through afterCommit
    flushed,    \* history: the changes committed before the last landed bump
    orphaned    \* history: a counter has expired while a fill held its value

vars == <<db, counter, entry, reader, writer, flushed, orphaned>>

NoEntry == [v |-> -1, grants |-> 0, ttl |-> 0]
NoVersion == -1
NoCounter == [val |-> 0, ttl |-> 0]

(* ttl = 0 on a present counter: the key exists and carries no expiry. *)
CounterType == [val : Nat, ttl : 0 .. 2 * TTL]
EntryType == [v : Nat, grants : Nat, ttl : 1 .. TTL]
ReaderType == [pc : {"idle", "resolving", "writing"}, version : Nat \cup {NoVersion},
               age : Nat, grants : Nat, floor : Nat, served : Nat]

TypeOK ==
    /\ db \in Nat
    /\ flushed \in Nat
    /\ counter \in CounterType
    /\ entry \in EntryType \cup {NoEntry}
    /\ reader \in [Readers -> ReaderType]
    /\ writer \in [Writers -> {"idle", "bumping", "expiring"}]
    /\ orphaned \in BOOLEAN

(* A request that has begun, and one that has been answered. *)
Begun(version) == [pc |-> "resolving", version |-> version, age |-> 0, grants |-> 0,
                   floor |-> flushed, served |-> 0]
Answered(floor, served) == [pc |-> "idle", version |-> NoVersion, age |-> 0, grants |-> 0,
                            floor |-> floor, served |-> served]

Init ==
    /\ db = 0
    /\ flushed = 0
    /\ counter = NoCounter
    /\ entry = NoEntry
    /\ reader = [r \in Readers |-> Answered(0, 0)]
    /\ writer = [w \in Writers |-> "idle"]
    /\ orphaned = FALSE

(* read(): the entry counts only when its `v' equals the counter. *)
Current == entry # NoEntry /\ entry.v = counter.val

-----------------------------------------------------------------------------
(* Mutant: every hit pushes the entry's expiry back. *)
MutHitSlides(r) ==
    /\ reader[r].pc = "idle"
    /\ Current
    /\ reader' = [reader EXCEPT ![r] = Answered(flushed, entry.grants)]
    /\ entry' = [entry EXCEPT !.ttl = TTL]
    /\ UNCHANGED <<db, counter, writer, flushed, orphaned>>

(* grantsFor: the cached entry is current and is the answer. *)
Hit(r) ==
    /\ reader[r].pc = "idle"
    /\ Current
    /\ reader' = [reader EXCEPT ![r] = Answered(flushed, entry.grants)]
    /\ UNCHANGED <<db, counter, entry, writer, flushed, orphaned>>

(* grantsFor: no current entry; the MGET still yields the version to stamp. *)
Miss(r) ==
    /\ reader[r].pc = "idle"
    /\ ~Current
    /\ reader' = [reader EXCEPT ![r] = Begun(counter.val)]
    /\ UNCHANGED <<db, counter, entry, writer, flushed, orphaned>>

(* The MGET failed or timed out (MISS), or the call asks for one           *)
(* application's slice: nothing may be written afterwards.                 *)
ReadUncached(r) ==
    /\ reader[r].pc = "idle"
    /\ reader' = [reader EXCEPT ![r] = Begun(NoVersion)]
    /\ UNCHANGED <<db, counter, entry, writer, flushed, orphaned>>

(* resolve(): one SELECT, which sees every change committed by now. *)
Resolve(r) ==
    /\ reader[r].pc = "resolving"
    /\ reader' = [reader EXCEPT ![r] = [@ EXCEPT !.pc = "writing", !.grants = db]]
    /\ UNCHANGED <<db, counter, entry, writer, flushed, orphaned>>

(* EXPIRE counter 2*ttl, a no-op on a missing key. *)
Touched(c) == IF c.val = 0 THEN c ELSE [c EXCEPT !.ttl = 2 * TTL]

(* Mutant: the entry is stamped with the counter as it is after the resolve. *)
MutFilledLate(r) == [v |-> counter.val, grants |-> reader[r].grants, ttl |-> TTL]

(* Mutant: the entry is given the counter's expiry. *)
MutFilledLong(r) == [v |-> reader[r].version, grants |-> reader[r].grants, ttl |-> 2 * TTL]

(* The entry write() stores: the version observed before the resolve. *)
Filled(r) == [v |-> reader[r].version, grants |-> reader[r].grants, ttl |-> TTL]

(* The reader returns what it resolved. *)
Answer(r) == [reader EXCEPT ![r] = Answered(reader[r].floor, reader[r].grants)]

(* write(): MULTI { SET entry EX ttl; EXPIRE counter 2*ttl }. *)
Write(r) ==
    /\ reader[r].pc = "writing"
    /\ reader[r].version # NoVersion
    /\ entry' = Filled(r)
    /\ counter' = Touched(counter)
    /\ reader' = Answer(r)
    /\ UNCHANGED <<db, writer, flushed, orphaned>>

(* write() with a null version, or a write that failed or never arrived. *)
SkipWrite(r) ==
    /\ reader[r].pc = "writing"
    /\ reader' = Answer(r)
    /\ UNCHANGED <<db, counter, entry, writer, flushed, orphaned>>

-----------------------------------------------------------------------------
(* A transaction that changes the subject's grants commits; its afterCommit *)
(* callback is now due.                                                     *)
Commit(w) ==
    /\ writer[w] = "idle"
    /\ db < MaxChanges
    /\ db' = db + 1
    /\ writer' = [writer EXCEPT ![w] = "bumping"]
    /\ UNCHANGED <<counter, entry, reader, flushed, orphaned>>

(* bumpMany, first command: INCR, which keeps the key's TTL and creates a   *)
(* missing key at 1 without one.                                            *)
Incr(w) ==
    /\ writer[w] = "bumping"
    /\ counter' = [counter EXCEPT !.val = @ + 1]
    /\ flushed' = db
    /\ writer' = [writer EXCEPT ![w] = "expiring"]
    /\ UNCHANGED <<db, entry, reader, orphaned>>

(* bumpMany, second command of the pipeline: EXPIRE counter 2*ttl. *)
ExpireCounter(w) ==
    /\ writer[w] = "expiring"
    /\ counter' = Touched(counter)
    /\ writer' = [writer EXCEPT ![w] = "idle"]
    /\ UNCHANGED <<db, entry, reader, flushed, orphaned>>

(* The pipeline failed before, or between, its commands, or the process    *)
(* died after COMMIT; bumpMany never throws and nothing retries it.        *)
LoseBump(w) ==
    /\ writer[w] \in {"bumping", "expiring"}
    /\ writer' = [writer EXCEPT ![w] = "idle"]
    /\ UNCHANGED <<db, counter, entry, reader, flushed, orphaned>>

-----------------------------------------------------------------------------
CounterExpires == counter.val # 0 /\ counter.ttl = 1
Filling(r) == reader[r].pc # "idle" /\ reader[r].version # NoVersion

(* Redis drops a key when its time to live is up. *)
AgedEntry == IF entry.ttl <= 1 THEN NoEntry ELSE [entry EXCEPT !.ttl = @ - 1]
AgedCounter == CASE CounterExpires -> NoCounter
                 [] counter.ttl > 1 -> [counter EXCEPT !.ttl = @ - 1]
                 [] OTHER -> counter

(* A tick of Redis's clock.  A fill spans at most MaxFillTicks of them.     *)
Tick ==
    /\ \A r \in Readers : Filling(r) => reader[r].age < MaxFillTicks
    /\ reader' = [r \in Readers |-> IF Filling(r) THEN [reader[r] EXCEPT !.age = @ + 1]
                                    ELSE reader[r]]
    /\ entry' = AgedEntry
    /\ counter' = AgedCounter
    /\ orphaned' = (orphaned \/ (CounterExpires /\ \E r \in Readers : Filling(r)))
    /\ UNCHANGED <<db, writer, flushed>>

ReaderStep(r) == \/ Hit(r) \/ Miss(r) \/ ReadUncached(r)
                 \/ Resolve(r) \/ Write(r) \/ SkipWrite(r)
WriterStep(w) == Commit(w) \/ Incr(w) \/ ExpireCounter(w) \/ LoseBump(w)

Next == \/ \E r \in Readers : ReaderStep(r)
        \/ \E w \in Writers : WriterStep(w)
        \/ Tick

(* Time passes, and a request that began is answered.  Nothing obliges a    *)
(* bump to land: LoseBump is always possible instead.                       *)
Fairness == /\ WF_vars(Tick)
            /\ \A r \in Readers : WF_vars(Resolve(r)) /\ WF_vars(SkipWrite(r))

Spec == Init /\ [][Next]_vars
FairSpec == Spec /\ Fairness

-----------------------------------------------------------------------------
(* Every answer grantsFor gives reflects every change whose invalidation    *)
(* had landed when the request began: the counter makes an older entry a    *)
(* miss, whatever fills were in flight around the commit and the INCR, as   *)
(* long as no counter has expired under a fill.                             *)
ServedFresh ==
    ~orphaned => \A r \in Readers : reader[r].pc = "idle" => reader[r].served >= reader[r].floor

(* The counter "outlives the entry it validates": bumps, fills and expiries *)
(* in any order never leave a live entry ahead of the counter it is         *)
(* compared with, with the same exception.                                  *)
CounterOutlivesEntry ==
    ~orphaned /\ entry # NoEntry => entry.v <= counter.val

(* The TTL is the backstop for a lost bump: whatever becomes of the         *)
(* invalidation, a change is eventually reflected by every entry for good.  *)
TtlBackstop ==
    \A n \in 1 .. MaxChanges :
        (db >= n) ~> [](entry # NoEntry => entry.grants >= n)

(* The cache is sound: what it serves is fresh, and what makes it so, a      *)
(* counter never behind a live entry, holds throughout.                      *)
CacheSound == ServedFresh /\ CounterOutlivesEntry
=============================================================================
