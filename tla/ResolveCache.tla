---------------------------- MODULE ResolveCache ----------------------------
(***************************************************************************)
(* The client-side cache of resolved grants                                *)
(* (libs/iam-client/src/resolve-cache.ts) inside the IamClients of one     *)
(* browser (client.ts, endpoints/auth.ts), whose tabs share one token      *)
(* store: GET /iam/permissions/resolve is shared while in flight, kept for *)
(* a TTL, and dropped when the identity behind the tokens changes.         *)
(*                                                                         *)
(* Grants are abstracted to whose they are and how many changes committed  *)
(* at the server they reflect.  JavaScript runs one callback at a time, so *)
(* every synchronous stretch of the code is one step; a login's adopt()    *)
(* and the clear() after it are taken as one such stretch.                 *)
(***************************************************************************)
EXTENDS Integers

CONSTANTS
    ResolveTabs, Person, Keys, Callers,
    ResolveTtl,         \* ttlSeconds, in ticks
    MaxGrantChanges,    \* bound: changes to grants at the server
    MaxFlight           \* bound: ticks a load may take

ASSUME ResolveAssumption == ResolveTtl \in Nat \ {0} /\ MaxGrantChanges \in Nat /\ MaxFlight \in Nat

VARIABLES
    who,        \* whose tokens the shared store holds
    serverDb,   \* changes committed at the server
    since,      \* history: ticks since each change, up to Window + 1
    entries,    \* ResolveCache.entries of each tab
    inFlight,   \* ResolveCache.inFlight of each tab
    caller,     \* the callers of get() and reload(), and their last answers
    keyTold     \* history: serverDb when the key was last invalidated in the tab

resolveVars == <<who, serverDb, since, entries, inFlight, caller, keyTold>>

Window == ResolveTtl + MaxFlight
Version == 0 .. MaxGrantChanges
NotKept == [ver |-> -1]
NoLoad == [pc |-> "none"]

(* `crossed' is history: the identity has changed, or the key been             *)
(* invalidated, while the load was in flight, or the identity has changed in *)
(* another tab since.                                                        *)
LoadAnswer == [of : Person, ver : Version, crossed : BOOLEAN]
ResolveTypeOK ==
    /\ who \in Person
    /\ serverDb \in Version
    /\ since \in [1 .. MaxGrantChanges -> 0 .. Window + 1]
    /\ entries \in [ResolveTabs \X Keys -> {NotKept} \cup [of : Person, ver : Version, crossed : BOOLEAN,
                                                        age : 0 .. ResolveTtl]]
    /\ inFlight \in [ResolveTabs \X Keys -> {NoLoad} \cup
            [pc : {"unsent", "sent", "answered"}, of : Person, ver : Version,
             crossed : BOOLEAN, age : 0 .. MaxFlight]]
    /\ caller \in [Callers ->
            [pc : {"waiting", "served"}, at : ResolveTabs \X Keys, asked : Person,
             given : Person, floor : Version, got : LoadAnswer \cup {NotKept}] \cup {[pc |-> "idle"]}]
    /\ keyTold \in [ResolveTabs \X Keys -> Version]

ResolveInit ==
    /\ who \in Person
    /\ serverDb = 0
    /\ since = [v \in 1 .. MaxGrantChanges |-> 0]
    /\ entries = [at \in ResolveTabs \X Keys |-> NotKept]
    /\ inFlight = [at \in ResolveTabs \X Keys |-> NoLoad]
    /\ caller = [c \in Callers |-> [pc |-> "idle"]]
    /\ keyTold = [at \in ResolveTabs \X Keys |-> 0]

-----------------------------------------------------------------------------
FreshEntry(at) == entries[at] # NotKept /\ entries[at].age < ResolveTtl

Asking(at, pc, got) == [pc |-> pc, at |-> at, asked |-> who, given |-> who,
                        floor |-> keyTold[at], got |-> got]
Held(at) == [of |-> entries[at].of, ver |-> entries[at].ver, crossed |-> entries[at].crossed]

(* get(): a fresh entry is the answer. *)
ResolveHit(c, at) ==
    /\ caller[c].pc # "waiting"
    /\ FreshEntry(at)
    /\ caller' = [caller EXCEPT ![c] = Asking(at, "served", Held(at))]
    /\ UNCHANGED <<who, serverDb, since, entries, inFlight, keyTold>>

(* The load to share, begun if there is none. *)
Join(c, at) ==
    /\ caller[c].pc # "waiting"
    /\ caller' = [caller EXCEPT ![c] = Asking(at, "waiting", NotKept)]
    /\ inFlight' = IF inFlight[at] # NoLoad THEN inFlight
                   ELSE [inFlight EXCEPT ![at] = [pc |-> "unsent", of |-> who, ver |-> 0,
                                                  crossed |-> FALSE, age |-> 0]]
    /\ UNCHANGED <<who, serverDb, since, keyTold>>

(* get() otherwise: the stale entry goes. *)
ResolveMiss(c, at) ==
    /\ ~FreshEntry(at)
    /\ Join(c, at)
    /\ entries' = [entries EXCEPT ![at] = NotKept]

(* reload(): whatever the entry says. *)
Reload(c, at) == Join(c, at) /\ UNCHANGED entries

(* The transport takes the token of whoever is signed in by now, and the     *)
(* server answers with that subject's grants as they are then.               *)
Send(at) ==
    /\ inFlight[at] # NoLoad /\ inFlight[at].pc = "unsent"
    /\ inFlight' = [inFlight EXCEPT ![at] = [@ EXCEPT !.pc = "sent", !.of = who]]
    /\ UNCHANGED <<who, serverDb, since, entries, caller, keyTold>>

Respond(at) ==
    /\ inFlight[at] # NoLoad /\ inFlight[at].pc = "sent"
    /\ inFlight' = [inFlight EXCEPT ![at] = [@ EXCEPT !.pc = "answered", !.ver = serverDb]]
    /\ UNCHANGED <<who, serverDb, since, entries, caller, keyTold>>

Settled(at, pc, got) ==
    [c \in Callers |-> IF caller[c].pc = "waiting" /\ caller[c].at = at
                       THEN IF pc = "served" THEN [caller[c] EXCEPT !.pc = pc, !.given = who,
                                                                    !.got = got]
                                             ELSE [pc |-> "idle"]
                       ELSE caller[c]]

(* The result is kept and every caller sharing the load gets it. *)
Land(at) ==
    LET got == [of |-> inFlight[at].of, ver |-> inFlight[at].ver,
                crossed |-> inFlight[at].crossed] IN
    /\ inFlight[at] # NoLoad /\ inFlight[at].pc = "answered"
    /\ entries' = [entries EXCEPT ![at] = [of |-> got.of, ver |-> got.ver,
                                               crossed |-> got.crossed, age |-> 0]]
    /\ caller' = Settled(at, "served", got)
    /\ inFlight' = [inFlight EXCEPT ![at] = NoLoad]
    /\ UNCHANGED <<who, serverDb, since, keyTold>>

(* "A failed resolve leaves nothing behind to serve." *)
Fail(at) ==
    /\ inFlight[at] # NoLoad
    /\ caller' = Settled(at, "idle", NotKept)
    /\ inFlight' = [inFlight EXCEPT ![at] = NoLoad]
    /\ UNCHANGED <<who, serverDb, since, entries, keyTold>>

-----------------------------------------------------------------------------
Cleared(t) == [at \in ResolveTabs \X Keys |-> IF at[1] = t \/ entries[at] = NotKept THEN NotKept
                                               ELSE [entries[at] EXCEPT !.crossed = TRUE]]
Overtake(ats) == [at \in ResolveTabs \X Keys |-> IF at \in ats /\ inFlight[at] # NoLoad
                                                 THEN [inFlight[at] EXCEPT !.crossed = TRUE]
                                                 ELSE inFlight[at]]

(* Mutant: a login does not touch the cache. *)
MutSignInKeeps(t, s) ==
    /\ s # who
    /\ who' = s
    /\ inFlight' = Overtake(ResolveTabs \X Keys)
    /\ UNCHANGED <<serverDb, since, entries, caller, keyTold>>

(* auth.login, or logout and login: the store is every tab's, the cache that *)
(* onIdentityChange clears is this tab's.                                    *)
SignIn(t, s) ==
    /\ s # who
    /\ who' = s
    /\ entries' = Cleared(t)
    /\ inFlight' = Overtake(ResolveTabs \X Keys)
    /\ UNCHANGED <<serverDb, since, caller, keyTold>>

(* invalidateGrants(k), for a consumer that hears of changes. *)
Invalidate(t, k) ==
    /\ entries' = [entries EXCEPT ![<<t, k>>] = NotKept]
    /\ keyTold' = [keyTold EXCEPT ![<<t, k>>] = serverDb]
    /\ inFlight' = Overtake({<<t, k>>})
    /\ UNCHANGED <<who, serverDb, since, caller>>

(* Grants change at the server. *)
Change ==
    /\ serverDb < MaxGrantChanges
    /\ serverDb' = serverDb + 1
    /\ UNCHANGED <<who, since, entries, inFlight, caller, keyTold>>

(* Answers are compared with the world at the moment they are given. *)
Forgotten == [c \in Callers |-> IF caller[c].pc = "served" THEN [pc |-> "idle"] ELSE caller[c]]

ResolveTick ==
    /\ \A at \in ResolveTabs \X Keys : inFlight[at] # NoLoad => inFlight[at].age < MaxFlight
    /\ since' = [v \in 1 .. MaxGrantChanges |-> IF v <= serverDb /\ since[v] <= Window
                                                THEN since[v] + 1 ELSE since[v]]
    /\ entries' = [at \in ResolveTabs \X Keys |-> IF FreshEntry(at) THEN [entries[at] EXCEPT !.age = @ + 1]
                                                  ELSE entries[at]]
    /\ inFlight' = [at \in ResolveTabs \X Keys |-> IF inFlight[at] = NoLoad THEN NoLoad
                                                   ELSE [inFlight[at] EXCEPT !.age = @ + 1]]
    /\ caller' = Forgotten
    /\ UNCHANGED <<who, serverDb, keyTold>>

ResolveNext == \/ \E c \in Callers, at \in ResolveTabs \X Keys :
                      ResolveHit(c, at) \/ ResolveMiss(c, at) \/ Reload(c, at)
               \/ \E at \in ResolveTabs \X Keys : Send(at) \/ Respond(at) \/ Land(at) \/ Fail(at)
               \/ \E t \in ResolveTabs : (\E s \in Person : SignIn(t, s)) \/ (\E k \in Keys : Invalidate(t, k))
               \/ Change \/ ResolveTick

ResolveSpec == ResolveInit /\ [][ResolveNext]_resolveVars

-----------------------------------------------------------------------------
Served(c) == caller[c].pc = "served"
Uncrossed(c) == Served(c) /\ ~caller[c].got.crossed

(* "Serving one subject's grants to the next is the one caching mistake that *)
(* would hand a user somebody else's menu": an answer is the grants of       *)
(* whoever was signed in when they were asked for, or when they were given,  *)
(* unless its load crossed a change of identity or another tab made one.     *)
OwnGrants ==
    \A c \in Callers : Uncrossed(c) => caller[c].got.of \in {caller[c].asked, caller[c].given}

(* An answer given after invalidate() reflects every change made before it,  *)
(* which is what lets a consumer that calls it raise the TTL, unless the     *)
(* load that answered was in flight at the time.                             *)
InvalidatedIsGone == \A c \in Callers : Uncrossed(c) => caller[c].got.ver >= caller[c].floor

(* Whatever is shared, reloaded or crossed, a change is invisible for a TTL   *)
(* and the length of one load at most.                                       *)
StaleWithinWindow ==
    \A c \in Callers : Served(c) =>
        \A v \in 1 .. MaxGrantChanges : v <= serverDb /\ since[v] > Window => caller[c].got.ver >= v

(* What a tab makes of the grants it keeps: the subject's own, none that     *)
(* invalidate() was to remove, none older than the window.                   *)
ConsumerSound == OwnGrants /\ InvalidatedIsGone /\ StaleWithinWindow
=============================================================================
