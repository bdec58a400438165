------------------------------ MODULE RateLimit ------------------------------
(***************************************************************************)
(* The requests of one caller to one handler before they may go on (its     *)
(* visits): a counter in Redis per fixed window, incremented by every       *)
(* replica (apps/iam-api/src/common/throttler.guard.ts), and what becomes   *)
(* of a request when Redis does not answer in time or has lost its count.    *)
(*                                                                         *)
(* Time passes in halves of a second, because the code works in whole ones.  *)
(* COUNTER_TIMEOUT_MS is shorter than that: at most one half begins while a  *)
(* request waits.  Replicas have the same clock.                             *)
(***************************************************************************)
EXTENDS Integers, FiniteSets, FiniteSetsExt

CONSTANTS
    Visit,              \* requests in flight
    RateCap,            \* rule.limit
    WindowSeconds,      \* rule.windowSeconds
    MaxHalves,          \* bound on time
    MaxArrivals         \* bound on requests

ASSUME VisitAssumption == IsFiniteSet(Visit)
ASSUME RateAssumption ==
    RateCap \in Nat \ {0} /\ WindowSeconds \in Nat \ {0} /\ MaxHalves \in Nat /\ MaxArrivals \in Nat

VARIABLES
    clock,              \* half seconds since the start of a window
    counter,            \* per window: the count and its remaining life
    visit,              \* the requests waiting for their count
    failOpen,           \* rule.failOpen
    arrived,            \* history: per window, the requests made in it
    arrivals,           \* history: the requests made in all
    passed,             \* history: the n-th of those made in a half that went on
    degraded,           \* history: one went on without a count
    forgotten,          \* history: per window, those let through whose count is lost
    told                \* history: what the last step told its caller, if it refused

rateVars == <<clock, counter, visit, failOpen, arrived, arrivals, passed, degraded, forgotten,
              told>>

Halves == 0 .. MaxHalves
WindowOf(half) == half \div (2 * WindowSeconds)
Windows == 0 .. WindowOf(MaxHalves)

NoVisit == [pc |-> "none"]
NoRefusal == [at |-> 0, window |-> 0, after |-> 0]
NoCount == [n |-> 0, left |-> 0]

(* reply: the count, or 0 while the command has not been executed.  A        *)
(* command outlives a request that has given up ("abandoned").               *)
RateTypeOK ==
    /\ clock \in Halves
    /\ counter \in [Windows -> [n : 0 .. MaxArrivals, left : 0 .. 4 * WindowSeconds]]
    /\ visit \in [Visit -> {NoVisit}
                         \cup [pc : {"counting"}, window : Windows, since : Halves,
                               reply : 0 .. MaxArrivals]
                         \cup [pc : {"abandoned"}, window : Windows]]
    /\ failOpen \in BOOLEAN
    /\ arrived \in [Windows -> 0 .. MaxArrivals]
    /\ arrivals \in 0 .. MaxArrivals
    /\ passed \subseteq Halves \X (1 .. MaxArrivals)
    /\ degraded \in BOOLEAN
    /\ forgotten \in [Windows -> 0 .. MaxArrivals]
    /\ told \in [at : Halves, window : Windows, after : 0 .. WindowSeconds]

RateInit ==
    /\ clock = 0
    /\ counter = [w \in Windows |-> NoCount]
    /\ visit = [v \in Visit |-> NoVisit]
    /\ failOpen \in BOOLEAN
    /\ arrived = [w \in Windows |-> 0]
    /\ arrivals = 0
    /\ passed = {}
    /\ degraded = FALSE
    /\ forgotten = [w \in Windows |-> 0]
    /\ told = NoRefusal

-----------------------------------------------------------------------------

(* One counter for all time: the limit is never lifted.                      *)
MutKeyWindow(half) == 0

(* The key carries the window index.                                         *)
KeyWindow(half) == WindowOf(half)

(* A request reads the clock, once, and sends MULTI INCR EXPIRE EXEC.        *)
Enter(v) ==
    /\ visit[v] = NoVisit
    /\ arrivals < MaxArrivals
    /\ visit' = [visit EXCEPT ![v] = [pc |-> "counting", window |-> KeyWindow(clock),
                                    since |-> clock, reply |-> 0]]
    /\ arrived' = [arrived EXCEPT ![WindowOf(clock)] = @ + 1]
    /\ arrivals' = arrivals + 1
    /\ told' = NoRefusal
    /\ UNCHANGED <<clock, counter, failOpen, passed, degraded, forgotten>>

(* Redis executes the transaction.                                           *)
Counted(w) == [n |-> counter[w].n + 1, left |-> 2 * 2 * WindowSeconds]

Increment(v) ==
    /\ visit[v].pc = "counting" /\ visit[v].reply = 0
    /\ counter' = [counter EXCEPT ![visit[v].window] = Counted(visit[v].window)]
    /\ visit' = [visit EXCEPT ![v].reply = counter'[visit[v].window].n]
    /\ told' = NoRefusal
    /\ UNCHANGED <<clock, failOpen, arrived, arrivals, passed, degraded, forgotten>>

(* Those made in a half that went on, without and with one more.             *)
PassedOf(half) == {p \in passed : p[1] = half}
PassedWith(half) == passed \cup {<<half, Cardinality(PassedOf(half)) + 1>>}

Admit(v, counts) ==
    /\ visit[v].pc = "counting" /\ visit[v].reply \in counts
    /\ passed' = PassedWith(visit[v].since)
    /\ visit' = [visit EXCEPT ![v] = NoVisit]
    /\ told' = NoRefusal
    /\ UNCHANGED <<clock, counter, failOpen, arrived, arrivals, degraded, forgotten>>

(* Mutant: the count is taken for that of the requests before.               *)
MutLetThroughOneMore(v) == Admit(v, 1 .. RateCap + 1)

(* The count is within the limit: on with the request.                       *)
LetThrough(v) == Admit(v, 1 .. RateCap)

(* Retry-After, from the clock as it is by now.                              *)
ResetAt(w) == (w + 1) * WindowSeconds
RetryAfter(w) == Max({1, ResetAt(w) - (clock \div 2)})

(* 429.                                                                      *)
Refuse(v) ==
    /\ visit[v].pc = "counting" /\ visit[v].reply > RateCap
    /\ told' = [at |-> clock, window |-> visit[v].window, after |-> RetryAfter(visit[v].window)]
    /\ visit' = [visit EXCEPT ![v] = NoVisit]
    /\ UNCHANGED <<clock, counter, failOpen, arrived, arrivals, passed, degraded, forgotten>>

(* No count in time, or an error in its place: the request goes on uncounted *)
(* or gets a 429 that names no time, and a command under way stays under way.*)
CounterUnavailable(v) ==
    /\ visit[v].pc = "counting"
    /\ visit' = [visit EXCEPT ![v] = IF @.reply = 0 THEN [pc |-> "abandoned", window |-> @.window]
                                                  ELSE NoVisit]
    /\ passed' = IF failOpen THEN PassedWith(visit[v].since) ELSE passed
    /\ degraded' = (degraded \/ failOpen)
    /\ told' = NoRefusal
    /\ UNCHANGED <<clock, counter, failOpen, arrived, arrivals, forgotten>>

(* It is executed late, or never.                                            *)
IncrementLate(v) ==
    /\ visit[v].pc = "abandoned"
    /\ \/ counter' = [counter EXCEPT ![visit[v].window] = Counted(visit[v].window)]
       \/ UNCHANGED counter
    /\ visit' = [visit EXCEPT ![v] = NoVisit]
    /\ told' = NoRefusal
    /\ UNCHANGED <<clock, failOpen, arrived, arrivals, passed, degraded, forgotten>>

(* Nobody waits for longer than the deadline; Redis forgets what has run out.*)
RateTick ==
    /\ clock < MaxHalves
    /\ \A v \in Visit : visit[v].pc = "counting" => visit[v].since = clock
    /\ clock' = clock + 1
    /\ counter' = [w \in Windows |->
                      IF counter[w].left <= 1 THEN NoCount ELSE [counter[w] EXCEPT !.left = @ - 1]]
    /\ told' = NoRefusal
    /\ UNCHANGED <<visit, failOpen, arrived, arrivals, passed, degraded, forgotten>>

(* Redis loses a count, or comes back with an older one: an eviction, a      *)
(* flush, a restart from its last snapshot.  What it keeps outlasts the       *)
(* window all the same.                                                      *)
Within(n) == IF n < RateCap THEN n ELSE RateCap

Forget(w, n) ==
    /\ n < counter[w].n
    /\ counter' = [counter EXCEPT ![w] = IF n = 0 THEN NoCount ELSE [@ EXCEPT !.n = n]]
    /\ forgotten' = [forgotten EXCEPT ![w] = @ + Within(counter[w].n) - Within(n)]
    /\ told' = NoRefusal
    /\ UNCHANGED <<clock, visit, failOpen, arrived, arrivals, passed, degraded>>

RateNext ==
    \/ \E v \in Visit : \/ Enter(v) \/ Increment(v) \/ LetThrough(v) \/ Refuse(v)
                       \/ CounterUnavailable(v) \/ IncrementLate(v)
    \/ \E w \in Windows, n \in 0 .. MaxArrivals : Forget(w, n)
    \/ RateTick

RateSpec == RateInit /\ [][RateNext]_rateVars

-----------------------------------------------------------------------------
(* "A fixed window admits up to 2 x limit requests across a window           *)
(* boundary", and no more in any stretch as long as a window, save as many   *)
(* as the counts that Redis lost in its windows had let through: in the      *)
(* worst case for a limit that is a security control (failOpen false), for   *)
(* the others as long as Redis answers.                                      *)
Lost(w) == IF w \in Windows THEN forgotten[w] ELSE 0
BurstBounded ==
    ~degraded =>
        \A h \in Halves :
            Cardinality({p \in passed : h <= p[1] /\ p[1] < h + 2 * WindowSeconds})
                <= 2 * RateCap + Lost(WindowOf(h)) + Lost(WindowOf(h) + 1)

(* Nobody is told of a limit that has not been exceeded in that very window:  *)
(* neither the counts of earlier windows nor commands that land late add up   *)
(* against a caller.                                                          *)
RefusedForCause == told # NoRefusal => arrived[told.window] > RateCap

(* Who comes back when told to comes back in a later window, and has not been *)
(* made to wait for more than one.                                            *)
RetryFindsRoom ==
    told # NoRefusal => /\ WindowOf(told.at + 2 * told.after) > told.window
                        /\ told.after <= WindowSeconds

RateSound == BurstBounded /\ RefusedForCause /\ RetryFindsRoom
=============================================================================
