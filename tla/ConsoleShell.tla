----------------------------- MODULE ConsoleShell -----------------------------
(* What a tab of a console shows, and whose it is: the subject IamProvider   *)
(* takes from the shared token store, and the grants or the menu that a hook *)
(* loads for it through useAsync.  The other tabs are what they write to the *)
(* store.  `hook' picks, at the start, which of the two is followed: grants  *)
(* come from the client's cache, which shares a load in flight; a menu is a  *)
(* request of the run's own, and is unmounted with the shell of a tab nobody *)
(* is signed in to.                                                          *)
(*                                                                           *)
(* JavaScript runs one callback at a time: a login's adopt(), the clearing   *)
(* of the cache and writeIdentity() are one step.  React compares the        *)
(* dependencies of an effect with those of its last run.                     *)
EXTENDS Naturals, Sequences

CONSTANTS
    Visitor, NoVisitor,
    MaxSignIns      \* bound: sessions ever begun

ASSUME ShellAssumption == NoVisitor \notin Visitor /\ MaxSignIns \in Nat

VARIABLES
    slot,       \* the token store: a session, and the hint beside its tokens
    owner,      \* whose session each is
    renewal,    \* an exchange in flight in this tab, and one in another
    hook,       \* "grants" or "menu"
    tab         \* what the tab has in memory

shellVars == <<slot, owner, renewal, hook, tab>>

SignIns == 0 .. MaxSignIns
(* `mixed' is history: written by a renewal during which the store changed   *)
(* hands.                                                                    *)
Empty == [session |-> 0, hint |-> NoVisitor, mixed |-> FALSE]
NoRenewal == [session |-> 0, late |-> FALSE]
(* `crossed' is history: the answer was loaded across a change of identity,  *)
(* or kept across one that this tab's login or logout did not make.          *)
LoadedAnswer == [of : Visitor \cup {NoVisitor}, crossed : BOOLEAN]
NoAnswer == [of |-> NoVisitor, crossed |-> FALSE]
NoFlight == [pc |-> "none", of |-> NoVisitor, crossed |-> FALSE]

ShellTypeOK ==
    /\ slot \in [session : SignIns, hint : Visitor \cup {NoVisitor}, mixed : BOOLEAN]
    /\ owner \in Seq(Visitor) /\ Len(owner) <= MaxSignIns
    /\ renewal \in [{"here", "elsewhere"} -> [session : SignIns, late : BOOLEAN]]
    /\ hook \in {"grants", "menu"}
    /\ tab \in [
           heard : SignIns,             \* the subject, 0 for none
           told : BOOLEAN,              \* no storage event, nor the first read, is due
           ran : SignIns,               \* the dependencies of the last run
           again : BOOLEAN,             \* reload() since
           waiting : BOOLEAN,           \* a run has not ended: `loading'
           failed : BOOLEAN,            \* `error'
           data : LoadedAnswer,
           flight : [pc : {"none", "unsent", "sent"}, of : Visitor \cup {NoVisitor},
                     crossed : BOOLEAN],
           kept : LoadedAnswer,         \* the client's entry
           form : Visitor \cup {NoVisitor}]    \* a login in flight

ShellInit ==
    /\ slot = Empty
    /\ owner = <<>>
    /\ renewal = [w \in {"here", "elsewhere"} |-> NoRenewal]
    /\ hook \in {"grants", "menu"}
    /\ tab = [heard |-> 0, told |-> FALSE, ran |-> 0, again |-> FALSE, waiting |-> FALSE,
              failed |-> FALSE, data |-> NoAnswer, flight |-> NoFlight, kept |-> NoAnswer,
              form |-> NoVisitor]

-----------------------------------------------------------------------------
(* The store is written, here or elsewhere.  Whatever the tab keeps, loads   *)
(* or renews meanwhile is crossed if the session is another one.             *)
Held(session) ==
    LET changed == session # slot.session IN
    [tab EXCEPT !.kept = IF changed /\ @ # NoAnswer THEN [@ EXCEPT !.crossed = TRUE] ELSE @,
                !.flight = IF changed /\ @ # NoFlight THEN [@ EXCEPT !.crossed = TRUE] ELSE @]
Delayed(session) ==
    [w \in DOMAIN renewal |->
        [renewal[w] EXCEPT !.late = @ \/ (renewal[w].session # 0 /\ session # slot.session)]]

(* Here it is applied at once; from elsewhere an event is due.               *)
AppliedHere(session) == [Held(session) EXCEPT !.told = TRUE, !.heard = session]
Heard(where, session) ==
    IF where = "here" THEN AppliedHere(session) ELSE [Held(session) EXCEPT !.told = FALSE]

SubmitLogin(v) ==
    /\ tab.heard = 0 /\ tab.form = NoVisitor
    /\ tab' = [tab EXCEPT !.form = v]
    /\ UNCHANGED <<slot, owner, renewal, hook>>

Begun(v) ==
    /\ Len(owner) < MaxSignIns
    /\ owner' = Append(owner, v)
    /\ slot' = [session |-> Len(owner'), hint |-> v, mixed |-> FALSE]
    /\ renewal' = Delayed(Len(owner'))
    /\ UNCHANGED hook

(* Mutant: a login does not touch the cache. *)
MutLoginLands ==
    /\ tab.form # NoVisitor
    /\ Begun(tab.form)
    /\ tab' = [AppliedHere(Len(owner')) EXCEPT !.kept = tab.kept, !.form = NoVisitor]

(* adopt(), onIdentityChange() and writeIdentity(). *)
LoginLands ==
    /\ tab.form # NoVisitor
    /\ Begun(tab.form)
    /\ tab' = [AppliedHere(Len(owner')) EXCEPT !.kept = NoAnswer, !.form = NoVisitor]

LoginRefused ==
    /\ tab.form # NoVisitor
    /\ tab' = [tab EXCEPT !.form = NoVisitor]
    /\ UNCHANGED <<slot, owner, renewal, hook>>

(* logout(), as its answer arrives. *)
SignOut ==
    /\ tab.heard # 0
    /\ slot' = Empty
    /\ renewal' = Delayed(0)
    /\ tab' = [AppliedHere(0) EXCEPT !.kept = NoAnswer]
    /\ UNCHANGED <<owner, hook>>

(* The same in another tab. *)
LoginElsewhere(v) == Begun(v) /\ tab' = Heard("elsewhere", Len(owner'))
SignOutElsewhere ==
    /\ slot.session # 0
    /\ slot' = Empty
    /\ renewal' = Delayed(0)
    /\ tab' = Heard("elsewhere", 0)
    /\ UNCHANGED <<owner, hook>>

(* The keepalive, or a request with a token about to lapse. *)
Renew(where) ==
    /\ renewal[where].session = 0 /\ slot.session # 0
    /\ renewal' = [renewal EXCEPT ![where] = [session |-> slot.session, late |-> FALSE]]
    /\ UNCHANGED <<slot, owner, hook, tab>>

(* write(): the hint is carried over from whatever the slot holds. *)
RenewalLands(where) ==
    LET r == renewal[where] IN
    /\ r.session # 0
    /\ slot' = [slot EXCEPT !.session = r.session, !.mixed = @ \/ r.late]
    /\ renewal' = [Delayed(r.session) EXCEPT ![where] = NoRenewal]
    /\ tab' = Heard(where, r.session)
    /\ UNCHANGED <<owner, hook>>

(* forget("refresh_failed"), which leaves the cache alone. *)
RenewalFails(where) ==
    /\ renewal[where].session # 0
    /\ slot' = Empty
    /\ renewal' = [Delayed(0) EXCEPT ![where] = NoRenewal]
    /\ tab' = Heard(where, 0)
    /\ UNCHANGED <<owner, hook>>

(* The first read, or onStorage: the store as it is by now. *)
ApplyStored ==
    /\ ~tab.told
    /\ tab' = [tab EXCEPT !.told = TRUE, !.heard = slot.session]
    /\ UNCHANGED <<slot, owner, renewal, hook>>

-----------------------------------------------------------------------------
(* Mutant: keyed on the subject and not on its session. *)
MutKey(session) == IF session = 0 THEN NoVisitor ELSE owner[session]

(* [subject?.id, subject?.sessionId], and whether anyone is signed in. *)
Key(session) == session

Due == tab.again \/ Key(tab.heard) # Key(tab.ran)
Runs(update) == Due /\ tab' = update /\ UNCHANGED <<slot, owner, renewal, hook>>
Restarted == [tab EXCEPT !.ran = tab.heard, !.again = FALSE]

(* The effect of useAsync with nobody signed in gives the last run up; its   *)
(* data stays, unless the component goes.                                    *)
Disabled ==
    /\ tab.heard = 0
    /\ Runs([Restarted EXCEPT !.waiting = FALSE,
                              !.data = IF hook = "menu" THEN NoAnswer ELSE @,
                              !.failed = hook # "menu" /\ @])

(* get(): an entry is the answer ... *)
RunHit ==
    /\ tab.heard # 0 /\ tab.kept # NoAnswer
    /\ Runs([Restarted EXCEPT !.waiting = FALSE, !.failed = FALSE, !.data = tab.kept])

(* ... otherwise the load in flight, or a new one.  A menu's run always has  *)
(* a request of its own, and that of the last run is dropped.                *)
RunLoad ==
    /\ tab.heard # 0 /\ tab.kept = NoAnswer
    /\ Runs([Restarted EXCEPT
           !.waiting = TRUE,
           !.flight = IF hook = "grants" /\ @ # NoFlight THEN @
                      ELSE [NoFlight EXCEPT !.pc = "unsent"]])

(* The transport takes the token that is stored by now, and after a 401 the  *)
(* one that is stored then.                                                  *)
SendLoad ==
    /\ tab.flight # NoFlight /\ slot.session # 0
    /\ tab' = [tab EXCEPT !.flight = [@ EXCEPT !.pc = "sent", !.of = owner[slot.session]]]
    /\ UNCHANGED <<slot, owner, renewal, hook>>

LoadLands ==
    LET got == [of |-> tab.flight.of, crossed |-> tab.flight.crossed] IN
    /\ tab.flight.pc = "sent"
    /\ tab' = [tab EXCEPT !.flight = NoFlight,
                          !.kept = IF hook = "grants" THEN got ELSE @,
                          !.data = IF tab.waiting THEN got ELSE @,
                          !.failed = @ /\ ~tab.waiting,
                          !.waiting = FALSE]
    /\ UNCHANGED <<slot, owner, renewal, hook>>

LoadFails ==
    /\ tab.flight # NoFlight
    /\ tab' = [tab EXCEPT !.flight = NoFlight, !.failed = @ \/ tab.waiting, !.waiting = FALSE]
    /\ UNCHANGED <<slot, owner, renewal, hook>>

(* The entry's TTL has passed. *)
Lapse ==
    /\ tab.kept # NoAnswer
    /\ tab' = [tab EXCEPT !.kept = NoAnswer]
    /\ UNCHANGED <<slot, owner, renewal, hook>>

(* reload(), of a screen that has changed something. *)
ReloadScreen ==
    /\ tab.heard # 0 /\ ~tab.again
    /\ tab' = [tab EXCEPT !.again = TRUE, !.kept = NoAnswer]
    /\ UNCHANGED <<slot, owner, renewal, hook>>

ShellNext ==
    \/ \E v \in Visitor : SubmitLogin(v) \/ LoginElsewhere(v)
    \/ LoginLands \/ LoginRefused \/ SignOut \/ SignOutElsewhere
    \/ \E where \in DOMAIN renewal : Renew(where) \/ RenewalLands(where) \/ RenewalFails(where)
    \/ ApplyStored \/ Disabled \/ RunHit \/ RunLoad \/ SendLoad \/ LoadLands \/ LoadFails
    \/ Lapse \/ ReloadScreen

ShellSpec == ShellInit /\ [][ShellNext]_shellVars

-----------------------------------------------------------------------------
(* At rest: the tab has heard of the store as it is, its hook has run for    *)
(* that, and the run has ended without an error.                             *)
AtRest == tab.told /\ ~Due /\ ~tab.waiting /\ ~tab.failed /\ tab.heard # 0

(* A tab with no event to come is signed in as the store is.                 *)
TabFollows == tab.told => tab.heard = slot.session

(* "Serving the previous user's menu would be both wrong and alarming": a    *)
(* tab at rest shows the menu of whoever is signed in, however logins and    *)
(* answers cross, and their grants, unless a load or an entry was crossed;   *)
(* and unless a late renewal has put a former session back.                  *)
ShowsOwn ==
    AtRest /\ ~slot.mixed =>
        \/ tab.data.of = owner[tab.heard]
        \/ hook = "grants" /\ tab.data.crossed

(* "So the header can say something true": the name beside the tokens is     *)
(* their owner's, unless a renewal has crossed a sign-in.                    *)
HeaderTrue == slot.session # 0 => slot.mixed \/ slot.hint = owner[slot.session]

(* What a tab shows is of whoever it is signed in as.                        *)
ShellSound == TabFollows /\ ShowsOwn /\ HeaderTrue

(* "Signing out and straight back in as someone else must re-resolve.        *)
(* `IamClient' empties its own cache on any identity change for the same     *)
(* reason": no tab at rest shows another's grants.                           *)
NeverAnothersGrants == AtRest => tab.data.of = owner[tab.heard]
=============================================================================
