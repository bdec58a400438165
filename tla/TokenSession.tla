---------------------------- MODULE TokenSession ----------------------------
(***************************************************************************)
(* The browser's side of POST /auth/refresh: the tabs of one console, each *)
(* with a TokenSession of its own (libs/iam-client/src/auth.ts), sharing   *)
(* one localStorage slot (libs/web-kit/src/token-store.ts), and the server *)
(* of RefreshRotation answering them.                                      *)
(*                                                                         *)
(* A stored pair is its refresh token and its age; the access token that   *)
(* came with it is due for renewal at Period.  localStorage is read and    *)
(* written synchronously.  One sign-in: a login after a logout begins      *)
(* another session and another behaviour.                                  *)
(***************************************************************************)
EXTENDS RefreshRotation

CONSTANTS
    Tabs,
    Period,         \* access-token lifetime less refreshLeewaySeconds, in ticks
    Timeouts        \* may an exchange fail in transport?

ASSUME PeriodAssumption == Period \in Nat \ {0}
ASSUME ClientAssumption == Timeouts \in BOOLEAN

VARIABLES
    store,      \* the localStorage slot
    exchange,   \* TokenSession.pending: each tab's request, or NoExchange
    leaving,    \* tabs whose logout has been answered, or given up on
    signedOut,  \* history: a logout has completed, "crossed" if only beside an
                \* exchange in flight
    trouble,    \* history: a Redis command, a request or an answer was lost
    hasty       \* history: a token not yet due was renewed beside an exchange of
                \* an older one

clientVars == <<store, exchange, leaving, signedOut, trouble, hasty>>
allVars == <<vars, clientVars>>

NoTokens == [token |-> None, age |-> 0]
NoExchange == "none"
ASSUME ExchangeAssumption == NoExchange \notin Reqs

ClientTypeOK ==
    /\ TypeOK
    /\ store \in [token : Token, age : 0 .. Period] \cup {NoTokens}
    /\ exchange \in [Tabs -> Reqs \cup {NoExchange}]
    /\ leaving \subseteq Tabs
    /\ signedOut \in {"no", "crossed", "yes"}
    /\ trouble \in BOOLEAN
    /\ hasty \in BOOLEAN

ClientInit ==
    /\ Init
    /\ store = [token |-> 0, age |-> 0]
    /\ exchange = [t \in Tabs |-> NoExchange]
    /\ leaving = {}
    /\ signedOut = "no"
    /\ trouble = FALSE
    /\ hasty = FALSE

InFlight == {t \in Tabs : exchange[t] # NoExchange}
Owned == {exchange[t] : t \in InFlight}
ExpiringSoon == store # NoTokens /\ store.age = Period

OlderUnderWay == \E q \in Reqs : req[q] # Idle /\ req[q].presented # store.token

(* accessToken() renews a token about to lapse; reauthorize() one that was   *)
(* answered with a 401, which a session that is live gets too when a guard   *)
(* cannot look it up; refresh() one it is asked to.  All share the exchange  *)
(* that is pending in the tab.                                               *)
StartRefresh(t, r) ==
    /\ exchange[t] = NoExchange
    /\ store # NoTokens
    /\ r \notin Owned
    /\ Begin(r, store.token)
    /\ exchange' = [exchange EXCEPT ![t] = r]
    /\ hasty' = (hasty \/ (~ExpiringSoon /\ OlderUnderWay))
    /\ UNCHANGED <<store, leaving, signedOut, trouble>>

Settle(t) == exchange' = [exchange EXCEPT ![t] = NoExchange]

(* adopt(): whatever the slot holds by now is overwritten. *)
Adopt(t) ==
    LET r == exchange[t] IN
    /\ t \in InFlight
    /\ Deliver(r) /\ req[r].ok
    /\ store' = [token |-> req[r].proposal, age |-> 0]
    /\ Settle(t)
    /\ UNCHANGED <<leaving, signedOut, trouble, hasty>>

(* forget("refresh_failed") on a 401 ... *)
Forget(t) ==
    LET r == exchange[t] IN
    /\ t \in InFlight
    /\ Deliver(r) /\ ~req[r].ok
    /\ store' = NoTokens
    /\ Settle(t)
    /\ UNCHANGED <<leaving, signedOut, trouble, hasty>>

(* ... and on every other failure: a 5xx for an abandoned request, a timeout *)
(* or a broken connection for one the server goes on with.                   *)
ForgetInTransport(t) ==
    LET r == exchange[t] IN
    /\ t \in InFlight
    /\ Timeouts \/ req[r] = Idle
    /\ store' = NoTokens
    /\ Settle(t)
    /\ trouble' = TRUE
    /\ UNCHANGED <<vars, leaving, signedOut, hasty>>

(* POST /auth/logout, which revokes the session and publishes it if it gets  *)
(* there; the transport renews an expiring token before it sends.            *)
SendLogout(t) ==
    /\ t \notin leaving /\ signedOut # "yes"
    /\ ~ExpiringSoon
    /\ Revoke \/ UNCHANGED vars
    /\ leaving' = leaving \cup {t}
    /\ UNCHANGED <<store, exchange, signedOut, trouble, hasty>>

(* Mutant: tokens the server still honours are kept. *)
MutClearOnLogoutIfRevoked(t) ==
    /\ t \in leaving
    /\ store' = IF Live THEN store ELSE NoTokens
    /\ signedOut' = IF InFlight = {} \/ signedOut = "yes" THEN "yes" ELSE "crossed"
    /\ leaving' = leaving \ {t}
    /\ UNCHANGED <<vars, exchange, trouble, hasty>>

(* "Local state is cleared even when the revocation call failed." *)
ClearOnLogout(t) ==
    /\ t \in leaving
    /\ store' = NoTokens
    /\ signedOut' = IF InFlight = {} \/ signedOut = "yes" THEN "yes" ELSE "crossed"
    /\ leaving' = leaving \ {t}
    /\ UNCHANGED <<vars, exchange, trouble, hasty>>

-----------------------------------------------------------------------------
Orderly(r) == \/ Elect(r) \/ LoseElection(r) \/ Follow(r)
              \/ Decide(r) \/ PublishReuse(r)
              \/ r \notin Owned /\ Deliver(r)

ServerOnly == /\ (\E r \in Reqs : Orderly(r)) \/ Revoke \/ PublishRevoked \/ Expire
              /\ UNCHANGED clientVars

ServerFault == /\ \E r \in Reqs : ElectionFails(r) \/ Abandon(r)
               /\ trouble' = TRUE
               /\ UNCHANGED <<store, exchange, leaving, signedOut, hasty>>

Clock == /\ Tick
         /\ store' = IF store = NoTokens \/ store.age = Period THEN store
                     ELSE [store EXCEPT !.age = @ + 1]
         /\ UNCHANGED <<exchange, leaving, signedOut, trouble, hasty>>

TabStep(t) == \/ \E r \in Reqs : StartRefresh(t, r)
              \/ Adopt(t) \/ Forget(t) \/ ForgetInTransport(t)
              \/ SendLogout(t) \/ ClearOnLogout(t)

ClientNext == (\E t \in Tabs : TabStep(t)) \/ ServerOnly \/ ServerFault \/ Clock

ClientSpec == ClientInit /\ [][ClientNext]_allVars

-----------------------------------------------------------------------------
(* "Naive reuse detection would flag the second as compromise and revoke a   *)
(* live session": tabs that only ever present what the shared store held,    *)
(* and whose exchanges end in time, are never taken for a thief, unless one  *)
(* renewed in haste what it had only just been given.                        *)
HonestSurvives == session.status = "compromised" => hasty

(* Once no exchange is in flight, the stored refresh token is the one the    *)
(* session row has, whichever tab's answer was written last.                 *)
StoreIsCurrent ==
    ~hasty /\ InFlight = {} /\ Live /\ store # NoTokens => store.token = session.current

(* As long as the cache answers and nothing is lost in transport, tabs       *)
(* refreshing at once never sign the user out of a live session.             *)
RacingTabsStaySignedIn == ~trouble /\ store = NoTokens => ~Live \/ signedOut # "no"

(* "Both clients must converge on one token": while nothing is lost, the     *)
(* tab that comes second is never refused for holding another proposal than  *)
(* the one the row was rotated to.                                           *)
LoserNeverRefused == ~trouble => RaceNeverRefused

(* After signing out, no tokens: "a caller who asked to be logged out is     *)
(* logged out", in every tab, unless an exchange was in flight in one.       *)
SignedOutStays == signedOut = "yes" => store = NoTokens

(* Tabs that race for the shared slot end with the row's own token in it,    *)
(* none of them refused and none signed out.                                 *)
TabsConverge == StoreIsCurrent /\ RacingTabsStaySignedIn /\ LoserNeverRefused
=============================================================================
