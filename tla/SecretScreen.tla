----------------------------- MODULE SecretScreen -----------------------------
(***************************************************************************)
(* The console's screen of service accounts: what becomes of the secrets it  *)
(* asks for (apps/admin-web/src/components/service-accounts).  A secret is   *)
(* in the answer to a creation or a rotation and nowhere else; it is shown   *)
(* in a window that is left by saying that it has been copied, and then by   *)
(* closing it.  Requests for different accounts may overlap, the server may  *)
(* not be heard, and the operator may leave the screen.                      *)
(***************************************************************************)
EXTENDS Integers, FiniteSets

CONSTANTS
    Account,            \* service accounts, those to be created included
    Ask,                \* requests
    MaxMints            \* bound on secrets, the one of before included

ASSUME ScreenAssumption == MaxMints \in Nat \ {0}

VARIABLES
    inForce,            \* per account: the secret the server accepts; 0: no account yet
    mints,             \* how many secrets there have been
    ask,                \* the requests this screen has sent
    busy,               \* busy: the accounts whose buttons wait
    revealed,           \* revealed: the account and the secret shown
    acknowledged,       \* acknowledged, of SecretRevealModal
    copied,             \* history: the secrets the operator has said to have copied
    covered,            \* history: a secret has been shown over another
    lost                \* history: per secret, whether nobody has seen it out, and why

screenVars == <<inForce, mints, ask, busy, revealed, acknowledged, copied, covered, lost>>

Secrets == 1 .. MaxMints
NotAsked == [pc |-> "none"]
Nothing == [account |-> "none", secret |-> 0, rotated |-> FALSE]
Losses == {"unheard", "left", "covered"}

(* Secret 1 stands for those handed out before; heard: whether the screen    *)
(* that sent the request is still there.                                     *)
ScreenTypeOK ==
    /\ inForce \in [Account -> 0 .. MaxMints]
    /\ mints \in 0 .. MaxMints
    /\ ask \in [Ask -> {NotAsked}
                       \cup [pc : {"sent"}, account : Account, rotated : BOOLEAN, heard : BOOLEAN]
                       \cup [pc : {"answered"}, account : Account, rotated : BOOLEAN,
                           secret : Secrets, heard : BOOLEAN]]
    /\ busy \subseteq Account
    /\ revealed \in {Nothing} \cup [account : Account, secret : Secrets, rotated : BOOLEAN]
    /\ acknowledged \in BOOLEAN
    /\ copied \subseteq Secrets
    /\ covered \in BOOLEAN
    /\ lost \in [Secrets -> {"no"} \cup Losses]

ScreenInit ==
    /\ \E existing \in SUBSET Account :
          inForce = [a \in Account |-> IF a \in existing THEN 1 ELSE 0]
    /\ mints = 1
    /\ ask = [k \in Ask |-> NotAsked]
    /\ busy = {}
    /\ revealed = Nothing
    /\ acknowledged = FALSE
    /\ copied = {1}
    /\ covered = FALSE
    /\ lost = [s \in Secrets |-> "no"]

-----------------------------------------------------------------------------

(* The window covers the page: nothing else can be clicked.                  *)
Free == revealed = Nothing

Send(k, a, rotated) ==
    /\ Free /\ ask[k] = NotAsked
    /\ ask' = [ask EXCEPT ![k] = [pc |-> "sent", account |-> a, rotated |-> rotated, heard |-> TRUE]]
    /\ UNCHANGED <<inForce, mints, revealed, acknowledged, copied, covered, lost>>

(* A rotation is confirmed first; the account's buttons wait for its answer. *)
RotateAccount(k, a) ==
    /\ inForce[a] # 0 /\ a \notin busy
    /\ Send(k, a, TRUE)
    /\ busy' = busy \cup {a}

(* A creation can be cancelled while it is submitted, which closes its form  *)
(* and nothing else; another may then be begun, of another account.          *)
Create(k, a) ==
    /\ inForce[a] = 0 /\ \A j \in Ask : ask[j].pc = "sent" => ask[j].account # a
    /\ Send(k, a, FALSE)
    /\ UNCHANGED busy

(* The server mints, stores the hash and answers.                            *)
Mint(k) ==
    /\ ask[k].pc = "sent" /\ mints < MaxMints
    /\ mints' = mints + 1
    /\ inForce' = [inForce EXCEPT ![ask[k].account] = mints']
    /\ ask' = [ask EXCEPT ![k] = [pc |-> "answered", account |-> @.account, rotated |-> @.rotated,
                                  secret |-> mints', heard |-> @.heard]]
    /\ UNCHANGED <<busy, revealed, acknowledged, copied, covered, lost>>

(* The buttons of every account at once.                                     *)
MutReady(k) == busy' = {}

(* The end of a rotation: the account's buttons no longer wait, on the screen *)
(* that made them.                                                           *)
Ready(k) == busy' = IF ask[k].rotated /\ ask[k].heard THEN busy \ {ask[k].account} ELSE busy

(* A secret is put out of sight.                                             *)
OutOfSight(why) ==
    lost' = IF revealed # Nothing /\ revealed.secret \notin copied
              THEN [lost EXCEPT ![revealed.secret] = why] ELSE lost

(* setRevealed, on a screen that is still there: in place of what was shown. *)
Reveal(k) ==
    /\ ask[k].pc = "answered" /\ ask[k].heard
    /\ revealed' = [account |-> ask[k].account, secret |-> ask[k].secret, rotated |-> ask[k].rotated]
    /\ covered' = (covered \/ revealed # Nothing)
    /\ OutOfSight("covered")
    /\ ask' = [ask EXCEPT ![k] = NotAsked]
    /\ Ready(k)
    /\ UNCHANGED <<inForce, mints, acknowledged, copied>>

(* An error notice, or no screen to show one: the connection is gone, the    *)
(* deadline has passed.  The server may have done it, or do it yet.          *)
Unheard(k) ==
    /\ ask[k].pc = "sent" /\ ask[k].heard
    /\ ask' = [ask EXCEPT ![k].heard = FALSE]
    /\ Ready(k)
    /\ UNCHANGED <<inForce, mints, revealed, acknowledged, copied, covered, lost>>

Forgotten(k) ==
    /\ ask[k] # NotAsked /\ (ask[k].pc = "answered" \/ ~ask[k].heard)
    /\ lost' = IF ask[k].pc = "answered" THEN [lost EXCEPT ![ask[k].secret] = "unheard"] ELSE lost
    /\ Ready(k)
    /\ ask' = [ask EXCEPT ![k] = NotAsked]
    /\ UNCHANGED <<inForce, mints, revealed, acknowledged, copied, covered>>

(* "I have copied it", ...                                                   *)
Acknowledge ==
    /\ revealed # Nothing /\ ~acknowledged
    /\ acknowledged' = TRUE
    /\ copied' = copied \cup {revealed.secret}
    /\ UNCHANGED <<inForce, mints, ask, busy, revealed, covered, lost>>

(* ... and, with the same button, onClose.  The window keeps what was said   *)
(* of a secret that another has taken the place of.                          *)
Close ==
    /\ revealed # Nothing /\ acknowledged
    /\ revealed' = Nothing
    /\ acknowledged' = FALSE
    /\ OutOfSight("covered")
    /\ UNCHANGED <<inForce, mints, ask, busy, copied, covered>>

(* Back, reload, another page; and on to a new one of these, which knows of  *)
(* no request.                                                               *)
LeaveScreen ==
    /\ ask' = [k \in Ask |-> IF ask[k] = NotAsked THEN NotAsked ELSE [ask[k] EXCEPT !.heard = FALSE]]
    /\ busy' = {}
    /\ revealed' = Nothing
    /\ acknowledged' = FALSE
    /\ OutOfSight("left")
    /\ UNCHANGED <<inForce, mints, copied, covered>>

ScreenNext ==
    \/ \E k \in Ask : \/ \E a \in Account : RotateAccount(k, a) \/ Create(k, a)
                      \/ Mint(k) \/ Reveal(k) \/ Unheard(k) \/ Forgotten(k)
    \/ Acknowledge \/ Close \/ LeaveScreen

ScreenSpec == ScreenInit /\ [][ScreenNext]_screenVars

-----------------------------------------------------------------------------
Answered(s) == \E k \in Ask : ask[k].pc = "answered" /\ ask[k].secret = s

(* A secret that the server accepts is with somebody who said so, on the     *)
(* screen, under way, or was lost with an answer nobody heard or a screen    *)
(* that was left.  One is put out of sight before anybody has said to have   *)
(* it only when the answers of two requests met.                             *)
EverySecretAccountedFor ==
    \A a \in Account : inForce[a] # 0 =>
        \/ inForce[a] \in copied
        \/ revealed.secret = inForce[a]
        \/ Answered(inForce[a])
        \/ lost[inForce[a]] \in {"unheard", "left"}
        \/ covered /\ lost[inForce[a]] = "covered"

(* "Guards the close button until the operator has said they have it."       *)
ClosedWhenCopied == acknowledged => revealed.secret \in copied \/ covered

(* The new secret of an account works, unless the account was rotated after  *)
(* it by a request that nobody has heard the end of.                         *)
WhatIsShownWorks ==
    revealed.rotated =>
        LET s == inForce[revealed.account] IN
        \/ s = revealed.secret
        \/ lost[s] = "unheard"
        \/ \E k \in Ask : ask[k].pc = "answered" /\ ~ask[k].heard /\ ask[k].secret = s

SecretsShown == EverySecretAccountedFor /\ ClosedWhenCopied /\ WhatIsShownWorks
=============================================================================
