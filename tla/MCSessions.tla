------------------------------ MODULE MCSessions ------------------------------
(* A user's sessions as the browser's tabs keep and show them and as the     *)
(* account's administrators end them, on small instances.  The modules share *)
(* no state: focus picks, at the start, the one that moves.                  *)
EXTENDS TokenSession, ConsoleShell, AccountSessions, TLC

VARIABLE focus

SessionsInit ==
    /\ ClientInit /\ ShellInit /\ AccountInit
    /\ focus \in {"tabs", "screen", "logins", "resets"}
    /\ focus # "screen" => hook = "menu"

(* Bounds: one tab at a time is signing out, and none beside a hasty one;    *)
(* with several logins one reset is asked for, with several resets there is  *)
(* one login; beside a screen one renewal at a time is in flight, and none   *)
(* once the last visitor has signed in or a late one has landed.             *)
SessionsNext ==
    /\ UNCHANGED focus
    /\ \/ /\ focus = "tabs" /\ ClientNext /\ UNCHANGED <<shellVars, accountVars>>
          /\ Cardinality(leaving') <= (IF hasty' THEN 0 ELSE 1)
       \/ /\ focus = "screen" /\ ShellNext /\ UNCHANGED <<allVars, accountVars>>
          /\ Cardinality({w \in DOMAIN renewal : renewal'[w] # NoRenewal})
                 <= (IF Len(owner') = MaxSignIns \/ slot'.mixed THEN 0 ELSE 1)
       \/ /\ focus = "logins" /\ AccountNext /\ UNCHANGED <<allVars, shellVars>>
          /\ Cardinality({p \in Resets : resetToken'[p] # "none"}) <= 1
       \/ /\ focus = "resets" /\ AccountNext /\ UNCHANGED <<allVars, shellVars>>
          /\ Cardinality({l \in Logins : login'[l] # NotTried}) <= 1

SessionsSpec == SessionsInit /\ [][SessionsNext]_<<focus, allVars, shellVars, accountVars>>

(* Tabs and requests differ in name only, and so do logins, resets and the   *)
(* console's visitors; the cfg gives them the same names, so that one small  *)
(* group of permutations serves every module.                                *)
Symmetry == Permutations(Reqs) \cup Permutations(Tabs)

(* Each module's state has its type.                                         *)
SessionsTypeOK == ClientTypeOK /\ ShellTypeOK /\ AccountTypeOK
=============================================================================
