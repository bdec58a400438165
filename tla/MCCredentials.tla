---------------------------- MODULE MCCredentials ----------------------------
(* The modules about credentials, and about the limit to how often one may  *)
(* be tried, side by side, on small instances.  They share no state: focus  *)
(* picks, at the start, the one that moves (the others stay in one of their *)
(* initial states).                                                         *)
EXTENDS RefreshRotation, KeyRotation, ServiceCredentials, SecretScreen, RateLimit, TLC

VARIABLE focus

CredentialsInit ==
    /\ Init /\ RotInit /\ CredInit /\ ScreenInit /\ RateInit
    /\ focus \in {"refresh", "keys", "service", "secrets", "limit"}
    /\ focus # "secrets" => inForce = [a \in Account |-> 0]
    /\ focus # "limit" => failOpen

(* Bound: a wait is skipped or a JWKS request fails, not both: with both     *)
(* nothing is promised of the keys.                                          *)
CredentialsNext ==
    /\ UNCHANGED focus
    /\ \/ focus = "refresh" /\ Next /\ UNCHANGED <<rotVars, credVars, screenVars, rateVars>>
       \/ /\ focus = "keys" /\ RotNext /\ UNCHANGED <<vars, credVars, screenVars, rateVars>>
          /\ ~(forced' /\ outage')
       \/ focus = "service" /\ CredNext /\ UNCHANGED <<vars, rotVars, screenVars, rateVars>>
       \/ focus = "secrets" /\ ScreenNext /\ UNCHANGED <<vars, rotVars, credVars, rateVars>>
       \/ focus = "limit" /\ RateNext /\ UNCHANGED <<vars, rotVars, credVars, screenVars>>

CredentialsSpec ==
    CredentialsInit /\ [][CredentialsNext]_<<focus, vars, rotVars, credVars, screenVars, rateVars>>

(* Instances and verifications differ in name only. *)
Symmetry == Permutations(Instance) \cup Permutations(Call)

(* Each module's state has its type.                                         *)
CredentialsTypeOK == TypeOK /\ RotTypeOK /\ CredTypeOK /\ ScreenTypeOK /\ RateTypeOK
=============================================================================
