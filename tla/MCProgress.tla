------------------------------ MODULE MCProgress ------------------------------
(* Work that must come to its end in spite of failures: the sweep of expired *)
(* bindings, the requests on the connection pool and the installation side   *)
(* by side, on small instances.  They share no state: focus picks, at the    *)
(* start, the one that moves (the others stay in one of their initial        *)
(* states), and the fairness its own specification states is asked of it     *)
(* alone.                                                                    *)
EXTENDS ExpirySweep, RequestTransactions, Installation, TLC

VARIABLE focus

ProgressInit ==
    /\ SweepInit /\ TxInit /\ InstallInit
    /\ focus \in {"sweep", "request", "install"}
    /\ focus # "install" => mode = "saas" /\ email = CHOOSE e \in [Run -> Emails] : TRUE

ProgressNext ==
    /\ UNCHANGED focus
    /\ \/ focus = "sweep" /\ SweepNext /\ UNCHANGED <<txVars, installVars>>
       \/ focus = "request" /\ TxNext /\ UNCHANGED <<sweepVars, installVars>>
       \/ focus = "install" /\ InstallNext /\ UNCHANGED <<sweepVars, txVars>>

ProgressSpec ==
    /\ ProgressInit /\ [][ProgressNext]_<<focus, sweepVars, txVars, installVars>>
    /\ \A s \in Replica :
          /\ WF_sweepVars(focus = "sweep" /\ Claim(s))
          /\ SF_sweepVars(focus = "sweep" /\ CommitClaim(s))
          /\ WF_sweepVars(/\ focus = "sweep"
                          /\ \E b \in Binding : BumpSwept(s, b) \/ BumpSweptFails(s, b))
    /\ \A q \in Request : /\ WF_txVars(focus = "request" /\ Proceed(q))
                          /\ WF_txVars(focus = "request" /\ \E c \in Conn : Connect(q, c))
    /\ \A i \in Run :
          /\ WF_installVars(focus = "install" /\ pc[i] = "dead" /\ Start(i))
          /\ WF_installVars(focus = "install" /\ Script(i) /\ pc[i] # "locking")
          /\ SF_installVars(focus = "install" /\ TakeLock(i))
          /\ WF_installVars(focus = "install" /\ AdminRequest(i))

(* Each module's state has its type.                                         *)
ProgressTypeOK == SweepTypeOK /\ TxTypeOK /\ InstallTypeOK

(* What has been begun is finished in the end: lapsed bindings are swept,    *)
(* requests answered, installations completed.                               *)
WorkEnds == EveryLapseSwept /\ EveryRequestEnds /\ InstallCompletes
=============================================================================
