------------------------------- MODULE MCGrants -------------------------------
(* How grants change, under the scope tree they hang on, and how long a      *)
(* consumer goes on with the grants it has, on small instances.  The modules *)
(* share no state: focus picks, at the start, the one that moves (the others *)
(* stay in one of their initial states).                                     *)
EXTENDS GrantInvalidation, ScopeTree, ResolveCache, TLC

CONSTANTS ann, ben      \* two people

VARIABLE focus

GrantsInit ==
    /\ Init /\ TreeInit /\ ResolveInit
    /\ focus \in {"grants", "tree", "consumer"}
    /\ focus # "grants" => /\ bindings = {} /\ mapping = [r \in Roles |-> {}]
                           /\ place = CHOOSE f \in [Nodes -> Paths] : TRUE
    /\ focus # "tree" => parent = [n \in Node |-> Absent]
    /\ who = ann

(* Bound: one tab at a time holds an entry or waits for one; the other signs *)
(* somebody in.                                                              *)
GrantsNext ==
    /\ UNCHANGED focus
    /\ \/ focus = "grants" /\ Next /\ UNCHANGED <<treeVars, resolveVars>>
       \/ focus = "tree" /\ TreeNext /\ UNCHANGED <<vars, resolveVars>>
       \/ /\ focus = "consumer" /\ ResolveNext /\ UNCHANGED <<vars, treeVars>>
          /\ Cardinality({at \in ResolveTabs \X Keys :
                             entries'[at] # NotKept \/ inFlight'[at] # NoLoad}) <= 1

GrantsSpec == GrantsInit /\ [][GrantsNext]_<<focus, vars, treeVars, resolveVars>>

(* Subjects, paths, transactions, tabs and callers differ in name only, and  *)
(* so do scope nodes and requests; the cfg gives several constants the same  *)
(* names, so that one small group of permutations serves all the modules.    *)
Symmetry == Permutations(Subjects) \cup Permutations(Paths) \cup Permutations(Txs)

(* Each module's state has its type.                                         *)
GrantsTypeOK == TypeOK /\ TreeTypeOK /\ ResolveTypeOK
=============================================================================
