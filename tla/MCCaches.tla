------------------------------- MODULE MCCaches -------------------------------
(* What is served from a cache that others fill and flush: the modules about *)
(* grants, menus and revoked sessions side by side, on small instances. They *)
(* share no state: focus picks, at the start, the one that moves (the others *)
(* stay in one of their initial states), and the fairness its own            *)
(* specification states is asked of it alone.                                *)
EXTENDS GrantsCache, Navigation, SessionRevocation, TLC

CONSTANTS folder, page, perm     \* two menu items and a permission

(* The tables of the menu: an item gated, made public and ungated, under     *)
(* another one, and gone from under it.                                      *)
MCCatalogs ==
    {[parent |-> (folder :> Top @@ page :> folder), public |-> {}, gates |-> {<<page, perm>>}],
     [parent |-> (folder :> Top @@ page :> folder), public |-> {page}, gates |-> {}],
     [parent |-> (page :> Top), public |-> {}, gates |-> {}],
     [parent |-> (folder :> Top), public |-> {folder}, gates |-> {<<folder, perm>>}]}

VARIABLE focus

CachesInit ==
    /\ Init /\ NavInit /\ SessInit
    /\ focus \in {"grants", "menu", "session"}
    /\ focus # "menu" => navPast = CHOOSE past \in {<<c>> : c \in Catalogs} : TRUE

CachesNext ==
    /\ UNCHANGED focus
    /\ \/ focus = "grants" /\ Next /\ UNCHANGED <<navVars, sessVars>>
       \/ focus = "menu" /\ NavNext /\ UNCHANGED <<vars, sessVars>>
       \/ focus = "session" /\ SessNext /\ UNCHANGED <<vars, navVars>>

CachesSpec ==
    /\ CachesInit /\ [][CachesNext]_<<focus, vars, navVars, sessVars>>
    /\ WF_vars(focus = "grants" /\ Tick)
    /\ \A r \in Readers : /\ WF_vars(focus = "grants" /\ Resolve(r))
                          /\ WF_vars(focus = "grants" /\ SkipWrite(r))
    /\ WF_navVars(focus = "menu" /\ NavTick)
    /\ \A v \in Viewer : /\ WF_navVars(focus = "menu" /\ ReadNodes(v))
                         /\ WF_navVars(focus = "menu" /\ ReadMappings(v))
                         /\ WF_navVars(focus = "menu" /\ LeaveMenu(v))
    /\ WF_sessVars(focus = "session" /\ SessTick)
    /\ \A t \in Tokens : WF_sessVars(focus = "session" /\ Sign(t))

(* Each module's state has its type.                                         *)
CachesTypeOK == TypeOK /\ NavTypeOK /\ SessTypeOK

(* Whatever becomes of a flush, what was not flushed ends with its lifetime: *)
(* a change of grants, an edit of the menu, the end of a session.  (Of the   *)
(* modules that do not move there is nothing to lose: saying so spares TLC   *)
(* the search of their behaviours.)                                          *)
LossesAgeOut ==
    /\ focus = "grants" => TtlBackstop
    /\ focus = "menu" => MenuTtlBackstop
    /\ focus = "session" => SessionEnds
=============================================================================
