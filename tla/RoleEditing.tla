----------------------------- MODULE RoleEditing -----------------------------
(***************************************************************************)
(* PUT /roles/:id/permissions (roles.service.ts `setPermissions`): the     *)
(* administrator sends the set of permissions the role is to carry, the    *)
(* service reads the set it carries and writes the difference, without a   *)
(* lock on the role.  Several administrators edit one role.                *)
(* Transactions are READ COMMITTED: a statement sees what is committed     *)
(* when it starts, and waits for the end of a transaction that has written *)
(* or deleted a row it needs.                                              *)
(***************************************************************************)
EXTENDS Integers, Sequences

CONSTANTS
    Edit,           \* requests
    RolePerm        \* permissions, all of them mappable

VARIABLES
    held,           \* committed: the permissions of the role
    edit,           \* the requests' transactions
    setTrail        \* what each commit recorded, in commit order; a commit that
                    \* changed nothing has no record in the audit log

roleVars == <<held, edit, setTrail>>

ToAdd(e) == edit[e].desired \ edit[e].read

\* Mutant: what the request does not name is kept.
MutToRemove(e) == {}

ToRemove(e) == edit[e].read \ edit[e].desired

Writing == {"removed", "written"}
Editing(e) == edit[e].pc \in {"read"} \union Writing
NewEdit(pc) == [pc |-> pc, desired |-> {}, read |-> {}, gone |-> {},
                answer |-> {}, asOf |-> 0, place |-> 0]

EditTypeOK ==
    /\ held \subseteq RolePerm
    /\ \A e \in Edit :
          /\ edit[e].pc \in {"idle", "read", "done", "failed"} \union Writing
          /\ edit[e].gone \subseteq edit[e].read \ edit[e].desired
          /\ edit[e].pc \in Writing => edit[e].gone \subseteq held
    /\ \A d, e \in Edit : d # e /\ Editing(d) /\ Editing(e) => edit[d].gone \cap edit[e].gone = {}

RoleInit ==
    /\ held \in SUBSET RolePerm
    /\ edit = [e \in Edit |-> NewEdit("idle")]
    /\ setTrail = <<>>

-----------------------------------------------------------------------------
\* The read of the role's mappings; asOf is the last commit it can see.
ReadRole(e, desired) ==
    /\ edit[e].pc = "idle"
    /\ edit' = [edit EXCEPT ![e] = [NewEdit("read") EXCEPT
                    !.desired = desired, !.read = held, !.asOf = Len(setTrail)]]
    /\ UNCHANGED <<held, setTrail>>

\* Other transactions' rows: deleted, and inserted, but not committed.
Going(e) == UNION {edit[d].gone : d \in {x \in Edit \ {e} : Editing(x)}}
Coming(e) == UNION {ToAdd(d) : d \in {x \in Edit \ {e} : edit[x].pc = "written"}}

\* `delete from role_permission`: of the rows that are there.
RemoveRows(e) ==
    /\ edit[e].pc = "read"
    /\ ToRemove(e) \cap held \cap Going(e) = {}
    /\ edit' = [edit EXCEPT ![e].pc = "removed", ![e].gone = ToRemove(e) \cap held]
    /\ UNCHANGED <<held, setTrail>>

\* `insert into role_permission`, which has no `on conflict`: a permission that
\* another request has mapped since fails this one.  The answer and the record's
\* total are read next, in the transaction.
InsertRows(e) ==
    /\ edit[e].pc = "removed"
    /\ ToAdd(e) \cap (Going(e) \union Coming(e)) = {}
    /\ edit' = [edit EXCEPT ![e] =
                  IF ToAdd(e) \cap held = {}
                  THEN [@ EXCEPT !.pc = "written",
                                 !.answer = (held \ edit[e].gone) \union ToAdd(e)]
                  ELSE NewEdit("failed")]
    /\ UNCHANGED <<held, setTrail>>

\* The record tells the difference the request computed; what its delete found
\* is history.
Record(e) == [added |-> ToAdd(e), removed |-> ToRemove(e), found |-> edit[e].gone]

CommitEdit(e) ==
    /\ edit[e].pc = "written"
    /\ held' = (held \ edit[e].gone) \union ToAdd(e)
    /\ setTrail' = Append(setTrail, Record(e))
    /\ edit' = [edit EXCEPT ![e].pc = "done", ![e].place = Len(setTrail')]

\* The connection, a deadlock between two inserts: rolled back.
FailEdit(e) ==
    /\ Editing(e)
    /\ edit' = [edit EXCEPT ![e] = NewEdit("failed")]
    /\ UNCHANGED <<held, setTrail>>

RoleNext ==
    \E e \in Edit :
        \/ \E desired \in SUBSET RolePerm : ReadRole(e, desired)
        \/ RemoveRows(e) \/ InsertRows(e) \/ CommitEdit(e) \/ FailEdit(e)

RoleSpec == RoleInit /\ [][RoleNext]_roleVars

-----------------------------------------------------------------------------
Done == {e \in Edit : edit[e].pc = "done"}

\* The requests whose wishes are not out of date: no request that started after
\* their commit has committed.
Latest == {e \in Done : \A d \in Done \ {e} : edit[d].asOf < edit[e].place}

\* Overlapping replacements may leave a set that none of them asked for, but each
\* permission is in the role or out of it as one of the latest of them asked;
\* so one that ran alone gets exactly its set.
EachAsAsked ==
    Done # {} =>
        \A p \in RolePerm : \E e \in Latest : (p \in held) = (p \in edit[e].desired)

\* For a permission no record claims to have removed after it was gone, the last
\* record that names it says whether the role has it.
Names(p, k) == p \in setTrail[k].added \union setTrail[k].removed
TrailExplainsRole ==
    \A p \in RolePerm :
        LET naming == {k \in DOMAIN setTrail : Names(p, k)} IN
        /\ naming # {}
        /\ \A k \in naming : p \in setTrail[k].removed => p \in setTrail[k].found
        => LET last == CHOOSE k \in naming : \A j \in naming : j <= k
           IN  (p \in held) = (p \in setTrail[last].added)

\* The answer is read before the commit; when nothing overtook the request it is
\* the set that was asked for.
AnswerIsTheRole ==
    \A e \in Done :
        edit[e].place <= edit[e].asOf + 1 => edit[e].answer = edit[e].desired

(* However replacements of one role's permissions overlap, the role, the     *)
(* trail and the answers agree about what was done.                          *)
RoleAsRecorded == EachAsAsked /\ TrailExplainsRole /\ AnswerIsTheRole
=============================================================================
