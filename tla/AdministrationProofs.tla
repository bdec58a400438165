------------------------ MODULE AdministrationProofs -------------------------
(***************************************************************************)
(* What administrators' requests leave behind, for every number of them:   *)
(* the replacements of a role's permissions (RoleEditing), what the guard  *)
(* decides of a scope tree (Authorization), the people that adding,        *)
(* uploading and correcting users make (Roster), the catalog that          *)
(* manifests and the routes beside them write (Registry), what the         *)
(* console's page tells who uploads one (UploadScreen), and what exports   *)
(* and pages read of the trail (AuditTrail).  The types of all six close   *)
(* the module.                                                             *)
(***************************************************************************)
EXTENDS MCAdministration, ScopeTreeProofs

-----------------------------------------------------------------------------
(* RoleEditing.  What a request is, ...                                      *)
Perms == SUBSET RolePerm
EditRec == [pc : {"idle", "read", "removed", "written", "done", "failed"},
            desired : Perms, read : Perms, gone : Perms, answer : Perms, asOf : Nat, place : Nat]
RecordRec == [added : Perms, removed : Perms, found : Perms]
EditsTyped ==
    /\ held \in Perms
    /\ edit \in [Edit -> EditRec]
    /\ setTrail \in Seq(RecordRec)

(* ... what it has deleted, which nobody else has, ...                       *)
GoneApart ==
    /\ \A e \in Edit : /\ edit[e].gone \subseteq edit[e].read \ edit[e].desired
                       /\ edit[e].pc \in Writing => edit[e].gone \subseteq held
    /\ \A d, e \in Edit : d # e /\ Editing(d) /\ Editing(e) => edit[d].gone \cap edit[e].gone = {}

(* ... and when it read and committed.                                       *)
Ordered ==
    /\ \A e \in Edit : Editing(e) => edit[e].asOf <= Len(setTrail)
    /\ \A e \in Done : edit[e].asOf < edit[e].place /\ edit[e].place <= Len(setTrail)

(* The role has the permission as the request asked; or will not when it     *)
(* commits, because somebody changed it after the read or after the delete.  *)
Agrees(e, p) == (p \in held) = (p \in edit[e].desired)
Outrun(x, p) ==
    /\ Editing(x)
    /\ \/ (p \in edit[x].read) # (p \in held)
       \/ edit[x].pc \in Writing /\ p \in ToRemove(x) \ edit[x].gone

(* Who outran a request is among the latest, and committed after its read.   *)
Asked(p) ==
    /\ Done # {} => \E e \in Latest : Agrees(e, p)
    /\ \A x \in Edit : Outrun(x, p) =>
          \E e \in Latest : Agrees(e, p) /\ edit[x].asOf < edit[e].place

(* The last record that names a permission, if no record claims too much.    *)
Naming(p) == {k \in DOMAIN setTrail : Names(p, k)}
Explained(p) ==
    Naming(p) # {} /\ (\A k \in Naming(p) : p \in setTrail[k].removed => p \in setTrail[k].found) =>
        \E k \in Naming(p) : /\ \A j \in Naming(p) : j <= k
                             /\ (p \in held) = (p \in setTrail[k].added)

(* A request that nothing has overtaken yet finds the role as it read it.    *)
Undisturbed(e) ==
    /\ Editing(e) /\ edit[e].asOf = Len(setTrail) =>
          /\ edit[e].read = held
          /\ edit[e].pc \in Writing => edit[e].gone = ToRemove(e)
          /\ edit[e].pc = "written" => edit[e].answer = edit[e].desired
    /\ edit[e].pc = "done" /\ edit[e].place <= edit[e].asOf + 1 => edit[e].answer = edit[e].desired

RoleIInv ==
    /\ EditsTyped /\ GoneApart /\ Ordered
    /\ \A p \in RolePerm : Asked(p) /\ Explained(p)
    /\ \A e \in Edit : Undisturbed(e)

-----------------------------------------------------------------------------
LEMMA NewEditTyped ==
    ASSUME NEW pc \in {"idle", "read", "removed", "written", "done", "failed"}
    PROVE  NewEdit(pc) \in EditRec
BY DEF NewEdit, EditRec, Perms

LEMMA RoleInits == RoleInit => RoleIInv
<1> SUFFICES ASSUME RoleInit PROVE RoleIInv
  OBVIOUS
<1>1. EditsTyped
  BY NewEditTyped DEF RoleInit, EditsTyped, Perms
<1>2. \A e \in Edit : edit[e] = NewEdit("idle") /\ ~Editing(e) /\ e \notin Done
  BY DEF RoleInit, NewEdit, Editing, Writing, Done
<1>3. GoneApart
  BY <1>2 DEF GoneApart, NewEdit, Writing
<1>4. Done = {} /\ Ordered
  BY <1>2 DEF Ordered, Done
<1>5. \A p \in RolePerm : Asked(p)
  BY <1>2, <1>4 DEF Asked, Outrun
<1>6. \A p \in RolePerm : Explained(p)
  BY DEF Explained, Naming, RoleInit
<1>7. \A e \in Edit : Undisturbed(e)
  <2> SUFFICES ASSUME NEW e \in Edit PROVE Undisturbed(e)
    OBVIOUS
  <2>1. edit[e] = NewEdit("idle") /\ ~Editing(e)
    BY <1>2
  <2>2. edit[e].pc = "idle"
    BY <2>1 DEF NewEdit
  <2> QED
    BY <2>1, <2>2 DEF Undisturbed
<1> QED
  BY <1>1, <1>3, <1>4, <1>5, <1>6, <1>7 DEF RoleIInv

(* What each request is after a step, apart from the one that took it.       *)
LEMMA OthersStay ==
    ASSUME EditsTyped, NEW e \in Edit, NEW v, edit' = [edit EXCEPT ![e] = v]
    PROVE  /\ edit'[e] = v
           /\ \A d \in Edit \ {e} : edit'[d] = edit[d]
BY DEF EditsTyped

LEMMA ReadIs ==
    ASSUME EditsTyped, NEW e \in Edit, NEW desired \in Perms, ReadRole(e, desired)
    PROVE  /\ held' = held /\ setTrail' = setTrail
           /\ \A d \in Edit \ {e} : edit'[d] = edit[d]
           /\ edit[e].pc = "idle"
           /\ edit'[e].pc = "read" /\ edit'[e].desired = desired /\ edit'[e].read = held
           /\ edit'[e].gone = {} /\ edit'[e].asOf = Len(setTrail)
           /\ EditsTyped'
<1> DEFINE new == [NewEdit("read") EXCEPT !.desired = desired, !.read = held, !.asOf = Len(setTrail)]
<1>1. Len(setTrail) \in Nat
  BY DEF EditsTyped
<1>2. new \in EditRec
  BY <1>1 DEF NewEdit, EditRec, EditsTyped, Perms
<1>3. /\ new.pc = "read" /\ new.desired = desired /\ new.read = held
      /\ new.gone = {} /\ new.asOf = Len(setTrail)
  BY DEF NewEdit
<1>4. edit' = [edit EXCEPT ![e] = new] /\ held' = held /\ setTrail' = setTrail /\ edit[e].pc = "idle"
  BY DEF ReadRole
<1> HIDE DEF new
<1>5. edit'[e] = new /\ \A d \in Edit \ {e} : edit'[d] = edit[d]
  BY <1>4, OthersStay
<1>6. EditsTyped'
  BY <1>2, <1>4 DEF EditsTyped
<1> QED
  BY <1>3, <1>4, <1>5, <1>6

LEMMA RemoveIs ==
    ASSUME EditsTyped, NEW e \in Edit, RemoveRows(e)
    PROVE  /\ held' = held /\ setTrail' = setTrail
           /\ \A d \in Edit \ {e} : edit'[d] = edit[d]
           /\ edit[e].pc = "read"
           /\ edit'[e] = [edit[e] EXCEPT !.pc = "removed", !.gone = ToRemove(e) \cap held]
           /\ edit'[e].pc = "removed" /\ edit'[e].desired = edit[e].desired
           /\ edit'[e].read = edit[e].read /\ edit'[e].asOf = edit[e].asOf
           /\ edit'[e].gone = ToRemove(e) \cap held
           /\ EditsTyped'
<1> DEFINE new == [edit[e] EXCEPT !.pc = "removed", !.gone = ToRemove(e) \cap held]
<1>1. edit[e] \in EditRec
  BY DEF EditsTyped
<1>2. new \in EditRec
  BY <1>1 DEF EditRec, EditsTyped, Perms, ToRemove
<1>3. /\ new.pc = "removed" /\ new.desired = edit[e].desired /\ new.read = edit[e].read
      /\ new.gone = ToRemove(e) \cap held /\ new.asOf = edit[e].asOf
  BY <1>1 DEF EditRec
<1>4. edit' = [edit EXCEPT ![e] = new] /\ held' = held /\ setTrail' = setTrail /\ edit[e].pc = "read"
  BY DEF RemoveRows, EditsTyped
<1> HIDE DEF new
<1>5. edit'[e] = new /\ \A d \in Edit \ {e} : edit'[d] = edit[d]
  BY <1>4, OthersStay
<1>6. EditsTyped'
  BY <1>2, <1>4 DEF EditsTyped
<1> QED
  BY <1>3, <1>4, <1>5, <1>6 DEF new

LEMMA FailedIs ==
    ASSUME EditsTyped, NEW e \in Edit, edit' = [edit EXCEPT ![e] = NewEdit("failed")]
    PROVE  /\ \A d \in Edit \ {e} : edit'[d] = edit[d]
           /\ edit'[e].pc = "failed" /\ edit'[e].gone = {} /\ edit'[e].read = {}
           /\ held' = held /\ setTrail' = setTrail => EditsTyped'
<1>1. NewEdit("failed") \in EditRec
  BY NewEditTyped
<1>2. edit'[e] = NewEdit("failed") /\ \A d \in Edit \ {e} : edit'[d] = edit[d]
  BY OthersStay
<1>3. held' = held /\ setTrail' = setTrail => EditsTyped'
  BY <1>1 DEF EditsTyped
<1> QED
  BY <1>2, <1>3 DEF NewEdit

LEMMA InsertIs ==
    ASSUME EditsTyped, NEW e \in Edit, InsertRows(e), ToAdd(e) \cap held = {}
    PROVE  /\ held' = held /\ setTrail' = setTrail
           /\ \A d \in Edit \ {e} : edit'[d] = edit[d]
           /\ edit[e].pc = "removed"
           /\ edit'[e].pc = "written" /\ edit'[e].desired = edit[e].desired
           /\ edit'[e].read = edit[e].read /\ edit'[e].asOf = edit[e].asOf
           /\ edit'[e].gone = edit[e].gone
           /\ edit'[e].answer = (held \ edit[e].gone) \union ToAdd(e)
           /\ EditsTyped'
<1> DEFINE new == [edit[e] EXCEPT !.pc = "written",
                                  !.answer = (held \ edit[e].gone) \union ToAdd(e)]
<1>1. edit[e] \in EditRec
  BY DEF EditsTyped
<1>2. new \in EditRec
  BY <1>1 DEF EditRec, EditsTyped, Perms, ToAdd
<1>3. /\ new.pc = "written" /\ new.desired = edit[e].desired /\ new.read = edit[e].read
      /\ new.gone = edit[e].gone /\ new.asOf = edit[e].asOf
      /\ new.answer = (held \ edit[e].gone) \union ToAdd(e)
  BY <1>1 DEF EditRec
<1>4. edit' = [edit EXCEPT ![e] = new] /\ held' = held /\ setTrail' = setTrail /\ edit[e].pc = "removed"
  BY DEF InsertRows, EditsTyped
<1> HIDE DEF new
<1>5. edit'[e] = new /\ \A d \in Edit \ {e} : edit'[d] = edit[d]
  BY <1>4, OthersStay
<1>6. EditsTyped'
  BY <1>2, <1>4 DEF EditsTyped
<1> QED
  BY <1>3, <1>4, <1>5, <1>6

LEMMA CommitIs ==
    ASSUME EditsTyped, NEW e \in Edit, CommitEdit(e)
    PROVE  /\ held' = (held \ edit[e].gone) \union ToAdd(e)
           /\ Len(setTrail') = Len(setTrail) + 1
           /\ setTrail'[Len(setTrail) + 1] = Record(e)
           /\ \A k \in DOMAIN setTrail : setTrail'[k] = setTrail[k]
           /\ DOMAIN setTrail' = DOMAIN setTrail \union {Len(setTrail) + 1}
           /\ \A d \in Edit \ {e} : edit'[d] = edit[d]
           /\ edit[e].pc = "written"
           /\ edit'[e].pc = "done" /\ edit'[e].desired = edit[e].desired
           /\ edit'[e].read = edit[e].read /\ edit'[e].asOf = edit[e].asOf
           /\ edit'[e].gone = edit[e].gone /\ edit'[e].answer = edit[e].answer
           /\ edit'[e].place = Len(setTrail) + 1
           /\ EditsTyped'
<1> DEFINE new == [edit[e] EXCEPT !.pc = "done", !.place = Len(setTrail')]
<1>1. edit[e] \in EditRec
  BY DEF EditsTyped
<1>2. Record(e) \in RecordRec
  BY <1>1 DEF Record, RecordRec, EditRec, Perms, ToAdd, ToRemove
<1>3. setTrail' = Append(setTrail, Record(e)) /\ setTrail' \in Seq(RecordRec)
  BY <1>2 DEF CommitEdit, EditsTyped
<1>4. /\ Len(setTrail') = Len(setTrail) + 1
      /\ setTrail'[Len(setTrail) + 1] = Record(e)
      /\ \A k \in DOMAIN setTrail : setTrail'[k] = setTrail[k]
      /\ DOMAIN setTrail' = DOMAIN setTrail \union {Len(setTrail) + 1}
      /\ Len(setTrail) \in Nat
  BY <1>2, <1>3 DEF EditsTyped
<1>5. new \in EditRec
  <2>1. Len(setTrail') \in Nat
    BY <1>4
  <2> QED
    BY <1>1, <2>1 DEF EditRec
<1>6. /\ new.pc = "done" /\ new.desired = edit[e].desired /\ new.read = edit[e].read
      /\ new.gone = edit[e].gone /\ new.asOf = edit[e].asOf /\ new.answer = edit[e].answer
      /\ new.place = Len(setTrail')
  BY <1>1 DEF EditRec
<1>7. /\ edit' = [edit EXCEPT ![e] = new] /\ edit[e].pc = "written"
      /\ held' = (held \ edit[e].gone) \union ToAdd(e)
  BY DEF CommitEdit, EditsTyped
<1> HIDE DEF new
<1>8. edit'[e] = new /\ \A d \in Edit \ {e} : edit'[d] = edit[d]
  BY <1>7, OthersStay
<1>9. held' \in Perms
  BY <1>1, <1>7 DEF EditsTyped, EditRec, Perms, ToAdd
<1>10. EditsTyped'
  BY <1>3, <1>5, <1>7, <1>9 DEF EditsTyped
<1> QED
  BY <1>4, <1>6, <1>7, <1>8, <1>10

-----------------------------------------------------------------------------
(* A step that commits nothing: what the others have, who is the latest and  *)
(* what the trail says stay as they are, so it is enough to look at the one  *)
(* request that moved.                                                       *)
LEMMA QuietStep ==
    ASSUME RoleIInv, EditsTyped', NEW e \in Edit,
           held' = held, setTrail' = setTrail, \A d \in Edit \ {e} : edit'[d] = edit[d],
           edit[e].pc # "done", edit'[e].pc # "done",
           Editing(e)' => edit'[e].asOf <= Len(setTrail),
           edit'[e].gone \subseteq edit'[e].read \ edit'[e].desired,
           edit'[e].pc \in Writing => edit'[e].gone \subseteq held,
           Editing(e)' => \A d \in Edit \ {e} : Editing(d) => edit[d].gone \cap edit'[e].gone = {},
           \A p \in RolePerm : Outrun(e, p)' => Outrun(e, p) /\ edit'[e].asOf = edit[e].asOf,
           Undisturbed(e)'
    PROVE  RoleIInv'
<1>1. Done' = Done /\ \A d \in Done : edit'[d] = edit[d]
  BY DEF Done
<1>2. Latest' = Latest
  BY <1>1 DEF Latest
<1>3. \A d \in Edit \ {e} : Editing(d)' <=> Editing(d)
  BY DEF Editing
<1>4. GoneApart'
  <2>1. \A d \in Edit : /\ edit'[d].gone \subseteq edit'[d].read \ edit'[d].desired
                        /\ edit'[d].pc \in Writing => edit'[d].gone \subseteq held'
    BY DEF RoleIInv, GoneApart
  <2>2. \A c, d \in Edit : c # d /\ Editing(c)' /\ Editing(d)' => edit'[c].gone \cap edit'[d].gone = {}
    <3> SUFFICES ASSUME NEW c \in Edit, NEW d \in Edit, c # d, Editing(c)', Editing(d)'
                 PROVE  edit'[c].gone \cap edit'[d].gone = {}
      OBVIOUS
    <3>1. CASE c = e
      BY <1>3, <3>1
    <3>2. CASE d = e
      BY <1>3, <3>2
    <3>3. CASE c # e /\ d # e
      BY <1>3, <3>3 DEF RoleIInv, GoneApart
    <3> QED
      BY <3>1, <3>2, <3>3
  <2> QED
    BY <2>1, <2>2 DEF GoneApart, Writing
<1>5. Ordered'
  <2>1. \A d \in Edit : Editing(d)' => edit'[d].asOf <= Len(setTrail')
    BY <1>3 DEF RoleIInv, Ordered
  <2> QED
    BY <1>1, <2>1 DEF RoleIInv, Ordered
<1>6. \A p \in RolePerm : Asked(p)'
  <2> SUFFICES ASSUME NEW p \in RolePerm PROVE Asked(p)'
    OBVIOUS
  <2>1. \A d \in Latest : d \in Done /\ (Agrees(d, p)' <=> Agrees(d, p))
    BY <1>1 DEF Agrees, Latest
  <2>2. \A x \in Edit : Outrun(x, p)' => Outrun(x, p) /\ edit'[x].asOf = edit[x].asOf
    BY <1>3 DEF Outrun, ToRemove
  <2>3. Asked(p)
    BY DEF RoleIInv
  <2>4. Done' # {} => \E d \in Latest' : Agrees(d, p)'
    BY <1>1, <1>2, <2>1, <2>3 DEF Asked
  <2>5. ASSUME NEW x \in Edit, Outrun(x, p)'
        PROVE  \E d \in Latest' : Agrees(d, p)' /\ edit'[x].asOf < edit'[d].place
    <3>1. PICK d \in Latest : Agrees(d, p) /\ edit[x].asOf < edit[d].place
      BY <2>2, <2>3, <2>5 DEF Asked
    <3>2. edit'[d] = edit[d] /\ edit'[x].asOf = edit[x].asOf /\ Agrees(d, p)' /\ d \in Latest'
      BY <1>1, <1>2, <2>1, <2>2, <2>5, <3>1
    <3> QED
      BY <3>1, <3>2
  <2> QED
    BY <2>4, <2>5 DEF Asked
<1>7. \A p \in RolePerm : Explained(p)'
  BY DEF RoleIInv, Explained, Naming, Names
<1>8. \A d \in Edit \ {e} : Undisturbed(d)'
  BY <1>3 DEF RoleIInv, Undisturbed, ToRemove
<1> QED
  BY <1>4, <1>5, <1>6, <1>7, <1>8 DEF RoleIInv

LEMMA ReadKeeps ==
    ASSUME RoleIInv, NEW e \in Edit, NEW desired \in Perms, ReadRole(e, desired)
    PROVE  RoleIInv'
<1>1. EditsTyped /\ Len(setTrail) \in Nat
  BY DEF RoleIInv, EditsTyped
<1>2. /\ held' = held /\ setTrail' = setTrail
      /\ \A d \in Edit \ {e} : edit'[d] = edit[d]
      /\ edit[e].pc = "idle"
      /\ edit'[e].pc = "read" /\ edit'[e].desired = desired /\ edit'[e].read = held
      /\ edit'[e].gone = {} /\ edit'[e].asOf = Len(setTrail)
      /\ EditsTyped'
  BY <1>1, ReadIs
<1>3. edit'[e].pc \notin Writing
  BY <1>2 DEF Writing
<1>4. \A p \in RolePerm : ~Outrun(e, p)'
  BY <1>2, <1>3 DEF Outrun, Writing
<1>5. Undisturbed(e)'
  BY <1>2, <1>3 DEF Undisturbed, Writing
<1> QED
  BY <1>1, <1>2, <1>3, <1>4, <1>5, QuietStep

LEMMA RemoveKeeps ==
    ASSUME RoleIInv, NEW e \in Edit, RemoveRows(e)
    PROVE  RoleIInv'
<1>1. EditsTyped
  BY DEF RoleIInv
<1>2. /\ held' = held /\ setTrail' = setTrail
      /\ \A d \in Edit \ {e} : edit'[d] = edit[d]
      /\ edit[e].pc = "read"
      /\ edit'[e].pc = "removed" /\ edit'[e].desired = edit[e].desired
      /\ edit'[e].read = edit[e].read /\ edit'[e].asOf = edit[e].asOf
      /\ edit'[e].gone = ToRemove(e) \cap held
      /\ EditsTyped'
  BY <1>1, RemoveIs
<1>3. Editing(e)
  BY <1>2 DEF Editing
<1>4. edit'[e].asOf <= Len(setTrail)
  BY <1>2, <1>3 DEF RoleIInv, Ordered
<1>5. edit'[e].gone \subseteq edit'[e].read \ edit'[e].desired /\ edit'[e].gone \subseteq held
  BY <1>2 DEF ToRemove
<1>6. \A d \in Edit \ {e} : Editing(d) => edit[d].gone \cap edit'[e].gone = {}
  <2>1. ToRemove(e) \cap held \cap Going(e) = {}
    BY DEF RemoveRows
  <2>2. \A d \in Edit \ {e} : Editing(d) => edit[d].gone \subseteq Going(e)
    BY DEF Going
  <2> QED
    BY <1>2, <2>1, <2>2
<1>7. \A p \in RolePerm : Outrun(e, p)' => Outrun(e, p) /\ edit'[e].asOf = edit[e].asOf
  BY <1>2, <1>3 DEF Outrun, ToRemove
<1>8. Undisturbed(e)'
  <2>1. edit[e].asOf = Len(setTrail) => edit[e].read = held
    BY <1>3 DEF RoleIInv, Undisturbed
  <2> QED
    BY <1>2, <2>1 DEF Undisturbed, ToRemove
<1> QED
  BY <1>2, <1>4, <1>5, <1>6, <1>7, <1>8, QuietStep

LEMMA FailKeeps ==
    ASSUME RoleIInv, NEW e \in Edit, Editing(e), edit' = [edit EXCEPT ![e] = NewEdit("failed")],
           held' = held, setTrail' = setTrail
    PROVE  RoleIInv'
<1>1. EditsTyped
  BY DEF RoleIInv
<1>2. /\ \A d \in Edit \ {e} : edit'[d] = edit[d]
      /\ edit'[e].pc = "failed" /\ edit'[e].gone = {} /\ edit'[e].read = {}
      /\ EditsTyped'
  BY <1>1, FailedIs
<1>3. edit[e].pc # "done" /\ ~Editing(e)' /\ edit'[e].pc \notin Writing
  BY <1>2 DEF Editing, Writing
<1>4. \A p \in RolePerm : ~Outrun(e, p)'
  BY <1>3 DEF Outrun
<1>5. Undisturbed(e)'
  BY <1>2, <1>3 DEF Undisturbed
<1> QED
  BY <1>2, <1>3, <1>4, <1>5, QuietStep

LEMMA InsertKeeps ==
    ASSUME RoleIInv, NEW e \in Edit, InsertRows(e), ToAdd(e) \cap held = {}
    PROVE  RoleIInv'
<1>1. EditsTyped
  BY DEF RoleIInv
<1>2. /\ held' = held /\ setTrail' = setTrail
      /\ \A d \in Edit \ {e} : edit'[d] = edit[d]
      /\ edit[e].pc = "removed"
      /\ edit'[e].pc = "written" /\ edit'[e].desired = edit[e].desired
      /\ edit'[e].read = edit[e].read /\ edit'[e].asOf = edit[e].asOf
      /\ edit'[e].gone = edit[e].gone
      /\ edit'[e].answer = (held \ edit[e].gone) \union ToAdd(e)
      /\ EditsTyped'
  BY <1>1, InsertIs
<1>3. Editing(e) /\ edit[e].pc \in Writing
  BY <1>2 DEF Editing, Writing
<1>4. edit'[e].asOf <= Len(setTrail)
  BY <1>2, <1>3 DEF RoleIInv, Ordered
<1>5. /\ edit'[e].gone \subseteq edit'[e].read \ edit'[e].desired
      /\ edit'[e].gone \subseteq held
      /\ \A d \in Edit \ {e} : Editing(d) => edit[d].gone \cap edit'[e].gone = {}
  BY <1>2, <1>3 DEF RoleIInv, GoneApart
<1>6. \A p \in RolePerm : Outrun(e, p)' => Outrun(e, p) /\ edit'[e].asOf = edit[e].asOf
  BY <1>2, <1>3 DEF Outrun, ToRemove
<1>7. Undisturbed(e)'
  <2>1. edit[e].asOf = Len(setTrail) => edit[e].read = held /\ edit[e].gone = ToRemove(e)
    BY <1>3 DEF RoleIInv, Undisturbed
  <2>2. edit'[e].asOf = Len(setTrail) => /\ edit'[e].read = held
                                         /\ edit'[e].gone = edit'[e].read \ edit'[e].desired
    BY <1>2, <2>1 DEF ToRemove
  <2>3. edit'[e].asOf = Len(setTrail) => edit'[e].answer = edit'[e].desired
    <3>1. edit[e].asOf = Len(setTrail) => (held \ edit[e].gone) \union ToAdd(e) = edit[e].desired
      BY <2>1 DEF ToAdd, ToRemove
    <3> QED
      BY <1>2, <3>1
  <2> QED
    BY <1>2, <2>2, <2>3 DEF Undisturbed, ToRemove
<1> QED
  BY <1>2, <1>4, <1>5, <1>6, <1>7, QuietStep

-----------------------------------------------------------------------------
(* The commit.  What it does to one permission, ...                          *)
LEMMA CommitHas ==
    ASSUME EditsTyped, GoneApart, NEW e \in Edit, CommitEdit(e), NEW p \in RolePerm
    PROVE  /\ p \in held' <=> (p \in held /\ p \notin edit[e].gone) \/ p \in ToAdd(e)
           /\ (p \in ToAdd(e) \union ToRemove(e)) \/ (p \in held' <=> p \in held)
           /\ ~Agrees(e, p)' => Outrun(e, p) /\ (p \in held' <=> p \in held)
<1>1. /\ held' = (held \ edit[e].gone) \union ToAdd(e)
      /\ edit[e].pc = "written" /\ edit'[e].desired = edit[e].desired
  BY CommitIs
<1>2. edit[e].gone \subseteq edit[e].read \ edit[e].desired
  BY DEF GoneApart
<1>3. Editing(e) /\ edit[e].pc \in Writing
  BY <1>1 DEF Editing, Writing
<1>4. p \in held' <=> (p \in held /\ p \notin edit[e].gone) \/ p \in ToAdd(e)
  BY <1>1
<1>5. (p \in ToAdd(e) \union ToRemove(e)) \/ (p \in held' <=> p \in held)
  BY <1>2, <1>4 DEF ToRemove
<1>6. ASSUME ~Agrees(e, p)'
      PROVE  Outrun(e, p) /\ (p \in held' <=> p \in held)
  <2>1. ~(p \in held' <=> p \in edit[e].desired)
    BY <1>1, <1>6 DEF Agrees
  <2>2. CASE p \in edit[e].desired
    <3>1. p \notin held' /\ p \notin edit[e].gone /\ p \in edit[e].read /\ p \notin held
      BY <1>2, <1>4, <2>1, <2>2 DEF ToAdd
    <3> QED
      BY <1>3, <3>1 DEF Outrun
  <2>3. CASE p \notin edit[e].desired
    <3>1. p \in held' /\ p \in held /\ p \notin edit[e].gone
      BY <1>4, <2>1, <2>3 DEF ToAdd
    <3>2. p \in edit[e].read => p \in ToRemove(e) \ edit[e].gone
      BY <2>3, <3>1 DEF ToRemove
    <3> QED
      BY <1>3, <3>1, <3>2 DEF Outrun
  <2> QED
    BY <2>2, <2>3
<1> QED
  BY <1>4, <1>5, <1>6

(* ... and to the order of the requests: it is the latest, and whoever was    *)
(* and committed after its read is so still.                                 *)
LEMMA CommitIsLatest ==
    ASSUME EditsTyped, Ordered, NEW e \in Edit, CommitEdit(e)
    PROVE  /\ Ordered'
           /\ e \in Latest'
           /\ \A d \in Latest : edit[e].asOf < edit[d].place => d \in Latest'
           /\ \A d \in Latest : d \in Done /\ d # e /\ edit'[d] = edit[d]
           /\ \A x \in Edit : Editing(x)' => /\ x # e /\ edit'[x] = edit[x] /\ Editing(x)
                                             /\ edit[x].asOf < edit'[e].place
<1> DEFINE n == Len(setTrail)
<1>1. /\ Len(setTrail') = n + 1
      /\ \A d \in Edit \ {e} : edit'[d] = edit[d]
      /\ edit[e].pc = "written" /\ edit'[e].pc = "done"
      /\ edit'[e].asOf = edit[e].asOf /\ edit'[e].place = n + 1
  BY CommitIs
<1>2. n \in Nat /\ \A d \in Edit : edit[d].asOf \in Nat /\ edit[d].place \in Nat
  BY DEF EditsTyped, EditRec
<1> HIDE DEF n
<1>3. Done' = Done \union {e} /\ e \notin Done /\ \A d \in Done : d \in Edit \ {e}
  BY <1>1 DEF Done
<1>4. Editing(e) /\ ~Editing(e)'
  BY <1>1 DEF Editing, Writing
<1>5. \A d \in Edit \ {e} : Editing(d)' <=> Editing(d)
  BY <1>1 DEF Editing
<1>6. /\ \A d \in Edit : Editing(d) => edit[d].asOf <= n
      /\ \A d \in Done : edit[d].asOf < edit[d].place /\ edit[d].place <= n
  BY DEF Ordered, n
<1>7. \A d \in Done : edit[d].asOf < n + 1 /\ edit[d].place <= n + 1
  BY <1>2, <1>3, <1>6
<1>8. \A x \in Edit : Editing(x) => edit[x].asOf < n + 1
  BY <1>2, <1>6
<1>9. Ordered'
  <2>1. \A d \in Edit : Editing(d)' => edit'[d].asOf <= n + 1
    BY <1>1, <1>2, <1>4, <1>5, <1>6
  <2>2. \A d \in Done' : edit'[d].asOf < edit'[d].place /\ edit'[d].place <= n + 1
    <3> SUFFICES ASSUME NEW d \in Done' PROVE edit'[d].asOf < edit'[d].place /\ edit'[d].place <= n + 1
      OBVIOUS
    <3>1. CASE d = e
      BY <1>1, <1>2, <1>4, <1>8, <3>1
    <3>2. CASE d \in Done
      BY <1>1, <1>3, <1>6, <1>7, <3>2
    <3> QED
      BY <1>3, <3>1, <3>2
  <2> QED
    BY <1>1, <2>1, <2>2 DEF Ordered
<1>10. e \in Latest'
  <2>1. \A d \in Done' \ {e} : edit'[d].asOf < edit'[e].place
    BY <1>1, <1>3, <1>7
  <2> QED
    BY <1>3, <2>1 DEF Latest
<1>11. \A d \in Latest : d \in Done /\ d # e /\ edit'[d] = edit[d]
  BY <1>1, <1>3 DEF Latest
<1>12. ASSUME NEW d \in Latest, edit[e].asOf < edit[d].place
       PROVE  d \in Latest'
  <2>1. \A c \in Done' \ {d} : edit'[c].asOf < edit'[d].place
    BY <1>1, <1>3, <1>11, <1>12 DEF Latest
  <2> QED
    BY <1>3, <1>11, <2>1 DEF Latest
<1> QED
  BY <1>1, <1>4, <1>5, <1>8, <1>9, <1>10, <1>11, <1>12

LEMMA CommitAsked ==
    ASSUME RoleIInv, NEW e \in Edit, CommitEdit(e), NEW p \in RolePerm
    PROVE  Asked(p)'
<1>1. EditsTyped /\ GoneApart /\ Ordered /\ Asked(p)
  BY DEF RoleIInv
<1>2. ~Agrees(e, p)' => Outrun(e, p) /\ (p \in held' <=> p \in held)
  BY <1>1, CommitHas
<1>3. /\ e \in Latest'
      /\ \A d \in Latest : edit[e].asOf < edit[d].place => d \in Latest'
      /\ \A d \in Latest : d \in Done /\ d # e /\ edit'[d] = edit[d]
      /\ \A x \in Edit : Editing(x)' => /\ x # e /\ edit'[x] = edit[x] /\ Editing(x)
                                        /\ edit[x].asOf < edit'[e].place
  BY <1>1, CommitIsLatest
<1>4. /\ \A d \in Edit : edit[d].asOf \in Nat /\ edit[d].place \in Nat
      /\ edit[e].pc = "written"
  BY <1>1 DEF EditsTyped, EditRec, CommitEdit
<1>5. CASE Agrees(e, p)'
  BY <1>3, <1>5 DEF Asked, Outrun
<1>6. CASE ~Agrees(e, p)'
  <2>1. Outrun(e, p) /\ (p \in held' <=> p \in held)
    BY <1>2, <1>6
  <2>2. PICK w \in Latest : Agrees(w, p) /\ edit[e].asOf < edit[w].place
    BY <1>1, <2>1 DEF Asked
  <2>3. \A d \in Latest : Agrees(d, p)' <=> Agrees(d, p)
    BY <1>3, <2>1 DEF Agrees
  <2>4. w \in Latest' /\ Agrees(w, p)' /\ edit'[w] = edit[w] /\ edit[w].place \in Nat
    BY <1>3, <1>4, <2>2, <2>3 DEF Done
  <2>5. ASSUME NEW x \in Edit, Outrun(x, p)'
        PROVE  \E d \in Latest' : Agrees(d, p)' /\ edit'[x].asOf < edit'[d].place
    <3>1. Editing(x) /\ edit'[x] = edit[x]
      BY <1>3, <2>5 DEF Outrun
    <3>2. Outrun(x, p)
      BY <2>1, <2>5, <3>1 DEF Outrun, ToRemove
    <3>3. PICK v \in Latest : Agrees(v, p) /\ edit[x].asOf < edit[v].place
      BY <1>1, <3>2 DEF Asked
    <3>4. v \in Edit /\ w \in Edit /\ edit'[v] = edit[v]
      BY <1>3 DEF Done
    <3>5. CASE edit[w].place <= edit[v].place
      <4>1. edit[e].asOf < edit[v].place
        BY <1>4, <2>2, <3>4, <3>5
      <4>2. v \in Latest' /\ Agrees(v, p)'
        BY <1>3, <2>3, <3>3, <4>1
      <4> QED
        BY <3>1, <3>3, <3>4, <4>2
    <3>6. CASE edit[v].place < edit[w].place
      <4>1. edit[x].asOf < edit[w].place
        BY <1>4, <3>3, <3>4, <3>6
      <4> QED
        BY <2>4, <3>1, <4>1
    <3> QED
      BY <1>4, <3>4, <3>5, <3>6
  <2> QED
    BY <2>4, <2>5 DEF Asked
<1> QED
  BY <1>5, <1>6

LEMMA CommitExplained ==
    ASSUME RoleIInv, NEW e \in Edit, CommitEdit(e), NEW p \in RolePerm
    PROVE  Explained(p)'
<1> DEFINE n == Len(setTrail)
<1>1. EditsTyped /\ GoneApart /\ Explained(p)
  BY DEF RoleIInv
<1>2. /\ setTrail'[n + 1] = Record(e)
      /\ \A k \in DOMAIN setTrail : setTrail'[k] = setTrail[k]
      /\ DOMAIN setTrail' = DOMAIN setTrail \union {n + 1}
  BY <1>1, CommitIs
<1>3. /\ p \in held' <=> (p \in held /\ p \notin edit[e].gone) \/ p \in ToAdd(e)
      /\ (p \in ToAdd(e) \union ToRemove(e)) \/ (p \in held' <=> p \in held)
  BY <1>1, CommitHas
<1>4. n \in Nat /\ DOMAIN setTrail = 1..n
  BY <1>1 DEF EditsTyped
<1>5. /\ setTrail'[n + 1].added = ToAdd(e) /\ setTrail'[n + 1].removed = ToRemove(e)
      /\ setTrail'[n + 1].found = edit[e].gone
  BY <1>2 DEF Record
<1> HIDE DEF n
<1>6. SUFFICES ASSUME \A k \in Naming(p)' : p \in setTrail'[k].removed => p \in setTrail'[k].found,
                      Naming(p)' # {}
               PROVE  \E k \in Naming(p)' : /\ \A j \in Naming(p)' : j <= k
                                            /\ (p \in held') = (p \in setTrail'[k].added)
  BY DEF Explained
<1>7. CASE p \in ToAdd(e) \union ToRemove(e)
  <2>1. n + 1 \in Naming(p)'
    BY <1>2, <1>5, <1>7 DEF Naming, Names
  <2>2. \A j \in Naming(p)' : j <= n + 1
    BY <1>2, <1>4 DEF Naming
  <2>3. p \in ToRemove(e) => p \in edit[e].gone
    BY <1>5, <1>6, <2>1
  <2>4. p \in held' <=> p \in ToAdd(e)
    BY <1>3, <1>7, <2>3
  <2> QED
    BY <1>5, <2>1, <2>2, <2>4
<1>8. CASE p \notin ToAdd(e) \union ToRemove(e)
  <2>1. p \in held' <=> p \in held
    BY <1>3, <1>8
  <2>2. Naming(p)' = Naming(p)
    <3>1. \A k \in DOMAIN setTrail : Names(p, k)' <=> Names(p, k)
      BY <1>2 DEF Names
    <3>2. p \notin setTrail'[n + 1].added \union setTrail'[n + 1].removed
      BY <1>5, <1>8
    <3>3. n + 1 \notin Naming(p)'
      BY <3>2 DEF Naming, Names
    <3> QED
      BY <1>2, <3>1, <3>3 DEF Naming
  <2>3. \A k \in Naming(p) : setTrail'[k] = setTrail[k]
    BY <1>2 DEF Naming
  <2>4. PICK k \in Naming(p) : /\ \A j \in Naming(p) : j <= k
                               /\ (p \in held) = (p \in setTrail[k].added)
    BY <1>1, <1>6, <2>2, <2>3 DEF Explained
  <2> QED
    BY <2>1, <2>2, <2>3, <2>4
<1> QED
  BY <1>7, <1>8

LEMMA CommitKeeps ==
    ASSUME RoleIInv, NEW e \in Edit, CommitEdit(e)
    PROVE  RoleIInv'
<1> DEFINE n == Len(setTrail)
<1>1. EditsTyped /\ GoneApart /\ Ordered
  BY DEF RoleIInv
<1>2. /\ held' = (held \ edit[e].gone) \union ToAdd(e)
      /\ Len(setTrail') = n + 1
      /\ \A d \in Edit \ {e} : edit'[d] = edit[d]
      /\ edit[e].pc = "written"
      /\ edit'[e].pc = "done" /\ edit'[e].desired = edit[e].desired
      /\ edit'[e].read = edit[e].read /\ edit'[e].asOf = edit[e].asOf
      /\ edit'[e].gone = edit[e].gone /\ edit'[e].answer = edit[e].answer
      /\ edit'[e].place = n + 1
      /\ EditsTyped'
  BY <1>1, CommitIs
<1>3. Editing(e) /\ ~Editing(e)' /\ edit'[e].pc \notin Writing
  BY <1>2 DEF Editing, Writing
<1>4. \A d \in Edit \ {e} : Editing(d)' <=> Editing(d)
  BY <1>2 DEF Editing
<1>5. n \in Nat /\ \A d \in Edit : edit[d].asOf \in Nat
  BY <1>1 DEF EditsTyped, EditRec
<1> HIDE DEF n
<1>6. Ordered'
  BY <1>1, CommitIsLatest
<1>7. GoneApart'
  <2>1. \A d \in Edit : edit'[d].gone \subseteq edit'[d].read \ edit'[d].desired
    BY <1>1, <1>2 DEF GoneApart
  <2>2. ASSUME NEW d \in Edit, edit'[d].pc \in Writing
        PROVE  edit'[d].gone \subseteq held'
    <3>1. d # e /\ edit'[d] = edit[d] /\ Editing(d) /\ edit[d].pc \in Writing
      BY <1>2, <1>3, <2>2 DEF Editing, Writing
    <3>2. edit[d].gone \subseteq held /\ edit[d].gone \cap edit[e].gone = {}
      BY <1>1, <1>3, <3>1 DEF GoneApart
    <3> QED
      BY <1>2, <3>1, <3>2
  <2>3. \A c, d \in Edit : c # d /\ Editing(c)' /\ Editing(d)' => edit'[c].gone \cap edit'[d].gone = {}
    BY <1>1, <1>2, <1>3, <1>4 DEF GoneApart
  <2> QED
    BY <2>1, <2>2, <2>3 DEF GoneApart, Writing
<1>8. \A d \in Edit : Undisturbed(d)'
  <2>1. ASSUME NEW d \in Edit \ {e} PROVE Undisturbed(d)'
    <3>1. Editing(d)' => edit'[d].asOf # Len(setTrail')
      <4>1. Editing(d) => edit[d].asOf <= n
        BY <1>1 DEF Ordered, n
      <4> QED
        BY <1>2, <1>4, <1>5, <4>1
    <3>2. Undisturbed(d) /\ edit'[d] = edit[d]
      BY <1>2 DEF RoleIInv
    <3> QED
      BY <3>1, <3>2 DEF Undisturbed
  <2>2. Undisturbed(e)'
    <3>1. edit[e].asOf <= n
      BY <1>1, <1>3 DEF Ordered, n
    <3>2. n + 1 <= edit[e].asOf + 1 => edit[e].asOf = n
      BY <1>5, <3>1
    <3>3. edit[e].asOf = n => edit[e].answer = edit[e].desired
      BY <1>2, <1>3 DEF RoleIInv, Undisturbed, n
    <3> QED
      BY <1>2, <1>3, <3>2, <3>3 DEF Undisturbed
  <2> QED
    BY <2>1, <2>2
<1> QED
  BY <1>2, <1>6, <1>7, <1>8, CommitAsked, CommitExplained DEF RoleIInv

-----------------------------------------------------------------------------
LEMMA RoleSteps == RoleIInv /\ [RoleNext]_roleVars => RoleIInv'
<1> SUFFICES ASSUME RoleIInv, [RoleNext]_roleVars PROVE RoleIInv'
  OBVIOUS
<1>1. ASSUME NEW e \in Edit, NEW desired \in SUBSET RolePerm, ReadRole(e, desired) PROVE RoleIInv'
  BY <1>1, ReadKeeps DEF Perms
<1>2. ASSUME NEW e \in Edit, RemoveRows(e) PROVE RoleIInv'
  BY <1>2, RemoveKeeps
<1>3. ASSUME NEW e \in Edit, InsertRows(e) PROVE RoleIInv'
  <2>1. CASE ToAdd(e) \cap held = {}
    BY <1>3, <2>1, InsertKeeps
  <2>2. CASE ToAdd(e) \cap held # {}
    <3>1. /\ Editing(e) /\ edit' = [edit EXCEPT ![e] = NewEdit("failed")]
          /\ held' = held /\ setTrail' = setTrail
      BY <1>3, <2>2 DEF InsertRows, Editing, Writing
    <3> QED
      BY <3>1, FailKeeps
  <2> QED
    BY <2>1, <2>2
<1>4. ASSUME NEW e \in Edit, CommitEdit(e) PROVE RoleIInv'
  BY <1>4, CommitKeeps
<1>5. ASSUME NEW e \in Edit, FailEdit(e) PROVE RoleIInv'
  BY <1>5, FailKeeps DEF FailEdit
<1>6. CASE UNCHANGED roleVars
  BY <1>6 DEF roleVars, RoleIInv, EditsTyped, GoneApart, Ordered, Asked, Explained, Naming,
      Names, Undisturbed, Outrun, Agrees, Latest, Done, Editing, ToRemove, Writing
<1> QED
  BY <1>1, <1>2, <1>3, <1>4, <1>5, <1>6 DEF RoleNext

(* However the replacements of one role's permissions overlap, what they are *)
(* keeps to the invariant.  Of every set of requests and permissions.        *)
THEOREM RoleInvariant == RoleSpec => []RoleIInv
BY RoleInits, RoleSteps, PTL DEF RoleSpec

(* EachAsAsked, TrailExplainsRole and AnswerIsTheRole, the three parts of    *)
(* RoleAsRecorded: each permission is in the role or out of it as one of the *)
(* latest requests asked, the last record that names it says which, and a    *)
(* request that nothing overtook answers with the set it asked for.          *)
THEOREM RolesAreRecorded == RoleSpec => []RoleAsRecorded
<1>1. RoleIInv => RoleAsRecorded
  <2> SUFFICES ASSUME RoleIInv PROVE RoleAsRecorded
    OBVIOUS
  <2>1. EachAsAsked
    BY DEF RoleIInv, Asked, Agrees, EachAsAsked
  <2>2. TrailExplainsRole
    <3> SUFFICES ASSUME NEW p \in RolePerm, Naming(p) # {},
                        \A k \in Naming(p) : p \in setTrail[k].removed => p \in setTrail[k].found
                 PROVE  (p \in held) = (p \in setTrail[CHOOSE k \in Naming(p) : \A j \in Naming(p) : j <= k].added)
      BY DEF TrailExplainsRole, Naming
    <3>1. PICK k \in Naming(p) : /\ \A j \in Naming(p) : j <= k
                                 /\ (p \in held) = (p \in setTrail[k].added)
      BY DEF RoleIInv, Explained
    <3> DEFINE last == CHOOSE i \in Naming(p) : \A j \in Naming(p) : j <= i
    <3>2. last \in Naming(p) /\ \A j \in Naming(p) : j <= last
      BY <3>1
    <3>3. \A i \in Naming(p) : i \in Nat
      BY DEF RoleIInv, EditsTyped, Naming
    <3> HIDE DEF last
    <3>4. last = k
      BY <3>1, <3>2, <3>3
    <3> QED
      BY <3>1, <3>4 DEF last
  <2>3. AnswerIsTheRole
    BY DEF RoleIInv, Undisturbed, AnswerIsTheRole, Done
  <2> QED
    BY <2>1, <2>2, <2>3 DEF RoleAsRecorded
<1> QED
  BY <1>1, RoleInvariant, PTL

-----------------------------------------------------------------------------
(* Authorization.                                                            *)

(* Above a node is what its path names.                                      *)
LEMMA AncestorsAreOn ==
    ASSUME TreeRows(above, authPath), NEW n \in Node, Shown(n)
    PROVE  /\ Ancestors(n) = On(authPath[n]) /\ Ancestors(n) \in SUBSET Node
           /\ authPath[n] \in Seq(Node) /\ authPath[n] # <<>>
           /\ Len(authPath[n]) \in Nat /\ authPath[n][Len(authPath[n])] = n
<1>1. Way(above, authPath[n], n)
  BY DEF TreeRows, Shown
<1>2. Forest!Upwards(above, n) = On(authPath[n])
  BY <1>1, Above
<1>3. Tree!Upwards(above, n) = Forest!Upwards(above, n)
  BY DEF Tree!Upwards, Forest!Upwards
<1>4. Tree!Upwards(above, n) \in SUBSET Node
  BY DEF Tree!Upwards
<1>5. /\ authPath[n] \in Seq(Node) /\ authPath[n] # <<>>
      /\ Len(authPath[n]) \in Nat /\ authPath[n][Len(authPath[n])] = n
  BY <1>1, WayIs DEF Way
<1> QED BY <1>2, <1>3, <1>4, <1>5 DEF Ancestors

(* A path within another ends at a node the other names, and begins it.      *)
LEMMA PrefixIs ==
    ASSUME NEW p \in Seq(Node), NEW s \in Seq(Node), IsPrefix(p, s)
    PROVE  /\ Len(p) \in Nat /\ Len(s) \in Nat /\ Len(p) <= Len(s)
           /\ \A i \in 1 .. Len(p) : p[i] = s[i]
           /\ p # <<>> => p[Len(p)] \in On(s)
<1>1. Len(p) \in Nat /\ Len(s) \in Nat
  BY LenProperties
<1>2. Len(p) <= Len(s) /\ SubSeq(p, 1, Len(p)) = SubSeq(s, 1, Len(p))
  BY DEF IsPrefix
<1>3. SubSeq(p, 1, Len(p)) = p
  BY SubSeqFull
<1>4. ASSUME NEW i \in 1 .. Len(p) PROVE p[i] = s[i]
  <2>1. \A j \in 1 .. Len(s) : s[j] \in Node
    BY ElementOfSeq
  <2>2. Len(p) \in Int /\ 1 \in Int /\ 1 <= Len(p) /\ \A j \in 1 .. Len(p) : s[j] \in Node
    BY <1>1, <1>2, <2>1
  <2>3. \A j \in 1 .. Len(p) - 1 + 1 : SubSeq(s, 1, Len(p))[j] = s[1 + j - 1]
    BY <2>2, SubSeqProperties
  <2>4. i \in 1 .. Len(p) - 1 + 1 /\ 1 + i - 1 = i
    BY <1>1
  <2> QED BY <1>2, <1>3, <2>3, <2>4
<1>5. ASSUME p # <<>> PROVE p[Len(p)] \in On(s)
  <2>1. Len(p) \in 1 .. Len(p) /\ Len(p) \in 1 .. Len(s)
    BY <1>1, <1>2, <1>5, EmptySeq
  <2> QED BY <1>4, <2>1 DEF On
<1> QED BY <1>1, <1>2, <1>4, <1>5

LEMMA PrefixMade ==
    ASSUME NEW p \in Seq(Node), NEW s \in Seq(Node), Len(p) <= Len(s),
           \A i \in 1 .. Len(p) : p[i] = s[i]
    PROVE  IsPrefix(p, s)
<1>1. Len(p) \in Nat /\ Len(s) \in Nat
  BY LenProperties
<1>2. SubSeq(p, 1, Len(p)) = p
  BY SubSeqFull
<1> DEFINE b == SubSeq(s, 1, Len(p))
<1>3. b = p
  <2>1. \A j \in 1 .. Len(s) : s[j] \in Node
    BY ElementOfSeq
  <2>2. Len(p) \in Int /\ 1 \in Int /\ \A j \in 1 .. Len(p) : s[j] \in Node
    BY <1>1, <2>1
  <2>3. /\ b \in Seq(Node) /\ Len(b) = IF 1 <= Len(p) THEN Len(p) - 1 + 1 ELSE 0
        /\ \A j \in 1 .. Len(p) - 1 + 1 : b[j] = s[1 + j - 1]
    BY <2>2, SubSeqProperties
  <2> HIDE DEF b
  <2>4. Len(b) = Len(p) /\ \A j \in 1 .. Len(p) : j \in 1 .. Len(p) - 1 + 1 /\ 1 + j - 1 = j
    BY <1>1, <2>3
  <2>5. \A j \in 1 .. Len(p) : b[j] = p[j]
    BY <2>3, <2>4
  <2> QED BY <2>3, <2>4, <2>5, SeqEqual
<1> QED BY <1>1, <1>2, <1>3 DEF IsPrefix

(* "Within" is an order.                                                     *)
LEMMA PrefixesOrder ==
    ASSUME NEW p \in Seq(Node), NEW q \in Seq(Node), NEW s \in Seq(Node)
    PROVE  /\ IsPrefix(p, p)
           /\ IsPrefix(p, q) /\ IsPrefix(q, s) => IsPrefix(p, s)
           /\ IsPrefix(p, q) /\ Len(q) <= Len(p) => p = q
<1>1. Len(p) \in Nat /\ Len(q) \in Nat /\ Len(s) \in Nat
  BY LenProperties
<1>2. IsPrefix(p, p)
  BY <1>1, PrefixMade
<1>3. ASSUME IsPrefix(p, q), IsPrefix(q, s) PROVE IsPrefix(p, s)
  <2>1. /\ Len(p) <= Len(q) /\ \A i \in 1 .. Len(p) : p[i] = q[i]
        /\ Len(q) <= Len(s) /\ \A i \in 1 .. Len(q) : q[i] = s[i]
    BY <1>3, PrefixIs
  <2>2. Len(p) <= Len(s) /\ \A i \in 1 .. Len(p) : i \in 1 .. Len(q)
    BY <1>1, <2>1
  <2>3. \A i \in 1 .. Len(p) : p[i] = s[i]
    BY <2>1, <2>2
  <2> QED BY <2>2, <2>3, PrefixMade
<1>4. ASSUME IsPrefix(p, q), Len(q) <= Len(p) PROVE p = q
  <2>1. Len(p) <= Len(q) /\ \A i \in 1 .. Len(p) : p[i] = q[i]
    BY <1>4, PrefixIs
  <2>2. Len(p) = Len(q)
    BY <1>1, <1>4, <2>1
  <2> QED BY <2>1, <2>2, SeqEqual
<1> QED BY <1>2, <1>3, <1>4

-----------------------------------------------------------------------------
(* What grants assembled from bindings say.                                  *)
PathsOf(b, k) == {authPath[t[2]] : t \in {u \in b : k \in RoleKeys[u[1]]}}
Bindings(b) == b \in SUBSET (Role \X Node) /\ \A t \in b : Shown(t[2])

LEMMA PathOfBinding ==
    ASSUME TreeRows(above, authPath), NEW b, Bindings(b), NEW k, NEW p \in PathsOf(b, k)
    PROVE  /\ p \in Seq(Node) /\ p # <<>> /\ Len(p) \in Nat
           /\ \E t \in b : /\ k \in RoleKeys[t[1]] /\ p = authPath[t[2]] /\ t[2] = p[Len(p)]
                           /\ t[2] \in Node /\ Shown(t[2])
<1>1. PICK t \in b : k \in RoleKeys[t[1]] /\ p = authPath[t[2]]
  BY DEF PathsOf
<1>2. t[2] \in Node /\ Shown(t[2])
  BY <1>1 DEF Bindings
<1>3. p \in Seq(Node) /\ p # <<>> /\ Len(p) \in Nat /\ p[Len(p)] = t[2]
  BY <1>1, <1>2, AncestorsAreOn
<1> QED BY <1>1, <1>2, <1>3

LEMMA AssembledAre ==
    ASSUME NEW b, Bindings(b), NEW k
    PROVE  LET g == AssembleGrants(GrantRows(b))
           IN  /\ k \in DOMAIN g <=> \E t \in b : k \in RoleKeys[t[1]]
               /\ k \in DOMAIN g => k \in Key
               /\ k \in DOMAIN g => \A p : p \in g[k] <=>
                     p \in PathsOf(b, k) /\ \A q \in PathsOf(b, k) : q = p \/ ~IsPrefix(q, p)
<1> DEFINE g == AssembleGrants(GrantRows(b))
           rows == GrantRows(b)
           those == {row \in rows : row.key = k}
           distinct == {row.path : row \in those}
<1>1. \A t \in b : t[1] \in Role /\ RoleKeys[t[1]] \subseteq Key
  BY RolesAssumption DEF Bindings
<1>2. \A row : row \in rows <=> \E t \in b, x \in Key :
         row = [role |-> t[1], key |-> x, path |-> authPath[t[2]]] /\ x \in RoleKeys[t[1]]
  <2> TAKE row
  <2>1. row \in RowsOf(b) <=> \E t \in b, x \in Key : row = [role |-> t[1], key |-> x, path |-> authPath[t[2]]]
    BY DEF RowsOf
  <2>2. row \in rows <=> row \in RowsOf(b) /\ row.key \in RoleKeys[row.role]
    BY DEF GrantRows
  <2> QED BY <2>1, <2>2
<1> HIDE DEF rows
<1>3. DOMAIN g = {row.key : row \in rows}
  BY DEF AssembleGrants, rows
<1>4. k \in DOMAIN g <=> \E t \in b : k \in RoleKeys[t[1]]
  <2>1. ASSUME k \in DOMAIN g PROVE \E t \in b : k \in RoleKeys[t[1]]
    <3>1. PICK row \in rows : row.key = k
      BY <1>3, <2>1
    <3>2. PICK t \in b, x \in Key :
             row = [role |-> t[1], key |-> x, path |-> authPath[t[2]]] /\ x \in RoleKeys[t[1]]
      BY <1>2, <3>1
    <3>3. x = k
      BY <3>1, <3>2
    <3> QED BY <3>2, <3>3
  <2>2. ASSUME NEW t \in b, k \in RoleKeys[t[1]] PROVE k \in DOMAIN g
    <3> DEFINE row == [role |-> t[1], key |-> k, path |-> authPath[t[2]]]
    <3>1. k \in Key /\ row.key = k
      BY <1>1, <2>2
    <3>2. row \in rows
      BY <1>2, <2>2, <3>1
    <3> QED BY <1>3, <3>1, <3>2
  <2> QED BY <2>1, <2>2
<1>5. \A p : p \in distinct <=> p \in PathsOf(b, k)
  <2> TAKE p
  <2>1. ASSUME p \in distinct PROVE p \in PathsOf(b, k)
    <3>1. PICK row \in rows : row.key = k /\ p = row.path
      BY <2>1
    <3>2. PICK t \in b, x \in Key :
             row = [role |-> t[1], key |-> x, path |-> authPath[t[2]]] /\ x \in RoleKeys[t[1]]
      BY <1>2, <3>1
    <3>3. x = k /\ p = authPath[t[2]]
      BY <3>1, <3>2
    <3> QED BY <3>2, <3>3 DEF PathsOf
  <2>2. ASSUME p \in PathsOf(b, k) PROVE p \in distinct
    <3>1. PICK t \in b : k \in RoleKeys[t[1]] /\ p = authPath[t[2]]
      BY <2>2 DEF PathsOf
    <3> DEFINE row == [role |-> t[1], key |-> k, path |-> authPath[t[2]]]
    <3>2. k \in Key /\ row.key = k /\ row.path = p
      BY <1>1, <3>1
    <3>3. row \in rows
      BY <1>2, <3>1, <3>2
    <3> QED BY <3>2, <3>3
  <2> QED BY <2>1, <2>2
<1>6. ASSUME k \in DOMAIN g
      PROVE  \A p : p \in g[k] <=> p \in PathsOf(b, k) /\ \A q \in PathsOf(b, k) : q = p \/ ~IsPrefix(q, p)
  <2>1. g[k] = MinimizePaths(those)
    BY <1>3, <1>6 DEF AssembleGrants, rows
  <2>2. MinimizePaths(those) = {p \in distinct : \A q \in distinct : q = p \/ ~IsPrefix(q, p)}
    BY DEF MinimizePaths, PathIsWithin
  <2> HIDE DEF g, distinct, those
  <2> QED BY <1>5, <2>1, <2>2
<1>7. k \in DOMAIN g => k \in Key
  BY <1>1, <1>4
<1> QED BY <1>4, <1>6, <1>7

(* Whatever a path of a binding contains, one of those kept contains.        *)
LEMMA KeptContains ==
    ASSUME TreeRows(above, authPath), NEW b, Bindings(b), NEW k, NEW s \in Seq(Node),
           NEW p \in PathsOf(b, k), IsPrefix(p, s)
    PROVE  LET g == AssembleGrants(GrantRows(b))
           IN  k \in DOMAIN g /\ \E q \in g[k] : IsPrefix(q, s)
<1> DEFINE g == AssembleGrants(GrantRows(b))
           lengths == {Len(q) : q \in {r \in PathsOf(b, k) : IsPrefix(r, s)}}
<1>1. \A q \in PathsOf(b, k) : q \in Seq(Node) /\ Len(q) \in Nat
  BY PathOfBinding
<1>2. lengths \in SUBSET Nat /\ lengths # {}
  BY <1>1
<1>3. PICK l \in lengths : \A x \in lengths : l <= x
  BY <1>2, LeastOf
<1>4. PICK q \in PathsOf(b, k) : IsPrefix(q, s) /\ Len(q) = l
  BY <1>3
<1>5. ASSUME NEW r \in PathsOf(b, k), IsPrefix(r, q) PROVE r = q
  <2>1. r \in Seq(Node) /\ q \in Seq(Node)
    BY <1>1
  <2>2. IsPrefix(r, s)
    BY <1>4, <1>5, <2>1, PrefixesOrder
  <2>3. Len(r) \in lengths
    BY <2>2
  <2>4. Len(q) <= Len(r)
    BY <1>3, <1>4, <2>3
  <2> QED BY <1>5, <2>1, <2>4, PrefixesOrder
<1>6. k \in DOMAIN g
  <2>1. \E t \in b : k \in RoleKeys[t[1]]
    BY DEF PathsOf
  <2> QED BY <2>1, AssembledAre
<1>7. q \in g[k]
  BY <1>5, <1>6, AssembledAre
<1> QED BY <1>4, <1>6, <1>7

(* A node is covered by what its ancestors are bound to.                     *)
LEMMA CoverIs ==
    ASSUME TreeRows(above, authPath), NEW b, Bindings(b), NEW k, NEW n \in Node, Shown(n)
    PROVE  CoversPath(AssembleGrants(GrantRows(b)), k, authPath[n]) <=> Meant(b, k, Ancestors(n))
<1> DEFINE g == AssembleGrants(GrantRows(b))
<1>1. Ancestors(n) = On(authPath[n]) /\ authPath[n] \in Seq(Node)
  BY AncestorsAreOn
<1>2. CoversPath(g, k, authPath[n]) <=> k \in DOMAIN g /\ \E p \in g[k] : IsPrefix(p, authPath[n])
  BY DEF CoversPath, HoldsPermission, PathIsWithin
<1>3. ASSUME k \in DOMAIN g, NEW p \in g[k], IsPrefix(p, authPath[n]) PROVE Meant(b, k, Ancestors(n))
  <2>1. p \in PathsOf(b, k)
    BY <1>3, AssembledAre
  <2>2. PICK t \in b : k \in RoleKeys[t[1]] /\ t[2] = p[Len(p)] /\ p \in Seq(Node) /\ p # <<>>
    BY <2>1, PathOfBinding
  <2>3. t[2] \in On(authPath[n])
    BY <1>1, <1>3, <2>2, PrefixIs
  <2> QED BY <1>1, <2>2, <2>3 DEF Meant
<1>4. ASSUME Meant(b, k, Ancestors(n)) PROVE k \in DOMAIN g /\ \E p \in g[k] : IsPrefix(p, authPath[n])
  <2>1. PICK t \in b : k \in RoleKeys[t[1]] /\ t[2] \in On(authPath[n])
    BY <1>1, <1>4 DEF Meant
  <2>2. t[2] \in Node /\ above[t[2]] # Absent /\ above[n] # Absent
    BY DEF Bindings, Shown
  <2>3. IsPrefix(authPath[t[2]], authPath[n])
    BY <2>1, <2>2, PrefixIsAncestry
  <2>4. authPath[t[2]] \in PathsOf(b, k)
    BY <2>1 DEF PathsOf
  <2> QED BY <1>1, <2>3, <2>4, KeptContains
<1> HIDE DEF g
<1> QED BY <1>2, <1>3, <1>4 DEF g

LEMMA CoverHolds ==
    ASSUME TreeRows(above, authPath), Bindings(bound)
    PROVE  CoverIsTheTree /\ NoPathToSpare
<1> DEFINE now == AssembleGrants(GrantRows(bound))
<1>1. ASSUME NEW n \in Node, Shown(n), NEW k \in Key
      PROVE  /\ CoversPath(now, k, authPath[n]) <=> Meant(bound, k, Ancestors(n))
             /\ (\E p \in AllowedPathsFor(now, k) : PathIsWithin(authPath[n], p))
                <=> Meant(bound, k, Ancestors(n))
  <2>1. CoversPath(now, k, authPath[n]) <=> Meant(bound, k, Ancestors(n))
    BY <1>1, CoverIs
  <2>2. (\E p \in AllowedPathsFor(now, k) : PathIsWithin(authPath[n], p)) <=> CoversPath(now, k, authPath[n])
    BY DEF AllowedPathsFor, CoversPath
  <2> QED BY <2>1, <2>2
<1>2. CoverIsTheTree
  BY <1>1 DEF CoverIsTheTree
<1>3. ASSUME NEW k \in DOMAIN now, NEW p \in now[k]
      PROVE  \E n \in Node : \A q \in now[k] : PathIsWithin(authPath[n], q) <=> q = p
  <2>1. p \in PathsOf(bound, k) /\ \A q \in PathsOf(bound, k) : q = p \/ ~IsPrefix(q, p)
    BY AssembledAre
  <2>2. \A q \in now[k] : q \in PathsOf(bound, k)
    BY AssembledAre
  <2>3. p \in Seq(Node) /\ \E n \in Node : p = authPath[n]
    BY <2>1, PathOfBinding
  <2>4. IsPrefix(p, p)
    BY <2>3, PrefixesOrder
  <2> HIDE DEF now
  <2> QED BY <2>1, <2>2, <2>3, <2>4 DEF PathIsWithin
<1>4. NoPathToSpare
  BY <1>3 DEF NoPathToSpare
<1> QED BY <1>2, <1>4

(* Every key of the answer is bound somewhere, and every path ends where.    *)
Sourced(from, g) ==
    \A k \in DOMAIN g :
        /\ Meant(from, k, Node)
        /\ \A p \in g[k] : /\ p \in Seq(Node) /\ p # <<>>
                           /\ \E t \in from : k \in RoleKeys[t[1]] /\ t[2] = p[Len(p)]

LEMMA AssembledSourced ==
    ASSUME TreeRows(above, authPath), NEW b, Bindings(b)
    PROVE  Sourced(b, AssembleGrants(GrantRows(b)))
<1> DEFINE g == AssembleGrants(GrantRows(b))
<1> SUFFICES ASSUME NEW k \in DOMAIN g
             PROVE  /\ Meant(b, k, Node)
                    /\ \A p \in g[k] : /\ p \in Seq(Node) /\ p # <<>>
                                       /\ \E t \in b : k \in RoleKeys[t[1]] /\ t[2] = p[Len(p)]
  BY DEF Sourced
<1>1. \E t \in b : k \in RoleKeys[t[1]]
  BY AssembledAre
<1>2. Meant(b, k, Node)
  BY <1>1 DEF Meant, Bindings
<1>3. \A p \in g[k] : p \in PathsOf(b, k)
  BY AssembledAre
<1>4. ASSUME NEW p \in g[k]
      PROVE  /\ p \in Seq(Node) /\ p # <<>>
             /\ \E t \in b : k \in RoleKeys[t[1]] /\ t[2] = p[Len(p)]
  BY <1>3, PathOfBinding
<1> QED BY <1>2, <1>4

PlacesOf(route) == DOMAIN route.permissions

LEMMA PlacesAre ==
    ASSUME NEW route \in Routes
    PROVE  /\ PlacesOf(route) \in SUBSET Nat
           /\ \A i \in PlacesOf(route) : route.permissions[i] \in Key
           /\ route.scoped \in BOOLEAN /\ route.optional \in BOOLEAN
<1>1. route.permissions \in Seq(Key) /\ route.scoped \in BOOLEAN /\ route.optional \in BOOLEAN
  BY RoutesAssumption
<1>2. DOMAIN route.permissions = 1 .. Len(route.permissions) /\ Len(route.permissions) \in Nat
  BY <1>1, LenProperties
<1> QED BY <1>1, <1>2, ElementOfSeq DEF PlacesOf

LEMMA AllowNames ==
    ASSUME NEW route \in Routes, NEW places \in SUBSET PlacesOf(route), places # {}
    PROVE  /\ Allow(route, places).outcome = "allowed"
           /\ \E i \in places : Allow(route, places).names = {route.permissions[i]}
<1>1. places \in SUBSET Nat
  BY PlacesAre
<1>2. \E i \in places : \A j \in places : i <= j
  BY <1>1, LeastOf
<1> DEFINE first == CHOOSE i \in places : \A j \in places : i <= j
<1>3. first \in places
  BY <1>2
<1>4. Allow(route, places).outcome = "allowed" /\ Allow(route, places).names = {route.permissions[first]}
  BY DEF Allow
<1> HIDE DEF first
<1> QED BY <1>3, <1>4

(* ScopeResolver.decide, outcome by outcome.                                 *)
LEMMA DecisionIs ==
    ASSUME NEW g, NEW route \in Routes, NEW target, NEW at
    PROVE  LET d == Decide(g, route, target, at)
           IN  \/ /\ d.outcome = "permission_denied"
                  /\ d.names = Listed(route, PlacesOf(route)) /\ Held(route, g) = {}
               \/ /\ d.outcome = "scope_denied"
                  /\ d.names = Listed(route, Held(route, g)) /\ Held(route, g) # {}
                  /\ \/ target = Absent
                     \/ target # Absent /\ at # <<>> /\ Covering(route, g, at) = {}
               \/ /\ d.outcome = "allowed"
                  /\ \E i \in PlacesOf(route) :
                        /\ d.names = {route.permissions[i]} /\ route.permissions[i] \in DOMAIN g
                        /\ target # Absent /\ at # <<>> => CoversPath(g, route.permissions[i], at)
                        /\ target = Absent => ~route.scoped \/ route.optional
<1> DEFINE d == Decide(g, route, target, at)
           held1 == Held(route, g)
           covering == Covering(route, g, at)
<1>1. /\ held1 \in SUBSET PlacesOf(route) /\ covering \in SUBSET PlacesOf(route)
      /\ \A i \in held1 : route.permissions[i] \in DOMAIN g
      /\ \A i \in covering : CoversPath(g, route.permissions[i], at) /\ route.permissions[i] \in DOMAIN g
  BY DEF Held, Covering, PlacesOf, CoversPath, HoldsPermission
<1>2. d = CASE held1 = {} -> Unheld(route)
            [] held1 # {} /\ route.scoped /\ target = Absent -> Untargeted(route, held1)
            [] held1 # {} /\ target # Absent /\ at # <<>> -> Targeted(g, route, held1, at)
            [] OTHER -> Allow(route, held1)
  BY DEF Decide
<1>3. /\ Deny("scope_denied", route, held1).outcome = "scope_denied"
      /\ Deny("scope_denied", route, held1).names = Listed(route, held1)
      /\ Unheld(route).outcome = "permission_denied"
      /\ Unheld(route).names = Listed(route, PlacesOf(route))
  BY DEF Deny, Unheld, PlacesOf
<1>4. held1 # {} => /\ Allow(route, held1).outcome = "allowed"
                    /\ \E i \in held1 : Allow(route, held1).names = {route.permissions[i]}
  BY <1>1, AllowNames
<1>5. covering # {} => /\ Allow(route, covering).outcome = "allowed"
                       /\ \E i \in covering : Allow(route, covering).names = {route.permissions[i]}
  BY <1>1, AllowNames
<1>6. Untargeted(route, held1) = IF route.optional THEN Allow(route, held1)
                                 ELSE Deny("scope_denied", route, held1)
  BY DEF Untargeted
<1>7. Targeted(g, route, held1, at) = IF covering = {} THEN Deny("scope_denied", route, held1)
                                      ELSE Allow(route, covering)
  BY DEF Targeted
<1> SUFFICES \/ d.outcome = "permission_denied" /\ d.names = Listed(route, PlacesOf(route)) /\ held1 = {}
             \/ /\ d.outcome = "scope_denied" /\ d.names = Listed(route, held1) /\ held1 # {}
                /\ \/ target = Absent
                   \/ target # Absent /\ at # <<>> /\ covering = {}
             \/ /\ d.outcome = "allowed"
                /\ \E i \in PlacesOf(route) :
                      /\ d.names = {route.permissions[i]} /\ route.permissions[i] \in DOMAIN g
                      /\ target # Absent /\ at # <<>> => CoversPath(g, route.permissions[i], at)
                      /\ target = Absent => ~route.scoped \/ route.optional
  OBVIOUS
<1> HIDE DEF d, held1, covering
<1>8. CASE held1 = {}
  <2>1. d = Unheld(route)
    BY <1>2, <1>8
  <2> QED BY <1>3, <1>8, <2>1
<1>9. CASE held1 # {} /\ route.scoped /\ target = Absent
  <2>1. d = Untargeted(route, held1)
    BY <1>2, <1>9
  <2>2. CASE route.optional
    <3>1. d = Allow(route, held1)
      BY <1>6, <2>1, <2>2
    <3>2. PICK i \in held1 : Allow(route, held1).names = {route.permissions[i]}
      BY <1>4, <1>9
    <3>3. d.outcome = "allowed" /\ d.names = {route.permissions[i]}
      BY <1>4, <1>9, <3>1, <3>2
    <3> QED BY <1>1, <1>9, <2>2, <3>2, <3>3
  <2>3. CASE ~route.optional
    <3>1. d = Deny("scope_denied", route, held1)
      BY <1>6, <2>1, <2>3
    <3> QED BY <1>3, <1>9, <3>1
  <2> QED BY <2>2, <2>3
<1>10. CASE held1 # {} /\ target # Absent /\ at # <<>>
  <2>1. d = Targeted(g, route, held1, at)
    BY <1>2, <1>10
  <2>2. CASE covering = {}
    <3>1. d = Deny("scope_denied", route, held1)
      BY <1>7, <2>1, <2>2
    <3> QED BY <1>3, <1>10, <2>2, <3>1
  <2>3. CASE covering # {}
    <3>1. d = Allow(route, covering)
      BY <1>7, <2>1, <2>3
    <3>2. PICK i \in covering : Allow(route, covering).names = {route.permissions[i]}
      BY <1>5, <2>3
    <3>3. d.outcome = "allowed" /\ d.names = {route.permissions[i]}
      BY <1>5, <2>3, <3>1, <3>2
    <3> QED BY <1>1, <1>10, <3>2, <3>3
  <2> QED BY <2>2, <2>3
<1>11. CASE held1 # {} /\ ~(route.scoped /\ target = Absent) /\ ~(target # Absent /\ at # <<>>)
  <2>1. d = Allow(route, held1)
    BY <1>2, <1>11
  <2>2. PICK i \in held1 : Allow(route, held1).names = {route.permissions[i]}
    BY <1>4, <1>11
  <2>3. d.outcome = "allowed" /\ d.names = {route.permissions[i]}
    BY <1>4, <1>11, <2>1, <2>2
  <2> QED BY <1>1, <1>11, <2>2, <2>3
<1> QED BY <1>8, <1>9, <1>10, <1>11

-----------------------------------------------------------------------------
(* What is so of a request, and of an answer kept, at every step.            *)
AskRec(a) ==
    a = [pc |-> a.pc, route |-> a.route, target |-> a.target, from |-> a.from, grants |-> a.grants,
         under |-> a.under, calm |-> a.calm, decision |-> a.decision]

Allowed(a) ==
    a.decision.outcome = "allowed" =>
        \E k \in Listed(a.route, PlacesOf(a.route)) :
            /\ a.decision.names = {k}
            /\ Meant(a.from, k, IF a.under = {} THEN Node ELSE a.under)
            /\ a.target = Absent => ~a.route.scoped \/ a.route.optional
DeniedRightly(a) ==
    a.calm =>
        /\ a.decision.outcome = "permission_denied" =>
               /\ a.decision.names = Listed(a.route, PlacesOf(a.route))
               /\ \A k \in a.decision.names : ~Meant(a.from, k, Node)
        /\ a.decision.outcome = "scope_denied" =>
               /\ a.decision.names # {}
               /\ \A k \in a.decision.names : Meant(a.from, k, Node) /\ ~Meant(a.from, k, a.under)

AskOk(a) ==
    /\ AskRec(a)
    /\ a.route \in Routes /\ a.target \in Node \cup {Absent}
    /\ Sourced(a.from, a.grants)
    /\ a.pc # "decided" => a.decision = NoDecision
    /\ Allowed(a) /\ DeniedRightly(a)

(* Undisturbed since they were read, its grants are what the bindings say.   *)
Current == ask.pc = "deciding" /\ ask.calm =>
               ask.from = bound /\ ask.grants = AssembleGrants(GrantRows(bound))

AuthIInv ==
    /\ TreeRows(above, authPath) /\ Bindings(bound)
    /\ Sourced(kept.from, kept.grants)
    /\ AskOk(ask) /\ Current

(* A request with no decision yet has nothing to justify.                    *)
LEMMA Undecided ==
    ASSUME NEW a, AskRec(a), a.route \in Routes, a.target \in Node \cup {Absent},
           Sourced(a.from, a.grants), a.decision = NoDecision
    PROVE  AskOk(a)
BY DEF AskOk, Allowed, DeniedRightly, NoDecision

LEMMA AuthInits == AuthInit => AuthIInv
<1> SUFFICES ASSUME AuthInit PROVE AuthIInv
  OBVIOUS
<1>1. above \in [Node -> Parents] /\ Forest!IsTree(above) /\ authPath = Derived(above)
  <2>1. above \in [Node -> Parents] /\ Tree!IsTree(above) /\ authPath = Derived(above)
    BY DEF AuthInit, Tree!Init, Parents
  <2>2. Tree!IsTree(above) <=> Forest!IsTree(above)
    BY DEF Tree!IsTree, Forest!IsTree, Tree!Upwards, Forest!Upwards, Tree!Depth, Forest!Depth,
           Tree!Cardinality, Forest!Cardinality
  <2> QED BY <2>1, <2>2
<1>2. TreeRows(above, authPath)
  BY <1>1, DerivedRows
<1>3. Bindings(bound)
  BY DEF AuthInit, Bindings
<1>4. Sourced({}, NoGrants)
  BY DEF Sourced, NoGrants, AssembleGrants
<1>5. kept.from = {} /\ kept.grants = NoGrants /\ ask = NoRequest
  BY DEF AuthInit
<1>6. (CHOOSE r \in Routes : TRUE) \in Routes
  BY RoutesAssumption
<1>7. /\ AskRec(ask) /\ ask.route \in Routes /\ ask.target = Absent /\ ask.pc = "idle"
      /\ ask.from = {} /\ ask.grants = NoGrants /\ ask.decision = NoDecision
  BY <1>5, <1>6 DEF NoRequest, AskRec
<1>8. AskOk(ask)
  BY <1>4, <1>7, Undecided
<1> QED BY <1>2, <1>3, <1>4, <1>5, <1>7, <1>8 DEF AuthIInv, Current

(* An edit leaves the request as it was, but for its calm.                   *)
LEMMA EditUnsettles ==
    ASSUME AskOk(ask), Unsettled
    PROVE  AskOk(ask)' /\ ~(ask'.pc = "deciding" /\ ask'.calm)
<1>1. CASE ask.pc \in {"deciding", "reading"}
  <2>1. AskRec(ask) /\ ask.decision = NoDecision
    BY <1>1 DEF AskOk
  <2>2. ask' = [ask EXCEPT !.calm = FALSE]
    BY <1>1 DEF Unsettled
  <2>3. /\ ask' = [pc |-> ask.pc, route |-> ask.route, target |-> ask.target, from |-> ask.from,
                   grants |-> ask.grants, under |-> ask.under, calm |-> FALSE, decision |-> ask.decision]
    BY <2>1, <2>2 DEF AskRec
  <2>4. /\ AskRec(ask') /\ ask'.route \in Routes /\ ask'.target \in Node \cup {Absent}
        /\ Sourced(ask'.from, ask'.grants) /\ ask'.decision = NoDecision /\ ask'.calm = FALSE
    BY <2>1, <2>3 DEF AskRec, AskOk
  <2>5. AskOk(ask')
    BY <2>4, Undecided
  <2> QED BY <2>4, <2>5
<1>2. CASE ask.pc \notin {"deciding", "reading"}
  BY <1>2 DEF Unsettled
<1> QED BY <1>1, <1>2

(* A move of a subtree, in rows and paths.                                   *)
LEMMA MoveKeepsRows ==
    ASSUME TreeRows(above, authPath), Bindings(bound), NEW n \in Node, NEW p \in Node, MoveSubtree(n, p)
    PROVE  TreeRows(above', authPath') /\ Bindings(bound)'
<1>1. /\ above[n] # Absent /\ above[p] # Absent
      /\ ~IsPrefix(authPath[n], authPath[p])
      /\ Len(authPath[p]) + Height(authPath, n) <= MaxDepth
      /\ above' = [above EXCEPT ![n] = p]
      /\ authPath' = [m \in Node |-> IF IsPrefix(authPath[n], authPath[m])
                                     THEN authPath[p] \o SubSeq(authPath[m], Len(authPath[n]), Len(authPath[m]))
                                     ELSE authPath[m]]
      /\ bound' = bound
  BY DEF MoveSubtree, Shown, PathIsWithin, RewritePrefix
<1>2. /\ above \in [Node -> Parents] /\ authPath \in [Node -> Seq(Node)]
      /\ \A m \in Node : above[m] = Absent => authPath[m] = <<>>
      /\ \A m \in Node : Len(authPath[m]) \in Nat /\ Len(authPath[m]) <= MaxDepth
      /\ authPath[n] # <<>> /\ Len(authPath[n]) >= 1
  <2>1. /\ above \in [Node -> Parents] /\ authPath \in [Node -> Seq(Node)]
        /\ \A m \in Node : above[m] = Absent => authPath[m] = <<>>
        /\ \A m \in Node : above[m] # Absent => Way(above, authPath[m], m) /\ Len(authPath[m]) <= MaxDepth
    BY DEF TreeRows
  <2>2. \A m \in Node : Len(authPath[m]) \in Nat
    BY <2>1, LenProperties
  <2>3. Len(<<>>) = 0
    BY EmptySeq
  <2>4. \A m \in Node : Len(authPath[m]) <= MaxDepth
    BY <2>1, <2>3, DepthAssumption
  <2>5. authPath[n] # <<>>
    BY <1>1, <2>1 DEF Way
  <2>6. Len(authPath[n]) >= 1
    BY <1>1, <2>1, WayIs
  <2> QED BY <2>1, <2>2, <2>4, <2>5, <2>6
<1>3. \A m \in Node : IsPrefix(authPath[n], authPath[m]) <=> m \in HangingFrom(above, authPath, n)
  <2> TAKE m \in Node
  <2>1. CASE above[m] = Absent
    <3>1. authPath[m] = <<>> /\ Len(<<>>) = 0
      BY <1>2, <2>1, EmptySeq
    <3>2. ~IsPrefix(authPath[n], authPath[m])
      BY <1>2, <3>1 DEF IsPrefix
    <3> QED BY <2>1, <3>2 DEF HangingFrom
  <2>2. CASE above[m] # Absent
    <3>1. IsPrefix(authPath[n], authPath[m]) <=> n \in On(authPath[m])
      BY <1>1, <2>2, PrefixIsAncestry
    <3> QED BY <2>2, <3>1 DEF HangingFrom
  <2> QED BY <2>1, <2>2
<1>4. authPath' = Rehung(above, authPath, n, p)
  BY <1>1, <1>3 DEF Rehung
<1>5. n \notin On(authPath[p])
  BY <1>1, <1>3 DEF HangingFrom
<1>6. ASSUME NEW m \in HangingFrom(above, authPath, n)
      PROVE  Len(authPath[p]) + Len(authPath[m]) + 1 <= MaxDepth + Len(authPath[n])
  <2>1. m \in Node /\ above[m] # Absent /\ IsPrefix(authPath[n], authPath[m])
    BY <1>3 DEF HangingFrom
  <2>2. authPath[m] # <<>>
    BY <2>1 DEF TreeRows, Way
  <2>3. m \in Subtree(authPath, n)
    BY <2>1, <2>2 DEF Subtree
  <2>4. /\ Len(authPath[m]) + 1 <= Len(authPath[n]) + Height(authPath, n)
        /\ Height(authPath, n) \in Nat
    BY <1>2, <2>3, HeightBounds
  <2>5. /\ Len(authPath[m]) \in Nat /\ Len(authPath[n]) \in Nat /\ Len(authPath[p]) \in Nat
        /\ Len(authPath[p]) + Height(authPath, n) <= MaxDepth /\ MaxDepth \in Nat
    BY <1>1, <1>2, <2>1, DepthAssumption
  <2>6. \A lm, ln, lp, h, d \in Nat : lm + 1 <= ln + h /\ lp + h <= d => lp + lm + 1 <= d + ln
    OBVIOUS
  <2> QED BY <2>4, <2>5, <2>6
<1>7. TreeRows(above', authPath')
  <2>1. TreeRows([above EXCEPT ![n] = p], Rehung(above, authPath, n, p))
    BY <1>1, <1>5, <1>6, SubtreeMoved
  <2> QED BY <1>1, <1>4, <2>1
<1>8. \A m \in Node : above'[m] = Absent => above[m] = Absent
  BY <1>1, <1>2, DistinctAssumption
<1>9. \A t \in bound : t[2] \in Node /\ above[t[2]] # Absent
  BY DEF Bindings, Shown
<1>10. Bindings(bound)'
  BY <1>1, <1>8, <1>9 DEF Bindings, Shown
<1> QED BY <1>7, <1>10

(* The decision, and what it is justified by.                                *)
LEMMA ConcludeIsRight ==
    ASSUME AuthIInv, Conclude
    PROVE  AskOk(ask)' /\ ask'.pc = "decided"
<1> DEFINE at == IF ask.target \in Node THEN authPath[ask.target] ELSE <<>>
           d == Decide(ask.grants, ask.route, ask.target, at)
           g == ask.grants
           up == IF at = <<>> THEN {} ELSE Ancestors(ask.target)
           route == ask.route
<1>1. /\ TreeRows(above, authPath) /\ Bindings(bound)
      /\ AskRec(ask) /\ ask.route \in Routes /\ ask.target \in Node \cup {Absent}
      /\ Sourced(ask.from, ask.grants) /\ ask.pc = "deciding"
      /\ ask.calm => ask.from = bound /\ g = AssembleGrants(GrantRows(bound))
  BY DEF AuthIInv, AskOk, Current, Conclude
<1>2. ask' = [pc |-> "decided", route |-> ask.route, target |-> ask.target, from |-> ask.from,
              grants |-> ask.grants, under |-> up, calm |-> ask.calm, decision |-> d]
  <2>1. ask' = [ask EXCEPT !.pc = "decided", !.decision = d, !.under = up]
    BY DEF Conclude
  <2> HIDE DEF d, up
  <2> QED BY <1>1, <2>1 DEF AskRec
<1>3. /\ ask.target = Absent => at = <<>>
      /\ at # <<>> => /\ ask.target \in Node /\ Shown(ask.target) /\ at = authPath[ask.target]
                      /\ up = On(at) /\ up # {} /\ at \in Seq(Node)
  <2>1. ask.target = Absent => at = <<>>
    BY DistinctAssumption
  <2>2. ASSUME at # <<>> PROVE ask.target \in Node /\ Shown(ask.target) /\ at = authPath[ask.target]
    BY <1>1, <2>2 DEF TreeRows, Shown
  <2>3. ASSUME at # <<>> PROVE up = On(at) /\ up # {} /\ at \in Seq(Node)
    <3>1. ask.target \in Node /\ Shown(ask.target) /\ at = authPath[ask.target]
      BY <2>2, <2>3
    <3>2. Ancestors(ask.target) = On(at) /\ at \in Seq(Node) /\ at # <<>> /\ Len(at) \in Nat
      BY <1>1, <3>1, AncestorsAreOn
    <3>3. Len(at) \in 1 .. Len(at)
      BY <3>2, EmptySeq
    <3>4. On(at) # {}
      BY <3>3 DEF On
    <3> QED BY <2>3, <3>2, <3>4
  <2> QED BY <2>1, <2>2, <2>3
<1> DEFINE OutPermission == /\ d.outcome = "permission_denied"
                            /\ d.names = Listed(route, PlacesOf(route)) /\ Held(route, g) = {}
           OutScope == /\ d.outcome = "scope_denied"
                       /\ d.names = Listed(route, Held(route, g)) /\ Held(route, g) # {}
                       /\ \/ ask.target = Absent
                          \/ ask.target # Absent /\ at # <<>> /\ Covering(route, g, at) = {}
           OutAllowed == /\ d.outcome = "allowed"
                         /\ \E i \in PlacesOf(route) :
                               /\ d.names = {route.permissions[i]} /\ route.permissions[i] \in DOMAIN g
                               /\ ask.target # Absent /\ at # <<>> => CoversPath(g, route.permissions[i], at)
                               /\ ask.target = Absent => ~route.scoped \/ route.optional
<1> HIDE DEF at
<1>4. OutPermission \/ OutScope \/ OutAllowed
  <2>1. ask.route \in Routes
    BY <1>1
  <2> QED BY <2>1, DecisionIs
<1> HIDE DEF d, up
<1>5. /\ ask'.pc = "decided" /\ ask'.route = route /\ ask'.target = ask.target /\ ask'.from = ask.from
      /\ ask'.grants = g /\ ask'.under = up /\ ask'.calm = ask.calm /\ ask'.decision = d
      /\ AskRec(ask')
  BY <1>2 DEF AskRec
<1>6. Allowed(ask')
  <2> SUFFICES ASSUME d.outcome = "allowed"
               PROVE  \E k \in Listed(route, PlacesOf(route)) :
                         /\ d.names = {k}
                         /\ Meant(ask.from, k, IF up = {} THEN Node ELSE up)
                         /\ ask.target = Absent => ~route.scoped \/ route.optional
    BY <1>5 DEF Allowed
  <2>1. PICK i \in PlacesOf(route) :
           /\ d.names = {route.permissions[i]} /\ route.permissions[i] \in DOMAIN g
           /\ ask.target # Absent /\ at # <<>> => CoversPath(g, route.permissions[i], at)
           /\ ask.target = Absent => ~route.scoped \/ route.optional
    BY <1>4
  <2> DEFINE k == route.permissions[i]
  <2>2. k \in Listed(route, PlacesOf(route))
    BY DEF Listed
  <2>3. CASE at = <<>>
    <3>1. up = {}
      BY <2>3 DEF up
    <3>2. Meant(ask.from, k, Node)
      BY <1>1, <2>1 DEF Sourced
    <3> QED BY <2>1, <2>2, <3>1, <3>2
  <2>4. CASE at # <<>>
    <3>1. CoversPath(g, k, at) /\ up = On(at) /\ up # {} /\ at \in Seq(Node)
      BY <1>3, <2>1, <2>4
    <3>2. PICK p \in g[k] : IsPrefix(p, at)
      BY <3>1 DEF CoversPath, PathIsWithin
    <3>3. p \in Seq(Node) /\ p # <<>> /\ \E t \in ask.from : k \in RoleKeys[t[1]] /\ t[2] = p[Len(p)]
      BY <1>1, <2>1 DEF Sourced
    <3>4. p[Len(p)] \in up
      BY <3>1, <3>2, <3>3, PrefixIs
    <3>5. Meant(ask.from, k, up)
      BY <3>3, <3>4 DEF Meant
    <3> QED BY <2>1, <2>2, <3>1, <3>5
  <2> QED BY <2>3, <2>4
<1>7. DeniedRightly(ask')
  <2> SUFFICES ASSUME ask.calm
               PROVE  /\ d.outcome = "permission_denied" =>
                            /\ d.names = Listed(route, PlacesOf(route))
                            /\ \A k \in d.names : ~Meant(ask.from, k, Node)
                      /\ d.outcome = "scope_denied" =>
                            /\ d.names # {}
                            /\ \A k \in d.names : Meant(ask.from, k, Node) /\ ~Meant(ask.from, k, up)
    BY <1>5 DEF DeniedRightly
  <2>1. ask.from = bound /\ g = AssembleGrants(GrantRows(bound))
    BY <1>1
  <2>2. ASSUME d.outcome = "permission_denied"
        PROVE  /\ d.names = Listed(route, PlacesOf(route))
               /\ \A k \in d.names : ~Meant(ask.from, k, Node)
    <3>1. d.names = Listed(route, PlacesOf(route)) /\ Held(route, g) = {}
      BY <1>4, <2>2
    <3>2. ASSUME NEW k \in d.names PROVE ~Meant(ask.from, k, Node)
      <4>1. PICK i \in PlacesOf(route) : k = route.permissions[i]
        BY <3>1 DEF Listed
      <4>2. k \notin DOMAIN g
        BY <3>1, <4>1 DEF Held, HoldsPermission, PlacesOf
      <4>3. ~ \E t \in bound : k \in RoleKeys[t[1]]
        BY <1>1, <2>1, <4>2, AssembledAre
      <4> QED BY <2>1, <4>3 DEF Meant
    <3> QED BY <3>1, <3>2
  <2>3. ASSUME d.outcome = "scope_denied"
        PROVE  /\ d.names # {}
               /\ \A k \in d.names : Meant(ask.from, k, Node) /\ ~Meant(ask.from, k, up)
    <3>1. /\ d.names = Listed(route, Held(route, g)) /\ Held(route, g) # {}
          /\ \/ ask.target = Absent
             \/ ask.target # Absent /\ at # <<>> /\ Covering(route, g, at) = {}
      BY <1>4, <2>3
    <3>2. d.names # {}
      BY <3>1 DEF Listed
    <3>3. ASSUME NEW k \in d.names PROVE Meant(ask.from, k, Node) /\ ~Meant(ask.from, k, up)
      <4>1. PICK i \in Held(route, g) : k = route.permissions[i]
        BY <3>1 DEF Listed
      <4>2. k \in DOMAIN g /\ i \in DOMAIN route.permissions
        BY <4>1 DEF Held, HoldsPermission
      <4>3. Meant(ask.from, k, Node)
        BY <1>1, <4>2 DEF Sourced
      <4>4. CASE ask.target = Absent
        <5>1. up = {}
          BY <1>3, <4>4 DEF up
        <5>2. ~Meant(ask.from, k, up)
          BY <5>1 DEF Meant
        <5> QED BY <4>3, <5>2
      <4>5. CASE at # <<>> /\ Covering(route, g, at) = {}
        <5>1. ~CoversPath(g, k, at)
          BY <4>1, <4>2, <4>5 DEF Covering
        <5>2. ask.target \in Node /\ Shown(ask.target) /\ at = authPath[ask.target] /\ up = Ancestors(ask.target)
          BY <1>3, <4>5 DEF up
        <5>3. ~Meant(bound, k, Ancestors(ask.target))
          BY <1>1, <2>1, <5>1, <5>2, CoverIs
        <5> QED BY <2>1, <4>3, <5>2, <5>3
      <4> QED BY <3>1, <4>4, <4>5
    <3> QED BY <3>2, <3>3
  <2> QED BY <2>2, <2>3
<1>8. AskOk(ask')
  BY <1>1, <1>5, <1>6, <1>7 DEF AskOk
<1> QED BY <1>5, <1>8

LEMMA AuthSteps ==
    AuthIInv /\ [AuthNext]_authVars => AuthIInv'
<1> SUFFICES ASSUME AuthIInv, [AuthNext]_authVars PROVE AuthIInv'
  OBVIOUS
<1> USE DEF AuthIInv
<1> DEFINE now == AssembleGrants(GrantRows(bound))
<1>1. ASSUME NEW n \in Node, NEW p \in Node, MoveSubtree(n, p) PROVE AuthIInv'
  <2>1. TreeRows(above', authPath') /\ Bindings(bound)'
    BY <1>1, MoveKeepsRows
  <2>2. AskOk(ask)' /\ ~(ask'.pc = "deciding" /\ ask'.calm)
    BY <1>1, EditUnsettles DEF MoveSubtree
  <2>3. Sourced(kept.from, kept.grants)'
    BY <1>1 DEF MoveSubtree
  <2> QED BY <2>1, <2>2, <2>3 DEF Current
<1>2. ASSUME NEW r \in Role, NEW n \in Node, ChangeBinding(r, n) PROVE AuthIInv'
  <2>1. above' = above /\ authPath' = authPath /\ kept' = kept
    BY <1>2 DEF ChangeBinding
  <2>2. Shown(n) /\ bound' \subseteq bound \cup {<<r, n>>}
    BY <1>2 DEF ChangeBinding
  <2>3. Bindings(bound)'
    <3>1. bound \in SUBSET (Role \X Node) /\ \A t \in bound : above[t[2]] # Absent
      BY DEF Bindings, Shown
    <3>2. above[n] # Absent /\ <<r, n>> \in Role \X Node /\ <<r, n>>[2] = n
      BY <2>2 DEF Shown
    <3>3. bound' \in SUBSET (Role \X Node)
      BY <2>2, <3>1, <3>2
    <3>4. \A t \in bound' : above'[t[2]] # Absent
      BY <2>1, <2>2, <3>1, <3>2
    <3> QED BY <3>3, <3>4 DEF Bindings, Shown
  <2>4. AskOk(ask)' /\ ~(ask'.pc = "deciding" /\ ask'.calm)
    BY <1>2, EditUnsettles DEF ChangeBinding
  <2> QED BY <2>1, <2>3, <2>4 DEF Current
<1>3. Sourced(bound, now)
  BY AssembledSourced
<1>4. ASSUME UNCHANGED <<above, authPath, bound>>
      PROVE  /\ TreeRows(above, authPath)' /\ Bindings(bound)'
             /\ AssembleGrants(GrantRows(bound))' = now
  BY <1>4 DEF Bindings, Shown, AssembleGrants, GrantRows, RowsOf
<1>5. ASSUME Keep PROVE AuthIInv'
  <2>1. /\ UNCHANGED <<above, authPath, bound>> /\ ask' = ask
        /\ kept'.from = bound /\ kept'.grants = now
    BY <1>5 DEF Keep
  <2>2. Sourced(kept.from, kept.grants)'
    BY <1>3, <2>1
  <2> HIDE DEF now
  <2> QED BY <1>4, <2>1, <2>2 DEF Current, now
<1>6. ASSUME Arrive PROVE AuthIInv'
  <2>1. PICK route \in Routes, t \in Node \cup {Absent} :
           ask' = [ask EXCEPT !.pc = "reading", !.route = route,
                              !.target = IF route.scoped THEN t ELSE Absent]
    BY <1>6 DEF Arrive
  <2>2. UNCHANGED <<above, authPath, bound>> /\ kept' = kept /\ ask.pc = "idle"
    BY <1>6 DEF Arrive
  <2>3. AskRec(ask) /\ ask.decision = NoDecision /\ Sourced(ask.from, ask.grants)
    BY <2>2 DEF AskOk
  <2> DEFINE target == IF route.scoped THEN t ELSE Absent
  <2>4. target \in Node \cup {Absent}
    OBVIOUS
  <2> HIDE DEF target
  <2>5. ask' = [pc |-> "reading", route |-> route, target |-> target, from |-> ask.from,
                grants |-> ask.grants, under |-> ask.under, calm |-> ask.calm, decision |-> NoDecision]
    BY <2>1, <2>3 DEF AskRec, target
  <2>6. AskOk(ask')
    BY <2>3, <2>4, <2>5, Undecided DEF AskRec
  <2>7. ask'.pc = "reading"
    BY <2>5
  <2> QED BY <1>4, <2>2, <2>6, <2>7 DEF Current
<1>7. ASSUME NEW from, NEW grants, NEW fresh, ReadBy(from, grants, fresh), Sourced(from, grants),
             fresh => from = bound /\ grants = now
      PROVE  AuthIInv'
  <2>1. ask' = [ask EXCEPT !.pc = "deciding", !.from = from, !.grants = grants, !.calm = fresh]
    BY <1>7 DEF ReadBy
  <2>2. UNCHANGED <<above, authPath, bound>> /\ kept' = kept /\ ask.pc = "reading"
    BY <1>7 DEF ReadBy
  <2>3. AskRec(ask) /\ ask.decision = NoDecision /\ ask.route \in Routes /\ ask.target \in Node \cup {Absent}
    BY <2>2 DEF AskOk
  <2>4. ask' = [pc |-> "deciding", route |-> ask.route, target |-> ask.target, from |-> from,
                grants |-> grants, under |-> ask.under, calm |-> fresh, decision |-> NoDecision]
    BY <2>1, <2>3 DEF AskRec
  <2>5. AskOk(ask')
    BY <1>7, <2>3, <2>4, Undecided DEF AskRec
  <2>6. ask'.from = from /\ ask'.grants = grants /\ ask'.calm = fresh
    BY <2>4
  <2> HIDE DEF now
  <2>7. Current'
    BY <1>4, <1>7, <2>2, <2>6 DEF Current
  <2> QED BY <1>4, <2>2, <2>5, <2>7
<1>8. ASSUME ReadGrants PROVE AuthIInv'
  BY <1>3, <1>7, <1>8 DEF ReadGrants
<1>9. ASSUME ReadKept PROVE AuthIInv'
  BY <1>7, <1>9 DEF ReadKept
<1>10. ASSUME Conclude PROVE AuthIInv'
  <2>1. AskOk(ask)' /\ ask'.pc = "decided"
    BY <1>10, ConcludeIsRight
  <2>2. UNCHANGED <<above, authPath, bound>> /\ kept' = kept
    BY <1>10 DEF Conclude
  <2> QED BY <1>4, <2>1, <2>2 DEF Current
<1>11. ASSUME UNCHANGED authVars PROVE AuthIInv'
  <2>1. UNCHANGED <<above, authPath, bound>> /\ kept' = kept /\ ask' = ask
    BY <1>11 DEF authVars
  <2> HIDE DEF now
  <2> QED BY <1>4, <2>1 DEF Current, now
<1> QED BY <1>1, <1>2, <1>5, <1>6, <1>8, <1>9, <1>10, <1>11 DEF AuthNext

(* scope-resolver.ts, grants.util.ts, resolver.service.ts: however subtrees   *)
(* are moved, bindings made and removed, and answers kept in the cache about  *)
(* a request, its grants are drawn from bindings, an answer nothing has       *)
(* disturbed is the one they give, and what was decided stands.               *)
THEOREM AuthInvariant == AuthSpec => []AuthIInv
<1>1. AuthInit => AuthIInv
  BY AuthInits
<1>2. AuthIInv /\ [AuthNext]_authVars => AuthIInv'
  BY AuthSteps
<1> QED BY <1>1, <1>2, PTL DEF AuthSpec

(* ScopeResolver.decide, coversPath and minimizePaths: comparing paths        *)
(* decides as walking the tree would; grants are as few paths as can say what *)
(* the bindings say; nobody is let through to a node no binding meant,        *)
(* however old the grants; and a refusal by grants nothing has overtaken is   *)
(* for the reason it gives.                                                   *)
THEOREM GuardIsRight == AuthSpec => []GuardDecides
<1>1. AuthIInv => GuardDecides
  <2> SUFFICES ASSUME AuthIInv PROVE GuardDecides
    OBVIOUS
  <2>1. CoverIsTheTree /\ NoPathToSpare
    BY CoverHolds DEF AuthIInv
  <2>2. Allowed(ask) /\ DeniedRightly(ask)
    BY DEF AuthIInv, AskOk
  <2>3. AllowedIsMeant
    BY <2>2 DEF Allowed, AllowedIsMeant, PlacesOf
  <2>4. RefusedForWhatItSays
    BY <2>2 DEF DeniedRightly, RefusedForWhatItSays, PlacesOf
  <2> QED BY <2>1, <2>3, <2>4 DEF GuardDecides
<1> QED BY <1>1, AuthInvariant, PTL

-----------------------------------------------------------------------------
(* Roster.                                                                   *)
Singles == NewUser \union Correction
Makers == StaffUpload \union NewUser
Lists == Seq(Address \union {Unreadable})
SheetRec == [pc : {"idle", "inserting", "done", "failed"}, file : Lists, left : SUBSET Nat,
             made : SUBSET Address, report : Seq({"created", "skipped", "errored"})]
SingleRec == [pc : {"idle", "inserting", "open", "done", "refused", "failed"},
              from : Address \union {NoOne}, to : Address \union {NoOne}]

RosterTyped ==
    /\ person \in [Address -> Who \union {NoOne}]
    /\ claim \in [Address -> Requests \union {NoOne}]
    /\ sheet \in [StaffUpload -> SheetRec]
    /\ single \in [Singles -> SingleRec]
    /\ trail \in [Who -> Nat]
    /\ everHad \in [Address -> SUBSET Who]

(* Who came to be is a member, and recorded once.                            *)
Kept ==
    /\ \A a \in Address : person[a] # NoOne => person[a] \in everHad[a]
    /\ \A a \in Address : \A p \in everHad[a] : \E b \in Address : person[b] = p
    /\ \A p \in Who : trail[p] = IF p \in Everybody THEN 1 ELSE 0

(* An address written and not committed is nobody's.                         *)
ClaimsFree == \A a \in Address : claim[a] # NoOne => person[a] = NoOne

MadeBy(r) == {p \in Everybody : p[1] = r}
RowsDone(u) == Insertable(sheet[u].file) \ sheet[u].left

(* An upload under way: the rows it has passed are those it has claimed the   *)
(* address of and those whose address somebody had.                          *)
Under(u) ==
    /\ sheet[u].file \in Files
    /\ sheet[u].left \subseteq Insertable(sheet[u].file)
    /\ \A a \in Address : claim[a] = u <=> a \in sheet[u].made
    /\ \A a \in sheet[u].made : \E k \in RowsDone(u) : sheet[u].file[k] = a
    /\ \A k \in RowsDone(u) : \/ sheet[u].file[k] \in sheet[u].made
                              \/ \E p \in everHad[sheet[u].file[k]] : p[1] # u
    /\ MadeBy(u) = {}
Told(u) ==
    LET file == sheet[u].file IN
    /\ {IdOf(u, k) : k \in Reported(u, "created")} = MadeBy(u)
    /\ \A k \in Reported(u, "skipped") :
          \/ file[k] \in Address /\ \E p \in everHad[file[k]] : p[1] # u
          \/ \E j \in 1..k-1 : file[j] = file[k]
NoClaim(r) == \A a \in Address : claim[a] # r
SheetOk(u) ==
    /\ sheet[u].pc = "inserting" => Under(u)
    /\ sheet[u].pc # "inserting" => NoClaim(u)
    /\ sheet[u].pc \in {"idle", "failed"} => MadeBy(u) = {}
    /\ sheet[u].pc = "done" => Told(u)

Busy(s) == single[s].pc \in {"inserting", "open"}
SingleOk(s) ==
    /\ Busy(s) => single[s].to \in Address
    /\ \A a \in Address : claim[a] = s <=> single[s].pc = "open" /\ single[s].to = a
    /\ s \in NewUser /\ single[s].pc # "done" => MadeBy(s) = {}
    /\ s \in Correction /\ Busy(s) =>
          single[s].from \in Address /\ person[single[s].from] # NoOne
    /\ ~Busy(s) => single[s].from = NoOne

(* Nobody's address is corrected twice at a time.                            *)
Apart == \A c, d \in Correction : single[c].from # NoOne /\ single[c].from = single[d].from => c = d

RosterIInv ==
    /\ RosterTyped /\ Kept /\ ClaimsFree /\ Apart
    /\ \A u \in StaffUpload : SheetOk(u)
    /\ \A s \in Singles : SingleOk(s)

LEMMA IdsApart ==
    /\ \A r, k, q, l : IdOf(r, k) = IdOf(q, l) => r = q /\ k = l
    /\ \A r, k : IdOf(r, k)[1] = r
    /\ \A n \in NewUser : IdOf(n, 1) \in Who
    /\ \A u \in StaffUpload, k \in 1 .. MaxRows : IdOf(u, k) \in Who
    /\ \A p \in Who : p # NoOne /\ p[1] \in Makers
<1>1. /\ \A r, k, q, l : IdOf(r, k) = IdOf(q, l) => r = q /\ k = l
      /\ \A r, k : IdOf(r, k)[1] = r
  BY DEF IdOf
<1>2. /\ \A n \in NewUser : IdOf(n, 1) \in Who
      /\ \A u \in StaffUpload, k \in 1 .. MaxRows : IdOf(u, k) \in Who
  BY DEF Who
<1>3. ASSUME NEW p \in Who PROVE p # NoOne /\ p[1] \in Makers
  BY RequestsAssumption DEF Who, Makers, IdOf
<1> QED BY <1>1, <1>2, <1>3

LEMMA KindsApart ==
    /\ \A u \in StaffUpload : u \notin Singles /\ u \in Requests /\ u # NoOne /\ u \in Makers
    /\ \A s \in Singles : s \notin StaffUpload /\ s \in Requests /\ s # NoOne
    /\ \A n \in NewUser : n \in Makers /\ n \in Singles /\ n \notin Correction
    /\ \A c \in Correction : c \notin Makers /\ c \in Singles /\ c \notin NewUser
    /\ \A a \in Address : a # NoOne
BY RequestsAssumption DEF Singles, Requests, Makers

(* The rows an upload inserts have different addresses.                      *)
LEMMA RowsOfAList ==
    ASSUME NEW file \in Files
    PROVE  /\ file \in Lists /\ DOMAIN file = 1 .. Len(file) /\ Len(file) \in Nat /\ Len(file) <= MaxRows
           /\ Insertable(file) \in SUBSET Nat
           /\ \A k \in Insertable(file) : k \in 1 .. Len(file) /\ k \in 1 .. MaxRows /\ file[k] \in Address
           /\ \A j, k \in Insertable(file) : file[j] = file[k] => j = k
           /\ \A k \in 1 .. Len(file) : k \notin Insertable(file) =>
                 file[k] = Unreadable \/ \E j \in 1..k-1 : file[j] = file[k]
<1>1. file \in Lists /\ Len(file) <= MaxRows /\ MaxRows \in Nat
  BY FilesAssumption DEF Lists
<1>2. DOMAIN file = 1 .. Len(file) /\ Len(file) \in Nat
  BY <1>1, LenProperties DEF Lists
<1>3. \A k \in 1 .. Len(file) : file[k] \in Address \union {Unreadable}
  BY <1>1, <1>2, ElementOfSeq DEF Lists
<1>4. \A k \in Insertable(file) :
         k \in 1 .. Len(file) /\ k \in Nat /\ k \in 1 .. MaxRows /\ file[k] \in Address /\ \A j \in 1..k-1 : file[j] # file[k]
  BY <1>1, <1>2, <1>3 DEF Insertable
<1>5. ASSUME NEW j \in Insertable(file), NEW k \in Insertable(file), file[j] = file[k] PROVE j = k
  <2>1. j \in Nat /\ k \in Nat /\ j >= 1 /\ k >= 1
    BY <1>4
  <2>2. ~(j < k)
    <3>1. j < k => j \in 1..k-1
      BY <2>1
    <3> QED BY <1>4, <1>5, <3>1
  <2>3. ~(k < j)
    <3>1. k < j => k \in 1..j-1
      BY <2>1
    <3> QED BY <1>4, <1>5, <3>1
  <2> QED BY <2>1, <2>2, <2>3
<1>6. \A k \in 1 .. Len(file) : k \notin Insertable(file) =>
         file[k] = Unreadable \/ \E j \in 1..k-1 : file[j] = file[k]
  BY <1>2 DEF Insertable
<1> QED BY <1>1, <1>2, <1>4, <1>5, <1>6

(* A request that the step is not of.                                        *)
LEMMA OtherSheet ==
    ASSUME NEW u \in StaffUpload, SheetOk(u), sheet'[u] = sheet[u],
           \A a \in Address : claim'[a] = u <=> claim[a] = u,
           \A a \in Address : \A p \in everHad[a] : p \in everHad'[a],
           MadeBy(u)' = MadeBy(u)
    PROVE  SheetOk(u)'
<1>1. ASSUME Under(u) PROVE Under(u)'
  <2>1. RowsDone(u)' = RowsDone(u)
    BY DEF RowsDone
  <2>2. \A k \in RowsDone(u) : sheet[u].file[k] \in Address
    BY <1>1, RowsOfAList DEF Under, RowsDone
  <2> QED BY <1>1, <2>1, <2>2 DEF Under
<1>2. ASSUME Told(u) PROVE Told(u)'
  <2>1. Reported(u, "created")' = Reported(u, "created") /\ Reported(u, "skipped")' = Reported(u, "skipped")
    BY DEF Reported
  <2> QED BY <1>2, <2>1 DEF Told
<1>3. NoClaim(u)' <=> NoClaim(u)
  BY DEF NoClaim
<1> QED BY <1>1, <1>2, <1>3 DEF SheetOk

LEMMA OtherSingle ==
    ASSUME NEW s \in Singles, SingleOk(s), single'[s] = single[s],
           \A a \in Address : claim'[a] = s <=> claim[a] = s,
           s \in NewUser => MadeBy(s)' = MadeBy(s),
           \A a \in Address : person[a] # NoOne =>
               person'[a] # NoOne \/ (s \in Correction => single[s].from # a)
    PROVE  SingleOk(s)'
<1>1. Busy(s)' = Busy(s)
  BY DEF Busy
<1> QED BY <1>1 DEF SingleOk

(* No address has found or lost a holder.                                    *)
LEMMA SameMade ==
    ASSUME everHad' = everHad
    PROVE  \A r : MadeBy(r)' = MadeBy(r)
BY DEF MadeBy, Everybody

LEMMA SameKept ==
    ASSUME Kept, everHad' = everHad, person' = person, trail' = trail
    PROVE  Kept'
BY DEF Kept, Everybody

LEMMA RosterInits == RosterInit => RosterIInv
<1> SUFFICES ASSUME RosterInit PROVE RosterIInv
  OBVIOUS
<1>1. /\ person = [a \in Address |-> NoOne] /\ claim = [a \in Address |-> NoOne]
      /\ sheet = [u \in StaffUpload |-> NewSheet("idle")]
      /\ single = [s \in Singles |-> NewRequest("idle")]
      /\ trail = [p \in Who |-> 0] /\ everHad = [a \in Address |-> {}]
  BY DEF RosterInit, Singles
<1>2. NewSheet("idle") \in SheetRec /\ NewRequest("idle") \in SingleRec
  <2>1. <<>> \in Lists /\ <<>> \in Seq({"created", "skipped", "errored"})
    BY DEF Lists
  <2> QED BY <2>1 DEF NewSheet, NewRequest, SheetRec, SingleRec
<1>3. RosterTyped
  BY <1>1, <1>2 DEF RosterTyped
<1>4. Everybody = {} /\ \A r : MadeBy(r) = {}
  BY <1>1 DEF Everybody, MadeBy
<1>5. Kept /\ ClaimsFree
  BY <1>1, <1>4 DEF Kept, ClaimsFree
<1>6. \A u \in StaffUpload : SheetOk(u)
  <2> TAKE u \in StaffUpload
  <2>1. sheet[u].pc = "idle"
    BY <1>1 DEF NewSheet
  <2>2. NoClaim(u)
    BY <1>1, KindsApart DEF NoClaim
  <2> QED BY <1>4, <2>1, <2>2 DEF SheetOk
<1>7. \A s \in Singles : single[s].pc = "idle" /\ single[s].from = NoOne
  BY <1>1 DEF NewRequest
<1>8. \A s \in Singles : SingleOk(s)
  <2> TAKE s \in Singles
  <2>1. \A a \in Address : claim[a] # s
    BY <1>1, KindsApart
  <2> QED BY <1>4, <1>7, <2>1 DEF SingleOk, Busy
<1>9. Apart
  BY <1>7, KindsApart DEF Apart
<1> QED BY <1>3, <1>5, <1>6, <1>8, <1>9 DEF RosterIInv

LEMMA SheetRead ==
    ASSUME RosterIInv, NEW u \in StaffUpload, NEW file \in Files, ReadSheet(u, file)
    PROVE  RosterIInv'
<1> DEFINE new == [pc |-> "inserting", file |-> file, left |-> Insertable(file), made |-> {}, report |-> <<>>]
<1>1. /\ sheet' = [sheet EXCEPT ![u] = new] /\ sheet[u].pc = "idle"
      /\ person' = person /\ claim' = claim /\ single' = single /\ trail' = trail /\ everHad' = everHad
  BY DEF ReadSheet
<1>2. RosterTyped /\ Kept /\ ClaimsFree /\ Apart /\ SheetOk(u)
  BY DEF RosterIInv
<1>3. new \in SheetRec
  <2>1. file \in Lists /\ Insertable(file) \in SUBSET Nat
    BY RowsOfAList
  <2> QED BY <2>1 DEF SheetRec
<1> HIDE DEF new
<1>4. RosterTyped'
  BY <1>1, <1>2, <1>3 DEF RosterTyped
<1>5. sheet'[u] = new /\ \A x \in StaffUpload \ {u} : sheet'[x] = sheet[x]
  BY <1>1, <1>2 DEF RosterTyped
<1>6. Kept' /\ \A r : MadeBy(r)' = MadeBy(r)
  BY <1>1, <1>2, SameKept, SameMade
<1>7. Under(u)'
  <2>1. NoClaim(u) /\ MadeBy(u) = {}
    BY <1>1, <1>2 DEF SheetOk
  <2>2. /\ sheet'[u].file = file /\ sheet'[u].left = Insertable(file) /\ sheet'[u].made = {}
        /\ RowsDone(u)' = {}
    BY <1>5 DEF new, RowsDone
  <2> QED BY <1>1, <1>6, <2>1, <2>2 DEF Under, NoClaim
<1>8. SheetOk(u)'
  BY <1>5, <1>7 DEF SheetOk, new
<1>9. \A x \in StaffUpload : SheetOk(x)'
  <2> TAKE x \in StaffUpload
  <2>1. CASE x # u
    BY <1>1, <1>5, <1>6, <2>1, OtherSheet DEF RosterIInv
  <2> QED BY <1>8, <2>1
<1>10. \A s \in Singles : SingleOk(s)'
  BY <1>1, <1>6, OtherSingle DEF RosterIInv
<1> QED BY <1>1, <1>2, <1>4, <1>6, <1>9, <1>10 DEF RosterIInv, ClaimsFree, Apart

(* A step of one request leaves every other's part standing.                 *)
LEMMA OthersStand ==
    ASSUME RosterIInv, NEW r \in Requests,
           \A x \in StaffUpload : x # r => sheet'[x] = sheet[x],
           \A s \in Singles : s # r => single'[s] = single[s],
           \A x \in Requests : x # r => \A a \in Address : claim'[a] = x <=> claim[a] = x,
           \A x \in Requests : x # r => MadeBy(x)' = MadeBy(x),
           \A a \in Address : \A p \in everHad[a] : p \in everHad'[a],
           \A a \in Address : person[a] # NoOne =>
               person'[a] # NoOne \/ \A d \in Correction : d # r => single[d].from # a
    PROVE  /\ \A x \in StaffUpload : x # r => SheetOk(x)'
           /\ \A s \in Singles : s # r => SingleOk(s)'
<1>1. ASSUME NEW x \in StaffUpload, x # r PROVE SheetOk(x)'
  <2>1. x \in Requests /\ SheetOk(x)
    BY KindsApart DEF RosterIInv
  <2> QED BY <1>1, <2>1, OtherSheet
<1>2. ASSUME NEW s \in Singles, s # r PROVE SingleOk(s)'
  <2>1. s \in Requests /\ SingleOk(s)
    BY KindsApart DEF RosterIInv
  <2>2. \A a \in Address : person[a] # NoOne =>
           person'[a] # NoOne \/ (s \in Correction => single[s].from # a)
    BY <1>2
  <2> QED BY <1>2, <2>1, <2>2, OtherSingle
<1> QED BY <1>1, <1>2

(* The end of a transaction gives up what it had written, and nothing else.  *)
LEMMA ClaimsDropped ==
    ASSUME RosterTyped, NEW r \in Requests, claim' = Unclaimed(r)
    PROVE  /\ claim' \in [Address -> Requests \union {NoOne}]
           /\ NoClaim(r)'
           /\ \A a \in Address : claim'[a] # NoOne => claim[a] # NoOne /\ claim[a] # r
           /\ \A x \in Requests : x # r => \A a \in Address : claim'[a] = x <=> claim[a] = x
<1>1. r # NoOne /\ \A x \in Requests : x # NoOne
  BY RequestsAssumption
<1>2. claim' = [a \in Address |-> IF claim[a] = r THEN NoOne ELSE claim[a]]
  BY DEF Unclaimed
<1> QED BY <1>1, <1>2 DEF RosterTyped, NoClaim

LEMMA RowInserted ==
    ASSUME RosterIInv, NEW u \in StaffUpload, InsertRow(u)
    PROVE  RosterIInv'
<1> DEFINE file == sheet[u].file
           k == NextRow(u)
           a == NextAddress(u)
           free == person[a] = NoOne /\ claim[a] = NoOne
<1>1. /\ sheet[u].pc = "inserting" /\ sheet[u].left # {}
      /\ Holder(a) \in {NoOne, u}
      /\ sheet' = [sheet EXCEPT ![u].left = @ \ {k},
                                ![u].made = IF free THEN @ \union {a} ELSE @]
      /\ claim' = IF free THEN [claim EXCEPT ![a] = u] ELSE claim
      /\ person' = person /\ single' = single /\ trail' = trail /\ everHad' = everHad
  BY DEF InsertRow, Inserting
<1>2. RosterTyped /\ Kept /\ ClaimsFree /\ Apart /\ SheetOk(u) /\ Under(u)
  BY <1>1 DEF RosterIInv, SheetOk
<1>3. /\ file \in Files /\ Insertable(file) \in SUBSET Nat
      /\ sheet[u].left \subseteq Insertable(file)
  BY <1>2, RowsOfAList DEF Under
<1>4. k \in sheet[u].left
  <2>1. \E m \in sheet[u].left : \A j \in sheet[u].left : m <= j
    BY <1>1, <1>3, LeastOf
  <2> QED BY <2>1 DEF NextRow
<1>5. /\ k \in Insertable(file) /\ k \in Nat /\ a = file[k] /\ a \in Address
      /\ \A j \in Insertable(file) : file[j] = a => j = k
  BY <1>3, <1>4, RowsOfAList DEF NextAddress
<1> HIDE DEF k, a
<1>6. a \notin sheet[u].made /\ claim[a] # u
  <2>1. \A j \in RowsDone(u) : file[j] # a
    BY <1>4, <1>5 DEF RowsDone
  <2> QED BY <1>2, <1>5, <2>1 DEF Under
<1>7. claim[a] = NoOne
  BY <1>1, <1>6 DEF Holder
<1>8. /\ sheet'[u].pc = "inserting" /\ sheet'[u].file = file
      /\ sheet'[u].left = sheet[u].left \ {k}
      /\ sheet'[u].made = IF free THEN sheet[u].made \union {a} ELSE sheet[u].made
      /\ \A x \in StaffUpload : x # u => sheet'[x] = sheet[x]
      /\ sheet' \in [StaffUpload -> SheetRec]
  <2>1. sheet \in [StaffUpload -> SheetRec] /\ sheet[u] \in SheetRec
    BY <1>2 DEF RosterTyped
  <2> DEFINE new == [sheet[u] EXCEPT !.left = @ \ {k}, !.made = IF free THEN @ \union {a} ELSE @]
  <2>2. sheet' = [sheet EXCEPT ![u] = new]
    BY <1>1
  <2>3. new \in SheetRec
    BY <1>5, <2>1 DEF SheetRec
  <2>4. /\ new.pc = sheet[u].pc /\ new.file = file
        /\ new.left = sheet[u].left \ {k}
        /\ new.made = IF free THEN sheet[u].made \union {a} ELSE sheet[u].made
    BY <2>1 DEF SheetRec
  <2> HIDE DEF new
  <2> QED BY <1>1, <2>1, <2>2, <2>3, <2>4
<1>9. /\ \A b \in Address : claim'[b] = IF b = a /\ free THEN u ELSE claim[b]
      /\ claim' \in [Address -> Requests \union {NoOne}]
  <2>1. claim \in [Address -> Requests \union {NoOne}] /\ u \in Requests
    BY <1>2, KindsApart DEF RosterTyped
  <2> QED BY <1>1, <1>5, <2>1
<1>10. RosterTyped'
  BY <1>1, <1>2, <1>8, <1>9 DEF RosterTyped
<1>11. Kept' /\ \A r : MadeBy(r)' = MadeBy(r)
  BY <1>1, <1>2, SameKept, SameMade
<1>12. ClaimsFree'
  BY <1>1, <1>2, <1>5, <1>9 DEF ClaimsFree
<1>13. RowsDone(u)' = RowsDone(u) \union {k}
  BY <1>4, <1>5, <1>8 DEF RowsDone
<1>14. Under(u)'
  <2>1. \A b \in Address : claim'[b] = u <=> b \in sheet'[u].made
    BY <1>2, <1>6, <1>8, <1>9 DEF Under
  <2>2. \A b \in sheet'[u].made : \E j \in RowsDone(u)' : sheet'[u].file[j] = b
    BY <1>2, <1>5, <1>8, <1>13 DEF Under
  <2>3. a \in sheet'[u].made \/ \E p \in everHad[a] : p[1] # u
    <3>1. CASE free
      BY <1>8, <3>1
    <3>2. CASE ~free
      <4>1. person[a] # NoOne /\ person[a] \in everHad[a]
        BY <1>2, <1>5, <1>7, <3>2 DEF Kept
      <4>2. person[a][1] # u
        BY <1>2, <1>5, <4>1 DEF Under, MadeBy, Everybody
      <4> QED BY <4>1, <4>2
    <3> QED BY <3>1, <3>2
  <2>4. \A j \in RowsDone(u)' : \/ sheet'[u].file[j] \in sheet'[u].made
                                \/ \E p \in everHad'[sheet'[u].file[j]] : p[1] # u
    BY <1>1, <1>2, <1>5, <1>8, <1>13, <2>3 DEF Under
  <2>5. sheet'[u].file \in Files /\ sheet'[u].left \subseteq Insertable(sheet'[u].file)
    BY <1>3, <1>8
  <2>6. MadeBy(u)' = {}
    BY <1>2, <1>11 DEF Under
  <2> QED BY <2>1, <2>2, <2>4, <2>5, <2>6 DEF Under
<1>15. SheetOk(u)'
  BY <1>8, <1>14 DEF SheetOk
<1>16. /\ \A x \in StaffUpload : x # u => SheetOk(x)'
       /\ \A s \in Singles : s # u => SingleOk(s)'
  <2>1. u \in Requests /\ \A x \in Requests : x # NoOne
    BY KindsApart, RequestsAssumption
  <2>2. \A x \in Requests : x # u => \A b \in Address : claim'[b] = x <=> claim[b] = x
    BY <1>5, <1>7, <1>9, <2>1
  <2> QED BY <1>1, <1>8, <1>11, <2>1, <2>2, OthersStand
<1>17. \A s \in Singles : s # u
  BY KindsApart
<1>18. Apart'
  BY <1>1, <1>2 DEF Apart
<1> QED BY <1>10, <1>11, <1>12, <1>15, <1>16, <1>17, <1>18 DEF RosterIInv

LEMMA UploadCommitted ==
    ASSUME RosterIInv, NEW u \in StaffUpload, CommitUpload(u)
    PROVE  RosterIInv'
<1> DEFINE file == sheet[u].file
           made == sheet[u].made
           rows == {k \in Insertable(file) : file[k] \in made}
           report == [k \in DOMAIN file |-> Verdict(file, k, made)]
<1>1. /\ sheet[u].pc = "inserting" /\ sheet[u].left = {}
      /\ person' = [a \in Address |-> IF a \in made THEN IdOf(u, RowFor(u, a)) ELSE person[a]]
      /\ everHad' = [a \in Address |-> IF a \in made THEN everHad[a] \union {IdOf(u, RowFor(u, a))}
                                                     ELSE everHad[a]]
      /\ sheet' = [sheet EXCEPT ![u].pc = "done", ![u].report = report]
      /\ claim' = Unclaimed(u)
      /\ trail' = [p \in Who |-> IF \E k \in rows : p = IdOf(u, k) THEN trail[p] + 1 ELSE trail[p]]
      /\ single' = single
  BY DEF CommitUpload
<1>2. RosterTyped /\ Kept /\ ClaimsFree /\ Apart /\ SheetOk(u) /\ Under(u)
  BY <1>1 DEF RosterIInv, SheetOk
<1>3. /\ file \in Files /\ RowsDone(u) = Insertable(file) /\ made \in SUBSET Address
      /\ file \in Lists /\ DOMAIN file = 1 .. Len(file) /\ Len(file) \in Nat
      /\ \A k \in Insertable(file) : k \in 1 .. Len(file) /\ k \in 1 .. MaxRows /\ file[k] \in Address
      /\ \A j, k \in Insertable(file) : file[j] = file[k] => j = k
      /\ \A k \in 1 .. Len(file) : k \notin Insertable(file) =>
            file[k] = Unreadable \/ \E j \in 1..k-1 : file[j] = file[k]
  <2>1. file \in Files /\ RowsDone(u) = Insertable(file)
    BY <1>1, <1>2 DEF Under, RowsDone
  <2>2. made \in SUBSET Address
    BY <1>2 DEF RosterTyped, SheetRec
  <2> QED BY <2>1, <2>2, RowsOfAList
<1>4. \A a \in made : RowFor(u, a) \in Insertable(file) /\ file[RowFor(u, a)] = a
  <2> TAKE a \in made
  <2>1. \E k \in Insertable(file) : file[k] = a
    BY <1>2, <1>3 DEF Under
  <2> QED BY <2>1 DEF RowFor
<1>5. \A k \in rows : RowFor(u, file[k]) = k
  BY <1>3, <1>4
<1>6. \A a \in made : RowFor(u, a) \in rows /\ IdOf(u, RowFor(u, a)) \in Who /\ person[a] = NoOne
  <2> TAKE a \in made
  <2>1. RowFor(u, a) \in rows /\ RowFor(u, a) \in 1 .. MaxRows
    BY <1>3, <1>4
  <2>2. claim[a] = u /\ u # NoOne /\ a \in Address
    BY <1>2, <1>3, KindsApart DEF Under
  <2> QED BY <1>2, <2>1, <2>2, IdsApart DEF ClaimsFree
<1> HIDE DEF file, made
<1>7. /\ person \in [Address -> Who \union {NoOne}] /\ everHad \in [Address -> SUBSET Who]
      /\ trail \in [Who -> Nat] /\ \A p \in Who : p # NoOne
  BY <1>2, IdsApart DEF RosterTyped
<1>8. \A a \in Address : a \in made =>
         person'[a] = IdOf(u, RowFor(u, a)) /\ everHad'[a] = everHad[a] \union {IdOf(u, RowFor(u, a))}
  BY <1>1
<1>9. \A a \in Address : a \notin made => person'[a] = person[a] /\ everHad'[a] = everHad[a]
  BY <1>1
<1>10. Everybody' = Everybody \union {IdOf(u, k) : k \in rows}
  <2>1. ASSUME NEW p, p \in Everybody' PROVE p \in Everybody \union {IdOf(u, k) : k \in rows}
    <3>1. PICK a \in Address : p \in everHad'[a]
      BY <2>1 DEF Everybody
    <3> QED BY <1>6, <1>8, <1>9, <3>1 DEF Everybody
  <2>2. ASSUME NEW p, p \in Everybody PROVE p \in Everybody'
    <3>1. PICK a \in Address : p \in everHad[a]
      BY <2>2 DEF Everybody
    <3> QED BY <1>8, <1>9, <3>1 DEF Everybody
  <2>3. ASSUME NEW k \in rows PROVE IdOf(u, k) \in Everybody'
    <3>1. file[k] \in made /\ file[k] \in Address /\ RowFor(u, file[k]) = k
      BY <1>3, <1>5
    <3> QED BY <1>8, <3>1 DEF Everybody
  <2> QED BY <2>1, <2>2, <2>3
<1>11. MadeBy(u) = {}
  BY <1>2 DEF Under
<1>12. MadeBy(u)' = {IdOf(u, k) : k \in rows} /\ \A r : r # u => MadeBy(r)' = MadeBy(r)
  <2>1. \A k : IdOf(u, k)[1] = u
    BY IdsApart
  <2>2. MadeBy(u)' = {IdOf(u, k) : k \in rows}
    BY <1>10, <1>11, <2>1 DEF MadeBy
  <2>3. ASSUME NEW r, r # u PROVE MadeBy(r)' = MadeBy(r)
    BY <1>10, <2>1, <2>3 DEF MadeBy
  <2> QED BY <2>2, <2>3
<1>13. /\ sheet'[u].pc = "done" /\ sheet'[u].file = file /\ sheet'[u].report = report
       /\ \A x \in StaffUpload : x # u => sheet'[x] = sheet[x]
       /\ sheet' \in [StaffUpload -> SheetRec]
  <2>1. sheet \in [StaffUpload -> SheetRec] /\ sheet[u] \in SheetRec
    BY <1>2 DEF RosterTyped
  <2>2. report \in Seq({"created", "skipped", "errored"})
    <3>1. \A k \in 1 .. Len(file) : Verdict(file, k, made) \in {"created", "skipped", "errored"}
      BY DEF Verdict
    <3>2. report = [k \in 1 .. Len(file) |-> Verdict(file, k, made)]
      BY <1>3
    <3> QED BY <1>3, <3>1, <3>2, IsASeq
  <2> HIDE DEF report
  <2> DEFINE new == [sheet[u] EXCEPT !.pc = "done", !.report = report]
  <2>3. sheet' = [sheet EXCEPT ![u] = new]
    BY <1>1
  <2>4. new \in SheetRec /\ new.pc = "done" /\ new.file = sheet[u].file /\ new.report = report
    BY <2>1, <2>2 DEF SheetRec
  <2> HIDE DEF new
  <2> QED BY <2>1, <2>3, <2>4 DEF file
<1>14. /\ claim' \in [Address -> Requests \union {NoOne}] /\ NoClaim(u)'
       /\ \A a \in Address : claim'[a] # NoOne => claim[a] # NoOne /\ claim[a] # u
       /\ \A x \in Requests : x # u => \A a \in Address : claim'[a] = x <=> claim[a] = x
  BY <1>1, <1>2, KindsApart, ClaimsDropped
<1>15. RosterTyped'
  <2>1. person' \in [Address -> Who \union {NoOne}]
    BY <1>1, <1>6, <1>7
  <2>2. everHad' \in [Address -> SUBSET Who]
    BY <1>1, <1>6, <1>7
  <2>3. trail' \in [Who -> Nat]
    BY <1>1, <1>7
  <2> QED BY <1>1, <1>2, <1>13, <1>14, <2>1, <2>2, <2>3 DEF RosterTyped
<1>16. Kept'
  <2>1. \A a \in Address : person'[a] # NoOne => person'[a] \in everHad'[a]
    BY <1>2, <1>8, <1>9 DEF Kept
  <2>2. ASSUME NEW a \in Address, NEW p \in everHad'[a] PROVE \E b \in Address : person'[b] = p
    <3>1. CASE p \in everHad[a]
      <4>1. PICK b \in Address : person[b] = p
        BY <1>2, <3>1 DEF Kept
      <4>2. p # NoOne
        BY <1>7, <3>1
      <4> QED BY <1>6, <1>9, <4>1, <4>2
    <3>2. CASE p \notin everHad[a]
      BY <1>8, <1>9, <2>2, <3>2
    <3> QED BY <3>1, <3>2
  <2>3. ASSUME NEW p \in Who PROVE trail'[p] = IF p \in Everybody' THEN 1 ELSE 0
    <3>1. trail[p] = IF p \in Everybody THEN 1 ELSE 0
      BY <1>2 DEF Kept
    <3>2. CASE \E k \in rows : p = IdOf(u, k)
      <4>1. p[1] = u
        BY <3>2, IdsApart
      <4>2. p \notin Everybody
        BY <1>11, <4>1 DEF MadeBy
      <4>3. p \in Everybody'
        BY <1>10, <3>2
      <4> QED BY <1>1, <3>1, <3>2, <4>2, <4>3
    <3>3. CASE ~\E k \in rows : p = IdOf(u, k)
      <4>1. p \in Everybody' <=> p \in Everybody
        BY <1>10, <3>3
      <4> QED BY <1>1, <3>1, <3>3, <4>1
    <3> QED BY <3>2, <3>3
  <2> QED BY <2>1, <2>2, <2>3 DEF Kept
<1>17. ClaimsFree'
  BY <1>2, <1>9, <1>14 DEF ClaimsFree, Under, made
<1>18. Told(u)'
  <2>1. DOMAIN report = 1 .. Len(file) /\ \A k \in 1 .. Len(file) : report[k] = Verdict(file, k, made)
    BY <1>3
  <2>2. Reported(u, "created")' = rows
    <3>1. \A k \in Insertable(file) : file[k] # Unreadable
      BY <1>3, FilesAssumption
    <3>2. \A k \in 1 .. Len(file) : Verdict(file, k, made) = "created" <=> k \in rows
      BY <3>1 DEF Verdict
    <3>3. rows \subseteq 1 .. Len(file)
      BY <1>3
    <3>4. Reported(u, "created")' = {k \in 1 .. Len(file) : report[k] = "created"}
      BY <1>13, <2>1 DEF Reported
    <3> HIDE DEF rows, report
    <3>5. \A k \in 1 .. Len(file) : report[k] = "created" <=> k \in rows
      BY <2>1, <3>2
    <3>6. rows \subseteq 1 .. Len(file)
      BY <3>3 DEF rows
    <3> QED BY <3>4, <3>5, <3>6
  <2>3. ASSUME NEW k \in Reported(u, "skipped")'
        PROVE  \/ file[k] \in Address /\ \E p \in everHad'[file[k]] : p[1] # u
               \/ \E j \in 1..k-1 : file[j] = file[k]
    <3>1. k \in 1 .. Len(file) /\ Verdict(file, k, made) = "skipped"
      BY <1>13, <2>1 DEF Reported
    <3>2. file[k] # Unreadable /\ (k \notin Insertable(file) \/ file[k] \notin made)
      BY <3>1 DEF Verdict
    <3>3. CASE k \notin Insertable(file)
      BY <1>3, <3>1, <3>2, <3>3
    <3>4. CASE k \in Insertable(file)
      <4>1. file[k] \notin made /\ file[k] \in Address
        BY <1>3, <3>2, <3>4
      <4>2. \E p \in everHad[file[k]] : p[1] # u
        BY <1>2, <1>3, <3>4, <4>1 DEF Under, file, made
      <4> QED BY <1>9, <4>1, <4>2
    <3> QED BY <3>3, <3>4
  <2>4. {IdOf(u, k) : k \in Reported(u, "created")'} = MadeBy(u)'
    BY <1>12, <2>2
  <2> HIDE DEF rows, report
  <2>5. Reported(u, "created")' = rows
    BY <2>2 DEF rows
  <2> QED BY <1>13, <2>3, <2>4 DEF Told
<1>19. SheetOk(u)'
  BY <1>13, <1>14, <1>18 DEF SheetOk
<1>20. /\ \A x \in StaffUpload : x # u => SheetOk(x)'
       /\ \A s \in Singles : s # u => SingleOk(s)'
  <2>1. u \in Requests
    BY KindsApart
  <2>2. \A a \in Address : \A p \in everHad[a] : p \in everHad'[a]
    BY <1>8, <1>9
  <2>3. \A a \in Address : person[a] # NoOne => person'[a] # NoOne
    BY <1>6, <1>9
  <2>4. \A s \in Singles : s # u => single'[s] = single[s]
    BY <1>1
  <2>5. \A x \in Requests : x # u => MadeBy(x)' = MadeBy(x)
    BY <1>12
  <2> HIDE DEF rows, report
  <2> QED BY <1>13, <1>14, <2>1, <2>2, <2>3, <2>4, <2>5, OthersStand
<1>21. \A s \in Singles : s # u
  BY KindsApart
<1>22. Apart'
  BY <1>1, <1>2 DEF Apart
<1> QED BY <1>15, <1>16, <1>17, <1>19, <1>20, <1>21, <1>22 DEF RosterIInv

LEMMA UserAdded ==
    ASSUME RosterIInv, NEW n \in NewUser, NEW a \in Address, AddUser(n, a)
    PROVE  RosterIInv'
<1> DEFINE new == [pc |-> "inserting", from |-> NoOne, to |-> a]
<1>1. /\ single[n].pc = "idle" /\ single' = [single EXCEPT ![n] = new]
      /\ person' = person /\ claim' = claim /\ sheet' = sheet /\ trail' = trail /\ everHad' = everHad
  BY DEF AddUser
<1>2. RosterTyped /\ Kept /\ ClaimsFree /\ Apart /\ n \in Singles /\ n \in Requests /\ SingleOk(n)
  BY KindsApart DEF RosterIInv
<1>3. new \in SingleRec
  BY DEF SingleRec
<1>4. /\ single' \in [Singles -> SingleRec] /\ single'[n] = new
      /\ \A s \in Singles : s # n => single'[s] = single[s]
  BY <1>1, <1>2, <1>3 DEF RosterTyped
<1>5. RosterTyped' /\ ClaimsFree'
  BY <1>1, <1>2, <1>4 DEF RosterTyped, ClaimsFree
<1>6. Kept' /\ \A r : MadeBy(r)' = MadeBy(r)
  BY <1>1, <1>2, SameKept, SameMade
<1>7. /\ \A x \in StaffUpload : x # n => SheetOk(x)'
      /\ \A s \in Singles : s # n => SingleOk(s)'
  BY <1>1, <1>2, <1>4, <1>6, OthersStand
<1>8. SingleOk(n)'
  BY <1>1, <1>2, <1>4, <1>6, KindsApart DEF SingleOk, Busy
<1>9. \A x \in StaffUpload : x # n
  BY KindsApart
<1>10. Apart'
  BY <1>2, <1>4, KindsApart DEF Apart
<1> QED BY <1>5, <1>6, <1>7, <1>8, <1>9, <1>10 DEF RosterIInv

LEMMA AddressCorrected ==
    ASSUME RosterIInv, NEW c \in Correction, NEW a \in Address, NEW b \in Address,
           CorrectAddress(c, a, b)
    PROVE  RosterIInv'
<1> DEFINE new == [pc |-> "inserting", from |-> a, to |-> b]
<1>1. /\ single[c].pc = "idle" /\ single' = [single EXCEPT ![c] = new]
      /\ person[a] # NoOne /\ \A d \in Correction : single[d].from # a
      /\ person' = person /\ claim' = claim /\ sheet' = sheet /\ trail' = trail /\ everHad' = everHad
  BY DEF CorrectAddress
<1>2. RosterTyped /\ Kept /\ ClaimsFree /\ Apart /\ c \in Singles /\ c \in Requests /\ SingleOk(c)
  BY KindsApart DEF RosterIInv
<1>3. new \in SingleRec
  BY DEF SingleRec
<1>4. /\ single' \in [Singles -> SingleRec] /\ single'[c] = new
      /\ \A s \in Singles : s # c => single'[s] = single[s]
  BY <1>1, <1>2, <1>3 DEF RosterTyped
<1>5. RosterTyped' /\ ClaimsFree'
  BY <1>1, <1>2, <1>4 DEF RosterTyped, ClaimsFree
<1>6. Kept' /\ \A r : MadeBy(r)' = MadeBy(r)
  BY <1>1, <1>2, SameKept, SameMade
<1>7. /\ \A x \in StaffUpload : x # c => SheetOk(x)'
      /\ \A s \in Singles : s # c => SingleOk(s)'
  BY <1>1, <1>2, <1>4, <1>6, OthersStand
<1>8. SingleOk(c)'
  BY <1>1, <1>2, <1>4, <1>6, KindsApart DEF SingleOk, Busy
<1>9. \A x \in StaffUpload : x # c
  BY KindsApart
<1>10. Apart'
  BY <1>1, <1>2, <1>4, KindsApart DEF Apart
<1> QED BY <1>5, <1>6, <1>7, <1>8, <1>9, <1>10 DEF RosterIInv

(* What a request that has ended, committed or not, leaves of itself.        *)
LEMMA SingleEnded ==
    ASSUME RosterTyped, Apart, NEW s \in Singles, NEW outcome \in {"done", "refused", "failed"},
           Finish(s, outcome), NoClaim(s)', outcome # "done" => MadeBy(s)' = {} \/ s \notin NewUser
    PROVE  /\ single' \in [Singles -> SingleRec] /\ SingleOk(s)' /\ Apart'
           /\ \A x \in Singles : x # s => single'[x] = single[x]
<1> DEFINE new == [pc |-> outcome, from |-> NoOne, to |-> NoOne]
<1>1. single' = [single EXCEPT ![s] = new]
  BY DEF Finish, NewRequest
<1>2. new \in SingleRec
  BY DEF SingleRec
<1>3. /\ single' \in [Singles -> SingleRec] /\ single'[s] = new
      /\ \A x \in Singles : x # s => single'[x] = single[x]
  BY <1>1, <1>2 DEF RosterTyped
<1>4. SingleOk(s)'
  BY <1>3 DEF SingleOk, Busy, NoClaim
<1>5. Apart'
  BY <1>3, KindsApart DEF Apart
<1> QED BY <1>3, <1>4, <1>5

LEMMA OneInserted ==
    ASSUME RosterIInv, NEW s \in Singles, InsertOne(s)
    PROVE  RosterIInv'
<1> DEFINE a == single[s].to
<1>1. /\ single[s].pc = "inserting" /\ Holder(a) = NoOne
      /\ person' = person /\ sheet' = sheet /\ trail' = trail /\ everHad' = everHad
  BY DEF InsertOne
<1>2. RosterTyped /\ Kept /\ ClaimsFree /\ Apart /\ s \in Requests /\ s # NoOne /\ SingleOk(s)
  BY KindsApart DEF RosterIInv
<1>3. a \in Address
  BY <1>1, <1>2 DEF SingleOk, Busy
<1>4. claim[a] = NoOne
  BY <1>1 DEF Holder
<1>5. \A b \in Address : claim[b] # s
  BY <1>1, <1>2 DEF SingleOk
<1>6. Kept' /\ \A r : MadeBy(r)' = MadeBy(r)
  BY <1>1, <1>2, SameKept, SameMade
<1>7. \A x \in StaffUpload : x # s
  BY KindsApart
<1>8. CASE person[a] = NoOne
  <2>1. claim' = [claim EXCEPT ![a] = s] /\ single' = [single EXCEPT ![s].pc = "open"]
    BY <1>8 DEF InsertOne
  <2>2. /\ claim' \in [Address -> Requests \union {NoOne}] /\ claim'[a] = s
        /\ \A b \in Address : b # a => claim'[b] = claim[b]
    BY <1>2, <1>3, <2>1 DEF RosterTyped
  <2>3. /\ single' \in [Singles -> SingleRec]
        /\ single'[s].pc = "open" /\ single'[s].from = single[s].from /\ single'[s].to = a
        /\ \A x \in Singles : x # s => single'[x] = single[x]
    <3>1. single \in [Singles -> SingleRec] /\ single[s] \in SingleRec
      BY <1>2 DEF RosterTyped
    <3> DEFINE new == [single[s] EXCEPT !.pc = "open"]
    <3>2. single' = [single EXCEPT ![s] = new]
      BY <2>1
    <3>3. new \in SingleRec /\ new.pc = "open" /\ new.from = single[s].from /\ new.to = a
      BY <3>1 DEF SingleRec
    <3> HIDE DEF new, a
    <3> QED BY <3>1, <3>2, <3>3
  <2> HIDE DEF a
  <2>4. RosterTyped' /\ ClaimsFree'
    BY <1>1, <1>2, <1>8, <2>2, <2>3 DEF RosterTyped, ClaimsFree
  <2>5. SingleOk(s)'
    <3>1. \A b \in Address : claim'[b] = s <=> b = a
      BY <1>5, <2>2
    <3> QED BY <1>1, <1>2, <1>3, <1>6, <2>3, <3>1 DEF SingleOk, Busy
  <2>6. \A x \in Requests : x # s => \A b \in Address : claim'[b] = x <=> claim[b] = x
    BY <1>4, <2>2, RequestsAssumption
  <2>7. /\ \A x \in StaffUpload : x # s => SheetOk(x)'
        /\ \A x \in Singles : x # s => SingleOk(x)'
    BY <1>1, <1>2, <1>6, <2>3, <2>6, OthersStand
  <2>8. Apart'
    <3>1. \A x \in Singles : single'[x].from = single[x].from
      BY <2>3
    <3> QED BY <1>2, <3>1, KindsApart DEF Apart
  <2> QED BY <1>6, <1>7, <2>4, <2>5, <2>7, <2>8 DEF RosterIInv
<1>9. CASE person[a] # NoOne
  <2>1. claim' = claim /\ Finish(s, "refused")
    BY <1>9 DEF InsertOne
  <2>2. NoClaim(s)'
    BY <1>5, <2>1 DEF NoClaim
  <2>3. s \in NewUser => MadeBy(s)' = {}
    BY <1>1, <1>2, <1>6 DEF SingleOk
  <2>4. /\ single' \in [Singles -> SingleRec] /\ SingleOk(s)' /\ Apart'
        /\ \A x \in Singles : x # s => single'[x] = single[x]
    BY <1>2, <2>1, <2>2, <2>3, SingleEnded
  <2>5. RosterTyped' /\ ClaimsFree'
    BY <1>1, <1>2, <2>1, <2>4 DEF RosterTyped, ClaimsFree
  <2>6. /\ \A x \in StaffUpload : x # s => SheetOk(x)'
        /\ \A x \in Singles : x # s => SingleOk(x)'
    BY <1>1, <1>2, <1>6, <2>1, <2>4, OthersStand
  <2> QED BY <1>6, <1>7, <2>4, <2>5, <2>6 DEF RosterIInv
<1> QED BY <1>8, <1>9

LEMMA UserCommitted ==
    ASSUME RosterIInv, NEW n \in NewUser, CommitUser(n)
    PROVE  RosterIInv'
<1> DEFINE a == single[n].to
           p == IdOf(n, 1)
<1>1. /\ single[n].pc = "open"
      /\ person' = [person EXCEPT ![a] = p]
      /\ everHad' = [everHad EXCEPT ![a] = @ \union {p}]
      /\ trail' = [trail EXCEPT ![p] = @ + 1]
      /\ claim' = Unclaimed(n) /\ Finish(n, "done") /\ sheet' = sheet
  BY DEF CommitUser
<1>2. RosterTyped /\ Kept /\ ClaimsFree /\ Apart /\ n \in Singles /\ n \in Requests /\ SingleOk(n)
  BY KindsApart DEF RosterIInv
<1>3. a \in Address /\ claim[a] = n /\ MadeBy(n) = {}
  BY <1>1, <1>2 DEF SingleOk, Busy
<1>4. person[a] = NoOne
  BY <1>2, <1>3, KindsApart DEF ClaimsFree
<1>5. p \in Who /\ p # NoOne /\ p[1] = n /\ p \notin Everybody
  BY <1>3, IdsApart DEF MadeBy
<1> HIDE DEF a, p
<1>6. /\ person \in [Address -> Who \union {NoOne}] /\ everHad \in [Address -> SUBSET Who]
      /\ trail \in [Who -> Nat] /\ \A q \in Who : q # NoOne
  BY <1>2, IdsApart DEF RosterTyped
<1>7. /\ person'[a] = p /\ everHad'[a] = everHad[a] \union {p}
      /\ \A b \in Address : b # a => person'[b] = person[b] /\ everHad'[b] = everHad[b]
  BY <1>1, <1>3, <1>6
<1>8. /\ person' \in [Address -> Who \union {NoOne}] /\ everHad' \in [Address -> SUBSET Who]
      /\ trail' \in [Who -> Nat] /\ trail'[p] = trail[p] + 1
      /\ \A q \in Who : q # p => trail'[q] = trail[q]
  BY <1>1, <1>3, <1>5, <1>6
<1>9. Everybody' = Everybody \union {p}
  <2>1. ASSUME NEW q, q \in Everybody' PROVE q \in Everybody \union {p}
    <3>1. PICK b \in Address : q \in everHad'[b]
      BY <2>1 DEF Everybody
    <3> QED BY <1>7, <3>1 DEF Everybody
  <2>2. ASSUME NEW q, q \in Everybody PROVE q \in Everybody'
    <3>1. PICK b \in Address : q \in everHad[b]
      BY <2>2 DEF Everybody
    <3> QED BY <1>7, <3>1 DEF Everybody
  <2>3. p \in Everybody'
    BY <1>3, <1>7 DEF Everybody
  <2> QED BY <2>1, <2>2, <2>3
<1>10. \A r : r # n => MadeBy(r)' = MadeBy(r)
  BY <1>5, <1>9 DEF MadeBy
<1>11. /\ claim' \in [Address -> Requests \union {NoOne}] /\ NoClaim(n)'
       /\ \A b \in Address : claim'[b] # NoOne => claim[b] # NoOne /\ claim[b] # n
       /\ \A x \in Requests : x # n => \A b \in Address : claim'[b] = x <=> claim[b] = x
  BY <1>1, <1>2, ClaimsDropped
<1>12. /\ single' \in [Singles -> SingleRec] /\ SingleOk(n)' /\ Apart'
       /\ \A x \in Singles : x # n => single'[x] = single[x]
  BY <1>1, <1>2, <1>11, SingleEnded
<1>13. RosterTyped'
  BY <1>1, <1>2, <1>8, <1>11, <1>12 DEF RosterTyped
<1>14. Kept'
  <2>1. \A b \in Address : person'[b] # NoOne => person'[b] \in everHad'[b]
    BY <1>2, <1>7 DEF Kept
  <2>2. ASSUME NEW b \in Address, NEW q \in everHad'[b] PROVE \E d \in Address : person'[d] = q
    <3>1. CASE q = p
      BY <1>3, <1>7, <3>1
    <3>2. CASE q # p
      <4>1. q \in everHad[b]
        BY <1>7, <3>2
      <4>2. PICK d \in Address : person[d] = q
        BY <1>2, <4>1 DEF Kept
      <4>3. q # NoOne
        BY <1>6, <4>1
      <4> QED BY <1>4, <1>7, <4>2, <4>3
    <3> QED BY <3>1, <3>2
  <2>3. ASSUME NEW q \in Who PROVE trail'[q] = IF q \in Everybody' THEN 1 ELSE 0
    <3>1. trail[q] = IF q \in Everybody THEN 1 ELSE 0
      BY <1>2 DEF Kept
    <3> QED BY <1>5, <1>8, <1>9, <3>1
  <2> QED BY <2>1, <2>2, <2>3 DEF Kept
<1>15. ClaimsFree'
  <2> SUFFICES ASSUME NEW b \in Address, claim'[b] # NoOne PROVE person'[b] = NoOne
    BY DEF ClaimsFree
  <2>1. claim[b] # NoOne /\ b # a
    BY <1>3, <1>11
  <2> QED BY <1>2, <1>7, <2>1 DEF ClaimsFree
<1>16. /\ \A x \in StaffUpload : x # n => SheetOk(x)'
       /\ \A s \in Singles : s # n => SingleOk(s)'
  <2>1. \A b \in Address : \A q \in everHad[b] : q \in everHad'[b]
    BY <1>7
  <2>2. \A b \in Address : person[b] # NoOne => person'[b] # NoOne
    BY <1>4, <1>7
  <2> QED BY <1>1, <1>2, <1>10, <1>11, <1>12, <2>1, <2>2, OthersStand
<1>17. \A x \in StaffUpload : x # n
  BY KindsApart
<1> QED BY <1>12, <1>13, <1>14, <1>15, <1>16, <1>17 DEF RosterIInv

LEMMA CorrectionCommitted ==
    ASSUME RosterIInv, NEW c \in Correction, CommitCorrection(c)
    PROVE  RosterIInv'
<1> DEFINE a == single[c].from
           b == single[c].to
           p == person[a]
<1>1. /\ single[c].pc = "open"
      /\ person' = [person EXCEPT ![b] = p, ![a] = NoOne]
      /\ everHad' = [everHad EXCEPT ![b] = @ \union {p}]
      /\ claim' = Unclaimed(c) /\ Finish(c, "done") /\ sheet' = sheet /\ trail' = trail
  BY DEF CommitCorrection
<1>2. RosterTyped /\ Kept /\ ClaimsFree /\ Apart /\ c \in Singles /\ c \in Requests /\ SingleOk(c)
  BY KindsApart DEF RosterIInv
<1>3. b \in Address /\ claim[b] = c /\ a \in Address /\ p # NoOne
  BY <1>1, <1>2 DEF SingleOk, Busy
<1>4. person[b] = NoOne /\ a # b
  BY <1>2, <1>3, KindsApart DEF ClaimsFree
<1>5. /\ p \in everHad[a] /\ p \in Everybody /\ p \in Who
      /\ \A d \in Correction : d # c => single[d].from # a
  BY <1>2, <1>3, KindsApart DEF Kept, Everybody, RosterTyped, Apart
<1> HIDE DEF a, b, p
<1>6. /\ person \in [Address -> Who \union {NoOne}] /\ everHad \in [Address -> SUBSET Who]
      /\ \A q \in Who : q # NoOne
  BY <1>2, IdsApart DEF RosterTyped
<1>7. /\ person'[b] = p /\ everHad'[b] = everHad[b] \union {p} /\ person'[a] = NoOne
      /\ \A d \in Address : d # b => everHad'[d] = everHad[d]
      /\ \A d \in Address : d # b /\ d # a => person'[d] = person[d]
  BY <1>1, <1>3, <1>4, <1>6
<1>8. person' \in [Address -> Who \union {NoOne}] /\ everHad' \in [Address -> SUBSET Who]
  BY <1>1, <1>3, <1>5, <1>6
<1>9. Everybody' = Everybody
  <2>1. ASSUME NEW q, q \in Everybody' PROVE q \in Everybody
    <3>1. PICK d \in Address : q \in everHad'[d]
      BY <2>1 DEF Everybody
    <3> QED BY <1>5, <1>7, <3>1 DEF Everybody
  <2>2. ASSUME NEW q, q \in Everybody PROVE q \in Everybody'
    <3>1. PICK d \in Address : q \in everHad[d]
      BY <2>2 DEF Everybody
    <3> QED BY <1>7, <3>1 DEF Everybody
  <2> QED BY <2>1, <2>2
<1>10. \A r : MadeBy(r)' = MadeBy(r)
  BY <1>9 DEF MadeBy
<1>11. /\ claim' \in [Address -> Requests \union {NoOne}] /\ NoClaim(c)'
       /\ \A d \in Address : claim'[d] # NoOne => claim[d] # NoOne /\ claim[d] # c
       /\ \A x \in Requests : x # c => \A d \in Address : claim'[d] = x <=> claim[d] = x
  BY <1>1, <1>2, ClaimsDropped
<1>12. /\ single' \in [Singles -> SingleRec] /\ SingleOk(c)' /\ Apart'
       /\ \A x \in Singles : x # c => single'[x] = single[x]
  BY <1>1, <1>2, <1>11, SingleEnded
<1>13. RosterTyped'
  BY <1>1, <1>2, <1>8, <1>11, <1>12 DEF RosterTyped
<1>14. Kept'
  <2>1. \A d \in Address : person'[d] # NoOne => person'[d] \in everHad'[d]
    BY <1>2, <1>7 DEF Kept
  <2>2. ASSUME NEW d \in Address, NEW q \in everHad'[d] PROVE \E e \in Address : person'[e] = q
    <3>1. CASE q = p
      BY <1>3, <1>7, <3>1
    <3>2. CASE q # p
      <4>1. q \in everHad[d]
        BY <1>7, <3>2
      <4>2. PICK e \in Address : person[e] = q
        BY <1>2, <4>1 DEF Kept
      <4>3. q # NoOne
        BY <1>6, <4>1
      <4>4. e # a /\ e # b
        BY <1>4, <3>2, <4>2, <4>3 DEF p
      <4> QED BY <1>7, <4>2, <4>4
    <3> QED BY <3>1, <3>2
  <2>3. ASSUME NEW q \in Who PROVE trail'[q] = IF q \in Everybody' THEN 1 ELSE 0
    BY <1>1, <1>2, <1>9 DEF Kept
  <2> QED BY <2>1, <2>2, <2>3 DEF Kept
<1>15. ClaimsFree'
  <2> SUFFICES ASSUME NEW d \in Address, claim'[d] # NoOne PROVE person'[d] = NoOne
    BY DEF ClaimsFree
  <2>1. claim[d] # NoOne /\ d # b
    BY <1>3, <1>11
  <2> QED BY <1>2, <1>7, <2>1 DEF ClaimsFree
<1>16. /\ \A x \in StaffUpload : x # c => SheetOk(x)'
       /\ \A s \in Singles : s # c => SingleOk(s)'
  <2>1. \A d \in Address : \A q \in everHad[d] : q \in everHad'[d]
    BY <1>7
  <2>2. \A d \in Address : person[d] # NoOne =>
           person'[d] # NoOne \/ \A x \in Correction : x # c => single[x].from # d
    BY <1>4, <1>5, <1>7
  <2> QED BY <1>1, <1>2, <1>10, <1>11, <1>12, <2>1, <2>2, OthersStand
<1>17. \A x \in StaffUpload : x # c
  BY KindsApart
<1> QED BY <1>12, <1>13, <1>14, <1>15, <1>16, <1>17 DEF RosterIInv

(* Only a request that is still inserting waits for anybody.                 *)
LEMMA RequestFailed ==
    ASSUME RosterIInv, NEW r \in Requests, Deadlocked(r)
    PROVE  RosterIInv'
<1>1. /\ WaitsInCircle(r) /\ claim' = Unclaimed(r)
      /\ person' = person /\ trail' = trail /\ everHad' = everHad
  BY DEF Deadlocked
<1>2. RosterTyped /\ Kept /\ ClaimsFree /\ Apart
  BY DEF RosterIInv
<1>3. Kept' /\ \A x : MadeBy(x)' = MadeBy(x)
  BY <1>1, <1>2, SameKept, SameMade
<1>4. /\ claim' \in [Address -> Requests \union {NoOne}] /\ NoClaim(r)'
      /\ \A d \in Address : claim'[d] # NoOne => claim[d] # NoOne /\ claim[d] # r
      /\ \A x \in Requests : x # r => \A d \in Address : claim'[d] = x <=> claim[d] = x
  BY <1>1, <1>2, ClaimsDropped
<1>5. ClaimsFree'
  BY <1>1, <1>2, <1>4 DEF ClaimsFree
<1>6. Awaited(r) # NoOne
  BY <1>1, RequestsAssumption DEF WaitsInCircle
<1>7. CASE r \in StaffUpload
  <2> DEFINE new == [pc |-> "failed", file |-> <<>>, left |-> {}, made |-> {}, report |-> <<>>]
  <2>1. sheet[r].pc = "inserting"
    BY <1>6, <1>7 DEF Awaited, Inserting
  <2>2. sheet' = [sheet EXCEPT ![r] = new] /\ single' = single
    BY <1>7 DEF Deadlocked, NewSheet
  <2>3. new \in SheetRec
    <3>1. <<>> \in Lists /\ <<>> \in Seq({"created", "skipped", "errored"})
      BY DEF Lists
    <3> QED BY <3>1 DEF SheetRec
  <2>4. new.pc = "failed"
    OBVIOUS
  <2> HIDE DEF new
  <2>5. /\ sheet' \in [StaffUpload -> SheetRec] /\ sheet'[r].pc = "failed"
        /\ \A x \in StaffUpload : x # r => sheet'[x] = sheet[x]
    BY <1>2, <1>7, <2>2, <2>3, <2>4 DEF RosterTyped
  <2>6. RosterTyped'
    BY <1>1, <1>2, <1>4, <2>2, <2>5 DEF RosterTyped
  <2>7. MadeBy(r) = {}
    BY <1>7, <2>1 DEF RosterIInv, SheetOk, Under
  <2>8. SheetOk(r)'
    BY <1>3, <1>4, <2>5, <2>7 DEF SheetOk
  <2>9. /\ \A x \in StaffUpload : x # r => SheetOk(x)'
        /\ \A s \in Singles : s # r => SingleOk(s)'
    BY <1>1, <1>3, <1>4, <2>2, <2>5, OthersStand
  <2>10. \A s \in Singles : s # r
    BY <1>7, KindsApart
  <2>11. Apart'
    BY <1>2, <2>2 DEF Apart
  <2> QED BY <1>3, <1>5, <2>6, <2>8, <2>9, <2>10, <2>11 DEF RosterIInv
<1>8. CASE r \notin StaffUpload
  <2>1. r \in Singles
    BY <1>8 DEF Requests, Singles
  <2>2. single[r].pc = "inserting" /\ SingleOk(r)
    BY <1>6, <1>8, <2>1 DEF Awaited, RosterIInv
  <2>3. Finish(r, "failed") /\ sheet' = sheet
    BY <1>8 DEF Deadlocked
  <2>4. r \in NewUser => MadeBy(r)' = {}
    BY <1>3, <2>2 DEF SingleOk
  <2>5. /\ single' \in [Singles -> SingleRec] /\ SingleOk(r)' /\ Apart'
        /\ \A x \in Singles : x # r => single'[x] = single[x]
    BY <1>2, <1>4, <2>1, <2>3, <2>4, SingleEnded
  <2>6. RosterTyped'
    BY <1>1, <1>2, <1>4, <2>3, <2>5 DEF RosterTyped
  <2>7. /\ \A x \in StaffUpload : x # r => SheetOk(x)'
        /\ \A s \in Singles : s # r => SingleOk(s)'
    BY <1>1, <1>3, <1>4, <2>3, <2>5, OthersStand
  <2> QED BY <1>3, <1>5, <1>8, <2>5, <2>6, <2>7 DEF RosterIInv
<1> QED BY <1>7, <1>8

LEMMA RosterSteps ==
    ASSUME RosterIInv, [RosterNext]_rosterVars
    PROVE  RosterIInv'
<1>1. CASE RosterNext
  <2>1. CASE \E u \in StaffUpload : (\E file \in Files : ReadSheet(u, file)) \/ InsertRow(u) \/ CommitUpload(u)
    BY <2>1, SheetRead, RowInserted, UploadCommitted
  <2>2. CASE \E n \in NewUser : CommitUser(n) \/ \E a \in Address : AddUser(n, a)
    BY <2>2, UserCommitted, UserAdded
  <2>3. CASE \E c \in Correction : CommitCorrection(c) \/ \E a, b \in Address : CorrectAddress(c, a, b)
    BY <2>3, CorrectionCommitted, AddressCorrected
  <2>4. CASE \E s \in NewUser \union Correction : InsertOne(s)
    BY <2>4, OneInserted DEF Singles
  <2>5. CASE \E r \in Requests : Deadlocked(r)
    BY <2>5, RequestFailed
  <2> QED BY <1>1, <2>1, <2>2, <2>3, <2>4, <2>5 DEF RosterNext
<1>2. CASE UNCHANGED rosterVars
  <2>1. /\ person' = person /\ claim' = claim /\ sheet' = sheet /\ single' = single
        /\ trail' = trail /\ everHad' = everHad
    BY <1>2 DEF rosterVars
  <2>2. Kept' /\ \A r : MadeBy(r)' = MadeBy(r)
    BY <2>1, SameKept, SameMade DEF RosterIInv
  <2>3. RosterTyped' /\ ClaimsFree' /\ Apart'
    BY <2>1 DEF RosterIInv, RosterTyped, ClaimsFree, Apart
  <2>4. \A x \in StaffUpload : SheetOk(x)'
    BY <2>1, <2>2, OtherSheet DEF RosterIInv
  <2>5. \A s \in Singles : SingleOk(s)'
    BY <2>1, <2>2, OtherSingle DEF RosterIInv
  <2> QED BY <2>2, <2>3, <2>4, <2>5 DEF RosterIInv
<1> QED BY <1>1, <1>2

(* The inductive invariant of the people requests put on the list.           *)
THEOREM RosterInvariant == RosterSpec => []RosterIInv
BY RosterInits, RosterSteps, PTL DEF RosterSpec

LEMMA RosterTrue == RosterIInv => RosterIsTrue
<1> SUFFICES ASSUME RosterIInv PROVE RosterIsTrue
  OBVIOUS
<1>1. ReportIsTrue
  <2> SUFFICES ASSUME NEW u \in StaffUpload, sheet[u].pc = "done"
               PROVE  /\ {IdOf(u, k) : k \in Reported(u, "created")} = {p \in Everybody : p[1] = u}
                      /\ \A k \in Reported(u, "skipped") :
                            \/ \E p \in everHad[sheet[u].file[k]] : p[1] # u
                            \/ \E j \in 1..k-1 : sheet[u].file[j] = sheet[u].file[k]
    BY DEF ReportIsTrue
  <2> QED BY DEF RosterIInv, SheetOk, Told, MadeBy
<1>2. EveryoneExplained
  <2>1. RosterTyped /\ Kept
    BY DEF RosterIInv
  <2>2. ASSUME NEW p \in Members PROVE p \in Everybody
    BY <2>1 DEF Members, Everybody, Kept
  <2>3. ASSUME NEW p \in Everybody PROVE p \in Members
    <3>1. PICK a \in Address : p \in everHad[a]
      BY DEF Everybody
    <3>2. p # NoOne
      BY <2>1, <3>1, IdsApart DEF RosterTyped
    <3> QED BY <2>1, <3>1, <3>2 DEF Kept, Members
  <2>4. \A p \in Who : trail[p] = IF p \in Everybody THEN 1 ELSE 0
    BY <2>1 DEF Kept
  <2> QED BY <2>2, <2>3, <2>4 DEF EveryoneExplained
<1> QED BY <1>1, <1>2 DEF RosterIsTrue

(* users.service.ts, bulk-upload.service.ts: whatever requests put addresses *)
(* on the list side by side, an upload's report names exactly the users it   *)
(* made and passes over nobody who was not there, and people, those who ever *)
(* came to be and user.created records agree.                                *)
THEOREM RosterIsRight == RosterSpec => []RosterIsTrue
BY RosterInvariant, RosterTrue, PTL

-----------------------------------------------------------------------------
(* Registry.  Cells and the values they may have, statements and requests.   *)
NavKinds == {"addNav", "updateNav", "retireNav"}
GateKinds == {"map", "unmap"}
PermKinds == {"addPerm", "updatePerm", "retirePerm"}
Values(x) == IF x[1] = "perm" THEN RowStates ELSE IF x[1] = "nav" THEN NavRow ELSE BOOLEAN
CellMaps == UNION {[D -> RowStates \union NavRow \union BOOLEAN] : D \in SUBSET Cell}
Sorted(f) == \A x \in DOMAIN f : f[x] \in Values(x)
IsCatalog(c) == c \in CellMaps /\ DOMAIN c = Cell /\ Sorted(c)

StatementRec == [kind : NavKinds \union GateKinds \union PermKinds, place : Nat, cells : CellMaps]
StatementOk(s) ==
    /\ s \in StatementRec /\ Sorted(s.cells)
    /\ s.kind \in PermKinds => DOMAIN s.cells \subseteq PermCell
    /\ s.kind \in NavKinds => DOMAIN s.cells \subseteq NavCell
    /\ s.kind \in GateKinds => DOMAIN s.cells \subseteq GateCell
    /\ s.kind \in GateKinds => \A x \in DOMAIN s.cells : s.cells[x] = (s.kind = "map")

RequestRec == [pc : Pcs, doc : Manifests \union {NoDocument}, upload : BOOLEAN, todo : SUBSET StatementRec,
               permPlan : [new : SUBSET Perm, back : SUBSET Perm, gone : SUBSET Perm],
               navPlan : [new : SUBSET Nat, changed : SUBSET Nat, gone : SUBSET NavNode],
               bump : BOOLEAN]

RequestTyped(u) ==
    /\ \A s \in request[u].todo : StatementOk(s)
    /\ request[u].pc \in {"readNav", "readGates"} => request[u].doc \in Manifests
    /\ request[u].navPlan.new \union request[u].navPlan.changed \subseteq DOMAIN request[u].doc.nav
    /\ Sorted(written[u])
RegTyped ==
    /\ IsCatalog(catalog)
    /\ request \in [Upload -> RequestRec]
    /\ written \in [Upload -> CellMaps]
    /\ \A u \in Upload : RequestTyped(u)
    /\ inForce \subseteq Manifests

(* What a document makes of a catalog: declared rows are active and as it    *)
(* says, gated as it says; other active rows are retired; the rest stays.    *)
PlaceOf(m, n) == CHOOSE i \in DOMAIN m.nav : m.nav[i].key = n
RetiredRow(row) == [row EXCEPT !.state = "retired"]
PermAim(c, m, p) ==
    IF p \in m.perms THEN "active"
    ELSE IF c[<<"perm", p>>] = "active" THEN "retired" ELSE c[<<"perm", p>>]
NavAim(c, m, n) ==
    IF n \in Declared(m) THEN RowOf(m.nav[PlaceOf(m, n)])
    ELSE IF c[<<"nav", n>>].state = "active" THEN RetiredRow(c[<<"nav", n>>]) ELSE c[<<"nav", n>>]
GateAim(c, m, np) ==
    IF np[1] \in Declared(m) THEN IF np \in Wanted(m) THEN TRUE ELSE FALSE ELSE c[<<"gate", np>>]
Aim(c, m) ==
    [x \in Cell |-> IF x[1] = "perm" THEN PermAim(c, m, x[2])
                    ELSE IF x[1] = "nav" THEN NavAim(c, m, x[2]) ELSE GateAim(c, m, x[2])]

Plan(c, m) == Statements(m, PermPlan(c, m), NavPlan(c, m), GatePlan(c, m))

(* An upload that nothing has overtaken: its plan is of the catalog as it    *)
(* is, and each cell has the value aimed at or a statement to come.          *)
OnCourse(u) ==
    LET r == request[u] IN
    /\ r.pc # "idle" => r.doc \in Manifests
    /\ r.pc \in {"readNav", "readGates"} => r.permPlan = PermPlan(catalog, r.doc)
    /\ r.pc = "readGates" => r.navPlan = NavPlan(catalog, r.doc)
    /\ r.pc = "writing" =>
          /\ r.todo \subseteq Plan(catalog, r.doc)
          /\ \A x \in Cell : Seen(u)[x] \in {catalog[x], Aim(catalog, r.doc)[x]}
          /\ \A x \in Cell : Seen(u)[x] = Aim(catalog, r.doc)[x] \/ \E s \in r.todo : x \in DOMAIN s.cells

InForce(c, m) ==
    /\ ActivePerms(c) = m.perms
    /\ ActiveNodes(c) = Declared(m)
    /\ \A i \in DOMAIN m.nav : LET d == m.nav[i] IN c[<<"nav", d.key>>] = RowOf(d) /\ Gates(c, d.key) = d.requires
    /\ IsNoOp(PermPlan(c, m), NavPlan(c, m), GatePlan(c, m))

RegRequestOk(u) ==
    /\ request[u].pc # "writing" => DOMAIN written[u] = {}
    /\ request[u].upload => request[u].pc # "idle"
    /\ request[u].pc \in {"readNav", "readGates"} => request[u].upload
    /\ ~request[u].bump => DOMAIN written[u] \subseteq PermCell
    /\ request[u].upload /\ u \notin regOvertaken => OnCourse(u)
RegIInv ==
    /\ RegTyped
    /\ \A u \in Upload : RegRequestOk(u)
    /\ \A m \in inForce : InForce(catalog, m)

LEMMA Cells ==
    /\ \A p \in Perm : <<"perm", p>> \in Cell /\ <<"perm", p>> \in PermCell
                       /\ <<"perm", p>> \notin NavCell /\ <<"perm", p>> \notin GateCell
    /\ \A n \in NavNode : <<"nav", n>> \in Cell /\ <<"nav", n>> \in NavCell
                          /\ <<"nav", n>> \notin PermCell /\ <<"nav", n>> \notin GateCell
    /\ \A np \in NavNode \X Perm : <<"gate", np>> \in Cell /\ <<"gate", np>> \in GateCell
                                   /\ <<"gate", np>> \notin NavCell /\ <<"gate", np>> \notin PermCell
    /\ \A x \in PermCell : \E p \in Perm : x = <<"perm", p>>
    /\ \A x \in NavCell : \E n \in NavNode : x = <<"nav", n>>
    /\ \A x \in GateCell : \E np \in NavNode \X Perm : x = <<"gate", np>>
    /\ \A x \in Cell : x \in PermCell \/ x \in NavCell \/ x \in GateCell
BY DEF Cell, PermCell, NavCell, GateCell

LEMMA CatalogCells ==
    ASSUME NEW c, IsCatalog(c)
    PROVE  /\ \A p \in Perm : c[<<"perm", p>>] \in RowStates
           /\ \A n \in NavNode : c[<<"nav", n>>] \in NavRow
           /\ \A np \in NavNode \X Perm : c[<<"gate", np>>] \in BOOLEAN
BY Cells DEF IsCatalog, Sorted, Values

(* A mapping is a row or is not.                                             *)
LEMMA GatesOfCatalog ==
    ASSUME NEW c, IsCatalog(c), NEW np \in NavNode \X Perm
    PROVE  np \in Mapped(c) <=> c[<<"gate", np>>] = TRUE
<1>1. c[<<"gate", np>>] \in BOOLEAN
  BY CatalogCells
<1> QED BY <1>1, Zenon DEF Mapped

LEMMA GatesOfNode ==
    ASSUME NEW c, IsCatalog(c), NEW n \in NavNode, NEW p \in Perm
    PROVE  p \in Gates(c, n) <=> <<n, p>> \in Mapped(c)
BY Zenon DEF Mapped, Gates

(* The nodes of a document.                                                  *)
LEMMA Entries ==
    ASSUME NEW m \in Manifests
    PROVE  /\ m.perms \subseteq Perm /\ DOMAIN m.nav \subseteq Nat
           /\ \A i \in DOMAIN m.nav :
                 /\ m.nav[i] \in ManifestEntry /\ m.nav[i].key \in Declared(m) /\ m.nav[i].key \in NavNode
                 /\ PlaceOf(m, m.nav[i].key) = i
                 /\ m.nav[i].requires \subseteq Perm
                 /\ RowOf(m.nav[i]) \in NavRow /\ RowOf(m.nav[i]).state = "active"
                 /\ \A p \in Perm : <<m.nav[i].key, p>> \in Wanted(m) <=> p \in m.nav[i].requires
           /\ \A n \in Declared(m) :
                 n \in NavNode /\ PlaceOf(m, n) \in DOMAIN m.nav /\ m.nav[PlaceOf(m, n)].key = n
           /\ \A np \in Wanted(m) : np \in NavNode \X Perm /\ np[1] \in Declared(m)
<1>1. /\ m.perms \subseteq Perm /\ m.nav \in Seq(ManifestEntry)
      /\ \A i, j \in DOMAIN m.nav : m.nav[i].key = m.nav[j].key => i = j
  BY ManifestsAssumption
<1>2. DOMAIN m.nav \subseteq Nat
  <2>1. DOMAIN m.nav = 1 .. Len(m.nav)
    BY <1>1, LenProperties
  <2> QED BY <2>1
<1>3. \A i \in DOMAIN m.nav : m.nav[i] \in ManifestEntry
  <2>1. DOMAIN m.nav = 1 .. Len(m.nav)
    BY <1>1, LenProperties
  <2> QED BY <1>1, <2>1, ElementOfSeq
<1>4. ASSUME NEW i \in DOMAIN m.nav
      PROVE  /\ m.nav[i].key \in Declared(m) /\ m.nav[i].key \in NavNode
             /\ m.nav[i].requires \subseteq Perm
             /\ RowOf(m.nav[i]) \in NavRow /\ RowOf(m.nav[i]).state = "active"
  BY <1>3 DEF Declared, ManifestEntry, RowOf, NavRow, RowStates
<1>5. ASSUME NEW n \in Declared(m)
      PROVE  n \in NavNode /\ PlaceOf(m, n) \in DOMAIN m.nav /\ m.nav[PlaceOf(m, n)].key = n
  <2>1. PICK i \in DOMAIN m.nav : m.nav[i].key = n
    BY DEF Declared
  <2> QED BY <1>4, <2>1 DEF PlaceOf
<1>6. \A i \in DOMAIN m.nav : PlaceOf(m, m.nav[i].key) = i
  BY <1>1, <1>4, <1>5
<1>7. ASSUME NEW i \in DOMAIN m.nav, NEW p \in Perm
      PROVE  <<m.nav[i].key, p>> \in Wanted(m) <=> p \in m.nav[i].requires
  <2>1. p \in m.nav[i].requires => <<m.nav[i].key, p>> \in Wanted(m)
    BY DEF Wanted
  <2>2. ASSUME <<m.nav[i].key, p>> \in Wanted(m) PROVE p \in m.nav[i].requires
    <3>1. PICK j \in DOMAIN m.nav : \E q \in m.nav[j].requires : <<m.nav[i].key, p>> = <<m.nav[j].key, q>>
      BY <2>2 DEF Wanted
    <3>2. j = i
      BY <1>1, <3>1
    <3> QED BY <3>1, <3>2
  <2> QED BY <2>1, <2>2
<1>8. ASSUME NEW np \in Wanted(m) PROVE np \in NavNode \X Perm /\ np[1] \in Declared(m)
  <2>1. PICK j \in DOMAIN m.nav : \E q \in m.nav[j].requires : np = <<m.nav[j].key, q>>
    BY DEF Wanted
  <2> QED BY <1>4, <2>1
<1> QED BY <1>1, <1>2, <1>3, <1>4, <1>5, <1>6, <1>7, <1>8

(* A plan that is empty says that the document is in force.                  *)
LEMMA NoOpMeansInForce ==
    ASSUME NEW c, IsCatalog(c), NEW m \in Manifests, IsNoOp(PermPlan(c, m), NavPlan(c, m), GatePlan(c, m))
    PROVE  InForce(c, m)
<1>1. /\ NewPerms(c, m) = {} /\ ReturningPerms(c, m) = {} /\ DroppedPerms(c, m) = {}
      /\ NewNodes(c, m) = {} /\ ChangedNodes(c, m) = {} /\ DroppedNodes(c, m) = {}
      /\ ToMap(c, m) = {} /\ ToUnmap(c, m) = {}
  BY DEF IsNoOp, PermPlan, NavPlan, GatePlan
<1>2. ActivePerms(c) = m.perms
  <2>1. \A p \in m.perms : c[<<"perm", p>>] = "active"
    BY <1>1, Entries, CatalogCells DEF NewPerms, ReturningPerms, RowStates
  <2> QED BY <1>1, <2>1, Entries DEF DroppedPerms, ActivePerms
<1>3. \A i \in DOMAIN m.nav : c[<<"nav", m.nav[i].key>>] = RowOf(m.nav[i])
  BY <1>1 DEF NewNodes, ChangedNodes, IsNew
<1>4. ActiveNodes(c) = Declared(m)
  <2>1. \A n \in Declared(m) : c[<<"nav", n>>].state = "active" /\ n \in NavNode
    BY <1>3, Entries
  <2> QED BY <1>1, <2>1 DEF DroppedNodes, ActiveNodes
<1>5. ASSUME NEW i \in DOMAIN m.nav PROVE Gates(c, m.nav[i].key) = m.nav[i].requires
  <2> DEFINE n == m.nav[i].key
  <2>1. n \in NavNode /\ n \in Declared(m) /\ m.nav[i].requires \subseteq Perm
    BY Entries
  <2>2. ASSUME NEW p \in Perm PROVE p \in Gates(c, n) <=> p \in m.nav[i].requires
    <3>1. p \in Gates(c, n) <=> <<n, p>> \in Mapped(c)
      BY <2>1, GatesOfNode
    <3>2. <<n, p>> \in Wanted(m) <=> p \in m.nav[i].requires
      BY Entries
    <3>3. <<n, p>> \in Wanted(m) => <<n, p>> \in Mapped(c)
      BY <1>1 DEF ToMap
    <3>4. <<n, p>> \in Mapped(c) => <<n, p>> \in Wanted(m)
      BY <1>1, <2>1 DEF ToUnmap
    <3> QED BY <3>1, <3>2, <3>3, <3>4
  <2>3. Gates(c, n) \subseteq Perm
    BY DEF Gates
  <2> QED BY <2>1, <2>2, <2>3
<1> QED BY <1>2, <1>3, <1>4, <1>5 DEF InForce

(* What a document aims at has it in force.                                  *)
LEMMA AimAt ==
    ASSUME NEW c, IsCatalog(c), NEW m \in Manifests
    PROVE  /\ \A p \in Perm : Aim(c, m)[<<"perm", p>>] = PermAim(c, m, p)
           /\ \A n \in NavNode : Aim(c, m)[<<"nav", n>>] = NavAim(c, m, n)
           /\ \A np \in NavNode \X Perm : Aim(c, m)[<<"gate", np>>] = GateAim(c, m, np)
           /\ DOMAIN Aim(c, m) = Cell
           /\ \A p \in Perm : PermAim(c, m, p) \in RowStates
           /\ \A n \in NavNode : NavAim(c, m, n) \in NavRow
           /\ \A np \in NavNode \X Perm : GateAim(c, m, np) \in BOOLEAN
<1>1. /\ \A p \in Perm : Aim(c, m)[<<"perm", p>>] = PermAim(c, m, p)
      /\ \A n \in NavNode : Aim(c, m)[<<"nav", n>>] = NavAim(c, m, n)
      /\ \A np \in NavNode \X Perm : Aim(c, m)[<<"gate", np>>] = GateAim(c, m, np)
      /\ DOMAIN Aim(c, m) = Cell
  BY Cells DEF Aim
<1>2. \A p \in Perm : PermAim(c, m, p) \in RowStates
  BY CatalogCells DEF PermAim, RowStates
<1>3. ASSUME NEW n \in NavNode PROVE NavAim(c, m, n) \in NavRow
  <2>1. c[<<"nav", n>>] \in NavRow
    BY CatalogCells
  <2>2. RetiredRow(c[<<"nav", n>>]) \in NavRow
    BY <2>1 DEF RetiredRow, NavRow, RowStates
  <2>3. n \in Declared(m) => RowOf(m.nav[PlaceOf(m, n)]) \in NavRow
    BY Entries
  <2> QED BY <2>1, <2>2, <2>3 DEF NavAim
<1>4. ASSUME NEW np \in NavNode \X Perm PROVE GateAim(c, m, np) \in BOOLEAN
  <2>1. c[<<"gate", np>>] \in BOOLEAN
    BY CatalogCells
  <2> QED BY <2>1 DEF GateAim
<1> QED BY <1>1, <1>2, <1>3, <1>4

LEMMA AimIsCatalog ==
    ASSUME NEW c, IsCatalog(c), NEW m \in Manifests
    PROVE  IsCatalog(Aim(c, m))
<1> DEFINE a == Aim(c, m)
<1>1. DOMAIN a = Cell /\ a = [x \in Cell |-> a[x]]
  BY DEF Aim
<1>2. \A x \in Cell : a[x] \in Values(x) /\ a[x] \in RowStates \union NavRow \union BOOLEAN
  <2> TAKE x \in Cell
  <2>1. CASE x \in PermCell
    <3>1. PICK p \in Perm : x = <<"perm", p>>
      BY <2>1, Cells
    <3> QED BY <3>1, AimAt DEF Values
  <2>2. CASE x \in NavCell
    <3>1. PICK n \in NavNode : x = <<"nav", n>>
      BY <2>2, Cells
    <3> QED BY <3>1, AimAt DEF Values
  <2>3. CASE x \in GateCell
    <3>1. PICK np \in NavNode \X Perm : x = <<"gate", np>>
      BY <2>3, Cells
    <3> QED BY <3>1, AimAt DEF Values
  <2> QED BY <2>1, <2>2, <2>3, Cells
<1> HIDE DEF a
<1>3. a \in [Cell -> RowStates \union NavRow \union BOOLEAN]
  BY <1>1, <1>2
<1> QED BY <1>1, <1>2, <1>3 DEF IsCatalog, CellMaps, Sorted, a

LEMMA AimIsNoOp ==
    ASSUME NEW c, IsCatalog(c), NEW m \in Manifests
    PROVE  IsNoOp(PermPlan(Aim(c, m), m), NavPlan(Aim(c, m), m), GatePlan(Aim(c, m), m))
<1> DEFINE a == Aim(c, m)
<1>1. IsCatalog(a)
  BY AimIsCatalog
<1>2. /\ \A p \in Perm : a[<<"perm", p>>] = PermAim(c, m, p)
      /\ \A n \in NavNode : a[<<"nav", n>>] = NavAim(c, m, n)
      /\ \A np \in NavNode \X Perm : a[<<"gate", np>>] = GateAim(c, m, np)
  BY AimAt
<1> HIDE DEF a
<1>3. NewPerms(a, m) = {} /\ ReturningPerms(a, m) = {} /\ DroppedPerms(a, m) = {}
  <2>1. \A p \in m.perms : a[<<"perm", p>>] = "active"
    BY <1>2, Entries DEF PermAim
  <2>2. \A p \in Perm : p \notin m.perms => a[<<"perm", p>>] # "active"
    BY <1>2 DEF PermAim
  <2> QED BY <2>1, <2>2 DEF NewPerms, ReturningPerms, DroppedPerms, ActivePerms
<1>4. NewNodes(a, m) = {} /\ ChangedNodes(a, m) = {}
  <2>1. \A i \in DOMAIN m.nav : a[<<"nav", m.nav[i].key>>] = RowOf(m.nav[i]) /\ RowOf(m.nav[i]).state = "active"
    BY <1>2, Entries DEF NavAim
  <2> QED BY <2>1 DEF NewNodes, ChangedNodes, IsNew
<1>5. DroppedNodes(a, m) = {}
  <2>1. ASSUME NEW n \in NavNode, n \notin Declared(m) PROVE a[<<"nav", n>>].state # "active"
    <3>1. c[<<"nav", n>>] \in NavRow
      BY CatalogCells
    <3>2. RetiredRow(c[<<"nav", n>>]).state = "retired"
      BY <3>1 DEF RetiredRow, NavRow
    <3> QED BY <1>2, <2>1, <3>2 DEF NavAim
  <2> QED BY <2>1 DEF DroppedNodes, ActiveNodes
<1>6. \A np \in NavNode \X Perm : np[1] \in Declared(m) => (np \in Mapped(a) <=> np \in Wanted(m))
  <2> TAKE np \in NavNode \X Perm
  <2> HAVE np[1] \in Declared(m)
  <2>1. a[<<"gate", np>>] = IF np \in Wanted(m) THEN TRUE ELSE FALSE
    BY <1>2 DEF GateAim
  <2>2. np \in Mapped(a) <=> a[<<"gate", np>>] = TRUE
    BY <1>1, GatesOfCatalog
  <2> QED BY <2>1, <2>2
<1>7. ToMap(a, m) = {} /\ ToUnmap(a, m) = {}
  <2>1. Mapped(a) \subseteq NavNode \X Perm
    BY DEF Mapped
  <2> QED BY <1>6, <2>1, Entries DEF ToMap, ToUnmap
<1> QED BY <1>3, <1>4, <1>5, <1>7 DEF IsNoOp, PermPlan, NavPlan, GatePlan, a

LEMMA Overlaid ==
    ASSUME NEW f \in CellMaps, Sorted(f), NEW g \in CellMaps, Sorted(g)
    PROVE  Over(f, g) \in CellMaps /\ Sorted(Over(f, g)) /\ (IsCatalog(g) => IsCatalog(Over(f, g)))
<1> DEFINE h == Over(f, g)
           V == RowStates \union NavRow \union BOOLEAN
<1>1. PICK D \in SUBSET Cell : f \in [D -> V]
  BY DEF CellMaps
<1>2. PICK E \in SUBSET Cell : g \in [E -> V]
  BY DEF CellMaps
<1>3. DOMAIN f = D /\ DOMAIN g = E
  BY <1>1, <1>2
<1> HIDE DEF V
<1>4. h \in [D \union E -> V] /\ DOMAIN h = D \union E
  BY <1>1, <1>2, <1>3 DEF Over
<1>5. \A x \in DOMAIN h : h[x] \in Values(x)
  BY <1>3, <1>4 DEF Over, Sorted
<1>6. h \in CellMaps
  BY <1>4 DEF CellMaps, V
<1>7. IsCatalog(g) => DOMAIN h = Cell
  BY <1>3, <1>4 DEF IsCatalog
<1> QED BY <1>5, <1>6, <1>7 DEF Sorted, IsCatalog

LEMMA SeenIsCatalog ==
    ASSUME RegTyped, NEW u \in Upload
    PROVE  IsCatalog(Seen(u))
BY Overlaid DEF RegTyped, RequestTyped, Seen, IsCatalog

LEMMA IsCellMap ==
    ASSUME NEW D \in SUBSET Cell, NEW f \in [D -> RowStates \union NavRow \union BOOLEAN]
    PROVE  f \in CellMaps
BY DEF CellMaps

(* The statements a request may have.                                        *)
LEMMA PermStatement ==
    ASSUME NEW kind \in PermKinds, NEW ps \in SUBSET Perm, NEW state \in RowStates
    PROVE  /\ StatementOk(SetPerms(kind, ps, state)) /\ SetPerms(kind, ps, state).kind = kind
           /\ DOMAIN SetPerms(kind, ps, state).cells = {"perm"} \X ps
           /\ \A p \in ps : SetPerms(kind, ps, state).cells[<<"perm", p>>] = state
<1> DEFINE f == [c \in {"perm"} \X ps |-> state]
           s == SetPerms(kind, ps, state)
<1>1. s = [kind |-> kind, place |-> 0, cells |-> f]
  BY DEF SetPerms, Statement
<1>2. {"perm"} \X ps \subseteq PermCell /\ {"perm"} \X ps \in SUBSET Cell
  BY DEF PermCell, Cell
<1>3. f \in CellMaps
  BY <1>2, IsCellMap
<1>4. Sorted(f)
  BY DEF Sorted, Values
<1>5. DOMAIN f = {"perm"} \X ps /\ \A p \in ps : f[<<"perm", p>>] = state
  OBVIOUS
<1> HIDE DEF f
<1>6. s.kind = kind /\ s.cells = f /\ s \in StatementRec
  BY <1>1, <1>3 DEF StatementRec
<1>7. kind \notin NavKinds /\ kind \notin GateKinds
  BY DEF PermKinds, NavKinds, GateKinds
<1> QED BY <1>2, <1>4, <1>5, <1>6, <1>7 DEF StatementOk

LEMMA NavStatement ==
    ASSUME NEW kind \in {"addNav", "updateNav"}, NEW place \in Nat, NEW d, d.key \in NavNode, RowOf(d) \in NavRow
    PROVE  /\ StatementOk(SetNav(kind, place, d)) /\ SetNav(kind, place, d).kind = kind
           /\ DOMAIN SetNav(kind, place, d).cells = {<<"nav", d.key>>}
           /\ SetNav(kind, place, d).cells[<<"nav", d.key>>] = RowOf(d)
<1> DEFINE f == [c \in {<<"nav", d.key>>} |-> RowOf(d)]
           s == SetNav(kind, place, d)
<1>1. s = [kind |-> kind, place |-> place, cells |-> f]
  BY DEF SetNav, Statement, RowOf
<1>2. {<<"nav", d.key>>} \subseteq NavCell /\ {<<"nav", d.key>>} \in SUBSET Cell
  BY Cells
<1>3. f \in CellMaps
  BY <1>2, IsCellMap
<1>4. Sorted(f)
  BY DEF Sorted, Values
<1>5. DOMAIN f = {<<"nav", d.key>>} /\ f[<<"nav", d.key>>] = RowOf(d)
  OBVIOUS
<1> HIDE DEF f
<1>6. s.kind = kind /\ s.cells = f /\ s \in StatementRec
  BY <1>1, <1>3 DEF StatementRec, NavKinds
<1>7. kind \notin PermKinds /\ kind \notin GateKinds
  BY DEF PermKinds, NavKinds, GateKinds
<1> QED BY <1>2, <1>4, <1>5, <1>6, <1>7 DEF StatementOk

LEMMA RetireStatement ==
    ASSUME NEW n \in NavNode
    PROVE  StatementOk(Retire(n)) /\ Retire(n).kind = "retireNav" /\ DOMAIN Retire(n).cells = {<<"nav", n>>}
<1> DEFINE f == [c \in {<<"nav", n>>} |-> NoNavRow]
           s == Retire(n)
<1>1. s = [kind |-> "retireNav", place |-> 0, cells |-> f]
  BY DEF Retire, Statement
<1>2. {<<"nav", n>>} \subseteq NavCell /\ {<<"nav", n>>} \in SUBSET Cell
  BY Cells
<1>3. NoNavRow \in NavRow
  BY DEF NoNavRow, NavRow, RowStates
<1>4. f \in CellMaps
  BY <1>2, <1>3, IsCellMap
<1>5. Sorted(f)
  BY <1>3 DEF Sorted, Values
<1>6. DOMAIN f = {<<"nav", n>>}
  OBVIOUS
<1> HIDE DEF f
<1>7. s.kind = "retireNav" /\ s.cells = f /\ s \in StatementRec
  BY <1>1, <1>4 DEF StatementRec, NavKinds
<1>8. "retireNav" \notin PermKinds /\ "retireNav" \notin GateKinds
  BY DEF PermKinds, GateKinds
<1> QED BY <1>2, <1>5, <1>6, <1>7, <1>8 DEF StatementOk

LEMMA GateStatement ==
    ASSUME NEW kind \in GateKinds, NEW pairs \in SUBSET (NavNode \X Perm)
    PROVE  /\ StatementOk(SetGates(kind, pairs)) /\ SetGates(kind, pairs).kind = kind
           /\ DOMAIN SetGates(kind, pairs).cells = {"gate"} \X pairs
           /\ \A np \in pairs : SetGates(kind, pairs).cells[<<"gate", np>>] = (kind = "map")
<1> DEFINE b == kind = "map"
           f == [c \in {"gate"} \X pairs |-> b]
           s == SetGates(kind, pairs)
<1>1. s = [kind |-> kind, place |-> 0, cells |-> f]
  BY DEF SetGates, Statement
<1>2. {"gate"} \X pairs \subseteq GateCell /\ {"gate"} \X pairs \in SUBSET Cell
  BY DEF GateCell, Cell
<1>3. b \in BOOLEAN
  OBVIOUS
<1>4. \A x \in {"gate"} \X pairs : f[x] = b /\ x[1] = "gate" /\ \E np \in pairs : x = <<"gate", np>>
  OBVIOUS
<1>5. DOMAIN f = {"gate"} \X pairs /\ \A np \in pairs : f[<<"gate", np>>] = b
  OBVIOUS
<1>6. f \in [{"gate"} \X pairs -> RowStates \union NavRow \union BOOLEAN]
  BY <1>3
<1> HIDE DEF f
<1>7. f \in CellMaps
  BY <1>2, <1>6 DEF CellMaps
<1>8. Sorted(f)
  BY <1>3, <1>4, <1>5 DEF Sorted, Values
<1>9. s.kind = kind /\ s.cells = f /\ s \in StatementRec
  BY <1>1, <1>7 DEF StatementRec
<1>10. kind \notin PermKinds /\ kind \notin NavKinds
  BY DEF PermKinds, GateKinds, NavKinds
<1> QED BY <1>2, <1>4, <1>5, <1>8, <1>9, <1>10 DEF StatementOk

(* Every statement of a plan is a step towards what the document aims at, ... *)
Towards(c, m, s) ==
    /\ StatementOk(s)
    /\ \A x \in DOMAIN s.cells :
          IF s.kind = "retireNav" THEN Aim(c, m)[x] = RetiredRow(c[x]) ELSE s.cells[x] = Aim(c, m)[x]

LEMMA PlanAims ==
    ASSUME NEW c, IsCatalog(c), NEW m \in Manifests, NEW s \in Plan(c, m)
    PROVE  Towards(c, m, s)
<1>1. CASE \E p \in NewPerms(c, m) : s = SetPerms("addPerm", {p}, "active")
  <2>1. PICK p \in NewPerms(c, m) : s = SetPerms("addPerm", {p}, "active")
    BY <1>1
  <2>2. p \in m.perms /\ p \in Perm /\ PermAim(c, m, p) = "active" /\ "addPerm" \in PermKinds /\ "active" \in RowStates
    BY Entries DEF NewPerms, PermAim, PermKinds, RowStates
  <2>3. StatementOk(s) /\ s.kind = "addPerm" /\ DOMAIN s.cells = {<<"perm", p>>} /\ s.cells[<<"perm", p>>] = "active"
    <3>1. {p} \in SUBSET Perm /\ {"perm"} \X {p} = {<<"perm", p>>}
      BY <2>2
    <3>2. /\ StatementOk(s) /\ s.kind = "addPerm" /\ DOMAIN s.cells = {"perm"} \X {p}
          /\ \A q \in {p} : s.cells[<<"perm", q>>] = "active"
      BY <2>1, <2>2, <3>1, PermStatement DEF PermKinds, RowStates
    <3> QED BY <3>1, <3>2
  <2> QED BY <2>2, <2>3, AimAt DEF Towards
<1>2. CASE \E p \in ReturningPerms(c, m) : s = SetPerms("updatePerm", {p}, "active")
  <2>1. PICK p \in ReturningPerms(c, m) : s = SetPerms("updatePerm", {p}, "active")
    BY <1>2
  <2>2. p \in m.perms /\ p \in Perm /\ PermAim(c, m, p) = "active" /\ "updatePerm" \in PermKinds /\ "active" \in RowStates
    BY Entries DEF ReturningPerms, PermAim, PermKinds, RowStates
  <2>3. StatementOk(s) /\ s.kind = "updatePerm" /\ DOMAIN s.cells = {<<"perm", p>>} /\ s.cells[<<"perm", p>>] = "active"
    <3>1. {p} \in SUBSET Perm /\ {"perm"} \X {p} = {<<"perm", p>>}
      BY <2>2
    <3>2. /\ StatementOk(s) /\ s.kind = "updatePerm" /\ DOMAIN s.cells = {"perm"} \X {p}
          /\ \A q \in {p} : s.cells[<<"perm", q>>] = "active"
      BY <2>1, <2>2, <3>1, PermStatement DEF PermKinds, RowStates
    <3> QED BY <3>1, <3>2
  <2> QED BY <2>2, <2>3, AimAt DEF Towards
<1>3. CASE \E i \in DOMAIN m.nav, kind \in {"addNav", "updateNav"} : s = SetNav(kind, i, m.nav[i])
  <2>1. PICK i \in DOMAIN m.nav, kind \in {"addNav", "updateNav"} : s = SetNav(kind, i, m.nav[i])
    BY <1>3
  <2> DEFINE n == m.nav[i].key
  <2>2. i \in Nat /\ n \in NavNode /\ RowOf(m.nav[i]) \in NavRow /\ NavAim(c, m, n) = RowOf(m.nav[i])
    BY Entries DEF NavAim
  <2>3. /\ StatementOk(s) /\ s.kind # "retireNav"
        /\ DOMAIN s.cells = {<<"nav", n>>} /\ s.cells[<<"nav", n>>] = RowOf(m.nav[i])
    BY <2>1, <2>2, NavStatement
  <2> QED BY <2>2, <2>3, AimAt DEF Towards
<1>4. CASE s = SetGates("map", ToMap(c, m))
  <2>1. ToMap(c, m) \subseteq NavNode \X Perm /\ "map" \in GateKinds
    BY Entries DEF ToMap, GateKinds
  <2>2. /\ StatementOk(s) /\ s.kind = "map" /\ DOMAIN s.cells = {"gate"} \X ToMap(c, m)
        /\ \A np \in ToMap(c, m) : s.cells[<<"gate", np>>] = TRUE
    BY <1>4, <2>1, GateStatement
  <2>3. \A np \in ToMap(c, m) : GateAim(c, m, np) = TRUE
    BY Entries DEF ToMap, GateAim
  <2>4. \A np \in ToMap(c, m) : s.cells[<<"gate", np>>] = Aim(c, m)[<<"gate", np>>]
    BY <2>1, <2>2, <2>3, AimAt
  <2> QED BY <2>2, <2>4 DEF Towards
<1>5. CASE s = SetGates("unmap", ToUnmap(c, m))
  <2>1. ToUnmap(c, m) \subseteq NavNode \X Perm /\ "unmap" \in GateKinds
    BY DEF ToUnmap, Mapped, GateKinds
  <2>2. /\ StatementOk(s) /\ s.kind = "unmap" /\ DOMAIN s.cells = {"gate"} \X ToUnmap(c, m)
        /\ \A np \in ToUnmap(c, m) : s.cells[<<"gate", np>>] = FALSE
    <3>1. ("unmap" = "map") = FALSE
      OBVIOUS
    <3>2. /\ StatementOk(s) /\ s.kind = "unmap" /\ DOMAIN s.cells = {"gate"} \X ToUnmap(c, m)
          /\ \A np \in ToUnmap(c, m) : s.cells[<<"gate", np>>] = ("unmap" = "map")
      BY <1>5, <2>1, GateStatement
    <3> QED BY <3>1, <3>2
  <2>3. \A np \in ToUnmap(c, m) : GateAim(c, m, np) = FALSE
    BY DEF ToUnmap, GateAim
  <2>4. \A np \in ToUnmap(c, m) : s.cells[<<"gate", np>>] = Aim(c, m)[<<"gate", np>>]
    <3>1. \A np \in ToUnmap(c, m) : np \in NavNode \X Perm
      BY <2>1
    <3>2. \A np \in ToUnmap(c, m) : Aim(c, m)[<<"gate", np>>] = GateAim(c, m, np)
      BY <3>1, AimAt
    <3> QED BY <2>2, <2>3, <3>2
  <2> QED BY <2>2, <2>4 DEF Towards
<1>6. CASE \E n \in DroppedNodes(c, m) : s = Retire(n)
  <2>1. PICK n \in DroppedNodes(c, m) : s = Retire(n)
    BY <1>6
  <2>2. n \in NavNode /\ NavAim(c, m, n) = RetiredRow(c[<<"nav", n>>])
    BY DEF DroppedNodes, ActiveNodes, NavAim
  <2>3. StatementOk(s) /\ s.kind = "retireNav" /\ DOMAIN s.cells = {<<"nav", n>>}
    BY <2>1, <2>2, RetireStatement
  <2> QED BY <2>2, <2>3, AimAt DEF Towards
<1>7. CASE s = SetPerms("retirePerm", DroppedPerms(c, m), "retired")
  <2>1. DroppedPerms(c, m) \subseteq Perm /\ "retirePerm" \in PermKinds /\ "retired" \in RowStates
    BY DEF DroppedPerms, ActivePerms, PermKinds, RowStates
  <2>2. /\ StatementOk(s) /\ s.kind = "retirePerm" /\ DOMAIN s.cells = {"perm"} \X DroppedPerms(c, m)
        /\ \A p \in DroppedPerms(c, m) : s.cells[<<"perm", p>>] = "retired"
    <3> DEFINE ps == DroppedPerms(c, m)
    <3>1. ps \in SUBSET Perm
      BY <2>1
    <3> HIDE DEF ps
    <3>2. /\ StatementOk(SetPerms("retirePerm", ps, "retired"))
          /\ SetPerms("retirePerm", ps, "retired").kind = "retirePerm"
          /\ DOMAIN SetPerms("retirePerm", ps, "retired").cells = {"perm"} \X ps
          /\ \A p \in ps : SetPerms("retirePerm", ps, "retired").cells[<<"perm", p>>] = "retired"
      BY <2>1, <3>1, PermStatement DEF PermKinds, RowStates
    <3> QED BY <1>7, <3>2 DEF ps
  <2>3. \A p \in DroppedPerms(c, m) : PermAim(c, m, p) = "retired"
    BY DEF DroppedPerms, ActivePerms, PermAim
  <2> QED BY <2>1, <2>2, <2>3, AimAt DEF Towards
<1> QED
  BY <1>1, <1>2, <1>3, <1>4, <1>5, <1>6, <1>7
     DEF Plan, Statements, PermPlan, NavPlan, GatePlan, Issued, NewNodes, ChangedNodes

(* ... and every cell that has to change has its statement.                  *)
LEMMA PlanCovers ==
    ASSUME NEW c, IsCatalog(c), NEW m \in Manifests, NEW x \in Cell
    PROVE  c[x] = Aim(c, m)[x] \/ \E s \in Plan(c, m) : x \in DOMAIN s.cells
<1>1. CASE x \in PermCell
  <2>1. PICK p \in Perm : x = <<"perm", p>>
    BY <1>1, Cells
  <2>2. c[x] \in RowStates /\ Aim(c, m)[x] = PermAim(c, m, p)
    BY <2>1, CatalogCells, AimAt
  <2>3. CASE p \in NewPerms(c, m)
    <3>1. SetPerms("addPerm", {p}, "active") \in Plan(c, m)
      BY <2>3 DEF Plan, Statements, PermPlan
    <3> QED BY <2>1, <3>1, PermStatement DEF PermKinds, RowStates
  <2>4. CASE p \in ReturningPerms(c, m)
    <3>1. SetPerms("updatePerm", {p}, "active") \in Plan(c, m)
      BY <2>4 DEF Plan, Statements, PermPlan
    <3> QED BY <2>1, <3>1, PermStatement DEF PermKinds, RowStates
  <2>5. CASE p \in DroppedPerms(c, m)
    <3> DEFINE s == SetPerms("retirePerm", DroppedPerms(c, m), "retired")
    <3>1. DroppedPerms(c, m) \subseteq Perm
      BY DEF DroppedPerms, ActivePerms
    <3>2. DOMAIN s.cells = {"perm"} \X DroppedPerms(c, m)
      BY <3>1, PermStatement DEF PermKinds, RowStates
    <3>3. x \in DOMAIN s.cells
      BY <2>1, <2>5, <3>2
    <3> HIDE DEF s
    <3>4. s \in Issued(s)
      BY <3>3 DEF Issued
    <3>5. s \in Plan(c, m)
      BY <3>4 DEF Plan, Statements, PermPlan, s
    <3> QED BY <3>3, <3>5
  <2>6. CASE p \notin NewPerms(c, m) /\ p \notin ReturningPerms(c, m) /\ p \notin DroppedPerms(c, m)
    BY <2>1, <2>2, <2>6 DEF NewPerms, ReturningPerms, DroppedPerms, ActivePerms, PermAim, RowStates
  <2> QED BY <2>3, <2>4, <2>5, <2>6
<1>2. CASE x \in NavCell
  <2>1. PICK n \in NavNode : x = <<"nav", n>>
    BY <1>2, Cells
  <2>2. Aim(c, m)[x] = NavAim(c, m, n)
    BY <2>1, AimAt
  <2>3. CASE n \in Declared(m)
    <3> DEFINE i == PlaceOf(m, n)
    <3>1. i \in DOMAIN m.nav /\ m.nav[i].key = n /\ i \in Nat /\ RowOf(m.nav[i]) \in NavRow
      BY <2>3, Entries
    <3>2. NavAim(c, m, n) = RowOf(m.nav[i])
      BY <2>3 DEF NavAim
    <3> HIDE DEF i
    <3>3. CASE i \in NewNodes(c, m)
      <4>1. SetNav("addNav", i, m.nav[i]) \in Plan(c, m)
        BY <3>3 DEF Plan, Statements, NavPlan
      <4> QED BY <2>1, <3>1, <4>1, NavStatement
    <3>4. CASE i \in ChangedNodes(c, m)
      <4>1. SetNav("updateNav", i, m.nav[i]) \in Plan(c, m)
        BY <3>4 DEF Plan, Statements, NavPlan
      <4> QED BY <2>1, <3>1, <4>1, NavStatement
    <3>5. CASE i \notin NewNodes(c, m) /\ i \notin ChangedNodes(c, m)
      BY <2>1, <2>2, <3>1, <3>2, <3>5 DEF NewNodes, ChangedNodes
    <3> QED BY <3>3, <3>4, <3>5
  <2>4. CASE n \in DroppedNodes(c, m)
    <3>1. Retire(n) \in Plan(c, m)
      BY <2>4 DEF Plan, Statements, NavPlan
    <3> QED BY <2>1, <3>1, RetireStatement
  <2>5. CASE n \notin Declared(m) /\ n \notin DroppedNodes(c, m)
    BY <2>1, <2>2, <2>5 DEF DroppedNodes, ActiveNodes, NavAim
  <2> QED BY <2>3, <2>4, <2>5
<1>3. CASE x \in GateCell
  <2>1. PICK np \in NavNode \X Perm : x = <<"gate", np>>
    BY <1>3, Cells
  <2>2. Aim(c, m)[x] = GateAim(c, m, np)
    BY <2>1, AimAt
  <2>3. np \in Mapped(c) <=> c[x] = TRUE
    BY <2>1, GatesOfCatalog
  <2>4. c[x] \in BOOLEAN
    BY <2>1, CatalogCells
  <2>5. CASE np \in ToMap(c, m)
    <3> DEFINE s == SetGates("map", ToMap(c, m))
    <3>1. ToMap(c, m) \subseteq NavNode \X Perm
      BY Entries DEF ToMap
    <3>2. DOMAIN s.cells = {"gate"} \X ToMap(c, m)
      BY <3>1, GateStatement DEF GateKinds
    <3>3. x \in DOMAIN s.cells
      BY <2>1, <2>5, <3>2
    <3> HIDE DEF s
    <3>4. s \in Issued(s)
      BY <3>3 DEF Issued
    <3>5. s \in Plan(c, m)
      BY <3>4 DEF Plan, Statements, GatePlan, s
    <3> QED BY <3>3, <3>5
  <2>6. CASE np \in ToUnmap(c, m)
    <3> DEFINE s == SetGates("unmap", ToUnmap(c, m))
    <3>1. ToUnmap(c, m) \subseteq NavNode \X Perm
      BY DEF ToUnmap, Mapped
    <3>2. DOMAIN s.cells = {"gate"} \X ToUnmap(c, m)
      BY <3>1, GateStatement DEF GateKinds
    <3>3. x \in DOMAIN s.cells
      BY <2>1, <2>6, <3>2
    <3> HIDE DEF s
    <3>4. s \in Issued(s)
      BY <3>3 DEF Issued
    <3>5. s \in Plan(c, m)
      BY <3>4 DEF Plan, Statements, GatePlan, s
    <3> QED BY <3>3, <3>5
  <2>7. CASE np \notin ToMap(c, m) /\ np \notin ToUnmap(c, m)
    <3>1. CASE np[1] \notin Declared(m)
      BY <2>1, <2>2, <3>1 DEF GateAim
    <3>2. CASE np[1] \in Declared(m)
      <4>1. np \in Wanted(m) <=> np \in Mapped(c)
        BY <2>7, <3>2 DEF ToMap, ToUnmap
      <4>2. c[x] = IF np \in Wanted(m) THEN TRUE ELSE FALSE
        BY <2>3, <2>4, <4>1
      <4> QED BY <2>2, <3>2, <4>2 DEF GateAim
    <3> QED BY <3>1, <3>2
  <2> QED BY <2>5, <2>6, <2>7
<1> QED BY <1>1, <1>2, <1>3, Cells

LEMMA StatementsOk ==
    ASSUME NEW m \in Manifests,
           NEW pp \in [new : SUBSET Perm, back : SUBSET Perm, gone : SUBSET Perm],
           NEW np \in [new : SUBSET Nat, changed : SUBSET Nat, gone : SUBSET NavNode],
           np.new \union np.changed \subseteq DOMAIN m.nav,
           NEW gp, gp.map \in SUBSET (NavNode \X Perm), gp.unmap \in SUBSET (NavNode \X Perm),
           NEW s \in Statements(m, pp, np, gp)
    PROVE  StatementOk(s)
<1>1. CASE \E p \in Perm : s = SetPerms("addPerm", {p}, "active") \/ s = SetPerms("updatePerm", {p}, "active")
  <2>1. PICK p \in Perm, kind \in {"addPerm", "updatePerm"} : s = SetPerms(kind, {p}, "active")
    BY <1>1
  <2> QED BY <2>1, PermStatement DEF PermKinds, RowStates
<1>2. CASE \E i \in DOMAIN m.nav, kind \in {"addNav", "updateNav"} : s = SetNav(kind, i, m.nav[i])
  <2>1. PICK i \in DOMAIN m.nav, kind \in {"addNav", "updateNav"} : s = SetNav(kind, i, m.nav[i])
    BY <1>2
  <2>2. i \in Nat /\ m.nav[i].key \in NavNode /\ RowOf(m.nav[i]) \in NavRow
    BY Entries
  <2> QED BY <2>1, <2>2, NavStatement
<1>3. CASE s = SetGates("map", gp.map) \/ s = SetGates("unmap", gp.unmap)
  BY <1>3, GateStatement DEF GateKinds
<1>4. CASE \E n \in NavNode : s = Retire(n)
  BY <1>4, RetireStatement
<1>5. CASE s = SetPerms("retirePerm", pp.gone, "retired")
  <2>1. pp.gone \in SUBSET Perm
    OBVIOUS
  <2> QED BY <1>5, <2>1, PermStatement DEF PermKinds, RowStates
<1> QED
  <2>1. pp.new \subseteq Perm /\ pp.back \subseteq Perm /\ np.gone \subseteq NavNode
    OBVIOUS
  <2> QED BY <1>1, <1>2, <1>3, <1>4, <1>5, <2>1 DEF Statements, Issued

LEMMA EditsOk ==
    ASSUME RegTyped, NEW s \in Edits
    PROVE  StatementOk(s)
<1>1. CASE \E p \in Perm : s = SetPerms("addPerm", {p}, "active")
  BY <1>1, PermStatement DEF PermKinds, RowStates
<1>2. CASE \E n \in NavNode, q \in NavNode \union {NavRoot}, b \in BOOLEAN :
               s = SetNav("addNav", 0, [key |-> n, parent |-> q, public |-> b])
  <2>1. PICK n \in NavNode, q \in NavNode \union {NavRoot}, b \in BOOLEAN :
               s = SetNav("addNav", 0, [key |-> n, parent |-> q, public |-> b])
    BY <1>2
  <2> DEFINE d == [key |-> n, parent |-> q, public |-> b]
  <2>2. d.key \in NavNode /\ RowOf(d) \in NavRow
    BY DEF RowOf, NavRow, RowStates
  <2> HIDE DEF d
  <2>3. s = SetNav("addNav", 0, d)
    BY <2>1 DEF d
  <2> QED BY <2>2, <2>3, NavStatement
<1>3. CASE \E kind \in {"map", "unmap"}, n \in KnownNodes, p \in KnownPerms : s = SetGates(kind, {<<n, p>>})
  <2>1. PICK kind \in {"map", "unmap"}, n \in KnownNodes, p \in KnownPerms : s = SetGates(kind, {<<n, p>>})
    BY <1>3
  <2>2. {<<n, p>>} \in SUBSET (NavNode \X Perm)
    BY DEF KnownNodes, KnownPerms
  <2> QED BY <2>1, <2>2, GateStatement DEF GateKinds
<1>4. KnownNodes \union {NavRoot} \subseteq NavNode \union {NavRoot}
  BY DEF KnownNodes
<1>5. CASE s \in PermEdits
  BY <1>1, <1>5 DEF PermEdits
<1>6. CASE s \in NavEdits
  <2>1. PICK n \in NavNode, q \in KnownNodes \union {NavRoot}, b \in BOOLEAN :
           s = SetNav("addNav", 0, [key |-> n, parent |-> q, public |-> b])
    BY <1>6 DEF NavEdits
  <2> QED BY <1>2, <1>4, <2>1
<1>7. CASE s \in GateEdits
  BY <1>3, <1>7 DEF GateEdits
<1> QED BY <1>5, <1>6, <1>7 DEF Edits

(* What a statement leaves in its cells.                                     *)
LEMMA EffectIs ==
    ASSUME RegTyped, NEW u \in Upload, NEW s, StatementOk(s)
    PROVE  /\ Effect(u, s) \in CellMaps /\ Sorted(Effect(u, s)) /\ DOMAIN Effect(u, s) \subseteq DOMAIN s.cells
           /\ \A x \in DOMAIN s.cells :
                 (IF x \in DOMAIN Effect(u, s) THEN Effect(u, s)[x] ELSE Seen(u)[x])
                 = IF s.kind = "retireNav" THEN RetiredRow(Seen(u)[x]) ELSE s.cells[x]
<1> DEFINE now == Seen(u)
           e == Effect(u, s)
           V == RowStates \union NavRow \union BOOLEAN
<1>1. IsCatalog(now)
  BY SeenIsCatalog
<1>2. s.cells \in CellMaps /\ DOMAIN s.cells \in SUBSET Cell /\ \A x \in DOMAIN s.cells : s.cells[x] \in V
  <2>1. s.cells \in CellMaps
    BY DEF StatementOk, StatementRec
  <2>2. PICK D \in SUBSET Cell : s.cells \in [D -> V]
    BY <2>1 DEF CellMaps
  <2> HIDE DEF V
  <2> QED BY <2>1, <2>2
<1>3. \A x \in DOMAIN s.cells : s.cells[x] \in Values(x)
  BY DEF StatementOk, Sorted
<1>4. CASE s.kind = "retireNav"
  <2>1. e = [x \in DOMAIN s.cells |-> RetiredRow(now[x])]
    BY <1>4 DEF Effect, Touched, RetiredRow
  <2>2. \A x \in DOMAIN s.cells : x \in NavCell /\ RetiredRow(now[x]) \in NavRow /\ Values(x) = NavRow
    <3>1. \A x \in DOMAIN s.cells : x \in NavCell
      BY <1>4 DEF StatementOk, NavKinds
    <3>2. \A n \in NavNode : now[<<"nav", n>>] \in NavRow
      BY <1>1, CatalogCells
    <3>3. \A row \in NavRow : RetiredRow(row) \in NavRow
      BY DEF NavRow, RetiredRow, RowStates
    <3>4. \A n \in NavNode : Values(<<"nav", n>>) = NavRow
      BY DEF Values
    <3> HIDE DEF now
    <3> QED BY <3>1, <3>2, <3>3, <3>4, Cells
  <2>3. e \in CellMaps
    <3>1. e \in [DOMAIN s.cells -> V]
      BY <2>1, <2>2
    <3> QED BY <1>2, <3>1, IsCellMap
  <2>4. Sorted(e) /\ DOMAIN e = DOMAIN s.cells
    BY <2>1, <2>2 DEF Sorted
  <2> QED BY <1>4, <2>1, <2>3, <2>4
<1>5. CASE s.kind \notin GateKinds /\ s.kind # "retireNav"
  <2>1. e = [x \in DOMAIN s.cells |-> s.cells[x]]
    BY <1>5 DEF Effect, Touched, GateKinds
  <2>2. e \in CellMaps
    <3>1. e \in [DOMAIN s.cells -> V]
      BY <1>2, <2>1
    <3> QED BY <1>2, <3>1, IsCellMap
  <2>3. Sorted(e) /\ DOMAIN e = DOMAIN s.cells
    BY <1>3, <2>1 DEF Sorted
  <2> QED BY <1>5, <2>1, <2>2, <2>3
<1>6. CASE s.kind \in GateKinds
  <2>1. s.kind # "retireNav"
    BY <1>6 DEF GateKinds
  <2>2. \A x \in DOMAIN s.cells : now[x] \in BOOLEAN /\ s.cells[x] = (s.kind = "map")
    BY <1>1, <1>6, CatalogCells, Cells DEF StatementOk
  <2> DEFINE changed == {x \in Touched(u, s) : s.kind = "map" => ~now[x]}
  <2>3. e = [x \in changed |-> s.cells[x]] /\ changed \subseteq DOMAIN s.cells
    BY <2>1 DEF Effect, Touched
  <2>4. ASSUME NEW x \in DOMAIN s.cells, x \notin changed PROVE now[x] = s.cells[x]
    <3>1. CASE s.kind = "map"
      <4>1. now[x] = TRUE
        BY <2>2, <2>4, <3>1, Zenon DEF Touched
      <4> QED BY <2>2, <3>1, <4>1
    <3>2. CASE s.kind = "unmap"
      <4>1. s.kind # "map"
        BY <3>2
      <4>2. now[x] = FALSE
        BY <2>2, <2>4, <3>2, <4>1, Zenon DEF Touched
      <4>3. s.cells[x] = FALSE
        BY <2>2, <4>1
      <4> QED BY <4>2, <4>3
    <3> QED BY <1>6, <3>1, <3>2 DEF GateKinds
  <2> HIDE DEF changed
  <2>5. e \in CellMaps
    <3>1. e \in [changed -> V]
      BY <1>2, <2>3
    <3> QED BY <1>2, <2>3, <3>1, IsCellMap
  <2>6. Sorted(e) /\ DOMAIN e = changed
    BY <1>3, <2>3 DEF Sorted
  <2> QED BY <2>1, <2>3, <2>4, <2>5, <2>6
<1> QED BY <1>4, <1>5, <1>6

LEMMA NothingWritten == <<>> \in CellMaps /\ Sorted(<<>>) /\ DOMAIN <<>> = {}
<1>1. {} \in SUBSET Cell /\ <<>> \in [{} -> RowStates \union NavRow \union BOOLEAN] /\ DOMAIN <<>> = {}
  OBVIOUS
<1> QED BY <1>1, IsCellMap DEF Sorted

LEMMA NothingRequested ==
    /\ NoUpload \in RequestRec /\ NoUpload.pc = "idle" /\ NoUpload.todo = {}
    /\ NoUpload.upload = FALSE /\ NoUpload.bump = FALSE
    /\ NoUpload.navPlan = NoNavPlan
    /\ NoNavPlan.new = {} /\ NoNavPlan.changed = {}
<1>1. NoPermPlan \in [new : SUBSET Perm, back : SUBSET Perm, gone : SUBSET Perm]
  BY DEF NoPermPlan
<1>2. NoNavPlan \in [new : SUBSET Nat, changed : SUBSET Nat, gone : SUBSET NavNode]
  BY DEF NoNavPlan
<1> QED BY <1>1, <1>2 DEF NoUpload, RequestRec, Pcs, NoNavPlan

LEMMA SeenUnwritten ==
    ASSUME RegTyped, NEW u \in Upload, DOMAIN written[u] = {}
    PROVE  Seen(u) = catalog
<1>1. catalog \in CellMaps
  BY DEF RegTyped, IsCatalog
<1>2. PICK D \in SUBSET Cell : catalog \in [D -> RowStates \union NavRow \union BOOLEAN]
  BY <1>1 DEF CellMaps
<1>3. catalog = [x \in DOMAIN catalog |-> catalog[x]]
  BY <1>2
<1>4. Seen(u) = [x \in DOMAIN catalog |-> catalog[x]]
  BY DEF Seen, Over
<1> QED BY <1>3, <1>4

(* Everything but a COMMIT: one request moves on, the catalog stays.         *)
LEMMA OneRequest ==
    ASSUME RegIInv, NEW u \in Upload, NEW r \in RequestRec, NEW w \in CellMaps,
           request' = [request EXCEPT ![u] = r], written' = [written EXCEPT ![u] = w], catalog' = catalog,
           \A s \in r.todo : StatementOk(s),
           r.pc \in {"readNav", "readGates"} => r.doc \in Manifests,
           r.navPlan.new \union r.navPlan.changed \subseteq DOMAIN r.doc.nav,
           Sorted(w),
           r.pc # "writing" => DOMAIN w = {},
           r.upload => r.pc # "idle",
           r.pc \in {"readNav", "readGates"} => r.upload,
           ~r.bump => DOMAIN w \subseteq PermCell,
           r.upload /\ u \notin regOvertaken' => OnCourse(u)',
           \A v \in Upload : v # u => (v \in regOvertaken' <=> v \in regOvertaken),
           inForce' \subseteq Manifests, \A m \in inForce' : InForce(catalog, m)
    PROVE  RegIInv'
<1>1. /\ request' \in [Upload -> RequestRec] /\ request'[u] = r
      /\ \A v \in Upload : v # u => request'[v] = request[v]
  BY DEF RegIInv, RegTyped
<1>2. /\ written' \in [Upload -> CellMaps] /\ written'[u] = w
      /\ \A v \in Upload : v # u => written'[v] = written[v]
  BY DEF RegIInv, RegTyped
<1>3. \A v \in Upload : RequestTyped(v)'
  <2> TAKE v \in Upload
  <2>1. CASE v = u
    BY <1>1, <1>2, <2>1 DEF RequestTyped
  <2>2. CASE v # u
    BY <1>1, <1>2, <2>2 DEF RequestTyped, RegIInv, RegTyped
  <2> QED BY <2>1, <2>2
<1>4. RegTyped'
  BY <1>1, <1>2, <1>3 DEF RegIInv, RegTyped, IsCatalog, Sorted
<1>5. \A v \in Upload : RegRequestOk(v)'
  <2> TAKE v \in Upload
  <2>1. CASE v = u
    BY <1>1, <1>2, <2>1 DEF RegRequestOk
  <2>2. CASE v # u
    <3>1. Seen(v)' = Seen(v)
      BY <1>2, <2>2 DEF Seen
    <3>2. OnCourse(v) => OnCourse(v)'
      BY <1>1, <2>2, <3>1 DEF OnCourse
    <3>3. RegRequestOk(v)
      BY DEF RegIInv
    <3> QED BY <1>1, <1>2, <2>2, <3>2, <3>3 DEF RegRequestOk
  <2> QED BY <2>1, <2>2
<1>6. \A m \in inForce' : InForce(catalog, m)'
  BY DEF InForce
<1> QED BY <1>4, <1>5, <1>6 DEF RegIInv

LEMMA SameWritten ==
    ASSUME RegTyped, NEW u \in Upload, written' = written
    PROVE  written' = [written EXCEPT ![u] = written[u]] /\ written[u] \in CellMaps /\ Sorted(written[u])
BY DEF RegTyped, RequestTyped

LEMMA RegInits == RegInit => RegIInv
<1> SUFFICES ASSUME RegInit PROVE RegIInv
  OBVIOUS
<1>1. /\ catalog = Blank /\ request = [u \in Upload |-> NoUpload] /\ written = [u \in Upload |-> <<>>]
      /\ inForce = {}
  BY DEF RegInit
<1>2. IsCatalog(Blank)
  <2>1. \A x \in Cell : Blank[x] \in Values(x) /\ Blank[x] \in RowStates \union NavRow \union BOOLEAN
    <3> TAKE x \in Cell
    <3>1. NoNavRow \in NavRow /\ "absent" \in RowStates
      BY DEF NoNavRow, NavRow, RowStates
    <3>2. CASE x \in PermCell
      <4>1. PICK p \in Perm : x = <<"perm", p>>
        BY <3>2, Cells
      <4>2. x \in PermCell /\ x \notin NavCell
        BY <4>1, Cells
      <4>3. Blank[x] = "absent"
        BY <4>2 DEF Blank
      <4> QED BY <3>1, <4>1, <4>3 DEF Values
    <3>3. CASE x \in NavCell
      <4>1. Blank[x] = NoNavRow /\ x[1] = "nav"
        BY <3>3, Cells DEF Blank, NavCell
      <4> QED BY <3>1, <4>1 DEF Values
    <3>4. CASE x \in GateCell
      <4>1. Blank[x] = FALSE /\ x[1] = "gate"
        BY <3>4, Cells DEF Blank, GateCell
      <4> QED BY <4>1 DEF Values
    <3> QED BY <3>2, <3>3, <3>4, Cells
  <2>2. Blank = [x \in Cell |-> Blank[x]]
    BY DEF Blank
  <2> DEFINE blank == Blank
  <2> HIDE DEF blank
  <2>3. blank = [x \in Cell |-> blank[x]] /\ \A x \in Cell : blank[x] \in RowStates \union NavRow \union BOOLEAN
    BY <2>1, <2>2 DEF blank
  <2>4. blank \in [Cell -> RowStates \union NavRow \union BOOLEAN]
    BY <2>3
  <2>5. blank \in CellMaps /\ DOMAIN blank = Cell
    BY <2>4, IsCellMap
  <2> QED BY <2>1, <2>5 DEF IsCatalog, Sorted, blank
<1>3. RegTyped
  BY <1>1, <1>2, NothingWritten, NothingRequested DEF RegTyped, RequestTyped
<1>4. \A u \in Upload : RegRequestOk(u)
  BY <1>1, NothingWritten, NothingRequested DEF RegRequestOk
<1> QED BY <1>1, <1>3, <1>4 DEF RegIInv

LEMMA UploadBegun ==
    ASSUME RegIInv, NEW u \in Upload, NEW m \in Manifests, BeginUpload(u, m)
    PROVE  RegIInv'
<1> DEFINE r == [NoUpload EXCEPT !.pc = "readNav", !.doc = m, !.upload = TRUE,
                                 !.permPlan = PermPlan(catalog, m)]
<1>1. /\ request' = [request EXCEPT ![u] = r] /\ request[u].pc = "idle"
      /\ regOvertaken' = regOvertaken \ {u}
      /\ catalog' = catalog /\ written' = written /\ inForce' = inForce
  BY DEF BeginUpload
<1>2. RegTyped /\ RegRequestOk(u)
  BY DEF RegIInv
<1>3. /\ r \in RequestRec /\ r.pc = "readNav" /\ r.doc = m /\ r.upload = TRUE /\ r.todo = {}
      /\ r.permPlan = PermPlan(catalog, m) /\ r.bump = FALSE /\ r.navPlan = NoNavPlan
  <2>1. PermPlan(catalog, m) \in [new : SUBSET Perm, back : SUBSET Perm, gone : SUBSET Perm]
    BY Entries DEF PermPlan, NewPerms, ReturningPerms, DroppedPerms, ActivePerms
  <2> QED BY <2>1, NothingRequested DEF RequestRec, Pcs
<1> HIDE DEF r
<1>4. DOMAIN written[u] = {}
  BY <1>1, <1>2 DEF RegRequestOk
<1>5. request'[u] = r
  BY <1>1, <1>2 DEF RegTyped
<1>6. OnCourse(u)'
  BY <1>1, <1>3, <1>5 DEF OnCourse
<1>7. /\ written' = [written EXCEPT ![u] = written[u]] /\ written[u] \in CellMaps /\ Sorted(written[u])
  BY <1>1, <1>2, SameWritten
<1>8. inForce' \subseteq Manifests /\ \A d \in inForce' : InForce(catalog, d)
  BY <1>1 DEF RegIInv, RegTyped
<1>9. r.navPlan.new \union r.navPlan.changed \subseteq DOMAIN r.doc.nav
  BY <1>3, NothingRequested
<1>10. \A v \in Upload : v # u => (v \in regOvertaken' <=> v \in regOvertaken)
  BY <1>1
<1> QED BY <1>1, <1>3, <1>4, <1>6, <1>7, <1>8, <1>9, <1>10, OneRequest

LEMMA EmptyMap ==
    ASSUME NEW f \in CellMaps, DOMAIN f = {}
    PROVE  f = <<>>
<1>1. PICK D \in SUBSET Cell : f \in [D -> RowStates \union NavRow \union BOOLEAN]
  BY DEF CellMaps
<1>2. D = {}
  BY <1>1
<1> QED BY <1>1, <1>2

LEMMA NavRead ==
    ASSUME RegIInv, NEW u \in Upload, ReadNav(u)
    PROVE  RegIInv'
<1> DEFINE m == request[u].doc
           r == [request[u] EXCEPT !.pc = "readGates", !.navPlan = NavPlan(catalog, m)]
<1>1. RegTyped /\ RegRequestOk(u) /\ RequestTyped(u) /\ request[u] \in RequestRec
  BY DEF RegIInv, RegTyped
<1>2. /\ request' = [request EXCEPT ![u] = r] /\ request[u].pc = "readNav"
      /\ regOvertaken' = regOvertaken /\ catalog' = catalog /\ written' = written /\ inForce' = inForce
  BY <1>1 DEF ReadNav, RegTyped
<1>3. m \in Manifests
  BY <1>1, <1>2 DEF RequestTyped
<1>4. /\ NavPlan(catalog, m) \in [new : SUBSET Nat, changed : SUBSET Nat, gone : SUBSET NavNode]
      /\ NavPlan(catalog, m).new \union NavPlan(catalog, m).changed \subseteq DOMAIN m.nav
  <2>1. DOMAIN m.nav \subseteq Nat
    BY <1>3, Entries
  <2>2. /\ NewNodes(catalog, m) \subseteq DOMAIN m.nav /\ ChangedNodes(catalog, m) \subseteq DOMAIN m.nav
        /\ DroppedNodes(catalog, m) \subseteq NavNode
    BY DEF NewNodes, ChangedNodes, DroppedNodes, ActiveNodes
  <2> QED BY <2>1, <2>2 DEF NavPlan
<1>5. /\ r \in RequestRec /\ r.pc = "readGates" /\ r.doc = m /\ r.upload = request[u].upload
      /\ r.todo = request[u].todo /\ r.permPlan = request[u].permPlan /\ r.bump = request[u].bump
      /\ r.navPlan = NavPlan(catalog, m)
  BY <1>1, <1>4 DEF RequestRec, Pcs
<1>6. request'[u] = r
  BY <1>1, <1>2 DEF RegTyped
<1> HIDE DEF r
<1>7. DOMAIN written[u] = {}
  BY <1>1, <1>2 DEF RegRequestOk
<1>8. r.upload /\ u \notin regOvertaken' => OnCourse(u)'
  <2> HAVE r.upload /\ u \notin regOvertaken'
  <2>1. OnCourse(u)
    BY <1>1, <1>2, <1>5 DEF RegRequestOk
  <2> QED BY <1>2, <1>3, <1>5, <1>6, <2>1 DEF OnCourse
<1>9. /\ written' = [written EXCEPT ![u] = written[u]] /\ written[u] \in CellMaps /\ Sorted(written[u])
  BY <1>1, <1>2, SameWritten
<1>10. inForce' \subseteq Manifests /\ \A d \in inForce' : InForce(catalog, d)
  BY <1>2 DEF RegIInv, RegTyped
<1>11. \A s \in r.todo : StatementOk(s)
  BY <1>1, <1>5 DEF RequestTyped
<1>12. r.navPlan.new \union r.navPlan.changed \subseteq DOMAIN r.doc.nav
  BY <1>4, <1>5
<1>13. r.upload
  BY <1>1, <1>2, <1>5 DEF RegRequestOk
<1> QED BY <1>2, <1>3, <1>5, <1>7, <1>8, <1>9, <1>10, <1>11, <1>12, <1>13, OneRequest

(* The request gives up, or has nothing to do.                               *)
LEMMA RequestOver ==
    ASSUME RegIInv, NEW u \in Upload,
           request' = [request EXCEPT ![u] = NoUpload], written' = [written EXCEPT ![u] = <<>>],
           catalog' = catalog, regOvertaken' = regOvertaken,
           inForce' \subseteq Manifests, \A m \in inForce' : InForce(catalog, m)
    PROVE  RegIInv'
<1>1. NoUpload.pc # "writing" /\ NoUpload.pc \notin {"readNav", "readGates"}
  BY NothingRequested
<1>2. NoUpload.navPlan.new \union NoUpload.navPlan.changed \subseteq DOMAIN NoUpload.doc.nav
  BY NothingRequested
<1>3. \A s \in NoUpload.todo : StatementOk(s)
  BY NothingRequested
<1> QED BY <1>1, <1>2, <1>3, NothingRequested, NothingWritten, OneRequest

LEMMA GatesRead ==
    ASSUME RegIInv, NEW u \in Upload, ReadGates(u)
    PROVE  RegIInv'
<1> DEFINE m == request[u].doc
           gp == GatePlan(catalog, m)
           noOp == IsNoOp(request[u].permPlan, request[u].navPlan, gp)
           todo == Statements(m, request[u].permPlan, request[u].navPlan, gp)
           r == [request[u] EXCEPT !.pc = "writing", !.todo = todo]
<1>1. RegTyped /\ RegRequestOk(u) /\ RequestTyped(u) /\ request[u] \in RequestRec /\ IsCatalog(catalog)
  BY DEF RegIInv, RegTyped
<1>2. /\ request[u].pc = "readGates"
      /\ regOvertaken' = regOvertaken /\ catalog' = catalog /\ written' = written
      /\ request' = [request EXCEPT ![u] = IF noOp THEN NoUpload ELSE r]
      /\ inForce' = IF noOp /\ u \notin regOvertaken THEN {m} ELSE inForce
  BY DEF ReadGates
<1>3. m \in Manifests /\ DOMAIN written[u] = {}
  BY <1>1, <1>2 DEF RequestTyped, RegRequestOk
<1>4. /\ request[u].permPlan \in [new : SUBSET Perm, back : SUBSET Perm, gone : SUBSET Perm]
      /\ request[u].navPlan \in [new : SUBSET Nat, changed : SUBSET Nat, gone : SUBSET NavNode]
      /\ request[u].navPlan.new \union request[u].navPlan.changed \subseteq DOMAIN m.nav
  BY <1>1 DEF RequestRec, RequestTyped
<1>5. gp.map \in SUBSET (NavNode \X Perm) /\ gp.unmap \in SUBSET (NavNode \X Perm)
  BY <1>3, Entries DEF GatePlan, ToMap, ToUnmap, Mapped
<1>6. ASSUME request[u].upload, u \notin regOvertaken
      PROVE  /\ request[u].permPlan = PermPlan(catalog, m) /\ request[u].navPlan = NavPlan(catalog, m)
             /\ todo = Plan(catalog, m)
  <2>1. OnCourse(u)
    BY <1>1, <1>6 DEF RegRequestOk
  <2>2. request[u].permPlan = PermPlan(catalog, m) /\ request[u].navPlan = NavPlan(catalog, m)
    BY <1>2, <2>1 DEF OnCourse
  <2> QED BY <2>2 DEF Plan
<1> HIDE DEF gp, noOp, todo
<1>7. /\ written' = [written EXCEPT ![u] = written[u]] /\ written[u] \in CellMaps /\ Sorted(written[u])
  BY <1>1, <1>2, SameWritten
<1>8. inForce \subseteq Manifests /\ \A d \in inForce : InForce(catalog, d)
  BY DEF RegIInv, RegTyped
<1>9. request[u].upload
  BY <1>1, <1>2 DEF RegRequestOk
<1>10. CASE noOp
  <2>1. <<>> = written[u]
    BY <1>3, <1>7, NothingWritten, EmptyMap
  <2>2. request' = [request EXCEPT ![u] = NoUpload] /\ written' = [written EXCEPT ![u] = <<>>]
    BY <1>2, <1>7, <1>10, <2>1
  <2>3. CASE u \in regOvertaken
    <3>1. inForce' = inForce
      BY <1>2, <2>3
    <3> QED BY <1>2, <1>8, <2>2, <3>1, RequestOver
  <2>4. CASE u \notin regOvertaken
    <3>1. inForce' = {m}
      BY <1>2, <1>10, <2>4
    <3>2. InForce(catalog, m)
      BY <1>1, <1>3, <1>6, <1>9, <1>10, <2>4, NoOpMeansInForce DEF noOp, gp
    <3> QED BY <1>2, <1>3, <2>2, <3>1, <3>2, RequestOver
  <2> QED BY <2>3, <2>4
<1>11. CASE ~noOp
  <2>1. request' = [request EXCEPT ![u] = r] /\ inForce' = inForce
    BY <1>2, <1>11
  <2>2. \A s \in todo : StatementOk(s)
    BY <1>3, <1>4, <1>5, StatementsOk DEF todo
  <2>3. todo \in SUBSET StatementRec
    BY <2>2 DEF StatementOk
  <2>4. /\ r \in RequestRec /\ r.pc = "writing" /\ r.doc = m /\ r.upload = request[u].upload
        /\ r.todo = todo /\ r.bump = request[u].bump /\ r.navPlan = request[u].navPlan
    BY <1>1, <2>3 DEF RequestRec, Pcs
  <2>5. request'[u] = r
    BY <1>1, <2>1 DEF RegTyped
  <2> HIDE DEF r
  <2>6. r.upload /\ u \notin regOvertaken' => OnCourse(u)'
    <3> HAVE r.upload /\ u \notin regOvertaken'
    <3>1. todo = Plan(catalog, m)
      BY <1>2, <1>6, <2>4
    <3>2. Seen(u)' = catalog /\ Seen(u) = catalog
      BY <1>1, <1>2, <1>3, SeenUnwritten DEF Seen
    <3>3. \A x \in Cell : catalog[x] = Aim(catalog, m)[x] \/ \E s \in todo : x \in DOMAIN s.cells
      BY <1>1, <1>3, <3>1, PlanCovers
    <3> HIDE DEF m
    <3> QED BY <1>2, <1>3, <2>4, <2>5, <3>1, <3>2, <3>3 DEF OnCourse
  <2>7. r.navPlan.new \union r.navPlan.changed \subseteq DOMAIN r.doc.nav
    BY <1>4, <2>4
  <2> QED BY <1>2, <1>3, <1>7, <1>8, <2>1, <2>2, <2>4, <2>6, <2>7, OneRequest
<1> QED BY <1>10, <1>11

LEMMA Wrote ==
    ASSUME RegIInv, NEW u \in Upload, NEW s, Write(u, s)
    PROVE  RegIInv'
<1> DEFINE m == request[u].doc
           e == Effect(u, s)
           w == Over(e, written[u])
           moves == MovesMenu(u, s)
           r == [request[u] EXCEPT !.todo = @ \ {s}, !.bump = @ \/ moves]
<1>1. RegTyped /\ RegRequestOk(u) /\ RequestTyped(u) /\ request[u] \in RequestRec /\ IsCatalog(catalog)
  BY DEF RegIInv, RegTyped
<1>2. /\ s \in Upcoming(u)
      /\ regOvertaken' = regOvertaken /\ catalog' = catalog /\ inForce' = inForce
      /\ written' = [written EXCEPT ![u] = w]
      /\ request' = [request EXCEPT ![u].todo = @ \ {s}, ![u].bump = @ \/ moves]
  BY DEF Write
<1>3. request[u].pc = "writing" /\ s \in request[u].todo
  BY <1>2 DEF Upcoming, Due
<1>4. request' = [request EXCEPT ![u] = r]
  BY <1>1, <1>2 DEF RegTyped
<1>5. StatementOk(s)
  BY <1>1, <1>3 DEF RequestTyped
<1>6. e \in CellMaps /\ Sorted(e) /\ DOMAIN e \subseteq DOMAIN s.cells
  BY <1>1, <1>5, EffectIs
<1>7. written[u] \in CellMaps /\ Sorted(written[u]) /\ Seen(u) = Over(written[u], catalog)
  BY <1>1 DEF RegTyped, RequestTyped, Seen
<1>8. w \in CellMaps /\ Sorted(w)
  BY <1>6, <1>7, Overlaid
<1>9. /\ DOMAIN w = DOMAIN e \union DOMAIN written[u]
      /\ \A x \in DOMAIN w : w[x] = IF x \in DOMAIN e THEN e[x] ELSE written[u][x]
  BY DEF Over
<1>10. ~moves => DOMAIN e \subseteq PermCell
  <2> HAVE ~moves
  <2>1. s.kind \notin NavKinds /\ (s.kind \in GateKinds => DOMAIN e = {})
    BY DEF MovesMenu, NavKinds, GateKinds
  <2>2. s.kind \in PermKinds => DOMAIN e \subseteq PermCell
    BY <1>5, <1>6 DEF StatementOk
  <2>3. s.kind \in NavKinds \union GateKinds \union PermKinds
    BY <1>5 DEF StatementOk, StatementRec
  <2> QED BY <2>1, <2>2, <2>3
<1>11. moves \in BOOLEAN
  BY DEF MovesMenu
<1> HIDE DEF e, w, moves
<1>12. (request[u].bump \/ moves) \in BOOLEAN
  OBVIOUS
<1>13. /\ r \in RequestRec /\ r.pc = "writing" /\ r.doc = m /\ r.upload = request[u].upload
       /\ r.todo = request[u].todo \ {s} /\ r.navPlan = request[u].navPlan /\ r.permPlan = request[u].permPlan
       /\ r.bump = (request[u].bump \/ moves)
  BY <1>1, <1>3, <1>12 DEF RequestRec
<1>14. request'[u] = r /\ written'[u] = w
  BY <1>1, <1>2, <1>4 DEF RegTyped
<1>15. ~r.bump => DOMAIN w \subseteq PermCell
  <2> HAVE ~r.bump
  <2>1. ~request[u].bump /\ ~moves
    BY <1>13
  <2> QED BY <1>1, <1>9, <1>10, <2>1 DEF RegRequestOk
<1> HIDE DEF r
<1>16. r.upload /\ u \notin regOvertaken' => OnCourse(u)'
  <2> HAVE r.upload /\ u \notin regOvertaken'
  <2>1. OnCourse(u) /\ m \in Manifests
    BY <1>1, <1>2, <1>3, <1>13 DEF RegRequestOk, OnCourse
  <2>2. /\ request[u].todo \subseteq Plan(catalog, m)
        /\ \A x \in Cell : Seen(u)[x] \in {catalog[x], Aim(catalog, m)[x]}
        /\ \A x \in Cell : Seen(u)[x] = Aim(catalog, m)[x] \/ \E t \in request[u].todo : x \in DOMAIN t.cells
    BY <1>3, <2>1 DEF OnCourse
  <2>3. Towards(catalog, m, s)
    BY <1>1, <1>3, <2>1, <2>2, PlanAims
  <2>4. Seen(u)' = Over(w, catalog)
    BY <1>2, <1>14 DEF Seen
  <2>5. \A x \in Cell : Seen(u)'[x] = IF x \in DOMAIN e THEN e[x] ELSE Seen(u)[x]
    <3>1. DOMAIN catalog = Cell
      BY <1>1 DEF IsCatalog
    <3>2. \A x \in Cell : Over(w, catalog)[x] = IF x \in DOMAIN w THEN w[x] ELSE catalog[x]
      BY <3>1 DEF Over
    <3>3. \A x \in Cell : Seen(u)[x] = IF x \in DOMAIN written[u] THEN written[u][x] ELSE catalog[x]
      BY <1>7, <3>1 DEF Over
    <3> QED BY <1>9, <2>4, <3>2, <3>3
  <2>6. ASSUME NEW x \in Cell, x \in DOMAIN s.cells PROVE Seen(u)'[x] = Aim(catalog, m)[x]
    <3>1. Seen(u)'[x] = IF s.kind = "retireNav" THEN RetiredRow(Seen(u)[x]) ELSE s.cells[x]
      BY <1>1, <1>5, <2>5, <2>6, EffectIs DEF e
    <3>2. CASE s.kind = "retireNav"
      <4>1. Aim(catalog, m)[x] = RetiredRow(catalog[x])
        BY <2>3, <2>6, <3>2 DEF Towards
      <4>2. x \in NavCell
        BY <1>5, <2>6, <3>2 DEF StatementOk, NavKinds
      <4>3. catalog[x] \in NavRow
        BY <1>1, <4>2, Cells, CatalogCells
      <4>4. RetiredRow(RetiredRow(catalog[x])) = RetiredRow(catalog[x])
        BY <4>3 DEF RetiredRow, NavRow
      <4>5. Seen(u)[x] = catalog[x] \/ Seen(u)[x] = RetiredRow(catalog[x])
        BY <2>2, <4>1
      <4> QED BY <3>1, <3>2, <4>1, <4>4, <4>5
    <3>3. CASE s.kind # "retireNav"
      BY <2>3, <2>6, <3>1, <3>3 DEF Towards
    <3> QED BY <3>2, <3>3
  <2>7. \A x \in Cell : x \notin DOMAIN s.cells => Seen(u)'[x] = Seen(u)[x]
    BY <1>6, <2>5
  <2>8. \A x \in Cell : Seen(u)'[x] \in {catalog[x], Aim(catalog, m)[x]}
    BY <2>2, <2>6, <2>7
  <2>9. \A x \in Cell : Seen(u)'[x] = Aim(catalog, m)[x] \/ \E t \in r.todo : x \in DOMAIN t.cells
    BY <1>13, <2>2, <2>6, <2>7
  <2> HIDE DEF m
  <2>10. r.pc = "writing" /\ r.doc = m /\ r.todo \subseteq Plan(catalog, m)
    BY <1>13, <2>2
  <2> QED BY <1>2, <1>14, <2>1, <2>8, <2>9, <2>10 DEF OnCourse
<1>17. inForce' \subseteq Manifests /\ \A d \in inForce' : InForce(catalog, d)
  BY <1>2 DEF RegIInv, RegTyped
<1>18. \A t \in r.todo : StatementOk(t)
  BY <1>1, <1>13 DEF RequestTyped
<1>19. r.navPlan.new \union r.navPlan.changed \subseteq DOMAIN r.doc.nav
  BY <1>1, <1>13 DEF RequestTyped
<1> QED BY <1>2, <1>4, <1>8, <1>13, <1>15, <1>16, <1>17, <1>18, <1>19, OneRequest

LEMMA EditBegun ==
    ASSUME RegIInv, NEW u \in Upload, BeginEdit(u)
    PROVE  RegIInv'
<1>1. PICK s \in Edits :
         request' = [request EXCEPT ![u] = [NoUpload EXCEPT !.pc = "writing", !.todo = {s}]]
  BY DEF BeginEdit
<1> DEFINE r == [NoUpload EXCEPT !.pc = "writing", !.todo = {s}]
<1>2. /\ request[u].pc = "idle" /\ regOvertaken' = regOvertaken \ {u}
      /\ catalog' = catalog /\ written' = written /\ inForce' = inForce
  BY DEF BeginEdit
<1>3. RegTyped /\ RegRequestOk(u)
  BY DEF RegIInv
<1>4. StatementOk(s) /\ s \in StatementRec
  BY <1>3, EditsOk DEF StatementOk
<1>5. /\ r \in RequestRec /\ r.pc = "writing" /\ r.upload = FALSE /\ r.todo = {s}
      /\ r.navPlan = NoNavPlan
  BY <1>4, NothingRequested DEF RequestRec, Pcs
<1>6. DOMAIN written[u] = {}
  BY <1>2, <1>3 DEF RegRequestOk
<1>7. /\ written' = [written EXCEPT ![u] = written[u]] /\ written[u] \in CellMaps /\ Sorted(written[u])
  BY <1>2, <1>3, SameWritten
<1>8. inForce' \subseteq Manifests /\ \A d \in inForce' : InForce(catalog, d)
  BY <1>2 DEF RegIInv, RegTyped
<1>9. r.navPlan.new \union r.navPlan.changed \subseteq DOMAIN r.doc.nav
  BY <1>5, NothingRequested
<1>10. \A v \in Upload : v # u => (v \in regOvertaken' <=> v \in regOvertaken)
  BY <1>2
<1> HIDE DEF r
<1>11. request' = [request EXCEPT ![u] = r]
  BY <1>1 DEF r
<1> QED BY <1>2, <1>4, <1>5, <1>6, <1>7, <1>8, <1>9, <1>10, <1>11, OneRequest

LEMMA Committed ==
    ASSUME RegIInv, NEW u \in Upload, CommitChange(u)
    PROVE  RegIInv'
<1> DEFINE m == request[u].doc
           changes == DOMAIN written[u] # {}
<1>1. RegTyped /\ RegRequestOk(u) /\ RequestTyped(u) /\ request[u] \in RequestRec /\ IsCatalog(catalog)
  BY DEF RegIInv, RegTyped
<1>2. /\ request[u].pc = "writing" /\ request[u].todo = {}
      /\ catalog' = Seen(u)
      /\ regOvertaken' = IF changes THEN {v \in Upload : v # u /\ request[v].pc # "idle"} \union regOvertaken
                         ELSE regOvertaken
      /\ request' = [request EXCEPT ![u] = NoUpload]
      /\ written' = [written EXCEPT ![u] = <<>>]
  BY DEF CommitChange
<1>3. \/ request[u].upload /\ u \notin regOvertaken /\ inForce' = {m}
      \/ ~(request[u].upload /\ u \notin regOvertaken) /\ ~changes /\ inForce' = inForce
      \/ inForce' = {}
  BY DEF CommitChange
<1>4. IsCatalog(Seen(u))
  BY <1>1, SeenIsCatalog
<1>5. ASSUME ~changes PROVE catalog' = catalog /\ regOvertaken' = regOvertaken
  BY <1>1, <1>2, <1>5, SeenUnwritten
<1>6. inForce' \subseteq Manifests /\ \A d \in inForce' : InForce(Seen(u), d)
  <2>1. CASE request[u].upload /\ u \notin regOvertaken /\ inForce' = {m}
    <3>1. OnCourse(u)
      BY <1>1, <2>1 DEF RegRequestOk
    <3>2. m \in Manifests /\ \A x \in Cell : Seen(u)[x] = Aim(catalog, m)[x]
      BY <1>2, <3>1 DEF OnCourse
    <3>3. Seen(u) = Aim(catalog, m)
      <4>1. IsCatalog(Aim(catalog, m))
        BY <1>1, <3>2, AimIsCatalog
      <4> DEFINE f == Seen(u)
                 g == Aim(catalog, m)
                 V == RowStates \union NavRow \union BOOLEAN
      <4> HIDE DEF f, g, V
      <4>2. f \in [Cell -> V] /\ g \in [Cell -> V] /\ \A x \in Cell : f[x] = g[x]
        <5>1. f \in CellMaps /\ DOMAIN f = Cell /\ g \in CellMaps /\ DOMAIN g = Cell
          BY <1>4, <4>1 DEF IsCatalog, f, g
        <5>2. \A h \in CellMaps : DOMAIN h = Cell => h \in [Cell -> V]
          BY DEF CellMaps, V
        <5> QED BY <3>2, <5>1, <5>2 DEF f, g
      <4>3. f = g
        BY <4>2
      <4> QED BY <4>3 DEF f, g
    <3>4. InForce(Aim(catalog, m), m)
      BY <1>1, <3>2, AimIsCatalog, AimIsNoOp, NoOpMeansInForce
    <3> QED BY <2>1, <3>2, <3>3, <3>4
  <2>2. CASE ~changes /\ inForce' = inForce
    BY <1>2, <1>5, <2>2 DEF RegIInv, RegTyped
  <2>3. CASE inForce' = {}
    BY <2>3
  <2> QED BY <1>3, <2>1, <2>2, <2>3
<1>7. /\ request' \in [Upload -> RequestRec] /\ request'[u] = NoUpload
      /\ \A v \in Upload : v # u => request'[v] = request[v]
  BY <1>1, <1>2, NothingRequested DEF RegTyped
<1>8. /\ written' \in [Upload -> CellMaps] /\ written'[u] = <<>>
      /\ \A v \in Upload : v # u => written'[v] = written[v]
  BY <1>1, <1>2, NothingWritten DEF RegTyped
<1>9. \A v \in Upload : RequestTyped(v)'
  <2> TAKE v \in Upload
  <2>1. CASE v = u
    BY <1>7, <1>8, <2>1, NothingRequested, NothingWritten DEF RequestTyped
  <2>2. CASE v # u
    BY <1>1, <1>7, <1>8, <2>2 DEF RequestTyped, RegTyped
  <2> QED BY <2>1, <2>2
<1>10. RegTyped'
  BY <1>2, <1>4, <1>6, <1>7, <1>8, <1>9 DEF RegTyped, IsCatalog, Sorted
<1>11. \A v \in Upload : RegRequestOk(v)'
  <2> TAKE v \in Upload
  <2>1. CASE v = u
    BY <1>7, <1>8, <2>1, NothingRequested, NothingWritten DEF RegRequestOk
  <2>2. CASE v # u
    <3>1. RegRequestOk(v)
      BY DEF RegIInv
    <3>2. request[v].upload /\ v \notin regOvertaken' => OnCourse(v)'
      <4> HAVE request[v].upload /\ v \notin regOvertaken'
      <4>1. ~changes
        BY <1>2, <2>2, <3>1 DEF RegRequestOk
      <4>2. catalog' = catalog /\ regOvertaken' = regOvertaken
        BY <1>5, <4>1
      <4>3. OnCourse(v)
        BY <3>1, <4>2 DEF RegRequestOk
      <4>4. Seen(v)' = Seen(v)
        BY <1>8, <2>2, <4>2 DEF Seen
      <4> QED BY <1>7, <2>2, <4>2, <4>3, <4>4 DEF OnCourse
    <3> QED BY <1>7, <1>8, <2>2, <3>1, <3>2 DEF RegRequestOk
  <2> QED BY <2>1, <2>2
<1>12. \A d \in inForce' : InForce(catalog, d)'
  BY <1>2, <1>6 DEF InForce
<1> QED BY <1>10, <1>11, <1>12 DEF RegIInv

LEMMA RegSteps == RegIInv /\ [RegNext]_regVars => RegIInv'
<1> SUFFICES ASSUME RegIInv, [RegNext]_regVars PROVE RegIInv'
  OBVIOUS
<1>1. CASE RegNext
  <2>1. PICK u \in Upload : RegStep(u)
    BY <1>1 DEF RegNext
  <2>2. CASE \E m \in Manifests : BeginUpload(u, m)
    BY <2>2, UploadBegun
  <2>3. CASE BeginEdit(u)
    BY <2>3, EditBegun
  <2>4. CASE ReadNav(u)
    BY <2>4, NavRead
  <2>5. CASE ReadGates(u)
    BY <2>5, GatesRead
  <2>6. CASE \E s \in Upcoming(u) : Write(u, s)
    BY <2>6, Wrote
  <2>7. CASE Rollback(u)
    <3>1. /\ request' = [request EXCEPT ![u] = NoUpload] /\ written' = [written EXCEPT ![u] = <<>>]
          /\ catalog' = catalog /\ regOvertaken' = regOvertaken /\ inForce' = inForce
      BY <2>7 DEF Rollback
    <3>2. inForce' \subseteq Manifests /\ \A m \in inForce' : InForce(catalog, m)
      BY <3>1 DEF RegIInv, RegTyped
    <3> QED BY <3>1, <3>2, RequestOver
  <2>8. CASE CommitChange(u)
    BY <2>8, Committed
  <2> QED BY <2>1, <2>2, <2>3, <2>4, <2>5, <2>6, <2>7, <2>8 DEF RegStep, Conflict, DeadlockDetected, Fail
<1>2. CASE UNCHANGED regVars
  <2>1. /\ request' = request /\ written' = written /\ catalog' = catalog /\ regOvertaken' = regOvertaken
        /\ inForce' = inForce
    BY <1>2 DEF regVars
  <2>2. \A u \in Upload : Seen(u)' = Seen(u)
    BY <2>1 DEF Seen
  <2>3. \A u \in Upload : OnCourse(u) => OnCourse(u)'
    BY <2>1, <2>2 DEF OnCourse
  <2>4. \A u \in Upload : RegRequestOk(u)'
    BY <2>1, <2>3 DEF RegRequestOk, RegIInv
  <2>5. RegTyped'
    BY <2>1 DEF RegTyped, RequestTyped, IsCatalog, Sorted, RegIInv
  <2>6. \A m \in inForce' : InForce(catalog, m)'
    BY <2>1 DEF RegIInv, InForce
  <2> QED BY <2>4, <2>5, <2>6 DEF RegIInv
<1> QED BY <1>1, <1>2

(* The registry: whatever uploads and edits overlap, rows and statements are *)
(* of their kinds, and an upload that nothing overtook is on course for what *)
(* its document aims at.                                                     *)
THEOREM RegInvariant == RegSpec => []RegIInv
<1> QED BY RegInits, RegSteps, PTL DEF RegSpec

(* manifest.service.ts: an upload beside whose plan nobody committed leaves  *)
(* the catalog its document describes, whatever rows it found, retired ones  *)
(* among them, and uploading the document again would change nothing.        *)
THEOREM ManifestHolds == RegSpec => []ManifestInForce
<1>1. RegIInv => ManifestInForce
  BY DEF RegIInv, InForce, ManifestInForce
<1> QED BY <1>1, RegInvariant, PTL

(* A row of the menu that a request has written without owing a bump.        *)
LEMMA QuietCommit ==
    ASSUME RegIInv, NEW u \in Upload, DOMAIN written[u] \subseteq PermCell
    PROVE  Menu(Seen(u)) = Menu(catalog)
<1> DEFINE now == Seen(u)
<1>1. DOMAIN catalog = Cell
  BY DEF RegIInv, RegTyped, IsCatalog
<1>2. \A x \in Cell : x \notin PermCell => now[x] = catalog[x]
  BY <1>1 DEF Seen, Over
<1> HIDE DEF now
<1>3. \A n \in NavNode : now[<<"nav", n>>] = catalog[<<"nav", n>>]
  BY <1>2, Cells
<1>4. \A n \in NavNode, p \in Perm : now[<<"gate", <<n, p>>>>] = catalog[<<"gate", <<n, p>>>>]
  BY <1>2, Cells
<1>5. ActiveNodes(now) = ActiveNodes(catalog)
  BY <1>3 DEF ActiveNodes
<1>6. \A n \in NavNode : Gates(now, n) = Gates(catalog, n)
  BY <1>4 DEF Gates
<1>7. ActiveNodes(catalog) \subseteq NavNode
  BY DEF ActiveNodes
<1>8. Menu(now) = Menu(catalog)
  BY <1>3, <1>5, <1>6, <1>7 DEF Menu
<1> QED BY <1>8 DEF now

(* nav.service.ts, manifest.service.ts: no COMMIT changes what the menu reads *)
(* without the callback that moves app_nav_version.                          *)
THEOREM MenuChangesBump == RegSpec => MenuChangeBumps
<1> DEFINE Bumps == catalog' # catalog => Menu(catalog') = Menu(catalog) \/ lastBump'
<1>1. ASSUME RegIInv, RegNext PROVE Bumps
  <2> SUFFICES ASSUME catalog' # catalog PROVE Menu(catalog') = Menu(catalog) \/ lastBump'
    OBVIOUS
  <2>1. PICK u \in Upload : RegStep(u)
    BY <1>1 DEF RegNext
  <2>2. CommitChange(u)
    BY <2>1 DEF RegStep, BeginUpload, BeginEdit, ReadNav, ReadGates, Write, Conflict, DeadlockDetected, Fail, Rollback
  <2>3. catalog' = Seen(u) /\ lastBump' = request[u].bump
    BY <2>2 DEF CommitChange
  <2>4. CASE request[u].bump
    BY <2>3, <2>4
  <2>5. CASE ~request[u].bump
    <3>1. DOMAIN written[u] \subseteq PermCell
      BY <1>1, <2>5 DEF RegIInv, RegRequestOk
    <3> QED BY <1>1, <2>3, <3>1, QuietCommit
  <2> QED BY <2>4, <2>5
<1>2. RegIInv /\ [RegNext]_regVars => [Bumps]_regVars
  BY <1>1
<1> QED BY <1>2, RegInvariant, PTL DEF RegSpec, MenuChangeBumps

-----------------------------------------------------------------------------
(* UploadScreen.  A result says of itself whether the two diffs match.       *)
ResultSaysSo ==
    applied # None =>
        applied.asPreviewed = DiffsMatch(applied.seen, applied.found, applied.manifest)

UploadIInv == ShownIsOfTheText /\ ResultSaysSo

(* Catalogs a manifest makes the same change to differ, if they do, in what   *)
(* it changes.                                                               *)
LEMMA SameDiff ==
    ASSUME NEW seen, NEW found, NEW manifest, DiffsMatch(seen, found, manifest),
           NEW r \in Row, seen[r] # found[r]
    PROVE  r \in Affected(Diff(seen, manifest))
<1> DEFINE left == Diff(seen, manifest)
           right == Diff(found, manifest)
<1>1. /\ left.created = right.created
      /\ left.updated = right.updated
      /\ left.deactivated = right.deactivated
  BY DEF DiffsMatch
<1>2. /\ r \in left.created <=> seen[r] = Off /\ manifest[r] # Off
      /\ r \in left.updated <=> seen[r] # Off /\ manifest[r] # Off /\ seen[r] # manifest[r]
      /\ r \in left.deactivated <=> seen[r] # Off /\ manifest[r] = Off
  BY DEF Diff
<1>3. /\ r \in right.created <=> found[r] = Off /\ manifest[r] # Off
      /\ r \in right.updated <=> found[r] # Off /\ manifest[r] # Off /\ found[r] # manifest[r]
      /\ r \in right.deactivated <=> found[r] # Off /\ manifest[r] = Off
  BY DEF Diff
<1> QED BY <1>1, <1>2, <1>3 DEF Affected

(* What is shown was previewed, or uploaded, as the text in the box: an edit  *)
(* clears it, and an answer to a text that is gone is a crossed one.          *)
LEMMA UploadStep == UploadIInv /\ [PageNext]_pageVars => UploadIInv'
<1> SUFFICES ASSUME UploadIInv, [PageNext]_pageVars PROVE UploadIInv'
  OBVIOUS
<1> USE DEF UploadIInv, ShownIsOfTheText, ResultSaysSo
<1>1. ASSUME NEW value \in Texts, Type(value) \/ DropFile(value) PROVE UploadIInv'
  BY <1>1 DEF Type, DropFile, ReplaceDocument
<1>2. CASE FileRead
  BY <1>2 DEF FileRead, ReplaceDocument
<1>3. CASE Preview \/ Register \/ PreviewFails \/ Apply
  BY <1>3 DEF Preview, Register, PreviewFails, Apply
<1>4. CASE FindApplication
  BY <1>4 DEF FindApplication
<1>5. CASE CreateApplication \/ Compute \/ SendManifest \/ UploadFails \/ SomeoneChanges
  BY <1>5 DEF CreateApplication, Compute, SendManifest, UploadFails, SomeoneChanges
<1>6. CASE PreviewLands
  <2>1. PICK p \in {previewing, registering} : SetPreview(p)
    BY <1>6 DEF PreviewLands
  <2>2. /\ preview'.manifest = p.manifest
        /\ ~crossed' => ~crossed /\ p.manifest = text
    BY <2>1 DEF SetPreview
  <2> QED BY <1>6, <2>2 DEF PreviewLands
<1>7. CASE Answer(TRUE) \/ Answer(FALSE)
  BY <1>7 DEF Answer
<1>8. CASE UploadLands
  BY <1>8 DEF UploadLands
<1>9. CASE UNCHANGED pageVars
  BY <1>9 DEF pageVars
<1> QED BY <1>1, <1>2, <1>3, <1>4, <1>5, <1>6, <1>7, <1>8, <1>9 DEF PageNext

(* Whatever is typed, dropped, registered or uploaded meanwhile, the page     *)
(* shows no preview or result of another text than the one in the box, but    *)
(* for an answer that crossed the edit; and says that the catalog moved when  *)
(* it did, or overwrites what the preview said it would.                      *)
THEOREM UploadIsHonest == PageSpec => []UploadHonest
<1>1. PageInit => UploadIInv
  BY DEF PageInit, UploadIInv, ShownIsOfTheText, ResultSaysSo
<1>2. UploadIInv => UploadHonest
  BY SameDiff DEF UploadIInv, ResultSaysSo, UploadHonest, ToldOfMoves, DiffsMatch
<1> QED BY <1>1, <1>2, UploadStep, PTL DEF PageSpec

-----------------------------------------------------------------------------
(* AuditTrail.  The order of the trail: of two rows one comes first, and a   *)
(* row's place is the number of those before it.                             *)
Stamped == [at : Nat, id : Nat]

LEMMA OneComesFirst ==
    ASSUME NEW r \in Stamped, NEW s \in Stamped
    PROVE  /\ ~Precedes(r, r) /\ ~(Precedes(r, s) /\ Precedes(s, r))
           /\ r # s => Precedes(r, s) \/ Precedes(s, r)
           /\ \A q \in Stamped : Precedes(q, r) /\ Precedes(r, s) => Precedes(q, s)
BY DEF Stamped, Precedes

LEMMA PlacesOrder ==
    ASSUME NEW rows, IsFiniteSet(rows), rows \subseteq Stamped, NEW r \in rows
    PROVE  /\ Place(rows, r) \in Nat /\ Place(rows, r) < Cardinality(rows)
           /\ \A s \in rows : Precedes(r, s) => Place(rows, r) < Place(rows, s)
<1> DEFINE B(s) == {q \in rows : Precedes(q, s)}
<1>1. ASSUME NEW s \in rows PROVE IsFiniteSet(B(s)) /\ Cardinality(B(s)) \in Nat
  BY FS_Subset, FS_CardinalityType
<1>2. Cardinality(B(r)) < Cardinality(rows)
  <2>1. B(r) \in SUBSET rows /\ r \notin B(r)
    BY OneComesFirst
  <2>2. Cardinality(B(r)) <= Cardinality(rows) /\ Cardinality(B(r)) # Cardinality(rows)
    BY <2>1, FS_Subset
  <2>3. Cardinality(rows) \in Nat
    BY FS_CardinalityType
  <2> QED BY <1>1, <2>2, <2>3
<1>3. ASSUME NEW s \in rows, Precedes(r, s) PROVE Cardinality(B(r)) < Cardinality(B(s))
  <2>1. B(r) \in SUBSET B(s) /\ r \notin B(r) /\ r \in B(s)
    BY <1>3, OneComesFirst
  <2>2. IsFiniteSet(B(s)) /\ Cardinality(B(s)) \in Nat /\ Cardinality(B(r)) \in Nat
    BY <1>1
  <2> HIDE DEF B
  <2>3. Cardinality(B(r)) <= Cardinality(B(s)) /\ Cardinality(B(r)) # Cardinality(B(s))
    BY <2>1, <2>2, FS_Subset
  <2> QED BY <2>2, <2>3
<1>4. \A s \in rows : Place(rows, s) = Cardinality(B(s))
  BY DEF Place
<1> HIDE DEF B
<1> QED BY <1>1, <1>2, <1>3, <1>4

(* Every place below the number of rows is one row's.                        *)
LEMMA RowsInPlace ==
    ASSUME NEW rows, IsFiniteSet(rows), rows \subseteq Stamped,
           NEW k \in Nat, k < Cardinality(rows)
    PROVE  /\ RowAt(rows, k) \in rows /\ Place(rows, RowAt(rows, k)) = k
           /\ \A r \in rows : Place(rows, r) = k => r = RowAt(rows, k)
<1> DEFINE n == Cardinality(rows)
           f == [r \in rows |-> Place(rows, r)]
<1>1. n \in Nat
  BY FS_CardinalityType
<1>2. \A r, s \in rows : Place(rows, r) = Place(rows, s) => r = s
  <2> SUFFICES ASSUME NEW r \in rows, NEW s \in rows, Place(rows, r) = Place(rows, s), r # s PROVE FALSE
    OBVIOUS
  <2>1. Precedes(r, s) \/ Precedes(s, r)
    BY OneComesFirst
  <2>2. Place(rows, r) \in Nat /\ Place(rows, s) \in Nat
    BY PlacesOrder
  <2>3. Place(rows, r) < Place(rows, s) \/ Place(rows, s) < Place(rows, r)
    BY <2>1, PlacesOrder
  <2> QED BY <2>2, <2>3
<1>3. \E r \in rows : Place(rows, r) = k
  <2> SUFFICES ASSUME \A r \in rows : Place(rows, r) # k PROVE FALSE
    OBVIOUS
  <2> DEFINE T == (0 .. n - 1) \ {k}
  <2>1. IsFiniteSet(0 .. n - 1) /\ Cardinality(0 .. n - 1) = n
    <3>1. n - 1 \in Int /\ 0 \in Int /\ (0 > n - 1 <=> n = 0) /\ n - 1 - 0 + 1 = n
      BY <1>1
    <3> HIDE DEF n
    <3> QED BY <3>1, FS_Interval
  <2>2. IsFiniteSet(T) /\ Cardinality(T) = n - 1
    <3>1. k \in 0 .. n - 1
      BY <1>1
    <3> HIDE DEF n
    <3> QED BY <2>1, <3>1, FS_RemoveElement
  <2>3. f \in [rows -> T]
    <3>1. \A r \in rows : Place(rows, r) \in Nat /\ Place(rows, r) < n /\ Place(rows, r) # k
      BY PlacesOrder
    <3> HIDE DEF n
    <3> QED BY <1>1, <3>1
  <2>4. PICK r \in rows, s \in rows : r # s /\ f[r] = f[s]
    <3>1. n - 1 < n
      BY <1>1
    <3> HIDE DEF T, f
    <3> QED BY <2>2, <2>3, <3>1, FS_PigeonHole
  <2> QED BY <1>2, <2>4
<1> QED BY <1>2, <1>3 DEF RowAt

(* What order by, offset and limit hand out.                                 *)
LEMMA Handed ==
    ASSUME NEW rows, IsFiniteSet(rows), rows \subseteq Stamped, NEW o \in Nat, NEW n \in Nat
    PROVE  LET seq == InOrder(rows, o, n) IN
           /\ seq \in Seq(rows) /\ Len(seq) <= n
           /\ Len(seq) > 0 => o + Len(seq) <= Cardinality(rows)
           /\ Len(seq) < n => Cardinality(rows) <= o + Len(seq)
           /\ \A k \in 1 .. Len(seq) : Place(rows, seq[k]) = o + k - 1
           /\ \A r \in rows : o <= Place(rows, r) /\ Place(rows, r) < o + n =>
                 \E k \in 1 .. Len(seq) : seq[k] = r
<1> DEFINE c == Cardinality(rows)
           left == c - o
           m == IF left < n THEN left ELSE n
           len == IF m < 0 THEN 0 ELSE m
           seq == InOrder(rows, o, n)
<1>1. c \in Nat
  BY FS_CardinalityType
<1>2. len \in Nat /\ 1 .. m = 1 .. len
  BY <1>1
<1>3. seq = [k \in 1 .. len |-> RowAt(rows, o + k - 1)]
  BY <1>2 DEF InOrder
<1>4. ASSUME NEW k \in 1 .. len
      PROVE  RowAt(rows, o + k - 1) \in rows /\ Place(rows, RowAt(rows, o + k - 1)) = o + k - 1
  <2>1. o + k - 1 \in Nat /\ o + k - 1 < c
    BY <1>1
  <2> HIDE DEF len
  <2> QED BY <2>1, RowsInPlace
<1>5. /\ len <= n /\ (len > 0 => o + len <= c) /\ (len < n => c <= o + len)
      /\ \A p \in Nat : o <= p /\ p < o + n /\ p < c => p - o + 1 \in 1 .. len /\ o + (p - o + 1) - 1 = p
  BY <1>1
<1> HIDE DEF len, c, seq
<1>6. seq \in Seq(rows) /\ Len(seq) = len
  <2>1. \A k \in 1 .. len : RowAt(rows, o + k - 1) \in rows
    BY <1>4
  <2>2. seq \in [1 .. len -> rows]
    BY <1>3, <2>1
  <2> QED BY <1>2, <2>2, IsASeq, LenProperties
<1>7. \A k \in 1 .. len : Place(rows, seq[k]) = o + k - 1
  BY <1>3, <1>4
<1>8. ASSUME NEW r \in rows, o <= Place(rows, r), Place(rows, r) < o + n
      PROVE  \E k \in 1 .. len : seq[k] = r
  <2> DEFINE p == Place(rows, r)
  <2>1. p \in Nat /\ p < c
    BY PlacesOrder DEF c
  <2>2. p - o + 1 \in 1 .. len /\ o + (p - o + 1) - 1 = p
    BY <1>5, <1>8, <2>1
  <2>3. r = RowAt(rows, p)
    BY <2>1, RowsInPlace DEF c
  <2> HIDE DEF p
  <2>4. seq[p - o + 1] = RowAt(rows, o + (p - o + 1) - 1)
    BY <1>3, <2>2
  <2> QED BY <2>2, <2>3, <2>4
<1> QED BY <1>5, <1>6, <1>7, <1>8 DEF seq, c

-----------------------------------------------------------------------------
(* Rows are finitely many, and each has an id of its own.                    *)
WriterRec == [pc : {"idle", "open", "ended"}, at : 0 .. AuditEnd, rows : SUBSET AuditRow]
TrailTyped ==
    /\ instant \in 0 .. AuditEnd
    /\ trailRows \subseteq AuditRow /\ IsFiniteSet(trailRows)
    /\ writing \in [Clerk -> WriterRec]
    /\ \A c \in Clerk : IsFiniteSet(writing[c].rows)

Recorded ==
    trailRows \union (UNION Rows(Clerk)) \union (IF export.pc = "recorded" THEN {export.own} ELSE {})
OneIdEach == \A r, s \in Recorded : r.id = s.id => r = s

(* The export: what it has handed out, and what it has not.                  *)
FilterRec == [from : Nat, to : Nat]
ExportRec ==
    [pc : {"none", "open", "reading", "read", "recorded", "answered", "refused", "failed"},
     at : 0 .. AuditEnd, filter : FilterRec, snapshot : SUBSET AuditRow, total : Nat,
     records : Seq(AuditRow), own : Stamped]
Given(r) == \E k \in 1 .. Len(export.records) : export.records[k] = r
Counted == {"reading", "read", "recorded", "answered"}
Complete == {"read", "recorded", "answered"}
ReadSoFar ==
    /\ \E n \in Nat : Len(export.records) = n * ChunkSize
    /\ \A r \in export.snapshot :
          Given(r) \/ r \in Jumped \/ export.records = <<>> \/ Precedes(Last(export.records), r)
InSequence(records) ==
    \A j, k \in 1 .. Len(records) : j < k => Precedes(records[j], records[k])
ExportOk ==
    /\ export \in ExportRec
    /\ export.snapshot \subseteq trailRows
    /\ export.pc \in {"none", "open"} => export.records = <<>>
    /\ export.pc \in Counted =>
          export.total = Cardinality(export.snapshot) /\ export.total <= ExportMax
    /\ export.pc = "refused" => Cardinality(export.snapshot) > ExportMax
    /\ InSequence(export.records)
    /\ \A k \in 1 .. Len(export.records) : export.records[k] \in export.snapshot
    /\ export.pc = "reading" => ReadSoFar
    /\ export.pc \in Complete => \A r \in export.snapshot : Given(r) \/ r \in Jumped
    /\ Exported => export.own \in AuditRow /\ export.own \notin export.snapshot

(* The pages: whatever place below those turned to is in a row of the start  *)
(* has been seen.                                                            *)
PagerRec ==
    [pc : {"none", "asking", "rows", "shown"}, filter : FilterRec, page : Nat, total : Nat,
     first : SUBSET AuditRow, data : Seq(AuditRow), seen : SUBSET AuditRow]
ToBeSeen == Matching(trailRows, pager.filter)
SeenUpTo(n) == \A r \in pager.first : Place(ToBeSeen, r) < n => r \in pager.seen
DataWithin(total) ==
    pager.data # <<>> => total >= (pager.page - 1) * PageSize + Len(pager.data)
PagerOk ==
    /\ pager \in PagerRec
    /\ pager.pc # "none" => pager.page >= 1
    /\ pager.first \subseteq ToBeSeen
    /\ pager.pc = "asking" => SeenUpTo((pager.page - 1) * PageSize)
    /\ pager.pc \in {"rows", "shown"} =>
          SeenUpTo(pager.page * PageSize) /\ DataWithin(Cardinality(ToBeSeen))
    /\ pager.pc = "shown" =>
          DataWithin(pager.total) /\ (~HasNextPage => pager.first \subseteq pager.seen)

TrailIInv == TrailTyped /\ OneIdEach /\ ExportOk /\ PagerOk

LEMMA AuditRows ==
    /\ AuditRow \subseteq Stamped
    /\ ChunkSize \in Nat /\ ChunkSize >= 1 /\ PageSize \in Nat /\ PageSize >= 1
    /\ \A r \in AuditRow : r.id \in AuditId /\ r.at \in 0 .. AuditEnd /\ r.at \in Nat /\ r.id \in Nat
<1>1. AuditId \subseteq Nat /\ AuditEnd \in Nat
  BY AuditAssumption
<1>2. ChunkSize \in Nat \ {0} /\ PageSize \in Nat \ {0}
  BY AuditAssumption
<1>3. ChunkSize >= 1 /\ PageSize >= 1
  BY <1>2
<1>4. \A r \in AuditRow : r.id \in AuditId /\ r.at \in 0 .. AuditEnd /\ r \in [at : 0 .. AuditEnd, id : AuditId]
  BY DEF AuditRow
<1>5. ASSUME NEW r \in AuditRow PROVE r \in Stamped /\ r.at \in Nat /\ r.id \in Nat
  <2>1. r.at \in Nat /\ r.id \in Nat
    <3>1. r.at \in 0 .. AuditEnd /\ r.id \in AuditId
      BY <1>4
    <3>2. \A n \in 0 .. AuditEnd : n \in Nat
      BY <1>1
    <3>3. r.at \in Nat
      BY <3>1, <3>2
    <3>4. r.id \in Nat
      BY <1>1, <3>1
    <3> QED BY <3>3, <3>4
  <2>2. r = [at |-> r.at, id |-> r.id]
    BY DEF AuditRow
  <2> QED BY <2>1, <2>2 DEF Stamped
<1> QED BY <1>2, <1>3, <1>4, <1>5

LEMMA Dates ==
    ASSUME NEW a \in Nat
    PROVE  /\ ToDate(a) \in Nat /\ ToDate(a) <= a
           /\ \A b \in Nat : a <= b /\ ToDate(b) <= a => ToDate(a) = ToDate(b)
<1>1. Millisecond \in Nat \ {0}
  BY AuditAssumption
<1>2. ToDate(a) \in Nat /\ ToDate(a) <= a
  BY <1>1 DEF ToDate
<1>3. ASSUME NEW b \in Nat, a <= b, ToDate(b) <= a PROVE ToDate(a) = ToDate(b)
  BY <1>1, <1>3 DEF ToDate
<1> QED BY <1>2, <1>3

(* A row after the cursor is after the row the cursor was made of, and a row *)
(* it jumps is of that row's millisecond.                                    *)
LEMMA CursorBehind ==
    ASSUME NEW last \in Stamped, NEW r \in Stamped
    PROVE  /\ Precedes([last EXCEPT !.at = ToDate(@)], r) => Precedes(last, r)
           /\ Precedes(last, r) => Precedes([last EXCEPT !.at = ToDate(@)], r) \/ ToDate(last.at) = ToDate(r.at)
<1>1. /\ last.at \in Nat /\ r.at \in Nat /\ last.id \in Nat /\ r.id \in Nat
      /\ [last EXCEPT !.at = ToDate(@)].at = ToDate(last.at) /\ [last EXCEPT !.at = ToDate(@)].id = last.id
  BY DEF Stamped
<1>2. ToDate(last.at) \in Nat /\ ToDate(last.at) <= last.at
  BY <1>1, Dates
<1>3. r.at <= last.at /\ ToDate(last.at) <= r.at => ToDate(r.at) = ToDate(last.at)
  BY <1>1, Dates
<1> QED BY <1>1, <1>2, <1>3 DEF Precedes

LEMMA Multiples ==
    ASSUME NEW n \in Nat, NEW c \in Nat, c >= 1
    PROVE  /\ n * c \in Nat /\ n * c + c = (n + 1) * c
           /\ n * c >= 1 => n \in 1 .. n * c
           /\ n >= 1 => (n - 1) * c \in Nat /\ (n - 1) * c + c = n * c
OBVIOUS

LEMMA LaterRows ==
    ASSUME TrailTyped, NEW filter
    PROVE  /\ IsFiniteSet(Matching(trailRows, filter)) /\ Matching(trailRows, filter) \subseteq AuditRow
           /\ Matching(trailRows, filter) \subseteq trailRows
BY FS_Subset DEF TrailTyped, Matching

(* Rows that turn up later move the others back only.                        *)
LEMMA PlacesGrow ==
    ASSUME NEW S, NEW T, IsFiniteSet(T), T \subseteq Stamped, S \subseteq T
    PROVE  /\ Cardinality(S) <= Cardinality(T) /\ Cardinality(S) \in Nat /\ Cardinality(T) \in Nat
           /\ \A r \in S : Place(S, r) <= Place(T, r) /\ Place(S, r) \in Nat /\ Place(T, r) \in Nat
<1>1. IsFiniteSet(S)
  BY FS_Subset
<1>2. ASSUME NEW r \in S PROVE Place(S, r) <= Place(T, r) /\ Place(S, r) \in Nat /\ Place(T, r) \in Nat
  <2> DEFINE B == {q \in T : Precedes(q, r)}
             C == {q \in S : Precedes(q, r)}
  <2>1. IsFiniteSet(B) /\ C \in SUBSET B
    BY FS_Subset
  <2>2. Cardinality(C) <= Cardinality(B)
    <3> HIDE DEF B, C
    <3> QED BY <2>1, FS_Subset
  <2>3. Place(S, r) \in Nat /\ Place(T, r) \in Nat
    BY <1>1, PlacesOrder
  <2> QED BY <2>2, <2>3 DEF Place
<1>3. Cardinality(S) <= Cardinality(T) /\ Cardinality(S) \in Nat /\ Cardinality(T) \in Nat
  BY <1>1, FS_Subset, FS_CardinalityType
<1> QED BY <1>2, <1>3

-----------------------------------------------------------------------------
(* What moves on elsewhere leaves the export and the pages as good.          *)
LEMMA ExportStays ==
    ASSUME ExportOk, export' = export, trailRows \subseteq trailRows'
    PROVE  ExportOk'
<1>1. Jumped' = Jumped /\ \A r : Given(r)' <=> Given(r)
  BY DEF Jumped, Given
<1> QED BY <1>1 DEF ExportOk, ReadSoFar, Exported

LEMMA PagesStay ==
    ASSUME PagerOk, pager' = pager, TrailTyped, TrailTyped', trailRows \subseteq trailRows'
    PROVE  PagerOk'
<1> DEFINE S == ToBeSeen
           T == Matching(trailRows', pager.filter)
<1>1. ToBeSeen' = T /\ S \subseteq T
  BY DEF ToBeSeen, Matching
<1>2. IsFiniteSet(T) /\ T \subseteq Stamped
  <2>1. IsFiniteSet(trailRows') /\ trailRows' \subseteq AuditRow
    BY DEF TrailTyped
  <2>2. T \in SUBSET trailRows'
    BY DEF Matching
  <2> HIDE DEF T
  <2> QED BY <2>1, <2>2, FS_Subset, AuditRows
<1> HIDE DEF S, T
<1>3. /\ Cardinality(S) <= Cardinality(T) /\ Cardinality(S) \in Nat /\ Cardinality(T) \in Nat
      /\ \A r \in S : Place(S, r) <= Place(T, r) /\ Place(S, r) \in Nat /\ Place(T, r) \in Nat
  BY <1>1, <1>2, PlacesGrow
<1>4. pager.first \subseteq S /\ pager.page \in Nat /\ PageSize \in Nat /\ Len(pager.data) \in Nat
  BY AuditRows, LenProperties DEF PagerOk, PagerRec, S
<1>5. ASSUME NEW n \in Int, SeenUpTo(n) PROVE SeenUpTo(n)'
  <2> SUFFICES ASSUME NEW r \in pager.first, Place(T, r) < n PROVE r \in pager.seen
    BY <1>1 DEF SeenUpTo
  <2>1. Place(S, r) < n
    BY <1>3, <1>4
  <2> QED BY <1>5, <2>1 DEF SeenUpTo, S
<1>6. (pager.page - 1) * PageSize \in Int /\ pager.page * PageSize \in Int
  BY <1>4
<1>7. DataWithin(Cardinality(S)) => DataWithin(Cardinality(T))
  BY <1>3, <1>4, <1>6 DEF DataWithin
<1>8. /\ DataWithin(Cardinality(T)) => DataWithin(Cardinality(ToBeSeen))'
      /\ DataWithin(pager.total) => DataWithin(pager.total)'
  BY <1>1 DEF DataWithin
<1>9. PagerOk /\ S = ToBeSeen
  BY DEF S
<1>10. pager.pc = "asking" => SeenUpTo((pager.page - 1) * PageSize)'
  BY <1>5, <1>6, <1>9 DEF PagerOk
<1>11. pager.pc \in {"rows", "shown"} => SeenUpTo(pager.page * PageSize)' /\ DataWithin(Cardinality(ToBeSeen))'
  BY <1>5, <1>6, <1>7, <1>8, <1>9 DEF PagerOk
<1>12. pager.first \subseteq ToBeSeen'
  BY <1>1, <1>4
<1>13. HasNextPage' <=> HasNextPage
  BY DEF HasNextPage
<1>14. pager'.pc = "shown" => DataWithin(pager.total)' /\ (~HasNextPage' => pager'.first \subseteq pager'.seen)
  BY <1>8, <1>13 DEF PagerOk
<1>15. pager'.pc = "asking" => SeenUpTo((pager.page - 1) * PageSize)'
  BY <1>10
<1>16. pager' \in PagerRec /\ (pager'.pc # "none" => pager'.page >= 1)
  BY DEF PagerOk
<1> QED
  BY <1>11, <1>12, <1>14, <1>15, <1>16 DEF PagerOk

(* Fewer rows recorded, or more with ids of their own.                       *)
LEMMA IdsStay ==
    ASSUME OneIdEach, Recorded' \subseteq Recorded
    PROVE  OneIdEach'
BY DEF OneIdEach

LEMMA IdsUsed == UsedIds = {r.id : r \in Recorded}
<1> DEFINE A == trailRows \union (UNION Rows(Clerk))
           B == IF export.pc = "recorded" THEN {export.own} ELSE {}
<1>1. Recorded = A \union B
  BY DEF Recorded
<1>2. UsedIds = {r.id : r \in A} \union {r.id : r \in B}
  <2>1. {r.id : r \in B} = IF export.pc = "recorded" THEN {export.own.id} ELSE {}
    OBVIOUS
  <2> QED BY <2>1 DEF UsedIds
<1> HIDE DEF A, B
<1> QED BY <1>1, <1>2

LEMMA TrailInits == AuditInit => TrailIInv
<1> SUFFICES ASSUME AuditInit PROVE TrailIInv
  OBVIOUS
<1>1. /\ instant = 0 /\ trailRows = {} /\ writing = [c \in Clerk |-> [pc |-> "idle", at |-> 0, rows |-> {}]]
      /\ export = NoExport /\ pager = NoPager
  BY DEF AuditInit
<1>2. AuditEnd \in Nat /\ 0 \in 0 .. AuditEnd
  BY AuditAssumption
<1>3. [pc |-> "idle", at |-> 0, rows |-> {}] \in WriterRec
  BY <1>2 DEF WriterRec
<1>4. TrailTyped
  BY <1>1, <1>2, <1>3, FS_EmptySet DEF TrailTyped
<1>5. Recorded = {}
  BY <1>1 DEF Recorded, Rows, NoExport
<1>6. <<>> \in Seq(AuditRow) /\ Len(<<>>) = 0 /\ 1 .. Len(<<>>) = {}
  BY EmptySeq
<1>7. ExportOk
  <2>1. NoExport \in ExportRec
    BY <1>2, <1>6 DEF NoExport, ExportRec, NoFilter, NoRow, FilterRec, Stamped
  <2>2. /\ NoExport.pc = "none" /\ NoExport.snapshot = {} /\ NoExport.records = <<>>
    BY DEF NoExport
  <2> QED BY <1>1, <1>6, <2>1, <2>2 DEF ExportOk, Counted, Complete, Exported, InSequence
<1>8. PagerOk
  <2>1. NoPager \in PagerRec
    BY <1>6 DEF NoPager, PagerRec, NoFilter, FilterRec
  <2>2. NoPager.pc = "none" /\ NoPager.first = {}
    BY DEF NoPager
  <2> QED BY <1>1, <2>1, <2>2 DEF PagerOk
<1> QED BY <1>4, <1>5, <1>7, <1>8 DEF TrailIInv, OneIdEach

-----------------------------------------------------------------------------
(* The writers.                                                              *)
LEMMA WriterMoves ==
    ASSUME TrailIInv, NEW c \in Clerk, NEW w \in WriterRec, IsFiniteSet(w.rows),
           writing' = [writing EXCEPT ![c] = w], instant' = instant, export' = export, pager' = pager,
           trailRows \subseteq trailRows', trailRows' \subseteq AuditRow, IsFiniteSet(trailRows'),
           OneIdEach'
    PROVE  TrailIInv'
<1>1. TrailTyped'
  BY DEF TrailIInv, TrailTyped
<1> QED BY <1>1, ExportStays, PagesStay DEF TrailIInv

LEMMA WriterSteps ==
    ASSUME TrailIInv, NEW c \in Clerk, ClerkStep(c)
    PROVE  TrailIInv'
<1>1. /\ TrailTyped /\ OneIdEach /\ writing[c] \in WriterRec /\ IsFiniteSet(writing[c].rows)
      /\ \A d \in Clerk : writing[d] \in WriterRec
      /\ writing[c].rows \subseteq Recorded /\ trailRows \subseteq Recorded
      /\ IsFiniteSet(trailRows) /\ trailRows \subseteq AuditRow
  BY DEF TrailIInv, TrailTyped, Recorded, Rows
<1>2. CASE BeginWriting(c)
  <2> DEFINE w == [writing[c] EXCEPT !.pc = "open", !.at = instant]
  <2>1. /\ writing' = [writing EXCEPT ![c] = w] /\ instant' = instant /\ export' = export /\ pager' = pager
        /\ trailRows' = trailRows
    BY <1>2 DEF BeginWriting
  <2>2. w \in WriterRec /\ w.rows = writing[c].rows
    BY <1>1 DEF WriterRec, TrailTyped
  <2> HIDE DEF w
  <2>3. \A d \in Clerk : writing'[d].rows = writing[d].rows
    BY <1>1, <2>1, <2>2 DEF TrailTyped
  <2>4. Rows(Clerk)' = Rows(Clerk)
    BY <2>3 DEF Rows
  <2>5. OneIdEach'
    BY <1>1, <2>1, <2>4, IdsStay DEF Recorded
  <2> QED BY <1>1, <2>1, <2>2, <2>5, WriterMoves
<1>3. ASSUME NEW ids \in SUBSET (AuditId \ UsedIds), RecordActions(c, ids)
      PROVE  TrailIInv'
  <2> DEFINE new == {[at |-> writing[c].at, id |-> i] : i \in ids}
             w == [writing[c] EXCEPT !.rows = new]
  <2>1. /\ writing' = [writing EXCEPT ![c] = w] /\ instant' = instant /\ export' = export /\ pager' = pager
        /\ trailRows' = trailRows
    BY <1>1, <1>3 DEF RecordActions, TrailTyped
  <2>2. writing[c].at \in 0 .. AuditEnd /\ new \subseteq AuditRow
    BY <1>1 DEF WriterRec, AuditRow
  <2>3. IsFiniteSet(new)
    <3> DEFINE f == [i \in ids |-> [at |-> writing[c].at, id |-> i]]
    <3>1. IsFiniteSet(ids)
      <4>1. IsFiniteSet(AuditId) /\ ids \in SUBSET AuditId
        BY AuditAssumption
      <4> QED BY <4>1, FS_Subset
    <3>2. f \in Surjection(ids, new)
      BY DEF Surjection
    <3> HIDE DEF f, new
    <3> QED BY <3>1, <3>2, FS_Surjection
  <2>4. w \in WriterRec /\ w.rows = new
    <3> HIDE DEF new
    <3> QED BY <1>1, <2>2 DEF WriterRec
  <2> HIDE DEF w
  <2>5. \A d \in Clerk : writing'[d].rows = IF d = c THEN new ELSE writing[d].rows
    BY <1>1, <2>1, <2>4 DEF TrailTyped
  <2>6. \A r \in Recorded' : r \in Recorded \/ r \in new
    <3> HIDE DEF new
    <3> QED BY <2>1, <2>5 DEF Recorded, Rows
  <2>7. \A r \in Recorded, i \in ids : r.id # i
    BY IdsUsed
  <2>8. \A r, s \in new : r.id = s.id => r = s
    OBVIOUS
  <2>9. \A r \in new : r.id \in ids
    OBVIOUS
  <2>10. OneIdEach'
    <3> HIDE DEF new
    <3> QED BY <1>1, <2>6, <2>7, <2>8, <2>9 DEF OneIdEach
  <2> HIDE DEF new
  <2> QED BY <1>1, <2>1, <2>3, <2>4, <2>10, WriterMoves
<1>4. CASE CommitWriting(c) \/ RollbackWriting(c)
  <2> DEFINE w == [writing[c] EXCEPT !.pc = "ended", !.rows = {}]
  <2>1. /\ writing' = [writing EXCEPT ![c] = w] /\ instant' = instant /\ export' = export /\ pager' = pager
        /\ trailRows' = trailRows \/ trailRows' = trailRows \union writing[c].rows
    BY <1>4 DEF CommitWriting, RollbackWriting
  <2>2. w \in WriterRec /\ w.rows = {}
    BY <1>1 DEF WriterRec
  <2> HIDE DEF w
  <2>3. \A d \in Clerk : writing'[d].rows = IF d = c THEN {} ELSE writing[d].rows
    BY <1>1, <2>1, <2>2 DEF TrailTyped
  <2>4. Recorded' \subseteq Recorded
    BY <2>1, <2>3 DEF Recorded, Rows
  <2>5. OneIdEach'
    BY <1>1, <2>4, IdsStay
  <2>6. writing[c].rows \subseteq AuditRow
    BY <1>1 DEF WriterRec
  <2>7. trailRows' \subseteq AuditRow /\ trailRows \subseteq trailRows' /\ IsFiniteSet(trailRows')
    BY <1>1, <2>1, <2>6, FS_Union
  <2> QED BY <2>1, <2>2, <2>5, <2>7, FS_EmptySet, WriterMoves
<1> QED BY <1>2, <1>3, <1>4 DEF ClerkStep

-----------------------------------------------------------------------------
(* The clock, and the export.                                                *)
LEMMA ClockSteps == TrailIInv /\ AuditTick => TrailIInv'
<1> SUFFICES ASSUME TrailIInv, AuditTick PROVE TrailIInv'
  OBVIOUS
<1>1. /\ instant < AuditEnd /\ instant' = instant + 1 /\ trailRows' = trailRows
      /\ writing' = writing /\ export' = export /\ pager' = pager
  BY DEF AuditTick
<1>2. TrailTyped'
  <2>1. instant' \in 0 .. AuditEnd
    <3>1. AuditEnd \in Nat /\ instant \in 0 .. AuditEnd
      BY AuditAssumption DEF TrailIInv, TrailTyped
    <3> QED BY <1>1, <3>1
  <2> QED BY <1>1, <2>1 DEF TrailIInv, TrailTyped
<1>3. OneIdEach'
  BY <1>1 DEF TrailIInv, OneIdEach, Recorded, Rows
<1> QED BY <1>1, <1>2, <1>3, ExportStays, PagesStay DEF TrailIInv

LEMMA ExportMoves ==
    ASSUME TrailIInv, UNCHANGED <<instant, trailRows, writing, pager>>, ExportOk',
           export'.pc # "recorded" \/ export'.own.id \notin UsedIds
    PROVE  TrailIInv'
<1>1. TrailTyped'
  BY DEF TrailIInv, TrailTyped
<1>2. OneIdEach'
  <2>1. Recorded' \subseteq Recorded \/ Recorded' \subseteq Recorded \union {export'.own}
    BY DEF Recorded, Rows
  <2>2. export'.pc # "recorded" => Recorded' \subseteq Recorded
    BY DEF Recorded, Rows
  <2>3. export'.pc = "recorded" => \A r \in Recorded : r.id # export'.own.id
    BY IdsUsed
  <2>4. \A r, s \in Recorded : r.id = s.id => r = s
    BY DEF TrailIInv, OneIdEach
  <2>5. \A r \in Recorded' : r \in Recorded \/ (r = export'.own /\ export'.pc = "recorded")
    BY <2>1, <2>2
  <2> QED BY <2>3, <2>4, <2>5 DEF OneIdEach
<1>3. PagerOk'
  BY <1>1, PagesStay DEF TrailIInv
<1> QED BY <1>1, <1>2, <1>3 DEF TrailIInv

LEMMA ExportBegins ==
    ASSUME TrailIInv, NEW filter \in Filters, BeginExport(filter)
    PROVE  TrailIInv'
<1> DEFINE S == Matching(trailRows, filter)
           e == [NoExport EXCEPT !.pc = "open", !.at = instant, !.filter = filter, !.snapshot = S]
<1>1. export' = e /\ UNCHANGED <<instant, trailRows, writing, pager>>
  BY DEF BeginExport
<1>3. S \subseteq AuditRow /\ S \subseteq trailRows
  BY LaterRows DEF TrailIInv
<1>4. NoExport \in ExportRec /\ NoExport.records = <<>>
  <2>1. AuditEnd \in Nat /\ 0 \in 0 .. AuditEnd /\ <<>> \in Seq(AuditRow)
    BY AuditAssumption, EmptySeq
  <2> QED BY <2>1 DEF NoExport, ExportRec, NoFilter, NoRow, FilterRec, Stamped
<1> HIDE DEF S
<1>5. e \in ExportRec /\ e.pc = "open" /\ e.snapshot = S /\ e.records = <<>>
  <2>1. filter \in FilterRec /\ instant \in 0 .. AuditEnd
    BY AuditAssumption DEF FilterRec, TrailIInv, TrailTyped
  <2> QED BY <1>3, <1>4, <2>1 DEF ExportRec
<1> HIDE DEF e
<1>5a. 1 .. Len(<<>>) = {}
  BY EmptySeq
<1>6. ExportOk'
  BY <1>1, <1>3, <1>5, <1>5a DEF ExportOk, Counted, Complete, Exported, InSequence
<1> QED BY <1>1, <1>5, <1>6, ExportMoves

LEMMA ExportCounts == TrailIInv /\ CountExport => TrailIInv'
<1> SUFFICES ASSUME TrailIInv, CountExport PROVE TrailIInv'
  OBVIOUS
<1> DEFINE total == Cardinality(export.snapshot)
           pc == IF total > ExportMax THEN "refused" ELSE "reading"
           e == [export EXCEPT !.total = total, !.pc = pc]
<1>1. export' = e /\ UNCHANGED <<instant, trailRows, writing, pager>> /\ export.pc = "open"
  BY DEF CountExport, InSnapshot
<1>2. export \in ExportRec /\ export.snapshot \subseteq trailRows /\ export.records = <<>> /\ ExportOk
  BY <1>1 DEF TrailIInv, ExportOk
<1>3. total \in Nat /\ ExportMax \in Nat
  <2>1. IsFiniteSet(trailRows) /\ export.snapshot \in SUBSET trailRows
    BY <1>2 DEF TrailIInv, TrailTyped
  <2>2. IsFiniteSet(export.snapshot)
    BY <2>1, FS_Subset
  <2> QED BY <2>2, FS_CardinalityType, AuditAssumption
<1>4. (pc = "refused" /\ total > ExportMax) \/ (pc = "reading" /\ total <= ExportMax)
  BY <1>3
<1> HIDE DEF total, pc
<1>5. /\ e \in ExportRec /\ e.pc = pc /\ e.total = total /\ e.snapshot = export.snapshot
      /\ e.records = <<>>
  <2>1. pc \in {"refused", "reading"}
    BY <1>4
  <2> QED BY <1>2, <1>3, <2>1 DEF ExportRec
<1>5a. 1 .. Len(<<>>) = {} /\ Len(<<>>) = 0
  BY EmptySeq
<1> HIDE DEF e
<1>6. 0 = 0 * ChunkSize
  BY AuditRows
<1>7. ExportOk'
  BY <1>1, <1>2, <1>4, <1>5, <1>5a, <1>6
     DEF ExportOk, Counted, Complete, Exported, InSequence, ReadSoFar, total
<1> QED BY <1>1, <1>4, <1>5, <1>7, ExportMoves

LEMMA PlacesTell ==
    ASSUME NEW rows, IsFiniteSet(rows), rows \subseteq Stamped,
           NEW r \in rows, NEW s \in rows, Place(rows, r) < Place(rows, s)
    PROVE  Precedes(r, s)
<1>1. Place(rows, r) \in Nat /\ Place(rows, s) \in Nat
  BY PlacesOrder
<1>2. r # s
  BY <1>1
<1>3. ~Precedes(s, r)
  <2> SUFFICES ASSUME Precedes(s, r) PROVE FALSE
    OBVIOUS
  <2>1. Place(rows, s) < Place(rows, r)
    BY PlacesOrder
  <2> QED BY <1>1, <2>1
<1> QED BY <1>2, <1>3, OneComesFirst

LEMMA ExportReads == TrailIInv /\ ReadChunk => TrailIInv'
<1> SUFFICES ASSUME TrailIInv, ReadChunk PROVE TrailIInv'
  OBVIOUS
<1> DEFINE S == export.snapshot
           old == export.records
           A == AfterCursor(S)
           chunk == InOrder(A, 0, ChunkSize)
           pc == IF Len(chunk) < ChunkSize THEN "read" ELSE "reading"
           new == old \o chunk
           e == [export EXCEPT !.records = new, !.pc = pc]
<1>1. export' = e /\ UNCHANGED <<instant, trailRows, writing, pager>> /\ export.pc = "reading"
  BY DEF ReadChunk, InSnapshot
<1>2. /\ export \in ExportRec /\ S \subseteq trailRows /\ S \subseteq AuditRow /\ S \subseteq Stamped
      /\ ExportOk /\ old \in Seq(AuditRow) /\ InSequence(old) /\ ReadSoFar
      /\ \A k \in 1 .. Len(old) : old[k] \in S
  BY <1>1, AuditRows DEF TrailIInv, ExportOk, ExportRec
<1>3. ChunkSize \in Nat /\ ChunkSize >= 1 /\ Len(old) \in Nat
  BY <1>2, AuditRows, LenProperties
<1>4. A \subseteq S
  BY DEF AfterCursor
<1>5. IsFiniteSet(A) /\ A \subseteq Stamped /\ A \subseteq AuditRow
  <2>1. IsFiniteSet(trailRows) /\ A \in SUBSET trailRows
    BY <1>2, <1>4 DEF TrailIInv, TrailTyped
  <2> HIDE DEF A
  <2> QED BY <2>1, <1>2, <1>4, FS_Subset
<1>6. old # <<>> => Last(old) = old[Len(old)] /\ Len(old) >= 1 /\ Last(old) \in S
  BY <1>2, <1>3, EmptySeq DEF Last
<1>7. ASSUME NEW r \in S
      PROVE  /\ r \in A /\ old # <<>> => Precedes(Last(old), r)
             /\ old = <<>> => r \in A
             /\ old # <<>> /\ Precedes(Last(old), r) => r \in A \/ ToDate(Last(old).at) = ToDate(r.at)
  <2>1. CASE old = <<>>
    BY <2>1 DEF AfterCursor
  <2>2. CASE old # <<>>
    <3>1. Last(old) \in Stamped /\ r \in Stamped
      BY <1>2, <1>6, <2>2
    <3>2. r \in A <=> Precedes([Last(old) EXCEPT !.at = ToDate(@)], r)
      BY <2>2 DEF AfterCursor
    <3> HIDE DEF A, old
    <3> QED BY <2>2, <3>1, <3>2, CursorBehind
  <2> QED BY <2>1, <2>2
<1> HIDE DEF A
<1>8. /\ chunk \in Seq(A) /\ Len(chunk) <= ChunkSize
      /\ Len(chunk) < ChunkSize => Cardinality(A) <= Len(chunk)
      /\ \A k \in 1 .. Len(chunk) : Place(A, chunk[k]) = k - 1
      /\ \A r \in A : Place(A, r) < ChunkSize => \E k \in 1 .. Len(chunk) : chunk[k] = r
  <2>1. 0 \in Nat
    OBVIOUS
  <2>2. /\ chunk \in Seq(A) /\ Len(chunk) <= ChunkSize
        /\ Len(chunk) < ChunkSize => Cardinality(A) <= 0 + Len(chunk)
        /\ \A k \in 1 .. Len(chunk) : Place(A, chunk[k]) = 0 + k - 1
        /\ \A r \in A : 0 <= Place(A, r) /\ Place(A, r) < 0 + ChunkSize => \E k \in 1 .. Len(chunk) : chunk[k] = r
    BY <1>3, <1>5, <2>1, Handed
  <2>3. Len(chunk) \in Nat /\ \A r \in A : Place(A, r) \in Nat
    BY <1>5, <2>2, PlacesOrder, LenProperties
  <2> HIDE DEF chunk
  <2>4. Len(chunk) < ChunkSize => Cardinality(A) <= Len(chunk)
    BY <2>2, <2>3
  <2>5. \A k \in 1 .. Len(chunk) : Place(A, chunk[k]) = k - 1
    BY <2>2, <2>3
  <2>6. \A r \in A : Place(A, r) < ChunkSize => \E k \in 1 .. Len(chunk) : chunk[k] = r
    BY <1>3, <2>2, <2>3
  <2> QED BY <2>2, <2>4, <2>5, <2>6
<1> HIDE DEF chunk
<1>9. Len(chunk) \in Nat /\ chunk \in Seq(AuditRow) /\ \A k \in 1 .. Len(chunk) : chunk[k] \in A
  <2>1. chunk \in [1 .. Len(chunk) -> A] /\ Len(chunk) \in Nat
    BY <1>8, LenProperties
  <2>2. chunk \in [1 .. Len(chunk) -> AuditRow]
    BY <2>1, <1>5
  <2> QED BY <2>1, <2>2, IsASeq
<1>10. /\ new \in Seq(AuditRow) /\ Len(new) = Len(old) + Len(chunk)
       /\ \A k \in 1 .. Len(new) : new[k] = IF k <= Len(old) THEN old[k] ELSE chunk[k - Len(old)]
  BY <1>2, <1>9, ConcatProperties
<1> HIDE DEF new, pc
<1>11. /\ \A k \in 1 .. Len(old) : k \in 1 .. Len(new) /\ new[k] = old[k]
       /\ \A k \in 1 .. Len(chunk) : Len(old) + k \in 1 .. Len(new) /\ new[Len(old) + k] = chunk[k]
       /\ \A k \in 1 .. Len(new) : k \in 1 .. Len(old)
                \/ (k - Len(old) \in 1 .. Len(chunk) /\ new[k] = chunk[k - Len(old)] /\ k > Len(old))
  <2> DEFINE n == Len(old)
             m == Len(chunk)
  <2>1. n \in Nat /\ m \in Nat
    BY <1>3, <1>9
  <2>2. /\ \A k \in 1 .. n : k \in 1 .. n + m /\ k <= n
        /\ \A k \in 1 .. m : n + k \in 1 .. n + m /\ ~(n + k <= n) /\ n + k - n = k
        /\ \A k \in 1 .. n + m : k \in 1 .. n \/ (k - n \in 1 .. m /\ ~(k <= n) /\ k > n)
    <3> HIDE DEF n, m
    <3> QED BY <2>1
  <2>3. Len(new) = n + m /\ \A k \in 1 .. n + m : new[k] = IF k <= n THEN old[k] ELSE chunk[k - n]
    BY <1>10
  <2> HIDE DEF n, m
  <2>4. \A k \in 1 .. n : k \in 1 .. Len(new) /\ new[k] = old[k]
    BY <2>2, <2>3
  <2>5. \A k \in 1 .. m : n + k \in 1 .. Len(new) /\ new[n + k] = chunk[k]
    <3> SUFFICES ASSUME NEW k \in 1 .. m PROVE n + k \in 1 .. Len(new) /\ new[n + k] = chunk[k]
      OBVIOUS
    <3>1. PICK q : q = n + k
      OBVIOUS
    <3>2. q \in 1 .. n + m /\ ~(q <= n) /\ q - n = k
      BY <2>1, <3>1
    <3>3. q \in 1 .. Len(new) /\ new[q] = chunk[k]
      BY <2>3, <3>2
    <3> QED BY <3>1, <3>3
  <2>6. \A k \in 1 .. Len(new) : k \in 1 .. n \/ (k - n \in 1 .. m /\ new[k] = chunk[k - n] /\ k > n)
    BY <2>2, <2>3
  <2> QED BY <2>4, <2>5, <2>6 DEF n, m
<1>12. pc \in {"read", "reading"} /\ (pc = "reading" => Len(chunk) = ChunkSize)
       /\ (pc = "read" => Len(chunk) < ChunkSize)
  BY <1>3, <1>8, <1>9 DEF pc
<1>13. /\ e \in ExportRec /\ e.pc = pc /\ e.records = new /\ e.snapshot = S
       /\ e.total = export.total
  BY <1>2, <1>10, <1>12 DEF ExportRec
<1> HIDE DEF e, S, old
<1>14. \A k \in 1 .. Len(new) : new[k] \in S
  BY <1>2, <1>4, <1>9, <1>11
<1>15. InSequence(new)
  <2> SUFFICES ASSUME NEW j \in 1 .. Len(new), NEW k \in 1 .. Len(new), j < k
               PROVE  Precedes(new[j], new[k])
    BY DEF InSequence
  <2>0. Len(old) \in Nat /\ Len(chunk) \in Nat /\ Len(new) \in Nat /\ j \in Int /\ k \in Int
    BY <1>3, <1>9, <1>10
  <2>1. CASE k \in 1 .. Len(old)
    <3>1. j \in 1 .. Len(old)
      BY <2>0, <2>1
    <3> QED BY <1>2, <1>11, <2>1, <3>1 DEF InSequence
  <2>2. CASE k \notin 1 .. Len(old) /\ j \in 1 .. Len(old)
    <3>1. new[k] \in A /\ new[k] \in S
      BY <1>4, <1>9, <1>11, <2>2
    <3>2. old # <<>>
      BY <2>2, EmptySeq, <2>0
    <3>3. Precedes(Last(old), new[k])
      BY <1>7, <3>1, <3>2
    <3>4. Len(old) \in 1 .. Len(old) /\ (j = Len(old) \/ j < Len(old))
      BY <2>0, <2>2
    <3>5. old[j] = Last(old) \/ Precedes(old[j], Last(old))
      BY <1>2, <1>6, <2>2, <3>2, <3>4 DEF InSequence
    <3>6. old[j] \in Stamped /\ Last(old) \in Stamped /\ new[k] \in Stamped
      BY <1>2, <1>6, <2>2, <3>1, <3>2
    <3>7. Precedes(old[j], new[k])
      BY <3>3, <3>5, <3>6, OneComesFirst
    <3> QED BY <1>11, <2>2, <3>7
  <2>3. CASE k \notin 1 .. Len(old) /\ j \notin 1 .. Len(old)
    <3> DEFINE p == j - Len(old)
               q == k - Len(old)
    <3>1. p \in 1 .. Len(chunk) /\ q \in 1 .. Len(chunk) /\ new[j] = chunk[p] /\ new[k] = chunk[q]
      BY <1>11, <2>3
    <3>2. p - 1 < q - 1
      BY <2>0
    <3> HIDE DEF p, q
    <3>3. Place(A, chunk[p]) < Place(A, chunk[q]) /\ chunk[p] \in A /\ chunk[q] \in A
      BY <1>8, <1>9, <3>1, <3>2
    <3> QED BY <1>5, <3>1, <3>3, PlacesTell
  <2> QED BY <2>1, <2>2, <2>3
<1>16. \A r \in Jumped : r \in Jumped'
  <2> SUFFICES ASSUME NEW r \in Jumped PROVE r \in Jumped'
    OBVIOUS
  <2>1. DOMAIN old = 1 .. Len(old) /\ DOMAIN new = 1 .. Len(new)
    BY <1>2, <1>10, LenProperties
  <2>2. r \in S /\ \E k \in 1 .. Len(old) : /\ \E n \in 1 .. k : k = n * ChunkSize
                                            /\ Precedes(old[k], r) /\ ToDate(old[k].at) = ToDate(r.at)
    BY <2>1 DEF Jumped, S, old
  <2>3. \E k \in DOMAIN new : /\ \E n \in 1 .. k : k = n * ChunkSize
                              /\ Precedes(new[k], r) /\ ToDate(new[k].at) = ToDate(r.at)
    BY <1>11, <2>1, <2>2
  <2>4. r \in S /\ export'.snapshot = S /\ export'.records = new
    BY <1>1, <1>13, <2>2
  <2> QED BY <2>3, <2>4 DEF Jumped
<1>17. ASSUME NEW r \in S
       PROVE  \/ Given(r)' \/ r \in Jumped'
              \/ (Len(chunk) = ChunkSize /\ new # <<>> /\ Precedes(Last(new), r))
  <2>1. CASE Given(r)
    <3>1. \E k \in 1 .. Len(new) : new[k] = r
      BY <1>11, <2>1 DEF Given, old
    <3> QED BY <1>1, <1>13, <3>1 DEF Given
  <2>2. CASE r \in Jumped
    BY <1>16, <2>2
  <2>3. CASE r \in A
    <3>0. Place(A, r) \in Nat /\ Place(A, r) < Cardinality(A) /\ Cardinality(A) \in Nat
      BY <1>5, <2>3, PlacesOrder, FS_CardinalityType
    <3>1. CASE Place(A, r) < ChunkSize
      <4>1. \E k \in 1 .. Len(new) : new[k] = r
        BY <1>8, <1>11, <2>3, <3>1
      <4> QED BY <1>1, <1>13, <4>1 DEF Given
    <3>2. CASE ~(Place(A, r) < ChunkSize)
      <4>1. Len(chunk) = ChunkSize
        BY <1>3, <1>8, <1>9, <3>0, <3>2
      <4>2. ChunkSize \in 1 .. Len(chunk) /\ ChunkSize - 1 < Place(A, r)
        BY <1>3, <3>0, <3>2, <4>1
      <4>3. chunk[ChunkSize] \in A /\ Place(A, chunk[ChunkSize]) < Place(A, r)
        BY <1>8, <1>9, <4>2
      <4>4. Precedes(chunk[ChunkSize], r)
        BY <1>5, <2>3, <4>3, PlacesTell
      <4>5. Len(new) = Len(old) + ChunkSize /\ Len(new) >= 1
        BY <1>3, <1>10, <4>1
      <4>6. new[Len(new)] = chunk[ChunkSize]
        BY <1>11, <4>2, <4>5
      <4>7. new # <<>> /\ Last(new) = chunk[ChunkSize]
        BY <4>5, <4>6, EmptySeq DEF Last
      <4> QED BY <4>1, <4>4, <4>7
    <3> QED BY <3>1, <3>2
  <2>4. CASE ~Given(r) /\ r \notin Jumped /\ r \notin A
    <3>1. old # <<>> /\ Precedes(Last(old), r)
      BY <1>2, <1>7, <2>4 DEF ReadSoFar, S, old
    <3>2. ToDate(Last(old).at) = ToDate(r.at)
      BY <1>7, <2>4, <3>1
    <3>3. PICK n \in Nat : Len(old) = n * ChunkSize
      BY <1>2 DEF ReadSoFar, old
    <3>4. n \in 1 .. Len(old) /\ Len(old) \in 1 .. Len(old) /\ Last(old) = old[Len(old)]
      <4>1. Len(old) >= 1 /\ Last(old) = old[Len(old)]
        BY <1>6, <3>1
      <4>2. n \in 1 .. Len(old)
        BY <1>3, <3>3, <4>1, Multiples
      <4> QED BY <1>3, <4>1, <4>2
    <3>5. DOMAIN old = 1 .. Len(old)
      BY <1>2, LenProperties
    <3>6. r \in Jumped
      BY <3>1, <3>2, <3>3, <3>4, <3>5 DEF Jumped, S, old
    <3> QED BY <2>4, <3>6
  <2> QED BY <2>1, <2>2, <2>3, <2>4
<1>18. pc = "reading" => ReadSoFar'
  <2> SUFFICES ASSUME pc = "reading" PROVE ReadSoFar'
    OBVIOUS
  <2>1. PICK n \in Nat : Len(old) = n * ChunkSize
    BY <1>2 DEF ReadSoFar, old
  <2>2. Len(new) = (n + 1) * ChunkSize /\ n + 1 \in Nat
    BY <1>3, <1>10, <1>12, <2>1, Multiples
  <2>3. export'.records = new /\ export'.snapshot = S
    BY <1>1, <1>13
  <2>4. \A r \in S : Given(r)' \/ r \in Jumped' \/ new = <<>> \/ Precedes(Last(new), r)
    BY <1>17
  <2> QED BY <2>2, <2>3, <2>4 DEF ReadSoFar
<1>19. pc = "read" => \A r \in S : Given(r)' \/ r \in Jumped'
  BY <1>3, <1>9, <1>12, <1>17
<1>20. ExportOk'
  <2>1. /\ export' \in ExportRec /\ export'.pc = pc /\ export'.records = new /\ export'.snapshot = S
        /\ export'.total = export.total /\ trailRows' = trailRows
    BY <1>1, <1>13
  <2>2. export.total = Cardinality(S) /\ export.total <= ExportMax
    BY <1>1, <1>2 DEF ExportOk, Counted, S
  <2> QED BY <1>2, <1>12, <1>14, <1>15, <1>18, <1>19, <2>1, <2>2 DEF ExportOk, Counted, Complete, Exported
<1> QED BY <1>1, <1>12, <1>13, <1>20, ExportMoves

LEMMA ExportRecords ==
    ASSUME TrailIInv, NEW i \in AuditId \ UsedIds, RecordExport(i)
    PROVE  TrailIInv'
<1> DEFINE own == [at |-> export.at, id |-> i]
           e == [export EXCEPT !.pc = "recorded", !.own = own]
<1>1. export' = e /\ UNCHANGED <<instant, trailRows, writing, pager>> /\ export.pc = "read"
  BY DEF RecordExport
<1>2. export \in ExportRec /\ export.snapshot \subseteq trailRows /\ ExportOk
  BY DEF TrailIInv, ExportOk
<1>3. own \in AuditRow /\ own \in Stamped /\ own.id = i
  BY <1>2, AuditRows DEF ExportRec, AuditRow
<1>4. own \notin export.snapshot
  <2>1. \A r \in trailRows : r \in Recorded
    BY DEF Recorded
  <2> QED BY <1>2, <1>3, <2>1, IdsUsed
<1> HIDE DEF own
<1>5. /\ e \in ExportRec /\ e.pc = "recorded" /\ e.own = own /\ e.snapshot = export.snapshot
      /\ e.records = export.records /\ e.total = export.total
  BY <1>2, <1>3 DEF ExportRec
<1> HIDE DEF e
<1>6. \A r \in export.snapshot : Given(r)' \/ r \in Jumped'
  <2>1. \A r \in export.snapshot : Given(r) \/ r \in Jumped
    BY <1>1, <1>2 DEF ExportOk, Complete
  <2>2. Jumped' = Jumped /\ \A r : Given(r)' <=> Given(r)
    BY <1>1, <1>5 DEF Jumped, Given
  <2> QED BY <2>1, <2>2
<1>7. ExportOk'
  BY <1>1, <1>2, <1>3, <1>4, <1>5, <1>6 DEF ExportOk, Counted, Complete, Exported, InSequence
<1> QED BY <1>1, <1>3, <1>5, <1>7, ExportMoves

LEMMA ExportEnds == TrailIInv /\ (CommitExport \/ FailExport) => TrailIInv'
<1>1. ASSUME TrailIInv, FailExport PROVE TrailIInv'
  <2> DEFINE e == [export EXCEPT !.pc = "failed"]
  <2>1. export' = e /\ UNCHANGED <<instant, trailRows, writing, pager>>
    BY <1>1 DEF FailExport
  <2>2. ExportOk /\ export \in ExportRec
    BY <1>1 DEF TrailIInv, ExportOk
  <2>3. /\ e \in ExportRec /\ e.pc = "failed" /\ e.snapshot = export.snapshot /\ e.records = export.records
    BY <2>2 DEF ExportRec
  <2> HIDE DEF e
  <2>4. ExportOk'
    BY <2>1, <2>2, <2>3 DEF ExportOk, Counted, Complete, Exported, InSequence
  <2> QED BY <1>1, <2>1, <2>3, <2>4, ExportMoves
<1>2. ASSUME TrailIInv, CommitExport PROVE TrailIInv'
  <2> DEFINE e == [export EXCEPT !.pc = "answered"]
  <2>1. /\ export' = e /\ UNCHANGED <<instant, writing, pager>> /\ export.pc = "recorded"
        /\ trailRows' = trailRows \union {export.own}
    BY <1>2 DEF CommitExport
  <2>2. ExportOk /\ export \in ExportRec /\ export.own \in AuditRow
    BY <1>2, <2>1 DEF TrailIInv, ExportOk, Exported
  <2>3. /\ e \in ExportRec /\ e.pc = "answered" /\ e.snapshot = export.snapshot /\ e.records = export.records
        /\ e.total = export.total /\ e.own = export.own
    BY <2>2 DEF ExportRec
  <2> HIDE DEF e
  <2>4. Jumped' = Jumped /\ \A r : Given(r)' <=> Given(r)
    BY <2>1, <2>3 DEF Jumped, Given
  <2>5. ExportOk'
    BY <2>1, <2>2, <2>3, <2>4 DEF ExportOk, Counted, Complete, Exported, InSequence
  <2>6. TrailTyped'
    <3>1. TrailTyped
      BY <1>2 DEF TrailIInv
    <3>2. IsFiniteSet(trailRows')
      BY <2>1, <3>1, FS_Union, FS_Singleton DEF TrailTyped
    <3> QED BY <2>1, <2>2, <3>1, <3>2 DEF TrailTyped
  <2>7. OneIdEach'
    <3>1. Recorded' \subseteq Recorded
      BY <2>1, <2>3 DEF Recorded, Rows
    <3> QED BY <1>2, <3>1, IdsStay DEF TrailIInv
  <2> QED BY <1>2, <2>1, <2>5, <2>6, <2>7, PagesStay DEF TrailIInv
<1> QED BY <1>1, <1>2

-----------------------------------------------------------------------------
(* The pages.                                                                *)
LEMMA PagerMoves ==
    ASSUME TrailIInv, UNCHANGED <<instant, trailRows, writing, export>>, PagerOk'
    PROVE  TrailIInv'
<1>1. TrailTyped'
  BY DEF TrailIInv, TrailTyped
<1>2. OneIdEach'
  BY DEF TrailIInv, OneIdEach, Recorded, Rows
<1> QED BY <1>1, <1>2, ExportStays DEF TrailIInv

LEMMA ScreenOpens ==
    ASSUME TrailIInv, NEW filter \in Filters, OpenScreen(filter)
    PROVE  TrailIInv'
<1> DEFINE S == Matching(trailRows, filter)
           p == [NoPager EXCEPT !.pc = "asking", !.filter = filter, !.page = 1, !.first = S]
<1>1. pager' = p /\ UNCHANGED <<instant, trailRows, writing, export>>
  BY DEF OpenScreen
<1>2. IsFiniteSet(S) /\ S \subseteq AuditRow /\ S \subseteq Stamped
  BY LaterRows, AuditRows DEF TrailIInv
<1>3. NoPager \in PagerRec
  BY EmptySeq DEF NoPager, PagerRec, NoFilter, FilterRec
<1>4. ToBeSeen' = Matching(trailRows, p.filter)
  BY <1>1 DEF ToBeSeen
<1> HIDE DEF S
<1>5. p \in PagerRec /\ p.pc = "asking" /\ p.filter = filter /\ p.page = 1 /\ p.first = S
  <2>1. filter \in FilterRec
    BY AuditAssumption DEF FilterRec
  <2> QED BY <1>2, <1>3, <2>1 DEF PagerRec
<1> HIDE DEF p
<1>6. ToBeSeen' = S
  BY <1>4, <1>5 DEF S
<1>7. (1 - 1) * PageSize = 0
  BY AuditRows
<1>8. \A r \in S : ~(Place(S, r) < 0)
  BY <1>2, PlacesOrder
<1>9. SeenUpTo(0)'
  BY <1>1, <1>5, <1>6, <1>8 DEF SeenUpTo
<1>10. PagerOk'
  BY <1>1, <1>5, <1>6, <1>7, <1>9 DEF PagerOk
<1> QED BY <1>1, <1>10, PagerMoves

LEMMA PageReads == TrailIInv /\ ReadPage => TrailIInv'
<1> SUFFICES ASSUME TrailIInv, ReadPage PROVE TrailIInv'
  OBVIOUS
<1> DEFINE S == ToBeSeen
           o == (pager.page - 1) * PageSize
           data == InOrder(S, o, PageSize)
           p == [pager EXCEPT !.pc = "rows", !.data = data, !.seen = @ \union ToSet(data)]
<1>1. pager' = p /\ UNCHANGED <<instant, trailRows, writing, export>> /\ pager.pc = "asking"
  BY DEF ReadPage, ToBeSeen
<1>2. PagerOk /\ pager \in PagerRec /\ pager.page \in Nat /\ pager.page >= 1
  BY <1>1 DEF TrailIInv, PagerOk, PagerRec
<1>3. IsFiniteSet(S) /\ S \subseteq AuditRow /\ S \subseteq Stamped
  BY LaterRows, AuditRows DEF TrailIInv, ToBeSeen
<1>4. PageSize \in Nat /\ PageSize >= 1 /\ o \in Nat /\ o + PageSize = pager.page * PageSize
  BY <1>2, AuditRows, Multiples
<1> HIDE DEF S, o
<1>5. /\ data \in Seq(S) /\ Len(data) <= PageSize
      /\ Len(data) > 0 => o + Len(data) <= Cardinality(S)
      /\ \A r \in S : o <= Place(S, r) /\ Place(S, r) < o + PageSize =>
            \E k \in 1 .. Len(data) : data[k] = r
  BY <1>3, <1>4, Handed
<1> HIDE DEF data
<1>6. /\ Len(data) \in Nat /\ data \in Seq(AuditRow)
      /\ ToSet(data) = {data[k] : k \in 1 .. Len(data)} /\ ToSet(data) \subseteq AuditRow
  <2>1. data \in [1 .. Len(data) -> S] /\ Len(data) \in Nat /\ DOMAIN data = 1 .. Len(data)
    BY <1>5, LenProperties
  <2>2. data \in [1 .. Len(data) -> AuditRow]
    BY <1>3, <2>1
  <2>3. ToSet(data) = {data[k] : k \in 1 .. Len(data)}
    BY <2>1 DEF ToSet
  <2> QED BY <2>1, <2>2, <2>3, IsASeq
<1> DEFINE T == ToSet(data)
<1>7. \A r \in S : o <= Place(S, r) /\ Place(S, r) < o + PageSize => r \in T
  BY <1>5, <1>6
<1>8. T \subseteq AuditRow
  BY <1>6
<1> HIDE DEF T
<1>9. /\ p \in PagerRec /\ p.pc = "rows" /\ p.page = pager.page /\ p.first = pager.first
      /\ p.filter = pager.filter /\ p.data = data /\ p.seen = pager.seen \union T
  <2>1. p = [pager EXCEPT !.pc = "rows", !.data = data, !.seen = @ \union T]
    BY DEF T
  <2> HIDE DEF p
  <2> QED BY <1>2, <1>6, <1>8, <2>1 DEF PagerRec
<1> HIDE DEF p
<1>10. ToBeSeen' = S
  BY <1>1, <1>9 DEF ToBeSeen, S
<1>11. SeenUpTo(o) /\ pager.first \subseteq S
  BY <1>1, <1>2 DEF PagerOk, S, o
<1>12. SeenUpTo(pager.page * PageSize)'
  <2>1. ASSUME NEW r \in pager.first, Place(S, r) < o + PageSize
        PROVE  r \in pager.seen \/ r \in T
    <3>1. Place(S, r) \in Nat
      BY <1>3, <1>11, PlacesOrder
    <3>2. CASE Place(S, r) < o
      BY <1>11, <3>2 DEF SeenUpTo, S
    <3>3. CASE ~(Place(S, r) < o)
      BY <1>4, <1>7, <1>11, <2>1, <3>1, <3>3
    <3> QED BY <3>2, <3>3
  <2>2. \A r \in pager'.first : Place(ToBeSeen', r) < o + PageSize => r \in pager'.seen
    BY <1>1, <1>9, <1>10, <2>1
  <2>3. (pager.page * PageSize)' = o + PageSize
    BY <1>1, <1>4, <1>9
  <2>4. \A r \in pager'.first : Place(ToBeSeen', r) < (pager.page * PageSize)' => r \in pager'.seen
    BY <2>2, <2>3
  <2> QED BY <2>4 DEF SeenUpTo
<1>13. DataWithin(Cardinality(ToBeSeen))'
  <2>1. data # <<>> => Cardinality(S) >= o + Len(data)
    <3>1. data # <<>> => Len(data) > 0
      BY <1>6, EmptySeq
    <3>2. Cardinality(S) \in Nat
      BY <1>3, FS_CardinalityType
    <3> QED BY <1>4, <1>5, <1>6, <3>1, <3>2
  <2>2. pager'.data = data /\ ((pager.page - 1) * PageSize)' = o /\ Cardinality(ToBeSeen)' = Cardinality(S)
    BY <1>1, <1>9, <1>10 DEF o
  <2>3. pager'.data # <<>> => Cardinality(ToBeSeen)' >= ((pager.page - 1) * PageSize)' + Len(pager'.data)
    BY <2>1, <2>2
  <2> QED BY <2>3 DEF DataWithin
<1>14. PagerOk'
  BY <1>1, <1>2, <1>9, <1>10, <1>11, <1>12, <1>13 DEF PagerOk
<1> QED BY <1>1, <1>14, PagerMoves

LEMMA PageTotals == TrailIInv /\ ReadTotal => TrailIInv'
<1> SUFFICES ASSUME TrailIInv, ReadTotal PROVE TrailIInv'
  OBVIOUS
<1> DEFINE S == ToBeSeen
           total == Cardinality(S)
           p == [pager EXCEPT !.pc = "shown", !.total = total]
<1>1. pager' = p /\ UNCHANGED <<instant, trailRows, writing, export>> /\ pager.pc = "rows"
  BY DEF ReadTotal, ToBeSeen
<1>2. /\ PagerOk /\ pager \in PagerRec /\ pager.page \in Nat /\ pager.page >= 1 /\ pager.first \subseteq S
      /\ SeenUpTo(pager.page * PageSize) /\ DataWithin(total)
  BY <1>1 DEF TrailIInv, PagerOk, PagerRec
<1>3. IsFiniteSet(S) /\ S \subseteq AuditRow /\ S \subseteq Stamped
  BY LaterRows, AuditRows DEF TrailIInv, ToBeSeen
<1>4. total \in Nat /\ PageSize \in Nat
  BY <1>3, FS_CardinalityType, AuditRows
<1> HIDE DEF total
<1>5. /\ p \in PagerRec /\ p.pc = "shown" /\ p.page = pager.page /\ p.first = pager.first /\ p.total = total
      /\ p.filter = pager.filter /\ p.data = pager.data /\ p.seen = pager.seen
  BY <1>2, <1>4 DEF PagerRec
<1> HIDE DEF p
<1>6. ToBeSeen' = S
  BY <1>1, <1>5 DEF ToBeSeen
<1>7. SeenUpTo(pager.page * PageSize)'
  BY <1>1, <1>2, <1>5, <1>6 DEF SeenUpTo
<1>8. DataWithin(Cardinality(ToBeSeen))' /\ DataWithin(pager.total)'
  BY <1>1, <1>2, <1>5, <1>6 DEF DataWithin, total
<1>9. ~HasNextPage' => pager'.first \subseteq pager'.seen
  <2> SUFFICES ASSUME ~HasNextPage', NEW r \in pager.first PROVE r \in pager.seen
    BY <1>1, <1>5
  <2>1. ~(pager.page * PageSize < total)
    BY <1>1, <1>5 DEF HasNextPage
  <2>2. Place(S, r) \in Nat /\ Place(S, r) < total
    BY <1>2, <1>3, PlacesOrder DEF total
  <2>3. pager.page * PageSize \in Nat
    BY <1>2, <1>4
  <2>4. Place(S, r) < pager.page * PageSize
    BY <1>4, <2>1, <2>2, <2>3
  <2> QED BY <1>2, <2>4 DEF SeenUpTo
<1>10. PagerOk'
  BY <1>1, <1>2, <1>5, <1>6, <1>7, <1>8, <1>9 DEF PagerOk
<1> QED BY <1>1, <1>10, PagerMoves

LEMMA PageTurns == TrailIInv /\ TurnPage => TrailIInv'
<1> SUFFICES ASSUME TrailIInv, TurnPage PROVE TrailIInv'
  OBVIOUS
<1> DEFINE p == [pager EXCEPT !.pc = "asking", !.page = @ + 1]
<1>1. pager' = p /\ UNCHANGED <<instant, trailRows, writing, export>> /\ pager.pc = "shown"
  BY DEF TurnPage
<1>2. /\ PagerOk /\ pager \in PagerRec /\ pager.page \in Nat /\ pager.page >= 1 /\ pager.first \subseteq ToBeSeen
      /\ SeenUpTo(pager.page * PageSize)
  BY <1>1 DEF TrailIInv, PagerOk, PagerRec
<1>3. /\ p \in PagerRec /\ p.pc = "asking" /\ p.page = pager.page + 1 /\ p.first = pager.first
      /\ p.filter = pager.filter /\ p.seen = pager.seen
  <2> DEFINE next == pager.page + 1
  <2>1. p = [pager EXCEPT !.pc = "asking", !.page = next]
    BY <1>2
  <2>2. next \in Nat
    BY <1>2
  <2> HIDE DEF next, p
  <2>3. /\ p \in PagerRec /\ p.pc = "asking" /\ p.page = next /\ p.first = pager.first
        /\ p.filter = pager.filter /\ p.seen = pager.seen
    BY <1>2, <2>1, <2>2 DEF PagerRec
  <2> QED BY <2>3 DEF next
<1> HIDE DEF p
<1>4. ToBeSeen' = ToBeSeen
  BY <1>1, <1>3 DEF ToBeSeen
<1>5. pager'.page - 1 = pager.page /\ pager'.page >= 1
  BY <1>1, <1>2, <1>3
<1>6. SeenUpTo((pager.page - 1) * PageSize)'
  BY <1>1, <1>2, <1>3, <1>4, <1>5 DEF SeenUpTo
<1>7. PagerOk'
  BY <1>1, <1>2, <1>3, <1>4, <1>5, <1>6 DEF PagerOk
<1> QED BY <1>1, <1>7, PagerMoves

-----------------------------------------------------------------------------
(* In every state: what the inductive invariant says.                        *)
LEMMA TrailStep == TrailIInv /\ [AuditNext]_auditVars => TrailIInv'
<1> SUFFICES ASSUME TrailIInv, [AuditNext]_auditVars PROVE TrailIInv'
  OBVIOUS
<1>1. CASE UNCHANGED auditVars
  <2>1. UNCHANGED <<instant, trailRows, writing, export, pager>>
    BY <1>1 DEF auditVars
  <2>2. TrailTyped'
    BY <2>1 DEF TrailIInv, TrailTyped
  <2>3. OneIdEach'
    BY <2>1 DEF TrailIInv, OneIdEach, Recorded, Rows
  <2> QED BY <2>1, <2>2, <2>3, ExportStays, PagesStay DEF TrailIInv
<1>2. CASE AuditTick
  BY <1>2, ClockSteps
<1>3. CASE \E c \in Clerk : ClerkStep(c)
  BY <1>3, WriterSteps
<1>4. CASE ExportStep
  BY <1>4, ExportBegins, ExportCounts, ExportReads, ExportRecords, ExportEnds DEF ExportStep
<1>5. CASE PagerStep
  BY <1>5, ScreenOpens, PageReads, PageTotals, PageTurns DEF PagerStep
<1> QED BY <1>1, <1>2, <1>3, <1>4, <1>5 DEF AuditNext

(* In every state rows have ids of their own, what the export has handed out *)
(* is in order and lacks only what lies behind its last row or was jumped,   *)
(* and the person has seen the rows whose places are on the pages turned.    *)
THEOREM TrailInvariant == AuditSpec => []TrailIInv
<1> QED BY TrailInits, TrailStep, PTL DEF AuditSpec

(* An export has no row twice, so it has no more than were counted.          *)
LEMMA NoMoreThanCounted ==
    ASSUME NEW S, IsFiniteSet(S), S \subseteq Stamped, NEW records \in Seq(S), InSequence(records)
    PROVE  Len(records) <= Cardinality(S)
<1> DEFINE n == Len(records)
<1>1. n \in Nat /\ records \in [1 .. n -> S]
  BY LenProperties
<1>2. \A j, k \in 1 .. n : records[j] = records[k] => j = k
  <2> SUFFICES ASSUME NEW j \in 1 .. n, NEW k \in 1 .. n, records[j] = records[k], j # k PROVE FALSE
    OBVIOUS
  <2>1. j < k \/ k < j
    BY <1>1
  <2>2. Precedes(records[j], records[k]) \/ Precedes(records[k], records[j])
    BY <2>1 DEF InSequence
  <2>3. records[j] \in Stamped
    BY <1>1
  <2> QED BY <2>2, <2>3, OneComesFirst
<1>3. records \in Injection(1 .. n, S)
  BY <1>1, <1>2 DEF Injection, IsInjective
<1>4. Cardinality(1 .. n) = n
  BY <1>1, FS_Interval
<1> QED BY <1>3, <1>4, FS_Injection

(* The trail can be read, by file and by page: whatever commits meanwhile,   *)
(* an export is in order and one snapshot's, without what the cursor jumps,  *)
(* and whoever turns the pages to the end has seen what there was.           *)
THEOREM TrailIsReadable == AuditSpec => []TrailReadable
<1>1. TrailIInv => TrailReadable
  <2> SUFFICES ASSUME TrailIInv PROVE TrailReadable
    OBVIOUS
  <2>1. ExportOk /\ export \in ExportRec /\ PagerOk /\ IsFiniteSet(export.snapshot) /\ export.snapshot \subseteq Stamped
    <3>1. ExportOk /\ PagerOk /\ export \in ExportRec /\ export.snapshot \in SUBSET trailRows
          /\ IsFiniteSet(trailRows) /\ trailRows \subseteq AuditRow
      BY DEF TrailIInv, ExportOk, TrailTyped
    <3> QED BY <3>1, FS_Subset, AuditRows
  <2>2. /\ export.records \in Seq(AuditRow) /\ DOMAIN export.records = 1 .. Len(export.records)
        /\ Len(export.records) \in Nat
        /\ ToSet(export.records) = {export.records[k] : k \in 1 .. Len(export.records)}
    <3>1. export.records \in Seq(AuditRow)
      BY <2>1 DEF ExportRec
    <3>2. DOMAIN export.records = 1 .. Len(export.records) /\ Len(export.records) \in Nat
      BY <3>1, LenProperties
    <3> QED BY <3>1, <3>2 DEF ToSet
  <2>3. \A r : Given(r) => r \in ToSet(export.records)
    BY <2>2 DEF Given
  <2>4. ToSet(export.records) \subseteq export.snapshot
    BY <2>1, <2>2 DEF ExportOk
  <2>5. Len(export.records) <= Cardinality(export.snapshot)
    <3>1. export.records \in [1 .. Len(export.records) -> export.snapshot]
      <4>1. export.records \in [1 .. Len(export.records) -> AuditRow]
        BY <2>2, LenProperties
      <4> QED BY <2>1, <4>1 DEF ExportOk
    <3>2. export.records \in Seq(export.snapshot)
      BY <2>2, <3>1, IsASeq
    <3> QED BY <2>1, <3>2, NoMoreThanCounted DEF ExportOk
  <2>6. Exported =>
          /\ \A j, k \in DOMAIN export.records : j < k => Precedes(export.records[j], export.records[k])
          /\ export.snapshot \ ToSet(export.records) \subseteq Jumped
          /\ Len(export.records) <= export.total /\ export.total <= ExportMax
          /\ export.own \notin ToSet(export.records)
    <3> SUFFICES ASSUME Exported
                 PROVE  /\ \A j, k \in DOMAIN export.records : j < k => Precedes(export.records[j], export.records[k])
                        /\ export.snapshot \ ToSet(export.records) \subseteq Jumped
                        /\ Len(export.records) <= export.total /\ export.total <= ExportMax
                        /\ export.own \notin ToSet(export.records)
      OBVIOUS
    <3>1. export.pc \in Complete /\ export.pc \in Counted
      BY DEF Exported, Complete, Counted
    <3>2. \A r \in export.snapshot : r \in ToSet(export.records) \/ r \in Jumped
      BY <2>1, <2>3, <3>1 DEF ExportOk
    <3>3. Len(export.records) <= export.total /\ export.total <= ExportMax
      BY <2>1, <2>5, <3>1 DEF ExportOk
    <3>4. export.own \notin ToSet(export.records)
      BY <2>1, <2>4 DEF ExportOk
    <3>5. \A j, k \in DOMAIN export.records : j < k => Precedes(export.records[j], export.records[k])
      BY <2>1, <2>2 DEF ExportOk, InSequence
    <3> QED BY <3>2, <3>3, <3>4, <3>5
  <2>7. export.pc = "refused" => Cardinality(export.snapshot) > ExportMax
    BY <2>1 DEF ExportOk
  <2>8. PagesShowAll
    BY <2>1 DEF PagerOk, PagesShowAll, DataWithin
  <2> QED BY <2>4, <2>6, <2>7, <2>8 DEF TrailReadable, ExportIsExact
<1> QED BY <1>1, TrailInvariant, PTL

-----------------------------------------------------------------------------
(* Types.  The guard's: what it answers is an answer.                        *)
LEMMA AnAnswer ==
    ASSUME NEW grants, NEW route, NEW target, NEW at
    PROVE  Decide(grants, route, target, at).outcome \in {"allowed", "permission_denied", "scope_denied"}
<1>1. \A r, places : Allow(r, places).outcome = "allowed"
  BY DEF Allow
<1>2. \A how, r, places : Deny(how, r, places).outcome = how
  BY DEF Deny
<1>3. Untargeted(route, Held(route, grants)).outcome \in {"allowed", "scope_denied"}
  BY <1>1, <1>2 DEF Untargeted
<1>4. Targeted(grants, route, Held(route, grants), at).outcome \in {"allowed", "scope_denied"}
  BY <1>1, <1>2 DEF Targeted
<1>5. Unheld(route).outcome = "permission_denied"
  BY <1>2 DEF Unheld
<1>6. Decide(grants, route, target, at) \in
         {Unheld(route), Untargeted(route, Held(route, grants)),
          Targeted(grants, route, Held(route, grants), at), Allow(route, Held(route, grants))}
  BY DEF Decide
<1> QED BY <1>1, <1>3, <1>4, <1>5, <1>6

AuthTyped ==
    /\ kept.from \subseteq Role \X Node
    /\ ask.pc \in {"idle", "reading", "deciding", "decided"}
    /\ ask.decision.outcome \in {"none", "allowed", "permission_denied", "scope_denied"}
    /\ edits \in 0 .. MaxTreeEdits

LEMMA AuthTypesStart == AuthInit => AuthTyped
BY TreeEditsAssumption DEF AuthInit, AuthTyped, NoRequest, NoDecision

LEMMA AuthTypesStep == AuthIInv /\ AuthTyped /\ [AuthNext]_authVars => AuthTyped'
<1> SUFFICES ASSUME AuthIInv, AuthTyped, [AuthNext]_authVars PROVE AuthTyped'
  OBVIOUS
<1>1. bound \subseteq Role \X Node /\ AskRec(ask)
  BY DEF AuthIInv, Bindings, AskOk
<1>2. ASSUME Unsettled, edits < MaxTreeEdits, edits' = edits + 1, kept' = kept PROVE AuthTyped'
  <2>1. ask'.pc = ask.pc /\ ask'.decision = ask.decision
    BY <1>1, <1>2 DEF Unsettled, AskRec
  <2>2. edits' \in 0 .. MaxTreeEdits
    BY <1>2, TreeEditsAssumption DEF AuthTyped
  <2> QED BY <1>2, <2>1, <2>2 DEF AuthTyped
<1>3. ASSUME NEW n \in Node, NEW p \in Node, MoveSubtree(n, p) PROVE AuthTyped'
  BY <1>2, <1>3 DEF MoveSubtree
<1>4. ASSUME NEW r \in Role, NEW n \in Node, ChangeBinding(r, n) PROVE AuthTyped'
  BY <1>2, <1>4 DEF ChangeBinding
<1>5. CASE Keep
  BY <1>1, <1>5 DEF Keep, AuthTyped
<1>6. CASE Arrive
  <2>1. PICK route \in Routes, t \in Node \cup {Absent} :
           ask' = [ask EXCEPT !.pc = "reading", !.route = route,
                              !.target = IF route.scoped THEN t ELSE Absent]
    BY <1>6 DEF Arrive
  <2>2. ask'.pc = "reading" /\ ask'.decision = ask.decision
    BY <1>1, <2>1 DEF AskRec
  <2> QED BY <1>6, <2>2 DEF Arrive, AuthTyped
<1>7. ASSUME NEW from, NEW grants, NEW fresh, ReadBy(from, grants, fresh) PROVE AuthTyped'
  <2>1. ask' = [ask EXCEPT !.pc = "deciding", !.from = from, !.grants = grants, !.calm = fresh]
    BY <1>7 DEF ReadBy
  <2>2. ask'.pc = "deciding" /\ ask'.decision = ask.decision
    BY <1>1, <2>1 DEF AskRec
  <2> QED BY <1>7, <2>2 DEF ReadBy, AuthTyped
<1>8. CASE ReadGrants \/ ReadKept
  BY <1>7, <1>8 DEF ReadGrants, ReadKept
<1>9. CASE Conclude
  <2> DEFINE at == IF ask.target \in Node THEN authPath[ask.target] ELSE <<>>
             answer == Decide(ask.grants, ask.route, ask.target, at)
             up == IF at = <<>> THEN {} ELSE Ancestors(ask.target)
  <2>1. ask' = [ask EXCEPT !.pc = "decided", !.decision = answer, !.under = up]
    BY <1>9 DEF Conclude
  <2>2. answer.outcome \in {"allowed", "permission_denied", "scope_denied"}
    BY AnAnswer
  <2> HIDE DEF at, answer, up
  <2>3. ask'.pc = "decided" /\ ask'.decision = answer
    BY <1>1, <2>1 DEF AskRec
  <2> QED BY <1>9, <2>2, <2>3 DEF Conclude, AuthTyped
<1>10. CASE UNCHANGED authVars
  BY <1>10 DEF authVars, AuthTyped
<1> QED BY <1>3, <1>4, <1>5, <1>6, <1>8, <1>9, <1>10 DEF AuthNext

LEMMA TypedAuth == AuthIInv /\ AuthTyped => AuthTypeOK
BY DEF AuthIInv, AuthTyped, AuthTypeOK, TreeRows, Bindings

(* A role's.                                                                 *)
LEMMA TypedRole == RoleIInv => EditTypeOK
BY DEF RoleIInv, EditsTyped, EditRec, Perms, GoneApart, EditTypeOK, Writing

(* The trail's.                                                              *)
LEMMA TypedTrail == TrailIInv => AuditTypeOK
<1> SUFFICES ASSUME TrailIInv PROVE AuditTypeOK
  OBVIOUS
<1>1. \A r, s \in trailRows : r.id = s.id => r = s
  BY DEF TrailIInv, OneIdEach, Recorded
<1>2. export.pc \in {"none", "open", "reading", "read", "recorded", "answered", "refused", "failed"}
  BY DEF TrailIInv, ExportOk, ExportRec
<1>3. pager.pc \in {"none", "asking", "rows", "shown"}
  BY DEF TrailIInv, PagerOk, PagerRec
<1> QED BY <1>1, <1>2, <1>3 DEF TrailIInv, TrailTyped, WriterRec, AuditTypeOK

(* The registry's: no cell has two writers.                                  *)
RegKinds ==
    /\ \A u, v \in Upload : u # v => DOMAIN written[u] \cap DOMAIN written[v] = {}
    /\ regOvertaken \subseteq Upload
    /\ commits \in 0 .. MaxCommits
    /\ lastBump \in BOOLEAN

LEMMA RegTypesStart == RegInit => RegKinds
<1> SUFFICES ASSUME RegInit PROVE RegKinds
  OBVIOUS
<1>1. \A u \in Upload : DOMAIN written[u] = {}
  BY NothingWritten DEF RegInit
<1>2. commits = 0 /\ regOvertaken = {} /\ lastBump = FALSE
  BY DEF RegInit
<1>3. commits \in 0 .. MaxCommits
  BY <1>2, MaxCommitsAssumption
<1>4. \A u, v \in Upload : u # v => DOMAIN written[u] \cap DOMAIN written[v] = {}
  BY <1>1
<1> QED BY <1>2, <1>3, <1>4 DEF RegKinds

LEMMA RegTypesStep == RegIInv /\ RegKinds /\ [RegNext]_regVars => RegKinds'
<1> SUFFICES ASSUME RegIInv, RegKinds, [RegNext]_regVars PROVE RegKinds'
  OBVIOUS
<1>1. written \in [Upload -> CellMaps] /\ request \in [Upload -> RequestRec]
  BY DEF RegIInv, RegTyped
<1>2. ASSUME written' = written, regOvertaken' \subseteq Upload, commits' = commits, lastBump' = lastBump
      PROVE  RegKinds'
  BY <1>2 DEF RegKinds
<1>3. ASSUME NEW u \in Upload, written' = [written EXCEPT ![u] = <<>>], regOvertaken' \subseteq Upload,
             commits' \in 0 .. MaxCommits, lastBump' \in BOOLEAN
      PROVE  RegKinds'
  <2>1. DOMAIN written'[u] = {} /\ \A v \in Upload \ {u} : written'[v] = written[v]
    BY <1>1, <1>3, NothingWritten
  <2> QED BY <1>3, <2>1 DEF RegKinds
<1>4. ASSUME NEW u \in Upload, RegStep(u) PROVE RegKinds'
  <2>1. CASE \E m \in Manifests : BeginUpload(u, m)
    BY <1>2, <2>1 DEF BeginUpload, RegKinds
  <2>2. CASE BeginEdit(u)
    BY <1>2, <2>2 DEF BeginEdit, RegKinds
  <2>3. CASE ReadNav(u)
    BY <1>2, <2>3 DEF ReadNav, RegKinds
  <2>4. CASE ReadGates(u)
    BY <1>2, <2>4 DEF ReadGates, RegKinds
  <2>5. CASE Rollback(u)
    BY <1>3, <2>5 DEF Rollback, RegKinds
  <2>6. ASSUME NEW s, Write(u, s) PROVE RegKinds'
    <3> DEFINE e == Effect(u, s)
               w == Over(e, written[u])
    <3>1. /\ written' = [written EXCEPT ![u] = w] /\ Blockers(u, s) = {}
          /\ UNCHANGED <<regOvertaken, commits, lastBump>>
      BY <2>6 DEF Write
    <3>2. DOMAIN e \subseteq Touched(u, s)
      BY DEF Effect
    <3>3. DOMAIN w = DOMAIN e \union DOMAIN written[u]
      BY DEF Over
    <3>4. \A v \in Upload \ {u} : DOMAIN written[v] \cap Touched(u, s) = {}
      BY <3>1 DEF Blockers
    <3> HIDE DEF e, w
    <3>5. written'[u] = w /\ \A v \in Upload \ {u} : written'[v] = written[v]
      BY <1>1, <3>1
    <3>6. \A v \in Upload \ {u} : DOMAIN written'[v] \cap DOMAIN written'[u] = {}
      BY <3>2, <3>3, <3>4, <3>5 DEF RegKinds
    <3>7. ASSUME NEW x \in Upload, NEW y \in Upload, x # y
          PROVE  DOMAIN written'[x] \cap DOMAIN written'[y] = {}
      <4>1. CASE x = u
        BY <3>6, <3>7, <4>1
      <4>2. CASE y = u
        BY <3>6, <3>7, <4>2
      <4>3. CASE x # u /\ y # u
        BY <3>5, <3>7, <4>3 DEF RegKinds
      <4> QED BY <4>1, <4>2, <4>3
    <3> QED BY <3>1, <3>7 DEF RegKinds
  <2>7. CASE CommitChange(u)
    <3> DEFINE changes == DOMAIN written[u] # {}
    <3>1. /\ changes => commits < MaxCommits
          /\ regOvertaken' = IF changes THEN {v \in Upload : v # u /\ request[v].pc # "idle"} \cup regOvertaken
                             ELSE regOvertaken
          /\ commits' = IF changes THEN commits + 1 ELSE commits
          /\ lastBump' = request[u].bump
          /\ written' = [written EXCEPT ![u] = <<>>]
      BY <2>7 DEF CommitChange
    <3> HIDE DEF changes
    <3>2. commits' \in 0 .. MaxCommits
      BY <3>1, MaxCommitsAssumption DEF RegKinds
    <3>3. lastBump' \in BOOLEAN /\ regOvertaken' \subseteq Upload
      BY <1>1, <3>1 DEF RegKinds, RequestRec
    <3> QED BY <1>3, <3>1, <3>2, <3>3
  <2> QED BY <1>4, <2>1, <2>2, <2>3, <2>4, <2>5, <2>6, <2>7
          DEF RegStep, Conflict, DeadlockDetected, Fail
<1>5. CASE UNCHANGED regVars
  BY <1>2, <1>5 DEF regVars, RegKinds
<1> QED BY <1>4, <1>5 DEF RegNext

LEMMA TypedReg == RegIInv /\ RegKinds => RegTypeOK
<1> SUFFICES ASSUME RegIInv, RegKinds PROVE RegTypeOK
  OBVIOUS
<1>1. IsCatalog(catalog) /\ written \in [Upload -> CellMaps] /\ request \in [Upload -> RequestRec]
      /\ inForce \subseteq Manifests
  BY DEF RegIInv, RegTyped
<1>2. DOMAIN catalog = Cell /\ \A x \in Cell : catalog[x] \in Values(x)
  BY <1>1 DEF IsCatalog, Sorted
<1>3. /\ \A x \in PermCell : x \in Cell /\ x[1] = "perm"
      /\ \A x \in NavCell : x \in Cell /\ x[1] = "nav"
      /\ \A x \in GateCell : x \in Cell /\ x[1] = "gate"
  BY DEF Cell, PermCell, NavCell, GateCell
<1>4. /\ \A x \in PermCell : catalog[x] \in RowStates
      /\ \A x \in NavCell : catalog[x] \in NavRow
      /\ \A x \in GateCell : catalog[x] \in BOOLEAN
  BY <1>2, <1>3 DEF Values
<1>5. \A u \in Upload : request[u].pc \in Pcs /\ DOMAIN written[u] \subseteq Cell
  <2> TAKE u \in Upload
  <2>1. written[u] \in CellMaps
    BY <1>1
  <2>2. DOMAIN written[u] \subseteq Cell
    BY <2>1 DEF CellMaps
  <2> QED BY <1>1, <2>2 DEF RequestRec
<1> QED BY <1>1, <1>2, <1>4, <1>5 DEF RegTypeOK, RegKinds

(* The roster's: nobody has two addresses.                                   *)
OneAddress ==
    \A a, b \in Address : person[a] = person[b] => a = b \/ person[a] = NoOne
RowsToCome == \A u \in StaffUpload : sheet[u].left \subseteq 1 .. MaxRows

LEMMA RosterTypesStart == RosterInit => OneAddress /\ RowsToCome
BY DEF RosterInit, OneAddress, RowsToCome, NewSheet

LEMMA RowsStep ==
    ASSUME RosterIInv, RowsToCome, [RosterNext]_rosterVars
    PROVE  RowsToCome'
<1>1. sheet \in [StaffUpload -> SheetRec]
  BY DEF RosterIInv, RosterTyped
<1>2. ASSUME NEW u \in StaffUpload, NEW new, sheet' = [sheet EXCEPT ![u] = new], new.left \subseteq 1 .. MaxRows
      PROVE  RowsToCome'
  BY <1>1, <1>2 DEF RowsToCome
<1>3. ASSUME NEW u \in StaffUpload, NEW file \in Files, ReadSheet(u, file) PROVE RowsToCome'
  <2>1. Insertable(file) \subseteq 1 .. MaxRows
    BY RowsOfAList
  <2> QED BY <1>2, <1>3, <2>1 DEF ReadSheet
<1>4. ASSUME NEW u \in StaffUpload, InsertRow(u) PROVE RowsToCome'
  <2>1. PICK made : sheet' = [sheet EXCEPT ![u].left = @ \ {NextRow(u)}, ![u].made = made]
    BY <1>4 DEF InsertRow
  <2>2. /\ \A x \in StaffUpload \ {u} : sheet'[x] = sheet[x]
        /\ sheet'[u].left = sheet[u].left \ {NextRow(u)}
    BY <1>1, <2>1 DEF SheetRec
  <2> QED BY <2>2 DEF RowsToCome
<1>5. ASSUME NEW u \in StaffUpload, CommitUpload(u) PROVE RowsToCome'
  <2>1. PICK report : sheet' = [sheet EXCEPT ![u].pc = "done", ![u].report = report]
    BY <1>5 DEF CommitUpload
  <2>2. /\ \A x \in StaffUpload \ {u} : sheet'[x] = sheet[x]
        /\ sheet'[u].left = sheet[u].left
    BY <1>1, <2>1 DEF SheetRec
  <2> QED BY <2>2 DEF RowsToCome
<1>6. ASSUME sheet' = sheet PROVE RowsToCome'
  BY <1>6 DEF RowsToCome
<1>7. ASSUME NEW r \in Requests, Deadlocked(r) PROVE RowsToCome'
  BY <1>2, <1>6, <1>7 DEF Deadlocked, NewSheet
<1> QED
  BY <1>3, <1>4, <1>5, <1>6, <1>7
  DEF RosterNext, CommitUser, AddUser, CommitCorrection, CorrectAddress, InsertOne, rosterVars

LEMMA OneAddressStep ==
    ASSUME RosterIInv, OneAddress, [RosterNext]_rosterVars
    PROVE  OneAddress'
<1>1. RosterTyped /\ Kept
  BY DEF RosterIInv
<1>2. ASSUME person' = person PROVE OneAddress'
  BY <1>2 DEF OneAddress
<1>3. \A a \in Address : person[a] # NoOne => person[a] \in Everybody
  BY <1>1 DEF Kept, Everybody
<1>4. ASSUME NEW u \in StaffUpload, CommitUpload(u) PROVE OneAddress'
  <2> DEFINE made == sheet[u].made
             New(a) == IdOf(u, RowFor(u, a))
  <2>1. Under(u)
    BY <1>4 DEF CommitUpload, RosterIInv, SheetOk
  <2>2. person' = [a \in Address |-> IF a \in made THEN New(a) ELSE person[a]]
    BY <1>4 DEF CommitUpload
  <2>3. \A a \in made : sheet[u].file[RowFor(u, a)] = a
    <3>1. \A a \in made : \E k \in Insertable(sheet[u].file) : sheet[u].file[k] = a
      BY <2>1 DEF Under, RowsDone
    <3> QED BY <3>1 DEF RowFor
  <2>4. \A a, b \in made : New(a) = New(b) => a = b
    BY <2>3, IdsApart
  <2>5. \A a \in Address : \A b \in made : person[a] = New(b) => person[a] = NoOne
    <3> SUFFICES ASSUME NEW a \in Address, NEW b \in made, person[a] = New(b), person[a] # NoOne PROVE FALSE
      OBVIOUS
    <3>1. person[a] \in Everybody /\ person[a][1] = u
      BY <1>3, IdsApart
    <3> QED BY <2>1, <3>1 DEF Under, MadeBy
  <2>6. made \subseteq Address
    BY <1>1 DEF RosterTyped, SheetRec
  <2>7. \A b \in made : New(b) # NoOne
    <3> TAKE b \in made
    <3>1. PICK k \in Insertable(sheet[u].file) : RowFor(u, b) = k
      <4>1. \E k \in Insertable(sheet[u].file) : sheet[u].file[k] = b
        BY <2>1 DEF Under, RowsDone
      <4> QED BY <4>1 DEF RowFor
    <3>2. k \in 1 .. MaxRows
      BY <2>1, RowsOfAList DEF Under
    <3> QED BY <3>1, <3>2, IdsApart
  <2> HIDE DEF made, New
  <2>8. ASSUME NEW a \in Address, NEW b \in Address, person'[a] = person'[b], a # b
        PROVE  person'[a] = NoOne
    <3>1. CASE a \in made /\ b \in made
      BY <2>2, <2>4, <2>8, <3>1
    <3>2. CASE a \in made /\ b \notin made
      BY <2>2, <2>5, <2>8, <3>2
    <3>3. CASE a \notin made /\ b \in made
      BY <2>2, <2>5, <2>8, <3>3
    <3>4. CASE a \notin made /\ b \notin made
      BY <2>2, <2>8, <3>4 DEF OneAddress
    <3> QED BY <3>1, <3>2, <3>3, <3>4
  <2> QED BY <2>8 DEF OneAddress
<1>5. ASSUME NEW n \in NewUser, CommitUser(n) PROVE OneAddress'
  <2> DEFINE new == IdOf(n, 1)
             at == single[n].to
  <2>1. person' = [person EXCEPT ![at] = new] /\ single[n].pc = "open"
    BY <1>5 DEF CommitUser
  <2>2. MadeBy(n) = {}
    BY <2>1 DEF RosterIInv, SingleOk, Singles
  <2>3. \A a \in Address : person[a] # new
    <3> SUFFICES ASSUME NEW a \in Address, person[a] = new PROVE FALSE
      OBVIOUS
    <3>1. person[a] # NoOne /\ person[a][1] = n
      BY IdsApart
    <3> QED BY <1>3, <2>2, <3>1 DEF MadeBy
  <2> HIDE DEF new, at
  <2> QED BY <1>1, <2>1, <2>3 DEF OneAddress, RosterTyped
<1>6. ASSUME NEW c \in Correction, CommitCorrection(c) PROVE OneAddress'
  <2> DEFINE from == single[c].from
             to == single[c].to
  <2>1. person' = [person EXCEPT ![to] = person[from], ![from] = NoOne]
    BY <1>6 DEF CommitCorrection
  <2>2. from \in Address /\ to \in Address
    BY <1>6 DEF CommitCorrection, RosterIInv, SingleOk, Singles, Busy
  <2> HIDE DEF from, to
  <2>3. \A a \in Address :
           person'[a] = IF a = from THEN NoOne ELSE IF a = to THEN person[from] ELSE person[a]
    BY <1>1, <2>1, <2>2 DEF RosterTyped
  <2> QED BY <2>2, <2>3 DEF OneAddress
<1> QED
  BY <1>2, <1>4, <1>5, <1>6
  DEF RosterNext, ReadSheet, InsertRow, AddUser, CorrectAddress, InsertOne, Deadlocked, rosterVars

LEMMA TypedRoster == RosterIInv /\ OneAddress /\ RowsToCome => RosterTypeOK
<1> SUFFICES ASSUME RosterIInv, OneAddress, RowsToCome PROVE RosterTypeOK
  OBVIOUS
<1>1. RosterTyped
  BY DEF RosterIInv
<1>2. \A u \in StaffUpload :
          /\ sheet[u].pc \in {"idle", "inserting", "done", "failed"}
          /\ sheet[u].made \subseteq Address
          /\ sheet[u].report \in Seq({"created", "skipped", "errored"})
  BY <1>1 DEF RosterTyped, SheetRec
<1>3. \A u \in StaffUpload : \A k \in DOMAIN sheet[u].report :
          sheet[u].report[k] \in {"created", "skipped", "errored"}
  BY <1>2, ElementOfSeq, LenProperties
<1>4. \A s \in DOMAIN single : single[s].pc \in {"idle", "inserting", "open", "done", "refused", "failed"}
  BY <1>1 DEF RosterTyped, SingleRec
<1>5. /\ \A a \in Address : person[a] \in Who \union {NoOne} /\ claim[a] \in Requests \union {NoOne}
      /\ \A p \in Who : trail[p] \in Nat
  BY <1>1 DEF RosterTyped
<1> QED BY <1>2, <1>3, <1>4, <1>5 DEF RosterTypeOK, OneAddress, RowsToCome

(* The upload page's: what each request may be, ...                          *)
LookingRec == [pc : {"finding", "creating", "found"}, manifest : Documents]
ComparedRec == [pc : {"computed"}, manifest : Documents, seen : Catalogs]
PreviewRec == {None} \union LookingRec \union ComparedRec
SendingRec == [pc : {"confirming", "sent"}, manifest : Documents, seen : Catalogs]
WrittenRec == [pc : {"written"}, manifest : Documents, seen : Catalogs, found : Catalogs]
ResultRec == [pc : {"shown"}, manifest : Documents, asPreviewed : BOOLEAN, seen : Catalogs, found : Catalogs]

(* ... what is under the progress it says.                                   *)
LEMMA RequestIs ==
    /\ None.pc = "none"
    /\ \A p \in PreviewRec :
          /\ p.pc \in {"finding", "creating", "found"} => p \in LookingRec
          /\ p.pc = "computed" => p \in ComparedRec
    /\ \A p \in {None} \union SendingRec \union WrittenRec :
          /\ p.pc \in {"confirming", "sent"} => p \in SendingRec
          /\ p.pc = "written" => p \in WrittenRec
BY DEF None, PreviewRec, LookingRec, ComparedRec, SendingRec, WrittenRec

PageTyped ==
    /\ text \in Texts
    /\ preview \in {None} \union Previewed
    /\ applied \in {None} \union ResultRec
    /\ unregistered \in BOOLEAN
    /\ previewing \in PreviewRec /\ registering \in PreviewRec
    /\ applying \in {None} \union SendingRec \union WrittenRec
    /\ reading \in {None} \union [pc : {"reading"}, text : Texts]
    /\ registered \in BOOLEAN /\ crossed \in BOOLEAN
    /\ offered \in Catalogs

LEMMA SameTypes == (PageTypeOK <=> PageTyped) /\ (PageTypeOK' <=> PageTyped')
BY DEF PageTypeOK, PageTyped, PreviewRec, LookingRec, ComparedRec, SendingRec, WrittenRec, ResultRec

LEMMA PageTypesStart == PageInit => PageTypeOK
<1> SUFFICES ASSUME PageInit PROVE PageTypeOK
  OBVIOUS
<1>1. [r \in Row |-> Off] \in Catalogs
  BY DEF Catalogs
<1> QED BY <1>1 DEF PageInit, PageTypeOK, Texts

LEMMA PageTypesStep == PageTypeOK /\ [PageNext]_pageVars => PageTypeOK'
<1> SUFFICES ASSUME PageTypeOK, [PageNext]_pageVars PROVE PageTypeOK'
  OBVIOUS
<1> USE DEF PageTyped
<1>1. PageTyped
  BY SameTypes
<1> SUFFICES PageTyped'
  BY SameTypes
<1>2. None \in PreviewRec
  BY DEF PreviewRec
<1>3. \A p \in PreviewRec : p.pc \in {"finding", "creating", "found"} =>
         p.manifest \in Documents /\ [p EXCEPT !.pc = "found"] \in PreviewRec
  BY RequestIs DEF PreviewRec, LookingRec
<1>4. ASSUME NEW value \in Texts, Type(value) \/ DropFile(value) PROVE PageTyped'
  <2>1. CASE Type(value)
    BY <1>1, <2>1 DEF Type, ReplaceDocument
  <2>2. CASE DropFile(value)
    <3>1. reading' \in [pc : {"reading"}, text : Texts]
      BY <2>2 DEF DropFile
    <3> QED BY <1>1, <2>2, <3>1 DEF DropFile
  <2> QED BY <1>4, <2>1, <2>2
<1>5. CASE FileRead
  <2>1. reading.text \in Texts
    BY <1>1, <1>5 DEF FileRead
  <2> QED BY <1>1, <1>5, <2>1 DEF FileRead, ReplaceDocument
<1>6. CASE Preview
  <2>1. CASE text = Unparsed
    BY <1>1, <1>6, <2>1 DEF Preview
  <2>2. CASE text # Unparsed
    <3>1. [pc |-> "finding", manifest |-> text] \in PreviewRec
      BY <1>1, <2>2 DEF Texts, PreviewRec, LookingRec
    <3> QED BY <1>1, <1>6, <2>2, <3>1 DEF Preview
  <2> QED BY <2>1, <2>2
<1>7. CASE FindApplication
  <2>1. [previewing EXCEPT !.pc = "found"] \in PreviewRec
    BY <1>1, <1>3, <1>7 DEF FindApplication
  <2>2. (crossed \/ previewing.manifest # text) \in BOOLEAN
    OBVIOUS
  <2> QED BY <1>1, <1>2, <1>7, <2>1, <2>2 DEF FindApplication
<1>8. CASE Register
  <2>1. [pc |-> "creating", manifest |-> text] \in PreviewRec
    BY <1>1, <1>8 DEF Register, Texts, PreviewRec, LookingRec
  <2> QED BY <1>1, <1>8, <2>1 DEF Register
<1>9. CASE CreateApplication
  <2>1. [registering EXCEPT !.pc = "found"] \in PreviewRec
    BY <1>1, <1>3, <1>9 DEF CreateApplication
  <2> QED BY <1>1, <1>9, <2>1 DEF CreateApplication
<1>10. CASE Compute
  <2>1. \A p \in PreviewRec : p.pc = "found" => DryRun(p) \in PreviewRec
    BY <1>1, <1>3 DEF DryRun, PreviewRec, ComparedRec
  <2> QED BY <1>1, <1>10, <2>1 DEF Compute
<1>11. CASE PreviewLands
  <2>1. \A p \in PreviewRec : SetPreview(p) => preview' \in Previewed /\ crossed' \in BOOLEAN
    <3> TAKE p \in PreviewRec
    <3> HAVE SetPreview(p)
    <3>1. p \in ComparedRec
      BY RequestIs DEF SetPreview
    <3>2. [pc |-> "shown", manifest |-> p.manifest, seen |-> p.seen] \in Previewed
      BY <3>1 DEF ComparedRec, Previewed
    <3> QED BY <3>2 DEF SetPreview
  <2> QED BY <1>1, <1>2, <1>11, <2>1 DEF PreviewLands
<1>12. CASE PreviewFails
  BY <1>1, <1>2, <1>12 DEF PreviewFails
<1>13. CASE Apply
  <2>1. preview \in Previewed
    BY <1>1, <1>13 DEF Apply
  <2>2. applying' \in SendingRec
    BY <1>13, <2>1 DEF Apply, Previewed, SendingRec
  <2> QED BY <1>1, <1>13, <2>2 DEF Apply
<1>14. ASSUME NEW yes \in BOOLEAN, Answer(yes) PROVE PageTyped'
  <2>1. applying \in SendingRec
    BY <1>1, <1>14, RequestIs DEF Answer
  <2>2. [applying EXCEPT !.pc = "sent"] \in SendingRec
    BY <2>1 DEF SendingRec
  <2> QED BY <1>1, <1>14, <2>2 DEF Answer
<1>15. CASE SendManifest
  <2>1. applying \in SendingRec
    BY <1>1, <1>15, RequestIs DEF SendManifest
  <2>2. applying' \in WrittenRec /\ offered' \in Catalogs
    BY <1>1, <1>15, <2>1, DocumentsAssumption DEF SendManifest, SendingRec, WrittenRec, Catalogs
  <2> QED BY <1>1, <1>15, <2>2 DEF SendManifest
<1>16. CASE UploadLands
  <2>1. applying \in WrittenRec
    BY <1>1, <1>16, RequestIs DEF UploadLands
  <2>2. DiffsMatch(applying.seen, applying.found, applying.manifest) \in BOOLEAN
    BY DEF DiffsMatch
  <2>3. applied' \in ResultRec /\ crossed' \in BOOLEAN
    BY <1>16, <2>1, <2>2 DEF UploadLands, WrittenRec, ResultRec
  <2> QED BY <1>1, <1>16, <2>3 DEF UploadLands
<1>17. CASE UploadFails
  BY <1>1, <1>17 DEF UploadFails
<1>18. CASE SomeoneChanges
  BY <1>1, <1>18 DEF SomeoneChanges
<1>19. CASE UNCHANGED pageVars
  BY <1>1, <1>19 DEF pageVars
<1> QED BY <1>4, <1>5, <1>6, <1>7, <1>8, <1>9, <1>10, <1>11, <1>12, <1>13, <1>14, <1>15, <1>16, <1>17,
           <1>18, <1>19 DEF PageNext

-----------------------------------------------------------------------------
(* AuthTypeOK, RegTypeOK, EditTypeOK, RosterTypeOK, AuditTypeOK and PageTypeOK *)
(* of the six parts side by side: among them that no cell of the catalog has   *)
(* two uncommitted writers, that nobody is on the staff list under two         *)
(* addresses, that a row a replacement has deleted is no other's and still in  *)
(* the role, and that no two records of the trail share an id.                 *)
THEOREM AdministrationTyped == AdministrationSpec => []AdministrationTypeOK
<1> DEFINE Inv == /\ AuthIInv /\ AuthTyped
                  /\ RegIInv /\ RegKinds
                  /\ RoleIInv
                  /\ RosterIInv /\ OneAddress /\ RowsToCome
                  /\ TrailIInv
                  /\ PageTypeOK
<1>1. AdministrationInit => Inv
  BY AuthInits, AuthTypesStart, RegInits, RegTypesStart, RoleInits, RosterInits, RosterTypesStart,
     TrailInits, PageTypesStart DEF AdministrationInit
<1>2. Inv /\ [AdministrationNext]_<<focus, authVars, regVars, roleVars, rosterVars, auditVars, pageVars>> => Inv'
  <2> SUFFICES ASSUME Inv,
                      [AdministrationNext]_<<focus, authVars, regVars, roleVars, rosterVars, auditVars, pageVars>>
               PROVE  Inv'
    OBVIOUS
  <2>1. /\ [AuthNext]_authVars /\ [RegNext]_regVars /\ [RoleNext]_roleVars
        /\ [RosterNext]_rosterVars /\ [AuditNext]_auditVars /\ [PageNext]_pageVars
    BY DEF AdministrationNext
  <2>2. AuthIInv' /\ AuthTyped'
    BY <2>1, AuthSteps, AuthTypesStep
  <2>3. RegIInv' /\ RegKinds'
    BY <2>1, RegSteps, RegTypesStep
  <2>4. RoleIInv'
    BY <2>1, RoleSteps
  <2>5. RosterIInv' /\ OneAddress' /\ RowsToCome'
    BY <2>1, RosterSteps, OneAddressStep, RowsStep
  <2>6. TrailIInv' /\ PageTypeOK'
    BY <2>1, TrailStep, PageTypesStep
  <2> QED BY <2>2, <2>3, <2>4, <2>5, <2>6
<1>3. Inv => AdministrationTypeOK
  BY TypedAuth, TypedReg, TypedRole, TypedRoster, TypedTrail DEF AdministrationTypeOK
<1> QED BY <1>1, <1>2, <1>3, PTL DEF AdministrationSpec
==============================================================================
