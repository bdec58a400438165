----------------------------- MODULE GrantsProofs -----------------------------
(***************************************************************************)
(* That the cache never serves for right what is not (GrantInvalidation),  *)
(* for any number of subjects, roles, nodes and permissions, of concurrent *)
(* transactions and filling requests, and for every kind of change; what a *)
(* consumer's own cache makes of the answers (ResolveCache); and the types *)
(* of the suite, the scope tree's among them (ScopeTreeProofs has its      *)
(* invariant).                                                             *)
(***************************************************************************)
EXTENDS MCGrants, ScopeTreeProofs

-----------------------------------------------------------------------------
(* GrantInvalidation.  A change reaches a subject's grants at COMMIT and its *)
(* keys with the bumps that follow.  That the bumps are for the right        *)
(* subjects was settled when the transaction began, so the invariant has to  *)
(* carry the enumeration to the COMMIT: whomever an open transaction will    *)
(* change, it found, or some other COMMIT has brought it since; and who has  *)
(* read a flag and will bump nobody is to set it (Enumerated).               *)
(* Then each answer, stored or about to be, under the version a subject has  *)
(* is right while no bump is due (AnswersRight), since the one that lands    *)
(* makes everything old: no key is of a version to come (CacheTyped), and a  *)
(* version is never past what the bound leaves to be had (Counted).          *)
BindOp == [kind : {"bind", "unbind"}, b : Binding]
SetOp == [kind : {"set"}, role : Roles, add : SUBSET Perms, rem : SUBSET Perms,
          desired : SUBSET Perms]
RemoveOp == [kind : {"remove"}, role : Roles]
FlagOp == [kind : {"toggle"}, on : BOOLEAN, bumps : BOOLEAN]
SwitchOp == [kind : {"app"}, on : BOOLEAN]
PermOp == [kind : {"deactivate", "reactivate"}, perm : Perms]
MoveOp == [kind : {"move"}, node : Nodes, path : Paths]
Pending == [pc : {"deciding", "open", "publishing"}, op : Op, owes : SUBSET Subjects, late : SUBSET Subjects]

(* The tables, ...                                                           *)
TablesTyped ==
    /\ bindings \subseteq Binding
    /\ roles \subseteq Roles
    /\ mapping \in [Roles -> SUBSET Perms]
    /\ active \subseteq Perms
    /\ enabled \in BOOLEAN /\ appActive \in BOOLEAN
    /\ place \in [Nodes -> Paths]
    /\ tx \in [Txs -> {Idle} \cup Pending]
    /\ excused \in [Subjects -> SUBSET {"lost", "missed", "silent"}]

(* ... and the cache.  A transaction counts a subject once at most, and one  *)
(* that has not looked anybody up yet may count any.                         *)
Due(s) == {t \in Txs : tx[t] # Idle /\ (s \in tx[t].owes \/ tx[t].pc = "deciding")}
Counted ==
    /\ ops \in 0 .. MaxOps
    /\ counter \in [Subjects -> Nat]
    /\ \A s \in Subjects : IsFiniteSet(Due(s)) /\ counter[s] + Cardinality(Due(s)) <= ops

(* Nothing is stored under a version that is yet to come.                    *)
CacheTyped ==
    /\ entry \in [Subjects -> [v : 0 .. MaxOps, grants : Grants] \cup {NoEntry}]
    /\ reader \in [Readers -> {NotFilling} \cup
                      [pc : {"resolving", "writing"}, subj : Subjects, v : 0 .. MaxOps, grants : Grants]]
    /\ \A s \in Subjects : entry[s] # NoEntry => entry[s].v <= counter[s]
    /\ \A r \in Readers : reader[r] # NotFilling => reader[r].v <= counter[reader[r].subj]

(* Whose grants an open transaction will change it has found, or they came   *)
(* late, or it is an enable that took the flag for set.                      *)
Covers(op, owes, late) ==
    /\ op.kind \in {"bind", "unbind"} => op.b.subj \in owes
    /\ op.kind \in {"set", "remove"} => BoundToRole(op.role) \subseteq owes \cup late
    /\ op.kind = "toggle" => op.on \/ op.bumps
    /\ op.kind = "toggle" /\ op.bumps => OfClient \subseteq owes \cup late
    /\ op.kind = "deactivate" => BoundToPermission(op.perm) \subseteq owes \cup late
    /\ op.kind = "move" => Under(op.node) \subseteq owes \cup late

Covered(t) == Covers(tx[t].op, tx[t].owes, tx[t].late)
Decides(op) == op.kind = "toggle" /\ (op.on \/ op.bumps)
Enumerated == \A t \in Txs : /\ Open(t) => Covered(t)
                             /\ tx[t].pc = "deciding" => Decides(tx[t].op)

(* What is stored for a subject, or about to be, under the version it has,   *)
(* is right, unless a bump is to come or the subject is excused.             *)
Right(s, grants) ==
    /\ excused[s] = {} => grants = Resolve(s)
    /\ excused[s] \subseteq {"silent"} => grants \subseteq WhileAppActive(s)

AnswersRight ==
    \A s \in Subjects : ~Owed(s) =>
        /\ Current(s) => Right(s, entry[s].grants)
        /\ \A r \in Readers :
              reader[r].pc = "writing" /\ reader[r].subj = s /\ reader[r].v = counter[s]
                  => Right(s, reader[r].grants)

IInv == /\ TablesTyped /\ Counted /\ CacheTyped
        /\ Enumerated
        /\ AnswersRight

-----------------------------------------------------------------------------
(* The kind of an operation says what it is made of.                         *)
LEMMA OpKinds ==
    ASSUME NEW op \in Op
    PROVE  /\ op.kind \in {"bind", "unbind"} => op \in BindOp
           /\ op.kind = "set" => op \in SetOp
           /\ op.kind = "remove" => op \in RemoveOp
           /\ op.kind = "toggle" => op \in FlagOp
           /\ op.kind = "app" => op \in SwitchOp
           /\ op.kind \in {"deactivate", "reactivate"} => op \in PermOp
           /\ op.kind = "move" => op \in MoveOp
<1>1. op \in BindOp \cup SetOp \cup RemoveOp \cup FlagOp \cup SwitchOp \cup PermOp \cup MoveOp
  BY DEF Op, BindOp, SetOp, RemoveOp, FlagOp, SwitchOp, PermOp, MoveOp
<1>2. /\ op \in BindOp => op.kind \in {"bind", "unbind"}
      /\ op \in SetOp => op.kind = "set"
      /\ op \in RemoveOp => op.kind = "remove"
      /\ op \in FlagOp => op.kind = "toggle"
      /\ op \in SwitchOp => op.kind = "app"
      /\ op \in PermOp => op.kind \in {"deactivate", "reactivate"}
      /\ op \in MoveOp => op.kind = "move"
  BY DEF BindOp, SetOp, RemoveOp, FlagOp, SwitchOp, PermOp, MoveOp
<1> QED BY <1>1, <1>2

(* A transaction that is open, or whose bumps are due, is a change.          *)
LEMMA Changes ==
    ASSUME TablesTyped, NEW t \in Txs
    PROVE  /\ tx[t] # Idle => tx[t] \in Pending /\ tx[t].op \in Op
           /\ tx[t].pc \in {"deciding", "open", "publishing"} => tx[t] # Idle
           /\ tx[t] # Idle => tx[t].pc \in {"deciding", "open", "publishing"}
           /\ tx[t] # Idle => tx[t].owes \subseteq Subjects /\ tx[t].late \subseteq Subjects
<1>1. tx[t] \in {Idle} \cup Pending
  BY DEF TablesTyped
<1>2. Idle.pc = "idle"
  BY DEF Idle
<1> QED BY <1>1, <1>2 DEF Pending

(* A begun transaction is open on the operation, and owes whom it found.     *)
LEMMA Begins ==
    ASSUME TablesTyped, NEW t \in Txs, NEW op \in Op, NEW owes \in SUBSET Subjects,
           Begin(t, op, owes)
    PROVE  /\ TablesTyped'
           /\ tx[t] = Idle
           /\ tx'[t].pc = "open" /\ tx'[t].op = op /\ tx'[t].owes = owes /\ tx'[t] # Idle
           /\ \A u \in Txs \ {t} : tx'[u] = tx[u]
           /\ UNCHANGED <<db, cache, excused>>
           /\ ops < MaxOps /\ ops' = ops + 1
<1> DEFINE new == [pc |-> "open", op |-> op, owes |-> owes, late |-> {}]
<1>1. new \in Pending /\ new.pc = "open" /\ new.op = op /\ new.owes = owes
  BY DEF Pending
<1>2. tx' = [tx EXCEPT ![t] = new]
  BY DEF Begin
<1>3. Idle.pc = "idle"
  BY DEF Idle
<1> HIDE DEF new
<1>4. tx \in [Txs -> {Idle} \cup Pending]
  BY DEF TablesTyped
<1>5. /\ tx' \in [Txs -> {Idle} \cup Pending]
      /\ tx'[t] = new
      /\ \A u \in Txs \ {t} : tx'[u] = tx[u]
  BY <1>1, <1>2, <1>4
<1>6. /\ UNCHANGED <<db, cache, excused>>
      /\ tx[t] = Idle /\ ops < MaxOps /\ ops' = ops + 1
  BY DEF Begin
<1>7. TablesTyped'
  BY <1>5, <1>6 DEF TablesTyped, db
<1> QED BY <1>1, <1>3, <1>5, <1>6, <1>7

(* So is one that has read the flag, which owes nobody yet ...               *)
LEMMA Reads ==
    ASSUME TablesTyped, NEW t \in Txs, NEW on \in BOOLEAN, NEW bumps \in BOOLEAN,
           ReadFlag(t, on, bumps)
    PROVE  /\ TablesTyped'
           /\ tx[t] = Idle
           /\ tx'[t].pc = "deciding" /\ tx'[t] # Idle
           /\ tx'[t].op = [kind |-> "toggle", on |-> on, bumps |-> bumps]
           /\ \A u \in Txs \ {t} : tx'[u] = tx[u]
           /\ UNCHANGED <<db, cache, excused>>
           /\ ops < MaxOps /\ ops' = ops + 1
<1> DEFINE flag == [kind |-> "toggle", on |-> on, bumps |-> bumps]
           new == [pc |-> "deciding", owes |-> {}, late |-> {}, op |-> flag]
<1>1. new \in Pending /\ new.pc = "deciding" /\ new.op = flag
  <2>1. flag \in Op
    BY DEF Op
  <2> HIDE DEF flag
  <2> QED BY <2>1 DEF Pending
<1>2. tx' = [tx EXCEPT ![t] = new]
  BY DEF ReadFlag
<1>3. Idle.pc = "idle"
  BY DEF Idle
<1> HIDE DEF new
<1>4. tx \in [Txs -> {Idle} \cup Pending]
  BY DEF TablesTyped
<1>5. /\ tx' \in [Txs -> {Idle} \cup Pending]
      /\ tx'[t] = new
      /\ \A u \in Txs \ {t} : tx'[u] = tx[u]
  BY <1>1, <1>2, <1>4
<1>6. /\ UNCHANGED <<db, cache, excused>>
      /\ tx[t] = Idle /\ ops < MaxOps /\ ops' = ops + 1
  BY DEF ReadFlag
<1>7. TablesTyped'
  BY <1>5, <1>6 DEF TablesTyped, db
<1> QED BY <1>1, <1>3, <1>5, <1>6, <1>7

(* ... until its write has the row.                                          *)
LEMMA Writes ==
    ASSUME TablesTyped, NEW t \in Txs, NEW owes \in SUBSET Subjects, WritingFlag(t, owes)
    PROVE  /\ TablesTyped'
           /\ tx[t].pc = "deciding" /\ tx[t] # Idle
           /\ tx'[t].pc = "open" /\ tx'[t] # Idle
           /\ tx'[t].op = tx[t].op /\ tx'[t].owes = owes
           /\ \A u \in Txs \ {t} : tx'[u] = tx[u]
           /\ UNCHANGED <<db, cache, excused, ops>>
<1> DEFINE new == [tx[t] EXCEPT !.pc = "open", !.owes = owes]
<1>1. /\ tx[t].pc = "deciding"
      /\ tx' = [tx EXCEPT ![t] = new]
      /\ UNCHANGED <<db, cache, excused, ops>>
  BY DEF WritingFlag
<1>2. tx[t] \in Pending /\ tx[t] # Idle
  BY <1>1, Changes
<1>3. new \in Pending /\ new.pc = "open" /\ new.op = tx[t].op /\ new.owes = owes
  BY <1>2 DEF Pending
<1>4. Idle.pc = "idle"
  BY DEF Idle
<1> HIDE DEF new
<1>5. tx \in [Txs -> {Idle} \cup Pending]
  BY DEF TablesTyped
<1>6. /\ tx' \in [Txs -> {Idle} \cup Pending]
      /\ tx'[t] = new
      /\ \A u \in Txs \ {t} : tx'[u] = tx[u]
  BY <1>1, <1>3, <1>5
<1>7. TablesTyped'
  BY <1>1, <1>6 DEF TablesTyped, db
<1> QED BY <1>1, <1>2, <1>3, <1>4, <1>6, <1>7

(* A committed one owes them still; the others that are open come to know of *)
(* whoever gained something.                                                 *)
LEMMA Commits ==
    ASSUME TablesTyped, NEW t \in Txs, NEW kind, NEW gained \in SUBSET Subjects,
           Committing(t, kind, gained)
    PROVE  /\ tx' \in [Txs -> {Idle} \cup Pending]
           /\ tx[t] \in Pending /\ tx[t].op \in Op /\ tx[t].pc = "open" /\ tx[t].op.kind = kind
           /\ \/ tx'[t] = Idle /\ tx[t].owes = {}
              \/ tx'[t].pc = "publishing" /\ tx'[t].owes = tx[t].owes
           /\ \A u \in Txs \ {t} : tx[u].pc # "open" => tx'[u] = tx[u]
           /\ \A u \in Txs \ {t} : tx[u].pc = "open" =>
                 /\ tx'[u].pc = "open" /\ tx'[u].op = tx[u].op /\ tx'[u].owes = tx[u].owes
                 /\ tx'[u].late = tx[u].late \cup gained
                 /\ tx'[u] # Idle
           /\ UNCHANGED <<cache, ops>>
<1>1. \A u \in Txs : Open(u) => tx[u] \in Pending /\ tx[u].op \in Op
  BY Changes DEF Open
<1>2. Open(t) /\ tx[t].op.kind = kind /\ UNCHANGED <<cache, ops>>
  BY DEF Committing
<1> DEFINE done == [tx[t] EXCEPT !.pc = "publishing"]
           told(u) == [tx[u] EXCEPT !.late = @ \cup gained]
<1>3. done \in Pending /\ done.pc = "publishing" /\ done.owes = tx[t].owes
  BY <1>1, <1>2 DEF Pending
<1>4. ASSUME NEW u \in Txs, Open(u)
      PROVE  /\ told(u) \in Pending /\ told(u).pc = "open" /\ told(u).op = tx[u].op
             /\ told(u).owes = tx[u].owes /\ told(u).late = tx[u].late \cup gained
  BY <1>1, <1>4 DEF Pending, Open
<1>5. tx' = [u \in Txs |-> IF u = t THEN IF tx[t].owes = {} THEN Idle ELSE done
                           ELSE IF Open(u) THEN told(u) ELSE tx[u]]
  BY DEF Committing
<1>6. tx \in [Txs -> {Idle} \cup Pending]
  BY DEF TablesTyped
<1>7. Idle.pc = "idle"
  BY DEF Idle
<1> HIDE DEF done, told
<1>8. tx' \in [Txs -> {Idle} \cup Pending]
  BY <1>3, <1>4, <1>5, <1>6
<1>9. tx'[t] = IF tx[t].owes = {} THEN Idle ELSE done
  BY <1>5
<1>10. ASSUME NEW u \in Txs \ {t}
       PROVE  tx'[u] = IF Open(u) THEN told(u) ELSE tx[u]
  BY <1>5
<1>11. \A u \in Txs \ {t} : tx[u].pc = "open" =>
          /\ tx'[u].pc = "open" /\ tx'[u].op = tx[u].op /\ tx'[u].owes = tx[u].owes
          /\ tx'[u].late = tx[u].late \cup gained
          /\ tx'[u] # Idle
  BY <1>4, <1>7, <1>10 DEF Open
<1>12. \A u \in Txs \ {t} : tx[u].pc # "open" => tx'[u] = tx[u]
  BY <1>10 DEF Open
<1> QED BY <1>1, <1>2, <1>3, <1>8, <1>9, <1>11, <1>12 DEF Open

-----------------------------------------------------------------------------
(* Subjects are found among the bindings.                                    *)
LEMMA Enumerations ==
    ASSUME bindings \subseteq Binding
    PROVE  /\ \A r : BoundToRole(r) \subseteq Subjects
           /\ \A p : BoundToPermission(p) \subseteq Subjects
           /\ \A n : Under(n) \subseteq Subjects
           /\ OfClient \subseteq Subjects
  BY DEF BoundToRole, BoundToPermission, Under, OfClient, Binding

(* Every handler's lookups find whom its writes will change.                 *)
LEMMA BeginsFinding ==
    ASSUME TablesTyped, NEW t \in Txs, BeginSome(t)
    PROVE  \/ \E op \in Op, owes \in SUBSET Subjects : Begin(t, op, owes) /\ Covers(op, owes, {})
           \/ \E on, bumps \in BOOLEAN : ReadFlag(t, on, bumps) /\ (on \/ bumps)
<1>0. /\ bindings \subseteq Binding
      /\ mapping \in [Roles -> SUBSET Perms]
      /\ enabled \in BOOLEAN
  BY DEF TablesTyped
<1>1. ASSUME NEW b \in Binding, BeginBind(t, b) \/ BeginUnbind(t, b)
      PROVE  \E op \in Op, owes \in SUBSET Subjects : Begin(t, op, owes) /\ Covers(op, owes, {})
  <2>1. PICK kind \in {"bind", "unbind"} : Begin(t, [kind |-> kind, b |-> b], {b.subj})
    BY <1>1 DEF BeginBind, BeginUnbind
  <2> DEFINE op == [kind |-> kind, b |-> b]
  <2>2. op \in Op /\ b.subj \in Subjects
    BY DEF Op, Binding
  <2>3. Covers(op, {b.subj}, {})
    BY DEF Covers
  <2> QED BY <2>1, <2>2, <2>3
<1>2. ASSUME NEW r \in Roles, BeginRemove(t, r)
      PROVE  \E op \in Op, owes \in SUBSET Subjects : Begin(t, op, owes) /\ Covers(op, owes, {})
  <2> DEFINE op == [kind |-> "remove", role |-> r]
  <2>1. Begin(t, op, BoundToRole(r))
    BY <1>2 DEF BeginRemove
  <2>2. op \in Op /\ BoundToRole(r) \in SUBSET Subjects
    BY <1>0, Enumerations DEF Op
  <2>3. Covers(op, BoundToRole(r), {})
    BY DEF Covers
  <2> QED BY <2>1, <2>2, <2>3
<1>3. ASSUME NEW r \in Roles, NEW P \in SUBSET Perms, BeginSet(t, r, P)
      PROVE  \E op \in Op, owes \in SUBSET Subjects : Begin(t, op, owes) /\ Covers(op, owes, {})
  <2> DEFINE op == [kind |-> "set", role |-> r, add |-> P \ mapping[r], rem |-> mapping[r] \ P,
                    desired |-> P]
  <2>1. Begin(t, op, BoundToRole(r))
    BY <1>3 DEF BeginSet
  <2>2. op \in Op /\ BoundToRole(r) \in SUBSET Subjects
    BY <1>0, Enumerations DEF Op
  <2>3. Covers(op, BoundToRole(r), {})
    BY DEF Covers
  <2> QED BY <2>1, <2>2, <2>3
<1>4. /\ \A on \in BOOLEAN : BeginUpdate(t, on) => ReadFlag(t, on, TRUE)
      /\ BeginEnable(t) => ReadFlag(t, TRUE, ~enabled) /\ (~enabled) \in BOOLEAN
  BY <1>0 DEF BeginUpdate, BeginEnable
<1>5. ASSUME NEW on \in BOOLEAN, BeginApp(t, on)
      PROVE  \E op \in Op, owes \in SUBSET Subjects : Begin(t, op, owes) /\ Covers(op, owes, {})
  <2> DEFINE op == [kind |-> "app", on |-> on]
  <2>1. Begin(t, op, {})
    BY <1>5 DEF BeginApp
  <2>2. op \in Op
    BY DEF Op
  <2>3. Covers(op, {}, {})
    BY DEF Covers
  <2> QED BY <2>1, <2>2, <2>3
<1>6. ASSUME NEW p \in Perms, BeginDeactivate(t, p)
      PROVE  \E op \in Op, owes \in SUBSET Subjects : Begin(t, op, owes) /\ Covers(op, owes, {})
  <2> DEFINE op == [kind |-> "deactivate", perm |-> p]
  <2>1. Begin(t, op, BoundToPermission(p))
    BY <1>6 DEF BeginDeactivate
  <2>2. op \in Op /\ BoundToPermission(p) \in SUBSET Subjects
    BY <1>0, Enumerations DEF Op
  <2>3. Covers(op, BoundToPermission(p), {})
    BY DEF Covers
  <2> QED BY <2>1, <2>2, <2>3
<1>7. ASSUME NEW p \in Perms, BeginReactivate(t, p)
      PROVE  \E op \in Op, owes \in SUBSET Subjects : Begin(t, op, owes) /\ Covers(op, owes, {})
  <2> DEFINE op == [kind |-> "reactivate", perm |-> p]
  <2>1. Begin(t, op, {})
    BY <1>7 DEF BeginReactivate
  <2>2. op \in Op
    BY DEF Op
  <2>3. Covers(op, {}, {})
    BY DEF Covers
  <2> QED BY <2>1, <2>2, <2>3
<1>8. ASSUME NEW n \in Nodes, NEW to \in Paths, BeginMove(t, n, to)
      PROVE  \E op \in Op, owes \in SUBSET Subjects : Begin(t, op, owes) /\ Covers(op, owes, {})
  <2> DEFINE op == [kind |-> "move", node |-> n, path |-> to]
  <2>1. Begin(t, op, Under(n))
    BY <1>8 DEF BeginMove
  <2>2. op \in Op /\ Under(n) \in SUBSET Subjects
    BY <1>0, Enumerations DEF Op
  <2>3. Covers(op, Under(n), {})
    BY DEF Covers
  <2> QED BY <2>1, <2>2, <2>3
<1> QED
  BY <1>1, <1>2, <1>3, <1>4, <1>5, <1>6, <1>7, <1>8 DEF BeginSome

(* A request that begins, or that gets the row it waited for, has nothing to *)
(* announce yet; if it has looked anybody up, it has found them all.         *)
LEMMA Starts ==
    ASSUME TablesTyped, NEW t \in Txs, BeginSome(t) \/ WriteFlag(t)
    PROVE  /\ TablesTyped'
           /\ UNCHANGED <<db, cache, excused>>
           /\ \A u \in Txs \ {t} : tx'[u] = tx[u]
           /\ \/ tx[t] = Idle /\ ops < MaxOps /\ ops' = ops + 1
              \/ tx[t] # Idle /\ tx[t].pc = "deciding" /\ ops' = ops
           /\ tx'[t].pc \in {"deciding", "open"}
           /\ Enumerated /\ tx'[t].pc = "open" => Covers(tx'[t].op, tx'[t].owes, {})
           /\ tx'[t].pc = "deciding" => Decides(tx'[t].op)
<1>1. ASSUME NEW op \in Op, NEW owes \in SUBSET Subjects, Begin(t, op, owes), Covers(op, owes, {})
      PROVE  /\ TablesTyped'
             /\ UNCHANGED <<db, cache, excused>>
             /\ \A u \in Txs \ {t} : tx'[u] = tx[u]
             /\ tx[t] = Idle /\ ops < MaxOps /\ ops' = ops + 1
             /\ tx'[t].pc = "open" /\ Covers(tx'[t].op, tx'[t].owes, {})
  BY <1>1, Begins
<1>2. ASSUME NEW on \in BOOLEAN, NEW bumps \in BOOLEAN, ReadFlag(t, on, bumps), on \/ bumps
      PROVE  /\ TablesTyped'
             /\ UNCHANGED <<db, cache, excused>>
             /\ \A u \in Txs \ {t} : tx'[u] = tx[u]
             /\ tx[t] = Idle /\ ops < MaxOps /\ ops' = ops + 1
             /\ tx'[t].pc = "deciding" /\ Decides(tx'[t].op)
  <2>1. /\ TablesTyped'
        /\ UNCHANGED <<db, cache, excused>>
        /\ \A u \in Txs \ {t} : tx'[u] = tx[u]
        /\ tx[t] = Idle /\ ops < MaxOps /\ ops' = ops + 1
        /\ tx'[t].pc = "deciding" /\ tx'[t].op = [kind |-> "toggle", on |-> on, bumps |-> bumps]
    BY <1>2, Reads
  <2>2. Decides(tx'[t].op)
    BY <1>2, <2>1 DEF Decides
  <2> QED BY <2>1, <2>2
<1>3. ASSUME WriteFlag(t)
      PROVE  /\ TablesTyped'
             /\ UNCHANGED <<db, cache, excused, ops>>
             /\ \A u \in Txs \ {t} : tx'[u] = tx[u]
             /\ tx[t] # Idle /\ tx[t].pc = "deciding"
             /\ tx'[t].pc = "open"
             /\ Enumerated => Covers(tx'[t].op, tx'[t].owes, {})
  <2> DEFINE owes == IF tx[t].op.bumps THEN OfClient ELSE {}
  <2>1. owes \in SUBSET Subjects
    BY Enumerations DEF TablesTyped
  <2>2. WritingFlag(t, owes)
    BY <1>3 DEF WriteFlag
  <2>3. /\ TablesTyped'
        /\ UNCHANGED <<db, cache, excused, ops>>
        /\ \A u \in Txs \ {t} : tx'[u] = tx[u]
        /\ tx[t] # Idle /\ tx[t].pc = "deciding"
        /\ tx'[t].pc = "open" /\ tx'[t].op = tx[t].op /\ tx'[t].owes = owes
    BY <2>1, <2>2, Writes
  <2>4. ASSUME Enumerated PROVE Covers(tx[t].op, owes, {})
    BY <2>3, <2>4 DEF Enumerated, Decides, Covers
  <2> HIDE DEF owes
  <2> QED BY <2>3, <2>4
<1> QED BY <1>1, <1>2, <1>3, BeginsFinding

(* What a commit adds to anybody's bindings, or to anybody's role, is told   *)
(* the transactions that have their enumeration behind them.                 *)
Tells(gained) ==
    /\ \A b \in bindings' \ bindings : b.subj \in gained
    /\ \A r \in Roles : BoundToRole(r)' \subseteq BoundToRole(r) \cup gained
    /\ OfClient' \subseteq OfClient \cup gained
    /\ \A p \in Perms : BoundToPermission(p)' \subseteq BoundToPermission(p) \cup gained
    /\ \A n \in Nodes : Under(n)' \subseteq Under(n) \cup gained

LEMMA CommitsTelling ==
    ASSUME TablesTyped, NEW t \in Txs, CommitSome(t)
    PROVE  \E kind : \E gained \in SUBSET Subjects : Committing(t, kind, gained) /\ Tells(gained)
<1>0. /\ bindings \subseteq Binding
      /\ mapping \in [Roles -> SUBSET Perms]
  BY DEF TablesTyped
<1> USE DEF Tells, BoundToRole, OfClient, BoundToPermission, Under
<1>a. Open(t) => tx[t] \in Pending /\ tx[t].op \in Op
  BY Changes DEF Open
<1>1. ASSUME CommitBind(t)
      PROVE  \E kind : \E gained \in SUBSET Subjects : Committing(t, kind, gained) /\ Tells(gained)
  <2>1. tx[t].op \in BindOp
    BY <1>1, <1>a, OpKinds DEF CommitBind, Committing
  <2>2. tx[t].op.b \in Binding /\ tx[t].op.b.subj \in Subjects
    BY <2>1 DEF BindOp, Binding
  <2>3. Tells({tx[t].op.b.subj})
    BY <1>1, <1>0 DEF CommitBind
  <2> QED BY <1>1, <2>2, <2>3 DEF CommitBind
<1>2. ASSUME CommitSet(t)
      PROVE  \E kind : \E gained \in SUBSET Subjects : Committing(t, kind, gained) /\ Tells(gained)
  <2> DEFINE op == tx[t].op
             gained == IF op.add = {} THEN {} ELSE BoundToRole(op.role)
  <2>1. op \in SetOp
    BY <1>2, <1>a, OpKinds DEF CommitSet, Committing
  <2>2. op.role \in Roles /\ op.add \subseteq Perms
    BY <2>1 DEF SetOp
  <2>3. gained \in SUBSET Subjects
    BY <1>0, Enumerations
  <2>4. /\ \A r \in Roles : r # op.role => mapping'[r] = mapping[r]
        /\ op.add = {} => mapping'[op.role] \subseteq mapping[op.role]
        /\ bindings' = bindings
    BY <1>2, <1>0, <2>2 DEF CommitSet
  <2>5. ASSUME NEW p \in Perms PROVE BoundToPermission(p)' \subseteq BoundToPermission(p) \cup gained
    BY <1>0, <2>4 DEF Binding
  <2>6. Tells(gained)
    BY <2>4, <2>5
  <2> QED BY <1>2, <2>3, <2>6 DEF CommitSet
<1>3. ASSUME CommitUnbind(t) \/ CommitRemove(t) \/ CommitToggle(t) \/ CommitDeactivate(t)
             \/ CommitReactivate(t) \/ CommitApp(t) \/ CommitMove(t)
      PROVE  \E kind : \E gained \in SUBSET Subjects : Committing(t, kind, gained) /\ Tells(gained)
  <2>1. \E kind : Committing(t, kind, {})
    BY <1>3 DEF CommitUnbind, CommitRemove, CommitToggle, CommitDeactivate, CommitReactivate,
                CommitApp, CommitMove
  <2>2. bindings' \subseteq bindings /\ \A r \in Roles : mapping'[r] \subseteq mapping[r]
    BY <1>3, <1>0 DEF CommitUnbind, CommitRemove, CommitToggle, CommitDeactivate, CommitReactivate,
                      CommitApp, CommitMove
  <2>3. Tells({})
    BY <1>0, <2>2 DEF Binding
  <2> QED BY <2>1, <2>3
<1> QED BY <1>1, <1>2, <1>3 DEF CommitSome

-----------------------------------------------------------------------------
(* What a subject is granted depends on its own bindings and on nothing that *)
(* is not theirs.                                                            *)
GrantedBy(b) == (active \cap mapping[b.role]) \X {place[b.node]}

LEMMA GrantsFollow ==
    ASSUME NEW s, enabled' = enabled,
           \A b : b.subj = s => /\ b \in bindings <=> b \in bindings'
                                /\ b \in bindings => GrantedBy(b) = GrantedBy(b)'
    PROVE  WhileAppActive(s)' = WhileAppActive(s)
<1>1. {c \in bindings : c.subj = s}' = {c \in bindings : c.subj = s}
  OBVIOUS
<1>2. \A b \in {c \in bindings : c.subj = s} : GrantedBy(b)' = GrantedBy(b)
  OBVIOUS
<1>3. UNION {GrantedBy(b)' : b \in {c \in bindings : c.subj = s}'}
          = UNION {GrantedBy(b) : b \in {c \in bindings : c.subj = s}}
  BY <1>1, <1>2
<1> QED BY <1>3 DEF WhileAppActive, GrantedBy

LEMMA GrantsGrow ==
    ASSUME NEW s, enabled' = enabled, bindings' = bindings,
           \A b \in bindings : b.subj = s => GrantedBy(b) \subseteq GrantedBy(b)'
    PROVE  WhileAppActive(s) \subseteq WhileAppActive(s)'
<1>1. UNION {GrantedBy(b) : b \in {c \in bindings : c.subj = s}}
          \subseteq UNION {GrantedBy(b)' : b \in {c \in bindings : c.subj = s}'}
  OBVIOUS
<1> QED BY <1>1 DEF WhileAppActive, GrantedBy

(* Who is not owed a bump by a commit, and comes out of it with no excuse,   *)
(* has the grants it had.                                                    *)
LEMMA CommitsSpare ==
    ASSUME TablesTyped, Enumerated, NEW t \in Txs, CommitSome(t), NEW s \in Subjects
    PROVE  /\ excused[s] \subseteq excused'[s]
           /\ s \notin tx[t].owes /\ excused'[s] = {} => Resolve(s)' = Resolve(s)
           /\ s \notin tx[t].owes /\ excused'[s] \subseteq {"silent"} =>
                  WhileAppActive(s) \subseteq WhileAppActive(s)'
<1> DEFINE Spared == /\ excused[s] \subseteq excused'[s]
                     /\ s \notin tx[t].owes /\ excused'[s] = {} => Resolve(s)' = Resolve(s)
                     /\ s \notin tx[t].owes /\ excused'[s] \subseteq {"silent"} =>
                            WhileAppActive(s) \subseteq WhileAppActive(s)'
<1>0. /\ bindings \subseteq Binding
      /\ mapping \in [Roles -> SUBSET Perms]
      /\ place \in [Nodes -> Paths]
      /\ excused \in [Subjects -> SUBSET {"lost", "missed", "silent"}]
  BY DEF TablesTyped
<1>a. tx[t] \in Pending /\ tx[t].op \in Op /\ Covers(tx[t].op, tx[t].owes, tx[t].late)
  BY Changes DEF Enumerated, Covered, Open, CommitSome, CommitBind, CommitUnbind, CommitSet, CommitRemove,
     CommitToggle, CommitApp, CommitDeactivate, CommitReactivate, CommitMove, Committing
<1>m. ASSUME Announced(t)
      PROVE  /\ excused[s] \subseteq excused'[s]
             /\ s \notin tx[t].owes /\ excused'[s] \subseteq {"silent"} => s \notin tx[t].owes \cup tx[t].late
  BY <1>0, <1>m DEF Announced, Excused
(* The announced ones: for who is neither owed nor late nothing changes.     *)
<1>n. ASSUME Announced(t), appActive' = appActive,
             s \notin tx[t].owes \cup tx[t].late => WhileAppActive(s)' = WhileAppActive(s)
      PROVE  Spared
  BY <1>m, <1>n DEF Resolve
<1>1. ASSUME CommitBind(t) \/ CommitUnbind(t) PROVE Spared
  <2>1. tx[t].op.b.subj \in tx[t].owes
    BY <1>1, <1>a DEF Covers, CommitBind, CommitUnbind, Committing
  <2>2. ASSUME s \notin tx[t].owes PROVE WhileAppActive(s)' = WhileAppActive(s)
    <3>1. \A b : b.subj = s => (b \in bindings <=> b \in bindings')
      BY <1>1, <2>1, <2>2 DEF CommitBind, CommitUnbind
    <3>2. \A b : GrantedBy(b)' = GrantedBy(b)
      BY <1>1 DEF CommitBind, CommitUnbind, GrantedBy
    <3>3. enabled' = enabled
      BY <1>1 DEF CommitBind, CommitUnbind
    <3> QED BY <3>1, <3>2, <3>3, GrantsFollow
  <2> QED BY <1>1, <1>n, <2>2 DEF CommitBind, CommitUnbind
<1>2. ASSUME CommitSet(t) PROVE Spared
  <2>1. tx[t].op \in SetOp /\ BoundToRole(tx[t].op.role) \subseteq tx[t].owes \cup tx[t].late
    BY <1>2, <1>a, OpKinds DEF Covers, CommitSet, Committing
  <2>2. ASSUME s \notin tx[t].owes \cup tx[t].late PROVE WhileAppActive(s)' = WhileAppActive(s)
    <3>1. \A b \in bindings : b.subj = s => b.role # tx[t].op.role /\ b.role \in Roles
      BY <1>0, <2>1, <2>2 DEF BoundToRole, Binding
    <3>2. \A b \in bindings : b.subj = s => GrantedBy(b)' = GrantedBy(b)
      BY <1>0, <1>2, <3>1 DEF CommitSet, GrantedBy
    <3>3. enabled' = enabled /\ bindings' = bindings
      BY <1>2 DEF CommitSet
    <3> QED BY <3>2, <3>3, GrantsFollow
  <2> QED BY <1>2, <1>n, <2>2 DEF CommitSet
<1>3. ASSUME CommitRemove(t) PROVE Spared
  <2>1. tx[t].op \in RemoveOp /\ BoundToRole(tx[t].op.role) \subseteq tx[t].owes \cup tx[t].late
    BY <1>3, <1>a, OpKinds DEF Covers, CommitRemove, Committing
  <2>2. ASSUME s \notin tx[t].owes \cup tx[t].late PROVE WhileAppActive(s)' = WhileAppActive(s)
    <3>1. \A b \in bindings : b.subj = s => b.role # tx[t].op.role /\ b.role \in Roles
      BY <1>0, <2>1, <2>2 DEF BoundToRole, Binding
    <3>2. \A b \in bindings : b.subj = s => GrantedBy(b)' = GrantedBy(b)
      BY <1>0, <1>3, <3>1 DEF CommitRemove, GrantedBy
    <3>3. \A b : b.subj = s => (b \in bindings <=> b \in bindings')
      BY <1>3, <3>1 DEF CommitRemove
    <3>4. enabled' = enabled
      BY <1>3 DEF CommitRemove
    <3> QED BY <3>2, <3>3, <3>4, GrantsFollow
  <2> QED BY <1>3, <1>n, <2>2 DEF CommitRemove
<1>4. ASSUME CommitToggle(t), tx[t].op.bumps PROVE Spared
  <2>1. OfClient \subseteq tx[t].owes \cup tx[t].late
    BY <1>4, <1>a DEF Covers, CommitToggle, Committing
  <2>2. ASSUME s \notin tx[t].owes \cup tx[t].late PROVE WhileAppActive(s)' = WhileAppActive(s)
    <3>1. {c \in bindings : c.subj = s} = {} /\ bindings' = bindings
      BY <1>4, <2>1, <2>2 DEF OfClient, CommitToggle
    <3>2. {c \in bindings : c.subj = s}' = {}
      BY <3>1
    <3>3. WhileAppActive(s) = {}
      BY <3>1 DEF WhileAppActive
    <3>4. WhileAppActive(s)' = {}
      BY <3>2 DEF WhileAppActive
    <3> QED BY <3>3, <3>4
  <2> QED BY <1>4, <1>n, <2>2 DEF CommitToggle
(* Nobody is bumped: the flag is set, and either was, or is so in silence.   *)
<1>b. ASSUME CommitToggle(t), ~tx[t].op.bumps PROVE Spared
  <2>1. tx[t].op.on /\ tx[t].op \in FlagOp
    BY <1>b, <1>a, OpKinds DEF Covers, CommitToggle, Committing
  <2>2. /\ enabled' = TRUE
        /\ bindings' = bindings /\ mapping' = mapping /\ active' = active /\ place' = place
        /\ appActive' = appActive
        /\ excused' = Excused(IF enabled = tx[t].op.on THEN {} ELSE OfClient, "silent")
    BY <1>b, <2>1 DEF CommitToggle, FlagOp
  <2>3. excused[s] \subseteq excused'[s]
    BY <2>2 DEF Excused
  <2>4. ASSUME excused'[s] = {} PROVE WhileAppActive(s)' = WhileAppActive(s)
    <3>1. CASE enabled = TRUE
      BY <2>2, <3>1 DEF WhileAppActive
    <3>2. CASE enabled # TRUE
      <4>1. enabled = FALSE /\ s \notin OfClient
        BY <2>1, <2>2, <2>4, <3>2 DEF Excused, TablesTyped, FlagOp
      <4>2. {c \in bindings : c.subj = s} = {}
        BY <4>1 DEF OfClient
      <4>3. {c \in bindings : c.subj = s}' = {}
        BY <2>2, <4>2
      <4>4. WhileAppActive(s) = {}
        BY <4>1 DEF WhileAppActive
      <4>5. WhileAppActive(s)' = {}
        BY <4>3 DEF WhileAppActive
      <4> QED BY <4>4, <4>5
    <3> QED BY <3>1, <3>2
  <2>5. WhileAppActive(s) \subseteq WhileAppActive(s)'
    <3>1. CASE enabled = TRUE
      BY <2>2, <3>1 DEF WhileAppActive
    <3>2. CASE enabled # TRUE
      BY <3>2 DEF WhileAppActive, TablesTyped
    <3> QED BY <3>1, <3>2
  <2> QED BY <2>2, <2>3, <2>4, <2>5 DEF Resolve
<1>5. ASSUME CommitDeactivate(t) PROVE Spared
  <2>1. BoundToPermission(tx[t].op.perm) \subseteq tx[t].owes \cup tx[t].late
    BY <1>5, <1>a DEF Covers, CommitDeactivate, Committing
  <2>2. ASSUME s \notin tx[t].owes \cup tx[t].late PROVE WhileAppActive(s)' = WhileAppActive(s)
    <3>1. \A b \in bindings : b.subj = s => tx[t].op.perm \notin mapping[b.role]
      BY <2>1, <2>2 DEF BoundToPermission
    <3>2. \A b \in bindings : b.subj = s => active' \cap mapping'[b.role] = active \cap mapping[b.role]
      BY <1>5, <3>1 DEF CommitDeactivate
    <3>3. \A b \in bindings : b.subj = s => GrantedBy(b)' = GrantedBy(b)
      BY <1>5, <3>2 DEF CommitDeactivate, GrantedBy
    <3>4. enabled' = enabled /\ bindings' = bindings
      BY <1>5 DEF CommitDeactivate
    <3> QED BY <3>3, <3>4, GrantsFollow
  <2> QED BY <1>5, <1>n, <2>2 DEF CommitDeactivate
<1>6. ASSUME CommitReactivate(t) PROVE Spared
  <2>1. excused[s] \subseteq excused'[s]
    BY <1>6 DEF CommitReactivate, Excused
  <2>2. enabled' = enabled /\ bindings' = bindings /\ appActive' = appActive
    BY <1>6 DEF CommitReactivate
  <2>3. WhileAppActive(s) \subseteq WhileAppActive(s)'
    <3>1. \A b : GrantedBy(b) \subseteq GrantedBy(b)'
      BY <1>6 DEF CommitReactivate, GrantedBy
    <3> QED BY <2>2, <3>1, GrantsGrow
  <2>4. ASSUME excused'[s] = {} PROVE WhileAppActive(s)' = WhileAppActive(s)
    <3>1. s \notin BoundToPermission(tx[t].op.perm)
      BY <1>6, <2>4 DEF CommitReactivate, Excused
    <3>2. \A b \in bindings : b.subj = s => tx[t].op.perm \notin mapping[b.role]
      BY <3>1 DEF BoundToPermission
    <3>3. \A b \in bindings : b.subj = s => active' \cap mapping'[b.role] = active \cap mapping[b.role]
      BY <1>6, <3>2 DEF CommitReactivate
    <3>4. \A b \in bindings : b.subj = s => GrantedBy(b)' = GrantedBy(b)
      BY <1>6, <3>3 DEF CommitReactivate, GrantedBy
    <3> QED BY <2>2, <3>4, GrantsFollow
  <2> QED BY <2>1, <2>2, <2>3, <2>4 DEF Resolve
<1>7. ASSUME CommitApp(t) PROVE Spared
  <2>1. excused[s] \subseteq excused'[s]
    BY <1>7 DEF CommitApp, Excused
  <2>2. WhileAppActive(s)' = WhileAppActive(s)
    BY <1>7 DEF CommitApp, WhileAppActive
  <2>3. ASSUME excused'[s] = {} PROVE WhileAppActive(s) = {}
    <3>1. s \notin OfClient
      BY <1>7, <2>3 DEF CommitApp, Excused
    <3>2. {c \in bindings : c.subj = s} = {}
      BY <3>1 DEF OfClient
    <3> QED BY <3>2 DEF WhileAppActive
  <2> QED BY <2>1, <2>2, <2>3 DEF Resolve
<1>8. ASSUME CommitMove(t) PROVE Spared
  <2>1. tx[t].op \in MoveOp /\ Under(tx[t].op.node) \subseteq tx[t].owes \cup tx[t].late
    BY <1>8, <1>a, OpKinds DEF Covers, CommitMove, Committing
  <2>2. ASSUME s \notin tx[t].owes \cup tx[t].late PROVE WhileAppActive(s)' = WhileAppActive(s)
    <3>1. \A b \in bindings : b.subj = s => b.node # tx[t].op.node /\ b.node \in Nodes
      BY <1>0, <2>1, <2>2 DEF Under, Binding
    <3>2. \A b \in bindings : b.subj = s => GrantedBy(b)' = GrantedBy(b)
      BY <1>0, <1>8, <3>1 DEF CommitMove, GrantedBy
    <3>3. enabled' = enabled /\ bindings' = bindings
      BY <1>8 DEF CommitMove
    <3> QED BY <3>2, <3>3, GrantsFollow
  <2> QED BY <1>8, <1>n, <2>2 DEF CommitMove
<1> QED BY <1>1, <1>2, <1>3, <1>4, <1>b, <1>5, <1>6, <1>7, <1>8 DEF CommitSome

-----------------------------------------------------------------------------
(* What is left of a transaction whose bump has landed, or was lost.         *)
LEMMA Publishes ==
    ASSUME TablesTyped, NEW t \in Txs
    PROVE  /\ Abort(t) \/ LosePublish(t) =>
                  /\ tx' \in [Txs -> {Idle} \cup Pending]
                  /\ tx'[t] = Idle /\ \A u \in Txs \ {t} : tx'[u] = tx[u]
           /\ \A s \in Subjects : Bump(t, s) =>
                  /\ tx' \in [Txs -> {Idle} \cup Pending]
                  /\ tx[t].pc = "publishing" /\ s \in tx[t].owes
                  /\ \/ tx'[t] = Idle /\ tx[t].owes = {s}
                     \/ tx'[t].pc = "publishing" /\ tx'[t].owes = tx[t].owes \ {s} /\ tx'[t] # Idle
                  /\ \A u \in Txs \ {t} : tx'[u] = tx[u]
<1>0. tx \in [Txs -> {Idle} \cup Pending]
  BY DEF TablesTyped
<1>1. ASSUME Abort(t) \/ LosePublish(t)
      PROVE  /\ tx' \in [Txs -> {Idle} \cup Pending]
             /\ tx'[t] = Idle /\ \A u \in Txs \ {t} : tx'[u] = tx[u]
  <2>1. tx' = [tx EXCEPT ![t] = Idle]
    BY <1>1 DEF Abort, LosePublish
  <2> QED BY <1>0, <2>1
<1>2. ASSUME NEW s \in Subjects, Bump(t, s)
      PROVE  /\ tx' \in [Txs -> {Idle} \cup Pending]
             /\ tx[t].pc = "publishing" /\ s \in tx[t].owes
             /\ \/ tx'[t] = Idle /\ tx[t].owes = {s}
                \/ tx'[t].pc = "publishing" /\ tx'[t].owes = tx[t].owes \ {s} /\ tx'[t] # Idle
             /\ \A u \in Txs \ {t} : tx'[u] = tx[u]
  <2> DEFINE rest == tx[t].owes \ {s}
             left == [tx[t] EXCEPT !.owes = rest]
  <2>1. tx[t].pc = "publishing" /\ s \in tx[t].owes
    BY <1>2 DEF Bump
  <2>2. tx[t] \in Pending
    BY <2>1, Changes
  <2>3. left \in Pending /\ left.pc = "publishing" /\ left.owes = rest
    BY <2>1, <2>2 DEF Pending
  <2>4. tx' = [tx EXCEPT ![t] = IF rest = {} THEN Idle ELSE left]
    BY <1>2 DEF Bump
  <2>5. Idle.pc = "idle"
    BY DEF Idle
  <2> HIDE DEF left
  <2> QED BY <1>0, <2>1, <2>3, <2>4, <2>5
<1> QED BY <1>1, <1>2

(* Every operation leaves the tables what they are.                          *)
LEMMA TablesStep == TablesTyped /\ [Next]_vars => TablesTyped'
<1> SUFFICES ASSUME TablesTyped, [Next]_vars PROVE TablesTyped'
  OBVIOUS
<1>0. /\ bindings \subseteq Binding /\ active \subseteq Perms
      /\ mapping \in [Roles -> SUBSET Perms]
      /\ place \in [Nodes -> Paths]
      /\ excused \in [Subjects -> SUBSET {"lost", "missed", "silent"}]
  BY DEF TablesTyped
<1>a. \A S : \A reason \in {"lost", "missed", "silent"} :
          Excused(S, reason) \in [Subjects -> SUBSET {"lost", "missed", "silent"}]
  BY <1>0 DEF Excused
<1>1. ASSUME NEW t \in Txs, BeginSome(t) \/ WriteFlag(t) PROVE TablesTyped'
  BY <1>1, Starts
<1>2. ASSUME NEW t \in Txs, CommitSome(t) PROVE TablesTyped'
  <2>1. /\ tx' \in [Txs -> {Idle} \cup Pending]
        /\ tx[t].op \in Op
    BY <1>2, CommitsTelling, Commits
  <2>2. CASE CommitBind(t)
    <3>1. tx[t].op \in BindOp
      BY <2>1, <2>2, OpKinds DEF CommitBind, Committing
    <3> QED BY <1>a, <2>1, <2>2, <3>1 DEF CommitBind, Announced, TablesTyped, BindOp
  <2>3. CASE CommitUnbind(t)
    BY <1>a, <2>1, <2>3 DEF CommitUnbind, Announced, TablesTyped
  <2>4. CASE CommitSet(t)
    <3>1. tx[t].op \in SetOp
      BY <2>1, <2>4, OpKinds DEF CommitSet, Committing
    <3>2. mapping' \in [Roles -> SUBSET Perms]
      BY <1>0, <2>4, <3>1 DEF CommitSet, SetOp
    <3> QED BY <1>a, <2>1, <2>4, <3>2 DEF CommitSet, Announced, TablesTyped
  <2>5. CASE CommitRemove(t)
    BY <1>a, <2>1, <2>5 DEF CommitRemove, Announced, TablesTyped
  <2>6. CASE CommitToggle(t)
    <3>1. tx[t].op.on \in BOOLEAN
      BY <2>1, <2>6, OpKinds DEF CommitToggle, Committing, FlagOp
    <3>2. excused' \in [Subjects -> SUBSET {"lost", "missed", "silent"}]
      BY <1>a, <2>6 DEF CommitToggle, Announced
    <3> QED BY <2>1, <2>6, <3>1, <3>2 DEF CommitToggle, TablesTyped
  <2>9. CASE CommitApp(t)
    <3>1. tx[t].op \in SwitchOp
      BY <2>1, <2>9, OpKinds DEF CommitApp, Committing
    <3> QED BY <1>a, <2>1, <2>9, <3>1 DEF CommitApp, TablesTyped, SwitchOp
  <2>7. CASE CommitDeactivate(t) \/ CommitReactivate(t)
    <3>1. tx[t].op \in PermOp
      BY <2>1, <2>7, OpKinds DEF CommitDeactivate, CommitReactivate, Committing
    <3> QED BY <1>a, <2>1, <2>7, <3>1 DEF CommitDeactivate, CommitReactivate, Announced, TablesTyped, PermOp
  <2>8. CASE CommitMove(t)
    <3>1. tx[t].op \in MoveOp
      BY <2>1, <2>8, OpKinds DEF CommitMove, Committing
    <3> QED BY <1>a, <2>1, <2>8, <3>1 DEF CommitMove, Announced, TablesTyped, MoveOp
  <2> QED BY <1>2, <2>2, <2>3, <2>4, <2>5, <2>6, <2>7, <2>8, <2>9 DEF CommitSome
<1>3. ASSUME NEW t \in Txs, Abort(t) \/ LosePublish(t) PROVE TablesTyped'
  BY <1>a, <1>3, Publishes DEF Abort, LosePublish, TablesTyped, db
<1>4. ASSUME NEW t \in Txs, NEW s \in Subjects, Bump(t, s) PROVE TablesTyped'
  <2>1. tx' \in [Txs -> {Idle} \cup Pending]
    BY <1>4, Publishes
  <2> QED BY <1>4, <2>1 DEF Bump, TablesTyped, db
<1>5. ASSUME NEW r \in Readers, ReaderStep(r) PROVE TablesTyped'
  BY <1>5 DEF ReaderStep, Fill, Store, Hit, Read, TablesTyped, vars, db
<1>6. CASE UNCHANGED vars
  BY <1>6 DEF vars, db, TablesTyped
<1> QED BY <1>1, <1>2, <1>3, <1>4, <1>5, <1>6 DEF Next, TxStep

-----------------------------------------------------------------------------
(* A bump that lands was owed, and is owed no more.                          *)
LEMMA CountedStep == TablesTyped /\ Counted /\ [Next]_vars => Counted'
<1> SUFFICES ASSUME TablesTyped, Counted, [Next]_vars PROVE Counted'
  OBVIOUS
<1>0. /\ ops \in 0 .. MaxOps /\ counter \in [Subjects -> Nat]
      /\ \A s \in Subjects : IsFiniteSet(Due(s)) /\ counter[s] + Cardinality(Due(s)) <= ops
  BY DEF Counted
<1>c. \A s \in Subjects : Cardinality(Due(s)) \in Nat
  BY <1>0, FS_CardinalityType
(* Nothing new is due.                                                       *)
<1>a. ASSUME UNCHANGED <<counter, ops>>, \A s \in Subjects : Due(s)' \subseteq Due(s)
      PROVE  Counted'
  <2>1. ASSUME NEW s \in Subjects
        PROVE  IsFiniteSet(Due(s)') /\ counter[s] + Cardinality(Due(s)') <= ops
    <3>1. IsFiniteSet(Due(s)') /\ Cardinality(Due(s)') <= Cardinality(Due(s))
      BY <1>0, <1>a, FS_Subset
    <3>2. Cardinality(Due(s)') \in Nat
      BY <3>1, FS_CardinalityType
    <3> QED BY <1>0, <1>c, <3>1, <3>2
  <2> QED BY <1>0, <1>a, <2>1 DEF Counted
<1>1. ASSUME NEW t \in Txs, BeginSome(t) \/ WriteFlag(t) PROVE Counted'
  <2>1. UNCHANGED counter /\ \A u \in Txs \ {t} : tx'[u] = tx[u]
    BY <1>1, Starts DEF cache
  <2>2. CASE tx[t] # Idle
    <3>1. tx[t].pc = "deciding" /\ ops' = ops
      BY <1>1, <2>2, Starts
    <3>2. \A s \in Subjects : Due(s)' \subseteq Due(s)
      BY <2>1, <2>2, <3>1 DEF Due
    <3> QED BY <1>a, <2>1, <3>1, <3>2
  <2>3. CASE tx[t] = Idle
    <3>0. ops < MaxOps /\ ops' = ops + 1
      BY <1>1, <2>3, Starts
    <3>a. ASSUME NEW s \in Subjects
          PROVE  IsFiniteSet(Due(s)') /\ counter'[s] + Cardinality(Due(s)') <= ops'
      <4>1. Due(s)' \subseteq Due(s) \cup {t}
        BY <2>1 DEF Due
      <4>2. t \notin Due(s)
        BY <2>3 DEF Due
      <4>3. /\ IsFiniteSet(Due(s) \cup {t})
            /\ Cardinality(Due(s) \cup {t}) = Cardinality(Due(s)) + 1
        BY <1>0, <4>2, FS_AddElement
      <4>4. IsFiniteSet(Due(s)') /\ Cardinality(Due(s)') <= Cardinality(Due(s)) + 1
        BY <4>1, <4>3, FS_Subset
      <4>5. Cardinality(Due(s)') \in Nat
        BY <4>4, FS_CardinalityType
      <4> QED BY <1>0, <1>c, <2>1, <3>0, <4>4, <4>5
    <3>b. ops' \in 0 .. MaxOps
      BY <1>0, <3>0, MaxOpsAssumption
    <3> QED BY <1>0, <2>1, <3>a, <3>b DEF Counted
  <2> QED BY <2>2, <2>3
<1>2. ASSUME NEW t \in Txs, CommitSome(t) PROVE Counted'
  <2> PICK kind : \E gained \in SUBSET Subjects : Committing(t, kind, gained)
    BY <1>2, CommitsTelling
  <2>1. PICK gained \in SUBSET Subjects : Committing(t, kind, gained)
    OBVIOUS
  <2>2. /\ UNCHANGED <<counter, ops>>
        /\ tx[t] # Idle
        /\ tx'[t] # Idle => tx'[t].owes = tx[t].owes /\ tx'[t].pc # "deciding"
        /\ \A u \in Txs \ {t} : tx[u].pc # "open" => tx'[u] = tx[u]
        /\ \A u \in Txs \ {t} : tx[u].pc = "open" =>
              tx[u] # Idle /\ tx'[u].owes = tx[u].owes /\ tx'[u].pc = "open"
    BY <2>1, Commits, Changes DEF cache
  <2>3. \A s \in Subjects : Due(s)' \subseteq Due(s)
    BY <2>2 DEF Due
  <2> QED BY <1>a, <2>2, <2>3
<1>3. ASSUME NEW t \in Txs, Abort(t) \/ LosePublish(t) PROVE Counted'
  <2>1. \A s \in Subjects : Due(s)' \subseteq Due(s)
    BY <1>3, Publishes DEF Due
  <2> QED BY <1>a, <1>3, <2>1 DEF Abort, LosePublish, cache
<1>4. ASSUME NEW t \in Txs, NEW s \in Subjects, Bump(t, s) PROVE Counted'
  <2>1. /\ tx[t] # Idle /\ s \in tx[t].owes
        /\ tx[t].pc = "publishing"
        /\ tx'[t] # Idle => tx'[t].owes = tx[t].owes \ {s} /\ tx'[t].pc = "publishing"
        /\ \A u \in Txs \ {t} : tx'[u] = tx[u]
    BY <1>4, Publishes, Changes
  <2>2. counter' = [counter EXCEPT ![s] = @ + 1] /\ ops' = ops
    BY <1>4 DEF Bump
  <2>3. ASSUME NEW q \in Subjects
        PROVE  IsFiniteSet(Due(q)') /\ counter'[q] + Cardinality(Due(q)') <= ops
    <3>1. CASE q = s
      <4>1. Due(s)' \subseteq Due(s) \ {t} /\ t \in Due(s)
        BY <2>1 DEF Due
      <4>2. /\ IsFiniteSet(Due(s) \ {t})
            /\ Cardinality(Due(s) \ {t}) = Cardinality(Due(s)) - 1
        BY <1>0, <4>1, FS_RemoveElement
      <4>3. IsFiniteSet(Due(s)') /\ Cardinality(Due(s)') <= Cardinality(Due(s)) - 1
        BY <4>1, <4>2, FS_Subset
      <4>4. Cardinality(Due(s)') \in Nat
        BY <4>3, FS_CardinalityType
      <4> QED BY <1>0, <1>c, <2>2, <3>1, <4>3, <4>4
    <3>2. CASE q # s
      <4>1. Due(q)' \subseteq Due(q)
        BY <2>1, <3>2 DEF Due
      <4>2. IsFiniteSet(Due(q)') /\ Cardinality(Due(q)') <= Cardinality(Due(q))
        BY <1>0, <4>1, FS_Subset
      <4>3. Cardinality(Due(q)') \in Nat
        BY <4>2, FS_CardinalityType
      <4> QED BY <1>0, <1>c, <2>2, <3>2, <4>2, <4>3
    <3> QED BY <3>1, <3>2
  <2>4. counter' \in [Subjects -> Nat]
    BY <1>0, <2>2
  <2> QED BY <1>0, <2>2, <2>3, <2>4 DEF Counted
<1>5. ASSUME UNCHANGED <<tx, counter, ops>> PROVE Counted'
  <2>1. \A s \in Subjects : Due(s)' = Due(s)
    BY <1>5 DEF Due
  <2> QED BY <1>a, <1>5, <2>1
<1>6. ASSUME NEW r \in Readers, ReaderStep(r) PROVE Counted'
  BY <1>5, <1>6 DEF ReaderStep, Fill, Store, Hit, Read, vars, cache
<1>7. CASE UNCHANGED vars
  BY <1>5, <1>7 DEF vars, cache
<1> QED BY <1>1, <1>2, <1>3, <1>4, <1>6, <1>7 DEF Next, TxStep

-----------------------------------------------------------------------------
(* A resolution is made of grants, and the application's switch only clears  *)
(* it.                                                                       *)
LEMMA ResolvesToGrants ==
    ASSUME TablesTyped, NEW s
    PROVE  Resolve(s) \in Grants /\ Resolve(s) \subseteq WhileAppActive(s)
<1>1. /\ bindings \subseteq Binding
      /\ mapping \in [Roles -> SUBSET Perms]
      /\ place \in [Nodes -> Paths]
  BY DEF TablesTyped
<1>2. \A b \in bindings : GrantedBy(b) \subseteq Perms \X Paths
  BY <1>1 DEF GrantedBy, Binding
<1>3. UNION {GrantedBy(b) : b \in {c \in bindings : c.subj = s}} \subseteq Perms \X Paths
  BY <1>2
<1>4. WhileAppActive(s) \subseteq Perms \X Paths
  BY <1>3 DEF WhileAppActive, GrantedBy
<1> QED BY <1>4 DEF Resolve, Grants

(* Counters only grow, and a reader takes the version there is.              *)
LEMMA CacheStep == TablesTyped /\ Counted /\ CacheTyped /\ [Next]_vars => CacheTyped'
<1> SUFFICES ASSUME TablesTyped, Counted, CacheTyped, [Next]_vars PROVE CacheTyped'
  OBVIOUS
<1> DEFINE Entry == [v : 0 .. MaxOps, grants : Grants]
           Filling == [pc : {"resolving", "writing"}, subj : Subjects, v : 0 .. MaxOps, grants : Grants]
<1>0. /\ entry \in [Subjects -> Entry \cup {NoEntry}]
      /\ reader \in [Readers -> {NotFilling} \cup Filling]
      /\ \A s \in Subjects : entry[s] # NoEntry => entry[s].v <= counter[s]
      /\ \A r \in Readers : reader[r] # NotFilling => reader[r].v <= counter[reader[r].subj]
  BY DEF CacheTyped
<1>b. \A s \in Subjects : counter[s] \in Nat /\ counter[s] \in 0 .. MaxOps
  <2> SUFFICES ASSUME NEW s \in Subjects PROVE counter[s] \in Nat /\ counter[s] \in 0 .. MaxOps
    OBVIOUS
  <2>1. counter[s] \in Nat /\ Cardinality(Due(s)) \in Nat /\ counter[s] + Cardinality(Due(s)) <= ops
    BY FS_CardinalityType DEF Counted
  <2> QED BY <2>1, MaxOpsAssumption DEF Counted
<1>k. NotFilling.pc = "idle"
  BY DEF NotFilling
<1>a. ASSUME UNCHANGED cache PROVE CacheTyped'
  BY <1>a DEF cache, CacheTyped
<1>1. ASSUME NEW t \in Txs, BeginSome(t) \/ WriteFlag(t) PROVE CacheTyped'
  BY <1>1, <1>a, Starts
<1>2. ASSUME NEW t \in Txs, CommitSome(t) PROVE CacheTyped'
  BY <1>2, <1>a, CommitsTelling, Commits
<1>3. ASSUME NEW t \in Txs, Abort(t) \/ LosePublish(t) PROVE CacheTyped'
  BY <1>3, <1>a DEF Abort, LosePublish
<1>4. ASSUME NEW t \in Txs, NEW s \in Subjects, Bump(t, s) PROVE CacheTyped'
  <2>1. counter' = [counter EXCEPT ![s] = @ + 1] /\ UNCHANGED <<entry, reader>>
    BY <1>4 DEF Bump
  <2>2. counter \in [Subjects -> Nat]
    BY DEF Counted
  <2>3. \A q \in Subjects : counter[q] <= counter'[q] /\ counter'[q] \in Nat
    BY <2>1, <2>2
  <2>4. ASSUME NEW q \in Subjects, entry[q] # NoEntry PROVE entry[q].v <= counter'[q]
    <3>1. entry[q] \in Entry /\ entry[q].v <= counter[q]
      BY <1>0, <2>4
    <3>2. entry[q].v \in Int
      BY <3>1
    <3> QED BY <1>b, <2>3, <3>1, <3>2
  <2>5. ASSUME NEW r \in Readers, reader[r] # NotFilling
        PROVE  reader[r].v <= counter'[reader[r].subj]
    <3>1. reader[r] \in Filling /\ reader[r].v <= counter[reader[r].subj]
      BY <1>0, <2>5
    <3>2. reader[r].v \in Int /\ reader[r].subj \in Subjects
      BY <3>1
    <3> QED BY <1>b, <2>3, <3>1, <3>2
  <2> QED BY <1>0, <2>1, <2>4, <2>5 DEF CacheTyped
<1>5. ASSUME NEW r \in Readers, NEW s \in Subjects, Read(r, s) PROVE CacheTyped'
  <2> DEFINE new == [pc |-> "resolving", subj |-> s, v |-> counter[s], grants |-> {}]
  <2>1. new \in Filling /\ new.v = counter[s] /\ new.subj = s
    BY <1>b DEF Grants
  <2>2. reader' = [reader EXCEPT ![r] = new] /\ UNCHANGED <<entry, counter>>
    BY <1>5 DEF Read
  <2> HIDE DEF new
  <2>3. reader' \in [Readers -> {NotFilling} \cup Filling]
    BY <1>0, <2>1, <2>2
  <2>4. \A q \in Readers : reader'[q] # NotFilling => reader'[q].v <= counter[reader'[q].subj]
    BY <1>0, <1>b, <2>1, <2>2
  <2> QED BY <1>0, <2>2, <2>3, <2>4 DEF CacheTyped
<1>6. ASSUME NEW r \in Readers, Fill(r) PROVE CacheTyped'
  <2> DEFINE new == [pc |-> "writing", subj |-> reader[r].subj, v |-> reader[r].v,
                     grants |-> Resolve(reader[r].subj)]
  <2>1. reader[r] \in Filling /\ reader[r].v <= counter[reader[r].subj]
    BY <1>0, <1>6, <1>k DEF Fill
  <2>2. new \in Filling /\ new.v = reader[r].v /\ new.subj = reader[r].subj
    BY <2>1, ResolvesToGrants
  <2>3. reader' = [reader EXCEPT ![r] = new] /\ UNCHANGED <<entry, counter>>
    BY <1>0, <1>6 DEF Fill
  <2> HIDE DEF new
  <2>4. reader' \in [Readers -> {NotFilling} \cup Filling]
    BY <1>0, <2>2, <2>3
  <2>5. \A q \in Readers : reader'[q] # NotFilling => reader'[q].v <= counter[reader'[q].subj]
    BY <1>0, <2>1, <2>2, <2>3
  <2> QED BY <1>0, <2>3, <2>4, <2>5 DEF CacheTyped
<1>7. ASSUME NEW r \in Readers, Store(r) PROVE CacheTyped'
  <2> DEFINE new == [v |-> reader[r].v, grants |-> reader[r].grants]
  <2>1. reader[r] \in Filling /\ reader[r].v <= counter[reader[r].subj] /\ reader[r].subj \in Subjects
    BY <1>0, <1>7, <1>k DEF Store
  <2>2. new \in Entry /\ new.v = reader[r].v
    BY <2>1
  <2>3. /\ reader' = [reader EXCEPT ![r] = NotFilling] /\ UNCHANGED counter
        /\ entry' = [entry EXCEPT ![reader[r].subj] = new] \/ entry' = entry
    BY <1>7 DEF Store
  <2> HIDE DEF new
  <2>4. /\ entry' \in [Subjects -> Entry \cup {NoEntry}]
        /\ \A q \in Subjects : entry'[q] # NoEntry => entry'[q].v <= counter[q]
    BY <1>0, <2>1, <2>2, <2>3
  <2>5. /\ reader' \in [Readers -> {NotFilling} \cup Filling]
        /\ \A q \in Readers : reader'[q] # NotFilling => reader'[q] = reader[q]
    BY <1>0, <2>3
  <2> QED BY <1>0, <2>3, <2>4, <2>5 DEF CacheTyped
<1>8. ASSUME UNCHANGED vars PROVE CacheTyped'
  BY <1>8, <1>a DEF vars
<1>9. ASSUME NEW r \in Readers, NEW s \in Subjects, Hit(r, s) PROVE CacheTyped'
  BY <1>8, <1>9 DEF Hit
<1> QED BY <1>1, <1>2, <1>3, <1>4, <1>5, <1>6, <1>7, <1>8, <1>9 DEF Next, TxStep, ReaderStep

-----------------------------------------------------------------------------
(* An enumeration that is behind a transaction stays good for what others    *)
(* commit, with those who are late.                                          *)
LEMMA EnumeratedStep == TablesTyped /\ Enumerated /\ [Next]_vars => Enumerated'
<1> SUFFICES ASSUME TablesTyped, Enumerated, [Next]_vars PROVE Enumerated'
  OBVIOUS
<1>k. Idle.pc = "idle"
  BY DEF Idle
<1>l. /\ UNCHANGED db => /\ UNCHANGED bindings
                         /\ \A x : BoundToRole(x)' = BoundToRole(x)
                         /\ \A x : BoundToPermission(x)' = BoundToPermission(x)
                         /\ \A x : Under(x)' = Under(x)
                         /\ OfClient' = OfClient
  BY DEF db, BoundToRole, BoundToPermission, Under, OfClient
<1>a. ASSUME UNCHANGED db, NEW t \in Txs, Open(t)' => Covered(t)',
             tx'[t].pc = "deciding" => Decides(tx'[t].op),
             \A u \in Txs \ {t} : tx'[u] = tx[u]
      PROVE  Enumerated'
  <2>1. ASSUME NEW u \in Txs \ {t}, Open(u)' PROVE Covered(u)'
    <3>1. tx'[u] = tx[u] /\ Covered(u)
      BY <1>a, <2>1 DEF Enumerated, Open
    <3> QED BY <1>a, <1>l, <3>1 DEF Covered, Covers
  <2>2. \A u \in Txs : tx'[u].pc = "deciding" => Decides(tx'[u].op)
    BY <1>a DEF Enumerated
  <2> QED BY <1>a, <2>1, <2>2 DEF Enumerated
<1>1. ASSUME NEW t \in Txs, BeginSome(t) \/ WriteFlag(t) PROVE Enumerated'
  <2>1. /\ UNCHANGED db /\ \A u \in Txs \ {t} : tx'[u] = tx[u]
        /\ tx'[t].pc = "open" => Covers(tx'[t].op, tx'[t].owes, {})
        /\ tx'[t].pc = "deciding" => Decides(tx'[t].op)
    BY <1>1, Starts
  <2>2. ASSUME Open(t)' PROVE Covered(t)'
    BY <1>l, <2>1, <2>2 DEF Covered, Covers, Open
  <2> QED BY <1>a, <2>1, <2>2
<1>2. ASSUME NEW t \in Txs, CommitSome(t) PROVE Enumerated'
  <2> PICK kind : \E gained \in SUBSET Subjects : Committing(t, kind, gained) /\ Tells(gained)
    BY <1>2, CommitsTelling
  <2>1. PICK gained \in SUBSET Subjects : Committing(t, kind, gained) /\ Tells(gained)
    OBVIOUS
  <2>2. /\ tx'[t].pc # "open" /\ tx'[t].pc # "deciding"
        /\ \A u \in Txs \ {t} : tx[u].pc = "open" => tx'[u].pc = "open"
        /\ \A u \in Txs \ {t} : tx[u].pc # "open" => tx'[u] = tx[u]
        /\ \A u \in Txs \ {t} : tx[u].pc = "open" =>
              /\ tx'[u].op = tx[u].op /\ tx'[u].owes = tx[u].owes
              /\ tx'[u].late = tx[u].late \cup gained
    BY <1>k, <2>1, Commits
  <2>3. ASSUME NEW u \in Txs, Open(u)' PROVE Covered(u)'
    <3>1. u # t /\ tx[u].pc = "open"
      BY <2>2, <2>3 DEF Open
    <3>2. Covered(u) /\ tx[u].op \in Op
      BY <3>1, Changes DEF Enumerated, Open
    <3>3. /\ tx[u].op.kind \in {"set", "remove"} => tx[u].op.role \in Roles
          /\ tx[u].op.kind = "deactivate" => tx[u].op.perm \in Perms
          /\ tx[u].op.kind = "move" => tx[u].op.node \in Nodes
      BY <3>2, OpKinds DEF SetOp, RemoveOp, PermOp, MoveOp
    <3>4. /\ tx'[u].op = tx[u].op /\ tx'[u].owes = tx[u].owes
          /\ tx'[u].late = tx[u].late \cup gained
      BY <2>2, <3>1
    <3> QED BY <2>1, <3>2, <3>3, <3>4 DEF Covered, Covers, Tells
  <2>4. \A u \in Txs : tx'[u].pc = "deciding" => Decides(tx'[u].op)
    BY <2>2 DEF Enumerated
  <2> QED BY <2>3, <2>4 DEF Enumerated
<1>3. ASSUME NEW t \in Txs, Abort(t) \/ LosePublish(t) PROVE Enumerated'
  BY <1>3, <1>a, <1>k, Publishes DEF Abort, LosePublish, Open
<1>4. ASSUME NEW t \in Txs, NEW s \in Subjects, Bump(t, s) PROVE Enumerated'
  <2>1. tx'[t].pc \notin {"open", "deciding"} /\ \A u \in Txs \ {t} : tx'[u] = tx[u]
    BY <1>4, <1>k, Publishes
  <2> QED BY <1>4, <1>a, <2>1 DEF Bump, Open
<1>5. ASSUME UNCHANGED <<db, tx>> PROVE Enumerated'
  BY <1>5, <1>l DEF Enumerated, Covered, Covers, Open
<1>6. ASSUME NEW r \in Readers, ReaderStep(r) PROVE Enumerated'
  BY <1>5, <1>6 DEF ReaderStep, Fill, Store, Hit, Read, vars
<1>7. CASE UNCHANGED vars
  BY <1>5, <1>7 DEF vars
<1> QED BY <1>1, <1>2, <1>3, <1>4, <1>6, <1>7 DEF Next, TxStep

-----------------------------------------------------------------------------
(* Who is owed a bump is so until it lands, or is lost.                      *)
LEMMA OwedStep ==
    ASSUME TablesTyped, NEW t \in Txs, NEW s \in Subjects, ~Owed(s)'
    PROVE  /\ BeginSome(t) \/ WriteFlag(t) \/ Abort(t) => ~Owed(s)
           /\ CommitSome(t) => ~Owed(s) /\ s \notin tx[t].owes
           /\ LosePublish(t) => ~Owed(s) \/ s \in tx[t].owes
           /\ \A q \in Subjects \ {s} : Bump(t, q) => ~Owed(s)
<1>k. Idle.pc = "idle"
  BY DEF Idle
<1>1. ASSUME BeginSome(t) \/ WriteFlag(t) PROVE ~Owed(s)
  <2>1. tx[t] = Idle \/ tx[t].pc = "deciding"
    BY <1>1, Starts
  <2>2. \A u \in Txs \ {t} : tx'[u] = tx[u]
    BY <1>1, Starts
  <2> QED BY <1>k, <2>1, <2>2 DEF Owed
<1>2. ASSUME Abort(t) PROVE ~Owed(s)
  <2>1. tx[t].pc # "publishing" /\ \A u \in Txs \ {t} : tx'[u] = tx[u]
    BY <1>2, Publishes DEF Abort
  <2> QED BY <2>1 DEF Owed
<1>3. ASSUME CommitSome(t) PROVE ~Owed(s) /\ s \notin tx[t].owes
  <2>1. /\ tx[t].pc = "open"
        /\ \/ tx'[t] = Idle /\ tx[t].owes = {}
           \/ tx'[t].pc = "publishing" /\ tx'[t].owes = tx[t].owes
        /\ \A u \in Txs \ {t} : tx[u].pc # "open" => tx'[u] = tx[u]
    BY <1>3, CommitsTelling, Commits
  <2> QED BY <2>1 DEF Owed
<1>4. ASSUME LosePublish(t) PROVE ~Owed(s) \/ s \in tx[t].owes
  <2>1. \A u \in Txs \ {t} : tx'[u] = tx[u]
    BY <1>4, Publishes
  <2> QED BY <2>1 DEF Owed
<1>5. ASSUME NEW q \in Subjects \ {s}, Bump(t, q) PROVE ~Owed(s)
  <2>1. /\ \/ tx[t].owes = {q}
           \/ tx'[t].pc = "publishing" /\ tx'[t].owes = tx[t].owes \ {q}
        /\ \A u \in Txs \ {t} : tx'[u] = tx[u]
    BY <1>5, Publishes
  <2> QED BY <2>1 DEF Owed
<1> QED BY <1>1, <1>2, <1>3, <1>4, <1>5

(* What is stored stays right until something is owed; a bump that lands     *)
(* makes all of it old.                                                      *)
LEMMA AnswersStep ==
    TablesTyped /\ Counted /\ Counted' /\ CacheTyped /\ Enumerated /\ AnswersRight /\ [Next]_vars
        => AnswersRight'
<1> SUFFICES ASSUME TablesTyped, Counted, Counted', CacheTyped, Enumerated, AnswersRight, [Next]_vars
             PROVE  AnswersRight'
  OBVIOUS
<1> DEFINE AnswersFor(s) ==
               /\ Current(s) => Right(s, entry[s].grants)
               /\ \A r \in Readers :
                     reader[r].pc = "writing" /\ reader[r].subj = s /\ reader[r].v = counter[s]
                         => Right(s, reader[r].grants)
<1>0. \A s \in Subjects : ~Owed(s) => AnswersFor(s)
  BY DEF AnswersRight
(* The cache stays, and so does what the subject is granted.                 *)
<1>a. ASSUME UNCHANGED cache, NEW s \in Subjects, ~Owed(s), excused[s] \subseteq excused'[s],
             excused'[s] = {} => Resolve(s)' = Resolve(s),
             excused'[s] \subseteq {"silent"} => WhileAppActive(s) \subseteq WhileAppActive(s)'
      PROVE  AnswersFor(s)'
  <2>1. AnswersFor(s)
    BY <1>0, <1>a
  <2>2. ASSUME NEW grants, Right(s, grants) PROVE Right(s, grants)'
    BY <1>a, <2>2 DEF Right
  <2>3. entry' = entry /\ reader' = reader /\ counter' = counter
    BY <1>a DEF cache
  <2> QED BY <2>1, <2>2, <2>3 DEF Current
<1>b. ASSUME UNCHANGED <<db, excused>>
      PROVE  \A s \in Subjects : \A grants : Right(s, grants)' <=> Right(s, grants)
  BY <1>b DEF Right, Resolve, WhileAppActive, db
<1>c. UNCHANGED db => \A s : Resolve(s)' = Resolve(s) /\ WhileAppActive(s)' = WhileAppActive(s)
  BY DEF Resolve, WhileAppActive, db
<1>k. NotFilling.pc = "idle"
  BY DEF NotFilling
<1>1. ASSUME NEW t \in Txs, BeginSome(t) \/ WriteFlag(t) \/ Abort(t) PROVE AnswersRight'
  <2>1. UNCHANGED <<db, cache, excused>>
    <3>1. BeginSome(t) \/ WriteFlag(t) => UNCHANGED <<db, cache, excused>>
      BY Starts
    <3> QED BY <1>1, <3>1 DEF Abort
  <2>2. ASSUME NEW s \in Subjects, ~Owed(s)' PROVE AnswersFor(s)'
    BY <1>1, <1>a, <1>c, <2>1, <2>2, OwedStep
  <2> QED BY <2>2 DEF AnswersRight
<1>2. ASSUME NEW t \in Txs, CommitSome(t) PROVE AnswersRight'
  <2>1. UNCHANGED cache
    BY <1>2, CommitsTelling, Commits
  <2>2. ASSUME NEW s \in Subjects, ~Owed(s)' PROVE AnswersFor(s)'
    <3>1. ~Owed(s) /\ s \notin tx[t].owes
      BY <1>2, <2>2, OwedStep
    <3>2. /\ excused[s] \subseteq excused'[s]
          /\ excused'[s] = {} => Resolve(s)' = Resolve(s)
          /\ excused'[s] \subseteq {"silent"} => WhileAppActive(s) \subseteq WhileAppActive(s)'
      BY <1>2, <3>1, CommitsSpare
    <3> QED BY <1>a, <2>1, <3>1, <3>2
  <2> QED BY <2>2 DEF AnswersRight
<1>3. ASSUME NEW t \in Txs, LosePublish(t) PROVE AnswersRight'
  <2>1. UNCHANGED <<db, cache>> /\ excused' = Excused(tx[t].owes, "lost")
    BY <1>3 DEF LosePublish
  <2>2. ASSUME NEW s \in Subjects, ~Owed(s)' PROVE AnswersFor(s)'
    <3>1. CASE s \in tx[t].owes
      <4>1. "lost" \in excused'[s]
        BY <2>1, <3>1 DEF Excused
      <4>2. \A grants : Right(s, grants)'
        BY <4>1 DEF Right
      <4> QED BY <4>2
    <3>2. CASE s \notin tx[t].owes
      <4>1. ~Owed(s) /\ excused'[s] = excused[s]
        BY <1>3, <2>1, <2>2, <3>2, OwedStep DEF Excused
      <4> QED BY <1>a, <1>c, <2>1, <4>1
    <3> QED BY <3>1, <3>2
  <2> QED BY <2>2 DEF AnswersRight
<1>4. ASSUME NEW t \in Txs, NEW q \in Subjects, Bump(t, q) PROVE AnswersRight'
  <2>1. /\ UNCHANGED <<db, entry, reader>>
        /\ counter' = [counter EXCEPT ![q] = @ + 1]
        /\ excused' = [excused EXCEPT ![q] = {}]
    BY <1>4 DEF Bump
  <2>2. counter \in [Subjects -> Nat] /\ counter' \in [Subjects -> Nat]
    BY DEF Counted
  <2>3. ASSUME NEW s \in Subjects, ~Owed(s)' PROVE AnswersFor(s)'
    <3>1. CASE s = q
      <4>1. counter'[s] = counter[s] + 1 /\ counter[s] \in Nat
        BY <2>1, <2>2, <3>1
      <4>2. counter'[s] <= MaxOps
        <5>1. counter'[s] \in Nat /\ Cardinality(Due(s))' \in Nat /\ ops' <= MaxOps /\ ops' \in Nat
              /\ counter'[s] + Cardinality(Due(s))' <= ops'
          <6>1. IsFiniteSet(Due(s))'
            BY DEF Counted
          <6>2. Cardinality(Due(s))' \in Nat
            BY <6>1, FS_CardinalityType
          <6> QED BY <2>2, <6>2, MaxOpsAssumption DEF Counted
        <5> QED BY <5>1, MaxOpsAssumption
      <4>3. entry[s].v # counter'[s]
        <5>1. CASE entry[s] = NoEntry
          BY <4>1, <4>2, <5>1, MaxOpsAssumption DEF NoEntry
        <5>2. CASE entry[s] # NoEntry
          <6>1. entry[s].v <= counter[s] /\ entry[s].v \in Nat
            BY <5>2, MaxOpsAssumption DEF CacheTyped
          <6> QED BY <4>1, <6>1
        <5> QED BY <5>1, <5>2
      <4>4. ASSUME NEW r \in Readers, reader[r].pc = "writing", reader[r].subj = s
            PROVE  reader[r].v # counter'[s]
        <5>1. reader[r].v <= counter[s] /\ reader[r].v \in Nat
          BY <1>k, <4>4, MaxOpsAssumption DEF CacheTyped
        <5> QED BY <4>1, <5>1
      <4> QED BY <2>1, <4>3, <4>4 DEF Current
    <3>2. CASE s # q
      <4>1. ~Owed(s)
        BY <1>4, <2>3, <3>2, OwedStep
      <4>2. counter'[s] = counter[s] /\ excused'[s] = excused[s]
        BY <2>1, <2>2, <3>2 DEF TablesTyped
      <4>3. \A grants : Right(s, grants) => Right(s, grants)'
        BY <1>c, <2>1, <4>2 DEF Right
      <4> QED BY <1>0, <2>1, <4>1, <4>2, <4>3 DEF Current
    <3> QED BY <3>1, <3>2
  <2> QED BY <2>3 DEF AnswersRight
<1>d. ASSUME UNCHANGED tx PROVE \A s : Owed(s)' <=> Owed(s)
  BY <1>d DEF Owed
<1>5. ASSUME NEW r \in Readers, NEW q \in Subjects, Read(r, q) PROVE AnswersRight'
  <2> DEFINE new == [pc |-> "resolving", subj |-> q, v |-> counter[q], grants |-> {}]
  <2>1. /\ UNCHANGED <<db, tx, counter, entry, excused>>
        /\ reader' = [reader EXCEPT ![r] = new]
    BY <1>5 DEF Read
  <2>2. new.pc # "writing"
    OBVIOUS
  <2> HIDE DEF new
  <2>3. \A u \in Readers : reader'[u].pc = "writing" => reader'[u] = reader[u]
    BY <2>1, <2>2 DEF CacheTyped
  <2> QED BY <1>0, <1>b, <1>d, <2>1, <2>3 DEF AnswersRight, Current
<1>6. ASSUME NEW r \in Readers, Fill(r) PROVE AnswersRight'
  <2> DEFINE new == [pc |-> "writing", subj |-> reader[r].subj, v |-> reader[r].v,
                     grants |-> Resolve(reader[r].subj)]
  <2>1. /\ UNCHANGED <<db, tx, counter, entry, excused>>
        /\ reader' = [reader EXCEPT ![r] = new]
    BY <1>6 DEF Fill, CacheTyped
  <2>2. new.subj = reader[r].subj /\ new.grants = Resolve(reader[r].subj)
    OBVIOUS
  <2> HIDE DEF new
  <2>3. \A u \in Readers : reader'[u] = reader[u] \/ reader'[u] = new
    BY <2>1 DEF CacheTyped
  <2>4. Right(reader[r].subj, new.grants)
    BY <2>2, ResolvesToGrants DEF Right
  <2> QED BY <1>0, <1>b, <1>d, <2>1, <2>2, <2>3, <2>4 DEF AnswersRight, Current
<1>7. ASSUME NEW r \in Readers, Store(r) PROVE AnswersRight'
  <2> DEFINE new == [v |-> reader[r].v, grants |-> reader[r].grants]
  <2>1. /\ UNCHANGED <<db, tx, counter, excused>>
        /\ reader' = [reader EXCEPT ![r] = NotFilling]
        /\ entry' = [entry EXCEPT ![reader[r].subj] = new] \/ entry' = entry
        /\ reader[r].pc = "writing"
    BY <1>7 DEF Store
  <2>2. new.v = reader[r].v /\ new.grants = reader[r].grants
    OBVIOUS
  <2> HIDE DEF new
  <2>3. \A u \in Readers : reader'[u].pc = "writing" => reader'[u] = reader[u]
    BY <1>k, <2>1 DEF CacheTyped
  <2>4. \A s \in Subjects : \/ entry'[s] = entry[s]
                            \/ entry'[s] = new /\ reader[r].subj = s
    BY <2>1 DEF CacheTyped
  <2>5. ASSUME NEW s \in Subjects, ~Owed(s)' PROVE AnswersFor(s)'
    <3>1. AnswersFor(s)
      BY <1>0, <1>d, <2>1, <2>5
    <3>2. Current(s)' => Right(s, entry'[s].grants)
      BY <2>1, <2>2, <2>4, <3>1 DEF Current
    <3> QED BY <1>b, <2>1, <2>3, <3>1, <3>2
  <2> QED BY <2>5 DEF AnswersRight
<1>8. ASSUME UNCHANGED vars PROVE AnswersRight'
  <2>1. UNCHANGED <<db, tx, cache, excused>>
    BY <1>8 DEF vars
  <2>2. ASSUME NEW s \in Subjects, ~Owed(s)' PROVE AnswersFor(s)'
    BY <1>a, <1>c, <1>d, <2>1, <2>2
  <2> QED BY <2>2 DEF AnswersRight
<1>9. ASSUME NEW r \in Readers, NEW q \in Subjects, Hit(r, q) PROVE AnswersRight'
  BY <1>8, <1>9 DEF Hit
<1> QED BY <1>1, <1>2, <1>3, <1>4, <1>5, <1>6, <1>7, <1>8, <1>9 DEF Next, TxStep, ReaderStep

-----------------------------------------------------------------------------
(* At the start nothing is stored, no transaction is open and none owes.     *)
LEMMA Start == Init => IInv
<1> SUFFICES ASSUME Init PROVE IInv
  OBVIOUS
<1>k. Idle.pc = "idle" /\ NotFilling.pc = "idle" /\ NoEntry.v = MaxOps + 1
  BY DEF Idle, NotFilling, NoEntry
<1>1. TablesTyped
  BY DEF Init, TablesTyped
<1>2. Counted
  <2>1. \A s \in Subjects : Due(s) = {}
    BY DEF Init, Due
  <2>2. IsFiniteSet({}) /\ Cardinality({}) = 0
    BY FS_EmptySet
  <2>3. counter \in [Subjects -> Nat] /\ (\A s \in Subjects : counter[s] = 0) /\ ops = 0
    BY DEF Init
  <2>4. \A s \in Subjects : IsFiniteSet(Due(s)) /\ counter[s] + Cardinality(Due(s)) <= ops
    BY <2>1, <2>2, <2>3
  <2> QED BY <2>3, <2>4, MaxOpsAssumption DEF Counted
<1>3. CacheTyped
  BY DEF Init, CacheTyped
<1>4. Enumerated
  BY <1>k DEF Init, Enumerated, Open
<1>6. AnswersRight
  <2>1. \A s \in Subjects : ~Current(s)
    BY <1>k, MaxOpsAssumption DEF Init, Current
  <2>2. \A r \in Readers : reader[r].pc # "writing"
    BY <1>k DEF Init
  <2> QED BY <2>1, <2>2 DEF AnswersRight
<1> QED BY <1>1, <1>2, <1>3, <1>4, <1>6 DEF IInv

(* ... and so in every step.                                                 *)
LEMMA GrantsStep == IInv /\ [Next]_vars => IInv'
  BY TablesStep, CountedStep, CacheStep, EnumeratedStep, AnswersStep DEF IInv

(* No subject's counter passes the number of transactions begun.             *)
LEMMA GrantsBounded == IInv => TypeOK
<1> SUFFICES ASSUME IInv PROVE TypeOK
  OBVIOUS
<1>1. TablesTyped /\ Counted /\ CacheTyped
  BY DEF IInv
<1>2. ASSUME NEW s \in Subjects PROVE counter[s] \in 0 .. MaxOps
  <2>1. IsFiniteSet(Due(s)) /\ counter[s] + Cardinality(Due(s)) <= ops
        /\ ops \in 0 .. MaxOps /\ counter[s] \in Nat
    BY <1>1 DEF Counted
  <2>2. Cardinality(Due(s)) \in Nat
    BY <2>1, FS_CardinalityType
  <2> QED BY <2>1, <2>2, MaxOpsAssumption
<1>3. counter \in [Subjects -> 0 .. MaxOps]
  BY <1>1, <1>2 DEF Counted
<1> QED BY <1>1, <1>3 DEF TypeOK, TablesTyped, Counted, CacheTyped, Pending

(* Tables, counters and cache have their types, every enumeration is whole   *)
(* or made up for, and what the cache holds is right, at every moment.       *)
THEOREM GrantsInvariant == Spec => []IInv
  BY Start, GrantsStep, PTL DEF Spec

(* The tables, the requests and the keys are what their types say: no         *)
(* subject's counter passes the number of transactions begun.                *)
THEOREM GrantsTypes == Spec => []TypeOK
  BY GrantsInvariant, GrantsBounded, PTL

(* Whatever the interleaving of handlers, bumps and fills, an entry the cache *)
(* would serve, once the bumps due have landed, is what resolve() answers,    *)
(* unless one of the three excuses of `excused` holds.                        *)
THEOREM CacheIsCoherent == Spec => []Coherent
<1>1. IInv => Coherent
  BY DEF IInv, AnswersRight, Right, Coherent, Servable
<1> QED BY <1>1, GrantsInvariant, PTL

(* An unannounced change leaves a subject with too much in one case only,    *)
(* the platform's switch of the application.                                 *)
THEOREM OverprivilegedOnlyByApp == Spec => []OverprivilegedByAppOnly
<1>1. IInv => OverprivilegedByAppOnly
  BY DEF IInv, AnswersRight, Right, OverprivilegedByAppOnly, Servable
<1> QED BY <1>1, GrantsInvariant, PTL

-----------------------------------------------------------------------------
(* ResolveCache.  A load that nothing crossed is for whoever is signed in,   *)
(* and what it brings is as new as the server was when it answered: nothing  *)
(* older than the load itself is missing from it, ...                        *)
ChangeNumbers == 1 .. MaxGrantChanges
LoadGood(at) ==
    inFlight[at] # NoLoad =>
        /\ ~inFlight[at].crossed => inFlight[at].of = who
        /\ inFlight[at].pc = "answered" =>
              /\ ~inFlight[at].crossed => inFlight[at].ver >= keyTold[at]
              /\ \A v \in ChangeNumbers :
                    v <= serverDb /\ since[v] > inFlight[at].age => inFlight[at].ver >= v

(* ... nor from an entry, for the time it is kept, ...                       *)
EntryGood(at) ==
    entries[at] # NotKept =>
        /\ ~entries[at].crossed => entries[at].of = who /\ entries[at].ver >= keyTold[at]
        /\ entries[at].age < ResolveTtl =>
              \A v \in ChangeNumbers :
                  v <= serverDb /\ since[v] > entries[at].age + MaxFlight => entries[at].ver >= v

(* ... nor from an answer.  Who waits was told no more than the key was.     *)
CallerGood(c) ==
    /\ caller[c].pc = "waiting" => caller[c].floor <= keyTold[caller[c].at]
    /\ Served(c) =>
          /\ caller[c].got \in LoadAnswer
          /\ ~caller[c].got.crossed => /\ caller[c].got.of \in {caller[c].asked, caller[c].given}
                                       /\ caller[c].got.ver >= caller[c].floor
          /\ \A v \in ChangeNumbers : v <= serverDb /\ since[v] > Window => caller[c].got.ver >= v

(* What nobody knows yet is not old, and nobody was told of it.              *)
HistoryGood ==
    /\ \A at \in ResolveTabs \X Keys : keyTold[at] <= serverDb
    /\ \A v \in ChangeNumbers : v > serverDb => since[v] = 0

ResIInv ==
    /\ ResolveTypeOK /\ HistoryGood
    /\ \A at \in ResolveTabs \X Keys : LoadGood(at) /\ EntryGood(at)
    /\ \A c \in Callers : CallerGood(c)

-----------------------------------------------------------------------------
Places == ResolveTabs \X Keys
EntryRec == [of : Person, ver : Version, crossed : BOOLEAN, age : 0 .. ResolveTtl]
LoadRec == [pc : {"unsent", "sent", "answered"}, of : Person, ver : Version,
            crossed : BOOLEAN, age : 0 .. MaxFlight]
CallerRec == [pc : {"waiting", "served"}, at : Places, asked : Person, given : Person,
              floor : Version, got : LoadAnswer \cup {NotKept}]
IdleCaller == [pc |-> "idle"]

(* The type invariant, with names for the records.                           *)
LEMMA ResTyped ==
    ResolveTypeOK <=>
        /\ who \in Person /\ serverDb \in Version
        /\ since \in [ChangeNumbers -> 0 .. Window + 1]
        /\ entries \in [Places -> {NotKept} \cup EntryRec]
        /\ inFlight \in [Places -> {NoLoad} \cup LoadRec]
        /\ caller \in [Callers -> CallerRec \cup {IdleCaller}]
        /\ keyTold \in [Places -> Version]
  BY DEF ResolveTypeOK, ChangeNumbers, Places, EntryRec, LoadRec, CallerRec, IdleCaller

LEMMA ResNumbers ==
    /\ ResolveTtl \in Nat /\ ResolveTtl > 0 /\ MaxGrantChanges \in Nat /\ MaxFlight \in Nat
    /\ Window = ResolveTtl + MaxFlight /\ Version = 0 .. MaxGrantChanges /\ 0 \in Version
  BY ResolveAssumption DEF Window, Version

(* Nothing is something else than nothing.                                   *)
LEMMA ResKinds ==
    /\ \A e \in EntryRec : e # NotKept
    /\ \A l \in LoadRec : l # NoLoad
    /\ \A g \in LoadAnswer : g # NotKept
    /\ \A q \in CallerRec : q # IdleCaller
<1>1. ASSUME NEW e \in EntryRec PROVE e.ver # NotKept.ver
  BY ResNumbers DEF EntryRec, NotKept
<1>2. ASSUME NEW l \in LoadRec PROVE l.pc # NoLoad.pc
  BY DEF LoadRec, NoLoad
<1>3. ASSUME NEW g \in LoadAnswer PROVE g.ver # NotKept.ver
  BY ResNumbers DEF LoadAnswer, NotKept
<1>4. ASSUME NEW q \in CallerRec PROVE q.pc # IdleCaller.pc
  BY DEF CallerRec, IdleCaller
<1> QED BY <1>1, <1>2, <1>3, <1>4

(* Who asks, at once served or waiting.                                      *)
LEMMA Askings ==
    ASSUME ResolveTypeOK, NEW at \in Places, NEW pc \in {"waiting", "served"},
           NEW got \in LoadAnswer \cup {NotKept}
    PROVE  Asking(at, pc, got) \in CallerRec
  BY ResTyped DEF Asking, CallerRec

(* Callers of a load that ends.                                              *)
LEMMA Settlings ==
    ASSUME ResolveTypeOK, NEW at, NEW pc \in {"served", "idle"}, NEW got \in LoadAnswer \cup {NotKept}
    PROVE  Settled(at, pc, got) \in [Callers -> CallerRec \cup {IdleCaller}]
<1>1. caller \in [Callers -> CallerRec \cup {IdleCaller}] /\ who \in Person
  BY ResTyped
<1>2. ASSUME NEW c \in Callers
      PROVE  Settled(at, pc, got)[c] \in CallerRec \cup {IdleCaller}
  <2>1. CASE caller[c].pc = "waiting" /\ caller[c].at = at
    <3>1. caller[c] \in CallerRec
      BY <1>1, <2>1 DEF IdleCaller
    <3>2. CASE pc = "served"
      <4>1. Settled(at, pc, got)[c] = [caller[c] EXCEPT !.pc = "served", !.given = who, !.got = got]
        BY <2>1, <3>2 DEF Settled
      <4>2. [caller[c] EXCEPT !.pc = "served", !.given = who, !.got = got] \in CallerRec
        BY <1>1, <3>1 DEF CallerRec
      <4> QED BY <4>1, <4>2
    <3>3. CASE pc = "idle"
      BY <2>1, <3>3 DEF Settled, IdleCaller
    <3> QED BY <3>2, <3>3
  <2>2. CASE ~(caller[c].pc = "waiting" /\ caller[c].at = at)
    <3>1. Settled(at, pc, got)[c] = caller[c]
      BY <2>2 DEF Settled
    <3> QED BY <1>1, <3>1
  <2> QED BY <2>1, <2>2
<1>3. Settled(at, pc, got) = [c \in Callers |-> Settled(at, pc, got)[c]]
  BY DEF Settled
<1> QED BY <1>2, <1>3

(* What is crossed, or cleared, is the same load or entry, or none.          *)
LEMMA Crossings ==
    ASSUME ResolveTypeOK
    PROVE  /\ \A ats : /\ Overtake(ats) \in [Places -> {NoLoad} \cup LoadRec]
                       /\ \A at \in Places :
                             /\ Overtake(ats)[at] = NoLoad <=> inFlight[at] = NoLoad
                             /\ inFlight[at] # NoLoad =>
                                   /\ Overtake(ats)[at].pc = inFlight[at].pc
                                   /\ Overtake(ats)[at].of = inFlight[at].of
                                   /\ Overtake(ats)[at].ver = inFlight[at].ver
                                   /\ Overtake(ats)[at].age = inFlight[at].age
                                   /\ at \in ats => Overtake(ats)[at].crossed
                                   /\ at \notin ats => Overtake(ats)[at] = inFlight[at]
           /\ \A t : /\ Cleared(t) \in [Places -> {NotKept} \cup EntryRec]
                     /\ \A at \in Places : Cleared(t)[at] # NotKept =>
                           /\ entries[at] # NotKept /\ Cleared(t)[at].crossed
                           /\ Cleared(t)[at].ver = entries[at].ver
                           /\ Cleared(t)[at].age = entries[at].age
<1>1. /\ inFlight \in [Places -> {NoLoad} \cup LoadRec]
      /\ entries \in [Places -> {NotKept} \cup EntryRec]
  BY ResTyped
<1>2. ASSUME NEW ats, NEW at \in Places
      PROVE  /\ Overtake(ats)[at] \in {NoLoad} \cup LoadRec
             /\ Overtake(ats)[at] = NoLoad <=> inFlight[at] = NoLoad
             /\ inFlight[at] # NoLoad =>
                   /\ Overtake(ats)[at].pc = inFlight[at].pc
                   /\ Overtake(ats)[at].of = inFlight[at].of
                   /\ Overtake(ats)[at].ver = inFlight[at].ver
                   /\ Overtake(ats)[at].age = inFlight[at].age
                   /\ at \in ats => Overtake(ats)[at].crossed
                   /\ at \notin ats => Overtake(ats)[at] = inFlight[at]
  <2>1. CASE at \in ats /\ inFlight[at] # NoLoad
    <3>1. Overtake(ats)[at] = [inFlight[at] EXCEPT !.crossed = TRUE] /\ inFlight[at] \in LoadRec
      BY <1>1, <2>1 DEF Overtake, Places
    <3>2. Overtake(ats)[at] \in LoadRec
      BY <3>1 DEF LoadRec
    <3> QED BY <2>1, <3>1, <3>2, ResKinds DEF LoadRec
  <2>2. CASE ~(at \in ats /\ inFlight[at] # NoLoad)
    <3>1. Overtake(ats)[at] = inFlight[at]
      BY <2>2 DEF Overtake, Places
    <3> QED BY <1>1, <2>2, <3>1
  <2> QED BY <2>1, <2>2
<1>3. ASSUME NEW t, NEW at \in Places
      PROVE  /\ Cleared(t)[at] \in {NotKept} \cup EntryRec
             /\ Cleared(t)[at] # NotKept =>
                   /\ entries[at] # NotKept /\ Cleared(t)[at].crossed
                   /\ Cleared(t)[at].ver = entries[at].ver
                   /\ Cleared(t)[at].age = entries[at].age
  <2>1. CASE at[1] = t \/ entries[at] = NotKept
    BY <2>1 DEF Cleared, Places
  <2>2. CASE ~(at[1] = t \/ entries[at] = NotKept)
    <3>1. Cleared(t)[at] = [entries[at] EXCEPT !.crossed = TRUE] /\ entries[at] \in EntryRec
      BY <1>1, <2>2 DEF Cleared, Places
    <3>2. Cleared(t)[at] \in EntryRec
      BY <3>1 DEF EntryRec
    <3> QED BY <2>2, <3>1, <3>2 DEF EntryRec
  <2> QED BY <2>1, <2>2
<1>4. \A ats : Overtake(ats) = [at \in Places |-> Overtake(ats)[at]]
  BY DEF Overtake, Places
<1>5. \A t : Cleared(t) = [at \in Places |-> Cleared(t)[at]]
  BY DEF Cleared, Places
<1>6. \A ats : Overtake(ats) \in [Places -> {NoLoad} \cup LoadRec]
  BY <1>2, <1>4
<1>7. \A t : Cleared(t) \in [Places -> {NotKept} \cup EntryRec]
  BY <1>3, <1>5
<1> QED BY <1>2, <1>3, <1>6, <1>7

-----------------------------------------------------------------------------
(* What a tick does, place by place.                                         *)
LEMMA ResTicks ==
    ASSUME ResolveTypeOK, ResolveTick
    PROVE  /\ who' = who /\ serverDb' = serverDb /\ keyTold' = keyTold
           /\ since' \in [ChangeNumbers -> 0 .. Window + 1]
           /\ \A v \in ChangeNumbers : since'[v] \in {since[v], since[v] + 1} /\ (v > serverDb => since'[v] = since[v])
           /\ entries' \in [Places -> {NotKept} \cup EntryRec]
           /\ \A at \in Places : entries'[at] # NotKept =>
                 /\ entries[at] # NotKept
                 /\ entries'[at].of = entries[at].of /\ entries'[at].ver = entries[at].ver
                 /\ entries'[at].crossed = entries[at].crossed
                 /\ entries'[at].age < ResolveTtl => entries'[at].age = entries[at].age + 1
           /\ inFlight' \in [Places -> {NoLoad} \cup LoadRec]
           /\ \A at \in Places : inFlight'[at] # NoLoad =>
                 inFlight[at] # NoLoad /\ inFlight'[at] = [inFlight[at] EXCEPT !.age = @ + 1]
           /\ caller' \in [Callers -> CallerRec \cup {IdleCaller}]
           /\ \A c \in Callers : caller'[c] = IdleCaller \/ (caller'[c] = caller[c] /\ caller[c].pc # "served")
<1>1. /\ who' = who /\ serverDb' = serverDb /\ keyTold' = keyTold
      /\ since' = [v \in ChangeNumbers |-> IF v <= serverDb /\ since[v] <= Window THEN since[v] + 1 ELSE since[v]]
      /\ entries' = [at \in Places |-> IF FreshEntry(at) THEN [entries[at] EXCEPT !.age = @ + 1] ELSE entries[at]]
      /\ inFlight' = [at \in Places |-> IF inFlight[at] = NoLoad THEN NoLoad
                                        ELSE [inFlight[at] EXCEPT !.age = @ + 1]]
      /\ caller' = [c \in Callers |-> IF caller[c].pc = "served" THEN IdleCaller ELSE caller[c]]
      /\ \A at \in Places : inFlight[at] # NoLoad => inFlight[at].age < MaxFlight
  BY DEF ResolveTick, ChangeNumbers, Places, Forgotten, IdleCaller
<1>2. /\ serverDb \in Nat /\ Window \in Nat
      /\ since \in [ChangeNumbers -> 0 .. Window + 1]
      /\ entries \in [Places -> {NotKept} \cup EntryRec]
      /\ inFlight \in [Places -> {NoLoad} \cup LoadRec]
      /\ caller \in [Callers -> CallerRec \cup {IdleCaller}]
      /\ \A v \in ChangeNumbers : v \in Int
  BY ResTyped, ResNumbers DEF ChangeNumbers
<1>3. ASSUME NEW v \in ChangeNumbers
      PROVE  /\ since'[v] \in 0 .. Window + 1 /\ since'[v] \in {since[v], since[v] + 1}
             /\ v > serverDb => since'[v] = since[v]
  <2>1. since[v] \in 0 .. Window + 1 /\ v \in Int
    BY <1>2
  <2>2. since'[v] = IF v <= serverDb /\ since[v] <= Window THEN since[v] + 1 ELSE since[v]
    BY <1>1
  <2>3. CASE v <= serverDb /\ since[v] <= Window
    BY <1>2, <2>1, <2>2, <2>3
  <2>4. CASE ~(v <= serverDb /\ since[v] <= Window)
    BY <1>2, <2>1, <2>2, <2>4
  <2> QED BY <2>3, <2>4
<1>4. since' \in [ChangeNumbers -> 0 .. Window + 1]
  BY <1>1, <1>3
<1>5. ASSUME NEW at \in Places
      PROVE  /\ entries'[at] \in {NotKept} \cup EntryRec
             /\ entries'[at] # NotKept =>
                 /\ entries[at] # NotKept
                 /\ entries'[at].of = entries[at].of /\ entries'[at].ver = entries[at].ver
                 /\ entries'[at].crossed = entries[at].crossed
                 /\ entries'[at].age < ResolveTtl => entries'[at].age = entries[at].age + 1
  <2>1. CASE FreshEntry(at)
    <3>1. entries[at] \in EntryRec /\ entries[at].age < ResolveTtl
      BY <1>2, <2>1 DEF FreshEntry
    <3>2. entries'[at] = [entries[at] EXCEPT !.age = @ + 1] /\ entries[at].age + 1 \in 0 .. ResolveTtl
      BY <1>1, <2>1, <3>1, ResNumbers DEF EntryRec
    <3> QED BY <2>1, <3>1, <3>2 DEF EntryRec, FreshEntry
  <2>2. CASE ~FreshEntry(at)
    <3>1. entries'[at] = entries[at]
      BY <1>1, <2>2
    <3> QED BY <1>2, <2>2, <3>1 DEF FreshEntry
  <2> QED BY <2>1, <2>2
<1>6. entries' \in [Places -> {NotKept} \cup EntryRec]
  BY <1>1, <1>5
<1>7. ASSUME NEW at \in Places
      PROVE  /\ inFlight'[at] \in {NoLoad} \cup LoadRec
             /\ inFlight'[at] # NoLoad =>
                  inFlight[at] # NoLoad /\ inFlight'[at] = [inFlight[at] EXCEPT !.age = @ + 1]
  <2>1. CASE inFlight[at] = NoLoad
    BY <1>1, <2>1
  <2>2. CASE inFlight[at] # NoLoad
    <3>1. inFlight[at] \in LoadRec /\ inFlight[at].age < MaxFlight
          /\ inFlight'[at] = [inFlight[at] EXCEPT !.age = @ + 1]
      BY <1>1, <1>2, <2>2
    <3>2. inFlight[at].age + 1 \in 0 .. MaxFlight
      BY <3>1, ResNumbers DEF LoadRec
    <3> QED BY <2>2, <3>1, <3>2 DEF LoadRec
  <2> QED BY <2>1, <2>2
<1>8. inFlight' \in [Places -> {NoLoad} \cup LoadRec]
  BY <1>1, <1>7
<1>9. /\ caller' \in [Callers -> CallerRec \cup {IdleCaller}]
      /\ \A c \in Callers : caller'[c] = IdleCaller \/ (caller'[c] = caller[c] /\ caller[c].pc # "served")
  BY <1>1, <1>2
<1> QED BY <1>1, <1>3, <1>4, <1>5, <1>6, <1>7, <1>8, <1>9

LEMMA ResTypesStep == ResolveTypeOK /\ [ResolveNext]_resolveVars => ResolveTypeOK'
<1> SUFFICES ASSUME ResolveTypeOK, [ResolveNext]_resolveVars PROVE ResolveTypeOK'
  OBVIOUS
<1>a. /\ who \in Person /\ serverDb \in Version
      /\ since \in [ChangeNumbers -> 0 .. Window + 1]
      /\ entries \in [Places -> {NotKept} \cup EntryRec]
      /\ inFlight \in [Places -> {NoLoad} \cup LoadRec]
      /\ caller \in [Callers -> CallerRec \cup {IdleCaller}]
      /\ keyTold \in [Places -> Version]
  BY ResTyped
<1> SUFFICES /\ who' \in Person /\ serverDb' \in Version
             /\ since' \in [ChangeNumbers -> 0 .. Window + 1]
             /\ entries' \in [Places -> {NotKept} \cup EntryRec]
             /\ inFlight' \in [Places -> {NoLoad} \cup LoadRec]
             /\ caller' \in [Callers -> CallerRec \cup {IdleCaller}]
             /\ keyTold' \in [Places -> Version]
  BY DEF ResolveTypeOK, ChangeNumbers, Places, EntryRec, LoadRec, CallerRec, IdleCaller
<1>1. ASSUME NEW c \in Callers, NEW at \in Places, ResolveHit(c, at)
      PROVE  caller' \in [Callers -> CallerRec \cup {IdleCaller}]
  <2>1. entries[at] \in EntryRec
    BY <1>a, <1>1 DEF ResolveHit, FreshEntry
  <2>2. Held(at) \in LoadAnswer
    BY <2>1 DEF Held, EntryRec, LoadAnswer
  <2>3. Asking(at, "served", Held(at)) \in CallerRec
    BY <2>2, Askings
  <2> QED BY <1>a, <1>1, <2>3 DEF ResolveHit
<1>2. ASSUME NEW c \in Callers, NEW at \in Places, Join(c, at)
      PROVE  /\ caller' \in [Callers -> CallerRec \cup {IdleCaller}]
             /\ inFlight' \in [Places -> {NoLoad} \cup LoadRec]
             /\ UNCHANGED <<who, serverDb, since, keyTold>>
  <2>1. Asking(at, "waiting", NotKept) \in CallerRec
    BY Askings
  <2>2. [pc |-> "unsent", of |-> who, ver |-> 0, crossed |-> FALSE, age |-> 0] \in LoadRec
    BY <1>a, ResNumbers DEF LoadRec
  <2>3. inFlight' \in [Places -> {NoLoad} \cup LoadRec]
    BY <1>a, <1>2, <2>2 DEF Join
  <2> QED BY <1>a, <1>2, <2>1, <2>3 DEF Join
<1>3. ASSUME NEW c \in Callers, NEW at \in Places, ResolveMiss(c, at)
      PROVE  entries' \in [Places -> {NotKept} \cup EntryRec]
  BY <1>a, <1>3 DEF ResolveMiss
<1>4. ASSUME NEW at \in Places, Send(at) \/ Respond(at)
      PROVE  /\ inFlight' \in [Places -> {NoLoad} \cup LoadRec]
             /\ UNCHANGED <<who, serverDb, since, entries, caller, keyTold>>
  <2>1. inFlight[at] \in LoadRec
    BY <1>a, <1>4 DEF Send, Respond
  <2>2. /\ [inFlight[at] EXCEPT !.pc = "sent", !.of = who] \in LoadRec
        /\ [inFlight[at] EXCEPT !.pc = "answered", !.ver = serverDb] \in LoadRec
    BY <1>a, <2>1 DEF LoadRec
  <2> QED BY <1>a, <1>4, <2>2 DEF Send, Respond
<1>5. ASSUME NEW at \in Places, Land(at)
      PROVE  /\ entries' \in [Places -> {NotKept} \cup EntryRec]
             /\ inFlight' \in [Places -> {NoLoad} \cup LoadRec]
             /\ caller' \in [Callers -> CallerRec \cup {IdleCaller}]
  <2> DEFINE got == [of |-> inFlight[at].of, ver |-> inFlight[at].ver, crossed |-> inFlight[at].crossed]
             new == [of |-> got.of, ver |-> got.ver, crossed |-> got.crossed, age |-> 0]
  <2>1. inFlight[at] \in LoadRec
    BY <1>a, <1>5 DEF Land
  <2>2. got \in LoadAnswer /\ new \in EntryRec
    BY <2>1, ResNumbers DEF LoadRec, LoadAnswer, EntryRec
  <2>3. /\ entries' = [entries EXCEPT ![at] = new] /\ caller' = Settled(at, "served", got)
        /\ inFlight' = [inFlight EXCEPT ![at] = NoLoad]
    BY <1>5 DEF Land
  <2> HIDE DEF got, new
  <2>4. caller' \in [Callers -> CallerRec \cup {IdleCaller}]
    BY <2>2, <2>3, Settlings
  <2> QED BY <1>a, <2>2, <2>3, <2>4
<1>6. ASSUME NEW at \in Places, Fail(at)
      PROVE  /\ inFlight' \in [Places -> {NoLoad} \cup LoadRec]
             /\ caller' \in [Callers -> CallerRec \cup {IdleCaller}]
  <2>1. caller' = Settled(at, "idle", NotKept) /\ inFlight' = [inFlight EXCEPT ![at] = NoLoad]
    BY <1>6 DEF Fail
  <2>2. Settled(at, "idle", NotKept) \in [Callers -> CallerRec \cup {IdleCaller}]
    BY Settlings
  <2> QED BY <1>a, <2>1, <2>2
<1>7. ASSUME NEW t \in ResolveTabs, NEW s \in Person, SignIn(t, s)
      PROVE  /\ entries' \in [Places -> {NotKept} \cup EntryRec]
             /\ inFlight' \in [Places -> {NoLoad} \cup LoadRec]
  BY <1>7, Crossings DEF SignIn
<1>8. ASSUME NEW t \in ResolveTabs, NEW k \in Keys, Invalidate(t, k)
      PROVE  /\ entries' \in [Places -> {NotKept} \cup EntryRec]
             /\ inFlight' \in [Places -> {NoLoad} \cup LoadRec]
             /\ keyTold' \in [Places -> Version]
  <2>1. inFlight' \in [Places -> {NoLoad} \cup LoadRec]
    BY <1>8, Crossings DEF Invalidate
  <2> QED BY <1>a, <1>8, <2>1 DEF Invalidate
<1>9. CASE Change
  BY <1>a, <1>9, ResNumbers DEF Change
<1>10. CASE ResolveTick
  BY <1>a, <1>10, ResTicks
<1>11. CASE UNCHANGED resolveVars
  BY <1>a, <1>11 DEF resolveVars
<1> QED
  <2>1. ASSUME NEW c \in Callers, NEW at \in Places, ResolveMiss(c, at) \/ Reload(c, at)
        PROVE  entries' \in [Places -> {NotKept} \cup EntryRec] /\ Join(c, at)
    BY <1>a, <1>3, <2>1 DEF ResolveMiss, Reload
  <2> QED BY <1>a, <1>1, <1>2, <1>4, <1>5, <1>6, <1>7, <1>8, <1>9, <1>10, <1>11, <2>1
          DEF ResolveNext, Places, ResolveHit, Land, Fail, SignIn, Invalidate

-----------------------------------------------------------------------------
LEMMA HistoryStep ==
    ASSUME ResolveTypeOK, HistoryGood, [ResolveNext]_resolveVars
    PROVE  HistoryGood'
<1>a. /\ serverDb \in Version /\ keyTold \in [Places -> Version] /\ Version \subseteq Int
      /\ \A at \in Places : keyTold[at] <= serverDb
      /\ \A v \in ChangeNumbers : v \in Int /\ (v > serverDb => since[v] = 0)
  BY ResTyped, ResNumbers DEF HistoryGood, Places, ChangeNumbers
<1> SUFFICES /\ \A at \in Places : keyTold'[at] <= serverDb'
             /\ \A v \in ChangeNumbers : v > serverDb' => since'[v] = 0
  BY DEF HistoryGood, Places, ChangeNumbers
<1>1. CASE Change
  <2>1. serverDb' = serverDb + 1 /\ keyTold' = keyTold /\ since' = since
    BY <1>1 DEF Change
  <2>2. serverDb \in Int /\ \A at \in Places : keyTold[at] \in Int
    BY <1>a
  <2>3. \A at \in Places : keyTold'[at] <= serverDb'
    BY <1>a, <2>1, <2>2
  <2>4. \A v \in ChangeNumbers : v > serverDb' => since'[v] = 0
    BY <1>a, <2>1, <2>2
  <2> QED BY <2>3, <2>4
<1>2. CASE ResolveTick
  BY <1>a, <1>2, ResTicks
<1>3. ASSUME NEW t \in ResolveTabs, NEW k \in Keys, Invalidate(t, k)
      PROVE  /\ \A at \in Places : keyTold'[at] <= serverDb'
             /\ \A v \in ChangeNumbers : v > serverDb' => since'[v] = 0
  BY <1>a, <1>3 DEF Invalidate
<1>4. CASE UNCHANGED <<serverDb, since, keyTold>>
  BY <1>a, <1>4
<1>5. \/ Change \/ ResolveTick \/ UNCHANGED <<serverDb, since, keyTold>>
      \/ \E t \in ResolveTabs, k \in Keys : Invalidate(t, k)
  BY DEF ResolveNext, ResolveHit, ResolveMiss, Reload, Join, Send, Respond, Land, Fail, SignIn, resolveVars
<1> QED BY <1>1, <1>2, <1>3, <1>4, <1>5

(* A load: only its own steps, time, and what crosses it, concern it.        *)
LEMMA LoadStep ==
    ASSUME ResolveTypeOK, HistoryGood, [ResolveNext]_resolveVars, NEW at \in Places, LoadGood(at)
    PROVE  LoadGood(at)'
<1>a. /\ serverDb \in Version /\ keyTold \in [Places -> Version] /\ Version \subseteq Int
      /\ since \in [ChangeNumbers -> 0 .. Window + 1]
      /\ \A x \in Places : keyTold[x] <= serverDb
      /\ \A v \in ChangeNumbers : v \in Int /\ since[v] \in Int
      /\ inFlight \in [Places -> {NoLoad} \cup LoadRec]
  BY ResTyped, ResNumbers DEF HistoryGood, Places, ChangeNumbers
<1> SUFFICES ASSUME inFlight'[at] # NoLoad PROVE LoadGood(at)'
  BY DEF LoadGood
<1>1. ASSUME NEW c \in Callers, NEW x \in Places, Join(c, x) PROVE LoadGood(at)'
  <2>1. UNCHANGED <<who, serverDb, since, keyTold>>
    BY <1>1 DEF Join
  <2>2. \/ inFlight'[at] = inFlight[at] /\ inFlight[at] # NoLoad
        \/ inFlight'[at] = [pc |-> "unsent", of |-> who, ver |-> 0, crossed |-> FALSE, age |-> 0]
    BY <1>a, <1>1 DEF Join
  <2> QED BY <2>1, <2>2 DEF LoadGood
<1>2. ASSUME NEW x \in Places, Send(x) PROVE LoadGood(at)'
  <2>1. /\ UNCHANGED <<who, serverDb, since, keyTold>> /\ inFlight[x] \in LoadRec
        /\ inFlight' = [inFlight EXCEPT ![x] = [inFlight[x] EXCEPT !.pc = "sent", !.of = who]]
    BY <1>a, <1>2 DEF Send
  <2>2. CASE x = at
    <3>1. inFlight'[at].pc = "sent" /\ inFlight'[at].of = who
      BY <1>a, <2>1, <2>2 DEF LoadRec
    <3> QED BY <2>1, <3>1 DEF LoadGood
  <2>3. CASE x # at
    BY <1>a, <2>1, <2>3 DEF LoadGood
  <2> QED BY <2>2, <2>3
<1>3. ASSUME NEW x \in Places, Respond(x) PROVE LoadGood(at)'
  <2>1. /\ UNCHANGED <<who, serverDb, since, keyTold>> /\ inFlight[x] \in LoadRec
        /\ inFlight' = [inFlight EXCEPT ![x] = [inFlight[x] EXCEPT !.pc = "answered", !.ver = serverDb]]
    BY <1>a, <1>3 DEF Respond
  <2>2. CASE x = at
    <3>1. inFlight'[at].ver = serverDb /\ inFlight'[at].of = inFlight[at].of
          /\ inFlight'[at].crossed = inFlight[at].crossed /\ inFlight[at] # NoLoad
      BY <1>a, <2>1, <2>2, ResKinds DEF LoadRec
    <3>2. keyTold[at] <= serverDb /\ serverDb \in Int /\ keyTold[at] \in Int
      BY <1>a
    <3>3. \A v \in ChangeNumbers : v <= serverDb => serverDb >= v
      BY <1>a, <3>2
    <3>4. serverDb >= keyTold[at]
      BY <3>2
    <3> QED BY <2>1, <3>1, <3>3, <3>4 DEF LoadGood
  <2>3. CASE x # at
    BY <1>a, <2>1, <2>3 DEF LoadGood
  <2> QED BY <2>2, <2>3
<1>4. ASSUME NEW x \in Places, Land(x) \/ Fail(x) PROVE LoadGood(at)'
  <2>1. UNCHANGED <<who, serverDb, since, keyTold>> /\ inFlight' = [inFlight EXCEPT ![x] = NoLoad]
    BY <1>4 DEF Land, Fail
  <2> QED BY <1>a, <2>1 DEF LoadGood
<1>5. ASSUME NEW ats, inFlight' = Overtake(ats), UNCHANGED <<serverDb, since>>,
             at \in ats \/ UNCHANGED <<who, keyTold[at]>>
      PROVE  LoadGood(at)'
  <2>1. inFlight[at] # NoLoad
    BY <1>5, Crossings
  <2>2. CASE at \in ats
    <3>1. /\ inFlight'[at].crossed /\ inFlight'[at].pc = inFlight[at].pc
          /\ inFlight'[at].ver = inFlight[at].ver /\ inFlight'[at].age = inFlight[at].age
      BY <1>5, <2>1, <2>2, Crossings
    <3> QED BY <1>5, <2>1, <3>1 DEF LoadGood
  <2>3. CASE at \notin ats
    <3>1. inFlight'[at] = inFlight[at]
      BY <1>5, <2>1, <2>3, Crossings
    <3> QED BY <1>5, <2>1, <2>3, <3>1 DEF LoadGood
  <2> QED BY <2>2, <2>3
<1>6. ASSUME NEW t \in ResolveTabs, NEW s \in Person, SignIn(t, s) PROVE LoadGood(at)'
  BY <1>5, <1>6 DEF SignIn, Places
<1>7. ASSUME NEW t \in ResolveTabs, NEW k \in Keys, Invalidate(t, k) PROVE LoadGood(at)'
  <2>1. inFlight' = Overtake({<<t, k>>}) /\ UNCHANGED <<who, serverDb, since>>
        /\ keyTold' = [keyTold EXCEPT ![<<t, k>>] = serverDb]
    BY <1>7 DEF Invalidate
  <2>2. at \in {<<t, k>>} \/ keyTold'[at] = keyTold[at]
    BY <1>a, <2>1
  <2> QED BY <1>5, <2>1, <2>2
<1>8. CASE Change
  <2>1. serverDb' = serverDb + 1 /\ UNCHANGED <<who, since, keyTold, inFlight>>
    BY <1>8 DEF Change
  <2>2. inFlight[at] \in LoadRec
    BY <1>a, <2>1
  <2>3. \A v \in ChangeNumbers : v <= serverDb' /\ since[v] > inFlight[at].age => v <= serverDb
    <3> SUFFICES ASSUME NEW v \in ChangeNumbers, v <= serverDb', since[v] > inFlight[at].age, ~(v <= serverDb)
                 PROVE  FALSE
      OBVIOUS
    <3>1. inFlight[at].age \in Nat /\ serverDb \in Int /\ v \in Int
      BY <1>a, <2>2, ResNumbers DEF LoadRec
    <3>2. since[v] = 0
      BY <3>1 DEF HistoryGood
    <3> QED BY <3>1, <3>2
  <2> QED BY <2>1, <2>3 DEF LoadGood
<1>9. CASE ResolveTick
  <2>1. /\ inFlight[at] # NoLoad /\ inFlight'[at] = [inFlight[at] EXCEPT !.age = @ + 1]
        /\ UNCHANGED <<who, serverDb, keyTold>>
        /\ \A v \in ChangeNumbers : since'[v] \in {since[v], since[v] + 1}
    BY <1>9, ResTicks
  <2>2. /\ inFlight[at] \in LoadRec /\ inFlight[at].age \in Nat
        /\ inFlight'[at].age = inFlight[at].age + 1 /\ inFlight'[at].pc = inFlight[at].pc
        /\ inFlight'[at].ver = inFlight[at].ver /\ inFlight'[at].of = inFlight[at].of
        /\ inFlight'[at].crossed = inFlight[at].crossed
    BY <1>a, <2>1, ResNumbers DEF LoadRec
  <2>3. \A v \in ChangeNumbers : since'[v] > inFlight'[at].age => since[v] > inFlight[at].age
    BY <1>a, <2>1, <2>2
  <2> QED BY <2>1, <2>2, <2>3 DEF LoadGood
<1>10. CASE UNCHANGED <<who, serverDb, since, inFlight, keyTold>>
  BY <1>10 DEF LoadGood
<1>11. \/ \E c \in Callers, x \in Places : Join(c, x)
       \/ \E x \in Places : Send(x) \/ Respond(x) \/ Land(x) \/ Fail(x)
       \/ \E t \in ResolveTabs : (\E s \in Person : SignIn(t, s)) \/ (\E k \in Keys : Invalidate(t, k))
       \/ Change \/ ResolveTick \/ UNCHANGED <<who, serverDb, since, inFlight, keyTold>>
  BY DEF ResolveNext, Places, ResolveHit, ResolveMiss, Reload, resolveVars
<1> QED BY <1>1, <1>2, <1>3, <1>4, <1>6, <1>7, <1>8, <1>9, <1>10, <1>11

-----------------------------------------------------------------------------
(* An entry: it is what a load brought, and ages with it.                    *)
LEMMA EntryStep ==
    ASSUME ResolveTypeOK, HistoryGood, [ResolveNext]_resolveVars, NEW at \in Places,
           LoadGood(at), EntryGood(at)
    PROVE  EntryGood(at)'
<1>a. /\ serverDb \in Version /\ keyTold \in [Places -> Version] /\ Version \subseteq Int
      /\ since \in [ChangeNumbers -> 0 .. Window + 1]
      /\ \A v \in ChangeNumbers : v \in Int /\ since[v] \in Int
      /\ entries \in [Places -> {NotKept} \cup EntryRec]
      /\ inFlight \in [Places -> {NoLoad} \cup LoadRec]
      /\ MaxFlight \in Nat /\ ResolveTtl \in Nat /\ ResolveTtl > 0
  BY ResTyped, ResNumbers DEF ChangeNumbers
<1> SUFFICES ASSUME entries'[at] # NotKept PROVE EntryGood(at)'
  BY DEF EntryGood
<1>1. ASSUME NEW x \in Places, Land(x) PROVE EntryGood(at)'
  <2>1. /\ UNCHANGED <<who, serverDb, since, keyTold>> /\ inFlight[x] \in LoadRec
        /\ inFlight[x].pc = "answered" /\ inFlight[x] # NoLoad
        /\ entries' = [entries EXCEPT ![x] = [of |-> inFlight[x].of, ver |-> inFlight[x].ver,
                                              crossed |-> inFlight[x].crossed, age |-> 0]]
    BY <1>a, <1>1 DEF Land
  <2>2. CASE x = at
    <3>1. /\ entries'[at].of = inFlight[at].of /\ entries'[at].ver = inFlight[at].ver
          /\ entries'[at].crossed = inFlight[at].crossed /\ entries'[at].age = 0
      BY <1>a, <2>1, <2>2
    <3>2. \A v \in ChangeNumbers : since[v] > 0 + MaxFlight => since[v] > inFlight[at].age
      <4>1. inFlight[at].age \in 0 .. MaxFlight
        BY <2>1, <2>2 DEF LoadRec
      <4> QED BY <1>a, <4>1
    <3> QED BY <2>1, <2>2, <3>1, <3>2 DEF EntryGood, LoadGood
  <2>3. CASE x # at
    BY <1>a, <2>1, <2>3 DEF EntryGood
  <2> QED BY <2>2, <2>3
<1>2. ASSUME NEW t \in ResolveTabs, NEW s \in Person, SignIn(t, s) PROVE EntryGood(at)'
  <2>1. entries' = Cleared(t) /\ UNCHANGED <<serverDb, since, keyTold>>
    BY <1>2 DEF SignIn
  <2>2. /\ entries[at] # NotKept /\ entries'[at].crossed
        /\ entries'[at].ver = entries[at].ver /\ entries'[at].age = entries[at].age
    BY <2>1, Crossings
  <2> QED BY <2>1, <2>2 DEF EntryGood
<1>3. ASSUME NEW t \in ResolveTabs, NEW k \in Keys, Invalidate(t, k) PROVE EntryGood(at)'
  <2>1. /\ entries' = [entries EXCEPT ![<<t, k>>] = NotKept] /\ UNCHANGED <<who, serverDb, since>>
        /\ keyTold' = [keyTold EXCEPT ![<<t, k>>] = serverDb]
    BY <1>3 DEF Invalidate
  <2>2. at # <<t, k>>
    BY <1>a, <2>1
  <2>3. entries'[at] = entries[at] /\ keyTold'[at] = keyTold[at]
    BY <1>a, <2>1, <2>2
  <2> QED BY <2>1, <2>3 DEF EntryGood
<1>4. CASE Change
  <2>1. serverDb' = serverDb + 1 /\ UNCHANGED <<who, since, keyTold, entries>>
    BY <1>4 DEF Change
  <2>2. entries[at] \in EntryRec
    BY <1>a, <2>1
  <2>3. \A v \in ChangeNumbers : v <= serverDb' /\ since[v] > entries[at].age + MaxFlight => v <= serverDb
    <3> SUFFICES ASSUME NEW v \in ChangeNumbers, v <= serverDb', since[v] > entries[at].age + MaxFlight,
                        ~(v <= serverDb)
                 PROVE  FALSE
      OBVIOUS
    <3>1. entries[at].age \in Nat /\ serverDb \in Int /\ v \in Int
      BY <1>a, <2>2 DEF EntryRec
    <3>2. since[v] = 0
      BY <3>1 DEF HistoryGood
    <3> QED BY <1>a, <3>1, <3>2
  <2> QED BY <2>1, <2>3 DEF EntryGood
<1>5. CASE ResolveTick
  <2>1. /\ entries[at] # NotKept
        /\ entries'[at].of = entries[at].of /\ entries'[at].ver = entries[at].ver
        /\ entries'[at].crossed = entries[at].crossed
        /\ entries'[at].age < ResolveTtl => entries'[at].age = entries[at].age + 1
        /\ UNCHANGED <<who, serverDb, keyTold>>
        /\ \A v \in ChangeNumbers : since'[v] \in {since[v], since[v] + 1}
    BY <1>5, ResTicks
  <2>2. entries[at].age \in Nat
    BY <1>a, <2>1 DEF EntryRec
  <2>3. ASSUME entries'[at].age < ResolveTtl, NEW v \in ChangeNumbers, v <= serverDb,
               since'[v] > entries'[at].age + MaxFlight
        PROVE  entries[at].age < ResolveTtl /\ since[v] > entries[at].age + MaxFlight
    BY <1>a, <2>1, <2>2, <2>3
  <2> QED BY <2>1, <2>3 DEF EntryGood
<1>6. CASE entries'[at] = entries[at] /\ UNCHANGED <<who, serverDb, since, keyTold>>
  BY <1>6 DEF EntryGood
<1>7. ASSUME NEW c \in Callers, NEW x \in Places, ResolveMiss(c, x)
      PROVE  entries'[at] = entries[at] /\ UNCHANGED <<who, serverDb, since, keyTold>>
  BY <1>a, <1>7 DEF ResolveMiss, Join
<1>8. \/ \E c \in Callers, x \in Places : ResolveMiss(c, x)
      \/ \E x \in Places : Land(x)
      \/ \E t \in ResolveTabs : (\E s \in Person : SignIn(t, s)) \/ (\E k \in Keys : Invalidate(t, k))
      \/ Change \/ ResolveTick \/ UNCHANGED <<who, serverDb, since, entries, keyTold>>
  BY DEF ResolveNext, Places, ResolveHit, Reload, Join, Send, Respond, Fail, resolveVars
<1> QED BY <1>1, <1>2, <1>3, <1>4, <1>5, <1>6, <1>7, <1>8

(* An answer: it is an entry's or a load's, and is not judged after a tick.  *)
LEMMA CallerStep ==
    ASSUME ResolveTypeOK, HistoryGood, [ResolveNext]_resolveVars,
           \A at \in Places : LoadGood(at) /\ EntryGood(at), NEW c \in Callers, CallerGood(c)
    PROVE  CallerGood(c)'
<1>a. /\ serverDb \in Version /\ keyTold \in [Places -> Version] /\ Version \subseteq Int
      /\ since \in [ChangeNumbers -> 0 .. Window + 1]
      /\ \A v \in ChangeNumbers : v \in Int /\ since[v] \in Int
      /\ entries \in [Places -> {NotKept} \cup EntryRec]
      /\ inFlight \in [Places -> {NoLoad} \cup LoadRec]
      /\ caller \in [Callers -> CallerRec \cup {IdleCaller}]
      /\ MaxFlight \in Nat /\ ResolveTtl \in Nat /\ ResolveTtl > 0 /\ Window = ResolveTtl + MaxFlight
  BY ResTyped, ResNumbers DEF ChangeNumbers
<1>b. CASE caller'[c] = IdleCaller
  BY <1>b DEF CallerGood, Served, IdleCaller
<1>c. CASE caller'[c] = caller[c] /\ UNCHANGED <<serverDb, since, keyTold>>
  BY <1>c DEF CallerGood, Served
<1>1. ASSUME NEW d \in Callers, NEW at \in Places, ResolveHit(d, at) PROVE CallerGood(c)'
  <2>1. /\ caller' = [caller EXCEPT ![d] = Asking(at, "served", Held(at))] /\ FreshEntry(at)
        /\ UNCHANGED <<serverDb, since, keyTold>>
    BY <1>1 DEF ResolveHit
  <2>2. CASE c = d
    <3>1. /\ caller'[c].pc = "served" /\ caller'[c].asked = who /\ caller'[c].floor = keyTold[at]
          /\ caller'[c].got = Held(at)
      BY <1>a, <2>1, <2>2 DEF Asking
    <3>2. entries[at] \in EntryRec /\ entries[at] # NotKept /\ entries[at].age < ResolveTtl
      BY <1>a, <2>1 DEF FreshEntry
    <3>3. Held(at) \in LoadAnswer /\ Held(at).of = entries[at].of /\ Held(at).ver = entries[at].ver
          /\ Held(at).crossed = entries[at].crossed
      BY <3>2 DEF Held, EntryRec, LoadAnswer
    <3>4. ASSUME NEW v \in ChangeNumbers, since[v] > Window PROVE since[v] > entries[at].age + MaxFlight
      <4>1. entries[at].age \in Nat
        BY <3>2, <1>a DEF EntryRec
      <4> QED BY <1>a, <3>2, <3>4, <4>1
    <3>5. EntryGood(at)
      OBVIOUS
    <3>6. ~Held(at).crossed => Held(at).of = who /\ Held(at).ver >= keyTold[at]
      BY <3>2, <3>3, <3>5 DEF EntryGood
    <3>7. \A v \in ChangeNumbers : v <= serverDb /\ since[v] > Window => Held(at).ver >= v
      BY <3>2, <3>3, <3>4, <3>5 DEF EntryGood
    <3> QED BY <2>1, <3>1, <3>3, <3>6, <3>7 DEF CallerGood, Served
  <2>3. CASE c # d
    BY <1>a, <1>c, <2>1, <2>3
  <2> QED BY <2>2, <2>3
<1>2. ASSUME NEW d \in Callers, NEW at \in Places, Join(d, at) PROVE CallerGood(c)'
  <2>1. /\ caller' = [caller EXCEPT ![d] = Asking(at, "waiting", NotKept)]
        /\ UNCHANGED <<serverDb, since, keyTold>>
    BY <1>2 DEF Join
  <2>2. CASE c = d
    <3>1. /\ caller'[c].pc = "waiting" /\ caller'[c].floor = keyTold[at] /\ caller'[c].at = at
      BY <1>a, <2>1, <2>2 DEF Asking
    <3>2. keyTold[at] <= keyTold[at]
      <4>1. keyTold[at] \in Int
        BY <1>a
      <4> QED BY <4>1
    <3> QED BY <2>1, <3>1, <3>2 DEF CallerGood, Served
  <2>3. CASE c # d
    BY <1>a, <1>c, <2>1, <2>3
  <2> QED BY <2>2, <2>3
<1>3. ASSUME NEW at \in Places, Land(at) PROVE CallerGood(c)'
  <2> DEFINE got == [of |-> inFlight[at].of, ver |-> inFlight[at].ver, crossed |-> inFlight[at].crossed]
  <2>1. /\ caller' = Settled(at, "served", got) /\ inFlight[at] \in LoadRec /\ inFlight[at] # NoLoad
        /\ inFlight[at].pc = "answered" /\ UNCHANGED <<serverDb, since, keyTold>>
    BY <1>a, <1>3 DEF Land
  <2>2. /\ got \in LoadAnswer /\ got.of = inFlight[at].of /\ got.ver = inFlight[at].ver
        /\ got.crossed = inFlight[at].crossed
    BY <2>1 DEF LoadRec, LoadAnswer
  <2> HIDE DEF got
  <2>3. \/ caller'[c] = caller[c] \/ caller'[c] = IdleCaller
        \/ /\ caller[c] \in CallerRec /\ caller[c].pc = "waiting" /\ caller[c].at = at
           /\ caller'[c] = [caller[c] EXCEPT !.pc = "served", !.given = who, !.got = got]
    <3>1. CASE caller[c].pc = "waiting" /\ caller[c].at = at
      <4>1. caller'[c] = [caller[c] EXCEPT !.pc = "served", !.given = who, !.got = got]
        BY <2>1, <3>1 DEF Settled
      <4>2. caller[c] \in CallerRec
        BY <1>a, <3>1 DEF IdleCaller
      <4> QED BY <3>1, <4>1, <4>2
    <3>2. CASE ~(caller[c].pc = "waiting" /\ caller[c].at = at)
      BY <2>1, <3>2 DEF Settled
    <3> QED BY <3>1, <3>2
  <2>4. ASSUME caller[c] \in CallerRec, caller[c].pc = "waiting", caller[c].at = at,
               caller'[c] = [caller[c] EXCEPT !.pc = "served", !.given = who, !.got = got]
        PROVE  CallerGood(c)'
    <3>1. /\ caller'[c].pc = "served" /\ caller'[c].given = who /\ caller'[c].got = got
          /\ caller'[c].floor = caller[c].floor /\ caller[c].floor \in Int
      BY <1>a, <2>4 DEF CallerRec
    <3>2. caller[c].floor <= keyTold[at] /\ keyTold[at] \in Int
      BY <1>a, <2>4 DEF CallerGood
    <3>3. LoadGood(at)
      OBVIOUS
    <3>4. ~got.crossed => got.of = who /\ got.ver >= caller[c].floor
      <4>1. ~got.crossed => got.of = who /\ got.ver >= keyTold[at]
        BY <2>1, <2>2, <3>3 DEF LoadGood
      <4>2. got.ver \in Int
        BY <1>a, <2>2 DEF LoadAnswer
      <4> QED BY <3>1, <3>2, <4>1, <4>2
    <3>5. \A v \in ChangeNumbers : v <= serverDb /\ since[v] > Window => got.ver >= v
      <4>1. inFlight[at].age \in 0 .. MaxFlight
        BY <2>1 DEF LoadRec
      <4>2. \A v \in ChangeNumbers : since[v] > Window => since[v] > inFlight[at].age
        BY <1>a, <4>1
      <4> QED BY <2>1, <2>2, <3>3, <4>2 DEF LoadGood
    <3> QED BY <2>1, <2>2, <3>1, <3>4, <3>5 DEF CallerGood, Served
  <2> QED BY <1>b, <1>c, <2>1, <2>3, <2>4
<1>4. ASSUME NEW at \in Places, Fail(at) PROVE CallerGood(c)'
  <2>1. caller' = Settled(at, "idle", NotKept) /\ UNCHANGED <<serverDb, since, keyTold>>
    BY <1>4 DEF Fail
  <2>2. caller'[c] = caller[c] \/ caller'[c] = IdleCaller
    <3>1. Settled(at, "idle", NotKept)[c] \in {caller[c], IdleCaller}
      BY DEF Settled, IdleCaller
    <3> QED BY <2>1, <3>1
  <2> QED BY <1>b, <1>c, <2>1, <2>2
<1>5. ASSUME NEW t \in ResolveTabs, NEW k \in Keys, Invalidate(t, k) PROVE CallerGood(c)'
  <2>1. /\ UNCHANGED <<serverDb, since, caller>> /\ keyTold' = [keyTold EXCEPT ![<<t, k>>] = serverDb]
    BY <1>5 DEF Invalidate
  <2>2. ASSUME caller[c].pc = "waiting" PROVE caller[c].floor <= keyTold'[caller[c].at]
    <3>1. caller[c] \in CallerRec
      BY <1>a, <2>2 DEF IdleCaller
    <3>2. caller[c].at \in Places /\ caller[c].floor \in Int
      BY <1>a, <3>1 DEF CallerRec
    <3>3. caller[c].floor <= keyTold[caller[c].at] /\ keyTold[caller[c].at] <= serverDb
      BY <2>2, <3>2 DEF CallerGood, HistoryGood, Places
    <3>4. keyTold'[caller[c].at] \in {serverDb, keyTold[caller[c].at]}
      BY <1>a, <2>1, <3>2
    <3>5. keyTold[caller[c].at] \in Int /\ serverDb \in Int
      BY <1>a, <3>2
    <3> QED BY <3>2, <3>3, <3>4, <3>5
  <2> QED BY <2>1, <2>2 DEF CallerGood, Served
<1>6. CASE Change
  <2>1. serverDb' = serverDb + 1 /\ UNCHANGED <<since, keyTold, caller>>
    BY <1>6 DEF Change
  <2>2. \A v \in ChangeNumbers : v <= serverDb' /\ since[v] > Window => v <= serverDb
    <3> SUFFICES ASSUME NEW v \in ChangeNumbers, v <= serverDb', since[v] > Window, ~(v <= serverDb)
                 PROVE  FALSE
      OBVIOUS
    <3>1. serverDb \in Int /\ v \in Int
      BY <1>a
    <3>2. since[v] = 0
      BY <3>1 DEF HistoryGood
    <3> QED BY <1>a, <3>2
  <2> QED BY <2>1, <2>2 DEF CallerGood, Served
<1>7. CASE ResolveTick
  <2>1. keyTold' = keyTold /\ (caller'[c] = IdleCaller \/ (caller'[c] = caller[c] /\ caller[c].pc # "served"))
    BY <1>7, ResTicks
  <2> QED BY <1>b, <2>1 DEF CallerGood, Served
<1>8. \/ \E d \in Callers, x \in Places : ResolveHit(d, x) \/ Join(d, x)
      \/ \E x \in Places : Land(x) \/ Fail(x)
      \/ \E t \in ResolveTabs, k \in Keys : Invalidate(t, k)
      \/ Change \/ ResolveTick \/ UNCHANGED <<serverDb, since, caller, keyTold>>
  BY DEF ResolveNext, Places, ResolveMiss, Reload, Send, Respond, SignIn, resolveVars
<1> QED BY <1>c, <1>1, <1>2, <1>3, <1>4, <1>5, <1>6, <1>7, <1>8

-----------------------------------------------------------------------------
(* Nothing is kept, asked for or loading in a tab that opens.                *)
LEMMA ResStart == ResolveInit => ResIInv
<1> SUFFICES ASSUME ResolveInit PROVE ResIInv
  OBVIOUS
<1>1. /\ who \in Person /\ serverDb = 0 /\ since = [v \in ChangeNumbers |-> 0]
      /\ entries = [at \in Places |-> NotKept] /\ inFlight = [at \in Places |-> NoLoad]
      /\ caller = [c \in Callers |-> IdleCaller] /\ keyTold = [at \in Places |-> 0]
  BY DEF ResolveInit, ChangeNumbers, Places, IdleCaller
<1>2. 0 \in Version /\ 0 \in 0 .. Window + 1
  BY ResNumbers
<1>3. ResolveTypeOK
  BY <1>1, <1>2, ResTyped
<1>4. HistoryGood
  BY <1>1 DEF HistoryGood, Places
<1>5. \A at \in Places : LoadGood(at) /\ EntryGood(at)
  BY <1>1 DEF LoadGood, EntryGood
<1>6. \A c \in Callers : CallerGood(c)
  BY <1>1 DEF CallerGood, Served, IdleCaller
<1> QED BY <1>3, <1>4, <1>5, <1>6 DEF ResIInv, Places

LEMMA ResStep == ResIInv /\ [ResolveNext]_resolveVars => ResIInv'
<1> SUFFICES ASSUME ResIInv, [ResolveNext]_resolveVars PROVE ResIInv'
  OBVIOUS
<1>1. /\ ResolveTypeOK /\ HistoryGood /\ (\A at \in Places : LoadGood(at) /\ EntryGood(at))
      /\ \A c \in Callers : CallerGood(c)
  BY DEF ResIInv, Places
<1>2. ResolveTypeOK' /\ HistoryGood'
  BY <1>1, ResTypesStep, HistoryStep
<1>3. \A at \in Places : LoadGood(at)' /\ EntryGood(at)'
  BY <1>1, LoadStep, EntryStep
<1>4. \A c \in Callers : CallerGood(c)'
  BY <1>1, CallerStep
<1> QED BY <1>2, <1>3, <1>4 DEF ResIInv, Places

(* The inductive invariant of the cache.                                     *)
THEOREM ResolveInvariant == ResolveSpec => []ResIInv
  BY ResStart, ResStep, PTL DEF ResolveSpec

(* What a tab of a consumer makes of the grants it keeps is the subject's    *)
(* own, as new as invalidate() asked for, and never older than the window    *)
(* (libs/iam-client/src/resolve-cache.ts under client.ts).                   *)
THEOREM ConsumersAreSound == ResolveSpec => []ConsumerSound
<1>1. ResIInv => ConsumerSound
  BY DEF ResIInv, CallerGood, ConsumerSound, OwnGrants, InvalidatedIsGone, StaleWithinWindow,
         Uncrossed, ChangeNumbers
<1> QED BY <1>1, ResolveInvariant, PTL

-----------------------------------------------------------------------------
(* The tables, the tree and the tabs are of their types in the three of the  *)
(* suite side by side: no counter passes the number of transactions begun,   *)
(* no path the depth limit, not even one that a lost race has left wrong,    *)
(* and no load is in flight for longer than it may be.                       *)
THEOREM GrantsTyped == GrantsSpec => []GrantsTypeOK
<1> DEFINE Inv == IInv /\ TreeTyped /\ TreeIInv /\ ResolveTypeOK
<1>1. GrantsInit => Inv
  BY Start, TreeTypesStart, TreeInits, ResStart DEF GrantsInit, TreeIInv, ResIInv
<1>2. Inv /\ [GrantsNext]_<<focus, vars, treeVars, resolveVars>> => Inv'
  <2> SUFFICES ASSUME Inv, [GrantsNext]_<<focus, vars, treeVars, resolveVars>> PROVE Inv'
    OBVIOUS
  <2>1. [Next]_vars /\ [TreeNext]_treeVars /\ [ResolveNext]_resolveVars
    BY DEF GrantsNext
  <2> QED BY <2>1, GrantsStep, TreeTypesStep, TreeSteps, ResTypesStep
<1>3. Inv => GrantsTypeOK
  BY GrantsBounded, TypedTree DEF GrantsTypeOK
<1> QED BY <1>1, <1>2, <1>3, PTL DEF GrantsSpec
=============================================================================
