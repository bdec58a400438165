------------------------------- MODULE Roster -------------------------------
(***************************************************************************)
(* The people of one organisation and the three requests that put an       *)
(* address on the list: one user (users.service.ts `create`), a changed    *)
(* address (`update`) and a staff list of many rows                        *)
(* (bulk-upload.service.ts).  An upload adjudicates its rows against each  *)
(* other, writes the survivors with one `insert ... on conflict do         *)
(* nothing`, and reports row by row what became of them.  Addresses are    *)
(* unique; a transaction that meets another's uncommitted address waits.   *)
(* A user is named by what created it: <<request, row>>.                   *)
(***************************************************************************)
EXTENDS Integers, Sequences

CONSTANTS
    StaffUpload, Files,     \* uploads, and the staff lists they may carry:
    Address, Unreadable,    \* sequences of addresses and unreadable rows
    MaxRows,                \* MAX_BULK_USER_ROWS
    NewUser,                \* POST /users requests
    Correction,             \* PATCH /users/:id requests that change an address
    NoOne                   \* nobody: neither a user nor a request

Requests == StaffUpload \union NewUser \union Correction
IdOf(request, k) == <<request, k>>
Who == {IdOf(u, k) : u \in StaffUpload, k \in 1..MaxRows} \union {IdOf(n, 1) : n \in NewUser}

ASSUME FilesAssumption ==
    /\ MaxRows \in Nat /\ Unreadable \notin Address
    /\ Files \subseteq Seq(Address \union {Unreadable})
    /\ \A file \in Files : Len(file) <= MaxRows
ASSUME RequestsAssumption ==
    /\ StaffUpload \intersect NewUser = {}
    /\ (StaffUpload \union NewUser) \intersect Correction = {}
    /\ NoOne \notin Requests \union Who \union Address

VARIABLES
    person,         \* committed: who has each address, or NoOne
    claim,          \* uncommitted: the request that has inserted each address
    sheet,          \* the upload requests
    single,         \* the other requests
    trail,          \* how many user.created records name each user
    everHad         \* history: who has had each address

rosterVars == <<person, claim, sheet, single, trail, everHad>>

\* `adjudicate`: the rows that are readable and the first with their address.
Insertable(file) ==
    {k \in DOMAIN file : file[k] # Unreadable /\ \A j \in 1..k-1 : file[j] # file[k]}

\* Mutant: a row that was sent to the insert is taken to be in.
MutVerdict(file, k, made) ==
    IF file[k] = Unreadable THEN "errored"
    ELSE IF k \in Insertable(file) THEN "created" ELSE "skipped"

\* What the report says of a row, from the addresses the insert returned.
Verdict(file, k, made) ==
    IF file[k] = Unreadable THEN "errored"
    ELSE IF k \in Insertable(file) /\ file[k] \in made THEN "created"
    ELSE "skipped"

NewSheet(pc) == [pc |-> pc, file |-> <<>>, left |-> {}, made |-> {}, report |-> <<>>]
NewRequest(pc) == [pc |-> pc, from |-> NoOne, to |-> NoOne]

RosterTypeOK ==
    /\ \A a \in Address : person[a] \in Who \union {NoOne}
    /\ \A a, b \in Address : person[a] = person[b] => a = b \/ person[a] = NoOne
    /\ \A a \in Address : claim[a] \in Requests \union {NoOne}
    /\ \A u \in StaffUpload :
          /\ sheet[u].pc \in {"idle", "inserting", "done", "failed"}
          /\ sheet[u].left \subseteq 1..MaxRows /\ sheet[u].made \subseteq Address
          /\ \A k \in DOMAIN sheet[u].report :
                sheet[u].report[k] \in {"created", "skipped", "errored"}
    /\ \A s \in DOMAIN single : single[s].pc \in {"idle", "inserting", "open", "done", "refused", "failed"}
    /\ \A p \in Who : trail[p] \in Nat

RosterInit ==
    /\ person = [a \in Address |-> NoOne]
    /\ claim = [a \in Address |-> NoOne]
    /\ sheet = [u \in StaffUpload |-> NewSheet("idle")]
    /\ single = [s \in NewUser \union Correction |-> NewRequest("idle")]
    /\ trail = [p \in Who |-> 0]
    /\ everHad = [a \in Address |-> {}]

Unclaimed(r) == [a \in Address |-> IF claim[a] = r THEN NoOne ELSE claim[a]]

\* The transaction whose end an insert of an address waits for: the one that
\* has written it, or the one that is taking it off a person.
Holder(a) ==
    IF claim[a] # NoOne THEN claim[a]
    ELSE IF \E c \in Correction : single[c].from = a
    THEN CHOOSE c \in Correction : single[c].from = a
    ELSE NoOne

-----------------------------------------------------------------------------
\* The upload.

ReadSheet(u, file) ==
    /\ sheet[u].pc = "idle"
    /\ sheet' = [sheet EXCEPT ![u] = [pc |-> "inserting", file |-> file,
                              left |-> Insertable(file), made |-> {}, report |-> <<>>]]
    /\ UNCHANGED <<person, claim, single, trail, everHad>>

Inserting(u) == sheet[u].pc = "inserting" /\ sheet[u].left # {}
NextRow(u) == CHOOSE k \in sheet[u].left : \A j \in sheet[u].left : k <= j
NextAddress(u) == sheet[u].file[NextRow(u)]

\* The insert writes its rows in file order; an address that is taken is
\* passed over, one that another transaction has written is waited for.
InsertRow(u) ==
    LET a == NextAddress(u)
        free == person[a] = NoOne /\ claim[a] = NoOne IN
    /\ Inserting(u)
    /\ Holder(a) \in {NoOne, u}
    /\ sheet' = [sheet EXCEPT ![u].left = @ \ {NextRow(u)},
                              ![u].made = IF free THEN @ \union {a} ELSE @]
    /\ claim' = IF free THEN [claim EXCEPT ![a] = u] ELSE claim
    /\ UNCHANGED <<person, single, trail, everHad>>

RowFor(u, a) == CHOOSE k \in Insertable(sheet[u].file) : sheet[u].file[k] = a

\* `record` and COMMIT: a user.created for each row that is in, and the report.
CommitUpload(u) ==
    LET file == sheet[u].file
        made == sheet[u].made
        rows == {k \in Insertable(file) : file[k] \in made} IN
    /\ sheet[u].pc = "inserting" /\ sheet[u].left = {}
    /\ person' = [a \in Address |-> IF a \in made THEN IdOf(u, RowFor(u, a)) ELSE person[a]]
    /\ everHad' = [a \in Address |-> IF a \in made THEN everHad[a] \union {IdOf(u, RowFor(u, a))}
                                                   ELSE everHad[a]]
    /\ sheet' = [sheet EXCEPT ![u].pc = "done",
                   ![u].report = [k \in DOMAIN file |-> Verdict(file, k, made)]]
    /\ claim' = Unclaimed(u)
    /\ trail' = [p \in Who |-> IF \E k \in rows : p = IdOf(u, k) THEN trail[p] + 1 ELSE trail[p]]
    /\ UNCHANGED single

-----------------------------------------------------------------------------
\* One address at a time.

Finish(s, outcome) == single' = [single EXCEPT ![s] = NewRequest(outcome)]

AddUser(n, a) ==
    /\ n \in NewUser /\ single[n].pc = "idle"
    /\ single' = [single EXCEPT ![n] = [pc |-> "inserting", from |-> NoOne, to |-> a]]
    /\ UNCHANGED <<person, claim, sheet, trail, everHad>>

\* The update locks the person's row, which holds their old address too.
CorrectAddress(c, a, b) ==
    /\ c \in Correction /\ single[c].pc = "idle"
    /\ a # b /\ person[a] # NoOne
    /\ \A d \in Correction : single[d].from # a
    /\ single' = [single EXCEPT ![c] = [pc |-> "inserting", from |-> a, to |-> b]]
    /\ UNCHANGED <<person, claim, sheet, trail, everHad>>

\* The unique index lets it in, or answers 409 and the request rolls back.
InsertOne(s) ==
    LET a == single[s].to IN
    /\ single[s].pc = "inserting"
    /\ Holder(a) = NoOne
    /\ IF person[a] = NoOne
       THEN /\ claim' = [claim EXCEPT ![a] = s]
            /\ single' = [single EXCEPT ![s].pc = "open"]
       ELSE /\ Finish(s, "refused")
            /\ UNCHANGED claim
    /\ UNCHANGED <<person, sheet, trail, everHad>>

CommitUser(n) ==
    LET a == single[n].to IN
    /\ n \in NewUser /\ single[n].pc = "open"
    /\ person' = [person EXCEPT ![a] = IdOf(n, 1)]
    /\ everHad' = [everHad EXCEPT ![a] = @ \union {IdOf(n, 1)}]
    /\ trail' = [trail EXCEPT ![IdOf(n, 1)] = @ + 1]
    /\ claim' = Unclaimed(n)
    /\ Finish(n, "done")
    /\ UNCHANGED sheet

CommitCorrection(c) ==
    LET a == single[c].from
        b == single[c].to IN
    /\ c \in Correction /\ single[c].pc = "open"
    /\ person' = [person EXCEPT ![b] = person[a], ![a] = NoOne]
    /\ everHad' = [everHad EXCEPT ![b] = @ \union {person[a]}]
    /\ claim' = Unclaimed(c)
    /\ Finish(c, "done")
    /\ UNCHANGED <<sheet, trail>>

-----------------------------------------------------------------------------
\* Whom a request waits for.
Awaited(r) ==
    IF r \in StaffUpload
    THEN IF Inserting(r) THEN Holder(NextAddress(r)) ELSE NoOne
    ELSE IF single[r].pc = "inserting" THEN Holder(single[r].to) ELSE NoOne

WaitsInCircle(r) ==
    \E s \in Requests :
        /\ Awaited(r) = s
        /\ Awaited(s) = r \/ \E t \in Requests : Awaited(s) = t /\ Awaited(t) = r

\* Requests that wait for each other in a circle (of two or three here):
\* PostgreSQL fails one of them, which rolls back; nothing tries it again.
Deadlocked(r) ==
    /\ WaitsInCircle(r)
    /\ IF r \in StaffUpload
       THEN sheet' = [sheet EXCEPT ![r] = NewSheet("failed")] /\ UNCHANGED single
       ELSE Finish(r, "failed") /\ UNCHANGED sheet
    /\ claim' = Unclaimed(r)
    /\ UNCHANGED <<person, trail, everHad>>

RosterNext ==
    \/ \E u \in StaffUpload :
          \/ \E file \in Files : ReadSheet(u, file)
          \/ InsertRow(u) \/ CommitUpload(u)
    \/ \E n \in NewUser : CommitUser(n) \/ \E a \in Address : AddUser(n, a)
    \/ \E c \in Correction : CommitCorrection(c) \/ \E a, b \in Address : CorrectAddress(c, a, b)
    \/ \E s \in NewUser \union Correction : InsertOne(s)
    \/ \E r \in Requests : Deadlocked(r)

RosterSpec == RosterInit /\ [][RosterNext]_rosterVars

-----------------------------------------------------------------------------
Members == {person[a] : a \in Address} \ {NoOne}
Everybody == UNION {everHad[a] : a \in Address}
Reported(u, outcome) == {k \in DOMAIN sheet[u].report : sheet[u].report[k] = outcome}

\* "`created` in the report always means committed", and skipped always means
\* that somebody else, or an earlier row, had the address: whatever ran beside
\* the upload, and though `returning` only tells addresses.
ReportIsTrue ==
    \A u \in StaffUpload : sheet[u].pc = "done" =>
        LET file == sheet[u].file IN
        /\ {IdOf(u, k) : k \in Reported(u, "created")} = {p \in Everybody : p[1] = u}
        /\ \A k \in Reported(u, "skipped") :
              \/ \E p \in everHad[file[k]] : p[1] # u
              \/ \E j \in 1..k-1 : file[j] = file[k]

\* Whoever came to be is a member still - no address is taken from its holder
\* by anybody else - and explained by one user.created record; no record
\* explains somebody who never came to be.
EveryoneExplained ==
    /\ Members = Everybody
    /\ \A p \in Who : trail[p] = IF p \in Everybody THEN 1 ELSE 0

(* Reports, people and records agree, whatever requests ran side by side.    *)
RosterIsTrue == ReportIsTrue /\ EveryoneExplained
=============================================================================
