------------------------------ MODULE AuditTrail ------------------------------
(* Reading the audit trail while it is written: the CSV export, whose chunks *)
(* are read from one snapshot, and the pages of the screen, which take a new *)
(* one with every statement.                                                 *)
(*                                                                           *)
(* A row is stamped with the instant its transaction began, and carries a    *)
(* random id; both are seen when the transaction commits, so rows turn up in *)
(* the middle of the trail, and rows of one transaction tie.  Instants are   *)
(* microseconds here as in the column; the driver hands out milliseconds.    *)
(* Of a filter only its range is kept; the others narrow the same way.       *)
EXTENDS Integers, FiniteSets, Sequences, SequencesExt

CONSTANTS
    Clerk,          \* transactions that write records
    AuditId,        \* ids, compared as uuids are
    Millisecond,    \* instants in one
    AuditEnd,       \* the last instant: a bound
    ChunkSize, ExportMax, PageSize,
    Filters         \* records [from, to], from inclusive and to exclusive

ASSUME AuditAssumption ==
    /\ AuditId \subseteq Nat /\ IsFiniteSet(AuditId)
    /\ Millisecond \in Nat \ {0} /\ AuditEnd \in Nat
    /\ ChunkSize \in Nat \ {0} /\ PageSize \in Nat \ {0} /\ ExportMax \in Nat
    /\ Filters \subseteq [from : Nat, to : Nat]

VARIABLES
    instant,        \* the database's clock
    trailRows,      \* the committed rows
    writing,        \* each writing transaction: its stamp and its rows
    export,         \* the export request
    pager           \* a person turning the pages of the screen

auditVars == <<instant, trailRows, writing, export, pager>>

AuditRow == [at : 0 .. AuditEnd, id : AuditId]
NoFilter == [from |-> 0, to |-> 0]
NoRow == [at |-> 0, id |-> 0]
NoExport == [pc |-> "none", at |-> 0, filter |-> NoFilter, snapshot |-> {}, total |-> 0,
             records |-> <<>>, own |-> NoRow]
NoPager == [pc |-> "none", filter |-> NoFilter, page |-> 0, total |-> 0, first |-> {},
            data |-> <<>>, seen |-> {}]

Rows(of) == {writing[c].rows : c \in of}
UsedIds ==
    {r.id : r \in trailRows \cup UNION Rows(Clerk)} \cup
    (IF export.pc = "recorded" THEN {export.own.id} ELSE {})

(* auditFilter: half-open. *)
Matching(rows, filter) == {r \in rows : filter.from <= r.at /\ r.at < filter.to}

(* order by created_at desc, id desc offset o limit n.                       *)
Precedes(r, s) == r.at > s.at \/ (r.at = s.at /\ r.id > s.id)
Place(rows, r) == Cardinality({s \in rows : Precedes(s, r)})
RowAt(rows, k) == CHOOSE r \in rows : Place(rows, r) = k
InOrder(rows, o, n) ==
    LET left == Cardinality(rows) - o
    IN  [k \in 1 .. (IF left < n THEN left ELSE n) |-> RowAt(rows, o + k - 1)]

(* toAuditRecord: toISOString() of the Date the driver made. *)
ToDate(at) == (at \div Millisecond) * Millisecond

AuditTypeOK ==
    /\ instant \in 0 .. AuditEnd
    /\ trailRows \subseteq AuditRow
    /\ \A r, s \in trailRows : r.id = s.id => r = s
    /\ writing \in [Clerk -> [pc : {"idle", "open", "ended"}, at : 0 .. AuditEnd,
                            rows : SUBSET AuditRow]]
    /\ export.pc \in {"none", "open", "reading", "read", "recorded",
                      "answered", "refused", "failed"}
    /\ pager.pc \in {"none", "asking", "rows", "shown"}

AuditInit ==
    /\ instant = 0
    /\ trailRows = {}
    /\ writing = [c \in Clerk |-> [pc |-> "idle", at |-> 0, rows |-> {}]]
    /\ export = NoExport
    /\ pager = NoPager

-----------------------------------------------------------------------------
(* BEGIN: now() stays what it is for the transaction. *)
BeginWriting(c) ==
    /\ writing[c].pc = "idle"
    /\ writing' = [writing EXCEPT ![c] = [@ EXCEPT !.pc = "open", !.at = instant]]
    /\ UNCHANGED <<instant, trailRows, export, pager>>

(* record and recordMany: one row, or a batch; a transaction does so once    *)
(* here, rows of several calls being stamped alike.                          *)
RecordActions(c, ids) ==
    /\ writing[c].pc = "open" /\ writing[c].rows = {}
    /\ writing' = [writing EXCEPT ![c].rows = {[at |-> writing[c].at, id |-> i] : i \in ids}]
    /\ UNCHANGED <<instant, trailRows, export, pager>>

CommitWriting(c) ==
    /\ writing[c].pc = "open"
    /\ trailRows' = trailRows \cup writing[c].rows
    /\ writing' = [writing EXCEPT ![c] = [@ EXCEPT !.pc = "ended", !.rows = {}]]
    /\ UNCHANGED <<instant, export, pager>>

RollbackWriting(c) ==
    /\ writing[c].pc = "open"
    /\ writing' = [writing EXCEPT ![c] = [@ EXCEPT !.pc = "ended", !.rows = {}]]
    /\ UNCHANGED <<instant, trailRows, export, pager>>

AuditTick ==
    /\ instant < AuditEnd
    /\ instant' = instant + 1
    /\ UNCHANGED <<trailRows, writing, export, pager>>

-----------------------------------------------------------------------------
(* The interceptor's BEGIN at REPEATABLE READ and its context, the first     *)
(* statement, which takes the snapshot.                                      *)
BeginExport(filter) ==
    /\ export.pc = "none"
    /\ export' = [NoExport EXCEPT !.pc = "open", !.at = instant, !.filter = filter,
                                  !.snapshot = Matching(trailRows, filter)]
    /\ UNCHANGED <<instant, trailRows, writing, pager>>

(* Mutant: the route is not marked, and runs at READ COMMITTED. *)
MutInSnapshot == Matching(trailRows, export.filter)

(* What a statement of the export sees of its filter. *)
InSnapshot == export.snapshot

(* count(): over the cap the request is refused, and rolled back. *)
CountExport ==
    LET total == Cardinality(InSnapshot) IN
    /\ export.pc = "open"
    /\ export' = [export EXCEPT !.total = total,
                                !.pc = IF total > ExportMax THEN "refused" ELSE "reading"]
    /\ UNCHANGED <<instant, trailRows, writing, pager>>

(* chunk(): what is left after the cursor, which is the last row as it was   *)
(* handed out; nothing yet leaves everything.                                *)
AfterCursor(rows) ==
    IF export.records = <<>> THEN rows
    ELSE LET last == Last(export.records)
         IN  {r \in rows : Precedes([last EXCEPT !.at = ToDate(@)], r)}

(* A chunk that comes back short is the last. *)
ReadChunk ==
    LET chunk == InOrder(AfterCursor(InSnapshot), 0, ChunkSize) IN
    /\ export.pc = "reading"
    /\ export' = [export EXCEPT !.records = @ \o chunk,
                                !.pc = IF Len(chunk) < ChunkSize THEN "read" ELSE "reading"]
    /\ UNCHANGED <<instant, trailRows, writing, pager>>

(* record(audit.exported), after the reads and in the same transaction. *)
RecordExport(i) ==
    /\ export.pc = "read"
    /\ export' = [export EXCEPT !.pc = "recorded", !.own = [at |-> export.at, id |-> i]]
    /\ UNCHANGED <<instant, trailRows, writing, pager>>

CommitExport ==
    /\ export.pc = "recorded"
    /\ trailRows' = trailRows \cup {export.own}
    /\ export' = [export EXCEPT !.pc = "answered"]
    /\ UNCHANGED <<instant, writing, pager>>

(* Any statement fails: no record, and no file. *)
FailExport ==
    /\ export.pc \in {"open", "reading", "read", "recorded"}
    /\ export' = [export EXCEPT !.pc = "failed"]
    /\ UNCHANGED <<instant, trailRows, writing, pager>>

-----------------------------------------------------------------------------
(* The screen asks for page 1; `first' is what there was to be seen then.    *)
OpenScreen(filter) ==
    /\ pager.pc = "none"
    /\ pager' = [NoPager EXCEPT !.pc = "asking", !.filter = filter, !.page = 1,
                                !.first = Matching(trailRows, filter)]
    /\ UNCHANGED <<instant, trailRows, writing, export>>

(* list(), READ COMMITTED: the rows of the page ... *)
ReadPage ==
    LET data == InOrder(Matching(trailRows, pager.filter), (pager.page - 1) * PageSize, PageSize)
    IN  /\ pager.pc = "asking"
        /\ pager' = [pager EXCEPT !.pc = "rows", !.data = data, !.seen = @ \cup ToSet(data)]
        /\ UNCHANGED <<instant, trailRows, writing, export>>

(* ... and their number, in a second statement. *)
ReadTotal ==
    /\ pager.pc = "rows"
    /\ pager' = [pager EXCEPT !.pc = "shown",
                              !.total = Cardinality(Matching(trailRows, pager.filter))]
    /\ UNCHANGED <<instant, trailRows, writing, export>>

(* The table offers a next page while the total says that there is one. *)
HasNextPage == pager.page * PageSize < pager.total
TurnPage ==
    /\ pager.pc = "shown" /\ HasNextPage
    /\ pager' = [pager EXCEPT !.pc = "asking", !.page = @ + 1]
    /\ UNCHANGED <<instant, trailRows, writing, export>>

-----------------------------------------------------------------------------
ClerkStep(c) ==
    \/ BeginWriting(c) \/ CommitWriting(c) \/ RollbackWriting(c)
    \/ \E ids \in SUBSET (AuditId \ UsedIds) \ {{}} : RecordActions(c, ids)
ExportStep ==
    \/ \E filter \in Filters : BeginExport(filter)
    \/ CountExport \/ ReadChunk \/ CommitExport \/ FailExport
    \/ \E i \in AuditId \ UsedIds : RecordExport(i)
PagerStep ==
    \/ \E filter \in Filters : OpenScreen(filter)
    \/ ReadPage \/ ReadTotal \/ TurnPage

AuditNext == AuditTick \/ (\E c \in Clerk : ClerkStep(c)) \/ ExportStep \/ PagerStep

AuditSpec == AuditInit /\ [][AuditNext]_auditVars

-----------------------------------------------------------------------------
Exported == export.pc \in {"recorded", "answered"}

(* Rows that the cursor jumps: of the same millisecond as the last row of a  *)
(* full chunk, and after it.                                                 *)
Jumped ==
    {r \in export.snapshot : \E k \in DOMAIN export.records :
        /\ \E n \in 1 .. k : k = n * ChunkSize
        /\ Precedes(export.records[k], r)
        /\ ToDate(export.records[k].at) = ToDate(r.at)}

(* "The count, every chunk and the `rows' figure in the audit record are all *)
(* statements about one snapshot": whatever commits meanwhile, an export is  *)
(* in order, has no row twice, none that was not counted, nor its own        *)
(* record, and lacks only rows the cursor jumps.                             *)
ExportIsExact ==
    /\ Exported =>
           /\ \A j, k \in DOMAIN export.records :
                 j < k => Precedes(export.records[j], export.records[k])
           /\ ToSet(export.records) \subseteq export.snapshot
           /\ export.snapshot \ ToSet(export.records) \subseteq Jumped
           /\ Len(export.records) <= export.total /\ export.total <= ExportMax
           /\ export.own \notin ToSet(export.records)
    /\ export.pc = "refused" => Cardinality(export.snapshot) > ExportMax

(* A trail that is only appended to, wherever in its order, can be paged by  *)
(* offsets: whoever turns the pages to the last one the table offers has     *)
(* seen every row that was there at the start, and no page shows a row       *)
(* beyond the total it is shown with.                                        *)
PagesShowAll ==
    pager.pc = "shown" =>
        /\ ~HasNextPage => pager.first \subseteq pager.seen
        /\ pager.data # <<>> => pager.total >= (pager.page - 1) * PageSize + Len(pager.data)

(* The trail is read as it is, by file and by page. *)
TrailReadable == ExportIsExact /\ PagesShowAll

(* "The whole filter, or a refusal -- never a silent prefix." *)
ExportIsWhole == Exported => ToSet(export.records) = export.snapshot
=============================================================================
