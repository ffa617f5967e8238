----------------------------- MODULE ListPages -----------------------------
(***************************************************************************)
(* A client pages through the audit trail while entries are appended: the  *)
(* plain list, the grouped list, the group-paged list that counts visible  *)
(* rows, and the export (shared/pagination, activity's AuditService,       *)
(* shared/export).  Every answer is put together from two or three         *)
(* separate reads.  An entry is its number, larger is newer; a group key   *)
(* is a number, 0 for no value.                                            *)
(***************************************************************************)
EXTENDS FiniteSets, Integers, Sequences, SequencesExt

CONSTANTS
    Records,         \* the entries that may be written
    Keys,            \* values of a grouped field
    GroupFields,     \* the columns the endpoint groups by
    Requests,        \* the queries a client starts with
    DefaultPerPage, MaxPerPage, MaxGroupDepth,
    MaxRows,         \* the largest export
    MaxWrites,       \* bound on entries appended during a walk
    None

VARIABLES
    trail,   \* [Records -> None or [GroupFields -> Keys]]
    q,       \* the bound query, or None
    pc,      \* what is read next
    total,   \* CountDocuments
    plan,    \* the window of the group-paged mode
    rows,    \* the rows read
    answer,  \* the page sent, or None
    walked,  \* history: the pages so far, without repeated headers
    first,   \* history: the page the walk began at
    writes,  \* entries appended since the walk began
    late     \* history: entries appended between the two reads of this page's window

vars == <<trail, q, pc, total, plan, rows, answer, walked, first, writes, late>>

Smaller(a, b) == IF a < b THEN a ELSE b
\* The elements of S in the order given, each at the place the ones before it leave.
InOrder(S, Before(_, _)) ==
    [i \in 1..Cardinality(S) |->
        CHOOSE x \in S : Cardinality({y \in S : Before(y, x)}) = i - 1]

\* What the filter of the query lets through: the entries of one tenant.
Existing == {r \in Records : trail[r] # None}
Path(r, levels) == [i \in DOMAIN levels |-> trail[r][levels[i]]]
GroupsOf(path) == {SubSeq(path, 1, n) : n \in 1..Len(path)}

Init ==
    /\ trail \in [Records -> {None} \cup [GroupFields -> Keys]]
    /\ q = None /\ pc = "idle" /\ total = 0 /\ plan = None /\ rows = <<>>
    /\ answer = None /\ walked = <<>> /\ first = 1 /\ writes = 0 /\ late = 0

-----------------------------------------------------------------------------
(* Binding a query *)

\* FromContext, intParam and Normalize; 0 stands for a missing or unreadable number.
Normalize(raw) ==
    [raw EXCEPT !.page = IF @ < 1 THEN 1 ELSE @,
                !.perPage = IF @ < 1 THEN DefaultPerPage ELSE Smaller(@, MaxPerPage)]

\* Bug for comparison: as many rows are read as an export may have.
LimitAtMax == MaxRows

\* One row more than an export may have is read.
ExportLimit == MaxRows + 1

\* export.Query: everything, on one page, ungrouped.
ExportQuery(query) ==
    [query EXCEPT !.page = 1, !.perPage = ExportLimit, !.groupBy = <<>>, !.groupPaging = FALSE,
                  !.exceptions = {}]

Bound(raw) == IF raw.export THEN ExportQuery(Normalize(raw)) ELSE Normalize(raw)

IsGrouped(query) == query.groupBy # <<>>
IsGroupPaged(query) == query.groupPaging /\ IsGrouped(query)

\* GroupFields.Levels: known columns, none twice, not too deep.
ValidLevels(query) ==
    /\ Len(query.groupBy) <= MaxGroupDepth
    /\ ToSet(query.groupBy) \subseteq GroupFields
    /\ IsInjective(query.groupBy)

Skip(query) == (query.page - 1) * query.perPage
Window(s, query) == SubSeq(s, Skip(query) + 1, Smaller(Skip(query) + query.perPage, Len(s)))

HasNext(query, count) == query.page * query.perPage < count

-----------------------------------------------------------------------------
(* The planner of the group-paged mode *)

\* Bug for comparison: no value last.
LessKeyNilLast(a, b) == IF b = 0 THEN a # 0 ELSE a # 0 /\ a < b

\* lessKey puts no value first, as MongoDB's ascending sort does.
LessKey(a, b) == IF a = 0 THEN b # 0 ELSE b # 0 /\ a < b

Leaves(levels) == {Path(r, levels) : r \in Existing}
CountOf(path, levels) == Cardinality({r \in Existing : path \in GroupsOf(Path(r, levels))})
Children(prefix, levels) ==
    InOrder({leaf[Len(prefix) + 1] : leaf \in {l \in Leaves(levels) :
        prefix = SubSeq(l, 1, Len(prefix))}}, LessKey)

\* ExpansionSet.Open; an exception that names no group is never asked for.
Open(path, query) == query.expandAll # (path \in query.exceptions)

Header(path, n) == [kind |-> "header", path |-> path, count |-> n, continued |-> FALSE]
RowSlot(path) == [kind |-> "row", path |-> path]

\* The walk of PlanWindow: a header for each group, and the rows of an open leaf.
Slots(query) ==
    LET slots[prefix \in UNION {[1..n -> Keys] : n \in 0..(Len(query.groupBy) - 1)}] ==
            LET one(k) ==
                    LET path == Append(prefix, k)
                        n == CountOf(path, query.groupBy)
                    IN  <<Header(path, n)>> \o
                        IF ~Open(path, query) THEN <<>>
                        ELSE IF Len(path) = Len(query.groupBy) THEN [i \in 1..n |-> RowSlot(path)]
                        ELSE slots[path]
            IN  FoldLeft(LAMBDA acc, k : acc \o one(k), <<>>, Children(prefix, query.groupBy))
    IN  slots[<<>>]

RowsIn(slots) == Len(SelectSeq(slots, LAMBDA s : s.kind = "row"))

\* Bug for comparison: a page that begins inside a group begins with a row.
NotContinued(slots) == slots

\* prependContinuedHeaders: the headers of the group a page begins inside of.
Continued(slots) ==
    IF slots = <<>> \/ slots[1].kind = "header" THEN slots
    ELSE [n \in 1..Len(slots[1].path) |->
             [Header(SubSeq(slots[1].path, 1, n), CountOf(SubSeq(slots[1].path, 1, n), q.groupBy))
                 EXCEPT !.continued = TRUE]] \o slots

PlanWindow(query) ==
    LET all == Slots(query)
        page == Window(all, query)
    IN  [slots |-> Continued(page),
         visible |-> Len(all),
         rowSkip |-> RowsIn(SubSeq(all, 1, Smaller(Skip(query), Len(all)))),
         rowLimit |-> RowsIn(page),
         openLeaves |-> {s.path : s \in {t \in ToSet(all) : t.kind = "row"}},
         allOpen |-> \A s \in ToSet(all) : s.kind = "header" => Open(s.path, query)]

-----------------------------------------------------------------------------
(* The reads of one answer *)

LexLess(p, s) ==
    \E i \in 1..Len(p) : p[i] < s[i] /\ \A j \in 1..(i - 1) : p[j] = s[j]

\* GroupSort: the group fields ascending, then the newest first.  A client's own
\* sortBy orders the rows of a group otherwise, and rows alike in it by chance; here they
\* always lie in the one strict order, which no property but WalkIsTheList looks at.
Precedes(levels, r, s) ==
    \/ LexLess(Path(r, levels), Path(s, levels))
    \/ Path(r, levels) = Path(s, levels) /\ r > s
Sorted(levels, found) == InOrder(found, LAMBDA r, s : Precedes(levels, r, s))

Ask(raw) ==
    /\ pc = "idle"
    /\ q' = Bound(raw) /\ first' = q'.page
    /\ IF ValidLevels(q') THEN pc' = "count" /\ UNCHANGED answer
       ELSE pc' = "end" /\ answer' = [kind |-> "refused"]
    /\ UNCHANGED <<trail, total, plan, rows, walked, writes, late>>

Count ==
    /\ pc = "count"
    /\ total' = Cardinality(Existing)
    /\ pc' = IF IsGroupPaged(q) THEN "leaves" ELSE "find"
    /\ UNCHANGED <<trail, q, plan, rows, answer, walked, first, writes, late>>

\* Respond: past MaxRows, by the count or by the rows, the export is refused.
Respond(found) ==
    IF total > MaxRows \/ Len(found) > MaxRows THEN [kind |-> "refused"]
    ELSE [kind |-> "sheet", items |-> found]

Page(items, count) ==
    [kind |-> "page", items |-> items, hasNext |-> HasNext(q, count), counts |-> {}]

Tagged(found) == [i \in 1..Len(found) |->
                     [kind |-> "row", path |-> Path(found[i], q.groupBy), row |-> found[i]]]
Own(items) == SelectSeq(items, LAMBDA x : x.kind = "row" \/ ~x.continued)

\* List, and the window of GroupedFind: group fields first, so that a group is
\* contiguous in it.
Find ==
    /\ pc = "find"
    /\ LET found == Window(Sorted(q.groupBy, Existing), q)
       IN  /\ rows' = Tagged(found)
           /\ answer' = IF q.export THEN Respond(found) ELSE Page(rows', total)
           /\ walked' = walked \o rows'
    /\ pc' = IF IsGrouped(q) THEN "counts" ELSE "sent"
    /\ UNCHANGED <<trail, q, total, plan, first, writes, late>>

\* Bug for comparison: a count for each full path, and none for the shorter ones.
LeafPaths(path) == {path}

Counted(path) == GroupsOf(path)

\* groupCounts: the groups under the top-level keys of the page, each prefix summed.
GroupCounts ==
    /\ pc = "counts"
    /\ LET tops == {x.path[1] : x \in ToSet(rows)}
           within == {r \in Existing : Path(r, q.groupBy)[1] \in tops}
           paths == UNION {Counted(Path(r, q.groupBy)) : r \in within}
       IN  answer' = [answer EXCEPT !.counts =
               {[path |-> p, count |-> CountOf(p, q.groupBy)] : p \in paths}]
    /\ pc' = "sent"
    /\ UNCHANGED <<trail, q, total, plan, rows, walked, first, writes, late>>

\* AssembleWindow: rows into slots in order, under the path of the slot and not of the
\* row; slots without a row are left out.
AssembleWindow(slots, found) ==
    LET full == [i \in 1..Len(slots) |->
            IF slots[i].kind = "header" THEN slots[i]
            ELSE LET n == RowsIn(SubSeq(slots, 1, i))
                 IN  [kind |-> "row", path |-> slots[i].path,
                      row |-> IF n <= Len(found) THEN found[n] ELSE None]]
    IN  SelectSeq(full, LAMBDA x : x.kind = "header" \/ x.row # None)

Answered(items, visible) ==
    /\ answer' = Page(items, visible)
    /\ walked' = walked \o Own(items)
    /\ pc' = "sent"

\* One $group for the whole tree; without a row on the page nothing else is read.
ReadLeaves ==
    /\ pc = "leaves"
    /\ plan' = PlanWindow(q)
    /\ IF plan'.rowLimit > 0 THEN pc' = "rows" /\ UNCHANGED <<answer, walked>>
       ELSE Answered(plan'.slots, plan'.visible)
    /\ UNCHANGED <<trail, q, total, rows, first, writes, late>>

\* OpenLeafClause: no restriction when everything is open, else the open leaves.
OpenLeaf(r) == plan.allOpen \/ Path(r, q.groupBy) \in plan.openLeaves

ReadRows ==
    /\ pc = "rows"
    /\ LET open == Sorted(q.groupBy, {r \in Existing : OpenLeaf(r)})
       IN  Answered(AssembleWindow(plan.slots,
               SubSeq(open, plan.rowSkip + 1, Smaller(plan.rowSkip + plan.rowLimit, Len(open)))), plan.visible)
    /\ UNCHANGED <<trail, q, total, plan, rows, first, writes, late>>

\* The client follows hasNext.
NextPage ==
    /\ pc = "sent" /\ answer.kind = "page" /\ answer.hasNext
    /\ q' = [q EXCEPT !.page = @ + 1]
    /\ pc' = "count" /\ answer' = None /\ plan' = None /\ rows' = <<>> /\ late' = 0
    /\ UNCHANGED <<trail, total, walked, first, writes>>

Finish ==
    /\ pc = "sent" /\ ~(answer.kind = "page" /\ answer.hasNext)
    /\ pc' = "end"
    /\ UNCHANGED <<trail, q, total, plan, rows, answer, walked, first, writes, late>>

\* AuditService.Record; an entry carries the time of its request and may be inserted
\* after a newer one.
Record(r, entry) ==
    /\ trail[r] = None /\ writes < MaxWrites /\ pc \notin {"idle", "end"}
    /\ trail' = [trail EXCEPT ![r] = entry]
    /\ writes' = writes + 1
    /\ late' = late + (IF pc = "rows" THEN 1 ELSE 0)
    /\ UNCHANGED <<q, pc, total, plan, rows, answer, walked, first>>

Next ==
    \/ \E raw \in Requests : Ask(raw)
    \/ Count \/ Find \/ GroupCounts \/ ReadLeaves \/ ReadRows \/ NextPage \/ Finish
    \/ \E r \in Records, entry \in [GroupFields -> Keys] : Record(r, entry)

Spec == Init /\ [][Next]_vars

-----------------------------------------------------------------------------
(* Correctness *)

TypeOK ==
    /\ trail \in [Records -> {None} \cup [GroupFields -> Keys]]
    /\ pc \in {"idle", "count", "find", "counts", "leaves", "rows", "sent", "end"}
    /\ q # None => q.page >= 1 /\ q.perPage \in 1..(IF q.export THEN MaxRows + 1 ELSE MaxPerPage)
    /\ answer # None => answer.kind \in {"refused", "sheet", "page"}
    /\ writes \in 0..MaxWrites

\* What a list consists of, said without pages: every entry under its path, every
\* group all of whose ancestors are open, the entries of open groups, in order.
Groups(query) ==
    {p \in UNION {GroupsOf(l) : l \in Leaves(query.groupBy)} :
        \A a \in GroupsOf(p) \ {p} : Open(a, query)}
Shown(query) ==
    IF IsGroupPaged(query)
    THEN {Header(p, CountOf(p, query.groupBy)) : p \in Groups(query)} \cup
         {[kind |-> "row", path |-> Path(r, query.groupBy), row |-> r] :
            r \in {e \in Existing : \A p \in GroupsOf(Path(e, query.groupBy)) : Open(p, query)}}
    ELSE {[kind |-> "row", path |-> Path(r, query.groupBy), row |-> r] : r \in Existing}
Above(x, y) ==
    \/ x.kind = "header" /\ x.path # y.path /\ IsPrefix(x.path, y.path)
    \/ x.kind = "header" /\ y.kind = "row" /\ x.path = y.path
    \/ ~IsPrefix(x.path, y.path) /\ ~IsPrefix(y.path, x.path) /\
       LexLess(SubSeq(x.path, 1, Smaller(Len(x.path), Len(y.path))),
               SubSeq(y.path, 1, Smaller(Len(x.path), Len(y.path))))
    \/ x.kind = "row" /\ y.kind = "row" /\ x.path = y.path /\ x.row > y.row

\* The pages a client is led through by hasNext are the list, each item once and in
\* its place, whatever is grouped, open or closed, as long as nothing is written
\* meanwhile (a walk from the first page).
WalkIsTheList ==
    (pc = "end" /\ answer.kind = "page" /\ writes = 0 /\ first = 1) =>
        walked = InOrder(Shown(q), Above)

\* On every page of a group-paged list each row has a header above it, that of its
\* group, also when the page begins inside the group (prependContinuedHeaders).  Only an
\* entry that arrives between the two aggregations pushes the rows behind it on by one slot,
\* the last row of a group under the next header: no header has more rows of another group than
\* entries came in between, and none does without one.  (AssembleWindow's comment,
\* mongogrouppaging.go:242-243, and its test have it that no row is ever paired with the
\* wrong header; of rows deleted in between, which the trail never has, it says the same.)
HeadersAbove(items, i) == {j \in 1..(i - 1) : items[j].kind = "header"}
Strangers(items, path) ==
    {i \in DOMAIN items : /\ items[i].kind = "row" /\ items[i].path = path
                          /\ Path(items[i].row, q.groupBy) # path}
NoOrphanRows ==
    (answer # None /\ answer.kind = "page" /\ IsGroupPaged(q)) =>
        \A i \in DOMAIN answer.items : answer.items[i].kind = "row" =>
            \E j \in HeadersAbove(answer.items, i) :
                /\ \A h \in HeadersAbove(answer.items, i) : h <= j
                /\ answer.items[j].path = answer.items[i].path
                /\ Cardinality(Strangers(answer.items, answer.items[j].path)) <= late

\* Each group with a row on a grouped page has its count, never smaller than the
\* rows shown of it, whatever was appended between the two reads (groupCounts).
CountCoversRows ==
    (pc = "sent" /\ IsGrouped(q) /\ ~IsGroupPaged(q)) =>
        \A i \in DOMAIN rows : \A p \in GroupsOf(rows[i].path) :
            \E c \in answer.counts : c.path = p /\
                c.count >= Cardinality({x \in ToSet(rows) : p \in GroupsOf(x.path)})

\* A spreadsheet is complete as of the moment its rows were read, or it is refused:
\* it is never cut off (the comment of MaxRows).
ExportWhole ==
    answer' # answer /\ answer' # None /\ answer'.kind = "sheet" => ToSet(answer'.items) = Existing

NoTruncatedExport == [][ExportWhole]_vars
=============================================================================
