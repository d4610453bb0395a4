------------------------------ MODULE IndexEngine ------------------------------
(***************************************************************************)
(* One immutable layer of rust/src: its rows are written as page-aligned   *)
(* segments (builder.rs, stream_builder.rs, segment.rs), exact indexes are *)
(* added (exact.rs), and engine.rs answers conjunctions of equality        *)
(* predicates from the indexes, from page routing or by scanning.          *)
(*                                                                         *)
(* A token is a number below its column's cardinality.  How large a        *)
(* representation is, which decides the kind of an index file, is not      *)
(* modelled: any kind the code may choose for an index may be built.       *)
(***************************************************************************)
EXTENDS Postings

CONSTANTS
    Columns,      \* the number of columns
    Card,         \* Card[c], the cardinality of column c
    Tables,       \* the tables that are imported: sequences of rows
    Layouts,      \* what is built: the cold columns, the columns of the page hierarchies, and
                  \* the columns of the exact indexes with the kind their sizes decide for
    PageRows,     \* rows in a page
    GroupRows,    \* rows in a row group of the cold columns' file
    MaxSort,      \* max_sort_records
    DriverBatch,  \* rows of the first index that are intersected at once (4096)
    Requests      \* the questions asked

ColumnIds == 0..(Columns - 1)

\* What an index may be built on.
IndexColumns == Seq(ColumnIds) \ {<<>>}

\* The kinds the sizes may decide for; only a single column may become bit slices.
ExactKinds(columns) == IF Len(columns) = 1 THEN RowKinds ELSE RowKinds \ {"bitslice"}

ASSUME EngineAssumption ==
    /\ Columns \in Nat \ {0}
    /\ {PageRows, GroupRows, MaxSort, DriverBatch} \subseteq Nat \ {0}
    /\ Card \in [ColumnIds -> Nat \ {0}]
    /\ \A rows \in Tables :
           /\ rows \in Seq([ColumnIds -> Nat]) \ {<<>>}
           /\ \A i \in DOMAIN rows, c \in ColumnIds : rows[i][c] < Card[c]
    /\ \A built \in Layouts :
           /\ built \in [cold : SUBSET ColumnIds, pageSpecs : Seq(IndexColumns),
                         exact : Seq([columns : IndexColumns, kind : RowKinds])]
           /\ \A i \in DOMAIN built.exact : built.exact[i].kind \in ExactKinds(built.exact[i].columns)
    /\ \A q \in Requests : q \in [op : {"page", "ids", "count", "explain"}, limit : Nat, first : Nat,
                                  preds : Seq([column : Nat, value : Nat])]

VARIABLES
    table,       \* the rows that are imported
    layout,      \* what is built
    phase,       \* "stream", "index" or "serve"
    read,        \* how many rows have been read
    carry,       \* the rows that do not fill a page yet
    segments,    \* the segments written
    rowStart,    \* the rows of the segments written
    pageId,      \* their pages
    spools,      \* the (key, page) records of each page hierarchy
    pageHier,    \* the page hierarchies
    rowHier,     \* the exact indexes
    query        \* the question that is being answered

build == <<table, layout, phase, read, carry, segments, rowStart, pageId, spools, pageHier, rowHier>>
vars  == <<build, query>>

----------------------------------------------------------------------------
(* Segments.                                                               *)

\* A segment: the hot columns of its rows, and the cold ones in row groups.
WriteSegment(rows) ==
    [rowStart |-> rowStart, rows |-> Len(rows), firstPage |-> pageId,
     hot |-> [i \in DOMAIN rows |-> [c \in ColumnIds \ layout.cold |-> rows[i][c]]],
     groups |-> [g \in 1..CeilDiv(Len(rows), GroupRows) |->
        [i \in 1..Len(Take(SubSeq(rows, (g - 1) * GroupRows + 1, Len(rows)), GroupRows)) |->
            [c \in layout.cold |-> rows[(g - 1) * GroupRows + i][c]]]]]

\* A cold value comes from the row group that is read (and kept) for it.
Value(segment, local, column) ==
    IF column \in layout.cold
    THEN segment.groups[(local \div GroupRows) + 1][(local % GroupRows) + 1][column]
    ELSE segment.hot[local + 1][column]

Matches(segment, local, preds) ==
    local < segment.rows /\ \A i \in DOMAIN preds : Value(segment, local, preds[i].column) = preds[i].value

SegmentPages(segment) == CeilDiv(segment.rows, PageRows)

\* The key of a row under an index: its tokens as digits.
MixedRadixKey(columns, token) ==
    LET key[n \in 0..Len(columns)] ==
            IF n = 0 THEN 0 ELSE key[n - 1] * Card[columns[n]] + token[columns[n]]
    IN key[Len(columns)]

Keyspace(columns) ==
    LET space[n \in 0..Len(columns)] == IF n = 0 THEN 1 ELSE space[n - 1] * Card[columns[n]]
    IN space[Len(columns)]

\* The distinct keys of a page, sorted.
PageKeys(rows, columns) ==
    Ascending({MixedRadixKey(columns, rows[i]) : i \in DOMAIN rows})

\* Writes whole pages, or at the end the rest, as one segment and spools the pages' keys.
EmitSegment(rows) ==
    /\ segments' = Append(segments, WriteSegment(rows))
    /\ rowStart' = rowStart + Len(rows)
    /\ pageId' = pageId + CeilDiv(Len(rows), PageRows)
    /\ spools' = [h \in DOMAIN spools |-> spools[h] \o
         FlattenSeq([p \in 1..CeilDiv(Len(rows), PageRows) |->
            LET keys == PageKeys(Take(SubSeq(rows, (p - 1) * PageRows + 1, Len(rows)), PageRows),
                                 layout.pageSpecs[h])
            IN [k \in DOMAIN keys |-> <<keys[k], pageId + p - 1>>]])]

\* Mutants: one page is written per batch; the rows are written whether they fill pages or not.
OnePage(rows) == IF Len(rows) >= PageRows THEN PageRows ELSE 0
CutAnywhere(rows) == Len(rows)

\* How many of the rows fill whole pages.
WholePages(rows) == (Len(rows) \div PageRows) * PageRows

\* A batch of any size joins the carried rows; the full pages of them are written.
PushBatch ==
    \E n \in 1..(Len(table) - read) :
        LET rows == carry \o SubSeq(table, read + 1, read + n)
            full == WholePages(rows)
        IN /\ phase = "stream"
           /\ read' = read + n
           /\ carry' = SubSeq(rows, full + 1, Len(rows))
           /\ IF full > 0 THEN EmitSegment(SubSeq(rows, 1, full))
              ELSE UNCHANGED <<segments, rowStart, pageId, spools>>
           /\ UNCHANGED <<table, layout, phase, pageHier, rowHier, query>>

\* The input has ended: the carried rows become the last segment.
FlushCarry ==
    /\ phase = "stream" /\ read = Len(table) /\ carry # <<>>
    /\ EmitSegment(carry)
    /\ carry' = <<>>
    /\ UNCHANGED <<table, layout, phase, read, pageHier, rowHier, query>>

\* The page hierarchies are sorted and the manifest is written.
FinishBuild ==
    /\ phase = "stream" /\ read = Len(table) /\ carry = <<>>
    /\ \E kind \in PageKinds :
         pageHier' = [h \in DOMAIN spools |->
            [columns |-> layout.pageSpecs[h],
             file |-> BuildPageFile(kind, ExternalSort(spools[h], MaxSort),
                                    Keyspace(layout.pageSpecs[h]), pageId)]]
    /\ phase' = "index"
    /\ spools' = <<>>
    /\ UNCHANGED <<table, layout, read, carry, segments, rowStart, pageId, rowHier, query>>

----------------------------------------------------------------------------
(* Exact indexes.                                                          *)

\* A (key, row) record of every row of every segment.
ExactSpool(columns) ==
    FlattenSeq([s \in DOMAIN segments |->
        [i \in 1..segments[s].rows |->
            <<MixedRadixKey(columns, [c \in ColumnIds |-> Value(segments[s], i - 1, c)]),
              segments[s].rowStart + i - 1>>]])

\* The next index is built from its sorted records; the call fails unless every row has one.
AddIndex ==
    LET next == layout.exact[Len(rowHier) + 1]
        sorted == ExternalSort(ExactSpool(next.columns), MaxSort)
    IN /\ phase = "index" /\ Len(rowHier) < Len(layout.exact)
       /\ Len(sorted) = rowStart
       /\ rowHier' = Append(rowHier, [columns |-> next.columns,
                          file |-> BuildRowFile(next.kind, sorted, Keyspace(next.columns), rowStart)])
       /\ UNCHANGED <<table, layout, phase, read, carry, segments, rowStart, pageId, spools, pageHier, query>>

OpenEngine ==
    /\ phase = "index" /\ Len(rowHier) = Len(layout.exact)
    /\ phase' = "serve"
    /\ UNCHANGED <<table, layout, read, carry, segments, rowStart, pageId, spools, pageHier, rowHier, query>>

----------------------------------------------------------------------------
(* Planning.                                                               *)

\* query_map: no answer is possible if a predicate is out of range or two contradict each other.
Satisfiable(preds) ==
    /\ \A i \in DOMAIN preds : preds[i].column \in ColumnIds /\ preds[i].value < Card[preds[i].column]
    /\ \A i, j \in DOMAIN preds : preds[i].column = preds[j].column => preds[i].value = preds[j].value

Constrained(preds) == {preds[i].column : i \in DOMAIN preds}

HierarchyKey(columns, preds) ==
    MixedRadixKey(columns, [c \in ToSet(columns) |->
        preds[CHOOSE i \in DOMAIN preds : preds[i].column = c].value])

\* An index can help if the query constrains all of its columns.
Usable(columns, preds) == ToSet(columns) \subseteq Constrained(preds)

\* How many rows, or pages, a key selects.
HitCount(file, key) == IF file.kind \in PageKinds THEN Len(PagesOf(file, key)) ELSE RowCount(file, key)

Available(hierarchies, preds) ==
    LET usable == Ascending({h \in DOMAIN hierarchies : Usable(hierarchies[h].columns, preds)})
    IN [i \in DOMAIN usable |->
            LET hierarchy == hierarchies[usable[i]]
                key == HierarchyKey(hierarchy.columns, preds)
            IN [file |-> hierarchy.file, key |-> key, count |-> HitCount(hierarchy.file, key),
                columns |-> ToSet(hierarchy.columns)]]

\* sort_unstable_by_key by the count.
ByCount(selected) ==
    LET order == Sorted({<<selected[i].count, i>> : i \in DOMAIN selected})
    IN [i \in DOMAIN order |-> selected[order[i][2]]]

\* The cheapest index per column it newly covers, the first of equals; 0 if none covers any.
BestCandidate(available, uncovered) ==
    LET Gain(i) == Cardinality(available[i].columns \cap uncovered)
        useful == {i \in DOMAIN available : Gain(i) > 0}
        Cheaper(i, j) == available[i].count * Gain(j) < available[j].count * Gain(i)
    IN IF useful = {} THEN 0
       ELSE CHOOSE i \in useful : \A j \in useful : ~ Cheaper(j, i) /\ (j < i => Cheaper(i, j))

\* Indexes are taken until every column is covered or no index covers another.
GreedyCover(available, columns) ==
    LET cover[n \in 0..Len(available)] ==
            IF n = 0 THEN [uncovered |-> columns, selected |-> <<>>]
            ELSE LET so == cover[n - 1]
                     best == BestCandidate(available, so.uncovered)
                 IN IF best = 0 THEN so
                    ELSE [uncovered |-> so.uncovered \ available[best].columns,
                          selected |-> Append(so.selected, available[best])]
    IN cover[Len(available)]

NoPlan == [found |-> FALSE]

RowSelectionPlan(preds) ==
    LET available == Available(rowHier, preds)
        empty == SelectInSeq(available, LAMBDA candidate : candidate.count = 0)
        cover == GreedyCover(available, Constrained(preds))
    IN IF ~ Satisfiable(preds) THEN [found |-> TRUE, covered |-> TRUE, selected |-> <<>>]
       ELSE IF empty # 0 THEN [found |-> TRUE, covered |-> TRUE, selected |-> <<available[empty]>>]
       ELSE IF available = <<>> THEN NoPlan
       ELSE [found |-> TRUE, covered |-> cover.uncovered = {}, selected |-> ByCount(cover.selected)]

EmptyPlan(plan) == plan.selected = <<>> \/ plan.selected[1].count = 0

IntersectAll(selected, rows) ==
    LET hits[n \in 0..Len(selected)] ==
            IF n = 0 THEN rows ELSE IntersectRows(selected[n].file, selected[n].key, hits[n - 1])
    IN hits[Len(selected)]

\* The whole intersection; two leading bit-slice files are intersected as words.
CandidateRows(plan) ==
    LET first == plan.selected[1]
        second == plan.selected[2]
    IN IF EmptyPlan(plan) THEN <<>>
       ELSE IF Len(plan.selected) >= 2 /\ first.file.kind = "bitslice" /\ second.file.kind = "bitslice"
       THEN IntersectAll(SubSeq(plan.selected, 3, Len(plan.selected)),
                         SlicePair(first.file, first.key, second.file, second.key))
       ELSE IntersectAll(Tail(plan.selected), AllRows(first.file, first.key))

\* The pages that may hold a match: all of them if no page hierarchy helps.
CandidatePages(preds) ==
    LET available == ByCount(Available(pageHier, preds))
        pages[n \in 1..Len(available)] ==
            IF n = 1 THEN PagesOf(available[1].file, available[1].key)
            ELSE IntersectPages(available[n].file, available[n].key, pages[n - 1])
    IN IF ~ Satisfiable(preds) THEN <<>>
       ELSE IF available = <<>> THEN [p \in 1..pageId |-> p - 1]
       ELSE pages[Len(available)]

----------------------------------------------------------------------------
(* Answering.                                                              *)

\* Candidate rows checked against the segments.
VerifiedRows(rows, preds) ==
    FlattenSeq([s \in DOMAIN segments |->
        Select(rows, LAMBDA row :
            /\ row \in segments[s].rowStart..(segments[s].rowStart + segments[s].rows - 1)
            /\ Matches(segments[s], row - segments[s].rowStart, preds))])

\* The rows of candidate pages, each page looked up in the segment that holds it.
RowsOfPages(pages) ==
    FlattenSeq([s \in DOMAIN segments |->
        LET segment == segments[s]
            own == Select(pages, LAMBDA page :
                       page \in segment.firstPage..(segment.firstPage + SegmentPages(segment) - 1))
        IN FlattenSeq([p \in DOMAIN own |->
               LET start == (own[p] - segment.firstPage) * PageRows
               IN [i \in 1..(IF start + PageRows < segment.rows THEN PageRows ELSE segment.rows - start) |->
                      segment.rowStart + start + i - 1]])])

\* All matching rows by the plan's route.
RoutedRows(preds) ==
    LET plan == RowSelectionPlan(preds)
    IN IF ~ plan.found THEN VerifiedRows(RowsOfPages(CandidatePages(preds)), preds)
       ELSE IF plan.covered THEN CandidateRows(plan)
       ELSE VerifiedRows(CandidateRows(plan), preds)

\* One predicate on a dense or bit-slice single-column index can be paged within the file.
BoundedSingle(preds) ==
    SelectInSeq(rowHier, LAMBDA hierarchy :
        /\ Len(preds) = 1 /\ Satisfiable(preds)
        /\ hierarchy.columns = <<preds[1].column>>
        /\ hierarchy.file.kind \in {"densepost", "bitslice"})

\* query_row_ids_from.
RowIdsFrom(preds, limit, first) ==
    LET single == BoundedSingle(preds)
        key == HierarchyKey(rowHier[single].columns, preds)
        rows == RoutedRows(preds)
    IN IF single # 0
       THEN [ids |-> RowsFrom(rowHier[single].file, key, first, limit),
             hits |-> RowCount(rowHier[single].file, key)]
       ELSE [ids |-> Take(Select(rows, LAMBDA row : row >= first), limit), hits |-> Len(rows)]

\* explain: the route, and the candidates it would produce.
Explain(preds) ==
    LET plan == RowSelectionPlan(preds)
    IN IF plan.found
       THEN [route |-> IF ~ Satisfiable(preds) THEN "empty"
                       ELSE IF plan.covered THEN "exact_rows" ELSE "row_candidates",
             proven |-> plan.covered, candidates |-> CandidateRows(plan)]
       ELSE [route |-> IF \E h \in DOMAIN pageHier : Usable(pageHier[h].columns, preds)
                       THEN "page_routing" ELSE "canonical_scan",
             proven |-> FALSE, candidates |-> CandidatePages(preds)]

NoQuery == [status |-> "none"]

Answered(request, answer) == [status |-> "done", request |-> request, answer |-> answer]

\* A question arrives.  A page whose columns are covered is streamed; the rest is one computation.
Ask ==
    \E request \in Requests :
        LET plan == RowSelectionPlan(request.preds)
            streamed == request.op = "page" /\ plan.found /\ plan.covered
        IN /\ phase = "serve" /\ query = NoQuery
           /\ query' = IF streamed
                       THEN IF request.limit = 0 \/ EmptyPlan(plan) \/ request.first >= rowStart
                            THEN Answered(request, [ids |-> <<>>])
                            ELSE [status |-> "streaming", request |-> request, selected |-> plan.selected,
                                  cursor |-> request.first, out |-> <<>>]
                       ELSE Answered(request,
                            CASE request.op \in {"page", "ids"} ->
                                    RowIdsFrom(request.preds, request.limit, request.first)
                              [] request.op = "count"   -> [hits |-> Len(RoutedRows(request.preds))]
                              [] request.op = "explain" -> Explain(request.preds))
           /\ UNCHANGED build

\* Seeded faults: the last row of a batch is fetched again; a batch that the other indexes
\* reject is.
StaysOnLast(rows) == Last(rows)
StreamFromKept ==
    LET driver == query.selected[1]
        rows == RowsFrom(driver.file, driver.key, query.cursor, DriverBatch)
        kept == IntersectAll(Tail(query.selected), rows)
        out == Take(query.out \o kept, query.request.limit)
    IN /\ query.status = "streaming"
       /\ query' = IF Len(out) >= query.request.limit \/ Len(rows) < DriverBatch
                   THEN Answered(query.request, [ids |-> out])
                   ELSE [query EXCEPT !.out = out, !.cursor = IF kept = <<>> THEN @ ELSE Last(kept) + 1]
       /\ UNCHANGED build

\* The next batch starts after the last row fetched, kept or not.
NextCursor(rows) == Last(rows) + 1

\* A batch of the first index's rows is intersected with the others; the stream ends with the
\* limit or a short batch.
StreamBatch ==
    LET driver == query.selected[1]
        rows == RowsFrom(driver.file, driver.key, query.cursor, DriverBatch)
        out == Take(query.out \o IntersectAll(Tail(query.selected), rows), query.request.limit)
    IN /\ query.status = "streaming"
       /\ query' = IF Len(out) >= query.request.limit \/ Len(rows) < DriverBatch
                   THEN Answered(query.request, [ids |-> out])
                   ELSE [query EXCEPT !.out = out, !.cursor = NextCursor(rows)]
       /\ UNCHANGED build

\* The answer is taken.
TakeAnswer ==
    /\ query.status = "done"
    /\ query' = NoQuery
    /\ UNCHANGED build

----------------------------------------------------------------------------

Init ==
    /\ table \in Tables /\ layout \in Layouts
    /\ phase = "stream" /\ read = 0 /\ carry = <<>> 
    /\ segments = <<>> /\ rowStart = 0 /\ pageId = 0
    /\ spools = [h \in DOMAIN layout.pageSpecs |-> <<>>]
    /\ pageHier = <<>> /\ rowHier = <<>>
    /\ query = NoQuery

Next == PushBatch \/ FlushCarry \/ FinishBuild \/ AddIndex \/ OpenEngine
        \/ Ask \/ StreamBatch \/ TakeAnswer

\* The thread that answers a query keeps running.
Spec == Init /\ [][Next]_vars /\ WF_vars(StreamBatch)

----------------------------------------------------------------------------
(* Properties.                                                             *)

\* The rows of the table that match, in order: what a scan of it would find.
Matching(preds) ==
    Ascending({row \in 0..(Len(table) - 1) : \A p \in DOMAIN preds :
        preds[p].column \in ColumnIds /\ table[row + 1][preds[p].column] = preds[p].value})

\* Every variable has its type.
TypeOK ==
    /\ table \in Tables /\ layout \in Layouts
    /\ phase \in {"stream", "index", "serve"}
    /\ read \in 0..Len(table)
    /\ Len(carry) < PageRows
    /\ \A h \in DOMAIN rowHier : rowHier[h].file.kind \in ExactKinds(rowHier[h].columns)
    /\ \A h \in DOMAIN pageHier : pageHier[h].file.kind \in PageKinds
    /\ query.status \in {"none", "streaming", "done"}

\* However the input was cut into batches, the segments and the carried rows are the rows read so
\* far, in order and through both the hot and the cold columns, and the rows and page numbers of a
\* segment continue those of the one before: push_batch, emit_segment, value_checked.
SegmentsHoldTable ==
    LET End(s) == IF s = 0 THEN 0 ELSE segments[s].rowStart + segments[s].rows
    IN /\ \A s \in DOMAIN segments :
            /\ segments[s].rows > 0
            /\ segments[s].rowStart = End(s - 1)
            /\ segments[s].firstPage * PageRows = segments[s].rowStart
            /\ \A i \in 1..segments[s].rows, c \in ColumnIds :
                   Value(segments[s], i - 1, c) = table[segments[s].rowStart + i][c]
       /\ rowStart = End(Len(segments))
       /\ rowStart + Len(carry) = read
       /\ carry = SubSeq(table, rowStart + 1, read)

\* Every index file lists, for every key, exactly the rows (or pages) of the table that have the
\* key, from every first row, for every limit, and within every seed: the five posting formats and
\* the two page formats agree with each other and with the table.
IndexesExact ==
    LET HasKey(row, columns, key) == MixedRadixKey(columns, table[row + 1]) = key
        rows == 0..(Len(table) - 1)
    IN phase = "index" =>
       /\ rowHier # <<>> => LET index == Last(rowHier) IN
            \A key \in 0..Keyspace(index.columns) :
                LET all == {row \in rows : HasKey(row, index.columns, key)}
                IN /\ RowCount(index.file, key) = Cardinality(all)
                   /\ \A first \in 0..Len(table), limit \in 1..Len(table) :
                        RowsFrom(index.file, key, first, limit) =
                            Take(Ascending({r \in all : r >= first}), limit)
                   /\ \A seed \in SUBSET rows :
                        IntersectRows(index.file, key, Ascending(seed)) = Ascending(seed \cap all)
       /\ \A h \in DOMAIN pageHier : LET index == pageHier[h] IN
            \A key \in 0..Keyspace(index.columns) :
                PagesOf(index.file, key) =
                    Ascending({row \div PageRows : row \in {r \in rows : HasKey(r, index.columns, key)}})

\* Whatever indexes exist and whichever route is planned, an answer is what a scan of the table
\* would give: the page holds the first matches from its cursor on, the hits are counted without
\* double counting, a result explain calls proven is exact, and candidates leave no match out.
AnswersExact ==
    query.status = "done" =>
        LET matches == Matching(query.request.preds)
            answer == query.answer
            page == Take(Select(matches, LAMBDA row : row >= query.request.first), query.request.limit)
        IN CASE query.request.op = "page"    -> answer.ids = page
             [] query.request.op = "ids"     -> answer.ids = page /\ answer.hits = Len(matches)
             [] query.request.op = "count"   -> answer.hits = Len(matches)
             [] query.request.op = "explain" ->
                  /\ answer.proven => answer.candidates = matches
                  /\ answer.route = "row_candidates" => ToSet(matches) \subseteq ToSet(answer.candidates)
                  /\ answer.route \in {"page_routing", "canonical_scan"} =>
                        {row \div PageRows : row \in ToSet(matches)} \subseteq ToSet(answer.candidates)

\* A streamed page ends: the cursor passes the rows a batch returned, also when the other indexes
\* reject all of them.
StreamsEnd == query.status = "streaming" ~> query.status = "done"

=============================================================================
