---------------------------- MODULE QueryRoutes ----------------------------
(***************************************************************************)
(* execute_query of rust/src/query_api.rs, and a client that walks through *)
(* all pages of a request by its next_cursor while writers change the      *)
(* table.  A request is answered by one of five routes: browsing by row    *)
(* id, an equality page, candidates of the equality filters with residual  *)
(* filters, a merge of one equality stream per value of a narrow range, or *)
(* a scan of the visible rows.                                             *)
(*                                                                         *)
(* A query reads one immutable generation, so a writer's step during a     *)
(* query is indistinguishable from one after it: writers act between       *)
(* queries here.  The page that VersionedDataset gives for equality        *)
(* predicates is exact (module LayeredQuery) and is taken as such.         *)
(***************************************************************************)
EXTENDS Integers, Sequences, SequencesExt, FiniteSetsExt, RowOrder

CONSTANTS
    Rows,         \* the rows a table may have: functions from columns to cells
    Columns,      \* all columns
    Integral,     \* the signed and unsigned columns, which allow ranges
    Nullable,     \* the columns that may be NULL
    Singletons,   \* the columns with an exact singleton index in every layer
    NullLiterals, \* <<column, value>>: the canonical text of the value reads as NULL
    MaxValue,     \* cells are 0 .. MaxValue or Null
    Null,         \* the NULL cell
    Open,         \* a range bound that is not given
    Requests,     \* the requests clients make: filters and page size
    Batch,        \* CANDIDATE_BATCH
    MaxRange,     \* MAX_EXACT_RANGE_VALUES
    U64Max        \* the highest row id

RowIds == 0..U64Max
NoRow  == -1  \* no cursor: every row id is above it
Cell   == 0..MaxValue \cup {Null}

ASSUME ConstantsAssumption ==
    /\ U64Max \in Nat /\ MaxValue \in Nat
    /\ Batch \in Nat \ {0} /\ MaxRange \in Nat \ {0}
    /\ Rows \subseteq [Columns -> Cell]
    /\ Integral \subseteq Columns /\ Nullable \subseteq Columns /\ Singletons \subseteq Columns
    /\ NullLiterals \subseteq Nullable \X (0..MaxValue)
    /\ \A row \in Rows, c \in Columns \ Nullable : row[c] # Null
    /\ Null \notin Int /\ Open \notin Int
    /\ \A r \in Requests : r.limit \in Nat
    /\ \A r \in Requests : \A f \in r.filters : f.op = "range" => {f.gte, f.lte} \subseteq Int \cup {Open}

VARIABLES
    table,    \* the visible rows of CURRENT by row id
    top,      \* its max_row_id
    request,  \* what the client asks, page after page
    after,    \* after_row_id of the query in hand
    pc,       \* "idle", "between" queries, in a route, "answer" or "done"
    out,      \* the rows of the page so far
    hits,     \* the hit count so far
    cursor,   \* browsing: the next row id; candidates: candidate_after
    heads,    \* range route: the next row of each value's stream
    returned, \* the row ids of all pages of the walk so far
    steady    \* the rows that have matched ever since the walk began

data  == <<table, top>>
query == <<out, hits, cursor, heads>>
walk  == <<request, after, returned, steady>>
vars  == <<data, query, walk, pc>>

Routes == {"browse", "equality", "candidate", "probe", "range", "scan"}

TypeOK ==
    /\ DOMAIN table \subseteq 0..top /\ DOMAIN table # {}
    /\ \A id \in DOMAIN table : table[id] \in Rows
    /\ top \in RowIds
    /\ pc \in Routes \cup {"idle", "between", "answer", "done"}
    /\ pc # "idle" => request \in Requests
    /\ {after, cursor} \subseteq RowIds \cup {NoRow}
    /\ out \in Seq(RowIds) /\ (pc # "idle" => Len(out) <= request.limit)
    /\ hits \in Nat
    /\ \A v \in DOMAIN heads : heads[v] \in RowIds \cup {NoRow}
    /\ returned \in Seq(RowIds) /\ steady \subseteq DOMAIN table

Init ==
    /\ \E n \in RowIds : table \in [0..n -> Rows] /\ top = n
    /\ pc = "idle" /\ request = <<>> /\ after = NoRow
    /\ out = <<>> /\ hits = 0 /\ cursor = NoRow /\ heads = <<>>
    /\ returned = <<>> /\ steady = {}

----------------------------------------------------------------------------
(* Filters.                                                                *)

\* prepare_filters: what it refuses.
FilterIsValid(f) ==
    CASE f.op = "eq"    -> f.value = Null => f.column \in Nullable
      [] f.op = "in"    -> f.values # {} /\ (Null \in f.values => f.column \in Nullable)
      [] f.op = "range" -> /\ f.column \in Integral /\ {f.gte, f.lte} # {Open}
                           /\ Open \notin {f.gte, f.lte} => f.gte <= f.lte

IsValid(r) == r.limit > 0 /\ \A f \in r.filters : FilterIsValid(f)

\* matches_filters
Satisfies(row, f) ==
    LET cell == row[f.column]
    IN CASE f.op = "eq"    -> cell = f.value
         [] f.op = "in"    -> cell \in f.values
         [] f.op = "range" -> /\ cell # Null
                              /\ f.gte # Open => f.gte <= cell
                              /\ f.lte # Open => cell <= f.lte

Matching(tab, r) == {id \in DOMAIN tab : \A f \in r.filters : Satisfies(tab[id], f)}

\* encoded_predicates reads a predicate's canonical text once more, and takes it for
\* NULL if the column says that this text means NULL.
AsPredicate(c, v) == IF <<c, v>> \in NullLiterals THEN Null ELSE v

\* The rows VersionedDataset returns for a conjunction of equality predicates.
EqualityRows(eqs) ==
    {id \in DOMAIN table : \A f \in eqs : table[id][f.column] = AsPredicate(f.column, f.value)}

\* The n smallest members of a set of row ids, in order.
FirstRows(n, ids) == Ascending(Smallest(n, ids))

Above(ids, id) == {j \in ids : j > id}

Equalities == {f \in request.filters : f.op = "eq"}

\* bounded_integer_range_values: the only filter, closed and narrow.
NarrowRange ==
    \E f \in request.filters :
        /\ request.filters = {f} /\ f.op = "range" /\ Open \notin {f.gte, f.lte}
        /\ f.lte - f.gte + 1 <= MaxRange
        /\ f.column \in Singletons

RouteOf(r) ==
    CASE r.filters = {}                                 -> "browse"
      [] Equalities = r.filters /\ r.filters # {}       -> "equality"
      [] Equalities \notin {{}, r.filters}
         /\ {f.column : f \in Equalities} \subseteq Singletons -> "candidate"
      [] NarrowRange                                    -> "probe"
      [] OTHER                                          -> "scan"

----------------------------------------------------------------------------
(* The client and the writers.                                             *)

StartWalk(r) ==
    /\ pc \in {"idle", "done"}
    /\ request' = r /\ after' = NoRow
    /\ returned' = <<>> /\ steady' = Matching(table, r)
    /\ pc' = "between"
    /\ UNCHANGED <<data, query>>

\* Seeded fault: browsing does not stop at the last possible row id.
BrowseSaturates(id) == FALSE

\* row_id == u64::MAX
IsLastId(id) == id = U64Max

\* Seeded fault: the id after the last possible one is computed like any other.
RowAfterUnchecked(id) == id + 1

\* after_row_id.saturating_add(1)
RowAfter(id) == IF id = U64Max THEN id ELSE id + 1

\* execute_query begins: the request is checked and a route chosen.
Execute ==
    /\ pc = "between" /\ IsValid(request)
    /\ pc' = RouteOf(request)
    /\ out' = <<>> /\ heads' = <<>>
    /\ IF RouteOf(request) = "browse"
         THEN hits' = Cardinality(DOMAIN table) /\ cursor' = RowAfter(after)
         ELSE hits' = 0 /\ cursor' = NoRow
    /\ UNCHANGED <<data, walk>>

Refused ==
    /\ pc = "between" /\ ~IsValid(request)
    /\ pc' = "idle"
    /\ UNCHANGED <<data, query, walk>>

\* A transaction, append or compaction is published: the ids of the other rows stay and
\* those of new rows are above max_row_id; no transaction may delete all rows.
Write(tab) ==
    /\ pc = "between"
    /\ table' = tab
    /\ steady' = steady \cap Matching(tab, request)
    /\ UNCHANGED <<query, request, after, returned, pc>>

InsertRow(row) ==
    /\ top < U64Max /\ top' = top + 1
    /\ Write([id \in DOMAIN table \cup {top + 1} |-> IF id = top + 1 THEN row ELSE table[id]])

DeleteRow(id) ==
    /\ id \in DOMAIN table /\ DOMAIN table # {id}
    /\ Write([j \in DOMAIN table \ {id} |-> table[j]])
    /\ UNCHANGED top

UpdateRow(id, row) == id \in DOMAIN table /\ Write([table EXCEPT ![id] = row]) /\ UNCHANGED top

\* Compaction keeps the visible rows and forgets higher ids that were in use before
\* (module RowIdHistory).
CompactTable == Write(table) /\ top' = Max(DOMAIN table)

----------------------------------------------------------------------------
(* The routes.                                                             *)

PageIsFull == Len(out) = request.limit

\* The rows that still fit on the page, of those after the client's cursor.
Fitting(ids) == FirstRows(request.limit - Len(out), Above(ids, after))

\* Browsing walks the row ids from the cursor to max_row_id.
BrowseRow ==
    /\ pc = "browse" /\ cursor <= top /\ ~PageIsFull
    /\ out' = IF cursor \in DOMAIN table THEN Append(out, cursor) ELSE out
    /\ cursor' = RowAfter(cursor)
    /\ pc' = IF IsLastId(cursor) THEN "answer" ELSE pc
    /\ UNCHANGED <<data, walk, hits, heads>>

BrowseEnds ==
    /\ pc = "browse" /\ (cursor > top \/ PageIsFull)
    /\ pc' = "answer"
    /\ UNCHANGED <<data, walk, query>>

EqualityPage ==
    /\ pc = "equality"
    /\ LET found == EqualityRows(request.filters)
       IN out' = Fitting(found) /\ hits' = Cardinality(found)
    /\ pc' = "answer"
    /\ UNCHANGED <<data, walk, cursor, heads>>

\* Seeded fault: a batch is taken for the last one when few of its rows are accepted.
AcceptedIsShort(page, accepted) == Cardinality(accepted) < Batch

\* `returned < CANDIDATE_BATCH`: there are no further candidates.
BatchIsLast(page, accepted) == Cardinality(page) < Batch

\* A batch of candidates, each of which must satisfy all filters.
CandidateBatch ==
    /\ pc = "candidate"
    /\ LET page     == Smallest(Batch, Above(EqualityRows(Equalities), cursor))
           accepted == {id \in page : \A f \in request.filters : Satisfies(table[id], f)}
       IN /\ hits' = hits + Cardinality(accepted)
          /\ out' = out \o Fitting(accepted)
          /\ IF BatchIsLast(page, accepted)
               THEN pc' = "answer" /\ UNCHANGED cursor
               ELSE cursor' = Max(page) /\ UNCHANGED pc
    /\ UNCHANGED <<data, walk, heads>>

\* The first row of the stream of value v of the range's column.
Stream(v) == EqualityRows({[op |-> "eq", column |-> f.column, value |-> v] :
                             f \in request.filters})

FirstAbove(v, id) == LET rest == Above(Stream(v), id)
                     IN IF rest = {} THEN NoRow ELSE Min(rest)

\* One equality stream per value of the range, each asked for its first row and for its hits,
\* which are added up.
ProbeRange ==
    /\ pc = "probe"
    /\ \E f \in request.filters :
         /\ heads' = [v \in f.gte..f.lte |-> FirstAbove(v, after)]
         /\ hits' = Cardinality(UNION {{v} \X Stream(v) : v \in f.gte..f.lte})
    /\ pc' = "range"
    /\ UNCHANGED <<data, walk, out, cursor>>

\* The stream that gave the row is asked for its next one.
Refilled(v) == [heads EXCEPT ![v] = FirstAbove(v, @)]

\* The smallest <<row id, stream>> is popped from the heap.
PopRange ==
    /\ pc = "range" /\ ~PageIsFull
    /\ \E v \in DOMAIN heads :
         /\ heads[v] # NoRow
         /\ \A u \in DOMAIN heads \ {v} :
              heads[u] = NoRow \/ heads[v] < heads[u] \/ (heads[v] = heads[u] /\ v < u)
         /\ out' = Append(out, heads[v])
         /\ heads' = Refilled(v)
    /\ UNCHANGED <<data, walk, hits, cursor, pc>>

RangeEnds ==
    /\ pc = "range" /\ (PageIsFull \/ \A v \in DOMAIN heads : heads[v] = NoRow)
    /\ pc' = "answer"
    /\ UNCHANGED <<data, walk, query>>

\* for_each_visible_row, in row id order.
Scan ==
    /\ pc = "scan"
    /\ LET found == Matching(table, request)
       IN out' = Fitting(found) /\ hits' = Cardinality(found)
    /\ pc' = "answer"
    /\ UNCHANGED <<data, walk, cursor, heads>>

\* Seeded fault: the cursor counts rows instead of naming the last one.
OffsetCursor == IF PageIsFull THEN after + Len(out) ELSE NoRow

\* next_cursor: the last row of a full page; browsing knows max_row_id and stops there.
NextCursor ==
    IF PageIsFull /\ (request.filters = {} => Last(out) < top) THEN Last(out) ELSE NoRow

\* The client takes the page and asks for the next one if there is a cursor.
Answer ==
    /\ pc = "answer"
    /\ returned' = returned \o out
    /\ after' = NextCursor
    /\ pc' = IF NextCursor = NoRow THEN "done" ELSE "between"
    /\ out' = <<>> /\ hits' = 0 /\ cursor' = NoRow /\ heads' = <<>>
    /\ UNCHANGED <<data, request, steady>>

\* The deadline or the limit on examined rows is exceeded: the client gets no rows and
\* repeats the query or gives up.
QueryFails ==
    /\ pc \in Routes
    /\ pc' \in {"between", "idle"}
    /\ out' = <<>> /\ hits' = 0 /\ cursor' = NoRow /\ heads' = <<>>
    /\ UNCHANGED <<data, walk>>

QueryStep ==
    \/ BrowseRow \/ BrowseEnds \/ EqualityPage \/ CandidateBatch
    \/ ProbeRange \/ PopRange \/ RangeEnds \/ Scan \/ Answer

Next ==
    \/ \E r \in Requests : StartWalk(r)
    \/ Execute \/ Refused \/ QueryStep \/ QueryFails
    \/ \E row \in Rows : InsertRow(row)
    \/ \E id \in RowIds : DeleteRow(id)
    \/ \E id \in RowIds, row \in Rows : UpdateRow(id, row)
    \/ CompactTable

Spec == Init /\ [][Next]_vars

\* The thread that executes a query keeps running.
FairSpec == Spec /\ WF_vars(QueryStep)

----------------------------------------------------------------------------
(* Properties.                                                             *)

\* No equality filter and no value of a closed range is the text of a NULL of its column.
AsksNoLiteral ==
    \A f \in request.filters :
        /\ f.op = "eq" => <<f.column, f.value>> \notin NullLiterals
        /\ f.op = "range" /\ Open \notin {f.gte, f.lte} =>
             \A v \in f.gte..f.lte : <<f.column, v>> \notin NullLiterals

ExactPage ==
    /\ out = FirstRows(request.limit, Above(Matching(table, request), after))
    /\ hits = Cardinality(Matching(table, request))

\* Whatever route execute_query takes, the page holds the next `limit` rows after the
\* cursor that satisfy all filters, in row id order, and the hit count is that of the scan.
PageExact == pc = "answer" /\ AsksNoLiteral => ExactPage

\* The comment above bounded_integer_range_values' use in execute_query: "a narrow bounded
\* integer range can be answered exactly with the existing singleton equality indexes".
RangeRouteExact == pc = "answer" /\ heads # <<>> => ExactPage

\* "Pagination is based on stable logical row IDs [..] Compaction therefore does not
\* invalidate the logical cursor ordering" (docs/SERVICE.md): whatever writers do between pages,
\* a walk returns no row twice and, once it has ended, has returned every row that was there and
\* matched from its beginning to its end.
WalkIsExact ==
    pc # "idle" /\ AsksNoLiteral =>
        /\ \A i, j \in DOMAIN returned : i < j => returned[i] < returned[j]
        /\ pc = "done" => steady \subseteq ToSet(returned)

\* Every query ends: each loop of each route reaches its exit, also when row ids have holes
\* or have reached the last possible one.
EveryQueryAnswers == pc \in Routes ~> pc \notin Routes
=============================================================================
