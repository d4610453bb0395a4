------------------------- MODULE QueryRoutesProofs -------------------------
(***************************************************************************)
(* Proofs about QueryRoutes: its types, that the pages of every route are  *)
(* exact, and that a walk through all pages repeats and skips no row.      *)
(***************************************************************************)
EXTENDS QueryRoutes, RowOrderProofs

----------------------------------------------------------------------------
(* The invariant.                                                          *)

\* What the choice of a route leaves known in it.
Routed ==
    /\ pc \in Routes \cup {"answer"} => IsValid(request)
    /\ pc \notin Routes \cup {"answer"} => out = <<>>
    /\ pc \in {"equality", "probe", "scan"} => out = <<>>
    /\ pc = "browse" => request.filters = {} /\ cursor # NoRow
    /\ pc = "equality" => Equalities = request.filters
    /\ pc \in {"probe", "range"} => NarrowRange

Typed == TypeOK /\ Routed

\* The rows the page is to be taken from.
Wanted == Above(Matching(table, request), after)

BrowseSoFar ==
    pc = "browse" =>
        /\ after < cursor /\ out = Ascending({m \in Wanted : m < cursor})
        /\ hits = Cardinality(Matching(table, request))

CandidatesSoFar ==
    pc = "candidate" =>
        /\ out = FirstRows(request.limit, {m \in Wanted : m <= cursor})
        /\ hits = Cardinality({m \in Matching(table, request) : m <= cursor})

\* A row that is wanted and not yet on the page is at or after the head of its stream.
RangeSoFar ==
    pc = "range" =>
        /\ hits = Cardinality(Matching(table, request))
        /\ Increasing(out) /\ ToSet(out) \subseteq Wanted
        /\ \A m \in Wanted \ ToSet(out) :
             \E v \in DOMAIN heads : m \in Stream(v) /\ heads[v] # NoRow /\ heads[v] <= m
        /\ \A v \in DOMAIN heads : heads[v] # NoRow =>
             /\ heads[v] \in Stream(v) \cap Wanted
             /\ \A x \in ToSet(out) : x < heads[v]
        /\ \E f \in request.filters : DOMAIN heads = f.gte..f.lte

AnswerIsExact == pc = "answer" => ExactPage

\* What was returned are rows up to the cursor, those that stayed among them.
WalkSoFar ==
    /\ Increasing(returned) /\ steady \subseteq Matching(table, request)
    /\ pc # "done" => /\ \A x \in ToSet(returned) : x <= after
                      /\ \A m \in steady : m <= after => m \in ToSet(returned)
    /\ pc = "done" => steady \subseteq ToSet(returned)
    /\ request.filters = {} => after < U64Max

Exact == BrowseSoFar /\ CandidatesSoFar /\ RangeSoFar /\ AnswerIsExact /\ WalkSoFar

Inv == Typed /\ (pc # "idle" /\ AsksNoLiteral => Exact)

----------------------------------------------------------------------------
(* Sets of row ids.                                                        *)

(* Row ids are numbers, and any of them are finitely many.                 *)
LEMMA RowIdSets ==
    ASSUME NEW ids, ids \subseteq RowIds
    PROVE  /\ IdSet(ids) /\ Cardinality(ids) \in Nat
           /\ \A x \in ids : x \in Int /\ x \in Nat /\ x <= U64Max
           /\ ids = {} <=> Cardinality(ids) = 0
  <1>1. IsFiniteSet(0..U64Max)
    BY FS_Interval, ConstantsAssumption
  <1>2. IsFiniteSet(ids)
    BY <1>1, FS_Subset DEF RowIds
  <1>3. \A x \in ids : x \in Int /\ x \in Nat /\ x <= U64Max
    BY ConstantsAssumption DEF RowIds
  <1>4. Cardinality(ids) \in Nat /\ (ids = {} <=> Cardinality(ids) = 0)
    BY <1>2, FS_CardinalityType, FS_EmptySet
  <1>5. IdSet(ids)
    BY <1>2, <1>3 DEF IdSet
  <1>6. QED BY <1>3, <1>4, <1>5

(* Row ids, and the absent one below them all, are numbers.                *)
LEMMA RowIdNumbers ==
    /\ \A x \in RowIds \cup {NoRow} : x \in Int
    /\ \A x \in RowIds : x \in Nat /\ NoRow < x /\ x <= U64Max
    /\ NoRow \notin RowIds
  BY ConstantsAssumption DEF RowIds, NoRow

(* The largest row id of a set.                                            *)
LEMMA LargestRow ==
    ASSUME NEW ids, ids \subseteq RowIds, ids # {}
    PROVE  Max(ids) \in ids /\ \A x \in ids : x <= Max(ids)
  <1>1. IdSet(ids) /\ Cardinality(ids) \in Nat \ {0} /\ \A x \in ids : x \in Int
    BY RowIdSets
  <1>2. Cardinality(ids) - 1 \in 0..(Cardinality(ids) - 1)
    BY <1>1
  <1>3. PICK m \in ids : Rank(m, ids) = Cardinality(ids) - 1
    BY <1>1, <1>2, RankOnto
  <1>4. \A x \in ids : m >= x
    <2> SUFFICES ASSUME NEW x \in ids, m < x PROVE FALSE
      BY <1>1
    <2>1. Rank(m, ids) < Rank(x, ids) /\ Rank(x, ids) < Cardinality(ids) /\ Rank(x, ids) \in Nat
      BY <1>1, RankMonotone, RankTyped
    <2>2. QED BY <1>1, <1>3, <2>1
  <1>5. Max(ids) \in ids /\ \A x \in ids : Max(ids) >= x
    BY <1>4 DEF Max
  <1>6. QED BY <1>1, <1>5

(* The first row of a set.                                                 *)
LEMMA FirstRow ==
    ASSUME NEW ids, ids \subseteq RowIds, ids # {}
    PROVE  Min(ids) \in ids /\ \A x \in ids : Min(ids) <= x
  <1>1. IdSet(ids) /\ Cardinality(ids) \in Nat \ {0} /\ \A x \in ids : x \in Int
    BY RowIdSets
  <1>2. 0 \in 0..(Cardinality(ids) - 1)
    BY <1>1
  <1>3. PICK m \in ids : Rank(m, ids) = 0
    BY <1>1, <1>2, RankOnto
  <1>4. \A x \in ids : m =< x
    <2> SUFFICES ASSUME NEW x \in ids, x < m PROVE FALSE
      BY <1>1
    <2>1. Rank(x, ids) < Rank(m, ids) /\ Rank(x, ids) \in Nat
      BY <1>1, RankMonotone, RankTyped
    <2>2. QED BY <1>3, <2>1
  <1>5. QED BY <1>4 DEF Min

(* What a page of the first n of some rows holds.                          *)
LEMMA FirstRowsTyped ==
    ASSUME NEW ids, ids \subseteq RowIds, NEW n \in Nat
    PROVE  /\ FirstRows(n, ids) \in Seq(RowIds)
           /\ Len(FirstRows(n, ids)) = Cardinality(Smallest(n, ids))
           /\ Len(FirstRows(n, ids)) \in Nat /\ Len(FirstRows(n, ids)) <= n
           /\ Increasing(FirstRows(n, ids))
           /\ ToSet(FirstRows(n, ids)) = Smallest(n, ids)
  <1> DEFINE K == Smallest(n, ids)
             s == Ascending(K)
  <1>1. IdSet(ids)
    BY RowIdSets
  <1>2. /\ K \subseteq ids /\ IdSet(K)
        /\ Cardinality(K) = IF Cardinality(ids) <= n THEN Cardinality(ids) ELSE n
    BY <1>1, SmallestCut
  <1>3. /\ Cardinality(K) \in Nat /\ s \in [1..Cardinality(K) -> K] /\ s \in Seq(K)
        /\ Len(s) = Cardinality(K) /\ Increasing(s) /\ {s[i] : i \in 1..Cardinality(K)} = K
    BY <1>2, AscendingOrder
  <1>4. s \in Seq(RowIds)
    BY <1>2, <1>3
  <1>5. ToSet(s) = K
    BY <1>3 DEF ToSet
  <1>6. Cardinality(ids) \in Nat
    BY RowIdSets
  <1>7. QED BY <1>2, <1>3, <1>4, <1>5, <1>6 DEF FirstRows

(* An increasing page is the ascending order of its rows.                  *)
LEMMA IncreasingPage ==
    ASSUME NEW s \in Seq(RowIds), Increasing(s)
    PROVE  /\ ToSet(s) \subseteq RowIds /\ Cardinality(ToSet(s)) = Len(s)
           /\ s = Ascending(ToSet(s))
  <1>1. /\ Len(s) \in Nat /\ s \in [1..Len(s) -> ToSet(s)]
        /\ \A x \in ToSet(s) : \E i \in 1..Len(s) : s[i] = x
    BY DEF ToSet
  <1>2. ToSet(s) \subseteq RowIds /\ ToSet(s) \in SUBSET Int
    <2>1. ToSet(s) \subseteq RowIds
      BY DEF ToSet
    <2>2. QED BY <2>1, RowIdSets
  <1>3. QED BY <1>1, <1>2, AscendingIsUnique

----------------------------------------------------------------------------
(* The operators of the module.                                            *)

(* What depends on the request alone.                                      *)
LEMMA SameRequest ==
    ASSUME request' = request
    PROVE  /\ NarrowRange' = NarrowRange /\ Equalities' = Equalities
           /\ IsValid(request)' = IsValid(request) /\ AsksNoLiteral' = AsksNoLiteral
  BY DEF NarrowRange, Equalities, IsValid, AsksNoLiteral, FilterIsValid

(* The operators name rows of the table.                                   *)
LEMMA TableRows ==
    ASSUME TypeOK
    PROVE  /\ DOMAIN table \subseteq RowIds
           /\ \A r : Matching(table, r) \subseteq RowIds
           /\ \A eqs : EqualityRows(eqs) \subseteq RowIds
           /\ \A v : Stream(v) \subseteq RowIds
           /\ Wanted \subseteq RowIds /\ Wanted \subseteq Matching(table, request)
  <1>1. DOMAIN table \subseteq RowIds
    BY ConstantsAssumption DEF TypeOK, RowIds
  <1>2. \A r : Matching(table, r) \subseteq DOMAIN table
    BY DEF Matching
  <1>3. \A eqs : EqualityRows(eqs) \subseteq DOMAIN table
    BY DEF EqualityRows
  <1>4. \A v : Stream(v) \subseteq DOMAIN table
    BY <1>3 DEF Stream
  <1>5. Wanted \subseteq Matching(table, request)
    BY DEF Wanted, Above
  <1>6. QED BY <1>1, <1>2, <1>3, <1>4, <1>5

(* The head of a stream is its first row after an id, if there is one.     *)
LEMMA HeadOfStream ==
    ASSUME TypeOK, NEW v, NEW id
    PROVE  /\ FirstAbove(v, id) \in RowIds \cup {NoRow}
           /\ FirstAbove(v, id) # NoRow => FirstAbove(v, id) \in Stream(v) /\ FirstAbove(v, id) > id
           /\ \A m \in Stream(v) : m > id => FirstAbove(v, id) # NoRow /\ FirstAbove(v, id) <= m
  <1> DEFINE rest == Above(Stream(v), id)
  <1>1. rest \subseteq Stream(v) /\ rest \subseteq RowIds /\ \A m \in Stream(v) : m > id => m \in rest
    BY TableRows DEF Above
  <1>2. \A m \in rest : m > id
    BY DEF Above
  <1>3. NoRow \notin RowIds
    BY DEF RowIds, NoRow
  <1>4. CASE rest = {}
    <2>1. FirstAbove(v, id) = NoRow
      BY <1>4 DEF FirstAbove
    <2>2. QED BY <1>1, <1>4, <2>1
  <1>5. CASE rest # {}
    <2>1. FirstAbove(v, id) = Min(rest)
      BY <1>5 DEF FirstAbove
    <2>2. Min(rest) \in rest /\ \A m \in rest : Min(rest) <= m
      BY <1>1, <1>5, FirstRow
    <2>3. QED BY <1>1, <1>2, <1>3, <2>1, <2>2
  <1>6. QED BY <1>4, <1>5

(* The only filter of a narrow range.                                      *)
LEMMA TheRange ==
    ASSUME request \in Requests, NarrowRange, IsValid(request)
    PROVE  \E f \in request.filters :
             /\ request.filters = {f} /\ f.op = "range" /\ f.column \in Columns
             /\ f.gte \in Int /\ f.lte \in Int /\ Open \notin {f.gte, f.lte}
  <1>1. PICK f \in request.filters :
          /\ request.filters = {f} /\ f.op = "range" /\ Open \notin {f.gte, f.lte}
    BY DEF NarrowRange
  <1>2. f.gte \in Int /\ f.lte \in Int
    BY <1>1, ConstantsAssumption
  <1>3. FilterIsValid(f)
    BY DEF IsValid
  <1>4. f.column \in Columns
    BY <1>1, <1>3, ConstantsAssumption DEF FilterIsValid
  <1>5. QED BY <1>1, <1>2, <1>4

(* One pair for each row of each stream.                                   *)
Hits(f) == UNION {{v} \X Stream(v) : v \in f.gte..f.lte}

(* They are finitely many.                                                 *)
LEMMA HitsAreFinite ==
    ASSUME TypeOK, NEW f, f.gte \in Int, f.lte \in Int
    PROVE  IsFiniteSet(Hits(f)) /\ Cardinality(Hits(f)) \in Nat
  <1>1. Hits(f) \subseteq (f.gte..f.lte) \X RowIds
    BY TableRows DEF Hits
  <1>2. IsFiniteSet(f.gte..f.lte) /\ IsFiniteSet(RowIds)
    BY FS_Interval, ConstantsAssumption DEF RowIds
  <1>3. IsFiniteSet((f.gte..f.lte) \X RowIds)
    BY <1>2, FS_Product
  <1>4. IsFiniteSet(Hits(f))
    BY <1>1, <1>3, FS_Subset
  <1>5. QED BY <1>4, FS_CardinalityType

(* The route is one of those, and what its choice says of the request.     *)
LEMMA RouteChosen ==
    /\ RouteOf(request) \in Routes \ {"range"}
    /\ RouteOf(request) = "browse" => request.filters = {}
    /\ RouteOf(request) = "equality" => Equalities = request.filters
    /\ RouteOf(request) = "probe" => NarrowRange
  BY DEF RouteOf, Routes

----------------------------------------------------------------------------
(* Types.                                                                  *)

(* A route begins with an empty page and every type in order.              *)
LEMMA InitTyped == Init => Typed
  <1> SUFFICES ASSUME Init PROVE Typed
    OBVIOUS
  <1>1. PICK n \in RowIds : table \in [0..n -> Rows] /\ top = n
    BY DEF Init
  <1>2. DOMAIN table = 0..top /\ 0 \in 0..top /\ top \in RowIds
    BY <1>1, ConstantsAssumption DEF RowIds
  <1>3. \A id \in DOMAIN table : table[id] \in Rows
    BY <1>1
  <1>4. \A v \in DOMAIN heads : heads[v] \in RowIds \cup {NoRow}
    BY DEF Init
  <1>5. out \in Seq(RowIds) /\ returned \in Seq(RowIds)
    BY DEF Init
  <1>6. hits \in Nat /\ {after, cursor} \subseteq RowIds \cup {NoRow} /\ steady \subseteq DOMAIN table
    BY DEF Init
  <1>7. pc = "idle" /\ out = <<>>
    BY DEF Init
  <1>8. TypeOK
    BY <1>2, <1>3, <1>4, <1>5, <1>6, <1>7 DEF TypeOK
  <1>9. Routed
    BY <1>7 DEF Routed, Routes
  <1>10. QED BY <1>8, <1>9 DEF Typed

(* A step that leaves the table alone keeps its types if those of the      *)
(* query stay in order.                                                    *)
LEMMA QueryTyped ==
    ASSUME Typed, UNCHANGED <<data, request, steady>>, pc # "idle",
           pc' \in Routes \cup {"idle", "between", "answer", "done"},
           {after', cursor'} \subseteq RowIds \cup {NoRow},
           out' \in Seq(RowIds), Len(out') <= request.limit,
           hits' \in Nat, \A v \in DOMAIN heads' : heads'[v] \in RowIds \cup {NoRow},
           returned' \in Seq(RowIds)
    PROVE  TypeOK'
  <1>1. table' = table /\ top' = top /\ request' = request /\ steady' = steady
    BY DEF data
  <1>2. TypeOK /\ request \in Requests
    BY DEF Typed, TypeOK
  <1>3. /\ DOMAIN table' \subseteq 0..top' /\ DOMAIN table' # {}
        /\ \A id \in DOMAIN table' : table'[id] \in Rows
        /\ top' \in RowIds /\ request' \in Requests /\ steady' \subseteq DOMAIN table'
    BY <1>1, <1>2 DEF TypeOK
  <1>4. Len(out') <= request'.limit
    BY <1>1
  <1>5. QED BY <1>3, <1>4 DEF TypeOK

(* A write keeps the types if the new table has them.                      *)
LEMMA WriteTyped ==
    ASSUME Typed, NEW tab, Write(tab), top' \in RowIds,
           DOMAIN tab \subseteq 0..top', DOMAIN tab # {}, \A id \in DOMAIN tab : tab[id] \in Rows
    PROVE  Typed'
  <1>1. /\ table' = tab /\ steady' = steady \cap Matching(tab, request) /\ pc = "between"
        /\ out' = out /\ hits' = hits /\ cursor' = cursor /\ heads' = heads
        /\ request' = request /\ after' = after /\ returned' = returned /\ pc' = pc
    BY DEF Write, query
  <1>2. steady' \subseteq DOMAIN table'
    BY <1>1 DEF Matching
  <1>3. TypeOK /\ Routed
    BY DEF Typed
  <1>4. /\ DOMAIN table' \subseteq 0..top' /\ DOMAIN table' # {}
        /\ \A id \in DOMAIN table' : table'[id] \in Rows
    BY <1>1
  <1>5. /\ request' \in Requests /\ {after', cursor'} \subseteq RowIds \cup {NoRow}
        /\ out' \in Seq(RowIds) /\ Len(out') <= request'.limit /\ hits' \in Nat
        /\ (\A v \in DOMAIN heads' : heads'[v] \in RowIds \cup {NoRow})
        /\ returned' \in Seq(RowIds)
        /\ pc' \in Routes \cup {"idle", "between", "answer", "done"}
    BY <1>1, <1>3 DEF TypeOK
  <1>6. TypeOK'
    BY <1>2, <1>4, <1>5 DEF TypeOK
  <1>7. Routed'
    BY <1>1, <1>3 DEF Routed, Routes
  <1>8. QED BY <1>6, <1>7 DEF Typed

(* A new page is empty.                                                    *)
LEMMA EmptyPage ==
    ASSUME TypeOK, pc # "idle"
    PROVE  /\ <<>> \in Seq(RowIds) /\ Len(<<>>) <= request.limit
           /\ 0 \in Nat /\ NoRow \in RowIds \cup {NoRow}
           /\ \A v \in DOMAIN <<>> : <<>>[v] \in RowIds \cup {NoRow}
           /\ request.limit \in Nat /\ Len(out) \in Nat /\ request.limit - Len(out) \in Nat
  <1>1. request.limit \in Nat /\ Len(out) \in Nat /\ Len(out) <= request.limit
    BY ConstantsAssumption DEF TypeOK
  <1>2. request.limit - Len(out) \in Nat
    BY <1>1
  <1>3. <<>> \in Seq(RowIds) /\ Len(<<>>) = 0 /\ DOMAIN <<>> = {}
    OBVIOUS
  <1>4. QED BY <1>1, <1>2, <1>3

(* The rows that still fit on the page.                                    *)
LEMMA FittingTyped ==
    ASSUME TypeOK, pc # "idle", NEW ids, ids \subseteq RowIds
    PROVE  /\ Fitting(ids) \in Seq(RowIds)
           /\ Len(Fitting(ids)) \in Nat /\ Len(Fitting(ids)) <= request.limit - Len(out)
           /\ Fitting(ids) = FirstRows(request.limit - Len(out), Above(ids, after))
  <1>1. Above(ids, after) \subseteq RowIds
    BY DEF Above
  <1>2. request.limit - Len(out) \in Nat
    BY EmptyPage
  <1>3. QED BY <1>1, <1>2, FirstRowsTyped DEF Fitting

(* A client begins a walk.                                                 *)
LEMMA StartTyped ==
    ASSUME Typed, NEW r \in Requests, StartWalk(r)
    PROVE  Typed'
  <1>1. /\ table' = table /\ top' = top /\ out' = out /\ hits' = hits /\ cursor' = cursor
        /\ heads' = heads /\ request' = r /\ after' = NoRow /\ returned' = <<>>
        /\ steady' = Matching(table, r) /\ pc' = "between" /\ pc \in {"idle", "done"}
    BY DEF StartWalk, data, query
  <1>2. TypeOK /\ Routed
    BY DEF Typed
  <1>3. out = <<>> /\ r.limit \in Nat
    BY <1>1, <1>2, ConstantsAssumption DEF Routed, Routes
  <1>4. Len(out') <= request'.limit /\ out' \in Seq(RowIds) /\ returned' \in Seq(RowIds)
    BY <1>1, <1>3
  <1>5. steady' \subseteq DOMAIN table'
    BY <1>1 DEF Matching
  <1>6. /\ DOMAIN table' \subseteq 0..top' /\ DOMAIN table' # {} /\ top' \in RowIds
        /\ (\A id \in DOMAIN table' : table'[id] \in Rows)
        /\ hits' \in Nat /\ \A v \in DOMAIN heads' : heads'[v] \in RowIds \cup {NoRow}
    BY <1>1, <1>2 DEF TypeOK
  <1>7. {after', cursor'} \subseteq RowIds \cup {NoRow}
    BY <1>1, <1>2 DEF TypeOK
  <1>8. TypeOK'
    BY <1>1, <1>4, <1>5, <1>6, <1>7 DEF TypeOK
  <1>9. Routed'
    BY <1>1, <1>3 DEF Routed, Routes
  <1>10. QED BY <1>8, <1>9 DEF Typed

(* The request is checked and a route chosen.                              *)
LEMMA ExecuteTyped ==
    ASSUME Typed, Execute
    PROVE  Typed'
  <1>1. /\ table' = table /\ top' = top /\ request' = request /\ after' = after
        /\ returned' = returned /\ steady' = steady
        /\ pc = "between" /\ IsValid(request) /\ pc' = RouteOf(request)
        /\ out' = <<>> /\ heads' = <<>>
    BY DEF Execute, data, walk
  <1>2. TypeOK
    BY DEF Typed
  <1>3. /\ pc' = "browse" => hits' = Cardinality(DOMAIN table) /\ cursor' = RowAfter(after)
        /\ pc' # "browse" => hits' = 0 /\ cursor' = NoRow
    BY <1>1 DEF Execute
  <1>4. RowAfter(after) \in RowIds
    BY <1>2, ConstantsAssumption DEF TypeOK, RowIds, NoRow, RowAfter
  <1>5. Cardinality(DOMAIN table) \in Nat
    BY <1>2, TableRows, RowIdSets
  <1>6. hits' \in Nat /\ cursor' \in RowIds \cup {NoRow}
    BY <1>3, <1>4, <1>5
  <1>7. pc' \in Routes \ {"range"}
    BY <1>1, RouteChosen
  <1>8. TypeOK'
    <2>1. pc # "idle" /\ pc' \in Routes \cup {"idle", "between", "answer", "done"}
      BY <1>1, <1>7
    <2>2. {after', cursor'} \subseteq RowIds \cup {NoRow} /\ returned' \in Seq(RowIds)
      BY <1>1, <1>2, <1>6 DEF TypeOK
    <2>3. out' \in Seq(RowIds) /\ Len(out') <= request.limit
          /\ \A v \in DOMAIN heads' : heads'[v] \in RowIds \cup {NoRow}
      BY <1>1, <1>2, EmptyPage
    <2>4. UNCHANGED <<data, request, steady>>
      BY <1>1 DEF data
    <2>5. QED BY <1>6, <2>1, <2>2, <2>3, <2>4, QueryTyped
  <1>9. /\ pc' = "browse" => request.filters = {}
        /\ pc' = "equality" => Equalities = request.filters
        /\ pc' = "probe" => NarrowRange
    BY <1>1, RouteChosen
  <1>10. NarrowRange' = NarrowRange /\ Equalities' = Equalities /\ IsValid(request)'
    BY <1>1, SameRequest
  <1>11. pc' = "browse" => cursor' # NoRow
    BY <1>3, <1>4 DEF NoRow, RowIds
  <1>12. Routed'
    BY <1>1, <1>7, <1>9, <1>10, <1>11 DEF Routed, Routes
  <1>13. QED BY <1>8, <1>12 DEF Typed

(* A row of the browsed range.                                             *)
LEMMA BrowseTyped ==
    ASSUME Typed, BrowseRow
    PROVE  Typed'
  <1>1. /\ table' = table /\ top' = top /\ request' = request /\ after' = after
        /\ returned' = returned /\ steady' = steady /\ hits' = hits /\ heads' = heads
        /\ pc = "browse" /\ cursor <= top /\ Len(out) # request.limit
        /\ cursor' = RowAfter(cursor)
        /\ pc' \in {"answer", "browse"}
    BY DEF BrowseRow, data, walk, PageIsFull
  <1>2. out' = IF cursor \in DOMAIN table THEN Append(out, cursor) ELSE out
    BY DEF BrowseRow
  <1>3. TypeOK /\ Routed
    BY DEF Typed
  <1>4. cursor \in RowIds /\ cursor' \in RowIds
    BY <1>1, <1>3, ConstantsAssumption DEF TypeOK, Routed, RowIds, RowAfter
  <1>5. out' \in Seq(RowIds) /\ Len(out') <= request.limit
    <2>1. out \in Seq(RowIds) /\ Len(out) \in Nat /\ request.limit \in Nat /\ Len(out) < request.limit
      BY <1>1, <1>3, EmptyPage DEF TypeOK
    <2>2. Append(out, cursor) \in Seq(RowIds) /\ Len(Append(out, cursor)) = Len(out) + 1
      BY <1>4, <2>1
    <2>3. QED BY <1>2, <2>1, <2>2
  <1>6. TypeOK'
    <2>1. pc # "idle" /\ pc' \in Routes \cup {"idle", "between", "answer", "done"}
      BY <1>1 DEF Routes
    <2>2. {after', cursor'} \subseteq RowIds \cup {NoRow} /\ returned' \in Seq(RowIds) /\ hits' \in Nat
          /\ \A v \in DOMAIN heads' : heads'[v] \in RowIds \cup {NoRow}
      BY <1>1, <1>3, <1>4 DEF TypeOK
    <2>3. UNCHANGED <<data, request, steady>>
      BY <1>1 DEF data
    <2>4. QED BY <1>5, <2>1, <2>2, <2>3, QueryTyped
  <1>7. IsValid(request) /\ request.filters = {} /\ cursor' # NoRow
    BY <1>1, <1>3, <1>4 DEF Routed, Routes, NoRow, RowIds
  <1>8. IsValid(request)' /\ request'.filters = {}
    BY <1>1, <1>7, SameRequest
  <1>9. Routed'
    BY <1>1, <1>7, <1>8 DEF Routed, Routes
  <1>10. QED BY <1>6, <1>9 DEF Typed

(* A route that ends.                                                      *)
LEMMA EndsTyped ==
    ASSUME Typed, BrowseEnds \/ RangeEnds
    PROVE  Typed'
  <1>1. /\ table' = table /\ top' = top /\ request' = request /\ after' = after
        /\ returned' = returned /\ steady' = steady /\ hits' = hits /\ heads' = heads
        /\ out' = out /\ cursor' = cursor /\ pc \in {"browse", "range"} /\ pc' = "answer"
    BY DEF BrowseEnds, RangeEnds, data, walk, query
  <1>2. TypeOK /\ Routed
    BY DEF Typed
  <1>3. TypeOK'
    BY <1>1, <1>2 DEF TypeOK
  <1>4. IsValid(request)'
    BY <1>1, <1>2, SameRequest DEF Routed, Routes
  <1>5. Routed'
    BY <1>1, <1>4 DEF Routed, Routes
  <1>6. QED BY <1>3, <1>5 DEF Typed

(* A page that is taken from the rows found at once.                       *)
LEMMA WholePageTyped ==
    ASSUME Typed, EqualityPage \/ Scan
    PROVE  Typed'
  <1>0. TypeOK /\ Routed
    BY DEF Typed
  <1>1. PICK found \in SUBSET RowIds : out' = Fitting(found) /\ hits' = Cardinality(found)
    BY <1>0, TableRows DEF EqualityPage, Scan
  <1>2. /\ table' = table /\ top' = top /\ request' = request /\ after' = after
        /\ returned' = returned /\ steady' = steady /\ heads' = heads
        /\ cursor' = cursor /\ pc \in {"equality", "scan"} /\ pc' = "answer"
    BY DEF EqualityPage, Scan, data, walk
  <1>3. pc # "idle" /\ out = <<>>
    BY <1>0, <1>2 DEF Routed
  <1>4. out' \in Seq(RowIds) /\ Len(out') <= request.limit /\ hits' \in Nat
    <2>1. /\ Fitting(found) \in Seq(RowIds) /\ Len(Fitting(found)) \in Nat
          /\ Len(Fitting(found)) <= request.limit - Len(out)
      BY <1>0, <1>3, FittingTyped
    <2>2. Len(out) = 0 /\ request.limit \in Nat
      BY <1>0, <1>3, EmptyPage
    <2>3. Cardinality(found) \in Nat
      BY RowIdSets
    <2>4. QED BY <1>1, <2>1, <2>2, <2>3
  <1>5. TypeOK'
    <2>1. pc' \in Routes \cup {"idle", "between", "answer", "done"}
      BY <1>2
    <2>2. {after', cursor'} \subseteq RowIds \cup {NoRow} /\ returned' \in Seq(RowIds)
          /\ \A v \in DOMAIN heads' : heads'[v] \in RowIds \cup {NoRow}
      BY <1>0, <1>2 DEF TypeOK
    <2>3. UNCHANGED <<data, request, steady>>
      BY <1>2 DEF data
    <2>4. QED BY <1>3, <1>4, <2>1, <2>2, <2>3, QueryTyped
  <1>6. IsValid(request)'
    BY <1>0, <1>2, SameRequest DEF Routed, Routes
  <1>7. Routed'
    BY <1>2, <1>6 DEF Routed, Routes
  <1>8. QED BY <1>5, <1>7 DEF Typed

(* The batch of candidates, and those of them that satisfy all filters.    *)
Candidates == Smallest(Batch, Above(EqualityRows(Equalities), cursor))
Accepted == {id \in Candidates : \A f \in request.filters : Satisfies(table[id], f)}

(* What a batch does.                                                      *)
LEMMA BatchStep ==
    ASSUME TypeOK, CandidateBatch
    PROVE  /\ Candidates \subseteq RowIds /\ Accepted \subseteq Candidates
           /\ Cardinality(Candidates) \in Nat /\ Cardinality(Accepted) \in Nat
           /\ hits' = hits + Cardinality(Accepted) /\ out' = out \o Fitting(Accepted)
           /\ \/ /\ Cardinality(Candidates) < Batch /\ pc' = "answer" /\ cursor' = cursor
              \/ /\ Cardinality(Candidates) >= Batch /\ pc' = pc /\ cursor' = Max(Candidates)
                 /\ Candidates # {} /\ cursor' \in RowIds
  <1>1. Candidates \subseteq RowIds
    <2>1. Above(EqualityRows(Equalities), cursor) \subseteq RowIds
      BY TableRows DEF Above
    <2>2. QED BY <2>1 DEF Candidates, Smallest
  <1>2. Accepted \subseteq Candidates /\ Accepted \subseteq RowIds
    BY <1>1 DEF Accepted
  <1>3. Cardinality(Candidates) \in Nat /\ Cardinality(Accepted) \in Nat
    BY <1>1, <1>2, RowIdSets
  <1>4. hits' = hits + Cardinality(Accepted) /\ out' = out \o Fitting(Accepted)
    BY DEF CandidateBatch, Candidates, Accepted
  <1>5. \/ /\ Cardinality(Candidates) < Batch /\ pc' = "answer" /\ cursor' = cursor
        \/ /\ ~(Cardinality(Candidates) < Batch) /\ pc' = pc /\ cursor' = Max(Candidates)
    BY DEF CandidateBatch, Candidates, BatchIsLast
  <1>6. Cardinality(Candidates) >= Batch => Candidates # {}
    BY <1>1, RowIdSets, ConstantsAssumption
  <1>7. Candidates # {} => Max(Candidates) \in RowIds
    BY <1>1, LargestRow
  <1>8. Batch \in Nat
    BY ConstantsAssumption
  <1>9. QED BY <1>1, <1>2, <1>3, <1>4, <1>5, <1>6, <1>7, <1>8

(* A batch of candidates.                                                  *)
LEMMA CandidateTyped ==
    ASSUME Typed, CandidateBatch
    PROVE  Typed'
  <1>0. TypeOK /\ Routed
    BY DEF Typed
  <1>1. /\ table' = table /\ top' = top /\ request' = request /\ after' = after
        /\ returned' = returned /\ steady' = steady /\ heads' = heads /\ pc = "candidate"
    BY DEF CandidateBatch, data, walk
  <1>2. pc # "idle"
    BY <1>1
  <1>3. /\ Accepted \subseteq RowIds /\ Cardinality(Accepted) \in Nat
        /\ hits' = hits + Cardinality(Accepted) /\ out' = out \o Fitting(Accepted)
        /\ pc' \in {"answer", "candidate"} /\ cursor' \in RowIds \cup {NoRow}
    <2>1. cursor \in RowIds \cup {NoRow}
      BY <1>0 DEF TypeOK
    <2>2. QED BY <1>0, <1>1, <2>1, BatchStep
  <1>4. out' \in Seq(RowIds) /\ Len(out') <= request.limit
    <2>1. /\ Fitting(Accepted) \in Seq(RowIds) /\ Len(Fitting(Accepted)) \in Nat
          /\ Len(Fitting(Accepted)) <= request.limit - Len(out)
      BY <1>0, <1>2, <1>3, FittingTyped
    <2>2. out \in Seq(RowIds) /\ Len(out) \in Nat /\ request.limit \in Nat
      BY <1>0, <1>2, EmptyPage DEF TypeOK
    <2>3. /\ out \o Fitting(Accepted) \in Seq(RowIds)
          /\ Len(out \o Fitting(Accepted)) = Len(out) + Len(Fitting(Accepted))
      BY <2>1, <2>2
    <2>4. QED BY <1>3, <2>1, <2>2, <2>3
  <1>5. hits' \in Nat
    BY <1>0, <1>3 DEF TypeOK
  <1>6. TypeOK'
    <2>1. pc' \in Routes \cup {"idle", "between", "answer", "done"}
      BY <1>3 DEF Routes
    <2>2. {after', cursor'} \subseteq RowIds \cup {NoRow} /\ returned' \in Seq(RowIds)
          /\ \A v \in DOMAIN heads' : heads'[v] \in RowIds \cup {NoRow}
      BY <1>0, <1>1, <1>3 DEF TypeOK
    <2>3. UNCHANGED <<data, request, steady>>
      BY <1>1 DEF data
    <2>4. QED BY <1>2, <1>4, <1>5, <2>1, <2>2, <2>3, QueryTyped
  <1>7. IsValid(request)'
    BY <1>0, <1>1, SameRequest DEF Routed, Routes
  <1>8. Routed'
    BY <1>3, <1>7 DEF Routed, Routes
  <1>9. QED BY <1>6, <1>8 DEF Typed

(* What the probe of a range does.                                         *)
LEMMA ProbeStep ==
    ASSUME Typed, ProbeRange
    PROVE  \E f \in request.filters :
             /\ request.filters = {f} /\ f.op = "range" /\ f.column \in Columns
             /\ f.gte \in Int /\ f.lte \in Int /\ Open \notin {f.gte, f.lte}
             /\ DOMAIN heads' = f.gte..f.lte
             /\ \A v \in f.gte..f.lte : heads'[v] = FirstAbove(v, after)
             /\ hits' = Cardinality(Hits(f))
  <1>1. request \in Requests /\ NarrowRange /\ IsValid(request)
    BY DEF Typed, TypeOK, Routed, ProbeRange, Routes
  <1>2. PICK f \in request.filters :
          /\ request.filters = {f} /\ f.op = "range" /\ f.column \in Columns
          /\ f.gte \in Int /\ f.lte \in Int /\ Open \notin {f.gte, f.lte}
    BY <1>1, TheRange
  <1>3. /\ heads' = [v \in f.gte..f.lte |-> FirstAbove(v, after)]
        /\ hits' = Cardinality(Hits(f))
    BY <1>2 DEF ProbeRange, Hits
  <1>4. DOMAIN heads' = f.gte..f.lte /\ \A v \in f.gte..f.lte : heads'[v] = FirstAbove(v, after)
    BY <1>3
  <1>5. QED BY <1>2, <1>3, <1>4

(* The probe of a range.                                                   *)
LEMMA ProbeTyped ==
    ASSUME Typed, ProbeRange
    PROVE  Typed'
  <1>0. TypeOK /\ Routed
    BY DEF Typed
  <1>1. /\ table' = table /\ top' = top /\ request' = request /\ after' = after
        /\ returned' = returned /\ steady' = steady /\ out' = out /\ cursor' = cursor
        /\ pc = "probe" /\ pc' = "range"
    BY DEF ProbeRange, data, walk
  <1>2. (\A v \in DOMAIN heads' : heads'[v] \in RowIds \cup {NoRow}) /\ hits' \in Nat
    <2>1. PICK f : /\ f.gte \in Int /\ f.lte \in Int /\ DOMAIN heads' = f.gte..f.lte
                   /\ \A v \in f.gte..f.lte : heads'[v] = FirstAbove(v, after)
                   /\ hits' = Cardinality(Hits(f))
      BY ProbeStep
    <2>2. \A v : FirstAbove(v, after) \in RowIds \cup {NoRow}
      BY <1>0, HeadOfStream
    <2>3. QED BY <1>0, <2>1, <2>2, HitsAreFinite
  <1>3. TypeOK'
    <2>1. pc # "idle" /\ pc' \in Routes \cup {"idle", "between", "answer", "done"}
      BY <1>1 DEF Routes
    <2>2. {after', cursor'} \subseteq RowIds \cup {NoRow} /\ returned' \in Seq(RowIds)
          /\ out' \in Seq(RowIds) /\ Len(out') <= request.limit
      BY <1>0, <1>1 DEF TypeOK
    <2>3. UNCHANGED <<data, request, steady>>
      BY <1>1 DEF data
    <2>4. QED BY <1>2, <2>1, <2>2, <2>3, QueryTyped
  <1>4. IsValid(request)' /\ NarrowRange'
    BY <1>0, <1>1, SameRequest DEF Routed, Routes
  <1>5. Routed'
    BY <1>1, <1>4 DEF Routed, Routes
  <1>6. QED BY <1>3, <1>5 DEF Typed

(* What popping a row of the merge does.                                   *)
LEMMA PopStep ==
    ASSUME TypeOK, PopRange
    PROVE  \E v \in DOMAIN heads :
             /\ heads[v] \in RowIds
             /\ \A u \in DOMAIN heads : heads[u] = NoRow \/ heads[v] <= heads[u]
             /\ out' = Append(out, heads[v])
             /\ DOMAIN heads' = DOMAIN heads /\ heads'[v] = FirstAbove(v, heads[v])
             /\ \A u \in DOMAIN heads \ {v} : heads'[u] = heads[u]
  <1>1. PICK v \in DOMAIN heads :
         /\ heads[v] # NoRow
         /\ \A u \in DOMAIN heads \ {v} :
              heads[u] = NoRow \/ heads[v] < heads[u] \/ (heads[v] = heads[u] /\ v < u)
         /\ out' = Append(out, heads[v])
         /\ heads' = Refilled(v)
    BY DEF PopRange
  <1>2. \A u \in DOMAIN heads : heads[u] \in RowIds \cup {NoRow}
    BY DEF TypeOK
  <1>3. heads[v] \in RowIds /\ \A x \in RowIds : x \in Int
    BY <1>1, <1>2, RowIdSets
  <1>4. \A u \in DOMAIN heads : heads[u] = NoRow \/ heads[v] <= heads[u]
    BY <1>1, <1>2, <1>3
  <1>5. heads' = [heads EXCEPT ![v] = FirstAbove(v, @)]
    BY <1>1 DEF Refilled
  <1>6. /\ DOMAIN heads' = DOMAIN heads /\ heads'[v] = FirstAbove(v, heads[v])
        /\ \A u \in DOMAIN heads \ {v} : heads'[u] = heads[u]
    BY <1>5
  <1>7. QED BY <1>1, <1>3, <1>4, <1>6

(* A row of the merge.                                                     *)
LEMMA PopTyped ==
    ASSUME Typed, PopRange
    PROVE  Typed'
  <1>0. TypeOK /\ Routed
    BY DEF Typed
  <1>1. /\ table' = table /\ top' = top /\ request' = request /\ after' = after
        /\ returned' = returned /\ steady' = steady /\ hits' = hits /\ cursor' = cursor
        /\ pc = "range" /\ pc' = pc /\ Len(out) # request.limit
    BY DEF PopRange, data, walk, PageIsFull
  <1>2. PICK v \in DOMAIN heads :
          /\ heads[v] \in RowIds /\ out' = Append(out, heads[v])
          /\ DOMAIN heads' = DOMAIN heads /\ heads'[v] = FirstAbove(v, heads[v])
          /\ \A u \in DOMAIN heads \ {v} : heads'[u] = heads[u]
    BY <1>0, PopStep
  <1>3. \A u \in DOMAIN heads' : heads'[u] \in RowIds \cup {NoRow}
    BY <1>0, <1>2, HeadOfStream DEF TypeOK
  <1>4. out' \in Seq(RowIds) /\ Len(out') <= request.limit
    <2>1. out \in Seq(RowIds) /\ Len(out) \in Nat /\ request.limit \in Nat /\ Len(out) < request.limit
      BY <1>0, <1>1, EmptyPage DEF TypeOK
    <2>2. /\ Append(out, heads[v]) \in Seq(RowIds)
          /\ Len(Append(out, heads[v])) = Len(out) + 1
      BY <1>2, <2>1
    <2>3. QED BY <1>2, <2>1, <2>2
  <1>5. TypeOK'
    <2>1. pc # "idle" /\ pc' \in Routes \cup {"idle", "between", "answer", "done"}
      BY <1>1 DEF Routes
    <2>2. {after', cursor'} \subseteq RowIds \cup {NoRow} /\ returned' \in Seq(RowIds) /\ hits' \in Nat
      BY <1>0, <1>1 DEF TypeOK
    <2>3. UNCHANGED <<data, request, steady>>
      BY <1>1 DEF data
    <2>4. QED BY <1>3, <1>4, <2>1, <2>2, <2>3, QueryTyped
  <1>6. IsValid(request)' /\ NarrowRange'
    BY <1>0, <1>1, SameRequest DEF Routed, Routes
  <1>7. Routed'
    BY <1>1, <1>6 DEF Routed, Routes
  <1>8. QED BY <1>5, <1>7 DEF Typed

(* The cursor that goes with a page.                                       *)
LEMMA CursorTyped ==
    ASSUME TypeOK, pc # "idle", IsValid(request)
    PROVE  /\ NextCursor \in RowIds \cup {NoRow}
           /\ NextCursor # NoRow => /\ Len(out) = request.limit /\ Len(out) \in DOMAIN out
                                    /\ NextCursor = out[Len(out)] /\ NextCursor \in RowIds
                                    /\ request.filters = {} => NextCursor < top
           /\ NextCursor = NoRow => \/ Len(out) < request.limit
                                    \/ /\ request.filters = {} /\ Len(out) \in DOMAIN out
                                       /\ ~(out[Len(out)] < top)
  <1>1. request.limit \in Nat /\ request.limit > 0 /\ Len(out) \in Nat /\ out \in Seq(RowIds)
        /\ Len(out) <= request.limit
    BY EmptyPage DEF IsValid, TypeOK
  <1>2. Len(out) = request.limit => Len(out) \in DOMAIN out
    <2>1. DOMAIN out = 1..Len(out)
      BY <1>1
    <2>2. QED BY <1>1, <2>1
  <1>3. Len(out) \in DOMAIN out => out[Len(out)] \in RowIds
    BY <1>1
  <1>4. NextCursor = IF Len(out) = request.limit /\ (request.filters = {} => out[Len(out)] < top)
                     THEN out[Len(out)] ELSE NoRow
    BY DEF NextCursor, PageIsFull, Last
  <1>5. NoRow \notin RowIds
    BY DEF NoRow, RowIds
  <1>6. CASE Len(out) = request.limit /\ (request.filters = {} => out[Len(out)] < top)
    BY <1>2, <1>3, <1>4, <1>5, <1>6
  <1>7. CASE Len(out) = request.limit /\ ~(request.filters = {} => out[Len(out)] < top)
    BY <1>2, <1>3, <1>4, <1>5, <1>7
  <1>8. CASE Len(out) < request.limit
    BY <1>1, <1>4, <1>8
  <1>9. Len(out) = request.limit \/ Len(out) < request.limit
    BY <1>1
  <1>10. QED BY <1>6, <1>7, <1>8, <1>9

(* The page goes to the client.                                            *)
LEMMA AnswerTyped ==
    ASSUME Typed, Answer
    PROVE  Typed'
  <1>0. TypeOK /\ Routed
    BY DEF Typed
  <1>1. /\ table' = table /\ top' = top /\ request' = request /\ steady' = steady
        /\ returned' = returned \o out /\ after' = NextCursor
        /\ out' = <<>> /\ hits' = 0 /\ cursor' = NoRow /\ heads' = <<>>
        /\ pc = "answer" /\ pc' = IF NextCursor = NoRow THEN "done" ELSE "between"
    BY DEF Answer, data
  <1>2. pc # "idle" /\ IsValid(request)
    BY <1>0, <1>1 DEF Routed
  <1>3. TypeOK'
    <2>1. pc' \in Routes \cup {"idle", "between", "answer", "done"}
      BY <1>1
    <2>2. {after', cursor'} \subseteq RowIds \cup {NoRow}
      BY <1>0, <1>1, <1>2, CursorTyped
    <2>3. returned' \in Seq(RowIds)
      <3>1. returned \in Seq(RowIds) /\ out \in Seq(RowIds)
        BY <1>0 DEF TypeOK
      <3>2. QED BY <1>1, <3>1
    <2>4. out' \in Seq(RowIds) /\ Len(out') <= request.limit /\ hits' \in Nat
          /\ \A v \in DOMAIN heads' : heads'[v] \in RowIds \cup {NoRow}
      BY <1>0, <1>1, <1>2, EmptyPage
    <2>5. UNCHANGED <<data, request, steady>>
      BY <1>1 DEF data
    <2>6. QED BY <1>2, <2>1, <2>2, <2>3, <2>4, <2>5, QueryTyped
  <1>4. Routed'
    BY <1>1 DEF Routed, Routes
  <1>5. QED BY <1>3, <1>4 DEF Typed

(* A query that fails or is refused.                                       *)
LEMMA FailsTyped ==
    ASSUME Typed, QueryFails \/ Refused
    PROVE  Typed'
  <1>0. TypeOK /\ Routed
    BY DEF Typed
  <1>1. /\ table' = table /\ top' = top /\ request' = request /\ steady' = steady
        /\ returned' = returned /\ after' = after
        /\ pc \in Routes \cup {"between"} /\ pc' \in {"between", "idle"}
    BY DEF QueryFails, Refused, data, walk
  <1>2. \/ out' = <<>> /\ hits' = 0 /\ cursor' = NoRow /\ heads' = <<>>
        \/ pc = "between" /\ out' = out /\ hits' = hits /\ cursor' = cursor /\ heads' = heads
    BY DEF QueryFails, Refused, query
  <1>3. pc # "idle"
    BY <1>1 DEF Routes
  <1>4. out' = <<>>
    BY <1>0, <1>2 DEF Routed, Routes
  <1>5. TypeOK'
    <2>1. out' \in Seq(RowIds) /\ Len(out') <= request.limit
      BY <1>0, <1>3, <1>4, EmptyPage
    <2>2. /\ hits' \in Nat /\ (\A v \in DOMAIN heads' : heads'[v] \in RowIds \cup {NoRow})
          /\ {after', cursor'} \subseteq RowIds \cup {NoRow} /\ returned' \in Seq(RowIds)
      BY <1>0, <1>1, <1>2, <1>3, EmptyPage DEF TypeOK
    <2>3. UNCHANGED <<data, request, steady>>
      BY <1>1 DEF data
    <2>4. pc' \in Routes \cup {"idle", "between", "answer", "done"}
      BY <1>1
    <2>5. QED BY <1>3, <2>1, <2>2, <2>3, <2>4, QueryTyped
  <1>6. Routed'
    BY <1>1, <1>4 DEF Routed, Routes
  <1>7. QED BY <1>5, <1>6 DEF Typed

(* What a writer leaves: the new table is typed.                           *)
LEMMA WriterStep ==
    ASSUME Typed,
           \/ \E row \in Rows : InsertRow(row)
           \/ \E id \in RowIds : DeleteRow(id)
           \/ \E id \in RowIds, row \in Rows : UpdateRow(id, row)
           \/ CompactTable
    PROVE  /\ Typed'
           /\ \E tab : Write(tab)
  <1>0. TypeOK
    BY DEF Typed
  <1>1. /\ DOMAIN table \subseteq 0..top /\ DOMAIN table # {} /\ top \in RowIds
        /\ \A id \in DOMAIN table : table[id] \in Rows
    BY <1>0 DEF TypeOK
  <1>2. top \in Nat /\ top <= U64Max /\ U64Max \in Nat
    BY <1>1, ConstantsAssumption DEF RowIds
  <1>3. ASSUME NEW row \in Rows, InsertRow(row)
        PROVE  Typed' /\ \E tab : Write(tab)
    <2> DEFINE tab == [id \in DOMAIN table \cup {top + 1} |-> IF id = top + 1 THEN row ELSE table[id]]
    <2>1. top < U64Max /\ top' = top + 1 /\ Write(tab)
      BY <1>3 DEF InsertRow
    <2>2. top' \in RowIds
      BY <1>2, <2>1 DEF RowIds
    <2>3. DOMAIN tab = DOMAIN table \cup {top + 1} /\ \A id \in DOMAIN tab : tab[id] \in Rows
      BY <1>1
    <2>4. DOMAIN tab \subseteq 0..top' /\ DOMAIN tab # {}
      <3> HIDE DEF tab
      <3>1. 0..top \subseteq 0..top' /\ top + 1 \in 0..top'
        BY <1>2, <2>1
      <3>2. QED BY <1>1, <2>3, <3>1
    <2> HIDE DEF tab
    <2>5. QED BY <2>1, <2>2, <2>3, <2>4, WriteTyped
  <1>4. ASSUME NEW id \in RowIds, DeleteRow(id)
        PROVE  Typed' /\ \E tab : Write(tab)
    <2> DEFINE tab == [j \in DOMAIN table \ {id} |-> table[j]]
    <2>1. top' = top /\ Write(tab) /\ id \in DOMAIN table /\ DOMAIN table # {id}
      BY <1>4 DEF DeleteRow
    <2>2. /\ DOMAIN tab = DOMAIN table \ {id} /\ DOMAIN tab # {}
          /\ \A j \in DOMAIN tab : tab[j] \in Rows
      BY <1>1, <2>1
    <2> HIDE DEF tab
    <2>3. DOMAIN tab \subseteq 0..top' /\ top' \in RowIds
      BY <1>1, <2>1, <2>2
    <2>4. QED BY <2>1, <2>2, <2>3, WriteTyped
  <1>5. ASSUME NEW id \in RowIds, NEW row \in Rows, UpdateRow(id, row)
        PROVE  Typed' /\ \E tab : Write(tab)
    <2> DEFINE tab == [table EXCEPT ![id] = row]
    <2>1. top' = top /\ Write(tab) /\ id \in DOMAIN table
      BY <1>5 DEF UpdateRow
    <2>2. DOMAIN tab = DOMAIN table /\ \A j \in DOMAIN tab : tab[j] \in Rows
      BY <1>1, <2>1
    <2> HIDE DEF tab
    <2>3. DOMAIN tab \subseteq 0..top' /\ top' \in RowIds /\ DOMAIN tab # {}
      BY <1>1, <2>1, <2>2
    <2>4. QED BY <2>1, <2>2, <2>3, WriteTyped
  <1>6. ASSUME CompactTable
        PROVE  Typed' /\ \E tab : Write(tab)
    <2>1. Write(table) /\ top' = Max(DOMAIN table)
      BY <1>6 DEF CompactTable
    <2>2. DOMAIN table \subseteq RowIds
      BY <1>0, TableRows
    <2>3. top' \in RowIds /\ \A x \in DOMAIN table : x <= top'
      BY <1>1, <2>1, <2>2, LargestRow
    <2>4. DOMAIN table \subseteq 0..top'
      <3>1. \A x \in DOMAIN table : x \in Nat /\ top' \in Nat
        BY <2>2, <2>3, RowIdSets
      <3>2. QED BY <2>3, <3>1
    <2>5. QED BY <1>1, <2>1, <2>3, <2>4, WriteTyped
  <1>7. QED BY <1>3, <1>4, <1>5, <1>6

(* Every step keeps the types.                                             *)
LEMMA NextTyped == Typed /\ [Next]_vars => Typed'
  <1> SUFFICES ASSUME Typed, [Next]_vars PROVE Typed'
    OBVIOUS
  <1>1. ASSUME NEW r \in Requests, StartWalk(r) PROVE Typed'
    BY <1>1, StartTyped
  <1>2. CASE Execute
    BY <1>2, ExecuteTyped
  <1>3. CASE Refused \/ QueryFails
    BY <1>3, FailsTyped
  <1>4. CASE BrowseRow
    BY <1>4, BrowseTyped
  <1>5. CASE BrowseEnds \/ RangeEnds
    BY <1>5, EndsTyped
  <1>6. CASE EqualityPage \/ Scan
    BY <1>6, WholePageTyped
  <1>7. CASE CandidateBatch
    BY <1>7, CandidateTyped
  <1>8. CASE ProbeRange
    BY <1>8, ProbeTyped
  <1>9. CASE PopRange
    BY <1>9, PopTyped
  <1>10. CASE Answer
    BY <1>10, AnswerTyped
  <1>11. CASE \/ \E row \in Rows : InsertRow(row)
              \/ \E id \in RowIds : DeleteRow(id)
              \/ \E id \in RowIds, row \in Rows : UpdateRow(id, row)
              \/ CompactTable
    BY <1>11, WriterStep
  <1>12. CASE UNCHANGED vars
    <2>1. /\ table' = table /\ top' = top /\ out' = out /\ hits' = hits /\ cursor' = cursor
          /\ heads' = heads /\ request' = request /\ after' = after /\ returned' = returned
          /\ steady' = steady /\ pc' = pc
      BY <1>12 DEF vars, data, query, walk
    <2>2. TypeOK' /\ Routed'
      BY <2>1, SameRequest DEF Typed, TypeOK, Routed
    <2>3. QED BY <2>2 DEF Typed
  <1>13. QED
    BY <1>1, <1>2, <1>3, <1>4, <1>5, <1>6, <1>7, <1>8, <1>9, <1>10, <1>11, <1>12 DEF Next, QueryStep

----------------------------------------------------------------------------
(* Pages.                                                                  *)

(* The ascending order of row ids is a page with those rows.               *)
LEMMA AscendingPage ==
    ASSUME NEW ids, ids \subseteq RowIds
    PROVE  /\ Ascending(ids) \in Seq(RowIds) /\ Len(Ascending(ids)) = Cardinality(ids)
           /\ Increasing(Ascending(ids)) /\ ToSet(Ascending(ids)) = ids
  <1> DEFINE s == Ascending(ids)
  <1>1. IdSet(ids)
    BY RowIdSets
  <1>2. /\ Cardinality(ids) \in Nat /\ s \in [1..Cardinality(ids) -> ids] /\ s \in Seq(ids)
        /\ Len(s) = Cardinality(ids) /\ Increasing(s) /\ {s[i] : i \in 1..Cardinality(ids)} = ids
    BY <1>1, AscendingOrder
  <1>3. s \in Seq(RowIds)
    BY <1>2
  <1>4. ToSet(s) = ids
    BY <1>2 DEF ToSet
  <1>5. QED BY <1>2, <1>3, <1>4

(* A page without rows.                                                    *)
LEMMA NoRows ==
    /\ Ascending({}) = <<>> /\ (\A n \in Nat : FirstRows(n, {}) = <<>>)
    /\ Increasing(<<>>) /\ ToSet(<<>>) = {} /\ Cardinality({}) = 0
  <1>1. Cardinality({}) = 0
    BY FS_EmptySet
  <1>2. Ascending({}) \in Seq(RowIds) /\ Len(Ascending({})) = 0
    BY <1>1, AscendingPage
  <1>3. Ascending({}) = <<>>
    BY <1>2
  <1>4. \A n \in Nat : Smallest(n, {}) = {}
    BY DEF Smallest
  <1>5. Increasing(<<>>) /\ ToSet(<<>>) = {}
    BY DEF Increasing, ToSet
  <1>6. QED BY <1>1, <1>3, <1>4, <1>5 DEF FirstRows

(* A page after a page.                                                    *)
LEMMA PageJoined ==
    ASSUME NEW s \in Seq(RowIds), NEW t \in Seq(RowIds), Increasing(s), Increasing(t),
           \A x \in ToSet(s), y \in ToSet(t) : x < y
    PROVE  Increasing(s \o t) /\ ToSet(s \o t) = ToSet(s) \cup ToSet(t)
  <1>1. /\ ToSet(s) \subseteq RowIds /\ s = Ascending(ToSet(s))
        /\ ToSet(t) \subseteq RowIds /\ t = Ascending(ToSet(t))
    BY IncreasingPage
  <1>2. IdSet(ToSet(s)) /\ IdSet(ToSet(t)) /\ ToSet(s) \cup ToSet(t) \subseteq RowIds
    BY <1>1, RowIdSets
  <1>3. Ascending(ToSet(s)) \o Ascending(ToSet(t)) = Ascending(ToSet(s) \cup ToSet(t))
    BY <1>2, AscendingJoined
  <1>4. QED BY <1>1, <1>2, <1>3, AscendingPage

(* A row after a page.                                                     *)
LEMMA RowAppended ==
    ASSUME NEW s \in Seq(RowIds), Increasing(s), NEW x \in RowIds, \A y \in ToSet(s) : y < x
    PROVE  Increasing(Append(s, x)) /\ ToSet(Append(s, x)) = ToSet(s) \cup {x}
  <1> DEFINE t == <<x>>
  <1>1. t \in Seq(RowIds) /\ DOMAIN t = {1} /\ t[1] = x
    OBVIOUS
  <1>2. Append(s, x) = s \o t
    OBVIOUS
  <1> HIDE DEF t
  <1>3. ToSet(t) = {x} /\ Increasing(t)
    BY <1>1 DEF ToSet, Increasing
  <1>4. QED BY <1>1, <1>2, <1>3, PageJoined

(* The rows a page has are the first of the wanted ones if none before     *)
(* them is missing and the page is full or has all.                        *)
LEMMA PageIsFirstRows ==
    ASSUME NEW s \in Seq(RowIds), Increasing(s), NEW ids, ids \subseteq RowIds, NEW n \in Nat,
           ToSet(s) \subseteq ids, \A x \in ToSet(s), y \in ids : y < x => y \in ToSet(s),
           Len(s) <= n, ToSet(s) = ids \/ Len(s) = n
    PROVE  s = FirstRows(n, ids)
  <1>1. Cardinality(ToSet(s)) = Len(s) /\ s = Ascending(ToSet(s))
    BY IncreasingPage
  <1>2. IdSet(ids) /\ ToSet(s) \in SUBSET ids
    BY RowIdSets
  <1>3. Smallest(n, ids) = ToSet(s)
    BY <1>1, <1>2, PrefixIsSmallest
  <1>4. QED BY <1>1, <1>3 DEF FirstRows

----------------------------------------------------------------------------
(* Filters and streams.                                                    *)

(* What does not change with the query.                                    *)
LEMMA SameData ==
    ASSUME table' = table, request' = request
    PROVE  /\ Matching(table, request)' = Matching(table, request)
           /\ after' = after => Wanted' = Wanted
           /\ \A v : Stream(v)' = Stream(v)
           /\ \A v, id : FirstAbove(v, id)' = FirstAbove(v, id)
  <1>1. Matching(table, request)' = Matching(table, request)
    BY DEF Matching
  <1>2. after' = after => Wanted' = Wanted
    BY <1>1 DEF Wanted
  <1>3. \A v : Stream(v)' = Stream(v)
    BY DEF Stream, EqualityRows
  <1>4. \A v, id : FirstAbove(v, id)' = FirstAbove(v, id)
    BY <1>3 DEF FirstAbove
  <1>5. QED BY <1>1, <1>2, <1>3, <1>4

(* The rows of the equality predicates satisfy the equality filters.       *)
LEMMA EqualityIsExact ==
    ASSUME AsksNoLiteral
    PROVE  /\ EqualityRows(Equalities) =
                {id \in DOMAIN table : \A f \in Equalities : Satisfies(table[id], f)}
           /\ Matching(table, request) \subseteq EqualityRows(Equalities)
           /\ Equalities = request.filters =>
                EqualityRows(request.filters) = Matching(table, request)
  <1>1. \A f \in Equalities : f \in request.filters /\ f.op = "eq"
    BY DEF Equalities
  <1>2. \A f \in Equalities : AsPredicate(f.column, f.value) = f.value
    BY <1>1 DEF AsPredicate, AsksNoLiteral
  <1>3. \A row : \A f \in Equalities : Satisfies(row, f) <=> row[f.column] = f.value
    BY <1>1 DEF Satisfies
  <1>4. EqualityRows(Equalities) =
          {id \in DOMAIN table : \A f \in Equalities : Satisfies(table[id], f)}
    BY <1>2, <1>3 DEF EqualityRows
  <1>5. QED BY <1>1, <1>4 DEF Matching

(* The streams of a narrow range divide the matching rows by their value.  *)
LEMMA StreamsAreExact ==
    ASSUME TypeOK, AsksNoLiteral, NEW f \in request.filters, request.filters = {f},
           f.op = "range", f.column \in Columns, f.gte \in Int, f.lte \in Int,
           Open \notin {f.gte, f.lte}
    PROVE  /\ \A v \in f.gte..f.lte : \A id : id \in Stream(v) <=>
                id \in Matching(table, request) /\ table[id][f.column] = v
           /\ \A id \in Matching(table, request) :
                table[id][f.column] \in f.gte..f.lte /\ id \in Stream(table[id][f.column])
           /\ Cardinality(Hits(f)) = Cardinality(Matching(table, request))
  <1> DEFINE M == Matching(table, request)
  <1>1. \A id \in DOMAIN table : table[id][f.column] \in 0..MaxValue \/ table[id][f.column] = Null
    <2>1. \A id \in DOMAIN table : table[id] \in [Columns -> Cell]
      BY ConstantsAssumption DEF TypeOK
    <2>2. QED BY <2>1 DEF Cell
  <1>2. \A id : id \in M <=> id \in DOMAIN table /\ table[id][f.column] \in f.gte..f.lte
    <2>1. \A id : id \in M <=> id \in DOMAIN table /\ Satisfies(table[id], f)
      BY DEF Matching
    <2>2. \A row : Satisfies(row, f) <=>
            row[f.column] # Null /\ f.gte <= row[f.column] /\ row[f.column] <= f.lte
      BY DEF Satisfies
    <2>3. \A cell : (cell \in 0..MaxValue \/ cell = Null) =>
            ((cell # Null /\ f.gte <= cell /\ cell <= f.lte) <=> cell \in f.gte..f.lte)
      BY ConstantsAssumption
    <2>4. QED BY <1>1, <2>1, <2>2, <2>3
  <1>3. \A v \in f.gte..f.lte : \A id : id \in Stream(v) <=> id \in DOMAIN table /\ table[id][f.column] = v
    <2> TAKE v \in f.gte..f.lte
    <2> DEFINE e == [op |-> "eq", column |-> f.column, value |-> v]
    <2>1. {[op |-> "eq", column |-> g.column, value |-> v] : g \in request.filters} = {e}
      OBVIOUS
    <2>2. Stream(v) = EqualityRows({e})
      BY <2>1 DEF Stream
    <2>3. AsPredicate(f.column, v) = v
      BY DEF AsPredicate, AsksNoLiteral
    <2>4. e.column = f.column /\ e.value = v
      OBVIOUS
    <2> HIDE DEF e
    <2>5. QED BY <2>2, <2>3, <2>4 DEF EqualityRows
  <1>4. \A v \in f.gte..f.lte : \A id : id \in Stream(v) <=> id \in M /\ table[id][f.column] = v
    BY <1>2, <1>3
  <1>5. \A id \in M : table[id][f.column] \in f.gte..f.lte /\ id \in Stream(table[id][f.column])
    BY <1>2, <1>4
  <1> HIDE DEF M
  <1>6. Cardinality(Hits(f)) = Cardinality(M)
    <2> DEFINE g == [id \in M |-> <<table[id][f.column], id>>]
    <2>1. \A p : p \in Hits(f) <=> \E v \in f.gte..f.lte : \E id \in Stream(v) : p = <<v, id>>
      BY DEF Hits
    <2>2. \A id \in M : g[id] \in Hits(f)
      BY <1>5, <2>1
    <2>3. \A i, j \in M : g[i] = g[j] => i = j
      OBVIOUS
    <2>4. \A p \in Hits(f) : \E id \in M : g[id] = p
      <3> TAKE p \in Hits(f)
      <3>1. PICK v \in f.gte..f.lte : \E id \in Stream(v) : p = <<v, id>>
        BY <2>1
      <3>4. PICK id \in Stream(v) : p = <<v, id>>
        BY <3>1
      <3>2. id \in M /\ table[id][f.column] = v
        BY <1>4
      <3>3. QED BY <3>2, <3>4
    <2>5. DOMAIN g = M /\ g \in [M -> Hits(f)]
      BY <2>2
    <2>6. g \in Bijection(M, Hits(f))
      <3> HIDE DEF g
      <3>1. QED BY <2>3, <2>4, <2>5 DEF Bijection, Injection, Surjection, IsInjective
    <2>7. IsFiniteSet(M)
      BY TableRows, RowIdSets DEF IdSet, M
    <2>8. QED BY <2>6, <2>7, FS_Bijection DEF ExistsBijection
  <1>7. QED BY <1>4, <1>5, <1>6 DEF M

----------------------------------------------------------------------------
(* Exact pages and walks.                                                  *)

(* A walk keeps its state while a query is answered.                       *)
LEMMA WalkKept ==
    ASSUME WalkSoFar, table' = table, request' = request, after' = after,
           returned' = returned, steady' = steady, pc \notin {"done", "idle"}, pc' # "done"
    PROVE  WalkSoFar'
  <1>1. Matching(table, request)' = Matching(table, request)
    BY SameData
  <1>2. QED BY <1>1 DEF WalkSoFar

(* A walk begins with nothing returned.                                    *)
LEMMA StartExact ==
    ASSUME Typed, NEW r \in Requests, StartWalk(r)
    PROVE  Exact'
  <1>1. /\ table' = table /\ request' = r /\ after' = NoRow /\ returned' = <<>>
        /\ steady' = Matching(table, r) /\ pc' = "between"
    BY DEF StartWalk, data
  <1>2. steady' = Matching(table', request') /\ steady' \subseteq RowIds
    BY <1>1, TableRows DEF Typed
  <1>3. Increasing(returned') /\ ToSet(returned') = {}
    BY <1>1, NoRows
  <1>4. \A m \in steady' : ~(m <= after')
    BY <1>1, <1>2 DEF RowIds, NoRow
  <1>5. after' < U64Max
    BY <1>1, ConstantsAssumption DEF NoRow
  <1>6. WalkSoFar'
    BY <1>1, <1>2, <1>3, <1>4, <1>5 DEF WalkSoFar
  <1>7. QED
    BY <1>1, <1>6 DEF Exact, BrowseSoFar, CandidatesSoFar, RangeSoFar, AnswerIsExact

(* A writer between two pages leaves of the steady rows those that still   *)
(* match.                                                                  *)
LEMMA WriteExact ==
    ASSUME Exact, NEW tab, Write(tab)
    PROVE  Exact'
  <1>1. /\ table' = tab /\ steady' = steady \cap Matching(tab, request)
        /\ request' = request /\ after' = after /\ returned' = returned
        /\ pc = "between" /\ pc' = "between"
    BY DEF Write
  <1>2. steady' \subseteq Matching(table', request') /\ steady' \subseteq steady
    BY <1>1
  <1>3. WalkSoFar'
    BY <1>1, <1>2 DEF Exact, WalkSoFar
  <1>4. QED
    BY <1>1, <1>3 DEF Exact, BrowseSoFar, CandidatesSoFar, RangeSoFar, AnswerIsExact

(* Every route begins right.                                               *)
LEMMA ExecuteExact ==
    ASSUME Typed, Exact, Execute
    PROVE  Exact'
  <1>1. /\ table' = table /\ request' = request /\ after' = after
        /\ returned' = returned /\ steady' = steady
        /\ pc = "between" /\ pc' = RouteOf(request) /\ out' = <<>>
    BY DEF Execute, data, walk
  <1>2. /\ pc' = "browse" => hits' = Cardinality(DOMAIN table) /\ cursor' = RowAfter(after)
        /\ pc' # "browse" => hits' = 0 /\ cursor' = NoRow
    BY <1>1 DEF Execute
  <1>3. pc' \in Routes \ {"range"} /\ (pc' = "browse" => request.filters = {})
    BY <1>1, RouteChosen
  <1>4. Wanted' = Wanted /\ Matching(table, request)' = Matching(table, request)
    BY <1>1, SameData
  <1>5. TypeOK /\ Wanted \subseteq RowIds /\ Matching(table, request) \subseteq RowIds
    BY TableRows DEF Typed
  <1>6. WalkSoFar'
    BY <1>1, <1>3, WalkKept DEF Exact, Routes
  <1>7. BrowseSoFar'
    <2> SUFFICES ASSUME pc' = "browse" PROVE BrowseSoFar'
      BY DEF BrowseSoFar
    <2>1. request.filters = {} /\ Matching(table, request) = DOMAIN table
      BY <1>3 DEF Matching
    <2>2. after < U64Max /\ after \in RowIds \cup {NoRow}
      BY <1>5, <2>1 DEF Exact, WalkSoFar, TypeOK
    <2>3. after \in Int /\ cursor' = after + 1
      BY <1>2, <2>2, ConstantsAssumption DEF RowIds, NoRow, RowAfter
    <2>4. {m \in Wanted : m < cursor'} = {}
      <3>1. \A m \in Wanted : m \in Int /\ m > after
        BY <1>5, RowIdSets DEF Wanted, Above
      <3>2. QED BY <2>3, <3>1
    <2>5. out' = Ascending({m \in Wanted' : m < cursor'})
      BY <1>1, <1>4, <2>4, NoRows
    <2>6. after' < cursor' /\ hits' = Cardinality(Matching(table, request)')
      BY <1>1, <1>2, <1>4, <2>1, <2>3
    <2>7. QED BY <2>5, <2>6 DEF BrowseSoFar
  <1>8. CandidatesSoFar'
    <2> SUFFICES ASSUME pc' = "candidate" PROVE CandidatesSoFar'
      BY DEF CandidatesSoFar
    <2>1. cursor' = NoRow /\ hits' = 0
      BY <1>2
    <2>2. \A m \in RowIds : ~(m <= NoRow)
      BY DEF RowIds, NoRow
    <2>3. {m \in Wanted : m <= cursor'} = {} /\ {m \in Matching(table, request) : m <= cursor'} = {}
      BY <1>5, <2>1, <2>2
    <2>4. request.limit \in Nat
      BY <1>1, <1>5, ConstantsAssumption DEF TypeOK
    <2>5. out' = FirstRows(request'.limit, {m \in Wanted' : m <= cursor'})
      BY <1>1, <1>4, <2>3, <2>4, NoRows
    <2>6. hits' = Cardinality({m \in Matching(table, request)' : m <= cursor'})
      BY <1>4, <2>1, <2>3, NoRows
    <2>7. QED BY <2>5, <2>6 DEF CandidatesSoFar
  <1>9. RangeSoFar' /\ AnswerIsExact'
    BY <1>3 DEF RangeSoFar, AnswerIsExact, Routes
  <1>10. QED BY <1>6, <1>7, <1>8, <1>9 DEF Exact

(* Browsing: the rows up to the cursor are on the page.                    *)
LEMMA BrowseExact ==
    ASSUME Typed, Typed', Exact, BrowseRow
    PROVE  Exact'
  <1>1. /\ table' = table /\ request' = request /\ after' = after
        /\ returned' = returned /\ steady' = steady /\ hits' = hits
        /\ pc = "browse" /\ cursor <= top /\ Len(out) # request.limit
        /\ out' = IF cursor \in DOMAIN table THEN Append(out, cursor) ELSE out
        /\ cursor' = RowAfter(cursor)
        /\ pc' = IF IsLastId(cursor) THEN "answer" ELSE "browse"
    BY DEF BrowseRow, data, walk, PageIsFull
  <1>2. Wanted' = Wanted /\ Matching(table, request)' = Matching(table, request)
    BY <1>1, SameData
  <1>3. TypeOK /\ Wanted \subseteq RowIds
    BY TableRows DEF Typed
  <1>4. request.filters = {} /\ Matching(table, request) = DOMAIN table /\ cursor \in RowIds
    BY <1>1, <1>3 DEF Typed, Routed, TypeOK, Matching
  <1>5. after < cursor /\ hits = Cardinality(Matching(table, request))
    BY <1>1 DEF Exact, BrowseSoFar
  <1> DEFINE A == {m \in Wanted : m < cursor}
             B == {m \in Wanted : m <= cursor}
  <1>6. out = Ascending(A) /\ A \subseteq RowIds
    BY <1>1, <1>3 DEF Exact, BrowseSoFar
  <1>7. cursor \in DOMAIN table <=> cursor \in Wanted
    BY <1>4, <1>5 DEF Wanted, Above
  <1>8. B = IF cursor \in Wanted THEN A \cup {cursor} ELSE A
    <2>1. \A m \in Wanted : m \in Int /\ cursor \in Int
      BY <1>3, <1>4, RowIdSets
    <2>2. QED BY <2>1
  <1>9. Increasing(out') /\ ToSet(out') = B
    <2>1. Increasing(out) /\ ToSet(out) = A /\ out \in Seq(RowIds)
      BY <1>6, AscendingPage
    <2>2. \A y \in ToSet(out) : y < cursor
      BY <2>1
    <2>3. Increasing(Append(out, cursor)) /\ ToSet(Append(out, cursor)) = A \cup {cursor}
      BY <1>4, <2>1, <2>2, RowAppended
    <2> HIDE DEF A, B
    <2>4. QED BY <1>1, <1>7, <1>8, <2>1, <2>3
  <1>10. out' \in Seq(RowIds) /\ Len(out') <= request.limit /\ request.limit \in Nat
    BY <1>1, <1>3, ConstantsAssumption DEF Typed, TypeOK
  <1>11. CASE IsLastId(cursor)
    <2>1. cursor = U64Max
      BY <1>11 DEF IsLastId
    <2>2. B = Wanted
      BY <1>3, <2>1, RowIdSets
    <2>3. ToSet(out') = Wanted
      BY <1>9, <2>2
    <2>4. out' = FirstRows(request.limit, Wanted)
      BY <1>3, <1>9, <1>10, <2>3, PageIsFirstRows
    <2>5. ExactPage'
      BY <1>1, <1>2, <1>5, <2>4 DEF ExactPage, Wanted
    <2>6. pc' = "answer"
      BY <1>1, <1>11
    <2>7. WalkSoFar'
      BY <1>1, <2>6, WalkKept DEF Exact
    <2>8. QED
      BY <2>5, <2>6, <2>7 DEF Exact, BrowseSoFar, CandidatesSoFar, RangeSoFar, AnswerIsExact
  <1>12. CASE ~IsLastId(cursor)
    <2>1. cursor' = cursor + 1 /\ pc' = "browse"
      BY <1>1, <1>12 DEF IsLastId, RowAfter
    <2>2. {m \in Wanted : m < cursor'} = B
      <3>1. \A m \in Wanted : m \in Int /\ cursor \in Int
        BY <1>3, <1>4, RowIdSets
      <3>2. QED BY <2>1, <3>1
    <2>3. out' = Ascending({m \in Wanted' : m < cursor'})
      <3>1. out' = Ascending(ToSet(out'))
        BY <1>9, <1>10, IncreasingPage
      <3>2. ToSet(out') = {m \in Wanted' : m < cursor'}
        BY <1>2, <1>9, <2>2
      <3>3. QED BY <3>1, <3>2
    <2>4. after' < cursor'
      <3>1. after \in Int /\ cursor \in Int
        BY <1>3, <1>4, RowIdNumbers DEF TypeOK
      <3>2. QED BY <1>1, <1>5, <2>1, <3>1
    <2>5. BrowseSoFar'
      BY <1>1, <1>2, <1>5, <2>3, <2>4 DEF BrowseSoFar
    <2>6. WalkSoFar'
      BY <1>1, <2>1, WalkKept DEF Exact
    <2>7. QED
      BY <2>1, <2>5, <2>6 DEF Exact, CandidatesSoFar, RangeSoFar, AnswerIsExact
  <1>13. QED BY <1>11, <1>12

(* Browsing ends with a full page or all rows.                             *)
LEMMA BrowseEndsExact ==
    ASSUME Typed, Exact, BrowseEnds
    PROVE  Exact'
  <1>1. /\ table' = table /\ request' = request /\ after' = after
        /\ returned' = returned /\ steady' = steady /\ hits' = hits /\ out' = out
        /\ pc = "browse" /\ (cursor > top \/ Len(out) = request.limit) /\ pc' = "answer"
    BY DEF BrowseEnds, data, walk, query, PageIsFull
  <1>2. Wanted' = Wanted /\ Matching(table, request)' = Matching(table, request)
    BY <1>1, SameData
  <1>3. TypeOK /\ Wanted \subseteq RowIds
    BY TableRows DEF Typed
  <1> DEFINE A == {m \in Wanted : m < cursor}
  <1>4. out = Ascending(A) /\ hits = Cardinality(Matching(table, request)) /\ A \subseteq RowIds
    BY <1>1, <1>3 DEF Exact, BrowseSoFar
  <1>5. Increasing(out) /\ ToSet(out) = A /\ out \in Seq(RowIds)
    BY <1>4, AscendingPage
  <1>6. \A x \in A, y \in Wanted : y < x => y \in A
    <2>1. \A m \in Wanted : m \in Int
      BY <1>3, RowIdSets
    <2>2. cursor \in Int
      BY <1>3, RowIdNumbers DEF TypeOK
    <2>3. QED BY <2>1, <2>2
  <1>7. cursor > top => A = Wanted
    <2>1. top \in Int /\ cursor \in Int
      BY <1>3, RowIdNumbers DEF TypeOK
    <2>2. Wanted \subseteq 0..top
      BY <1>3 DEF Wanted, Above, Matching, TypeOK
    <2>3. \A m \in Wanted : cursor > top => m < cursor
      BY <2>1, <2>2
    <2>4. QED BY <2>3
  <1>8. Len(out) <= request.limit /\ request.limit \in Nat
    BY <1>1, <1>3, ConstantsAssumption DEF TypeOK
  <1>9. out = FirstRows(request.limit, Wanted)
    <2> HIDE DEF A
    <2>1. ToSet(out) \subseteq Wanted /\ \A x \in ToSet(out), y \in Wanted : y < x => y \in ToSet(out)
      BY <1>5, <1>6 DEF A
    <2>2. ToSet(out) = Wanted \/ Len(out) = request.limit
      BY <1>1, <1>5, <1>7
    <2>3. QED BY <1>3, <1>5, <1>8, <2>1, <2>2, PageIsFirstRows
  <1>10. ExactPage'
    BY <1>1, <1>2, <1>4, <1>9 DEF ExactPage, Wanted
  <1>11. WalkSoFar'
    BY <1>1, WalkKept DEF Exact
  <1>12. QED
    BY <1>1, <1>10, <1>11 DEF Exact, BrowseSoFar, CandidatesSoFar, RangeSoFar, AnswerIsExact

(* Candidates: a batch adds the rows between two cursors that match.       *)
LEMMA BatchExact ==
    ASSUME Typed, Exact, AsksNoLiteral, CandidateBatch
    PROVE  Exact'
  <1>1. /\ table' = table /\ request' = request /\ after' = after
        /\ returned' = returned /\ steady' = steady /\ pc = "candidate"
    BY DEF CandidateBatch, data, walk
  <1>2. Wanted' = Wanted /\ Matching(table, request)' = Matching(table, request)
    BY <1>1, SameData
  <1> DEFINE M == Matching(table, request)
             E == EqualityRows(Equalities)
             P == {m \in Wanted : m <= cursor}
             D == {m \in Wanted : m \in Accepted}
             H == {m \in M : m <= cursor}
  <1>3. TypeOK /\ M \subseteq RowIds /\ E \subseteq RowIds /\ Wanted \subseteq M
    BY TableRows DEF Typed
  <1>4. cursor \in Int /\ \A m \in RowIds : m \in Int
    BY <1>3, RowIdNumbers DEF TypeOK
  <1>5. /\ Candidates \subseteq RowIds /\ Accepted \subseteq Candidates
        /\ Cardinality(Candidates) \in Nat /\ Cardinality(Accepted) \in Nat
        /\ hits' = hits + Cardinality(Accepted) /\ out' = out \o Fitting(Accepted)
        /\ \/ /\ Cardinality(Candidates) < Batch /\ pc' = "answer" /\ cursor' = cursor
           \/ /\ Cardinality(Candidates) >= Batch /\ pc' = pc /\ cursor' = Max(Candidates)
              /\ Candidates # {} /\ cursor' \in RowIds
    BY <1>3, BatchStep
  <1>6. /\ out = FirstRows(request.limit, P) /\ hits = Cardinality(H)
        /\ request.limit \in Nat
    BY <1>1, <1>3, ConstantsAssumption DEF Exact, CandidatesSoFar, TypeOK
  <1>7. /\ Candidates \subseteq Above(E, cursor)
        /\ Cardinality(Candidates) < Batch => Candidates = Above(E, cursor)
        /\ \A x \in Candidates, y \in Above(E, cursor) : y < x => y \in Candidates
    <2>1. IdSet(Above(E, cursor))
      BY <1>3, RowIdSets DEF Above
    <2>2. QED BY <2>1, SmallestCut, ConstantsAssumption DEF Candidates
  <1>8. M \subseteq E /\ \A id \in Candidates : id \in Accepted <=> id \in M
    <2>1. M \subseteq E
      BY EqualityIsExact
    <2>2. E \subseteq DOMAIN table /\ Candidates \subseteq E
      BY <1>7 DEF EqualityRows, Above
    <2>3. QED BY <2>1, <2>2 DEF Accepted, Matching
  <1>9. \A m \in M : m \in Above(E, cursor) <=> cursor < m
    BY <1>3, <1>4, <1>8 DEF Above
  <1>10. Accepted \subseteq M /\ \A m \in Accepted : cursor < m
    <2>1. Accepted \subseteq M
      BY <1>5, <1>8
    <2>2. QED BY <1>5, <1>7, <1>9, <2>1
  <1>11. Above(Accepted, after) = D
    BY <1>10 DEF Wanted, Above
  <1>12. /\ P \subseteq RowIds /\ D \subseteq RowIds /\ H \subseteq RowIds /\ Accepted \subseteq RowIds
         /\ \A x \in P, y \in D : x < y
         /\ \A x \in H, y \in Accepted : x < y
    <2>1. P \subseteq RowIds /\ D \subseteq RowIds /\ H \subseteq RowIds /\ Accepted \subseteq RowIds
      BY <1>3, <1>5
    <2>2. \A x \in RowIds, y \in RowIds : x <= cursor /\ cursor < y => x < y
      BY <1>4
    <2>3. QED BY <1>10, <2>1, <2>2
  <1>13. out' = FirstRows(request.limit, P \cup D)
    <2> DEFINE K == Smallest(request.limit, P)
               missing == request.limit - Cardinality(K)
    <2>1. IdSet(P) /\ IdSet(D)
      BY <1>12, RowIdSets
    <2>2. Ascending(K) \o Ascending(Smallest(missing, D)) = Ascending(Smallest(request.limit, P \cup D))
      BY <1>6, <1>12, <2>1, SmallestJoined
    <2>3. out = Ascending(K) /\ Len(out) = Cardinality(K)
      BY <1>6, <1>12, FirstRowsTyped DEF FirstRows
    <2>4. Fitting(Accepted) = Ascending(Smallest(missing, D))
      BY <1>11, <2>3 DEF Fitting, FirstRows
    <2> HIDE DEF K, missing
    <2>5. QED BY <1>5, <2>2, <2>3, <2>4 DEF FirstRows
  <1>14. hits' = Cardinality(H \cup Accepted)
    <2>1. IdSet(H) /\ IdSet(Accepted)
      BY <1>12, RowIdSets
    <2>2. Cardinality(H \cup Accepted) = Cardinality(H) + Cardinality(Accepted)
      BY <1>12, <2>1, AscendingJoined
    <2>3. QED BY <1>5, <1>6, <2>2
  <1>15. CASE Cardinality(Candidates) < Batch
    <2>1. pc' = "answer"
      BY <1>5, <1>15, ConstantsAssumption
    <2>2. \A m \in M : m \in Accepted <=> cursor < m
      BY <1>7, <1>8, <1>9, <1>10, <1>15
    <2>3. \A m \in M : m <= cursor \/ m \in Accepted
      BY <1>3, <1>4, <2>2
    <2>4. P \cup D = Wanted /\ H \cup Accepted = M
      BY <1>3, <1>10, <2>3
    <2>5. ExactPage'
      <3>1. out' = FirstRows(request'.limit, Wanted')
        BY <1>1, <1>2, <1>13, <2>4
      <3>2. hits' = Cardinality(Matching(table, request)')
        BY <1>2, <1>14, <2>4
      <3>3. QED BY <3>1, <3>2 DEF ExactPage, Wanted
    <2>6. WalkSoFar'
      BY <1>1, <2>1, WalkKept DEF Exact
    <2>7. QED
      BY <2>1, <2>5, <2>6 DEF Exact, BrowseSoFar, CandidatesSoFar, RangeSoFar, AnswerIsExact
  <1>16. CASE Cardinality(Candidates) >= Batch
    <2>1. pc' = "candidate" /\ cursor' = Max(Candidates) /\ Candidates # {} /\ cursor' \in RowIds
      BY <1>1, <1>5, <1>16, ConstantsAssumption
    <2>2. cursor' \in Candidates /\ \A x \in Candidates : x <= cursor'
      BY <1>5, <2>1, LargestRow
    <2>3. cursor < cursor' /\ cursor' \in Int
      BY <1>4, <1>7, <2>1, <2>2 DEF Above
    <2>4. \A m \in M : m <= cursor' <=> (m <= cursor \/ m \in Accepted)
      <3> TAKE m \in M
      <3>1. m \in Int
        BY <1>3, <1>4
      <3>2. m \in Accepted => m <= cursor'
        BY <1>5, <2>2
      <3>3. m <= cursor => m <= cursor'
        BY <1>4, <2>3, <3>1
      <3>4. ASSUME m <= cursor', ~(m <= cursor) PROVE m \in Accepted
        <4>1. m \in Above(E, cursor)
          BY <1>4, <1>9, <3>1, <3>4
        <4>2. m < cursor' \/ m = cursor'
          BY <2>3, <3>1, <3>4
        <4>3. m \in Candidates
          BY <1>7, <2>2, <4>1, <4>2
        <4>4. QED BY <1>8, <4>3
      <3>5. QED BY <3>2, <3>3, <3>4
    <2>5. P \cup D = {m \in Wanted : m <= cursor'} /\ H \cup Accepted = {m \in M : m <= cursor'}
      BY <1>3, <1>10, <2>4
    <2>6. CandidatesSoFar'
      <3>1. out' = FirstRows(request'.limit, {m \in Wanted' : m <= cursor'})
        BY <1>1, <1>2, <1>13, <2>5
      <3>2. hits' = Cardinality({m \in Matching(table, request)' : m <= cursor'})
        BY <1>2, <1>14, <2>5
      <3>3. QED BY <3>1, <3>2 DEF CandidatesSoFar
    <2>7. WalkSoFar'
      BY <1>1, <2>1, WalkKept DEF Exact
    <2>8. QED
      BY <2>1, <2>6, <2>7 DEF Exact, BrowseSoFar, RangeSoFar, AnswerIsExact
  <1>17. QED
    BY <1>5, <1>15, <1>16

(* A page that is taken from all matching rows at once.                    *)
LEMMA WholePageExact ==
    ASSUME Typed, Exact, AsksNoLiteral, EqualityPage \/ Scan
    PROVE  Exact'
  <1>1. /\ table' = table /\ request' = request /\ after' = after
        /\ returned' = returned /\ steady' = steady /\ pc \in {"equality", "scan"} /\ pc' = "answer"
    BY DEF EqualityPage, Scan, data, walk
  <1>2. Wanted' = Wanted /\ Matching(table, request)' = Matching(table, request)
    BY <1>1, SameData
  <1>3. TypeOK /\ Routed /\ out = <<>>
    BY <1>1 DEF Typed, Routed
  <1>4. pc = "equality" => EqualityRows(request.filters) = Matching(table, request)
    BY <1>3, EqualityIsExact DEF Routed
  <1>5. /\ out' = Fitting(Matching(table, request))
        /\ hits' = Cardinality(Matching(table, request))
    BY <1>4 DEF EqualityPage, Scan
  <1>6. request.limit - Len(out) = request.limit
    BY <1>1, <1>3, EmptyPage
  <1>7. ExactPage'
    BY <1>1, <1>2, <1>5, <1>6 DEF ExactPage, Fitting, Wanted
  <1>8. WalkSoFar'
    BY <1>1, WalkKept DEF Exact
  <1>9. QED
    BY <1>1, <1>7, <1>8 DEF Exact, BrowseSoFar, CandidatesSoFar, RangeSoFar, AnswerIsExact

(* The range: the heads of the streams are the first wanted rows.          *)
LEMMA ProbeExact ==
    ASSUME Typed, Exact, AsksNoLiteral, ProbeRange
    PROVE  Exact'
  <1>1. /\ table' = table /\ request' = request /\ after' = after
        /\ returned' = returned /\ steady' = steady /\ out' = out
        /\ pc = "probe" /\ pc' = "range"
    BY DEF ProbeRange, data, walk
  <1>2. /\ Wanted' = Wanted /\ Matching(table, request)' = Matching(table, request)
        /\ \A v : Stream(v)' = Stream(v)
    BY <1>1, SameData
  <1>3. TypeOK /\ out' = <<>>
    BY <1>1 DEF Typed, Routed
  <1>4. PICK f \in request.filters :
          /\ request.filters = {f} /\ f.op = "range" /\ f.column \in Columns
          /\ f.gte \in Int /\ f.lte \in Int /\ Open \notin {f.gte, f.lte}
          /\ DOMAIN heads' = f.gte..f.lte
          /\ \A v \in f.gte..f.lte : heads'[v] = FirstAbove(v, after)
          /\ hits' = Cardinality(Hits(f))
    BY ProbeStep
  <1>5. /\ \A v \in f.gte..f.lte : \A id : id \in Stream(v) <=>
             id \in Matching(table, request) /\ table[id][f.column] = v
        /\ \A id \in Matching(table, request) :
             table[id][f.column] \in f.gte..f.lte /\ id \in Stream(table[id][f.column])
        /\ Cardinality(Hits(f)) = Cardinality(Matching(table, request))
    BY <1>3, <1>4, StreamsAreExact
  <1>6. hits' = Cardinality(Matching(table, request)')
    BY <1>2, <1>4, <1>5
  <1>7. Increasing(out') /\ ToSet(out') = {}
    BY <1>3, NoRows
  <1>8. ASSUME NEW m \in Wanted
        PROVE  \E v \in DOMAIN heads' : m \in Stream(v) /\ heads'[v] # NoRow /\ heads'[v] <= m
    <2> DEFINE v == table[m][f.column]
    <2>1. m \in Matching(table, request) /\ m > after
      BY DEF Wanted, Above
    <2>2. v \in f.gte..f.lte /\ m \in Stream(v)
      BY <1>5, <2>1
    <2> HIDE DEF v
    <2>3. heads'[v] = FirstAbove(v, after) /\ v \in DOMAIN heads'
      BY <1>4, <2>2
    <2>4. FirstAbove(v, after) # NoRow /\ FirstAbove(v, after) <= m
      BY <1>3, <2>1, <2>2, HeadOfStream
    <2>5. QED BY <2>2, <2>3, <2>4
  <1>9. ASSUME NEW v \in DOMAIN heads', heads'[v] # NoRow
        PROVE  heads'[v] \in Stream(v) \cap Wanted
    <2>1. v \in f.gte..f.lte /\ heads'[v] = FirstAbove(v, after)
      BY <1>4
    <2>2. heads'[v] \in Stream(v) /\ heads'[v] > after
      BY <1>3, <1>9, <2>1, HeadOfStream
    <2>3. heads'[v] \in Matching(table, request)
      BY <1>5, <2>1, <2>2
    <2>4. QED BY <2>2, <2>3 DEF Wanted, Above
  <1>10. \E g \in request'.filters : DOMAIN heads' = g.gte..g.lte
    BY <1>1, <1>4
  <1>11. RangeSoFar'
    <2>1. \A m \in Wanted' \ ToSet(out') :
             \E v \in DOMAIN heads' : m \in Stream(v)' /\ heads'[v] # NoRow /\ heads'[v] <= m
      BY <1>2, <1>7, <1>8
    <2>2. \A v \in DOMAIN heads' : heads'[v] # NoRow =>
             /\ heads'[v] \in Stream(v)' \cap Wanted'
             /\ \A x \in ToSet(out') : x < heads'[v]
      BY <1>2, <1>7, <1>9
    <2>3. QED BY <1>6, <1>7, <1>10, <2>1, <2>2 DEF RangeSoFar
  <1>12. WalkSoFar'
    BY <1>1, WalkKept DEF Exact
  <1>13. QED
    BY <1>1, <1>11, <1>12 DEF Exact, BrowseSoFar, CandidatesSoFar, AnswerIsExact

(* The range: the smallest head is the next wanted row.                    *)
LEMMA PopExact ==
    ASSUME Typed, Exact, AsksNoLiteral, PopRange
    PROVE  Exact'
  <1>1. /\ table' = table /\ request' = request /\ after' = after
        /\ returned' = returned /\ steady' = steady /\ hits' = hits
        /\ pc = "range" /\ pc' = "range"
    BY DEF PopRange, data, walk
  <1>2. /\ Wanted' = Wanted /\ Matching(table, request)' = Matching(table, request)
        /\ \A u : Stream(u)' = Stream(u)
    BY <1>1, SameData
  <1>3. TypeOK /\ out \in Seq(RowIds) /\ Wanted \subseteq RowIds
    BY TableRows DEF Typed, TypeOK
  <1>4. PICK v \in DOMAIN heads :
          /\ heads[v] \in RowIds
          /\ \A u \in DOMAIN heads : heads[u] = NoRow \/ heads[v] <= heads[u]
          /\ out' = Append(out, heads[v])
          /\ DOMAIN heads' = DOMAIN heads /\ heads'[v] = FirstAbove(v, heads[v])
          /\ \A u \in DOMAIN heads \ {v} : heads'[u] = heads[u]
    BY <1>3, PopStep
  <1> DEFINE x0 == heads[v]
  <1>5. /\ hits = Cardinality(Matching(table, request))
        /\ Increasing(out) /\ ToSet(out) \subseteq Wanted
        /\ \A m \in Wanted \ ToSet(out) :
             \E u \in DOMAIN heads : m \in Stream(u) /\ heads[u] # NoRow /\ heads[u] <= m
        /\ \A u \in DOMAIN heads : heads[u] # NoRow =>
             /\ heads[u] \in Stream(u) \cap Wanted
             /\ \A x \in ToSet(out) : x < heads[u]
        /\ \E g \in request.filters : DOMAIN heads = g.gte..g.lte
    BY <1>1 DEF Exact, RangeSoFar
  <1>6. x0 # NoRow /\ x0 \in RowIds
    BY <1>4, RowIdNumbers
  <1>7. /\ x0 \in Stream(v) /\ x0 \in Wanted /\ \A x \in ToSet(out) : x < x0
    BY <1>5, <1>6
  <1>8. \A u \in DOMAIN heads : \A id : id \in Stream(u) =>
           id \in Matching(table, request) /\ (id \in Stream(v) => u = v)
    <2>1. PICK f \in request.filters :
             /\ request.filters = {f} /\ f.op = "range" /\ f.column \in Columns
             /\ f.gte \in Int /\ f.lte \in Int /\ Open \notin {f.gte, f.lte}
      <3>1. request \in Requests /\ NarrowRange /\ IsValid(request)
        BY <1>1 DEF Typed, TypeOK, Routed, Routes
      <3>2. QED BY <3>1, TheRange
    <2>2. DOMAIN heads = f.gte..f.lte
      BY <1>5, <2>1
    <2>3. \A u \in f.gte..f.lte : \A id : id \in Stream(u) <=>
             id \in Matching(table, request) /\ table[id][f.column] = u
      BY <1>3, <2>1, StreamsAreExact
    <2>4. QED BY <2>2, <2>3
  <1>9. /\ Increasing(out') /\ ToSet(out') = ToSet(out) \cup {x0}
    BY <1>3, <1>4, <1>5, <1>6, <1>7, RowAppended
  <1> HIDE DEF x0
  <1>10. /\ FirstAbove(v, x0) # NoRow => FirstAbove(v, x0) \in Stream(v) /\ FirstAbove(v, x0) > x0
         /\ FirstAbove(v, x0) \in RowIds \cup {NoRow}
         /\ \A m \in Stream(v) : m > x0 => FirstAbove(v, x0) # NoRow /\ FirstAbove(v, x0) <= m
    BY <1>3, HeadOfStream
  <1>11. heads[v] = x0 /\ heads'[v] = FirstAbove(v, x0)
    BY <1>4 DEF x0
  <1>12. after \in Int /\ x0 \in Int /\ after < x0
    BY <1>3, <1>6, <1>7, RowIdNumbers DEF TypeOK, Wanted, Above
  <1>13. ASSUME NEW m \in Wanted, m \notin ToSet(out')
         PROVE  \E u \in DOMAIN heads' : m \in Stream(u) /\ heads'[u] # NoRow /\ heads'[u] <= m
    <2>1. PICK u \in DOMAIN heads : m \in Stream(u) /\ heads[u] # NoRow /\ heads[u] <= m
      BY <1>5, <1>9, <1>13
    <2>2. CASE u # v
      BY <1>4, <2>1, <2>2
    <2>3. CASE u = v
      <3>1. m # x0 /\ x0 <= m /\ m \in Int
        BY <1>3, <1>9, <1>11, <1>13, <2>1, <2>3, RowIdNumbers
      <3>2. m > x0
        BY <1>12, <3>1
      <3>3. FirstAbove(v, x0) # NoRow /\ FirstAbove(v, x0) <= m
        BY <1>10, <2>1, <2>3, <3>2
      <3>4. QED BY <1>4, <1>11, <2>1, <2>3, <3>3
    <2>4. QED BY <2>2, <2>3
  <1>14. ASSUME NEW u \in DOMAIN heads', heads'[u] # NoRow
         PROVE  heads'[u] \in Stream(u) \cap Wanted /\ \A x \in ToSet(out') : x < heads'[u]
    <2>0. u \in DOMAIN heads
      BY <1>4
    <2>1. CASE u = v
      <3> DEFINE y == FirstAbove(v, x0)
      <3>1. heads'[u] = y /\ y # NoRow
        BY <1>11, <1>14, <2>1
      <3>2. y \in Stream(v) /\ y > x0 /\ y \in RowIds
        BY <1>10, <3>1
      <3> HIDE DEF y
      <3>3. y \in Int
        BY <3>2, RowIdNumbers
      <3>4. y \in Wanted
        <4>1. y \in Matching(table, request)
          BY <1>8, <2>0, <2>1, <3>2
        <4>2. y > after
          BY <1>12, <3>2, <3>3
        <4>3. QED BY <4>1, <4>2 DEF Wanted, Above
      <3>5. \A x \in ToSet(out') : x < y
        <4>1. \A x \in ToSet(out) : x \in Int /\ x < x0
          BY <1>3, <1>5, <1>7, RowIdNumbers
        <4>2. \A x \in ToSet(out) : x < y
          BY <1>12, <3>2, <3>3, <4>1
        <4>3. QED BY <1>9, <3>2, <3>3, <1>12, <4>2
      <3>6. QED BY <2>1, <3>1, <3>2, <3>4, <3>5
    <2>2. CASE u # v
      <3>1. heads'[u] = heads[u] /\ heads[u] # NoRow
        BY <1>4, <1>14, <2>0, <2>2
      <3>2. heads[u] \in Stream(u) /\ heads[u] \in Wanted /\ \A x \in ToSet(out) : x < heads[u]
        BY <1>5, <2>0, <3>1
      <3>3. x0 <= heads[u] /\ heads[u] \in Int
        BY <1>3, <1>4, <1>11, <2>0, <3>1, <3>2, RowIdNumbers
      <3>4. heads[u] # x0
        BY <1>7, <1>8, <2>0, <2>2, <3>2
      <3>5. x0 < heads[u]
        BY <1>12, <3>3, <3>4
      <3>6. QED BY <1>9, <3>1, <3>2, <3>5
    <2>3. QED BY <2>1, <2>2
  <1>15. RangeSoFar'
    <2>1. ToSet(out') \subseteq Wanted' /\ hits' = Cardinality(Matching(table, request)')
      BY <1>1, <1>2, <1>5, <1>7, <1>9
    <2>2. \A m \in Wanted' \ ToSet(out') :
             \E u \in DOMAIN heads' : m \in Stream(u)' /\ heads'[u] # NoRow /\ heads'[u] <= m
      BY <1>2, <1>13
    <2>3. \A u \in DOMAIN heads' : heads'[u] # NoRow =>
             /\ heads'[u] \in Stream(u)' \cap Wanted'
             /\ \A x \in ToSet(out') : x < heads'[u]
      BY <1>2, <1>14
    <2>4. \E g \in request'.filters : DOMAIN heads' = g.gte..g.lte
      BY <1>1, <1>4, <1>5
    <2>5. QED BY <1>9, <2>1, <2>2, <2>3, <2>4 DEF RangeSoFar
  <1>16. WalkSoFar'
    BY <1>1, WalkKept DEF Exact
  <1>17. QED
    BY <1>1, <1>15, <1>16 DEF Exact, BrowseSoFar, CandidatesSoFar, AnswerIsExact

(* The range ends with a full page or all streams at their end.            *)
LEMMA RangeEndsExact ==
    ASSUME Typed, Exact, RangeEnds
    PROVE  Exact'
  <1>1. /\ table' = table /\ request' = request /\ after' = after
        /\ returned' = returned /\ steady' = steady /\ hits' = hits /\ out' = out
        /\ pc = "range" /\ pc' = "answer"
        /\ Len(out) = request.limit \/ \A v \in DOMAIN heads : heads[v] = NoRow
    BY DEF RangeEnds, data, walk, query, PageIsFull
  <1>2. Wanted' = Wanted /\ Matching(table, request)' = Matching(table, request)
    BY <1>1, SameData
  <1>3. TypeOK /\ out \in Seq(RowIds) /\ Wanted \subseteq RowIds
    BY TableRows DEF Typed, TypeOK
  <1>4. /\ hits = Cardinality(Matching(table, request))
        /\ Increasing(out) /\ ToSet(out) \subseteq Wanted
        /\ \A m \in Wanted \ ToSet(out) :
             \E u \in DOMAIN heads : m \in Stream(u) /\ heads[u] # NoRow /\ heads[u] <= m
        /\ \A u \in DOMAIN heads : heads[u] # NoRow =>
             /\ heads[u] \in Stream(u) \cap Wanted
             /\ \A x \in ToSet(out) : x < heads[u]
    BY <1>1 DEF Exact, RangeSoFar
  <1>5. ASSUME NEW x \in ToSet(out), NEW y \in Wanted, y < x, y \notin ToSet(out)
        PROVE  FALSE
    <2>1. PICK u \in DOMAIN heads : heads[u] # NoRow /\ heads[u] <= y
      BY <1>4, <1>5
    <2>2. x < heads[u] /\ heads[u] \in Wanted
      BY <1>4, <2>1
    <2>3. x \in Int /\ y \in Int /\ heads[u] \in Int
      BY <1>3, <1>4, <2>2, RowIdNumbers
    <2>4. QED BY <1>5, <2>1, <2>2, <2>3
  <1>6. ToSet(out) = Wanted \/ Len(out) = request.limit
    BY <1>1, <1>4
  <1>7. Len(out) <= request.limit /\ request.limit \in Nat
    BY <1>1, <1>3, ConstantsAssumption DEF TypeOK
  <1>8. out = FirstRows(request.limit, Wanted)
    BY <1>3, <1>4, <1>5, <1>6, <1>7, PageIsFirstRows
  <1>9. ExactPage'
    BY <1>1, <1>2, <1>4, <1>8 DEF ExactPage, Wanted
  <1>10. WalkSoFar'
    BY <1>1, WalkKept DEF Exact
  <1>11. QED
    BY <1>1, <1>9, <1>10 DEF Exact, BrowseSoFar, CandidatesSoFar, RangeSoFar, AnswerIsExact

(* The client's next page: what it has are the rows up to its new cursor.  *)
LEMMA AnswerExact ==
    ASSUME Typed, Exact, Answer
    PROVE  Exact'
  <1>1. /\ table' = table /\ request' = request /\ steady' = steady
        /\ returned' = returned \o out /\ after' = NextCursor
        /\ pc = "answer" /\ pc' = IF NextCursor = NoRow THEN "done" ELSE "between"
    BY DEF Answer, data
  <1>2. Matching(table, request)' = Matching(table, request)
    BY <1>1, SameData
  <1>3. /\ TypeOK /\ IsValid(request) /\ out \in Seq(RowIds) /\ returned \in Seq(RowIds)
        /\ Wanted \subseteq RowIds /\ Matching(table, request) \subseteq RowIds
        /\ top \in RowIds /\ DOMAIN table \subseteq 0..top
    BY <1>1, TableRows DEF Typed, TypeOK, Routed
  <1>4. request.limit \in Nat /\ pc # "idle"
    BY <1>1, <1>3, ConstantsAssumption DEF TypeOK
  <1> DEFINE K == Smallest(request.limit, Wanted)
  <1>5. out = FirstRows(request.limit, Wanted)
    BY <1>1 DEF Exact, AnswerIsExact, ExactPage, Wanted
  <1>6. Increasing(out) /\ ToSet(out) = K /\ Len(out) = Cardinality(K)
    BY <1>3, <1>4, <1>5, FirstRowsTyped
  <1>7. /\ K \subseteq Wanted /\ (Cardinality(K) < request.limit => K = Wanted)
        /\ \A x \in K, y \in Wanted : y < x => y \in K
    BY <1>3, <1>4, RowIdSets, SmallestCut
  <1> HIDE DEF K
  <1>8. after \in Int /\ \A x \in RowIds : x \in Int
    BY <1>3, RowIdNumbers DEF TypeOK
  <1>9. /\ Increasing(returned) /\ steady \subseteq Matching(table, request)
        /\ \A x \in ToSet(returned) : x <= after
        /\ \A m \in steady : m <= after => m \in ToSet(returned)
    BY <1>1 DEF Exact, WalkSoFar
  <1>10. \A y \in Wanted : y > after
    BY DEF Wanted, Above
  <1>11. ToSet(returned) \subseteq RowIds
    BY <1>3, <1>9, IncreasingPage
  <1>12. Increasing(returned') /\ ToSet(returned') = ToSet(returned) \cup K
    <2>1. \A x \in ToSet(returned), y \in ToSet(out) : x < y
      <3> SUFFICES ASSUME NEW x \in ToSet(returned), NEW y \in ToSet(out) PROVE x < y
        OBVIOUS
      <3>1. x <= after /\ y > after /\ x \in Int /\ y \in Int
        BY <1>3, <1>6, <1>7, <1>8, <1>9, <1>10, <1>11
      <3>2. QED BY <1>8, <3>1
    <2>2. QED BY <1>1, <1>3, <1>6, <1>9, <2>1, PageJoined
  <1>13. \A m \in steady : m <= after \/ m \in Wanted
    <2> TAKE m \in steady
    <2>1. m \in Matching(table, request) /\ m \in Int
      BY <1>3, <1>8, <1>9
    <2>2. QED BY <1>8, <2>1 DEF Wanted, Above
  <1>14. CASE NextCursor # NoRow
    <2> DEFINE c == out[Len(out)]
    <2>1. /\ Len(out) \in DOMAIN out /\ after' = c /\ c \in RowIds
          /\ request.filters = {} => c < top
      BY <1>1, <1>3, <1>4, <1>14, CursorTyped
    <2>2. c \in K
      BY <1>6, <2>1 DEF ToSet
    <2>3. \A x \in K : x <= c
      <3> TAKE x \in K
      <3>1. PICK i \in DOMAIN out : out[i] = x
        BY <1>6 DEF ToSet
      <3>2. DOMAIN out = 1..Len(out) /\ Len(out) \in Nat
        BY <1>3
      <3>3. i = Len(out) \/ i < Len(out)
        BY <3>2
      <3>4. x \in Int /\ c \in Int
        BY <1>3, <1>7, <1>8, <2>1
      <3>5. i < Len(out) => x < c
        BY <1>6, <2>1, <3>1 DEF Increasing
      <3>6. i = Len(out) => x = c
        BY <3>1
      <3> HIDE DEF c
      <3>7. QED BY <3>3, <3>4, <3>5, <3>6
    <2> HIDE DEF c
    <2>4. c > after /\ c \in Int
      BY <1>7, <1>8, <1>10, <2>1, <2>2
    <2>5. \A x \in ToSet(returned') : x <= after'
      <3>1. \A x \in ToSet(returned) : x <= c
        BY <1>8, <1>9, <1>11, <2>4
      <3>2. QED BY <1>12, <2>1, <2>3, <3>1
    <2>6. ASSUME NEW m \in steady, m <= after'
          PROVE  m \in ToSet(returned')
      <3>1. CASE m <= after
        BY <1>9, <1>12, <3>1
      <3>2. CASE m \in Wanted
        <4>1. m \in Int
          BY <1>3, <1>8, <3>2
        <4>2. m = c \/ m < c
          BY <2>1, <2>4, <2>6, <4>1
        <4>3. m \in K
          BY <1>7, <2>2, <3>2, <4>2
        <4>4. QED BY <1>12, <4>3
      <3>3. QED BY <1>13, <3>1, <3>2
    <2>7. request'.filters = {} => after' < U64Max
      BY <1>1, <1>3, <2>1, <2>4, RowIdNumbers, ConstantsAssumption DEF RowIds
    <2>8. pc' = "between"
      BY <1>1, <1>14
    <2>9. steady' \subseteq Matching(table, request)'
      BY <1>1, <1>2, <1>9
    <2>10. WalkSoFar'
      BY <1>1, <1>12, <2>5, <2>6, <2>7, <2>8, <2>9 DEF WalkSoFar
    <2>11. QED
      BY <2>8, <2>10 DEF Exact, BrowseSoFar, CandidatesSoFar, RangeSoFar, AnswerIsExact
  <1>15. CASE NextCursor = NoRow
    <2>1. pc' = "done" /\ after' = NoRow
      BY <1>1, <1>15
    <2>2. Wanted \subseteq K
      <3>1. CASE Len(out) < request.limit
        BY <1>6, <1>7, <3>1
      <3>2. CASE request.filters = {} /\ Len(out) \in DOMAIN out /\ ~(out[Len(out)] < top)
        <4> DEFINE c == out[Len(out)]
        <4>1. c \in K
          BY <1>6, <3>2 DEF ToSet
        <4>2. c \in Int /\ top \in Int /\ ~(c < top)
          BY <1>3, <1>7, <1>8, <3>2, <4>1
        <4> HIDE DEF c
        <4>3. \A m \in Wanted : m \in Int /\ m <= top
          BY <1>3, <1>8 DEF Wanted, Above, Matching
        <4>4. \A m \in Wanted : m = c \/ m < c
          BY <4>2, <4>3
        <4>5. QED BY <1>7, <4>1, <4>4
      <3>3. QED BY <1>3, <1>4, <1>15, <3>1, <3>2, CursorTyped
    <2>3. steady' \subseteq ToSet(returned')
      BY <1>1, <1>9, <1>12, <1>13, <2>2
    <2>4. steady' \subseteq Matching(table, request)'
      BY <1>1, <1>2, <1>9
    <2>5. after' < U64Max
      BY <2>1, ConstantsAssumption DEF NoRow
    <2>6. WalkSoFar'
      BY <1>12, <2>1, <2>3, <2>4, <2>5 DEF WalkSoFar
    <2>7. QED
      BY <2>1, <2>6 DEF Exact, BrowseSoFar, CandidatesSoFar, RangeSoFar, AnswerIsExact
  <1>16. QED BY <1>14, <1>15

(* A query that fails leaves the walk where it was.                        *)
LEMMA FailsExact ==
    ASSUME Exact, QueryFails \/ Refused, pc' # "idle"
    PROVE  Exact'
  <1>1. /\ table' = table /\ request' = request /\ steady' = steady
        /\ returned' = returned /\ after' = after
        /\ pc \in Routes \cup {"between"} /\ pc' = "between"
    BY DEF QueryFails, Refused, data, walk
  <1>2. WalkSoFar'
    BY <1>1, WalkKept DEF Exact, Routes
  <1>3. QED
    BY <1>1, <1>2 DEF Exact, BrowseSoFar, CandidatesSoFar, RangeSoFar, AnswerIsExact

----------------------------------------------------------------------------
(* The invariant holds.                                                    *)

(* Every step keeps the invariant.                                         *)
LEMMA NextKeepsInv == Inv /\ [Next]_vars => Inv'
  <1> SUFFICES ASSUME Inv, [Next]_vars PROVE Inv'
    OBVIOUS
  <1>1. Typed /\ Typed'
    BY NextTyped DEF Inv
  <1> SUFFICES ASSUME pc' # "idle", AsksNoLiteral' PROVE Exact'
    BY <1>1 DEF Inv
  <1>2. ASSUME NEW r \in Requests, StartWalk(r) PROVE Exact'
    BY <1>1, <1>2, StartExact
  <1>3. ASSUME request' = request, pc # "idle" PROVE Exact /\ AsksNoLiteral
    BY <1>3, SameRequest DEF Inv
  <1>4. CASE Execute
    <2>1. request' = request /\ pc # "idle"
      BY <1>4 DEF Execute, walk
    <2>2. QED BY <1>1, <1>3, <1>4, <2>1, ExecuteExact
  <1>5. CASE Refused \/ QueryFails
    <2>1. request' = request /\ pc # "idle"
      BY <1>5 DEF Refused, QueryFails, walk, Routes
    <2>2. QED BY <1>3, <1>5, <2>1, FailsExact
  <1>6. CASE QueryStep
    <2>1. request' = request /\ pc # "idle"
      BY <1>6 DEF QueryStep, BrowseRow, BrowseEnds, EqualityPage, CandidateBatch, ProbeRange,
                  PopRange, RangeEnds, Scan, Answer, walk
    <2>2. Exact /\ AsksNoLiteral
      BY <1>3, <2>1
    <2>3. CASE BrowseRow
      BY <1>1, <2>2, <2>3, BrowseExact
    <2>4. CASE BrowseEnds
      BY <1>1, <2>2, <2>4, BrowseEndsExact
    <2>5. CASE EqualityPage \/ Scan
      BY <1>1, <2>2, <2>5, WholePageExact
    <2>6. CASE CandidateBatch
      BY <1>1, <2>2, <2>6, BatchExact
    <2>7. CASE ProbeRange
      BY <1>1, <2>2, <2>7, ProbeExact
    <2>8. CASE PopRange
      BY <1>1, <2>2, <2>8, PopExact
    <2>9. CASE RangeEnds
      BY <1>1, <2>2, <2>9, RangeEndsExact
    <2>10. CASE Answer
      BY <1>1, <2>2, <2>10, AnswerExact
    <2>11. QED
      BY <1>6, <2>3, <2>4, <2>5, <2>6, <2>7, <2>8, <2>9, <2>10 DEF QueryStep
  <1>7. CASE \/ \E row \in Rows : InsertRow(row)
             \/ \E id \in RowIds : DeleteRow(id)
             \/ \E id \in RowIds, row \in Rows : UpdateRow(id, row)
             \/ CompactTable
    <2>1. PICK tab : Write(tab)
      BY <1>1, <1>7, WriterStep
    <2>2. request' = request /\ pc # "idle"
      BY <2>1 DEF Write
    <2>3. QED BY <1>3, <2>1, <2>2, WriteExact
  <1>8. CASE UNCHANGED vars
    <2>1. /\ table' = table /\ top' = top /\ out' = out /\ hits' = hits /\ cursor' = cursor
          /\ heads' = heads /\ request' = request /\ after' = after /\ returned' = returned
          /\ steady' = steady /\ pc' = pc
      BY <1>8 DEF vars, data, query, walk
    <2>2. Exact
      BY <1>3, <2>1
    <2>3. /\ Matching(table, request)' = Matching(table, request) /\ Wanted' = Wanted
          /\ \A v : Stream(v)' = Stream(v)
      BY <2>1, SameData
    <2>4. BrowseSoFar' /\ CandidatesSoFar'
      BY <2>1, <2>2, <2>3 DEF Exact, BrowseSoFar, CandidatesSoFar
    <2>5. RangeSoFar'
      BY <2>1, <2>2, <2>3 DEF Exact, RangeSoFar
    <2>6. AnswerIsExact'
      BY <2>1, <2>2, <2>3 DEF Exact, AnswerIsExact, ExactPage
    <2>7. WalkSoFar'
      BY <2>1, <2>2, <2>3 DEF Exact, WalkSoFar
    <2>8. QED BY <2>4, <2>5, <2>6, <2>7 DEF Exact
  <1>9. QED
    BY <1>2, <1>4, <1>5, <1>6, <1>7, <1>8 DEF Next

(* The invariant holds in every state.                                     *)
LEMMA InvHolds == Spec => []Inv
  <1>1. Init => Inv
    <2>1. Init => pc = "idle"
      BY DEF Init
    <2>2. QED BY <2>1, InitTyped DEF Inv
  <1>2. Inv /\ [Next]_vars => Inv'
    BY NextKeepsInv
  <1>3. QED BY <1>1, <1>2, PTL DEF Spec

(* The variables keep their types through every route, page and write.     *)
THEOREM TypeCorrect == Spec => []TypeOK
  <1>1. Inv => TypeOK
    BY DEF Inv, Typed
  <1>2. QED BY <1>1, InvHolds, PTL

(* Whatever route execute_query takes, for every table, request and batch  *)
(* size: the page holds the next `limit` matching rows after the cursor in *)
(* row id order, and the hit count is that of the scan.                    *)
THEOREM PagesAreExact == Spec => []PageExact
  <1>1. Inv => PageExact
    BY DEF Inv, Exact, AnswerIsExact, PageExact
  <1>2. QED BY <1>1, InvHolds, PTL

(* Whatever writers do between the pages of a walk: it returns no row      *)
(* twice, in ascending order, and once it has ended it has returned every  *)
(* row that matched all along.                                             *)
THEOREM WalksAreExact == Spec => []WalkIsExact
  <1>1. Inv => WalkIsExact
    BY DEF Inv, Exact, WalkSoFar, WalkIsExact, Increasing
  <1>2. QED BY <1>1, InvHolds, PTL
=============================================================================
