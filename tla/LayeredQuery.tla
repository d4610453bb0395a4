---------------------------- MODULE LayeredQuery ----------------------------
(***************************************************************************)
(* Exact equality queries over LayeredRows (VersionedDataset's             *)
(* query_values_after and query_values_page_after in rust/src/versioned.rs *)
(* over LogicalDataset's in logical.rs): each layer answers from its own   *)
(* rows, asked for enough extra rows to make up for those an override      *)
(* hides, and the answers are filtered, merged and cut to the limit.       *)
(*                                                                         *)
(* A query is a function from some columns of the merged schema to the     *)
(* cells they must equal.  A layer's index answers a conjunction exactly;  *)
(* it is abstracted to the set of its matching rows.                       *)
(***************************************************************************)
EXTENDS LayeredRows, RowOrder, FiniteSetsExt

CONSTANT Limits  \* the page sizes asked for

ASSUME LimitsAssumption == Limits \subseteq Nat \ {0}

\* A predicate column = NULL is refused when the merged schema has no NULL there.
Queries == {q \in UNION {[C -> Cell] : C \in SUBSET LogicalCols} :
              DOMAIN q # {} /\ \A c \in DOMAIN q : q[c] = Null => c \in NullableCols}

Satisfies(row, q) == \A c \in DOMAIN q : row[c] = q[c]

\* predicates_for_layer: a layer without the column matches only NULL, and a layer
\* whose column is never NULL does not match NULL.
LayerCanMatch(i, q) ==
    \A c \in DOMAIN q :
      IF c \in Layer(i).cols THEN q[c] = Null => c \in Layer(i).nullable
                             ELSE q[c] = Null

\* LogicalDataset: the layer's rows that satisfy the predicates on columns it has.
LayerMatches(i, q) ==
    {id \in DOMAIN Layer(i).rows :
       \A c \in DOMAIN q \cap Layer(i).cols : Layer(i).rows[id][c] = q[c]}

VisibleInLayer(id, i) == id \in DOMAIN visibility => visibility[id] = i

\* hidden_row_count, hidden_match_count: rows of the layer that an override hides.
HiddenRows(i) == {id \in DOMAIN visibility : visibility[id] # i /\ Holds(i, id)}

\* Seeded fault: only tombstones hide rows of a layer, not newer versions.
HiddenByTombstone(i, q) ==
    {id \in HiddenRows(i) : /\ visibility[id] = Deleted
                            /\ Satisfies(Aligned(Layer(i).rows[id], LogicalCols), q)}

HiddenMatches(i, q) ==
    {id \in HiddenRows(i) : Satisfies(Aligned(Layer(i).rows[id], LogicalCols), q)}

\* Seeded fault: a layer is asked for no more rows than the page has.
FetchExactlyLimit(i, limit) == limit

FetchLimit(i, limit) == limit + Cardinality(HiddenRows(i))

Answering(q) == {i \in LayerIds : LayerCanMatch(i, q)}

\* LogicalDataset::query_values_after, then the visibility filter: rows of layer i
\* from the id after the cursor on, each with the layer that produced it.
LayerPage(i, q, from, limit) ==
    {<<id, i>> : id \in
       {r \in Smallest(FetchLimit(i, limit), {m \in LayerMatches(i, q) : m >= from}) :
          VisibleInLayer(r, i)}}

\* query_values_after: the merged, sorted and truncated page.
Page(q, from, limit) ==
    LET found == UNION {LayerPage(i, q, from, limit) : i \in Answering(q)}
        ids   == Smallest(limit, {f[1] : f \in found})
    IN {f \in found : f[1] \in ids}

LayerHits(i, q) ==
    LET matches == Cardinality(LayerMatches(i, q))
        hidden  == Cardinality(HiddenMatches(i, q))
    IN IF hidden > matches THEN 0 ELSE matches - hidden

\* The sum of the layers' hits, as the size of a disjoint union.
Hits(q) == Cardinality(UNION {{i} \X (1..LayerHits(i, q)) : i \in Answering(q)})

\* Seeded fault: the number of rows is taken for the highest row id.
BrowseByCount(from, limit) ==
    Smallest(limit, {id \in from..(VisibleRows - 1) : Exists(id)})

\* execute_query without filters: walk the ids after the cursor up to max_row_id.
Browse(from, limit) == Smallest(limit, {id \in from..MaxRowId : Exists(id)})

----------------------------------------------------------------------------
(* Properties: what the same query means on the table its users see.       *)

Matching(q) == {id \in VisibleIds : Satisfies(RowValues(id), q)}

\* Every page of every equality query holds exactly the next `limit` visible rows that
\* match, in id order, each in its one visible version, although each layer cut its own
\* answer before hidden versions were filtered out and layers were merged.
PagesExact ==
    \A q \in Queries, from \in RowIds, limit \in Limits :
      Page(q, from, limit) =
        {<<id, HomeLayer(id)>> :
           id \in Smallest(limit, {m \in Matching(q) : m >= from})}

\* The hit count summed over layers, each minus the matches an override hides, is the
\* number of visible rows that match.
HitsExact == \A q \in Queries : Hits(q) = Cardinality(Matching(q))

\* Browsing by row id up to max_row_id misses no visible row, and the number of hits it
\* reports, the overlay's row count, is the number of rows all its pages return.
BrowseExact ==
    /\ \A from \in RowIds, limit \in Limits :
         Browse(from, limit) = Smallest(limit, {id \in VisibleIds : id >= from})
    /\ VisibleRows = Cardinality(VisibleIds)
=============================================================================
