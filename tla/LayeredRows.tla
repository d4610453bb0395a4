---------------------------- MODULE LayeredRows ----------------------------
(***************************************************************************)
(* The rows of one table as LHR stores them (rust/src/versioned.rs,        *)
(* overlay.rs, rowids.rs, delta_mutation.rs, compaction.rs): an immutable  *)
(* base layer, immutable delta layers, a visibility map that redirects a   *)
(* logical row id to the delta layer of its newest version or to a         *)
(* tombstone, and the overlay's row count and highest row id.              *)
(*                                                                         *)
(* Writers hold the catalog's writer lock and publish by one rename        *)
(* (module Catalog), so applying a prepared transaction, an append or a    *)
(* compaction is one step here; the mutations of a transaction are         *)
(* prepared one by one, as prepare's loop does.                            *)
(***************************************************************************)
EXTENDS Naturals, Sequences, FiniteSets

CONSTANTS
    Columns,    \* every column any import may bring
    Values,     \* canonical cell values
    Null,       \* the NULL cell
    Schemas,    \* schemas an import may bring: sets of columns, some nullable
    BatchSizes, \* numbers of rows an import may bring
    U64Max,     \* the highest row id a u64 can hold
    MaxDeltas,  \* bound on delta layers between compactions (u32 in the code)
    MaxTx,      \* bound on the rows one transaction touches
    Deleted,    \* VisibilityTarget::Deleted
    NoOverlay,  \* overlay.json is absent
    NoTx        \* no transaction is being prepared

RowIds == 0..U64Max
Cell   == Values \cup {Null}
Row    == [Columns -> Cell]

Overlay == [visible_rows : Nat, max_row_id : RowIds]

ASSUME ConstantsAssumption ==
    /\ U64Max \in Nat /\ MaxDeltas \in Nat /\ MaxTx \in Nat
    /\ BatchSizes \subseteq Nat \ {0}
    /\ Schemas \subseteq [cols : SUBSET Columns, nullable : SUBSET Columns]
    /\ \A s \in Schemas : s.nullable \subseteq s.cols
    /\ Deleted \notin Nat
    /\ NoOverlay \notin Overlay

VARIABLES
    base,       \* the base layer: its columns, which are nullable, its rows by id
    deltas,     \* the delta layers; the id of a layer is its position
    visibility, \* visibility.bin: row id |-> delta layer or Deleted
    overlay,    \* visible_rows and max_row_id of overlay.json
    tx          \* prepare's updates, deletes and inserts so far

vars == <<base, deltas, visibility, overlay, tx>>

----------------------------------------------------------------------------
(* Reading: VersionedDataset.                                              *)

LayerIds == 0..Len(deltas)
Layer(i) == IF i = 0 THEN base ELSE deltas[i]
Holds(i, id) == id \in DOMAIN Layer(i).rows

\* merge_layer_schemas: the union of the layers' columns ...
LogicalCols == UNION {Layer(i).cols : i \in LayerIds}

\* Seeded fault: only the layers that have a column decide whether it is nullable.
NullableWherePresent ==
    {c \in LogicalCols : \E i \in LayerIds : c \in Layer(i).nullable}

\* ... where a column some layer lacks, or lets be NULL, is nullable.
NullableCols ==
    {c \in LogicalCols : \E i \in LayerIds : c \notin Layer(i).cols \/ c \in Layer(i).nullable}

\* read_overlay: without overlay.json the base layer speaks for the table.
HighestId(ids) == CHOOSE m \in ids : \A id \in ids : id <= m
VisibleRows == IF overlay = NoOverlay THEN Cardinality(DOMAIN base.rows)
                                      ELSE overlay.visible_rows

\* Seeded fault: deltas are not counted.
BaseMaxRowId == HighestId(DOMAIN base.rows)

MaxRowId == IF overlay = NoOverlay THEN HighestId(DOMAIN base.rows)
                                   ELSE overlay.max_row_id

\* row_values returns a row.
Exists(id) == IF id \in DOMAIN visibility
              THEN visibility[id] # Deleted
              ELSE \E i \in LayerIds : Holds(i, id)

\* The layer row_values reads: the override's, or the newest one that has the row.
HomeLayer(id) == IF id \in DOMAIN visibility
                 THEN visibility[id]
                 ELSE CHOOSE i \in LayerIds :
                        Holds(i, id) /\ \A j \in LayerIds : Holds(j, id) => j <= i

\* align_values: a column the layer lacks reads as NULL.
Aligned(row, cols) == [c \in cols |-> IF c \in DOMAIN row THEN row[c] ELSE Null]

RowValues(id) == Aligned(Layer(HomeLayer(id)).rows[id], LogicalCols)

\* for_each_visible_row visits every stored id once and skips those without a row.
VisibleIds == {id \in UNION {DOMAIN Layer(i).rows : i \in LayerIds} : Exists(id)}

\* The table its users see, over all columns any schema may ever have.
View == [id \in VisibleIds |-> Aligned(RowValues(id), Columns)]

----------------------------------------------------------------------------
(* Writing.                                                                *)

\* Cells of a row of schema s: NULL only where the column may be NULL.
RowsOf(s) == {r \in [s.cols -> Cell] : \A c \in s.cols : r[c] = Null => c \in s.nullable}

WellFormed(layer) ==
    /\ layer.cols \subseteq Columns /\ layer.nullable \subseteq layer.cols
    /\ DOMAIN layer.rows \subseteq RowIds /\ DOMAIN layer.rows # {}
    /\ \A id \in DOMAIN layer.rows : layer.rows[id] \in RowsOf(layer)

LayersTypeOK ==
    /\ WellFormed(base)
    /\ deltas \in Seq({deltas[i] : i \in DOMAIN deltas})
    /\ \A i \in 1..Len(deltas) : WellFormed(deltas[i])
    /\ DOMAIN visibility \subseteq RowIds
    /\ visibility \in [DOMAIN visibility -> {Deleted} \cup 1..Len(deltas)]
    /\ overlay \in {NoOverlay} \cup Overlay
    /\ tx # NoTx =>
         /\ tx \in [updates : {tx.updates}, deletes : SUBSET RowIds, inserts : Seq(Row)]
         /\ DOMAIN tx.updates \subseteq RowIds
         /\ \A id \in DOMAIN tx.updates :
              /\ DOMAIN tx.updates[id] \subseteq LogicalCols
              /\ tx.updates[id] \in [DOMAIN tx.updates[id] -> Cell]

\* import_csv: rows 0 .. n-1 of the CSV become the base layer of an empty catalog.
Init ==
    /\ \E s \in Schemas, n \in BatchSizes :
         /\ n - 1 <= U64Max
         /\ \E rs \in [0..(n - 1) -> RowsOf(s)] :
              base = [cols |-> s.cols, nullable |-> s.nullable, rows |-> rs]
    /\ deltas = <<>> /\ visibility = <<>> /\ overlay = NoOverlay
    /\ tx = NoTx

\* apply_mutations_delta opens the snapshot the mutations are checked against.
Begin ==
    /\ tx = NoTx
    /\ tx' = [updates |-> <<>>, deletes |-> {}, inserts |-> <<>>]
    /\ UNCHANGED <<base, deltas, visibility, overlay>>

TouchedRows == Cardinality(DOMAIN tx.updates \cup tx.deletes) + Len(tx.inserts)
PrepareMore == tx # NoTx /\ TouchedRows < MaxTx

\* Seeded fault: deleting a row keeps the update the transaction already has for it.
DeleteKeepsUpdate(id) ==
    /\ PrepareMore /\ Exists(id)
    /\ tx' = [tx EXCEPT !.deletes = @ \cup {id}]
    /\ UNCHANGED <<base, deltas, visibility, overlay>>

PrepareDelete(id) ==
    /\ PrepareMore /\ Exists(id)
    /\ tx' = [tx EXCEPT !.deletes = @ \cup {id},
                        !.updates = [r \in DOMAIN @ \ {id} |-> @[r]]]
    /\ UNCHANGED <<base, deltas, visibility, overlay>>

PrepareUpdate(id, c, v) ==
    /\ PrepareMore /\ Exists(id) /\ id \notin tx.deletes
    /\ c \in LogicalCols /\ (v = Null => c \in NullableCols)
    /\ LET patch == IF id \in DOMAIN tx.updates THEN tx.updates[id] ELSE <<>>
       IN tx' = [tx EXCEPT !.updates =
                   [r \in DOMAIN @ \cup {id} |->
                      IF r = id
                      THEN [k \in DOMAIN patch \cup {c} |-> IF k = c THEN v ELSE patch[k]]
                      ELSE @[r]]]
    /\ UNCHANGED <<base, deltas, visibility, overlay>>

\* A value for every column that may not be NULL; the row is kept over all columns.
PrepareInsert(row) ==
    /\ PrepareMore
    /\ \A c \in Columns : /\ c \notin LogicalCols => row[c] = Null
                          /\ c \in LogicalCols \ NullableCols => row[c] # Null
    /\ tx' = [tx EXCEPT !.inserts = Append(@, row)]
    /\ UNCHANGED <<base, deltas, visibility, overlay>>

RowsAfter == VisibleRows - Cardinality(tx.deletes) + Len(tx.inserts)

\* Seeded fault: row ids are added without checking for overflow.
OverflowUnchecked == FALSE

IdsExhausted == tx.inserts # <<>> /\ MaxRowId + Len(tx.inserts) >= U64Max

\* prepare or apply_mutations_delta returns an error: a mutation of a row that is not
\* there or is already deleted, a NULL where none may be, no mutation at all, a
\* transaction that would empty the table, or no row id or layer id left.
Refuse ==
    /\ tx # NoTx
    /\ \/ \E id \in RowIds : ~Exists(id) \/ id \in tx.deletes
       \/ LogicalCols # NullableCols
       \/ TouchedRows = 0
       \/ RowsAfter = 0
       \/ IdsExhausted \/ Len(deltas) = MaxDeltas
    /\ tx' = NoTx
    /\ UNCHANGED <<base, deltas, visibility, overlay>>

\* Seeded fault: an updated row gets no override.
TombstonesOnly(updated, deleted, layer) ==
    [id \in DOMAIN visibility \cup deleted |->
       IF id \in deleted THEN Deleted ELSE visibility[id]]

\* The overrides after a transaction whose delta layer is `layer`.
Redirected(updated, deleted, layer) ==
    [id \in DOMAIN visibility \cup updated \cup deleted |->
       IF id \in deleted THEN Deleted ELSE IF id \in updated THEN layer ELSE visibility[id]]

\* apply_mutations_delta publishes: one new layer with the updated and the inserted
\* rows if there are any, overrides for the updated and the deleted ones.
Apply ==
    /\ tx # NoTx /\ TouchedRows > 0
    /\ RowsAfter > 0 /\ ~IdsExhausted
    /\ LET new     == (MaxRowId + 1)..(MaxRowId + Len(tx.inserts))
           updated == DOMAIN tx.updates
           layer   == Len(deltas) + 1
           whole(id) == IF id \in new THEN Aligned(tx.inserts[id - MaxRowId], LogicalCols)
                        ELSE [c \in LogicalCols |-> IF c \in DOMAIN tx.updates[id]
                                                    THEN tx.updates[id][c]
                                                    ELSE RowValues(id)[c]]
       IN /\ IF updated \cup new = {}
             THEN UNCHANGED deltas
             ELSE /\ layer <= MaxDeltas
                  /\ deltas' = Append(deltas,
                       [cols |-> LogicalCols, nullable |-> NullableCols,
                        rows |-> [id \in updated \cup new |-> whole(id)]])
          /\ visibility' = Redirected(updated, tx.deletes, layer)
    /\ overlay' = [visible_rows |-> RowsAfter, max_row_id |-> MaxRowId + Len(tx.inserts)]
    /\ tx' = NoTx
    /\ UNCHANGED base

\* append_csv_delta: the incoming rows become a layer of their own schema.
AppendCsv(s, n) ==
    /\ tx = NoTx
    /\ MaxRowId + n <= U64Max /\ Len(deltas) < MaxDeltas
    /\ \E rs \in [(MaxRowId + 1)..(MaxRowId + n) -> RowsOf(s)] :
         deltas' = Append(deltas, [cols |-> s.cols, nullable |-> s.nullable, rows |-> rs])
    /\ overlay' = [visible_rows |-> VisibleRows + n, max_row_id |-> MaxRowId + n]
    /\ UNCHANGED <<base, visibility, tx>>

\* compact_dataset refuses a table whose rows and row count disagree, or whose rows
\* have a NULL its schema does not allow.
CompactionAccepts ==
    /\ VisibleRows # 0
    /\ Cardinality(VisibleIds) = VisibleRows
    /\ \A id \in VisibleIds : \A c \in LogicalCols \ NullableCols : RowValues(id)[c] # Null

\* compact_dataset: the visible rows, under their ids, become a new base layer.  The
\* overlay is not carried over, so the highest surviving id is the new max_row_id.
Compact ==
    /\ tx = NoTx /\ CompactionAccepts
    /\ base' = [cols |-> LogicalCols, nullable |-> NullableCols,
                rows |-> [id \in VisibleIds |-> RowValues(id)]]
    /\ deltas' = <<>> /\ visibility' = <<>> /\ overlay' = NoOverlay
    /\ UNCHANGED tx

Next ==
    \/ Begin
    \/ \E id \in RowIds : PrepareDelete(id)
    \/ \E id \in RowIds, c \in Columns, v \in Cell : PrepareUpdate(id, c, v)
    \/ \E row \in Row : PrepareInsert(row)
    \/ Refuse
    \/ Apply
    \/ \E s \in Schemas, n \in BatchSizes : AppendCsv(s, n)
    \/ Compact

Spec == Init /\ [][Next]_vars

----------------------------------------------------------------------------
(* Properties.                                                             *)

\* Every stored row belongs to exactly one visible version or to none: an override
\* points at a layer that has the row, and a row without an override is stored once,
\* so which layer answers never depends on the order in which layers are read.
OneVersionPerRow ==
    /\ \A id \in DOMAIN visibility :
         visibility[id] # Deleted => Holds(visibility[id], id)
    /\ \A id \in RowIds \ DOMAIN visibility :
         \A i, j \in LayerIds : Holds(i, id) /\ Holds(j, id) => i = j

\* No stored or overridden row id is above max_row_id, so the ids the next insert or
\* append allocates (overlay.rs) are new to every layer.
IdsBelowMax ==
    /\ \A i \in LayerIds : \A id \in DOMAIN Layer(i).rows : id <= MaxRowId
    /\ \A id \in DOMAIN visibility : id <= MaxRowId

\* The row count of overlay.json is the number of visible rows and is never 0, and a
\* NULL is only where the merged schema allows it: compaction, which checks both
\* (compaction.rs), is never refused.
CountsAndNullsAgree == CompactionAccepts

\* What a transaction was checked against still holds when it is applied: its updates
\* and deletes are of visible rows, and no row is both updated and deleted.
PreparedIsApplicable ==
    tx # NoTx => /\ DOMAIN tx.updates \cup tx.deletes \subseteq VisibleIds
                 /\ DOMAIN tx.updates \cap tx.deletes = {}

\* The layers together are a table of stable row ids changed by whole transactions,
\* whatever layer each version of a row is in (docs/OPERATIONS.md, "Delta mutations").
Table == INSTANCE RowStore WITH rows <- View, top <- MaxRowId
ImplementsRowStore == Table!Spec
=============================================================================
