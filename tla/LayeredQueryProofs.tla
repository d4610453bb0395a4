------------------------- MODULE LayeredQueryProofs -------------------------
(***************************************************************************)
(* Proofs about base, delta layers, visibility map and overlay, for any    *)
(* columns, values, schemas, batch sizes, row ids and transactions, and    *)
(* for any number of delta layers; and about exact queries over them: in   *)
(* every reachable table, for every equality query, cursor and page size,  *)
(* the merged page and the browsed page are those of the table users see.  *)
(***************************************************************************)
EXTENDS LayeredQuery, RowOrderProofs

USE ConstantsAssumption

----------------------------------------------------------------------------
(* The inductive invariant.                                                *)

\* The cells a transaction would write fit the merged schema, and an inserted row has
\* nothing to say about a column the table does not have.
PreparedFits ==
    tx # NoTx =>
      /\ \A id \in DOMAIN tx.updates : \A c \in DOMAIN tx.updates[id] :
           tx.updates[id][c] = Null => c \in NullableCols
      /\ \A n \in 1..Len(tx.inserts) : \A c \in Columns :
           /\ c \notin LogicalCols => tx.inserts[n][c] = Null
           /\ c \in LogicalCols \ NullableCols => tx.inserts[n][c] # Null

CountIsRight == VisibleRows # 0 /\ Cardinality(VisibleIds) = VisibleRows

Stored   == LayersTypeOK /\ OneVersionPerRow /\ IdsBelowMax
Prepared == PreparedIsApplicable /\ PreparedFits
Inv      == Stored /\ CountIsRight /\ Prepared

----------------------------------------------------------------------------
(* Row ids, layers and rows.                                               *)

Less == {pair \in Nat \X Nat : pair[1] < pair[2]}

(* Every set of naturals that is not empty has a least one.                *)
LEMMA LessIsWellFounded == IsWellFoundedOn(Less, Nat)
  <1>1. Less = OpToRel(<, Nat)
    BY Zenon DEF Less, OpToRel
  <1>2. QED BY <1>1, NatLessThanWellFounded, Zenon

(* A set of row ids that is not empty has a highest one.                   *)
LEMMA HighestIdIsHighest ==
    ASSUME NEW ids \in SUBSET RowIds, ids # {}
    PROVE  HighestId(ids) \in ids /\ \A id \in ids : id <= HighestId(ids)
  <1> DEFINE T == {U64Max - id : id \in ids}
  <1>1. T \subseteq Nat /\ T # {}
    <2>1. \A id \in ids : id \in Nat /\ id <= U64Max
      BY DEF RowIds
    <2>2. \A id \in ids : U64Max - id \in Nat
      BY <2>1
    <2>3. QED BY <2>2
  <1>2. PICK x \in T : \A y \in T : ~(<<y, x>> \in Less)
    BY <1>1, LessIsWellFounded, WFMin
  <1>3. \A y \in T : ~(y < x)
    BY <1>1, <1>2 DEF Less
  <1>4. PICK m \in ids : x = U64Max - m
    BY <1>2
  <1>5. \A id \in ids : id <= m
    <2> TAKE id \in ids
    <2>1. ~(U64Max - id < U64Max - m)
      BY <1>3, <1>4
    <2>2. QED BY <2>1 DEF RowIds
  <1>6. QED BY <1>5 DEF HighestId

(* A set of row ids is finite: row ids are u64.                            *)
LEMMA RowIdsAreFinite ==
    ASSUME NEW ids \in SUBSET RowIds
    PROVE  IsFiniteSet(ids) /\ Cardinality(ids) \in Nat
  <1>1. IsFiniteSet(0..U64Max)
    BY FS_Interval
  <1>2. IsFiniteSet(ids)
    BY <1>1, FS_Subset DEF RowIds
  <1>3. QED BY <1>2, FS_CardinalityType

(* Padding a row to the table's columns and then to all columns is padding *)
(* it to all columns.                                                      *)
LEMMA AlignedTwice ==
    ASSUME NEW row, NEW cols, NEW all, DOMAIN row \subseteq cols, cols \subseteq all
    PROVE  Aligned(Aligned(row, cols), all) = Aligned(row, all)
  BY DEF Aligned

(* Every layer is well formed, and the merged schema has its columns.      *)
LEMMA LayersWellFormed ==
    ASSUME LayersTypeOK
    PROVE  /\ \A i \in LayerIds : WellFormed(Layer(i))
           /\ Len(deltas) \in Nat /\ 0 \in LayerIds /\ LayerIds \subseteq Nat
           /\ \A i \in LayerIds : i # Deleted
           /\ LogicalCols \subseteq Columns /\ NullableCols \subseteq LogicalCols
           /\ \A i \in LayerIds : Layer(i).cols \subseteq LogicalCols
           /\ VisibleIds \subseteq RowIds
  <1>1. Len(deltas) \in Nat /\ 0 \in LayerIds /\ LayerIds \subseteq Nat
    BY DEF LayersTypeOK, LayerIds
  <1>2. \A i \in LayerIds : WellFormed(Layer(i)) /\ i # Deleted
    BY <1>1 DEF LayersTypeOK, LayerIds, Layer
  <1>3. /\ LogicalCols \subseteq Columns /\ NullableCols \subseteq LogicalCols
        /\ \A i \in LayerIds : Layer(i).cols \subseteq LogicalCols
    BY <1>2 DEF LogicalCols, NullableCols, WellFormed
  <1>4. VisibleIds \subseteq RowIds
    BY <1>2 DEF VisibleIds, WellFormed
  <1>5. QED BY <1>1, <1>2, <1>3, <1>4

(* max_row_id is a row id.                                                 *)
LEMMA MaxRowIdTyped ==
    ASSUME LayersTypeOK
    PROVE  MaxRowId \in RowIds /\ MaxRowId \in Nat
  BY HighestIdIsHighest DEF LayersTypeOK, WellFormed, MaxRowId, Overlay, RowIds

(* The layer of a visible row holds it, and it is the only one unless the  *)
(* row has an override.                                                    *)
HomesKnown ==
    \A id \in VisibleIds :
        /\ HomeLayer(id) \in LayerIds /\ Holds(HomeLayer(id), id)
        /\ id \in DOMAIN visibility => HomeLayer(id) = visibility[id]
        /\ id \notin DOMAIN visibility =>
             \A i \in LayerIds : Holds(i, id) => i = HomeLayer(id)

(* Stored rows have homes,                                                *)
LEMMA Homes == LayersTypeOK /\ OneVersionPerRow => HomesKnown
  <1> SUFFICES ASSUME LayersTypeOK, OneVersionPerRow, NEW id \in VisibleIds
               PROVE  /\ HomeLayer(id) \in LayerIds /\ Holds(HomeLayer(id), id)
                      /\ id \in DOMAIN visibility => HomeLayer(id) = visibility[id]
                      /\ id \notin DOMAIN visibility =>
                           \A i \in LayerIds : Holds(i, id) => i = HomeLayer(id)
    BY DEF HomesKnown
  <1>1. CASE id \in DOMAIN visibility
    <2>1. visibility[id] \in 1..Len(deltas) /\ Holds(visibility[id], id)
      BY <1>1 DEF VisibleIds, Exists, LayersTypeOK, OneVersionPerRow
    <2>2. QED BY <1>1, <2>1 DEF HomeLayer, LayerIds, LayersTypeOK
  <1>2. CASE id \notin DOMAIN visibility
    <2>1. PICK i \in LayerIds : Holds(i, id)
      BY <1>2 DEF VisibleIds, Exists
    <2>2. \A j \in LayerIds : Holds(j, id) => j = i
      BY <1>2, <2>1, LayersWellFormed DEF OneVersionPerRow, VisibleIds
    <2>3. i <= i
      BY <2>1, LayersWellFormed
    <2>4. HomeLayer(id) = i
      BY <1>2, <2>1, <2>2, <2>3 DEF HomeLayer
    <2>5. QED BY <1>2, <2>1, <2>2, <2>4
  <1>3. QED BY <1>1, <1>2

(* What a reader sees of a row is the row of its layer, padded with NULL;  *)
(* a NULL in it is one the schema allows.                                  *)
RowsKnown ==
    \A id \in VisibleIds :
        /\ View[id] = Aligned(Layer(HomeLayer(id)).rows[id], Columns)
        /\ View[id] \in Row
        /\ RowValues(id) \in [LogicalCols -> Cell]
        /\ \A c \in LogicalCols : RowValues(id)[c] = Null => c \in NullableCols

(* and read as rows of the merged schema.                                  *)
LEMMA RowsSeen == LayersTypeOK /\ OneVersionPerRow => RowsKnown
  <1> SUFFICES ASSUME LayersTypeOK, OneVersionPerRow, NEW id \in VisibleIds
               PROVE  /\ View[id] = Aligned(Layer(HomeLayer(id)).rows[id], Columns)
                      /\ View[id] \in Row
                      /\ RowValues(id) \in [LogicalCols -> Cell]
                      /\ \A c \in LogicalCols : RowValues(id)[c] = Null => c \in NullableCols
    BY DEF RowsKnown
  <1> DEFINE i == HomeLayer(id)
  <1> DEFINE row == Layer(i).rows[id]
  <1>1. i \in LayerIds /\ id \in DOMAIN Layer(i).rows
    BY Homes DEF HomesKnown, Holds
  <1>2. row \in RowsOf(Layer(i)) /\ Layer(i).cols \subseteq LogicalCols /\ LogicalCols \subseteq Columns
    BY <1>1, LayersWellFormed DEF WellFormed
  <1>3. /\ row \in [Layer(i).cols -> Cell] /\ DOMAIN row = Layer(i).cols
        /\ \A c \in Layer(i).cols : row[c] = Null => c \in Layer(i).nullable
    BY <1>2 DEF RowsOf
  <1>4. RowValues(id) = Aligned(row, LogicalCols)
    BY DEF RowValues
  <1> HIDE DEF row, i
  <1>5. View[id] = Aligned(row, Columns)
    BY <1>2, <1>3, <1>4, AlignedTwice DEF View
  <1>6. Aligned(row, Columns) \in Row /\ Aligned(row, LogicalCols) \in [LogicalCols -> Cell]
    BY <1>3 DEF Aligned, Row, Cell
  <1>7. \A c \in LogicalCols : Aligned(row, LogicalCols)[c] = Null => c \in NullableCols
    BY <1>1, <1>3 DEF Aligned, NullableCols
  <1>8. QED BY <1>4, <1>5, <1>6, <1>7 DEF row, i

----------------------------------------------------------------------------
(* Steps that prepare a transaction or give it up.                         *)

(* Preparing a transaction changes nothing that is stored.                 *)
LEMMA StoreKept ==
    ASSUME UNCHANGED <<base, deltas, visibility, overlay>>
    PROVE  /\ LogicalCols' = LogicalCols /\ NullableCols' = NullableCols
           /\ VisibleIds' = VisibleIds /\ MaxRowId' = MaxRowId /\ VisibleRows' = VisibleRows
           /\ OneVersionPerRow => OneVersionPerRow'
           /\ IdsBelowMax => IdsBelowMax'
  <1>1. LayerIds' = LayerIds /\ \A i : Layer(i)' = Layer(i)
    BY DEF LayerIds, Layer
  <1>2. LogicalCols' = LogicalCols /\ NullableCols' = NullableCols
    BY <1>1 DEF LogicalCols, NullableCols
  <1>3. MaxRowId' = MaxRowId /\ VisibleRows' = VisibleRows
    BY DEF MaxRowId, VisibleRows
  <1>4. \A i, id : Holds(i, id)' <=> Holds(i, id)
    BY <1>1 DEF Holds
  <1>5. VisibleIds' = VisibleIds
    BY <1>1, <1>4 DEF VisibleIds, Exists
  <1>7. OneVersionPerRow => OneVersionPerRow'
    BY <1>1, <1>4 DEF OneVersionPerRow
  <1>8. IdsBelowMax => IdsBelowMax'
    BY <1>1, <1>3 DEF IdsBelowMax
  <1>9. QED BY <1>2, <1>3, <1>5, <1>7, <1>8

(* Preparing a transaction changes nothing that is seen.                   *)
LEMMA ViewKept ==
    ASSUME HomesKnown, HomesKnown', UNCHANGED <<base, deltas, visibility, overlay>>
    PROVE  View' = View
  <1>1. VisibleIds' = VisibleIds /\ LogicalCols' = LogicalCols
    BY StoreKept
  <1>2. LayerIds' = LayerIds /\ \A i : Layer(i)' = Layer(i)
    BY DEF LayerIds, Layer
  <1>3. \A id \in VisibleIds : HomeLayer(id)' = HomeLayer(id)
    BY <1>1, <1>2 DEF HomesKnown, Holds
  <1>4. \A id \in VisibleIds : RowValues(id)' = RowValues(id)
    BY <1>1, <1>2, <1>3 DEF RowValues
  <1>5. QED BY <1>1, <1>4 DEF View

(* A row row_values finds is one for_each_visible_row visits.              *)
LEMMA ExistingAreVisible ==
    ASSUME LayersTypeOK, OneVersionPerRow, NEW id \in RowIds, Exists(id)
    PROVE  id \in VisibleIds
  <1>1. \E i \in LayerIds : Holds(i, id)
    BY DEF Exists, OneVersionPerRow, LayersTypeOK, LayerIds
  <1>2. QED BY <1>1 DEF VisibleIds, Holds


(* The transaction that is being prepared after each kind of mutation.     *)
Transaction(updates, deletes, inserts) ==
    [updates |-> updates, deletes |-> deletes, inserts |-> inserts]

Without(updates, id) == [r \in DOMAIN updates \ {id} |-> updates[r]]
Patched(patch, c, v) == [k \in DOMAIN patch \cup {c} |-> IF k = c THEN v ELSE patch[k]]
With(updates, id, c, v) ==
    [r \in DOMAIN updates \cup {id} |->
       IF r = id THEN Patched(IF id \in DOMAIN updates THEN updates[id] ELSE <<>>, c, v)
                 ELSE updates[r]]

(* The parts of a transaction.                                             *)
LEMMA TransactionFields ==
    ASSUME NEW u, NEW d, NEW n
    PROVE  /\ Transaction(u, d, n).updates = u /\ Transaction(u, d, n).deletes = d
           /\ Transaction(u, d, n).inserts = n
           /\ d \in SUBSET RowIds /\ n \in Seq(Row) =>
                Transaction(u, d, n) \in [updates : {u}, deletes : SUBSET RowIds, inserts : Seq(Row)]
  BY DEF Transaction

(* The transaction after each step of prepare.                             *)
LEMMA PreparedTransactions ==
    ASSUME LayersTypeOK
    PROVE  /\ Begin => tx' = Transaction(<<>>, {}, <<>>)
           /\ \A id : PrepareDelete(id) =>
                tx' = Transaction(Without(tx.updates, id), tx.deletes \cup {id}, tx.inserts)
           /\ \A id, c, v : PrepareUpdate(id, c, v) =>
                tx' = Transaction(With(tx.updates, id, c, v), tx.deletes, tx.inserts)
           /\ \A row : PrepareInsert(row) =>
                tx' = Transaction(tx.updates, tx.deletes, Append(tx.inserts, row))
  <1>1. Begin => tx' = Transaction(<<>>, {}, <<>>)
    BY DEF Begin, Transaction
  <1>2. tx # NoTx => tx = Transaction(tx.updates, tx.deletes, tx.inserts)
    BY DEF LayersTypeOK, Transaction
  <1>3. ASSUME NEW id, PrepareDelete(id)
        PROVE  tx' = Transaction(Without(tx.updates, id), tx.deletes \cup {id}, tx.inserts)
    BY <1>2, <1>3 DEF PrepareDelete, PrepareMore, Transaction, Without
  <1>4. ASSUME NEW id, NEW c, NEW v, PrepareUpdate(id, c, v)
        PROVE  tx' = Transaction(With(tx.updates, id, c, v), tx.deletes, tx.inserts)
    BY <1>2, <1>4 DEF PrepareUpdate, PrepareMore, Transaction, With, Patched
  <1>5. ASSUME NEW row, PrepareInsert(row)
        PROVE  tx' = Transaction(tx.updates, tx.deletes, Append(tx.inserts, row))
    BY <1>2, <1>5 DEF PrepareInsert, PrepareMore, Transaction
  <1>6. QED BY <1>1, <1>3, <1>4, <1>5

\* The updates of a transaction: cells of existing columns, NULL where that is allowed.
UpdatesFit(updates) ==
    /\ DOMAIN updates \subseteq RowIds
    /\ \A id \in DOMAIN updates :
         /\ DOMAIN updates[id] \subseteq LogicalCols
         /\ updates[id] \in [DOMAIN updates[id] -> Cell]
         /\ \A c \in DOMAIN updates[id] : updates[id][c] = Null => c \in NullableCols

InsertsFit(inserts) ==
    /\ inserts \in Seq(Row)
    /\ \A n \in 1..Len(inserts) : \A c \in Columns :
         /\ c \notin LogicalCols => inserts[n][c] = Null
         /\ c \in LogicalCols \ NullableCols => inserts[n][c] # Null

(* A prepared transaction fits the merged schema,                          *)
LEMMA PreparedMeansFit ==
    ASSUME LayersTypeOK, Prepared, tx # NoTx
    PROVE  UpdatesFit(tx.updates) /\ InsertsFit(tx.inserts) /\ tx.deletes \in SUBSET RowIds
  BY DEF LayersTypeOK, Prepared, PreparedFits, UpdatesFit, InsertsFit

(* and one that fits it, of visible rows, is prepared.                     *)
LEMMA FitMeansPrepared ==
    ASSUME LayersTypeOK, UNCHANGED <<base, deltas, visibility, overlay>>,
           NEW u, NEW d \in SUBSET RowIds, NEW n, UpdatesFit(u), InsertsFit(n),
           DOMAIN u \cup d \subseteq VisibleIds, DOMAIN u \cap d = {},
           tx' = Transaction(u, d, n)
    PROVE  LayersTypeOK' /\ Prepared'
  <1>1. /\ tx'.updates = u /\ tx'.deletes = d /\ tx'.inserts = n
        /\ tx' \in [updates : {u}, deletes : SUBSET RowIds, inserts : Seq(Row)]
    BY TransactionFields DEF InsertsFit
  <1>2. LogicalCols' = LogicalCols /\ NullableCols' = NullableCols /\ VisibleIds' = VisibleIds
    BY StoreKept
  <1>3. LayersTypeOK'
    BY <1>1, <1>2 DEF LayersTypeOK, UpdatesFit, WellFormed, RowsOf
  <1>4. PreparedIsApplicable'
    BY <1>1, <1>2 DEF PreparedIsApplicable
  <1>5. PreparedFits'
    BY <1>1, <1>2 DEF PreparedFits, UpdatesFit, InsertsFit
  <1>6. QED BY <1>3, <1>4, <1>5 DEF Prepared

(* Each step of prepare keeps the transaction applicable, and the store.   *)
LEMMA PrepareStepsKeepPrepared ==
    ASSUME Stored, Prepared,
           \/ Begin
           \/ \E id \in RowIds : PrepareDelete(id)
           \/ \E id \in RowIds, c \in Columns, v \in Cell : PrepareUpdate(id, c, v)
           \/ \E row \in Row : PrepareInsert(row)
    PROVE  LayersTypeOK' /\ Prepared' /\ UNCHANGED <<base, deltas, visibility, overlay>>
  <1> USE DEF Stored
  <1>1. CASE Begin
    <2>1. UNCHANGED <<base, deltas, visibility, overlay>> /\ tx' = Transaction(<<>>, {}, <<>>)
      BY <1>1, PreparedTransactions DEF Begin
    <2>2. UpdatesFit(<<>>) /\ InsertsFit(<<>>) /\ DOMAIN <<>> = {}
      BY DEF UpdatesFit, InsertsFit
    <2>3. QED BY <2>1, <2>2, FitMeansPrepared
  <1>2. ASSUME NEW id \in RowIds, PrepareDelete(id)
        PROVE  LayersTypeOK' /\ Prepared' /\ UNCHANGED <<base, deltas, visibility, overlay>>
    <2> DEFINE u == Without(tx.updates, id)
    <2>1. /\ UNCHANGED <<base, deltas, visibility, overlay>> /\ tx # NoTx
          /\ tx' = Transaction(u, tx.deletes \cup {id}, tx.inserts) /\ id \in VisibleIds
      BY <1>2, PreparedTransactions, ExistingAreVisible DEF PrepareDelete, PrepareMore
    <2>2. UpdatesFit(tx.updates) /\ InsertsFit(tx.inserts) /\ tx.deletes \in SUBSET RowIds
      BY <2>1, PreparedMeansFit
    <2>3. DOMAIN u = DOMAIN tx.updates \ {id} /\ \A r \in DOMAIN u : u[r] = tx.updates[r]
      BY DEF Without
    <2> HIDE DEF u
    <2>4. UpdatesFit(u)
      BY <2>2, <2>3 DEF UpdatesFit
    <2>5. DOMAIN u \cup tx.deletes \cup {id} \subseteq VisibleIds /\ DOMAIN u \cap (tx.deletes \cup {id}) = {}
      BY <2>1, <2>3 DEF Prepared, PreparedIsApplicable
    <2>6. QED BY <2>1, <2>2, <2>4, <2>5, FitMeansPrepared
  <1>3. ASSUME NEW id \in RowIds, NEW c \in Columns, NEW v \in Cell, PrepareUpdate(id, c, v)
        PROVE  LayersTypeOK' /\ Prepared' /\ UNCHANGED <<base, deltas, visibility, overlay>>
    <2> DEFINE u == With(tx.updates, id, c, v)
    <2> DEFINE patch == IF id \in DOMAIN tx.updates THEN tx.updates[id] ELSE <<>>
    <2>1. /\ UNCHANGED <<base, deltas, visibility, overlay>> /\ tx # NoTx
          /\ tx' = Transaction(u, tx.deletes, tx.inserts)
          /\ id \in VisibleIds /\ id \notin tx.deletes
          /\ c \in LogicalCols /\ (v = Null => c \in NullableCols)
      BY <1>3, PreparedTransactions, ExistingAreVisible DEF PrepareUpdate, PrepareMore
    <2>2. UpdatesFit(tx.updates) /\ InsertsFit(tx.inserts) /\ tx.deletes \in SUBSET RowIds
      BY <2>1, PreparedMeansFit
    <2>3. /\ DOMAIN patch \subseteq LogicalCols /\ \A k \in DOMAIN patch : patch[k] \in Cell
          /\ \A k \in DOMAIN patch : patch[k] = Null => k \in NullableCols
      BY <2>2 DEF UpdatesFit
    <2>4. /\ DOMAIN u = DOMAIN tx.updates \cup {id} /\ u[id] = Patched(patch, c, v)
          /\ \A r \in DOMAIN u \ {id} : u[r] = tx.updates[r]
      BY DEF With
    <2> HIDE DEF u, patch
    <2>5. /\ DOMAIN u[id] \subseteq LogicalCols /\ u[id] \in [DOMAIN u[id] -> Cell]
          /\ \A k \in DOMAIN u[id] : u[id][k] = Null => k \in NullableCols
      BY <2>1, <2>3, <2>4 DEF Patched
    <2>6. UpdatesFit(u)
      BY <2>2, <2>4, <2>5 DEF UpdatesFit
    <2>7. DOMAIN u \cup tx.deletes \subseteq VisibleIds /\ DOMAIN u \cap tx.deletes = {}
      BY <2>1, <2>4 DEF Prepared, PreparedIsApplicable
    <2>8. QED BY <2>1, <2>2, <2>6, <2>7, FitMeansPrepared
  <1>4. ASSUME NEW row \in Row, PrepareInsert(row)
        PROVE  LayersTypeOK' /\ Prepared' /\ UNCHANGED <<base, deltas, visibility, overlay>>
    <2>1. /\ UNCHANGED <<base, deltas, visibility, overlay>> /\ tx # NoTx
          /\ tx' = Transaction(tx.updates, tx.deletes, Append(tx.inserts, row))
          /\ \A c \in Columns : /\ c \notin LogicalCols => row[c] = Null
                                /\ c \in LogicalCols \ NullableCols => row[c] # Null
      BY <1>4, PreparedTransactions DEF PrepareInsert, PrepareMore
    <2>2. UpdatesFit(tx.updates) /\ InsertsFit(tx.inserts) /\ tx.deletes \in SUBSET RowIds
      BY <2>1, PreparedMeansFit
    <2>3. InsertsFit(Append(tx.inserts, row))
      BY <2>1, <2>2 DEF InsertsFit
    <2>4. QED BY <2>1, <2>2, <2>3, FitMeansPrepared DEF Prepared, PreparedIsApplicable
  <1>5. QED BY <1>1, <1>2, <1>3, <1>4


----------------------------------------------------------------------------
(* A new delta layer.                                                      *)

IsSequence(s) == s \in Seq({s[i] : i \in DOMAIN s})

Extends(t, s, e) == t = Append(s, e)

(* A sequence with one more element.                                       *)
LEMMA AppendedSequence ==
    ASSUME NEW s, IsSequence(s), NEW e, NEW t, Extends(t, s, e)
    PROVE  /\ Len(s) \in Nat /\ Len(t) = Len(s) + 1 /\ t[Len(s) + 1] = e
           /\ \A i \in 1..Len(s) : t[i] = s[i]
           /\ IsSequence(t)
  <1> DEFINE S == {s[i] : i \in DOMAIN s} \cup {e}
  <1>1. s \in Seq(S) /\ e \in S
    BY DEF IsSequence
  <1> HIDE DEF S
  <1>2. t \in Seq(S) /\ Len(s) \in Nat /\ Len(t) = Len(s) + 1 /\ t[Len(s) + 1] = e
    BY <1>1 DEF Extends
  <1>3. \A i \in 1..Len(s) : t[i] = s[i]
    BY <1>1 DEF Extends
  <1>4. IsSequence(t)
    BY <1>2 DEF IsSequence
  <1>5. QED BY <1>2, <1>3, <1>4

\* A new delta layer comes on top; those below keep their numbers and rows.
LEMMA AppendedLayer ==
    ASSUME LayersTypeOK, NEW new, Extends(deltas', deltas, new), UNCHANGED base,
           NEW top, top = Len(deltas) + 1
    PROVE  /\ LayerIds' = LayerIds \cup {top} /\ top \notin LayerIds /\ Len(deltas') = top
           /\ Layer(top)' = new
           /\ \A i \in LayerIds : Layer(i)' = Layer(i)
           /\ \A i \in LayerIds : \A id : Holds(i, id)' <=> Holds(i, id)
           /\ \A id : Holds(top, id)' <=> id \in DOMAIN new.rows
           /\ LogicalCols' = LogicalCols \cup new.cols
           /\ WellFormed(new) => /\ WellFormed(base)'
                                 /\ IsSequence(deltas)'
                                 /\ (\A i \in 1..Len(deltas) : WellFormed(deltas[i]))'
  <1>1. /\ Len(deltas) \in Nat /\ Len(deltas') = top /\ deltas'[top] = new
        /\ \A i \in 1..Len(deltas) : deltas'[i] = deltas[i]
        /\ IsSequence(deltas')
    <2>1. IsSequence(deltas)
      BY DEF LayersTypeOK, IsSequence
    <2>2. QED BY <2>1, AppendedSequence
  <1>2. LayerIds' = LayerIds \cup {top} /\ top \notin LayerIds
    BY <1>1 DEF LayerIds
  <1>3. Layer(top)' = new
    BY <1>1 DEF Layer
  <1>4. \A i \in LayerIds : Layer(i)' = Layer(i)
    BY <1>1 DEF Layer, LayerIds
  <1>5. /\ \A i \in LayerIds : \A id : Holds(i, id)' <=> Holds(i, id)
        /\ \A id : Holds(top, id)' <=> id \in DOMAIN new.rows
    BY <1>3, <1>4 DEF Holds
  <1>6. LogicalCols' = LogicalCols \cup new.cols
    <2>1. \A c : c \in LogicalCols <=> \E i \in LayerIds : c \in Layer(i).cols
      BY DEF LogicalCols
    <2>2. \A c : c \in LogicalCols' <=> \E i \in LayerIds' : c \in Layer(i)'.cols
      BY DEF LogicalCols
    <2>3. \A c : c \in LogicalCols' <=> c \in LogicalCols \/ c \in new.cols
      BY <1>2, <1>3, <1>4, <2>1, <2>2
    <2>4. QED BY <2>3
  <1>7. WellFormed(new) => (\A i \in 1..Len(deltas) : WellFormed(deltas[i]))'
    <2>1. \A i \in 1..top : i = top \/ i \in 1..Len(deltas)
      BY <1>1
    <2>2. QED BY <1>1, <2>1 DEF LayersTypeOK
  <1>8. WellFormed(base)'
    BY DEF LayersTypeOK
  <1>9. QED BY <1>1, <1>2, <1>3, <1>4, <1>5, <1>6, <1>7, <1>8

\* All row ids of a layer or an override are new in the next one.
NewIds(n) == (MaxRowId + 1)..(MaxRowId + n)

(* The ids after max_row_id belong to no row, stored, hidden or deleted.   *)
LEMMA NewIdsAreNew ==
    ASSUME Stored, NEW n \in Nat, MaxRowId + n <= U64Max
    PROVE  /\ NewIds(n) \subseteq RowIds
           /\ \A i \in LayerIds : \A id \in NewIds(n) : ~Holds(i, id)
           /\ NewIds(n) \cap DOMAIN visibility = {}
           /\ NewIds(n) \cap VisibleIds = {}
           /\ IsFiniteSet(NewIds(n)) /\ Cardinality(NewIds(n)) = n
           /\ \A id \in NewIds(n) : id - MaxRowId \in 1..n
  <1>1. MaxRowId \in Nat
    BY MaxRowIdTyped DEF Stored
  <1>2. \A id \in NewIds(n) : id \in RowIds /\ id > MaxRowId /\ id - MaxRowId \in 1..n
    BY <1>1 DEF NewIds, RowIds
  <1>3. \A i \in LayerIds : \A id \in NewIds(n) : ~Holds(i, id)
    BY <1>1, <1>2 DEF Holds, Stored, IdsBelowMax, RowIds
  <1>4. NewIds(n) \cap DOMAIN visibility = {}
    BY <1>1, <1>2 DEF Stored, IdsBelowMax, RowIds
  <1>5. NewIds(n) \cap VisibleIds = {}
    BY <1>3 DEF VisibleIds, Holds
  <1>6. IsFiniteSet(NewIds(n)) /\ Cardinality(NewIds(n)) = n
    BY <1>1, FS_Interval DEF NewIds
  <1>7. QED BY <1>2, <1>3, <1>4, <1>5, <1>6

(* Row ids that join and leave the visible ones are counted.               *)
LEMMA CountedIds ==
    ASSUME Stored, CountIsRight, NEW gone \in SUBSET VisibleIds, NEW n \in Nat,
           MaxRowId + n <= U64Max
    PROVE  /\ VisibleRows - Cardinality(gone) + n \in Nat /\ Cardinality(gone) \in Nat
           /\ Cardinality((VisibleIds \ gone) \cup NewIds(n)) = VisibleRows - Cardinality(gone) + n
  <1>1. VisibleIds \subseteq RowIds
    BY LayersWellFormed DEF Stored
  <1>2. IsFiniteSet(VisibleIds) /\ Cardinality(VisibleIds) \in Nat /\ VisibleRows = Cardinality(VisibleIds)
    BY <1>1, RowIdsAreFinite DEF CountIsRight
  <1>3. IsFiniteSet(gone) /\ Cardinality(gone) \in Nat /\ Cardinality(gone) <= Cardinality(VisibleIds)
    BY <1>2, FS_Subset, FS_CardinalityType
  <1>4. VisibleIds \cap gone = gone
    OBVIOUS
  <1>5. /\ IsFiniteSet(VisibleIds \ gone)
        /\ Cardinality(VisibleIds \ gone) = Cardinality(VisibleIds) - Cardinality(gone)
    BY <1>2, <1>4, FS_Difference
  <1>6. (VisibleIds \ gone) \cap NewIds(n) = {} /\ IsFiniteSet(NewIds(n)) /\ Cardinality(NewIds(n)) = n
    BY NewIdsAreNew
  <1>7. Cardinality((VisibleIds \ gone) \cup NewIds(n))
          = Cardinality(VisibleIds \ gone) + Cardinality(NewIds(n)) - Cardinality({})
    BY <1>5, <1>6, FS_Union
  <1>8. QED BY <1>2, <1>3, <1>5, <1>6, <1>7, FS_EmptySet


----------------------------------------------------------------------------
(* Applying a transaction.                                                 *)

Inserted == NewIds(Len(tx.inserts))
Updated  == DOMAIN tx.updates
Touched  == Updated \cup Inserted

\* The row a transaction leaves under an id, over the table's columns.
Whole(id) ==
    IF id \in Inserted
    THEN Aligned(tx.inserts[id - MaxRowId], LogicalCols)
    ELSE [c \in LogicalCols |-> IF c \in DOMAIN tx.updates[id] THEN tx.updates[id][c]
                                                               ELSE RowValues(id)[c]]

DeltaLayer == [cols |-> LogicalCols, nullable |-> NullableCols,
               rows |-> [id \in Touched |-> Whole(id)]]

NewOverlay(count, top) == [visible_rows |-> count, max_row_id |-> top]

(* The overlay a writer saves.                                             *)
LEMMA NewOverlayFields ==
    ASSUME NEW count \in Nat, NEW top \in RowIds
    PROVE  /\ NewOverlay(count, top) \in Overlay /\ NewOverlay(count, top) # NoOverlay
           /\ NewOverlay(count, top).visible_rows = count /\ NewOverlay(count, top).max_row_id = top
  BY DEF NewOverlay, Overlay

(* What Apply does to each part of the store.                              *)
LEMMA ApplyParts ==
    ASSUME Apply
    PROVE  /\ tx # NoTx /\ RowsAfter > 0 /\ ~IdsExhausted
           /\ Touched = {} => deltas' = deltas
           /\ Touched # {} => Extends(deltas', deltas, DeltaLayer)
           /\ visibility' = Redirected(Updated, tx.deletes, Len(deltas) + 1)
           /\ overlay' = NewOverlay(RowsAfter, MaxRowId + Len(tx.inserts))
           /\ tx' = NoTx /\ base' = base
  BY DEF Apply, Touched, Updated, Inserted, NewIds, DeltaLayer, Whole, Extends, NewOverlay

(* The delta layer of a transaction: whole rows of the merged schema.      *)
LEMMA DeltaLayerFields ==
    /\ DeltaLayer.cols = LogicalCols /\ DeltaLayer.nullable = NullableCols
    /\ DOMAIN DeltaLayer.rows = Touched
    /\ \A id \in Touched : DeltaLayer.rows[id] = Whole(id)
  BY DEF DeltaLayer

\* A transaction that is applied updates and deletes different, visible rows.
LEMMA ApplicableTransaction ==
    ASSUME Inv, Apply
    PROVE  /\ UpdatesFit(tx.updates) /\ InsertsFit(tx.inserts)
           /\ Updated \subseteq VisibleIds /\ tx.deletes \subseteq VisibleIds
           /\ Updated \cap tx.deletes = {}
           /\ Len(tx.inserts) \in Nat /\ MaxRowId \in Nat
           /\ MaxRowId + Len(tx.inserts) \in RowIds /\ MaxRowId + Len(tx.inserts) <= U64Max
  <1>1. tx # NoTx /\ ~IdsExhausted
    BY ApplyParts
  <1>2. UpdatesFit(tx.updates) /\ InsertsFit(tx.inserts)
    BY <1>1, PreparedMeansFit DEF Inv, Stored
  <1>3. /\ Updated \subseteq VisibleIds /\ tx.deletes \subseteq VisibleIds
        /\ Updated \cap tx.deletes = {}
    BY <1>1 DEF Inv, Prepared, PreparedIsApplicable, Updated
  <1>4. MaxRowId \in Nat /\ MaxRowId <= U64Max
    BY MaxRowIdTyped DEF Inv, Stored, RowIds
  <1>5. Len(tx.inserts) \in Nat /\ (tx.inserts = <<>> => Len(tx.inserts) = 0)
    BY <1>2 DEF InsertsFit
  <1>6. MaxRowId + Len(tx.inserts) <= U64Max
    BY <1>1, <1>4, <1>5 DEF IdsExhausted
  <1>7. QED BY <1>2, <1>3, <1>4, <1>5, <1>6 DEF RowIds

(* The rows of the new layer fit its schema.                               *)
LEMMA DeltaLayerWellFormed ==
    ASSUME Inv, Apply, Touched # {}
    PROVE  WellFormed(DeltaLayer)
  <1>1. LogicalCols \subseteq Columns /\ NullableCols \subseteq LogicalCols /\ VisibleIds \subseteq RowIds
    BY LayersWellFormed DEF Inv, Stored
  <1>2. Inserted \subseteq RowIds /\ \A id \in Inserted : id - MaxRowId \in 1..Len(tx.inserts)
    BY ApplicableTransaction, NewIdsAreNew DEF Inv, Inserted
  <1>3. ASSUME NEW id \in Touched
        PROVE  /\ Whole(id) \in [LogicalCols -> Cell]
               /\ \A c \in LogicalCols : Whole(id)[c] = Null => c \in NullableCols
    <2>1. CASE id \in Inserted
      <3> DEFINE row == tx.inserts[id - MaxRowId]
      <3>1. row \in Row
        BY <1>2, <2>1, ApplicableTransaction DEF InsertsFit
      <3>2. \A c \in Columns : c \in LogicalCols \ NullableCols => row[c] # Null
        BY <1>2, <2>1, ApplicableTransaction DEF InsertsFit
      <3>3. Whole(id) = Aligned(row, LogicalCols)
        BY <2>1 DEF Whole
      <3> HIDE DEF row
      <3>4. /\ Aligned(row, LogicalCols) \in [LogicalCols -> Cell]
            /\ \A c \in LogicalCols : Aligned(row, LogicalCols)[c] = row[c]
        BY <1>1, <3>1 DEF Aligned, Row, Cell
      <3>5. QED BY <1>1, <3>2, <3>3, <3>4
    <2>2. CASE id \notin Inserted
      <3>1. id \in VisibleIds /\ id \in DOMAIN tx.updates
        BY <2>2, ApplicableTransaction DEF Touched, Updated
      <3>2. /\ RowValues(id) \in [LogicalCols -> Cell]
            /\ \A c \in LogicalCols : RowValues(id)[c] = Null => c \in NullableCols
        BY <3>1, RowsSeen DEF RowsKnown, Inv, Stored
      <3>3. /\ \A c \in DOMAIN tx.updates[id] : tx.updates[id][c] \in Cell
            /\ \A c \in DOMAIN tx.updates[id] : tx.updates[id][c] = Null => c \in NullableCols
        BY <3>1, ApplicableTransaction DEF UpdatesFit
      <3>4. QED BY <2>2, <3>2, <3>3 DEF Whole
    <2>3. QED BY <2>1, <2>2
  <1>4. Touched \subseteq RowIds
    BY <1>1, <1>2, ApplicableTransaction DEF Touched
  <1>5. \A id \in Touched : DeltaLayer.rows[id] \in RowsOf(DeltaLayer)
    BY <1>3, DeltaLayerFields DEF RowsOf
  <1>6. QED BY <1>1, <1>4, <1>5, DeltaLayerFields DEF WellFormed

(* The layers after a transaction.                                         *)
LEMMA AppliedLayers ==
    ASSUME Inv, Apply, NEW top, top = Len(deltas) + 1
    PROVE  /\ LayerIds \subseteq LayerIds' /\ top \notin LayerIds
           /\ LayerIds' \subseteq LayerIds \cup {top}
           /\ \A i \in LayerIds : Layer(i)' = Layer(i)
           /\ \A i \in LayerIds : \A id : Holds(i, id)' <=> Holds(i, id)
           /\ Touched # {} => /\ top \in LayerIds' /\ Layer(top)' = DeltaLayer
                              /\ Len(deltas') = top
           /\ Touched = {} => LayerIds' = LayerIds /\ Len(deltas') = Len(deltas)
           /\ top \in LayerIds' => \A id : Holds(top, id)' <=> id \in Touched
           /\ LogicalCols' = LogicalCols
           /\ WellFormed(base)' /\ IsSequence(deltas)' /\ (\A i \in 1..Len(deltas) : WellFormed(deltas[i]))'
  <1>1. LayersTypeOK /\ base' = base
    BY ApplyParts DEF Inv, Stored
  <1>2. CASE Touched = {}
    <2>1. deltas' = deltas
      BY <1>2, ApplyParts
    <2>2. LayerIds' = LayerIds /\ top \notin LayerIds /\ \A i \in LayerIds : Layer(i)' = Layer(i)
      BY <1>1, <2>1, LayersWellFormed DEF LayerIds, Layer
    <2>3. \A i \in LayerIds : \A id : Holds(i, id)' <=> Holds(i, id)
      BY <2>2 DEF Holds
    <2>4. LogicalCols' = LogicalCols
      BY <2>2 DEF LogicalCols
    <2>5. /\ WellFormed(base)' /\ IsSequence(deltas)'
          /\ (\A i \in 1..Len(deltas) : WellFormed(deltas[i]))' /\ Len(deltas') = Len(deltas)
      BY <1>1, <2>1, Zenon DEF LayersTypeOK, IsSequence
    <2>6. QED BY <1>2, <2>2, <2>3, <2>4, <2>5
  <1>3. CASE Touched # {}
    <2>1. Extends(deltas', deltas, DeltaLayer)
      BY <1>3, ApplyParts
    <2>2. WellFormed(DeltaLayer)
      BY <1>3, DeltaLayerWellFormed
    <2>3. LogicalCols \cup DeltaLayer.cols = LogicalCols
      BY DeltaLayerFields
    <2>4. PICK new : new = DeltaLayer
      OBVIOUS
    <2>5. /\ LayerIds' = LayerIds \cup {top} /\ top \notin LayerIds /\ Len(deltas') = top
          /\ Layer(top)' = new
          /\ \A i \in LayerIds : Layer(i)' = Layer(i)
          /\ \A i \in LayerIds : \A id : Holds(i, id)' <=> Holds(i, id)
          /\ \A id : Holds(top, id)' <=> id \in DOMAIN new.rows
          /\ LogicalCols' = LogicalCols \cup new.cols
          /\ WellFormed(new) => /\ WellFormed(base)'
                                /\ IsSequence(deltas)'
                                /\ (\A i \in 1..Len(deltas) : WellFormed(deltas[i]))'
      BY <1>1, <2>1, <2>4, AppendedLayer, Zenon
    <2>6. LogicalCols' = LogicalCols /\ Layer(top)' = DeltaLayer
      BY <2>3, <2>4, <2>5
    <2>7. \A id : Holds(top, id)' <=> id \in Touched
      BY <2>4, <2>5, DeltaLayerFields
    <2>8. WellFormed(base)' /\ IsSequence(deltas)'
          /\ (\A i \in 1..Len(deltas) : WellFormed(deltas[i]))'
      BY <2>2, <2>4, <2>5, Zenon
    <2>9. LayerIds \subseteq LayerIds' /\ LayerIds' \subseteq LayerIds \cup {top}
          /\ top \in LayerIds' /\ top \notin LayerIds /\ Len(deltas') = top
      BY <2>5
    <2>10. QED BY <1>3, <2>5, <2>6, <2>7, <2>8, <2>9, Zenon
  <1>4. QED BY <1>2, <1>3

(* The visibility map after a transaction.                                 *)
LEMMA AppliedVisibility ==
    ASSUME Inv, Apply, NEW top, top = Len(deltas) + 1
    PROVE  /\ DOMAIN visibility' = DOMAIN visibility \cup Updated \cup tx.deletes
           /\ \A id \in tx.deletes : visibility'[id] = Deleted
           /\ \A id \in Updated : visibility'[id] = top
           /\ \A id \in DOMAIN visibility \ (Updated \cup tx.deletes) : visibility'[id] = visibility[id]
  <1>1. Updated \cap tx.deletes = {}
    BY ApplicableTransaction
  <1>2. visibility' = Redirected(Updated, tx.deletes, top)
    BY ApplyParts
  <1>3. QED BY <1>1, <1>2 DEF Redirected

(* The visible rows after a transaction: without the deleted, with the new.*)
LEMMA AppliedRows ==
    ASSUME Inv, Apply
    PROVE  VisibleIds' = (VisibleIds \ tx.deletes) \cup Inserted
  <1>0. PICK top : top = Len(deltas) + 1
    OBVIOUS
  <1>1. /\ LayerIds \subseteq LayerIds' /\ LayerIds' \subseteq LayerIds \cup {top}
        /\ \A i \in LayerIds : \A id : Holds(i, id)' <=> Holds(i, id)
        /\ top \in LayerIds' => \A id : Holds(top, id)' <=> id \in Touched
        /\ Touched # {} => top \in LayerIds'
        /\ top # Deleted
    BY <1>0, AppliedLayers, LayersWellFormed DEF Inv, Stored
  <1>2. /\ DOMAIN visibility' = DOMAIN visibility \cup Updated \cup tx.deletes
        /\ \A id \in tx.deletes : visibility'[id] = Deleted
        /\ \A id \in Updated : visibility'[id] = top
        /\ \A id \in DOMAIN visibility \ (Updated \cup tx.deletes) : visibility'[id] = visibility[id]
    BY <1>0, AppliedVisibility
  <1>3. /\ Updated \subseteq VisibleIds /\ tx.deletes \subseteq VisibleIds
        /\ Inserted \cap DOMAIN visibility = {} /\ Inserted \cap VisibleIds = {}
        /\ \A i \in LayerIds : \A id \in Inserted : ~Holds(i, id)
    <2>1. /\ Updated \subseteq VisibleIds /\ tx.deletes \subseteq VisibleIds
          /\ Len(tx.inserts) \in Nat /\ MaxRowId + Len(tx.inserts) <= U64Max
      BY ApplicableTransaction
    <2>2. QED BY <2>1, NewIdsAreNew DEF Inv, Inserted
  <1>4. \A id : (\E i \in LayerIds' : Holds(i, id)') <=> (\E i \in LayerIds : Holds(i, id)) \/ id \in Touched
    BY <1>1
  <1>5. \A id : id \in VisibleIds <=> Exists(id) /\ \E i \in LayerIds : Holds(i, id)
    BY DEF VisibleIds, Holds
  <1>6. \A id : id \in VisibleIds' <=> Exists(id)' /\ \E i \in LayerIds' : Holds(i, id)'
    BY DEF VisibleIds, Holds
  <1>7. ASSUME NEW id PROVE id \in VisibleIds' <=> id \in (VisibleIds \ tx.deletes) \cup Inserted
    <2>1. CASE id \in tx.deletes
      BY <1>2, <1>3, <1>6, <2>1 DEF Exists
    <2>2. CASE id \in Updated
      <3>1. id \in DOMAIN visibility' /\ visibility'[id] = top /\ id \notin tx.deletes
        BY <1>2, <2>2, ApplicableTransaction
      <3>2. QED BY <1>1, <1>3, <1>4, <1>6, <2>2, <3>1 DEF Exists, Touched
    <2>3. CASE id \in Inserted
      BY <1>2, <1>3, <1>4, <1>6, <2>3 DEF Exists, Touched
    <2>4. CASE id \notin tx.deletes /\ id \notin Updated /\ id \notin Inserted
      <3>1. (\E i \in LayerIds' : Holds(i, id)') <=> (\E i \in LayerIds : Holds(i, id))
        BY <1>4, <2>4 DEF Touched
      <3>2. Exists(id)' <=> Exists(id)
        BY <1>2, <2>4, <3>1 DEF Exists
      <3>3. QED BY <1>5, <1>6, <2>4, <3>1, <3>2
    <2>5. QED BY <2>1, <2>2, <2>3, <2>4
  <1>8. QED BY <1>7

\* Applying a transaction keeps the invariant and raises max_row_id by the inserts.
LEMMA ApplyKeepsInv ==
    ASSUME Inv, Apply
    PROVE  Inv' /\ MaxRowId' = MaxRowId + Len(tx.inserts)
  <1>0. PICK top : top = Len(deltas) + 1
    OBVIOUS
  <1>1. /\ LayerIds \subseteq LayerIds' /\ LayerIds' \subseteq LayerIds \cup {top} /\ top \notin LayerIds
        /\ \A i \in LayerIds : \A id : Holds(i, id)' <=> Holds(i, id)
        /\ top \in LayerIds' => \A id : Holds(top, id)' <=> id \in Touched
        /\ Touched # {} => top \in LayerIds' /\ Len(deltas') = top
        /\ Touched = {} => Len(deltas') = Len(deltas)
        /\ WellFormed(base)' /\ IsSequence(deltas)' /\ (\A i \in 1..Len(deltas) : WellFormed(deltas[i]))'
    BY <1>0, AppliedLayers
  <1>2. /\ DOMAIN visibility' = DOMAIN visibility \cup Updated \cup tx.deletes
        /\ \A id \in tx.deletes : visibility'[id] = Deleted
        /\ \A id \in Updated : visibility'[id] = top
        /\ \A id \in DOMAIN visibility \ (Updated \cup tx.deletes) : visibility'[id] = visibility[id]
    BY <1>0, AppliedVisibility
  <1>3. /\ Updated \subseteq VisibleIds /\ tx.deletes \subseteq VisibleIds
        /\ MaxRowId \in Nat /\ Len(tx.inserts) \in Nat
        /\ MaxRowId + Len(tx.inserts) \in RowIds /\ MaxRowId + Len(tx.inserts) <= U64Max
    BY ApplicableTransaction
  <1>4. VisibleIds \subseteq RowIds /\ LayerIds \subseteq Nat /\ Len(deltas) \in Nat
    BY LayersWellFormed DEF Inv, Stored
  <1>5. /\ RowsAfter \in Nat /\ RowsAfter # 0
        /\ Cardinality((VisibleIds \ tx.deletes) \cup Inserted) = RowsAfter
    BY <1>3, CountedIds, ApplyParts DEF Inv, RowsAfter, Inserted
  <1>6. /\ overlay' = NewOverlay(RowsAfter, MaxRowId + Len(tx.inserts))
        /\ overlay' \in Overlay /\ overlay' # NoOverlay
        /\ overlay'.visible_rows = RowsAfter /\ overlay'.max_row_id = MaxRowId + Len(tx.inserts)
    BY <1>3, <1>5, ApplyParts, NewOverlayFields
  <1>7. MaxRowId' = MaxRowId + Len(tx.inserts) /\ VisibleRows' = RowsAfter
    BY <1>6 DEF MaxRowId, VisibleRows
  <1>8. tx' = NoTx
    BY ApplyParts
  <1>9. LayersTypeOK'
    <2>1. DOMAIN visibility' \subseteq RowIds
      BY <1>2, <1>3, <1>4 DEF Inv, Stored, LayersTypeOK
    <2>2. visibility' = [id \in DOMAIN visibility' |-> visibility'[id]]
      BY ApplyParts DEF Redirected
    <2>3. \A id \in DOMAIN visibility' : visibility'[id] \in {Deleted} \cup 1..Len(deltas')
      <3>1. \A id \in DOMAIN visibility : visibility[id] \in {Deleted} \cup 1..Len(deltas)
        BY DEF Inv, Stored, LayersTypeOK
      <3>2. Len(deltas') \in Nat /\ Len(deltas) <= Len(deltas')
        BY <1>0, <1>1, <1>4
      <3>3. \A id \in Updated : top \in 1..Len(deltas')
        BY <1>0, <1>1, <1>4 DEF Touched
      <3>4. QED BY <1>2, <1>4, <3>1, <3>2, <3>3
    <2>4. visibility' \in [DOMAIN visibility' -> {Deleted} \cup 1..Len(deltas')]
      BY <2>2, <2>3
    <2>5. QED BY <1>1, <1>6, <1>8, <2>1, <2>4 DEF LayersTypeOK, IsSequence
  <1>10. OneVersionPerRow'
    <2>1. ASSUME NEW id \in DOMAIN visibility', visibility'[id] # Deleted
          PROVE  (visibility'[id] \in LayerIds') /\ \A i : i = visibility'[id] => Holds(i, id)'
      <3>1. CASE id \in Updated
        BY <1>1, <1>2, <3>1 DEF Touched
      <3>2. CASE id \notin Updated
        <4>1. id \in DOMAIN visibility /\ visibility'[id] = visibility[id] /\ visibility[id] # Deleted
          BY <1>2, <2>1, <3>2
        <4>2. visibility[id] \in LayerIds /\ Holds(visibility[id], id)
          BY <4>1 DEF Inv, Stored, OneVersionPerRow, LayersTypeOK, LayerIds
        <4>3. QED BY <1>1, <4>1, <4>2
      <3>3. QED BY <3>1, <3>2
    <2>2. ASSUME NEW id \in RowIds \ DOMAIN visibility', NEW i \in LayerIds', NEW j \in LayerIds',
                 Holds(i, id)', Holds(j, id)'
          PROVE  i = j
      <3>1. id \notin DOMAIN visibility /\ id \notin Updated
        BY <1>2, <2>2
      <3>2. CASE id \in Inserted
        <4>1. \A k \in LayerIds : ~Holds(k, id)
          BY <1>3, <3>2, NewIdsAreNew DEF Inv, Inserted
        <4>2. QED BY <1>1, <2>2, <4>1
      <3>3. CASE id \notin Inserted
        <4>1. i \in LayerIds /\ j \in LayerIds
          BY <1>1, <2>2, <3>1, <3>3 DEF Touched
        <4>2. Holds(i, id) /\ Holds(j, id)
          BY <1>1, <2>2, <4>1
        <4>3. QED BY <3>1, <4>1, <4>2 DEF Inv, Stored, OneVersionPerRow
      <3>4. QED BY <3>2, <3>3
    <2>3. \A id \in DOMAIN visibility' : visibility'[id] # Deleted => Holds(visibility[id], id)'
      BY <2>1 DEF Holds
    <2>4. QED BY <2>2, <2>3 DEF OneVersionPerRow
  <1>11. IdsBelowMax'
    <2>1. \A id \in VisibleIds \cup DOMAIN visibility : id \in Nat /\ id <= MaxRowId
      BY <1>4 DEF Inv, Stored, IdsBelowMax, VisibleIds, LayersTypeOK, RowIds
    <2>2. \A id \in Touched : id \in Nat /\ id <= MaxRowId'
      BY <1>3, <1>7, <2>1 DEF Touched, Inserted, NewIds
    <2>3. \A i \in LayerIds : \A id : Holds(i, id) => id \in Nat /\ id <= MaxRowId
      BY LayersWellFormed DEF Inv, Stored, IdsBelowMax, Holds, WellFormed, RowIds
    <2>4. \A i \in LayerIds' : \A id : Holds(i, id)' => id <= MaxRowId'
      BY <1>1, <1>3, <1>7, <2>2, <2>3
    <2>5. \A id \in DOMAIN visibility' : id <= MaxRowId'
      BY <1>2, <1>3, <1>7, <2>1
    <2>6. QED BY <2>4, <2>5 DEF IdsBelowMax, Holds
  <1>12. CountIsRight'
    BY <1>5, <1>7, AppliedRows DEF CountIsRight
  <1>13. Prepared'
    BY <1>8 DEF Prepared, PreparedIsApplicable, PreparedFits
  <1>14. QED BY <1>7, <1>9, <1>10, <1>11, <1>12, <1>13 DEF Inv, Stored


----------------------------------------------------------------------------
(* A table that is a base layer alone: after an import and a compaction.   *)

OnlyBase == /\ WellFormed(base) /\ deltas = <<>> /\ visibility = <<>>
            /\ overlay = NoOverlay /\ tx = NoTx

BaseIsAll ==
    /\ Inv
    /\ LogicalCols = base.cols /\ VisibleIds = DOMAIN base.rows
    /\ MaxRowId = HighestId(DOMAIN base.rows)
    /\ MaxRowId \in VisibleIds /\ \A id \in VisibleIds : id <= MaxRowId
    /\ \A id \in VisibleIds : HomeLayer(id) = 0

(* Without deltas and overrides the table is the base layer.               *)
LEMMA BaseAlone == OnlyBase => BaseIsAll
  <1> SUFFICES ASSUME OnlyBase PROVE BaseIsAll
    OBVIOUS
  <1>1. LayerIds = {0} /\ Layer(0) = base /\ \A id : Holds(0, id) <=> id \in DOMAIN base.rows
    BY DEF OnlyBase, LayerIds, Layer, Holds
  <1>2. LogicalCols = base.cols /\ NullableCols = base.nullable
    BY <1>1 DEF LogicalCols, NullableCols, OnlyBase, WellFormed
  <1>3. LayersTypeOK
    <2>1. visibility \in [DOMAIN visibility -> {Deleted} \cup 1..Len(deltas)] /\ DOMAIN visibility = {}
      BY DEF OnlyBase
    <2>2. deltas \in Seq({deltas[i] : i \in DOMAIN deltas}) /\ 1..Len(deltas) = {}
      BY DEF OnlyBase
    <2>3. QED BY <2>1, <2>2 DEF OnlyBase, LayersTypeOK
  <1>4. OneVersionPerRow
    BY <1>1 DEF OnlyBase, OneVersionPerRow
  <1>5. VisibleIds = DOMAIN base.rows
    BY <1>1 DEF OnlyBase, VisibleIds, Exists
  <1>6. /\ DOMAIN base.rows \in SUBSET RowIds /\ DOMAIN base.rows # {}
        /\ MaxRowId = HighestId(DOMAIN base.rows)
        /\ MaxRowId \in DOMAIN base.rows /\ \A id \in DOMAIN base.rows : id <= MaxRowId
    BY HighestIdIsHighest DEF OnlyBase, WellFormed, MaxRowId
  <1>7. IdsBelowMax
    BY <1>1, <1>6 DEF OnlyBase, IdsBelowMax
  <1>8. CountIsRight
    <2>1. VisibleRows = Cardinality(VisibleIds)
      BY <1>5 DEF OnlyBase, VisibleRows
    <2>2. IsFiniteSet(VisibleIds) /\ VisibleIds # {}
      BY <1>5, <1>6, RowIdsAreFinite
    <2>3. QED BY <2>1, <2>2, FS_EmptySet DEF CountIsRight
  <1>9. Prepared
    BY DEF OnlyBase, Prepared, PreparedIsApplicable, PreparedFits
  <1>10. Inv
    BY <1>3, <1>4, <1>7, <1>8, <1>9 DEF Inv, Stored
  <1>11. \A id \in VisibleIds : HomeLayer(id) = 0
    BY <1>1, <1>3, <1>4, Homes DEF HomesKnown
  <1>12. QED BY <1>2, <1>5, <1>6, <1>10, <1>11 DEF BaseIsAll

(* After an import there is only the base layer,                           *)
LEMMA InitOnlyBase == Init => OnlyBase
  <1> SUFFICES ASSUME Init PROVE OnlyBase
    OBVIOUS
  <1>1. PICK s \in Schemas, n \in BatchSizes :
          /\ n - 1 <= U64Max
          /\ \E rs \in [0..(n - 1) -> RowsOf(s)] :
               base = [cols |-> s.cols, nullable |-> s.nullable, rows |-> rs]
    BY DEF Init
  <1>2. PICK rs \in [0..(n - 1) -> RowsOf(s)] :
          base = [cols |-> s.cols, nullable |-> s.nullable, rows |-> rs]
    BY <1>1
  <1>3. base.cols = s.cols /\ base.nullable = s.nullable /\ base.rows = rs
    BY <1>2
  <1>4. s.cols \subseteq Columns /\ s.nullable \subseteq s.cols /\ n \in Nat \ {0}
    OBVIOUS
  <1>5. DOMAIN base.rows \subseteq RowIds /\ 0 \in DOMAIN base.rows
    BY <1>1, <1>3, <1>4 DEF RowIds
  <1>6. \A id \in DOMAIN base.rows : base.rows[id] \in RowsOf(base)
    BY <1>3 DEF RowsOf
  <1>7. WellFormed(base)
    BY <1>3, <1>4, <1>5, <1>6 DEF WellFormed
  <1>8. QED BY <1>7 DEF Init, OnlyBase

(* and after a compaction, whose base layer has the visible rows.          *)
LEMMA CompactOnlyBase ==
    ASSUME Stored, Compact
    PROVE  /\ OnlyBase'
           /\ base'.cols = LogicalCols /\ DOMAIN base'.rows = VisibleIds
           /\ \A id \in VisibleIds : base'.rows[id] = RowValues(id)
  <1>1. /\ base'.cols = LogicalCols /\ base'.nullable = NullableCols
        /\ DOMAIN base'.rows = VisibleIds /\ \A id \in VisibleIds : base'.rows[id] = RowValues(id)
    BY DEF Compact
  <1>2. LogicalCols \subseteq Columns /\ NullableCols \subseteq LogicalCols /\ VisibleIds \subseteq RowIds
    BY LayersWellFormed DEF Stored
  <1>3. VisibleIds # {}
    BY FS_EmptySet DEF Compact, CompactionAccepts
  <1>4. \A id \in VisibleIds : RowValues(id) \in RowsOf(base')
    BY <1>1, RowsSeen DEF RowsKnown, RowsOf, Stored
  <1>5. WellFormed(base')
    BY <1>1, <1>2, <1>3, <1>4 DEF WellFormed
  <1>6. QED BY <1>1, <1>5 DEF Compact, OnlyBase


----------------------------------------------------------------------------
(* Appending a file.                                                       *)

CsvLayer(s, rs) == [cols |-> s.cols, nullable |-> s.nullable, rows |-> rs]

(* The layer of an appended CSV.                                           *)
LEMMA CsvLayerWellFormed ==
    ASSUME Stored, NEW s \in Schemas, NEW n \in BatchSizes, MaxRowId + n <= U64Max,
           NEW rs \in [NewIds(n) -> RowsOf(s)]
    PROVE  /\ WellFormed(CsvLayer(s, rs)) /\ DOMAIN CsvLayer(s, rs).rows = NewIds(n)
           /\ CsvLayer(s, rs).cols = s.cols
           /\ \A id \in NewIds(n) : CsvLayer(s, rs).rows[id] = rs[id]
           /\ n \in Nat /\ MaxRowId \in Nat
  <1>1. s.cols \subseteq Columns /\ s.nullable \subseteq s.cols /\ n \in Nat \ {0}
    OBVIOUS
  <1>2. MaxRowId \in Nat
    BY MaxRowIdTyped DEF Stored
  <1>3. NewIds(n) \subseteq RowIds /\ MaxRowId + 1 \in NewIds(n)
    BY <1>1, <1>2, NewIdsAreNew DEF NewIds
  <1>4. /\ CsvLayer(s, rs).cols = s.cols /\ CsvLayer(s, rs).nullable = s.nullable
        /\ CsvLayer(s, rs).rows = rs
    BY DEF CsvLayer
  <1>5. \A id \in NewIds(n) : CsvLayer(s, rs).rows[id] \in RowsOf(CsvLayer(s, rs))
    BY <1>4 DEF RowsOf
  <1>6. QED BY <1>1, <1>2, <1>3, <1>4, <1>5 DEF WellFormed

\* Appending a CSV keeps the invariant and adds the new ids to the visible ones.
LEMMA AppendKeepsInv ==
    ASSUME Inv, NEW s \in Schemas, NEW n \in BatchSizes, AppendCsv(s, n)
    PROVE  /\ Inv' /\ MaxRowId' = MaxRowId + n /\ VisibleIds' = VisibleIds \cup NewIds(n)
           /\ MaxRowId \in Nat /\ n \in Nat \ {0} /\ MaxRowId + n \in RowIds
           /\ LogicalCols \subseteq LogicalCols'
           /\ LayerIds \subseteq LayerIds' /\ \A i \in LayerIds : Layer(i)' = Layer(i)
           /\ \A i \in LayerIds : \A id : Holds(i, id)' <=> Holds(i, id)
  <1>1. MaxRowId + n <= U64Max /\ UNCHANGED <<base, visibility, tx>> /\ tx = NoTx
    BY DEF AppendCsv
  <1>2. PICK rs \in [NewIds(n) -> RowsOf(s)] : Extends(deltas', deltas, CsvLayer(s, rs))
    BY DEF AppendCsv, NewIds, Extends, CsvLayer
  <1>0. PICK top : top = Len(deltas) + 1
    OBVIOUS
  <1>3. /\ WellFormed(CsvLayer(s, rs)) /\ DOMAIN CsvLayer(s, rs).rows = NewIds(n)
        /\ n \in Nat /\ MaxRowId \in Nat
    BY <1>1, CsvLayerWellFormed DEF Inv
  <1>4. /\ LayerIds' = LayerIds \cup {top} /\ top \notin LayerIds /\ Len(deltas') = top
        /\ \A i \in LayerIds : Layer(i)' = Layer(i)
        /\ \A i \in LayerIds : \A id : Holds(i, id)' <=> Holds(i, id)
        /\ \A id : Holds(top, id)' <=> id \in NewIds(n)
        /\ LogicalCols \subseteq LogicalCols'
        /\ WellFormed(base)' /\ IsSequence(deltas)' /\ (\A i \in 1..Len(deltas) : WellFormed(deltas[i]))'
    <2>1. LayersTypeOK /\ UNCHANGED base
      BY <1>1 DEF Inv, Stored
    <2>2. QED BY <1>0, <1>2, <1>3, <2>1, AppendedLayer
  <1>5. /\ NewIds(n) \subseteq RowIds /\ NewIds(n) \cap DOMAIN visibility = {}
        /\ NewIds(n) \cap VisibleIds = {}
        /\ \A i \in LayerIds : \A id \in NewIds(n) : ~Holds(i, id)
    BY <1>1, <1>3, NewIdsAreNew DEF Inv
  <1>6. VisibleIds \subseteq RowIds /\ LayerIds \subseteq Nat /\ Len(deltas) \in Nat
    BY LayersWellFormed DEF Inv, Stored
  <1>7. VisibleIds' = VisibleIds \cup NewIds(n)
    <2>1. \A id : id \in VisibleIds <=> Exists(id) /\ \E i \in LayerIds : Holds(i, id)
      BY DEF VisibleIds, Holds
    <2>2. \A id : id \in VisibleIds' <=> Exists(id)' /\ \E i \in LayerIds' : Holds(i, id)'
      BY DEF VisibleIds, Holds
    <2>3. \A id : (\E i \in LayerIds' : Holds(i, id)')
                    <=> (\E i \in LayerIds : Holds(i, id)) \/ id \in NewIds(n)
      BY <1>4
    <2>4. ASSUME NEW id PROVE id \in VisibleIds' <=> id \in VisibleIds \cup NewIds(n)
      BY <1>1, <1>5, <2>1, <2>2, <2>3 DEF Exists
    <2>5. QED BY <2>4
  <1>8. /\ VisibleRows + n \in Nat /\ VisibleRows + n # 0
        /\ Cardinality(VisibleIds \cup NewIds(n)) = VisibleRows + n
    <2>1. VisibleRows \in Nat /\ VisibleRows # 0
      BY <1>6, RowIdsAreFinite DEF Inv, CountIsRight
    <2>2. Cardinality({}) = 0 /\ (VisibleIds \ {}) \cup NewIds(n) = VisibleIds \cup NewIds(n)
      BY FS_EmptySet
    <2>3. Cardinality((VisibleIds \ {}) \cup NewIds(n)) = VisibleRows - Cardinality({}) + n
      BY <1>1, <1>3, CountedIds DEF Inv
    <2>4. QED BY <1>3, <2>1, <2>2, <2>3
  <1>9. MaxRowId + n \in RowIds
    BY <1>1, <1>3 DEF RowIds
  <1>10. /\ overlay' = NewOverlay(VisibleRows + n, MaxRowId + n)
         /\ overlay' \in Overlay /\ overlay' # NoOverlay
         /\ overlay'.visible_rows = VisibleRows + n /\ overlay'.max_row_id = MaxRowId + n
    <2>1. overlay' = NewOverlay(VisibleRows + n, MaxRowId + n)
      BY DEF AppendCsv, NewOverlay
    <2>2. QED BY <1>8, <1>9, <2>1, NewOverlayFields
  <1>11. MaxRowId' = MaxRowId + n /\ VisibleRows' = VisibleRows + n
    BY <1>10 DEF MaxRowId, VisibleRows
  <1>12. LayersTypeOK'
    <2>1. visibility \in [DOMAIN visibility -> {Deleted} \cup 1..Len(deltas')] /\ DOMAIN visibility \subseteq RowIds
      <3>1. /\ DOMAIN visibility \subseteq RowIds
            /\ visibility \in [DOMAIN visibility -> {Deleted} \cup 1..Len(deltas)]
        BY DEF Inv, Stored, LayersTypeOK
      <3>2. 1..Len(deltas) \subseteq 1..Len(deltas')
        BY <1>0, <1>4, <1>6
      <3>3. QED BY <3>1, <3>2
    <2>2. QED BY <1>1, <1>4, <1>10, <2>1 DEF LayersTypeOK, IsSequence
  <1>13. OneVersionPerRow'
    <2>1. ASSUME NEW id \in DOMAIN visibility, visibility[id] # Deleted
          PROVE  \A i : i = visibility[id] => Holds(i, id)'
      <3>1. visibility[id] \in LayerIds /\ Holds(visibility[id], id)
        BY <2>1 DEF Inv, Stored, OneVersionPerRow, LayersTypeOK, LayerIds
      <3>2. QED BY <1>4, <3>1
    <2>2. ASSUME NEW id \in RowIds \ DOMAIN visibility, NEW i \in LayerIds', NEW j \in LayerIds',
                 Holds(i, id)', Holds(j, id)'
          PROVE  i = j
      <3>1. CASE id \in NewIds(n)
        BY <1>4, <1>5, <2>2, <3>1
      <3>2. CASE id \notin NewIds(n)
        <4>1. i \in LayerIds /\ j \in LayerIds /\ Holds(i, id) /\ Holds(j, id)
          BY <1>4, <2>2, <3>2
        <4>2. QED BY <2>2, <4>1 DEF Inv, Stored, OneVersionPerRow
      <3>3. QED BY <3>1, <3>2
    <2>3. \A id \in DOMAIN visibility' : visibility'[id] # Deleted => Holds(visibility[id], id)'
      BY <1>1, <2>1 DEF Holds
    <2>4. QED BY <1>1, <2>2, <2>3 DEF OneVersionPerRow
  <1>14. IdsBelowMax'
    <2>1. \A i \in LayerIds : \A id : Holds(i, id) => id \in Nat /\ id <= MaxRowId
      BY LayersWellFormed DEF Inv, Stored, IdsBelowMax, Holds, WellFormed, RowIds
    <2>2. \A id \in NewIds(n) : id <= MaxRowId + n
      BY <1>3 DEF NewIds
    <2>3. \A i \in LayerIds' : \A id : Holds(i, id)' => id <= MaxRowId'
      BY <1>3, <1>4, <1>11, <2>1, <2>2
    <2>4. \A id \in DOMAIN visibility : id <= MaxRowId'
      BY <1>3, <1>11 DEF Inv, Stored, IdsBelowMax, LayersTypeOK, RowIds
    <2>5. QED BY <1>1, <2>3, <2>4 DEF IdsBelowMax, Holds
  <1>15. CountIsRight'
    BY <1>7, <1>8, <1>11 DEF CountIsRight
  <1>16. Prepared'
    BY <1>1 DEF Prepared, PreparedIsApplicable, PreparedFits
  <1>17. n # 0
    OBVIOUS
  <1>18. QED BY <1>3, <1>4, <1>7, <1>9, <1>11, <1>12, <1>13, <1>14, <1>15, <1>16, <1>17 DEF Inv, Stored

----------------------------------------------------------------------------
(* Safety.                                                                 *)

Preparing ==
    \/ Begin
    \/ \E id \in RowIds : PrepareDelete(id)
    \/ \E id \in RowIds, c \in Columns, v \in Cell : PrepareUpdate(id, c, v)
    \/ \E row \in Row : PrepareInsert(row)

(* The invariant is inductive.                                             *)
LEMMA NextKeepsInv == Inv /\ [Next]_vars => Inv'
  <1> SUFFICES ASSUME Inv, [Next]_vars PROVE Inv'
    OBVIOUS
  <1>1. ASSUME UNCHANGED <<base, deltas, visibility, overlay>>, LayersTypeOK', Prepared' PROVE Inv'
    BY <1>1, StoreKept DEF Inv, Stored, CountIsRight
  <1>2. CASE Preparing
    BY <1>1, <1>2, PrepareStepsKeepPrepared DEF Preparing, Inv
  <1>3. ASSUME tx' = NoTx, UNCHANGED <<base, deltas, visibility, overlay>> PROVE LayersTypeOK' /\ Prepared'
    BY <1>3 DEF Inv, Stored, LayersTypeOK, Prepared, PreparedIsApplicable, PreparedFits
  <1>4. CASE Refuse
    BY <1>1, <1>3, <1>4 DEF Refuse
  <1>5. CASE Apply
    BY <1>5, ApplyKeepsInv
  <1>6. ASSUME NEW s \in Schemas, NEW n \in BatchSizes, AppendCsv(s, n) PROVE Inv'
    BY <1>6, AppendKeepsInv
  <1>7. CASE Compact
    <2>1. OnlyBase'
      BY <1>7, CompactOnlyBase DEF Inv
    <2>2. (OnlyBase => BaseIsAll)'
      BY BaseAlone, PTL
    <2>3. QED BY <2>1, <2>2 DEF BaseIsAll
  <1>8. CASE UNCHANGED vars
    <2>1. UNCHANGED <<base, deltas, visibility, overlay, tx>>
      BY <1>8 DEF vars
    <2>2. LogicalCols' = LogicalCols /\ NullableCols' = NullableCols /\ VisibleIds' = VisibleIds
      BY <2>1, StoreKept
    <2>3. LayersTypeOK' /\ Prepared'
      BY <2>1, <2>2 DEF Inv, Stored, LayersTypeOK, Prepared, PreparedIsApplicable, PreparedFits
    <2>4. QED BY <1>1, <2>1, <2>3
  <1>9. QED BY <1>2, <1>4, <1>5, <1>6, <1>7, <1>8 DEF Next, Preparing

(* The inductive invariant holds in every reachable state.                 *)
THEOREM InvHolds == Spec => []Inv
  <1>1. Init => Inv
    BY InitOnlyBase, BaseAlone DEF BaseIsAll
  <1>2. QED BY <1>1, NextKeepsInv, PTL DEF Spec

(* Layers, overrides, overlay and transactions always have their types: an *)
(* override points at an existing layer, a layer's cells fit its schema.   *)
THEOREM TypeCorrect == Spec => []LayersTypeOK
  <1>1. Inv => LayersTypeOK
    BY DEF Inv, Stored
  <1>2. QED BY <1>1, InvHolds, PTL

(* Every stored row has one visible version or none (versioned.rs).        *)
THEOREM VersionsAreUnique == Spec => []OneVersionPerRow
  <1>1. Inv => OneVersionPerRow
    BY DEF Inv, Stored
  <1>2. QED BY <1>1, InvHolds, PTL

(* The ids that an insert or an append allocates are new (overlay.rs).     *)
THEOREM AllocatedIdsAreNew == Spec => []IdsBelowMax
  <1>1. Inv => IdsBelowMax
    BY DEF Inv, Stored
  <1>2. QED BY <1>1, InvHolds, PTL

(* Whenever a transaction is applied, what it was checked against holds    *)
(* (delta_mutation.rs).                                                    *)
THEOREM TransactionsStayApplicable == Spec => []PreparedIsApplicable
  <1>1. Inv => PreparedIsApplicable
    BY DEF Inv, Prepared
  <1>2. QED BY <1>1, InvHolds, PTL

(* The overlay's row count is the number of visible rows, which is never   *)
(* 0, and a visible NULL is one the merged schema allows: compaction is    *)
(* never refused (compaction.rs).                                          *)
THEOREM CompactionIsAccepted == Spec => []CountsAndNullsAgree
  <1>1. Inv => CountsAndNullsAgree
    BY RowsSeen DEF Inv, Stored, CountIsRight, RowsKnown, CountsAndNullsAgree, CompactionAccepts
  <1>2. QED BY <1>1, InvHolds, PTL


----------------------------------------------------------------------------
(* The layers implement the table of rows.                                 *)

SeenInBoth == HomesKnown /\ RowsKnown /\ HomesKnown' /\ RowsKnown'

\* Before and after a step, every visible row has one home and reads as a row.
LEMMA InvSeen == Inv /\ Inv' => SeenInBoth
  <1>1. Inv => HomesKnown /\ RowsKnown
    BY Homes, RowsSeen DEF Inv, Stored
  <1>2. (Inv => HomesKnown /\ RowsKnown)'
    BY <1>1, PTL
  <1>3. QED BY <1>1, <1>2 DEF SeenInBoth

(* The view is determined by its rows.                                     *)
LEMMA ViewIsFunction ==
    View = [id \in VisibleIds |-> View[id]] /\ DOMAIN View = VisibleIds
  BY DEF View

(* A row whose layer stays reads as before.                                *)
LEMMA RowKept ==
    ASSUME SeenInBoth, NEW id \in VisibleIds, id \in VisibleIds',
           NEW i \in LayerIds, HomeLayer(id) = i, HomeLayer(id)' = i, Layer(i)' = Layer(i)
    PROVE  View'[id] = View[id]
  BY DEF SeenInBoth, RowsKnown

(* The rows after a transaction.                                           *)
LEMMA AppliedView ==
    ASSUME Inv, Inv', Apply, NEW id \in VisibleIds'
    PROVE  View'[id] = IF id \in Inserted THEN tx.inserts[id - MaxRowId]
                       ELSE IF id \in Updated
                       THEN [c \in Columns |-> IF c \in DOMAIN tx.updates[id]
                                               THEN tx.updates[id][c] ELSE View[id][c]]
                       ELSE View[id]
  <1>0. PICK top : top = Len(deltas) + 1
    OBVIOUS
  <1>1. /\ LayerIds \subseteq LayerIds' /\ LayerIds' \subseteq LayerIds \cup {top}
        /\ \A i \in LayerIds : Layer(i)' = Layer(i)
        /\ \A i \in LayerIds : \A k : Holds(i, k)' <=> Holds(i, k)
        /\ top \in LayerIds' => \A k : Holds(top, k)' <=> k \in Touched
        /\ Touched # {} => top \in LayerIds' /\ Layer(top)' = DeltaLayer
    BY <1>0, AppliedLayers
  <1>2. /\ DOMAIN visibility' = DOMAIN visibility \cup Updated \cup tx.deletes
        /\ \A k \in Updated : visibility'[k] = top
        /\ \A k \in DOMAIN visibility \ (Updated \cup tx.deletes) : visibility'[k] = visibility[k]
    BY <1>0, AppliedVisibility
  <1>3. SeenInBoth
    BY InvSeen
  <1>4. id \in (VisibleIds \ tx.deletes) \cup Inserted
    BY AppliedRows
  <1>5. /\ LogicalCols \subseteq Columns
        /\ UpdatesFit(tx.updates) /\ InsertsFit(tx.inserts)
        /\ Updated \subseteq VisibleIds /\ Updated \cap tx.deletes = {}
        /\ Len(tx.inserts) \in Nat /\ MaxRowId + Len(tx.inserts) <= U64Max
        /\ tx.deletes \subseteq VisibleIds
    BY ApplicableTransaction, LayersWellFormed DEF Inv, Stored
  <1>6. /\ Inserted \cap DOMAIN visibility = {} /\ Inserted \cap VisibleIds = {}
        /\ \A k \in Inserted : k - MaxRowId \in 1..Len(tx.inserts)
    BY <1>5, NewIdsAreNew DEF Inv, Inserted
  <1>7. ASSUME id \in Touched
        PROVE  View'[id] = Aligned(Whole(id), Columns)
    <2>1. top \in LayerIds' /\ Layer(top)' = DeltaLayer /\ Holds(top, id)'
      BY <1>1, <1>7
    <2>2. CASE id \in Updated
      <3>1. id \in DOMAIN visibility' /\ visibility'[id] = top
        BY <1>2, <2>2
      <3>2. HomeLayer(id)' = top
        BY <1>3, <3>1 DEF SeenInBoth, HomesKnown
      <3>3. QED BY <1>3, <1>7, <2>1, <3>2, DeltaLayerFields DEF SeenInBoth, RowsKnown
    <2>3. CASE id \in Inserted
      <3>1. id \notin DOMAIN visibility'
        BY <1>2, <1>5, <1>6, <2>3
      <3>2. HomeLayer(id)' = top
        BY <1>3, <2>1, <3>1 DEF SeenInBoth, HomesKnown
      <3>3. QED BY <1>3, <1>7, <2>1, <3>2, DeltaLayerFields DEF SeenInBoth, RowsKnown
    <2>4. QED BY <1>7, <2>2, <2>3 DEF Touched
  <1>8. CASE id \in Inserted
    <2> DEFINE row == tx.inserts[id - MaxRowId]
    <2>1. row \in Row /\ \A c \in Columns : c \notin LogicalCols => row[c] = Null
      BY <1>5, <1>6, <1>8 DEF InsertsFit
    <2>2. View'[id] = Aligned(Aligned(row, LogicalCols), Columns)
      BY <1>7, <1>8 DEF Touched, Whole
    <2> HIDE DEF row
    <2>3. Aligned(Aligned(row, LogicalCols), Columns) = row
      <3>1. row = [c \in Columns |-> row[c]]
        BY <2>1 DEF Row
      <3>2. \A c \in Columns : Aligned(Aligned(row, LogicalCols), Columns)[c] = row[c]
        BY <1>5, <2>1 DEF Aligned, Row
      <3>3. Aligned(Aligned(row, LogicalCols), Columns) \in [Columns -> {row[c] : c \in Columns}]
        BY <3>2 DEF Aligned
      <3>4. QED BY <3>1, <3>2 DEF Aligned
    <2>4. QED BY <1>8, <2>2, <2>3 DEF row
  <1>9. CASE id \in Updated /\ id \notin Inserted
    <2> DEFINE u == tx.updates[id]
    <2> DEFINE r == RowValues(id)
    <2>1. id \in VisibleIds /\ DOMAIN u \subseteq LogicalCols
      BY <1>5, <1>9 DEF UpdatesFit, Updated
    <2>2. View[id] = Aligned(r, Columns) /\ DOMAIN r = LogicalCols
      BY <1>3, <2>1 DEF View, SeenInBoth, RowsKnown
    <2>3. Whole(id) = [c \in LogicalCols |-> IF c \in DOMAIN u THEN u[c] ELSE r[c]]
      BY <1>9 DEF Whole
    <2>4. View'[id] = Aligned(Whole(id), Columns)
      BY <1>7, <1>9 DEF Touched
    <2> HIDE DEF u, r
    <2>5. Aligned(Whole(id), Columns)
            = [c \in Columns |-> IF c \in DOMAIN u THEN u[c] ELSE Aligned(r, Columns)[c]]
      BY <1>5, <2>1, <2>2, <2>3 DEF Aligned
    <2>6. QED BY <1>9, <2>2, <2>4, <2>5 DEF u
  <1>10. CASE id \notin Updated /\ id \notin Inserted
    <2>1. id \in VisibleIds /\ id \notin tx.deletes
      BY <1>4, <1>10
    <2>2. PICK i \in LayerIds : i = HomeLayer(id)
      BY <1>3, <2>1 DEF SeenInBoth, HomesKnown
    <2>3. HomeLayer(id)' = i
      <3>1. CASE id \in DOMAIN visibility
        BY <1>2, <1>3, <1>10, <2>1, <2>2, <3>1 DEF SeenInBoth, HomesKnown
      <3>2. CASE id \notin DOMAIN visibility
        <4>1. id \notin DOMAIN visibility' /\ i \in LayerIds' /\ Holds(i, id)'
          BY <1>1, <1>2, <1>3, <1>10, <2>1, <2>2, <3>2 DEF SeenInBoth, HomesKnown
        <4>2. QED BY <1>3, <4>1 DEF SeenInBoth, HomesKnown
      <3>3. QED BY <3>1, <3>2
    <2>4. QED BY <1>1, <1>3, <1>10, <2>1, <2>2, <2>3, RowKept
  <1>11. QED BY <1>8, <1>9, <1>10

(* Appending leaves every visible row as it was.                           *)
LEMMA AppendedView ==
    ASSUME Inv, Inv', NEW s \in Schemas, NEW n \in BatchSizes, AppendCsv(s, n), NEW id \in VisibleIds
    PROVE  id \in VisibleIds' /\ View'[id] = View[id]
  <1>1. /\ VisibleIds' = VisibleIds \cup NewIds(n)
        /\ LayerIds \subseteq LayerIds' /\ \A i \in LayerIds : Layer(i)' = Layer(i)
        /\ \A i \in LayerIds : \A k : Holds(i, k)' <=> Holds(i, k)
        /\ visibility' = visibility
    BY AppendKeepsInv DEF AppendCsv
  <1>2. SeenInBoth
    BY InvSeen
  <1>3. PICK i \in LayerIds : i = HomeLayer(id)
    BY <1>2 DEF SeenInBoth, HomesKnown
  <1>4. HomeLayer(id)' = i
    BY <1>1, <1>2, <1>3 DEF SeenInBoth, HomesKnown
  <1>5. QED BY <1>1, <1>2, <1>3, <1>4, RowKept

\* A compaction leaves the view as it was, and max_row_id is the highest visible id.
LEMMA CompactedView ==
    ASSUME Inv, Inv', Compact
    PROVE  View' = View /\ MaxRowId' \in VisibleIds /\ \A id \in VisibleIds : id <= MaxRowId'
  <1>1. /\ OnlyBase' /\ DOMAIN base'.rows = VisibleIds
        /\ \A id \in VisibleIds : base'.rows[id] = RowValues(id)
    BY CompactOnlyBase DEF Inv
  <1>2. (OnlyBase => BaseIsAll)'
    BY BaseAlone, PTL
  <1>3. /\ VisibleIds' = VisibleIds /\ MaxRowId' \in VisibleIds /\ \A id \in VisibleIds : id <= MaxRowId'
        /\ \A id \in VisibleIds : HomeLayer(id)' = 0
    BY <1>1, <1>2 DEF BaseIsAll
  <1>4. SeenInBoth /\ Layer(0)' = base'
    BY InvSeen DEF Layer
  <1>5. ASSUME NEW id \in VisibleIds PROVE View'[id] = View[id]
    <2>1. View'[id] = Aligned(RowValues(id), Columns)
      BY <1>1, <1>3, <1>4 DEF SeenInBoth, RowsKnown
    <2>2. QED BY <2>1 DEF View
  <1>6. View' = [id \in VisibleIds' |-> View'[id]]
    BY DEF View
  <1>7. QED BY <1>3, <1>5, <1>6, ViewIsFunction

(* The step of the table that a step of the layers is.                     *)
LEMMA StepImplements == Inv /\ Inv' /\ [Next]_vars => [Table!Next]_(Table!vars)
  <1> SUFFICES ASSUME Inv, Inv', [Next]_vars PROVE [Table!Next]_(Table!vars)
    OBVIOUS
  <1>0. SeenInBoth /\ DOMAIN View = VisibleIds
    BY InvSeen, ViewIsFunction
  <1>1. ASSUME UNCHANGED <<base, deltas, visibility, overlay>>
        PROVE  View' = View /\ MaxRowId' = MaxRowId
    BY <1>0, <1>1, StoreKept, ViewKept DEF SeenInBoth
  <1>2. ASSUME Begin PROVE Table!Begin
    BY <1>1, <1>2 DEF Begin, Table!Begin
  <1>3. ASSUME NEW id \in RowIds, PrepareDelete(id) PROVE Table!Delete(id)
    BY <1>0, <1>1, <1>3, ExistingAreVisible DEF PrepareDelete, PrepareMore, Table!Delete, Inv, Stored
  <1>4. ASSUME NEW id \in RowIds, NEW c \in Columns, NEW v \in Cell, PrepareUpdate(id, c, v)
        PROVE  Table!Update(id, c, v)
    BY <1>0, <1>1, <1>4, ExistingAreVisible DEF PrepareUpdate, PrepareMore, Table!Update, Inv, Stored
  <1>5. ASSUME NEW row \in Row, PrepareInsert(row) PROVE Table!Insert(row)
    BY <1>1, <1>5 DEF PrepareInsert, PrepareMore, Table!Insert
  <1>6. ASSUME Refuse PROVE Table!Refuse
    BY <1>1, <1>6 DEF Refuse, Table!Refuse
  <1>7. ASSUME Apply PROVE Table!Commit
    <2>1. tx # NoTx /\ tx' = NoTx /\ MaxRowId' = MaxRowId + Len(tx.inserts)
      BY <1>7, ApplyParts, ApplyKeepsInv
    <2>2. VisibleIds' = (VisibleIds \ tx.deletes) \cup Inserted
      BY <1>7, AppliedRows
    <2>3. VisibleIds' # {}
      BY FS_EmptySet DEF Inv, CountIsRight
    <2>4. View' = [id \in VisibleIds' |-> View'[id]]
      BY DEF View
    <2>5. View' = [id \in VisibleIds' |->
                     IF id \in Inserted THEN tx.inserts[id - MaxRowId]
                     ELSE IF id \in Updated
                     THEN [c \in Columns |-> IF c \in DOMAIN tx.updates[id]
                                             THEN tx.updates[id][c] ELSE View[id][c]]
                     ELSE View[id]]
      BY <1>7, <2>4, AppliedView
    <2>6. QED BY <1>0, <2>1, <2>2, <2>3, <2>5 DEF Table!Commit, Inserted, Updated, NewIds
  <1>8. ASSUME NEW s \in Schemas, NEW n \in BatchSizes, AppendCsv(s, n) PROVE Table!AppendRows
    <2>1. /\ MaxRowId' = MaxRowId + n /\ VisibleIds' = VisibleIds \cup NewIds(n)
          /\ MaxRowId \in Nat /\ n \in Nat \ {0} /\ MaxRowId + n \in RowIds
      BY <1>8, AppendKeepsInv
    <2>2. DOMAIN View' = VisibleIds' /\ \A id \in VisibleIds' : View'[id] \in Row
      BY <1>0 DEF View, SeenInBoth, RowsKnown
    <2>3. \A id \in VisibleIds : View'[id] = View[id]
      BY <1>8, AppendedView
    <2>4. tx = NoTx /\ tx' = tx
      BY <1>8 DEF AppendCsv
    <2>5. MaxRowId' > MaxRowId /\ MaxRowId' \in RowIds /\ NewIds(n) = (MaxRowId + 1)..MaxRowId'
      BY <2>1 DEF NewIds
    <2>6. QED BY <1>0, <2>1, <2>2, <2>3, <2>4, <2>5 DEF Table!AppendRows, Table!Row, Row, Cell
  <1>9. ASSUME Compact PROVE Table!Compact
    BY <1>0, <1>9, CompactedView DEF Compact, Table!Compact
  <1>10. ASSUME UNCHANGED vars PROVE UNCHANGED Table!vars
    BY <1>1, <1>10 DEF vars, Table!vars
  <1>11. QED BY <1>2, <1>3, <1>4, <1>5, <1>6, <1>7, <1>8, <1>9, <1>10
       DEF Next, Table!Next, Table!Row, Row, Cell

(* The table of a first import is an initial table of RowStore.            *)
LEMMA InitImplements == Init => Table!Init
  <1> SUFFICES ASSUME Init PROVE Table!Init
    OBVIOUS
  <1>1. PICK s \in Schemas, n \in BatchSizes :
          /\ n - 1 <= U64Max
          /\ \E rs \in [0..(n - 1) -> RowsOf(s)] :
               base = [cols |-> s.cols, nullable |-> s.nullable, rows |-> rs]
    BY DEF Init
  <1>2. DOMAIN base.rows = 0..(n - 1) /\ n \in Nat \ {0}
    BY <1>1
  <1>3. BaseIsAll
    BY InitOnlyBase, BaseAlone
  <1>4. VisibleIds = 0..(n - 1) /\ n - 1 \in RowIds
    BY <1>1, <1>2, <1>3 DEF BaseIsAll, RowIds
  <1>5. MaxRowId = n - 1
    <2>1. n - 1 \in VisibleIds /\ MaxRowId \in 0..(n - 1) /\ n - 1 <= MaxRowId
      BY <1>2, <1>3, <1>4 DEF BaseIsAll
    <2>2. QED BY <1>2, <2>1
  <1>6. View \in [0..(n - 1) -> Row]
    <2>1. \A id \in VisibleIds : View[id] \in Row
      BY <1>3, RowsSeen DEF BaseIsAll, Inv, Stored, RowsKnown
    <2>2. QED BY <1>4, <2>1, ViewIsFunction
  <1>7. tx = NoTx
    BY DEF Init
  <1>8. QED BY <1>4, <1>5, <1>6, <1>7 DEF Table!Init, Table!Row, Row, Cell

(* Base, delta layers and visibility map together are a table of stable    *)
(* row ids that is changed by whole transactions, by appends and by        *)
(* compaction (docs/OPERATIONS.md, "Delta mutations").                     *)
THEOREM LayersImplementRowStore == Spec => ImplementsRowStore
  <1>1. QED BY InitImplements, StepImplements, InvHolds, PTL DEF Spec, ImplementsRowStore, Table!Spec

----------------------------------------------------------------------------
(* Queries over the layers.                                                *)

USE LimitsAssumption

(* What a query asks for, and what the layers answer together.             *)
Asked(q, from) == {m \in Matching(q) : m >= from}
Found(q, from, limit) == UNION {LayerPage(i, q, from, limit) : i \in Answering(q)}

----------------------------------------------------------------------------
(* Browsing.                                                               *)

(* The ids from the cursor to max_row_id that exist are the visible ids    *)
(* from the cursor on.                                                     *)
LEMMA BrowsedIds ==
    ASSUME Inv, NEW from \in RowIds
    PROVE  {id \in from..MaxRowId : Exists(id)} = {id \in VisibleIds : id >= from}
  <1>1. MaxRowId \in RowIds /\ MaxRowId \in Nat /\ from \in Nat
    BY MaxRowIdTyped DEF Inv, Stored, RowIds
  <1>2. ASSUME NEW id \in from..MaxRowId, Exists(id) PROVE id \in VisibleIds /\ id >= from
    <2>1. id \in RowIds /\ id >= from
      BY <1>1, <1>2 DEF RowIds
    <2>2. QED BY <1>2, <2>1, ExistingAreVisible DEF Inv, Stored
  <1>3. ASSUME NEW id \in VisibleIds, id >= from PROVE id \in from..MaxRowId /\ Exists(id)
    <2>1. id \in Nat /\ id <= MaxRowId
      BY LayersWellFormed DEF Inv, Stored, IdsBelowMax, VisibleIds, RowIds, Holds
    <2>2. QED BY <1>1, <1>3, <2>1 DEF VisibleIds
  <1>4. QED BY <1>2, <1>3

(* Browsing by row id up to max_row_id misses no visible row of any        *)
(* table, and the overlay's row count is how many rows its pages return.   *)
THEOREM BrowsingIsExact == Spec => []BrowseExact
  <1>1. Inv => BrowseExact
    <2> SUFFICES ASSUME Inv PROVE BrowseExact
      OBVIOUS
    <2>1. VisibleRows = Cardinality(VisibleIds)
      BY DEF Inv, CountIsRight
    <2>2. \A from \in RowIds, limit \in Limits :
            Browse(from, limit) = Smallest(limit, {id \in VisibleIds : id >= from})
      BY BrowsedIds DEF Browse
    <2>3. QED BY <2>1, <2>2 DEF BrowseExact
  <1>2. QED BY <1>1, InvHolds, PTL

----------------------------------------------------------------------------
(* Pages.                                                                  *)

(* A row a layer answers with, and that no override hides there, is a      *)
(* visible row that matches, in its one visible version.                   *)
LEMMA AnsweredRowsMatch ==
    ASSUME Inv, NEW q \in Queries, NEW i \in Answering(q), NEW id \in LayerMatches(i, q),
           VisibleInLayer(id, i)
    PROVE  id \in Matching(q) /\ HomeLayer(id) = i
  <1>1. LayersTypeOK /\ OneVersionPerRow /\ HomesKnown
    BY Homes DEF Inv, Stored
  <1>2. i \in LayerIds /\ LayerCanMatch(i, q) /\ Holds(i, id)
    BY DEF Answering, LayerMatches, Holds
  <1>3. WellFormed(Layer(i)) /\ i # Deleted
    BY <1>1, <1>2, LayersWellFormed
  <1>4. id \in VisibleIds
    BY <1>2, <1>3 DEF VisibleInLayer, VisibleIds, Exists, Holds
  <1>5. HomeLayer(id) = i
    BY <1>1, <1>2, <1>4 DEF HomesKnown, VisibleInLayer
  <1>6. \A c \in DOMAIN q : c \in LogicalCols
    BY DEF Queries
  <1>7. DOMAIN Layer(i).rows[id] = Layer(i).cols
    BY <1>2, <1>3 DEF WellFormed, RowsOf, Holds
  <1>8. \A c \in DOMAIN q : RowValues(id)[c] = q[c]
    BY <1>2, <1>5, <1>6, <1>7 DEF RowValues, Aligned, LayerMatches, LayerCanMatch
  <1>9. QED BY <1>4, <1>5, <1>8 DEF Matching, Satisfies

(* A visible row that matches is one its layer answers with.               *)
LEMMA MatchesAreAnswered ==
    ASSUME Inv, NEW q \in Queries, NEW id \in Matching(q)
    PROVE  /\ HomeLayer(id) \in Answering(q) /\ id \in LayerMatches(HomeLayer(id), q)
           /\ VisibleInLayer(id, HomeLayer(id))
  <1> DEFINE i == HomeLayer(id)
  <1>1. LayersTypeOK /\ OneVersionPerRow /\ HomesKnown
    BY Homes DEF Inv, Stored
  <1>2. id \in VisibleIds /\ \A c \in DOMAIN q : c \in LogicalCols /\ RowValues(id)[c] = q[c]
    BY DEF Matching, Satisfies, Queries
  <1>3. i \in LayerIds /\ Holds(i, id) /\ VisibleInLayer(id, i)
    BY <1>1, <1>2 DEF HomesKnown, VisibleInLayer
  <1>4. WellFormed(Layer(i))
    BY <1>1, <1>3, LayersWellFormed
  <1>5. /\ DOMAIN Layer(i).rows[id] = Layer(i).cols
        /\ \A c \in Layer(i).cols : Layer(i).rows[id][c] = Null => c \in Layer(i).nullable
    BY <1>3, <1>4 DEF WellFormed, RowsOf, Holds
  <1>6. \A c \in DOMAIN q : q[c] = IF c \in Layer(i).cols THEN Layer(i).rows[id][c] ELSE Null
    BY <1>2, <1>5 DEF RowValues, Aligned
  <1>7. LayerCanMatch(i, q)
    BY <1>5, <1>6 DEF LayerCanMatch
  <1>8. id \in LayerMatches(i, q)
    BY <1>3, <1>6 DEF LayerMatches, Holds
  <1>9. QED BY <1>3, <1>7, <1>8 DEF Answering

(* Everything the layers answer was asked for.                             *)
LEMMA FoundIsAsked ==
    ASSUME Inv, NEW q \in Queries, NEW from \in RowIds, NEW limit \in Limits,
           NEW f \in Found(q, from, limit)
    PROVE  f[1] \in Asked(q, from) /\ f = <<f[1], HomeLayer(f[1])>>
  <1>1. PICK i \in Answering(q) : f \in LayerPage(i, q, from, limit)
    BY DEF Found
  <1>2. PICK id \in LayerMatches(i, q) : id >= from /\ VisibleInLayer(id, i) /\ f = <<id, i>>
    BY <1>1 DEF LayerPage, Smallest
  <1>3. QED BY <1>2, AnsweredRowsMatch DEF Asked

(* The first rows that are asked for are among what the layers answer:     *)
(* each layer is asked for as many more rows as overrides hide in it.      *)
LEMMA FirstAreFound ==
    ASSUME Inv, NEW q \in Queries, NEW from \in RowIds, NEW limit \in Limits,
           NEW id \in Smallest(limit, Asked(q, from))
    PROVE  <<id, HomeLayer(id)>> \in Found(q, from, limit)
  <1>1. PICK i : i = HomeLayer(id)
    OBVIOUS
  <1> DEFINE all  == {m \in LayerMatches(i, q) : m >= from}
             part == {m \in all : VisibleInLayer(m, i)}
  <1>2. id \in Asked(q, from) /\ id \in Matching(q)
    BY DEF Smallest, Asked
  <1>3. i \in Answering(q) /\ id \in part
    BY <1>1, <1>2, MatchesAreAnswered DEF Asked
  <1>4. i \in LayerIds /\ WellFormed(Layer(i))
    BY <1>3, LayersWellFormed DEF Answering, Inv, Stored
  <1>5. all \subseteq RowIds /\ HiddenRows(i) \subseteq RowIds /\ Asked(q, from) \subseteq RowIds
    BY <1>4, LayersWellFormed
       DEF LayerMatches, HiddenRows, WellFormed, Holds, Asked, Matching, Inv, Stored
  <1>6. /\ IsFiniteSet(all) /\ IsFiniteSet(HiddenRows(i)) /\ Cardinality(HiddenRows(i)) \in Nat
        /\ IsFiniteSet(Asked(q, from)) /\ RowIds \subseteq Int
    BY <1>5, RowIdsAreFinite DEF RowIds
  <1>7. IdSet(all) /\ IdSet(Asked(q, from))
    BY <1>5, <1>6 DEF IdSet
  <1>8. part \subseteq Asked(q, from)
    BY <1>3, AnsweredRowsMatch DEF Asked
  <1>9. limit \in Nat
    OBVIOUS
  <1>10. id \in Smallest(limit, part)
    BY <1>3, <1>7, <1>8, <1>9, SmallestOfPart
  <1>11. all \subseteq part \cup HiddenRows(i)
    BY DEF VisibleInLayer, HiddenRows, LayerMatches, Holds
  <1>12. id \in Smallest(FetchLimit(i, limit), all)
    <2>1. part \in SUBSET all
      OBVIOUS
    <2>2. id \in Smallest(limit + Cardinality(HiddenRows(i)), all)
      BY <1>3, <1>6, <1>7, <1>9, <1>10, <1>11, <2>1, SmallestOfMore
    <2>3. QED BY <2>2 DEF FetchLimit
  <1>13. <<id, i>> \in LayerPage(i, q, from, limit)
    BY <1>3, <1>12 DEF LayerPage
  <1>14. QED BY <1>1, <1>3, <1>13 DEF Found

(* Every page of every equality query, on every table that imports,        *)
(* appends, transactions and compactions can make, has exactly the next    *)
(* rows that match, each in its one visible version, although every layer  *)
(* cut its answer before hidden versions were taken out and the layers'    *)
(* answers merged.                                                         *)
THEOREM PagesAreExact == Spec => []PagesExact
  <1>1. Inv => PagesExact
    <2> SUFFICES ASSUME Inv, NEW q \in Queries, NEW from \in RowIds, NEW limit \in Limits
                 PROVE  Page(q, from, limit) =
                          {<<id, HomeLayer(id)>> : id \in Smallest(limit, Asked(q, from))}
      BY DEF PagesExact, Asked
    <2> DEFINE found == Found(q, from, limit)
               ids == {f[1] : f \in found}
    <2>1. \A f \in found : f[1] \in Asked(q, from) /\ f = <<f[1], HomeLayer(f[1])>>
      BY FoundIsAsked
    <2>2. \A id \in Smallest(limit, Asked(q, from)) : <<id, HomeLayer(id)>> \in found
      BY FirstAreFound
    <2>3. IdSet(Asked(q, from)) /\ limit \in Nat
      <3>1. Asked(q, from) \subseteq RowIds
        BY LayersWellFormed DEF Asked, Matching, Inv, Stored
      <3>2. QED BY <3>1, RowIdsAreFinite DEF IdSet, RowIds
    <2>4. ids \in SUBSET Asked(q, from)
      BY <2>1
    <2>5. Smallest(limit, Asked(q, from)) \subseteq ids
      <3>1. ASSUME NEW id \in Smallest(limit, Asked(q, from)) PROVE id \in ids
        <4>1. PICK f \in found : f = <<id, HomeLayer(id)>>
          BY <2>2
        <4>2. QED BY <4>1
      <3>2. QED BY <3>1
    <2>6. Smallest(limit, ids) = Smallest(limit, Asked(q, from))
      BY <2>3, <2>4, <2>5, SmallestBetween
    <2>7. Page(q, from, limit) = {f \in found : f[1] \in Smallest(limit, ids)}
      BY DEF Page, Found
    <2>8. QED BY <2>1, <2>2, <2>6, <2>7
  <1>2. QED BY <1>1, InvHolds, PTL

----------------------------------------------------------------------------
(* Hit counts.                                                             *)

(* The matching rows whose one visible version is in layer i.              *)
MatchesAt(q, i) == {id \in Matching(q) : HomeLayer(id) = i}

(* They are the layer's matches that no override hides.                    *)
LEMMA VisibleMatches ==
    ASSUME Inv, NEW q \in Queries, NEW i \in Answering(q)
    PROVE  MatchesAt(q, i) = {id \in LayerMatches(i, q) : VisibleInLayer(id, i)}
  <1>1. \A id \in LayerMatches(i, q) : VisibleInLayer(id, i) => id \in MatchesAt(q, i)
    BY AnsweredRowsMatch DEF MatchesAt
  <1>2. \A id \in MatchesAt(q, i) : id \in LayerMatches(i, q) /\ VisibleInLayer(id, i)
    BY MatchesAreAnswered DEF MatchesAt
  <1>3. QED BY <1>1, <1>2

(* The correction for hidden versions counts the matches that an override  *)
(* hides, and nothing else.                                                *)
LEMMA HiddenAreMatches ==
    ASSUME Inv, NEW q \in Queries, NEW i \in Answering(q)
    PROVE  HiddenMatches(i, q) = {id \in LayerMatches(i, q) : ~VisibleInLayer(id, i)}
  <1>1. i \in LayerIds /\ LayerCanMatch(i, q) /\ WellFormed(Layer(i))
    BY LayersWellFormed DEF Answering, Inv, Stored
  <1>2. \A c \in DOMAIN q : c \in LogicalCols
    BY DEF Queries
  <1>3. \A id \in DOMAIN Layer(i).rows : DOMAIN Layer(i).rows[id] = Layer(i).cols
    BY <1>1 DEF WellFormed, RowsOf
  <1>4. \A id \in DOMAIN Layer(i).rows :
           Satisfies(Aligned(Layer(i).rows[id], LogicalCols), q) <=> id \in LayerMatches(i, q)
    <2> TAKE id \in DOMAIN Layer(i).rows
    <2> DEFINE row == Layer(i).rows[id]
    <2>1. \A c \in DOMAIN q : Aligned(row, LogicalCols)[c] =
             IF c \in Layer(i).cols THEN row[c] ELSE Null
      BY <1>2, <1>3 DEF Aligned
    <2>2. \A c \in DOMAIN q : c \notin Layer(i).cols => q[c] = Null
      BY <1>1 DEF LayerCanMatch
    <2>3. id \in LayerMatches(i, q) <=> \A c \in DOMAIN q : c \in Layer(i).cols => row[c] = q[c]
      BY DEF LayerMatches
    <2> HIDE DEF row
    <2>4. QED BY <2>1, <2>2, <2>3 DEF Satisfies, row
  <1>5. \A id : id \in HiddenRows(i) <=> id \in DOMAIN Layer(i).rows /\ ~VisibleInLayer(id, i)
    BY DEF HiddenRows, VisibleInLayer, Holds
  <1>6. \A id \in LayerMatches(i, q) : id \in DOMAIN Layer(i).rows
    BY DEF LayerMatches
  <1>7. QED BY <1>4, <1>5, <1>6 DEF HiddenMatches

(* So what a layer adds to the count are its visible matches.              *)
LEMMA LayerCountsVisible ==
    ASSUME Inv, NEW q \in Queries, NEW i \in Answering(q)
    PROVE  LayerHits(i, q) = Cardinality(MatchesAt(q, i))
  <1> DEFINE all    == LayerMatches(i, q)
             seen   == MatchesAt(q, i)
             hidden == HiddenMatches(i, q)
  <1>1. seen \cup hidden = all /\ seen \cap hidden = {}
    BY VisibleMatches, HiddenAreMatches
  <1>2. IsFiniteSet(all)
    <2>1. WellFormed(Layer(i))
      BY LayersWellFormed DEF Answering, Inv, Stored
    <2>2. all \subseteq RowIds
      BY <2>1 DEF LayerMatches, WellFormed
    <2>3. QED BY <2>2, RowIdsAreFinite
  <1> HIDE DEF all, seen, hidden
  <1>3. IsFiniteSet(seen) /\ IsFiniteSet(hidden)
    BY <1>1, <1>2, FS_Subset
  <1>4. /\ Cardinality(all) = Cardinality(seen) + Cardinality(hidden)
        /\ Cardinality(seen) \in Nat /\ Cardinality(hidden) \in Nat
    <2>1. Cardinality(all) = Cardinality(seen) + Cardinality(hidden) - Cardinality(seen \cap hidden)
      BY <1>1, <1>3, FS_Union
    <2>2. Cardinality(seen \cap hidden) = 0
      BY <1>1, FS_EmptySet
    <2>3. Cardinality(seen) \in Nat /\ Cardinality(hidden) \in Nat
      BY <1>3, FS_CardinalityType
    <2>4. QED BY <2>1, <2>2, <2>3
  <1>5. LayerHits(i, q) = IF Cardinality(hidden) > Cardinality(all) THEN 0
                          ELSE Cardinality(all) - Cardinality(hidden)
    BY DEF LayerHits, all, hidden
  <1>6. QED BY <1>4, <1>5 DEF seen

(* The hit count of every equality query on every table: summed over       *)
(* layers, each minus the matches that overrides hide, it is the number of *)
(* visible rows that match.                                                *)
THEOREM HitsAreExact == Spec => []HitsExact
  <1>1. Inv => HitsExact
    <2> SUFFICES ASSUME Inv, NEW q \in Queries PROVE Hits(q) = Cardinality(Matching(q))
      BY DEF HitsExact
    <2> DEFINE M == Matching(q)
               H == UNION {{i} \X (1..LayerHits(i, q)) : i \in Answering(q)}
               f == [id \in M |-> <<HomeLayer(id), Rank(id, MatchesAt(q, HomeLayer(id))) + 1>>]
    <2>1. IsFiniteSet(M) /\ M \subseteq Int
      <3>1. M \subseteq RowIds
        BY LayersWellFormed DEF Matching, Inv, Stored
      <3>2. QED BY <3>1, RowIdsAreFinite DEF RowIds
    <2>2. \A i : IdSet(MatchesAt(q, i)) /\ Cardinality(MatchesAt(q, i)) \in Nat
      <3> TAKE i
      <3>1. MatchesAt(q, i) \subseteq M
        BY DEF MatchesAt
      <3>2. QED BY <2>1, <3>1, FS_Subset, FS_CardinalityType DEF IdSet
    <2>3. \A id \in M : HomeLayer(id) \in Answering(q) /\ id \in MatchesAt(q, HomeLayer(id))
      BY MatchesAreAnswered DEF MatchesAt
    <2>4. \A i \in Answering(q) : LayerHits(i, q) = Cardinality(MatchesAt(q, i))
      BY LayerCountsVisible
    <2>5. \A p : p \in H <=> \E i \in Answering(q) : \E n \in 1..LayerHits(i, q) : p = <<i, n>>
      OBVIOUS
    <2>6. \A id \in M : f[id] = <<HomeLayer(id), Rank(id, MatchesAt(q, HomeLayer(id))) + 1>>
      OBVIOUS
    <2>7. DOMAIN f = M /\ f = [id \in M |-> f[id]]
      OBVIOUS
    <2> HIDE DEF f, H
    <2>8. \A id \in M : f[id] \in H
      <3> TAKE id \in M
      <3> DEFINE i == HomeLayer(id)
                 r == Rank(id, MatchesAt(q, i))
      <3>1. i \in Answering(q) /\ id \in MatchesAt(q, i) /\ id \in Int
        BY <2>1, <2>3
      <3>2. r \in Nat /\ r < Cardinality(MatchesAt(q, i))
        BY <2>2, <3>1, RankTyped
      <3>3. f[id] = <<i, r + 1>>
        BY <2>6
      <3> HIDE DEF i, r
      <3>4. r + 1 \in 1..LayerHits(i, q)
        BY <2>2, <2>4, <3>1, <3>2
      <3>5. QED BY <2>5, <3>1, <3>3, <3>4
    <2>9. ASSUME NEW x \in M, NEW y \in M, f[x] = f[y]
          PROVE  x = y
      <3> DEFINE i == HomeLayer(x)
                 r == Rank(x, MatchesAt(q, i))
                 s == Rank(y, MatchesAt(q, i))
      <3>1. HomeLayer(y) = i /\ r + 1 = s + 1
        BY <2>6, <2>9
      <3>2. x \in MatchesAt(q, i) /\ y \in MatchesAt(q, i) /\ x \in Int /\ y \in Int
        BY <2>1, <2>3, <3>1
      <3>3. r \in Nat /\ s \in Nat
        BY <2>2, <3>2, RankTyped
      <3> HIDE DEF r, s
      <3>4. r = s
        BY <3>1, <3>3
      <3>5. QED BY <2>2, <3>2, <3>4, RankOrders DEF r, s
    <2>10. ASSUME NEW p \in H
           PROVE  \E id \in M : f[id] = p
      <3>1. PICK i \in Answering(q) : \E n \in 1..LayerHits(i, q) : p = <<i, n>>
        BY <2>5
      <3>2. PICK n \in 1..LayerHits(i, q) : p = <<i, n>>
        BY <3>1
      <3>3. n \in Int /\ n - 1 \in 0..(Cardinality(MatchesAt(q, i)) - 1)
        BY <2>2, <2>4
      <3>4. PICK id \in MatchesAt(q, i) : Rank(id, MatchesAt(q, i)) = n - 1
        BY <2>2, <3>3, RankOnto
      <3>5. id \in M /\ HomeLayer(id) = i
        BY DEF MatchesAt
      <3>6. f[id] = <<i, (n - 1) + 1>>
        BY <2>6, <3>4, <3>5
      <3>7. QED BY <3>2, <3>3, <3>5, <3>6
    <2>11. f \in Bijection(M, H)
      BY <2>7, <2>8, <2>9, <2>10 DEF Bijection, Injection, Surjection, IsInjective
    <2>12. Cardinality(M) = Cardinality(H)
      BY <2>1, <2>11, FS_Bijection DEF ExistsBijection
    <2>13. QED BY <2>12 DEF Hits, H
  <1>2. QED BY <1>1, InvHolds, PTL
=============================================================================
