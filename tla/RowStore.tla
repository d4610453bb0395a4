------------------------------ MODULE RowStore ------------------------------
(***************************************************************************)
(* What a published LHR table promises its users: rows under stable        *)
(* logical row ids, changed by whole transactions, by appends of new rows  *)
(* and by compaction.  LayeredRows implements this specification with a    *)
(* base generation, delta layers and a visibility map.                     *)
(***************************************************************************)
EXTENDS Naturals, Sequences

CONSTANTS
    Columns,  \* every column any version of the schema ever has
    Values,   \* canonical cell values
    Null,     \* the NULL cell; also what a column unknown to a layer reads as
    RowIds,   \* logical row ids
    NoTx      \* no transaction is being prepared

Row == [Columns -> Values \cup {Null}]

VARIABLES
    rows,  \* the visible rows by logical row id
    top,   \* the id above which the next row is numbered
    tx     \* the transaction being prepared: updates, deletes, inserts

vars == <<rows, top, tx>>

Init ==
    /\ \E n \in RowIds : rows \in [0..n -> Row] /\ top = n
    /\ tx = NoTx

Begin ==
    /\ tx = NoTx
    /\ tx' = [updates |-> <<>>, deletes |-> {}, inserts |-> <<>>]
    /\ UNCHANGED <<rows, top>>

\* A delete cancels the row's earlier updates in the same transaction.
Delete(id) ==
    /\ tx # NoTx /\ id \in DOMAIN rows
    /\ tx' = [tx EXCEPT !.deletes = @ \cup {id},
                        !.updates = [r \in DOMAIN @ \ {id} |-> @[r]]]
    /\ UNCHANGED <<rows, top>>

\* Cells given by several updates of one row accumulate; the later one wins.
Update(id, c, v) ==
    /\ tx # NoTx /\ id \in DOMAIN rows \ tx.deletes
    /\ LET patch == IF id \in DOMAIN tx.updates THEN tx.updates[id] ELSE <<>>
       IN tx' = [tx EXCEPT !.updates =
                   [r \in DOMAIN @ \cup {id} |->
                      IF r = id
                      THEN [k \in DOMAIN patch \cup {c} |-> IF k = c THEN v ELSE patch[k]]
                      ELSE @[r]]]
    /\ UNCHANGED <<rows, top>>

Insert(row) ==
    /\ tx # NoTx
    /\ tx' = [tx EXCEPT !.inserts = Append(@, row)]
    /\ UNCHANGED <<rows, top>>

\* A refused transaction leaves no trace.
Refuse == tx # NoTx /\ tx' = NoTx /\ UNCHANGED <<rows, top>>

\* All of the transaction takes effect at once, and a table never becomes empty.
Commit ==
    /\ tx # NoTx
    /\ LET new  == (top + 1)..(top + Len(tx.inserts))
           kept == DOMAIN rows \ tx.deletes
       IN /\ kept \cup new # {}
          /\ rows' = [id \in kept \cup new |->
                        IF id \in new THEN tx.inserts[id - top]
                        ELSE IF id \in DOMAIN tx.updates
                        THEN [c \in Columns |-> IF c \in DOMAIN tx.updates[id]
                                                THEN tx.updates[id][c] ELSE rows[id][c]]
                        ELSE rows[id]]
    /\ top' = top + Len(tx.inserts)
    /\ tx' = NoTx

\* Appended rows are numbered consecutively above every earlier row.
AppendRows ==
    /\ tx = NoTx
    /\ top' \in RowIds /\ top' > top
    /\ DOMAIN rows' = DOMAIN rows \cup (top + 1)..top'
    /\ \A id \in DOMAIN rows' : rows'[id] \in Row
    /\ \A id \in DOMAIN rows : rows'[id] = rows[id]
    /\ UNCHANGED tx

\* Compaction changes no row; numbering resumes above the last surviving row.
Compact ==
    /\ tx = NoTx
    /\ top' \in DOMAIN rows /\ \A id \in DOMAIN rows : id <= top'
    /\ UNCHANGED <<rows, tx>>

Next ==
    \/ Begin
    \/ \E id \in RowIds : Delete(id)
    \/ \E id \in RowIds, c \in Columns, v \in Values \cup {Null} : Update(id, c, v)
    \/ \E row \in Row : Insert(row)
    \/ Refuse
    \/ Commit
    \/ AppendRows
    \/ Compact

Spec == Init /\ [][Next]_vars
=============================================================================
