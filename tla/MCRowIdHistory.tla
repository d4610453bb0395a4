-------------------------- MODULE MCRowIdHistory --------------------------
(* An instance of RowIdHistory for TLC: one column and one value are enough. *)
EXTENDS RowIdHistory

CONSTANTS k, a

OneColumn == {k}
OneValue  == {a}
OneSchema == {[cols |-> {k}, nullable |-> {}]}
=============================================================================
