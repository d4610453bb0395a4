--------------------------- MODULE MCLayeredRows ---------------------------
(* Instances of LayeredRows and LayeredQuery for TLC. *)
EXTENDS LayeredQuery

CONSTANTS k, x, a

TwoColumns == {k, x}
OneValue   == {a}
OneOrTwo   == {1, 2}

\* Column x may join a table that has only k; it is then NULL in the older rows.
Evolving == {[cols |-> {k}, nullable |-> {}], [cols |-> {k, x}, nullable |-> {}]}
=============================================================================
