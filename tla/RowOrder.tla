------------------------------ MODULE RowOrder ------------------------------
(***************************************************************************)
(* Ascending row ids: how answers are ordered and cut to a limit           *)
(* (rust/src/versioned.rs, query_api.rs, buckets.rs).                      *)
(***************************************************************************)
EXTENDS Integers, FiniteSets

\* How many ids of the set come before this one.
Rank(id, ids) == Cardinality({j \in ids : j < id})

\* An ascending answer cut to n rows, as a set.
Smallest(n, ids) == {id \in ids : Rank(id, ids) < n}

\* The ids in ascending order.
Ascending(ids) ==
    [i \in 1..Cardinality(ids) |-> CHOOSE id \in ids : Rank(id, ids) = i - 1]
=============================================================================
