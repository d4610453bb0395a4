--------------------------- MODULE MCQueryRoutes ---------------------------
(* Instances of QueryRoutes for TLC: a text column k and a nullable integer *)
(* column n.                                                               *)
EXTENDS QueryRoutes

CONSTANTS k, n

TwoColumns == {k, n}
TheInteger == {n}

Row(a, b)  == k :> a @@ n :> b
FourRows   == {Row(0, Null), Row(0, 0), Row(0, 1), Row(1, 1)}

Eq(c, v)        == [op |-> "eq", column |-> c, value |-> v]
OneOf(c, vs)    == [op |-> "in", column |-> c, values |-> vs]
Between(c, l, h) == [op |-> "range", column |-> c, gte |-> l, lte |-> h]

FilterSets ==
    {{},                                          \* browse
     {Eq(k, 0)}, {Eq(k, 0), Eq(n, Null)},         \* equality
     {Eq(k, 0), Between(n, Open, 0)},             \* candidates
     {Eq(k, 0), OneOf(n, {Null, 1})},
     {Between(n, 0, 1)}, {Between(n, 0, Open)},   \* range, scan
     {Between(n, 1, 0)}}                          \* refused
SomeRequests == [filters : FilterSets, limit : {1, 2}] \cup [filters : {{}}, limit : {0}]
RangeRequest == [filters : {{Between(n, 0, 1)}}, limit : {2}]

\* No cell is 1: the importers read the text "1" as NULL.
NullOrZero   == {Row(0, Null), Row(0, 0)}

NoLiterals   == {}
OneIsNull    == {<<n, 1>>}
============================================================================
