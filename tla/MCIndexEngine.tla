---------------------------- MODULE MCIndexEngine ----------------------------
(* Tables of two columns whose pages, blocks, words, row groups, runs and  *)
(* batches hold two or three rows, so that five rows cross all boundaries. *)
EXTENDS IndexEngine, TLC

MCCard == 0 :> 2 @@ 1 :> 3

Row(a, b) == 0 :> a @@ 1 :> b

MCTables ==
    {<<Row(0, 0), Row(1, 1), Row(0, 1), Row(0, 0), Row(1, 1)>>,   \* a token nobody has
     <<Row(0, 2), Row(0, 0), Row(0, 2), Row(0, 2), Row(0, 1)>>}   \* one column constant

Exact(columns, kind) == [columns |-> columns, kind |-> kind]

\* A kind for each single column, and for both or none for both.
Indexes == {<<Exact(<<0>>, a), Exact(<<1>>, b)>> : a, b \in RowKinds}
           \cup {<<Exact(<<0>>, "bitslice"), Exact(<<1>>, "bitslice"), Exact(<<0, 1>>, k)>> :
                    k \in RowKinds \ {"bitslice"}}
           \cup {<<Exact(<<1>>, "deltapost")>>, <<Exact(<<0, 1>>, "flatpost")>>, <<>>}

MCLayouts ==
    {[cold |-> {1}, pageSpecs |-> <<>>, exact |-> x] : x \in Indexes}
    \cup {[cold |-> {}, pageSpecs |-> << <<0>>, <<0, 1>> >>, exact |-> x] :
             x \in {<<>>, <<Exact(<<1>>, "postings")>>}}

Is(c, v) == [column |-> c, value |-> v]

MCPreds ==
    {<<>>, <<Is(0, 0)>>, <<Is(1, 2)>>, <<Is(0, 0), Is(1, 0)>>, <<Is(1, 1), Is(0, 1)>>,
     <<Is(1, 0), Is(0, 1)>>, <<Is(1, 3)>>, <<Is(0, 0), Is(0, 1)>>}

MCRequests ==
    {[op |-> "page", preds |-> p, limit |-> l, first |-> f] : p \in MCPreds, l \in {1, 3}, f \in {0, 2}}
    \cup {[op |-> "ids", preds |-> p, limit |-> 2, first |-> 1] : p \in MCPreds}
    \cup {[op |-> o, preds |-> p, limit |-> 0, first |-> 0] : o \in {"count", "explain"}, p \in MCPreds}
=============================================================================
