------------------------------- MODULE Sorting -------------------------------
(***************************************************************************)
(* Records sorted on disk: runs of bounded size, each sorted in memory,    *)
(* merged through a heap (rust/src/external.rs), and the cuts of a    *)
(* sequence this takes.  A record is a pair of numbers.                    *)
(***************************************************************************)
EXTENDS Sequences, SequencesExt, RowOrder

CeilDiv(n, d) == (n + d - 1) \div d

Take(s, limit) == SubSeq(s, 1, IF limit < Len(s) THEN limit ELSE Len(s))

\* The entries of a sequence at some positions, in its order; those that pass a test.
EntriesAt(s, positions) ==
    LET upTo[i \in 0..Len(s)] ==
            IF i = 0 THEN <<>>
            ELSE IF i \in positions THEN Append(upTo[i - 1], s[i]) ELSE upTo[i - 1]
    IN upTo[Len(s)]
Select(s, Test(_)) == EntriesAt(s, {i \in DOMAIN s : Test(s[i])})

Before(x, y) == x[1] < y[1] \/ (x[1] = y[1] /\ x[2] < y[2])

\* The pairs of a set, each after those before it.
Sorted(S) ==
    [i \in 1..Cardinality(S) |-> CHOOSE x \in S : Cardinality({y \in S : Before(y, x)}) = i - 1]

\* The input cut into runs of at most max records, each sorted and deduplicated.
SortedRuns(input, max) ==
    [i \in 1..CeilDiv(Len(input), max) |->
        Sorted(ToSet(Take(SubSeq(input, (i - 1) * max + 1, Len(input)), max)))]

\* The runs merged through a heap of their heads; a record equal to the last one written is dropped.
ExternalSort(input, max) ==
    LET runs == SortedRuns(input, max)
        total == Cardinality(UNION {{i} \X DOMAIN runs[i] : i \in DOMAIN runs})
        pop[n \in 0..total] ==
            IF n = 0 THEN [at |-> [i \in DOMAIN runs |-> 1], out |-> <<>>]
            ELSE LET heap == pop[n - 1]
                     live == {i \in DOMAIN runs : heap.at[i] <= Len(runs[i])}
                     least == CHOOSE i \in live : \A j \in live :
                                  ~ Before(runs[j][heap.at[j]], runs[i][heap.at[i]])
                     record == runs[least][heap.at[least]]
                 IN [at |-> [heap.at EXCEPT ![least] = @ + 1],
                     out |-> IF heap.out # <<>> /\ Last(heap.out) = record
                             THEN heap.out ELSE Append(heap.out, record)]
    IN pop[total].out
==============================================================================
