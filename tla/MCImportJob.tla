---------------------------- MODULE MCImportJob ----------------------------
(* Two jobs for one bucket; files of equal name and size, of which f1 and f2 *)
(* also begin alike.                                                         *)
EXTENDS ImportJob, TLC

CONSTANTS j1, j2, f1, f2, f3, d1, d2

MCDigest == [f \in Files |-> IF f = f3 THEN d2 ELSE d1]

Symmetry == Permutations({f1, f2}) \cup Permutations({j1, j2})

\* One file only, and nothing of it out of its place.
Undisturbed(j) ==
    /\ late[j] = {} /\ verified[j] \subseteq {creator[j]}
    /\ upload[j] # NoFile => \A i \in 1..Len(upload[j]) : upload[j][i] = <<creator[j], i>>

\* A bound on the states: uploads do not depend on each other, so a disturbed one is explored
\* for a job that is alone, and two jobs, which meet in their builds, with undisturbed ones.
DisturbedAlone == (\A j \in Jobs : rec[j] # NoJob) => \A j \in Jobs : Undisturbed(j)
=============================================================================
