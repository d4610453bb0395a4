------------------------ MODULE IndexEngineProofs ------------------------
(***************************************************************************)
(* The exact index engine, for every table, layout and request: a built    *)
(* file answers every key exactly, whatever its kind; the build leaves     *)
(* segments that hold the table and indexes of all its rows and pages; and *)
(* what the planner selects from them makes every answer exact.            *)
(***************************************************************************)
EXTENDS IndexEngine, RowOrderProofs

----------------------------------------------------------------------------
(* Where the records of a key are among the sorted records.                *)

KeyRows(R, key) == {p[2] : p \in {q \in R : q[1] = key}}

\* In sorted records keys never fall, and the rows of one key rise.
LEMMA RecordsOrdered ==
    ASSUME NEW s \in Seq(Records), InSequence(s)
    PROVE  /\ Len(s) \in Nat /\ DOMAIN s = 1..Len(s)
           /\ \A i \in 1..Len(s) : s[i][1] \in Int /\ s[i][2] \in Int /\ s[i] = <<s[i][1], s[i][2]>>
           /\ \A i, j \in 1..Len(s) : i < j =>
                 s[i][1] <= s[j][1] /\ (s[i][1] = s[j][1] => s[i][2] < s[j][2])
  <1>1. Len(s) \in Nat /\ DOMAIN s = 1..Len(s) /\ \A i \in 1..Len(s) : s[i] \in Records
    OBVIOUS
  <1>2. \A i \in 1..Len(s) : s[i][1] \in Int /\ s[i][2] \in Int /\ s[i] = <<s[i][1], s[i][2]>>
    BY <1>1 DEF Records
  <1>3. \A i, j \in 1..Len(s) : i < j => Before(s[i], s[j])
    BY <1>1 DEF InSequence
  <1>4. QED BY <1>1, <1>2, <1>3 DEF Before

(* The two partition points of a key.                                      *)
LEMMA KeyPoints ==
    ASSUME NEW s \in Seq(Records), InSequence(s), NEW key \in Int
    PROVE  /\ KeyLowerBound(s, key) \in 0..Len(s) /\ KeyUpperBound(s, key) \in KeyLowerBound(s, key)..Len(s)
           /\ \A i \in 1..Len(s) : /\ s[i][1] < key <=> i <= KeyLowerBound(s, key)
                                   /\ s[i][1] <= key <=> i <= KeyUpperBound(s, key)
  <1> DEFINE n == Len(s)
             T == {i \in 1..n : s[i][1] < key}
             U == {i \in 1..n : s[i][1] <= key}
  <1>1. /\ n \in Nat /\ DOMAIN s = 1..n /\ \A i \in 1..n : s[i][1] \in Int
        /\ \A i, j \in 1..n : i < j => s[i][1] <= s[j][1]
    BY RecordsOrdered
  <1>2. KeyLowerBound(s, key) = Cardinality(T) /\ KeyUpperBound(s, key) = Cardinality(U)
    BY <1>1 DEF KeyLowerBound, KeyUpperBound
  <1> HIDE DEF n
  <1>3. /\ T \in SUBSET (1..n) /\ \A i \in T, j \in 1..n : j < i => j \in T
        /\ U \in SUBSET (1..n) /\ \A i \in U, j \in 1..n : j < i => j \in U
    BY <1>1
  <1>4. \A i \in 1..n : (i \in T <=> s[i][1] < key) /\ (i \in U <=> s[i][1] <= key)
    OBVIOUS
  <1>5. T \subseteq U /\ IsFiniteSet(U)
    <2>1. T \subseteq U
      BY <1>1
    <2>2. IsFiniteSet(1..n)
      BY <1>1, FS_Interval
    <2>3. U \subseteq 1..n
      OBVIOUS
    <2>4. QED BY <2>1, <2>2, <2>3, FS_Subset
  <1> HIDE DEF T, U
  <1>6. Cardinality(T) \in 0..n /\ \A i \in 1..n : i \in T <=> i <= Cardinality(T)
    BY <1>1, <1>3, PrefixCount
  <1>7. Cardinality(U) \in 0..n /\ \A i \in 1..n : i \in U <=> i <= Cardinality(U)
    BY <1>1, <1>3, PrefixCount
  <1>8. Cardinality(T) <= Cardinality(U)
    BY <1>5, FS_Subset
  <1>9. QED BY <1>1, <1>2, <1>4, <1>6, <1>7, <1>8 DEF n

(* The records of a key are those after b.start and up to b.end.           *)
Brackets(s, key, b) ==
    /\ b.start \in 0..Len(s) /\ b.end \in b.start..Len(s)
    /\ \A i \in 1..Len(s) : s[i][1] = key <=> b.start < i /\ i <= b.end

\* Between the bounds of a key, the second parts of sorted records are the key's rows in ascending order.
LEMMA BracketRun ==
    ASSUME NEW s \in Seq(Records), InSequence(s), NEW key \in Int, NEW b, Brackets(s, key, b)
    PROVE  /\ RunAt(Second(s), b.start, b.end)
           /\ {Second(s)[i] : i \in (b.start + 1)..b.end} = KeyRows(ToSet(s), key)
  <1> DEFINE n == Len(s)
  <1>1. /\ n \in Nat /\ DOMAIN s = 1..n /\ \A i \in 1..n : s[i][1] \in Int /\ s[i][2] \in Int
        /\ \A i, j \in 1..n : i < j => (s[i][1] = s[j][1] => s[i][2] < s[j][2])
    BY RecordsOrdered
  <1>2. b.start \in 0..n /\ b.end \in b.start..n /\ \A i \in 1..n : s[i][1] = key <=> b.start < i /\ i <= b.end
    BY DEF Brackets
  <1>3. Second(s) \in [1..n -> Int] /\ \A i \in 1..n : Second(s)[i] = s[i][2]
    BY <1>1 DEF Second
  <1> HIDE DEF n
  <1>4. Second(s) \in Seq(Int) /\ Len(Second(s)) = n
    BY <1>1, <1>3, SeqFrom
  <1>5. \A i \in (b.start + 1)..b.end : i \in 1..n /\ s[i][1] = key
    BY <1>1, <1>2
  <1>6. RunAt(Second(s), b.start, b.end)
    <2>1. b.start \in 0..Len(Second(s)) /\ b.end \in b.start..Len(Second(s))
      BY <1>2, <1>4
    <2>2. \A i, j \in (b.start + 1)..b.end : i < j => Second(s)[i] < Second(s)[j]
      BY <1>1, <1>3, <1>5
    <2>3. QED BY <1>4, <2>1, <2>2 DEF RunAt
  <1>7. \A x : x \in KeyRows(ToSet(s), key) <=> \E i \in 1..n : s[i][1] = key /\ x = s[i][2]
    BY <1>1 DEF KeyRows, ToSet
  <1>8. \A i \in 1..n : s[i][1] = key => i \in (b.start + 1)..b.end
    BY <1>1, <1>2
  <1>9. \A x : x \in {Second(s)[i] : i \in (b.start + 1)..b.end} <=> x \in KeyRows(ToSet(s), key)
    BY <1>3, <1>5, <1>7, <1>8
  <1>10. QED BY <1>6, <1>9

(* The partition points bracket a key.                                     *)
LEMMA PointsBracket ==
    ASSUME NEW s \in Seq(Records), InSequence(s), NEW key \in Int
    PROVE  Brackets(s, key, [start |-> KeyLowerBound(s, key), end |-> KeyUpperBound(s, key)])
  <1> DEFINE lo == KeyLowerBound(s, key)
             hi == KeyUpperBound(s, key)
  <1>1. Len(s) \in Nat /\ \A i \in 1..Len(s) : s[i][1] \in Int
    BY RecordsOrdered
  <1>2. /\ lo \in 0..Len(s) /\ hi \in lo..Len(s)
        /\ \A i \in 1..Len(s) : (s[i][1] < key <=> i <= lo) /\ (s[i][1] <= key <=> i <= hi)
    BY KeyPoints
  <1> HIDE DEF lo, hi
  <1>3. \A i \in 1..Len(s) : s[i][1] = key <=> lo < i /\ i <= hi
    BY <1>1, <1>2
  <1>4. QED BY <1>2, <1>3 DEF Brackets, lo, hi

(* A flat file: the keys are searched.                                     *)
LEMMA FlatBounds ==
    ASSUME NEW s \in Seq(Records), InSequence(s), NEW key \in Int, NEW file,
           file.kind = "flatpost", file.records = s
    PROVE  Brackets(s, key, ListBounds(file, key))
  <1> DEFINE lo == KeyLowerBound(s, key)
             hi == KeyUpperBound(s, key)
  <1>1. ListBounds(file, key) = IF lo = Len(s) \/ s[lo + 1][1] # key THEN [start |-> lo, end |-> lo]
                                ELSE [start |-> lo, end |-> hi]
    BY DEF ListBounds
  <1>2. Brackets(s, key, [start |-> lo, end |-> hi])
    BY PointsBracket
  <1>3. /\ Len(s) \in Nat /\ lo \in 0..Len(s) /\ \A i \in 1..Len(s) : s[i][1] \in Int
        /\ \A i \in 1..Len(s) : s[i][1] < key <=> i <= lo
        /\ \A i, j \in 1..Len(s) : i < j => s[i][1] <= s[j][1]
    BY KeyPoints, RecordsOrdered
  <1> HIDE DEF lo, hi
  <1>4. ASSUME lo = Len(s) \/ s[lo + 1][1] # key PROVE Brackets(s, key, [start |-> lo, end |-> lo])
    <2>1. \A i \in 1..Len(s) : s[i][1] # key
      <3>1. SUFFICES ASSUME NEW i \in 1..Len(s), s[i][1] = key PROVE FALSE
        OBVIOUS
      <3>2. lo < i /\ lo + 1 \in 1..Len(s)
        BY <1>3, <3>1
      <3>3. s[lo + 1][1] # key /\ key <= s[lo + 1][1]
        BY <1>3, <1>4, <3>2
      <3>4. i # lo + 1
        BY <3>1, <3>3
      <3>5. lo + 1 < i
        BY <1>3, <3>2, <3>4
      <3>6. s[lo + 1][1] <= s[i][1] /\ s[lo + 1][1] \in Int
        BY <1>3, <3>2, <3>5
      <3>7. QED BY <3>1, <3>3, <3>6
    <2>2. \A i \in 1..Len(s) : ~ (lo < i /\ i <= lo)
      BY <1>3
    <2>3. lo \in lo..Len(s)
      BY <1>3
    <2>4. QED BY <1>3, <2>1, <2>2, <2>3 DEF Brackets
  <1>5. QED BY <1>1, <1>2, <1>4

----------------------------------------------------------------------------
(* The directory of a postings file.                                       *)

AddEntry(dir, key, at) ==
    IF dir # <<>> /\ Last(dir).key = key
    THEN [dir EXCEPT ![Len(dir)].len = @ + 1]
    ELSE Append(dir, [key |-> key, start |-> at, len |-> 1])

DirectoryWalk(sorted, n) ==
    \E f : /\ f[0] = <<>> /\ \A i \in 1..n : f[i] = AddEntry(f[i - 1], sorted[i][1], i - 1)
           /\ Directory(sorted) = f[n]

\* Directory adds the sorted records one after the other.
LEMMA DirectorySteps ==
    ASSUME NEW sorted, Len(sorted) \in Nat
    PROVE  DirectoryWalk(sorted, Len(sorted))
  <1>0. Len(sorted) \in Nat
    OBVIOUS
  <1> DEFINE B(x, i) == IF x # <<>> /\ Last(x).key = sorted[i][1]
                        THEN [x EXCEPT ![Len(x)].len = @ + 1]
                        ELSE Append(x, [key |-> sorted[i][1], start |-> i - 1, len |-> 1])
             f == CHOOSE g : g = [i \in 0..Len(sorted) |-> IF i = 0 THEN <<>> ELSE B(g[i - 1], i)]
             Solves(g, m) == g = [i \in 0..m |-> IF i = 0 THEN <<>> ELSE B(g[i - 1], i)]
             T == {m \in 0..Len(sorted) : \E g : Solves(g, m)}
  <1>u1. Directory(sorted) = f[Len(sorted)]
    BY Zenon DEF Directory
  <1> HIDE DEF B
  <1>u2. 0 \in T
    <2> DEFINE g == [i \in 0..0 |-> <<>>]
    <2>1. 0 \in 0..Len(sorted) /\ \A i \in 0..0 : i = 0
      BY <1>0
    <2>2. Solves(g, 0)
      BY <2>1
    <2> HIDE DEF g, Solves
    <2>3. QED BY <2>1, <2>2
  <1>u3. \A m \in 0..(Len(sorted) - 1) : m \in T => m + 1 \in T
    <2>1. SUFFICES ASSUME NEW m \in 0..(Len(sorted) - 1), m \in T PROVE m + 1 \in T
      OBVIOUS
    <2>2. PICK g : Solves(g, m)
      BY <2>1
    <2> DEFINE h == [i \in 0..(m + 1) |-> IF i = m + 1 THEN B(g[m], m + 1) ELSE g[i]]
    <2>3. m \in Nat /\ m + 1 \in 0..Len(sorted) /\ m + 1 # 0 /\ (m + 1) - 1 = m
      BY <1>0
    <2>4. ASSUME NEW i \in 0..(m + 1) PROVE h[i] = IF i = 0 THEN <<>> ELSE B(h[i - 1], i)
      <3>1. CASE i = m + 1
        <4>1. m \in 0..(m + 1) /\ m # m + 1
          BY <2>3
        <4>2. h[m] = g[m] /\ h[m + 1] = B(g[m], m + 1)
          BY <2>3, <4>1
        <4> HIDE DEF h
        <4>3. QED BY <2>3, <3>1, <4>2, Zenon
      <3>2. CASE i # m + 1
        <4>1. i \in 0..m /\ (i # 0 => i - 1 \in 0..(m + 1) /\ i - 1 # m + 1)
          BY <2>3, <3>2
        <4>2. h[i] = g[i] /\ (i # 0 => h[i - 1] = g[i - 1])
          BY <3>2, <4>1
        <4>3. g[i] = IF i = 0 THEN <<>> ELSE B(g[i - 1], i)
          BY <2>2, <4>1, Zenon
        <4> HIDE DEF h
        <4>4. CASE i = 0
          BY <4>2, <4>3, <4>4, Zenon
        <4>5. CASE i # 0
          BY <4>2, <4>3, <4>5, Zenon
        <4>6. QED BY <4>4, <4>5, Zenon
      <3>3. QED BY <3>1, <3>2, Zenon
    <2>5. Solves(h, m + 1)
      <3>1. h = [i \in 0..(m + 1) |-> h[i]]
        OBVIOUS
      <3> HIDE DEF h
      <3>2. QED BY <2>4, <3>1, Zenon
    <2> HIDE DEF h, Solves
    <2>6. QED BY <2>3, <2>5
  <1>u4. Len(sorted) \in T
    <2> HIDE DEF T
    <2>1. 0..Len(sorted) \subseteq T
      BY <1>0, <1>u2, <1>u3, UpTo
    <2>2. QED BY <1>0, <2>1
  <1>u5. Solves(f, Len(sorted))
    <2>1. \E g : Solves(g, Len(sorted))
      BY <1>u4, Zenon
    <2>2. QED BY <2>1, Zenon
  <1> HIDE DEF f
  <1>u6. f[0] = <<>>
    <2>1. 0 \in 0..Len(sorted)
      BY <1>0
    <2>2. QED BY <1>u5, <2>1, Zenon
  <1>u7. \A i \in 1..Len(sorted) : f[i] = B(f[i - 1], i)
    <2>1. \A i \in 1..Len(sorted) : i \in 0..Len(sorted) /\ i # 0
      BY <1>0
    <2>2. QED BY <1>u5, <2>1, Zenon
  <1> HIDE DEF Solves, T
  <1>1. QED BY <1>u1, <1>u6, <1>u7, Zenon DEF DirectoryWalk, B, AddEntry

FillTo(offsets, key, n) == offsets \o [i \in 1..(key + 1 - Len(offsets)) |-> n]

OffsetsWalk(sorted, keyspace, n) ==
    \E f : /\ f[0] = <<>> /\ \A i \in 1..n : f[i] = FillTo(f[i - 1], sorted[i][1], i - 1)
           /\ Offsets(sorted, keyspace) = FillTo(f[n], keyspace, n)

\* Offsets fills up to the key of each sorted record, one after the other.
LEMMA OffsetsSteps ==
    ASSUME NEW sorted, Len(sorted) \in Nat, NEW keyspace
    PROVE  OffsetsWalk(sorted, keyspace, Len(sorted))
  <1>0. Len(sorted) \in Nat
    OBVIOUS
  <1> DEFINE B(x, i) == x \o [j \in 1..(sorted[i][1] + 1 - Len(x)) |-> i - 1]
             f == CHOOSE g : g = [i \in 0..Len(sorted) |-> IF i = 0 THEN <<>> ELSE B(g[i - 1], i)]
             Solves(g, m) == g = [i \in 0..m |-> IF i = 0 THEN <<>> ELSE B(g[i - 1], i)]
             T == {m \in 0..Len(sorted) : \E g : Solves(g, m)}
  <1>u1. Offsets(sorted, keyspace) = f[Len(sorted)] \o [j \in 1..(keyspace + 1 - Len(f[Len(sorted)])) |-> Len(sorted)]
    BY Zenon DEF Offsets
  <1> HIDE DEF B
  <1>u2. 0 \in T
    <2> DEFINE g == [i \in 0..0 |-> <<>>]
    <2>1. 0 \in 0..Len(sorted) /\ \A i \in 0..0 : i = 0
      BY <1>0
    <2>2. Solves(g, 0)
      BY <2>1
    <2> HIDE DEF g, Solves
    <2>3. QED BY <2>1, <2>2
  <1>u3. \A m \in 0..(Len(sorted) - 1) : m \in T => m + 1 \in T
    <2>1. SUFFICES ASSUME NEW m \in 0..(Len(sorted) - 1), m \in T PROVE m + 1 \in T
      OBVIOUS
    <2>2. PICK g : Solves(g, m)
      BY <2>1
    <2> DEFINE h == [i \in 0..(m + 1) |-> IF i = m + 1 THEN B(g[m], m + 1) ELSE g[i]]
    <2>3. m \in Nat /\ m + 1 \in 0..Len(sorted) /\ m + 1 # 0 /\ (m + 1) - 1 = m
      BY <1>0
    <2>4. ASSUME NEW i \in 0..(m + 1) PROVE h[i] = IF i = 0 THEN <<>> ELSE B(h[i - 1], i)
      <3>1. CASE i = m + 1
        <4>1. m \in 0..(m + 1) /\ m # m + 1
          BY <2>3
        <4>2. h[m] = g[m] /\ h[m + 1] = B(g[m], m + 1)
          BY <2>3, <4>1
        <4> HIDE DEF h
        <4>3. QED BY <2>3, <3>1, <4>2, Zenon
      <3>2. CASE i # m + 1
        <4>1. i \in 0..m /\ (i # 0 => i - 1 \in 0..(m + 1) /\ i - 1 # m + 1)
          BY <2>3, <3>2
        <4>2. h[i] = g[i] /\ (i # 0 => h[i - 1] = g[i - 1])
          BY <3>2, <4>1
        <4>3. g[i] = IF i = 0 THEN <<>> ELSE B(g[i - 1], i)
          BY <2>2, <4>1, Zenon
        <4> HIDE DEF h
        <4>4. CASE i = 0
          BY <4>2, <4>3, <4>4, Zenon
        <4>5. CASE i # 0
          BY <4>2, <4>3, <4>5, Zenon
        <4>6. QED BY <4>4, <4>5, Zenon
      <3>3. QED BY <3>1, <3>2, Zenon
    <2>5. Solves(h, m + 1)
      <3>1. h = [i \in 0..(m + 1) |-> h[i]]
        OBVIOUS
      <3> HIDE DEF h
      <3>2. QED BY <2>4, <3>1, Zenon
    <2> HIDE DEF h, Solves
    <2>6. QED BY <2>3, <2>5
  <1>u4. Len(sorted) \in T
    <2> HIDE DEF T
    <2>1. 0..Len(sorted) \subseteq T
      BY <1>0, <1>u2, <1>u3, UpTo
    <2>2. QED BY <1>0, <2>1
  <1>u5. Solves(f, Len(sorted))
    <2>1. \E g : Solves(g, Len(sorted))
      BY <1>u4, Zenon
    <2>2. QED BY <2>1, Zenon
  <1> HIDE DEF f
  <1>u6. f[0] = <<>>
    <2>1. 0 \in 0..Len(sorted)
      BY <1>0
    <2>2. QED BY <1>u5, <2>1, Zenon
  <1>u7. \A i \in 1..Len(sorted) : f[i] = B(f[i - 1], i)
    <2>1. \A i \in 1..Len(sorted) : i \in 0..Len(sorted) /\ i # 0
      BY <1>0
    <2>2. QED BY <1>u5, <2>1, Zenon
  <1> HIDE DEF Solves, T
  <1>1. QED BY <1>u1, <1>u6, <1>u7, Zenon DEF OffsetsWalk, B, FillTo

DirEntry == [key : Int, start : Nat, len : Nat \ {0}]

(* The entries are the changes of key among the first n records.           *)
DirectoryOK(s, n, dir) ==
    /\ dir \in Seq(DirEntry)
    /\ \A e \in 1..Len(dir) : \A i \in 1..n :
          s[i][1] = dir[e].key <=> dir[e].start < i /\ i <= dir[e].start + dir[e].len
    /\ \A e, f \in 1..Len(dir) : e < f => dir[e].key < dir[f].key
    /\ \A e \in 1..Len(dir) : dir[e].start + dir[e].len <= n
    /\ \A i \in 1..n : \E e \in 1..Len(dir) : dir[e].key = s[i][1]
    /\ n = 0 => dir = <<>>
    /\ n # 0 => Len(dir) # 0 /\ dir[Len(dir)].key = s[n][1] /\ dir[Len(dir)].start + dir[Len(dir)].len = n

\* A record extends the last directory entry or starts one, and the directory stays right.
LEMMA DirectoryStep ==
    ASSUME NEW s \in Seq(Records), InSequence(s), NEW n \in 0..(Len(s) - 1), NEW dir, DirectoryOK(s, n, dir)
    PROVE  DirectoryOK(s, n + 1, AddEntry(dir, s[n + 1][1], n))
  <1> DEFINE k == s[n + 1][1]
             more == AddEntry(dir, k, n)
             d == Len(dir)
  <1>1. /\ Len(s) \in Nat /\ \A i \in 1..Len(s) : s[i][1] \in Int
        /\ \A i, j \in 1..Len(s) : i < j => s[i][1] <= s[j][1]
    BY RecordsOrdered
  <1>2. n \in Nat /\ n + 1 \in 1..Len(s) /\ k \in Int /\ \A i \in 1..n : i \in 1..Len(s) /\ i < n + 1 /\ s[i][1] <= k
    BY <1>1
  <1>3. \A i \in 1..(n + 1) : i \in 1..n \/ i = n + 1
    BY <1>2
  <1>4. /\ dir \in Seq(DirEntry) /\ d \in Nat
        /\ \A e \in 1..d : dir[e] \in DirEntry
        /\ \A e \in 1..d : dir[e].key \in Int /\ dir[e].start \in Nat /\ dir[e].len \in Nat \ {0}
        /\ \A e \in 1..d : \A i \in 1..n :
              s[i][1] = dir[e].key <=> dir[e].start < i /\ i <= dir[e].start + dir[e].len
        /\ \A e, f \in 1..d : e < f => dir[e].key < dir[f].key
        /\ \A e \in 1..d : dir[e].start + dir[e].len <= n
        /\ \A i \in 1..n : \E e \in 1..d : dir[e].key = s[i][1]
        /\ n = 0 => dir = <<>>
        /\ n # 0 => d # 0 /\ dir[d].key = s[n][1] /\ dir[d].start + dir[d].len = n
    <2>1. dir \in Seq(DirEntry) /\ d \in Nat /\ \A e \in 1..d : dir[e] \in DirEntry
      BY DEF DirectoryOK
    <2>2. \A e \in 1..d : dir[e].key \in Int /\ dir[e].start \in Nat /\ dir[e].len \in Nat \ {0}
      BY <2>1 DEF DirEntry
    <2>3. QED BY <2>1, <2>2 DEF DirectoryOK
  <1>41. d \in Nat /\ \A e \in 1..d : dir[e].key \in Int /\ dir[e].start \in Nat /\ dir[e].len \in Nat
    BY <1>4
  <1>42. \A e \in 1..d : \A i \in 1..n :
            s[i][1] = dir[e].key <=> dir[e].start < i /\ i <= dir[e].start + dir[e].len
    BY <1>4
  <1>43. \A e, f \in 1..d : e < f => dir[e].key < dir[f].key
    BY <1>4
  <1>44. \A e \in 1..d : dir[e].start + dir[e].len <= n
    BY <1>4
  <1>45. \A i \in 1..n : \E e \in 1..d : dir[e].key = s[i][1]
    BY <1>4
  <1>5. \A e \in 1..d : dir[e].key <= s[n][1] /\ n # 0
    <2>1. SUFFICES ASSUME NEW e \in 1..d PROVE dir[e].key <= s[n][1] /\ n # 0
      OBVIOUS
    <2>2. n # 0 /\ d \in 1..d
      BY <1>4
    <2>3. e = d \/ e < d
      BY <1>4
    <2>4. s[n][1] \in Int
      BY <1>1, <1>2, <2>2
    <2>5. QED BY <1>4, <2>2, <2>3, <2>4
  <1> HIDE DEF k, d
  <1>6. CASE dir # <<>> /\ Last(dir).key = k
    <2>1. d \in 1..d /\ dir[d].key = k
      BY <1>4, <1>6 DEF Last, d
    <2> DEFINE entry == [dir[d] EXCEPT !.len = @ + 1]
    <2>2. more = [dir EXCEPT ![d] = entry]
      BY <1>6 DEF AddEntry, d
    <2>3. entry \in DirEntry /\ entry.key = k /\ entry.start = dir[d].start /\ entry.len = dir[d].len + 1
      <3>1. dir[d] \in DirEntry
        BY <1>4, <2>1
      <3>2. QED BY <2>1, <3>1 DEF DirEntry
    <2> HIDE DEF entry, more
    <2>4. /\ more \in Seq(DirEntry) /\ Len(more) = d
          /\ more[d] = entry /\ \A e \in 1..d : e # d => more[e] = dir[e]
      BY <1>4, <2>1, <2>2, <2>3 DEF d
    <2>5. \A e \in 1..d : more[e].key = dir[e].key /\ more[e].start = dir[e].start
      BY <2>1, <2>3, <2>4
    <2>6. dir[d].start + dir[d].len = n /\ n # 0
      BY <1>4, <1>5, <2>1
    <2>7. \A e \in 1..d : \A i \in 1..(n + 1) :
              s[i][1] = more[e].key <=> more[e].start < i /\ i <= more[e].start + more[e].len
      <3>1. SUFFICES ASSUME NEW e \in 1..d, NEW i \in 1..(n + 1)
                     PROVE  s[i][1] = more[e].key <=> more[e].start < i /\ i <= more[e].start + more[e].len
        OBVIOUS
      <3>2. CASE e = d
        <4>1. CASE i \in 1..n
          <5>1. s[i][1] = dir[d].key <=> dir[d].start < i /\ i <= dir[d].start + dir[d].len
            BY <1>4, <2>1, <4>1
          <5>2. i <= n /\ i \in Nat
            BY <1>2, <4>1
          <5>3. more[e].key = k /\ more[e].start = dir[d].start /\ more[e].len = dir[d].len + 1
            BY <2>3, <2>4, <3>2
          <5>4. dir[d].start \in Nat /\ dir[d].len \in Nat /\ dir[d].key = k
            BY <1>41, <2>1
          <5>5. QED BY <1>2, <2>6, <5>1, <5>2, <5>3, <5>4
        <4>2. CASE i = n + 1
          <5>1. s[i][1] = k
            BY <4>2 DEF k
          <5>2. more[e].key = k /\ more[e].start = dir[d].start /\ more[e].len = dir[d].len + 1
            BY <2>3, <2>4, <3>2
          <5>3. dir[d].start \in Nat /\ dir[d].len \in Nat
            BY <1>41, <2>1
          <5>4. QED BY <1>2, <2>6, <4>2, <5>1, <5>2, <5>3
        <4>3. QED BY <1>3, <4>1, <4>2
      <3>3. CASE e # d
        <4>1. more[e] = dir[e] /\ dir[e].key # k /\ dir[e].start + dir[e].len <= n
          <5>1. e < d
            BY <1>41, <3>3
          <5>2. dir[e].key < dir[d].key
            BY <1>43, <2>1, <5>1
          <5>3. QED BY <1>2, <1>41, <1>44, <2>1, <2>4, <3>3, <5>2
        <4>2. CASE i \in 1..n
          BY <1>42, <4>1, <4>2
        <4>3. CASE i = n + 1
          <5>1. s[i][1] # more[e].key
            BY <4>1, <4>3 DEF k
          <5>2. ~ (i <= more[e].start + more[e].len)
            BY <1>2, <1>41, <4>1, <4>3
          <5>3. QED BY <5>1, <5>2
        <4>4. QED BY <1>3, <4>2, <4>3
      <3>4. QED BY <3>2, <3>3
    <2>8. \A e \in 1..d : more[e].start + more[e].len <= n + 1
      <3>1. SUFFICES ASSUME NEW e \in 1..d PROVE more[e].start + more[e].len <= n + 1
        OBVIOUS
      <3>2. CASE e = d
        <4>1. more[e].start = dir[d].start /\ more[e].len = dir[d].len + 1
          BY <2>3, <2>4, <3>2
        <4>2. dir[d].start \in Nat /\ dir[d].len \in Nat
          BY <1>41, <2>1
        <4>3. QED BY <1>2, <2>6, <4>1, <4>2
      <3>3. CASE e # d
        <4>1. more[e] = dir[e] /\ dir[e].start + dir[e].len <= n
          BY <1>44, <2>4, <3>3
        <4>2. QED BY <1>2, <1>41, <4>1
      <3>4. QED BY <3>2, <3>3
    <2>9. \A i \in 1..(n + 1) : \E e \in 1..d : more[e].key = s[i][1]
      <3>1. SUFFICES ASSUME NEW i \in 1..(n + 1) PROVE \E e \in 1..d : more[e].key = s[i][1]
        OBVIOUS
      <3>2. CASE i \in 1..n
        <4>1. PICK e \in 1..d : dir[e].key = s[i][1]
          BY <1>45, <3>2
        <4>2. QED BY <2>5, <4>1
      <3>3. CASE i = n + 1
        BY <2>1, <2>5, <3>3 DEF k
      <3>4. QED BY <1>3, <3>2, <3>3
    <2>10. more[d].key = s[n + 1][1] /\ more[d].start + more[d].len = n + 1 /\ d # 0 /\ n + 1 # 0
      <3>1. more[d].key = k
        BY <2>3, <2>4
      <3>2. more[d].start + more[d].len = n + 1
        <4>1. more[d].start = dir[d].start /\ more[d].len = dir[d].len + 1
          BY <2>3, <2>4
        <4>2. dir[d].start \in Nat /\ dir[d].len \in Nat
          BY <1>41, <2>1
        <4>3. QED BY <1>2, <2>6, <4>1, <4>2
      <3>3. d # 0 /\ n + 1 # 0
        BY <1>2, <1>41, <2>1
      <3>4. QED BY <3>1, <3>2, <3>3 DEF k
    <2>11. \A e, f \in 1..d : e < f => more[e].key < more[f].key
      BY <1>43, <2>5
    <2>12. DirectoryOK(s, n + 1, more)
      BY <2>4, <2>7, <2>8, <2>9, <2>10, <2>11 DEF DirectoryOK
    <2>13. QED BY <2>12 DEF more, k
  <1>7. CASE ~ (dir # <<>> /\ Last(dir).key = k)
    <2> DEFINE entry == [key |-> k, start |-> n, len |-> 1]
    <2>1. more = Append(dir, entry)
      BY <1>7 DEF AddEntry
    <2>2. entry \in DirEntry /\ entry.key = k /\ entry.start = n /\ entry.len = 1
      BY <1>2 DEF DirEntry
    <2> HIDE DEF entry, more
    <2>3. /\ more \in Seq(DirEntry) /\ Len(more) = d + 1
          /\ more[d + 1] = entry /\ \A e \in 1..d : more[e] = dir[e]
      BY <1>4, <2>1, <2>2 DEF d
    <2>4. \A e \in 1..d : dir[e].key < k
      <3>1. SUFFICES ASSUME NEW e \in 1..d PROVE dir[e].key < k
        OBVIOUS
      <3>20. n # 0
        BY <1>5
      <3>21. dir # <<>>
        BY <1>41 DEF d
      <3>2. n # 0 /\ dir[d].key = s[n][1] /\ dir # <<>>
        BY <1>4, <3>20, <3>21
      <3>3. s[n][1] # k
        BY <1>7, <3>2 DEF Last, d
      <3>4. s[n][1] <= k /\ s[n][1] \in Int
        BY <1>1, <1>2, <3>2
      <3>5. dir[e].key <= s[n][1] /\ dir[e].key \in Int
        BY <1>41, <1>5
      <3>6. QED BY <1>2, <3>3, <3>4, <3>5
    <2>5. \A i \in 1..n : s[i][1] # k
      <3>1. SUFFICES ASSUME NEW i \in 1..n, s[i][1] = k PROVE FALSE
        OBVIOUS
      <3>2. PICK e \in 1..d : dir[e].key = s[i][1]
        BY <1>4
      <3>3. dir[e].key < k /\ k \in Int
        BY <1>2, <2>4
      <3>4. QED BY <3>1, <3>2, <3>3
    <2>6. \A e \in 1..(d + 1) : e \in 1..d \/ e = d + 1
      BY <1>4
    <2>7. d + 1 \in 1..(d + 1) /\ \A e \in 1..d : e \in 1..(d + 1)
      BY <1>4
    <2>8. \A e \in 1..(d + 1) : \A i \in 1..(n + 1) :
              s[i][1] = more[e].key <=> more[e].start < i /\ i <= more[e].start + more[e].len
      <3>1. SUFFICES ASSUME NEW e \in 1..(d + 1), NEW i \in 1..(n + 1)
                     PROVE  s[i][1] = more[e].key <=> more[e].start < i /\ i <= more[e].start + more[e].len
        OBVIOUS
      <3>2. CASE e = d + 1
        <4>1. more[e].key = k /\ more[e].start = n /\ more[e].len = 1
          BY <2>2, <2>3, <3>2
        <4>2. CASE i \in 1..n
          BY <1>2, <2>5, <4>1, <4>2
        <4>3. CASE i = n + 1
          BY <1>2, <4>1, <4>3 DEF k
        <4>4. QED BY <1>3, <4>2, <4>3
      <3>3. CASE e \in 1..d
        <4>1. more[e] = dir[e] /\ dir[e].key # k /\ dir[e].start + dir[e].len <= n
          BY <1>2, <1>41, <1>44, <2>3, <2>4, <3>3
        <4>2. CASE i \in 1..n
          BY <1>42, <3>3, <4>1, <4>2
        <4>3. CASE i = n + 1
          <5>1. s[i][1] # more[e].key
            BY <4>1, <4>3 DEF k
          <5>2. ~ (i <= more[e].start + more[e].len)
            BY <1>2, <1>41, <3>3, <4>1, <4>3
          <5>3. QED BY <5>1, <5>2
        <4>4. QED BY <1>3, <4>2, <4>3
      <3>4. QED BY <2>6, <3>2, <3>3
    <2>9. \A e \in 1..(d + 1) : more[e].start + more[e].len <= n + 1
      <3>1. SUFFICES ASSUME NEW e \in 1..(d + 1) PROVE more[e].start + more[e].len <= n + 1
        OBVIOUS
      <3>2. CASE e = d + 1
        BY <1>2, <2>2, <2>3, <3>2
      <3>3. CASE e \in 1..d
        <4>1. more[e] = dir[e] /\ dir[e].start + dir[e].len <= n
          BY <1>44, <2>3, <3>3
        <4>2. QED BY <1>2, <1>41, <3>3, <4>1
      <3>4. QED BY <2>6, <3>2, <3>3
    <2>10. \A i \in 1..(n + 1) : \E e \in 1..(d + 1) : more[e].key = s[i][1]
      <3>1. SUFFICES ASSUME NEW i \in 1..(n + 1) PROVE \E e \in 1..(d + 1) : more[e].key = s[i][1]
        OBVIOUS
      <3>2. CASE i \in 1..n
        BY <1>4, <2>3, <2>7, <3>2
      <3>3. CASE i = n + 1
        BY <2>2, <2>3, <2>7, <3>3 DEF k
      <3>4. QED BY <1>3, <3>2, <3>3
    <2>11. \A e, f \in 1..(d + 1) : e < f => more[e].key < more[f].key
      <3>1. SUFFICES ASSUME NEW e \in 1..(d + 1), NEW f \in 1..(d + 1), e < f PROVE more[e].key < more[f].key
        OBVIOUS
      <3>2. e \in 1..d
        BY <1>4, <3>1
      <3>3. CASE f = d + 1
        BY <2>2, <2>3, <2>4, <3>2, <3>3
      <3>4. CASE f \in 1..d
        BY <1>43, <2>3, <3>1, <3>2, <3>4
      <3>5. QED BY <2>6, <3>3, <3>4
    <2>12. more[d + 1].key = s[n + 1][1] /\ more[d + 1].start + more[d + 1].len = n + 1 /\ d + 1 # 0 /\ n + 1 # 0
      BY <1>2, <1>41, <2>2, <2>3 DEF k
    <2>13. DirectoryOK(s, n + 1, more)
      BY <2>3, <2>8, <2>9, <2>10, <2>11, <2>12 DEF DirectoryOK
    <2>14. QED BY <2>13 DEF more, k
  <1>8. QED BY <1>6, <1>7

\* The directory of sorted records gives every key its place.
LEMMA DirectoryHolds ==
    ASSUME NEW s \in Seq(Records), InSequence(s)
    PROVE  DirectoryOK(s, Len(s), Directory(s))
  <1> DEFINE n == Len(s)
  <1>1. n \in Nat
    OBVIOUS
  <1>2. DirectoryWalk(s, n)
    BY <1>1, DirectorySteps
  <1> HIDE DEF n
  <1>3. PICK f : /\ f[0] = <<>> /\ \A i \in 1..n : f[i] = AddEntry(f[i - 1], s[i][1], i - 1)
                 /\ Directory(s) = f[n]
    BY <1>2 DEF DirectoryWalk
  <1> DEFINE T == {m \in 0..n : DirectoryOK(s, m, f[m])}
  <1>4. 0 \in T
    <2>1. DirectoryOK(s, 0, <<>>)
      BY DEF DirectoryOK
    <2>2. QED BY <1>1, <1>3, <2>1
  <1>5. \A m \in 0..(n - 1) : m \in T => m + 1 \in T
    <2>1. SUFFICES ASSUME NEW m \in 0..(n - 1), DirectoryOK(s, m, f[m]) PROVE m + 1 \in T
      OBVIOUS
    <2>2. m + 1 \in 1..n /\ m + 1 \in 0..n /\ (m + 1) - 1 = m
      BY <1>1
    <2>3. f[m + 1] = AddEntry(f[m], s[m + 1][1], m)
      BY <1>3, <2>2
    <2>4. DirectoryOK(s, m + 1, AddEntry(f[m], s[m + 1][1], m))
      BY <2>1, DirectoryStep DEF n
    <2>5. QED BY <2>2, <2>3, <2>4
  <1>6. n \in T
    <2> HIDE DEF T
    <2>1. 0..n \subseteq T
      BY <1>1, <1>4, <1>5, UpTo
    <2>2. QED BY <1>1, <2>1
  <1>7. QED BY <1>3, <1>6 DEF n

(* offset[k + 1] is where the keys below k end among the first n records.  *)
OffsetsOK(s, n, offsets, top) ==
    /\ offsets \in Seq(Nat) /\ Len(offsets) = top
    /\ \A i \in 1..n : s[i][1] < top
    /\ \A k \in 0..(top - 1) : offsets[k + 1] \in 0..n /\ \A i \in 1..n : s[i][1] < k <=> i <= offsets[k + 1]

\* Filling the offsets up to a key leaves every offset the number of records of smaller keys.
LEMMA OffsetsFill ==
    ASSUME NEW s, NEW n \in Nat, NEW offsets, NEW top \in Nat, OffsetsOK(s, n, offsets, top),
           \A i \in 1..n : s[i][1] \in Int, NEW key \in Nat, top <= key + 1
    PROVE  OffsetsOK(s, n, FillTo(offsets, key, n), key + 1)
  <1> DEFINE m == key + 1 - top
             rest == [i \in 1..m |-> n]
             more == offsets \o rest
  <1>1. /\ offsets \in Seq(Nat) /\ Len(offsets) = top
        /\ \A i \in 1..n : s[i][1] < top
        /\ \A k \in 0..(top - 1) : offsets[k + 1] \in 0..n /\ \A i \in 1..n : s[i][1] < k <=> i <= offsets[k + 1]
    BY DEF OffsetsOK
  <1>2. FillTo(offsets, key, n) = more
    <2>1. Len(offsets) = top
      BY <1>1
    <2>2. QED BY <2>1 DEF FillTo
  <1>30. m \in Nat
    OBVIOUS
  <1> HIDE DEF m
  <1>3. m \in Nat /\ rest \in [1..m -> Nat] /\ \A i \in 1..m : rest[i] = n
    BY <1>30
  <1> HIDE DEF rest
  <1>4. rest \in Seq(Nat) /\ Len(rest) = m
    BY <1>3, SeqFrom
  <1>5. /\ more \in Seq(Nat) /\ Len(more) = top + m
        /\ \A i \in 1..top : more[i] = offsets[i] /\ \A j \in 1..m : more[top + j] = rest[j]
    <2>1. Len(offsets) = top /\ offsets \in Seq(Nat) /\ rest \in Seq(Nat) /\ Len(rest) = m /\ m \in Nat
      BY <1>1, <1>30, <1>4
    <2>20. offsets \in Seq(Nat) /\ rest \in Seq(Nat)
      BY <2>1
    <2>21. offsets \o rest \in Seq(Nat) /\ Len(offsets \o rest) = Len(offsets) + Len(rest)
      BY <2>20, JoinEntries
    <2>22. \A i \in 1..Len(offsets) : (offsets \o rest)[i] = offsets[i]
      BY <2>20, JoinEntries
    <2>23. \A j \in 1..Len(rest) : (offsets \o rest)[Len(offsets) + j] = rest[j]
      BY <2>20, JoinEntries
    <2>2. /\ more \in Seq(Nat) /\ Len(more) = Len(offsets) + Len(rest)
          /\ \A i \in 1..Len(offsets) : more[i] = offsets[i]
          /\ \A j \in 1..Len(rest) : more[Len(offsets) + j] = rest[j]
      BY <2>21, <2>22, <2>23
    <2> HIDE DEF more
    <2>3. QED BY <2>1, <2>2
  <1>50. \A j \in 1..m : more[top + j] = n
    BY <1>1, <1>3, <1>4
  <1> HIDE DEF more
  <1>6. top + m = key + 1
    BY DEF m
  <1>70. \A i \in 1..n : s[i][1] < top
    BY <1>1
  <1>7. \A i \in 1..n : s[i][1] < key + 1
    <2>1. SUFFICES ASSUME NEW i \in 1..n PROVE s[i][1] < key + 1
      OBVIOUS
    <2>2. s[i][1] \in Int /\ s[i][1] < top
      BY <1>70
    <2>3. QED BY <2>2
  <1>8. ASSUME NEW k \in 0..((key + 1) - 1)
        PROVE  more[k + 1] \in 0..n /\ \A i \in 1..n : s[i][1] < k <=> i <= more[k + 1]
    <2>1. CASE k < top
      <3>1. k \in 0..(top - 1) /\ k + 1 \in 1..top
        BY <2>1
      <3>2. more[k + 1] = offsets[k + 1]
        BY <1>5, <3>1
      <3>3. offsets[k + 1] \in 0..n /\ \A i \in 1..n : s[i][1] < k <=> i <= offsets[k + 1]
        BY <1>1, <3>1
      <3>4. QED BY <3>2, <3>3
    <2>2. CASE ~ (k < top)
      <3>1. k - top + 1 \in 1..m /\ top + (k - top + 1) = k + 1
        BY <1>6, <1>30, <2>2
      <3>2. more[k + 1] = n
        BY <1>50, <3>1
      <3>3. ASSUME NEW i \in 1..n PROVE s[i][1] < k <=> i <= n
        <4>1. s[i][1] \in Int /\ s[i][1] < top
          BY <1>70
        <4>2. QED BY <2>2, <4>1
      <3>4. QED BY <3>2, <3>3
    <2>3. QED BY <2>1, <2>2
  <1>9. OffsetsOK(s, n, more, key + 1)
    BY <1>5, <1>6, <1>7, <1>8 DEF OffsetsOK
  <1>10. QED BY <1>2, <1>9

\* A record of the last filled key changes no offset.
LEMMA OffsetsNext ==
    ASSUME NEW s, NEW n \in Nat, NEW offsets, NEW key \in Nat, OffsetsOK(s, n, offsets, key + 1),
           s[n + 1][1] = key
    PROVE  OffsetsOK(s, n + 1, offsets, key + 1)
  <1>1. \A i \in 1..(n + 1) : i \in 1..n \/ i = n + 1
    OBVIOUS
  <1>2. /\ offsets \in Seq(Nat) /\ Len(offsets) = key + 1
        /\ \A i \in 1..n : s[i][1] < key + 1
        /\ \A k \in 0..((key + 1) - 1) : offsets[k + 1] \in 0..n /\ \A i \in 1..n : s[i][1] < k <=> i <= offsets[k + 1]
    BY DEF OffsetsOK
  <1>3. \A i \in 1..(n + 1) : s[i][1] < key + 1
    <2>1. \A i \in 1..n : s[i][1] < key + 1
      BY <1>2
    <2>2. s[n + 1][1] < key + 1
      OBVIOUS
    <2>3. QED BY <1>1, <2>1, <2>2
  <1>4. ASSUME NEW k \in 0..((key + 1) - 1)
        PROVE  offsets[k + 1] \in 0..(n + 1) /\ \A i \in 1..(n + 1) : s[i][1] < k <=> i <= offsets[k + 1]
    <2>1. offsets[k + 1] \in 0..n /\ \A i \in 1..n : s[i][1] < k <=> i <= offsets[k + 1]
      BY <1>2
    <2>2. ~ (s[n + 1][1] < k) /\ ~ (n + 1 <= offsets[k + 1]) /\ offsets[k + 1] \in 0..(n + 1)
      BY <2>1
    <2>3. QED BY <1>1, <2>1, <2>2
  <1>5. QED BY <1>2, <1>3, <1>4 DEF OffsetsOK

\* The offsets of sorted records give every key of the keyspace its place.
LEMMA OffsetsHold ==
    ASSUME NEW s \in Seq(Records), InSequence(s), NEW keyspace \in Nat,
           \A i \in 1..Len(s) : s[i][1] \in Nat /\ s[i][1] < keyspace
    PROVE  OffsetsOK(s, Len(s), Offsets(s, keyspace), keyspace + 1)
  <1> DEFINE n == Len(s)
  <1>1. n \in Nat /\ \A i, j \in 1..n : i < j => s[i][1] <= s[j][1]
    BY RecordsOrdered
  <1>2. OffsetsWalk(s, keyspace, n) /\ \A i \in 1..n : s[i][1] \in Nat /\ s[i][1] < keyspace
    BY <1>1, OffsetsSteps
  <1> HIDE DEF n
  <1>3. PICK f : /\ f[0] = <<>> /\ \A i \in 1..n : f[i] = FillTo(f[i - 1], s[i][1], i - 1)
                 /\ Offsets(s, keyspace) = FillTo(f[n], keyspace, n)
    BY <1>2 DEF OffsetsWalk
  <1> DEFINE top(m) == IF m = 0 THEN 0 ELSE s[m][1] + 1
             T == {m \in 0..n : OffsetsOK(s, m, f[m], top(m))}
  <1>4. 0 \in T
    <2>1. OffsetsOK(s, 0, <<>>, 0)
      BY DEF OffsetsOK
    <2>2. QED BY <1>1, <1>3, <2>1
  <1>5. \A m \in 0..(n - 1) : m \in T => m + 1 \in T
    <2>1. SUFFICES ASSUME NEW m \in 0..(n - 1), OffsetsOK(s, m, f[m], top(m)) PROVE m + 1 \in T
      OBVIOUS
    <2>2. m \in Nat /\ m + 1 \in 1..n /\ m + 1 \in 0..n /\ (m + 1) - 1 = m /\ m + 1 # 0
      BY <1>1
    <2>3. PICK key \in Nat : key = s[m + 1][1]
      BY <1>2, <2>2
    <2>4. f[m + 1] = FillTo(f[m], key, m)
      BY <1>3, <2>2, <2>3
    <2>5. top(m) \in Nat /\ top(m) <= key + 1
      <3>1. CASE m = 0
        BY <3>1
      <3>2. CASE m # 0
        <4>1. m \in 1..n /\ m < m + 1
          BY <1>1, <2>2, <3>2
        <4>2. s[m][1] \in Nat /\ s[m][1] <= key
          BY <1>1, <1>2, <2>2, <2>3, <4>1
        <4>3. QED BY <3>2, <4>2
      <3>3. QED BY <3>1, <3>2
    <2>6. \A i \in 1..m : s[i][1] \in Int
      BY <1>1, <1>2, <2>2
    <2>7. top(m + 1) = key + 1
      BY <2>2, <2>3
    <2> HIDE DEF top
    <2>8. OffsetsOK(s, m, FillTo(f[m], key, m), key + 1)
      BY <2>1, <2>2, <2>5, <2>6, OffsetsFill
    <2>9. OffsetsOK(s, m + 1, FillTo(f[m], key, m), key + 1)
      BY <2>2, <2>3, <2>8, OffsetsNext
    <2>10. QED BY <2>2, <2>4, <2>7, <2>9
  <1>6. n \in T
    <2> HIDE DEF T
    <2>1. 0..n \subseteq T
      BY <1>1, <1>4, <1>5, UpTo
    <2>2. QED BY <1>1, <2>1
  <1>7. OffsetsOK(s, n, FillTo(f[n], keyspace, n), keyspace + 1)
    <2>1. OffsetsOK(s, n, f[n], top(n))
      BY <1>6
    <2>2. top(n) \in Nat /\ top(n) <= keyspace + 1
      <3>1. CASE n = 0
        BY <3>1
      <3>2. CASE n # 0
        BY <1>1, <1>2, <3>2
      <3>3. QED BY <3>1, <3>2
    <2>3. \A i \in 1..n : s[i][1] \in Int
      BY <1>2
    <2> HIDE DEF top
    <2>4. QED BY <1>1, <2>1, <2>2, <2>3, OffsetsFill
  <1>8. QED BY <1>3, <1>7 DEF n

----------------------------------------------------------------------------
(* The binary searches of the files that list rows find their brackets.    *)

(* A postings file: the directory is searched.                             *)
LEMMA PostingsBounds ==
    ASSUME NEW s \in Seq(Records), InSequence(s), NEW key \in Int, NEW file,
           file.kind = "postings", file.dir = Directory(s)
    PROVE  Brackets(s, key, ListBounds(file, key))
  <1> DEFINE dir == Directory(s)
             n == Len(s)
             d == Len(dir)
             I == {i \in 1..d : dir[i].key >= key}
             at == IF I # {} THEN Min(I) ELSE 0
  <1>1. ListBounds(file, key) =
           IF at # 0 /\ dir[at].key = key
           THEN [start |-> dir[at].start, end |-> dir[at].start + dir[at].len]
           ELSE [start |-> 0, end |-> 0]
    BY DEF ListBounds, SelectInSeq
  <1>2. DirectoryOK(s, n, dir)
    BY DirectoryHolds
  <1>3. n \in Nat
    OBVIOUS
  <1> HIDE DEF dir, n
  <1>4. /\ dir \in Seq(DirEntry) /\ d \in Nat
        /\ \A e \in 1..d : \A i \in 1..n :
              s[i][1] = dir[e].key <=> dir[e].start < i /\ i <= dir[e].start + dir[e].len
        /\ \A e, f \in 1..d : e < f => dir[e].key < dir[f].key
        /\ \A e \in 1..d : dir[e].start + dir[e].len <= n
        /\ \A i \in 1..n : \E e \in 1..d : dir[e].key = s[i][1]
    <2>1. dir \in Seq(DirEntry)
      BY <1>2 DEF DirectoryOK
    <2>2. d \in Nat
      BY <2>1
    <2>3. QED BY <1>2, <2>1, <2>2 DEF DirectoryOK
  <1>5. \A e \in 1..d : dir[e].key \in Int /\ dir[e].start \in Nat /\ dir[e].len \in Nat
    <2>1. \A e \in 1..d : dir[e] \in DirEntry
      BY <1>4
    <2>2. QED BY <2>1 DEF DirEntry
  <1>6. d \in Nat /\ \A e, f \in 1..d : e < f => dir[e].key < dir[f].key
    BY <1>4
  <1> HIDE DEF d
  <1>7. I # {} => Min(I) \in I /\ \A i \in I : Min(I) <= i
    <2>1. I \in SUBSET (1..d)
      OBVIOUS
    <2> HIDE DEF I
    <2>2. QED BY <1>6, <2>1, FirstPosition
  <1>8. at # 0 => at \in 1..d /\ dir[at].key >= key
    <2>1. 0 \notin I /\ I \subseteq 1..d
      BY <1>6
    <2>2. QED BY <1>7, <2>1
  <1>9. CASE at # 0 /\ dir[at].key = key
    <2>1. at \in 1..d
      BY <1>8, <1>9
    <2>2. \A i \in 1..n : s[i][1] = key <=> dir[at].start < i /\ i <= dir[at].start + dir[at].len
      BY <1>4, <1>9, <2>1
    <2>3. dir[at].start \in Nat /\ dir[at].len \in Nat /\ dir[at].start + dir[at].len <= n
      BY <1>4, <1>5, <2>1
    <2> HIDE DEF at
    <2> DEFINE a == dir[at].start
               c == dir[at].start + dir[at].len
    <2>4. a \in 0..n /\ c \in a..n /\ \A i \in 1..n : s[i][1] = key <=> a < i /\ i <= c
      BY <1>3, <2>2, <2>3
    <2>5. ListBounds(file, key) = [start |-> a, end |-> c]
      BY <1>1, <1>9
    <2> HIDE DEF a, c
    <2>6. QED BY <2>4, <2>5 DEF Brackets, n
  <1>10. CASE ~ (at # 0 /\ dir[at].key = key)
    <2>1. \A i \in 1..n : s[i][1] # key
      <3>1. SUFFICES ASSUME NEW i \in 1..n, s[i][1] = key PROVE FALSE
        OBVIOUS
      <3>2. PICK e \in 1..d : dir[e].key = key
        BY <1>4, <3>1
      <3>3. e \in I
        BY <3>2
      <3>4. at = Min(I) /\ at \in I /\ at <= e
        BY <1>7, <3>3
      <3>5. at # 0 /\ at \in 1..d /\ dir[at].key >= key
        BY <1>6, <3>4
      <3>6. at # e
        BY <1>10, <3>2, <3>5
      <3>7. dir[at].key < dir[e].key
        BY <1>6, <3>4, <3>5, <3>6
      <3>8. dir[at].key \in Int
        BY <1>5, <3>5
      <3>9. QED BY <3>2, <3>5, <3>7, <3>8
    <2>2. ListBounds(file, key) = [start |-> 0, end |-> 0]
      BY <1>1, <1>10
    <2>3. QED BY <1>3, <2>1, <2>2 DEF Brackets, n
  <1>11. QED BY <1>9, <1>10

(* A dense file: two offsets are read.                                     *)
LEMMA DenseBounds ==
    ASSUME NEW s \in Seq(Records), InSequence(s), NEW keyspace \in Nat,
           \A i \in 1..Len(s) : s[i][1] \in Nat /\ s[i][1] < keyspace,
           NEW key \in Nat, NEW file, file.kind = "densepost", file.offsets = Offsets(s, keyspace)
    PROVE  Brackets(s, key, ListBounds(file, key))
  <1> DEFINE n == Len(s)
             offsets == Offsets(s, keyspace)
  <1>1. ListBounds(file, key) =
           IF key + 1 >= Len(offsets) THEN [start |-> 0, end |-> 0]
           ELSE [start |-> offsets[key + 1], end |-> offsets[key + 2]]
    BY DEF ListBounds
  <1>2. OffsetsOK(s, n, offsets, keyspace + 1)
    BY OffsetsHold
  <1>3. n \in Nat /\ \A i \in 1..n : s[i][1] \in Nat /\ s[i][1] < keyspace
    OBVIOUS
  <1> HIDE DEF n, offsets
  <1>4. /\ Len(offsets) = keyspace + 1
        /\ \A k \in 0..keyspace : offsets[k + 1] \in 0..n /\ \A i \in 1..n : s[i][1] < k <=> i <= offsets[k + 1]
    <2>1. (keyspace + 1) - 1 = keyspace
      OBVIOUS
    <2>2. QED BY <1>2, <2>1 DEF OffsetsOK
  <1>5. CASE key >= keyspace
    <2>1. \A i \in 1..n : s[i][1] # key
      BY <1>3, <1>5
    <2>2. ListBounds(file, key) = [start |-> 0, end |-> 0]
      BY <1>1, <1>4, <1>5
    <2>3. QED BY <1>3, <2>1, <2>2 DEF Brackets, n
  <1>6. CASE ~ (key >= keyspace)
    <2> DEFINE a == offsets[key + 1]
               c == offsets[key + 2]
    <2>1. key \in 0..keyspace /\ key + 1 \in 0..keyspace /\ (key + 1) + 1 = key + 2
      BY <1>6
    <2>2. /\ a \in 0..n /\ \A i \in 1..n : s[i][1] < key <=> i <= a
      BY <1>4, <2>1
    <2>3. /\ c \in 0..n /\ \A i \in 1..n : s[i][1] < key + 1 <=> i <= c
      BY <1>4, <2>1
    <2>4. ListBounds(file, key) = [start |-> a, end |-> c]
      BY <1>1, <1>4, <1>6
    <2> HIDE DEF a, c
    <2>5. a <= c
      <3>1. SUFFICES ASSUME a > c PROVE FALSE
        BY <1>3, <2>2, <2>3
      <3>2. a \in 1..n
        BY <1>3, <2>2, <2>3, <3>1
      <3>3. s[a][1] < key /\ ~ (s[a][1] < key + 1) /\ s[a][1] \in Nat
        BY <1>3, <2>2, <2>3, <3>1, <3>2
      <3>4. QED BY <3>3
    <2>6. \A i \in 1..n : s[i][1] = key <=> a < i /\ i <= c
      BY <1>3, <2>2, <2>3
    <2>7. QED BY <1>3, <2>2, <2>3, <2>4, <2>5, <2>6 DEF Brackets, n
  <1>7. QED BY <1>5, <1>6

----------------------------------------------------------------------------
(* A file answers a key exactly: as many rows as the key has, the rows     *)
(* from any row on, cut to any limit, and those of any seed.               *)

AnswersKey(file, key, A) ==
    /\ IdSet(A) /\ RowCount(file, key) = Cardinality(A)
    /\ \A first, limit \in Nat :
          RowsFrom(file, key, first, limit) = Take(Ascending({r \in A : r >= first}), limit)
    /\ \A seed \in SUBSET Nat : IsFiniteSet(seed) =>
          IntersectRows(file, key, Ascending(seed)) = Ascending(seed \cap A)

(* The body lists A between the bounds, and the search of a row finds where those from it on start. *)
Listed(file, b, A) ==
    /\ RunAt(file.body, b.start, b.end) /\ IdSet(A) /\ Cardinality(A) = b.end - b.start
    /\ A = {file.body[i] : i \in (b.start + 1)..b.end}
    /\ \A row \in Int : /\ RowLowerBound(file, b, row) \in b.start..b.end
                        /\ \A i \in (b.start + 1)..b.end :
                              file.body[i] < row <=> i <= RowLowerBound(file, b, row)
                        /\ {file.body[i] : i \in (RowLowerBound(file, b, row) + 1)..b.end} = {r \in A : r >= row}
                        /\ SubSeq(file.body, RowLowerBound(file, b, row) + 1, b.end) =
                              Ascending({r \in A : r >= row})

(* A file that lists rows: what its bounds bracket.                        *)
LEMMA ListFrom ==
    ASSUME NEW s \in Seq(Records), InSequence(s), NEW key \in Int, NEW file,
           file.body = Second(s), NEW b, b = ListBounds(file, key), Brackets(s, key, b), NEW A, A = KeyRows(ToSet(s), key)
    PROVE  Listed(file, b, A)
  <1> DEFINE body == file.body
             a == b.start
             e == b.end
  <1>1. RunAt(body, a, e) /\ {body[i] : i \in (a + 1)..e} = A
    BY BracketRun
  <1> HIDE DEF body, a, e
  <1>2. /\ Len(body) \in Nat /\ a \in Nat /\ e \in Nat /\ a <= e /\ e <= Len(body) /\ body \in Seq(Int)
    BY <1>1 DEF RunAt
  <1>3. \A i \in (a + 1)..e : i \in 1..Len(body) /\ body[i] \in Int
    BY <1>2
  <1>4. IdSet(A) /\ Cardinality(A) = e - a
    <2>1. a \in a..e
      BY <1>2
    <2>2. QED BY <1>1, <2>1, RunAscending
  <1>5. ASSUME NEW row \in Int
        PROVE  /\ RowLowerBound(file, b, row) \in a..e
               /\ \A i \in (a + 1)..e : body[i] < row <=> i <= RowLowerBound(file, b, row)
               /\ {body[i] : i \in (RowLowerBound(file, b, row) + 1)..e} = {r \in A : r >= row}
               /\ SubSeq(body, RowLowerBound(file, b, row) + 1, e) = Ascending({r \in A : r >= row})
    <2> DEFINE at == RowLowerBound(file, b, row)
    <2>1. at = a + Cardinality({i \in a..(e - 1) : body[i + 1] < row})
      BY DEF RowLowerBound, a, e, body
    <2>2. at \in a..e /\ \A i \in (a + 1)..e : body[i] < row <=> i <= at
      BY <1>1, <2>1, RunLowerBound
    <2> HIDE DEF at
    <2>3. SubSeq(body, at + 1, e) = Ascending({body[i] : i \in (at + 1)..e})
      BY <1>1, <2>2, RunAscending
    <2>4. {body[i] : i \in (at + 1)..e} = {r \in A : r >= row}
      <3>1. \A i \in (at + 1)..e : i \in (a + 1)..e /\ ~ (i <= at)
        BY <1>2, <2>2
      <3>2. \A i \in (a + 1)..e : ~ (i <= at) => i \in (at + 1)..e
        BY <1>2, <2>2
      <3>3. \A i \in (a + 1)..e : body[i] >= row <=> ~ (i <= at)
        BY <1>3, <2>2
      <3>4. QED BY <1>1, <3>1, <3>2, <3>3
    <2>5. QED BY <2>2, <2>3, <2>4 DEF at
  <1>6. QED BY <1>1, <1>4, <1>5 DEF Listed, body, a, e

(* A list too long to merge with is searched.                              *)
LEMMA ListFound ==
    ASSUME NEW s \in Seq(Records), InSequence(s), NEW key \in Int, NEW file,
           file.body = Second(s), NEW b, b = ListBounds(file, key), Brackets(s, key, b), NEW A, A = KeyRows(ToSet(s), key),
           NEW row \in Int
    PROVE  (RowLowerBound(file, b, row) < b.end /\ file.body[RowLowerBound(file, b, row) + 1] = row) <=> row \in A
  <1> DEFINE body == file.body
             a == b.start
             e == b.end
             at == RowLowerBound(file, b, row)
  <1>1. /\ RunAt(body, a, e) /\ A = {body[i] : i \in (a + 1)..e}
        /\ at \in a..e /\ \A i \in (a + 1)..e : body[i] < row <=> i <= at
        /\ {body[i] : i \in (at + 1)..e} = {r \in A : r >= row}
    <2>1. Listed(file, b, A)
      BY ListFrom
    <2>2. QED BY <2>1 DEF Listed
  <1> HIDE DEF body, a, e, at
  <1>11. RunAt(body, a, e)
    BY <1>1
  <1>2. a \in Nat /\ e \in Nat /\ body \in Seq(Int) /\ e <= Len(body) /\ Len(body) \in Nat
        /\ \A i, j \in (a + 1)..e : i < j => body[i] < body[j]
    BY <1>11 DEF RunAt
  <1>3. ASSUME at < e, body[at + 1] = row PROVE row \in A
    <2>1. at + 1 \in (a + 1)..e
      BY <1>1, <1>2, <1>3
    <2>2. QED BY <1>1, <1>3, <2>1
  <1>4. ASSUME row \in A PROVE at < e /\ body[at + 1] = row
    <2>1. PICK i \in (at + 1)..e : body[i] = row
      BY <1>1, <1>4
    <2>2. at + 1 \in (a + 1)..e /\ at < e /\ i \in (a + 1)..e
      BY <1>1, <1>2, <2>1
    <2>3. i = at + 1
      <3>1. SUFFICES ASSUME i # at + 1 PROVE FALSE
        OBVIOUS
      <3>2. at + 1 < i
        BY <1>1, <1>2, <2>1, <3>1
      <3>3. body[at + 1] < row
        BY <1>2, <2>1, <2>2, <3>2
      <3>4. QED BY <1>1, <1>2, <2>2, <3>3
    <2>4. QED BY <2>1, <2>2, <2>3
  <1>5. QED BY <1>3, <1>4 DEF at, e, body

\* Reading and intersecting a key's contiguous rows (postings.rs, dense_postings.rs, flat_postings.rs) is
\* exact: count, first rows from a row on, and intersection, wherever the file's bounds bracket the key.
THEOREM ListsAnswer ==
    ASSUME NEW s \in Seq(Records), InSequence(s), NEW key \in Int, NEW file, file.kind \in ListKinds,
           file.body = Second(s), Brackets(s, key, ListBounds(file, key))
    PROVE  AnswersKey(file, key, KeyRows(ToSet(s), key))
  <1> DEFINE A == KeyRows(ToSet(s), key)
             b == ListBounds(file, key)
             e == b.end
             body == file.body
  <1>1. /\ RunAt(body, b.start, e) /\ IdSet(A) /\ Cardinality(A) = e - b.start
        /\ A = {body[i] : i \in (b.start + 1)..e}
        /\ \A row \in Int : /\ RowLowerBound(file, b, row) \in b.start..e
                            /\ {body[i] : i \in (RowLowerBound(file, b, row) + 1)..e} = {r \in A : r >= row}
                            /\ SubSeq(body, RowLowerBound(file, b, row) + 1, e) = Ascending({r \in A : r >= row})
    <2>1. Listed(file, b, A)
      <3> HIDE DEF A, b
      <3>1. A = KeyRows(ToSet(s), key) /\ b = ListBounds(file, key)
        BY DEF A, b
      <3>2. Brackets(s, key, b)
        BY DEF b
      <3>3. QED BY <3>1, <3>2, ListFrom
    <2> HIDE DEF A, b
    <2>2. QED BY <2>1 DEF Listed
  <1>2. \A row \in Int : (RowLowerBound(file, b, row) < e /\ body[RowLowerBound(file, b, row) + 1] = row) <=> row \in A
    <2> HIDE DEF A, b
    <2>1. A = KeyRows(ToSet(s), key) /\ b = ListBounds(file, key)
      BY DEF A, b
    <2>2. Brackets(s, key, b)
      BY DEF b
    <2>3. QED BY <2>1, <2>2, ListFound
  <1>3. RowCount(file, key) = e - b.start
    BY DEF RowCount, ListKinds
  <1>4. \A first, limit : RowsFrom(file, key, first, limit)
                            = Take(SubSeq(body, RowLowerBound(file, b, first) + 1, e), limit)
    BY DEF RowsFrom, ListRowsFrom, ListKinds
  <1>5. \A seed : IntersectRows(file, key, seed) = ListIntersect(file, key, seed)
    BY DEF IntersectRows, ListKinds
  <1> HIDE DEF A, b, e, body
  <1>6. ASSUME NEW seed \in SUBSET Nat, IsFiniteSet(seed)
        PROVE  ListIntersect(file, key, Ascending(seed)) = Ascending(seed \cap A)
    <2> DEFINE list == Ascending(seed)
               found == {i \in DOMAIN list : RowLowerBound(file, b, list[i]) < e
                                             /\ body[RowLowerBound(file, b, list[i]) + 1] = list[i]}
               m == CHOOSE g : g = [at \in MergePlaces(list, e) |-> Merging(g, at, list, body, e)]
    <2>1. IdSet(seed)
      BY <1>6 DEF IdSet
    <2>2. /\ list \in Seq(Int) /\ Increasing(list) /\ ToSet(list) = seed /\ Len(list) \in Nat
          /\ DOMAIN list = 1..Len(list) /\ \A i \in DOMAIN list : list[i] \in Int
      <3>1. /\ list \in Seq(Int) /\ Increasing(list) /\ ToSet(list) = seed
        BY <2>1, AscendingFacts
      <3> HIDE DEF list
      <3>2. QED BY <3>1
    <2>3. ListIntersect(file, key, list) =
             IF list = <<>> THEN <<>>
             ELSE IF e - b.start > Len(list) * Gallop THEN EntriesAt(list, found)
             ELSE m[<<1, RowLowerBound(file, b, list[1])>>]
      <3> HIDE DEF list
      <3>1. QED BY Zenon DEF ListIntersect, Select, Merging, MergePlaces, b, e, body
    <2>4. EntriesAt(list, found) = Ascending(seed \cap A)
      <3>1. found = {i \in DOMAIN list : list[i] \in A}
        BY <1>2, <2>2
      <3> HIDE DEF found
      <3>2. QED BY <2>1, <3>1, AscendingWithin
    <2>5. e \in Nat /\ b.start \in Nat
      BY <1>1 DEF RunAt
    <2> HIDE DEF found, list
    <2>6. Merges(m, list, body, e)
      BY <2>2, <2>5, MergeStops
    <2> HIDE DEF m
    <2>7. CASE list = <<>>
      <3>1. seed = {}
        BY <2>2, <2>7 DEF ToSet
      <3>2. seed \cap A = {}
        BY <3>1
      <3>3. QED BY <2>3, <2>7, <3>2, AscendingEmpty DEF list
    <2>8. CASE list # <<>>
      <3> DEFINE at == RowLowerBound(file, b, list[1])
                 shared == Shared(list, body, e, 1, at)
      <3>1. 1 \in DOMAIN list /\ list[1] \in Int
        BY <2>2, <2>8
      <3>2. at \in b.start..e /\ {body[i] : i \in (at + 1)..e} = {r \in A : r >= list[1]}
        BY <1>1, <3>1
      <3> HIDE DEF at
      <3>3. SharedOK(m, list, body, e, 1, at)
        BY <1>1, <2>2, <2>6, <3>2, MergeAnswers
      <3>4. shared = seed \cap A
        <4>1. shared = {list[x] : x \in 1..Len(list)} \cap {r \in A : r >= list[1]}
          BY <3>2 DEF Shared
        <4>2. seed = {list[x] : x \in 1..Len(list)}
          BY <2>2 DEF ToSet
        <4>3. \A x \in 1..Len(list) : list[x] >= list[1]
          <5>1. \A x \in 1..Len(list) : x = 1 \/ 1 < x
            BY <2>2
          <5>2. \A x \in 1..Len(list) : 1 < x => list[1] < list[x]
            BY <2>2, <3>1 DEF Increasing
          <5>3. QED BY <2>2, <3>1, <5>1, <5>2
        <4>4. QED BY <4>1, <4>2, <4>3
      <3>5. m[<<1, at>>] = Ascending(seed \cap A)
        BY <3>3, <3>4 DEF SharedOK
      <3>6. QED BY <2>3, <2>4, <2>8, <3>5 DEF at, list
    <2>9. QED BY <2>7, <2>8
  <1>7. \A first, limit \in Nat :
           RowsFrom(file, key, first, limit) = Take(Ascending({r \in A : r >= first}), limit)
    <2>1. SUFFICES ASSUME NEW first \in Nat, NEW limit \in Nat
                   PROVE  RowsFrom(file, key, first, limit) = Take(Ascending({r \in A : r >= first}), limit)
      OBVIOUS
    <2>2. SubSeq(body, RowLowerBound(file, b, first) + 1, e) = Ascending({r \in A : r >= first})
      <3>1. first \in Int
        OBVIOUS
      <3>2. QED BY <1>1, <3>1, Zenon
    <2>3. QED BY <1>4, <2>2, Zenon
  <1>8. AnswersKey(file, key, A)
    BY <1>1, <1>3, <1>5, <1>6, <1>7 DEF AnswersKey
  <1>9. QED BY <1>8 DEF A

----------------------------------------------------------------------------
(* Delta files: the rows of a key in blocks.                               *)

(* The records of a key list its rows in order.                            *)
LEMMA GroupRowsOfKey ==
    ASSUME NEW s \in Seq(Records), InSequence(s), NEW key \in Int
    PROVE  IdSet(KeyRows(ToSet(s), key)) /\
           Second(Select(s, LAMBDA record : record[1] = key)) = Ascending(KeyRows(ToSet(s), key))
  <1> DEFINE n == Len(s)
             I == {i \in DOMAIN s : s[i][1] = key}
             E(m) == {s[i][2] : i \in {j \in 1..m : s[j][1] = key}}
  <1>1. /\ n \in Nat /\ DOMAIN s = 1..n
        /\ \A i \in 1..n : s[i][1] \in Int /\ s[i][2] \in Int /\ s[i] \in Records
        /\ \A i, j \in 1..n : i < j => (s[i][1] = s[j][1] => s[i][2] < s[j][2])
    <2>1. \A i \in 1..n : s[i] \in Records
      OBVIOUS
    <2>2. QED BY <2>1, RecordsOrdered
  <1>2. Select(s, LAMBDA record : record[1] = key) = EntriesAt(s, I)
    BY DEF Select
  <1>3. EntryWalk(Records, s, I, n)
    BY EntriesSteps
  <1>4. KeyRows(ToSet(s), key) = E(n)
    BY <1>1 DEF KeyRows, ToSet
  <1>5. \A i \in 1..n : i \in I <=> s[i][1] = key
    BY <1>1
  <1> HIDE DEF n, I
  <1>6. PICK f \in [0..n -> Seq(Records)] :
           /\ f[0] = <<>>
           /\ \A i \in 1..n : f[i] = IF i \in I THEN Append(f[i - 1], s[i]) ELSE f[i - 1]
           /\ EntriesAt(s, I) = f[n]
    BY <1>3, Zenon DEF EntryWalk
  <1> DEFINE T == {m \in 0..n : IdSet(E(m)) /\ Second(f[m]) = Ascending(E(m))}
  <1>7. 0 \in T
    <2>1. 1..0 = {} /\ 0 \in 0..n
      BY <1>1
    <2>2. E(0) = {}
      BY <2>1
    <2>3. Second(<<>>) = <<>>
      BY DEF Second
    <2>4. QED BY <1>6, <2>1, <2>2, <2>3, AscendingEmpty
  <1>8. \A m \in 0..(n - 1) : m \in T => m + 1 \in T
    <2>1. SUFFICES ASSUME NEW m \in 0..(n - 1), m \in T PROVE m + 1 \in T
      OBVIOUS
    <2>2. m \in Nat /\ m \in 0..n /\ m + 1 \in 0..n /\ m + 1 \in 1..n /\ (m + 1) - 1 = m
          /\ 1..(m + 1) = (1..m) \cup {m + 1} /\ 1..m \subseteq 1..n
      BY <1>1, StepWithin
    <2>3. f[m + 1] = IF m + 1 \in I THEN Append(f[m], s[m + 1]) ELSE f[m]
      <3>1. f[m + 1] = IF m + 1 \in I THEN Append(f[(m + 1) - 1], s[m + 1]) ELSE f[(m + 1) - 1]
        BY <1>6, <2>2, Zenon
      <3>2. QED BY <2>2, <3>1, Zenon
    <2>4. IdSet(E(m)) /\ Second(f[m]) = Ascending(E(m))
      BY <2>1
    <2>5. f[m] \in Seq(Records) /\ s[m + 1] \in Records /\ s[m + 1][2] \in Int
      BY <1>1, <1>6, <2>2
    <2>6. CASE m + 1 \in I
      <3> DEFINE x == s[m + 1][2]
                 A == E(m)
      <3>1. s[m + 1][1] = key
        BY <1>5, <2>2, <2>6
      <3>2. E(m + 1) = A \cup {x}
        BY <2>2, <3>1
      <3>3. \A y \in A : y < x
        <4>1. SUFFICES ASSUME NEW i \in 1..m, s[i][1] = key PROVE s[i][2] < x
          OBVIOUS
        <4>2. i \in 1..n /\ i < m + 1
          BY <2>2
        <4>3. QED BY <1>1, <2>2, <3>1, <4>1, <4>2
      <3>4. Second(Append(f[m], s[m + 1])) = Append(Second(f[m]), x)
        BY <2>5 DEF Second
      <3> HIDE DEF x, A, E
      <3>5. IdSet(A \cup {x}) /\ Append(Ascending(A), x) = Ascending(A \cup {x})
        <4>1. IdSet(A) /\ x \in Int
          BY <2>4, <2>5 DEF A, x
        <4>2. QED BY <3>3, <4>1, AscendingAppend
      <3>6. Second(f[m + 1]) = Append(Ascending(A), x)
        BY <2>3, <2>4, <2>6, <3>4 DEF A
      <3>7. QED BY <2>2, <3>2, <3>5, <3>6
    <2>7. CASE m + 1 \notin I
      <3>1. s[m + 1][1] # key
        BY <1>5, <2>2, <2>7
      <3>2. E(m + 1) = E(m)
        BY <2>2, <3>1
      <3>3. f[m + 1] = f[m]
        BY <2>3, <2>7
      <3> HIDE DEF E
      <3>4. QED BY <2>2, <2>4, <3>2, <3>3
    <2>8. QED BY <2>6, <2>7
  <1>9. n \in T
    <2> HIDE DEF T
    <2>1. 0..n \subseteq T
      BY <1>1, <1>7, <1>8, UpTo
    <2>2. QED BY <1>1, <2>1
  <1>10. QED BY <1>2, <1>4, <1>6, <1>9

(* A block is decoded from its gaps one after the other.                   *)
DecodedWalk(block, n) ==
    \E f : /\ f[0] = block.base /\ \A i \in 1..n : f[i] = f[i - 1] + block.gaps[i]
           /\ Decoded(block) = [i \in 1..(n + 1) |-> f[i - 1]]

\* Decoding a block adds its gaps one after the other.
LEMMA DecodedSteps ==
    ASSUME NEW block, Len(block.gaps) \in Nat
    PROVE  DecodedWalk(block, Len(block.gaps))
  <1>0. Len(block.gaps) \in Nat
    OBVIOUS
  <1> DEFINE B(x, i) == x + block.gaps[i]
             f == CHOOSE g : g = [i \in 0..Len(block.gaps) |-> IF i = 0 THEN block.base ELSE B(g[i - 1], i)]
             Solves(g, m) == g = [i \in 0..m |-> IF i = 0 THEN block.base ELSE B(g[i - 1], i)]
             T == {m \in 0..Len(block.gaps) : \E g : Solves(g, m)}
  <1>u1. Decoded(block) = [i \in 1..(Len(block.gaps) + 1) |-> f[i - 1]]
    BY Zenon DEF Decoded
  <1> HIDE DEF B
  <1>u2. 0 \in T
    <2> DEFINE g == [i \in 0..0 |-> block.base]
    <2>1. 0 \in 0..Len(block.gaps) /\ \A i \in 0..0 : i = 0
      BY <1>0
    <2>2. Solves(g, 0)
      BY <2>1
    <2> HIDE DEF g, Solves
    <2>3. QED BY <2>1, <2>2
  <1>u3. \A m \in 0..(Len(block.gaps) - 1) : m \in T => m + 1 \in T
    <2>1. SUFFICES ASSUME NEW m \in 0..(Len(block.gaps) - 1), m \in T PROVE m + 1 \in T
      OBVIOUS
    <2>2. PICK g : Solves(g, m)
      BY <2>1
    <2> DEFINE h == [i \in 0..(m + 1) |-> IF i = m + 1 THEN B(g[m], m + 1) ELSE g[i]]
    <2>3. m \in Nat /\ m + 1 \in 0..Len(block.gaps) /\ m + 1 # 0 /\ (m + 1) - 1 = m
      BY <1>0
    <2>4. ASSUME NEW i \in 0..(m + 1) PROVE h[i] = IF i = 0 THEN block.base ELSE B(h[i - 1], i)
      <3>1. CASE i = m + 1
        <4>1. m \in 0..(m + 1) /\ m # m + 1
          BY <2>3
        <4>2. h[m] = g[m] /\ h[m + 1] = B(g[m], m + 1)
          BY <2>3, <4>1
        <4> HIDE DEF h
        <4>3. QED BY <2>3, <3>1, <4>2, Zenon
      <3>2. CASE i # m + 1
        <4>1. i \in 0..m /\ (i # 0 => i - 1 \in 0..(m + 1) /\ i - 1 # m + 1)
          BY <2>3, <3>2
        <4>2. h[i] = g[i] /\ (i # 0 => h[i - 1] = g[i - 1])
          BY <3>2, <4>1
        <4>3. g[i] = IF i = 0 THEN block.base ELSE B(g[i - 1], i)
          BY <2>2, <4>1, Zenon
        <4> HIDE DEF h
        <4>4. CASE i = 0
          BY <4>2, <4>3, <4>4, Zenon
        <4>5. CASE i # 0
          BY <4>2, <4>3, <4>5, Zenon
        <4>6. QED BY <4>4, <4>5, Zenon
      <3>3. QED BY <3>1, <3>2, Zenon
    <2>5. Solves(h, m + 1)
      <3>1. h = [i \in 0..(m + 1) |-> h[i]]
        OBVIOUS
      <3> HIDE DEF h
      <3>2. QED BY <2>4, <3>1, Zenon
    <2> HIDE DEF h, Solves
    <2>6. QED BY <2>3, <2>5
  <1>u4. Len(block.gaps) \in T
    <2> HIDE DEF T
    <2>1. 0..Len(block.gaps) \subseteq T
      BY <1>0, <1>u2, <1>u3, UpTo
    <2>2. QED BY <1>0, <2>1
  <1>u5. Solves(f, Len(block.gaps))
    <2>1. \E g : Solves(g, Len(block.gaps))
      BY <1>u4, Zenon
    <2>2. QED BY <2>1, Zenon
  <1> HIDE DEF f
  <1>u6. f[0] = block.base
    <2>1. 0 \in 0..Len(block.gaps)
      BY <1>0
    <2>2. QED BY <1>u5, <2>1, Zenon
  <1>u7. \A i \in 1..Len(block.gaps) : f[i] = B(f[i - 1], i)
    <2>1. \A i \in 1..Len(block.gaps) : i \in 0..Len(block.gaps) /\ i # 0
      BY <1>0
    <2>2. QED BY <1>u5, <2>1, Zenon
  <1> HIDE DEF Solves, T
  <1>1. QED BY <1>u1, <1>u6, <1>u7, Zenon DEF DecodedWalk, B

\* A block decodes to the rows it was made of.
LEMMA DecodedChunk ==
    ASSUME NEW chunk \in Seq(Int), chunk # <<>>, NEW block,
           block = [base |-> chunk[1], gaps |-> [i \in 1..(Len(chunk) - 1) |-> chunk[i + 1] - chunk[i]]]
    PROVE  Decoded(block) = chunk /\ block.base = chunk[1]
  <1> DEFINE n == Len(chunk) - 1
             gaps == [i \in 1..n |-> chunk[i + 1] - chunk[i]]
  <1>1. n \in Nat /\ Len(chunk) = n + 1 /\ \A i \in 1..(n + 1) : chunk[i] \in Int
    OBVIOUS
  <1>2. block.gaps = gaps /\ block.base = chunk[1]
    OBVIOUS
  <1> HIDE DEF n
  <1>3. gaps \in [1..n -> Int]
    BY <1>1
  <1>4. \A i \in 1..n : gaps[i] = chunk[i + 1] - chunk[i]
    OBVIOUS
  <1> HIDE DEF gaps
  <1>5. Len(gaps) = n
    BY <1>1, <1>3, SeqFrom
  <1>6. DecodedWalk(block, n)
    BY <1>1, <1>2, <1>5, DecodedSteps
  <1>7. PICK f : /\ f[0] = chunk[1] /\ \A i \in 1..n : f[i] = f[i - 1] + gaps[i]
                 /\ Decoded(block) = [i \in 1..(n + 1) |-> f[i - 1]]
    BY <1>2, <1>6 DEF DecodedWalk
  <1> DEFINE T == {m \in 0..n : f[m] = chunk[m + 1]}
  <1>8. 0 \in T
    BY <1>1, <1>7
  <1>9. \A m \in 0..(n - 1) : m \in T => m + 1 \in T
    <2>1. SUFFICES ASSUME NEW m \in 0..(n - 1), m \in T PROVE m + 1 \in T
      OBVIOUS
    <2>2. m + 1 \in 1..n /\ m + 1 \in 0..n /\ (m + 1) - 1 = m /\ m + 1 \in 1..(n + 1) /\ (m + 1) + 1 \in 1..(n + 1)
      BY <1>1
    <2>3. f[m + 1] = chunk[m + 1] + (chunk[(m + 1) + 1] - chunk[m + 1])
      BY <1>4, <1>7, <2>1, <2>2
    <2>4. QED BY <1>1, <2>2, <2>3
  <1>10. n \in T /\ 0..n \subseteq T
    <2> HIDE DEF T
    <2>1. 0..n \subseteq T
      BY <1>1, <1>8, <1>9, UpTo
    <2>2. QED BY <1>1, <2>1
  <1>11. \A i \in 1..(n + 1) : f[i - 1] = chunk[i]
    <2>1. SUFFICES ASSUME NEW i \in 1..(n + 1) PROVE f[i - 1] = chunk[i]
      OBVIOUS
    <2>2. i - 1 \in 0..n /\ (i - 1) + 1 = i
      BY <1>1
    <2>3. QED BY <1>10, <2>2
  <1>12. chunk = [i \in 1..(n + 1) |-> chunk[i]]
    BY <1>1
  <1>13. QED BY <1>2, <1>7, <1>11, <1>12

----------------------------------------------------------------------------
(* The blocks hold the rows of the key between them, in order.             *)

Blocked(blocks, D, A) ==
    /\ Len(blocks) \in Nat /\ IdSet(A) /\ A = UNION {D[b] : b \in 1..Len(blocks)}
    /\ \A b \in 1..Len(blocks) :
          /\ IdSet(D[b]) /\ Decoded(blocks[b]) = Ascending(D[b])
          /\ blocks[b].base \in D[b] /\ \A x \in D[b] : blocks[b].base <= x
    /\ \A b, c \in 1..Len(blocks) : b < c => \A x \in D[b], y \in D[c] : x < y

\* The delta blocks of ascending rows are those rows, block after block.
LEMMA DeltaBlocked ==
    ASSUME NEW A, IdSet(A), NEW blocks, blocks = DeltaBlocks(Ascending(A))
    PROVE  \E D : Blocked(blocks, D, A)
  <1> DEFINE rows == Ascending(A)
             m == Len(rows)
             n == CeilDiv(m, Block)
             chunk(b) == Take(SubSeq(rows, (b - 1) * Block + 1, m), Block)
             D == [b \in 1..n |-> ToSet(chunk(b))]
  <1>1. /\ rows \in Seq(Int) /\ Increasing(rows) /\ ToSet(rows) = A
    BY AscendingFacts
  <1>2. blocks = [b \in 1..n |-> [base |-> chunk(b)[1],
                                  gaps |-> [i \in 1..(Len(chunk(b)) - 1) |-> chunk(b)[i + 1] - chunk(b)[i]]]]
    BY DEF DeltaBlocks
  <1> HIDE DEF rows
  <1>3. /\ m \in Nat /\ DOMAIN rows = 1..m /\ (\A i \in 1..m : rows[i] \in Int)
        /\ \A i, j \in 1..m : i < j => rows[i] < rows[j]
        /\ Block \in Nat \ {0}
    BY <1>1, WidthsAssumption DEF Increasing
  <1> HIDE DEF m
  <1>4. n \in Nat
    BY <1>3, CeilDivBounds
  <1>5. ASSUME NEW b \in 1..n
        PROVE  /\ b \in Nat \ {0} /\ (b - 1) * Block \in Nat /\ (b - 1) * Block < m
               /\ chunk(b) \in Seq(Int)
               /\ Len(chunk(b)) = (IF Block < m - (b - 1) * Block THEN Block ELSE m - (b - 1) * Block)
               /\ \A k \in 1..Len(chunk(b)) : chunk(b)[k] = rows[(b - 1) * Block + k]
               /\ Len(chunk(b)) \in 1..Block /\ (b - 1) * Block + Len(chunk(b)) <= m
    <2> DEFINE a == (b - 1) * Block
    <2>1. b \in Nat \ {0} /\ a \in Nat /\ a < m
      BY <1>3, ChunkStart
    <2> HIDE DEF a
    <2>2. a \in 0..Len(rows) /\ Len(rows) = m
      BY <1>3, <2>1 DEF m
    <2>3. /\ Take(SubSeq(rows, a + 1, m), Block) \in Seq(Int)
          /\ Len(Take(SubSeq(rows, a + 1, m), Block)) = (IF Block < m - a THEN Block ELSE m - a)
          /\ \A k \in 1..Len(Take(SubSeq(rows, a + 1, m), Block)) : Take(SubSeq(rows, a + 1, m), Block)[k] = rows[a + k]
      <3> DEFINE part == Take(SubSeq(rows, a + 1, Len(rows)), Block)
      <3>1. Block \in Nat
        BY <1>3
      <3>2. /\ part \in Seq(Int)
            /\ Len(part) = (IF Block < Len(rows) - a THEN Block ELSE Len(rows) - a)
            /\ \A k \in 1..Len(part) : part[k] = rows[a + k]
        BY <1>1, <2>2, <3>1, TakeFrom
      <3>3. part = Take(SubSeq(rows, a + 1, m), Block)
        BY <2>2
      <3> HIDE DEF part
      <3>4. QED BY <2>2, <3>2, <3>3
    <2>4. (IF Block < m - a THEN Block ELSE m - a) \in 1..Block /\ a + (IF Block < m - a THEN Block ELSE m - a) <= m
      BY <1>3, <2>1
    <2>5. QED BY <2>1, <2>3, <2>4 DEF a
  <1> HIDE DEF n, chunk
  <1>6. ASSUME NEW b \in 1..n
        PROVE  /\ IdSet(ToSet(chunk(b))) /\ chunk(b) = Ascending(ToSet(chunk(b)))
               /\ \A x \in ToSet(chunk(b)) : \E k \in 1..Len(chunk(b)) : x = rows[(b - 1) * Block + k]
               /\ chunk(b)[1] \in ToSet(chunk(b)) /\ \A x \in ToSet(chunk(b)) : chunk(b)[1] <= x
    <2> DEFINE a == (b - 1) * Block
               c == chunk(b)
    <2>1. /\ a \in Nat /\ c \in Seq(Int) /\ (\A k \in 1..Len(c) : c[k] = rows[a + k]) /\ Len(c) \in 1..Block
          /\ a + Len(c) <= m
      BY <1>5
    <2> HIDE DEF a, c
    <2>2. \A k \in 1..Len(c) : a + k \in 1..m
      BY <1>3, <2>1
    <2>3. DOMAIN c = 1..Len(c) /\ 1 \in 1..Len(c) /\ \A k \in 1..Len(c) : k = 1 \/ 1 < k
      BY <2>1
    <2>4. \A k, l \in 1..Len(c) : k < l => c[k] < c[l]
      <3>1. SUFFICES ASSUME NEW k \in 1..Len(c), NEW l \in 1..Len(c), k < l PROVE c[k] < c[l]
        OBVIOUS
      <3>2. a + k < a + l
        BY <2>1, <3>1
      <3>3. rows[a + k] < rows[a + l]
        BY <1>3, <2>2, <3>2
      <3>4. QED BY <2>1, <3>3
    <2>5. Increasing(c)
      BY <2>3, <2>4 DEF Increasing
    <2>6. IdSet(ToSet(c)) /\ c = Ascending(ToSet(c))
      BY <2>1, <2>5, IncreasingIsAscending
    <2>7. \A x \in ToSet(c) : \E k \in 1..Len(c) : x = c[k]
      BY <2>3 DEF ToSet
    <2>8. c[1] \in ToSet(c)
      BY <2>3 DEF ToSet
    <2>9. \A k \in 1..Len(c) : c[1] <= c[k]
      <3>1. \A k \in 1..Len(c) : c[k] \in Int
        BY <1>3, <2>1, <2>2
      <3>2. QED BY <2>3, <2>4, <3>1
    <2>10. QED BY <2>1, <2>6, <2>7, <2>8, <2>9 DEF a, c
  <1>7. Len(blocks) = n /\ \A b \in 1..n : blocks[b] =
           [base |-> chunk(b)[1], gaps |-> [i \in 1..(Len(chunk(b)) - 1) |-> chunk(b)[i + 1] - chunk(b)[i]]]
    BY <1>2, <1>4
  <1>8. \A b \in 1..n : Decoded(blocks[b]) = chunk(b) /\ blocks[b].base = chunk(b)[1]
    <2>1. SUFFICES ASSUME NEW b \in 1..n PROVE Decoded(blocks[b]) = chunk(b) /\ blocks[b].base = chunk(b)[1]
      OBVIOUS
    <2>2. chunk(b) \in Seq(Int) /\ Len(chunk(b)) \in 1..Block
      BY <1>5
    <2>3. chunk(b) # <<>>
      BY <2>2
    <2>4. QED BY <1>7, <2>2, <2>3, DecodedChunk
  <1>9. \A b \in 1..n : D[b] = ToSet(chunk(b))
    OBVIOUS
  <1>10. A = UNION {D[b] : b \in 1..n}
    <2>1. ASSUME NEW x \in A PROVE \E b \in 1..n : x \in D[b]
      <3>1. PICK i \in 1..m : x = rows[i]
        BY <1>1, <1>3 DEF ToSet
      <3> DEFINE q == (i - 1) \div Block
                 r == (i - 1) % Block
      <3>2. /\ q \in Nat /\ q + 1 \in 1..n /\ r \in 0..(Block - 1) /\ q * Block \in Nat
            /\ i = q * Block + (r + 1) /\ (q + 1) - 1 = q
        BY <1>3, ChunkOf DEF n
      <3> HIDE DEF q, r
      <3> DEFINE a == q * Block
      <3>3. Len(chunk(q + 1)) = (IF Block < m - a THEN Block ELSE m - a)
            /\ (\A k \in 1..Len(chunk(q + 1)) : chunk(q + 1)[k] = rows[a + k]) /\ chunk(q + 1) \in Seq(Int)
        BY <1>5, <3>2
      <3>4. a \in Nat /\ i = a + (r + 1)
        BY <3>2
      <3> HIDE DEF a
      <3>5. r + 1 \in 1..Len(chunk(q + 1))
        BY <1>3, <3>2, <3>3, <3>4
      <3>6. x = chunk(q + 1)[r + 1]
        BY <3>1, <3>3, <3>4, <3>5
      <3>7. x \in ToSet(chunk(q + 1))
        BY <3>3, <3>5, <3>6 DEF ToSet
      <3>8. QED BY <1>9, <3>2, <3>7
    <2>2. ASSUME NEW b \in 1..n, NEW x \in D[b] PROVE x \in A
      <3>1. PICK k \in 1..Len(chunk(b)) : x = rows[(b - 1) * Block + k]
        BY <1>6, <1>9
      <3> DEFINE a == (b - 1) * Block
      <3>2. a \in Nat /\ a + Len(chunk(b)) <= m /\ Len(chunk(b)) \in 1..Block
        BY <1>5
      <3> HIDE DEF a
      <3>3. a + k \in 1..m
        BY <1>3, <3>2
      <3>4. x = rows[a + k]
        BY <3>1 DEF a
      <3>5. QED BY <1>1, <1>3, <3>3, <3>4 DEF ToSet
    <2>3. QED BY <2>1, <2>2
  <1>11. ASSUME NEW b \in 1..n, NEW c \in 1..n, b < c, NEW x \in D[b], NEW y \in D[c] PROVE x < y
    <2>1. PICK k \in 1..Len(chunk(b)) : x = rows[(b - 1) * Block + k]
      BY <1>6, <1>9
    <2>2. PICK l \in 1..Len(chunk(c)) : y = rows[(c - 1) * Block + l]
      BY <1>6, <1>9
    <2> DEFINE a == (b - 1) * Block
               e == (c - 1) * Block
    <2>3. /\ a \in Nat /\ a + Len(chunk(b)) <= m /\ Len(chunk(b)) \in 1..Block
          /\ e \in Nat /\ e + Len(chunk(c)) <= m /\ Len(chunk(c)) \in 1..Block
      BY <1>5
    <2>4. a + Block <= e
      <3>1. b \in Nat /\ c - 1 \in Nat /\ b <= c - 1 /\ b - 1 \in Nat /\ Block \in Nat
        BY <1>3, <1>4, <1>11
      <3>2. b * Block <= (c - 1) * Block
        BY <3>1, TimesMore
      <3>3. b * Block = (b - 1) * Block + Block
        BY <3>1
      <3>4. QED BY <3>2, <3>3
    <2> HIDE DEF a, e
    <2>5. a + k \in 1..m /\ e + l \in 1..m /\ a + k < e + l
      BY SMTT(30), <1>3, <2>3, <2>4
    <2>6. x = rows[a + k] /\ y = rows[e + l]
      BY <2>1, <2>2 DEF a, e
    <2>7. QED BY <1>3, <2>5, <2>6
  <1> HIDE DEF D
  <1>12. \A b \in 1..n : /\ IdSet(D[b]) /\ Decoded(blocks[b]) = Ascending(D[b])
                         /\ blocks[b].base \in D[b] /\ \A x \in D[b] : blocks[b].base <= x
    BY <1>6, <1>8, <1>9
  <1>13. Blocked(blocks, D, A)
    BY <1>4, <1>7, <1>10, <1>11, <1>12 DEF Blocked
  <1>14. QED BY <1>13

----------------------------------------------------------------------------
(* The rows of a delta file from a row on.                                 *)

BlockRows(blocks, b, first, before) ==
    IF SkipBefore(blocks, b, first) THEN before
    ELSE before \o Select(Decoded(blocks[b]), LAMBDA row : row >= first)

DeltaWalk(file, key, first, limit, n) ==
    \E f : /\ f[0] = <<>> /\ \A b \in 1..n : f[b] = BlockRows(BlocksOf(file, key), b, first, f[b - 1])
           /\ DeltaRowsFrom(file, key, first, limit) = Take(f[n], limit)

\* Reading a delta list goes through its blocks one after the other.
LEMMA DeltaSteps ==
    ASSUME NEW file, NEW key, NEW first, NEW limit, Len(BlocksOf(file, key)) \in Nat
    PROVE  DeltaWalk(file, key, first, limit, Len(BlocksOf(file, key)))
  <1>0. Len(BlocksOf(file, key)) \in Nat
    OBVIOUS
  <1> DEFINE B(x, i) == IF SkipBefore(BlocksOf(file, key), i, first) THEN x ELSE x \o Select(Decoded(BlocksOf(file, key)[i]), LAMBDA row : row >= first)
             f == CHOOSE g : g = [i \in 0..Len(BlocksOf(file, key)) |-> IF i = 0 THEN <<>> ELSE B(g[i - 1], i)]
             Solves(g, m) == g = [i \in 0..m |-> IF i = 0 THEN <<>> ELSE B(g[i - 1], i)]
             T == {m \in 0..Len(BlocksOf(file, key)) : \E g : Solves(g, m)}
  <1>u1. DeltaRowsFrom(file, key, first, limit) = Take(f[Len(BlocksOf(file, key))], limit)
    BY Zenon DEF DeltaRowsFrom
  <1> HIDE DEF B
  <1>u2. 0 \in T
    <2> DEFINE g == [i \in 0..0 |-> <<>>]
    <2>1. 0 \in 0..Len(BlocksOf(file, key)) /\ \A i \in 0..0 : i = 0
      BY <1>0
    <2>2. Solves(g, 0)
      BY <2>1
    <2> HIDE DEF g, Solves
    <2>3. QED BY <2>1, <2>2
  <1>u3. \A m \in 0..(Len(BlocksOf(file, key)) - 1) : m \in T => m + 1 \in T
    <2>1. SUFFICES ASSUME NEW m \in 0..(Len(BlocksOf(file, key)) - 1), m \in T PROVE m + 1 \in T
      OBVIOUS
    <2>2. PICK g : Solves(g, m)
      BY <2>1
    <2> DEFINE h == [i \in 0..(m + 1) |-> IF i = m + 1 THEN B(g[m], m + 1) ELSE g[i]]
    <2>3. m \in Nat /\ m + 1 \in 0..Len(BlocksOf(file, key)) /\ m + 1 # 0 /\ (m + 1) - 1 = m
      BY <1>0
    <2>4. ASSUME NEW i \in 0..(m + 1) PROVE h[i] = IF i = 0 THEN <<>> ELSE B(h[i - 1], i)
      <3>1. CASE i = m + 1
        <4>1. m \in 0..(m + 1) /\ m # m + 1
          BY <2>3
        <4>2. h[m] = g[m] /\ h[m + 1] = B(g[m], m + 1)
          BY <2>3, <4>1
        <4> HIDE DEF h
        <4>3. QED BY <2>3, <3>1, <4>2, Zenon
      <3>2. CASE i # m + 1
        <4>1. i \in 0..m /\ (i # 0 => i - 1 \in 0..(m + 1) /\ i - 1 # m + 1)
          BY <2>3, <3>2
        <4>2. h[i] = g[i] /\ (i # 0 => h[i - 1] = g[i - 1])
          BY <3>2, <4>1
        <4>3. g[i] = IF i = 0 THEN <<>> ELSE B(g[i - 1], i)
          BY <2>2, <4>1, Zenon
        <4> HIDE DEF h
        <4>4. CASE i = 0
          BY <4>2, <4>3, <4>4, Zenon
        <4>5. CASE i # 0
          BY <4>2, <4>3, <4>5, Zenon
        <4>6. QED BY <4>4, <4>5, Zenon
      <3>3. QED BY <3>1, <3>2, Zenon
    <2>5. Solves(h, m + 1)
      <3>1. h = [i \in 0..(m + 1) |-> h[i]]
        OBVIOUS
      <3> HIDE DEF h
      <3>2. QED BY <2>4, <3>1, Zenon
    <2> HIDE DEF h, Solves
    <2>6. QED BY <2>3, <2>5
  <1>u4. Len(BlocksOf(file, key)) \in T
    <2> HIDE DEF T
    <2>1. 0..Len(BlocksOf(file, key)) \subseteq T
      BY <1>0, <1>u2, <1>u3, UpTo
    <2>2. QED BY <1>0, <2>1
  <1>u5. Solves(f, Len(BlocksOf(file, key)))
    <2>1. \E g : Solves(g, Len(BlocksOf(file, key)))
      BY <1>u4, Zenon
    <2>2. QED BY <2>1, Zenon
  <1> HIDE DEF f
  <1>u6. f[0] = <<>>
    <2>1. 0 \in 0..Len(BlocksOf(file, key))
      BY <1>0
    <2>2. QED BY <1>u5, <2>1, Zenon
  <1>u7. \A i \in 1..Len(BlocksOf(file, key)) : f[i] = B(f[i - 1], i)
    <2>1. \A i \in 1..Len(BlocksOf(file, key)) : i \in 0..Len(BlocksOf(file, key)) /\ i # 0
      BY <1>0
    <2>2. QED BY <1>u5, <2>1, Zenon
  <1> HIDE DEF Solves, T
  <1>1. \A i \in 1..Len(BlocksOf(file, key)) : f[i] = BlockRows(BlocksOf(file, key), i, first, f[i - 1])
    BY <1>u7, Zenon DEF B, BlockRows
  <1>2. QED BY <1>u1, <1>u6, <1>1, Zenon DEF DeltaWalk

\* Reading a delta list from a row on gives its first rows from there.
LEMMA DeltaFrom ==
    ASSUME NEW file, NEW key, NEW D, NEW A, NEW blocks, blocks = BlocksOf(file, key), Blocked(blocks, D, A),
           NEW first \in Int, NEW limit
    PROVE  DeltaRowsFrom(file, key, first, limit) = Take(Ascending({r \in A : r >= first}), limit)
  <1> DEFINE n == Len(blocks)
             U(m) == {r \in UNION {D[b] : b \in 1..m} : r >= first}
  <1>1. /\ n \in Nat /\ IdSet(A) /\ A = UNION {D[b] : b \in 1..n}
        /\ \A b \in 1..n : /\ IdSet(D[b]) /\ Decoded(blocks[b]) = Ascending(D[b])
                           /\ blocks[b].base \in D[b] /\ \A x \in D[b] : blocks[b].base <= x
        /\ \A b, c \in 1..n : b < c => \A x \in D[b], y \in D[c] : x < y
    BY DEF Blocked
  <1>2. PICK f : /\ f[0] = <<>> /\ \A b \in 1..n : f[b] = BlockRows(blocks, b, first, f[b - 1])
                 /\ DeltaRowsFrom(file, key, first, limit) = Take(f[n], limit)
    BY SMTT(30), <1>1, DeltaSteps DEF DeltaWalk
  <1>3. \A b \in 1..n : SkipBefore(blocks, b, first) <=> b < n /\ blocks[b + 1].base <= first
    BY DEF SkipBefore
  <1> HIDE DEF n
  <1>4. \A b \in 1..n : D[b] \subseteq Int
    BY <1>1 DEF IdSet
  <1> DEFINE T == {m \in 0..n : IdSet(U(m)) /\ f[m] = Ascending(U(m))}
  <1>5. 0 \in T
    <2>1. 1..0 = {} /\ 0 \in 0..n
      BY <1>1
    <2>2. U(0) = {}
      BY <2>1
    <2>3. QED BY <1>2, <2>1, <2>2, AscendingEmpty
  <1>6. \A m \in 0..(n - 1) : m \in T => m + 1 \in T
    <2>1. SUFFICES ASSUME NEW m \in 0..(n - 1), m \in T PROVE m + 1 \in T
      OBVIOUS
    <2>2. m \in Nat /\ m \in 0..n /\ m + 1 \in 0..n /\ m + 1 \in 1..n /\ (m + 1) - 1 = m
          /\ 1..(m + 1) = (1..m) \cup {m + 1} /\ 1..m \subseteq 1..n
      BY <1>1, StepWithin
    <2>3. f[m + 1] = BlockRows(blocks, m + 1, first, f[m])
      BY <1>2, <2>2
    <2>4. IdSet(U(m)) /\ f[m] = Ascending(U(m))
      BY <2>1
    <2> DEFINE P == U(m)
               Q == {r \in D[m + 1] : r >= first}
               I == {i \in DOMAIN Ascending(D[m + 1]) : Ascending(D[m + 1])[i] >= first}
    <2>5. U(m + 1) = P \cup Q
      BY <2>2
    <2>6. \A x \in P, y \in Q : x < y
      <3>1. \A b \in 1..m : b \in 1..n /\ b < m + 1
        BY <2>2
      <3>2. QED BY <1>1, <2>2, <3>1
    <2>7. IdSet(D[m + 1]) /\ Decoded(blocks[m + 1]) = Ascending(D[m + 1]) /\ D[m + 1] \subseteq Int
      BY <1>1, <1>4, <2>2
    <2>8. CASE SkipBefore(blocks, m + 1, first)
      <3>1. m + 1 < n /\ blocks[(m + 1) + 1].base <= first
        BY <1>3, <2>2, <2>8
      <3>2. (m + 1) + 1 \in 1..n /\ m + 1 < (m + 1) + 1
        BY <1>1, <2>2, <3>1
      <3>3. blocks[(m + 1) + 1].base \in D[(m + 1) + 1] /\ blocks[(m + 1) + 1].base \in Int
        BY <1>1, <1>4, <3>2
      <3>4. \A x \in D[m + 1] : x < blocks[(m + 1) + 1].base
        BY <1>1, <2>2, <3>2, <3>3
      <3>5. Q = {}
        BY <2>7, <3>1, <3>3, <3>4
      <3>6. f[m + 1] = f[m]
        BY <2>3, <2>8 DEF BlockRows
      <3> HIDE DEF U, Q
      <3>7. QED BY <2>2, <2>4, <2>5, <3>5, <3>6
    <2>9. CASE ~ SkipBefore(blocks, m + 1, first)
      <3>1. f[m + 1] = f[m] \o EntriesAt(Ascending(D[m + 1]), I)
        BY <2>3, <2>7, <2>9 DEF BlockRows, Select
      <3>2. IdSet(D[m + 1] \cap {r \in Int : r >= first})
            /\ EntriesAt(Ascending(D[m + 1]), I) = Ascending(D[m + 1] \cap {r \in Int : r >= first})
        <4>1. \A i \in DOMAIN Ascending(D[m + 1]) : Ascending(D[m + 1])[i] \in Int
          <5> DEFINE a == Ascending(D[m + 1])
          <5>1. a \in Seq(Int)
            BY <2>7, AscendingFacts
          <5> HIDE DEF a
          <5>2. \A i \in DOMAIN a : a[i] \in Int
            BY <5>1
          <5>3. QED BY <5>2 DEF a
        <4>2. I = {i \in DOMAIN Ascending(D[m + 1]) : Ascending(D[m + 1])[i] \in {r \in Int : r >= first}}
          BY <4>1
        <4> HIDE DEF I
        <4>3. QED BY <2>7, <4>2, AscendingWithin
      <3>3. D[m + 1] \cap {r \in Int : r >= first} = Q
        BY <2>7
      <3> HIDE DEF P, Q, I
      <3>4. IdSet(P) /\ f[m] = Ascending(P) /\ IdSet(Q)
        BY <2>4, <3>2, <3>3 DEF P
      <3>5. IdSet(P \cup Q) /\ Ascending(P) \o Ascending(Q) = Ascending(P \cup Q)
        BY <2>6, <3>4, AscendingJoined
      <3>6. f[m + 1] = Ascending(P \cup Q)
        BY <3>1, <3>2, <3>3, <3>4, <3>5
      <3> HIDE DEF U
      <3>7. QED BY <2>2, <2>5, <3>5, <3>6
    <2>10. QED BY <2>8, <2>9
  <1>7. n \in T
    <2> HIDE DEF T
    <2>1. 0..n \subseteq T
      BY <1>1, <1>5, <1>6, UpTo
    <2>2. QED BY <1>1, <2>1
  <1>8. U(n) = {r \in A : r >= first}
    BY <1>1
  <1> HIDE DEF U
  <1>9. QED BY <1>2, <1>7, <1>8

----------------------------------------------------------------------------
(* The rows of a delta file that are in a seed.                            *)

SeedFromAt(seed, i, row) == i + Cardinality({j \in i..Len(seed) : seed[j] < row})

(* The seed is read on to the first entry that is not less than a row.     *)
LEMMA SeedReadOn ==
    ASSUME NEW seed \in Seq(Int), Increasing(seed), NEW i \in 1..(Len(seed) + 1), NEW row \in Int
    PROVE  /\ SeedFromAt(seed, i, row) \in i..(Len(seed) + 1)
           /\ \A x \in i..Len(seed) : seed[x] < row <=> x < SeedFromAt(seed, i, row)
  <1> DEFINE L == Len(seed)
             a == i - 1
             S == {k \in a..(L - 1) : seed[k + 1] < row}
             R == {j \in i..L : seed[j] < row}
             f == [k \in S |-> k + 1]
             at == a + Cardinality(S)
  <1>1. L \in Nat /\ (\A x \in 1..L : seed[x] \in Int) /\ a \in 0..L /\ L \in a..L /\ i = a + 1
        /\ DOMAIN seed = 1..L
    OBVIOUS
  <1>2. RunAt(seed, a, L)
    <2>1. \A x, y \in (a + 1)..L : x < y => seed[x] < seed[y]
      <3>1. \A x \in (a + 1)..L : x \in DOMAIN seed
        BY <1>1
      <3>2. QED BY <3>1 DEF Increasing
    <2>2. QED BY <1>1, <2>1 DEF RunAt
  <1>3. at \in a..L /\ \A x \in (a + 1)..L : seed[x] < row <=> x <= at
    <2> HIDE DEF a, L
    <2>1. QED BY <1>2, RunLowerBound
  <1> HIDE DEF L, a
  <1>4. IsFiniteSet(S)
    <2>1. IsFiniteSet(a..(L - 1))
      BY <1>1, FS_Interval
    <2>2. S \subseteq a..(L - 1)
      OBVIOUS
    <2> HIDE DEF S
    <2>3. QED BY <2>1, <2>2, FS_Subset
  <1>5. Cardinality(R) = Cardinality(S)
    <2>1. f \in [S -> R]
      BY <1>1
    <2>2. \A x, y \in S : f[x] = f[y] => x = y
      BY <1>1
    <2>3. ASSUME NEW y \in R PROVE \E x \in S : f[x] = y
      <3>1. y - 1 \in a..(L - 1) /\ (y - 1) + 1 = y
        BY <1>1
      <3>2. y - 1 \in S
        BY <3>1
      <3>3. QED BY <3>1, <3>2
    <2> HIDE DEF f, R, S
    <2>4. QED BY <1>4, <2>1, <2>2, <2>3, SameSize
  <1>6. SeedFromAt(seed, i, row) = i + Cardinality(R)
    BY DEF SeedFromAt, L
  <1> HIDE DEF R, S
  <1>7. Cardinality(S) \in Nat
    BY <1>4, FS_CardinalityType
  <1>8. SeedFromAt(seed, i, row) = at + 1 /\ at \in Int
    BY <1>1, <1>5, <1>6, <1>7
  <1> HIDE DEF at
  <1>9. QED BY <1>1, <1>3, <1>8 DEF L

(* The seed's entries from a place on that are in a block.                 *)
InBlock(seed, at, rows) == Select(SubSeq(seed, at, Len(seed)), LAMBDA row : Contains(rows, row))

Probing(g, from, blocks, seed) ==
    LET b == from[1]
        at == SeedFromAt(seed, from[2], blocks[b].base)
        rows == Decoded(blocks[b])
    IN IF b > Len(blocks) \/ from[2] > Len(seed) THEN <<>>
       ELSE IF blocks[b].base > Last(seed) \/ at > Len(seed) THEN <<>>
       ELSE IF SkipBefore(blocks, b, seed[at]) THEN g[<<b + 1, at>>]
       ELSE InBlock(seed, at, rows) \o g[<<b + 1, SeedFromAt(seed, at, Last(rows) + 1)>>]

ProbePlaces(blocks, seed) == (1..(Len(blocks) + 1)) \X (1..(Len(seed) + 1))

Probes(g, blocks, seed) == \A from \in ProbePlaces(blocks, seed) : g[from] = Probing(g, from, blocks, seed)

(* Where the walk may go on: at the next block, further in the seed.       *)
LEMMA ProbeNext ==
    ASSUME NEW blocks, NEW D, NEW A, Blocked(blocks, D, A), NEW seed \in Seq(Int), Increasing(seed),
           NEW b \in 1..Len(blocks), NEW i \in 1..Len(seed),
           NEW at, at = SeedFromAt(seed, i, blocks[b].base)
    PROVE  /\ at \in i..(Len(seed) + 1)
           /\ \A x \in i..Len(seed) : seed[x] < blocks[b].base <=> x < at
           /\ Last(Decoded(blocks[b])) \in D[b] /\ \A x \in D[b] : x <= Last(Decoded(blocks[b]))
           /\ D[b] \subseteq Int
           /\ at <= Len(seed) =>
                 /\ SeedFromAt(seed, at, Last(Decoded(blocks[b])) + 1) \in at..(Len(seed) + 1)
                 /\ \A x \in at..Len(seed) :
                       seed[x] < Last(Decoded(blocks[b])) + 1 <=> x < SeedFromAt(seed, at, Last(Decoded(blocks[b])) + 1)
  <1> DEFINE rows == Decoded(blocks[b])
             base == blocks[b].base
             B == D[b]
  <1>1. IdSet(B) /\ rows = Ascending(B) /\ base \in B
    BY DEF Blocked
  <1>2. base \in Int /\ B \subseteq Int
    BY <1>1 DEF IdSet
  <1> HIDE DEF rows, base, B
  <1>3. /\ rows \in Seq(Int) /\ Increasing(rows) /\ ToSet(rows) = B /\ Len(rows) \in Nat /\ DOMAIN rows = 1..Len(rows)
    <2>1. rows \in Seq(Int) /\ Increasing(rows) /\ ToSet(rows) = B
      BY <1>1, AscendingFacts
    <2>2. QED BY <2>1
  <1>4. Len(rows) \in 1..Len(rows)
    BY <1>1, <1>3 DEF ToSet
  <1>5. Last(rows) = rows[Len(rows)]
    BY DEF Last
  <1>6. Last(rows) \in B
    BY <1>3, <1>4, <1>5 DEF ToSet
  <1>7. \A x \in B : x <= Last(rows)
    <2>1. SUFFICES ASSUME NEW k \in 1..Len(rows) PROVE rows[k] <= rows[Len(rows)]
      BY <1>3, <1>5 DEF ToSet
    <2> DEFINE len == Len(rows)
    <2>20. len \in Nat /\ k \in 1..len
      BY <1>3
    <2>21. rows \in Seq(Int) /\ len \in 1..len /\ DOMAIN rows = 1..len
      BY <1>3, <1>4
    <2>22. rows[k] \in Int /\ rows[len] \in Int
      BY <2>20, <2>21
    <2>23. \A x, y \in 1..len : x < y => rows[x] < rows[y]
      BY <1>3, <2>21 DEF Increasing
    <2> HIDE DEF len
    <2>24. k = len \/ k < len
      BY <2>20
    <2>25. rows[k] <= rows[len]
      BY <2>20, <2>21, <2>22, <2>23, <2>24
    <2>26. QED BY <2>25 DEF len
  <1>8. at \in i..(Len(seed) + 1) /\ \A x \in i..Len(seed) : seed[x] < base <=> x < at
    <2>1. at = SeedFromAt(seed, i, base) /\ i \in 1..(Len(seed) + 1)
      BY DEF base
    <2>2. QED BY <1>2, <2>1, SeedReadOn
  <1>9. Last(rows) + 1 \in Int
    <2>1. Last(rows) \in Int
      BY <1>2, <1>6, Zenon
    <2> HIDE DEF rows
    <2>2. QED BY <2>1
  <1>10. ASSUME at <= Len(seed)
         PROVE  /\ SeedFromAt(seed, at, Last(rows) + 1) \in at..(Len(seed) + 1)
                /\ \A x \in at..Len(seed) : seed[x] < Last(rows) + 1 <=> x < SeedFromAt(seed, at, Last(rows) + 1)
    <2>1. at \in 1..(Len(seed) + 1)
      BY <1>8
    <2> DEFINE row == Last(rows) + 1
    <2>2. row \in Int
      BY <1>9
    <2> HIDE DEF row
    <2>3. /\ SeedFromAt(seed, at, row) \in at..(Len(seed) + 1)
          /\ \A x \in at..Len(seed) : seed[x] < row <=> x < SeedFromAt(seed, at, row)
      BY <2>1, <2>2, SeedReadOn
    <2>4. QED BY <2>3 DEF row
  <1>11. QED BY <1>2, <1>6, <1>7, <1>8, <1>10 DEF rows, base, B

(* The entries found in a block.                                           *)
LEMMA FoundInBlock ==
    ASSUME NEW seed \in Seq(Int), Increasing(seed), NEW at \in 1..Len(seed), NEW B, IdSet(B), NEW rows, rows = Ascending(B)
    PROVE  /\ IdSet({seed[x] : x \in at..Len(seed)} \cap B)
           /\ InBlock(seed, at, rows) = Ascending({seed[x] : x \in at..Len(seed)} \cap B)
           /\ InBlock(seed, at, rows) \in Seq(Int)
  <1> DEFINE L == Len(seed)
             a == at - 1
             part == SubSeq(seed, at, L)
             members == {seed[x] : x \in at..L}
             I == {i \in DOMAIN part : Contains(rows, part[i])}
  <1>1. L \in Nat /\ (\A x \in 1..L : seed[x] \in Int) /\ a \in 0..L /\ L \in a..L /\ at = a + 1 /\ a \in a..L
        /\ DOMAIN seed = 1..L
    OBVIOUS
  <1>2. InBlock(seed, at, rows) = EntriesAt(part, I)
    BY DEF InBlock, Select
  <1>3. RunAt(seed, a, L)
    <2>1. \A x, y \in (a + 1)..L : x < y => seed[x] < seed[y]
      <3>1. \A x \in (a + 1)..L : x \in DOMAIN seed
        BY <1>1
      <3>2. QED BY <3>1 DEF Increasing
    <2>2. QED BY <1>1, <2>1 DEF RunAt
  <1>4. IdSet(members) /\ part = Ascending(members)
    <2> HIDE DEF a, L
    <2>1. /\ IdSet({seed[x] : x \in (a + 1)..L})
          /\ SubSeq(seed, a + 1, L) = Ascending({seed[x] : x \in (a + 1)..L})
      BY <1>1, <1>3, RunAscending
    <2>2. QED BY <1>1, <2>1
  <1>5. \A x : Contains(rows, x) <=> x \in B
    <2>1. ToSet(rows) = B /\ rows \in Seq(Int)
      BY AscendingFacts
    <2>2. QED BY <2>1 DEF Contains, ToSet
  <1>6. I = {i \in DOMAIN Ascending(members) : Ascending(members)[i] \in B}
    BY <1>4, <1>5
  <1> HIDE DEF I, members, part
  <1>7. IdSet(members \cap B) /\ EntriesAt(Ascending(members), I) = Ascending(members \cap B)
    BY <1>4, <1>6, AscendingWithin
  <1>8. Ascending(members \cap B) \in Seq(Int)
    BY <1>7, AscendingFacts
  <1>9. QED BY <1>2, <1>4, <1>7, <1>8 DEF members

\* The walk of a seed over delta blocks ends.
LEMMA ProbeStops ==
    ASSUME NEW blocks, NEW D, NEW A, Blocked(blocks, D, A), NEW seed \in Seq(Int), Increasing(seed),
           NEW m, m = (CHOOSE g : g = [from \in ProbePlaces(blocks, seed) |-> Probing(g, from, blocks, seed)])
    PROVE  Probes(m, blocks, seed)
  <1> DEFINE L == Len(seed)
             n == Len(blocks)
             S == ProbePlaces(blocks, seed)
             V == Seq(Int)
             rank == [from \in S |-> n + 1 - from[1]]
             Step == [x \in S \X [S -> V] |-> Probing(x[2], x[1], blocks, seed)]
             go(from) == ~ (from[1] > n \/ from[2] > L)
                         /\ ~ (SeedFromAt(seed, from[2], blocks[from[1]].base) > L)
             one(from) == <<from[1] + 1, SeedFromAt(seed, from[2], blocks[from[1]].base)>>
             two(from) == <<from[1] + 1, SeedFromAt(seed, SeedFromAt(seed, from[2], blocks[from[1]].base),
                                                    Last(Decoded(blocks[from[1]])) + 1)>>
             hits(from) == InBlock(seed, SeedFromAt(seed, from[2], blocks[from[1]].base), Decoded(blocks[from[1]]))
  <1>1. n \in Nat /\ L \in Nat
    BY DEF Blocked
  <1>2. S = (1..(n + 1)) \X (1..(L + 1))
    BY DEF ProbePlaces
  <1> HIDE DEF S
  <1>20. \A b \in 1..(n + 1), i \in 1..(L + 1) : <<b, i>> \in S
    BY <1>2
  <1>3. ASSUME NEW from \in S, go(from)
        PROVE  /\ one(from) \in S /\ two(from) \in S /\ hits(from) \in V
    <2> DEFINE b == from[1]
               i == from[2]
               at == SeedFromAt(seed, i, blocks[b].base)
    <2>1. b \in 1..n /\ i \in 1..L /\ at <= L /\ b + 1 \in 1..(n + 1)
      <3>1. b \in 1..(n + 1) /\ i \in 1..(L + 1) /\ ~ (b > n) /\ ~ (i > L)
        BY <1>2, <1>3
      <3>2. b \in 1..n /\ i \in 1..L
        BY <1>1, <3>1
      <3>3. at \in i..(L + 1)
        BY <3>2, ProbeNext
      <3>4. ~ (at > L)
        BY <1>3
      <3> HIDE DEF b, i, at
      <3>5. QED BY <1>1, <3>2, <3>3, <3>4
    <2>2. /\ at \in i..(L + 1)
          /\ SeedFromAt(seed, at, Last(Decoded(blocks[b])) + 1) \in at..(L + 1)
      BY <2>1, ProbeNext
    <2>3. IdSet(D[b]) /\ Decoded(blocks[b]) = Ascending(D[b])
      BY <2>1 DEF Blocked
    <2>4. at \in 1..L
      <3> HIDE DEF at, i
      <3>1. QED BY <1>1, <2>1, <2>2
    <2>5. InBlock(seed, at, Decoded(blocks[b])) \in Seq(Int)
      <3> HIDE DEF at, b
      <3>1. QED BY <2>3, <2>4, FoundInBlock DEF L
    <2> DEFINE nxt == SeedFromAt(seed, at, Last(Decoded(blocks[b])) + 1)
    <2>6. at \in 1..(L + 1) /\ nxt \in 1..(L + 1)
      <3>1. nxt \in at..(L + 1)
        BY <2>2
      <3> HIDE DEF at, nxt
      <3>2. QED BY <1>1, <2>4, <3>1
    <2> HIDE DEF at, nxt, b
    <2>7. <<b + 1, at>> \in S /\ <<b + 1, nxt>> \in S
      BY <1>20, <2>1, <2>6
    <2>8. QED BY <2>5, <2>7 DEF at, nxt, b
  <1>4. rank \in [S -> Nat]
    <2>1. ASSUME NEW from \in S PROVE n + 1 - from[1] \in Nat
      <3>1. from[1] \in 1..(n + 1)
        BY <1>2
      <3> DEFINE b == from[1]
      <3> HIDE DEF b
      <3>2. n + 1 - b \in Nat
        BY <1>1, <3>1 DEF b
      <3>3. QED BY <3>2 DEF b
    <2>2. QED BY <2>1
  <1>5. ASSUME NEW from \in S, NEW i, <<from[1] + 1, i>> \in S
        PROVE  rank[<<from[1] + 1, i>>] < rank[from]
    <2>1. rank[<<from[1] + 1, i>>] = n + 1 - (from[1] + 1) /\ rank[from] = n + 1 - from[1]
      BY <1>5
    <2>2. from[1] \in 1..(n + 1)
      BY <1>2
    <2> HIDE DEF rank
    <2> DEFINE b == from[1]
    <2>3. b \in Nat
      BY <1>1, <2>2
    <2> HIDE DEF b
    <2>4. n + 1 - (b + 1) < n + 1 - b
      BY <1>1, <2>3
    <2>5. QED BY <2>1, <2>4 DEF b
  <1> HIDE DEF rank, n, L
  <1>50. \A from, g : Probing(g, from, blocks, seed) =
            IF ~ go(from) THEN <<>>
            ELSE IF blocks[from[1]].base > Last(seed) THEN <<>>
            ELSE IF SkipBefore(blocks, from[1], seed[SeedFromAt(seed, from[2], blocks[from[1]].base)])
                 THEN g[one(from)] ELSE hits(from) \o g[two(from)]
    BY DEF Probing, n, L
  <1>51. \A from \in S : go(from) => rank[one(from)] < rank[from] /\ rank[two(from)] < rank[from]
    BY <1>3, <1>5
  <1>52. \A from \in S : go(from) => one(from) \in S /\ two(from) \in S /\ hits(from) \in V
    BY <1>3
  <1> HIDE DEF go, one, two, hits
  <1>6. ASSUME NEW from \in S, NEW g \in [S -> V] PROVE Probing(g, from, blocks, seed) \in V
    <2>1. go(from) => g[one(from)] \in V /\ hits(from) \o g[two(from)] \in V
      <3>1. go(from) => g[one(from)] \in V /\ g[two(from)] \in V /\ hits(from) \in V
        BY <1>52
      <3>2. QED BY <3>1
    <2>2. <<>> \in V
      OBVIOUS
    <2> HIDE DEF V
    <2>3. QED BY <1>50, <2>1, <2>2
  <1> HIDE DEF V
  <1>7. Step \in [S \X [S -> V] -> V]
    <2>1. ASSUME NEW x \in S \X [S -> V] PROVE Probing(x[2], x[1], blocks, seed) \in V
      <3>1. x[1] \in S /\ x[2] \in [S -> V]
        OBVIOUS
      <3>2. QED BY <1>6, <3>1
    <2>2. QED BY <2>1, Zenon
  <1>8. \A x \in S, g \in [S -> V] : Step[<<x, g>>] = Probing(g, x, blocks, seed)
    <2>1. SUFFICES ASSUME NEW x \in S, NEW g \in [S -> V] PROVE Step[<<x, g>>] = Probing(g, x, blocks, seed)
      OBVIOUS
    <2>2. <<x, g>> \in S \X [S -> V] /\ <<x, g>>[1] = x /\ <<x, g>>[2] = g
      OBVIOUS
    <2>3. Step[<<x, g>>] = Probing(<<x, g>>[2], <<x, g>>[1], blocks, seed)
      BY <2>2, Zenon
    <2>4. QED BY <2>2, <2>3, Zenon
  <1> HIDE DEF Step
  <1>9. ASSUME NEW x \in S, NEW g \in [S -> V], NEW h \in [S -> V],
               \A y \in S : rank[y] < rank[x] => g[y] = h[y]
        PROVE  Probing(g, x, blocks, seed) = Probing(h, x, blocks, seed)
    <2>1. go(x) => g[one(x)] = h[one(x)] /\ g[two(x)] = h[two(x)]
      BY <1>9, <1>51, <1>52
    <2>2. QED BY <1>50, <2>1
  <1>10. Recursive(S, V, rank, Step)
    <2>1. \A x \in S : \A g, h \in [S -> V] :
             (\A y \in S : rank[y] < rank[x] => g[y] = h[y]) => Step[<<x, g>>] = Step[<<x, h>>]
      BY <1>8, <1>9
    <2>2. QED BY <1>4, <1>7, <2>1, Zenon DEF Recursive
  <1>11. Solvable(S, V, Step)
    <2>1. <<>> \in V
      BY DEF V
    <2>2. QED BY <1>10, <2>1, RecursionExists
  <1>12. PICK f \in [S -> V] : \A x \in S : f[x] = Step[<<x, f>>]
    BY <1>11 DEF Solvable
  <1>13. f = [from \in S |-> Probing(f, from, blocks, seed)]
    <2>1. \A x \in S : f[x] = Probing(f, x, blocks, seed)
      BY <1>8, <1>12
    <2>2. QED BY <2>1
  <1>14. m = [from \in S |-> Probing(m, from, blocks, seed)]
    BY <1>13, Zenon DEF S
  <1>15. QED BY <1>14, Zenon DEF Probes, S

(* What the seed from a place on shares with the blocks from one on.       *)
Left(D, n, seed, b, i) == {seed[x] : x \in i..Len(seed)} \cap UNION {D[c] : c \in b..n}

LeftOK(m, D, n, seed, b, i) ==
    IdSet(Left(D, n, seed, b, i)) /\ m[<<b, i>>] = Ascending(Left(D, n, seed, b, i))

\* One step of that walk answers the common rows left if the next steps do.
LEMMA ProbeStep ==
    ASSUME NEW blocks, NEW D, NEW A, Blocked(blocks, D, A), NEW seed \in Seq(Int), Increasing(seed),
           NEW m, Probes(m, blocks, seed), NEW b \in 1..Len(blocks), NEW i \in 1..(Len(seed) + 1),
           \A x \in 1..(Len(seed) + 1) : LeftOK(m, D, Len(blocks), seed, b + 1, x)
    PROVE  LeftOK(m, D, Len(blocks), seed, b, i)
  <1> DEFINE L == Len(seed)
             n == Len(blocks)
             base == blocks[b].base
             at == SeedFromAt(seed, i, base)
             rows == Decoded(blocks[b])
             nxt == SeedFromAt(seed, at, Last(rows) + 1)
             left == Left(D, n, seed, b, i)
             later == UNION {D[c] : c \in (b + 1)..n}
  <1>1. /\ n \in Nat
        /\ \A c \in 1..n : /\ IdSet(D[c]) /\ Decoded(blocks[c]) = Ascending(D[c])
                           /\ blocks[c].base \in D[c] /\ \A x \in D[c] : blocks[c].base <= x
        /\ \A c, e \in 1..n : c < e => \A x \in D[c], y \in D[e] : x < y
    BY DEF Blocked
  <1>2. /\ L \in Nat /\ (\A x \in 1..L : seed[x] \in Int) /\ DOMAIN seed = 1..L /\ i \in 1..(L + 1)
        /\ \A x, y \in 1..L : x < y => seed[x] < seed[y]
    BY DEF Increasing
  <1>3. m[<<b, i>>] =
           IF b > n \/ i > L THEN <<>>
           ELSE IF base > Last(seed) \/ at > L THEN <<>>
           ELSE IF SkipBefore(blocks, b, seed[at]) THEN m[<<b + 1, at>>]
           ELSE InBlock(seed, at, rows) \o m[<<b + 1, nxt>>]
    <2>1. <<b, i>> \in ProbePlaces(blocks, seed)
      BY <1>1 DEF ProbePlaces
    <2>2. m[<<b, i>>] = Probing(m, <<b, i>>, blocks, seed)
      BY <2>1 DEF Probes
    <2>3. QED BY <2>2 DEF Probing
  <1>4. \A c \in b..n : c \in 1..n /\ (c = b \/ (c \in (b + 1)..n /\ b < c))
    BY <1>1
  <1>5. b \in b..n /\ \A c \in (b + 1)..n : c \in b..n /\ c \in 1..n /\ b < c
    BY <1>1
  <1>6. UNION {D[c] : c \in b..n} = D[b] \cup later
    BY <1>4, <1>5
  <1>7. left = {seed[x] : x \in i..L} \cap (D[b] \cup later)
    BY <1>6 DEF Left
  <1>8. \A x \in 1..(L + 1) : Left(D, n, seed, b + 1, x) = {seed[y] : y \in x..L} \cap later
    BY DEF Left
  <1>9. /\ D[b] \subseteq Int /\ base \in D[b] /\ (\A x \in D[b] : base <= x) /\ later \subseteq Int
        /\ (\A x \in D[b], y \in later : x < y) /\ IdSet(D[b]) /\ rows = Ascending(D[b])
    <2>1. \A c \in 1..n : D[c] \subseteq Int
      BY <1>1 DEF IdSet
    <2>2. \A x \in D[b], y \in later : x < y
      BY <1>1, <1>5
    <2>3. later \subseteq Int
      BY <1>5, <2>1
    <2>4. QED BY <1>1, <2>1, <2>2, <2>3
  <1>10. ASSUME i <= L
         PROVE  /\ at \in i..(L + 1) /\ \A x \in i..L : seed[x] < base <=> x < at
                /\ Last(rows) \in D[b] /\ \A x \in D[b] : x <= Last(rows)
                /\ at <= L => /\ nxt \in at..(L + 1)
                              /\ \A x \in at..L : seed[x] < Last(rows) + 1 <=> x < nxt
    <2>1. i \in 1..L
      BY <1>2, <1>10
    <2>2. QED BY <2>1, ProbeNext
  <1>11. \A x \in 1..(L + 1) : LeftOK(m, D, n, seed, b + 1, x)
    OBVIOUS
  <1>12. b \in 1..n
    OBVIOUS
  <1>13. b < n => blocks[b + 1].base \in later /\ \A y \in later : blocks[b + 1].base <= y
    <2>1. SUFFICES ASSUME b < n PROVE blocks[b + 1].base \in later /\ \A y \in later : blocks[b + 1].base <= y
      OBVIOUS
    <2>2. b + 1 \in (b + 1)..n /\ b + 1 \in 1..n /\ \A c \in (b + 1)..n : c = b + 1 \/ b + 1 < c
      BY <1>1, <1>12, <2>1
    <2>3. blocks[b + 1].base \in D[b + 1] /\ \A x \in D[b + 1] : blocks[b + 1].base <= x
      BY <1>1, <2>2
    <2>4. D[b + 1] \subseteq Int
      BY <1>1, <2>2 DEF IdSet
    <2>5. \A c \in (b + 1)..n : b + 1 < c => \A y \in D[c] : blocks[b + 1].base < y
      BY <1>1, <1>5, <2>2, <2>3
    <2>6. ASSUME NEW y \in later PROVE blocks[b + 1].base <= y
      <3>1. PICK c \in (b + 1)..n : y \in D[c]
        OBVIOUS
      <3>2. CASE c = b + 1
        BY <2>3, <3>1, <3>2
      <3>3. CASE b + 1 < c
        <4>1. blocks[b + 1].base < y /\ blocks[b + 1].base \in Int /\ y \in Int
          BY <1>9, <2>3, <2>4, <2>5, <2>6, <3>1, <3>3
        <4>2. QED BY <4>1
      <3>4. QED BY <2>2, <3>2, <3>3
    <2>7. QED BY <2>2, <2>3, <2>6
  <1> HIDE DEF n, L, base, at, rows, nxt, left, later
  <1>14. CASE i > L
    <2>1. i..L = {}
      BY <1>2, <1>14
    <2>2. left = {}
      BY <1>7, <2>1
    <2>3. m[<<b, i>>] = <<>>
      BY <1>3, <1>14
    <2>4. QED BY <2>2, <2>3, AscendingEmpty DEF LeftOK, left, n
  <1>15. CASE ~ (i > L)
    <2>1. i \in 1..L /\ i <= L /\ ~ (b > n)
      BY <1>1, <1>2, <1>12, <1>15
    <2>2. /\ at \in i..(L + 1) /\ (\A x \in i..L : seed[x] < base <=> x < at)
          /\ Last(rows) \in D[b] /\ (\A x \in D[b] : x <= Last(rows))
          /\ at <= L => /\ nxt \in at..(L + 1)
                        /\ \A x \in at..L : seed[x] < Last(rows) + 1 <=> x < nxt
      BY <1>10, <2>1
    <2>3. \A x \in i..L : x \in 1..L /\ seed[x] \in Int
      BY <1>2, <2>1
    <2>4. base \in Int /\ \A y \in D[b] \cup later : y \in Int /\ base <= y
      <3>1. base \in Int
        BY <1>9
      <3>2. \A y \in later : y \in Int /\ base < y
        BY <1>9
      <3>3. ASSUME NEW y \in D[b] \cup later PROVE y \in Int /\ base <= y
        <4>1. CASE y \in D[b]
          BY <1>9, <4>1
        <4>2. CASE y \in later
          BY <3>1, <3>2, <4>2
        <4>3. QED BY <3>3, <4>1, <4>2
      <3>4. QED BY <3>1, <3>3
    <2>5. left = {seed[x] : x \in at..L} \cap (D[b] \cup later)
      <3>1. \A x \in i..L : seed[x] \in D[b] \cup later => x \in at..L
        <4>1. SUFFICES ASSUME NEW x \in i..L, seed[x] \in D[b] \cup later PROVE x \in at..L
          OBVIOUS
        <4>2. ~ (seed[x] < base)
          BY <2>3, <2>4, <4>1
        <4>3. ~ (x < at)
          BY <2>2, <4>2
        <4>4. QED BY <1>2, <2>1, <2>2, <4>3
      <3>2. \A x \in at..L : x \in i..L
        BY <1>2, <2>1, <2>2
      <3>3. QED BY <1>7, <3>1, <3>2
    <2>6. CASE base > Last(seed) \/ at > L
      <3>1. at..L = {} \/ \A x \in at..L : seed[x] < base
        <4>1. CASE at > L
          BY <1>2, <2>1, <2>2, <4>1
        <4>2. CASE base > Last(seed)
          <5>1. Last(seed) = seed[L] /\ L \in 1..L
            BY <1>2, <2>1 DEF Last, L
          <5>2. ASSUME NEW x \in at..L PROVE seed[x] < base
            <6>1. x \in 1..L /\ (x = L \/ x < L)
              BY <1>2, <2>1, <2>2
            <6>2. seed[x] \in Int /\ seed[L] \in Int /\ (x = L \/ seed[x] < seed[L])
              BY <1>2, <5>1, <6>1
            <6>3. QED BY <2>4, <4>2, <5>1, <6>2
          <5>3. QED BY <5>2
        <4>3. QED BY <2>6, <4>1, <4>2
      <3>2. left = {}
        <4>1. SUFFICES ASSUME NEW z \in left PROVE FALSE
          OBVIOUS
        <4>2. PICK x \in at..L : z = seed[x]
          BY <2>5
        <4>3. z \in D[b] \cup later
          BY <2>5
        <4>4. base <= z /\ z \in Int
          BY <2>4, <4>3
        <4>5. z < base
          BY <3>1, <4>2
        <4>6. QED BY <2>4, <4>4, <4>5
      <3>3. m[<<b, i>>] = <<>>
        BY <1>3, <2>1, <1>15, <2>6
      <3>4. QED BY <3>2, <3>3, AscendingEmpty DEF LeftOK, left, n
    <2>7. CASE ~ (base > Last(seed) \/ at > L) /\ SkipBefore(blocks, b, seed[at])
      <3>1. at \in 1..L /\ at \in 1..(L + 1)
        BY <1>2, <2>1, <2>2, <2>7
      <3>2. b < n /\ blocks[b + 1].base <= seed[at]
        BY <2>7 DEF SkipBefore, n
      <3>3. blocks[b + 1].base \in later /\ blocks[b + 1].base \in Int /\ seed[at] \in Int
        BY <1>2, <1>9, <1>13, <3>1, <3>2
      <3>4. \A x \in at..L : seed[x] \notin D[b]
        <4>1. SUFFICES ASSUME NEW x \in at..L, seed[x] \in D[b] PROVE FALSE
          OBVIOUS
        <4>2. x \in 1..L /\ (x = at \/ at < x)
          BY <1>2, <3>1
        <4>3. seed[x] \in Int /\ (x = at \/ seed[at] < seed[x])
          BY <1>2, <3>1, <4>2
        <4>4. seed[x] < blocks[b + 1].base
          BY <1>9, <3>3, <4>1
        <4>5. QED BY <3>2, <3>3, <4>3, <4>4
      <3>5. left = Left(D, n, seed, b + 1, at)
        BY <1>8, <2>5, <3>1, <3>4
      <3>6. m[<<b, i>>] = m[<<b + 1, at>>]
        BY <1>3, <1>15, <2>1, <2>7
      <3>7. LeftOK(m, D, n, seed, b + 1, at)
        BY <1>11, <3>1
      <3>8. QED BY <3>5, <3>6, <3>7 DEF LeftOK, left, n
    <2>8. CASE ~ (base > Last(seed) \/ at > L) /\ ~ SkipBefore(blocks, b, seed[at])
      <3>1. at \in 1..L /\ at <= L
        BY <1>2, <2>1, <2>2, <2>8
      <3>2. nxt \in at..(L + 1) /\ \A x \in at..L : seed[x] < Last(rows) + 1 <=> x < nxt
        BY <2>2, <3>1
      <3>3. nxt \in 1..(L + 1)
        BY <1>2, <3>1, <3>2
      <3> DEFINE P == {seed[x] : x \in at..L} \cap D[b]
                 Q == Left(D, n, seed, b + 1, nxt)
      <3>4. IdSet(P) /\ InBlock(seed, at, rows) = Ascending(P)
        BY <1>9, <3>1, FoundInBlock DEF L
      <3>5. IdSet(Q) /\ m[<<b + 1, nxt>>] = Ascending(Q)
        BY <1>11, <3>3 DEF LeftOK
      <3>6. Q = {seed[y] : y \in nxt..L} \cap later
        BY <1>8, <3>3
      <3>7. \A x \in P, y \in Q : x < y
        BY <1>9, <3>6
      <3>8. left = P \cup Q
        <4>1. Last(rows) \in Int /\ \A y \in later : Last(rows) < y /\ y \in Int
          BY <1>9, <2>2
        <4>2. \A x \in at..L : x \in 1..L /\ seed[x] \in Int
          BY <1>2, <3>1
        <4>3. \A x \in at..L : seed[x] \in later => x \in nxt..L
          <5>1. SUFFICES ASSUME NEW x \in at..L, seed[x] \in later PROVE x \in nxt..L
            OBVIOUS
          <5>2. ~ (seed[x] < Last(rows) + 1)
            BY <4>1, <4>2, <5>1
          <5>3. ~ (x < nxt)
            BY <3>2, <5>2
          <5>4. QED BY <1>2, <3>1, <3>2, <5>3
        <4>4. \A x \in nxt..L : x \in at..L
          BY <1>2, <3>1, <3>2
        <4>5. QED BY <2>5, <3>6, <4>3, <4>4
      <3>9. m[<<b, i>>] = InBlock(seed, at, rows) \o m[<<b + 1, nxt>>]
        BY <1>3, <1>15, <2>1, <2>8
      <3> HIDE DEF P, Q
      <3>10. IdSet(P \cup Q) /\ Ascending(P) \o Ascending(Q) = Ascending(P \cup Q)
        BY <3>4, <3>5, <3>7, AscendingJoined
      <3>11. m[<<b, i>>] = Ascending(left) /\ IdSet(left)
        BY <3>4, <3>5, <3>8, <3>9, <3>10
      <3>12. QED BY <3>11 DEF LeftOK, left, n
    <2>9. QED BY <2>6, <2>7, <2>8
  <1>16. QED BY <1>14, <1>15

\* The walk of a seed over delta blocks answers their common rows.
LEMMA ProbeAnswers ==
    ASSUME NEW blocks, NEW D, NEW A, Blocked(blocks, D, A), NEW seed \in Seq(Int), Increasing(seed),
           NEW m, Probes(m, blocks, seed)
    PROVE  m[<<1, 1>>] = Ascending(ToSet(seed) \cap A)
  <1> DEFINE n == Len(blocks)
             L == Len(seed)
             T == {k \in 0..n : \A i \in 1..(L + 1) : LeftOK(m, D, n, seed, (n + 1) - k, i)}
  <1>1. n \in Nat /\ L \in Nat /\ A = UNION {D[b] : b \in 1..n} /\ DOMAIN seed = 1..L
    BY DEF Blocked
  <1>2. \A b \in 1..n : (\A x \in 1..(L + 1) : LeftOK(m, D, n, seed, b + 1, x))
                        => \A x \in 1..(L + 1) : LeftOK(m, D, n, seed, b, x)
    BY ProbeStep
  <1>3. \A i \in 1..(L + 1) : LeftOK(m, D, n, seed, n + 1, i)
    <2>1. SUFFICES ASSUME NEW i \in 1..(L + 1) PROVE LeftOK(m, D, n, seed, n + 1, i)
      OBVIOUS
    <2>2. <<n + 1, i>> \in ProbePlaces(blocks, seed)
      BY <1>1 DEF ProbePlaces
    <2>3. m[<<n + 1, i>>] = Probing(m, <<n + 1, i>>, blocks, seed)
      BY <2>2 DEF Probes
    <2>4. m[<<n + 1, i>>] = <<>>
      BY <1>1, <2>3 DEF Probing
    <2>5. (n + 1)..n = {}
      BY <1>1
    <2>6. Left(D, n, seed, n + 1, i) = {}
      BY <2>5 DEF Left
    <2>7. QED BY <2>4, <2>6, AscendingEmpty DEF LeftOK
  <1> HIDE DEF n, L
  <1>4. 0 \in T
    <2>1. (n + 1) - 0 = n + 1 /\ 0 \in 0..n
      BY <1>1
    <2>2. QED BY <1>3, <2>1
  <1>5. \A k \in 0..(n - 1) : k \in T => k + 1 \in T
    <2>1. SUFFICES ASSUME NEW k \in 0..(n - 1), k \in T PROVE k + 1 \in T
      OBVIOUS
    <2> DEFINE b == (n + 1) - (k + 1)
    <2>2. b \in 1..n /\ b + 1 = (n + 1) - k /\ k + 1 \in 0..n
      BY <1>1
    <2>3. \A x \in 1..(L + 1) : LeftOK(m, D, n, seed, b + 1, x)
      <3>1. \A x \in 1..(L + 1) : LeftOK(m, D, n, seed, (n + 1) - k, x)
        BY <2>1
      <3> HIDE DEF b
      <3>2. QED BY <2>2, <3>1
    <2> HIDE DEF b
    <2>4. \A x \in 1..(L + 1) : LeftOK(m, D, n, seed, b, x)
      BY <1>2, <2>2, <2>3
    <2>5. QED BY <2>2, <2>4 DEF b
  <1>6. n \in T
    <2> HIDE DEF T
    <2>1. 0..n \subseteq T
      BY <1>1, <1>4, <1>5, UpTo
    <2>2. QED BY <1>1, <2>1
  <1>7. LeftOK(m, D, n, seed, 1, 1)
    <2>1. (n + 1) - n = 1 /\ 1 \in 1..(L + 1)
      BY <1>1
    <2>2. \A i \in 1..(L + 1) : LeftOK(m, D, n, seed, (n + 1) - n, i)
      BY <1>6
    <2>3. LeftOK(m, D, n, seed, (n + 1) - n, 1)
      BY <2>1, <2>2
    <2>4. QED BY <2>1, <2>3
  <1>8. Left(D, n, seed, 1, 1) = ToSet(seed) \cap A
    BY <1>1 DEF Left, ToSet, L
  <1>9. QED BY <1>7, <1>8 DEF LeftOK

(* A delta file answers every key exactly.                                 *)
THEOREM DeltaAnswers ==
    ASSUME NEW s \in Seq(Records), InSequence(s), NEW key \in Int, NEW file,
           file.kind = "deltapost", file.groups = DeltaGroups(s)
    PROVE  AnswersKey(file, key, KeyRows(ToSet(s), key))
  <1> DEFINE A == KeyRows(ToSet(s), key)
             rows == Second(Select(s, LAMBDA record : record[1] = key))
             blocks == BlocksOf(file, key)
             keys == {s[i][1] : i \in DOMAIN s}
  <1>1. IdSet(A) /\ rows = Ascending(A)
    BY GroupRowsOfKey
  <1>2. Len(rows) = Cardinality(A) /\ Cardinality(A) \in Nat
    <2> HIDE DEF A, rows
    <2>1. QED BY <1>1, AscendingFacts
  <1>3. DOMAIN file.groups = keys /\ (key \in keys => file.groups[key] = [count |-> Len(rows), blocks |-> DeltaBlocks(rows)])
    BY DEF DeltaGroups
  <1>4. key \notin keys => A = {}
    <2>1. ToSet(s) = {s[i] : i \in DOMAIN s}
      BY DEF ToSet
    <2>2. QED BY <2>1 DEF KeyRows
  <1> HIDE DEF rows, A, keys
  <1>5. blocks = DeltaBlocks(Ascending(A)) /\ DeltaCount(file, key) = Cardinality(A)
    <2>1. CASE key \in keys
      BY <1>1, <1>2, <1>3, <2>1 DEF BlocksOf, DeltaCount
    <2>2. CASE key \notin keys
      <3>1. blocks = <<>> /\ DeltaCount(file, key) = 0
        BY <1>3, <2>2 DEF BlocksOf, DeltaCount
      <3>2. A = {} /\ Ascending(A) = <<>> /\ Cardinality(A) = 0
        BY <1>4, <2>2, AscendingEmpty
      <3>3. CeilDiv(0, Block) = 0
        BY WidthsAssumption, CeilDivBounds
      <3>4. DeltaBlocks(<<>>) = <<>>
        <4>1. Len(<<>>) = 0 /\ 1..0 = {}
          OBVIOUS
        <4>2. QED BY <3>3, <4>1 DEF DeltaBlocks
      <3>5. QED BY <3>1, <3>2, <3>4
    <2>3. QED BY <2>1, <2>2
  <1>6. PICK D : Blocked(blocks, D, A)
    BY <1>1, <1>5, DeltaBlocked
  <1>7. RowCount(file, key) = Cardinality(A)
    BY <1>5 DEF RowCount, ListKinds
  <1>8. \A first, limit \in Nat : RowsFrom(file, key, first, limit) = Take(Ascending({r \in A : r >= first}), limit)
    <2>1. SUFFICES ASSUME NEW first \in Nat, NEW limit \in Nat
                   PROVE  RowsFrom(file, key, first, limit) = Take(Ascending({r \in A : r >= first}), limit)
      OBVIOUS
    <2>2. RowsFrom(file, key, first, limit) = DeltaRowsFrom(file, key, first, limit)
      BY DEF RowsFrom, ListKinds
    <2>3. first \in Int
      OBVIOUS
    <2>4. QED BY <1>6, <2>2, <2>3, DeltaFrom
  <1>9. ASSUME NEW seed \in SUBSET Nat, IsFiniteSet(seed)
        PROVE  IntersectRows(file, key, Ascending(seed)) = Ascending(seed \cap A)
    <2> DEFINE list == Ascending(seed)
               m == CHOOSE g : g = [from \in ProbePlaces(blocks, list) |-> Probing(g, from, blocks, list)]
    <2>1. IdSet(seed)
      BY <1>9 DEF IdSet
    <2>2. list \in Seq(Int) /\ Increasing(list) /\ ToSet(list) = seed
      BY <2>1, AscendingFacts
    <2>3. IntersectRows(file, key, list) = DeltaIntersect(file, key, list)
      BY DEF IntersectRows, ListKinds
    <2> HIDE DEF list
    <2>4. DeltaIntersect(file, key, list) = m[<<1, 1>>]
      BY Zenon DEF DeltaIntersect, Probing, ProbePlaces, SeedFromAt, InBlock
    <2> HIDE DEF blocks
    <2>5. Probes(m, blocks, list)
      BY <1>6, <2>2, ProbeStops
    <2> HIDE DEF m
    <2>6. m[<<1, 1>>] = Ascending(ToSet(list) \cap A)
      BY <1>6, <2>2, <2>5, ProbeAnswers
    <2>7. QED BY <2>2, <2>3, <2>4, <2>6 DEF list
  <1>10. AnswersKey(file, key, A)
    BY <1>1, <1>7, <1>8, <1>9 DEF AnswersKey
  <1>11. QED BY <1>10 DEF A

----------------------------------------------------------------------------
(* Bits.                                                                   *)

(* Powers of two double.                                                   *)
LEMMA Powers ==
    /\ Pow2[0] = 1
    /\ \A n \in Nat : Pow2[n] \in Nat \ {0} /\ Pow2[n + 1] = 2 * Pow2[n]
  <1> DEFINE Step == [p \in Nat \X [Nat -> Nat] |-> IF p[1] = 0 THEN 1 ELSE 2 * p[2][p[1] - 1]]
             rank == [n \in Nat |-> n]
  <1>1. Recursive(Nat, Nat, rank, Step)
    <2>1. rank \in [Nat -> Nat]
      OBVIOUS
    <2>2. Step \in [Nat \X [Nat -> Nat] -> Nat]
      <3>1. \A x \in Nat : x = 0 \/ x - 1 \in Nat
        OBVIOUS
      <3>2. \A x \in Nat, g \in [Nat -> Nat] : x - 1 \in Nat => 2 * g[x - 1] \in Nat
        OBVIOUS
      <3>3. ASSUME NEW p \in Nat \X [Nat -> Nat]
            PROVE  (IF p[1] = 0 THEN 1 ELSE 2 * p[2][p[1] - 1]) \in Nat
        <4>1. p[1] \in Nat /\ p[2] \in [Nat -> Nat]
          OBVIOUS
        <4>2. QED BY <3>1, <3>2, <4>1
      <3>4. QED BY <3>3
    <2>3. ASSUME NEW x \in Nat, NEW g \in [Nat -> Nat], NEW h \in [Nat -> Nat],
                 \A y \in Nat : rank[y] < rank[x] => g[y] = h[y]
          PROVE  Step[<<x, g>>] = Step[<<x, h>>]
      <3>1. <<x, g>> \in Nat \X [Nat -> Nat] /\ <<x, h>> \in Nat \X [Nat -> Nat]
        OBVIOUS
      <3>2. /\ Step[<<x, g>>] = IF x = 0 THEN 1 ELSE 2 * g[x - 1]
            /\ Step[<<x, h>>] = IF x = 0 THEN 1 ELSE 2 * h[x - 1]
        BY <3>1
      <3>3. x # 0 => x - 1 \in Nat /\ x - 1 < x
        OBVIOUS
      <3>4. x # 0 => g[x - 1] = h[x - 1]
        BY <2>3, <3>3
      <3>5. QED BY <3>2, <3>4
    <2> HIDE DEF rank, Step
    <2>4. QED BY <2>1, <2>2, <2>3 DEF Recursive
  <1>2. PICK f \in [Nat -> Nat] : \A n \in Nat : f[n] = Step[<<n, f>>]
    <2> HIDE DEF rank, Step
    <2>1. 0 \in Nat
      OBVIOUS
    <2>2. Solvable(Nat, Nat, Step)
      BY <1>1, <2>1, RecursionExists
    <2>3. QED BY <2>2 DEF Solvable
  <1>3. \A n \in Nat : f[n] = IF n = 0 THEN 1 ELSE 2 * f[n - 1]
    <2>1. \A n \in Nat : <<n, f>> \in Nat \X [Nat -> Nat]
      OBVIOUS
    <2>2. QED BY <1>2, <2>1
  <1>4. f = [n \in Nat |-> IF n = 0 THEN 1 ELSE 2 * f[n - 1]]
    BY <1>3
  <1> HIDE DEF Step, rank
  <1>5. Pow2 = [n \in Nat |-> IF n = 0 THEN 1 ELSE 2 * Pow2[n - 1]]
    BY <1>4 DEF Pow2
  <1>6. Pow2[0] = 1 /\ \A n \in Nat : Pow2[n + 1] = 2 * Pow2[n]
    <2>1. 0 \in Nat /\ \A n \in Nat : n + 1 \in Nat /\ n + 1 # 0 /\ (n + 1) - 1 = n
      OBVIOUS
    <2>2. QED BY <1>5, <2>1
  <1>7. ASSUME NEW n \in Nat PROVE Pow2[n] \in Nat \ {0}
    <2> DEFINE T == {k \in 0..n : Pow2[k] \in Nat \ {0}}
    <2>1. 0 \in T
      BY <1>6
    <2>2. \A k \in 0..(n - 1) : k \in T => k + 1 \in T
      <3>1. \A k \in 0..(n - 1) : k \in Nat /\ k + 1 \in 0..n
        OBVIOUS
      <3>2. QED BY <1>6, <3>1
    <2> HIDE DEF T
    <2>3. 0..n \subseteq T
      BY <2>1, <2>2, UpTo
    <2>4. n \in 0..n
      OBVIOUS
    <2>5. QED BY <2>3, <2>4 DEF T
  <1>8. QED BY <1>6, <1>7

(* Every number is below a power of two.                                   *)
LEMMA PowerAbove ==
    ASSUME NEW n \in Nat
    PROVE  n < Pow2[n]
  <1> DEFINE T == {k \in 0..n : k < Pow2[k]}
  <1>1. 0 \in T
    BY Powers
  <1>2. \A k \in 0..(n - 1) : k \in T => k + 1 \in T
    <2>1. SUFFICES ASSUME NEW k \in 0..(n - 1), k \in T PROVE k + 1 \in T
      OBVIOUS
    <2>2. k \in Nat /\ k + 1 \in 0..n /\ k < Pow2[k] /\ Pow2[k] \in Nat /\ Pow2[k + 1] = 2 * Pow2[k]
      BY <2>1, Powers
    <2>3. QED BY <2>2
  <1> HIDE DEF T
  <1>3. 0..n \subseteq T
    BY <1>1, <1>2, UpTo
  <1>4. n \in 0..n
    OBVIOUS
  <1>5. QED BY <1>3, <1>4 DEF T

(* The bits below n tell apart what n bits can write.                      *)
LEMMA BitsTell ==
    ASSUME NEW n \in Nat, NEW a \in Nat, NEW b \in Nat, a < Pow2[n], b < Pow2[n],
           \A p \in 0..(n - 1) : HasBit(a, p) <=> HasBit(b, p)
    PROVE  a = b
  <1> DEFINE T == {p \in 0..n : a \div Pow2[p] = b \div Pow2[p]}
  <1>1. \A p \in Nat : Pow2[p] \in Nat \ {0} /\ Pow2[p + 1] = 2 * Pow2[p]
    BY Powers
  <1>2. n \in T
    <2>1. \A x \in Nat, d \in Nat \ {0} : x < d => x \div d = 0
      <3>1. SUFFICES ASSUME NEW x \in Nat, NEW d \in Nat \ {0}, x < d PROVE x \div d = 0
        OBVIOUS
      <3>2. x \in 0..(d - 1) /\ d * 0 + x = x
        BY <3>1
      <3>3. (d * 0 + x) \div d = 0
        BY <3>2, DivUnique
      <3>4. QED BY <3>2, <3>3
    <2>2. a \div Pow2[n] = 0 /\ b \div Pow2[n] = 0
      BY <1>1, <2>1
    <2>3. QED BY <2>2
  <1>3. \A p \in 0..(n - 1) : p + 1 \in T => p \in T
    <2>1. SUFFICES ASSUME NEW p \in 0..(n - 1), p + 1 \in T PROVE p \in T
      OBVIOUS
    <2> DEFINE d == Pow2[p]
    <2>2. p \in Nat /\ p \in 0..n /\ d \in Nat \ {0} /\ Pow2[p + 1] = 2 * d
      BY <1>1
    <2> HIDE DEF d
    <2>3. a \div (2 * d) = b \div (2 * d)
      BY <2>1, <2>2
    <2>4. (a \div d) \div 2 = (b \div d) \div 2
      BY <2>2, <2>3, HalfQuotient
    <2>5. (a \div d) % 2 = 1 <=> (b \div d) % 2 = 1
      BY <2>1 DEF HasBit, d
    <2>6. \A x \in Nat : x \div 2 \in Nat /\ x % 2 \in 0..1 /\ x = 2 * (x \div 2) + (x % 2)
      <3>1. 2 \in Nat \ {0}
        OBVIOUS
      <3>2. SUFFICES ASSUME NEW x \in Nat PROVE x \div 2 \in Nat /\ x % 2 \in 0..1 /\ x = 2 * (x \div 2) + (x % 2)
        OBVIOUS
      <3>3. x \div 2 \in Nat /\ x % 2 \in 0..(2 - 1) /\ x = 2 * (x \div 2) + (x % 2)
        BY <3>1, DivMod
      <3>4. 0..(2 - 1) = 0..1
        OBVIOUS
      <3>5. QED BY <3>3, <3>4, Zenon
    <2>7. a \div d \in Nat /\ b \div d \in Nat
      BY <2>2, DivMod
    <2>8. a \div d = b \div d
      <3> DEFINE x == a \div d
                 y == b \div d
      <3>1. x \in Nat /\ y \in Nat /\ x \div 2 = y \div 2 /\ (x % 2 = 1 <=> y % 2 = 1)
        BY <2>4, <2>5, <2>7
      <3> HIDE DEF x, y
      <3>2. x % 2 \in 0..1 /\ y % 2 \in 0..1 /\ x = 2 * (x \div 2) + (x % 2) /\ y = 2 * (y \div 2) + (y % 2)
        BY <2>6, <3>1
      <3>3. x % 2 = y % 2
        BY <3>1, <3>2
      <3>4. x = y
        BY <3>1, <3>2, <3>3
      <3>5. QED BY <3>4 DEF x, y
    <2>9. QED BY <2>2, <2>8 DEF d
  <1> HIDE DEF T
  <1>4. 0..n \subseteq T
    BY <1>2, <1>3, DownFrom
  <1>5. 0 \in 0..n
    OBVIOUS
  <1>6. a \div 1 = b \div 1
    BY <1>4, <1>5, Powers DEF T
  <1>7. QED BY <1>6

(* As many bits as the largest key needs.                                  *)
LEMMA BitsEnough ==
    ASSUME NEW keyspace \in Nat
    PROVE  BitsFor(keyspace) \in 0..keyspace /\ keyspace <= Pow2[BitsFor(keyspace)]
  <1> DEFINE T == {b \in Nat : Pow2[b] >= keyspace}
  <1>1. \A p \in Nat : Pow2[p] \in Nat
    BY Powers
  <1>2. keyspace \in T
    BY <1>1, PowerAbove
  <1>3. PICK b \in T : \A c \in T : b <= c
    <2>1. T \in SUBSET Nat /\ T # {}
      BY <1>2
    <2> HIDE DEF T
    <2>2. QED BY <2>1, LeastNumber
  <1>4. b \in 0..keyspace
    BY <1>2, <1>3
  <1>5. Pow2[b] >= keyspace
    BY <1>3
  <1>6. \A c \in 0..(b - 1) : Pow2[c] < keyspace
    <2>1. SUFFICES ASSUME NEW c \in 0..(b - 1), ~ (Pow2[c] < keyspace) PROVE FALSE
      OBVIOUS
    <2>2. c \in Nat /\ c < b
      BY <1>4
    <2>3. c \in T
      BY <1>1, <2>1, <2>2
    <2>4. QED BY <1>3, <1>4, <2>2, <2>3
  <1>7. \E x \in 0..keyspace : Pow2[x] >= keyspace /\ \A c \in 0..(x - 1) : Pow2[c] < keyspace
    BY <1>4, <1>5, <1>6
  <1>8. BitsFor(keyspace) \in 0..keyspace /\ Pow2[BitsFor(keyspace)] >= keyspace
    BY <1>7, Zenon DEF BitsFor
  <1>9. QED BY <1>1, <1>8

----------------------------------------------------------------------------
(* Bit slices.                                                             *)

(* Every row below rows has one record, and its key is below keyspace.     *)
OnePerRow(s, keyspace, rows) ==
    /\ keyspace \in Nat /\ rows \in Nat
    /\ \A i \in 1..Len(s) : s[i][1] \in 0..(keyspace - 1) /\ s[i][2] \in 0..(rows - 1)
    /\ \A row \in 0..(rows - 1) : \E i \in 1..Len(s) : s[i][2] = row
    /\ \A i, j \in 1..Len(s) : s[i][2] = s[j][2] => s[i][1] = s[j][1]

SliceFile(file, s, keyspace, rows) ==
    /\ file.kind = "bitslice" /\ file.rows = rows /\ file.counts = KeyCounts(s, keyspace)
    /\ file.planes = Planes(s, keyspace, rows)

(* A row is in one word of its kind.                                       *)
LEMMA RowInWord ==
    ASSUME NEW rows \in Nat, NEW word \in 0..(CeilDiv(rows, Word) - 1), NEW bit \in 0..(Word - 1)
    PROVE  /\ word * Word + bit \in Nat /\ (word * Word + bit) \div Word = word
           /\ (word * Word + bit) % Word = bit
  <1>1. Word \in Nat \ {0}
    BY WidthsAssumption
  <1>2. CeilDiv(rows, Word) \in Nat
    BY <1>1, CeilDivBounds
  <1>3. word \in Nat
    BY <1>2
  <1>4. word * Word \in Nat /\ word * Word = Word * word
    BY <1>1, <1>3
  <1>5. (Word * word + bit) \div Word = word /\ (Word * word + bit) % Word = bit
    BY <1>1, <1>3, DivUnique
  <1>6. QED BY <1>1, <1>4, <1>5

\* A row's word and bit in a bit-slice plane.
LEMMA WordOfRow ==
    ASSUME NEW rows \in Nat, NEW row \in 0..(rows - 1)
    PROVE  /\ row \div Word \in 0..(CeilDiv(rows, Word) - 1) /\ row % Word \in 0..(Word - 1)
           /\ (row \div Word) * Word + (row % Word) = row
  <1>1. Word \in Nat \ {0} /\ row \in Nat /\ row < rows
    BY WidthsAssumption
  <1> DEFINE n == CeilDiv(rows, Word)
             q == row \div Word
             r == row % Word
  <1>2. n \in Nat /\ rows <= n * Word
    BY <1>1, CeilDivBounds
  <1>3. q \in Nat /\ r \in 0..(Word - 1) /\ row = Word * q + r
    BY <1>1, DivMod
  <1> HIDE DEF n, q, r
  <1>4. q < n
    <2>1. SUFFICES ASSUME n <= q PROVE FALSE
      BY <1>2, <1>3
    <2>2. n * Word <= q * Word
      BY <1>1, <1>2, <1>3, <2>1
    <2>3. q * Word = Word * q /\ q * Word \in Nat /\ n * Word \in Nat
      BY <1>1, <1>2, <1>3
    <2>4. QED BY <1>1, <1>2, <1>3, <2>2, <2>3
  <1>5. q * Word = Word * q /\ q * Word \in Nat
    BY <1>1, <1>3
  <1>6. QED BY <1>2, <1>3, <1>4, <1>5 DEF n, q, r

(* The last word is cut at the last row.                                   *)
LEMMA MaskOfWord ==
    ASSUME NEW file, file.rows \in Nat, NEW word \in 0..(CeilDiv(file.rows, Word) - 1), NEW bit
    PROVE  bit \in LastMask(file, word) <=> bit \in 0..(Word - 1) /\ word * Word + bit < file.rows
  <1> DEFINE rows == file.rows
             n == CeilDiv(rows, Word)
             start == word * Word
  <1>1. Word \in Nat \ {0} /\ rows \in Nat
    BY WidthsAssumption
  <1>2. n \in Nat /\ (rows > 0 => n > 0 /\ (n - 1) * Word < rows) /\ (rows = 0 => n = 0)
    BY <1>1, CeilDivBounds
  <1>3. word \in 0..(n - 1)
    OBVIOUS
  <1>4. (word + 1) * Word = start + Word /\ start \in Nat
    <2>1. word \in Nat
      BY <1>2, <1>3
    <2>2. QED BY <1>1, <2>1
  <1>5. start < rows
    <2> HIDE DEF n
    <2>1. word <= n - 1 /\ word \in Nat /\ n - 1 \in Nat
      BY <1>2, <1>3
    <2>2. word * Word <= (n - 1) * Word
      BY <1>1, <2>1
    <2>3. (n - 1) * Word \in Nat
      BY <1>1, <2>1
    <2>4. rows > 0
      BY <1>1, <1>2, <1>3
    <2>5. QED BY <1>1, <1>2, <1>4, <2>2, <2>3, <2>4
  <1>6. LastMask(file, word) = IF start + Word <= rows THEN 0..(Word - 1) ELSE 0..((rows % Word) - 1)
    BY <1>4 DEF LastMask
  <1>7. ASSUME ~ (start + Word <= rows) PROVE rows % Word = rows - start
    <2>1. rows - start \in 0..(Word - 1)
      BY <1>1, <1>4, <1>5, <1>7
    <2>2. word \in Nat /\ start = Word * word
      BY <1>1, <1>2, <1>3
    <2>3. (Word * word + (rows - start)) % Word = rows - start
      BY <1>1, <2>1, <2>2, DivUnique
    <2>4. Word * word + (rows - start) = rows
      <3> HIDE DEF start, rows
      <3>1. QED BY <1>1, <1>4, <2>2
    <2>5. QED BY <2>3, <2>4
  <1> HIDE DEF start, rows
  <1>8. CASE start + Word <= rows
    BY <1>1, <1>4, <1>6, <1>8 DEF start, rows
  <1>9. CASE ~ (start + Word <= rows)
    <2>1. LastMask(file, word) = 0..((rows - start) - 1)
      BY <1>6, <1>7, <1>9
    <2>2. bit \in 0..((rows - start) - 1) <=> bit \in 0..(Word - 1) /\ start + bit < rows
      BY <1>1, <1>4, <1>5, <1>9
    <2>3. QED BY <2>1, <2>2 DEF start, rows
  <1>10. QED BY <1>8, <1>9

(* The bits of a word that spell a key are its rows with the key.          *)
LEMMA SliceBits ==
    ASSUME NEW s \in Seq(Records), NEW keyspace, NEW rows, OnePerRow(s, keyspace, rows),
           NEW file, SliceFile(file, s, keyspace, rows), NEW key \in 0..(keyspace - 1),
           NEW word \in 0..(CeilDiv(rows, Word) - 1), NEW bit
    PROVE  bit \in EqualityWord(file, key, word)
              <=> bit \in 0..(Word - 1) /\ word * Word + bit \in KeyRows(ToSet(s), key)
  <1> DEFINE n == BitsFor(keyspace)
             row == word * Word + bit
             A == KeyRows(ToSet(s), key)
             InPlane(p) == {r % Word : r \in {s[i][2] : i \in {j \in DOMAIN s :
                                /\ HasBit(s[j][1], p) /\ s[j][2] \div Word = word}}}
  <1>1. /\ keyspace \in Nat /\ rows \in Nat /\ file.rows = rows
        /\ \A i \in 1..Len(s) : s[i][1] \in 0..(keyspace - 1) /\ s[i][2] \in 0..(rows - 1)
        /\ \A r \in 0..(rows - 1) : \E i \in 1..Len(s) : s[i][2] = r
        /\ \A i, j \in 1..Len(s) : s[i][2] = s[j][2] => s[i][1] = s[j][1]
    BY DEF OnePerRow, SliceFile
  <1>2. Len(s) \in Nat /\ DOMAIN s = 1..Len(s) /\ \A i \in 1..Len(s) : s[i] \in Records
    OBVIOUS
  <1>3. A = {s[i][2] : i \in {j \in 1..Len(s) : s[j][1] = key}}
    BY <1>2 DEF KeyRows, ToSet
  <1>4. bit \in LastMask(file, word) <=> bit \in 0..(Word - 1) /\ row < rows
    BY <1>1, MaskOfWord
  <1>5. /\ DOMAIN file.planes = 0..(n - 1)
        /\ \A p \in 0..(n - 1) : file.planes[p][word] = InPlane(p)
    BY DEF SliceFile, Planes
  <1>6. bit \in EqualityWord(file, key, word)
          <=> bit \in LastMask(file, word) /\ \A p \in 0..(n - 1) : bit \in InPlane(p) <=> HasBit(key, p)
    BY <1>5 DEF EqualityWord
  <1>7. n \in Nat /\ keyspace <= Pow2[n] /\ Pow2[n] \in Nat
    <2>1. n \in 0..keyspace /\ keyspace <= Pow2[n]
      BY <1>1, BitsEnough
    <2> HIDE DEF n
    <2>2. n \in Nat
      BY <1>1, <2>1
    <2>3. QED BY <2>1, <2>2, Powers
  <1> HIDE DEF n
  <1>8. ASSUME bit \in 0..(Word - 1), row < rows
        PROVE  (\A p \in 0..(n - 1) : bit \in InPlane(p) <=> HasBit(key, p)) <=> row \in A
    <2>1. row \in Nat /\ row \div Word = word /\ row % Word = bit
      BY <1>1, <1>8, RowInWord
    <2>2. row \in 0..(rows - 1)
      BY <1>1, <1>8, <2>1
    <2>3. PICK i \in 1..Len(s) : s[i][2] = row
      BY <1>1, <2>2
    <2>4. \A j \in 1..Len(s) : s[j][2] \div Word = word /\ s[j][2] % Word = bit => s[j][2] = row
      <3>1. SUFFICES ASSUME NEW j \in 1..Len(s), s[j][2] \div Word = word, s[j][2] % Word = bit
                     PROVE  s[j][2] = row
        OBVIOUS
      <3>2. s[j][2] \in 0..(rows - 1)
        BY <1>1
      <3>3. (s[j][2] \div Word) * Word + (s[j][2] % Word) = s[j][2]
        BY <1>1, <3>2, WordOfRow
      <3>4. QED BY <3>1, <3>3
    <2> HIDE DEF row
    <2>5. ASSUME NEW p \in 0..(n - 1) PROVE bit \in InPlane(p) <=> HasBit(s[i][1], p)
      <3>1. ASSUME bit \in InPlane(p) PROVE HasBit(s[i][1], p)
        <4>1. PICK j \in 1..Len(s) : HasBit(s[j][1], p) /\ s[j][2] \div Word = word /\ s[j][2] % Word = bit
          BY <1>2, <3>1
        <4>2. s[j][2] = s[i][2]
          BY <2>3, <2>4, <4>1
        <4>3. s[j][1] = s[i][1]
          BY <1>1, <4>2
        <4>4. QED BY <4>1, <4>3
      <3>2. ASSUME HasBit(s[i][1], p) PROVE bit \in InPlane(p)
        <4>1. i \in {j \in DOMAIN s : HasBit(s[j][1], p) /\ s[j][2] \div Word = word}
          BY <1>2, <2>1, <2>3, <3>2
        <4>2. s[i][2] % Word = bit
          BY <2>1, <2>3
        <4>3. QED BY <4>1, <4>2
      <3>3. QED BY <3>1, <3>2
    <2> HIDE DEF InPlane
    <2>6. (\A p \in 0..(n - 1) : HasBit(s[i][1], p) <=> HasBit(key, p)) <=> s[i][1] = key
      <3>1. s[i][1] \in Nat /\ key \in Nat /\ s[i][1] < Pow2[n] /\ key < Pow2[n]
        <4>1. s[i][1] \in 0..(keyspace - 1)
          BY <1>1, <2>3
        <4>2. QED BY SMTT(30), <1>1, <1>7, <4>1
      <3>2. ASSUME \A p \in 0..(n - 1) : HasBit(s[i][1], p) <=> HasBit(key, p) PROVE s[i][1] = key
        BY <1>7, <3>1, <3>2, BitsTell
      <3>3. QED BY <3>2
    <2>7. s[i][1] = key <=> row \in A
      <3>1. ASSUME row \in A PROVE s[i][1] = key
        <4>1. PICK j \in 1..Len(s) : s[j][1] = key /\ s[j][2] = row
          BY <1>3, <3>1
        <4>2. s[j][2] = s[i][2]
          BY <2>3, <4>1
        <4>3. s[j][1] = s[i][1]
          BY <1>1, <4>2
        <4>4. QED BY <4>1, <4>3
      <3>2. QED BY <1>3, <2>3, <3>1
    <2>8. QED BY <2>5, <2>6, <2>7
  <1>9. ASSUME row \in A PROVE row < rows
    <2>1. PICK j \in 1..Len(s) : s[j][2] = row
      BY <1>3, <1>9
    <2>2. s[j][2] \in 0..(rows - 1)
      BY <1>1
    <2>3. QED BY <1>1, <2>1, <2>2
  <1> HIDE DEF InPlane, row, A
  <1>10. bit \in EqualityWord(file, key, word) <=> bit \in 0..(Word - 1) /\ row \in A
    BY <1>4, <1>6, <1>8, <1>9
  <1>11. QED BY <1>10 DEF row, A

(* The masks of some words hold the rows of a set, which are all in them.  *)
Masks(mask, B) ==
    /\ \A word \in DOMAIN mask : \A bit :
          bit \in mask[word] <=> bit \in 0..(Word - 1) /\ word * Word + bit \in B
    /\ \A row \in B : row \div Word \in DOMAIN mask

\* A mask of words lists its rows in ascending order.
LEMMA MaskMembers ==
    ASSUME NEW rows \in Nat, NEW B \in SUBSET (0..(rows - 1)), NEW mask, Masks(mask, B)
    PROVE  MaskedRows(mask) = Ascending(B)
  <1> DEFINE all == UNION {{word * Word + bit : bit \in mask[word]} : word \in DOMAIN mask}
  <1>1. all \subseteq B
    BY DEF Masks
  <1>2. ASSUME NEW row \in B PROVE row \in all
    <2>1. row \in 0..(rows - 1) /\ row \div Word \in DOMAIN mask
      BY DEF Masks
    <2>2. row % Word \in 0..(Word - 1) /\ (row \div Word) * Word + (row % Word) = row
      BY <2>1, WordOfRow
    <2> DEFINE q == row \div Word
               r == row % Word
    <2>3. q \in DOMAIN mask /\ r \in 0..(Word - 1) /\ q * Word + r = row
      BY <2>1, <2>2
    <2> HIDE DEF q, r
    <2>4. r \in mask[q]
      BY <2>3 DEF Masks
    <2>5. QED BY <2>3, <2>4
  <1>3. all = B
    BY <1>1, <1>2
  <1>4. QED BY <1>3 DEF MaskedRows

(* What every bit-slice file says of a key: its rows.                      *)
LEMMA SliceRows ==
    ASSUME NEW s \in Seq(Records), InSequence(s), NEW keyspace, NEW rows, OnePerRow(s, keyspace, rows),
           NEW key \in Nat
    PROVE  LET A == KeyRows(ToSet(s), key)
           IN /\ IdSet(A) /\ A \subseteq 0..(rows - 1) /\ (key \notin 0..(keyspace - 1) => A = {})
              /\ Cardinality({i \in DOMAIN s : s[i][1] = key}) = Cardinality(A)
  <1> DEFINE A == KeyRows(ToSet(s), key)
             b == [start |-> KeyLowerBound(s, key), end |-> KeyUpperBound(s, key)]
             body == Second(s)
  <1>1. \A i \in 1..Len(s) : s[i][1] \in 0..(keyspace - 1) /\ s[i][2] \in 0..(rows - 1)
    BY DEF OnePerRow
  <1>2. Len(s) \in Nat /\ DOMAIN s = 1..Len(s)
    OBVIOUS
  <1>3. A = {s[i][2] : i \in {j \in 1..Len(s) : s[j][1] = key}}
    BY <1>2 DEF KeyRows, ToSet
  <1>4. Brackets(s, key, b)
    BY PointsBracket
  <1> HIDE DEF b
  <1>5. RunAt(body, b.start, b.end) /\ {body[i] : i \in (b.start + 1)..b.end} = A
    BY <1>4, BracketRun
  <1>6. b.start \in Nat /\ b.end \in Nat /\ b.start <= b.end /\ b.end <= Len(s)
    BY <1>2, <1>4 DEF Brackets
  <1> HIDE DEF body
  <1>7. IdSet(A) /\ Cardinality(A) = b.end - b.start
    <2> HIDE DEF A
    <2>1. b.start \in b.start..b.end
      BY <1>6
    <2>2. PICK a, e : a = b.start /\ e = b.end
      OBVIOUS
    <2>3. RunAt(body, a, e) /\ A = {body[i] : i \in (a + 1)..e} /\ a \in a..e
      BY <1>5, <2>1, <2>2
    <2>4. IdSet(A) /\ Cardinality(A) = e - a
      BY <2>3, RunAscending
    <2>5. QED BY <2>2, <2>4
  <1>8. {i \in DOMAIN s : s[i][1] = key} = (b.start + 1)..b.end
    <2>1. \A i \in (b.start + 1)..b.end : i \in 1..Len(s) /\ b.start < i /\ i <= b.end
      BY <1>2, <1>6
    <2>2. \A i \in 1..Len(s) : b.start < i /\ i <= b.end => i \in (b.start + 1)..b.end
      BY <1>6
    <2>3. \A i \in 1..Len(s) : s[i][1] = key <=> b.start < i /\ i <= b.end
      BY <1>4 DEF Brackets
    <2>4. QED BY <1>2, <2>1, <2>2, <2>3
  <1>9. Cardinality((b.start + 1)..b.end) = b.end - b.start
    <2> DEFINE x == b.start
               y == b.end
    <2>1. x \in Nat /\ y \in Nat /\ x <= y
      BY <1>6
    <2> HIDE DEF x, y
    <2>2. x + 1 \in Int /\ y \in Int
      BY <2>1
    <2>3. Cardinality((x + 1)..y) = IF x + 1 > y THEN 0 ELSE y - (x + 1) + 1
      BY <2>2, FS_Interval
    <2>4. Cardinality((x + 1)..y) = y - x
      BY <2>1, <2>3
    <2>5. QED BY <2>4 DEF x, y
  <1>10. A \subseteq 0..(rows - 1) /\ (key \notin 0..(keyspace - 1) => A = {})
    BY <1>1, <1>3
  <1>11. QED BY <1>7, <1>8, <1>9, <1>10

(* Rows from a row on: the masks of its word and of those after it.        *)
LEMMA SliceFrom ==
    ASSUME NEW rows \in Nat, NEW A \in SUBSET (0..(rows - 1)), IdSet(A),
           NEW file, file.rows = rows, NEW key, key \in DOMAIN file.counts,
           \A word \in 0..(CeilDiv(rows, Word) - 1) : \A bit :
              bit \in EqualityWord(file, key, word) <=> bit \in 0..(Word - 1) /\ word * Word + bit \in A,
           NEW first \in Nat, NEW limit \in Nat
    PROVE  SliceRowsFrom(file, key, first, limit) = Take(Ascending({r \in A : r >= first}), limit)
  <1> DEFINE n == CeilDiv(rows, Word)
             w == first \div Word
             f == first % Word
             B == {r \in A : r >= first}
             W == w..(n - 1)
             mask == [word \in W |->
                    EqualityWord(file, key, word) \ (IF word = w THEN 0..(f - 1) ELSE {})]
  <1>1. SliceRowsFrom(file, key, first, limit) =
            IF first >= rows THEN <<>> ELSE Take(MaskedRows(mask), limit)
    BY DEF SliceRowsFrom, SliceWords
  <1>2. Word \in Nat \ {0} /\ n \in Nat
    BY WidthsAssumption, CeilDivBounds
  <1>3. w \in Nat /\ f \in 0..(Word - 1) /\ first = Word * w + f
    BY <1>2, DivMod
  <1>4. A \subseteq Int
    BY DEF IdSet
  <1>5. CASE first >= rows
    <2>1. B = {}
      <3>1. SUFFICES ASSUME NEW r \in A, r >= first PROVE FALSE
        OBVIOUS
      <3>2. r \in 0..(rows - 1)
        OBVIOUS
      <3>3. QED BY <1>5, <3>1, <3>2
    <2>2. Take(<<>>, limit) = <<>>
      BY DEF Take
    <2>3. QED BY <1>1, <1>5, <2>1, <2>2, AscendingEmpty
  <1>6. CASE ~ (first >= rows)
    <2> HIDE DEF n, w, f
    <2>1. W \in SUBSET (0..(n - 1)) /\ DOMAIN mask = W /\ B \in SUBSET A
      BY <1>2, <1>3
    <2>2. ASSUME NEW word \in W, NEW bit
          PROVE  bit \in mask[word] <=> bit \in 0..(Word - 1) /\ word * Word + bit \in B
      <3>1. bit \in EqualityWord(file, key, word) <=> bit \in 0..(Word - 1) /\ word * Word + bit \in A
        <4>1. word \in 0..(CeilDiv(rows, Word) - 1)
          BY <2>1 DEF n
        <4>2. QED BY <4>1
      <3>2. bit \in mask[word] <=> bit \in EqualityWord(file, key, word) /\ ~ (word = w /\ bit \in 0..(f - 1))
        OBVIOUS
      <3> HIDE DEF mask
      <3>3. ASSUME bit \in 0..(Word - 1)
            PROVE  ~ (word = w /\ bit \in 0..(f - 1)) <=> word * Word + bit >= first
        <4>1. word \in Nat /\ w <= word /\ bit \in Nat /\ bit < Word
          BY <1>2, <1>3, <2>1, <3>3
        <4> DEFINE x == word * Word
                   y == Word * w
        <4>2. x \in Nat /\ y \in Nat /\ first = y + f /\ f \in Nat /\ f < Word
          BY <1>2, <1>3, <4>1
        <4>3. word = w => x = y
          BY <1>2, <1>3
        <4>4. w < word => x >= y + Word
          <5>1. SUFFICES ASSUME w < word PROVE x >= y + Word
            OBVIOUS
          <5>2. (w + 1) * Word <= word * Word
            <6>1. w + 1 \in Nat /\ w + 1 <= word
              BY <1>3, <4>1, <5>1
            <6> DEFINE k == w + 1
            <6>2. k \in Nat /\ k <= word
              BY <6>1
            <6> HIDE DEF k
            <6>3. k * Word <= word * Word
              BY <1>2, <4>1, <6>2
            <6>4. QED BY <6>3 DEF k
          <5>3. (w + 1) * Word = y + Word
            BY <1>2, <1>3
          <5>4. QED BY <5>2, <5>3
        <4> HIDE DEF x, y
        <4>5. (~ (word = w /\ bit \in 0..(f - 1))) <=> x + bit >= first
          BY <1>2, <1>3, <4>1, <4>2, <4>3, <4>4
        <4>6. QED BY <4>5 DEF x
      <3>4. QED BY <3>1, <3>2, <3>3
    <2>3. ASSUME NEW row \in B PROVE row \div Word \in W
      <3>1. row \in 0..(rows - 1) /\ row >= first /\ row \in Nat
        OBVIOUS
      <3>2. row \div Word \in 0..(n - 1)
        BY <3>1, WordOfRow DEF n
      <3> DEFINE q == row \div Word
                 r == row % Word
      <3>3. q \in Nat /\ r \in 0..(Word - 1) /\ row = Word * q + r
        BY <1>2, <3>1, DivMod
      <3> HIDE DEF q, r
      <3>4. w <= q
        <4>1. SUFFICES ASSUME q + 1 <= w PROVE FALSE
          BY <1>3, <3>3
        <4>2. (q + 1) * Word <= w * Word
          <5> DEFINE k == q + 1
          <5>1. k \in Nat /\ k <= w
            BY <3>3, <4>1
          <5> HIDE DEF k
          <5>2. k * Word <= w * Word
            BY <1>2, <1>3, <5>1
          <5>3. QED BY <5>2 DEF k
        <4>3. (q + 1) * Word = Word * q + Word /\ w * Word = Word * w /\ Word * q \in Nat /\ Word * w \in Nat
          BY <1>2, <1>3, <3>3
        <4>4. QED BY <1>2, <1>3, <3>1, <3>3, <4>2, <4>3
      <3>5. QED BY <1>2, <1>3, <3>2, <3>3, <3>4 DEF q
    <2>4. MaskedRows(mask) = Ascending(B)
      <3>1. B \in SUBSET (0..(rows - 1))
        BY <2>1
      <3>2. Masks(mask, B)
        <4> HIDE DEF W, mask, B
        <4>1. QED BY <2>1, <2>2, <2>3 DEF Masks
      <3> HIDE DEF mask, B
      <3>3. QED BY <3>1, <3>2, MaskMembers
    <2>5. QED BY <1>1, <1>6, <2>4
  <1>7. QED BY <1>5, <1>6

(* The words of a key of a bit-slice file.                                 *)
WordsSpell(file, key, rows, A) ==
    \A word \in 0..(CeilDiv(rows, Word) - 1) : \A bit :
        bit \in EqualityWord(file, key, word) <=> bit \in 0..(Word - 1) /\ word * Word + bit \in A

\* The words of a key over the planes spell the key's rows.
LEMMA SliceWordsSpell ==
    ASSUME NEW s \in Seq(Records), NEW keyspace, NEW rows, OnePerRow(s, keyspace, rows),
           NEW file, SliceFile(file, s, keyspace, rows), NEW key \in 0..(keyspace - 1)
    PROVE  WordsSpell(file, key, rows, KeyRows(ToSet(s), key))
  BY SliceBits DEF WordsSpell

(* A row of a seed is tested in its word.                                  *)
LEMMA SliceTested ==
    ASSUME NEW rows \in Nat, NEW A \in SUBSET (0..(rows - 1)), IdSet(A),
           NEW file, file.rows = rows, NEW key, key \in DOMAIN file.counts, WordsSpell(file, key, rows, A),
           NEW seed \in SUBSET Nat, IsFiniteSet(seed)
    PROVE  SliceIntersect(file, key, Ascending(seed)) = Ascending(seed \cap A)
  <1> DEFINE list == Ascending(seed)
             found == {i \in DOMAIN list : list[i] < rows
                                           /\ list[i] % Word \in EqualityWord(file, key, list[i] \div Word)}
  <1>1. IdSet(seed)
    BY DEF IdSet
  <1>2. list \in Seq(seed) /\ list \in Seq(Int)
    BY <1>1, AscendingFacts
  <1>3. SliceIntersect(file, key, list) = EntriesAt(list, found)
    <2> HIDE DEF list
    <2>1. QED BY Zenon DEF SliceIntersect, Select
  <1>4. found = {i \in DOMAIN list : list[i] \in A}
    <2>1. ASSUME NEW i \in DOMAIN list
          PROVE  (list[i] < rows /\ list[i] % Word \in EqualityWord(file, key, list[i] \div Word)) <=> list[i] \in A
      <3> DEFINE r == list[i]
      <3>1. r \in Nat
        <4> HIDE DEF list
        <4>1. QED BY <1>2
      <3> HIDE DEF r
      <3>2. r \in A => r \in 0..(rows - 1)
        OBVIOUS
      <3>3. ASSUME r < rows PROVE r % Word \in EqualityWord(file, key, r \div Word) <=> r \in A
        <4>1. r \in 0..(rows - 1)
          BY <3>1, <3>3
        <4>2. /\ r \div Word \in 0..(CeilDiv(rows, Word) - 1) /\ r % Word \in 0..(Word - 1)
              /\ (r \div Word) * Word + (r % Word) = r
          BY <4>1, WordOfRow
        <4> DEFINE q == r \div Word
                   t == r % Word
        <4> HIDE DEF q, t
        <4>3. q \in 0..(CeilDiv(rows, Word) - 1) /\ t \in 0..(Word - 1) /\ q * Word + t = r
          BY <4>2 DEF q, t
        <4>4. t \in EqualityWord(file, key, q) <=> t \in 0..(Word - 1) /\ q * Word + t \in A
          BY <4>3, Zenon DEF WordsSpell
        <4>5. QED BY <4>3, <4>4 DEF q, t
      <3>4. r \in A => r < rows
        BY <3>1, <3>2
      <3>5. (r < rows /\ r % Word \in EqualityWord(file, key, r \div Word)) <=> r \in A
        BY <3>3, <3>4
      <3>6. QED BY <3>5 DEF r
    <2> HIDE DEF list
    <2>2. QED BY <2>1
  <1> HIDE DEF found
  <1>5. EntriesAt(list, found) = Ascending(seed \cap A)
    BY <1>1, <1>4, AscendingWithin
  <1>6. QED BY <1>3, <1>5

(* A bit-slice file answers every key exactly.                             *)
THEOREM SlicesAnswer ==
    ASSUME NEW s \in Seq(Records), InSequence(s), NEW keyspace, NEW rows, OnePerRow(s, keyspace, rows),
           NEW file, SliceFile(file, s, keyspace, rows), NEW key \in Nat
    PROVE  AnswersKey(file, key, KeyRows(ToSet(s), key))
  <1> DEFINE A == KeyRows(ToSet(s), key)
  <1>1. /\ IdSet(A) /\ A \subseteq 0..(rows - 1) /\ (key \notin 0..(keyspace - 1) => A = {})
        /\ Cardinality({i \in DOMAIN s : s[i][1] = key}) = Cardinality(A)
    BY SliceRows
  <1>2. /\ rows \in Nat /\ file.kind = "bitslice" /\ file.rows = rows
        /\ DOMAIN file.counts = 0..(keyspace - 1)
        /\ key \in 0..(keyspace - 1) => file.counts[key] = Cardinality({i \in DOMAIN s : s[i][1] = key})
    BY DEF OnePerRow, SliceFile, KeyCounts
  <1>3. /\ RowCount(file, key) = IF key \in DOMAIN file.counts THEN file.counts[key] ELSE 0
        /\ \A first, limit : RowsFrom(file, key, first, limit) = SliceRowsFrom(file, key, first, limit)
        /\ \A seed : IntersectRows(file, key, seed) = SliceIntersect(file, key, seed)
    BY <1>2 DEF RowCount, RowsFrom, IntersectRows, ListKinds
  <1>4. key \in 0..(keyspace - 1) => WordsSpell(file, key, rows, A)
    BY SliceWordsSpell
  <1> HIDE DEF A
  <1>5. CASE key \in 0..(keyspace - 1)
    <2>1. RowCount(file, key) = Cardinality(A)
      BY <1>1, <1>2, <1>3, <1>5
    <2>2. ASSUME NEW first \in Nat, NEW limit \in Nat
          PROVE  SliceRowsFrom(file, key, first, limit) = Take(Ascending({r \in A : r >= first}), limit)
      <3>1. key \in DOMAIN file.counts
        BY <1>2, <1>5
      <3>2. \A word \in 0..(CeilDiv(rows, Word) - 1) : \A bit :
              bit \in EqualityWord(file, key, word) <=> bit \in 0..(Word - 1) /\ word * Word + bit \in A
        BY <1>4, <1>5 DEF WordsSpell
      <3>3. rows \in Nat /\ IdSet(A) /\ A \in SUBSET (0..(rows - 1)) /\ file.rows = rows
        BY <1>1, <1>2
      <3>4. first \in Nat /\ limit \in Nat
        OBVIOUS
      <3>5. QED BY <3>1, <3>2, <3>3, <3>4, SliceFrom
    <2>3. ASSUME NEW seed \in SUBSET Nat, IsFiniteSet(seed)
          PROVE  SliceIntersect(file, key, Ascending(seed)) = Ascending(seed \cap A)
      <3>1. key \in DOMAIN file.counts
        BY <1>2, <1>5
      <3>2. rows \in Nat /\ IdSet(A) /\ A \in SUBSET (0..(rows - 1)) /\ file.rows = rows /\ WordsSpell(file, key, rows, A)
        BY <1>1, <1>2, <1>4, <1>5
      <3>3. QED BY <2>3, <3>1, <3>2, SliceTested
    <2>4. \A first, limit \in Nat : RowsFrom(file, key, first, limit) = Take(Ascending({r \in A : r >= first}), limit)
      BY <1>3, <2>2
    <2>5. \A seed \in SUBSET Nat : IsFiniteSet(seed) =>
             IntersectRows(file, key, Ascending(seed)) = Ascending(seed \cap A)
      BY <1>3, <2>3
    <2>6. QED BY <1>1, <2>1, <2>4, <2>5 DEF AnswersKey, A
  <1>6. CASE key \notin 0..(keyspace - 1)
    <2>1. A = {} /\ key \notin DOMAIN file.counts
      BY <1>1, <1>2, <1>6
    <2>2. RowCount(file, key) = Cardinality(A)
      BY <1>3, <2>1, AscendingEmpty
    <2>3. \A first, limit : SliceRowsFrom(file, key, first, limit) = <<>>
      BY <2>1 DEF SliceRowsFrom
    <2>4. \A seed : SliceIntersect(file, key, seed) = <<>>
      BY <2>1 DEF SliceIntersect
    <2>5. \A limit \in Nat : Take(<<>>, limit) = <<>>
      BY DEF Take
    <2>6. (\A first : {r \in A : r >= first} = {}) /\ \A seed : seed \cap A = {}
      BY <2>1
    <2>7. \A first, limit \in Nat : RowsFrom(file, key, first, limit) = Take(Ascending({r \in A : r >= first}), limit)
      BY <1>3, <2>3, <2>5, <2>6, AscendingEmpty
    <2>8. \A seed \in SUBSET Nat : IsFiniteSet(seed) =>
             IntersectRows(file, key, Ascending(seed)) = Ascending(seed \cap A)
      BY <1>3, <2>4, <2>6, AscendingEmpty
    <2>9. QED BY <1>1, <2>2, <2>7, <2>8 DEF AnswersKey, A
  <1>7. QED BY <1>5, <1>6

(* Two bit-slice files of the same rows, word by word.                     *)
LEMMA SlicePairAnswers ==
    ASSUME NEW rows,
           NEW s \in Seq(Records), InSequence(s), NEW keyspace, OnePerRow(s, keyspace, rows),
           NEW file, SliceFile(file, s, keyspace, rows), NEW key \in 0..(keyspace - 1),
           NEW t \in Seq(Records), InSequence(t), NEW otherspace, OnePerRow(t, otherspace, rows),
           NEW other, SliceFile(other, t, otherspace, rows), NEW otherKey \in 0..(otherspace - 1)
    PROVE  SlicePair(file, key, other, otherKey)
             = Ascending(KeyRows(ToSet(s), key) \cap KeyRows(ToSet(t), otherKey))
  <1> DEFINE A == KeyRows(ToSet(s), key)
             B == KeyRows(ToSet(t), otherKey)
             mask == [word \in 0..(CeilDiv(rows, Word) - 1) |->
                        EqualityWord(file, key, word) \cap EqualityWord(other, otherKey, word)]
  <1>1. key \in Nat /\ otherKey \in Nat /\ rows \in Nat
    <2>1. keyspace \in Nat /\ otherspace \in Nat /\ rows \in Nat
      BY DEF OnePerRow
    <2>2. QED BY <2>1
  <1>2. A \subseteq 0..(rows - 1)
    BY <1>1, SliceRows
  <1>3. WordsSpell(file, key, rows, A) /\ WordsSpell(other, otherKey, rows, B)
    BY SliceWordsSpell
  <1>4. SlicePair(file, key, other, otherKey) = MaskedRows(mask)
    <2>1. /\ file.rows = rows /\ other.rows = rows
          /\ DOMAIN file.counts = 0..(keyspace - 1) /\ DOMAIN other.counts = 0..(otherspace - 1)
      BY DEF SliceFile, KeyCounts
    <2>2. QED BY <2>1 DEF SlicePair, SliceWords
  <1>5. DOMAIN mask = 0..(CeilDiv(rows, Word) - 1)
        /\ \A word \in 0..(CeilDiv(rows, Word) - 1) :
              mask[word] = EqualityWord(file, key, word) \cap EqualityWord(other, otherKey, word)
    OBVIOUS
  <1> HIDE DEF A, B, mask
  <1>6. Masks(mask, A \cap B)
    <2>1. \A word \in DOMAIN mask : \A bit :
              bit \in mask[word] <=> bit \in 0..(Word - 1) /\ word * Word + bit \in A \cap B
      BY <1>3, <1>5 DEF WordsSpell
    <2>2. \A row \in A \cap B : row \div Word \in DOMAIN mask
      BY <1>1, <1>2, <1>5, WordOfRow
    <2>3. QED BY <2>1, <2>2 DEF Masks
  <1>7. MaskedRows(mask) = Ascending(A \cap B)
    <2>1. A \cap B \in SUBSET (0..(rows - 1))
      BY <1>2
    <2>2. QED BY <1>1, <1>6, <2>1, MaskMembers
  <1>8. QED BY <1>4, <1>7 DEF A, B

----------------------------------------------------------------------------
(* Pages.                                                                  *)

PageFile(file, kind, s, keyspace, pages) ==
    kind \in PageKinds /\ file = BuildPageFile(kind, s, keyspace, pages)

KeysAndPages(s, keyspace, pages) ==
    \A i \in 1..Len(s) : s[i][1] \in 0..(keyspace - 1) /\ s[i][2] \in 0..(pages - 1)

(* A page file lists the pages of every key.                               *)
THEOREM PagesAnswer ==
    ASSUME NEW s \in Seq(Records), InSequence(s), NEW keyspace \in Nat, NEW pages \in Nat,
           KeysAndPages(s, keyspace, pages),
           NEW kind, NEW file, PageFile(file, kind, s, keyspace, pages), NEW key \in Nat
    PROVE  LET A == KeyRows(ToSet(s), key) IN IdSet(A) /\ PagesOf(file, key) = Ascending(A)
  <1> DEFINE A == KeyRows(ToSet(s), key)
             b == [start |-> KeyLowerBound(s, key), end |-> KeyUpperBound(s, key)]
             body == Second(s)
  <1>1. Len(s) \in Nat /\ DOMAIN s = 1..Len(s) /\ \A i \in 1..Len(s) : s[i] \in Records
    OBVIOUS
  <1>2. A = {s[i][2] : i \in {j \in 1..Len(s) : s[j][1] = key}}
    BY <1>1 DEF KeyRows, ToSet
  <1>0. \A i \in 1..Len(s) : s[i][1] \in 0..(keyspace - 1) /\ s[i][2] \in 0..(pages - 1)
    BY DEF KeysAndPages
  <1>3. Brackets(s, key, b)
    BY PointsBracket
  <1>4. /\ b.start \in Nat /\ b.end \in Nat /\ b.start <= b.end /\ b.end <= Len(s)
        /\ b.start \in 0..Len(s) /\ b.end \in b.start..Len(s)
    <2> HIDE DEF b
    <2>1. QED BY <1>1, <1>3 DEF Brackets
  <1>5. IdSet(A) /\ SubSeq(body, b.start + 1, b.end) = Ascending(A)
    <2>1. RunAt(body, b.start, b.end) /\ {body[i] : i \in (b.start + 1)..b.end} = A
      <3> HIDE DEF b
      <3>1. QED BY <1>3, BracketRun
    <2>2. b.start \in b.start..b.end
      <3> HIDE DEF b
      <3>1. QED BY <1>4
    <2> HIDE DEF A, b, body
    <2>3. QED BY <2>1, <2>2, RunAscending
  <1>6. CASE kind = "sparse"
    <2>1. file.kind = "sparse" /\ file.records = s
      BY <1>6 DEF PageFile, BuildPageFile
    <2>2. PagesOf(file, key) = Second(SubSeq(s, b.start + 1, b.end))
      BY <2>1 DEF PagesOf
    <2> HIDE DEF b
    <2>3. Second(SubSeq(s, b.start + 1, b.end)) = SubSeq(body, b.start + 1, b.end)
      <3> DEFINE part == SubSeq(s, b.start + 1, b.end)
                 rest == SubSeq(body, b.start + 1, b.end)
      <3>1. part \in Seq(Records) /\ Len(part) = b.end - b.start
            /\ \A k \in 1..(b.end - b.start) : part[k] = s[b.start + k]
        BY <1>4, PartOf
      <3>2. body \in Seq(Int) /\ Len(body) = Len(s) /\ \A k \in 1..Len(s) : body[k] = s[k][2]
        <4>1. body \in [1..Len(s) -> Int] /\ \A k \in 1..Len(s) : body[k] = s[k][2]
          BY <1>1 DEF Second, Records
        <4> HIDE DEF body
        <4>2. QED BY <1>1, <4>1, SeqFrom
      <3> HIDE DEF body
      <3>3. rest \in Seq(Int) /\ Len(rest) = b.end - b.start
            /\ \A k \in 1..(b.end - b.start) : rest[k] = body[b.start + k]
        <4>1. b.start \in 0..Len(body) /\ b.end \in b.start..Len(body)
          BY <1>4, <3>2
        <4>2. body \in Seq(Int)
          BY <3>2
        <4>3. \A k \in 1..(b.end - b.start) : SubSeq(body, b.start + 1, b.end)[k] = body[b.start + k]
          BY <4>1, <4>2, PartOf
        <4>4. SubSeq(body, b.start + 1, b.end) \in Seq(Int) /\ Len(SubSeq(body, b.start + 1, b.end)) = b.end - b.start
          <5>1. PICK x, y : x = b.start /\ y = b.end
            OBVIOUS
          <5>2. x \in 0..Len(body) /\ y \in x..Len(body)
            BY <4>1, <5>1
          <5>3. SubSeq(body, x + 1, y) \in Seq(Int) /\ Len(SubSeq(body, x + 1, y)) = y - x
            BY <4>2, <5>2, PartOf
          <5>4. QED BY <5>1, <5>3
        <4>5. QED BY <4>3, <4>4
      <3> HIDE DEF part, rest
      <3>4. DOMAIN part = 1..(b.end - b.start) /\ rest = [k \in 1..(b.end - b.start) |-> rest[k]]
        BY <3>1, <3>3
      <3>5. \A k \in 1..(b.end - b.start) : b.start + k \in 1..Len(s)
        BY <1>1, <1>4
      <3>6. \A k \in 1..(b.end - b.start) : part[k][2] = rest[k]
        BY <3>1, <3>2, <3>3, <3>5
      <3>7. Second(part) = rest
        BY <3>4, <3>6 DEF Second
      <3>8. QED BY <3>7 DEF part, rest
    <2>4. QED BY <1>5, <2>2, <2>3
  <1>7. CASE kind = "bitmap"
    <2> DEFINE n == CeilDiv(pages, Word)
               all(words) == UNION {{word * Word + bit : bit \in words[word]} : word \in DOMAIN words}
    <2>1. file.kind = "bitmap" /\ file.words = Bitmap(s, keyspace, pages)
      BY <1>7 DEF PageFile, BuildPageFile
    <2>2. DOMAIN file.words = 0..(keyspace - 1)
      BY <2>1 DEF Bitmap
    <2>3. PagesOf(file, key) = IF key \notin 0..(keyspace - 1) THEN <<>> ELSE Ascending(all(file.words[key]))
      BY <2>1, <2>2 DEF PagesOf
    <2>4. CASE key \notin 0..(keyspace - 1)
      <3>1. A = {}
        BY <1>0, <1>2, <2>4
      <3>2. QED BY <2>3, <2>4, <3>1, AscendingEmpty
    <2>5. CASE key \in 0..(keyspace - 1)
      <3> DEFINE words == file.words[key]
      <3>1. /\ DOMAIN words = 0..(n - 1)
            /\ \A word \in 0..(n - 1) : words[word] = {p \in 0..(Word - 1) : Contains(s, <<key, word * Word + p>>)}
        BY <2>1, <2>5 DEF Bitmap
      <3>2. \A p : Contains(s, <<key, p>>) <=> p \in A
        <4>1. \A p : Contains(s, <<key, p>>) <=> \E i \in 1..Len(s) : s[i] = <<key, p>>
          BY DEF Contains
        <4>2. \A i \in 1..Len(s) : s[i] = <<s[i][1], s[i][2]>>
          BY <1>1 DEF Records
        <4>3. \A i \in 1..Len(s) : \A p : s[i] = <<key, p>> <=> s[i][1] = key /\ s[i][2] = p
          BY <4>2
        <4>4. \A p : p \in A <=> \E i \in 1..Len(s) : s[i][1] = key /\ s[i][2] = p
          BY <1>2
        <4> HIDE DEF A
        <4>5. ASSUME NEW p PROVE Contains(s, <<key, p>>) <=> p \in A
          <5>1. (\E i \in 1..Len(s) : s[i] = <<key, p>>) <=> \E i \in 1..Len(s) : s[i][1] = key /\ s[i][2] = p
            BY <4>3
          <5>2. QED BY <4>1, <4>4, <5>1, Zenon
        <4>6. QED BY <4>5
      <3>3. A \in SUBSET (0..(pages - 1))
        BY <1>0, <1>2
      <3> HIDE DEF words, A, n, all
      <3>4. Masks(words, A)
        <4>1. \A word \in DOMAIN words : \A bit :
                 bit \in words[word] <=> bit \in 0..(Word - 1) /\ word * Word + bit \in A
          BY <3>1, <3>2
        <4>2. \A row \in A : row \div Word \in DOMAIN words
          BY <3>1, <3>3, WordOfRow DEF n
        <4>3. QED BY <4>1, <4>2 DEF Masks
      <3>5. MaskedRows(words) = Ascending(A)
        BY <3>3, <3>4, MaskMembers
      <3>6. MaskedRows(words) = Ascending(all(words))
        BY DEF MaskedRows, all
      <3>7. QED BY <1>5, <2>3, <2>5, <3>5, <3>6 DEF words, A
    <2>6. QED BY <2>4, <2>5
  <1>8. kind = "sparse" \/ kind = "bitmap"
    BY DEF PageFile, PageKinds
  <1>9. QED BY <1>6, <1>7, <1>8

Rows == [ColumnIds -> Nat]

(* The constants, as the proofs use them.                                  *)
LEMMA EngineConstants ==
    /\ Columns \in Nat \ {0} /\ PageRows \in Nat \ {0} /\ GroupRows \in Nat \ {0}
    /\ MaxSort \in Nat \ {0} /\ DriverBatch \in Nat \ {0}
    /\ Card \in [ColumnIds -> Nat \ {0}] /\ ColumnIds \subseteq Nat
  BY EngineAssumption DEF ColumnIds

(* What a table holds.                                                     *)
LEMMA TableRows ==
    ASSUME NEW rows \in Tables
    PROVE  /\ rows \in Seq(Rows) /\ Len(rows) \in Nat \ {0} /\ DOMAIN rows = 1..Len(rows)
           /\ \A i \in 1..Len(rows), c \in ColumnIds : rows[i][c] \in Nat /\ rows[i][c] < Card[c]
  <1>1. rows \in Seq(Rows) /\ rows # <<>>
    BY EngineAssumption DEF Rows
  <1>2. Len(rows) \in Nat \ {0} /\ DOMAIN rows = 1..Len(rows)
    BY <1>1
  <1>3. \A i \in 1..Len(rows) : rows[i] \in Rows
    BY <1>1, <1>2
  <1>4. \A i \in 1..Len(rows), c \in ColumnIds : rows[i][c] < Card[c]
    BY <1>2, EngineAssumption
  <1>5. QED BY <1>1, <1>2, <1>3, <1>4 DEF Rows

----------------------------------------------------------------------------
(* Segments.                                                               *)

SegmentRecord ==
    [rowStart : Nat, rows : Nat, firstPage : Nat,
     hot : Seq([ColumnIds \ layout.cold -> Nat]), groups : Seq(Seq([layout.cold -> Nat]))]

(* A written segment is well formed and gives back, hot or cold, the values written. *)
LEMMA SegmentWritten ==
    ASSUME NEW rows \in Seq(Rows), rowStart \in Nat, pageId \in Nat, layout \in Layouts
    PROVE  /\ WriteSegment(rows) \in SegmentRecord
           /\ WriteSegment(rows).rowStart = rowStart /\ WriteSegment(rows).rows = Len(rows)
           /\ WriteSegment(rows).firstPage = pageId
           /\ \A i \in 1..Len(rows), c \in ColumnIds :
                 Value(WriteSegment(rows), i - 1, c) = rows[i][c]
  <1> DEFINE n == Len(rows)
             seg == WriteSegment(rows)
             size(g) == Len(Take(SubSeq(rows, (g - 1) * GroupRows + 1, Len(rows)), GroupRows))
             hot == [i \in DOMAIN rows |-> [c \in ColumnIds \ layout.cold |-> rows[i][c]]]
             groups == [g \in 1..CeilDiv(Len(rows), GroupRows) |->
                           [i \in 1..size(g) |-> [c \in layout.cold |-> rows[(g - 1) * GroupRows + i][c]]]]
  <1>0. n \in Nat /\ DOMAIN rows = 1..n /\ GroupRows \in Nat \ {0} /\ CeilDiv(n, GroupRows) \in Nat
        /\ layout.cold \subseteq ColumnIds
        /\ \A i \in 1..n, c \in ColumnIds : rows[i][c] \in Nat
    <2>1. n \in Nat /\ DOMAIN rows = 1..n /\ GroupRows \in Nat \ {0} /\ layout.cold \subseteq ColumnIds
      BY EngineConstants, EngineAssumption
    <2>2. \A i \in 1..n : rows[i] \in Rows
      BY <2>1
    <2> HIDE DEF n
    <2>3. CeilDiv(n, GroupRows) \in Nat
      BY <2>1, CeilDivBounds
    <2>4. QED BY <2>1, <2>2, <2>3 DEF Rows
  <1>1. seg = [rowStart |-> rowStart, rows |-> n, firstPage |-> pageId, hot |-> hot, groups |-> groups]
    BY DEF WriteSegment
  <1>2. hot \in Seq([ColumnIds \ layout.cold -> Nat])
    <2>1. hot \in [1..n -> [ColumnIds \ layout.cold -> Nat]]
      BY <1>0
    <2> HIDE DEF hot
    <2>2. QED BY <1>0, <2>1, SeqFrom
  <1>3. \A g \in 1..CeilDiv(n, GroupRows) :
           /\ size(g) \in Nat /\ (g - 1) * GroupRows + size(g) <= n
           /\ \A k \in 1..GroupRows : (g - 1) * GroupRows + k <= n => k <= size(g)
    <2>1. SUFFICES ASSUME NEW g \in 1..CeilDiv(n, GroupRows)
                   PROVE  /\ size(g) \in Nat /\ (g - 1) * GroupRows + size(g) <= n
                          /\ \A k \in 1..GroupRows : (g - 1) * GroupRows + k <= n => k <= size(g)
      OBVIOUS
    <2> DEFINE a == (g - 1) * GroupRows
    <2>2. a \in 0..n
      <3> HIDE DEF n
      <3>1. (g - 1) * GroupRows \in Nat /\ (g - 1) * GroupRows < n
        BY <1>0, ChunkStart
      <3>2. QED BY <1>0, <3>1
    <2>3. size(g) = IF GroupRows < n - a THEN GroupRows ELSE n - a
      <3> HIDE DEF a
      <3>1. Len(Take(SubSeq(rows, a + 1, Len(rows)), GroupRows)) = IF GroupRows < n - a THEN GroupRows ELSE n - a
        BY <1>0, <2>2, TakeFrom
      <3>2. QED BY <3>1 DEF a
    <2> HIDE DEF size, a, n
    <2>4. QED BY <1>0, <2>2, <2>3 DEF a
  <1> HIDE DEF size, hot
  <1>4. groups \in Seq(Seq([layout.cold -> Nat]))
    <2>1. ASSUME NEW g \in 1..CeilDiv(n, GroupRows)
          PROVE  [i \in 1..size(g) |-> [c \in layout.cold |-> rows[(g - 1) * GroupRows + i][c]]]
                    \in Seq([layout.cold -> Nat])
      <3>1. \A i \in 1..size(g) : (g - 1) * GroupRows + i \in 1..n
        <4>1. (g - 1) * GroupRows \in Nat
          BY <1>0
        <4>2. size(g) \in Nat /\ (g - 1) * GroupRows + size(g) <= n
          BY <1>3, Zenon
        <4>3. QED BY <1>0, <4>1, <4>2
      <3>2. \A i \in 1..size(g), c \in layout.cold : rows[(g - 1) * GroupRows + i][c] \in Nat
        BY <1>0, <3>1
      <3> DEFINE group == [i \in 1..size(g) |-> [c \in layout.cold |-> rows[(g - 1) * GroupRows + i][c]]]
      <3>3. group \in [1..size(g) -> [layout.cold -> Nat]]
        BY <3>2
      <3> HIDE DEF group
      <3>4. group \in Seq([layout.cold -> Nat])
        BY <1>3, <3>3, SeqFrom
      <3>5. QED BY <3>4 DEF group
    <2>2. groups \in [1..CeilDiv(n, GroupRows) -> Seq([layout.cold -> Nat])]
      BY <2>1
    <2> HIDE DEF groups
    <2>3. QED BY <1>0, <2>2, SeqFrom
  <1> HIDE DEF groups
  <1>5. seg \in SegmentRecord
    BY <1>0, <1>1, <1>2, <1>4 DEF SegmentRecord
  <1>6. ASSUME NEW i \in 1..n, NEW c \in ColumnIds PROVE Value(seg, i - 1, c) = rows[i][c]
    <2>1. CASE c \notin layout.cold
      <3>1. Value(seg, i - 1, c) = hot[(i - 1) + 1][c]
        BY <1>1, <2>1 DEF Value
      <3>2. (i - 1) + 1 = i
        BY <1>0
      <3>3. hot[i] = [d \in ColumnIds \ layout.cold |-> rows[i][d]]
        BY <1>0 DEF hot
      <3>4. QED BY <2>1, <3>1, <3>2, <3>3
    <2>2. CASE c \in layout.cold
      <3> DEFINE q == (i - 1) \div GroupRows
                 r == (i - 1) % GroupRows
      <3>1. /\ q \in Nat /\ q + 1 \in 1..CeilDiv(n, GroupRows) /\ r \in 0..(GroupRows - 1) /\ r + 1 \in 1..GroupRows
            /\ q * GroupRows \in Nat /\ i = q * GroupRows + (r + 1) /\ (q + 1) - 1 = q
        <4> HIDE DEF n
        <4> QED BY <1>0, ChunkOf
      <3>2. Value(seg, i - 1, c) = groups[q + 1][r + 1][c]
        BY <1>1, <2>2 DEF Value
      <3> HIDE DEF q, r
      <3>4. q + 1 \in 1..CeilDiv(n, GroupRows)
        BY <3>1
      <3>5. r + 1 \in 1..size(q + 1) /\ ((q + 1) - 1) * GroupRows + (r + 1) = i
        <4>1. r + 1 \in 1..GroupRows /\ ((q + 1) - 1) * GroupRows + (r + 1) = i /\ i <= n
          BY <1>0, <3>1
        <4>2. r + 1 <= size(q + 1) /\ size(q + 1) \in Nat
          BY <1>3, <3>4, <4>1
        <4>3. QED BY <4>1, <4>2
      <3>6. groups[q + 1][r + 1] = [d \in layout.cold |-> rows[((q + 1) - 1) * GroupRows + (r + 1)][d]]
        BY <3>4, <3>5 DEF groups
      <3>7. QED BY <2>2, <3>2, <3>5, <3>6
    <2>3. QED BY <2>1, <2>2
  <1>7. QED BY <1>1, <1>5, <1>6

----------------------------------------------------------------------------
(* Keys.                                                                   *)

KeyWalk(columns, token, n) ==
    \E f : /\ f[0] = 0 /\ \A i \in 1..n : f[i] = f[i - 1] * Card[columns[i]] + token[columns[i]]
           /\ MixedRadixKey(columns, token) = f[n]

(* A key is built digit by digit.                                          *)
LEMMA KeySteps ==
    ASSUME NEW columns, Len(columns) \in Nat, NEW token
    PROVE  KeyWalk(columns, token, Len(columns))
  <1>0. Len(columns) \in Nat
    OBVIOUS
  <1> DEFINE B(x, i) == x * Card[columns[i]] + token[columns[i]]
             f == CHOOSE g : g = [i \in 0..Len(columns) |-> IF i = 0 THEN 0 ELSE B(g[i - 1], i)]
             Solves(g, m) == g = [i \in 0..m |-> IF i = 0 THEN 0 ELSE B(g[i - 1], i)]
             T == {m \in 0..Len(columns) : \E g : Solves(g, m)}
  <1>u1. MixedRadixKey(columns, token) = f[Len(columns)]
    BY Zenon DEF MixedRadixKey
  <1> HIDE DEF B
  <1>u2. 0 \in T
    <2> DEFINE g == [i \in 0..0 |-> 0]
    <2>1. 0 \in 0..Len(columns) /\ \A i \in 0..0 : i = 0
      BY <1>0
    <2>2. Solves(g, 0)
      BY <2>1
    <2> HIDE DEF g, Solves
    <2>3. QED BY <2>1, <2>2
  <1>u3. \A m \in 0..(Len(columns) - 1) : m \in T => m + 1 \in T
    <2>1. SUFFICES ASSUME NEW m \in 0..(Len(columns) - 1), m \in T PROVE m + 1 \in T
      OBVIOUS
    <2>2. PICK g : Solves(g, m)
      BY <2>1
    <2> DEFINE h == [i \in 0..(m + 1) |-> IF i = m + 1 THEN B(g[m], m + 1) ELSE g[i]]
    <2>3. m \in Nat /\ m + 1 \in 0..Len(columns) /\ m + 1 # 0 /\ (m + 1) - 1 = m
      BY <1>0
    <2>4. ASSUME NEW i \in 0..(m + 1) PROVE h[i] = IF i = 0 THEN 0 ELSE B(h[i - 1], i)
      <3>1. CASE i = m + 1
        <4>1. m \in 0..(m + 1) /\ m # m + 1
          BY <2>3
        <4>2. h[m] = g[m] /\ h[m + 1] = B(g[m], m + 1)
          BY <2>3, <4>1
        <4> HIDE DEF h
        <4>3. QED BY <2>3, <3>1, <4>2, Zenon
      <3>2. CASE i # m + 1
        <4>1. i \in 0..m /\ (i # 0 => i - 1 \in 0..(m + 1) /\ i - 1 # m + 1)
          BY <2>3, <3>2
        <4>2. h[i] = g[i] /\ (i # 0 => h[i - 1] = g[i - 1])
          BY <3>2, <4>1
        <4>3. g[i] = IF i = 0 THEN 0 ELSE B(g[i - 1], i)
          BY <2>2, <4>1, Zenon
        <4> HIDE DEF h
        <4>4. CASE i = 0
          BY <4>2, <4>3, <4>4, Zenon
        <4>5. CASE i # 0
          BY <4>2, <4>3, <4>5, Zenon
        <4>6. QED BY <4>4, <4>5, Zenon
      <3>3. QED BY <3>1, <3>2, Zenon
    <2>5. Solves(h, m + 1)
      <3>1. h = [i \in 0..(m + 1) |-> h[i]]
        OBVIOUS
      <3> HIDE DEF h
      <3>2. QED BY <2>4, <3>1, Zenon
    <2> HIDE DEF h, Solves
    <2>6. QED BY <2>3, <2>5
  <1>u4. Len(columns) \in T
    <2> HIDE DEF T
    <2>1. 0..Len(columns) \subseteq T
      BY <1>0, <1>u2, <1>u3, UpTo
    <2>2. QED BY <1>0, <2>1
  <1>u5. Solves(f, Len(columns))
    <2>1. \E g : Solves(g, Len(columns))
      BY <1>u4, Zenon
    <2>2. QED BY <2>1, Zenon
  <1> HIDE DEF f
  <1>u6. f[0] = 0
    <2>1. 0 \in 0..Len(columns)
      BY <1>0
    <2>2. QED BY <1>u5, <2>1, Zenon
  <1>u7. \A i \in 1..Len(columns) : f[i] = B(f[i - 1], i)
    <2>1. \A i \in 1..Len(columns) : i \in 0..Len(columns) /\ i # 0
      BY <1>0
    <2>2. QED BY <1>u5, <2>1, Zenon
  <1> HIDE DEF Solves, T
  <1>1. \A i \in 1..Len(columns) : f[i] = f[i - 1] * Card[columns[i]] + token[columns[i]]
    BY <1>u7 DEF B
  <1>2. QED BY <1>u1, <1>u6, <1>1 DEF KeyWalk

SpaceWalk(columns, n) ==
    \E f : /\ f[0] = 1 /\ \A i \in 1..n : f[i] = f[i - 1] * Card[columns[i]]
           /\ Keyspace(columns) = f[n]

(* And so is the number of keys.                                           *)
LEMMA SpaceSteps ==
    ASSUME NEW columns, Len(columns) \in Nat
    PROVE  SpaceWalk(columns, Len(columns))
  <1>0. Len(columns) \in Nat
    OBVIOUS
  <1> DEFINE B(x, i) == x * Card[columns[i]]
             f == CHOOSE g : g = [i \in 0..Len(columns) |-> IF i = 0 THEN 1 ELSE B(g[i - 1], i)]
             Solves(g, m) == g = [i \in 0..m |-> IF i = 0 THEN 1 ELSE B(g[i - 1], i)]
             T == {m \in 0..Len(columns) : \E g : Solves(g, m)}
  <1>u1. Keyspace(columns) = f[Len(columns)]
    BY Zenon DEF Keyspace
  <1> HIDE DEF B
  <1>u2. 0 \in T
    <2> DEFINE g == [i \in 0..0 |-> 1]
    <2>1. 0 \in 0..Len(columns) /\ \A i \in 0..0 : i = 0
      BY <1>0
    <2>2. Solves(g, 0)
      BY <2>1
    <2> HIDE DEF g, Solves
    <2>3. QED BY <2>1, <2>2
  <1>u3. \A m \in 0..(Len(columns) - 1) : m \in T => m + 1 \in T
    <2>1. SUFFICES ASSUME NEW m \in 0..(Len(columns) - 1), m \in T PROVE m + 1 \in T
      OBVIOUS
    <2>2. PICK g : Solves(g, m)
      BY <2>1
    <2> DEFINE h == [i \in 0..(m + 1) |-> IF i = m + 1 THEN B(g[m], m + 1) ELSE g[i]]
    <2>3. m \in Nat /\ m + 1 \in 0..Len(columns) /\ m + 1 # 0 /\ (m + 1) - 1 = m
      BY <1>0
    <2>4. ASSUME NEW i \in 0..(m + 1) PROVE h[i] = IF i = 0 THEN 1 ELSE B(h[i - 1], i)
      <3>1. CASE i = m + 1
        <4>1. m \in 0..(m + 1) /\ m # m + 1
          BY <2>3
        <4>2. h[m] = g[m] /\ h[m + 1] = B(g[m], m + 1)
          BY <2>3, <4>1
        <4> HIDE DEF h
        <4>3. QED BY <2>3, <3>1, <4>2, Zenon
      <3>2. CASE i # m + 1
        <4>1. i \in 0..m /\ (i # 0 => i - 1 \in 0..(m + 1) /\ i - 1 # m + 1)
          BY <2>3, <3>2
        <4>2. h[i] = g[i] /\ (i # 0 => h[i - 1] = g[i - 1])
          BY <3>2, <4>1
        <4>3. g[i] = IF i = 0 THEN 1 ELSE B(g[i - 1], i)
          BY <2>2, <4>1, Zenon
        <4> HIDE DEF h
        <4>4. CASE i = 0
          BY <4>2, <4>3, <4>4, Zenon
        <4>5. CASE i # 0
          BY <4>2, <4>3, <4>5, Zenon
        <4>6. QED BY <4>4, <4>5, Zenon
      <3>3. QED BY <3>1, <3>2, Zenon
    <2>5. Solves(h, m + 1)
      <3>1. h = [i \in 0..(m + 1) |-> h[i]]
        OBVIOUS
      <3> HIDE DEF h
      <3>2. QED BY <2>4, <3>1, Zenon
    <2> HIDE DEF h, Solves
    <2>6. QED BY <2>3, <2>5
  <1>u4. Len(columns) \in T
    <2> HIDE DEF T
    <2>1. 0..Len(columns) \subseteq T
      BY <1>0, <1>u2, <1>u3, UpTo
    <2>2. QED BY <1>0, <2>1
  <1>u5. Solves(f, Len(columns))
    <2>1. \E g : Solves(g, Len(columns))
      BY <1>u4, Zenon
    <2>2. QED BY <2>1, Zenon
  <1> HIDE DEF f
  <1>u6. f[0] = 1
    <2>1. 0 \in 0..Len(columns)
      BY <1>0
    <2>2. QED BY <1>u5, <2>1, Zenon
  <1>u7. \A i \in 1..Len(columns) : f[i] = B(f[i - 1], i)
    <2>1. \A i \in 1..Len(columns) : i \in 0..Len(columns) /\ i # 0
      BY <1>0
    <2>2. QED BY <1>u5, <2>1, Zenon
  <1> HIDE DEF Solves, T
  <1>1. \A i \in 1..Len(columns) : f[i] = f[i - 1] * Card[columns[i]]
    BY <1>u7 DEF B
  <1>2. QED BY <1>u1, <1>u6, <1>1 DEF SpaceWalk

(* Every digit of a token is below its column's cardinality.               *)
Fits(columns, token) == \A i \in 1..Len(columns) : token[columns[i]] \in 0..(Card[columns[i]] - 1)

\* The columns of an index and their cardinalities.
LEMMA ColumnCards ==
    ASSUME NEW columns \in IndexColumns
    PROVE  /\ Len(columns) \in Nat \ {0} /\ DOMAIN columns = 1..Len(columns)
           /\ \A i \in 1..Len(columns) : columns[i] \in ColumnIds /\ Card[columns[i]] \in Nat \ {0}
  <1>1. columns \in Seq(ColumnIds) /\ columns # <<>>
    BY DEF IndexColumns
  <1>2. Len(columns) \in Nat \ {0} /\ DOMAIN columns = 1..Len(columns)
    BY <1>1
  <1>3. \A i \in 1..Len(columns) : columns[i] \in ColumnIds
    BY <1>1, <1>2
  <1>4. \A c \in ColumnIds : Card[c] \in Nat \ {0}
    BY EngineConstants
  <1>5. QED BY <1>2, <1>3, <1>4

(* A key is below the number of keys.                                      *)
LEMMA KeyBound ==
    ASSUME NEW columns \in IndexColumns, NEW token, Fits(columns, token)
    PROVE  /\ MixedRadixKey(columns, token) \in Nat /\ Keyspace(columns) \in Nat \ {0}
           /\ MixedRadixKey(columns, token) < Keyspace(columns)
  <1> DEFINE n == Len(columns)
  <1>1. n \in Nat \ {0} /\ \A i \in 1..n : Card[columns[i]] \in Nat \ {0}
    BY ColumnCards
  <1>2. \A i \in 1..n : token[columns[i]] \in 0..(Card[columns[i]] - 1)
    BY DEF Fits
  <1>3. KeyWalk(columns, token, n) /\ SpaceWalk(columns, n)
    BY <1>1, KeySteps, SpaceSteps
  <1> HIDE DEF n
  <1>4. PICK f : /\ f[0] = 0 /\ \A i \in 1..n : f[i] = f[i - 1] * Card[columns[i]] + token[columns[i]]
                 /\ MixedRadixKey(columns, token) = f[n]
    BY <1>3 DEF KeyWalk
  <1>5. PICK g : /\ g[0] = 1 /\ \A i \in 1..n : g[i] = g[i - 1] * Card[columns[i]]
                 /\ Keyspace(columns) = g[n]
    BY <1>3 DEF SpaceWalk
  <1> DEFINE T == {m \in 0..n : f[m] \in Nat /\ g[m] \in Nat \ {0} /\ f[m] < g[m]}
  <1>6. 0 \in T
    BY <1>1, <1>4, <1>5
  <1>7. \A m \in 0..(n - 1) : m \in T => m + 1 \in T
    <2>1. SUFFICES ASSUME NEW m \in 0..(n - 1), m \in T PROVE m + 1 \in T
      OBVIOUS
    <2>2. m + 1 \in 1..n /\ m + 1 \in 0..n /\ (m + 1) - 1 = m
      BY <1>1
    <2>3. PICK c \in Nat \ {0} : c = Card[columns[m + 1]]
      BY <1>1, <2>2
    <2>4. PICK t \in 0..(c - 1) : t = token[columns[m + 1]]
      BY <1>2, <2>2, <2>3
    <2>5. f[m + 1] = f[m] * c + t /\ g[m + 1] = g[m] * c
      BY <1>4, <1>5, <2>2, <2>3, <2>4
    <2>6. f[m] \in Nat /\ g[m] \in Nat /\ f[m] < g[m]
      BY <2>1
    <2>7. f[m] * c + t \in Nat /\ g[m] * c \in Nat \ {0} /\ f[m] * c + t < g[m] * c
      BY <2>3, <2>4, <2>6, DigitBelow
    <2>8. QED BY <2>2, <2>5, <2>7
  <1>8. n \in T
    <2> HIDE DEF T
    <2>1. 0..n \subseteq T
      BY <1>1, <1>6, <1>7, UpTo
    <2>2. QED BY <1>1, <2>1
  <1>9. QED BY <1>4, <1>5, <1>8

(* The key depends on the digits of the index's columns only.              *)
LEMMA KeyDepends ==
    ASSUME NEW columns \in IndexColumns, NEW token, NEW other,
           \A i \in 1..Len(columns) : token[columns[i]] = other[columns[i]]
    PROVE  MixedRadixKey(columns, token) = MixedRadixKey(columns, other)
  <1> DEFINE n == Len(columns)
  <1>1. n \in Nat
    BY ColumnCards
  <1>2. \A i \in 1..n : token[columns[i]] = other[columns[i]]
    OBVIOUS
  <1>3. KeyWalk(columns, token, n) /\ KeyWalk(columns, other, n)
    BY <1>1, KeySteps
  <1> HIDE DEF n
  <1>4. PICK f : /\ f[0] = 0 /\ \A i \in 1..n : f[i] = f[i - 1] * Card[columns[i]] + token[columns[i]]
                 /\ MixedRadixKey(columns, token) = f[n]
    BY <1>3 DEF KeyWalk
  <1>5. PICK g : /\ g[0] = 0 /\ \A i \in 1..n : g[i] = g[i - 1] * Card[columns[i]] + other[columns[i]]
                 /\ MixedRadixKey(columns, other) = g[n]
    BY <1>3 DEF KeyWalk
  <1> DEFINE T == {m \in 0..n : f[m] = g[m]}
  <1>6. 0 \in T
    BY <1>1, <1>4, <1>5
  <1>7. \A m \in 0..(n - 1) : m \in T => m + 1 \in T
    <2>1. SUFFICES ASSUME NEW m \in 0..(n - 1), f[m] = g[m] PROVE m + 1 \in T
      OBVIOUS
    <2>2. m + 1 \in 1..n /\ m + 1 \in 0..n /\ (m + 1) - 1 = m
      BY <1>1
    <2>3. f[m + 1] = g[m + 1]
      BY <1>2, <1>4, <1>5, <2>1, <2>2
    <2>4. QED BY <2>2, <2>3
  <1>8. n \in T
    <2> HIDE DEF T
    <2>1. 0..n \subseteq T
      BY <1>1, <1>6, <1>7, UpTo
    <2>2. QED BY <1>1, <2>1
  <1>9. QED BY <1>4, <1>5, <1>8

(* Two tokens with the same key agree on every column of the index.        *)
LEMMA KeyAgrees ==
    ASSUME NEW columns \in IndexColumns, NEW token, Fits(columns, token), NEW other, Fits(columns, other),
           MixedRadixKey(columns, token) = MixedRadixKey(columns, other)
    PROVE  \A i \in 1..Len(columns) : token[columns[i]] = other[columns[i]]
  <1> DEFINE n == Len(columns)
  <1>1. n \in Nat \ {0} /\ \A i \in 1..n : Card[columns[i]] \in Nat \ {0}
    BY ColumnCards
  <1>2. \A i \in 1..n : token[columns[i]] \in 0..(Card[columns[i]] - 1) /\ other[columns[i]] \in 0..(Card[columns[i]] - 1)
    BY DEF Fits
  <1>3. KeyWalk(columns, token, n) /\ KeyWalk(columns, other, n)
    BY <1>1, KeySteps
  <1> HIDE DEF n
  <1>4. PICK f : /\ f[0] = 0 /\ \A i \in 1..n : f[i] = f[i - 1] * Card[columns[i]] + token[columns[i]]
                 /\ MixedRadixKey(columns, token) = f[n]
    BY <1>3 DEF KeyWalk
  <1>5. PICK g : /\ g[0] = 0 /\ \A i \in 1..n : g[i] = g[i - 1] * Card[columns[i]] + other[columns[i]]
                 /\ MixedRadixKey(columns, other) = g[n]
    BY <1>3 DEF KeyWalk
  <1>6. \A m \in 0..n : f[m] \in Nat /\ g[m] \in Nat
    <2> DEFINE T == {m \in 0..n : f[m] \in Nat /\ g[m] \in Nat}
    <2>1. 0 \in T
      BY <1>1, <1>4, <1>5
    <2>2. \A m \in 0..(n - 1) : m \in T => m + 1 \in T
      <3>1. SUFFICES ASSUME NEW m \in 0..(n - 1), f[m] \in Nat, g[m] \in Nat PROVE m + 1 \in T
        OBVIOUS
      <3>2. m + 1 \in 1..n /\ m + 1 \in 0..n /\ (m + 1) - 1 = m
        BY <1>1
      <3>3. PICK c \in Nat \ {0} : c = Card[columns[m + 1]]
        BY <1>1, <3>2
      <3>4. f[m + 1] = f[m] * c + token[columns[m + 1]] /\ token[columns[m + 1]] \in Nat
            /\ g[m + 1] = g[m] * c + other[columns[m + 1]] /\ other[columns[m + 1]] \in Nat
        BY <1>2, <1>4, <1>5, <3>2, <3>3
      <3>5. f[m] * c \in Nat /\ g[m] * c \in Nat
        BY <3>1
      <3>6. QED BY <3>2, <3>4, <3>5
    <2> HIDE DEF T
    <2>3. 0..n \subseteq T
      BY <1>1, <2>1, <2>2, UpTo
    <2>4. QED BY <2>3 DEF T
  <1>7. \A m \in 0..(n - 1) : f[m + 1] = g[m + 1] =>
            f[m] = g[m] /\ token[columns[m + 1]] = other[columns[m + 1]]
    <2>1. SUFFICES ASSUME NEW m \in 0..(n - 1), f[m + 1] = g[m + 1]
                   PROVE  f[m] = g[m] /\ token[columns[m + 1]] = other[columns[m + 1]]
      OBVIOUS
    <2>2. m + 1 \in 1..n /\ m \in 0..n /\ (m + 1) - 1 = m
      BY <1>1
    <2>3. PICK c \in Nat \ {0} : c = Card[columns[m + 1]]
      BY <1>1, <2>2
    <2>4. PICK t \in 0..(c - 1) : t = token[columns[m + 1]]
      BY <1>2, <2>2, <2>3
    <2>5. PICK u \in 0..(c - 1) : u = other[columns[m + 1]]
      BY <1>2, <2>2, <2>3
    <2>6. PICK a \in Nat : a = f[m]
      BY <1>6, <2>2
    <2>7. PICK b \in Nat : b = g[m]
      BY <1>6, <2>2
    <2>8. f[m + 1] = c * a + t /\ g[m + 1] = c * b + u
      BY <1>4, <1>5, <2>2, <2>3, <2>4, <2>5, <2>6, <2>7
    <2>9. c * a + t = c * b + u
      BY <2>1, <2>8
    <2>10. (c * a + t) \div c = a /\ (c * a + t) % c = t /\ (c * b + u) \div c = b /\ (c * b + u) % c = u
      BY DivUnique
    <2>11. a = b /\ t = u
      BY <2>9, <2>10, Zenon
    <2>12. QED BY <2>4, <2>5, <2>6, <2>7, <2>11
  <1> DEFINE T == {m \in 0..n : f[m] = g[m]}
  <1>8. n \in T
    <2>1. f[n] = g[n]
      BY <1>4, <1>5
    <2>2. n \in 0..n
      BY <1>1
    <2>3. QED BY <2>1, <2>2
  <1>9. \A m \in 0..(n - 1) : m + 1 \in T => m \in T
    BY <1>1, <1>7
  <1>10. 0..n \subseteq T
    <2> HIDE DEF T
    <2> QED BY <1>1, <1>8, <1>9, DownFrom
  <1>11. \A i \in 1..n : token[columns[i]] = other[columns[i]]
    <2>1. SUFFICES ASSUME NEW i \in 1..n PROVE token[columns[i]] = other[columns[i]]
      OBVIOUS
    <2>2. i - 1 \in 0..(n - 1) /\ (i - 1) + 1 = i /\ i \in 0..n
      BY <1>1
    <2>3. f[i] = g[i]
      BY <1>10, <2>2
    <2>4. QED BY <1>7, <2>2, <2>3
  <1>12. QED BY <1>11 DEF n

----------------------------------------------------------------------------
----------------------------------------------------------------------------
(* The rows that are written, and those that wait.                         *)

SegmentEnd(s) == IF s = 0 THEN 0 ELSE segments[s].rowStart + segments[s].rows

(* A segment continues the one before and holds the table's rows.          *)
SegmentOK(s) ==
    /\ segments[s].rows > 0
    /\ segments[s].rowStart = SegmentEnd(s - 1)
    /\ segments[s].firstPage * PageRows = segments[s].rowStart
    /\ \A i \in 1..segments[s].rows, c \in ColumnIds :
          Value(segments[s], i - 1, c) = table[segments[s].rowStart + i][c]

SegmentsOK ==
    /\ segments \in Seq(SegmentRecord)
    /\ \A s \in 1..Len(segments) : SegmentOK(s)
    /\ rowStart = SegmentEnd(Len(segments))

(* The inductive invariant of a build.  While rows are left to be written, the pages that are
   written are full.                                                       *)

BuildOK ==
    /\ table \in Tables /\ layout \in Layouts /\ phase \in {"stream", "index", "serve"}
    /\ read \in 0..Len(table) /\ rowStart \in 0..read /\ read - rowStart < PageRows
    /\ carry = SubSeq(table, rowStart + 1, read)
    /\ SegmentsOK
    /\ pageId = CeilDiv(rowStart, PageRows)
    /\ rowStart < Len(table) => pageId * PageRows = rowStart
    /\ phase # "stream" => rowStart = Len(table)

\* Emitting a segment of the next rows keeps the segments in step with the table.
LEMMA EmitKeepsSegments ==
    ASSUME SegmentsOK, table \in Tables, layout \in Layouts, rowStart \in Nat, pageId \in Nat,
           pageId * PageRows = rowStart, NEW n \in 1..(Len(table) - rowStart),
           EmitSegment(SubSeq(table, rowStart + 1, rowStart + n)), UNCHANGED <<table, layout>>
    PROVE  SegmentsOK' /\ rowStart' = rowStart + n /\ pageId' = pageId + CeilDiv(n, PageRows)
  <1> DEFINE rows == SubSeq(table, rowStart + 1, rowStart + n)
             seg == WriteSegment(rows)
  <1>1. table \in Seq(Rows) /\ Len(table) \in Nat
    BY TableRows
  <1>2. rows \in Seq(Rows) /\ Len(rows) = n /\ \A i \in 1..n : rows[i] = table[rowStart + i]
    <2> DEFINE b == rowStart + n
    <2>1. rowStart \in 0..Len(table) /\ b \in rowStart..Len(table) /\ b - rowStart = n
      BY <1>1
    <2> HIDE DEF b
    <2>2. SubSeq(table, rowStart + 1, b) \in Seq(Rows) /\ Len(SubSeq(table, rowStart + 1, b)) = n
          /\ \A i \in 1..n : SubSeq(table, rowStart + 1, b)[i] = table[rowStart + i]
      BY <1>1, <2>1, PartOf
    <2>3. QED BY <2>2 DEF b
  <1> HIDE DEF rows
  <1>3. /\ seg \in SegmentRecord /\ seg.rowStart = rowStart /\ seg.rows = n /\ seg.firstPage = pageId
        /\ \A i \in 1..n, c \in ColumnIds : Value(seg, i - 1, c) = rows[i][c]
    BY <1>2, SegmentWritten
  <1>4. segments' = Append(segments, seg) /\ rowStart' = rowStart + n
        /\ pageId' = pageId + CeilDiv(n, PageRows) /\ table' = table /\ layout' = layout
    BY <1>2 DEF EmitSegment, rows
  <1> HIDE DEF seg
  <1>5. PICK k \in Nat : k = Len(segments)
    BY DEF SegmentsOK
  <1>50. segments \in Seq(SegmentRecord)
    BY DEF SegmentsOK
  <1>6. /\ segments' \in Seq(SegmentRecord) /\ Len(segments') = k + 1
        /\ segments'[k + 1] = seg /\ \A s \in 1..k : segments'[s] = segments[s]
    BY <1>3, <1>4, <1>5, <1>50
  <1>7. SegmentRecord' = SegmentRecord
    BY <1>4 DEF SegmentRecord
  <1>8. \A s \in 0..k : SegmentEnd(s)' = SegmentEnd(s)
    BY <1>5, <1>6 DEF SegmentEnd
  <1>9. SegmentEnd(k + 1)' = rowStart + n
    BY <1>3, <1>5, <1>6 DEF SegmentEnd
  <1>10. ASSUME NEW s \in 1..k PROVE SegmentOK(s)'
    <2>1. SegmentOK(s) /\ s - 1 \in 0..k
      BY <1>5 DEF SegmentsOK
    <2>2. segments'[s] = segments[s]
      BY <1>6
    <2>3. \A i, c : Value(segments[s], i, c)' = Value(segments[s], i, c)
      BY <1>4, <2>2 DEF Value
    <2>4. SegmentEnd(s - 1)' = SegmentEnd(s - 1)
      BY <1>8, <2>1
    <2>5. QED BY SMTT(30), <1>4, <2>1, <2>2, <2>3, <2>4 DEF SegmentOK
  <1>11. SegmentOK(k + 1)'
    <2>1. SegmentEnd((k + 1) - 1)' = rowStart
      <3>1. (k + 1) - 1 = k /\ k \in 0..k
        BY <1>5
      <3>2. SegmentEnd(k) = rowStart
        BY <1>5 DEF SegmentsOK
      <3>3. QED BY <1>8, <3>1, <3>2
    <2>2. \A i, c : Value(segments[k + 1], i, c)' = Value(seg, i, c)
      BY <1>4, <1>6 DEF Value
    <2>3. seg.rows > 0 /\ seg.firstPage * PageRows = seg.rowStart
      BY <1>3
    <2>4. \A i \in 1..seg.rows, c \in ColumnIds :
             Value(segments[k + 1], i - 1, c)' = table[seg.rowStart + i][c]
      BY <1>2, <1>3, <2>2
    <2>5. segments'[k + 1] = seg /\ table' = table /\ seg.rowStart = rowStart
      BY <1>3, <1>4, <1>6
    <2> HIDE DEF Value, ColumnIds
    <2>6. SegmentOK(k + 1)' = (/\ segments'[k + 1].rows > 0
                               /\ segments'[k + 1].rowStart = SegmentEnd((k + 1) - 1)'
                               /\ segments'[k + 1].firstPage * PageRows = segments'[k + 1].rowStart
                               /\ \A i \in 1..segments'[k + 1].rows, c \in ColumnIds :
                                     Value(segments[k + 1], i - 1, c)' = table'[segments'[k + 1].rowStart + i][c])
      BY DEF SegmentOK
    <2>7. QED BY <2>1, <2>3, <2>4, <2>5, <2>6
  <1>12. \A s \in 1..(k + 1) : SegmentOK(s)'
    <2>1. \A s \in 1..(k + 1) : s \in 1..k \/ s = k + 1
      BY <1>5
    <2>2. QED BY <1>10, <1>11, <2>1
  <1>13. SegmentsOK'
    BY <1>4, <1>6, <1>7, <1>9, <1>12 DEF SegmentsOK
  <1>14. QED BY <1>4, <1>13

BuildFacts ==
    /\ table \in Seq(Rows) /\ Len(table) \in Nat \ {0} /\ read \in Nat /\ read <= Len(table)
    /\ rowStart \in Nat /\ rowStart <= read /\ rowStart <= Len(table) /\ pageId \in Nat
    /\ PageRows \in Nat \ {0}
    /\ carry \in Seq(Rows) /\ Len(carry) = read - rowStart

\* What the build's invariant says of the rows written and of those still carried.
LEMMA BuildKnown == BuildOK => BuildFacts
  <1>1. SUFFICES ASSUME BuildOK PROVE BuildFacts
    OBVIOUS
  <1>2. table \in Seq(Rows) /\ Len(table) \in Nat \ {0}
    BY <1>1, TableRows DEF BuildOK
  <1>3. read \in Nat /\ rowStart \in Nat /\ rowStart <= read /\ read <= Len(table)
    BY <1>1, <1>2 DEF BuildOK
  <1>4. PageRows \in Nat \ {0} /\ pageId \in Nat
    <2>1. PageRows \in Nat \ {0}
      BY EngineConstants
    <2>2. QED BY <1>1, <1>3, <2>1, CeilDivBounds DEF BuildOK
  <1>5. carry \in Seq(Rows) /\ Len(carry) = read - rowStart
    <2>1. rowStart \in 0..Len(table) /\ read \in rowStart..Len(table)
      BY <1>2, <1>3
    <2>2. QED BY <1>1, <1>2, <2>1, PartOf DEF BuildOK
  <1>6. QED BY <1>2, <1>3, <1>4, <1>5 DEF BuildFacts

----------------------------------------------------------------------------

\* The build's invariant holds at the start.
LEMMA InitBuild == Init => BuildOK
  <1>1. SUFFICES ASSUME Init PROVE BuildOK
    OBVIOUS
  <1>2. table \in Seq(Rows) /\ Len(table) \in Nat \ {0} /\ PageRows \in Nat \ {0}
    BY <1>1, TableRows, EngineConstants DEF Init
  <1>3. SegmentsOK
    BY <1>1 DEF SegmentsOK, SegmentEnd, Init
  <1>4. CeilDiv(0, PageRows) = 0
    BY <1>2, CeilDivBounds
  <1>5. SubSeq(table, 0 + 1, 0) = <<>>
    BY <1>2
  <1>6. QED BY <1>1, <1>2, <1>3, <1>4, <1>5 DEF Init, BuildOK

\* Pushing a batch keeps the build's invariant.
LEMMA PushKeepsBuild == BuildOK /\ PushBatch => BuildOK'
  <1>1. SUFFICES ASSUME BuildOK, PushBatch PROVE BuildOK'
    OBVIOUS
  <1>2. BuildFacts
    BY <1>1, BuildKnown
  <1> DEFINE full(rows) == WholePages(rows)
             Push(n, rows) ==
                /\ phase = "stream" /\ read' = read + n
                /\ carry' = SubSeq(rows, full(rows) + 1, Len(rows))
                /\ IF full(rows) > 0 THEN EmitSegment(SubSeq(rows, 1, full(rows)))
                   ELSE UNCHANGED <<segments, rowStart, pageId, spools>>
                /\ UNCHANGED <<table, layout, phase, pageHier, rowHier, query>>
  <1>3. PICK n \in 1..(Len(table) - read) : Push(n, carry \o SubSeq(table, read + 1, read + n))
    BY <1>1, Zenon DEF PushBatch
  <1>4. PICK b \in Nat : b = read + n /\ b <= Len(table) /\ read < b
    BY <1>2 DEF BuildFacts
  <1>5. PICK a \in Nat : a = rowStart /\ a <= read
    BY <1>2 DEF BuildFacts
  <1> DEFINE rows == SubSeq(table, a + 1, b)
  <1>6. carry \o SubSeq(table, read + 1, b) = rows
    <2>1. a \in 0..Len(table) /\ read \in a..Len(table) /\ b \in read..Len(table)
      BY <1>2, <1>4, <1>5 DEF BuildFacts
    <2>2. SubSeq(table, a + 1, read) \o SubSeq(table, read + 1, b) = rows
      BY <1>2, <2>1, PartsJoin DEF BuildFacts
    <2>3. QED BY <1>1, <1>5, <2>2 DEF BuildOK
  <1>7. rows \in Seq(Rows) /\ Len(rows) = b - a
    <2>1. a \in 0..Len(table) /\ b \in a..Len(table)
      BY <1>2, <1>4, <1>5 DEF BuildFacts
    <2>2. QED BY <1>2, <2>1, PartOf DEF BuildFacts
  <1>8. PICK w \in 0..(b - a) : w = WholePages(rows) /\ (b - a) - w < PageRows /\ CeilDiv(w, PageRows) * PageRows = w
    <2>1. b - a \in Nat
      BY <1>2, <1>4, <1>5 DEF BuildFacts
    <2>2. PageRows \in Nat \ {0}
      BY <1>2 DEF BuildFacts
    <2> DEFINE k == b - a
    <2> HIDE DEF k
    <2>3. (k \div PageRows) * PageRows \in 0..k /\ k - (k \div PageRows) * PageRows < PageRows
          /\ CeilDiv((k \div PageRows) * PageRows, PageRows) * PageRows = (k \div PageRows) * PageRows
      BY <2>1, <2>2, PagesWhole DEF k
    <2>4. WholePages(rows) = (k \div PageRows) * PageRows
      BY <1>7 DEF WholePages, k
    <2>5. QED BY <2>3, <2>4 DEF k
  <1>9. Push(n, rows)
    BY <1>3, <1>4, <1>6, Zenon
  <1> HIDE DEF rows
  <1>10. /\ phase = "stream" /\ read' = b /\ carry' = SubSeq(rows, w + 1, b - a)
         /\ IF w > 0 THEN EmitSegment(SubSeq(rows, 1, w)) ELSE UNCHANGED <<segments, rowStart, pageId, spools>>
         /\ table' = table /\ layout' = layout /\ phase' = phase
    BY <1>4, <1>7, <1>8, <1>9
  <1>11. carry' = SubSeq(table, a + w + 1, b)
    <2>1. a \in 0..Len(table) /\ b \in a..Len(table) /\ b - a \in w..(b - a) /\ a + (b - a) = b
      BY <1>2, <1>4, <1>5, <1>8 DEF BuildFacts
    <2>2. SubSeq(SubSeq(table, a + 1, b), w + 1, b - a) = SubSeq(table, a + w + 1, a + (b - a))
      <3> DEFINE k == b - a
      <3>1. w \in 0..(b - a) /\ k \in w..(b - a)
        BY <1>8, <2>1
      <3> HIDE DEF k
      <3>2. SubSeq(SubSeq(table, a + 1, b), w + 1, k) = SubSeq(table, a + w + 1, a + k)
        BY <1>2, <2>1, <3>1, PartOfPart DEF BuildFacts
      <3>3. QED BY <3>2 DEF k
    <2>3. QED BY <1>10, <2>1, <2>2 DEF rows
  <1>12. pageId * PageRows = rowStart /\ pageId = CeilDiv(a, PageRows) /\ rowStart < Len(table)
    BY <1>1, <1>2, <1>4, <1>5 DEF BuildOK, BuildFacts
  <1>13. /\ rowStart' = a + w /\ SegmentsOK' /\ pageId' * PageRows = rowStart'
         /\ pageId' = CeilDiv(rowStart', PageRows)
    <2>1. CASE w = 0
      <3>1. segments' = segments /\ rowStart' = rowStart /\ pageId' = pageId
        BY <1>10, <2>1
      <3>2. SegmentsOK'
        <4>1. SegmentsOK
          BY <1>1 DEF BuildOK
        <4>2. \A s \in 1..Len(segments) : SegmentOK(s)'
          BY <1>10, <3>1, <4>1 DEF SegmentsOK, SegmentOK, SegmentEnd, Value
        <4>3. SegmentRecord' = SegmentRecord /\ SegmentEnd(Len(segments))' = SegmentEnd(Len(segments))
          BY <1>10, <3>1 DEF SegmentRecord, SegmentEnd
        <4>4. QED BY <3>1, <4>1, <4>2, <4>3 DEF SegmentsOK
      <3>3. QED BY <1>5, <1>12, <2>1, <3>1, <3>2
    <2>2. CASE w # 0
      <3>1. w > 0 /\ w \in 1..(Len(table) - rowStart)
        BY <1>2, <1>4, <1>5, <1>8, <2>2 DEF BuildFacts
      <3>2. SubSeq(rows, 1, w) = SubSeq(table, rowStart + 1, rowStart + w)
        <4>1. a \in 0..Len(table) /\ b \in a..Len(table) /\ 0 \in 0..(b - a) /\ w \in 0..(b - a)
          BY <1>2, <1>4, <1>5, <1>8 DEF BuildFacts
        <4>2. SubSeq(SubSeq(table, a + 1, b), 0 + 1, w) = SubSeq(table, a + 0 + 1, a + w)
          BY <1>2, <4>1, PartOfPart DEF BuildFacts
        <4>3. 0 + 1 = 1 /\ a + 0 + 1 = a + 1
          OBVIOUS
        <4>4. QED BY <1>5, <4>2, <4>3 DEF rows
      <3>3. EmitSegment(SubSeq(table, rowStart + 1, rowStart + w))
        BY <1>10, <3>1, <3>2
      <3>4. SegmentsOK' /\ rowStart' = rowStart + w /\ pageId' = pageId + CeilDiv(w, PageRows)
        <4>1. SegmentsOK /\ table \in Tables /\ layout \in Layouts /\ rowStart \in Nat /\ pageId \in Nat
          BY <1>1, <1>2 DEF BuildOK, BuildFacts
        <4>2. UNCHANGED <<table, layout>>
          BY <1>10
        <4>3. QED BY <1>12, <3>1, <3>3, <4>1, <4>2, EmitKeepsSegments
      <3>5. pageId' = CeilDiv(rowStart', PageRows)
        <4>1. CeilDiv(pageId * PageRows + w, PageRows) = pageId + CeilDiv(w, PageRows)
          BY <1>2, <1>8, PagesAdd DEF BuildFacts
        <4>2. QED BY <1>12, <3>4, <4>1
      <3>6. pageId' * PageRows = rowStart'
        <4>1. CeilDiv(w, PageRows) \in Nat
          BY <1>2, <1>8, CeilDivBounds DEF BuildFacts
        <4> DEFINE c == CeilDiv(w, PageRows)
        <4> HIDE DEF c
        <4>2. (pageId + c) * PageRows = pageId * PageRows + c * PageRows
          BY <1>2, <4>1 DEF BuildFacts, c
        <4>3. QED BY <1>8, <1>12, <3>4, <4>2 DEF c
      <3>7. QED BY <1>5, <3>4, <3>5, <3>6
    <2>3. QED BY <2>1, <2>2
  <1>14. read' \in 0..Len(table)' /\ rowStart' \in 0..read' /\ read' - rowStart' < PageRows
    BY SMTT(30), <1>2, <1>4, <1>5, <1>8, <1>10, <1>13 DEF BuildFacts
  <1>15. carry' = SubSeq(table', rowStart' + 1, read')
    BY <1>10, <1>11, <1>13
  <1>16. QED BY <1>1, <1>10, <1>13, <1>14, <1>15 DEF BuildOK

\* Flushing the carry keeps the build's invariant.
LEMMA FlushKeepsBuild == BuildOK /\ FlushCarry => BuildOK'
  <1>1. SUFFICES ASSUME BuildOK, FlushCarry PROVE BuildOK'
    OBVIOUS
  <1>2. BuildFacts
    BY <1>1, BuildKnown
  <1>3. PICK w \in Nat : w = read - rowStart
    BY <1>2 DEF BuildFacts
  <1>4. /\ phase = "stream" /\ read = Len(table) /\ carry # <<>> /\ EmitSegment(carry) /\ carry' = <<>>
        /\ table' = table /\ layout' = layout /\ phase' = phase /\ read' = read
    BY <1>1 DEF FlushCarry
  <1>5. w \in 1..(Len(table) - rowStart) /\ rowStart + w = read /\ rowStart < Len(table)
    <2>1. Len(carry) # 0
      BY <1>2, <1>4 DEF BuildFacts
    <2>2. QED BY <1>2, <1>3, <1>4, <2>1 DEF BuildFacts
  <1>6. EmitSegment(SubSeq(table, rowStart + 1, rowStart + w))
    BY <1>1, <1>4, <1>5 DEF BuildOK
  <1>7. pageId * PageRows = rowStart /\ pageId = CeilDiv(rowStart, PageRows)
    BY <1>1, <1>5 DEF BuildOK
  <1>8. SegmentsOK' /\ rowStart' = rowStart + w /\ pageId' = pageId + CeilDiv(w, PageRows)
    <2>1. SegmentsOK /\ table \in Tables /\ layout \in Layouts /\ rowStart \in Nat /\ pageId \in Nat
      BY <1>1, <1>2 DEF BuildOK, BuildFacts
    <2>2. UNCHANGED <<table, layout>>
      BY <1>4
    <2>3. QED BY <1>5, <1>6, <1>7, <2>1, <2>2, EmitKeepsSegments
  <1>9. pageId' = CeilDiv(rowStart', PageRows)
    <2>1. CeilDiv(pageId * PageRows + w, PageRows) = pageId + CeilDiv(w, PageRows)
      BY <1>2, PagesAdd DEF BuildFacts
    <2>2. QED BY <1>7, <1>8, <2>1
  <1>10. rowStart' = read' /\ read' = Len(table)' /\ Len(table)' \in Nat
    BY <1>2, <1>4, <1>5, <1>8 DEF BuildFacts
  <1>11. carry' = SubSeq(table', rowStart' + 1, read')
    <2>1. SubSeq(table, read + 1, read) = <<>>
      BY <1>2 DEF BuildFacts
    <2>2. QED BY <1>4, <1>10, <2>1
  <1>12. PageRows \in Nat \ {0}
    BY <1>2 DEF BuildFacts
  <1>13. read' \in 0..Len(table)' /\ rowStart' \in 0..read' /\ read' - rowStart' < PageRows
    BY <1>10, <1>12
  <1>14. ~ (rowStart' < Len(table)')
    BY <1>10
  <1>15. QED BY <1>1, <1>4, <1>8, <1>9, <1>11, <1>13, <1>14 DEF BuildOK

(* The steps that leave what has been written alone.                       *)
LEMMA LaterKeepsBuild ==
    ASSUME BuildOK, UNCHANGED <<table, layout, read, carry, segments, rowStart, pageId>>,
           phase' \in {"stream", "index", "serve"}, phase' # "stream" => rowStart = Len(table)
    PROVE  BuildOK'
  <1>1. SegmentsOK'
    <2>1. SegmentsOK
      BY DEF BuildOK
    <2>2. \A s \in 1..Len(segments) : SegmentOK(s)'
      BY <2>1 DEF SegmentsOK, SegmentOK, SegmentEnd, Value
    <2>3. SegmentRecord' = SegmentRecord /\ SegmentEnd(Len(segments))' = SegmentEnd(Len(segments))
      BY DEF SegmentRecord, SegmentEnd
    <2>4. QED BY <2>1, <2>2, <2>3 DEF SegmentsOK
  <1>2. QED BY <1>1 DEF BuildOK

\* Every step keeps the build's invariant.
LEMMA NextKeepsBuild == BuildOK /\ [Next]_vars => BuildOK'
  <1>1. SUFFICES ASSUME BuildOK, [Next]_vars PROVE BuildOK'
    OBVIOUS
  <1>2. BuildFacts
    BY <1>1, BuildKnown
  <1>3. CASE PushBatch
    BY <1>1, <1>3, PushKeepsBuild
  <1>4. CASE FlushCarry
    BY <1>1, <1>4, FlushKeepsBuild
  <1>5. CASE FinishBuild
    <2>1. rowStart = Len(table)
      BY <1>2, <1>5 DEF FinishBuild, BuildFacts
    <2>2. QED BY <1>1, <1>5, <2>1, LaterKeepsBuild DEF FinishBuild
  <1>6. CASE AddIndex
    BY <1>1, <1>6, LaterKeepsBuild DEF AddIndex, BuildOK
  <1>7. CASE OpenEngine
    BY <1>1, <1>7, LaterKeepsBuild DEF OpenEngine, BuildOK
  <1>8. CASE UNCHANGED build
    BY <1>1, <1>8, LaterKeepsBuild DEF build, BuildOK
  <1>9. CASE Ask \/ StreamBatch \/ TakeAnswer \/ UNCHANGED vars
    BY <1>8, <1>9 DEF Ask, StreamBatch, TakeAnswer, vars
  <1>10. QED BY <1>1, <1>3, <1>4, <1>5, <1>6, <1>7, <1>9 DEF Next

\* The build's invariant (stream_builder.rs): the segments written hold the table's rows up to rowStart,
\* whole pages but the last one, and the carried rows are the next ones.
THEOREM BuildInvariant == Spec => []BuildOK
  <1>1. QED BY InitBuild, NextKeepsBuild, PTL DEF Spec

\* The build's invariant implies that the segments hold the table.
LEMMA BuildHolds == BuildOK => SegmentsHoldTable
  <1>1. SUFFICES ASSUME BuildOK PROVE SegmentsHoldTable
    OBVIOUS
  <1>2. BuildFacts
    BY <1>1, BuildKnown
  <1>3. segments \in Seq(SegmentRecord) /\ rowStart = SegmentEnd(Len(segments))
        /\ DOMAIN segments = 1..Len(segments) /\ \A s \in 1..Len(segments) : SegmentOK(s)
    BY <1>1 DEF BuildOK, SegmentsOK
  <1>4. rowStart + Len(carry) = read /\ carry = SubSeq(table, rowStart + 1, read)
    BY <1>1, <1>2 DEF BuildOK, BuildFacts
  <1>5. QED BY <1>3, <1>4 DEF SegmentsHoldTable, SegmentOK, SegmentEnd

\* However the input is cut into batches (push_batch, emit_segment, finish), the segments and the carried rows
\* are the rows read so far, in order, in hot and cold columns, each on the page its number names.
THEOREM SegmentsFaithful == Spec => []SegmentsHoldTable
  <1>1. QED BY BuildInvariant, BuildHolds, PTL

----------------------------------------------------------------------------
(* Which segment a row is in.                                              *)

SegmentLayout ==
    /\ Len(segments) \in Nat /\ DOMAIN segments = 1..Len(segments) /\ rowStart \in Nat
    /\ \A s \in 1..Len(segments) :
          /\ segments[s].rowStart \in Nat /\ segments[s].rows \in Nat \ {0} /\ segments[s].firstPage \in Nat
          /\ segments[s].rowStart + segments[s].rows <= rowStart
    /\ \A s, t \in 1..Len(segments) : s < t => segments[s].rowStart + segments[s].rows <= segments[t].rowStart
    /\ \A row \in 0..(rowStart - 1) : \E s \in 1..Len(segments) :
          row \in segments[s].rowStart..(segments[s].rowStart + segments[s].rows - 1)

(* The segments cut the rows written into consecutive parts.               *)
LEMMA SegmentParts == SegmentsOK => SegmentLayout
  <1>1. SUFFICES ASSUME SegmentsOK PROVE SegmentLayout
    OBVIOUS
  <1> DEFINE k == Len(segments)
  <1>2. k \in Nat /\ DOMAIN segments = 1..k /\ segments \in Seq(SegmentRecord)
    BY <1>1 DEF SegmentsOK
  <1> DEFINE end == [s \in 0..k |-> SegmentEnd(s)]
  <1>3. \A s \in 1..k : /\ segments[s].rowStart \in Nat /\ segments[s].rows \in Nat \ {0}
                        /\ segments[s].firstPage \in Nat /\ segments[s].rowStart = SegmentEnd(s - 1)
    <2>1. \A s \in 1..k : segments[s] \in SegmentRecord
      BY <1>2
    <2>2. \A s \in 1..k : segments[s].rows > 0 /\ segments[s].rowStart = SegmentEnd(s - 1)
      BY <1>1 DEF SegmentsOK, SegmentOK
    <2>3. QED BY <2>1, <2>2 DEF SegmentRecord
  <1>4. \A s \in 1..k : s \in 0..k /\ s - 1 \in 0..k /\ s # 0
    BY <1>2
  <1>5. /\ end[0] = 0 /\ end[k] = rowStart
        /\ \A s \in 1..k : segments[s].rowStart = end[s - 1] /\ end[s] = segments[s].rowStart + segments[s].rows
    <2>1. 0 \in 0..k /\ k \in 0..k
      BY <1>2
    <2>2. \A s \in 1..k : SegmentEnd(s) = segments[s].rowStart + segments[s].rows
      BY <1>4 DEF SegmentEnd
    <2>3. SegmentEnd(0) = 0
      BY DEF SegmentEnd
    <2>4. SegmentEnd(k) = rowStart
      BY <1>1 DEF SegmentsOK
    <2>5. QED BY <1>3, <1>4, <2>1, <2>2, <2>3, <2>4
  <1> HIDE DEF k, end
  <1> DEFINE Upto(n) == /\ end[n] \in Nat
                        /\ \A s \in 0..n : end[s] \in Nat /\ end[s] <= end[n]
                        /\ \A row \in 0..(end[n] - 1) : \E s \in 1..n :
                              row \in segments[s].rowStart..(segments[s].rowStart + segments[s].rows - 1)
             T == {n \in 0..k : Upto(n)}
  <1>6. 0 \in T
    <2>1. \A s \in 0..0 : s = 0
      OBVIOUS
    <2>2. QED BY <1>2, <1>5, <2>1
  <1>7. \A n \in 0..(k - 1) : n \in T => n + 1 \in T
    <2>1. SUFFICES ASSUME NEW n \in 0..(k - 1), Upto(n) PROVE n + 1 \in T
      OBVIOUS
    <2>2. n + 1 \in 1..k /\ n + 1 \in 0..k /\ (n + 1) - 1 = n /\ n \in Nat
      BY <1>2
    <2>3. segments[n + 1].rowStart = end[n] /\ end[n + 1] = end[n] + segments[n + 1].rows
          /\ segments[n + 1].rows \in Nat
      BY <1>3, <1>5, <2>2
    <2>4. end[n] \in Nat /\ end[n + 1] \in Nat /\ end[n] <= end[n + 1]
      BY <2>1, <2>3
    <2>5. \A s \in 0..(n + 1) : end[s] \in Nat /\ end[s] <= end[n + 1]
      <3>1. \A s \in 0..(n + 1) : s \in 0..n \/ s = n + 1
        BY <2>2
      <3>2. QED BY <2>1, <2>4, <3>1
    <2>6. ASSUME NEW row \in 0..(end[n + 1] - 1)
          PROVE  \E s \in 1..(n + 1) : row \in segments[s].rowStart..(segments[s].rowStart + segments[s].rows - 1)
      <3>1. CASE row \in 0..(end[n] - 1)
        <4>1. \A s \in 1..n : s \in 1..(n + 1)
          BY <2>2
        <4>2. QED BY <2>1, <3>1, <4>1
      <3>2. CASE row \notin 0..(end[n] - 1)
        <4>1. row \in segments[n + 1].rowStart..(segments[n + 1].rowStart + segments[n + 1].rows - 1)
          BY <2>3, <2>4, <3>2
        <4>2. n + 1 \in 1..(n + 1)
          BY <2>2
        <4>3. QED BY <4>1, <4>2
      <3>3. QED BY <3>1, <3>2
    <2>7. Upto(n + 1)
      BY <2>4, <2>5, <2>6
    <2>8. QED BY <2>2, <2>7
  <1>8. \A n \in 0..k : Upto(n)
    <2> HIDE DEF Upto
    <2>1. 0..k \subseteq T
      <3> HIDE DEF T
      <3> QED BY <1>2, <1>6, <1>7, UpTo
    <2>2. QED BY <2>1
  <1>9. Upto(k)
    BY <1>2, <1>8
  <1>10. \A s, t \in 1..k : s < t => segments[s].rowStart + segments[s].rows <= segments[t].rowStart
    <2>1. SUFFICES ASSUME NEW s \in 1..k, NEW t \in 1..k, s < t PROVE end[s] <= end[t - 1]
      BY <1>5
    <2>2. t - 1 \in 0..k /\ s \in 0..(t - 1)
      BY <1>2, <2>1
    <2>3. QED BY <1>8, <2>2
  <1>11. \A s \in 1..k : segments[s].rowStart + segments[s].rows <= rowStart
    <2>1. \A s \in 1..k : s \in 0..k
      BY <1>2
    <2>2. QED BY <1>5, <1>9, <2>1
  <1>12. rowStart \in Nat
    BY <1>5, <1>9
  <1>13. \A row \in 0..(rowStart - 1) : \E s \in 1..k :
              row \in segments[s].rowStart..(segments[s].rowStart + segments[s].rows - 1)
    BY <1>5, <1>9
  <1>14. QED BY <1>2, <1>3, <1>10, <1>11, <1>12, <1>13 DEF SegmentLayout, k

----------------------------------------------------------------------------
(* The records an index is built from.                                     *)

RowRecords(columns, n) == {<<MixedRadixKey(columns, table[row + 1]), row>> : row \in 0..(n - 1)}

PageRecords(columns, n) ==
    {<<MixedRadixKey(columns, table[row + 1]), row \div PageRows>> : row \in 0..(n - 1)}

(* A table row fits every index.                                           *)
LEMMA TableFits ==
    ASSUME table \in Tables, NEW columns \in IndexColumns, NEW row \in 0..(Len(table) - 1)
    PROVE  /\ Fits(columns, table[row + 1]) /\ MixedRadixKey(columns, table[row + 1]) \in Nat
           /\ MixedRadixKey(columns, table[row + 1]) < Keyspace(columns)
  <1>1. row + 1 \in 1..Len(table)
    BY TableRows
  <1>2. \A c \in ColumnIds : table[row + 1][c] \in Nat /\ table[row + 1][c] < Card[c] /\ Card[c] \in Nat
    BY <1>1, TableRows, EngineConstants
  <1>3. Fits(columns, table[row + 1])
    BY <1>2, ColumnCards DEF Fits
  <1>4. QED BY <1>3, KeyBound

(* The records spooled for an exact index are those of the rows written.   *)
LEMMA SpoolHoldsRows ==
    ASSUME BuildOK, NEW columns \in IndexColumns
    PROVE  ExactSpool(columns) \in Seq(Records) /\ ToSet(ExactSpool(columns)) = RowRecords(columns, rowStart)
  <1>1. SegmentLayout /\ SegmentsOK /\ BuildFacts
    BY SegmentParts, BuildKnown DEF BuildOK
  <1> DEFINE k == Len(segments)
             part(s) == [i \in 1..segments[s].rows |->
                <<MixedRadixKey(columns, [c \in ColumnIds |-> Value(segments[s], i - 1, c)]),
                  segments[s].rowStart + i - 1>>]
             parts == [s \in DOMAIN segments |-> part(s)]
  <1>2. k \in Nat /\ DOMAIN segments = 1..k
    BY <1>1 DEF SegmentLayout
  <1>3. \A s \in 1..k : segments[s].rows \in Nat /\ segments[s].rowStart \in Nat
                        /\ segments[s].rowStart + segments[s].rows <= rowStart
    BY <1>1 DEF SegmentLayout
  <1>4. ASSUME NEW s \in 1..k, NEW i \in 1..segments[s].rows
        PROVE  /\ part(s)[i] = <<MixedRadixKey(columns, table[(segments[s].rowStart + i - 1) + 1]), segments[s].rowStart + i - 1>>
               /\ segments[s].rowStart + i - 1 \in 0..(rowStart - 1)
    <2>0. /\ segments[s].rows \in Nat /\ segments[s].rowStart \in Nat /\ i \in Nat /\ i >= 1
          /\ i <= segments[s].rows /\ segments[s].rowStart + segments[s].rows <= rowStart
          /\ rowStart \in Nat /\ rowStart <= Len(table) /\ Len(table) \in Nat
      BY <1>1, <1>3 DEF BuildFacts
    <2>1. PICK row \in Nat : row = segments[s].rowStart + i - 1
      BY <2>0
    <2>2. row \in 0..(Len(table) - 1) /\ row \in 0..(rowStart - 1) /\ row + 1 = segments[s].rowStart + i
      BY SMTT(30), <2>0, <2>1
    <2> DEFINE token == [c \in ColumnIds |-> Value(segments[s], i - 1, c)]
    <2>3. \A c \in ColumnIds : token[c] = table[row + 1][c]
      BY <1>1, <2>2 DEF SegmentsOK, SegmentOK
    <2>4. \A j \in 1..Len(columns) : token[columns[j]] = table[row + 1][columns[j]]
      BY <2>3, ColumnCards
    <2> HIDE DEF token
    <2>5. MixedRadixKey(columns, token) = MixedRadixKey(columns, table[row + 1])
      BY <2>4, KeyDepends
    <2>6. QED BY <2>1, <2>2, <2>5 DEF token
  <1>5. ExactSpool(columns) = FlattenSeq(parts)
    BY DEF ExactSpool
  <1> HIDE DEF part
  <1>6. ASSUME NEW s \in 1..k
        PROVE  part(s) \in Seq(Records) /\ DOMAIN part(s) = 1..segments[s].rows
    <2>1. \A i \in 1..segments[s].rows : part(s)[i] \in Records
      <3>1. SUFFICES ASSUME NEW i \in 1..segments[s].rows PROVE part(s)[i] \in Records
        OBVIOUS
      <3>2. PICK row \in 0..(rowStart - 1) : row = segments[s].rowStart + i - 1
        BY <1>4
      <3>3. part(s)[i] = <<MixedRadixKey(columns, table[row + 1]), row>>
        BY <1>4, <3>2
      <3>4. row \in 0..(Len(table) - 1)
        BY <1>1 DEF BuildFacts
      <3>5. MixedRadixKey(columns, table[row + 1]) \in Nat
        BY <3>4, TableFits DEF BuildOK
      <3>6. QED BY <3>3, <3>5 DEF Records
    <2>2. part(s) \in [1..segments[s].rows -> Records]
      <3>1. part(s) = [i \in 1..segments[s].rows |-> part(s)[i]]
        BY DEF part
      <3>2. QED BY <2>1, <3>1
    <2>3. QED BY <1>3, <2>2, SeqFrom
  <1>7. parts \in Seq(Seq(Records)) /\ Len(parts) = k
    <2>1. parts \in [1..k -> Seq(Records)]
      BY <1>2, <1>6
    <2> HIDE DEF parts
    <2>2. QED BY <1>2, <2>1, SeqFrom
  <1>8. FlattenSeq(parts) \in Seq(Records) /\ ToSet(FlattenSeq(parts)) = UNION {ToSet(parts[s]) : s \in 1..k}
    <2> HIDE DEF parts, k
    <2> QED BY <1>7, FlattenedMembers
  <1>9. \A x : (\E s \in 1..k : x \in ToSet(parts[s])) <=> x \in RowRecords(columns, rowStart)
    <2>1. SUFFICES ASSUME NEW x PROVE (\E s \in 1..k : x \in ToSet(parts[s])) <=> x \in RowRecords(columns, rowStart)
      OBVIOUS
    <2>2. \A s \in 1..k : parts[s] = part(s)
      BY <1>2
    <2>3. ASSUME NEW s \in 1..k, x \in ToSet(parts[s]) PROVE x \in RowRecords(columns, rowStart)
      <3>1. PICK i \in 1..segments[s].rows : x = part(s)[i]
        BY <1>6, <2>2, <2>3 DEF ToSet
      <3>2. QED BY <1>4, <3>1 DEF RowRecords
    <2>4. ASSUME NEW row \in 0..(rowStart - 1), x = <<MixedRadixKey(columns, table[row + 1]), row>>
          PROVE  \E s \in 1..k : x \in ToSet(parts[s])
      <3>1. PICK s \in 1..k : row \in segments[s].rowStart..(segments[s].rowStart + segments[s].rows - 1)
        BY <1>1 DEF SegmentLayout
      <3>2. PICK i \in 1..segments[s].rows : row = segments[s].rowStart + i - 1
        <4>1. row - segments[s].rowStart + 1 \in 1..segments[s].rows
              /\ row = segments[s].rowStart + (row - segments[s].rowStart + 1) - 1
          BY <1>3, <3>1
        <4>2. QED BY <4>1
      <3>3. x = part(s)[i]
        BY <1>4, <2>4, <3>2
      <3>4. QED BY <1>6, <2>2, <3>3 DEF ToSet
    <2>5. QED BY <2>3, <2>4 DEF RowRecords
  <1>10. QED BY <1>5, <1>8, <1>9

StartsPage(row, page) == row = page * PageRows

(* The page of a row of a batch that starts on a page boundary.            *)
LEMMA PageOfRow ==
    ASSUME NEW first \in Nat, NEW p \in Nat \ {0}, NEW j \in 1..PageRows, NEW a, StartsPage(a, first)
    PROVE  (a + (p - 1) * PageRows + j - 1) \div PageRows = first + p - 1
  <1>1. PageRows \in Nat \ {0}
    BY EngineConstants
  <1>2. PICK q \in Nat : q = first + p - 1
    <2>1. first + p - 1 \in Nat
      OBVIOUS
    <2>2. QED BY <2>1
  <1>3. (PageRows * q + (j - 1)) \div PageRows = q
    <2>1. j - 1 \in 0..(PageRows - 1)
      BY <1>1
    <2>2. QED BY <1>1, <1>2, <2>1, DivUnique
  <1>4. a + (p - 1) * PageRows + j - 1 = PageRows * q + (j - 1)
    <2>1. (p - 1) * PageRows \in Nat /\ a \in Nat /\ a = first * PageRows
      BY <1>1 DEF StartsPage
    <2>2. PageRows * q = first * PageRows + (p - 1) * PageRows
      BY <1>1, <1>2
    <2>3. QED BY <2>1, <2>2
  <1>5. QED BY <1>2, <1>3, <1>4

PageSpool(rows, columns, first) ==
    FlattenSeq([p \in 1..CeilDiv(Len(rows), PageRows) |->
        LET keys == PageKeys(Take(SubSeq(rows, (p - 1) * PageRows + 1, Len(rows)), PageRows), columns)
        IN [k \in DOMAIN keys |-> <<keys[k], first + p - 1>>]])

BatchRecords(columns, a, n) ==
    {<<MixedRadixKey(columns, table[row + 1]), row \div PageRows>> : row \in a..(a + n - 1)}

(* The records spooled for a page hierarchy are the keys of each page of the rows written. *)
LEMMA SpoolHoldsPages ==
    ASSUME table \in Tables, NEW columns \in IndexColumns, NEW first \in Nat, NEW a \in Nat, StartsPage(a, first),
           NEW n \in 1..(Len(table) - a)
    PROVE  /\ PageSpool(SubSeq(table, a + 1, a + n), columns, first) \in Seq(Records)
           /\ ToSet(PageSpool(SubSeq(table, a + 1, a + n), columns, first)) = BatchRecords(columns, a, n)
  <1> DEFINE rows == SubSeq(table, a + 1, a + n)
             part(p) == Take(SubSeq(rows, (p - 1) * PageRows + 1, Len(rows)), PageRows)
             page(p) == [k \in DOMAIN PageKeys(part(p), columns) |-> <<PageKeys(part(p), columns)[k], first + p - 1>>]
             key(row) == MixedRadixKey(columns, table[row + 1])
             c == CeilDiv(Len(rows), PageRows)
             pages == [p \in 1..c |-> page(p)]
  <1>1. table \in Seq(Rows) /\ Len(table) \in Nat /\ PageRows \in Nat \ {0}
    BY TableRows, EngineConstants
  <1>2. rows \in Seq(Rows) /\ Len(rows) = n /\ \A i \in 1..n : rows[i] = table[a + i]
    <2> DEFINE b == a + n
    <2>1. a \in 0..Len(table) /\ b \in a..Len(table) /\ b - a = n
      BY <1>1
    <2> HIDE DEF b
    <2>2. SubSeq(table, a + 1, b) \in Seq(Rows) /\ Len(SubSeq(table, a + 1, b)) = n
          /\ \A i \in 1..n : SubSeq(table, a + 1, b)[i] = table[a + i]
      BY <1>1, <2>1, PartOf
    <2>3. QED BY <2>2 DEF b
  <1> HIDE DEF rows
  <1>20. n \in Nat \ {0} /\ a + n <= Len(table)
    BY <1>1
  <1>3. c \in Nat
    <2>1. CeilDiv(n, PageRows) \in Nat
      BY <1>1, <1>20, CeilDivBounds
    <2>2. QED BY <1>2, <2>1
  <1>4. ASSUME NEW p \in 1..c
        PROVE  LET start == (p - 1) * PageRows
               IN /\ p \in Nat \ {0} /\ start \in Nat /\ start < n /\ Len(part(p)) \in Nat
                  /\ Len(part(p)) = IF PageRows < n - start THEN PageRows ELSE n - start
                  /\ \A j \in 1..Len(part(p)) : part(p)[j] = table[a + start + j]
    <2> DEFINE start == (p - 1) * PageRows
    <2>1. p \in Nat \ {0} /\ start \in Nat /\ start < n
      BY <1>1, <1>2, ChunkStart
    <2>2. start \in 0..Len(rows)
      BY <1>2, <2>1
    <2> HIDE DEF start
    <2>3. LET part1 == Take(SubSeq(rows, start + 1, Len(rows)), PageRows)
          IN /\ Len(part1) = IF PageRows < Len(rows) - start THEN PageRows ELSE Len(rows) - start
             /\ \A j \in 1..Len(part1) : part1[j] = rows[start + j]
      <3>1. PageRows \in Nat
        BY <1>1
      <3> DEFINE chunk == Take(SubSeq(rows, start + 1, Len(rows)), PageRows)
      <3>2. Len(chunk) = IF PageRows < Len(rows) - start THEN PageRows ELSE Len(rows) - start
        BY <1>2, <2>2, <3>1, TakeFrom
      <3>3. \A j \in 1..Len(chunk) : chunk[j] = rows[start + j]
        <4>1. SUFFICES ASSUME NEW j \in 1..Len(chunk) PROVE chunk[j] = rows[start + j]
          OBVIOUS
        <4>2. rows \in Seq(Rows)
          BY <1>2
        <4>3. QED BY <2>2, <3>1, <4>1, <4>2, TakeFrom
      <3> HIDE DEF chunk
      <3>4. QED BY <3>2, <3>3 DEF chunk
    <2>4. /\ Len(part(p)) = IF PageRows < n - start THEN PageRows ELSE n - start
          /\ \A j \in 1..Len(part(p)) : part(p)[j] = rows[start + j]
      BY <1>2, <2>3 DEF start
    <2> HIDE DEF part
    <2>5. Len(part(p)) \in Nat /\ start + Len(part(p)) <= n
      BY <1>1, <2>1, <2>4
    <2>6. \A j \in 1..Len(part(p)) : start + j \in 1..n /\ a + (start + j) = a + start + j
      BY <2>1, <2>5
    <2>7. \A j \in 1..Len(part(p)) : part(p)[j] = table[a + start + j]
      BY <1>2, <2>4, <2>6
    <2>8. QED BY <2>1, <2>4, <2>5, <2>7 DEF start
  <1> DEFINE start(p) == (p - 1) * PageRows
             row(p, j) == a + start(p) + j - 1
  <1>5. ASSUME NEW p \in 1..c, NEW j \in 1..Len(part(p))
        PROVE  /\ row(p, j) \in a..(a + n - 1) /\ row(p, j) \in 0..(Len(table) - 1)
               /\ row(p, j) \div PageRows = first + p - 1
               /\ MixedRadixKey(columns, part(p)[j]) = key(row(p, j))
    <2> HIDE DEF part
    <2>1. /\ p \in Nat \ {0} /\ start(p) \in Nat /\ start(p) < n /\ Len(part(p)) \in Nat
          /\ Len(part(p)) = IF PageRows < n - start(p) THEN PageRows ELSE n - start(p)
          /\ part(p)[j] = table[a + start(p) + j]
      BY <1>4 DEF part
    <2>2. j \in 1..PageRows /\ j <= n - start(p)
      <3> HIDE DEF start
      <3> QED BY SMTT(30), <1>1, <1>20, <2>1
    <2>3. row(p, j) \div PageRows = first + p - 1
      BY <2>1, <2>2, PageOfRow, Zenon
    <2> HIDE DEF start
    <2>4. row(p, j) \in a..(a + n - 1) /\ row(p, j) \in 0..(Len(table) - 1) /\ row(p, j) + 1 = a + start(p) + j
      <3>1. start(p) \in Nat /\ j \in Nat /\ j >= 1 /\ j <= n - start(p) /\ n \in Nat /\ Len(table) \in Nat
        BY <1>1, <1>20, <2>1, <2>2
      <3>2. QED BY SMTT(30), <1>20, <3>1, RowWithin DEF row
    <2>5. QED BY <2>1, <2>3, <2>4 DEF start
  <1> HIDE DEF row
  <1>6. \A r \in 0..(Len(table) - 1) : key(r) \in Nat
    BY TableFits
  <1> HIDE DEF key
  <1>7. ASSUME NEW p \in 1..c
        PROVE  page(p) \in Seq(Records) /\ ToSet(page(p)) = {<<key(row(p, j)), first + p - 1>> : j \in 1..Len(part(p))}
    <2> DEFINE A == {MixedRadixKey(columns, part(p)[j]) : j \in DOMAIN part(p)}
               B == {key(row(p, j)) : j \in 1..Len(part(p))}
               s == Ascending(A)
    <2>1. A = B
      <3>1. DOMAIN part(p) = 1..Len(part(p))
        <4>1. part(p) \in Seq(Rows)
          <5>1. (p - 1) * PageRows \in 0..Len(rows)
            BY <1>2, <1>4
          <5> DEFINE x == (p - 1) * PageRows
          <5> HIDE DEF x
          <5>2. Take(SubSeq(rows, x + 1, Len(rows)), PageRows) \in Seq(Rows)
            BY <1>1, <1>2, <5>1, TakeFrom DEF x
          <5>3. QED BY <5>2 DEF x
        <4> HIDE DEF part
        <4>2. QED BY <4>1
      <3> HIDE DEF part
      <3>2. QED BY <1>5, <3>1
    <2>2. IdSet(B)
      <3>1. B \subseteq Int
        <4>1. \A j \in 1..Len(part(p)) : key(row(p, j)) \in Nat
          BY <1>5, <1>6
        <4>2. QED BY <4>1
      <3>2. IsFiniteSet(B)
        <4> DEFINE f == [j \in 1..Len(part(p)) |-> key(row(p, j))]
        <4>1. f \in Surjection(1..Len(part(p)), B)
          BY DEF Surjection
        <4>2. IsFiniteSet(1..Len(part(p)))
          <5>1. Len(part(p)) \in Nat
            BY <1>4
          <5> HIDE DEF part
          <5>2. QED BY <5>1, FS_Interval
        <4> HIDE DEF f, B, part
        <4>3. QED BY <4>1, <4>2, FS_Surjection
      <3>3. QED BY <3>1, <3>2 DEF IdSet
    <2> HIDE DEF A, B
    <2>3. s \in Seq(Int) /\ ToSet(s) = B /\ DOMAIN s = 1..Cardinality(B) /\ Cardinality(B) \in Nat
      BY <2>1, <2>2, AscendingFacts
    <2>4. page(p) = [k \in 1..Cardinality(B) |-> <<s[k], first + p - 1>>]
      BY <2>3 DEF PageKeys, A
    <2>5. first + p - 1 \in Int
      BY <1>4
    <2> HIDE DEF s, part, page
    <2>6. \A k \in 1..Cardinality(B) : s[k] \in Int
      BY <2>3
    <2>7. page(p) \in [1..Cardinality(B) -> Records]
      BY <2>4, <2>5, <2>6 DEF Records
    <2>8. page(p) \in Seq(Records) /\ DOMAIN page(p) = 1..Cardinality(B)
      BY <2>3, <2>7, SeqFrom
    <2>9. \A x : x \in ToSet(page(p)) <=> \E k \in 1..Cardinality(B) : x = <<s[k], first + p - 1>>
      BY <2>4, <2>8 DEF ToSet
    <2>10. \A b : b \in B <=> \E k \in 1..Cardinality(B) : b = s[k]
      BY <2>3 DEF ToSet
    <2>11. \A x : x \in ToSet(page(p)) <=> \E b \in B : x = <<b, first + p - 1>>
      BY <2>9, <2>10
    <2>12. QED BY <2>8, <2>11 DEF B
  <1> HIDE DEF page, part
  <1>8. pages \in Seq(Seq(Records)) /\ Len(pages) = c /\ \A p \in 1..c : pages[p] = page(p)
    <2>1. pages \in [1..c -> Seq(Records)]
      BY <1>7
    <2>2. \A p \in 1..c : pages[p] = page(p)
      OBVIOUS
    <2> HIDE DEF pages, c
    <2>3. QED BY <1>3, <2>1, <2>2, SeqFrom
  <1>9. FlattenSeq(pages) \in Seq(Records) /\ ToSet(FlattenSeq(pages)) = UNION {ToSet(page(p)) : p \in 1..c}
    <2> HIDE DEF pages, c
    <2>1. FlattenSeq(pages) \in Seq(Records) /\ ToSet(FlattenSeq(pages)) = UNION {ToSet(pages[p]) : p \in 1..c}
      BY <1>8, FlattenedMembers
    <2>2. QED BY <1>8, <2>1
  <1>10. PageSpool(rows, columns, first) = FlattenSeq(pages)
    BY DEF PageSpool, page, part
  <1> HIDE DEF pages
  <1>11. ASSUME NEW x
         PROVE  (\E p \in 1..c : x \in ToSet(page(p))) <=>
                   \E r \in a..(a + n - 1) : x = <<key(r), r \div PageRows>>
    <2>1. ASSUME NEW p \in 1..c, x \in ToSet(page(p))
          PROVE  \E r \in a..(a + n - 1) : x = <<key(r), r \div PageRows>>
      <3>1. PICK j \in 1..Len(part(p)) : x = <<key(row(p, j)), first + p - 1>>
        BY <1>7, <2>1
      <3>2. QED BY <1>5, <3>1
    <2>2. ASSUME NEW r \in a..(a + n - 1), x = <<key(r), r \div PageRows>>
          PROVE  \E p \in 1..c : x \in ToSet(page(p))
      <3>1. PICK i \in 1..n : i = r - a + 1
        <4>1. r - a + 1 \in 1..n
          BY <1>1
        <4>2. QED BY <4>1
      <3> DEFINE q == (i - 1) \div PageRows
                 t == (i - 1) % PageRows
      <3>2. /\ q \in Nat /\ t \in 0..(PageRows - 1)
            /\ q + 1 \in 1..CeilDiv(n, PageRows) /\ q * PageRows \in Nat
            /\ i = q * PageRows + (t + 1) /\ (q + 1) - 1 = q
        <4>1. PICK d \in Nat \ {0}, m \in Nat : d = PageRows /\ m = n
          BY <1>1, <1>20
        <4>2. i \in 1..m
          BY <4>1
        <4>3. LET qq == (i - 1) \div d
                  tt == (i - 1) % d
              IN /\ qq \in Nat /\ tt \in 0..(d - 1) /\ qq + 1 \in 1..CeilDiv(m, d) /\ qq * d \in Nat
                 /\ i = qq * d + (tt + 1) /\ (qq + 1) - 1 = qq
          BY <4>2, ChunkOf, ZenonT(30)
        <4>4. QED BY <4>1, <4>3
      <3> HIDE DEF q, t
      <3>3. q + 1 \in 1..c
        BY <1>2, <3>2
      <3>4. start(q + 1) = q * PageRows
        BY <3>2
      <3>5. /\ Len(part(q + 1)) = IF PageRows < n - q * PageRows THEN PageRows ELSE n - q * PageRows
        BY <1>4, <3>2, <3>3
      <3>6. t + 1 \in 1..Len(part(q + 1))
        BY <1>1, <3>1, <3>2, <3>5
      <3>7. row(q + 1, t + 1) = r
        <4>1. row(q + 1, t + 1) = a + q * PageRows + (t + 1) - 1
          BY <3>4 DEF row
        <4>2. QED BY <1>1, <3>1, <3>2, <4>1, RowBack
      <3>8. r \div PageRows = first + (q + 1) - 1
        <4>1. row(q + 1, t + 1) \div PageRows = first + (q + 1) - 1
          BY <1>5, <3>3, <3>6, Zenon
        <4>2. QED BY <3>7, <4>1
      <3>9. x \in ToSet(page(q + 1))
        BY <1>7, <2>2, <3>3, <3>6, <3>7, <3>8
      <3>10. QED BY <3>3, <3>9
    <2>3. QED BY <2>1, <2>2
  <1>12. ToSet(FlattenSeq(pages)) = {<<key(r), r \div PageRows>> : r \in a..(a + n - 1)}
    BY <1>9, <1>11
  <1>13. QED BY <1>9, <1>10, <1>12 DEF rows, key, BatchRecords

(* A batch that is pushed writes nothing or the next rows of the table.     *)
LEMMA PushWrites ==
    ASSUME BuildOK, PushBatch
    PROVE  /\ phase = "stream" /\ UNCHANGED <<table, layout, phase, pageHier, rowHier, query>>
           /\ \/ UNCHANGED <<segments, rowStart, pageId, spools>>
              \/ \E n \in 1..(Len(table) - rowStart) : EmitSegment(SubSeq(table, rowStart + 1, rowStart + n))
  <1>1. BuildOK /\ PushBatch
    OBVIOUS
  <1>2. BuildFacts
    BY <1>1, BuildKnown
  <1> DEFINE full(rows) == WholePages(rows)
             Push(n, rows) ==
                /\ phase = "stream" /\ read' = read + n
                /\ carry' = SubSeq(rows, full(rows) + 1, Len(rows))
                /\ IF full(rows) > 0 THEN EmitSegment(SubSeq(rows, 1, full(rows)))
                   ELSE UNCHANGED <<segments, rowStart, pageId, spools>>
                /\ UNCHANGED <<table, layout, phase, pageHier, rowHier, query>>
  <1>3. PICK n \in 1..(Len(table) - read) : Push(n, carry \o SubSeq(table, read + 1, read + n))
    BY <1>1, Zenon DEF PushBatch
  <1>4. PICK b \in Nat : b = read + n /\ b <= Len(table) /\ read < b
    BY <1>2 DEF BuildFacts
  <1>5. PICK a \in Nat : a = rowStart /\ a <= read
    BY <1>2 DEF BuildFacts
  <1> DEFINE rows == SubSeq(table, a + 1, b)
  <1>6. carry \o SubSeq(table, read + 1, b) = rows
    <2>1. a \in 0..Len(table) /\ read \in a..Len(table) /\ b \in read..Len(table)
      BY <1>2, <1>4, <1>5 DEF BuildFacts
    <2>2. SubSeq(table, a + 1, read) \o SubSeq(table, read + 1, b) = rows
      BY <1>2, <2>1, PartsJoin DEF BuildFacts
    <2>3. QED BY <1>1, <1>5, <2>2 DEF BuildOK
  <1>7. rows \in Seq(Rows) /\ Len(rows) = b - a
    <2>1. a \in 0..Len(table) /\ b \in a..Len(table)
      BY <1>2, <1>4, <1>5 DEF BuildFacts
    <2>2. QED BY <1>2, <2>1, PartOf DEF BuildFacts
  <1>8. PICK w \in 0..(b - a) : w = WholePages(rows) /\ (b - a) - w < PageRows /\ CeilDiv(w, PageRows) * PageRows = w
    <2>1. b - a \in Nat
      BY <1>2, <1>4, <1>5 DEF BuildFacts
    <2>2. PageRows \in Nat \ {0}
      BY <1>2 DEF BuildFacts
    <2> DEFINE k == b - a
    <2> HIDE DEF k
    <2>3. (k \div PageRows) * PageRows \in 0..k /\ k - (k \div PageRows) * PageRows < PageRows
          /\ CeilDiv((k \div PageRows) * PageRows, PageRows) * PageRows = (k \div PageRows) * PageRows
      BY <2>1, <2>2, PagesWhole DEF k
    <2>4. WholePages(rows) = (k \div PageRows) * PageRows
      BY <1>7 DEF WholePages, k
    <2>5. QED BY <2>3, <2>4 DEF k
  <1>9. Push(n, rows)
    BY <1>3, <1>4, <1>6, Zenon
  <1> HIDE DEF rows
  <1>10. /\ phase = "stream" /\ read' = b /\ carry' = SubSeq(rows, w + 1, b - a)
         /\ IF w > 0 THEN EmitSegment(SubSeq(rows, 1, w)) ELSE UNCHANGED <<segments, rowStart, pageId, spools>>
         /\ UNCHANGED <<table, layout, phase, pageHier, rowHier, query>>
    BY <1>4, <1>7, <1>8, <1>9
  <1>11. CASE w = 0
    BY <1>10, <1>11
  <1>12. CASE w # 0
    <2>1. w > 0 /\ w \in 1..(Len(table) - rowStart)
      BY <1>2, <1>4, <1>5, <1>8, <1>12 DEF BuildFacts
    <2>2. SubSeq(rows, 1, w) = SubSeq(table, rowStart + 1, rowStart + w)
      <3>1. a \in 0..Len(table) /\ b \in a..Len(table) /\ 0 \in 0..(b - a) /\ w \in 0..(b - a)
        BY <1>2, <1>4, <1>5, <1>8 DEF BuildFacts
      <3>2. SubSeq(SubSeq(table, a + 1, b), 0 + 1, w) = SubSeq(table, a + 0 + 1, a + w)
        BY <1>2, <3>1, PartOfPart DEF BuildFacts
      <3>3. 0 + 1 = 1 /\ a + 0 + 1 = a + 1
        OBVIOUS
      <3>4. QED BY <1>5, <3>2, <3>3 DEF rows
    <2>3. EmitSegment(SubSeq(table, rowStart + 1, rowStart + w))
      BY <1>10, <2>1, <2>2
    <2>4. QED BY <1>10, <2>1, <2>3
  <1>13. QED BY <1>11, <1>12

----------------------------------------------------------------------------
(* The indexes.                                                            *)

\* The indexes of a layout.
LEMMA LayoutFacts ==
    ASSUME layout \in Layouts
    PROVE  /\ layout.pageSpecs \in Seq(IndexColumns) /\ Len(layout.pageSpecs) \in Nat
           /\ DOMAIN layout.pageSpecs = 1..Len(layout.pageSpecs)
           /\ \A h \in DOMAIN layout.pageSpecs : layout.pageSpecs[h] \in IndexColumns
           /\ Len(layout.exact) \in Nat /\ DOMAIN layout.exact = 1..Len(layout.exact)
           /\ \A h \in 1..Len(layout.exact) :
                 /\ layout.exact[h].columns \in IndexColumns
                 /\ layout.exact[h].kind \in ExactKinds(layout.exact[h].columns)
                 /\ layout.exact[h].kind \in RowKinds
  <1>1. /\ layout.pageSpecs \in Seq(IndexColumns)
        /\ layout.exact \in Seq([columns : IndexColumns, kind : RowKinds])
        /\ \A h \in DOMAIN layout.exact : layout.exact[h].kind \in ExactKinds(layout.exact[h].columns)
    BY EngineAssumption
  <1>2. /\ Len(layout.exact) \in Nat /\ DOMAIN layout.exact = 1..Len(layout.exact)
        /\ \A h \in 1..Len(layout.exact) : layout.exact[h] \in [columns : IndexColumns, kind : RowKinds]
    <2> DEFINE S == [columns : IndexColumns, kind : RowKinds]
               exact == layout.exact
    <2>1. exact \in Seq(S)
      BY <1>1
    <2> HIDE DEF S, exact
    <2>2. Len(exact) \in Nat /\ DOMAIN exact = 1..Len(exact) /\ \A h \in 1..Len(exact) : exact[h] \in S
      BY <2>1
    <2>3. QED BY <2>2 DEF S, exact
  <1>3. /\ Len(layout.pageSpecs) \in Nat /\ DOMAIN layout.pageSpecs = 1..Len(layout.pageSpecs)
        /\ \A h \in DOMAIN layout.pageSpecs : layout.pageSpecs[h] \in IndexColumns
    BY <1>1
  <1>4. QED BY <1>1, <1>2, <1>3

PageIndex(kind, columns) ==
    [columns |-> columns,
     file |-> BuildPageFile(kind, Sorted(PageRecords(columns, Len(table))), Keyspace(columns), pageId)]

ExactIndex(next) ==
    [columns |-> next.columns,
     file |-> BuildRowFile(next.kind, Sorted(RowRecords(next.columns, Len(table))),
                           Keyspace(next.columns), Len(table))]

PageIndexes(kind) == [h \in DOMAIN layout.pageSpecs |-> PageIndex(kind, layout.pageSpecs[h])]

ExactIndexes(m) == [h \in 1..m |-> ExactIndex(layout.exact[h])]

(* What the pages' keys are spooled in while rows are written.             *)
SpoolsOK ==
    /\ DOMAIN spools = DOMAIN layout.pageSpecs
    /\ \A h \in DOMAIN layout.pageSpecs :
          spools[h] \in Seq(Records) /\ ToSet(spools[h]) = PageRecords(layout.pageSpecs[h], rowStart)

(* Every index is built from the records of the whole table, in order.     *)
HierOK ==
    /\ phase = "stream" => pageHier = <<>> /\ SpoolsOK
    /\ phase # "stream" => \E kind \in PageKinds : pageHier = PageIndexes(kind)
    /\ \E m \in 0..Len(layout.exact) :
          rowHier = ExactIndexes(m) /\ (phase = "stream" => m = 0) /\ (phase = "serve" => m = Len(layout.exact))

(* The rows written so far and the next ones.                              *)
LEMMA RecordsJoin ==
    ASSUME NEW columns, NEW a \in Nat, NEW n \in Nat
    PROVE  PageRecords(columns, a + n) = PageRecords(columns, a) \cup BatchRecords(columns, a, n)
  <1>1. \A row : row \in 0..(a + n - 1) <=> row \in 0..(a - 1) \/ row \in a..(a + n - 1)
    OBVIOUS
  <1>2. QED BY <1>1 DEF PageRecords, BatchRecords

\* Emitting a segment spools exactly the records of its rows and pages.
LEMMA EmitKeepsSpools ==
    ASSUME SpoolsOK, table \in Tables, layout \in Layouts, rowStart \in Nat, pageId \in Nat,
           pageId * PageRows = rowStart, NEW n \in 1..(Len(table) - rowStart),
           EmitSegment(SubSeq(table, rowStart + 1, rowStart + n)), UNCHANGED <<table, layout>>
    PROVE  SpoolsOK'
  <1> DEFINE rows == SubSeq(table, rowStart + 1, rowStart + n)
  <1>1. PICK a \in Nat : a = rowStart
    OBVIOUS
  <1>2. PICK first \in Nat : first = pageId
    OBVIOUS
  <1>3. StartsPage(a, first)
    BY <1>1, <1>2 DEF StartsPage
  <1>4. n \in 1..(Len(table) - a) /\ n \in Nat
    BY <1>1, TableRows
  <1>5. PICK part : part = rows
    OBVIOUS
  <1>6. /\ rowStart' = rowStart + Len(part)
        /\ spools' = [h \in DOMAIN spools |-> spools[h] \o PageSpool(part, layout.pageSpecs[h], first)]
    BY <1>2, <1>5 DEF EmitSegment, PageSpool
  <1>7. part = SubSeq(table, a + 1, a + n) /\ Len(part) = n
    <2>1. table \in Seq(Rows) /\ Len(table) \in Nat
      BY TableRows
    <2> DEFINE b == a + n
    <2>2. a \in 0..Len(table) /\ b \in a..Len(table) /\ b - a = n
      BY <1>4, <2>1
    <2> HIDE DEF b
    <2>3. Len(SubSeq(table, a + 1, b)) = n
      BY <2>1, <2>2, PartOf
    <2>4. QED BY <1>1, <1>5, <2>3 DEF b
  <1> HIDE DEF rows
  <1>8. rowStart' = a + n /\ DOMAIN spools' = DOMAIN layout.pageSpecs
    BY <1>1, <1>6, <1>7 DEF SpoolsOK
  <1>9. ASSUME NEW h \in DOMAIN layout.pageSpecs
        PROVE  spools'[h] \in Seq(Records) /\ ToSet(spools'[h]) = PageRecords(layout.pageSpecs[h], a + n)
    <2>1. PICK columns \in IndexColumns : columns = layout.pageSpecs[h]
      BY LayoutFacts
    <2>2. spools[h] \in Seq(Records) /\ ToSet(spools[h]) = PageRecords(columns, a)
      BY <1>1, <2>1 DEF SpoolsOK
    <2>3. PICK spool : spool = PageSpool(SubSeq(table, a + 1, a + n), columns, first)
      OBVIOUS
    <2>4. spool \in Seq(Records) /\ ToSet(spool) = BatchRecords(columns, a, n)
      BY <1>3, <1>4, <2>3, SpoolHoldsPages
    <2>5. spools[h] \o spool \in Seq(Records) /\ ToSet(spools[h] \o spool) = ToSet(spools[h]) \cup ToSet(spool)
      BY <2>2, <2>4, JoinedMembers
    <2>6. spools'[h] = spools[h] \o spool
      BY <1>6, <1>7, <2>1, <2>3 DEF SpoolsOK
    <2>7. PageRecords(columns, a + n) = ToSet(spools[h]) \cup ToSet(spool)
      <3>1. PageRecords(columns, a + n) = PageRecords(columns, a) \cup BatchRecords(columns, a, n)
        BY <1>4, RecordsJoin
      <3>2. QED BY <2>2, <2>4, <3>1
    <2>8. QED BY <2>1, <2>5, <2>6, <2>7
  <1>10. \A columns : PageRecords(columns, a + n)' = PageRecords(columns, a + n)
    BY DEF PageRecords
  <1>11. QED BY <1>8, <1>9, <1>10 DEF SpoolsOK

(* While nothing an index is built from changes, the indexes stay as they are. *)
LEMMA IndexesStay ==
    ASSUME UNCHANGED <<table, layout, pageId>>
    PROVE  /\ \A kind : PageIndexes(kind)' = PageIndexes(kind)
           /\ \A m : ExactIndexes(m)' = ExactIndexes(m)
           /\ \A next : ExactIndex(next)' = ExactIndex(next)
  BY DEF PageIndexes, PageIndex, ExactIndexes, ExactIndex, PageRecords, RowRecords

\* A step that emits nothing leaves the spools in step with the table.
LEMMA SpoolsStay ==
    ASSUME SpoolsOK, UNCHANGED <<table, layout, rowStart, spools>>
    PROVE  SpoolsOK'
  <1>1. \A columns, n : PageRecords(columns, n)' = PageRecords(columns, n)
    BY DEF PageRecords
  <1>2. QED BY <1>1 DEF SpoolsOK

\* Before the first index is built there is none.
LEMMA NoIndexes == ExactIndexes(0) = <<>>
  BY DEF ExactIndexes

\* The indexes built, and one more.
LEMMA MoreIndexes ==
    ASSUME NEW m \in Nat
    PROVE  Append(ExactIndexes(m), ExactIndex(layout.exact[m + 1])) = ExactIndexes(m + 1)
  <1> DEFINE V == {ExactIndex(layout.exact[h]) : h \in 1..(m + 1)}
             s == ExactIndexes(m)
             t == ExactIndexes(m + 1)
             x == ExactIndex(layout.exact[m + 1])
  <1>1. \A h \in 1..(m + 1) : h \in 1..m \/ h = m + 1
    OBVIOUS
  <1>2. \A h \in 1..m : h \in 1..(m + 1)
    OBVIOUS
  <1>3. m + 1 \in 1..(m + 1) /\ m + 1 \in Nat
    OBVIOUS
  <1>4. x \in V
    BY <1>3
  <1>5. s \in [1..m -> V] /\ \A h \in 1..m : s[h] = ExactIndex(layout.exact[h])
    BY <1>2 DEF ExactIndexes
  <1>6. t \in [1..(m + 1) -> V] /\ \A h \in 1..(m + 1) : t[h] = ExactIndex(layout.exact[h])
    BY DEF ExactIndexes
  <1>7. t[m + 1] = x
    BY <1>3, <1>6
  <1> HIDE DEF V, s, t, x
  <1>8. s \in Seq(V) /\ Len(s) = m
    BY <1>5, SeqFrom
  <1>9. t \in Seq(V) /\ Len(t) = m + 1
    BY <1>3, <1>6, SeqFrom
  <1>10. Append(s, x) \in Seq(V) /\ Len(Append(s, x)) = m + 1
         /\ Append(s, x)[m + 1] = x /\ \A h \in 1..m : Append(s, x)[h] = s[h]
    BY <1>4, <1>8
  <1>11. \A h \in 1..(m + 1) : Append(s, x)[h] = t[h]
    <2>1. \A h \in 1..m : t[h] = s[h]
      BY <1>2, <1>5, <1>6
    <2>2. QED BY <1>1, <1>7, <1>10, <2>1
  <1>12. Append(s, x) = t
    BY <1>9, <1>10, <1>11, SameSequence
  <1>13. QED BY <1>12 DEF s, t, x

\* Nothing is spooled or indexed at the start.
LEMMA InitHier == Init => HierOK
  <1>1. SUFFICES ASSUME Init PROVE HierOK
    OBVIOUS
  <1>2. layout \in Layouts /\ phase = "stream" /\ pageHier = <<>> /\ rowHier = <<>> /\ rowStart = 0
        /\ spools = [h \in DOMAIN layout.pageSpecs |-> <<>>]
    BY <1>1 DEF Init
  <1>3. SpoolsOK
    <2>1. <<>> \in Seq(Records) /\ ToSet(<<>>) = {}
      BY DEF ToSet
    <2>2. \A columns : PageRecords(columns, 0) = {}
      BY DEF PageRecords
    <2>3. QED BY <1>2, <2>1, <2>2 DEF SpoolsOK
  <1>4. 0 \in 0..Len(layout.exact)
    BY <1>2, LayoutFacts
  <1>5. QED BY <1>2, <1>3, <1>4, NoIndexes DEF HierOK

\* Every step keeps the invariant of spools and indexes.
LEMMA NextKeepsHier == BuildOK /\ HierOK /\ [Next]_vars => HierOK'
  <1>1. SUFFICES ASSUME BuildOK, HierOK, [Next]_vars PROVE HierOK'
    OBVIOUS
  <1>2. BuildFacts /\ table \in Tables /\ layout \in Layouts
    BY <1>1, BuildKnown DEF BuildOK
  <1>3. PICK m \in 0..Len(layout.exact) :
           rowHier = ExactIndexes(m) /\ (phase = "stream" => m = 0) /\ (phase = "serve" => m = Len(layout.exact))
    BY <1>1 DEF HierOK
  <1>4. Len(layout.exact) \in Nat /\ m \in Nat
    BY <1>2, LayoutFacts
  <1>5. CASE phase = "stream" /\ UNCHANGED <<table, layout, phase, pageHier, rowHier>> /\ SpoolsOK'
    <2>1. rowHier' = ExactIndexes(0)'
      BY <1>3, <1>5, NoIndexes DEF ExactIndexes
    <2>2. QED BY <1>1, <1>4, <1>5, <2>1 DEF HierOK
  <1>6. CASE UNCHANGED build
    <2>1. UNCHANGED <<table, layout, phase, rowStart, pageId, spools, pageHier, rowHier>>
      BY <1>6 DEF build
    <2>2. (\A kind : PageIndexes(kind)' = PageIndexes(kind)) /\ ExactIndexes(m)' = ExactIndexes(m)
      BY <2>1, IndexesStay
    <2>3. phase = "stream" => SpoolsOK'
      BY <1>1, <2>1, SpoolsStay DEF HierOK
    <2>4. QED BY <1>1, <1>3, <2>1, <2>2, <2>3 DEF HierOK
  <1>7. CASE PushBatch
    <2>1. /\ phase = "stream" /\ UNCHANGED <<table, layout, phase, pageHier, rowHier, query>>
          /\ \/ UNCHANGED <<segments, rowStart, pageId, spools>>
             \/ \E n \in 1..(Len(table) - rowStart) : EmitSegment(SubSeq(table, rowStart + 1, rowStart + n))
      BY <1>1, <1>7, PushWrites
    <2>2. SpoolsOK
      BY <1>1, <2>1 DEF HierOK
    <2>3. CASE UNCHANGED <<segments, rowStart, pageId, spools>>
      BY <1>5, <2>1, <2>2, <2>3, SpoolsStay
    <2>4. CASE \E n \in 1..(Len(table) - rowStart) : EmitSegment(SubSeq(table, rowStart + 1, rowStart + n))
      <3>1. PICK n \in 1..(Len(table) - rowStart) : EmitSegment(SubSeq(table, rowStart + 1, rowStart + n))
        BY <2>4
      <3>2. pageId * PageRows = rowStart /\ rowStart \in Nat /\ pageId \in Nat
        BY <1>1, <1>2, <3>1 DEF BuildOK, BuildFacts
      <3>3. SpoolsOK'
        BY <1>2, <2>1, <2>2, <3>1, <3>2, EmitKeepsSpools
      <3>4. QED BY <1>5, <2>1, <3>3
    <2>5. QED BY <2>1, <2>3, <2>4
  <1>8. CASE FlushCarry
    <2>1. /\ phase = "stream" /\ read = Len(table) /\ carry # <<>> /\ EmitSegment(carry)
          /\ UNCHANGED <<table, layout, phase, pageHier, rowHier>>
      BY <1>8 DEF FlushCarry
    <2>2. PICK w \in 1..(Len(table) - rowStart) : rowStart + w = read
      <3>1. Len(carry) # 0
        BY <1>2, <2>1 DEF BuildFacts
      <3>2. read - rowStart \in 1..(Len(table) - rowStart) /\ rowStart + (read - rowStart) = read
        BY <1>2, <2>1, <3>1 DEF BuildFacts
      <3>3. QED BY <3>2
    <2>3. EmitSegment(SubSeq(table, rowStart + 1, rowStart + w))
      BY <1>1, <2>1, <2>2 DEF BuildOK
    <2>4. pageId * PageRows = rowStart /\ rowStart \in Nat /\ pageId \in Nat
      BY <1>1, <1>2, <2>2 DEF BuildOK, BuildFacts
    <2>5. SpoolsOK
      BY <1>1, <2>1 DEF HierOK
    <2>6. SpoolsOK'
      BY <1>2, <2>1, <2>2, <2>3, <2>4, <2>5, EmitKeepsSpools
    <2>7. QED BY <1>5, <2>1, <2>6
  <1>9. CASE FinishBuild
    <2>1. PICK kind \in PageKinds : pageHier' = [h \in DOMAIN spools |->
            [columns |-> layout.pageSpecs[h],
             file |-> BuildPageFile(kind, ExternalSort(spools[h], MaxSort), Keyspace(layout.pageSpecs[h]), pageId)]]
      BY <1>9 DEF FinishBuild
    <2>2. /\ phase = "stream" /\ phase' = "index" /\ read = Len(table) /\ carry = <<>>
          /\ UNCHANGED <<table, layout, rowStart, pageId, rowHier>>
      BY <1>9 DEF FinishBuild
    <2>3. rowStart = Len(table) /\ SpoolsOK
      BY <1>1, <1>2, <2>2 DEF BuildFacts, HierOK
    <2>4. \A h \in DOMAIN layout.pageSpecs :
             ExternalSort(spools[h], MaxSort) = Sorted(PageRecords(layout.pageSpecs[h], Len(table)))
      <3>1. MaxSort \in Nat \ {0}
        BY EngineConstants
      <3>2. QED BY <2>3, <3>1, SortedInput DEF SpoolsOK
    <2>5. pageHier' = PageIndexes(kind)
      BY <2>1, <2>3, <2>4 DEF PageIndexes, PageIndex, SpoolsOK
    <2>6. pageHier' = PageIndexes(kind)' /\ rowHier' = ExactIndexes(m)'
      BY <1>3, <2>2, <2>5, IndexesStay
    <2>7. m \in 0..Len(layout.exact)'
      BY <2>2
    <2>8. QED BY <2>2, <2>6, <2>7 DEF HierOK
  <1>10. CASE AddIndex
    <2> DEFINE next == layout.exact[Len(rowHier) + 1]
               sorted == ExternalSort(ExactSpool(next.columns), MaxSort)
    <2>1. /\ phase = "index" /\ Len(rowHier) < Len(layout.exact)
          /\ UNCHANGED <<table, layout, phase, rowStart, pageId, pageHier>>
          /\ rowHier' = Append(rowHier, [columns |-> next.columns,
                          file |-> BuildRowFile(next.kind, sorted, Keyspace(next.columns), rowStart)])
      BY <1>10 DEF AddIndex
    <2>2. Len(rowHier) = m
      <3> DEFINE V == {ExactIndex(layout.exact[h]) : h \in 1..m}
      <3>1. ExactIndexes(m) \in [1..m -> V]
        BY DEF ExactIndexes
      <3> HIDE DEF V
      <3>2. QED BY <1>3, <1>4, <3>1, SeqFrom
    <2>3. next = layout.exact[m + 1] /\ m + 1 \in 1..Len(layout.exact) /\ next.columns \in IndexColumns
      BY <1>2, <1>4, <2>1, <2>2, LayoutFacts
    <2>4. rowStart = Len(table)
      BY <1>1, <2>1 DEF BuildOK
    <2>5. sorted = Sorted(RowRecords(next.columns, Len(table)))
      <3>1. PICK columns \in IndexColumns : columns = next.columns
        BY <2>3
      <3>2. ExactSpool(columns) \in Seq(Records) /\ ToSet(ExactSpool(columns)) = RowRecords(columns, rowStart)
        BY <1>1, SpoolHoldsRows
      <3>3. MaxSort \in Nat \ {0}
        BY EngineConstants
      <3>4. ExternalSort(ExactSpool(columns), MaxSort) = Sorted(ToSet(ExactSpool(columns)))
        BY <3>2, <3>3, SortedInput
      <3>5. QED BY <2>4, <3>1, <3>2, <3>4
    <2>6. rowHier' = Append(ExactIndexes(m), ExactIndex(layout.exact[m + 1]))
      BY <1>3, <2>1, <2>3, <2>4, <2>5 DEF ExactIndex
    <2> HIDE DEF next, sorted
    <2>7. rowHier' = ExactIndexes(m + 1)
      BY <1>4, <2>6, MoreIndexes
    <2>8. rowHier' = ExactIndexes(m + 1)' /\ \A kind : PageIndexes(kind)' = PageIndexes(kind)
      BY <2>1, <2>7, IndexesStay
    <2>9. m + 1 \in 0..Len(layout.exact)'
      BY <1>4, <2>1, <2>3
    <2>10. QED BY <1>1, <2>1, <2>8, <2>9 DEF HierOK
  <1>11. CASE OpenEngine
    <2>1. /\ phase = "index" /\ phase' = "serve" /\ Len(rowHier) = Len(layout.exact)
          /\ UNCHANGED <<table, layout, rowStart, pageId, pageHier, rowHier>>
      BY <1>11 DEF OpenEngine
    <2>2. Len(rowHier) = m
      <3> DEFINE V == {ExactIndex(layout.exact[h]) : h \in 1..m}
      <3>1. ExactIndexes(m) \in [1..m -> V]
        BY DEF ExactIndexes
      <3> HIDE DEF V
      <3>2. QED BY <1>3, <1>4, <3>1, SeqFrom
    <2>3. rowHier' = ExactIndexes(m)' /\ (\A kind : PageIndexes(kind)' = PageIndexes(kind)) /\ m = Len(layout.exact)'
      BY <1>3, <2>1, <2>2, IndexesStay
    <2>4. QED BY <1>1, <2>1, <2>3 DEF HierOK
  <1>12. CASE Ask \/ StreamBatch \/ TakeAnswer \/ UNCHANGED vars
    BY <1>6, <1>12 DEF Ask, StreamBatch, TakeAnswer, vars
  <1>13. QED BY <1>1, <1>7, <1>8, <1>9, <1>10, <1>11, <1>12 DEF Next

\* The invariant of spools and indexes (builder.rs, exact.rs): a spool holds the key and row, or key
\* and page, of every row written; an index is built of its sorted spool.
THEOREM HierInvariant == Spec => [](BuildOK /\ HierOK)
  <1>1. Init => BuildOK /\ HierOK
    BY InitBuild, InitHier
  <1>2. BuildOK /\ HierOK /\ [Next]_vars => (BuildOK /\ HierOK)'
    BY NextKeepsBuild, NextKeepsHier
  <1>3. QED BY <1>1, <1>2, PTL DEF Spec

----------------------------------------------------------------------------
(* The question.                                                           *)

QueryShape ==
    \/ query = NoQuery
    \/ \E request, selected, cursor, out :
          query = [status |-> "streaming", request |-> request, selected |-> selected,
                   cursor |-> cursor, out |-> out]
    \/ \E request, answer : query = Answered(request, answer)

\* Every step keeps the shape of the query.
LEMMA NextKeepsShape == QueryShape /\ [Next]_vars => QueryShape'
  <1>1. SUFFICES ASSUME QueryShape, [Next]_vars PROVE QueryShape'
    OBVIOUS
  <1>2. CASE Ask
    <2>1. PICK request \in Requests :
             \/ query' = Answered(request, [ids |-> <<>>])
             \/ \E answer : query' = Answered(request, answer)
             \/ \E selected : query' = [status |-> "streaming", request |-> request, selected |-> selected,
                                        cursor |-> request.first, out |-> <<>>]
      BY <1>2 DEF Ask
    <2>2. QED BY <2>1 DEF QueryShape, Answered
  <1>3. CASE StreamBatch
    <2>1. query.status = "streaming" /\ (\/ \E answer : query' = Answered(query.request, answer)
                                         \/ \E x, y : query' = [query EXCEPT !.out = x, !.cursor = y])
      BY <1>3 DEF StreamBatch
    <2>2. PICK request, selected, cursor, out :
             query = [status |-> "streaming", request |-> request, selected |-> selected,
                      cursor |-> cursor, out |-> out]
      <3>1. NoQuery.status # "streaming" /\ \A r, a : Answered(r, a).status # "streaming"
        BY DEF NoQuery, Answered
      <3>2. query # NoQuery /\ \A r, a : query # Answered(r, a)
        BY <2>1, <3>1
      <3>3. QED BY <1>1, <3>2, Zenon DEF QueryShape
    <2>3. CASE \E answer : query' = Answered(query.request, answer)
      BY <2>3 DEF QueryShape, Answered
    <2>4. CASE \E x, y : query' = [query EXCEPT !.out = x, !.cursor = y]
      <3>1. PICK x, y : query' = [query EXCEPT !.out = x, !.cursor = y]
        BY <2>4
      <3>2. query' = [status |-> "streaming", request |-> request, selected |-> selected,
                      cursor |-> y, out |-> x]
        BY <2>2, <3>1
      <3>3. QED BY <3>2 DEF QueryShape
    <2>5. QED BY <2>1, <2>3, <2>4
  <1>4. CASE TakeAnswer
    BY <1>4 DEF TakeAnswer, QueryShape, NoQuery
  <1>5. CASE UNCHANGED query
    BY <1>1, <1>5 DEF QueryShape, NoQuery, Answered
  <1>6. QED BY <1>1, <1>2, <1>3, <1>4, <1>5 DEF Next, PushBatch, FlushCarry, FinishBuild, AddIndex, OpenEngine, vars

\* The three invariants give every variable its type.
LEMMA TypesHold == BuildOK /\ HierOK /\ QueryShape => TypeOK
  <1>1. SUFFICES ASSUME BuildOK, HierOK, QueryShape PROVE TypeOK
    OBVIOUS
  <1>2. BuildFacts /\ layout \in Layouts
    BY <1>1, BuildKnown DEF BuildOK
  <1>3. Len(carry) < PageRows
    BY <1>1, <1>2 DEF BuildOK, BuildFacts
  <1>4. \A h \in DOMAIN rowHier : rowHier[h].file.kind \in ExactKinds(rowHier[h].columns)
    <2>1. PICK m \in 0..Len(layout.exact) : rowHier = ExactIndexes(m)
      BY <1>1 DEF HierOK
    <2>2. SUFFICES ASSUME NEW h \in 1..m
                   PROVE  ExactIndex(layout.exact[h]).file.kind \in ExactKinds(ExactIndex(layout.exact[h]).columns)
      BY <2>1 DEF ExactIndexes
    <2>3. h \in 1..Len(layout.exact)
      BY <1>2, LayoutFacts
    <2>4. PICK next : next = layout.exact[h]
      OBVIOUS
    <2>5. next.kind \in ExactKinds(next.columns) /\ next.kind \in RowKinds
      BY <1>2, <2>3, <2>4, LayoutFacts
    <2>6. \A sorted, keyspace, rows : BuildRowFile(next.kind, sorted, keyspace, rows).kind = next.kind
      BY <2>5 DEF BuildRowFile, RowKinds, ListKinds
    <2>7. QED BY <2>4, <2>5, <2>6 DEF ExactIndex
  <1>5. \A h \in DOMAIN pageHier : pageHier[h].file.kind \in PageKinds
    <2>1. CASE phase = "stream"
      BY <1>1, <2>1 DEF HierOK
    <2>2. CASE phase # "stream"
      <3>1. PICK kind \in PageKinds : pageHier = PageIndexes(kind)
        BY <1>1, <2>2 DEF HierOK
      <3>2. \A sorted, keyspace, pages : BuildPageFile(kind, sorted, keyspace, pages).kind = kind
        BY <3>1 DEF BuildPageFile, PageKinds
      <3>3. QED BY <3>1, <3>2 DEF PageIndexes, PageIndex
    <2>3. QED BY <2>1, <2>2
  <1>6. query.status \in {"none", "streaming", "done"}
    BY <1>1 DEF QueryShape, NoQuery, Answered
  <1>7. QED BY <1>1, <1>2, <1>3, <1>4, <1>5, <1>6 DEF TypeOK, BuildOK

\* Every variable has its type in every reachable state.
THEOREM TypeCorrect == Spec => []TypeOK
  <1>1. Init => QueryShape
    BY DEF Init, QueryShape
  <1>2. QED BY <1>1, HierInvariant, NextKeepsShape, TypesHold, PTL DEF Spec

----------------------------------------------------------------------------
(* The indexes are exact.                                                  *)

(* The rows of the table whose key under an index is this one.             *)
RowsWith(columns, key) == {row \in 0..(Len(table) - 1) : MixedRadixKey(columns, table[row + 1]) = key}

(* The records an index is built from: one per row, with a key below its keyspace. *)
LEMMA RecordsOfRows ==
    ASSUME table \in Tables, NEW columns \in IndexColumns
    PROVE  LET R == RowRecords(columns, Len(table))
               s == Sorted(R)
           IN /\ PairSet(R) /\ s \in Seq(Records) /\ InSequence(s) /\ ToSet(s) = R
              /\ OnePerRow(s, Keyspace(columns), Len(table))
              /\ \A key : KeyRows(R, key) = RowsWith(columns, key)
  <1> DEFINE n == Len(table)
             R == RowRecords(columns, n)
             s == Sorted(R)
             K(row) == MixedRadixKey(columns, table[row + 1])
             space == Keyspace(columns)
  <1>1. n \in Nat \ {0}
    BY TableRows
  <1>2. \A row \in 0..(n - 1) : K(row) \in Nat /\ K(row) < space
    BY TableFits
  <1>3. space \in Nat
    <2>1. 0 \in 0..(n - 1)
      BY <1>1
    <2>2. Fits(columns, table[0 + 1])
      BY <2>1, TableFits
    <2>3. QED BY <2>2, KeyBound
  <1>4. R = {<<K(row), row>> : row \in 0..(n - 1)}
    BY DEF RowRecords
  <1> HIDE DEF n, K, space, R
  <1>5. PairSet(R)
    <2>1. R \subseteq Records
      BY <1>1, <1>2, <1>4 DEF Records
    <2>2. IsFiniteSet(0..(n - 1))
      BY <1>1, FS_Interval
    <2> DEFINE f == [row \in 0..(n - 1) |-> <<K(row), row>>]
    <2>3. R = {f[row] : row \in 0..(n - 1)}
      BY <1>4
    <2>4. f \in Surjection(0..(n - 1), R)
      BY <2>3 DEF Surjection
    <2> HIDE DEF f
    <2>5. IsFiniteSet(R)
      BY <2>2, <2>4, FS_Surjection
    <2>6. QED BY <2>1, <2>5 DEF PairSet
  <1>6. s \in Seq(Records) /\ InSequence(s) /\ ToSet(s) = R
    BY <1>5, SortedFacts
  <1> HIDE DEF s
  <1>7. Len(s) \in Nat /\ DOMAIN s = 1..Len(s) /\ {s[i] : i \in 1..Len(s)} = R
    BY <1>6 DEF ToSet
  <1>8. \A i \in 1..Len(s) : s[i][2] \in 0..(n - 1) /\ s[i][1] = K(s[i][2])
    <2>1. \A p \in R : p[2] \in 0..(n - 1) /\ p[1] = K(p[2])
      BY <1>4
    <2>2. QED BY <1>7, <2>1
  <1>9. OnePerRow(s, space, n)
    <2>1. \A i \in 1..Len(s) : s[i][1] \in 0..(space - 1) /\ s[i][2] \in 0..(n - 1)
      <3>1. \A row \in 0..(n - 1) : K(row) \in 0..(space - 1)
        BY <1>2, <1>3
      <3>2. QED BY <1>8, <3>1
    <2>2. \A row \in 0..(n - 1) : \E i \in 1..Len(s) : s[i][2] = row
      <3>1. SUFFICES ASSUME NEW row \in 0..(n - 1) PROVE \E i \in 1..Len(s) : s[i][2] = row
        OBVIOUS
      <3>2. <<K(row), row>> \in R
        BY <1>4
      <3>3. PICK i \in 1..Len(s) : s[i] = <<K(row), row>>
        BY <1>7, <3>2
      <3>4. QED BY <3>3
    <2>3. \A i, j \in 1..Len(s) : s[i][2] = s[j][2] => s[i][1] = s[j][1]
      BY <1>8
    <2>4. QED BY <1>1, <1>3, <2>1, <2>2, <2>3 DEF OnePerRow
  <1>10. ASSUME NEW key PROVE KeyRows(R, key) = RowsWith(columns, key)
    <2>1. KeyRows(R, key) = {row \in 0..(n - 1) : K(row) = key}
      <3>1. \A p \in R : p[2] \in 0..(n - 1) /\ p[1] = K(p[2])
        BY <1>4
      <3>2. \A row \in 0..(n - 1) : <<K(row), row>> \in R
        BY <1>4
      <3>3. KeyRows(R, key) \subseteq {row \in 0..(n - 1) : K(row) = key}
        BY <3>1 DEF KeyRows
      <3>4. ASSUME NEW row \in 0..(n - 1), K(row) = key PROVE row \in KeyRows(R, key)
        <4>1. <<K(row), row>> \in {q \in R : q[1] = key}
          BY <3>2, <3>4
        <4>2. <<K(row), row>>[2] = row
          OBVIOUS
        <4>3. QED BY <4>1, <4>2 DEF KeyRows
      <3>5. QED BY <3>3, <3>4
    <2>2. QED BY <2>1 DEF RowsWith, n, K
  <1>11. QED BY <1>5, <1>6, <1>9, <1>10 DEF n, R, s, space

(* Every exact index answers every key with the rows of the table.         *)
THEOREM ExactAnswers ==
    ASSUME table \in Tables, NEW next, next.columns \in IndexColumns, next.kind \in RowKinds, NEW key \in Nat
    PROVE  AnswersKey(ExactIndex(next).file, key, RowsWith(next.columns, key))
  <1> DEFINE columns == next.columns
             R == RowRecords(columns, Len(table))
             s == Sorted(R)
             space == Keyspace(columns)
             n == Len(table)
             file == ExactIndex(next).file
  <1>1. /\ s \in Seq(Records) /\ InSequence(s) /\ ToSet(s) = R /\ OnePerRow(s, space, n)
        /\ KeyRows(ToSet(s), key) = RowsWith(columns, key)
    BY RecordsOfRows
  <1>2. file = BuildRowFile(next.kind, s, space, n)
    BY DEF ExactIndex
  <1> HIDE DEF columns, R, s, space, n, file
  <1>3. key \in Int /\ space \in Nat /\ \A i \in 1..Len(s) : s[i][1] \in Nat /\ s[i][1] < space
    <2>1. space \in Nat /\ \A i \in 1..Len(s) : s[i][1] \in 0..(space - 1)
      BY <1>1 DEF OnePerRow
    <2>2. QED BY <2>1
  <1>4. CASE next.kind = "postings"
    <2>1. file.kind = "postings" /\ file.dir = Directory(s) /\ file.body = Second(s)
      BY <1>2, <1>4 DEF BuildRowFile
    <2>2. Brackets(s, key, ListBounds(file, key))
      BY <1>1, <1>3, <2>1, PostingsBounds
    <2>3. file.kind \in ListKinds
      BY <2>1 DEF ListKinds
    <2>4. QED BY <1>1, <1>3, <2>1, <2>2, <2>3, ListsAnswer DEF file, columns
  <1>5. CASE next.kind = "densepost"
    <2>1. file.kind = "densepost" /\ file.offsets = Offsets(s, space) /\ file.body = Second(s)
      BY <1>2, <1>5 DEF BuildRowFile
    <2>2. Brackets(s, key, ListBounds(file, key))
      BY <1>1, <1>3, <2>1, DenseBounds
    <2>3. file.kind \in ListKinds
      BY <2>1 DEF ListKinds
    <2>4. QED BY <1>1, <1>3, <2>1, <2>2, <2>3, ListsAnswer DEF file, columns
  <1>6. CASE next.kind = "flatpost"
    <2>1. file.kind = "flatpost" /\ file.records = s /\ file.body = Second(s)
      BY <1>2, <1>6 DEF BuildRowFile
    <2>2. Brackets(s, key, ListBounds(file, key))
      BY <1>1, <1>3, <2>1, FlatBounds
    <2>3. file.kind \in ListKinds
      BY <2>1 DEF ListKinds
    <2>4. QED BY <1>1, <1>3, <2>1, <2>2, <2>3, ListsAnswer DEF file, columns
  <1>7. CASE next.kind = "deltapost"
    <2>1. file.kind = "deltapost" /\ file.groups = DeltaGroups(s)
      BY <1>2, <1>7 DEF BuildRowFile
    <2>2. QED BY <1>1, <1>3, <2>1, DeltaAnswers DEF file, columns
  <1>8. CASE next.kind = "bitslice"
    <2>1. SliceFile(file, s, space, n)
      BY <1>2, <1>8 DEF BuildRowFile, SliceFile
    <2>2. QED BY <1>1, <2>1, SlicesAnswer DEF file, columns
  <1>9. QED BY <1>4, <1>5, <1>6, <1>7, <1>8 DEF RowKinds, ListKinds

(* The page of a row.                                                      *)
LEMMA PageBelow ==
    ASSUME NEW n \in Nat, NEW row \in 0..(n - 1)
    PROVE  row \div PageRows \in 0..(CeilDiv(n, PageRows) - 1)
  <1> DEFINE q == row \div PageRows
  <1>1. PageRows \in Nat \ {0}
    BY EngineConstants
  <1>2. row + 1 \in 1..n /\ (row + 1) - 1 = row
    OBVIOUS
  <1>3. q \in Nat /\ q + 1 \in 1..CeilDiv(n, PageRows)
    <2>1. ((row + 1) - 1) \div PageRows \in Nat /\ ((row + 1) - 1) \div PageRows + 1 \in 1..CeilDiv(n, PageRows)
      BY <1>1, <1>2, ChunkOf
    <2>2. QED BY <1>2, <2>1
  <1>4. CeilDiv(n, PageRows) \in Nat
    BY <1>1, CeilDivBounds
  <1> HIDE DEF q
  <1>5. q \in 0..(CeilDiv(n, PageRows) - 1)
    BY <1>3, <1>4
  <1>6. QED BY <1>5 DEF q

(* Every page hierarchy lists the pages of every key.                      *)
THEOREM PageAnswers ==
    ASSUME table \in Tables, pageId = CeilDiv(Len(table), PageRows), NEW columns \in IndexColumns,
           NEW kind \in PageKinds, NEW key \in Nat
    PROVE  LET pages == {row \div PageRows : row \in RowsWith(columns, key)}
           IN IdSet(pages) /\ PagesOf(PageIndex(kind, columns).file, key) = Ascending(pages)
  <1> DEFINE n == Len(table)
             R == PageRecords(columns, n)
             s == Sorted(R)
             K(row) == MixedRadixKey(columns, table[row + 1])
             P(row) == row \div PageRows
             space == Keyspace(columns)
             pages == {P(row) : row \in RowsWith(columns, key)}
             file == PageIndex(kind, columns).file
  <1>1. n \in Nat \ {0}
    BY TableRows
  <1>2. \A row \in 0..(n - 1) : K(row) \in Nat /\ K(row) < space
    BY TableFits
  <1>3. \A row \in 0..(n - 1) : P(row) \in 0..(pageId - 1)
    BY <1>1, PageBelow
  <1>4. space \in Nat
    <2>1. 0 \in 0..(n - 1)
      BY <1>1
    <2>2. Fits(columns, table[0 + 1])
      BY <2>1, TableFits
    <2>3. QED BY <2>2, KeyBound
  <1>5. pageId \in Nat
    BY <1>1, EngineConstants, CeilDivBounds
  <1>6. R = {<<K(row), P(row)>> : row \in 0..(n - 1)}
    BY DEF PageRecords
  <1>7. file = BuildPageFile(kind, s, space, pageId)
    BY DEF PageIndex
  <1>8. RowsWith(columns, key) = {row \in 0..(n - 1) : K(row) = key}
    BY DEF RowsWith
  <1> HIDE DEF n, K, P, space, R, file
  <1>9. PairSet(R)
    <2>1. R \subseteq Records
      <3>1. \A row \in 0..(n - 1) : K(row) \in Int /\ P(row) \in Int
        BY <1>2, <1>3, <1>5
      <3>2. QED BY <1>6, <3>1 DEF Records
    <2>2. IsFiniteSet(0..(n - 1))
      BY <1>1, FS_Interval
    <2> DEFINE f == [row \in 0..(n - 1) |-> <<K(row), P(row)>>]
    <2>3. R = {f[row] : row \in 0..(n - 1)}
      BY <1>6
    <2>4. f \in Surjection(0..(n - 1), R)
      BY <2>3 DEF Surjection
    <2> HIDE DEF f
    <2>5. IsFiniteSet(R)
      BY <2>2, <2>4, FS_Surjection
    <2>6. QED BY <2>1, <2>5 DEF PairSet
  <1>10. s \in Seq(Records) /\ InSequence(s) /\ ToSet(s) = R
    BY <1>9, SortedFacts
  <1> HIDE DEF s
  <1>11. \A i \in 1..Len(s) : s[i][1] \in 0..(space - 1) /\ s[i][2] \in 0..(pageId - 1)
    <2>1. \A row \in 0..(n - 1) : K(row) \in 0..(space - 1)
      BY <1>2, <1>4
    <2>2. \A p \in R : p[1] \in 0..(space - 1) /\ p[2] \in 0..(pageId - 1)
      BY <1>3, <1>6, <2>1
    <2>3. \A i \in 1..Len(s) : s[i] \in R
      BY <1>10 DEF ToSet
    <2>4. QED BY <2>2, <2>3
  <1>12. KeyRows(R, key) = pages
    <2>1. \A p \in R : p[1] = key => p[2] \in pages
      <3>1. SUFFICES ASSUME NEW row \in 0..(n - 1), K(row) = key PROVE P(row) \in pages
        BY <1>6
      <3>2. row \in RowsWith(columns, key)
        BY <1>8, <3>1
      <3>3. QED BY <3>2
    <2>2. \A x \in pages : \E p \in R : p[1] = key /\ p[2] = x
      <3>1. SUFFICES ASSUME NEW row \in RowsWith(columns, key) PROVE \E p \in R : p[1] = key /\ p[2] = P(row)
        OBVIOUS
      <3>2. <<K(row), P(row)>> \in R /\ K(row) = key
        BY <1>6, <1>8
      <3>3. QED BY <3>2
    <2> HIDE DEF pages
    <2>3. QED BY <2>1, <2>2 DEF KeyRows
  <1>13. PageFile(file, kind, s, space, pageId)
    BY <1>7 DEF PageFile
  <1> HIDE DEF pages
  <1>14. IdSet(KeyRows(ToSet(s), key)) /\ PagesOf(file, key) = Ascending(KeyRows(ToSet(s), key))
    <2>1. key \in Nat
      OBVIOUS
    <2>2. KeysAndPages(s, space, pageId)
      BY <1>11 DEF KeysAndPages
    <2>3. QED BY <1>4, <1>5, <1>10, <1>13, <2>1, <2>2, PagesAnswer
  <1>15. IdSet(pages) /\ PagesOf(file, key) = Ascending(pages)
    BY <1>10, <1>12, <1>14
  <1>16. QED BY <1>15 DEF pages, file, P

(* What the two invariants say of the indexes while they are built.        *)
THEOREM IndexesHold == BuildOK /\ HierOK => IndexesExact
  <1>1. SUFFICES ASSUME BuildOK, HierOK, phase = "index" PROVE IndexesExact
    BY DEF IndexesExact
  <1> DEFINE rows == 0..(Len(table) - 1)
  <1>2. table \in Tables /\ layout \in Layouts /\ Len(table) \in Nat
    BY <1>1, TableRows DEF BuildOK
  <1>3. pageId = CeilDiv(Len(table), PageRows)
    BY <1>1 DEF BuildOK
  <1>4. PICK m \in 0..Len(layout.exact) : rowHier = ExactIndexes(m)
    BY <1>1 DEF HierOK
  <1>5. PICK kind \in PageKinds : pageHier = PageIndexes(kind)
    BY <1>1 DEF HierOK
  <1>6. ASSUME rowHier # <<>>, NEW key \in 0..Keyspace(Last(rowHier).columns)
        PROVE  AnswersKey(Last(rowHier).file, key, RowsWith(Last(rowHier).columns, key))
    <2>1. m \in Nat /\ m # 0 /\ m \in 1..Len(layout.exact) /\ Len(rowHier) = m
      <3>1. Len(layout.exact) \in Nat
        BY <1>2, LayoutFacts
      <3>2. m \in Nat
        BY <3>1
      <3>3. Len(rowHier) = m
        BY <1>4, <3>2 DEF ExactIndexes
      <3>4. m # 0
        BY <1>4, <1>6, NoIndexes
      <3>5. QED BY <3>1, <3>2, <3>3, <3>4
    <2> DEFINE next == layout.exact[m]
    <2>2. Last(rowHier) = ExactIndex(next)
      BY <1>4, <2>1 DEF Last, ExactIndexes
    <2>3. next.columns \in IndexColumns /\ next.kind \in RowKinds
      BY <1>2, <2>1, LayoutFacts
    <2>4. Last(rowHier).columns = next.columns
      BY <2>2 DEF ExactIndex
    <2> HIDE DEF next
    <2>5. Keyspace(next.columns) \in Nat
      <3>1. 0 \in 0..(Len(table) - 1)
        BY <1>2, TableRows
      <3>2. Fits(next.columns, table[0 + 1])
        BY <1>2, <2>3, <3>1, TableFits
      <3>3. QED BY <2>3, <3>2, KeyBound
    <2>6. key \in Nat
      BY <1>6, <2>4, <2>5
    <2>7. AnswersKey(ExactIndex(next).file, key, RowsWith(next.columns, key))
      BY <1>2, <2>3, <2>6, ExactAnswers
    <2>8. QED BY <2>2, <2>4, <2>7
  <1>7. ASSUME NEW seed \in SUBSET rows PROVE seed \in SUBSET Nat /\ IsFiniteSet(seed)
    <2>1. IsFiniteSet(rows)
      BY <1>2, FS_Interval
    <2>2. IsFiniteSet(seed)
      <3> HIDE DEF rows
      <3>1. QED BY <2>1, FS_Subset
    <2>3. QED BY <2>2
  <1>8. ASSUME NEW h \in DOMAIN pageHier, NEW key \in 0..Keyspace(pageHier[h].columns)
        PROVE  PagesOf(pageHier[h].file, key)
                 = Ascending({row \div PageRows : row \in RowsWith(pageHier[h].columns, key)})
    <2> DEFINE columns == layout.pageSpecs[h]
    <2>1. h \in DOMAIN layout.pageSpecs /\ pageHier[h] = PageIndex(kind, columns)
      BY <1>5 DEF PageIndexes
    <2>2. columns \in IndexColumns
      BY <1>2, <2>1, LayoutFacts
    <2>3. pageHier[h].columns = columns
      BY <2>1 DEF PageIndex
    <2> HIDE DEF columns
    <2>4. Keyspace(columns) \in Nat
      <3>1. 0 \in 0..(Len(table) - 1)
        BY <1>2, TableRows
      <3>2. Fits(columns, table[0 + 1])
        BY <1>2, <2>2, <3>1, TableFits
      <3>3. QED BY <2>2, <3>2, KeyBound
    <2>5. key \in Nat
      BY <1>8, <2>3, <2>4
    <2>6. PagesOf(PageIndex(kind, columns).file, key)
            = Ascending({row \div PageRows : row \in RowsWith(columns, key)})
      BY <1>2, <1>3, <2>2, <2>5, PageAnswers
    <2>7. QED BY <2>1, <2>3, <2>6
  <1>9. ASSUME rowHier # <<>>, NEW key \in 0..Keyspace(Last(rowHier).columns)
        PROVE  LET index == Last(rowHier)
                   all == {row \in rows : MixedRadixKey(index.columns, table[row + 1]) = key}
               IN /\ RowCount(index.file, key) = Cardinality(all)
                  /\ \A first \in 0..Len(table), limit \in 1..Len(table) :
                        RowsFrom(index.file, key, first, limit) = Take(Ascending({r \in all : r >= first}), limit)
                  /\ \A seed \in SUBSET rows :
                        IntersectRows(index.file, key, Ascending(seed)) = Ascending(seed \cap all)
    <2> DEFINE index == Last(rowHier)
               all == RowsWith(index.columns, key)
    <2>1. AnswersKey(index.file, key, all)
      BY <1>6, <1>9
    <2>2. all = {row \in rows : MixedRadixKey(index.columns, table[row + 1]) = key}
      BY DEF RowsWith
    <2> HIDE DEF index, all
    <2>3. RowCount(index.file, key) = Cardinality(all)
      BY <2>1 DEF AnswersKey
    <2>4. \A first \in 0..Len(table), limit \in 1..Len(table) :
                        RowsFrom(index.file, key, first, limit) = Take(Ascending({r \in all : r >= first}), limit)
      <3>1. \A first \in 0..Len(table), limit \in 1..Len(table) : first \in Nat /\ limit \in Nat
        BY <1>2
      <3>2. QED BY <2>1, <3>1 DEF AnswersKey
    <2>5. \A seed \in SUBSET rows : IntersectRows(index.file, key, Ascending(seed)) = Ascending(seed \cap all)
      BY <1>7, <2>1 DEF AnswersKey
    <2>6. QED BY <2>2, <2>3, <2>4, <2>5 DEF index
  <1>10. QED BY <1>8, <1>9 DEF IndexesExact, RowsWith

\* Every index answers every key exactly: count, rows from a row on, intersection with a list, and pages.
THEOREM IndexesCorrect == Spec => []IndexesExact
  <1>1. Spec => [](BuildOK /\ HierOK)
    BY HierInvariant
  <1>2. BuildOK /\ HierOK => IndexesExact
    BY IndexesHold
  <1>3. QED BY <1>1, <1>2, PTL

----------------------------------------------------------------------------
(* What a question selects.                                                *)

Preds == Seq([column : Nat, value : Nat])

PredValue(preds, c) == preds[CHOOSE i \in DOMAIN preds : preds[i].column = c].value

(* The rows whose values in some columns are those asked for; the rows that match. *)
RowsOn(preds, C) == {row \in 0..(Len(table) - 1) : \A c \in C : table[row + 1][c] = PredValue(preds, c)}

MatchSet(preds) ==
    {row \in 0..(Len(table) - 1) : \A p \in DOMAIN preds :
        preds[p].column \in ColumnIds /\ table[row + 1][preds[p].column] = preds[p].value}

(* A set of rows of the table.                                             *)
RowSet(A) == A \in SUBSET (0..(Len(table) - 1)) /\ A \in SUBSET Nat /\ IdSet(A) /\ IsFiniteSet(A)

\* A part of the table's row numbers is a finite set of rows.
LEMMA SomeRows ==
    ASSUME table \in Tables, NEW A \in SUBSET (0..(Len(table) - 1))
    PROVE  RowSet(A)
  <1>1. Len(table) \in Nat
    BY TableRows
  <1>2. IsFiniteSet(0..(Len(table) - 1))
    BY <1>1, FS_Interval
  <1>3. IsFiniteSet(A)
    BY <1>2, FS_Subset
  <1>4. A \subseteq Int /\ A \in SUBSET Nat
    BY <1>1
  <1>5. QED BY <1>3, <1>4 DEF RowSet, IdSet

\* The rows that match, and the answer that lists them in ascending order.
LEMMA SelectedRows ==
    ASSUME table \in Tables, NEW preds, NEW C
    PROVE  /\ RowSet(RowsOn(preds, C)) /\ RowSet(MatchSet(preds))
           /\ Matching(preds) = Ascending(MatchSet(preds))
  <1>1. RowsOn(preds, C) \in SUBSET (0..(Len(table) - 1))
    BY DEF RowsOn
  <1>2. MatchSet(preds) \in SUBSET (0..(Len(table) - 1))
    BY DEF MatchSet
  <1>3. Matching(preds) = Ascending(MatchSet(preds))
    BY DEF Matching, MatchSet
  <1>4. QED BY <1>1, <1>2, <1>3, SomeRows

(* More columns select fewer rows.                                         *)
LEMMA RowsOnMore ==
    ASSUME NEW preds, NEW C, NEW D
    PROVE  /\ RowsOn(preds, C \cup D) = RowsOn(preds, C) \cap RowsOn(preds, D)
           /\ C \subseteq D => RowsOn(preds, D) \subseteq RowsOn(preds, C)
  BY DEF RowsOn

(* A question that cannot be satisfied selects nothing.                    *)
LEMMA Unsatisfied ==
    ASSUME table \in Tables, NEW preds \in Preds, ~ Satisfiable(preds)
    PROVE  MatchSet(preds) = {}
  <1>1. SUFFICES ASSUME NEW row \in 0..(Len(table) - 1),
                        \A p \in DOMAIN preds : /\ preds[p].column \in ColumnIds
                                                /\ table[row + 1][preds[p].column] = preds[p].value
                 PROVE  FALSE
    BY DEF MatchSet
  <1>2. Len(table) \in Nat /\ \A i \in 1..Len(table), c \in ColumnIds : table[i][c] < Card[c]
    BY TableRows
  <1>3. row + 1 \in 1..Len(table)
    BY <1>2
  <1>4. \A p \in DOMAIN preds : preds[p].column \in ColumnIds /\ preds[p].value < Card[preds[p].column]
    BY <1>1, <1>2, <1>3
  <1>5. \A p, q \in DOMAIN preds : preds[p].column = preds[q].column => preds[p].value = preds[q].value
    <2>1. \A p, q \in DOMAIN preds : preds[p].column = preds[q].column =>
             /\ table[row + 1][preds[p].column] = preds[p].value
             /\ table[row + 1][preds[p].column] = preds[q].value
      BY <1>1
    <2>2. QED BY <2>1
  <1>6. Satisfiable(preds)
    BY <1>4, <1>5, Zenon DEF Satisfiable
  <1>7. QED BY <1>6

(* The value asked for in a column is one of the column's.                 *)
LEMMA ValueAsked ==
    ASSUME NEW preds \in Preds, Satisfiable(preds)
    PROVE  /\ Constrained(preds) \subseteq ColumnIds
           /\ \A c \in Constrained(preds) : PredValue(preds, c) \in 0..(Card[c] - 1)
           /\ \A p \in DOMAIN preds : PredValue(preds, preds[p].column) = preds[p].value
  <1>1. /\ \A i \in DOMAIN preds : preds[i].column \in ColumnIds /\ preds[i].value < Card[preds[i].column]
        /\ \A i, j \in DOMAIN preds : preds[i].column = preds[j].column => preds[i].value = preds[j].value
    BY DEF Satisfiable
  <1>2. \A p \in DOMAIN preds : preds[p] \in [column : Nat, value : Nat]
    <2> DEFINE Q == [column : Nat, value : Nat]
    <2>1. preds \in Seq(Q)
      BY DEF Preds
    <2> HIDE DEF Q
    <2>2. \A p \in DOMAIN preds : preds[p] \in Q
      BY <2>1
    <2>3. QED BY <2>2 DEF Q
  <1>3. ASSUME NEW p \in DOMAIN preds
        PROVE  PredValue(preds, preds[p].column) = preds[p].value
    <2> DEFINE c == preds[p].column
               i == CHOOSE k \in DOMAIN preds : preds[k].column = c
    <2>1. \E k \in DOMAIN preds : preds[k].column = c
      BY <1>3
    <2>2. i \in DOMAIN preds /\ preds[i].column = c
      BY <2>1
    <2>3. PredValue(preds, c) = preds[i].value
      BY DEF PredValue
    <2> HIDE DEF i
    <2>4. preds[i].value = preds[p].value
      BY <1>1, <2>2
    <2>5. QED BY <2>3, <2>4
  <1>4. \A c \in Constrained(preds) : \E p \in DOMAIN preds : c = preds[p].column
    BY DEF Constrained
  <1>5. ASSUME NEW c \in Constrained(preds) PROVE PredValue(preds, c) \in 0..(Card[c] - 1)
    <2>1. PICK p \in DOMAIN preds : c = preds[p].column
      BY <1>4
    <2>2. PredValue(preds, c) = preds[p].value /\ preds[p].value \in Nat /\ preds[p].value < Card[c] /\ c \in ColumnIds
      BY <1>1, <1>2, <1>3, <2>1
    <2>3. Card[c] \in Nat
      BY <2>2, EngineConstants
    <2> DEFINE v == preds[p].value
               k == Card[c]
    <2>4. v \in Nat /\ k \in Nat /\ v < k
      BY <2>2, <2>3
    <2> HIDE DEF v, k
    <2>5. v \in 0..(k - 1)
      BY <2>4
    <2>6. QED BY <2>2, <2>5 DEF v, k
  <1>6. Constrained(preds) \subseteq ColumnIds
    BY <1>1 DEF Constrained
  <1>7. QED BY <1>3, <1>5, <1>6

\* A query whose values all occur is a conjunction of its constrained columns.
LEMMA Satisfied ==
    ASSUME table \in Tables, NEW preds \in Preds, Satisfiable(preds)
    PROVE  MatchSet(preds) = RowsOn(preds, Constrained(preds))
  <1>1. \A p \in DOMAIN preds : preds[p].column \in ColumnIds /\ preds[p].column \in Constrained(preds)
                                /\ PredValue(preds, preds[p].column) = preds[p].value
    BY ValueAsked DEF Constrained
  <1>2. \A c \in Constrained(preds) : \E p \in DOMAIN preds : c = preds[p].column
    BY DEF Constrained
  <1>3. ASSUME NEW row \in 0..(Len(table) - 1)
        PROVE  (\A p \in DOMAIN preds : preds[p].column \in ColumnIds /\ table[row + 1][preds[p].column] = preds[p].value)
                 <=> \A c \in Constrained(preds) : table[row + 1][c] = PredValue(preds, c)
    <2>1. ASSUME \A p \in DOMAIN preds : table[row + 1][preds[p].column] = preds[p].value,
                 NEW c \in Constrained(preds)
          PROVE  table[row + 1][c] = PredValue(preds, c)
      <3>1. PICK p \in DOMAIN preds : c = preds[p].column
        BY <1>2
      <3>2. QED BY <1>1, <2>1, <3>1
    <2>2. ASSUME \A c \in Constrained(preds) : table[row + 1][c] = PredValue(preds, c), NEW p \in DOMAIN preds
          PROVE  preds[p].column \in ColumnIds /\ table[row + 1][preds[p].column] = preds[p].value
      BY <1>1, <2>2
    <2>3. QED BY <2>1, <2>2
  <1>4. QED BY <1>3 DEF MatchSet, RowsOn

(* The key of a question under an index selects the rows with its values in the index's columns. *)
LEMMA KeyAsked ==
    ASSUME table \in Tables, NEW preds \in Preds, Satisfiable(preds),
           NEW columns \in IndexColumns, Usable(columns, preds)
    PROVE  /\ HierarchyKey(columns, preds) \in Nat /\ HierarchyKey(columns, preds) < Keyspace(columns)
           /\ Keyspace(columns) \in Nat
           /\ RowsWith(columns, HierarchyKey(columns, preds)) = RowsOn(preds, ToSet(columns))
  <1> DEFINE token == [c \in ToSet(columns) |-> PredValue(preds, c)]
             key == MixedRadixKey(columns, token)
  <1>1. HierarchyKey(columns, preds) = key
    BY DEF HierarchyKey, PredValue
  <1>2. /\ Len(columns) \in Nat \ {0} /\ DOMAIN columns = 1..Len(columns)
    BY ColumnCards
  <1>3. ToSet(columns) = {columns[i] : i \in 1..Len(columns)}
    BY <1>2 DEF ToSet
  <1>4. ToSet(columns) \subseteq Constrained(preds)
    BY DEF Usable
  <1>5. \A i \in 1..Len(columns) : token[columns[i]] = PredValue(preds, columns[i])
                                    /\ token[columns[i]] \in 0..(Card[columns[i]] - 1)
    <2>1. \A c \in Constrained(preds) : PredValue(preds, c) \in 0..(Card[c] - 1)
      BY ValueAsked
    <2>2. \A i \in 1..Len(columns) : columns[i] \in ToSet(columns)
      BY <1>3
    <2>3. QED BY <1>4, <2>1, <2>2
  <1> HIDE DEF token
  <1>6. Fits(columns, token)
    BY <1>5 DEF Fits
  <1>7. key \in Nat /\ key < Keyspace(columns) /\ Keyspace(columns) \in Nat
    BY <1>6, KeyBound
  <1>8. ASSUME NEW row \in 0..(Len(table) - 1)
        PROVE  MixedRadixKey(columns, table[row + 1]) = key
                 <=> \A c \in ToSet(columns) : table[row + 1][c] = PredValue(preds, c)
    <2> DEFINE other == table[row + 1]
    <2>1. Fits(columns, other)
      BY TableFits
    <2> HIDE DEF other
    <2>2. (\A c \in ToSet(columns) : other[c] = PredValue(preds, c))
            <=> \A i \in 1..Len(columns) : other[columns[i]] = token[columns[i]]
      BY <1>3, <1>5
    <2>3. ASSUME MixedRadixKey(columns, other) = key
          PROVE  \A i \in 1..Len(columns) : other[columns[i]] = token[columns[i]]
      BY <1>6, <2>1, <2>3, KeyAgrees
    <2>4. ASSUME \A i \in 1..Len(columns) : other[columns[i]] = token[columns[i]]
          PROVE  MixedRadixKey(columns, other) = key
      BY <2>4, KeyDepends
    <2>5. QED BY <2>2, <2>3, <2>4 DEF other
  <1>9. RowsWith(columns, key) = RowsOn(preds, ToSet(columns))
    <2> HIDE DEF key
    <2>1. QED BY <1>8 DEF RowsWith, RowsOn
  <1>10. QED BY <1>1, <1>7, <1>9

----------------------------------------------------------------------------
(* The indexes that can help.                                              *)

(* What Available makes of an index.                                       *)
Offer(hierarchy, preds) ==
    [file |-> hierarchy.file, key |-> HierarchyKey(hierarchy.columns, preds),
     count |-> HitCount(hierarchy.file, HierarchyKey(hierarchy.columns, preds)),
     columns |-> ToSet(hierarchy.columns)]

\* The usable indexes, in their order, as candidates.
LEMMA Offered ==
    ASSUME NEW hier, NEW m \in Nat, DOMAIN hier = 1..m, NEW preds
    PROVE  LET a == Available(hier, preds)
           IN /\ Len(a) \in Nat /\ DOMAIN a = 1..Len(a) /\ a = [i \in 1..Len(a) |-> a[i]]
              /\ \A i \in 1..Len(a) : \E h \in 1..m : Usable(hier[h].columns, preds) /\ a[i] = Offer(hier[h], preds)
  <1> DEFINE H == {h \in DOMAIN hier : Usable(hier[h].columns, preds)}
             usable == Ascending(H)
             a == Available(hier, preds)
  <1>1. IdSet(H)
    <2>1. IsFiniteSet(1..m)
      BY FS_Interval
    <2>2. H \subseteq 1..m
      OBVIOUS
    <2>3. IsFiniteSet(H)
      BY <2>1, <2>2, FS_Subset
    <2>4. QED BY <2>2, <2>3 DEF IdSet
  <1>2. /\ DOMAIN usable = 1..Cardinality(H) /\ Cardinality(H) \in Nat
        /\ \A i \in 1..Cardinality(H) : usable[i] \in H
    <2> HIDE DEF H
    <2>1. DOMAIN usable = 1..Cardinality(H) /\ Cardinality(H) \in Nat /\ ToSet(usable) = H
      BY <1>1, AscendingFacts
    <2> HIDE DEF usable
    <2>2. QED BY <2>1 DEF ToSet
  <1>3. a = [i \in DOMAIN usable |-> Offer(hier[usable[i]], preds)]
    BY DEF Available, Offer
  <1> HIDE DEF usable, a
  <1>4. DOMAIN a = 1..Cardinality(H) /\ \A i \in 1..Cardinality(H) : a[i] = Offer(hier[usable[i]], preds)
    BY <1>2, <1>3
  <1>5. a = [i \in 1..Cardinality(H) |-> a[i]]
    BY <1>2, <1>3
  <1>6. Len(a) = Cardinality(H)
    <2> HIDE DEF H
    <2>1. QED BY <1>2, <1>4
  <1>7. \A i \in 1..Cardinality(H) : \E h \in 1..m : Usable(hier[h].columns, preds) /\ a[i] = Offer(hier[h], preds)
    BY <1>2, <1>4
  <1> HIDE DEF H
  <1>8. QED BY <1>2, <1>4, <1>5, <1>6, <1>7 DEF a

(* An exact index that can help, and what it says.                         *)
Candidate(c, preds) ==
    \E next : /\ next.columns \in IndexColumns /\ next.kind \in RowKinds /\ Usable(next.columns, preds)
              /\ c = Offer(ExactIndex(next), preds)

CandidateOK(c, preds) ==
    /\ c.columns \subseteq Constrained(preds) /\ c.columns # {} /\ IsFiniteSet(c.columns)
    /\ AnswersKey(c.file, c.key, RowsOn(preds, c.columns))
    /\ c.count = Cardinality(RowsOn(preds, c.columns)) /\ c.file.kind \in RowKinds

\* A candidate answers for the rows of its columns.
LEMMA CandidateAnswers ==
    ASSUME table \in Tables, NEW preds \in Preds, Satisfiable(preds), NEW c, Candidate(c, preds)
    PROVE  CandidateOK(c, preds)
  <1>1. PICK next : /\ next.columns \in IndexColumns /\ next.kind \in RowKinds /\ Usable(next.columns, preds)
                    /\ c = Offer(ExactIndex(next), preds)
    BY DEF Candidate
  <1> DEFINE columns == next.columns
             key == HierarchyKey(columns, preds)
             file == ExactIndex(next).file
             A == RowsOn(preds, ToSet(columns))
  <1>2. c = [file |-> file, key |-> key, count |-> HitCount(file, key), columns |-> ToSet(columns)]
    <2>1. ExactIndex(next).columns = columns
      BY DEF ExactIndex
    <2>2. QED BY <1>1, <2>1 DEF Offer
  <1>3. key \in Nat /\ RowsWith(columns, key) = A
    BY <1>1, KeyAsked
  <1>4. AnswersKey(file, key, A)
    <2>1. AnswersKey(file, key, RowsWith(columns, key))
      <3> HIDE DEF key
      <3>1. QED BY <1>1, <1>3, ExactAnswers
    <2>2. QED BY <1>3, <2>1
  <1>5. file.kind = next.kind
    BY <1>1 DEF ExactIndex, BuildRowFile, RowKinds, ListKinds
  <1>6. HitCount(file, key) = Cardinality(A)
    <2>1. file.kind \notin PageKinds
      BY <1>1, <1>5 DEF RowKinds, ListKinds, PageKinds
    <2> HIDE DEF file, key, A
    <2>2. QED BY <1>4, <2>1 DEF HitCount, AnswersKey
  <1>7. ToSet(columns) \subseteq Constrained(preds) /\ ToSet(columns) # {} /\ IsFiniteSet(ToSet(columns))
    <2>1. columns \in Seq(ColumnIds) /\ Len(columns) \in Nat \ {0} /\ DOMAIN columns = 1..Len(columns)
      BY <1>1, ColumnCards DEF IndexColumns
    <2>2. IsFiniteSet(ToSet(columns))
      BY <2>1, MembersFinite
    <2>3. 1 \in DOMAIN columns
      BY <2>1
    <2>4. columns[1] \in ToSet(columns)
      BY <2>3 DEF ToSet
    <2>5. QED BY <1>1, <2>2, <2>4 DEF Usable
  <1> HIDE DEF columns, key, file, A
  <1>8. c.columns = ToSet(columns) /\ c.file = file /\ c.key = key /\ c.count = HitCount(file, key)
    BY <1>2
  <1>9. c.file.kind \in RowKinds
    BY <1>1, <1>5, <1>8
  <1>10. AnswersKey(c.file, c.key, RowsOn(preds, c.columns)) /\ c.count = Cardinality(RowsOn(preds, c.columns))
    BY <1>4, <1>6, <1>8 DEF A
  <1>11. QED BY <1>7, <1>8, <1>9, <1>10 DEF CandidateOK

(* Two bit-slice files that can help.                                      *)
LEMMA CandidatePair ==
    ASSUME table \in Tables, NEW preds \in Preds, Satisfiable(preds), NEW c, Candidate(c, preds),
           NEW d, Candidate(d, preds), c.file.kind = "bitslice", d.file.kind = "bitslice"
    PROVE  SlicePair(c.file, c.key, d.file, d.key)
             = Ascending(RowsOn(preds, c.columns) \cap RowsOn(preds, d.columns))
  <1> DEFINE n == Len(table)
             Rec(columns) == Sorted(RowRecords(columns, n))
  <1>1. ASSUME NEW e, Candidate(e, preds), e.file.kind = "bitslice"
        PROVE  \E columns \in IndexColumns :
                  /\ SliceFile(e.file, Rec(columns), Keyspace(columns), n)
                  /\ e.key \in 0..(Keyspace(columns) - 1)
                  /\ RowsWith(columns, e.key) = RowsOn(preds, e.columns)
    <2>1. PICK next : /\ next.columns \in IndexColumns /\ next.kind \in RowKinds /\ Usable(next.columns, preds)
                      /\ e = Offer(ExactIndex(next), preds)
      BY <1>1 DEF Candidate
    <2> DEFINE columns == next.columns
               space == Keyspace(columns)
    <2>2. /\ ExactIndex(next).columns = columns
          /\ ExactIndex(next).file = BuildRowFile(next.kind, Rec(columns), space, n)
      BY DEF ExactIndex
    <2>3. /\ e.file = BuildRowFile(next.kind, Rec(columns), space, n)
          /\ e.key = HierarchyKey(columns, preds) /\ e.columns = ToSet(columns)
      BY <2>1, <2>2 DEF Offer
    <2>4. e.file.kind = next.kind
      <3> HIDE DEF Rec, space, n
      <3>1. QED BY <2>1, <2>3 DEF BuildRowFile, RowKinds, ListKinds
    <2>5. SliceFile(e.file, Rec(columns), space, n)
      <3> HIDE DEF Rec, space, n
      <3>1. next.kind = "bitslice"
        BY <1>1, <2>4
      <3>2. QED BY <2>3, <3>1 DEF BuildRowFile, SliceFile
    <2>6. /\ HierarchyKey(columns, preds) \in Nat /\ HierarchyKey(columns, preds) < space /\ space \in Nat
          /\ RowsWith(columns, HierarchyKey(columns, preds)) = RowsOn(preds, ToSet(columns))
      BY <2>1, KeyAsked
    <2> HIDE DEF columns, space, Rec
    <2>7. e.key \in 0..(space - 1)
      BY <2>3, <2>6
    <2>8. RowsWith(columns, e.key) = RowsOn(preds, e.columns)
      BY <2>3, <2>6
    <2>9. columns \in IndexColumns
      BY <2>1 DEF columns
    <2>10. QED BY <2>5, <2>7, <2>8, <2>9 DEF space
  <1>2. PICK C \in IndexColumns : /\ SliceFile(c.file, Rec(C), Keyspace(C), n)
                                  /\ c.key \in 0..(Keyspace(C) - 1)
                                  /\ RowsWith(C, c.key) = RowsOn(preds, c.columns)
    BY <1>1
  <1>3. PICK D \in IndexColumns : /\ SliceFile(d.file, Rec(D), Keyspace(D), n)
                                  /\ d.key \in 0..(Keyspace(D) - 1)
                                  /\ RowsWith(D, d.key) = RowsOn(preds, d.columns)
    BY <1>1
  <1>4. \A columns \in IndexColumns :
           /\ Rec(columns) \in Seq(Records) /\ InSequence(Rec(columns))
           /\ OnePerRow(Rec(columns), Keyspace(columns), n)
           /\ \A key : KeyRows(ToSet(Rec(columns)), key) = RowsWith(columns, key)
    BY RecordsOfRows
  <1> HIDE DEF Rec, n
  <1>5. SlicePair(c.file, c.key, d.file, d.key)
          = Ascending(KeyRows(ToSet(Rec(C)), c.key) \cap KeyRows(ToSet(Rec(D)), d.key))
    BY <1>2, <1>3, <1>4, SlicePairAnswers
  <1>6. QED BY <1>2, <1>3, <1>4, <1>5

----------------------------------------------------------------------------
(* Choosing indexes.                                                       *)

CheaperOf(cnt, gain, i, j) == cnt[i] * gain[j] < cnt[j] * gain[i]

Cheapest(cnt, gain, among, i) ==
    i \in among /\ \A j \in among : ~ CheaperOf(cnt, gain, j, i) /\ (j < i => CheaperOf(cnt, gain, i, j))

\* The cost order of candidates is asymmetric, and what is not cheaper than a cheaper one is dearer.
LEMMA CheaperFacts ==
    ASSUME NEW n, NEW cnt \in [1..n -> Nat], NEW gain \in [1..n -> Nat],
           NEW i \in 1..n, gain[i] > 0, NEW j \in 1..n, gain[j] > 0, CheaperOf(cnt, gain, i, j)
    PROVE  /\ ~ CheaperOf(cnt, gain, j, i)
           /\ \A k \in 1..n : gain[k] > 0 /\ ~ CheaperOf(cnt, gain, k, j) => CheaperOf(cnt, gain, i, k)
  <1> DEFINE a == cnt[i]
             b == cnt[j]
             x == gain[i]
             y == gain[j]
  <1>1. a \in Nat /\ b \in Nat /\ x \in Nat \ {0} /\ y \in Nat \ {0} /\ a * y < b * x
    BY DEF CheaperOf
  <1>2. ~ CheaperOf(cnt, gain, j, i)
    <2>1. ~ (b * x < a * y)
      <3> DEFINE p == a * y
                 q == b * x
      <3>1. p \in Nat /\ q \in Nat /\ p < q
        BY <1>1
      <3> HIDE DEF p, q
      <3>2. ~ (q < p)
        BY <3>1
      <3>3. QED BY <3>2 DEF p, q
    <2>2. QED BY <2>1 DEF CheaperOf
  <1>3. ASSUME NEW k \in 1..n, gain[k] > 0, ~ CheaperOf(cnt, gain, k, j) PROVE CheaperOf(cnt, gain, i, k)
    <2> DEFINE c == cnt[k]
               z == gain[k]
    <2>1. c \in Nat /\ z \in Nat \ {0} /\ ~ (c * y < b * z)
      BY <1>3 DEF CheaperOf
    <2> HIDE DEF a, b, c, x, y, z
    <2>2. b * z <= c * y
      <3> DEFINE p == c * y
                 q == b * z
      <3>1. p \in Nat /\ q \in Nat /\ ~ (p < q)
        BY <1>1, <2>1
      <3> HIDE DEF p, q
      <3>2. q <= p
        BY <3>1
      <3>3. QED BY <3>2 DEF p, q
    <2>3. a * z < c * x
      BY <1>1, <2>1, <2>2, CostsOrder
    <2>4. QED BY <2>3 DEF CheaperOf, a, c, x, z
  <1>4. QED BY <1>2, <1>3

(* There is a cheapest one, the first of equals.                           *)
LEMMA CheapestExists ==
    ASSUME NEW n \in Nat, NEW cnt \in [1..n -> Nat], NEW gain \in [1..n -> Nat],
           NEW useful, useful = {i \in 1..n : gain[i] > 0}, useful # {}
    PROVE  \E i \in useful : Cheapest(cnt, gain, useful, i)
  <1> DEFINE Upto(m) == useful \cap (1..m)
             T == {m \in 0..n : Upto(m) # {} => \E i \in Upto(m) : Cheapest(cnt, gain, Upto(m), i)}
  <1>1. useful \subseteq 1..n /\ \A i \in useful : gain[i] > 0
    OBVIOUS
  <1>2. 0 \in T
    <2>1. 1..0 = {} /\ 0 \in 0..n
      OBVIOUS
    <2>2. QED BY <2>1
  <1>3. \A m \in 0..(n - 1) : m \in T => m + 1 \in T
    <2>1. SUFFICES ASSUME NEW m \in 0..(n - 1), m \in T, Upto(m + 1) # {}
                   PROVE  m + 1 \in T
      BY StepWithin
    <2>2. m \in Nat /\ m + 1 \in 0..n /\ m + 1 \in 1..n /\ 1..(m + 1) = (1..m) \cup {m + 1} /\ 1..m \subseteq 1..n
      BY StepWithin
    <2>3. \A j \in 1..m : j < m + 1 /\ ~ (m + 1 < j)
      BY <2>2
    <2>4. CASE m + 1 \notin useful
      <3>1. Upto(m + 1) = Upto(m)
        BY <2>2, <2>4
      <3> HIDE DEF Upto
      <3>2. QED BY <2>1, <2>2, <3>1
    <2>5. CASE m + 1 \in useful
      <3>1. Upto(m + 1) = Upto(m) \cup {m + 1}
        BY <2>2, <2>5
      <3>2. ~ (m + 1 < m + 1)
        BY <2>2
      <3>3. \A j \in Upto(m) : j \in 1..n /\ j \in 1..m /\ gain[j] > 0
        BY <1>1, <2>2
      <3>4. ~ CheaperOf(cnt, gain, m + 1, m + 1)
        <4>1. CheaperOf(cnt, gain, m + 1, m + 1) => ~ CheaperOf(cnt, gain, m + 1, m + 1)
          BY <1>1, <2>2, <2>5, CheaperFacts
        <4>2. QED BY <4>1
      <3>5. CASE Upto(m) = {}
        <4>1. Cheapest(cnt, gain, Upto(m + 1), m + 1)
          BY <3>1, <3>2, <3>4, <3>5 DEF Cheapest
        <4>2. QED BY <2>2, <3>1, <4>1
      <3>6. CASE Upto(m) # {}
        <4>1. PICK i \in Upto(m) : Cheapest(cnt, gain, Upto(m), i)
          <5> HIDE DEF Upto
          <5>1. QED BY <2>1, <3>6
        <4>2. i \in 1..m /\ i \in 1..n /\ gain[i] > 0 /\ m + 1 \in 1..n /\ gain[m + 1] > 0
          BY <1>1, <2>2, <2>5, <3>3
        <4>3. \A j \in Upto(m) : ~ CheaperOf(cnt, gain, j, i) /\ (j < i => CheaperOf(cnt, gain, i, j))
          BY <4>1 DEF Cheapest
        <4>4. CASE CheaperOf(cnt, gain, m + 1, i)
          <5>1. \A k \in Upto(m) : CheaperOf(cnt, gain, m + 1, k)
            BY <3>3, <4>2, <4>3, <4>4, CheaperFacts
          <5>2. \A k \in Upto(m) : ~ CheaperOf(cnt, gain, k, m + 1)
            BY <3>3, <4>2, <5>1, CheaperFacts
          <5> HIDE DEF Upto
          <5>3. Cheapest(cnt, gain, Upto(m + 1), m + 1)
            BY <3>1, <3>2, <3>4, <5>1, <5>2 DEF Cheapest
          <5>4. QED BY <2>2, <3>1, <5>3
        <4>5. CASE ~ CheaperOf(cnt, gain, m + 1, i)
          <5>1. ~ (m + 1 < i)
            BY <2>3, <4>2
          <5> HIDE DEF Upto
          <5>2. Cheapest(cnt, gain, Upto(m + 1), i)
            BY <3>1, <4>1, <4>3, <4>5, <5>1 DEF Cheapest
          <5>3. QED BY <2>2, <3>1, <5>2 DEF Cheapest
        <4>6. QED BY <4>4, <4>5
      <3>7. QED BY <3>5, <3>6
    <2>6. QED BY <2>4, <2>5
  <1>4. n \in T
    <2> HIDE DEF T
    <2>1. 0..n \subseteq T
      BY <1>2, <1>3, UpTo
    <2>2. QED BY <2>1
  <1>5. Upto(n) = useful
    BY <1>1
  <1> HIDE DEF Upto
  <1>6. QED BY <1>4, <1>5

(* The best candidate is one that covers more, unless none does.           *)
LEMMA BestCovers ==
    ASSUME NEW a, NEW n \in Nat, DOMAIN a = 1..n,
           \A i \in 1..n : a[i].count \in Nat /\ IsFiniteSet(a[i].columns), NEW uncovered
    PROVE  LET best == BestCandidate(a, uncovered)
           IN /\ best # 0 => best \in 1..n /\ a[best].columns \cap uncovered # {}
              /\ best = 0 => \A i \in 1..n : a[i].columns \cap uncovered = {}
  <1> DEFINE Gain(i) == Cardinality(a[i].columns \cap uncovered)
             useful == {i \in DOMAIN a : Gain(i) > 0}
             cnt == [i \in 1..n |-> a[i].count]
             gain == [i \in 1..n |-> Gain(i)]
             best == BestCandidate(a, uncovered)
  <1>1. \A i \in 1..n : Gain(i) \in Nat /\ (Gain(i) > 0 <=> a[i].columns \cap uncovered # {})
    <2>1. SUFFICES ASSUME NEW i \in 1..n
                   PROVE  Gain(i) \in Nat /\ (Gain(i) > 0 <=> a[i].columns \cap uncovered # {})
      OBVIOUS
    <2> DEFINE S == a[i].columns \cap uncovered
    <2>1a. IsFiniteSet(a[i].columns)
      OBVIOUS
    <2>2. S \subseteq a[i].columns
      OBVIOUS
    <2>2a. IsFiniteSet(S)
      BY <2>1a, <2>2, FS_Subset
    <2> HIDE DEF S
    <2>3. Cardinality(S) \in Nat /\ (Cardinality(S) = 0 <=> S = {})
      BY <2>2a, FS_CardinalityType, FS_EmptySet
    <2>4. Cardinality(S) \in Nat /\ (Cardinality(S) > 0 <=> S # {})
      BY <2>3
    <2>5. QED BY <2>4 DEF S
  <1>2. best = IF useful = {} THEN 0
               ELSE CHOOSE i \in useful : \A j \in useful :
                      ~ (a[j].count * Gain(i) < a[i].count * Gain(j)) /\ (j < i => a[i].count * Gain(j) < a[j].count * Gain(i))
    BY DEF BestCandidate
  <1> HIDE DEF Gain, best
  <1>3. CASE useful = {}
    <2>1. \A i \in 1..n : ~ (Gain(i) > 0)
      BY <1>3
    <2>2. QED BY <1>1, <1>2, <1>3, <2>1 DEF best
  <1>4. CASE useful # {}
    <2>1. cnt \in [1..n -> Nat] /\ gain \in [1..n -> Nat]
          /\ \A i \in 1..n : cnt[i] = a[i].count /\ gain[i] = Gain(i)
      BY <1>1
    <2>2. useful = {i \in 1..n : gain[i] > 0} /\ \A i \in useful : i \in 1..n
      BY <2>1
    <2> HIDE DEF cnt, gain, useful
    <2>3. PICK i \in useful : Cheapest(cnt, gain, useful, i)
      BY <1>4, <2>1, <2>2, CheapestExists
    <2>4. ASSUME NEW j \in useful
          PROVE  ~ (a[j].count * Gain(i) < a[i].count * Gain(j)) /\ (j < i => a[i].count * Gain(j) < a[j].count * Gain(i))
      <3>1. ~ CheaperOf(cnt, gain, j, i) /\ (j < i => CheaperOf(cnt, gain, i, j))
        BY <2>3 DEF Cheapest
      <3>2. cnt[i] = a[i].count /\ cnt[j] = a[j].count /\ gain[i] = Gain(i) /\ gain[j] = Gain(j)
        BY <2>1, <2>2
      <3>3. QED BY <3>1, <3>2 DEF CheaperOf
    <2>5. best \in useful
      <3>1. \E k \in useful : \A j \in useful :
               ~ (a[j].count * Gain(k) < a[k].count * Gain(j)) /\ (j < k => a[k].count * Gain(j) < a[j].count * Gain(k))
        BY <2>4
      <3>2. QED BY <1>2, <1>4, <3>1, Zenon
    <2>6. best \in 1..n /\ Gain(best) > 0
      <3>1. best \in 1..n
        BY <2>2, <2>5
      <3>2. gain[best] > 0
        BY <2>2, <2>5
      <3>3. QED BY <2>1, <3>1, <3>2
    <2>7. best # 0
      BY <2>6
    <2>8. a[best].columns \cap uncovered # {}
      BY <1>1, <2>6
    <2>9. QED BY <2>6, <2>7, <2>8 DEF best
  <1>5. QED BY <1>3, <1>4

(* The steps of the cover.                                                 *)
CoverStep(a, x) ==
    LET best == BestCandidate(a, x.uncovered)
    IN IF best = 0 THEN x
       ELSE [uncovered |-> x.uncovered \ a[best].columns, selected |-> Append(x.selected, a[best])]

CoverWalk(a, columns, n) ==
    \E f : /\ f[0] = [uncovered |-> columns, selected |-> <<>>]
           /\ \A i \in 1..n : f[i] = CoverStep(a, f[i - 1])
           /\ GreedyCover(a, columns) = f[n]

\* The greedy cover adds a best candidate at every step.
LEMMA CoverSteps ==
    ASSUME NEW a, Len(a) \in Nat, NEW columns
    PROVE  CoverWalk(a, columns, Len(a))
  <1> DEFINE n == Len(a)
  <1>0. n \in Nat
    OBVIOUS
  <1> DEFINE B(x, i) == CoverStep(a, x)
             f == CHOOSE g : g = [i \in 0..n |-> IF i = 0 THEN [uncovered |-> columns, selected |-> <<>>] ELSE B(g[i - 1], i)]
             Solves(g, m) == g = [i \in 0..m |-> IF i = 0 THEN [uncovered |-> columns, selected |-> <<>>] ELSE B(g[i - 1], i)]
             T == {m \in 0..n : \E g : Solves(g, m)}
  <1>u1. GreedyCover(a, columns) = f[n]
    BY Zenon DEF GreedyCover, CoverStep
  <1> HIDE DEF B
  <1>u2. 0 \in T
    <2> DEFINE g == [i \in 0..0 |-> [uncovered |-> columns, selected |-> <<>>]]
    <2>1. 0 \in 0..n /\ \A i \in 0..0 : i = 0
      BY <1>0
    <2>2. Solves(g, 0)
      BY <2>1
    <2> HIDE DEF g, Solves
    <2>3. QED BY <2>1, <2>2
  <1>u3. \A m \in 0..(n - 1) : m \in T => m + 1 \in T
    <2>1. SUFFICES ASSUME NEW m \in 0..(n - 1), m \in T PROVE m + 1 \in T
      OBVIOUS
    <2>2. PICK g : Solves(g, m)
      BY <2>1
    <2> DEFINE h == [i \in 0..(m + 1) |-> IF i = m + 1 THEN B(g[m], m + 1) ELSE g[i]]
    <2>3. m \in Nat /\ m + 1 \in 0..n /\ m + 1 # 0 /\ (m + 1) - 1 = m
      BY <1>0
    <2>4. ASSUME NEW i \in 0..(m + 1) PROVE h[i] = IF i = 0 THEN [uncovered |-> columns, selected |-> <<>>] ELSE B(h[i - 1], i)
      <3>1. CASE i = m + 1
        <4>1. m \in 0..(m + 1) /\ m # m + 1
          BY <2>3
        <4>2. h[m] = g[m] /\ h[m + 1] = B(g[m], m + 1)
          BY <2>3, <4>1
        <4> HIDE DEF h
        <4>3. QED BY <2>3, <3>1, <4>2, Zenon
      <3>2. CASE i # m + 1
        <4>1. i \in 0..m /\ (i # 0 => i - 1 \in 0..(m + 1) /\ i - 1 # m + 1)
          BY <2>3, <3>2
        <4>2. h[i] = g[i] /\ (i # 0 => h[i - 1] = g[i - 1])
          BY <3>2, <4>1
        <4>3. g[i] = IF i = 0 THEN [uncovered |-> columns, selected |-> <<>>] ELSE B(g[i - 1], i)
          BY <2>2, <4>1, Zenon
        <4> HIDE DEF h
        <4>4. CASE i = 0
          BY <4>2, <4>3, <4>4, Zenon
        <4>5. CASE i # 0
          BY <4>2, <4>3, <4>5, Zenon
        <4>6. QED BY <4>4, <4>5, Zenon
      <3>3. QED BY <3>1, <3>2, Zenon
    <2>5. Solves(h, m + 1)
      <3>1. h = [i \in 0..(m + 1) |-> h[i]]
        OBVIOUS
      <3> HIDE DEF h
      <3>2. QED BY <2>4, <3>1, Zenon
    <2> HIDE DEF h, Solves
    <2>6. QED BY <2>3, <2>5
  <1>u4. n \in T
    <2> HIDE DEF T
    <2>1. 0..n \subseteq T
      BY <1>0, <1>u2, <1>u3, UpTo
    <2>2. QED BY <1>0, <2>1
  <1>u5. Solves(f, n)
    <2>1. \E g : Solves(g, n)
      BY <1>u4, Zenon
    <2>2. QED BY <2>1, Zenon
  <1> HIDE DEF f
  <1>u6. f[0] = [uncovered |-> columns, selected |-> <<>>]
    <2>1. 0 \in 0..n
      BY <1>0
    <2>2. QED BY <1>u5, <2>1, Zenon
  <1>u7. \A i \in 1..n : f[i] = B(f[i - 1], i)
    <2>1. \A i \in 1..n : i \in 0..n /\ i # 0
      BY <1>0
    <2>2. QED BY <1>u5, <2>1, Zenon
  <1> HIDE DEF Solves, T
  <1>v. \A i \in 1..n : f[i] = CoverStep(a, f[i - 1])
    BY <1>u7 DEF B
  <1>w. QED BY <1>u1, <1>u6, <1>v DEF CoverWalk, n

(* What is selected covers what is no longer uncovered.                    *)
ColumnsOf(selected) == UNION {selected[i].columns : i \in 1..Len(selected)}

CoverOK(a, columns, x) ==
    /\ x.selected \in Seq({a[i] : i \in DOMAIN a})
    /\ x.uncovered = columns \ ColumnsOf(x.selected)

\* A step of the greedy cover covers the columns it takes off.
LEMMA CoverKeeps ==
    ASSUME NEW a, NEW n \in Nat, DOMAIN a = 1..n,
           \A i \in 1..n : a[i].count \in Nat /\ IsFiniteSet(a[i].columns), NEW columns,
           NEW x, CoverOK(a, columns, x)
    PROVE  LET y == CoverStep(a, x)
           IN /\ CoverOK(a, columns, y)
              /\ x.selected # <<>> => y.selected # <<>>
              /\ (\E i \in 1..n : a[i].columns \cap x.uncovered # {}) => y.selected # <<>>
  <1> DEFINE best == BestCandidate(a, x.uncovered)
             X == {a[i] : i \in DOMAIN a}
             y == CoverStep(a, x)
  <1>1. /\ best # 0 => best \in 1..n /\ a[best].columns \cap x.uncovered # {}
        /\ best = 0 => \A i \in 1..n : a[i].columns \cap x.uncovered = {}
    BY BestCovers
  <1>2. y = IF best = 0 THEN x
            ELSE [uncovered |-> x.uncovered \ a[best].columns, selected |-> Append(x.selected, a[best])]
    BY DEF CoverStep
  <1>3. x.selected \in Seq(X) /\ x.uncovered = columns \ ColumnsOf(x.selected)
    BY DEF CoverOK
  <1> HIDE DEF best, y
  <1>4. CASE best = 0
    <2>1. y = x
      BY <1>2, <1>4
    <2>2. QED BY <1>1, <1>4, <2>1 DEF y
  <1>5. CASE best # 0
    <2> DEFINE sel == x.selected
               c == a[best]
    <2>1. best \in DOMAIN a /\ c \in X
      BY <1>1, <1>5
    <2>2. y.uncovered = x.uncovered \ c.columns /\ y.selected = Append(sel, c)
      BY <1>2, <1>5
    <2> HIDE DEF X, c, sel
    <2>3. sel \in Seq(X)
      BY <1>3 DEF sel
    <2>4. /\ Append(sel, c) \in Seq(X) /\ Append(sel, c) # <<>> /\ Len(Append(sel, c)) = Len(sel) + 1
          /\ Len(sel) \in Nat /\ Append(sel, c)[Len(sel) + 1] = c
          /\ \A i \in 1..Len(sel) : Append(sel, c)[i] = sel[i]
      BY SMTT(30), <2>1, <2>3
    <2>5. ColumnsOf(Append(sel, c)) = ColumnsOf(sel) \cup c.columns
      <3>1. 1..(Len(sel) + 1) = (1..Len(sel)) \cup {Len(sel) + 1}
        BY <2>4
      <3> DEFINE t == Append(sel, c)
      <3> HIDE DEF t
      <3>2. Len(t) = Len(sel) + 1 /\ t[Len(sel) + 1] = c /\ \A i \in 1..Len(sel) : t[i] = sel[i]
        BY <2>4 DEF t
      <3>3. ColumnsOf(t) = ColumnsOf(sel) \cup c.columns
        BY <3>1, <3>2 DEF ColumnsOf
      <3>4. QED BY <3>3 DEF t
    <2>6. y.uncovered = columns \ ColumnsOf(y.selected)
      BY <1>3, <2>2, <2>5 DEF sel
    <2>7. CoverOK(a, columns, y)
      BY <2>2, <2>4, <2>6 DEF CoverOK, X
    <2>8. QED BY <2>2, <2>4, <2>7 DEF y
  <1>6. QED BY <1>4, <1>5

\* The greedy cover leaves uncovered just the columns no candidate it chose covers.
LEMMA Covered ==
    ASSUME NEW a, NEW n \in Nat, Len(a) = n, DOMAIN a = 1..n,
           \A i \in 1..n : a[i].count \in Nat /\ IsFiniteSet(a[i].columns), NEW columns
    PROVE  LET x == GreedyCover(a, columns)
           IN /\ CoverOK(a, columns, x)
              /\ (\E i \in 1..n : a[i].columns \cap columns # {}) => x.selected # <<>>
  <1> DEFINE some == \E i \in 1..n : a[i].columns \cap columns # {}
  <1>1. CoverWalk(a, columns, n)
    BY CoverSteps
  <1>2. PICK f : /\ f[0] = [uncovered |-> columns, selected |-> <<>>]
                 /\ \A i \in 1..n : f[i] = CoverStep(a, f[i - 1])
                 /\ GreedyCover(a, columns) = f[n]
    BY <1>1, Zenon DEF CoverWalk
  <1> DEFINE T == {m \in 0..n : CoverOK(a, columns, f[m]) /\ (some /\ m # 0 => f[m].selected # <<>>)}
  <1>3. CoverOK(a, columns, f[0]) /\ f[0].uncovered = columns
    <2>1. f[0].uncovered = columns /\ f[0].selected = <<>>
      BY <1>2
    <2>2. ColumnsOf(<<>>) = {}
      <3>1. 1..Len(<<>>) = {}
        OBVIOUS
      <3>2. QED BY <3>1 DEF ColumnsOf
    <2>3. QED BY <2>1, <2>2 DEF CoverOK
  <1>4. 0 \in T
    BY <1>3
  <1>5. \A m \in 0..(n - 1) : m \in T => m + 1 \in T
    <2>1. SUFFICES ASSUME NEW m \in 0..(n - 1), m \in T PROVE m + 1 \in T
      OBVIOUS
    <2>2. m \in Nat /\ m \in 0..n /\ m + 1 \in 0..n /\ m + 1 \in 1..n /\ (m + 1) - 1 = m
      BY StepWithin
    <2>3. f[m + 1] = CoverStep(a, f[m])
      BY <1>2, <2>2
    <2>4. CoverOK(a, columns, f[m]) /\ (some /\ m # 0 => f[m].selected # <<>>)
      BY <2>1
    <2> DEFINE y == CoverStep(a, f[m])
    <2>5. /\ CoverOK(a, columns, y)
          /\ f[m].selected # <<>> => y.selected # <<>>
          /\ (\E i \in 1..n : a[i].columns \cap f[m].uncovered # {}) => y.selected # <<>>
      BY <2>4, CoverKeeps
    <2> HIDE DEF y
    <2>6. some => y.selected # <<>>
      BY <1>3, <2>4, <2>5
    <2>7. QED BY <2>2, <2>3, <2>5, <2>6 DEF y
  <1>6. n \in T
    <2> HIDE DEF T
    <2>1. 0..n \subseteq T
      BY <1>4, <1>5, UpTo
    <2>2. QED BY <2>1
  <1>7. some => n # 0
    OBVIOUS
  <1> HIDE DEF some
  <1>8. CoverOK(a, columns, f[n]) /\ (some => f[n].selected # <<>>)
    BY <1>6, <1>7
  <1>9. QED BY <1>2, <1>8 DEF some

(* Sorting by the counts keeps what is sorted.                             *)
LEMMA SortedByCount ==
    ASSUME NEW X, \A x \in X : x.count \in Int, NEW sel \in Seq(X)
    PROVE  /\ ByCount(sel) \in Seq(X) /\ ToSet(ByCount(sel)) = ToSet(sel)
           /\ sel = <<>> <=> ByCount(sel) = <<>>
  <1> DEFINE n == Len(sel)
             S == {<<sel[i].count, i>> : i \in DOMAIN sel}
             order == Sorted(S)
             k == Cardinality(S)
             out == ByCount(sel)
  <1>1. n \in Nat /\ DOMAIN sel = 1..n /\ \A i \in 1..n : sel[i] \in X
    OBVIOUS
  <1>2. PairSet(S)
    <2>1. S \subseteq Records
      BY <1>1 DEF Records
    <2>2. IsFiniteSet(1..n)
      BY <1>1, FS_Interval
    <2> DEFINE f == [i \in 1..n |-> <<sel[i].count, i>>]
    <2>3. S = {f[i] : i \in 1..n}
      BY <1>1
    <2>4. f \in Surjection(1..n, S)
      BY <2>3 DEF Surjection
    <2> HIDE DEF f, n
    <2>5. IsFiniteSet(S)
      BY <2>2, <2>4, FS_Surjection
    <2>6. QED BY <2>1, <2>5 DEF PairSet
  <1>3. \A p \in S : p[2] \in 1..n
    BY <1>1
  <1>4. \A i \in 1..n : \E p \in S : p[2] = i
    <2>1. SUFFICES ASSUME NEW i \in 1..n PROVE \E p \in S : p[2] = i
      OBVIOUS
    <2>2. <<sel[i].count, i>> \in S /\ <<sel[i].count, i>>[2] = i
      BY <1>1
    <2>3. QED BY <2>2
  <1>5. out = [i \in DOMAIN order |-> sel[order[i][2]]]
    BY DEF ByCount
  <1> HIDE DEF S, n, order
  <1>6. k \in Nat /\ DOMAIN order = 1..k /\ Len(order) = k /\ ToSet(order) = S
    BY <1>2, SortedFacts DEF order
  <1> HIDE DEF k, out
  <1>7. \A i \in 1..k : order[i] \in S /\ order[i][2] \in 1..n
    BY <1>3, <1>6 DEF ToSet
  <1>8. out \in [1..k -> X] /\ \A i \in 1..k : out[i] = sel[order[i][2]]
    BY <1>1, <1>5, <1>6, <1>7
  <1>9. out \in Seq(X) /\ Len(out) = k /\ DOMAIN out = 1..k
    BY <1>6, <1>8, SeqFrom
  <1>10. ToSet(out) = ToSet(sel)
    <2>1. \A i \in 1..k : \E j \in 1..n : out[i] = sel[j]
      BY <1>7, <1>8
    <2>2. ASSUME NEW j \in 1..n PROVE \E i \in 1..k : out[i] = sel[j]
      <3>1. PICK p \in S : p[2] = j
        BY <1>4
      <3>2. PICK i \in 1..k : order[i] = p
        BY <1>6 DEF ToSet
      <3>3. QED BY <1>8, <3>1, <3>2
    <2>3. ToSet(out) = {out[i] : i \in 1..k} /\ ToSet(sel) = {sel[j] : j \in 1..n}
      BY <1>1, <1>9 DEF ToSet
    <2>4. QED BY <2>1, <2>2, <2>3
  <1>11. sel = <<>> <=> out = <<>>
    <2>1. sel = <<>> <=> ToSet(sel) = {}
      <3>1. sel # <<>> => 1 \in DOMAIN sel
        OBVIOUS
      <3>2. QED BY <3>1 DEF ToSet
    <2>2. out = <<>> <=> ToSet(out) = {}
      <3>1. out # <<>> => 1 \in DOMAIN out
        BY <1>9
      <3>2. QED BY <3>1 DEF ToSet
    <2>3. QED BY <1>10, <2>1, <2>2
  <1>12. QED BY <1>9, <1>10, <1>11 DEF out

----------------------------------------------------------------------------
(* Intersecting the selected indexes.                                      *)

(* An intersection keeps, index by index, the rows that the index lists too. *)
IntersectWalk(selected, rows, n) ==
    \E f : /\ f[0] = rows
           /\ \A i \in 1..n : f[i] = IntersectRows(selected[i].file, selected[i].key, f[i - 1])
           /\ IntersectAll(selected, rows) = f[n]

(* The recursive definition of IntersectAll, step by step.                 *)
LEMMA IntersectSteps ==
    ASSUME NEW selected, Len(selected) \in Nat, NEW rows
    PROVE  IntersectWalk(selected, rows, Len(selected))
  <1> DEFINE n == Len(selected)
  <1>0. n \in Nat
    OBVIOUS
  <1> DEFINE B(x, i) == IntersectRows(selected[i].file, selected[i].key, x)
             f == CHOOSE g : g = [i \in 0..n |-> IF i = 0 THEN rows ELSE B(g[i - 1], i)]
             Solves(g, m) == g = [i \in 0..m |-> IF i = 0 THEN rows ELSE B(g[i - 1], i)]
             T == {m \in 0..n : \E g : Solves(g, m)}
  <1>u1. IntersectAll(selected, rows) = f[n]
    BY Zenon DEF IntersectAll
  <1> HIDE DEF B
  <1>u2. 0 \in T
    <2> DEFINE g == [i \in 0..0 |-> rows]
    <2>1. 0 \in 0..n /\ \A i \in 0..0 : i = 0
      BY <1>0
    <2>2. Solves(g, 0)
      BY <2>1
    <2> HIDE DEF g, Solves
    <2>3. QED BY <2>1, <2>2
  <1>u3. \A m \in 0..(n - 1) : m \in T => m + 1 \in T
    <2>1. SUFFICES ASSUME NEW m \in 0..(n - 1), m \in T PROVE m + 1 \in T
      OBVIOUS
    <2>2. PICK g : Solves(g, m)
      BY <2>1
    <2> DEFINE h == [i \in 0..(m + 1) |-> IF i = m + 1 THEN B(g[m], m + 1) ELSE g[i]]
    <2>3. m \in Nat /\ m + 1 \in 0..n /\ m + 1 # 0 /\ (m + 1) - 1 = m
      BY <1>0
    <2>4. ASSUME NEW i \in 0..(m + 1) PROVE h[i] = IF i = 0 THEN rows ELSE B(h[i - 1], i)
      <3>1. CASE i = m + 1
        <4>1. m \in 0..(m + 1) /\ m # m + 1
          BY <2>3
        <4>2. h[m] = g[m] /\ h[m + 1] = B(g[m], m + 1)
          BY <2>3, <4>1
        <4> HIDE DEF h
        <4>3. QED BY <2>3, <3>1, <4>2, Zenon
      <3>2. CASE i # m + 1
        <4>1. i \in 0..m /\ (i # 0 => i - 1 \in 0..(m + 1) /\ i - 1 # m + 1)
          BY <2>3, <3>2
        <4>2. h[i] = g[i] /\ (i # 0 => h[i - 1] = g[i - 1])
          BY <3>2, <4>1
        <4>3. g[i] = IF i = 0 THEN rows ELSE B(g[i - 1], i)
          BY <2>2, <4>1, Zenon
        <4> HIDE DEF h
        <4>4. CASE i = 0
          BY <4>2, <4>3, <4>4, Zenon
        <4>5. CASE i # 0
          BY <4>2, <4>3, <4>5, Zenon
        <4>6. QED BY <4>4, <4>5, Zenon
      <3>3. QED BY <3>1, <3>2, Zenon
    <2>5. Solves(h, m + 1)
      <3>1. h = [i \in 0..(m + 1) |-> h[i]]
        OBVIOUS
      <3> HIDE DEF h
      <3>2. QED BY <2>4, <3>1, Zenon
    <2> HIDE DEF h, Solves
    <2>6. QED BY <2>3, <2>5
  <1>u4. n \in T
    <2> HIDE DEF T
    <2>1. 0..n \subseteq T
      BY <1>0, <1>u2, <1>u3, UpTo
    <2>2. QED BY <1>0, <2>1
  <1>u5. Solves(f, n)
    <2>1. \E g : Solves(g, n)
      BY <1>u4, Zenon
    <2>2. QED BY <2>1, Zenon
  <1> HIDE DEF f
  <1>u6. f[0] = rows
    <2>1. 0 \in 0..n
      BY <1>0
    <2>2. QED BY <1>u5, <2>1, Zenon
  <1>u7. \A i \in 1..n : f[i] = B(f[i - 1], i)
    <2>1. \A i \in 1..n : i \in 0..n /\ i # 0
      BY <1>0
    <2>2. QED BY <1>u5, <2>1, Zenon
  <1> HIDE DEF Solves, T
  <1>v. \A i \in 1..n : f[i] = IntersectRows(selected[i].file, selected[i].key, f[i - 1])
    BY <1>u7 DEF B
  <1>w. QED BY <1>u1, <1>u6, <1>v DEF IntersectWalk, n

(* Indexes a query may be answered from.                                   *)
Answering(selected, preds) == \A i \in 1..Len(selected) : CandidateOK(selected[i], preds)

(* Intersecting rows with indexes keeps those with the values asked for in the indexes' columns. *)
LEMMA IntersectedRows ==
    ASSUME table \in Tables, NEW preds, NEW selected, Len(selected) \in Nat, Answering(selected, preds),
           NEW A, RowSet(A)
    PROVE  IntersectAll(selected, Ascending(A)) = Ascending(A \cap RowsOn(preds, ColumnsOf(selected)))
  <1> DEFINE n == Len(selected)
             Upto(m) == UNION {selected[i].columns : i \in 1..m}
             Kept(m) == A \cap RowsOn(preds, Upto(m))
  <1>1. n \in Nat
    OBVIOUS
  <1>2. PICK f : /\ f[0] = Ascending(A)
                 /\ \A i \in 1..n : f[i] = IntersectRows(selected[i].file, selected[i].key, f[i - 1])
                 /\ IntersectAll(selected, Ascending(A)) = f[n]
    BY IntersectSteps DEF IntersectWalk
  <1> DEFINE T == {m \in 0..n : f[m] = Ascending(Kept(m))}
  <1>3. 0 \in T
    <2>1. Upto(0) = {}
      OBVIOUS
    <2>2. RowsOn(preds, {}) = 0..(Len(table) - 1)
      BY DEF RowsOn
    <2>3. Kept(0) = A
      BY <2>1, <2>2 DEF RowSet
    <2> HIDE DEF Kept
    <2>4. QED BY <1>1, <1>2, <2>3
  <1>4. ASSUME NEW m \in 0..(n - 1), m \in T PROVE m + 1 \in T
    <2> DEFINE c == selected[m + 1]
    <2>1. m \in Nat /\ m + 1 \in 1..n /\ m + 1 \in 0..n /\ (m + 1) - 1 = m /\ 1..(m + 1) = (1..m) \cup {m + 1}
      BY <1>1, StepWithin
    <2>2. f[m + 1] = IntersectRows(c.file, c.key, Ascending(Kept(m)))
      <3>1. f[m] = Ascending(Kept(m))
        BY <1>4
      <3> HIDE DEF Kept
      <3>2. QED BY <1>2, <2>1, <3>1
    <2>3. AnswersKey(c.file, c.key, RowsOn(preds, c.columns))
      BY <2>1 DEF Answering, CandidateOK
    <2>4. Kept(m) \in SUBSET Nat /\ IsFiniteSet(Kept(m))
      <3>1. IsFiniteSet(A) /\ A \in SUBSET Nat
        BY DEF RowSet
      <3>2. Kept(m) \subseteq A
        OBVIOUS
      <3> HIDE DEF Kept
      <3>3. QED BY <3>1, <3>2, FS_Subset
    <2>5. Upto(m + 1) = Upto(m) \cup c.columns
      BY <2>1
    <2>6. Kept(m) \cap RowsOn(preds, c.columns) = Kept(m + 1)
      <3>1. RowsOn(preds, Upto(m) \cup c.columns) = RowsOn(preds, Upto(m)) \cap RowsOn(preds, c.columns)
        BY RowsOnMore
      <3> HIDE DEF Upto
      <3>2. QED BY <2>5, <3>1
    <2> HIDE DEF Kept, c
    <2>7. IntersectRows(c.file, c.key, Ascending(Kept(m))) = Ascending(Kept(m) \cap RowsOn(preds, c.columns))
      BY <2>3, <2>4 DEF AnswersKey
    <2>8. QED BY <2>1, <2>2, <2>6, <2>7
  <1> HIDE DEF T
  <1>5. n \in T
    <2>1. 0..n \subseteq T
      BY <1>1, <1>3, <1>4, UpTo
    <2>2. QED BY <1>1, <2>1
  <1>6. f[n] = Ascending(Kept(n))
    BY <1>5 DEF T
  <1>7. Kept(n) = A \cap RowsOn(preds, ColumnsOf(selected))
    BY DEF ColumnsOf
  <1>8. QED BY <1>2, <1>6, <1>7

(* The whole list of an index.                                             *)
LEMMA AllOfCandidate ==
    ASSUME NEW preds, NEW c, table \in Tables, CandidateOK(c, preds)
    PROVE  AllRows(c.file, c.key) = Ascending(RowsOn(preds, c.columns))
  <1> DEFINE A == RowsOn(preds, c.columns)
             n == Cardinality(A)
  <1>1. AnswersKey(c.file, c.key, A) /\ RowSet(A)
    BY SelectedRows DEF CandidateOK
  <1> HIDE DEF A
  <1>2. IdSet(A) /\ A \in SUBSET Nat /\ RowCount(c.file, c.key) = n
    BY <1>1 DEF AnswersKey, RowSet
  <1>3. n \in Nat
    BY <1>2, AscendingOrder
  <1>4. {r \in A : r >= 0} = A
    <2>1. \A r \in A : r >= 0
      BY <1>2
    <2>2. QED BY <2>1, Zenon
  <1> HIDE DEF n
  <1>5. RowsFrom(c.file, c.key, 0, n) = Take(Ascending(A), n)
    <2>1. RowsFrom(c.file, c.key, 0, n) = Take(Ascending({r \in A : r >= 0}), n)
      <3>1. \A first, limit \in Nat :
               RowsFrom(c.file, c.key, first, limit) = Take(Ascending({r \in A : r >= first}), limit)
        BY <1>1 DEF AnswersKey
      <3>2. 0 \in Nat
        OBVIOUS
      <3>3. QED BY <1>3, <3>1, <3>2, Zenon
    <2>2. QED BY <1>4, <2>1
  <1>6. Take(Ascending(A), n) = Ascending(Smallest(n, A)) /\ Smallest(n, A) = A
    <2>1. Take(Ascending(A), n) = Ascending(Smallest(n, A))
      BY <1>2, <1>3, TakeAscending
    <2>2. \A x \in A : Rank(x, A) < n
      BY <1>2, RankTyped DEF IdSet, n
    <2>3. Smallest(n, A) = A
      BY <2>2, Zenon DEF Smallest
    <2>4. QED BY <2>1, <2>3
  <1>7. QED BY <1>2, <1>5, <1>6 DEF AllRows, A

(* An index, two of them, and those after it.                              *)
LEMMA ColumnsSplit ==
    ASSUME NEW X, NEW selected \in Seq(X), selected # <<>>
    PROVE  /\ Len(selected) \in Nat \ {0} /\ Len(Tail(selected)) \in Nat
           /\ \A i \in 1..Len(Tail(selected)) : \E j \in 1..Len(selected) : Tail(selected)[i] = selected[j]
           /\ ColumnsOf(selected) = selected[1].columns \cup ColumnsOf(Tail(selected))
           /\ Len(selected) >= 2 =>
                LET rest == SubSeq(selected, 3, Len(selected))
                IN /\ Len(rest) \in Nat /\ 2 \in 1..Len(selected)
                   /\ \A i \in 1..Len(rest) : \E j \in 1..Len(selected) : rest[i] = selected[j]
                   /\ ColumnsOf(selected) = (selected[1].columns \cup selected[2].columns) \cup ColumnsOf(rest)
  <1> DEFINE n == Len(selected)
             tail == Tail(selected)
             rest == SubSeq(selected, 3, n)
  <1>1. n \in Nat \ {0}
    OBVIOUS
  <1>2. Len(tail) = n - 1 /\ \A i \in 1..(n - 1) : tail[i] = selected[i + 1]
    OBVIOUS
  <1>3. n >= 2 => Len(rest) = n - 2 /\ \A i \in 1..(n - 2) : rest[i] = selected[i + 2]
    <2>1. SUFFICES ASSUME n >= 2 PROVE Len(rest) = n - 2 /\ \A i \in 1..(n - 2) : rest[i] = selected[i + 2]
      OBVIOUS
    <2>2. 2 \in 0..Len(selected) /\ Len(selected) \in 2..Len(selected) /\ 2 + 1 = 3
      BY <1>1, <2>1
    <2>3. LET part == SubSeq(selected, 2 + 1, Len(selected))
          IN Len(part) = Len(selected) - 2 /\ \A k \in 1..(Len(selected) - 2) : part[k] = selected[2 + k]
      <3>2. PICK b \in Nat : b = Len(selected)
        BY <1>1
      <3>3. 2 \in 0..b /\ b \in 2..b
        BY <2>2, <3>2
      <3>4. LET part == SubSeq(selected, 2 + 1, b)
            IN Len(part) = b - 2 /\ \A k \in 1..(b - 2) : part[k] = selected[2 + k]
        BY <3>2, <3>3, PartOf
      <3>5. QED BY <3>2, <3>4
    <2>4. Len(rest) = n - 2 /\ \A k \in 1..(n - 2) : rest[k] = selected[2 + k]
      BY <2>2, <2>3
    <2> HIDE DEF rest, n
    <2>5. \A k \in 1..(n - 2) : 2 + k = k + 2
      BY <1>1
    <2>6. QED BY <2>4, <2>5
  <1> HIDE DEF n, tail, rest
  <1>4. \A i \in 1..(n - 1) : i + 1 \in 1..n
    BY <1>1
  <1>5. \A j \in 1..n : j = 1 \/ \E i \in 1..(n - 1) : j = i + 1
    <2>1. SUFFICES ASSUME NEW j \in 1..n, j # 1 PROVE j - 1 \in 1..(n - 1) /\ j = (j - 1) + 1
      OBVIOUS
    <2>2. QED BY <1>1, <2>1
  <1>6. ColumnsOf(tail) = UNION {selected[i + 1].columns : i \in 1..(n - 1)}
    BY <1>2 DEF ColumnsOf
  <1>7. ColumnsOf(selected) = UNION {selected[j].columns : j \in 1..n} /\ 1 \in 1..n
    BY <1>1 DEF ColumnsOf, n
  <1>8. ColumnsOf(selected) = selected[1].columns \cup ColumnsOf(tail)
    BY <1>4, <1>5, <1>6, <1>7
  <1>9. ASSUME n >= 2
        PROVE  /\ Len(rest) \in Nat /\ 2 \in 1..n
               /\ \A i \in 1..Len(rest) : \E j \in 1..n : rest[i] = selected[j]
               /\ ColumnsOf(selected) = (selected[1].columns \cup selected[2].columns) \cup ColumnsOf(rest)
    <2>1. \A i \in 1..(n - 2) : i + 2 \in 1..n
      BY <1>1
    <2>2. \A j \in 1..n : j = 1 \/ j = 2 \/ \E i \in 1..(n - 2) : j = i + 2
      <3>1. SUFFICES ASSUME NEW j \in 1..n, j # 1, j # 2 PROVE j - 2 \in 1..(n - 2) /\ j = (j - 2) + 2
        OBVIOUS
      <3>2. QED BY <1>1, <3>1
    <2>3. ColumnsOf(rest) = UNION {selected[i + 2].columns : i \in 1..(n - 2)}
      BY <1>3, <1>9 DEF ColumnsOf
    <2>4. 2 \in 1..n /\ n - 2 \in Nat
      BY <1>1, <1>9
    <2>5. ColumnsOf(selected) = (selected[1].columns \cup selected[2].columns) \cup ColumnsOf(rest)
      BY <1>7, <2>1, <2>2, <2>3, <2>4
    <2>6. QED BY <1>3, <1>9, <2>1, <2>4, <2>5
  <1>10. /\ n - 1 \in Nat
         /\ \A i \in 1..Len(tail) : \E j \in 1..n : tail[i] = selected[j]
    BY <1>1, <1>2, <1>4
  <1>11. QED BY <1>1, <1>2, <1>8, <1>9, <1>10 DEF n, tail, rest

----------------------------------------------------------------------------
(* Planning.                                                               *)

(* Every exact index of the layout has been built.                         *)
RowIndexes == table \in Tables /\ layout \in Layouts /\ rowHier = ExactIndexes(Len(layout.exact))

(* What the engine finds available are exact indexes that can help.        *)
LEMMA AvailableRows ==
    ASSUME RowIndexes, NEW preds \in Preds
    PROVE  LET a == Available(rowHier, preds)
           IN Len(a) \in Nat /\ DOMAIN a = 1..Len(a) /\ \A i \in 1..Len(a) : Candidate(a[i], preds)
  <1> DEFINE a == Available(rowHier, preds)
             m == Len(layout.exact)
  <1>1. m \in Nat /\ \A h \in 1..m : layout.exact[h].columns \in IndexColumns /\ layout.exact[h].kind \in RowKinds
    BY LayoutFacts DEF RowIndexes
  <1>2. DOMAIN rowHier = 1..m /\ \A h \in 1..m : rowHier[h] = ExactIndex(layout.exact[h])
    BY DEF RowIndexes, ExactIndexes
  <1> HIDE DEF m
  <1>3. /\ Len(a) \in Nat /\ DOMAIN a = 1..Len(a)
        /\ \A i \in 1..Len(a) : \E h \in 1..m : Usable(rowHier[h].columns, preds) /\ a[i] = Offer(rowHier[h], preds)
    BY <1>1, <1>2, Offered
  <1> HIDE DEF a
  <1>4. ASSUME NEW i \in 1..Len(a) PROVE Candidate(a[i], preds)
    <2>1. PICK h \in 1..m : Usable(rowHier[h].columns, preds) /\ a[i] = Offer(rowHier[h], preds)
      BY <1>3
    <2>2. rowHier[h] = ExactIndex(layout.exact[h]) /\ ExactIndex(layout.exact[h]).columns = layout.exact[h].columns
      BY <1>2 DEF ExactIndex
    <2>3. QED BY <1>1, <2>1, <2>2 DEF Candidate
  <1>5. QED BY <1>3, <1>4 DEF a

(* The candidates of a plan are the rows that all its indexes select.      *)
LEMMA CandidatesIntersect ==
    ASSUME table \in Tables, NEW preds \in Preds, Satisfiable(preds),
           NEW X, \A x \in X : Candidate(x, preds), NEW plan, plan.selected \in Seq(X), plan.selected # <<>>
    PROVE  CandidateRows(plan) = Ascending(RowsOn(preds, ColumnsOf(plan.selected)))
  <1> DEFINE selected == plan.selected
             first == selected[1]
             second == selected[2]
             n == Len(selected)
             tail == Tail(selected)
             rest == SubSeq(selected, 3, Len(selected))
             A == RowsOn(preds, first.columns)
             B == RowsOn(preds, second.columns)
  <1>1. n \in Nat \ {0} /\ \A i \in 1..n : selected[i] \in X
    OBVIOUS
  <1>2. \A i \in 1..n : Candidate(selected[i], preds) /\ CandidateOK(selected[i], preds)
    BY <1>1, CandidateAnswers
  <1>3. /\ Len(tail) \in Nat /\ \A i \in 1..Len(tail) : \E j \in 1..n : tail[i] = selected[j]
        /\ ColumnsOf(selected) = first.columns \cup ColumnsOf(tail)
        /\ n >= 2 => /\ Len(rest) \in Nat /\ 2 \in 1..n
                     /\ \A i \in 1..Len(rest) : \E j \in 1..n : rest[i] = selected[j]
                     /\ ColumnsOf(selected) = (first.columns \cup second.columns) \cup ColumnsOf(rest)
    BY ColumnsSplit
  <1>4. 1 \in 1..n
    BY <1>1
  <1> HIDE DEF n, tail, rest, selected
  <1>5. CandidateOK(first, preds) /\ Candidate(first, preds)
    BY <1>2, <1>4
  <1>6. AllRows(first.file, first.key) = Ascending(A) /\ RowSet(A) /\ RowSet(B)
    BY <1>5, AllOfCandidate, SelectedRows
  <1>7. CASE EmptyPlan(plan)
    <2>1. CandidateRows(plan) = <<>>
      BY <1>7 DEF CandidateRows
    <2>2. first.count = 0
      BY <1>7 DEF EmptyPlan, selected
    <2>3. Cardinality(A) = 0 /\ IsFiniteSet(A)
      BY <1>5, <1>6, <2>2 DEF CandidateOK, RowSet
    <2>4. A = {}
      BY <2>3, FS_EmptySet
    <2>5. RowsOn(preds, ColumnsOf(selected)) = {}
      BY <1>3, <2>4, RowsOnMore
    <2>6. QED BY <2>1, <2>5, AscendingEmpty DEF selected
  <1>8. CASE ~ EmptyPlan(plan) /\ n >= 2 /\ first.file.kind = "bitslice" /\ second.file.kind = "bitslice"
    <2>1. CandidateRows(plan) = IntersectAll(rest, SlicePair(first.file, first.key, second.file, second.key))
      BY <1>8 DEF CandidateRows, selected, n, rest
    <2>2. Candidate(second, preds)
      BY <1>2, <1>3, <1>8
    <2>3. SlicePair(first.file, first.key, second.file, second.key) = Ascending(A \cap B)
      BY <1>5, <1>8, <2>2, CandidatePair
    <2>4. RowSet(A \cap B)
      <3>1. A \cap B \in SUBSET (0..(Len(table) - 1))
        BY <1>6 DEF RowSet
      <3> HIDE DEF A, B
      <3>2. QED BY <3>1, SomeRows
    <2>5. Answering(rest, preds) /\ Len(rest) \in Nat
      BY <1>2, <1>3, <1>8 DEF Answering
    <2>6. ColumnsOf(selected) = (first.columns \cup second.columns) \cup ColumnsOf(rest)
      BY <1>3, <1>8
    <2>7. A \cap B = RowsOn(preds, first.columns \cup second.columns)
      BY RowsOnMore
    <2>8. RowsOn(preds, ColumnsOf(selected)) = (A \cap B) \cap RowsOn(preds, ColumnsOf(rest))
      <3> HIDE DEF A, B, first, second
      <3>1. RowsOn(preds, (first.columns \cup second.columns) \cup ColumnsOf(rest))
              = RowsOn(preds, first.columns \cup second.columns) \cap RowsOn(preds, ColumnsOf(rest))
        BY RowsOnMore
      <3>2. QED BY <2>6, <2>7, <3>1
    <2> DEFINE C == A \cap B
    <2>9. IntersectAll(rest, Ascending(C)) = Ascending(C \cap RowsOn(preds, ColumnsOf(rest)))
      <3> HIDE DEF C
      <3>1. RowSet(C)
        BY <2>4 DEF C
      <3>2. QED BY <2>5, <3>1, IntersectedRows
    <2>10. QED BY <2>1, <2>3, <2>8, <2>9 DEF selected
  <1>9. CASE ~ EmptyPlan(plan) /\ ~ (n >= 2 /\ first.file.kind = "bitslice" /\ second.file.kind = "bitslice")
    <2>1. CandidateRows(plan) = IntersectAll(tail, AllRows(first.file, first.key))
      BY <1>9 DEF CandidateRows, selected, n, tail
    <2>2. Answering(tail, preds) /\ Len(tail) \in Nat
      BY <1>2, <1>3 DEF Answering
    <2>3. RowsOn(preds, ColumnsOf(selected)) = A \cap RowsOn(preds, ColumnsOf(tail))
      BY <1>3, RowsOnMore
    <2> HIDE DEF A
    <2>4. IntersectAll(tail, Ascending(A)) = Ascending(A \cap RowsOn(preds, ColumnsOf(tail)))
      BY <1>6, <2>2, IntersectedRows
    <2>5. QED BY <1>6, <2>1, <2>3, <2>4 DEF selected
  <1>10. QED BY <1>7, <1>8, <1>9

----------------------------------------------------------------------------
(* What a plan promises: candidates that leave no match out; if it is covered, the matches     *)
(* themselves, which its indexes select together.                                              *)

Selects(selected, preds) ==
    /\ \E X : /\ \A x \in X : Candidate(x, preds)
              /\ selected \in Seq(X) /\ selected # <<>>
    /\ Satisfiable(preds) /\ RowsOn(preds, ColumnsOf(selected)) = MatchSet(preds)

PlanOK(plan, preds) ==
    plan.found =>
        /\ \E A : RowSet(A) /\ MatchSet(preds) \subseteq A /\ CandidateRows(plan) = Ascending(A)
        /\ plan.covered => CandidateRows(plan) = Ascending(MatchSet(preds))
        /\ plan.covered /\ EmptyPlan(plan) => MatchSet(preds) = {}
        /\ plan.covered /\ ~ EmptyPlan(plan) => Selects(plan.selected, preds)
        /\ ~ plan.covered => Satisfiable(preds)

(* A plan whose indexes select no row.                                     *)
LEMMA EmptyPlanOK ==
    ASSUME table \in Tables, NEW preds \in Preds, NEW plan, EmptyPlan(plan), MatchSet(preds) = {}, plan.covered
    PROVE  PlanOK(plan, preds)
  <1>1. CandidateRows(plan) = <<>> /\ RowSet(MatchSet(preds)) /\ Ascending({}) = <<>>
    BY SelectedRows, AscendingEmpty DEF CandidateRows
  <1>2. CandidateRows(plan) = Ascending(MatchSet(preds))
    BY <1>1
  <1>3. QED BY <1>1, <1>2 DEF PlanOK

(* The greedy cover of the columns asked for.                              *)
LEMMA CoveringPlan ==
    ASSUME RowIndexes, NEW preds \in Preds, Satisfiable(preds), Available(rowHier, preds) # <<>>
    PROVE  LET x == GreedyCover(Available(rowHier, preds), Constrained(preds))
           IN PlanOK([found |-> TRUE, covered |-> x.uncovered = {}, selected |-> ByCount(x.selected)], preds)
  <1> DEFINE a == Available(rowHier, preds)
             C == Constrained(preds)
             x == GreedyCover(a, C)
             X == {a[i] : i \in DOMAIN a}
             n == Len(a)
             sel == ByCount(x.selected)
             plan == [found |-> TRUE, covered |-> x.uncovered = {}, selected |-> sel]
  <1>0. table \in Tables
    BY DEF RowIndexes
  <1>1. n \in Nat /\ DOMAIN a = 1..n /\ \A i \in 1..n : Candidate(a[i], preds)
    BY AvailableRows
  <1> HIDE DEF a
  <1>2. \A i \in 1..n : CandidateOK(a[i], preds)
    BY <1>0, <1>1, CandidateAnswers
  <1>3. \A i \in 1..n : a[i].count \in Nat /\ IsFiniteSet(a[i].columns)
    <2>1. \A i \in 1..n : Cardinality(RowsOn(preds, a[i].columns)) \in Nat
      <3>1. ASSUME NEW D PROVE Cardinality(RowsOn(preds, D)) \in Nat
        BY <1>0, SelectedRows, AscendingOrder DEF RowSet
      <3>2. QED BY <3>1
    <2>2. QED BY <1>2, <2>1 DEF CandidateOK
  <1>4. n # 0
    BY <1>1 DEF a
  <1>5. \A c \in X : Candidate(c, preds) /\ CandidateOK(c, preds) /\ c.count \in Int
    BY <1>1, <1>2, <1>3
  <1>6. \E i \in 1..n : a[i].columns \cap C # {}
    <2>1. 1 \in 1..n
      BY <1>1, <1>4
    <2>2. a[1].columns \subseteq C /\ a[1].columns # {}
      BY <1>2, <2>1 DEF CandidateOK
    <2>3. QED BY <2>1, <2>2
  <1>7. CoverOK(a, C, x) /\ x.selected # <<>>
    BY <1>1, <1>3, <1>6, Covered
  <1> HIDE DEF x, n, C, X
  <1>8. x.selected \in Seq(X) /\ x.uncovered = C \ ColumnsOf(x.selected)
    BY <1>7 DEF CoverOK, X
  <1>9. sel \in Seq(X) /\ ToSet(sel) = ToSet(x.selected) /\ sel # <<>>
    BY <1>5, <1>7, <1>8, SortedByCount
  <1>10. ColumnsOf(sel) = ColumnsOf(x.selected)
    <2>1. \A s \in Seq(X) : ColumnsOf(s) = UNION {c.columns : c \in ToSet(s)}
      <3>1. SUFFICES ASSUME NEW s \in Seq(X) PROVE ColumnsOf(s) = UNION {c.columns : c \in ToSet(s)}
        OBVIOUS
      <3>2. ToSet(s) = {s[i] : i \in 1..Len(s)}
        BY DEF ToSet
      <3>3. QED BY <3>2 DEF ColumnsOf
    <2>2. QED BY <1>8, <1>9, <2>1
  <1> HIDE DEF sel
  <1>11. plan.found /\ plan.selected = sel /\ (plan.covered <=> x.uncovered = {})
    OBVIOUS
  <1> DEFINE D == ColumnsOf(sel)
             A == RowsOn(preds, D)
             M == MatchSet(preds)
  <1> HIDE DEF plan
  <1>12. CandidateRows(plan) = Ascending(A)
    BY <1>0, <1>5, <1>9, <1>11, CandidatesIntersect
  <1>13. M = RowsOn(preds, C) /\ RowSet(A) /\ RowSet(M)
    BY <1>0, Satisfied, SelectedRows DEF C
  <1>14. D \subseteq C
    <2>1. \A i \in 1..Len(sel) : sel[i] \in X
      BY <1>9
    <2>2. \A c \in X : c.columns \subseteq C
      BY <1>5 DEF CandidateOK, C
    <2>3. \A i \in 1..Len(sel) : sel[i].columns \subseteq C
      BY <2>1, <2>2
    <2>4. QED BY <2>3 DEF ColumnsOf
  <1>15. M \subseteq A
    <2>1. RowsOn(preds, C) \subseteq RowsOn(preds, D)
      BY <1>14, RowsOnMore
    <2>2. QED BY <1>13, <2>1
  <1>16. plan.covered => A = M
    <2>1. plan.covered => C \ D = {}
      BY <1>8, <1>10, <1>11
    <2>2. plan.covered => C = D
      BY <1>14, <2>1
    <2>3. QED BY <1>13, <2>2
  <1> HIDE DEF A, D, M
  <1>17. plan.covered /\ EmptyPlan(plan) => M = {}
    <2>1. SUFFICES ASSUME plan.covered, EmptyPlan(plan) PROVE M = {}
      OBVIOUS
    <2>2. Ascending(A) = <<>>
      BY <1>12, <2>1 DEF CandidateRows
    <2>3. ToSet(Ascending(A)) = A
      BY <1>13, AscendingFacts DEF RowSet
    <2>4. A = {}
      BY <2>2, <2>3 DEF ToSet
    <2>5. QED BY <1>15, <2>4
  <1>18. plan.covered => Selects(plan.selected, preds)
    BY <1>5, <1>9, <1>11, <1>16 DEF Selects, A, D, M
  <1>19. PlanOK(plan, preds)
    BY <1>12, <1>13, <1>15, <1>16, <1>17, <1>18 DEF PlanOK, M
  <1>20. QED BY <1>19 DEF plan, sel, x, C, a

(* The planner answers from exact indexes, or proves that nothing matches, or leaves rows to be checked. *)
THEOREM PlansSelect ==
    ASSUME RowIndexes, NEW preds \in Preds
    PROVE  PlanOK(RowSelectionPlan(preds), preds)
  <1> DEFINE plan == RowSelectionPlan(preds)
             a == Available(rowHier, preds)
             x == GreedyCover(a, Constrained(preds))
             I == {i \in 1..Len(a) : a[i].count = 0}
             empty == IF I # {} THEN Min(I) ELSE 0
  <1>0. table \in Tables
    BY DEF RowIndexes
  <1>1. Len(a) \in Nat /\ DOMAIN a = 1..Len(a) /\ \A i \in 1..Len(a) : Candidate(a[i], preds)
    BY AvailableRows
  <1>2. plan = IF ~ Satisfiable(preds) THEN [found |-> TRUE, covered |-> TRUE, selected |-> <<>>]
               ELSE IF empty # 0 THEN [found |-> TRUE, covered |-> TRUE, selected |-> <<a[empty]>>]
               ELSE IF a = <<>> THEN NoPlan
               ELSE [found |-> TRUE, covered |-> x.uncovered = {}, selected |-> ByCount(x.selected)]
    BY DEF RowSelectionPlan, SelectInSeq
  <1>3. empty # 0 => empty \in 1..Len(a) /\ a[empty].count = 0
    <2>1. I # {} => Min(I) \in I
      BY <1>1, FirstPosition
    <2>2. QED BY <2>1
  <1> HIDE DEF plan, empty
  <1>4. CASE ~ Satisfiable(preds)
    <2>1. MatchSet(preds) = {}
      BY <1>0, <1>4, Unsatisfied
    <2>2. plan.covered /\ EmptyPlan(plan)
      BY <1>2, <1>4 DEF EmptyPlan
    <2>3. QED BY <1>0, <2>1, <2>2, EmptyPlanOK DEF plan
  <1>5. CASE Satisfiable(preds) /\ empty # 0
    <2> DEFINE c == a[empty]
    <2>1. c.count = 0 /\ CandidateOK(c, preds)
      BY <1>0, <1>1, <1>3, <1>5, CandidateAnswers
    <2>2. plan.covered /\ plan.selected = <<c>>
      BY <1>2, <1>5
    <2> HIDE DEF c
    <2>3. EmptyPlan(plan)
      BY <2>1, <2>2 DEF EmptyPlan
    <2>4. RowSet(RowsOn(preds, c.columns)) /\ MatchSet(preds) = RowsOn(preds, Constrained(preds))
      BY <1>0, <1>5, SelectedRows, Satisfied
    <2>5. RowsOn(preds, c.columns) = {}
      BY <2>1, <2>4, FS_EmptySet DEF CandidateOK, RowSet
    <2>6. MatchSet(preds) = {}
      <3>1. c.columns \subseteq Constrained(preds)
        BY <2>1 DEF CandidateOK
      <3>2. QED BY <2>4, <2>5, <3>1, RowsOnMore
    <2>7. QED BY <1>0, <2>2, <2>3, <2>6, EmptyPlanOK DEF plan
  <1>6. CASE Satisfiable(preds) /\ empty = 0 /\ a = <<>>
    <2>1. ~ plan.found
      BY <1>2, <1>6 DEF NoPlan
    <2>2. QED BY <2>1 DEF PlanOK, plan
  <1>7. CASE Satisfiable(preds) /\ empty = 0 /\ a # <<>>
    <2>1. plan = [found |-> TRUE, covered |-> x.uncovered = {}, selected |-> ByCount(x.selected)]
      BY <1>2, <1>7
    <2>2. PlanOK([found |-> TRUE, covered |-> x.uncovered = {}, selected |-> ByCount(x.selected)], preds)
      BY <1>7, CoveringPlan
    <2>3. QED BY <2>1, <2>2 DEF plan
  <1>8. QED BY <1>4, <1>5, <1>6, <1>7

----------------------------------------------------------------------------
(* Checking candidates.                                                    *)

(* The segments hold the whole table.                                      *)
Stored == SegmentsOK /\ table \in Tables /\ rowStart = Len(table)

(* The rows of a segment.                                                  *)
RowsIn(s) == segments[s].rowStart..(segments[s].rowStart + segments[s].rows - 1)

(* A segment holds the values of its rows.                                 *)
LEMMA ValueHeld ==
    ASSUME Stored, NEW s \in 1..Len(segments), NEW row \in RowsIn(s)
    PROVE  /\ row - segments[s].rowStart < segments[s].rows /\ row \in 0..(Len(table) - 1)
           /\ \A c \in ColumnIds : Value(segments[s], row - segments[s].rowStart, c) = table[row + 1][c]
  <1> DEFINE a == segments[s].rowStart
             n == segments[s].rows
             i == row - a + 1
  <1>1. a \in Nat /\ n \in Nat /\ a + n <= Len(table) /\ Len(table) \in Nat
    BY SegmentParts, TableRows DEF Stored, SegmentLayout
  <1>2. \A k \in 1..n, c \in ColumnIds : Value(segments[s], k - 1, c) = table[a + k][c]
    BY DEF Stored, SegmentsOK, SegmentOK
  <1>3. row \in a..(a + n - 1)
    BY DEF RowsIn
  <1> HIDE DEF a, n
  <1>4. row \in Int /\ row >= a /\ row <= a + n - 1
    BY <1>1, <1>3
  <1>5. i \in 1..n /\ i - 1 = row - a /\ a + i = row + 1 /\ row \in 0..(Len(table) - 1) /\ row - a < n
    BY <1>1, <1>4
  <1> HIDE DEF i
  <1>6. \A c \in ColumnIds : Value(segments[s], i - 1, c) = table[a + i][c]
    BY <1>2, <1>5
  <1>7. QED BY <1>5, <1>6 DEF a, n

(* A row matches in its segment just if it matches in the table.           *)
LEMMA MatchesTable ==
    ASSUME Stored, NEW preds, Satisfiable(preds), NEW s \in 1..Len(segments), NEW row \in RowsIn(s)
    PROVE  Matches(segments[s], row - segments[s].rowStart, preds) <=> row \in MatchSet(preds)
  <1>1. \A p \in DOMAIN preds : preds[p].column \in ColumnIds
    BY DEF Satisfiable
  <1>2. /\ row - segments[s].rowStart < segments[s].rows /\ row \in 0..(Len(table) - 1)
        /\ \A c \in ColumnIds : Value(segments[s], row - segments[s].rowStart, c) = table[row + 1][c]
    BY ValueHeld
  <1> DEFINE local == row - segments[s].rowStart
  <1>3. \A p \in DOMAIN preds : Value(segments[s], local, preds[p].column) = table[row + 1][preds[p].column]
    BY <1>1, <1>2
  <1>4. Matches(segments[s], local, preds) <=> \A p \in DOMAIN preds : table[row + 1][preds[p].column] = preds[p].value
    BY <1>2, <1>3 DEF Matches
  <1>5. row \in MatchSet(preds) <=> \A p \in DOMAIN preds : table[row + 1][preds[p].column] = preds[p].value
    BY <1>1, <1>2 DEF MatchSet
  <1>6. QED BY <1>4, <1>5

(* Checking candidates segment by segment keeps those that match, in order. *)
LEMMA VerifiedMatches ==
    ASSUME Stored, NEW preds, Satisfiable(preds), NEW A, RowSet(A)
    PROVE  VerifiedRows(Ascending(A), preds) = Ascending(A \cap MatchSet(preds))
  <1> DEFINE n == Len(segments)
             rows == Ascending(A)
             M == MatchSet(preds)
             Own == [s \in 1..n |-> A \cap (RowsIn(s) \cap M)]
             Kept(s) == {i \in DOMAIN rows : /\ rows[i] \in RowsIn(s)
                                             /\ Matches(segments[s], rows[i] - segments[s].rowStart, preds)}
             all == UNION {Own[s] : s \in 1..n}
  <1>1. SegmentLayout
    BY SegmentParts DEF Stored
  <1>2. n \in Nat /\ DOMAIN segments = 1..n
    BY <1>1 DEF SegmentLayout
  <1>3. IdSet(A) /\ A \in SUBSET (0..(Len(table) - 1))
    BY DEF RowSet
  <1>4. VerifiedRows(rows, preds) = FlattenSeq([s \in 1..n |-> EntriesAt(rows, Kept(s))])
    BY <1>2 DEF VerifiedRows, Select, RowsIn
  <1>5. ASSUME NEW s \in 1..n
        PROVE  IdSet(Own[s]) /\ EntriesAt(rows, Kept(s)) = Ascending(Own[s])
    <2>1. Kept(s) = {i \in DOMAIN rows : rows[i] \in RowsIn(s) \cap M}
      <3>1. \A row \in RowsIn(s) : Matches(segments[s], row - segments[s].rowStart, preds) <=> row \in M
        BY MatchesTable
      <3> HIDE DEF rows, M
      <3>2. QED BY <3>1
    <2> HIDE DEF Kept, M
    <2>2. IdSet(A \cap (RowsIn(s) \cap M)) /\ EntriesAt(rows, Kept(s)) = Ascending(A \cap (RowsIn(s) \cap M))
      BY <1>3, <2>1, AscendingWithin
    <2>3. QED BY <2>2
  <1> HIDE DEF rows, Kept
  <1>6. [s \in 1..n |-> EntriesAt(rows, Kept(s))] = [s \in 1..n |-> Ascending(Own[s])]
    BY <1>5
  <1>7. \A s, t \in 1..n : s < t => \A x \in Own[s], y \in Own[t] : x < y
    <2>1. SUFFICES ASSUME NEW s \in 1..n, NEW t \in 1..n, s < t, NEW x \in Own[s], NEW y \in Own[t] PROVE x < y
      OBVIOUS
    <2>2. /\ segments[s].rowStart \in Nat /\ segments[s].rows \in Nat /\ segments[t].rowStart \in Nat
          /\ segments[t].rows \in Nat /\ segments[s].rowStart + segments[s].rows <= segments[t].rowStart
      BY <1>1, <2>1 DEF SegmentLayout
    <2>3. x \in RowsIn(s) /\ y \in RowsIn(t)
      BY <2>1
    <2>4. QED BY SMTT(30), <2>2, <2>3 DEF RowsIn
  <1>8. all = A \cap M
    <2>1. \A row \in 0..(Len(table) - 1) : \E s \in 1..n : row \in RowsIn(s)
      BY <1>1 DEF SegmentLayout, Stored, RowsIn
    <2> HIDE DEF M, n
    <2>2. \A x \in A \cap M : x \in all
      <3>1. SUFFICES ASSUME NEW x \in A \cap M PROVE x \in all
        OBVIOUS
      <3>2. PICK s \in 1..n : x \in RowsIn(s)
        BY <1>3, <2>1, <3>1
      <3>3. x \in Own[s]
        BY <3>1, <3>2
      <3>4. QED BY <3>2, <3>3
    <2>3. \A x \in all : x \in A \cap M
      OBVIOUS
    <2>4. QED BY <2>2, <2>3
  <1>9. \A s \in 1..n : IdSet(Own[s])
    BY <1>5
  <1> HIDE DEF Own, n
  <1>10. FlattenSeq([s \in 1..n |-> Ascending(Own[s])]) = Ascending(all)
    BY <1>2, <1>7, <1>9, FlattenedAscending
  <1>11. QED BY <1>4, <1>6, <1>8, <1>10 DEF rows

(* The rows of the table on some pages.                                    *)
RowsOnPages(P) == {row \in 0..(Len(table) - 1) : row \div PageRows \in P}

(* The rows of a segment on a page.                                        *)
PageRowsIn(s, page) == {row \in RowsIn(s) : row \div PageRows = page}

(* What RowsOfPages lists of a segment.                                    *)
ListedPages(s, own) ==
    FlattenSeq([p \in DOMAIN own |->
        LET start == (own[p] - segments[s].firstPage) * PageRows
        IN [i \in 1..(IF start + PageRows < segments[s].rows THEN PageRows ELSE segments[s].rows - start) |->
               segments[s].rowStart + start + i - 1]])

SegmentPageIds(s) == segments[s].firstPage..(segments[s].firstPage + SegmentPages(segments[s]) - 1)

(* The pages of a segment that are asked for, listed one by one, are its rows on them. *)
LEMMA SegmentListed ==
    ASSUME Stored, NEW s \in 1..Len(segments), NEW P, IdSet(P), P \subseteq SegmentPageIds(s)
    PROVE  LET rows == {row \in RowsIn(s) : row \div PageRows \in P}
           IN IdSet(rows) /\ ListedPages(s, Ascending(P)) = Ascending(rows)
  <1> DEFINE own == Ascending(P)
             m == Cardinality(P)
             a == segments[s].rowStart
             n == segments[s].rows
             f == segments[s].firstPage
             start(page) == (page - f) * PageRows
             len(page) == IF start(page) + PageRows < n THEN PageRows ELSE n - start(page)
             On == [p \in 1..m |-> PageRowsIn(s, own[p])]
             all == UNION {On[p] : p \in 1..m}
  <1>1. a \in Nat /\ n \in Nat \ {0} /\ f \in Nat /\ a = f * PageRows /\ PageRows \in Nat \ {0}
    <2>1. SegmentLayout /\ SegmentOK(s)
      BY SegmentParts DEF Stored, SegmentsOK
    <2>2. QED BY <2>1, EngineConstants DEF SegmentLayout, SegmentOK
  <1>2. m \in Nat /\ DOMAIN own = 1..m /\ Increasing(own) /\ ToSet(own) = P
    BY AscendingFacts
  <1>3. \A p \in 1..m : own[p] \in P
    <2> HIDE DEF own
    <2>1. QED BY <1>2 DEF ToSet
  <1>4. SegmentPageIds(s) = f..(f + CeilDiv(n, PageRows) - 1)
    BY DEF SegmentPageIds, SegmentPages
  <1> HIDE DEF own, m, a, n, f
  <1>5. ASSUME NEW page \in P
        PROVE  /\ IdSet(PageRowsIn(s, page))
               /\ [i \in 1..len(page) |-> a + start(page) + i - 1] = Ascending(PageRowsIn(s, page))
    <2> DEFINE b == a + start(page)
               k == len(page)
    <2>1. page \in f..(f + CeilDiv(n, PageRows) - 1)
      BY <1>4, <1>5
    <2>2. /\ start(page) \in Nat /\ k \in Nat
          /\ \A row \in Int : row \in (a + start(page))..(a + start(page) + k - 1)
                                <=> row \in a..(a + n - 1) /\ row \div PageRows = page
      <3>1. OnPage(PageRows, f, a, n, page)
        BY <1>1, <2>1, PagePart
      <3>2. QED BY <3>1 DEF OnPage
    <2> HIDE DEF start, len
    <2>3. b \in Nat
      <3> DEFINE t == start(page)
      <3>1. t \in Nat /\ a \in Nat
        BY <1>1, <2>2
      <3> HIDE DEF t
      <3>2. a + t \in Nat
        BY <3>1
      <3>3. QED BY <3>2 DEF t
    <2>4. RowsIn(s) = a..(a + n - 1)
      BY DEF RowsIn, a, n
    <2> HIDE DEF k
    <2> DEFINE C == b..(b + k - 1)
    <2>5. \A row \in Int : row \in C <=> row \in RowsIn(s) /\ row \div PageRows = page
      BY <2>2, <2>4
    <2>6. C \subseteq Int /\ RowsIn(s) \subseteq Int
      BY <1>1, <2>2, <2>3, <2>4
    <2> HIDE DEF C
    <2>7. C = PageRowsIn(s, page)
      BY <2>5, <2>6 DEF PageRowsIn
    <2> HIDE DEF b
    <2>8. IdSet(C) /\ [i \in 1..k |-> b + i - 1] = Ascending(C)
      BY <2>2, <2>3, CountingUp DEF C
    <2>9. QED BY <2>7, <2>8 DEF b, k
  <1>6. ListedPages(s, own) = FlattenSeq([p \in 1..m |-> [i \in 1..len(own[p]) |-> a + start(own[p]) + i - 1]])
    BY <1>2 DEF ListedPages, a, n, f
  <1> HIDE DEF len, start
  <1>7. \A p \in 1..m : IdSet(On[p])
                        /\ [i \in 1..len(own[p]) |-> a + start(own[p]) + i - 1] = Ascending(On[p])
    <2>1. \A p \in 1..m : On[p] = PageRowsIn(s, own[p])
      OBVIOUS
    <2> HIDE DEF On
    <2>2. SUFFICES ASSUME NEW p \in 1..m
                   PROVE  IdSet(On[p]) /\ [i \in 1..len(own[p]) |-> a + start(own[p]) + i - 1] = Ascending(On[p])
      OBVIOUS
    <2>3. own[p] \in P /\ On[p] = PageRowsIn(s, own[p])
      BY <1>3, <2>1, <2>2
    <2>4. QED BY <1>5, <2>3
  <1>8. [p \in 1..m |-> [i \in 1..len(own[p]) |-> a + start(own[p]) + i - 1]] = [p \in 1..m |-> Ascending(On[p])]
    BY <1>7
  <1>9. \A p, q \in 1..m : p < q => \A x \in On[p], y \in On[q] : x < y
    <2>1. SUFFICES ASSUME NEW p \in 1..m, NEW q \in 1..m, p < q, NEW x \in On[p], NEW y \in On[q] PROVE x < y
      OBVIOUS
    <2>2. own[p] < own[q] /\ own[p] \in Int /\ own[q] \in Int
      BY <1>2, <1>3, <2>1 DEF Increasing, IdSet
    <2>3. /\ x \in RowsIn(s) /\ x \div PageRows = own[p] /\ y \in RowsIn(s) /\ y \div PageRows = own[q]
      BY <2>1 DEF PageRowsIn
    <2>4. RowsIn(s) \subseteq Nat
      <3>1. RowsIn(s) = a..(a + n - 1)
        BY DEF RowsIn, a, n
      <3>2. QED BY <1>1, <3>1
    <2>5. x \in Nat /\ y \in Nat
      BY <2>3, <2>4
    <2>6. QED BY <1>1, <2>2, <2>3, <2>5, QuotientOrder
  <1> DEFINE rows == {row \in RowsIn(s) : row \div PageRows \in P}
  <1>10. all = rows
    <2>1. \A p \in 1..m : On[p] = PageRowsIn(s, own[p])
      OBVIOUS
    <2>2. P = {own[p] : p \in 1..m}
      BY <1>2 DEF ToSet
    <2> HIDE DEF On, m, own
    <2>3. QED BY <2>1, <2>2 DEF PageRowsIn
  <1> HIDE DEF On
  <1>11. IdSet(all) /\ FlattenSeq([p \in 1..m |-> Ascending(On[p])]) = Ascending(all)
    BY <1>2, <1>7, <1>9, FlattenedAscending
  <1>12. QED BY <1>6, <1>8, <1>10, <1>11 DEF own

(* The rows of candidate pages, segment by segment, are the table's rows on those pages. *)
LEMMA PagesListed ==
    ASSUME Stored, NEW P, IdSet(P)
    PROVE  RowSet(RowsOnPages(P)) /\ RowsOfPages(Ascending(P)) = Ascending(RowsOnPages(P))
  <1> DEFINE n == Len(segments)
             pages == Ascending(P)
             Own(s) == {i \in DOMAIN pages : pages[i] \in SegmentPageIds(s)}
             Part == [s \in 1..n |-> {row \in RowsIn(s) : row \div PageRows \in P}]
             all == UNION {Part[s] : s \in 1..n}
  <1>1. SegmentLayout /\ \A s \in 1..n : SegmentOK(s)
    BY SegmentParts DEF Stored, SegmentsOK
  <1>2. n \in Nat /\ DOMAIN segments = 1..n
    BY <1>1 DEF SegmentLayout
  <1>3. RowSet(RowsOnPages(P))
    BY SomeRows DEF Stored, RowsOnPages
  <1>4. RowsOfPages(pages) = FlattenSeq([s \in 1..n |-> ListedPages(s, EntriesAt(pages, Own(s)))])
    BY <1>2 DEF RowsOfPages, ListedPages, Select, SegmentPageIds
  <1>5. ASSUME NEW s \in 1..n
        PROVE  IdSet(Part[s]) /\ ListedPages(s, EntriesAt(pages, Own(s))) = Ascending(Part[s])
    <2> DEFINE Q == P \cap SegmentPageIds(s)
    <2>1. IdSet(Q) /\ EntriesAt(pages, Own(s)) = Ascending(Q)
      <3> DEFINE I == Own(s)
      <3>1. I = {i \in DOMAIN Ascending(P) : Ascending(P)[i] \in SegmentPageIds(s)}
        OBVIOUS
      <3> HIDE DEF I
      <3>2. IdSet(P \cap SegmentPageIds(s)) /\ EntriesAt(Ascending(P), I) = Ascending(P \cap SegmentPageIds(s))
        BY <3>1, AscendingWithin
      <3>3. QED BY <3>2 DEF I
    <2>2. Part[s] = {row \in RowsIn(s) : row \div PageRows \in Q}
      <3>1. \A row \in RowsIn(s) : row \div PageRows \in SegmentPageIds(s)
        <4>1. SUFFICES ASSUME NEW row \in RowsIn(s) PROVE row \div PageRows \in SegmentPageIds(s)
          OBVIOUS
        <4> DEFINE a == segments[s].rowStart
                   k == segments[s].rows
                   f == segments[s].firstPage
        <4>2. a \in Nat /\ k \in Nat \ {0} /\ f \in Nat /\ a = f * PageRows /\ PageRows \in Nat \ {0}
          BY <1>1, EngineConstants DEF SegmentLayout, SegmentOK
        <4>3. row \in a..(a + k - 1)
          BY <4>1 DEF RowsIn
        <4> HIDE DEF a, k, f
        <4>4. row \div PageRows \in f..(f + CeilDiv(k, PageRows) - 1)
          BY <4>2, <4>3, PageIn
        <4>5. QED BY <4>4 DEF SegmentPageIds, SegmentPages, f, k
      <3>2. Part[s] = {row \in RowsIn(s) : row \div PageRows \in P}
        BY <1>5
      <3> HIDE DEF Part
      <3>3. QED BY <3>1, <3>2
    <2> HIDE DEF Q, Part
    <2>3. Q \subseteq SegmentPageIds(s)
      BY DEF Q
    <2>4. IdSet({row \in RowsIn(s) : row \div PageRows \in Q})
          /\ ListedPages(s, Ascending(Q)) = Ascending({row \in RowsIn(s) : row \div PageRows \in Q})
      BY <2>1, <2>3, SegmentListed
    <2>5. QED BY <2>1, <2>2, <2>4
  <1> HIDE DEF pages, Own
  <1>6. [s \in 1..n |-> ListedPages(s, EntriesAt(pages, Own(s)))] = [s \in 1..n |-> Ascending(Part[s])]
    BY <1>5
  <1>7. \A s, t \in 1..n : s < t => \A x \in Part[s], y \in Part[t] : x < y
    <2>1. SUFFICES ASSUME NEW s \in 1..n, NEW t \in 1..n, s < t, NEW x \in Part[s], NEW y \in Part[t] PROVE x < y
      OBVIOUS
    <2>2. /\ segments[s].rowStart \in Nat /\ segments[s].rows \in Nat /\ segments[t].rowStart \in Nat
          /\ segments[t].rows \in Nat /\ segments[s].rowStart + segments[s].rows <= segments[t].rowStart
      BY <1>1, <2>1 DEF SegmentLayout
    <2>3. x \in RowsIn(s) /\ y \in RowsIn(t)
      BY <2>1
    <2>4. QED BY SMTT(30), <2>2, <2>3 DEF RowsIn
  <1>8. all = RowsOnPages(P)
    <2>1. \A row \in 0..(Len(table) - 1) : \E s \in 1..n : row \in RowsIn(s)
      BY <1>1 DEF SegmentLayout, Stored, RowsIn
    <2>2. \A s \in 1..n : \A row \in RowsIn(s) : row \in 0..(Len(table) - 1)
      BY ValueHeld
    <2> HIDE DEF n
    <2>3. \A s \in 1..n : Part[s] = {row \in RowsIn(s) : row \div PageRows \in P}
      OBVIOUS
    <2> HIDE DEF Part
    <2>4. ASSUME NEW row \in RowsOnPages(P) PROVE row \in all
      <3>1. row \in 0..(Len(table) - 1) /\ row \div PageRows \in P
        BY <2>4 DEF RowsOnPages
      <3>2. PICK s \in 1..n : row \in RowsIn(s)
        BY <2>1, <3>1
      <3>3. row \in Part[s]
        BY <2>3, <3>1, <3>2
      <3>4. QED BY <3>2, <3>3
    <2>5. ASSUME NEW row \in all PROVE row \in RowsOnPages(P)
      <3>1. PICK s \in 1..n : row \in Part[s]
        BY <2>5
      <3>2. row \in RowsIn(s) /\ row \div PageRows \in P
        BY <2>3, <3>1
      <3>3. row \in 0..(Len(table) - 1)
        BY <2>2, <3>2
      <3>4. QED BY <3>2, <3>3 DEF RowsOnPages
    <2>6. QED BY <2>4, <2>5
  <1>9. \A s \in 1..n : IdSet(Part[s])
    BY <1>5
  <1> HIDE DEF Part, n
  <1>10. FlattenSeq([s \in 1..n |-> Ascending(Part[s])]) = Ascending(all)
    BY <1>2, <1>7, <1>9, FlattenedAscending
  <1>11. QED BY <1>3, <1>4, <1>6, <1>8, <1>10 DEF pages

----------------------------------------------------------------------------
(* Page routing.                                                           *)

(* Every page hierarchy of the layout has been built.                      *)
PagesBuilt ==
    /\ table \in Tables /\ layout \in Layouts /\ pageId = CeilDiv(Len(table), PageRows)
    /\ \E kind \in PageKinds : pageHier = PageIndexes(kind)

(* What an index lists of pages includes the pages of all matches.         *)
KeepsPages(c, preds) ==
    \E Q : /\ IdSet(Q) /\ PagesOf(c.file, c.key) = Ascending(Q)
           /\ \A row \in MatchSet(preds) : row \div PageRows \in Q

\* A page index offers a page of every match.
LEMMA OfferKeepsPages ==
    ASSUME PagesBuilt, NEW preds \in Preds, Satisfiable(preds), NEW kind \in PageKinds,
           NEW columns \in IndexColumns, Usable(columns, preds)
    PROVE  LET c == Offer(PageIndex(kind, columns), preds) IN KeepsPages(c, preds) /\ c.count \in Int
  <1> DEFINE file == PageIndex(kind, columns).file
             key == HierarchyKey(columns, preds)
             c == Offer(PageIndex(kind, columns), preds)
             A == RowsWith(columns, key)
             Q == {row \div PageRows : row \in A}
  <1>0. table \in Tables /\ pageId = CeilDiv(Len(table), PageRows)
    BY DEF PagesBuilt
  <1>1. c.file = file /\ c.key = key /\ c.count = HitCount(file, key)
    <2>1. PageIndex(kind, columns).columns = columns
      BY DEF PageIndex
    <2>2. QED BY <2>1 DEF Offer
  <1>2. key \in Nat /\ A = RowsOn(preds, ToSet(columns))
    BY <1>0, KeyAsked
  <1>3. IdSet(Q) /\ PagesOf(file, key) = Ascending(Q)
    <2> HIDE DEF key
    <2>1. QED BY <1>0, <1>2, PageAnswers
  <1>4. file.kind = kind
    BY DEF PageIndex, BuildPageFile, PageKinds
  <1>5. MatchSet(preds) \subseteq A
    <2>1. MatchSet(preds) = RowsOn(preds, Constrained(preds))
      BY <1>0, Satisfied
    <2>2. ToSet(columns) \subseteq Constrained(preds)
      BY DEF Usable
    <2>3. RowsOn(preds, Constrained(preds)) \subseteq RowsOn(preds, ToSet(columns))
      BY <2>2, RowsOnMore
    <2>4. QED BY <1>2, <2>1, <2>3
  <1>6. \A row \in MatchSet(preds) : row \div PageRows \in Q
    BY <1>5
  <1> HIDE DEF Q, file, key, c
  <1>7. HitCount(file, key) \in Int
    <2>1. HitCount(file, key) = Len(Ascending(Q))
      BY <1>3, <1>4 DEF HitCount
    <2>2. Len(Ascending(Q)) \in Nat
      BY <1>3, AscendingOrder
    <2>3. QED BY <2>1, <2>2
  <1>8. KeepsPages(c, preds)
    BY <1>1, <1>3, <1>6 DEF KeepsPages
  <1>9. QED BY <1>1, <1>7, <1>8 DEF c

(* Pages that an index lists too are kept.                                 *)
LEMMA IntersectKeepsPages ==
    ASSUME NEW c, NEW preds, KeepsPages(c, preds), NEW P, IdSet(P), \A row \in MatchSet(preds) : row \div PageRows \in P
    PROVE  \E R : /\ IdSet(R) /\ IntersectPages(c.file, c.key, Ascending(P)) = Ascending(R)
                  /\ \A row \in MatchSet(preds) : row \div PageRows \in R
  <1>1. PICK Q : /\ IdSet(Q) /\ PagesOf(c.file, c.key) = Ascending(Q)
                 /\ \A row \in MatchSet(preds) : row \div PageRows \in Q
    BY DEF KeepsPages
  <1> DEFINE seed == Ascending(P)
             listed == Ascending(Q)
             I == {i \in DOMAIN seed : Contains(listed, seed[i])}
  <1>2. \A x : Contains(listed, x) <=> x \in Q
    <2>1. ToSet(listed) = Q
      BY <1>1, AscendingFacts
    <2> HIDE DEF listed
    <2>2. QED BY <2>1 DEF Contains, ToSet
  <1>3. IntersectPages(c.file, c.key, seed) = EntriesAt(seed, I)
    BY <1>1 DEF IntersectPages, Select
  <1> HIDE DEF listed
  <1>4. I = {i \in DOMAIN seed : seed[i] \in Q}
    BY <1>2
  <1> HIDE DEF I
  <1>5. IdSet(P \cap Q) /\ EntriesAt(seed, I) = Ascending(P \cap Q)
    BY <1>4, AscendingWithin
  <1>6. \A row \in MatchSet(preds) : row \div PageRows \in P \cap Q
    BY <1>1
  <1>7. QED BY <1>3, <1>5, <1>6

(* Candidate pages are found index by index.                               *)
PageStep(available, i, pages) == IntersectPages(available[i].file, available[i].key, pages)

PageWalk(available, preds, n) ==
    \E f : /\ f[1] = PagesOf(available[1].file, available[1].key)
           /\ \A i \in 2..n : f[i] = PageStep(available, i, f[i - 1])
           /\ CandidatePages(preds) = f[n]

(* The recursive definition of CandidatePages, step by step.               *)
LEMMA PageSteps ==
    ASSUME NEW preds, Satisfiable(preds), NEW available, available = ByCount(Available(pageHier, preds)),
           NEW n \in Nat \ {0}, Len(available) = n, available # <<>>
    PROVE  PageWalk(available, preds, n)
  <1> DEFINE base == PagesOf(available[1].file, available[1].key)
             B(x, i) == IntersectPages(available[i].file, available[i].key, x)
             f == CHOOSE g : g = [i \in 1..n |-> IF i = 1 THEN base ELSE B(g[i - 1], i)]
             Solves(g, m) == g = [i \in 1..m |-> IF i = 1 THEN base ELSE B(g[i - 1], i)]
             T == {m \in 0..(n - 1) : \E g : Solves(g, m + 1)}
  <1>1. CandidatePages(preds) = f[n]
    BY DEF CandidatePages
  <1> HIDE DEF B, base
  <1>2. 0 \in T
    <2> DEFINE g == [i \in 1..1 |-> base]
    <2>1. 0 \in 0..(n - 1) /\ 0 + 1 = 1 /\ \A i \in 1..1 : i = 1
      OBVIOUS
    <2>2. Solves(g, 1)
      BY <2>1
    <2> HIDE DEF g, Solves
    <2>3. QED BY <2>1, <2>2
  <1>3. \A m \in 0..((n - 1) - 1) : m \in T => m + 1 \in T
    <2>1. SUFFICES ASSUME NEW m \in 0..((n - 1) - 1), m \in T PROVE m + 1 \in T
      OBVIOUS
    <2>2. PICK g : Solves(g, m + 1)
      BY <2>1
    <2> DEFINE k == m + 1
               h == [i \in 1..(k + 1) |-> IF i = k + 1 THEN B(g[k], k + 1) ELSE g[i]]
    <2>3. k \in Nat \ {0} /\ k \in 0..(n - 1) /\ k + 1 # 1 /\ (k + 1) - 1 = k
      OBVIOUS
    <2>4. Solves(g, k)
      BY <2>2
    <2> HIDE DEF k
    <2>5. ASSUME NEW i \in 1..(k + 1) PROVE h[i] = IF i = 1 THEN base ELSE B(h[i - 1], i)
      <3>1. CASE i = k + 1
        <4>1. k \in 1..(k + 1) /\ k # k + 1
          BY <2>3
        <4>2. h[k] = g[k] /\ h[k + 1] = B(g[k], k + 1)
          BY <2>3, <4>1
        <4> HIDE DEF h
        <4>3. QED BY <2>3, <3>1, <4>2, Zenon
      <3>2. CASE i # k + 1
        <4>1. i \in 1..k /\ (i # 1 => i - 1 \in 1..(k + 1) /\ i - 1 # k + 1)
          BY <2>3, <3>2
        <4>2. h[i] = g[i] /\ (i # 1 => h[i - 1] = g[i - 1])
          BY <3>2, <4>1
        <4>3. g[i] = IF i = 1 THEN base ELSE B(g[i - 1], i)
          BY <2>4, <4>1, Zenon
        <4> HIDE DEF h
        <4>4. CASE i = 1
          BY <4>2, <4>3, <4>4, Zenon
        <4>5. CASE i # 1
          BY <4>2, <4>3, <4>5, Zenon
        <4>6. QED BY <4>4, <4>5, Zenon
      <3>3. QED BY <3>1, <3>2, Zenon
    <2>6. Solves(h, k + 1)
      <3>1. h = [i \in 1..(k + 1) |-> h[i]]
        OBVIOUS
      <3> HIDE DEF h
      <3>2. QED BY <2>5, <3>1, Zenon
    <2> HIDE DEF h, Solves
    <2>7. QED BY <2>3, <2>6 DEF k
  <1>4. \E g : Solves(g, n)
    <2> HIDE DEF T
    <2>1. n - 1 \in Nat /\ n - 1 \in 0..(n - 1) /\ (n - 1) + 1 = n
      OBVIOUS
    <2>2. 0..(n - 1) \subseteq T
      BY <1>2, <1>3, <2>1, UpTo
    <2>3. n - 1 \in T
      BY <2>1, <2>2
    <2>4. QED BY <2>1, <2>3 DEF T
  <1>5. Solves(f, n)
    BY <1>4, Zenon
  <1> HIDE DEF f
  <1>6. f[1] = base
    <2>1. 1 \in 1..n
      OBVIOUS
    <2>2. QED BY <1>5, <2>1, Zenon
  <1>7. \A i \in 2..n : f[i] = B(f[i - 1], i)
    <2>1. \A i \in 2..n : i \in 1..n /\ i # 1
      OBVIOUS
    <2>2. QED BY <1>5, <2>1, Zenon
  <1> HIDE DEF Solves, T
  <1>8. \A i \in 2..n : f[i] = PageStep(available, i, f[i - 1])
    BY <1>7 DEF B, PageStep
  <1>9. QED BY <1>1, <1>6, <1>8 DEF PageWalk, base

(* The page hierarchies that can help.                                     *)
LEMMA AvailablePages ==
    ASSUME PagesBuilt, NEW preds \in Preds, Satisfiable(preds)
    PROVE  LET available == ByCount(Available(pageHier, preds))
           IN /\ Len(available) \in Nat /\ \A i \in 1..Len(available) : KeepsPages(available[i], preds)
              /\ available # <<>> => Len(available) # 0
  <1> DEFINE a == Available(pageHier, preds)
             m == Len(layout.pageSpecs)
             X == {a[i] : i \in DOMAIN a}
  <1>1. PICK kind \in PageKinds : pageHier = PageIndexes(kind)
    BY DEF PagesBuilt
  <1>2. /\ m \in Nat /\ DOMAIN layout.pageSpecs = 1..m
        /\ \A h \in 1..m : layout.pageSpecs[h] \in IndexColumns
    BY LayoutFacts DEF PagesBuilt
  <1>3. DOMAIN pageHier = 1..m /\ \A h \in 1..m : pageHier[h] = PageIndex(kind, layout.pageSpecs[h])
    BY <1>1, <1>2 DEF PageIndexes
  <1> HIDE DEF m
  <1>4. /\ Len(a) \in Nat /\ DOMAIN a = 1..Len(a) /\ a = [i \in 1..Len(a) |-> a[i]]
        /\ \A i \in 1..Len(a) : \E h \in 1..m : Usable(pageHier[h].columns, preds) /\ a[i] = Offer(pageHier[h], preds)
    BY <1>2, <1>3, Offered
  <1> HIDE DEF a
  <1>5. \A i \in 1..Len(a) : KeepsPages(a[i], preds) /\ a[i].count \in Int
    <2>1. SUFFICES ASSUME NEW i \in 1..Len(a) PROVE KeepsPages(a[i], preds) /\ a[i].count \in Int
      OBVIOUS
    <2>2. PICK h \in 1..m : Usable(pageHier[h].columns, preds) /\ a[i] = Offer(pageHier[h], preds)
      BY <1>4
    <2> DEFINE columns == layout.pageSpecs[h]
    <2>3. pageHier[h] = PageIndex(kind, columns) /\ pageHier[h].columns = columns /\ columns \in IndexColumns
      BY <1>2, <1>3 DEF PageIndex
    <2> HIDE DEF columns
    <2>4. LET c == Offer(PageIndex(kind, columns), preds) IN KeepsPages(c, preds) /\ c.count \in Int
      BY <2>2, <2>3, OfferKeepsPages
    <2>5. QED BY <2>2, <2>3, <2>4
  <1>6. a \in Seq(X) /\ \A x \in X : KeepsPages(x, preds) /\ x.count \in Int
    <2>1. a \in [1..Len(a) -> X]
      BY <1>4
    <2>2. a \in Seq(X)
      <3> HIDE DEF X
      <3>1. QED BY <1>4, <2>1, SeqFrom
    <2>3. QED BY <1>4, <1>5, <2>2
  <1> HIDE DEF X
  <1>7. ByCount(a) \in Seq(X)
    BY <1>6, SortedByCount
  <1>8. /\ Len(ByCount(a)) \in Nat /\ \A i \in 1..Len(ByCount(a)) : ByCount(a)[i] \in X
        /\ ByCount(a) # <<>> => Len(ByCount(a)) # 0
    BY <1>7
  <1>9. QED BY <1>6, <1>8 DEF a

(* The candidate pages include the page of every match: routing loses none. *)
THEOREM PagesCovered ==
    ASSUME PagesBuilt, NEW preds \in Preds, Satisfiable(preds)
    PROVE  \E P : /\ IdSet(P) /\ CandidatePages(preds) = Ascending(P)
                  /\ \A row \in MatchSet(preds) : row \div PageRows \in P
  <1> DEFINE available == ByCount(Available(pageHier, preds))
             n == Len(available)
             Good(pages) == \E P : /\ IdSet(P) /\ pages = Ascending(P)
                                   /\ \A row \in MatchSet(preds) : row \div PageRows \in P
  <1>1. n \in Nat /\ (\A i \in 1..n : KeepsPages(available[i], preds)) /\ (available # <<>> => n # 0)
    BY AvailablePages
  <1>2. CASE available = <<>>
    <2> DEFINE P == 0..(pageId - 1)
    <2>1. Len(table) \in Nat /\ pageId \in Nat /\ pageId = CeilDiv(Len(table), PageRows)
      BY TableRows, CeilDivBounds, EngineConstants DEF PagesBuilt
    <2>2. CandidatePages(preds) = [p \in 1..pageId |-> p - 1]
      BY <1>2 DEF CandidatePages
    <2>3. IdSet(P) /\ [p \in 1..pageId |-> p - 1] = Ascending(P)
      <3>1. IdSet(0..(0 + pageId - 1)) /\ [p \in 1..pageId |-> 0 + p - 1] = Ascending(0..(0 + pageId - 1))
        BY <2>1, CountingUp
      <3>2. 0 + pageId - 1 = pageId - 1 /\ [p \in 1..pageId |-> 0 + p - 1] = [p \in 1..pageId |-> p - 1]
        BY <2>1
      <3>3. QED BY <3>1, <3>2
    <2>4. \A row \in 0..(Len(table) - 1) : row \div PageRows \in 0..(CeilDiv(Len(table), PageRows) - 1)
      BY <2>1, PageBelow
    <2>5. \A row \in MatchSet(preds) : row \div PageRows \in P
      BY <2>1, <2>4 DEF MatchSet
    <2>6. QED BY <2>2, <2>3, <2>5
  <1>3. CASE available # <<>>
    <2>1. n # 0
      BY <1>1, <1>3
    <2> HIDE DEF available
    <2>2. PICK f : /\ f[1] = PagesOf(available[1].file, available[1].key)
                   /\ \A i \in 2..n : f[i] = PageStep(available, i, f[i - 1])
                   /\ CandidatePages(preds) = f[n]
      <3>1. PageWalk(available, preds, n)
        BY <1>1, <1>3, <2>1, PageSteps DEF available
      <3>2. QED BY <3>1 DEF PageWalk
    <2> HIDE DEF n
    <2> DEFINE T == {m \in 0..(n - 1) : Good(f[m + 1])}
    <2>3. 0 \in T
      <3>1. 1 \in 1..n /\ 0 \in 0..(n - 1) /\ 0 + 1 = 1
        BY <1>1, <2>1
      <3>2. Good(f[1])
        BY <1>1, <2>2, <3>1 DEF KeepsPages
      <3> HIDE DEF Good
      <3>3. QED BY <3>1, <3>2
    <2>4. \A m \in 0..((n - 1) - 1) : m \in T => m + 1 \in T
      <3>1. SUFFICES ASSUME NEW m \in 0..((n - 1) - 1), m \in T PROVE m + 1 \in T
        OBVIOUS
      <3> DEFINE k == m + 2
                 c == available[k]
      <3>2. k \in 2..n /\ k \in 1..n /\ k - 1 = m + 1 /\ (m + 1) + 1 = k /\ m + 1 \in 0..(n - 1)
        BY <1>1, <2>1, <3>1
      <3> HIDE DEF k
      <3>3. PICK P : /\ IdSet(P) /\ f[m + 1] = Ascending(P)
                     /\ \A row \in MatchSet(preds) : row \div PageRows \in P
        BY <3>1
      <3>4. f[k] = IntersectPages(c.file, c.key, Ascending(P)) /\ KeepsPages(c, preds)
        <4>1. f[k] = PageStep(available, k, f[k - 1])
          BY <2>2, <3>2
        <4>2. QED BY <1>1, <3>2, <3>3, <4>1 DEF PageStep
      <3> HIDE DEF c
      <3>5. Good(f[k])
        BY <3>3, <3>4, IntersectKeepsPages
      <3> HIDE DEF Good
      <3>6. QED BY <3>2, <3>5
    <2> HIDE DEF T
    <2>5. n - 1 \in Nat /\ n - 1 \in 0..(n - 1) /\ (n - 1) + 1 = n
      BY <1>1, <2>1
    <2>6. 0..(n - 1) \subseteq T
      BY <2>3, <2>4, <2>5, UpTo
    <2>7. Good(f[n])
      <3>1. n - 1 \in T
        BY <2>5, <2>6
      <3> HIDE DEF Good
      <3>2. QED BY <2>5, <3>1 DEF T
    <2>8. QED BY <2>2, <2>7
  <1>4. QED BY <1>2, <1>3

----------------------------------------------------------------------------
(* The route.                                                              *)

(* The indexes and the segments are complete, as they are when questions are asked. *)
Complete == Stored /\ RowIndexes /\ PagesBuilt

(* A question that cannot be satisfied is always planned.                  *)
LEMMA UnplannedSatisfiable ==
    ASSUME NEW preds, ~ RowSelectionPlan(preds).found
    PROVE  Satisfiable(preds)
  BY DEF RowSelectionPlan

(* Whichever route is planned, it finds the matches.                       *)
THEOREM RoutesExact ==
    ASSUME Complete, NEW preds \in Preds
    PROVE  RoutedRows(preds) = Matching(preds)
  <1> DEFINE plan == RowSelectionPlan(preds)
             M == MatchSet(preds)
  <1>1. PlanOK(plan, preds) /\ (~ plan.found => Satisfiable(preds))
    BY PlansSelect, UnplannedSatisfiable DEF Complete
  <1>2. RoutedRows(preds) = IF ~ plan.found THEN VerifiedRows(RowsOfPages(CandidatePages(preds)), preds)
                            ELSE IF plan.covered THEN CandidateRows(plan)
                            ELSE VerifiedRows(CandidateRows(plan), preds)
    BY DEF RoutedRows
  <1>3. Matching(preds) = Ascending(M) /\ RowSet(M) /\ Stored /\ PagesBuilt
    BY SelectedRows DEF Complete, Stored
  <1> HIDE DEF plan, M
  <1>4. CASE ~ plan.found
    <2>1. PICK P : /\ IdSet(P) /\ CandidatePages(preds) = Ascending(P)
                   /\ \A row \in M : row \div PageRows \in P
      BY <1>1, <1>3, <1>4, PagesCovered DEF M
    <2> DEFINE A == RowsOnPages(P)
    <2>2. RowSet(A) /\ RowsOfPages(Ascending(P)) = Ascending(A)
      BY <1>3, <2>1, PagesListed
    <2>3. A \cap M = M
      BY <1>3, <2>1 DEF RowsOnPages, RowSet
    <2> HIDE DEF A
    <2>4. VerifiedRows(Ascending(A), preds) = Ascending(A \cap M)
      BY <1>1, <1>3, <1>4, <2>2, VerifiedMatches DEF M
    <2>5. QED BY <1>2, <1>3, <1>4, <2>1, <2>2, <2>3, <2>4
  <1>5. CASE plan.found /\ plan.covered
    BY <1>1, <1>2, <1>3, <1>5 DEF PlanOK, M
  <1>6. CASE plan.found /\ ~ plan.covered
    <2>1. PICK A : RowSet(A) /\ M \subseteq A /\ CandidateRows(plan) = Ascending(A)
      BY <1>1, <1>6 DEF PlanOK, M
    <2>2. Satisfiable(preds)
      BY <1>1, <1>6 DEF PlanOK
    <2>3. VerifiedRows(Ascending(A), preds) = Ascending(A \cap M)
      BY <1>3, <2>1, <2>2, VerifiedMatches DEF M
    <2>4. A \cap M = M
      BY <2>1
    <2>5. QED BY <1>2, <1>3, <1>6, <2>1, <2>3, <2>4
  <1>7. QED BY <1>4, <1>5, <1>6

----------------------------------------------------------------------------
(* Answers.                                                                *)

(* The matches from a row on; a page of them.                              *)
MatchesFrom(preds, first) == {row \in MatchSet(preds) : row >= first}

Cut(rows, first, limit) == Take(Select(rows, LAMBDA row : row >= first), limit)

PageOf(preds, first, limit) == Cut(Matching(preds), first, limit)

(* A page is the smallest matches from its first row on.                   *)
LEMMA PageIsSmallest ==
    ASSUME table \in Tables, NEW preds, NEW first, NEW limit \in Nat
    PROVE  /\ IdSet(MatchesFrom(preds, first))
           /\ PageOf(preds, first, limit) = Take(Ascending(MatchesFrom(preds, first)), limit)
           /\ PageOf(preds, first, limit) = Ascending(Smallest(limit, MatchesFrom(preds, first)))
           /\ MatchesFrom(preds, first) = {} \/ limit = 0 => PageOf(preds, first, limit) = <<>>
           /\ Len(Matching(preds)) = Cardinality(MatchSet(preds))
  <1> DEFINE M == MatchSet(preds)
             F == MatchesFrom(preds, first)
  <1>1. Matching(preds) = Ascending(M) /\ IdSet(M)
    BY SelectedRows DEF RowSet
  <1>2. IdSet(F) /\ Select(Ascending(M), LAMBDA row : row >= first) = Ascending(F)
    <2> HIDE DEF M
    <2>1. LET from == {row \in M : row >= first}
          IN IdSet(from) /\ Select(Ascending(M), LAMBDA row : row >= first) = Ascending(from)
      BY <1>1, SelectFrom
    <2>2. QED BY <2>1 DEF MatchesFrom, M
  <1>3. PageOf(preds, first, limit) = Take(Ascending(F), limit)
    BY <1>1, <1>2 DEF PageOf, Cut
  <1> HIDE DEF F, M
  <1>4. Take(Ascending(F), limit) = Ascending(Smallest(limit, F))
    BY <1>2, TakeAscending
  <1>5. F = {} \/ limit = 0 => Smallest(limit, F) = {}
    <2>1. \A x \in F : Rank(x, F) \in Nat
      BY <1>2, RankTyped DEF IdSet
    <2>2. QED BY <2>1 DEF Smallest
  <1>6. Len(Ascending(M)) = Cardinality(M)
    BY <1>1, AscendingFacts
  <1>7. QED BY <1>1, <1>2, <1>3, <1>4, <1>5, <1>6, AscendingEmpty DEF F, M

(* Ids and hits are exact, whether they come from one index file or from the route. *)
LEMMA IdsExact ==
    ASSUME Complete, NEW preds \in Preds, NEW limit \in Nat, NEW first \in Nat
    PROVE  /\ RowIdsFrom(preds, limit, first).ids = PageOf(preds, first, limit)
           /\ RowIdsFrom(preds, limit, first).hits = Len(Matching(preds))
  <1> DEFINE single == BoundedSingle(preds)
             I == {h \in 1..Len(rowHier) : /\ Len(preds) = 1 /\ Satisfiable(preds)
                                           /\ rowHier[h].columns = <<preds[1].column>>
                                           /\ rowHier[h].file.kind \in {"densepost", "bitslice"}}
             m == Len(layout.exact)
  <1>0. table \in Tables /\ RowIndexes
    BY DEF Complete, RowIndexes
  <1>1. m \in Nat /\ \A h \in 1..m : layout.exact[h].columns \in IndexColumns /\ layout.exact[h].kind \in RowKinds
    BY <1>0, LayoutFacts DEF RowIndexes
  <1>2. Len(rowHier) = m /\ \A h \in 1..m : rowHier[h] = ExactIndex(layout.exact[h])
    <2>1. rowHier = [h \in 1..m |-> ExactIndex(layout.exact[h])]
      BY <1>0 DEF RowIndexes, ExactIndexes
    <2> HIDE DEF m
    <2>2. QED BY <1>1, <2>1
  <1>3. single = IF I # {} THEN Min(I) ELSE 0
    BY DEF BoundedSingle, SelectInSeq
  <1> HIDE DEF m
  <1>4. single # 0 => single \in I
    <2>1. I \in SUBSET (1..m)
      BY <1>2
    <2> HIDE DEF I
    <2>2. I # {} => Min(I) \in I
      BY <1>1, <2>1, FirstPosition
    <2>3. QED BY <1>3, <2>2
  <1> HIDE DEF single
  <1>5. CASE single # 0
    <2> DEFINE next == layout.exact[single]
               columns == next.columns
               file == ExactIndex(next).file
               key == HierarchyKey(columns, preds)
               A == MatchSet(preds)
    <2>1. /\ single \in 1..m /\ Len(preds) = 1 /\ Satisfiable(preds)
          /\ rowHier[single].columns = <<preds[1].column>>
      BY <1>2, <1>4, <1>5
    <2>2. columns \in IndexColumns /\ next.kind \in RowKinds /\ rowHier[single] = ExactIndex(next)
      BY <1>1, <1>2, <2>1
    <2>3. rowHier[single].columns = columns /\ rowHier[single].file = file
      BY <2>2 DEF ExactIndex
    <2>4. RowIdsFrom(preds, limit, first) = [ids |-> RowsFrom(file, key, first, limit), hits |-> RowCount(file, key)]
      <3> HIDE DEF columns, file
      <3>1. QED BY <1>5, <2>3 DEF RowIdsFrom, single
    <2>5. ToSet(columns) = Constrained(preds)
      <3>1. columns = <<preds[1].column>>
        BY <2>1, <2>3
      <3>2. DOMAIN preds = {1}
        <4>1. preds \in Seq([column : Nat, value : Nat])
          BY DEF Preds
        <4>2. DOMAIN preds = 1..1
          BY <2>1, <4>1
        <4>3. QED BY <4>2
      <3> HIDE DEF columns
      <3>3. ToSet(columns) = {preds[1].column}
        BY <3>1 DEF ToSet
      <3>4. Constrained(preds) = {preds[1].column}
        BY <3>2 DEF Constrained
      <3>5. QED BY <3>3, <3>4
    <2>6. Usable(columns, preds)
      BY <2>5 DEF Usable
    <2>7. A = RowsOn(preds, Constrained(preds))
      BY <1>0, <2>1, Satisfied
    <2>8. key \in Nat /\ RowsWith(columns, key) = A
      <3> HIDE DEF columns
      <3>1. key \in Nat /\ RowsWith(columns, key) = RowsOn(preds, ToSet(columns))
        BY <1>0, <2>1, <2>2, <2>6, KeyAsked
      <3>2. QED BY <2>5, <2>7, <3>1
    <2> HIDE DEF key
    <2>9. AnswersKey(file, key, RowsWith(columns, key))
      BY <1>0, <2>2, <2>8, ExactAnswers
    <2> HIDE DEF file, columns, next
    <2>10. AnswersKey(file, key, A)
      BY <2>8, <2>9
    <2>11. RowCount(file, key) = Cardinality(A)
           /\ RowsFrom(file, key, first, limit) = Take(Ascending(MatchesFrom(preds, first)), limit)
      <3>1. \A f, k \in Nat : RowsFrom(file, key, f, k) = Take(Ascending({r \in A : r >= f}), k)
        BY <2>10 DEF AnswersKey
      <3>2. RowsFrom(file, key, first, limit) = Take(Ascending({r \in A : r >= first}), limit)
        BY <3>1, Zenon
      <3>3. QED BY <2>10, <3>2 DEF AnswersKey, MatchesFrom
    <2>12. QED BY <1>0, <2>4, <2>11, PageIsSmallest
  <1>6. CASE single = 0
    <2>1. RoutedRows(preds) = Matching(preds)
      BY RoutesExact
    <2>2. RowIdsFrom(preds, limit, first) =
            [ids |-> Take(Select(RoutedRows(preds), LAMBDA row : row >= first), limit), hits |-> Len(RoutedRows(preds))]
      BY <1>6 DEF RowIdsFrom, single
    <2>3. QED BY <2>1, <2>2 DEF PageOf, Cut
  <1>7. QED BY <1>5, <1>6

(* What explain promises: a proven result is exact, candidates leave no match out. *)
ExplainOK(preds, answer) ==
    /\ answer.proven => answer.candidates = Matching(preds)
    /\ answer.route = "row_candidates" => ToSet(Matching(preds)) \subseteq ToSet(answer.candidates)
    /\ answer.route \in {"page_routing", "canonical_scan"} =>
          {row \div PageRows : row \in ToSet(Matching(preds))} \subseteq ToSet(answer.candidates)

\* An explanation's candidates keep every match, and are the matches when it says so.
LEMMA ExplainExact ==
    ASSUME Complete, NEW preds \in Preds
    PROVE  ExplainOK(preds, Explain(preds))
  <1> DEFINE plan == RowSelectionPlan(preds)
             M == MatchSet(preds)
             answer == Explain(preds)
  <1>1. PlanOK(plan, preds) /\ (~ plan.found => Satisfiable(preds))
    BY PlansSelect, UnplannedSatisfiable DEF Complete
  <1>2. Matching(preds) = Ascending(M) /\ RowSet(M) /\ Stored /\ PagesBuilt
    BY SelectedRows DEF Complete, Stored
  <1>3. ASSUME NEW A, IdSet(A) PROVE ToSet(Ascending(A)) = A
    BY <1>3, AscendingFacts
  <1>4. ToSet(Matching(preds)) = M
    BY <1>2, <1>3 DEF RowSet
  <1> HIDE DEF M
  <1>5. CASE plan.found
    <2>1. /\ answer.proven = plan.covered /\ answer.candidates = CandidateRows(plan)
          /\ answer.route \in {"empty", "exact_rows", "row_candidates"}
      BY <1>5 DEF Explain
    <2> HIDE DEF answer, plan
    <2>2. PICK A : RowSet(A) /\ M \subseteq A /\ CandidateRows(plan) = Ascending(A)
      BY <1>1, <1>5 DEF PlanOK, M
    <2>3. plan.covered => CandidateRows(plan) = Matching(preds)
      BY <1>1, <1>2, <1>5 DEF PlanOK, M
    <2>4. ToSet(answer.candidates) = A
      BY <1>3, <2>1, <2>2 DEF RowSet
    <2>5. QED BY <1>4, <2>1, <2>2, <2>3, <2>4 DEF ExplainOK, answer
  <1>6. CASE ~ plan.found
    <2>1. answer.proven = FALSE /\ answer.candidates = CandidatePages(preds) /\ answer.route # "row_candidates"
      BY <1>6 DEF Explain
    <2> HIDE DEF answer, plan
    <2>2. PICK P : /\ IdSet(P) /\ CandidatePages(preds) = Ascending(P)
                   /\ \A row \in M : row \div PageRows \in P
      BY <1>1, <1>2, <1>6, PagesCovered DEF M
    <2>3. ToSet(answer.candidates) = P
      BY <1>3, <2>1, <2>2
    <2>4. QED BY <1>4, <2>1, <2>2, <2>3 DEF ExplainOK, answer
  <1>7. QED BY <1>5, <1>6

----------------------------------------------------------------------------
(* Streamed pages.                                                         *)

(* What a question may be.                                                 *)
LEMMA RequestFacts ==
    ASSUME NEW request \in Requests
    PROVE  /\ request.op \in {"page", "ids", "count", "explain"} /\ request.preds \in Preds
           /\ request.limit \in Nat /\ request.first \in Nat
  BY EngineAssumption DEF EngineAssumption, Preds

(* The matches from a first row up to a cursor.                            *)
Between(preds, first, cursor) == {row \in MatchSet(preds) : first <= row /\ row < cursor}

(* A stream has returned the matches up to its cursor and they do not fill the page. *)
StreamOK(request, selected, cursor, out) ==
    /\ request \in Requests /\ request.op = "page" /\ request.limit > 0
    /\ Selects(selected, request.preds)
    /\ cursor \in Nat /\ request.first <= cursor
    /\ out = Ascending(Between(request.preds, request.first, cursor))
    /\ Cardinality(Between(request.preds, request.first, cursor)) < request.limit

(* The rows of the first index from the cursor on; those of a batch; the batch and what was returned. *)
DriverRows(selected, preds, cursor) == {row \in RowsOn(preds, selected[1].columns) : row >= cursor}

BatchRows(selected, preds, cursor) == Smallest(DriverBatch, DriverRows(selected, preds, cursor))

Returned(selected, preds, first, cursor) ==
    Between(preds, first, cursor) \cup (BatchRows(selected, preds, cursor) \cap MatchSet(preds))

(* What a batch fetches, and what the other indexes keep of it.            *)
LEMMA BatchFetched ==
    ASSUME table \in Tables, NEW preds \in Preds, NEW selected, Selects(selected, preds), NEW cursor \in Nat
    PROVE  LET rows == RowsFrom(selected[1].file, selected[1].key, cursor, DriverBatch)
               W == BatchRows(selected, preds, cursor)
           IN /\ rows = Ascending(W) /\ RowSet(W) /\ MatchSet(preds) \subseteq RowsOn(preds, selected[1].columns)
              /\ IntersectAll(Tail(selected), rows) = Ascending(W \cap MatchSet(preds))
  <1> DEFINE first == selected[1]
             A == RowsOn(preds, first.columns)
             D == DriverRows(selected, preds, cursor)
             W == BatchRows(selected, preds, cursor)
             M == MatchSet(preds)
             tail == Tail(selected)
             rows == RowsFrom(first.file, first.key, cursor, DriverBatch)
  <1>1. PICK X : (\A x \in X : Candidate(x, preds)) /\ selected \in Seq(X) /\ selected # <<>>
    BY DEF Selects
  <1>2. Satisfiable(preds) /\ RowsOn(preds, ColumnsOf(selected)) = M
    BY DEF Selects
  <1>3. /\ Len(selected) \in Nat \ {0} /\ Len(tail) \in Nat
        /\ \A i \in 1..Len(tail) : \E j \in 1..Len(selected) : tail[i] = selected[j]
        /\ ColumnsOf(selected) = first.columns \cup ColumnsOf(tail)
    BY <1>1, ColumnsSplit
  <1>4. \A i \in 1..Len(selected) : CandidateOK(selected[i], preds)
    <2>1. \A i \in 1..Len(selected) : selected[i] \in X
      BY <1>1
    <2>2. QED BY <1>1, <1>2, <2>1, CandidateAnswers
  <1>5. CandidateOK(first, preds)
    <2>1. 1 \in 1..Len(selected)
      BY <1>3
    <2>2. QED BY <1>4, <2>1
  <1> HIDE DEF tail, first
  <1>6. Answering(tail, preds)
    BY <1>3, <1>4 DEF Answering
  <1>7. M = A \cap RowsOn(preds, ColumnsOf(tail))
    BY <1>2, <1>3, RowsOnMore
  <1>8. RowSet(A) /\ DriverBatch \in Nat \ {0}
    BY SelectedRows, EngineConstants
  <1>9. AnswersKey(first.file, first.key, A)
    BY <1>5 DEF CandidateOK
  <1> HIDE DEF A
  <1>10. D = {row \in A : row >= cursor}
    BY DEF DriverRows, A, first
  <1>11. rows = Take(Ascending(D), DriverBatch)
    <2>1. \A f, k \in Nat : RowsFrom(first.file, first.key, f, k) = Take(Ascending({r \in A : r >= f}), k)
      BY <1>9 DEF AnswersKey
    <2>2. DriverBatch \in Nat
      BY <1>8
    <2>3. rows = Take(Ascending({r \in A : r >= cursor}), DriverBatch)
      BY <2>1, <2>2, Zenon
    <2>4. QED BY <1>10, <2>3
  <1> HIDE DEF rows, D
  <1>12. D \in SUBSET (0..(Len(table) - 1)) /\ D \subseteq A
    BY <1>8, <1>10 DEF RowSet
  <1>13. RowSet(D)
    BY <1>12, SomeRows
  <1>14. rows = Ascending(W) /\ W \subseteq D
    <2>1. Take(Ascending(D), DriverBatch) = Ascending(Smallest(DriverBatch, D))
      BY <1>8, <1>13, TakeAscending DEF RowSet
    <2>2. W = Smallest(DriverBatch, D)
      BY DEF BatchRows, D
    <2>3. W \subseteq D
      BY <2>2 DEF Smallest
    <2>4. QED BY <1>11, <2>1, <2>2, <2>3
  <1> HIDE DEF W
  <1>15. RowSet(W)
    <2>1. W \in SUBSET (0..(Len(table) - 1))
      BY <1>12, <1>14
    <2>2. QED BY <2>1, SomeRows
  <1>16. IntersectAll(tail, Ascending(W)) = Ascending(W \cap RowsOn(preds, ColumnsOf(tail)))
    BY <1>3, <1>6, <1>15, IntersectedRows
  <1>17. W \cap RowsOn(preds, ColumnsOf(tail)) = W \cap M
    BY <1>7, <1>12, <1>14
  <1>18. QED BY <1>7, <1>14, <1>15, <1>16, <1>17 DEF rows, W, tail, first, M, A

(* How what is returned relates to the matches from the first row on.      *)
ReturnedOK(U, F, W, D, cursor) ==
    /\ IdSet(U) /\ IdSet(F) /\ U \subseteq F /\ \A x \in U, y \in F : y < x => y \in U
    /\ W = D => U = F
    /\ \A row \in F : row < cursor => row \in U

\* What a stream returned so far is an initial part of the matches.
LEMMA ReturnedFacts ==
    ASSUME table \in Tables, NEW preds \in Preds, NEW selected, Selects(selected, preds),
           NEW first \in Nat, NEW cursor \in Nat, first <= cursor
    PROVE  ReturnedOK(Returned(selected, preds, first, cursor), MatchesFrom(preds, first),
                      BatchRows(selected, preds, cursor), DriverRows(selected, preds, cursor), cursor)
  <1> DEFINE A == RowsOn(preds, selected[1].columns)
             D == DriverRows(selected, preds, cursor)
             W == BatchRows(selected, preds, cursor)
             M == MatchSet(preds)
             S == Between(preds, first, cursor)
             U == Returned(selected, preds, first, cursor)
             F == MatchesFrom(preds, first)
  <1>1. RowSet(M) /\ RowSet(A) /\ M \subseteq A
    BY SelectedRows, BatchFetched
  <1>2. D = {row \in A : row >= cursor} /\ S = {row \in M : first <= row /\ row < cursor}
        /\ F = {row \in M : row >= first} /\ U = S \cup (W \cap M)
    BY DEF DriverRows, Between, MatchesFrom, Returned
  <1>3. W = Smallest(DriverBatch, D)
    BY DEF BatchRows
  <1> HIDE DEF A, D, W, M, S, U, F
  <1>4. RowSet(D) /\ RowSet(F)
    <2>1. D \in SUBSET (0..(Len(table) - 1)) /\ F \in SUBSET (0..(Len(table) - 1))
      BY <1>1, <1>2 DEF RowSet
    <2>2. QED BY <2>1, SomeRows
  <1>5. W \subseteq D /\ \A x \in W, y \in D : y < x => y \in W
    <2>1. DriverBatch \in Nat
      BY EngineConstants
    <2>2. QED BY <1>3, <1>4, <2>1, SmallestCut DEF RowSet
  <1>6. M \subseteq Int
    BY <1>1 DEF RowSet, IdSet
  <1>7. U \subseteq F
    <2>1. \A row \in W : row >= cursor
      BY <1>2, <1>5
    <2>2. ASSUME NEW row \in W \cap M PROVE row >= first
      <3>1. row \in Int /\ row >= cursor
        BY <1>6, <2>1
      <3>2. QED BY <3>1
    <2>3. \A row \in S : row \in M /\ row >= first
      BY <1>2, <1>6
    <2>4. QED BY <1>2, <2>2, <2>3
  <1>8. \A row \in F : row < cursor => row \in U
    BY <1>2, <1>6
  <1>9. \A row \in F : ~ (row < cursor) => row \in D
    BY <1>1, <1>2, <1>6
  <1>10. ASSUME NEW x \in U, NEW y \in F, y < x PROVE y \in U
    <2>1. CASE y < cursor
      BY <1>8, <2>1
    <2>2. CASE ~ (y < cursor)
      <3>1. y \in D /\ y \in M /\ y \in Int /\ x \in M /\ x \in Int
        BY <1>2, <1>6, <1>7, <1>9, <2>2
      <3>2. x \notin S
        BY <1>2, <1>10, <2>2, <3>1
      <3>3. x \in W
        BY <1>2, <3>2
      <3>4. y \in W
        BY <1>5, <1>10, <3>1, <3>3
      <3>5. QED BY <1>2, <3>1, <3>4
    <2>3. QED BY <2>1, <2>2
  <1>11. W = D => U = F
    <2>1. \A row \in F : ~ (row < cursor) => row \in D /\ row \in M
      BY <1>2, <1>9
    <2>2. W = D => \A row \in F : row \in U
      BY <1>2, <1>8, <2>1
    <2>3. QED BY <1>7, <2>2
  <1>12. IdSet(F) /\ IsFiniteSet(U)
    <2>1. IdSet(F)
      BY <1>4 DEF RowSet
    <2>2. QED BY <1>7, <2>1, FS_Subset DEF IdSet
  <1>13. IdSet(U)
    BY <1>7, <1>12 DEF IdSet
  <1>14. ReturnedOK(U, F, W, D, cursor)
    BY <1>7, <1>8, <1>10, <1>11, <1>12, <1>13 DEF ReturnedOK
  <1>15. QED BY <1>14 DEF U, F, W, D

(* What a batch returns joins what was returned before it.                 *)
LEMMA BatchJoins ==
    ASSUME table \in Tables, NEW preds \in Preds, NEW selected, Selects(selected, preds),
           NEW first \in Nat, NEW cursor \in Nat, first <= cursor
    PROVE  LET W == BatchRows(selected, preds, cursor)
           IN Ascending(Between(preds, first, cursor)) \o Ascending(W \cap MatchSet(preds))
                = Ascending(Returned(selected, preds, first, cursor))
  <1> DEFINE D == DriverRows(selected, preds, cursor)
             W == BatchRows(selected, preds, cursor)
             M == MatchSet(preds)
             S == Between(preds, first, cursor)
  <1>1. RowSet(W) /\ RowSet(M)
    BY SelectedRows, BatchFetched
  <1>2. \A row \in W : row >= cursor
    BY DEF BatchRows, Smallest, DriverRows
  <1>3. S = {row \in M : first <= row /\ row < cursor}
    BY DEF Between
  <1> HIDE DEF D, W, M, S
  <1>4. RowSet(S) /\ RowSet(W \cap M)
    <2>1. S \in SUBSET (0..(Len(table) - 1)) /\ W \cap M \in SUBSET (0..(Len(table) - 1))
      BY <1>1, <1>3 DEF RowSet
    <2>2. QED BY <2>1, SomeRows
  <1> DEFINE K == W \cap M
  <1>5. \A x \in S, y \in K : x < y
    <2>1. SUFFICES ASSUME NEW x \in S, NEW y \in K PROVE x < y
      OBVIOUS
    <2>2. x \in Int /\ y \in Int
      BY <1>1, <1>3 DEF RowSet, IdSet
    <2>3. x < cursor /\ y >= cursor
      BY <1>2, <1>3
    <2>4. QED BY <2>2, <2>3
  <1>6. IdSet(S) /\ IdSet(K)
    BY <1>4 DEF RowSet
  <1> HIDE DEF K
  <1>7. Ascending(S) \o Ascending(K) = Ascending(S \cup K)
    BY <1>5, <1>6, AscendingJoined
  <1>8. QED BY <1>7 DEF K, S, W, M, Returned

(* A batch that fills the page, or is the last one, completes the answer; another moves the cursor on. *)
LEMMA BatchKeepsStream ==
    ASSUME table \in Tables, NEW request, NEW selected, NEW cursor, NEW out,
           StreamOK(request, selected, cursor, out)
    PROVE  LET rows == RowsFrom(selected[1].file, selected[1].key, cursor, DriverBatch)
               more == Take(out \o IntersectAll(Tail(selected), rows), request.limit)
           IN /\ Len(more) >= request.limit \/ Len(rows) < DriverBatch
                   => more = PageOf(request.preds, request.first, request.limit)
              /\ ~ (Len(more) >= request.limit \/ Len(rows) < DriverBatch)
                   => StreamOK(request, selected, NextCursor(rows), more)
  <1> DEFINE preds == request.preds
             first == request.first
             limit == request.limit
             M == MatchSet(preds)
             D == DriverRows(selected, preds, cursor)
             W == BatchRows(selected, preds, cursor)
             U == Returned(selected, preds, first, cursor)
             F == MatchesFrom(preds, first)
             rows == RowsFrom(selected[1].file, selected[1].key, cursor, DriverBatch)
             more == Take(out \o IntersectAll(Tail(selected), rows), limit)
             T == Smallest(limit, U)
             last == Last(rows)
  <1>1. /\ request \in Requests /\ request.op = "page" /\ limit > 0 /\ Selects(selected, preds)
        /\ cursor \in Nat /\ first <= cursor /\ out = Ascending(Between(preds, first, cursor))
    BY DEF StreamOK
  <1>2. preds \in Preds /\ limit \in Nat /\ first \in Nat
    BY <1>1, RequestFacts
  <1> HIDE DEF preds, first, limit
  <1>3. /\ rows = Ascending(W) /\ RowSet(W)
        /\ IntersectAll(Tail(selected), rows) = Ascending(W \cap M)
    BY <1>1, <1>2, BatchFetched
  <1>4. ReturnedOK(U, F, W, D, cursor)
    BY <1>1, <1>2, ReturnedFacts
  <1>5. out \o Ascending(W \cap M) = Ascending(U)
    BY <1>1, <1>2, BatchJoins
  <1>6. W = Smallest(DriverBatch, D) /\ DriverBatch \in Nat \ {0}
    BY EngineConstants DEF BatchRows
  <1>7. PageOf(preds, first, limit) = Ascending(Smallest(limit, F))
    BY <1>2, PageIsSmallest
  <1>8. RowSet(D)
    <2>1. D \in SUBSET RowsOn(preds, selected[1].columns)
      BY DEF DriverRows
    <2>2. D \in SUBSET (0..(Len(table) - 1))
      BY <2>1 DEF RowsOn
    <2> HIDE DEF D
    <2>3. QED BY <2>2, SomeRows
  <1>9. U = {row \in M : first <= row /\ row < cursor} \cup (W \cap M) /\ F = {row \in M : row >= first} /\ RowSet(M)
    BY SelectedRows DEF Returned, Between, MatchesFrom
  <1>10. W \subseteq D /\ \A row \in D : row >= cursor
    BY DEF BatchRows, DriverRows, Smallest
  <1>11. D = {row \in RowsOn(preds, selected[1].columns) : row >= cursor} /\ M \subseteq RowsOn(preds, selected[1].columns)
    BY <1>1, <1>2, BatchFetched DEF DriverRows
  <1> HIDE DEF M, D, W, U, F, rows
  <1>12. more = Ascending(T)
    <2>1. IdSet(U)
      BY <1>4 DEF ReturnedOK
    <2>2. QED BY <1>2, <1>3, <1>5, <2>1, TakeAscending
  <1> HIDE DEF more
  <1>13. /\ IdSet(T) /\ T \subseteq U /\ Cardinality(T) \in Nat /\ Cardinality(T) <= limit
         /\ Cardinality(T) < limit => T = U
         /\ \A x \in T, y \in U : y < x => y \in T
         /\ Len(more) = Cardinality(T)
    <2>1. IdSet(U)
      BY <1>4 DEF ReturnedOK
    <2>2. /\ T \subseteq U /\ IdSet(T) /\ Cardinality(T) = IF Cardinality(U) <= limit THEN Cardinality(U) ELSE limit
          /\ Cardinality(T) < limit => T = U
          /\ \A x \in T, y \in U : y < x => y \in T
      BY <1>2, <2>1, SmallestCut
    <2> HIDE DEF T
    <2>3. Cardinality(T) \in Nat /\ Len(Ascending(T)) = Cardinality(T) /\ Cardinality(U) \in Nat
      BY <2>1, <2>2, AscendingOrder
    <2>4. QED BY <1>2, <1>12, <2>2, <2>3
  <1>14. Len(rows) = Cardinality(W) /\ Cardinality(W) \in Nat
    BY <1>3, AscendingOrder DEF RowSet
  <1>15. /\ Cardinality(W) < DriverBatch => W = D
         /\ Cardinality(W) <= DriverBatch
         /\ \A x \in W, y \in D : y < x => y \in W
    <2>1. IdSet(D) /\ DriverBatch \in Nat
      BY <1>6, <1>8 DEF RowSet
    <2>2. /\ Cardinality(Smallest(DriverBatch, D)) = IF Cardinality(D) <= DriverBatch THEN Cardinality(D) ELSE DriverBatch
          /\ Cardinality(Smallest(DriverBatch, D)) < DriverBatch => Smallest(DriverBatch, D) = D
          /\ \A x \in Smallest(DriverBatch, D), y \in D : y < x => y \in Smallest(DriverBatch, D)
          /\ Cardinality(D) \in Nat
      BY <2>1, SmallestCut, AscendingOrder
    <2>3. QED BY <1>6, <2>1, <2>2
  <1>16. ASSUME Len(more) >= limit \/ Len(rows) < DriverBatch PROVE T = Smallest(limit, F)
    <2>1. CASE Len(more) >= limit
      <3>1. Cardinality(T) = limit
        BY <1>2, <1>13, <2>1
      <3>2. IdSet(F) /\ T \in SUBSET F
        BY <1>4, <1>13 DEF ReturnedOK
      <3>3. \A x \in T, y \in F : y < x => y \in T
        BY <1>4, <1>13 DEF ReturnedOK
      <3> HIDE DEF T
      <3>4. QED BY <1>2, <1>13, <3>1, <3>2, <3>3, PrefixIsSmallest
    <2>2. CASE Len(rows) < DriverBatch
      <3>1. W = D
        BY <1>14, <1>15, <2>2
      <3>2. U = F
        BY <1>4, <3>1 DEF ReturnedOK
      <3>3. QED BY <3>2
    <2>3. QED BY <1>16, <2>1, <2>2
  <1>17. ASSUME ~ (Len(more) >= limit \/ Len(rows) < DriverBatch)
         PROVE  StreamOK(request, selected, NextCursor(rows), more)
    <2>1. Cardinality(T) < limit /\ T = U
      BY <1>2, <1>13, <1>17
    <2>2. Cardinality(W) > 0 /\ W # {}
      <3>1. Cardinality(W) > 0
        BY <1>6, <1>14, <1>17
      <3>2. QED BY <3>1, FS_EmptySet
    <2>3. last \in W /\ \A row \in W : row <= last
      <3> DEFINE s == Ascending(W)
                 k == Cardinality(W)
      <3>1. s \in [1..k -> W] /\ Len(s) = k /\ Increasing(s) /\ {s[i] : i \in 1..k} = W /\ k \in Nat /\ DOMAIN s = 1..k
        BY <1>3, AscendingOrder, AscendingFacts DEF RowSet
      <3> HIDE DEF s, k
      <3>2. k > 0
        BY <2>2 DEF k
      <3>3. k \in 1..k /\ last = s[k]
        BY <1>3, <3>1, <3>2 DEF s, Last
      <3>4. \A i \in 1..k : s[i] <= s[k]
        <4>1. \A i \in 1..k : s[i] \in Int
          BY <1>3, <3>1 DEF RowSet, IdSet
        <4>2. \A i \in 1..k : i = k \/ i < k
          BY <3>1
        <4>3. \A i \in 1..k : i < k => s[i] < s[k]
          BY <3>1, <3>3 DEF Increasing
        <4>4. QED BY <3>3, <4>1, <4>2, <4>3
      <3>5. QED BY <3>1, <3>3, <3>4
    <2> HIDE DEF last
    <2>4. last \in Nat /\ last >= cursor /\ last \in D
      BY <1>3, <1>10, <2>3 DEF RowSet
    <2> DEFINE next == last + 1
               B == Between(preds, first, next)
    <2>5. NextCursor(rows) = next /\ next \in Nat /\ first <= next
      BY <1>1, <1>2, <2>4 DEF NextCursor, last
    <2>6. B = {row \in M : first <= row /\ row < next}
      BY DEF Between, M
    <2> HIDE DEF B
    <2>7. M \subseteq Nat
      BY <1>9 DEF RowSet
    <2>8. B = U
      <3>1. ASSUME NEW row \in B PROVE row \in U
        <4>1. row \in M /\ row \in Nat /\ first <= row /\ row <= last
          BY <2>4, <2>6, <2>7
        <4>2. CASE row < cursor
          BY <1>9, <4>1, <4>2
        <4>3. CASE ~ (row < cursor)
          <5>1. row \in D
            BY <1>1, <1>11, <4>1, <4>3
          <5>2. row = last \/ row < last
            BY <2>4, <4>1
          <5>3. row \in W
            BY <1>15, <2>3, <5>1, <5>2
          <5>4. QED BY <1>9, <4>1, <5>3
        <4>4. QED BY <4>2, <4>3
      <3>2. ASSUME NEW row \in U PROVE row \in B
        <4>1. row \in M /\ row \in Nat
          BY <1>9, <2>7, <3>2
        <4>2. row >= first
          BY <1>4, <1>9, <3>2 DEF ReturnedOK
        <4>3. row < cursor \/ row \in W
          BY <1>9, <3>2
        <4>4. row <= last
          BY <1>1, <2>3, <2>4, <4>1, <4>3
        <4>5. first <= row /\ row < next
          BY <1>2, <2>4, <4>1, <4>2, <4>4
        <4>6. QED BY <2>6, <4>1, <4>5
      <3>3. QED BY <3>1, <3>2
    <2> HIDE DEF next, T
    <2>9. more = Ascending(B) /\ Cardinality(B) < limit
      BY <1>12, <2>1, <2>8
    <2>10. QED BY <1>1, <2>5, <2>9 DEF StreamOK, B, preds, first, limit
  <1>18. QED BY <1>7, <1>12, <1>16, <1>17 DEF more, rows, preds, first, limit

----------------------------------------------------------------------------
(* Answers stay exact.                                                     *)

(* The answer to a question is what a scan of the table would give.        *)
DoneOK(request, answer) ==
    LET matches == Matching(request.preds)
        page == PageOf(request.preds, request.first, request.limit)
    IN CASE request.op = "page"    -> answer.ids = page
         [] request.op = "ids"     -> answer.ids = page /\ answer.hits = Len(matches)
         [] request.op = "count"   -> answer.hits = Len(matches)
         [] request.op = "explain" -> ExplainOK(request.preds, answer)

Streaming(request, selected, cursor, out) ==
    [status |-> "streaming", request |-> request, selected |-> selected, cursor |-> cursor, out |-> out]

(* Questions are asked of a complete layer; the answer so far, or the whole of it, is right. *)
QueryOK ==
    /\ phase # "serve" => query = NoQuery
    /\ \/ query = NoQuery
       \/ \E request, selected, cursor, out :
             query = Streaming(request, selected, cursor, out) /\ StreamOK(request, selected, cursor, out)
       \/ \E request, answer : query = Answered(request, answer) /\ DoneOK(request, answer)

(* A layer that is served is complete.                                     *)
LEMMA ServedComplete ==
    ASSUME BuildOK, HierOK, phase = "serve"
    PROVE  Complete
  <1>1. SegmentsOK /\ table \in Tables /\ layout \in Layouts /\ rowStart = Len(table)
        /\ pageId = CeilDiv(Len(table), PageRows)
    BY DEF BuildOK
  <1>2. rowHier = ExactIndexes(Len(layout.exact)) /\ \E kind \in PageKinds : pageHier = PageIndexes(kind)
    BY DEF HierOK
  <1>3. QED BY <1>1, <1>2 DEF Complete, Stored, RowIndexes, PagesBuilt

(* What was right stays right while the layer stays as it is.              *)
LEMMA QueryStays ==
    ASSUME UNCHANGED build
    PROVE  /\ \A request, selected, cursor, out :
                 StreamOK(request, selected, cursor, out)' = StreamOK(request, selected, cursor, out)
           /\ \A request, answer : DoneOK(request, answer)' = DoneOK(request, answer)
  <1>1. table' = table /\ layout' = layout
    BY DEF build
  <1>2. \A preds : MatchSet(preds)' = MatchSet(preds)
    BY <1>1 DEF MatchSet
  <1>3. \A preds : Matching(preds)' = Matching(preds)
    BY <1>1 DEF Matching
  <1>4. \A preds, C : RowsOn(preds, C)' = RowsOn(preds, C)
    BY <1>1 DEF RowsOn
  <1>5. \A next : ExactIndex(next)' = ExactIndex(next)
    BY <1>1 DEF ExactIndex, RowRecords
  <1>6. \A c, preds : Candidate(c, preds)' = Candidate(c, preds)
    BY <1>5 DEF Candidate
  <1>7. \A selected, preds : Selects(selected, preds)' = Selects(selected, preds)
    BY <1>2, <1>4, <1>6 DEF Selects
  <1>8. \A preds, first, cursor : Between(preds, first, cursor)' = Between(preds, first, cursor)
    BY <1>2 DEF Between
  <1>9. \A request, selected, cursor, out :
           StreamOK(request, selected, cursor, out)' = StreamOK(request, selected, cursor, out)
    BY <1>7, <1>8 DEF StreamOK
  <1>10. \A preds, first, limit : PageOf(preds, first, limit)' = PageOf(preds, first, limit)
    BY <1>3 DEF PageOf
  <1>11. \A preds, answer : ExplainOK(preds, answer)' = ExplainOK(preds, answer)
    BY <1>3 DEF ExplainOK
  <1>12. \A request, answer : DoneOK(request, answer)' = DoneOK(request, answer)
    BY <1>3, <1>10, <1>11 DEF DoneOK
  <1>13. QED BY <1>9, <1>12

(* A question is answered right at once, or starts a stream that has returned nothing yet. *)
LEMMA AskAnswers ==
    ASSUME BuildOK, HierOK, Ask
    PROVE  /\ phase = "serve" /\ UNCHANGED build
           /\ \/ \E request, selected, cursor, out :
                    query' = Streaming(request, selected, cursor, out) /\ StreamOK(request, selected, cursor, out)
              \/ \E request, answer : query' = Answered(request, answer) /\ DoneOK(request, answer)
  <1>0. phase = "serve" /\ UNCHANGED build
    BY DEF Ask
  <1>1. Complete /\ rowStart = Len(table) /\ table \in Tables
    BY <1>0, ServedComplete DEF Complete, Stored
  <1>2. PICK request \in Requests :
          LET plan == RowSelectionPlan(request.preds)
              streamed == request.op = "page" /\ plan.found /\ plan.covered
          IN query' = IF streamed
                      THEN IF request.limit = 0 \/ EmptyPlan(plan) \/ request.first >= rowStart
                           THEN Answered(request, [ids |-> <<>>])
                           ELSE [status |-> "streaming", request |-> request, selected |-> plan.selected,
                                 cursor |-> request.first, out |-> <<>>]
                      ELSE Answered(request,
                           CASE request.op \in {"page", "ids"} ->
                                   RowIdsFrom(request.preds, request.limit, request.first)
                             [] request.op = "count"   -> [hits |-> Len(RoutedRows(request.preds))]
                             [] request.op = "explain" -> Explain(request.preds))
    BY Zenon DEF Ask
  <1> DEFINE preds == request.preds
             plan == RowSelectionPlan(preds)
             streamed == request.op = "page" /\ plan.found /\ plan.covered
             M == MatchSet(preds)
             first == request.first
             limit == request.limit
             page == PageOf(preds, first, limit)
  <1>3. /\ request.op \in {"page", "ids", "count", "explain"} /\ preds \in Preds
        /\ limit \in Nat /\ first \in Nat
    BY RequestFacts
  <1>4. PlanOK(plan, preds)
    BY <1>1, <1>3, PlansSelect DEF Complete
  <1>5. RowSet(M)
    BY <1>1, SelectedRows
  <1>6. M = {} \/ limit = 0 \/ first >= Len(table) => page = <<>>
    <2>1. \A row \in M : row \in Int /\ row < Len(table)
      <3>1. Len(table) \in Nat
        BY <1>1, TableRows
      <3> HIDE DEF M
      <3>2. QED BY <1>5, <3>1 DEF RowSet
    <2>2. Len(table) \in Nat
      BY <1>1, TableRows
    <2>3. M = {} \/ first >= Len(table) => MatchesFrom(preds, first) = {}
      <3>1. MatchesFrom(preds, first) = {row \in M : row >= first}
        BY DEF MatchesFrom
      <3> HIDE DEF M, first
      <3>2. QED BY <1>3, <2>1, <2>2, <3>1
    <2>4. MatchesFrom(preds, first) = {} \/ limit = 0 => page = <<>>
      BY <1>1, <1>3, PageIsSmallest
    <2> HIDE DEF M, page, first, limit
    <2>5. QED BY <2>3, <2>4
  <1>7. CASE streamed /\ (limit = 0 \/ EmptyPlan(plan) \/ first >= rowStart)
    <2>1. query' = Answered(request, [ids |-> <<>>])
      BY <1>2, <1>7
    <2>2. EmptyPlan(plan) => M = {}
      BY <1>4, <1>7 DEF PlanOK
    <2>3. page = <<>>
      <3> HIDE DEF page, plan, M
      <3>1. QED BY <1>1, <1>6, <1>7, <2>2
    <2> DEFINE answer == [ids |-> <<>>]
    <2>4. DoneOK(request, answer)
      <3>1. answer.ids = page /\ request.op = "page"
        BY <1>7, <2>3
      <3> HIDE DEF answer
      <3>2. QED BY <3>1 DEF DoneOK
    <2> HIDE DEF answer
    <2>5. query' = Answered(request, answer)
      BY <2>1 DEF answer
    <2>6. QED BY <1>0, <2>4, <2>5
  <1>8. CASE streamed /\ ~ (limit = 0 \/ EmptyPlan(plan) \/ first >= rowStart)
    <2> DEFINE selected == plan.selected
               out == <<>>
    <2>1. query' = Streaming(request, selected, first, out)
      BY <1>2, <1>8 DEF Streaming
    <2>2. Selects(selected, preds)
      BY <1>4, <1>8 DEF PlanOK
    <2>3. Between(preds, first, first) = {}
      <3>1. \A row \in M : row \in Int
        BY <1>5 DEF RowSet, IdSet
      <3>2. \A row \in M : ~ (first <= row /\ row < first)
        BY <1>3, <3>1
      <3>3. QED BY <3>2 DEF Between
    <2>4. out = Ascending(Between(preds, first, first)) /\ Cardinality(Between(preds, first, first)) = 0
      BY <2>3, AscendingEmpty
    <2>5. limit > 0 /\ request.op = "page"
      <3> HIDE DEF plan
      <3>1. QED BY <1>3, <1>8
    <2>6. StreamOK(request, selected, first, out)
      <3> HIDE DEF selected, out
      <3>1. first <= first /\ Cardinality(Between(preds, first, first)) < limit
        BY <1>3, <2>4, <2>5
      <3>2. QED BY <1>2, <1>3, <2>2, <2>4, <2>5, <3>1 DEF StreamOK
    <2>7. QED BY <1>0, <2>1, <2>6
  <1>9. CASE ~ streamed
    <2> DEFINE answer == CASE request.op \in {"page", "ids"} -> RowIdsFrom(preds, limit, first)
                           [] request.op = "count"   -> [hits |-> Len(RoutedRows(preds))]
                           [] request.op = "explain" -> Explain(preds)
    <2>1. query' = Answered(request, answer)
      BY <1>2, <1>9
    <2>2. DoneOK(request, answer)
      <3>1. CASE request.op \in {"page", "ids"}
        <4>1. answer = RowIdsFrom(preds, limit, first)
          BY <3>1
        <4>2. RowIdsFrom(preds, limit, first).ids = page /\ RowIdsFrom(preds, limit, first).hits = Len(Matching(preds))
          BY <1>1, <1>3, IdsExact
        <4> HIDE DEF answer
        <4>3. QED BY <3>1, <4>1, <4>2 DEF DoneOK
      <3>2. CASE request.op = "count"
        <4>1. answer = [hits |-> Len(RoutedRows(preds))]
          BY <3>2
        <4>2. answer.hits = Len(Matching(preds))
          <5>1. RoutedRows(preds) = Matching(preds)
            BY <1>1, <1>3, RoutesExact
          <5> HIDE DEF answer
          <5>2. QED BY <4>1, <5>1
        <4> HIDE DEF answer
        <4>3. QED BY <3>2, <4>2 DEF DoneOK
      <3>3. CASE request.op = "explain"
        <4>1. answer = Explain(preds)
          BY <3>3
        <4>2. ExplainOK(preds, Explain(preds))
          BY <1>1, <1>3, ExplainExact
        <4> HIDE DEF answer
        <4>3. QED BY <3>3, <4>1, <4>2 DEF DoneOK
      <3>4. QED BY <1>3, <3>1, <3>2, <3>3
    <2> HIDE DEF answer
    <2>3. QED BY <1>0, <2>1, <2>2
  <1>10. QED BY <1>7, <1>8, <1>9

\* No query is open at the start.
LEMMA InitQuery == Init => QueryOK
  BY DEF Init, QueryOK

(* Every step keeps the answers right.                                     *)
LEMMA NextKeepsQuery == BuildOK /\ HierOK /\ QueryOK /\ [Next]_vars => QueryOK'
  <1>1. SUFFICES ASSUME BuildOK, HierOK, QueryOK, [Next]_vars PROVE QueryOK'
    OBVIOUS
  <1>2. ASSUME phase # "serve", query' = query PROVE QueryOK'
    BY <1>1, <1>2 DEF QueryOK, NoQuery
  <1>3. ASSUME UNCHANGED build,
               \/ query' = NoQuery
               \/ \E request, selected, cursor, out :
                     query' = Streaming(request, selected, cursor, out) /\ StreamOK(request, selected, cursor, out)
               \/ \E request, answer : query' = Answered(request, answer) /\ DoneOK(request, answer),
               phase = "serve" \/ query' = NoQuery
        PROVE  QueryOK'
    <2>1. phase' = phase
      BY <1>3 DEF build
    <2>2. /\ \A request, selected, cursor, out :
                StreamOK(request, selected, cursor, out)' = StreamOK(request, selected, cursor, out)
          /\ \A request, answer : DoneOK(request, answer)' = DoneOK(request, answer)
      BY <1>3, QueryStays
    <2>3. CASE query' = NoQuery
      BY <2>3 DEF QueryOK, NoQuery
    <2>4. ASSUME NEW request, NEW selected, NEW cursor, NEW out, phase = "serve",
                 query' = Streaming(request, selected, cursor, out), StreamOK(request, selected, cursor, out)
          PROVE  QueryOK'
      <3>1. StreamOK(request, selected, cursor, out)'
        BY <2>2, <2>4
      <3>2. (query = Streaming(request, selected, cursor, out))'
        BY <2>4 DEF Streaming
      <3>3. QED BY <2>1, <2>4, <3>1, <3>2 DEF QueryOK
    <2>5. ASSUME NEW request, NEW answer, phase = "serve",
                 query' = Answered(request, answer), DoneOK(request, answer)
          PROVE  QueryOK'
      <3>1. DoneOK(request, answer)'
        BY <2>2, <2>5
      <3>2. (query = Answered(request, answer))'
        BY <2>5 DEF Answered
      <3>3. QED BY <2>1, <2>5, <3>1, <3>2 DEF QueryOK
    <2>6. QED BY <1>3, <2>3, <2>4, <2>5
  <1>4. CASE PushBatch
    BY <1>2, <1>4 DEF PushBatch
  <1>5. CASE FlushCarry
    BY <1>2, <1>5 DEF FlushCarry
  <1>6. CASE FinishBuild
    BY <1>2, <1>6 DEF FinishBuild
  <1>7. CASE AddIndex
    BY <1>2, <1>7 DEF AddIndex
  <1>8. CASE OpenEngine
    BY <1>2, <1>8 DEF OpenEngine
  <1>9. CASE Ask
    BY <1>1, <1>3, <1>9, AskAnswers
  <1>10. CASE StreamBatch
    <2>1. query.status = "streaming" /\ UNCHANGED build
      BY <1>10 DEF StreamBatch
    <2>2. query # NoQuery /\ \A request, answer : query # Answered(request, answer)
      BY <2>1 DEF NoQuery, Answered
    <2>3. PICK request, selected, cursor, out :
            query = Streaming(request, selected, cursor, out) /\ StreamOK(request, selected, cursor, out)
      BY <1>1, <2>2 DEF QueryOK
    <2>4. phase = "serve" /\ table \in Tables
      BY <1>1, <2>2 DEF QueryOK, BuildOK
    <2> DEFINE rows == RowsFrom(selected[1].file, selected[1].key, cursor, DriverBatch)
               more == Take(out \o IntersectAll(Tail(selected), rows), request.limit)
               full == Len(more) >= request.limit \/ Len(rows) < DriverBatch
    <2>5. query' = IF full THEN Answered(request, [ids |-> more])
                   ELSE Streaming(request, selected, NextCursor(rows), more)
      <3>1. /\ query.request = request /\ query.selected = selected /\ query.cursor = cursor /\ query.out = out
            /\ \A o, c : [query EXCEPT !.out = o, !.cursor = c] = Streaming(request, selected, c, o)
        <4>1. query = Streaming(request, selected, cursor, out)
          BY <2>3
        <4>2. ASSUME NEW o, NEW c
              PROVE  [Streaming(request, selected, cursor, out) EXCEPT !.out = o, !.cursor = c]
                       = Streaming(request, selected, c, o)
          <5>1. [Streaming(request, selected, cursor, out) EXCEPT !.out = o] = Streaming(request, selected, cursor, o)
            BY DEF Streaming
          <5>2. [Streaming(request, selected, cursor, o) EXCEPT !.cursor = c] = Streaming(request, selected, c, o)
            BY DEF Streaming
          <5>3. [Streaming(request, selected, cursor, out) EXCEPT !.out = o, !.cursor = c]
                  = [[Streaming(request, selected, cursor, out) EXCEPT !.out = o] EXCEPT !.cursor = c]
            OBVIOUS
          <5>4. QED BY <5>1, <5>2, <5>3
        <4>3. /\ Streaming(request, selected, cursor, out).request = request
              /\ Streaming(request, selected, cursor, out).selected = selected
              /\ Streaming(request, selected, cursor, out).cursor = cursor
              /\ Streaming(request, selected, cursor, out).out = out
          BY DEF Streaming
        <4>4. QED BY <4>1, <4>2, <4>3
      <3>2. query' = IF full THEN Answered(request, [ids |-> more])
                     ELSE [query EXCEPT !.out = more, !.cursor = NextCursor(rows)]
        BY <1>10, <3>1 DEF StreamBatch
      <3> HIDE DEF more, rows
      <3>3. QED BY <3>1, <3>2
    <2>6. /\ full => more = PageOf(request.preds, request.first, request.limit)
          /\ ~ full => StreamOK(request, selected, NextCursor(rows), more)
      BY <2>3, <2>4, BatchKeepsStream
    <2>7. request.op = "page"
      BY <2>3 DEF StreamOK
    <2> HIDE DEF rows, more, full
    <2>8. CASE full
      <3> DEFINE answer == [ids |-> more]
      <3>1. answer.ids = PageOf(request.preds, request.first, request.limit)
        BY <2>6, <2>8
      <3>2. query' = Answered(request, answer)
        BY <2>5, <2>8
      <3> HIDE DEF answer
      <3>3. DoneOK(request, answer)
        BY <2>7, <3>1 DEF DoneOK
      <3>4. QED BY <1>3, <2>1, <2>4, <3>2, <3>3
    <2>9. CASE ~ full
      BY <1>3, <2>1, <2>4, <2>5, <2>6, <2>9
    <2>10. QED BY <2>8, <2>9
  <1>11. CASE TakeAnswer
    <2>1. UNCHANGED build /\ query' = NoQuery
      BY <1>11 DEF TakeAnswer
    <2>2. QED BY <1>3, <2>1
  <1>12. CASE UNCHANGED vars
    <2>1. UNCHANGED build /\ query' = query
      BY <1>12 DEF vars
    <2>2. \/ query' = NoQuery
          \/ \E request, selected, cursor, out :
                query' = Streaming(request, selected, cursor, out) /\ StreamOK(request, selected, cursor, out)
          \/ \E request, answer : query' = Answered(request, answer) /\ DoneOK(request, answer)
      BY <1>1, <2>1 DEF QueryOK
    <2>3. phase = "serve" \/ query' = NoQuery
      BY <1>1, <2>1 DEF QueryOK
    <2>4. QED BY <1>3, <2>1, <2>2, <2>3
  <1>13. QED BY <1>1, <1>4, <1>5, <1>6, <1>7, <1>8, <1>9, <1>10, <1>11, <1>12 DEF Next

(* The invariant says of a finished answer what AnswersExact does.         *)
LEMMA AnswersHold == QueryOK => AnswersExact
  <1>1. SUFFICES ASSUME QueryOK, query.status = "done"
                 PROVE  LET matches == Matching(query.request.preds)
                            answer == query.answer
                            page == Take(Select(matches, LAMBDA row : row >= query.request.first), query.request.limit)
                        IN CASE query.request.op = "page"    -> answer.ids = page
                             [] query.request.op = "ids"     -> answer.ids = page /\ answer.hits = Len(matches)
                             [] query.request.op = "count"   -> answer.hits = Len(matches)
                             [] query.request.op = "explain" ->
                                  /\ answer.proven => answer.candidates = matches
                                  /\ answer.route = "row_candidates" => ToSet(matches) \subseteq ToSet(answer.candidates)
                                  /\ answer.route \in {"page_routing", "canonical_scan"} =>
                                        {row \div PageRows : row \in ToSet(matches)} \subseteq ToSet(answer.candidates)
    BY Zenon DEF AnswersExact
  <1>2. query # NoQuery /\ \A request, selected, cursor, out : query # Streaming(request, selected, cursor, out)
    BY <1>1 DEF NoQuery, Streaming
  <1>3. PICK request, answer : query = Answered(request, answer) /\ DoneOK(request, answer)
    BY <1>1, <1>2 DEF QueryOK
  <1>4. query.request = request /\ query.answer = answer
    BY <1>3 DEF Answered
  <1>5. DoneOK(query.request, query.answer)
    BY <1>3, <1>4
  <1>6. QED BY <1>5, Zenon DEF DoneOK, ExplainOK, PageOf, Cut

\* Every answer of the engine (engine.rs) is exact, whichever indexes exist and whichever route is planned: a
\* page, streamed batch by batch or not, is the first matching rows from its cursor on, hits are counted once
\* each, a result explain calls proven is exact, and its candidates leave no match out.
THEOREM AnswersCorrect == Spec => []AnswersExact
  <1>1. Spec => [](BuildOK /\ HierOK)
    BY HierInvariant
  <1>2. Init => QueryOK
    BY InitQuery
  <1>3. BuildOK /\ HierOK /\ QueryOK /\ [Next]_vars => QueryOK'
    BY NextKeepsQuery
  <1>4. QueryOK => AnswersExact
    BY AnswersHold
  <1>5. QED BY <1>1, <1>2, <1>3, <1>4, PTL DEF Spec
=============================================================================
