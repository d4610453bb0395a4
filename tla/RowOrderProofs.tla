-------------------------- MODULE RowOrderProofs --------------------------
(***************************************************************************)
(* What the orders the model relies on guarantee: ascending ids, cuts of   *)
(* an answer, sorted records, the external sort, and the arithmetic,       *)
(* sequences and recursive walks they and their users are made of.         *)
(***************************************************************************)
EXTENDS Sorting, FiniteSetTheorems, WellFoundedInduction, TLAPS

IdSet(ids) == ids \subseteq Int /\ IsFiniteSet(ids)

(* The rank of an id is the number of smaller ids.                         *)
LEMMA RankTyped ==
    ASSUME NEW ids, IdSet(ids), NEW id \in Int
    PROVE  /\ Rank(id, ids) \in Nat /\ Rank(id, ids) <= Cardinality(ids)
           /\ id \in ids => Rank(id, ids) < Cardinality(ids)
           /\ Cardinality(ids) \in Nat /\ IsFiniteSet({j \in ids : j < id})
  <1> DEFINE B == {j \in ids : j < id}
  <1>1. /\ IsFiniteSet(B) /\ Cardinality(B) <= Cardinality(ids)
        /\ Cardinality(B) = Cardinality(ids) => B = ids
    BY FS_Subset DEF IdSet
  <1>2. Cardinality(B) \in Nat /\ Cardinality(ids) \in Nat
    BY <1>1, FS_CardinalityType DEF IdSet
  <1>3. id \in ids => B # ids
    OBVIOUS
  <1>4. QED BY <1>1, <1>2, <1>3 DEF Rank

(* Of two ids the smaller has the smaller rank.                            *)
LEMMA RankMonotone ==
    ASSUME NEW ids, IdSet(ids), NEW x \in ids, NEW y \in Int, x < y
    PROVE  Rank(x, ids) < Rank(y, ids)
  <1> DEFINE A == {j \in ids : j < x}
             B == {j \in ids : j < y}
  <1>1. A \subseteq B /\ x \in B /\ x \notin A
    <2>1. x \in Int /\ y \in Int /\ \A j \in ids : j \in Int
      BY DEF IdSet
    <2>2. ~(x < x) /\ \A j \in ids : j < x => j < y
      BY <2>1
    <2>3. QED BY <2>2
  <1>2. IsFiniteSet(A) /\ IsFiniteSet(B) /\ Rank(x, ids) \in Nat /\ Rank(y, ids) \in Nat
    BY RankTyped DEF IdSet
  <1>3. Cardinality(A) <= Cardinality(B) /\ (Cardinality(A) = Cardinality(B) => A = B)
    BY <1>1, <1>2, FS_Subset
  <1>4. QED BY <1>1, <1>2, <1>3 DEF Rank

(* Different ids have different ranks, and a smaller rank means a smaller  *)
(* id.                                                                     *)
LEMMA RankOrders ==
    ASSUME NEW ids, IdSet(ids), NEW x \in ids, NEW y \in ids
    PROVE  /\ Rank(x, ids) = Rank(y, ids) => x = y
           /\ Rank(x, ids) < Rank(y, ids) => x < y
  <1>1. x < y \/ x = y \/ y < x
    BY DEF IdSet
  <1>2. x < y => Rank(x, ids) < Rank(y, ids)
    BY RankMonotone DEF IdSet
  <1>3. y < x => Rank(y, ids) < Rank(x, ids)
    BY RankMonotone DEF IdSet
  <1>4. Rank(x, ids) \in Nat /\ Rank(y, ids) \in Nat
    BY RankTyped DEF IdSet
  <1>5. QED BY <1>1, <1>2, <1>3, <1>4

(* Every number below the size of the set is the rank of one of its ids.   *)
LEMMA RankOnto ==
    ASSUME NEW ids, IdSet(ids), NEW n \in 0..(Cardinality(ids) - 1)
    PROVE  \E x \in ids : Rank(x, ids) = n
  <1> DEFINE T == {Rank(x, ids) : x \in ids}
             size == Cardinality(ids)
             f == [x \in ids |-> Rank(x, ids)]
  <1>1. size \in Nat /\ T \subseteq 0..(size - 1)
    <2>1. size \in Nat
      BY FS_CardinalityType DEF IdSet
    <2>2. \A x \in ids : Rank(x, ids) \in Nat /\ Rank(x, ids) < size
      BY RankTyped DEF IdSet
    <2>3. \A x \in ids : Rank(x, ids) \in 0..(size - 1)
      BY <2>1, <2>2
    <2>4. QED BY <2>1, <2>3
  <1>2. f \in Bijection(ids, T)
    BY RankOrders DEF Bijection, Injection, Surjection, IsInjective
  <1>3. IsFiniteSet(T) /\ Cardinality(T) = size
    BY <1>2, FS_Bijection DEF IdSet, ExistsBijection
  <1>4. IsFiniteSet(0..(size - 1)) /\ Cardinality(0..(size - 1)) = size
    BY <1>1, FS_Interval
  <1>5. T = 0..(size - 1)
    BY <1>1, <1>3, <1>4, FS_Subset
  <1>6. QED BY <1>5

Increasing(s) == \A i, j \in DOMAIN s : i < j => s[i] < s[j]

(* The ascending order has every id once.                                  *)
LEMMA AscendingOrder ==
    ASSUME NEW ids, IdSet(ids)
    PROVE  /\ Cardinality(ids) \in Nat
           /\ Ascending(ids) \in [1..Cardinality(ids) -> ids]
           /\ Ascending(ids) \in Seq(ids) /\ Len(Ascending(ids)) = Cardinality(ids)
           /\ Increasing(Ascending(ids))
           /\ {Ascending(ids)[i] : i \in 1..Cardinality(ids)} = ids
           /\ \A i \in 1..Cardinality(ids) : Rank(Ascending(ids)[i], ids) = i - 1
  <1> DEFINE n == Cardinality(ids)
             s == Ascending(ids)
  <1>1. n \in Nat
    BY FS_CardinalityType DEF IdSet
  <1>2. \A i \in 1..n : s[i] \in ids /\ Rank(s[i], ids) = i - 1
    <2> TAKE i \in 1..n
    <2>1. i - 1 \in 0..(n - 1)
      BY <1>1
    <2>2. \E x \in ids : Rank(x, ids) = i - 1
      BY <2>1, RankOnto
    <2>3. s[i] = CHOOSE x \in ids : Rank(x, ids) = i - 1
      BY DEF Ascending
    <2>4. QED BY <2>2, <2>3
  <1>3. s = [i \in 1..n |-> s[i]]
    BY DEF Ascending
  <1>4. s \in [1..n -> ids]
    BY <1>2, <1>3
  <1>5. s \in Seq(ids) /\ Len(s) = n
    BY <1>1, <1>4
  <1>6. Increasing(s)
    <2> SUFFICES ASSUME NEW i \in 1..n, NEW j \in 1..n, i < j PROVE s[i] < s[j]
      BY <1>4 DEF Increasing
    <2>1. Rank(s[i], ids) < Rank(s[j], ids)
      BY <1>1, <1>2
    <2>2. QED BY <1>2, <2>1, RankOrders
  <1>7. \A x \in ids : \E i \in 1..n : s[i] = x
    <2> TAKE x \in ids
    <2>0. x \in Int
      BY DEF IdSet
    <2>1. Rank(x, ids) \in Nat /\ Rank(x, ids) < n
      BY <2>0, RankTyped
    <2> DEFINE i == Rank(x, ids) + 1
    <2>2. i \in 1..n /\ Rank(x, ids) = i - 1
      BY <1>1, <2>1
    <2>3. s[i] \in ids /\ Rank(s[i], ids) = Rank(x, ids)
      BY <1>2, <2>2
    <2>5. s[i] = x
      BY <2>3, RankOrders
    <2>4. QED BY <2>2, <2>5
  <1>8. QED BY <1>1, <1>2, <1>4, <1>5, <1>6, <1>7

(* It is the only ascending order of the set.                              *)
LEMMA AscendingIsUnique ==
    ASSUME NEW ids \in SUBSET Int, NEW n \in Nat, NEW s \in [1..n -> ids],
           Increasing(s), \A x \in ids : \E i \in 1..n : s[i] = x
    PROVE  IdSet(ids) /\ Cardinality(ids) = n /\ s = Ascending(ids)
  <1>1. \A i, j \in 1..n : s[i] = s[j] => i = j
    <2> SUFFICES ASSUME NEW i \in 1..n, NEW j \in 1..n, s[i] = s[j] PROVE i = j
      OBVIOUS
    <2>1. s[i] \in Int /\ s[j] \in Int
      OBVIOUS
    <2>2. i < j => s[i] < s[j]
      BY DEF Increasing
    <2>3. j < i => s[j] < s[i]
      BY DEF Increasing
    <2>4. QED BY <2>1, <2>2, <2>3
  <1>2. s \in Bijection(1..n, ids)
    BY <1>1 DEF Bijection, Injection, Surjection, IsInjective
  <1>3. IsFiniteSet(1..n) /\ Cardinality(1..n) = n
    BY FS_Interval
  <1>4. IsFiniteSet(ids) /\ Cardinality(ids) = n
    BY <1>2, <1>3, FS_Bijection DEF ExistsBijection
  <1>5. IdSet(ids)
    BY <1>4 DEF IdSet
  <1>6. \A i \in 1..n : Rank(s[i], ids) = i - 1
    <2> TAKE i \in 1..n
    <2> DEFINE B == {j \in ids : j < s[i]}
               f == [k \in 1..(i - 1) |-> s[k]]
    <2>1. \A k \in 1..n : s[k] < s[i] <=> k < i
      <3> TAKE k \in 1..n
      <3>1. k < i => s[k] < s[i]
        BY DEF Increasing
      <3>2. i < k => s[i] < s[k]
        BY DEF Increasing
      <3>3. s[k] \in Int /\ s[i] \in Int
        OBVIOUS
      <3>4. QED BY <3>1, <3>2, <3>3
    <2>2. f \in Bijection(1..(i - 1), B)
      <3>1. \A k \in 1..(i - 1) : f[k] \in B
        BY <2>1
      <3>2. \A j, k \in 1..(i - 1) : f[j] = f[k] => j = k
        BY <1>1
      <3>3. \A x \in B : \E k \in 1..(i - 1) : f[k] = x
        BY <2>1
      <3>4. QED BY <3>1, <3>2, <3>3 DEF Bijection, Injection, Surjection, IsInjective
    <2>3. IsFiniteSet(1..(i - 1)) /\ Cardinality(1..(i - 1)) = i - 1
      BY FS_Interval
    <2>4. Cardinality(B) = i - 1
      BY <2>2, <2>3, FS_Bijection DEF ExistsBijection
    <2>5. QED BY <2>4 DEF Rank
  <1>7. \A i \in 1..n : s[i] = Ascending(ids)[i]
    <2> TAKE i \in 1..n
    <2>1. Rank(Ascending(ids)[i], ids) = i - 1 /\ Ascending(ids)[i] \in ids
      BY <1>4, <1>5, AscendingOrder
    <2>2. s[i] \in ids /\ Rank(s[i], ids) = i - 1
      BY <1>6
    <2>3. QED BY <1>5, <2>1, <2>2, RankOrders
  <1>8. s = Ascending(ids)
    <2>1. Ascending(ids) \in [1..n -> ids]
      BY <1>4, <1>5, AscendingOrder
    <2>2. QED BY <1>7, <2>1
  <1>9. QED BY <1>4, <1>5, <1>8

(* A cut keeps the ids of low rank, all of them if there are no more.      *)
LEMMA SmallestCut ==
    ASSUME NEW ids, IdSet(ids), NEW n \in Nat
    PROVE  /\ Smallest(n, ids) \subseteq ids /\ IdSet(Smallest(n, ids))
           /\ Cardinality(Smallest(n, ids)) =
                IF Cardinality(ids) <= n THEN Cardinality(ids) ELSE n
           /\ Cardinality(Smallest(n, ids)) < n => Smallest(n, ids) = ids
           /\ \A x \in Smallest(n, ids), y \in ids : y < x => y \in Smallest(n, ids)
  <1> DEFINE K == Smallest(n, ids)
             size == Cardinality(ids)
  <1>1. K \subseteq ids
    BY DEF Smallest
  <1>2. IdSet(K) /\ Cardinality(K) \in Nat /\ size \in Nat
    BY <1>1, FS_Subset, FS_CardinalityType DEF IdSet
  <1>3. \A x \in ids : Rank(x, ids) \in Nat /\ Rank(x, ids) < size
    BY RankTyped DEF IdSet
  <1>4. \A x \in K, y \in ids : y < x => y \in K
    <2> SUFFICES ASSUME NEW x \in K, NEW y \in ids, y < x PROVE y \in K
      OBVIOUS
    <2>1. x \in Int /\ Rank(x, ids) < n
      BY <1>1 DEF Smallest, IdSet
    <2>2. Rank(y, ids) < Rank(x, ids)
      BY <2>1, RankMonotone
    <2>3. QED BY <1>1, <1>3, <2>1, <2>2 DEF Smallest
  <1>5. size <= n => K = ids
    BY <1>2, <1>3 DEF Smallest
  <1>6. n < size => Cardinality(K) = n
    <2> SUFFICES ASSUME n < size PROVE Cardinality(K) = n
      OBVIOUS
    <2> DEFINE f == [x \in K |-> Rank(x, ids)]
    <2>1. \A x \in K : f[x] \in 0..(n - 1)
      BY <1>1, <1>3 DEF Smallest
    <2>2. \A x, y \in K : f[x] = f[y] => x = y
      BY <1>1, RankOrders
    <2>3. \A r \in 0..(n - 1) : \E x \in K : f[x] = r
      <3> TAKE r \in 0..(n - 1)
      <3>1. r \in 0..(size - 1) /\ r < n
        BY <1>2
      <3>2. PICK x \in ids : Rank(x, ids) = r
        BY <3>1, RankOnto
      <3>3. QED BY <3>1, <3>2 DEF Smallest
    <2>4. f \in Bijection(K, 0..(n - 1))
      BY <2>1, <2>2, <2>3 DEF Bijection, Injection, Surjection, IsInjective
    <2>5. Cardinality(0..(n - 1)) = n
      BY FS_Interval
    <2>6. QED BY <1>2, <2>4, <2>5, FS_Bijection DEF ExistsBijection, IdSet
  <1>7. QED BY <1>1, <1>2, <1>4, <1>5, <1>6

(* What is among the first n of a set is among the first n of any part of  *)
(* it that it is in.                                                       *)
LEMMA SmallestOfPart ==
    ASSUME NEW ids, IdSet(ids), NEW part \in SUBSET ids, NEW n \in Nat,
           NEW x \in part, x \in Smallest(n, ids)
    PROVE  x \in Smallest(n, part)
  <1> DEFINE A == {j \in part : j < x}
             B == {j \in ids : j < x}
  <1>1. x \in Int /\ IdSet(part)
    BY FS_Subset DEF IdSet
  <1>2. IsFiniteSet(B) /\ Rank(x, ids) \in Nat /\ Rank(x, part) \in Nat
    BY <1>1, RankTyped
  <1>3. Cardinality(A) <= Cardinality(B)
    BY <1>2, FS_Subset
  <1>4. QED BY <1>2, <1>3 DEF Rank, Smallest

(* A part that leaves out at most k ids of a set: the first n of the part  *)
(* are among the first n + k of the set.                                   *)
LEMMA SmallestOfMore ==
    ASSUME NEW ids, IdSet(ids), NEW part \in SUBSET ids, NEW n \in Nat, NEW k \in Nat,
           NEW hidden, IsFiniteSet(hidden), ids \subseteq part \cup hidden, Cardinality(hidden) <= k,
           NEW x \in part, x \in Smallest(n, part)
    PROVE  x \in Smallest(n + k, ids)
  <1> DEFINE A == {j \in part : j < x}
             B == {j \in ids : j < x}
  <1>1. x \in Int /\ IdSet(part) /\ Cardinality(hidden) \in Nat
    BY FS_Subset, FS_CardinalityType DEF IdSet
  <1>2. /\ IsFiniteSet(A) /\ IsFiniteSet(B)
        /\ Cardinality(A) \in Nat /\ Cardinality(B) \in Nat
    BY <1>1, RankTyped DEF Rank
  <1>3. B \subseteq A \cup hidden
    OBVIOUS
  <1>4. /\ IsFiniteSet(A \cup hidden)
        /\ Cardinality(A \cup hidden) =
             Cardinality(A) + Cardinality(hidden) - Cardinality(A \cap hidden)
    BY <1>2, FS_Union
  <1>5. Cardinality(A \cap hidden) \in Nat
    BY <1>2, FS_Intersection, FS_CardinalityType
  <1>6. Cardinality(B) <= Cardinality(A \cup hidden)
    BY <1>3, <1>4, FS_Subset
  <1>7. Cardinality(A) < n
    BY DEF Smallest, Rank
  <1>8. Cardinality(B) < n + k
    BY <1>1, <1>2, <1>4, <1>5, <1>6, <1>7
  <1>9. QED BY <1>8 DEF Smallest, Rank

(* A part that has at least the first n of a set has the same first n.     *)
LEMMA SmallestBetween ==
    ASSUME NEW ids, IdSet(ids), NEW part \in SUBSET ids, NEW n \in Nat,
           Smallest(n, ids) \subseteq part
    PROVE  Smallest(n, part) = Smallest(n, ids)
  <1> DEFINE K == Smallest(n, ids)
  <1>1. \A x \in K : x \in Smallest(n, part)
    BY SmallestOfPart
  <1>2. ASSUME NEW x \in Smallest(n, part), x \notin K
        PROVE  FALSE
    <2>1. x \in part /\ x \in ids /\ x \in Int /\ \A y \in ids : y \in Int
      BY DEF Smallest, IdSet
    <2>2. Cardinality(K) = n
      <3>1. ~(Cardinality(K) < n)
        BY <1>2, <2>1, SmallestCut
      <3>2. Cardinality(K) = IF Cardinality(ids) <= n THEN Cardinality(ids) ELSE n
        BY SmallestCut
      <3>3. Cardinality(ids) \in Nat
        BY FS_CardinalityType DEF IdSet
      <3>4. QED BY <3>1, <3>2, <3>3
    <2>3. \A y \in K : y < x
      <3> TAKE y \in K
      <3>1. y \in ids /\ (x < y => x \in K)
        BY <2>1, SmallestCut
      <3>2. x # y /\ ~(x < y)
        BY <1>2, <3>1
      <3>3. QED BY <2>1, <3>1, <3>2
    <2> DEFINE A == {j \in part : j < x}
    <2>4. K \subseteq A
      BY <2>3
    <2>5. IdSet(part)
      BY FS_Subset DEF IdSet
    <2>6. IsFiniteSet(A) /\ Cardinality(A) \in Nat
      BY <2>1, <2>5, RankTyped DEF Rank
    <2>7. n <= Cardinality(A)
      BY <2>2, <2>4, <2>6, FS_Subset
    <2>8. Cardinality(A) < n
      BY <1>2 DEF Smallest, Rank
    <2>9. QED BY <2>6, <2>7, <2>8
  <1>3. QED BY <1>1, <1>2

(* A part that is closed downwards, and is all or has n ids, is the first  *)
(* n of the set.                                                           *)
LEMMA PrefixIsSmallest ==
    ASSUME NEW ids, IdSet(ids), NEW part \in SUBSET ids, NEW n \in Nat,
           \A x \in part, y \in ids : y < x => y \in part,
           Cardinality(part) <= n, part = ids \/ Cardinality(part) = n
    PROVE  Smallest(n, ids) = part
  <1>1. IdSet(part) /\ Cardinality(part) \in Nat
    BY FS_Subset, FS_CardinalityType DEF IdSet
  <1>2. ASSUME NEW x \in part
        PROVE  x \in Smallest(n, ids)
    <2> DEFINE B == {j \in ids : j < x}
    <2>1. x \in ids /\ x \in Int
      BY DEF IdSet
    <2>2. B \subseteq {j \in part : j < x}
      OBVIOUS
    <2>3. Rank(x, part) < Cardinality(part) /\ Rank(x, part) \in Nat /\ IsFiniteSet({j \in part : j < x})
      BY <1>1, <2>1, RankTyped
    <2>4. Cardinality(B) <= Rank(x, part) /\ Cardinality(B) \in Nat
      BY <2>2, <2>3, FS_Subset, FS_CardinalityType DEF Rank
    <2>5. Rank(x, ids) < n
      BY <1>1, <2>3, <2>4 DEF Rank
    <2>6. QED BY <2>1, <2>5 DEF Smallest
  <1>3. ASSUME NEW y \in Smallest(n, ids), y \notin part
        PROVE  FALSE
    <2> DEFINE B == {j \in ids : j < y}
    <2>1. y \in ids /\ y \in Int /\ Rank(y, ids) < n
      BY DEF Smallest, IdSet
    <2>2. Cardinality(part) = n
      BY <1>3, <2>1
    <2>3. part \subseteq B
      <3> SUFFICES ASSUME NEW x \in part PROVE x < y
        OBVIOUS
      <3>1. x \in Int /\ ~(y < x) /\ x # y
        BY <1>3, <2>1 DEF IdSet
      <3>2. QED BY <2>1, <3>1
    <2>4. IsFiniteSet(B)
      BY <2>1, RankTyped
    <2>5. n <= Cardinality(B) /\ Cardinality(B) \in Nat
      BY <2>2, <2>3, <2>4, FS_Subset, FS_CardinalityType
    <2>6. QED BY <2>1, <2>5 DEF Rank
  <1>4. QED BY <1>2, <1>3 DEF Smallest

(* Two ascending listings, the second above the first, make one.           *)
LEMMA AscendingJoined ==
    ASSUME NEW A, IdSet(A), NEW B, IdSet(B), \A x \in A, y \in B : x < y
    PROVE  /\ IdSet(A \cup B) /\ Cardinality(A \cup B) = Cardinality(A) + Cardinality(B)
           /\ Ascending(A) \o Ascending(B) = Ascending(A \cup B)
  <1> DEFINE s == Ascending(A)
             t == Ascending(B)
             u == s \o t
             a == Cardinality(A)
             b == Cardinality(B)
  <1>1. /\ a \in Nat /\ s \in [1..a -> A] /\ s \in Seq(A) /\ Len(s) = a /\ Increasing(s)
        /\ {s[i] : i \in 1..a} = A
    BY AscendingOrder
  <1>2. /\ b \in Nat /\ t \in [1..b -> B] /\ t \in Seq(B) /\ Len(t) = b /\ Increasing(t)
        /\ {t[i] : i \in 1..b} = B
    BY AscendingOrder
  <1>3. A \subseteq Int /\ B \subseteq Int /\ A \cup B \in SUBSET Int
    BY DEF IdSet
  <1>4. s \in Seq(A \cup B) /\ t \in Seq(A \cup B)
    BY <1>1, <1>2
  <1>5. /\ u \in Seq(A \cup B) /\ Len(u) = a + b
        /\ \A i \in 1..(a + b) : u[i] = IF i <= a THEN s[i] ELSE t[i - a]
    <2> HIDE DEF s, t, a, b
    <2>3. u \in Seq(A \cup B) /\ Len(u) = Len(s) + Len(t)
      BY <1>4
    <2>1. Len(u) = a + b /\ u \in Seq(A \cup B)
      <3>1. Len(s) = a /\ Len(t) = b
        BY <1>1, <1>2
      <3>2. QED BY <2>3, <3>1
    <2>2. \A i \in 1..(a + b) : u[i] = IF i <= a THEN s[i] ELSE t[i - a]
      <3> TAKE i \in 1..(a + b)
      <3>1. i \in 1..Len(u) /\ i \in Int /\ Len(s) = a
        BY <1>1, <1>2, <2>1
      <3>2. QED BY <1>4, <3>1
    <2>4. QED BY <2>1, <2>2
  <1>6. u \in [1..(a + b) -> A \cup B] /\ DOMAIN u = 1..(a + b)
    <2> HIDE DEF u, a, b
    <2>1. QED BY <1>5
  <1>7. Increasing(u)
    <2> SUFFICES ASSUME NEW i \in 1..(a + b), NEW j \in 1..(a + b), i < j PROVE u[i] < u[j]
      BY <1>6 DEF Increasing
    <2>1. CASE j <= a
      <3>1. i \in 1..a /\ j \in 1..a /\ u[i] = s[i] /\ u[j] = s[j]
        BY <1>1, <1>2, <1>5, <2>1
      <3>2. QED BY <1>1, <3>1 DEF Increasing
    <2>2. CASE i <= a /\ a < j
      <3>1. i \in 1..a /\ j - a \in 1..b /\ u[i] = s[i] /\ u[j] = t[j - a]
        BY <1>1, <1>2, <1>5, <2>2
      <3>2. QED BY <1>1, <1>2, <3>1
    <2>3. CASE a < i
      <3>1. i - a \in 1..b /\ j - a \in 1..b /\ i - a < j - a /\ u[i] = t[i - a] /\ u[j] = t[j - a]
        BY SMTT(30), <1>1, <1>2, <1>5, <2>3
      <3>2. QED BY <1>2, <3>1 DEF Increasing
    <2>4. j <= a \/ (i <= a /\ a < j) \/ a < i
      <3> HIDE DEF a, b
      <3>1. QED BY <1>1, <1>2
    <2>5. QED BY <2>1, <2>2, <2>3, <2>4
  <1>8. \A x \in A \cup B : \E i \in 1..(a + b) : u[i] = x
    <2>1. ASSUME NEW x \in A PROVE \E i \in 1..(a + b) : u[i] = x
      <3>1. PICK i \in 1..a : s[i] = x
        BY <1>1
      <3>2. i \in 1..(a + b) /\ u[i] = x
        BY <1>1, <1>2, <1>5, <3>1
      <3>3. QED BY <3>2
    <2>2. ASSUME NEW x \in B PROVE \E i \in 1..(a + b) : u[i] = x
      <3>1. PICK i \in 1..b : t[i] = x
        BY <1>2
      <3>2. (i + a) \in 1..(a + b) /\ u[i + a] = x
        BY <1>1, <1>2, <1>5, <3>1
      <3>3. QED BY <3>2
    <2>3. QED BY <2>1, <2>2
  <1>9. a + b \in Nat
    BY <1>1, <1>2
  <1>10. QED BY <1>3, <1>6, <1>7, <1>8, <1>9, AscendingIsUnique

(* The first n of two sets, the second above the first: those of the first *)
(* and then as many of the second as are missing.                          *)
LEMMA SmallestJoined ==
    ASSUME NEW A, IdSet(A), NEW B, IdSet(B), \A x \in A, y \in B : x < y, NEW n \in Nat
    PROVE  LET missing == n - Cardinality(Smallest(n, A))
           IN /\ missing \in Nat
              /\ Smallest(n, A \cup B) = Smallest(n, A) \cup Smallest(missing, B)
              /\ Ascending(Smallest(n, A)) \o Ascending(Smallest(missing, B)) =
                   Ascending(Smallest(n, A \cup B))
  <1> DEFINE K == Smallest(n, A)
             missing == n - Cardinality(K)
             L == Smallest(missing, B)
  <1>1. /\ K \subseteq A /\ IdSet(K) /\ (Cardinality(K) < n => K = A)
        /\ Cardinality(K) = IF Cardinality(A) <= n THEN Cardinality(A) ELSE n
        /\ \A x \in K, y \in A : y < x => y \in K
    BY SmallestCut
  <1>2. Cardinality(A) \in Nat /\ Cardinality(B) \in Nat /\ Cardinality(K) \in Nat
    BY <1>1, FS_CardinalityType DEF IdSet
  <1>3. missing \in Nat
    BY <1>1, <1>2
  <1>4. /\ L \subseteq B /\ IdSet(L) /\ (Cardinality(L) < missing => L = B)
        /\ Cardinality(L) = IF Cardinality(B) <= missing THEN Cardinality(B) ELSE missing
        /\ \A x \in L, y \in B : y < x => y \in L
    BY <1>3, SmallestCut
  <1>5. Cardinality(L) \in Nat
    BY <1>4, FS_CardinalityType DEF IdSet
  <1>6. /\ IdSet(K \cup L) /\ Cardinality(K \cup L) = Cardinality(K) + Cardinality(L)
        /\ Ascending(K) \o Ascending(L) = Ascending(K \cup L)
    <2>1. IdSet(K) /\ IdSet(L) /\ \A x \in K, y \in L : x < y
      BY <1>1, <1>4
    <2> HIDE DEF K, L
    <2>2. QED BY <2>1, AscendingJoined
  <1>7. IdSet(A \cup B) /\ K \cup L \in SUBSET (A \cup B)
    BY <1>1, <1>4, AscendingJoined
  <1>8. ASSUME NEW x \in K \cup L, NEW y \in A \cup B, y < x
        PROVE  y \in K \cup L
    <2>1. x \in Int /\ y \in Int
      BY <1>7 DEF IdSet
    <2>2. CASE x \in K
      BY <1>1, <1>8, <2>1, <2>2
    <2>3. CASE x \in L /\ y \in B
      BY <1>4, <1>8, <2>3
    <2>4. CASE x \in L /\ y \in A
      <3>1. Cardinality(L) # 0
        BY <1>4, <2>4, FS_EmptySet DEF IdSet
      <3>2. K = A
        BY <1>1, <1>2, <1>4, <1>5, <3>1
      <3>3. QED BY <2>4, <3>2
    <2>5. QED BY <1>8, <2>2, <2>3, <2>4
  <1>9. Cardinality(K \cup L) <= n
    BY <1>2, <1>3, <1>4, <1>5, <1>6
  <1>10. K \cup L = A \cup B \/ Cardinality(K \cup L) = n
    BY <1>1, <1>2, <1>3, <1>4, <1>5, <1>6
  <1>11. Smallest(n, A \cup B) = K \cup L
    BY <1>7, <1>8, <1>9, <1>10, PrefixIsSmallest
  <1>12. QED BY <1>3, <1>6, <1>11

----------------------------------------------------------------------------
(* Induction and recursion, stated with sets and functions.                *)

(* A non-empty set of natural numbers has a least one.                     *)
LEMMA LeastNumber ==
    ASSUME NEW T \in SUBSET Nat, T # {}
    PROVE  \E x \in T : \A y \in T : x <= y
  <1>1. OpToRel(<, Nat) = {ss \in Nat \X Nat : ss[1] < ss[2]}
    BY Zenon DEF OpToRel
  <1> DEFINE R == {ss \in Nat \X Nat : ss[1] < ss[2]}
  <1>2. IsWellFoundedOn(R, Nat)
    BY <1>1, NatLessThanWellFounded, Zenon
  <1>3. \E x \in T : \A y \in T : ~ (<<y, x>> \in R)
    <2> HIDE DEF R
    <2> QED BY <1>2, WFMin
  <1>4. \A x, y \in Nat : <<y, x>> \in R <=> y < x
    OBVIOUS
  <1>5. QED
    <2> HIDE DEF R
    <2>1. PICK x \in T : \A y \in T : ~ (<<y, x>> \in R)
      BY <1>3
    <2>2. \A y \in T : ~ (y < x)
      BY <1>4, <2>1
    <2>3. QED BY <2>2

(* A set that holds 0 and with every number the next, up to n, holds them all. *)
LEMMA UpTo ==
    ASSUME NEW n \in Nat, NEW T, 0 \in T, \A m \in 0..(n - 1) : m \in T => m + 1 \in T
    PROVE  0..n \subseteq T
  <1> DEFINE B == {m \in 0..n : m \notin T}
  <1>1. SUFFICES ASSUME B # {} PROVE FALSE
    OBVIOUS
  <1>2. PICK x \in B : \A y \in B : x <= y
    BY <1>1, LeastNumber, B \in SUBSET Nat
  <1>3. x # 0 /\ x - 1 \in 0..(n - 1) /\ x - 1 \notin B
    BY <1>2
  <1>4. x - 1 \in T
    BY <1>3
  <1>5. QED BY <1>2, <1>3, <1>4

(* A set that holds n and with every number the one before, holds all from n down. *)
LEMMA DownFrom ==
    ASSUME NEW n \in Nat, NEW T, n \in T, \A m \in 0..(n - 1) : m + 1 \in T => m \in T
    PROVE  0..n \subseteq T
  <1> DEFINE S == {k \in 0..n : n - k \in T}
  <1>1. 0 \in S
    OBVIOUS
  <1>2. \A m \in 0..(n - 1) : m \in S => m + 1 \in S
    <2>1. SUFFICES ASSUME NEW m \in 0..(n - 1), m \in S PROVE m + 1 \in S
      OBVIOUS
    <2>2. n - m - 1 \in 0..(n - 1) /\ (n - m - 1) + 1 = n - m /\ m + 1 \in 0..n /\ n - (m + 1) = n - m - 1
      OBVIOUS
    <2>3. QED BY <2>1, <2>2
  <1>3. 0..n \subseteq S
    BY <1>1, <1>2, UpTo
  <1>4. QED
    <2>1. SUFFICES ASSUME NEW m \in 0..n PROVE m \in T
      OBVIOUS
    <2>2. n - m \in 0..n /\ n - (n - m) = m
      OBVIOUS
    <2>3. QED BY <1>3, <2>2

(* A step of a recursion whose calls lower a rank.                         *)
Recursive(S, V, rank, Step) ==
    /\ rank \in [S -> Nat] /\ Step \in [S \X [S -> V] -> V]
    /\ \A x \in S : \A g, h \in [S -> V] :
         (\A y \in S : rank[y] < rank[x] => g[y] = h[y]) => Step[<<x, g>>] = Step[<<x, h>>]

(* A function that follows the recursion below a rank, and one that follows it everywhere. *)
FollowsBelow(S, rank, Step, f, n) == \A x \in S : rank[x] < n => f[x] = Step[<<x, f>>]

\* Below every rank a function follows the recursion.
LEMMA RecursionBelow ==
    ASSUME NEW S, NEW V, NEW v \in V, NEW rank, NEW Step, Recursive(S, V, rank, Step), NEW N \in Nat
    PROVE  \E f \in [S -> V] : FollowsBelow(S, rank, Step, f, N)
  <1> DEFINE Good(f, n) == FollowsBelow(S, rank, Step, f, n)
             T == {n \in 0..N : \E f \in [S -> V] : Good(f, n)}
  <1>0. /\ rank \in [S -> Nat] /\ Step \in [S \X [S -> V] -> V]
        /\ \A x \in S : \A g, h \in [S -> V] :
              (\A y \in S : rank[y] < rank[x] => g[y] = h[y]) => Step[<<x, g>>] = Step[<<x, h>>]
    BY DEF Recursive
  <1>1. 0 \in T
    <2> DEFINE c == [x \in S |-> v]
    <2>1. c \in [S -> V]
      OBVIOUS
    <2>2. Good(c, 0)
      <3>1. \A x \in S : rank[x] \in Nat
        BY <1>0
      <3>2. QED BY <3>1 DEF FollowsBelow
    <2> HIDE DEF c, Good
    <2>3. QED BY <2>1, <2>2
  <1>2. \A n \in 0..(N - 1) : n \in T => n + 1 \in T
    <2>1. SUFFICES ASSUME NEW n \in 0..(N - 1), n \in T PROVE n + 1 \in T
      OBVIOUS
    <2>2. PICK f \in [S -> V] : Good(f, n)
      BY <2>1
    <2> DEFINE g == [x \in S |-> IF rank[x] = n THEN Step[<<x, f>>] ELSE f[x]]
    <2>3. g \in [S -> V]
      <3>1. \A x \in S : Step[<<x, f>>] \in V
        BY <1>0
      <3>2. QED BY <3>1
    <2>4. ASSUME NEW x \in S, rank[x] < n + 1 PROVE g[x] = Step[<<x, g>>]
      <3>0. \A y \in S : rank[y] \in Nat
        BY <1>0
      <3>1. \A y \in S : rank[y] < rank[x] => f[y] = g[y]
        BY <2>4, <3>0
      <3>2. Step[<<x, f>>] = Step[<<x, g>>]
        BY <1>0, <2>3, <3>1
      <3>3. rank[x] # n => f[x] = Step[<<x, f>>]
        BY <2>2, <2>4, <3>0 DEF FollowsBelow
      <3>4. QED BY <3>2, <3>3
    <2>5. Good(g, n + 1)
      BY <2>4 DEF FollowsBelow
    <2> HIDE DEF g, Good
    <2>6. n + 1 \in 0..N
      OBVIOUS
    <2>7. QED BY <2>3, <2>5, <2>6
  <1>3. N \in T
    <2> HIDE DEF T
    <2>1. 0..N \subseteq T
      BY <1>1, <1>2, UpTo
    <2>2. QED BY <2>1
  <1>4. QED BY <1>3

Solvable(S, V, Step) == \E f \in [S -> V] : \A x \in S : f[x] = Step[<<x, f>>]

(* A recursion whose calls lower a rank defines a function.                *)
LEMMA RecursionExists ==
    ASSUME NEW S, NEW V, NEW v \in V, NEW rank, NEW Step, Recursive(S, V, rank, Step)
    PROVE  Solvable(S, V, Step)
  <1> DEFINE Good(f, n) == FollowsBelow(S, rank, Step, f, n)
             G(x) == CHOOSE g \in [S -> V] : Good(g, rank[x] + 1)
             f == [x \in S |-> G(x)[x]]
  <1>0. /\ rank \in [S -> Nat] /\ Step \in [S \X [S -> V] -> V]
        /\ \A x \in S : \A g, h \in [S -> V] :
              (\A y \in S : rank[y] < rank[x] => g[y] = h[y]) => Step[<<x, g>>] = Step[<<x, h>>]
    BY DEF Recursive
  <1>1. \A x \in S : G(x) \in [S -> V] /\ Good(G(x), rank[x] + 1)
    <2>1. SUFFICES ASSUME NEW x \in S PROVE \E g \in [S -> V] : Good(g, rank[x] + 1)
      <3> HIDE DEF Good
      <3> QED OBVIOUS
    <2>2. rank[x] + 1 \in Nat
      BY <1>0
    <2>3. QED BY <2>2, RecursionBelow
  <1> HIDE DEF G
  <1>2. f \in [S -> V]
    BY <1>1
  <1>3. ASSUME NEW g \in [S -> V], NEW h \in [S -> V], NEW n \in Nat, NEW m \in Nat,
               Good(g, n), Good(h, m), NEW z \in S, rank[z] < n, rank[z] < m
        PROVE  g[z] = h[z]
    <2> DEFINE Differ == {k \in Nat : \E x \in S : rank[x] = k /\ k < n /\ k < m /\ g[x] # h[x]}
    <2>1. SUFFICES ASSUME Differ # {} PROVE FALSE
      BY <1>0, <1>3
    <2>2. PICK k \in Differ : \A j \in Differ : k <= j
      BY <2>1, LeastNumber, Differ \in SUBSET Nat
    <2>3. PICK x \in S : rank[x] = k /\ k < n /\ k < m /\ g[x] # h[x]
      BY <2>2
    <2>4. \A y \in S : rank[y] < rank[x] => g[y] = h[y]
      <3>1. SUFFICES ASSUME NEW y \in S, rank[y] < rank[x], g[y] # h[y] PROVE FALSE
        OBVIOUS
      <3>2. rank[y] \in Nat /\ rank[y] < k /\ k \in Nat
        BY <1>0, <2>2, <2>3, <3>1
      <3>3. rank[y] \in Differ
        BY <2>3, <3>1, <3>2
      <3>4. QED BY <2>2, <3>2, <3>3
    <2>5. Step[<<x, g>>] = Step[<<x, h>>]
      BY <1>0, <2>4
    <2>6. g[x] = Step[<<x, g>>] /\ h[x] = Step[<<x, h>>]
      BY <1>3, <2>3 DEF FollowsBelow
    <2>7. QED BY <2>3, <2>5, <2>6
  <1>4. ASSUME NEW x \in S PROVE f[x] = Step[<<x, f>>]
    <2>1. f[x] = Step[<<x, G(x)>>]
      <3>1. rank[x] < rank[x] + 1
        BY <1>0
      <3>2. QED BY <1>1, <3>1 DEF FollowsBelow
    <2>2. ASSUME NEW y \in S, rank[y] < rank[x] PROVE f[y] = G(x)[y]
      <3>1. rank[y] \in Nat /\ rank[x] \in Nat
        BY <1>0
      <3>2. rank[y] + 1 \in Nat /\ rank[x] + 1 \in Nat /\ rank[y] < rank[y] + 1 /\ rank[y] < rank[x] + 1
        BY <2>2, <3>1
      <3> HIDE DEF Good
      <3>3. G(y)[y] = G(x)[y]
        BY <1>1, <1>3, <3>2
      <3>4. QED BY <3>3
    <2>3. Step[<<x, f>>] = Step[<<x, G(x)>>]
      BY <1>0, <1>1, <1>2, <2>2
    <2>4. QED BY <2>1, <2>3
  <1> HIDE DEF f
  <1>5. QED BY <1>2, <1>4 DEF Solvable

(* A walk through the numbers 1..n is the recursion that takes them one by one. *)
Walkable(n, V, base, Step) ==
    \E f \in [0..n -> V] : f[0] = base /\ \A i \in 1..n : f[i] = Step[<<i, f[i - 1]>>]

\* A recursion over 0..n that reads its previous value has a solution.
LEMMA WalkExists ==
    ASSUME NEW n \in Nat, NEW V, NEW base \in V, NEW Step \in [(1..n) \X V -> V]
    PROVE  Walkable(n, V, base, Step)
  <1> DEFINE S == 0..n
             rank == [i \in S |-> i]
             Next(p) == IF p[1] = 0 THEN base ELSE Step[<<p[1], p[2][p[1] - 1]>>]
             Steps == [p \in S \X [S -> V] |-> Next(p)]
  <1>1. Recursive(S, V, rank, Steps)
    <2>1. rank \in [S -> Nat]
      OBVIOUS
    <2>2. ASSUME NEW i \in S, NEW g \in [S -> V] PROVE Next(<<i, g>>) \in V
      <3>1. i # 0 => i \in 1..n /\ i - 1 \in S
        OBVIOUS
      <3>2. QED BY <3>1
    <2>3. Steps \in [S \X [S -> V] -> V]
      <3> HIDE DEF Next
      <3>1. \A p \in S \X [S -> V] : Next(p) \in V
        <4>1. SUFFICES ASSUME NEW p \in S \X [S -> V] PROVE Next(p) \in V
          OBVIOUS
        <4>2. p = <<p[1], p[2]>> /\ p[1] \in S /\ p[2] \in [S -> V]
          OBVIOUS
        <4>3. QED BY <2>2, <4>2
      <3>2. QED BY <3>1
    <2>4. ASSUME NEW i \in S, NEW g \in [S -> V], NEW h \in [S -> V],
                 \A j \in S : rank[j] < rank[i] => g[j] = h[j]
          PROVE  Steps[<<i, g>>] = Steps[<<i, h>>]
      <3>1. Steps[<<i, g>>] = Next(<<i, g>>) /\ Steps[<<i, h>>] = Next(<<i, h>>)
        <4> HIDE DEF Next
        <4> QED OBVIOUS
      <3>2. i # 0 => g[i - 1] = h[i - 1]
        <4>1. i # 0 => i - 1 \in S /\ i - 1 < i
          OBVIOUS
        <4>2. QED BY <2>4, <4>1
      <3>3. QED BY <3>1, <3>2
    <2> HIDE DEF Steps, S, rank
    <2>5. QED BY <2>1, <2>3, <2>4 DEF Recursive
  <1>2. PICK f \in [S -> V] : \A i \in S : f[i] = Steps[<<i, f>>]
    <2> HIDE DEF Steps, S, rank
    <2>1. Solvable(S, V, Steps)
      BY <1>1, RecursionExists
    <2>2. QED BY <2>1, Zenon DEF Solvable
  <1>3. \A i \in S : f[i] = IF i = 0 THEN base ELSE Step[<<i, f[i - 1]>>]
    <2>1. SUFFICES ASSUME NEW i \in S PROVE f[i] = IF i = 0 THEN base ELSE Step[<<i, f[i - 1]>>]
      OBVIOUS
    <2>2. f[i] = Next(<<i, f>>)
      <3> HIDE DEF Next
      <3> QED BY <1>2
    <2>3. QED BY <2>2, Zenon
  <1>4. f[0] = base
    <2>1. 0 \in S
      OBVIOUS
    <2>2. QED BY <1>3, <2>1, Zenon
  <1>5. \A i \in 1..n : f[i] = Step[<<i, f[i - 1]>>]
    <2>1. \A i \in 1..n : i \in S /\ i # 0
      OBVIOUS
    <2>2. QED BY <1>3, <2>1, Zenon
  <1>6. QED BY <1>4, <1>5 DEF Walkable

(* FlattenSeq joins one sequence after the other.                          *)
LEMMA FlattenSteps ==
    ASSUME NEW V, NEW ss \in Seq(Seq(V))
    PROVE  \E f \in [0..Len(ss) -> Seq(V)] :
              /\ f[0] = <<>> /\ \A i \in 1..Len(ss) : f[i] = f[i - 1] \o ss[i]
              /\ FlattenSeq(ss) = f[Len(ss)]
  <1> DEFINE n == Len(ss)
             Step == [p \in (1..n) \X Seq(V) |-> p[2] \o ss[p[1]]]
  <1>0. n \in Nat /\ <<>> \in Seq(V) /\ \A i \in 1..n : ss[i] \in Seq(V)
    OBVIOUS
  <1>1. Step \in [(1..n) \X Seq(V) -> Seq(V)]
    BY <1>0
  <1>2. PICK f \in [0..n -> Seq(V)] : f[0] = <<>> /\ \A i \in 1..n : f[i] = Step[<<i, f[i - 1]>>]
    <2> HIDE DEF Step, n
    <2>1. Walkable(n, Seq(V), <<>>, Step)
      BY <1>0, <1>1, WalkExists
    <2>2. QED BY <2>1, Zenon DEF Walkable
  <1>3. \A i \in 1..n : f[i] = f[i - 1] \o ss[i]
    BY <1>2
  <1>4. FlattenSeq(ss) = f[n]
    <2>1. CASE n = 0
      <3>1. FlattenSeq(ss) = ss
        BY <2>1 DEF FlattenSeq
      <3>2. QED BY <1>2, <2>1, <3>1
    <2>2. CASE n # 0
      <3> DEFINE flatten == CHOOSE g : g = [i \in 1..Len(ss) |-> IF i = 1 THEN ss[i] ELSE g[i - 1] \o ss[i]]
                 h == [i \in 1..Len(ss) |-> f[i]]
      <3>1. FlattenSeq(ss) = flatten[Len(ss)]
        BY <2>2, Zenon DEF FlattenSeq
      <3>2. h = [i \in 1..Len(ss) |-> IF i = 1 THEN ss[i] ELSE h[i - 1] \o ss[i]]
        <4>1. SUFFICES ASSUME NEW i \in 1..Len(ss) PROVE f[i] = IF i = 1 THEN ss[i] ELSE h[i - 1] \o ss[i]
          BY Zenon
        <4>2. i = 1 => f[i] = ss[1]
          <5>1. ss[1] \in Seq(V) => <<>> \o ss[1] = ss[1]
            OBVIOUS
          <5>2. i = 1 => f[1] = f[1 - 1] \o ss[1] /\ 1 - 1 = 0 /\ ss[1] \in Seq(V)
            <6>1. i = 1 => 1 \in 1..n /\ 1 - 1 = 0
              BY <1>0
            <6> HIDE DEF n
            <6>2. i = 1 => f[1] = f[1 - 1] \o ss[1] /\ ss[1] \in Seq(V)
              BY <1>0, <1>3, <6>1, Zenon
            <6>3. QED BY <6>1, <6>2
          <5>3. QED BY <1>2, <5>1, <5>2
        <4>3. i # 1 => h[i - 1] = f[i - 1]
          OBVIOUS
        <4>4. QED BY <1>3, <4>2, <4>3
      <3> HIDE DEF h
      <3>3. flatten = [i \in 1..Len(ss) |-> IF i = 1 THEN ss[i] ELSE flatten[i - 1] \o ss[i]]
        BY <3>2, Zenon
      <3> HIDE DEF flatten
      <3> DEFINE T == {i \in 0..n : i > 0 => flatten[i] = f[i]}
      <3>4. 0 \in T
        OBVIOUS
      <3>5. \A m \in 0..(n - 1) : m \in T => m + 1 \in T
        <4>1. SUFFICES ASSUME NEW m \in 0..(n - 1), m \in T PROVE flatten[m + 1] = f[m + 1]
          OBVIOUS
        <4>2. flatten[m + 1] = IF m + 1 = 1 THEN ss[m + 1] ELSE flatten[m] \o ss[m + 1]
          <5>1. m + 1 \in 1..Len(ss) /\ (m + 1) - 1 = m
            BY <1>0
          <5>2. QED BY <3>3, <5>1
        <4>3. f[m + 1] = f[m] \o ss[m + 1]
          <5>1. m + 1 \in 1..n /\ (m + 1) - 1 = m
            BY <1>0
          <5> HIDE DEF n
          <5>2. QED BY <1>3, <5>1
        <4>4. m = 0 => f[m] \o ss[m + 1] = ss[m + 1]
          <5>1. m = 0 => ss[m + 1] \in Seq(V)
            BY <1>0
          <5>2. ss[m + 1] \in Seq(V) => <<>> \o ss[m + 1] = ss[m + 1]
            OBVIOUS
          <5>3. QED BY <1>2, <5>1, <5>2
        <4>5. m \in Nat /\ (m # 0 => flatten[m] = f[m])
          BY <1>0, <4>1
        <4>6. CASE m = 0
          <5>1. m + 1 = 1
            BY <4>6
          <5>2. QED BY <4>2, <4>3, <4>4, <4>6, <5>1, Zenon
        <4>7. CASE m # 0
          <5>1. m + 1 # 1
            BY <4>5, <4>7
          <5>2. QED BY <4>2, <4>3, <4>5, <4>7, <5>1, Zenon
        <4>8. QED BY <4>6, <4>7
      <3>6. n \in T
        <4> HIDE DEF T
        <4>1. 0..n \subseteq T
          BY <1>0, <3>4, <3>5, UpTo
        <4>2. QED BY <1>0, <4>1
      <3>7. QED BY <1>0, <2>2, <3>1, <3>6
    <2>3. QED BY <2>1, <2>2
  <1>5. QED BY <1>2, <1>3, <1>4

(* The numbers up to m and the next one.                                   *)
LEMMA StepWithin ==
    ASSUME NEW n \in Nat, NEW m \in 0..(n - 1)
    PROVE  /\ m \in Nat /\ m \in 0..n /\ m + 1 \in 0..n /\ m + 1 \in 1..n /\ (m + 1) - 1 = m
           /\ 1..(m + 1) = (1..m) \cup {m + 1} /\ m + 1 \notin 1..m /\ 1..m \subseteq 1..n
  <1>1. m \in Nat
    OBVIOUS
  <1>2. \A k \in Int : k \in 1..(m + 1) <=> k \in 1..m \/ k = m + 1
    BY <1>1
  <1>3. 1..(m + 1) = (1..m) \cup {m + 1}
    BY <1>1, <1>2
  <1>4. QED BY <1>1, <1>3

(* The members of two joined sequences.                                    *)
LEMMA JoinedMembers ==
    ASSUME NEW V, NEW s \in Seq(V), NEW t \in Seq(V)
    PROVE  s \o t \in Seq(V) /\ ToSet(s \o t) = ToSet(s) \cup ToSet(t)
  <1>1. /\ s \o t \in Seq(V) /\ Len(s \o t) = Len(s) + Len(t) /\ Len(s) \in Nat /\ Len(t) \in Nat
        /\ \A i \in 1..Len(s) : (s \o t)[i] = s[i]
        /\ \A i \in 1..Len(t) : (s \o t)[Len(s) + i] = t[i]
    OBVIOUS
  <1>2. DOMAIN s = 1..Len(s) /\ DOMAIN t = 1..Len(t) /\ DOMAIN (s \o t) = 1..Len(s \o t)
    BY <1>1
  <1>3. ASSUME NEW x \in ToSet(s \o t) PROVE x \in ToSet(s) \cup ToSet(t)
    <2>1. PICK k \in 1..(Len(s) + Len(t)) : (s \o t)[k] = x
      BY <1>1, <1>2, <1>3 DEF ToSet
    <2>2. CASE k <= Len(s)
      <3>1. k \in 1..Len(s)
        BY <1>1, <2>2
      <3>2. QED BY <1>1, <1>2, <2>1, <3>1 DEF ToSet
    <2>3. CASE k > Len(s)
      <3>1. k - Len(s) \in 1..Len(t) /\ Len(s) + (k - Len(s)) = k
        BY <1>1, <2>3
      <3>2. t[k - Len(s)] = x
        BY <1>1, <2>1, <3>1, Zenon
      <3>3. QED BY <1>2, <3>1, <3>2 DEF ToSet
    <2>4. QED BY <1>1, <2>2, <2>3
  <1>4. ASSUME NEW x \in ToSet(s) PROVE x \in ToSet(s \o t)
    <2>1. PICK k \in 1..Len(s) : s[k] = x
      BY <1>2, <1>4 DEF ToSet
    <2>2. k \in 1..(Len(s) + Len(t)) /\ (s \o t)[k] = x
      BY <1>1, <2>1
    <2>3. QED BY <1>1, <1>2, <2>2 DEF ToSet
  <1>5. ASSUME NEW x \in ToSet(t) PROVE x \in ToSet(s \o t)
    <2>1. PICK k \in 1..Len(t) : t[k] = x
      BY <1>2, <1>5 DEF ToSet
    <2>2. Len(s) + k \in 1..(Len(s) + Len(t))
      BY <1>1, <2>1
    <2>3. (s \o t)[Len(s) + k] = x
      BY <1>1, <2>1, Zenon
    <2>4. QED BY <1>1, <1>2, <2>2, <2>3 DEF ToSet
  <1>6. QED BY <1>1, <1>3, <1>4, <1>5

(* The members of a flattened sequence are those of its parts.             *)
LEMMA FlattenedMembers ==
    ASSUME NEW V, NEW ss \in Seq(Seq(V))
    PROVE  /\ FlattenSeq(ss) \in Seq(V)
           /\ ToSet(FlattenSeq(ss)) = UNION {ToSet(ss[i]) : i \in 1..Len(ss)}
  <1> DEFINE n == Len(ss)
  <1>0. n \in Nat /\ \A i \in 1..n : ss[i] \in Seq(V)
    OBVIOUS
  <1>1. PICK f \in [0..n -> Seq(V)] :
           f[0] = <<>> /\ (\A i \in 1..n : f[i] = f[i - 1] \o ss[i]) /\ FlattenSeq(ss) = f[n]
    BY FlattenSteps
  <1> HIDE DEF n
  <1> DEFINE T == {m \in 0..n : ToSet(f[m]) = UNION {ToSet(ss[i]) : i \in 1..m}}
  <1>2. 0 \in T
    <2>1. ToSet(f[0]) = {}
      BY <1>1 DEF ToSet
    <2>2. 1..0 = {} /\ 0 \in 0..n
      BY <1>0
    <2>3. QED BY <2>1, <2>2
  <1>3. \A m \in 0..(n - 1) : m \in T => m + 1 \in T
    <2>1. SUFFICES ASSUME NEW m \in 0..(n - 1), m \in T PROVE m + 1 \in T
      OBVIOUS
    <2>2. m \in Nat /\ m \in 0..n /\ m + 1 \in 0..n /\ m + 1 \in 1..n /\ (m + 1) - 1 = m
          /\ 1..(m + 1) = (1..m) \cup {m + 1}
      BY <1>0, StepWithin
    <2>3. f[m + 1] = f[m] \o ss[m + 1]
      BY <1>1, <2>2, Zenon
    <2>4. ToSet(f[m + 1]) = ToSet(f[m]) \cup ToSet(ss[m + 1])
      <3>1. f[m] \in Seq(V) /\ ss[m + 1] \in Seq(V)
        BY <1>0, <1>1, <2>2
      <3>2. QED BY <2>3, <3>1, JoinedMembers
    <2>5. ToSet(f[m]) = UNION {ToSet(ss[i]) : i \in 1..m}
      BY <2>1
    <2>6. UNION {ToSet(ss[i]) : i \in 1..(m + 1)} = (UNION {ToSet(ss[i]) : i \in 1..m}) \cup ToSet(ss[m + 1])
      BY <2>2
    <2>7. QED BY <2>2, <2>4, <2>5, <2>6
  <1>4. n \in T
    <2> HIDE DEF T
    <2>1. 0..n \subseteq T
      BY <1>0, <1>2, <1>3, UpTo
    <2>2. QED BY <1>0, <2>1
  <1>5. f[n] \in Seq(V)
    BY <1>0, <1>1
  <1>6. QED BY <1>1, <1>4, <1>5 DEF n

(* Ascending parts in ascending order flatten to the ascending union.      *)
LEMMA FlattenedAscending ==
    ASSUME NEW n \in Nat, NEW A, \A i \in 1..n : IdSet(A[i]),
           \A i, j \in 1..n : i < j => \A x \in A[i], y \in A[j] : x < y
    PROVE  LET all == UNION {A[i] : i \in 1..n}
           IN IdSet(all) /\ FlattenSeq([i \in 1..n |-> Ascending(A[i])]) = Ascending(all)
  <1> DEFINE ss == [i \in 1..n |-> Ascending(A[i])]
             U(m) == UNION {A[i] : i \in 1..m}
  <1>0. \A i \in 1..n : Ascending(A[i]) \in Seq(Int)
    <2>1. SUFFICES ASSUME NEW i \in 1..n PROVE Ascending(A[i]) \in Seq(Int)
      OBVIOUS
    <2>2. Ascending(A[i]) \in Seq(A[i]) /\ A[i] \subseteq Int
      BY AscendingOrder DEF IdSet
    <2>3. QED BY <2>2
  <1>1. ss \in Seq(Seq(Int)) /\ Len(ss) = n
    BY <1>0
  <1>2. PICK f \in [0..n -> Seq(Int)] :
           f[0] = <<>> /\ (\A i \in 1..n : f[i] = f[i - 1] \o ss[i]) /\ FlattenSeq(ss) = f[n]
    <2> HIDE DEF ss
    <2>1. \E f \in [0..Len(ss) -> Seq(Int)] :
              /\ f[0] = <<>> /\ \A i \in 1..Len(ss) : f[i] = f[i - 1] \o ss[i]
              /\ FlattenSeq(ss) = f[Len(ss)]
      BY <1>1, FlattenSteps
    <2>2. QED BY <1>1, <2>1
  <1> DEFINE T == {m \in 0..n : IdSet(U(m)) /\ f[m] = Ascending(U(m))}
  <1>3. 0 \in T
    <2>1. U(0) = {} /\ Cardinality({}) = 0 /\ IdSet({})
      BY FS_EmptySet DEF IdSet
    <2>2. Ascending({}) = <<>>
      BY <2>1 DEF Ascending
    <2>3. QED BY <1>2, <2>1, <2>2
  <1>4. \A m \in 0..(n - 1) : m \in T => m + 1 \in T
    <2>1. SUFFICES ASSUME NEW m \in 0..(n - 1), m \in T PROVE m + 1 \in T
      OBVIOUS
    <2>2. m \in Nat /\ m \in 0..n /\ m + 1 \in 0..n /\ m + 1 \in 1..n /\ (m + 1) - 1 = m
          /\ 1..(m + 1) = (1..m) \cup {m + 1} /\ 1..m \subseteq 1..n
      BY StepWithin
    <2>3. f[m + 1] = f[m] \o Ascending(A[m + 1])
      <3>1. f[m + 1] = f[m] \o ss[m + 1]
        <4> HIDE DEF ss
        <4> QED BY <1>2, <2>2, Zenon
      <3>2. QED BY <2>2, <3>1
    <2>4. U(m + 1) = U(m) \cup A[m + 1]
      BY <2>2
    <2>5. IdSet(U(m)) /\ f[m] = Ascending(U(m)) /\ IdSet(A[m + 1])
      BY <2>1, <2>2
    <2>6. \A x \in U(m), y \in A[m + 1] : x < y
      <3>1. SUFFICES ASSUME NEW i \in 1..m, NEW x \in A[i], NEW y \in A[m + 1] PROVE x < y
        OBVIOUS
      <3>2. i \in 1..n /\ i < m + 1
        BY <2>2
      <3>3. QED BY <2>2, <3>1, <3>2
    <2> HIDE DEF U
    <2>7. IdSet(U(m) \cup A[m + 1]) /\ Ascending(U(m)) \o Ascending(A[m + 1]) = Ascending(U(m) \cup A[m + 1])
      <3> DEFINE B == A[m + 1]
                 C == U(m)
      <3>1. IdSet(B) /\ IdSet(C) /\ \A x \in C, y \in B : x < y
        BY <2>5, <2>6
      <3> HIDE DEF B, C
      <3>2. IdSet(C \cup B) /\ Ascending(C) \o Ascending(B) = Ascending(C \cup B)
        BY <3>1, AscendingJoined
      <3>3. QED BY <3>2 DEF B, C
    <2>8. QED BY <2>2, <2>3, <2>4, <2>5, <2>7
  <1>5. n \in T
    <2> HIDE DEF T
    <2>1. 0..n \subseteq T
      BY <1>3, <1>4, UpTo
    <2>2. QED BY <2>1
  <1>6. QED BY <1>2, <1>5

(* A function on 1..n is a sequence.                                       *)
LEMMA SeqFrom ==
    ASSUME NEW n \in Nat, NEW V, NEW f \in [1..n -> V]
    PROVE  f \in Seq(V) /\ Len(f) = n /\ DOMAIN f = 1..n
  OBVIOUS

(* Parts of a sequence.                                                    *)

LEMMA PartOf ==
    ASSUME NEW V, NEW s \in Seq(V), NEW a \in 0..Len(s), NEW b \in a..Len(s)
    PROVE  LET part == SubSeq(s, a + 1, b)
           IN part \in Seq(V) /\ Len(part) = b - a /\ \A k \in 1..(b - a) : part[k] = s[a + k]
  OBVIOUS

(* Sequences of the same length and entries are the same.                  *)
LEMMA SameSequence ==
    ASSUME NEW V, NEW s \in Seq(V), NEW t \in Seq(V), Len(s) = Len(t), \A k \in 1..Len(s) : s[k] = t[k]
    PROVE  s = t
  OBVIOUS

\* Two neighbouring parts of a sequence make one part.
LEMMA PartsJoin ==
    ASSUME NEW V, NEW s \in Seq(V), NEW a \in 0..Len(s), NEW b \in a..Len(s), NEW c \in b..Len(s)
    PROVE  SubSeq(s, a + 1, b) \o SubSeq(s, b + 1, c) = SubSeq(s, a + 1, c)
  <1> DEFINE p == SubSeq(s, a + 1, b)
             q == SubSeq(s, b + 1, c)
             r == SubSeq(s, a + 1, c)
  <1>1. a \in Nat /\ b \in Nat /\ c \in Nat /\ a <= b /\ b <= c /\ c <= Len(s) /\ Len(s) \in Nat
    OBVIOUS
  <1>2. p \in Seq(V) /\ Len(p) = b - a /\ \A k \in 1..(b - a) : p[k] = s[a + k]
    BY <1>1, PartOf
  <1>3. q \in Seq(V) /\ Len(q) = c - b /\ \A k \in 1..(c - b) : q[k] = s[b + k]
    BY <1>1, PartOf
  <1>4. r \in Seq(V) /\ Len(r) = c - a /\ \A k \in 1..(c - a) : r[k] = s[a + k]
    <2>1. b \in a..Len(s) /\ c \in a..Len(s)
      BY <1>1
    <2>2. QED BY <1>1, <2>1, PartOf
  <1> HIDE DEF p, q, r
  <1>5. p \o q \in Seq(V) /\ Len(p \o q) = c - a
    BY <1>1, <1>2, <1>3
  <1>6. \A k \in 1..(c - a) : (p \o q)[k] = r[k]
    <2>1. SUFFICES ASSUME NEW k \in 1..(c - a) PROVE (p \o q)[k] = s[a + k]
      BY <1>4
    <2>2. CASE k <= b - a
      <3>1. k \in 1..(b - a)
        BY <1>1, <2>2
      <3>2. (p \o q)[k] = p[k]
        BY <1>1, <1>2, <1>3, <3>1
      <3>3. QED BY <1>2, <3>1, <3>2
    <2>3. CASE k > b - a
      <3>1. k - (b - a) \in 1..(c - b) /\ b + (k - (b - a)) = a + k
        BY <1>1, <2>3
      <3>2. (p \o q)[k] = q[k - (b - a)]
        BY SMTT(30), <1>1, <1>2, <1>3, <2>3
      <3>3. q[k - (b - a)] = s[b + (k - (b - a))]
        BY <1>3, <3>1
      <3>4. QED BY <3>1, <3>2, <3>3
    <2>4. k <= b - a \/ k > b - a
      BY <1>1
    <2>5. QED BY <2>2, <2>3, <2>4, Zenon
  <1>7. p \o q = r
    BY <1>4, <1>5, <1>6, SameSequence
  <1>8. QED BY <1>7 DEF p, q, r

\* A part of a part of a sequence is a part of it.
LEMMA PartOfPart ==
    ASSUME NEW V, NEW s \in Seq(V), NEW a \in 0..Len(s), NEW b \in a..Len(s),
           NEW i \in 0..(b - a), NEW j \in i..(b - a)
    PROVE  SubSeq(SubSeq(s, a + 1, b), i + 1, j) = SubSeq(s, a + i + 1, a + j)
  <1> DEFINE p == SubSeq(s, a + 1, b)
             q == SubSeq(p, i + 1, j)
             c == a + i
             d == a + j
             r == SubSeq(s, c + 1, d)
  <1>1. /\ a \in Nat /\ b \in Nat /\ i \in Nat /\ j \in Nat /\ a <= b /\ i <= j /\ j <= b - a
        /\ b <= Len(s) /\ Len(s) \in Nat /\ c \in 0..Len(s) /\ d \in c..Len(s) /\ d - c = j - i
    OBVIOUS
  <1>2. p \in Seq(V) /\ Len(p) = b - a /\ \A k \in 1..(b - a) : p[k] = s[a + k]
    BY <1>1, PartOf
  <1>3. r \in Seq(V) /\ Len(r) = d - c /\ \A k \in 1..(d - c) : r[k] = s[c + k]
    <2> HIDE DEF c, d
    <2> QED BY <1>1, PartOf
  <1> HIDE DEF p, r
  <1>4. q \in Seq(V) /\ Len(q) = j - i /\ \A k \in 1..(j - i) : q[k] = p[i + k]
    <2>1. i \in 0..Len(p) /\ j \in i..Len(p)
      BY <1>1, <1>2
    <2>2. QED BY <1>2, <2>1, PartOf
  <1> HIDE DEF q
  <1>5. \A k \in 1..(j - i) : q[k] = r[k]
    <2>1. SUFFICES ASSUME NEW k \in 1..(j - i) PROVE q[k] = r[k]
      OBVIOUS
    <2>2. i + k \in 1..(b - a) /\ k \in 1..(d - c) /\ a + (i + k) = c + k
      BY <1>1
    <2> HIDE DEF c, d
    <2>3. QED BY <1>2, <1>3, <1>4, <2>2
  <1>6. q = r
    BY <1>1, <1>3, <1>4, <1>5, SameSequence
  <1>7. QED BY <1>6 DEF p, q, r, c, d

----------------------------------------------------------------------------
(* Arithmetic.                                                             *)

\* Quotient and remainder.
LEMMA DivMod ==
    ASSUME NEW a \in Nat, NEW d \in Nat \ {0}
    PROVE  /\ a \div d \in Nat /\ a % d \in 0..(d - 1) /\ a = d * (a \div d) + (a % d)
           /\ a \div d <= a
  OBVIOUS

(* A quotient and a rest determine each other.                             *)
LEMMA DivUnique ==
    ASSUME NEW d \in Nat \ {0}, NEW q \in Nat, NEW r \in 0..(d - 1)
    PROVE  (d * q + r) \div d = q /\ (d * q + r) % d = r
  OBVIOUS

(* A rounded-up quotient.                                                  *)
LEMMA CeilDivBounds ==
    ASSUME NEW n \in Nat, NEW d \in Nat \ {0}
    PROVE  /\ CeilDiv(n, d) \in Nat /\ n <= CeilDiv(n, d) * d
           /\ n > 0 => CeilDiv(n, d) > 0 /\ (CeilDiv(n, d) - 1) * d < n
           /\ n = 0 => CeilDiv(n, d) = 0
  <1> DEFINE a == n + d - 1
             q == a \div d
             r == a % d
  <1>1. a \in Nat
    OBVIOUS
  <1>2. q \in Nat /\ r \in 0..(d - 1) /\ a = d * q + r
    BY <1>1, DivMod
  <1>3. CeilDiv(n, d) = q
    BY DEF CeilDiv
  <1>4. d * q = q * d /\ (q - 1) * d = q * d - d
    BY <1>2
  <1>5. n + d - 1 = q * d + r
    BY <1>2, <1>4
  <1> HIDE DEF q, r
  <1>6. q * d \in Nat
    BY <1>2
  <1>7. (n <= q * d /\ (q - 1) * d < n) \/ n = 0
    BY <1>2, <1>4, <1>5, <1>6
  <1>8. n <= q * d
    BY <1>2, <1>5, <1>6
  <1>9. n > 0 => q > 0
    BY <1>2, <1>8
  <1>10. n = 0 => q = 0
    <2>1. n = 0 => q * d <= d - 1
      BY <1>2, <1>5, <1>6
    <2>2. q >= 1 => q * d >= d
      BY <1>2
    <2>3. QED BY <1>2, <2>1, <2>2
  <1>11. QED BY <1>2, <1>3, <1>7, <1>8, <1>9, <1>10

----------------------------------------------------------------------------
(* Ascending ids.                                                          *)

(* A sequence over a set is one over a larger set.                         *)
LEMMA SeqOfMore ==
    ASSUME NEW A, NEW B, A \subseteq B, NEW s \in Seq(A)
    PROVE  s \in Seq(B) /\ DOMAIN s = 1..Len(s) /\ Len(s) \in Nat
  <1>1. Len(s) \in Nat /\ DOMAIN s = 1..Len(s) /\ s \in [1..Len(s) -> A]
    OBVIOUS
  <1>2. s \in [1..Len(s) -> B]
    BY <1>1
  <1>3. QED BY <1>1, <1>2

(* An ascending sequence is the ascending order of its members.            *)
LEMMA IncreasingIsAscending ==
    ASSUME NEW s \in Seq(Int), Increasing(s)
    PROVE  IdSet(ToSet(s)) /\ Cardinality(ToSet(s)) = Len(s) /\ s = Ascending(ToSet(s))
  <1> DEFINE ids == ToSet(s)
             n == Len(s)
  <1>1. n \in Nat /\ DOMAIN s = 1..n /\ s \in [1..n -> Int]
    OBVIOUS
  <1>2. ids \in SUBSET Int /\ s \in [1..n -> ids] /\ \A x \in ids : \E i \in 1..n : s[i] = x
    BY <1>1 DEF ToSet
  <1>3. QED
    <2> HIDE DEF ids, n
    <2>1. IdSet(ids) /\ Cardinality(ids) = n /\ s = Ascending(ids)
      BY <1>1, <1>2, AscendingIsUnique
    <2>2. QED BY <2>1 DEF ids, n

(* What an ascending order holds.                                          *)
LEMMA AscendingFacts ==
    ASSUME NEW A, IdSet(A)
    PROVE  /\ Cardinality(A) \in Nat /\ Ascending(A) \in Seq(A) /\ Ascending(A) \in Seq(Int)
           /\ Len(Ascending(A)) = Cardinality(A) /\ DOMAIN Ascending(A) = 1..Cardinality(A)
           /\ Increasing(Ascending(A)) /\ ToSet(Ascending(A)) = A
  <1>1. /\ Cardinality(A) \in Nat
        /\ Ascending(A) \in Seq(A) /\ Len(Ascending(A)) = Cardinality(A)
        /\ Increasing(Ascending(A))
        /\ {Ascending(A)[i] : i \in 1..Cardinality(A)} = A
    BY AscendingOrder
  <1>2. A \subseteq Int
    BY DEF IdSet
  <1> DEFINE s == Ascending(A)
  <1> HIDE DEF s
  <1>3. s \in Seq(A) => DOMAIN s = 1..Len(s) /\ s \in Seq(Int)
    BY <1>2, SeqOfMore
  <1>4. QED BY <1>1, <1>3 DEF s, ToSet

\* One id in ascending order.
LEMMA AscendingSingle ==
    ASSUME NEW x \in Int
    PROVE  IdSet({x}) /\ Ascending({x}) = <<x>> /\ Cardinality({x}) = 1
  <1> DEFINE s == <<x>>
  <1>1. s \in Seq(Int) /\ Increasing(s) /\ ToSet(s) = {x} /\ Len(s) = 1
    BY DEF Increasing, ToSet
  <1> HIDE DEF s
  <1>2. IdSet(ToSet(s)) /\ Cardinality(ToSet(s)) = Len(s) /\ s = Ascending(ToSet(s))
    BY <1>1, IncreasingIsAscending
  <1>3. QED BY <1>1, <1>2 DEF s

\* No ids in ascending order.
LEMMA AscendingEmpty == IdSet({}) /\ Ascending({}) = <<>> /\ Cardinality({}) = 0
  <1>1. Cardinality({}) = 0 /\ IdSet({})
    BY FS_EmptySet DEF IdSet
  <1>2. QED BY <1>1 DEF Ascending

(* A greater id is appended.                                               *)
LEMMA AscendingAppend ==
    ASSUME NEW A, IdSet(A), NEW x \in Int, \A y \in A : y < x
    PROVE  IdSet(A \cup {x}) /\ Append(Ascending(A), x) = Ascending(A \cup {x})
  <1> DEFINE B == {x}
             s == Ascending(A)
  <1>1. IdSet(B) /\ Ascending(B) = <<x>> /\ \A y \in A, z \in B : y < z
    BY AscendingSingle
  <1>2. s \in Seq(Int)
    BY AscendingFacts
  <1> HIDE DEF B, s
  <1>3. IdSet(A \cup B) /\ Ascending(A) \o Ascending(B) = Ascending(A \cup B)
    BY <1>1, AscendingJoined
  <1>4. Append(s, x) = s \o <<x>>
    BY <1>2
  <1>5. QED BY <1>1, <1>3, <1>4 DEF B, s

(* An ascending order cut to n ids holds the n smallest.                   *)
LEMMA TakeAscending ==
    ASSUME NEW A, IdSet(A), NEW n \in Nat
    PROVE  Take(Ascending(A), n) = Ascending(Smallest(n, A))
  <1> DEFINE s == Ascending(A)
             k == IF n < Len(s) THEN n ELSE Len(s)
             t == SubSeq(s, 1, k)
  <1>1. /\ Cardinality(A) \in Nat /\ s \in Seq(A) /\ s \in Seq(Int) /\ Len(s) = Cardinality(A)
        /\ DOMAIN s = 1..Cardinality(A) /\ Increasing(s) /\ ToSet(s) = A
    BY AscendingFacts
  <1>2. \A i \in 1..Cardinality(A) : Rank(s[i], A) = i - 1
    BY AscendingOrder
  <1> HIDE DEF s
  <1>3. k \in 0..Len(s) /\ Len(s) \in Nat
    BY <1>1
  <1>4. Take(s, n) = t
    BY DEF Take
  <1> HIDE DEF k
  <1>5. t \in Seq(Int) /\ Len(t) = k /\ DOMAIN t = 1..k /\ \A i \in 1..k : t[i] = s[i]
    BY <1>1, <1>3
  <1>6. Increasing(t)
    BY <1>1, <1>3, <1>5 DEF Increasing
  <1>7. ToSet(t) = Smallest(n, A)
    <2>1. ASSUME NEW i \in 1..k PROVE t[i] \in Smallest(n, A)
      <3>1. i \in 1..Cardinality(A) /\ i - 1 < n
        BY <1>1, <1>3 DEF k
      <3>2. s[i] \in A /\ Rank(s[i], A) < n
        BY <1>1, <1>2, <3>1
      <3>3. QED BY <1>5, <3>2 DEF Smallest
    <2>2. ASSUME NEW x \in Smallest(n, A) PROVE \E i \in 1..k : t[i] = x
      <3>1. x \in A /\ Rank(x, A) < n
        BY DEF Smallest
      <3>2. PICK i \in 1..Cardinality(A) : s[i] = x
        BY <1>1, <3>1 DEF ToSet
      <3>3. i - 1 < n
        BY <1>2, <3>1, <3>2
      <3>4. i \in 1..k
        BY <1>1, <3>2, <3>3 DEF k
      <3>5. QED BY <1>5, <3>2, <3>4
    <2>3. QED BY <1>5, <2>1, <2>2 DEF ToSet
  <1> HIDE DEF t
  <1>8. t = Ascending(ToSet(t))
    BY <1>5, <1>6, IncreasingIsAscending
  <1>9. QED BY <1>4, <1>7, <1>8 DEF s

(* The number of chunks holds the chunks that start before the end.        *)
LEMMA ChunkStart ==
    ASSUME NEW n \in Nat, NEW d \in Nat \ {0}, NEW g \in 1..CeilDiv(n, d)
    PROVE  /\ g \in Nat \ {0} /\ (g - 1) * d \in Nat /\ (g - 1) * d < n
           /\ CeilDiv(n, d) \in Nat
  <1> DEFINE c == CeilDiv(n, d)
  <1>1. c \in Nat /\ (n > 0 => (c - 1) * d < n) /\ (n = 0 => c = 0)
    BY CeilDivBounds
  <1> HIDE DEF c
  <1>2. g \in Nat \ {0} /\ g <= c /\ n > 0
    BY <1>1 DEF c
  <1>3. (g - 1) * d <= (c - 1) * d /\ (g - 1) * d \in Nat /\ (c - 1) * d \in Nat
    BY <1>1, <1>2
  <1>4. QED BY <1>1, <1>2, <1>3 DEF c

(* The chunk of a position.                                                *)
LEMMA ChunkOf ==
    ASSUME NEW n \in Nat, NEW d \in Nat \ {0}, NEW i \in 1..n
    PROVE  LET q == (i - 1) \div d
               r == (i - 1) % d
           IN /\ q \in Nat /\ q + 1 \in 1..CeilDiv(n, d) /\ r \in 0..(d - 1) /\ r + 1 \in 1..d
              /\ q * d \in Nat /\ i = q * d + (r + 1) /\ (q + 1) - 1 = q
  <1> DEFINE q == (i - 1) \div d
             r == (i - 1) % d
             c == CeilDiv(n, d)
  <1>1. q \in Nat /\ r \in 0..(d - 1) /\ i - 1 = d * q + r
    <2>1. i - 1 \in Nat
      OBVIOUS
    <2>2. QED BY <2>1, DivMod
  <1>2. c \in Nat /\ n <= c * d
    BY CeilDivBounds
  <1> HIDE DEF q, r, c
  <1>3. d * q = q * d /\ q * d \in Nat /\ c * d \in Nat
    BY <1>1, <1>2
  <1>4. q < c
    <2>1. SUFFICES ASSUME q >= c PROVE FALSE
      BY <1>1, <1>2
    <2>2. c * d <= q * d
      BY <1>1, <1>2, <2>1
    <2>3. QED BY <1>1, <1>2, <1>3, <2>2
  <1>5. /\ q \in Nat /\ q + 1 \in 1..c /\ r \in 0..(d - 1) /\ r + 1 \in 1..d
        /\ q * d \in Nat /\ i = q * d + (r + 1) /\ (q + 1) - 1 = q
    BY <1>1, <1>2, <1>3, <1>4
  <1>6. QED BY <1>5, Zenon DEF q, r, c

(* A cut of the rest of a sequence.                                        *)
LEMMA TakeFrom ==
    ASSUME NEW V, NEW s \in Seq(V), NEW a \in 0..Len(s), NEW m \in Nat
    PROVE  LET part == Take(SubSeq(s, a + 1, Len(s)), m)
           IN /\ part \in Seq(V)
              /\ Len(part) = IF m < Len(s) - a THEN m ELSE Len(s) - a
              /\ \A k \in 1..Len(part) : part[k] = s[a + k]
  <1> DEFINE n == Len(s)
             rest == SubSeq(s, a + 1, n)
             part == Take(rest, m)
             k == IF m < Len(rest) THEN m ELSE Len(rest)
  <1>1. n \in Nat /\ a \in Nat /\ a <= n
    OBVIOUS
  <1>2. rest \in Seq(V) /\ Len(rest) = n - a /\ \A i \in 1..(n - a) : rest[i] = s[a + i]
    BY <1>1
  <1> HIDE DEF rest, n
  <1>3. part = SubSeq(rest, 1, k) /\ k \in 0..(n - a)
    BY <1>1, <1>2 DEF Take
  <1>4. k = IF m < n - a THEN m ELSE n - a
    BY <1>2
  <1> HIDE DEF k, part
  <1>5. part \in Seq(V) /\ Len(part) = k /\ \A i \in 1..k : part[i] = rest[i]
    BY <1>1, <1>2, <1>3
  <1>6. \A i \in 1..k : part[i] = s[a + i]
    BY <1>1, <1>2, <1>3, <1>5
  <1>7. QED BY <1>4, <1>5, <1>6 DEF part, rest, n

(* The members of a sequence are finitely many.                            *)
LEMMA MembersFinite ==
    ASSUME NEW V, NEW s \in Seq(V)
    PROVE  IsFiniteSet(ToSet(s)) /\ ToSet(s) \subseteq V /\ Cardinality(ToSet(s)) <= Len(s)
           /\ Cardinality(ToSet(s)) \in Nat
  <1> DEFINE n == Len(s)
             A == 1..n
             S == {s[i] : i \in A}
  <1>1. n \in Nat /\ DOMAIN s = A /\ S \subseteq V
    OBVIOUS
  <1>2. ToSet(s) = S
    BY <1>1 DEF ToSet
  <1>3. IsFiniteSet(A) /\ Cardinality(A) = n
    BY <1>1, FS_Interval
  <1>4. IsFiniteSet(S) /\ Cardinality(S) <= n
    <2> DEFINE f == [i \in A |-> s[i]]
    <2>1. f \in Surjection(A, S)
      BY DEF Surjection
    <2> HIDE DEF f, A, S
    <2>2. QED BY <1>3, <2>1, FS_Surjection
  <1>5. QED BY <1>1, <1>2, <1>4, FS_CardinalityType

----------------------------------------------------------------------------
(* Entries at positions.                                                   *)

(* EntriesAt walks through the sequence.                                   *)
EntryWalk(V, s, I, n) ==
    \E f \in [0..n -> Seq(V)] :
        /\ f[0] = <<>>
        /\ \A i \in 1..n : f[i] = IF i \in I THEN Append(f[i - 1], s[i]) ELSE f[i - 1]
        /\ EntriesAt(s, I) = f[n]

\* EntriesAt walks the sequence and keeps the entries at the wanted positions.
LEMMA EntriesSteps ==
    ASSUME NEW V, NEW s \in Seq(V), NEW I
    PROVE  EntryWalk(V, s, I, Len(s))
  <1> DEFINE n == Len(s)
             Step == [p \in (1..n) \X Seq(V) |-> IF p[1] \in I THEN Append(p[2], s[p[1]]) ELSE p[2]]
  <1>0. n \in Nat /\ <<>> \in Seq(V) /\ \A i \in 1..n : s[i] \in V
    OBVIOUS
  <1>1. Step \in [(1..n) \X Seq(V) -> Seq(V)]
    BY <1>0
  <1>2. PICK f \in [0..n -> Seq(V)] : f[0] = <<>> /\ \A i \in 1..n : f[i] = Step[<<i, f[i - 1]>>]
    <2> HIDE DEF Step, n
    <2>1. Walkable(n, Seq(V), <<>>, Step)
      BY <1>0, <1>1, WalkExists
    <2>2. QED BY <2>1, Zenon DEF Walkable
  <1>3. \A i \in 1..n : f[i] = IF i \in I THEN Append(f[i - 1], s[i]) ELSE f[i - 1]
    <2>1. SUFFICES ASSUME NEW i \in 1..n PROVE f[i] = IF i \in I THEN Append(f[i - 1], s[i]) ELSE f[i - 1]
      OBVIOUS
    <2>2. i - 1 \in 0..n
      BY <1>0
    <2>3. <<i, f[i - 1]>> \in (1..n) \X Seq(V)
      BY <2>2
    <2>4. QED BY <1>2, <2>3
  <1> DEFINE Body(g, i) == IF i = 0 THEN <<>> ELSE IF i \in I THEN Append(g[i - 1], s[i]) ELSE g[i - 1]
             upTo == CHOOSE g : g = [i \in 0..Len(s) |-> IF i = 0 THEN <<>>
                        ELSE IF i \in I THEN Append(g[i - 1], s[i]) ELSE g[i - 1]]
  <1>4. EntriesAt(s, I) = upTo[Len(s)]
    BY Zenon DEF EntriesAt
  <1>5. f = [i \in 0..Len(s) |-> IF i = 0 THEN <<>> ELSE IF i \in I THEN Append(f[i - 1], s[i]) ELSE f[i - 1]]
    <2>1. \A i \in 0..n : f[i] = IF i = 0 THEN <<>> ELSE IF i \in I THEN Append(f[i - 1], s[i]) ELSE f[i - 1]
      <3>1. SUFFICES ASSUME NEW i \in 0..n, i # 0 
                     PROVE  f[i] = IF i \in I THEN Append(f[i - 1], s[i]) ELSE f[i - 1]
        BY <1>2, Zenon
      <3>2. i \in 1..n
        BY <3>1
      <3>3. QED BY <1>3, <3>2
    <2>2. f = [i \in 0..n |-> f[i]]
      OBVIOUS
    <2>3. QED BY <2>1, <2>2, Zenon
  <1>6. upTo = [i \in 0..Len(s) |-> IF i = 0 THEN <<>>
                     ELSE IF i \in I THEN Append(upTo[i - 1], s[i]) ELSE upTo[i - 1]]
    BY <1>5, Zenon
  <1> HIDE DEF upTo
  <1> DEFINE T == {i \in 0..n : upTo[i] = f[i]}
  <1>7. 0 \in T
    <2>1. 0 \in 0..n
      BY <1>0
    <2>2. upTo[0] = <<>>
      BY <1>6, <2>1, Zenon
    <2>3. QED BY <1>2, <2>1, <2>2
  <1>8. \A m \in 0..(n - 1) : m \in T => m + 1 \in T
    <2>1. SUFFICES ASSUME NEW m \in 0..(n - 1), m \in T PROVE upTo[m + 1] = f[m + 1] /\ m + 1 \in 0..n
      OBVIOUS
    <2>2. m + 1 \in 1..n /\ m + 1 \in 0..n /\ (m + 1) - 1 = m /\ m + 1 # 0
      BY <1>0
    <2>3. upTo[m + 1] = IF m + 1 \in I THEN Append(upTo[m], s[m + 1]) ELSE upTo[m]
      <3>1. upTo[m + 1] = IF m + 1 = 0 THEN <<>>
                     ELSE IF m + 1 \in I THEN Append(upTo[(m + 1) - 1], s[m + 1]) ELSE upTo[(m + 1) - 1]
        BY <1>6, <2>2, Zenon
      <3>2. QED BY <2>2, <3>1, Zenon
    <2>4. f[m + 1] = IF m + 1 \in I THEN Append(f[m], s[m + 1]) ELSE f[m]
      <3>1. f[m + 1] = IF m + 1 \in I THEN Append(f[(m + 1) - 1], s[m + 1]) ELSE f[(m + 1) - 1]
        BY <1>3, <2>2, Zenon
      <3>2. QED BY <2>2, <3>1, Zenon
    <2>5. QED BY <2>1, <2>2, <2>3, <2>4
  <1>9. n \in T
    <2> HIDE DEF T, n
    <2>1. 0..n \subseteq T
      BY <1>0, <1>7, <1>8, UpTo
    <2>2. QED BY <1>0, <2>1
  <1>10. QED BY <1>2, <1>3, <1>4, <1>9 DEF EntryWalk

(* The entries at positions are those of the sequence there.               *)
LEMMA EntriesMembers ==
    ASSUME NEW V, NEW s \in Seq(V), NEW I
    PROVE  /\ EntriesAt(s, I) \in Seq(V)
           /\ ToSet(EntriesAt(s, I)) = {s[i] : i \in {j \in 1..Len(s) : j \in I}}
  <1> DEFINE n == Len(s)
  <1>0. n \in Nat /\ \A i \in 1..n : s[i] \in V
    OBVIOUS
  <1>1. PICK f \in [0..n -> Seq(V)] :
           /\ f[0] = <<>>
           /\ \A i \in 1..n : f[i] = IF i \in I THEN Append(f[i - 1], s[i]) ELSE f[i - 1]
           /\ EntriesAt(s, I) = f[n]
    <2> HIDE DEF n
    <2>1. EntryWalk(V, s, I, n)
      BY EntriesSteps DEF n
    <2>2. QED BY <2>1, Zenon DEF EntryWalk
  <1> HIDE DEF n
  <1> DEFINE E(m) == {s[i] : i \in {j \in 1..m : j \in I}}
             T == {m \in 0..n : ToSet(f[m]) = E(m)}
  <1>2. 0 \in T
    <2>1. ToSet(f[0]) = {} /\ 0 \in 0..n
      BY <1>0, <1>1 DEF ToSet
    <2>2. 1..0 = {}
      OBVIOUS
    <2>3. E(0) = {}
      BY <2>2
    <2>4. QED BY <2>1, <2>3
  <1>3. \A m \in 0..(n - 1) : m \in T => m + 1 \in T
    <2>1. SUFFICES ASSUME NEW m \in 0..(n - 1), m \in T PROVE m + 1 \in T
      OBVIOUS
    <2>2. m \in Nat /\ m \in 0..n /\ m + 1 \in 0..n /\ m + 1 \in 1..n /\ (m + 1) - 1 = m
          /\ 1..(m + 1) = (1..m) \cup {m + 1}
      BY <1>0, StepWithin
    <2>3. f[m + 1] = IF m + 1 \in I THEN Append(f[m], s[m + 1]) ELSE f[m]
      <3>1. f[m + 1] = IF m + 1 \in I THEN Append(f[(m + 1) - 1], s[m + 1]) ELSE f[(m + 1) - 1]
        BY <1>1, <2>2, Zenon
      <3>2. QED BY <2>2, <3>1, Zenon
    <2>4. E(m + 1) = E(m) \cup (IF m + 1 \in I THEN {s[m + 1]} ELSE {})
      BY <2>2
    <2>5. ToSet(f[m]) = E(m) /\ f[m] \in Seq(V) /\ s[m + 1] \in V
      BY <1>0, <2>1, <2>2
    <2>6. m + 1 \in I => ToSet(Append(f[m], s[m + 1])) = ToSet(f[m]) \cup {s[m + 1]}
      <3> DEFINE t == <<s[m + 1]>>
      <3>0. ToSet(t) = {s[m + 1]}
        BY DEF ToSet
      <3>1. t \in Seq(V) /\ Append(f[m], s[m + 1]) = f[m] \o t
        <4>1. ASSUME NEW g \in Seq(V), NEW x \in V
              PROVE  <<x>> \in Seq(V) /\ Append(g, x) = g \o <<x>>
          <5>1. /\ <<x>> \in Seq(V) /\ Append(g, x) \in Seq(V) /\ g \o <<x>> \in Seq(V)
                /\ Len(g) \in Nat /\ Len(Append(g, x)) = Len(g) + 1 /\ Len(g \o <<x>>) = Len(g) + 1
            OBVIOUS
          <5>2. \A i \in 1..(Len(g) + 1) : Append(g, x)[i] = (g \o <<x>>)[i]
            OBVIOUS
          <5>3. Append(g, x) = g \o <<x>>
            BY <5>1, <5>2, SameSequence
          <5>4. QED BY <5>1, <5>3
        <4>2. QED BY <2>5, <4>1
      <3>2. ToSet(f[m] \o t) = ToSet(f[m]) \cup ToSet(t)
        <4> HIDE DEF t
        <4> QED BY <2>5, <3>1, JoinedMembers
      <3> HIDE DEF t
      <3>3. QED BY <3>0, <3>1, <3>2
    <2> HIDE DEF E
    <2>7. ToSet(f[m + 1]) = E(m + 1)
      BY <2>3, <2>4, <2>5, <2>6
    <2>8. QED BY <2>2, <2>7
  <1>4. n \in T
    <2> HIDE DEF T
    <2>1. 0..n \subseteq T
      BY <1>0, <1>2, <1>3, UpTo
    <2>2. QED BY <1>0, <2>1
  <1>5. f[n] \in Seq(V)
    BY <1>0, <1>1
  <1>6. QED BY <1>1, <1>4, <1>5 DEF n

(* The entries of an ascending sequence at positions are ascending.        *)
LEMMA EntriesAscending ==
    ASSUME NEW s \in Seq(Int), Increasing(s), NEW I
    PROVE  LET kept == {s[i] : i \in {j \in 1..Len(s) : j \in I}}
           IN IdSet(kept) /\ EntriesAt(s, I) = Ascending(kept)
  <1> DEFINE n == Len(s)
  <1>0. n \in Nat /\ \A i \in 1..n : s[i] \in Int
    OBVIOUS
  <1>00. \A i, j \in 1..n : i < j => s[i] < s[j]
    BY DEF Increasing
  <1>1. PICK f \in [0..n -> Seq(Int)] :
           /\ f[0] = <<>>
           /\ \A i \in 1..n : f[i] = IF i \in I THEN Append(f[i - 1], s[i]) ELSE f[i - 1]
           /\ EntriesAt(s, I) = f[n]
    <2> HIDE DEF n
    <2>1. EntryWalk(Int, s, I, n)
      BY EntriesSteps DEF n
    <2>2. QED BY <2>1, Zenon DEF EntryWalk
  <1> HIDE DEF n
  <1> DEFINE E(m) == {s[i] : i \in {j \in 1..m : j \in I}}
             T == {m \in 0..n : IdSet(E(m)) /\ f[m] = Ascending(E(m))}
  <1>2. 0 \in T
    <2>2. 1..0 = {} /\ 0 \in 0..n
      BY <1>0
    <2>3. E(0) = {}
      BY <2>2
    <2>4. QED BY <1>1, <2>2, <2>3, AscendingEmpty
  <1>3. \A m \in 0..(n - 1) : m \in T => m + 1 \in T
    <2>1. SUFFICES ASSUME NEW m \in 0..(n - 1), m \in T PROVE m + 1 \in T
      OBVIOUS
    <2>2. m \in Nat /\ m \in 0..n /\ m + 1 \in 0..n /\ m + 1 \in 1..n /\ (m + 1) - 1 = m
          /\ 1..(m + 1) = (1..m) \cup {m + 1} /\ 1..m \subseteq 1..n
      BY <1>0, StepWithin
    <2>3. f[m + 1] = IF m + 1 \in I THEN Append(f[m], s[m + 1]) ELSE f[m]
      <3>1. f[m + 1] = IF m + 1 \in I THEN Append(f[(m + 1) - 1], s[m + 1]) ELSE f[(m + 1) - 1]
        BY <1>1, <2>2, Zenon
      <3>2. QED BY <2>2, <3>1, Zenon
    <2>4. E(m + 1) = E(m) \cup (IF m + 1 \in I THEN {s[m + 1]} ELSE {})
      BY <2>2
    <2>5. IdSet(E(m)) /\ f[m] = Ascending(E(m)) /\ s[m + 1] \in Int
      BY <1>0, <2>1, <2>2
    <2>6. \A y \in E(m) : y < s[m + 1]
      <3>1. SUFFICES ASSUME NEW i \in 1..m PROVE s[i] < s[m + 1]
        OBVIOUS
      <3>2. i \in 1..n /\ i < m + 1
        BY <2>2
      <3>3. QED BY <1>00, <2>2, <3>2
    <2>7. IdSet(E(m) \cup {s[m + 1]}) /\ Append(Ascending(E(m)), s[m + 1]) = Ascending(E(m) \cup {s[m + 1]})
      <3> DEFINE A == E(m)
                 x == s[m + 1]
      <3>1. IdSet(A) /\ x \in Int /\ \A y \in A : y < x
        BY <2>5, <2>6
      <3> HIDE DEF A, x
      <3>2. IdSet(A \cup {x}) /\ Append(Ascending(A), x) = Ascending(A \cup {x})
        BY <3>1, AscendingAppend
      <3>3. QED BY <3>2 DEF A, x
    <2> HIDE DEF E
    <2>8. IdSet(E(m + 1)) /\ f[m + 1] = Ascending(E(m + 1))
      <3>1. CASE m + 1 \in I
        BY <2>3, <2>4, <2>5, <2>7, <3>1, Zenon
      <3>2. CASE m + 1 \notin I
        BY <2>3, <2>4, <2>5, <3>2
      <3>3. QED BY <3>1, <3>2
    <2>9. QED BY <2>2, <2>8
  <1>4. n \in T
    <2> HIDE DEF T
    <2>1. 0..n \subseteq T
      BY <1>0, <1>2, <1>3, UpTo
    <2>2. QED BY <1>0, <2>1
  <1>5. QED BY <1>1, <1>4 DEF n

(* The members of an ascending sequence in a set are ascending.            *)
LEMMA AscendingWithin ==
    ASSUME NEW A, IdSet(A), NEW B, NEW I, I = {i \in DOMAIN Ascending(A) : Ascending(A)[i] \in B}
    PROVE  IdSet(A \cap B) /\ EntriesAt(Ascending(A), I) = Ascending(A \cap B)
  <1> DEFINE s == Ascending(A)
  <1>1. /\ s \in Seq(Int) /\ Len(s) = Cardinality(A) /\ DOMAIN s = 1..Len(s)
        /\ Increasing(s) /\ ToSet(s) = A /\ I = {i \in DOMAIN s : s[i] \in B}
    BY AscendingFacts
  <1> HIDE DEF s
  <1>2. {s[i] : i \in {j \in 1..Len(s) : j \in I}} = A \cap B
    BY <1>1 DEF ToSet
  <1>3. QED BY <1>1, <1>2, EntriesAscending DEF s

----------------------------------------------------------------------------
(* Records in order.                                                       *)

Records == Int \X Int

PairSet(S) == S \subseteq Records /\ IsFiniteSet(S)

Place(x, S) == Cardinality({y \in S : Before(y, x)})

InSequence(s) == \A i, j \in DOMAIN s : i < j => Before(s[i], s[j])

(* The order of records is strict and total.                               *)
LEMMA BeforeOrder ==
    ASSUME NEW x \in Records, NEW y \in Records, NEW z \in Records
    PROVE  /\ ~ Before(x, x) /\ ~ (Before(x, y) /\ Before(y, x))
           /\ Before(x, y) /\ Before(y, z) => Before(x, z)
           /\ Before(x, y) \/ x = y \/ Before(y, x)
  <1>1. /\ x = <<x[1], x[2]>> /\ y = <<y[1], y[2]>> /\ x[1] \in Int /\ x[2] \in Int
        /\ y[1] \in Int /\ y[2] \in Int /\ z[1] \in Int /\ z[2] \in Int
    BY DEF Records
  <1>2. ~ Before(x, x) /\ ~ (Before(x, y) /\ Before(y, x))
    BY <1>1 DEF Before
  <1>3. Before(x, y) /\ Before(y, z) => Before(x, z)
    BY <1>1 DEF Before
  <1>4. x[1] = y[1] /\ x[2] = y[2] => x = y
    BY <1>1, Zenon
  <1>5. Before(x, y) \/ (x[1] = y[1] /\ x[2] = y[2]) \/ Before(y, x)
    BY <1>1 DEF Before
  <1>6. QED BY <1>2, <1>3, <1>4, <1>5

(* The place of a record is the number of records before it.             *)
LEMMA PlaceTyped ==
    ASSUME NEW S, PairSet(S), NEW id \in Records
    PROVE  /\ Place(id, S) \in Nat /\ Place(id, S) <= Cardinality(S)
           /\ id \in S => Place(id, S) < Cardinality(S)
           /\ Cardinality(S) \in Nat /\ IsFiniteSet({j \in S : Before(j, id)})
  <1> DEFINE B == {j \in S : Before(j, id)}
  <1>1. /\ IsFiniteSet(B) /\ Cardinality(B) <= Cardinality(S)
        /\ Cardinality(B) = Cardinality(S) => B = S
    BY FS_Subset DEF PairSet
  <1>2. Cardinality(B) \in Nat /\ Cardinality(S) \in Nat
    BY <1>1, FS_CardinalityType DEF PairSet
  <1>3. id \in S => B # S
    <2>1. ~ Before(id, id)
      BY BeforeOrder
    <2>2. QED BY <2>1
  <1>4. QED BY <1>1, <1>2, <1>3 DEF Place

(* Of two records the one before has the lower place.                     *)
LEMMA PlaceMonotone ==
    ASSUME NEW S, PairSet(S), NEW x \in S, NEW y \in Records, Before(x, y)
    PROVE  Place(x, S) < Place(y, S)
  <1> DEFINE A == {j \in S : Before(j, x)}
             B == {j \in S : Before(j, y)}
  <1>1. A \subseteq B /\ x \in B /\ x \notin A
    <2>1. x \in Records /\ y \in Records /\ \A j \in S : j \in Records
      BY DEF PairSet
    <2>2. ~ Before(x, x) /\ \A j \in S : Before(j, x) => Before(j, y)
      BY <2>1, BeforeOrder
    <2>3. QED BY <2>2
  <1>2. IsFiniteSet(A) /\ IsFiniteSet(B) /\ Place(x, S) \in Nat /\ Place(y, S) \in Nat
    BY PlaceTyped DEF PairSet
  <1>3. Cardinality(A) <= Cardinality(B) /\ (Cardinality(A) = Cardinality(B) => A = B)
    BY <1>1, <1>2, FS_Subset
  <1>4. QED BY <1>1, <1>2, <1>3 DEF Place

(* Different records have different places.                              *)
LEMMA PlaceOrders ==
    ASSUME NEW S, PairSet(S), NEW x \in S, NEW y \in S
    PROVE  /\ Place(x, S) = Place(y, S) => x = y
           /\ Place(x, S) < Place(y, S) => Before(x, y)
  <1>1. Before(x, y) \/ x = y \/ Before(y, x)
    BY BeforeOrder DEF PairSet
  <1>2. Before(x, y) => Place(x, S) < Place(y, S)
    BY PlaceMonotone DEF PairSet
  <1>3. Before(y, x) => Place(y, S) < Place(x, S)
    BY PlaceMonotone DEF PairSet
  <1>4. Place(x, S) \in Nat /\ Place(y, S) \in Nat
    BY PlaceTyped DEF PairSet
  <1>5. QED BY <1>1, <1>2, <1>3, <1>4

(* Every number below the size of the set is a place.                     *)
LEMMA PlaceOnto ==
    ASSUME NEW S, PairSet(S), NEW n \in 0..(Cardinality(S) - 1)
    PROVE  \E x \in S : Place(x, S) = n
  <1> DEFINE T == {Place(x, S) : x \in S}
             size == Cardinality(S)
             f == [x \in S |-> Place(x, S)]
  <1>1. size \in Nat /\ T \subseteq 0..(size - 1)
    <2>1. size \in Nat
      BY FS_CardinalityType DEF PairSet
    <2>2. \A x \in S : Place(x, S) \in Nat /\ Place(x, S) < size
      BY PlaceTyped DEF PairSet
    <2>3. \A x \in S : Place(x, S) \in 0..(size - 1)
      BY <2>1, <2>2
    <2>4. QED BY <2>1, <2>3
  <1>2. f \in Bijection(S, T)
    BY PlaceOrders DEF Bijection, Injection, Surjection, IsInjective
  <1>3. IsFiniteSet(T) /\ Cardinality(T) = size
    BY <1>2, FS_Bijection DEF PairSet, ExistsBijection
  <1>4. IsFiniteSet(0..(size - 1)) /\ Cardinality(0..(size - 1)) = size
    BY <1>1, FS_Interval
  <1>5. T = 0..(size - 1)
    BY <1>1, <1>3, <1>4, FS_Subset
  <1>6. QED BY <1>5

(* The records of a set in order: each once.                              *)
LEMMA SortedOrder ==
    ASSUME NEW S, PairSet(S)
    PROVE  /\ Cardinality(S) \in Nat
           /\ Sorted(S) \in [1..Cardinality(S) -> S]
           /\ Sorted(S) \in Seq(S) /\ Len(Sorted(S)) = Cardinality(S)
           /\ InSequence(Sorted(S))
           /\ {Sorted(S)[i] : i \in 1..Cardinality(S)} = S
           /\ \A i \in 1..Cardinality(S) : Place(Sorted(S)[i], S) = i - 1
  <1> DEFINE n == Cardinality(S)
             s == Sorted(S)
  <1>1. n \in Nat
    BY FS_CardinalityType DEF PairSet
  <1>2. \A i \in 1..n : s[i] \in S /\ Place(s[i], S) = i - 1
    <2> TAKE i \in 1..n
    <2>1. i - 1 \in 0..(n - 1)
      BY <1>1
    <2>2. \E x \in S : Place(x, S) = i - 1
      BY <2>1, PlaceOnto
    <2>3. s[i] = CHOOSE x \in S : Place(x, S) = i - 1
      <3>1. s[i] = CHOOSE x \in S : Cardinality({y \in S : Before(y, x)}) = i - 1
        BY DEF Sorted
      <3>2. QED BY <3>1, Zenon DEF Place
    <2> HIDE DEF s
    <2>4. QED BY <2>2, <2>3, Zenon
  <1>3. s = [i \in 1..n |-> s[i]]
    BY SMTT(30) DEF Sorted
  <1>4. s \in [1..n -> S]
    BY <1>2, <1>3
  <1>5. s \in Seq(S) /\ Len(s) = n
    BY <1>1, <1>4
  <1>6. InSequence(s)
    <2> SUFFICES ASSUME NEW i \in 1..n, NEW j \in 1..n, i < j PROVE Before(s[i], s[j])
      BY <1>4 DEF InSequence
    <2>1. Place(s[i], S) < Place(s[j], S)
      BY <1>1, <1>2
    <2>2. QED BY <1>2, <2>1, PlaceOrders
  <1>7. \A x \in S : \E i \in 1..n : s[i] = x
    <2> TAKE x \in S
    <2>0. x \in Records
      BY DEF PairSet
    <2>1. Place(x, S) \in Nat /\ Place(x, S) < n
      BY <2>0, PlaceTyped
    <2> DEFINE i == Place(x, S) + 1
    <2>2. i \in 1..n /\ Place(x, S) = i - 1
      BY <1>1, <2>1
    <2>3. s[i] \in S /\ Place(s[i], S) = Place(x, S)
      BY <1>2, <2>2
    <2>5. s[i] = x
      BY <2>3, PlaceOrders
    <2>4. QED BY <2>2, <2>5
  <1>8. QED BY <1>1, <1>2, <1>4, <1>5, <1>6, <1>7

(* There is one such order.                                               *)
LEMMA SortedIsUnique ==
    ASSUME NEW S \in SUBSET Records, NEW n \in Nat, NEW s \in [1..n -> S],
           InSequence(s), \A x \in S : \E i \in 1..n : s[i] = x
    PROVE  PairSet(S) /\ Cardinality(S) = n /\ s = Sorted(S)
  <1>1. \A i, j \in 1..n : s[i] = s[j] => i = j
    <2> SUFFICES ASSUME NEW i \in 1..n, NEW j \in 1..n, s[i] = s[j] PROVE i = j
      OBVIOUS
    <2>1. s[i] \in Records /\ s[j] \in Records
      OBVIOUS
    <2>2. i < j => Before(s[i], s[j])
      BY DEF InSequence
    <2>3. j < i => Before(s[j], s[i])
      BY DEF InSequence
    <2>4. ~ Before(s[i], s[i])
      BY <2>1, BeforeOrder
    <2>5. QED BY <2>1, <2>2, <2>3, <2>4
  <1>2. s \in Bijection(1..n, S)
    BY <1>1 DEF Bijection, Injection, Surjection, IsInjective
  <1>3. IsFiniteSet(1..n) /\ Cardinality(1..n) = n
    BY FS_Interval
  <1>4. IsFiniteSet(S) /\ Cardinality(S) = n
    BY <1>2, <1>3, FS_Bijection DEF ExistsBijection
  <1>5. PairSet(S)
    BY <1>4 DEF PairSet
  <1>6. \A i \in 1..n : Place(s[i], S) = i - 1
    <2> TAKE i \in 1..n
    <2> DEFINE B == {j \in S : Before(j, s[i])}
               f == [k \in 1..(i - 1) |-> s[k]]
    <2>1. \A k \in 1..n : Before(s[k], s[i]) <=> k < i
      <3> TAKE k \in 1..n
      <3>1. k < i => Before(s[k], s[i])
        BY DEF InSequence
      <3>2. i < k => Before(s[i], s[k])
        BY DEF InSequence
      <3>3. s[k] \in Records /\ s[i] \in Records
        OBVIOUS
      <3>4. ~ Before(s[i], s[i]) /\ ~ (Before(s[k], s[i]) /\ Before(s[i], s[k]))
        BY <3>3, BeforeOrder
      <3>5. QED BY <3>1, <3>2, <3>4
    <2>2. f \in Bijection(1..(i - 1), B)
      <3>1. \A k \in 1..(i - 1) : f[k] \in B
        BY <2>1
      <3>2. \A j, k \in 1..(i - 1) : f[j] = f[k] => j = k
        BY <1>1
      <3>3. \A x \in B : \E k \in 1..(i - 1) : f[k] = x
        BY <2>1
      <3>4. QED BY <3>1, <3>2, <3>3 DEF Bijection, Injection, Surjection, IsInjective
    <2>3. IsFiniteSet(1..(i - 1)) /\ Cardinality(1..(i - 1)) = i - 1
      BY FS_Interval
    <2>4. Cardinality(B) = i - 1
      BY <2>2, <2>3, FS_Bijection DEF ExistsBijection
    <2>5. QED BY <2>4 DEF Place
  <1>7. \A i \in 1..n : s[i] = Sorted(S)[i]
    <2> TAKE i \in 1..n
    <2>1. Place(Sorted(S)[i], S) = i - 1 /\ Sorted(S)[i] \in S
      BY <1>4, <1>5, SortedOrder
    <2>2. s[i] \in S /\ Place(s[i], S) = i - 1
      BY <1>6
    <2>3. QED BY <1>5, <2>1, <2>2, PlaceOrders
  <1>8. s = Sorted(S)
    <2>1. Sorted(S) \in [1..n -> S]
      BY <1>4, <1>5, SortedOrder
    <2>2. QED BY <1>7, <2>1
  <1>9. QED BY <1>4, <1>5, <1>8

----------------------------------------------------------------------------
(* Sorting.                                                                *)

(* The records of a set, in order.                                         *)
LEMMA SortedFacts ==
    ASSUME NEW S, PairSet(S)
    PROVE  /\ Cardinality(S) \in Nat /\ Sorted(S) \in Seq(Records)
           /\ Len(Sorted(S)) = Cardinality(S) /\ DOMAIN Sorted(S) = 1..Cardinality(S)
           /\ InSequence(Sorted(S)) /\ ToSet(Sorted(S)) = S
  <1> DEFINE s == Sorted(S)
             n == Cardinality(S)
  <1>1. n \in Nat /\ s \in [1..n -> S] /\ InSequence(s) /\ {s[i] : i \in 1..n} = S
    BY SortedOrder
  <1>2. S \subseteq Records
    BY DEF PairSet
  <1> HIDE DEF s, n
  <1>3. s \in [1..n -> Records]
    BY <1>1, <1>2
  <1>4. s \in Seq(Records) /\ Len(s) = n /\ DOMAIN s = 1..n
    BY <1>1, <1>3, SeqFrom
  <1>5. ToSet(s) = S
    BY <1>1, <1>4 DEF ToSet
  <1>6. QED BY <1>1, <1>4, <1>5 DEF s, n

(* A sequence in order is the order of its members.                        *)
LEMMA SequenceIsSorted ==
    ASSUME NEW s \in Seq(Records), InSequence(s)
    PROVE  PairSet(ToSet(s)) /\ Cardinality(ToSet(s)) = Len(s) /\ s = Sorted(ToSet(s))
  <1> DEFINE S == ToSet(s)
             n == Len(s)
  <1>1. n \in Nat /\ DOMAIN s = 1..n /\ s \in [1..n -> Records]
    OBVIOUS
  <1>2. S \in SUBSET Records /\ s \in [1..n -> S] /\ \A x \in S : \E i \in 1..n : s[i] = x
    BY <1>1 DEF ToSet
  <1>3. QED
    <2> HIDE DEF S, n
    <2>1. PairSet(S) /\ Cardinality(S) = n /\ s = Sorted(S)
      BY <1>1, <1>2, SortedIsUnique
    <2>2. QED BY <2>1 DEF S, n

(* A set of records has a first one.                                       *)
LEMMA FirstRecord ==
    ASSUME NEW S, PairSet(S), S # {}
    PROVE  \E x \in S : \A y \in S : ~ Before(y, x)
  <1> DEFINE s == Sorted(S)
             n == Cardinality(S)
  <1>1. n \in Nat /\ s \in [1..n -> S] /\ InSequence(s) /\ {s[i] : i \in 1..n} = S
    BY SortedOrder
  <1> HIDE DEF s, n
  <1>2. 1 \in 1..n
    BY <1>1
  <1>3. \A y \in S : ~ Before(y, s[1])
    <2>1. SUFFICES ASSUME NEW i \in 1..n, Before(s[i], s[1]) PROVE FALSE
      BY <1>1
    <2>2. s[i] \in Records /\ s[1] \in Records
      BY <1>1, <1>2 DEF PairSet
    <2>3. i = 1 \/ Before(s[1], s[i])
      BY <1>1, <1>2 DEF InSequence
    <2>4. QED BY <2>1, <2>2, <2>3, BeforeOrder
  <1>4. QED BY <1>1, <1>2, <1>3

(* The runs are in order and hold the input.                               *)
LEMMA RunsCover ==
    ASSUME NEW input \in Seq(Records), NEW max \in Nat \ {0}
    PROVE  LET runs == SortedRuns(input, max)
           IN /\ runs \in Seq(Seq(Records))
              /\ \A i \in 1..Len(runs) : InSequence(runs[i])
              /\ UNION {ToSet(runs[i]) : i \in 1..Len(runs)} = ToSet(input)
  <1> DEFINE n == Len(input)
             c == CeilDiv(n, max)
             part(i) == Take(SubSeq(input, (i - 1) * max + 1, Len(input)), max)
             runs == [i \in 1..c |-> Sorted(ToSet(part(i)))]
  <1>0. n \in Nat /\ DOMAIN input = 1..n
    OBVIOUS
  <1>1. c \in Nat
    <2> HIDE DEF n
    <2> QED BY <1>0, CeilDivBounds
  <1>2. SortedRuns(input, max) = runs
    BY DEF SortedRuns
  <1>3. \A i \in 1..c : /\ part(i) \in Seq(Records)
                        /\ (i - 1) * max \in Nat
                        /\ Len(part(i)) = IF max < n - (i - 1) * max THEN max ELSE n - (i - 1) * max
                        /\ (i - 1) * max + Len(part(i)) <= n
                        /\ \A k \in 1..Len(part(i)) : part(i)[k] = input[(i - 1) * max + k]
    <2>1. SUFFICES ASSUME NEW i \in 1..c
                   PROVE  /\ part(i) \in Seq(Records) /\ (i - 1) * max \in Nat
                          /\ Len(part(i)) = IF max < n - (i - 1) * max THEN max ELSE n - (i - 1) * max
                          /\ (i - 1) * max + Len(part(i)) <= n
                          /\ \A k \in 1..Len(part(i)) : part(i)[k] = input[(i - 1) * max + k]
      OBVIOUS
    <2> DEFINE a == (i - 1) * max
    <2>2. a \in Nat /\ a < n
      <3> HIDE DEF n
      <3>1. QED BY <1>0, ChunkStart
    <2>3. part(i) = Take(SubSeq(input, a + 1, Len(input)), max) /\ a \in 0..Len(input)
      BY <1>0, <2>2
    <2> HIDE DEF a, part
    <2>4. /\ part(i) \in Seq(Records) /\ Len(part(i)) = IF max < n - a THEN max ELSE n - a
          /\ \A k \in 1..Len(part(i)) : part(i)[k] = input[a + k]
      <3>1. /\ Take(SubSeq(input, a + 1, Len(input)), max) \in Seq(Records)
            /\ Len(Take(SubSeq(input, a + 1, Len(input)), max)) = IF max < n - a THEN max ELSE n - a
            /\ \A k \in 1..Len(Take(SubSeq(input, a + 1, Len(input)), max)) :
                  Take(SubSeq(input, a + 1, Len(input)), max)[k] = input[a + k]
        BY <2>3, TakeFrom
      <3>2. QED BY <2>3, <3>1, Zenon
    <2>5. a + Len(part(i)) <= n
      <3> HIDE DEF n
      <3>1. PICK w : w = IF max < n - a THEN max ELSE n - a
        OBVIOUS
      <3>2. a + w <= n
        BY <1>0, <2>2, <3>1
      <3>3. QED BY <2>4, <3>1, <3>2
    <2>6. QED BY <2>2, <2>4, <2>5 DEF a
  <1> HIDE DEF part, c
  <1>4. \A i \in 1..c : PairSet(ToSet(part(i)))
    BY <1>3, MembersFinite DEF PairSet
  <1>5. \A i \in 1..c : runs[i] \in Seq(Records) /\ InSequence(runs[i]) /\ ToSet(runs[i]) = ToSet(part(i))
    <2>1. SUFFICES ASSUME NEW i \in 1..c
                   PROVE  runs[i] \in Seq(Records) /\ InSequence(runs[i]) /\ ToSet(runs[i]) = ToSet(part(i))
      OBVIOUS
    <2>2. PairSet(ToSet(part(i)))
      BY <1>4
    <2>3. runs[i] = Sorted(ToSet(part(i)))
      OBVIOUS
    <2> HIDE DEF runs
    <2>4. QED BY <2>2, <2>3, SortedFacts
  <1>6. runs \in Seq(Seq(Records)) /\ Len(runs) = c
    <2>1. runs \in [1..c -> Seq(Records)]
      <3>1. \A i \in 1..c : Sorted(ToSet(part(i))) \in Seq(Records)
        BY <1>5
      <3>2. QED BY <3>1
    <2> HIDE DEF runs
    <2>2. QED BY <1>1, <2>1, SeqFrom
  <1> HIDE DEF runs
  <1>7. UNION {ToSet(runs[i]) : i \in 1..c} = ToSet(input)
    <2>1. ASSUME NEW i \in 1..c, NEW x \in ToSet(runs[i]) PROVE x \in ToSet(input)
      <3>0. x \in ToSet(part(i))
        BY <1>5, <2>1
      <3>1. part(i) \in Seq(Records)
        BY <1>3
      <3>2. PICK k \in 1..Len(part(i)) : part(i)[k] = x
        BY <3>0, <3>1 DEF ToSet
      <3> DEFINE a == (i - 1) * max
      <3>3. a \in Nat /\ a + Len(part(i)) <= n /\ part(i)[k] = input[a + k]
        BY <1>3
      <3> HIDE DEF a
      <3>4. Len(part(i)) \in Nat
        BY <3>1
      <3>5. a + k \in 1..n
        BY <1>0, <3>3, <3>4
      <3>6. QED BY <1>0, <3>2, <3>3, <3>5 DEF ToSet
    <2>2. ASSUME NEW x \in ToSet(input) PROVE \E i \in 1..c : x \in ToSet(runs[i])
      <3>1. PICK p \in 1..n : input[p] = x
        BY <1>0, <2>2 DEF ToSet
      <3> DEFINE q == (p - 1) \div max
                 r == (p - 1) % max
      <3>2. /\ q \in Nat /\ q + 1 \in 1..c /\ r \in 0..(max - 1) /\ r + 1 \in 1..max
            /\ q * max \in Nat /\ p = q * max + (r + 1) /\ (q + 1) - 1 = q
        <4> HIDE DEF n
        <4> QED BY <1>0, ChunkOf DEF c
      <3> HIDE DEF q, r
      <3>3. /\ part(q + 1) \in Seq(Records)
            /\ Len(part(q + 1)) = IF max < n - q * max THEN max ELSE n - q * max
            /\ \A k \in 1..Len(part(q + 1)) : part(q + 1)[k] = input[q * max + k]
        <4>1. q + 1 \in 1..c
          BY <3>2
        <4>2. (q + 1) - 1 = q
          BY <3>2
        <4>3. QED BY <1>3, <4>1, <4>2
      <3>4. r + 1 \in 1..Len(part(q + 1))
        BY <1>0, <3>1, <3>2, <3>3
      <3>5. part(q + 1)[r + 1] = x /\ DOMAIN part(q + 1) = 1..Len(part(q + 1))
        BY <3>1, <3>2, <3>3, <3>4
      <3>6. x \in ToSet(part(q + 1))
        BY <3>4, <3>5 DEF ToSet
      <3>7. QED BY <1>5, <3>2, <3>6
    <2>3. QED BY <2>1, <2>2
  <1>8. QED BY <1>2, <1>5, <1>6, <1>7

----------------------------------------------------------------------------
(* The merge of the runs.                                                  *)

RunPositions(runs) == UNION {{i} \X DOMAIN runs[i] : i \in DOMAIN runs}

Popped(runs, at) == {p \in RunPositions(runs) : p[2] < at[p[1]]}

HeapOK(runs, at, out, n) ==
    /\ at \in [DOMAIN runs -> Nat] /\ \A k \in DOMAIN runs : at[k] >= 1
    /\ Cardinality(Popped(runs, at)) = n
    /\ out \in Seq(Records) /\ InSequence(out)
    /\ ToSet(out) = {runs[p[1]][p[2]] : p \in Popped(runs, at)}
    /\ \A p \in RunPositions(runs) \ Popped(runs, at), x \in ToSet(out) : ~ Before(runs[p[1]][p[2]], x)

\* Sorted runs hold finitely many records, each at a run and a position in it.
LEMMA PositionsFinite ==
    ASSUME NEW runs \in Seq(Seq(Records))
    PROVE  /\ IsFiniteSet(RunPositions(runs)) /\ Cardinality(RunPositions(runs)) \in Nat
           /\ DOMAIN runs = 1..Len(runs) /\ Len(runs) \in Nat
           /\ \A k \in DOMAIN runs : Len(runs[k]) \in Nat /\ DOMAIN runs[k] = 1..Len(runs[k])
                                     /\ \A j \in 1..Len(runs[k]) : runs[k][j] \in Records
           /\ \A p : p \in RunPositions(runs) <=>
                       \E k \in DOMAIN runs : \E j \in 1..Len(runs[k]) : p = <<k, j>>
  <1> DEFINE D == DOMAIN runs
             part(k) == {k} \X DOMAIN runs[k]
             parts == {part(k) : k \in D}
  <1>1. D = 1..Len(runs) /\ Len(runs) \in Nat
    OBVIOUS
  <1>2. \A k \in D : runs[k] \in Seq(Records)
    BY <1>1
  <1>3. \A k \in D : Len(runs[k]) \in Nat /\ DOMAIN runs[k] = 1..Len(runs[k])
                     /\ \A j \in 1..Len(runs[k]) : runs[k][j] \in Records
    BY <1>2
  <1>4. \A k \in D : IsFiniteSet(part(k))
    <2>1. SUFFICES ASSUME NEW k \in D PROVE IsFiniteSet({k} \X DOMAIN runs[k])
      OBVIOUS
    <2>2. IsFiniteSet({k}) /\ IsFiniteSet(1..Len(runs[k]))
      <3>1. Len(runs[k]) \in Nat
        BY <1>3
      <3>2. IsFiniteSet({k})
        BY FS_Singleton
      <3>3. PICK m \in Nat : m = Len(runs[k])
        BY <3>1
      <3>4. IsFiniteSet(1..m)
        BY FS_Interval
      <3>5. QED BY <3>2, <3>3, <3>4
    <2>3. QED BY <1>3, <2>2, FS_Product
  <1>5. IsFiniteSet(parts)
    <2>1. IsFiniteSet(D)
      BY <1>1, FS_Interval
    <2> DEFINE f == [k \in D |-> part(k)]
    <2>2. f \in Surjection(D, parts)
      BY DEF Surjection
    <2> HIDE DEF f, D, parts
    <2>3. QED BY <2>1, <2>2, FS_Surjection
  <1>6. RunPositions(runs) = UNION parts
    BY DEF RunPositions
  <1>7. IsFiniteSet(UNION parts)
    <2>1. \A t \in parts : IsFiniteSet(t)
      BY <1>4
    <2> HIDE DEF parts
    <2>2. QED BY <1>5, <2>1, FS_UNION
  <1>8. \A p : p \in UNION parts <=> \E k \in D : \E j \in 1..Len(runs[k]) : p = <<k, j>>
    BY <1>3
  <1> HIDE DEF parts, D
  <1>9. QED BY <1>1, <1>3, <1>6, <1>7, <1>8, FS_CardinalityType DEF D

(* The heads of the runs that are not used up: one of them is first.       *)
LEMMA LeastHead ==
    ASSUME NEW runs \in Seq(Seq(Records)), NEW at \in [DOMAIN runs -> Nat],
           NEW live, live = {k \in DOMAIN runs : at[k] <= Len(runs[k])}, live # {},
           \A k \in DOMAIN runs : at[k] >= 1
    PROVE  \E k \in live : \A j \in live : ~ Before(runs[j][at[j]], runs[k][at[k]])
  <1> DEFINE S == {runs[k][at[k]] : k \in live}
  <1>1. /\ DOMAIN runs = 1..Len(runs) /\ Len(runs) \in Nat
        /\ \A k \in DOMAIN runs : Len(runs[k]) \in Nat /\ DOMAIN runs[k] = 1..Len(runs[k])
                                  /\ \A j \in 1..Len(runs[k]) : runs[k][j] \in Records
    BY PositionsFinite
  <1>2. \A k \in live : runs[k][at[k]] \in Records
    <2>1. SUFFICES ASSUME NEW k \in live PROVE at[k] \in 1..Len(runs[k]) /\ k \in DOMAIN runs
      BY <1>1
    <2>2. QED BY <1>1
  <1>3. IsFiniteSet(live)
    <2>1. IsFiniteSet(1..Len(runs))
      BY <1>1, FS_Interval
    <2>2. QED BY <1>1, <2>1, FS_Subset
  <1>4. IsFiniteSet(S)
    <2> DEFINE f == [k \in live |-> runs[k][at[k]]]
    <2>1. f \in Surjection(live, S)
      BY DEF Surjection
    <2> HIDE DEF f, S
    <2>2. QED BY <1>3, <2>1, FS_Surjection
  <1>5. PairSet(S) /\ S # {}
    BY <1>2, <1>4 DEF PairSet
  <1>6. \E x \in S : \A y \in S : ~ Before(y, x)
    <2> HIDE DEF S
    <2> QED BY <1>5, FirstRecord
  <1>7. QED BY <1>6

(* While not every position is popped, a run is live.                      *)
LEMMA SomeLive ==
    ASSUME NEW runs \in Seq(Seq(Records)), NEW at \in [DOMAIN runs -> Nat],
           Cardinality(Popped(runs, at)) # Cardinality(RunPositions(runs))
    PROVE  \E k \in DOMAIN runs : at[k] <= Len(runs[k])
  <1>1. PICK p \in RunPositions(runs) : p \notin Popped(runs, at)
    <2>1. SUFFICES ASSUME \A p \in RunPositions(runs) : p \in Popped(runs, at) PROVE FALSE
      OBVIOUS
    <2>2. Popped(runs, at) = RunPositions(runs)
      BY <2>1 DEF Popped
    <2>3. QED BY <2>2
  <1>2. PICK k \in DOMAIN runs : \E j \in 1..Len(runs[k]) : p = <<k, j>>
    BY PositionsFinite
  <1>3. PICK j \in 1..Len(runs[k]) : p = <<k, j>>
    BY <1>2
  <1>4. ~ (j < at[k])
    BY <1>1, <1>3 DEF Popped
  <1>5. Len(runs[k]) \in Nat /\ at[k] \in Nat
    BY PositionsFinite
  <1>6. at[k] <= Len(runs[k])
    BY <1>4, <1>5
  <1>7. QED BY <1>6

(* One more position is popped.                                            *)
Advances(runs, at, more, q) ==
    /\ more \in [DOMAIN runs -> Nat] /\ \A k \in DOMAIN runs : more[k] >= 1
    /\ q \in RunPositions(runs) /\ q \notin Popped(runs, at)
    /\ Popped(runs, more) = Popped(runs, at) \cup {q}
    /\ Cardinality(Popped(runs, more)) = Cardinality(Popped(runs, at)) + 1

\* Taking the head of a run pops that record and no other.
LEMMA PoppedMore ==
    ASSUME NEW runs \in Seq(Seq(Records)), NEW at \in [DOMAIN runs -> Nat],
           \A k \in DOMAIN runs : at[k] >= 1,
           NEW least \in DOMAIN runs, at[least] <= Len(runs[least]),
           NEW more, more = [at EXCEPT ![least] = @ + 1],
           NEW q, q = <<least, at[least]>>
    PROVE  Advances(runs, at, more, q)
  <1>0. \A k \in DOMAIN runs : at[k] \in Nat
    OBVIOUS
  <1>1. /\ more \in [DOMAIN runs -> Nat]
        /\ more[least] = at[least] + 1 /\ \A k \in DOMAIN runs : k # least => more[k] = at[k]
    BY <1>0
  <1>2. \A k \in DOMAIN runs : more[k] >= 1
    BY <1>0, <1>1
  <1>3. /\ \A k \in DOMAIN runs : Len(runs[k]) \in Nat
        /\ IsFiniteSet(RunPositions(runs))
        /\ \A p : p \in RunPositions(runs) <=> \E k \in DOMAIN runs : \E j \in 1..Len(runs[k]) : p = <<k, j>>
    BY PositionsFinite
  <1>4. q \in RunPositions(runs)
    <2>1. at[least] \in 1..Len(runs[least])
      BY <1>0, <1>3
    <2>2. QED BY <1>3, <2>1
  <1>5. q \notin Popped(runs, at)
    BY <1>0 DEF Popped
  <1>6. ASSUME NEW k \in DOMAIN runs, NEW j \in 1..Len(runs[k])
        PROVE  j < more[k] <=> (j < at[k] \/ <<k, j>> = q)
    <2>1. j \in Nat /\ at[k] \in Nat
      BY <1>0
    <2>2. CASE k = least
      <3>1. <<k, j>> = q <=> j = at[k]
        BY <2>2
      <3>2. more[k] = at[k] + 1
        BY <1>1, <2>2
      <3>3. QED BY <2>1, <3>1, <3>2
    <2>3. CASE k # least
      <3>1. <<k, j>> # q
        BY <2>3
      <3>2. more[k] = at[k]
        BY <1>1, <2>3
      <3>3. QED BY <3>1, <3>2
    <2>4. QED BY <2>2, <2>3
  <1>7. \A p : p \in Popped(runs, more) <=> p \in Popped(runs, at) \/ p = q
    <2>1. SUFFICES ASSUME NEW p PROVE p \in Popped(runs, more) <=> p \in Popped(runs, at) \/ p = q
      OBVIOUS
    <2>2. CASE p \in RunPositions(runs)
      <3>1. PICK k \in DOMAIN runs : \E j \in 1..Len(runs[k]) : p = <<k, j>>
        BY <1>3, <2>2
      <3>2. PICK j \in 1..Len(runs[k]) : p = <<k, j>>
        BY <3>1
      <3>3. (p \in Popped(runs, more) <=> j < more[k]) /\ (p \in Popped(runs, at) <=> j < at[k])
        BY <2>2, <3>2 DEF Popped
      <3>4. QED BY <1>6, <3>2, <3>3
    <2>3. CASE p \notin RunPositions(runs)
      BY <1>4, <2>3 DEF Popped
    <2>4. QED BY <2>2, <2>3
  <1>8. Popped(runs, more) = Popped(runs, at) \cup {q}
    BY <1>7
  <1>9. IsFiniteSet(Popped(runs, at))
    <2>1. Popped(runs, at) \subseteq RunPositions(runs)
      BY DEF Popped
    <2>2. QED BY <1>3, <2>1, FS_Subset
  <1>10. Cardinality(Popped(runs, more)) = Cardinality(Popped(runs, at)) + 1
    BY <1>5, <1>8, <1>9, FS_AddElement
  <1>11. QED BY <1>1, <1>2, <1>4, <1>5, <1>8, <1>10 DEF Advances

(* A record that is not before those written is written, unless it was the last. *)
LEMMA WrittenOnce ==
    ASSUME NEW s \in Seq(Records), InSequence(s), NEW record \in Records,
           \A r \in ToSet(s) : ~ Before(record, r),
           NEW t, t = IF s # <<>> /\ Last(s) = record THEN s ELSE Append(s, record)
    PROVE  t \in Seq(Records) /\ InSequence(t) /\ ToSet(t) = ToSet(s) \cup {record}
  <1>1. PICK m \in Nat : m = Len(s)
    OBVIOUS
  <1>2. DOMAIN s = 1..m /\ \A i \in 1..m : s[i] \in ToSet(s) /\ s[i] \in Records
    BY <1>1 DEF ToSet
  <1>3. \A i \in 1..m : Before(s[i], record) \/ s[i] = record
    BY <1>2, BeforeOrder
  <1>4. CASE s # <<>> /\ Last(s) = record
    <2>1. m \in 1..m /\ s[m] = record
      BY <1>1, <1>4 DEF Last
    <2>2. record \in ToSet(s)
      BY <1>2, <2>1
    <2>3. QED BY <1>4, <2>2
  <1>5. CASE ~ (s # <<>> /\ Last(s) = record)
    <2>1. t = Append(s, record)
      BY <1>5
    <2>2. \A i \in 1..m : s[i] # record
      <3>1. SUFFICES ASSUME NEW i \in 1..m, s[i] = record PROVE FALSE
        OBVIOUS
      <3>2. m \in 1..m /\ s # <<>> /\ s[m] # record
        BY <1>1, <1>5, <3>1 DEF Last
      <3>3. i < m
        BY <3>1, <3>2
      <3>4. Before(record, s[m])
        BY <1>2, <3>1, <3>2, <3>3 DEF InSequence
      <3>5. QED BY <1>2, <3>2, <3>4
    <2>3. /\ t \in Seq(Records) /\ Len(t) = m + 1 /\ t[m + 1] = record /\ DOMAIN t = 1..(m + 1)
          /\ \A i \in 1..m : t[i] = s[i]
      BY <1>1, <2>1
    <2>4. \A i \in 1..(m + 1) : i \in 1..m \/ i = m + 1
      OBVIOUS
    <2>5. InSequence(t)
      <3>1. SUFFICES ASSUME NEW i \in 1..(m + 1), NEW j \in 1..(m + 1), i < j PROVE Before(t[i], t[j])
        BY <2>3 DEF InSequence
      <3>2. i \in 1..m
        BY <3>1
      <3>3. CASE j \in 1..m
        <4>1. Before(s[i], s[j])
          BY <1>2, <3>1, <3>2, <3>3 DEF InSequence
        <4>2. QED BY <2>3, <3>2, <3>3, <4>1
      <3>4. CASE j = m + 1
        <4>1. Before(s[i], record)
          BY <1>3, <2>2, <3>2
        <4>2. QED BY <2>3, <3>2, <3>4, <4>1
      <3>5. QED BY <2>4, <3>3, <3>4
    <2>6. ToSet(t) = ToSet(s) \cup {record}
      <3>1. \A r : r \in ToSet(t) <=> \E i \in 1..(m + 1) : t[i] = r
        BY <2>3 DEF ToSet
      <3>2. \A r : r \in ToSet(s) <=> \E i \in 1..m : s[i] = r
        BY <1>2 DEF ToSet
      <3>3. \A i \in 1..m : i \in 1..(m + 1)
        OBVIOUS
      <3>4. m + 1 \in 1..(m + 1)
        OBVIOUS
      <3>5. \A r : r \in ToSet(t) <=> r \in ToSet(s) \/ r = record
        BY <2>3, <2>4, <3>1, <3>2, <3>3, <3>4
      <3>6. QED BY <3>5
    <2>7. QED BY <2>3, <2>5, <2>6
  <1>6. QED BY <1>4, <1>5

\* Writing the least head, unless it repeats the last record written, keeps the merge in order and complete.
LEMMA HeapStep ==
    ASSUME NEW runs \in Seq(Seq(Records)), \A k \in DOMAIN runs : InSequence(runs[k]),
           NEW n \in Nat, NEW at, NEW out, HeapOK(runs, at, out, n),
           NEW least \in DOMAIN runs, at[least] <= Len(runs[least]),
           NEW record, record = runs[least][at[least]],
           \A j \in DOMAIN runs : at[j] <= Len(runs[j]) => ~ Before(runs[j][at[j]], record),
           NEW more, more = [at EXCEPT ![least] = @ + 1],
           NEW longer, longer = IF out # <<>> /\ Last(out) = record THEN out ELSE Append(out, record)
    PROVE  HeapOK(runs, more, longer, n + 1)
  <1>1. /\ at \in [DOMAIN runs -> Nat] /\ \A k \in DOMAIN runs : at[k] >= 1
        /\ Cardinality(Popped(runs, at)) = n
        /\ out \in Seq(Records) /\ InSequence(out)
        /\ ToSet(out) = {runs[p[1]][p[2]] : p \in Popped(runs, at)}
        /\ \A p \in RunPositions(runs) \ Popped(runs, at), r \in ToSet(out) : ~ Before(runs[p[1]][p[2]], r)
    BY DEF HeapOK
  <1>2. /\ \A k \in DOMAIN runs : Len(runs[k]) \in Nat /\ DOMAIN runs[k] = 1..Len(runs[k])
                                  /\ \A j \in 1..Len(runs[k]) : runs[k][j] \in Records
        /\ \A p : p \in RunPositions(runs) => \E k \in DOMAIN runs : \E j \in 1..Len(runs[k]) : p = <<k, j>>
    BY PositionsFinite
  <1>3. PICK q : q = <<least, at[least]>>
    OBVIOUS
  <1>4. /\ more \in [DOMAIN runs -> Nat] /\ \A k \in DOMAIN runs : more[k] >= 1
        /\ q \in RunPositions(runs) /\ q \notin Popped(runs, at)
        /\ Popped(runs, more) = Popped(runs, at) \cup {q}
        /\ Cardinality(Popped(runs, more)) = n + 1
    <2>1. at \in [DOMAIN runs -> Nat] /\ (\A k \in DOMAIN runs : at[k] >= 1) /\ Cardinality(Popped(runs, at)) = n
      BY <1>1
    <2>2. Advances(runs, at, more, q)
      BY <1>3, <2>1, PoppedMore
    <2>3. QED BY <2>1, <2>2 DEF Advances
  <1>5. record \in Records /\ runs[q[1]][q[2]] = record
    <2>1. at[least] \in 1..Len(runs[least])
      BY <1>1, <1>2
    <2>2. QED BY <1>2, <1>3, <2>1
  <1>6. \A r \in ToSet(out) : ~ Before(record, r)
    <2>1. \A p \in RunPositions(runs) \ Popped(runs, at), r \in ToSet(out) : ~ Before(runs[p[1]][p[2]], r)
      BY <1>1
    <2>2. q \in RunPositions(runs) \ Popped(runs, at)
      BY <1>4
    <2>3. QED BY <1>5, <2>1, <2>2, Zenon
  <1>7. longer \in Seq(Records) /\ InSequence(longer) /\ ToSet(longer) = ToSet(out) \cup {record}
    BY <1>1, <1>5, <1>6, WrittenOnce
  <1>8. ToSet(longer) = {runs[p[1]][p[2]] : p \in Popped(runs, more)}
    BY <1>1, <1>4, <1>5, <1>7
  <1>9. \A p \in RunPositions(runs) \ Popped(runs, more), r \in ToSet(longer) : ~ Before(runs[p[1]][p[2]], r)
    <2>1. SUFFICES ASSUME NEW p \in RunPositions(runs), p \notin Popped(runs, at), p # q,
                          NEW r \in ToSet(out) \cup {record}
                   PROVE  ~ Before(runs[p[1]][p[2]], r)
      BY <1>4, <1>7
    <2>2. CASE r \in ToSet(out)
      BY <1>1, <2>1, <2>2
    <2>3. CASE r = record
      <3>1. PICK k \in DOMAIN runs : \E j \in 1..Len(runs[k]) : p = <<k, j>>
        BY <1>2
      <3>2. PICK j \in 1..Len(runs[k]) : p = <<k, j>>
        BY <3>1
      <3>3. ~ (j < at[k]) /\ at[k] \in Nat /\ at[k] >= 1 /\ Len(runs[k]) \in Nat
        BY <1>1, <1>2, <2>1, <3>2 DEF Popped
      <3>4. at[k] <= Len(runs[k]) /\ at[k] \in 1..Len(runs[k]) /\ (j = at[k] \/ at[k] < j)
        BY <3>3
      <3>5. ~ Before(runs[k][at[k]], record)
        BY <3>4
      <3>6. runs[k][at[k]] \in Records /\ runs[k][j] \in Records
        BY <1>2, <3>4
      <3>7. runs[k][j] = runs[k][at[k]] \/ Before(runs[k][at[k]], runs[k][j])
        BY <1>2, <3>4 DEF InSequence
      <3>8. ~ Before(runs[k][j], record)
        BY <1>5, <3>5, <3>6, <3>7, BeforeOrder
      <3>9. QED BY <2>3, <3>2, <3>8
    <2>4. QED BY <2>1, <2>2, <2>3
  <1>10. QED BY <1>4, <1>7, <1>8, <1>9 DEF HeapOK

(* The runs are merged into the order of all their records.                *)
PopOne(runs, x) ==
    LET live == {k \in DOMAIN runs : x.at[k] <= Len(runs[k])}
        least == CHOOSE k \in live : \A j \in live :
                     ~ Before(runs[j][x.at[j]], runs[k][x.at[k]])
        record == runs[least][x.at[least]]
    IN [at |-> [x.at EXCEPT ![least] = @ + 1],
        out |-> IF x.out # <<>> /\ Last(x.out) = record
                THEN x.out ELSE Append(x.out, record)]

HeapWalk(runs, input, max, total) ==
    \E f : /\ f[0] = [at |-> [i \in DOMAIN runs |-> 1], out |-> <<>>]
           /\ \A i \in 1..total : f[i] = PopOne(runs, f[i - 1])
           /\ ExternalSort(input, max) = f[total].out

\* ExternalSort pops one record of its runs at every step.
LEMMA HeapSteps ==
    ASSUME NEW input, NEW max, Cardinality(RunPositions(SortedRuns(input, max))) \in Nat
    PROVE  HeapWalk(SortedRuns(input, max), input, max, Cardinality(RunPositions(SortedRuns(input, max))))
  <1> DEFINE runs == SortedRuns(input, max)
             total == Cardinality(UNION {{i} \X DOMAIN runs[i] : i \in DOMAIN runs})
  <1>0. total \in Nat /\ total = Cardinality(RunPositions(runs))
    BY DEF RunPositions
  <1> DEFINE B(x, i) == LET live == {k \in DOMAIN runs : x.at[k] <= Len(runs[k])}
                            least == CHOOSE k \in live : \A j \in live :
                                         ~ Before(runs[j][x.at[j]], runs[k][x.at[k]])
                            record == runs[least][x.at[least]]
                        IN [at |-> [x.at EXCEPT ![least] = @ + 1],
                            out |-> IF x.out # <<>> /\ Last(x.out) = record
                                    THEN x.out ELSE Append(x.out, record)]
             f == CHOOSE g : g = [i \in 0..total |-> IF i = 0 THEN [at |-> [k \in DOMAIN runs |-> 1], out |-> <<>>] ELSE B(g[i - 1], i)]
             Solves(g, m) == g = [i \in 0..m |-> IF i = 0 THEN [at |-> [k \in DOMAIN runs |-> 1], out |-> <<>>] ELSE B(g[i - 1], i)]
             T == {m \in 0..total : \E g : Solves(g, m)}
  <1>u1. ExternalSort(input, max) = f[total].out
    BY Zenon DEF ExternalSort
  <1> HIDE DEF B, runs, total
  <1>u2. 0 \in T
    <2> DEFINE g == [i \in 0..0 |-> [at |-> [k \in DOMAIN runs |-> 1], out |-> <<>>]]
    <2>1. 0 \in 0..total /\ \A i \in 0..0 : i = 0
      BY <1>0
    <2>2. Solves(g, 0)
      BY <2>1
    <2> HIDE DEF g, Solves
    <2>3. QED BY <2>1, <2>2
  <1>u3. \A m \in 0..(total - 1) : m \in T => m + 1 \in T
    <2>1. SUFFICES ASSUME NEW m \in 0..(total - 1), m \in T PROVE m + 1 \in T
      OBVIOUS
    <2>2. PICK g : Solves(g, m)
      BY <2>1
    <2> DEFINE h == [i \in 0..(m + 1) |-> IF i = m + 1 THEN B(g[m], m + 1) ELSE g[i]]
    <2>3. m \in Nat /\ m + 1 \in 0..total /\ m + 1 # 0 /\ (m + 1) - 1 = m
      BY <1>0
    <2>4. ASSUME NEW i \in 0..(m + 1) PROVE h[i] = IF i = 0 THEN [at |-> [k \in DOMAIN runs |-> 1], out |-> <<>>] ELSE B(h[i - 1], i)
      <3>1. CASE i = m + 1
        <4>1. m \in 0..(m + 1) /\ m # m + 1
          BY <2>3
        <4>2. h[m] = g[m] /\ h[m + 1] = B(g[m], m + 1)
          BY <2>3, <4>1
        <4> HIDE DEF h
        <4>3. QED BY <2>3, <3>1, <4>2, Zenon
      <3>2. CASE i # m + 1
        <4>1. i \in 0..m /\ (i # 0 => i - 1 \in 0..(m + 1) /\ i - 1 # m + 1)
          BY <2>3, <3>2
        <4>2. h[i] = g[i] /\ (i # 0 => h[i - 1] = g[i - 1])
          BY <3>2, <4>1
        <4>3. g[i] = IF i = 0 THEN [at |-> [k \in DOMAIN runs |-> 1], out |-> <<>>] ELSE B(g[i - 1], i)
          BY <2>2, <4>1, Zenon
        <4> HIDE DEF h
        <4>4. CASE i = 0
          BY <4>2, <4>3, <4>4, Zenon
        <4>5. CASE i # 0
          BY <4>2, <4>3, <4>5, Zenon
        <4>6. QED BY <4>4, <4>5, Zenon
      <3>3. QED BY <3>1, <3>2, Zenon
    <2>5. Solves(h, m + 1)
      <3>1. h = [i \in 0..(m + 1) |-> h[i]]
        OBVIOUS
      <3> HIDE DEF h
      <3>2. QED BY <2>4, <3>1, Zenon
    <2> HIDE DEF h, Solves
    <2>6. QED BY <2>3, <2>5
  <1>u4. total \in T
    <2> HIDE DEF T
    <2>1. 0..total \subseteq T
      BY <1>0, <1>u2, <1>u3, UpTo
    <2>2. QED BY <1>0, <2>1
  <1>u5. Solves(f, total)
    <2>1. \E g : Solves(g, total)
      BY <1>u4, Zenon
    <2>2. QED BY <2>1, Zenon
  <1> HIDE DEF f
  <1>u6. f[0] = [at |-> [k \in DOMAIN runs |-> 1], out |-> <<>>]
    <2>1. 0 \in 0..total
      BY <1>0
    <2>2. QED BY <1>u5, <2>1, Zenon
  <1>u7. \A i \in 1..total : f[i] = B(f[i - 1], i)
    <2>1. \A i \in 1..total : i \in 0..total /\ i # 0
      BY <1>0
    <2>2. QED BY <1>u5, <2>1, Zenon
  <1> HIDE DEF Solves, T
  <1>1. QED BY <1>0, <1>u1, <1>u6, <1>u7, Zenon DEF HeapWalk, PopOne, B, runs

(* What is popped before anything is popped.                               *)
LEMMA HeapStart ==
    ASSUME NEW runs \in Seq(Seq(Records)), NEW at, at = [k \in DOMAIN runs |-> 1]
    PROVE  HeapOK(runs, at, <<>>, 0)
  <1>1. at \in [DOMAIN runs -> Nat] /\ \A k \in DOMAIN runs : at[k] = 1 /\ at[k] >= 1
    OBVIOUS
  <1>2. Popped(runs, at) = {}
    <2>1. SUFFICES ASSUME NEW p \in RunPositions(runs), p[2] < at[p[1]] PROVE FALSE
      BY DEF Popped
    <2>2. PICK k \in DOMAIN runs : \E j \in 1..Len(runs[k]) : p = <<k, j>>
      BY PositionsFinite
    <2>3. PICK j \in 1..Len(runs[k]) : p = <<k, j>>
      BY <2>2
    <2>4. j < 1
      BY <1>1, <2>1, <2>3
    <2>5. QED BY <2>4
  <1>3. Cardinality(Popped(runs, at)) = 0
    BY <1>2, FS_EmptySet
  <1>4. <<>> \in Seq(Records) /\ InSequence(<<>>) /\ ToSet(<<>>) = {}
    BY DEF InSequence, ToSet
  <1>5. QED BY <1>1, <1>2, <1>3, <1>4 DEF HeapOK

(* What has been written when everything is popped.                        *)
LEMMA HeapEnd ==
    ASSUME NEW runs \in Seq(Seq(Records)), NEW at, NEW out,
           HeapOK(runs, at, out, Cardinality(RunPositions(runs)))
    PROVE  out \in Seq(Records) /\ InSequence(out) /\ ToSet(out) = UNION {ToSet(runs[i]) : i \in DOMAIN runs}
  <1>1. /\ Cardinality(Popped(runs, at)) = Cardinality(RunPositions(runs))
        /\ out \in Seq(Records) /\ InSequence(out)
        /\ ToSet(out) = {runs[p[1]][p[2]] : p \in Popped(runs, at)}
    BY DEF HeapOK
  <1>2. Popped(runs, at) = RunPositions(runs)
    <2>1. Popped(runs, at) \subseteq RunPositions(runs)
      BY DEF Popped
    <2>2. IsFiniteSet(RunPositions(runs))
      BY PositionsFinite
    <2>3. QED BY <1>1, <2>1, <2>2, FS_Subset
  <1>3. ToSet(out) = UNION {ToSet(runs[i]) : i \in DOMAIN runs}
    <2>1. \A p : p \in RunPositions(runs) <=> \E k \in DOMAIN runs : \E j \in DOMAIN runs[k] : p = <<k, j>>
      BY DEF RunPositions
    <2>2. \A r : (\E p \in RunPositions(runs) : r = runs[p[1]][p[2]])
                   <=> \E k \in DOMAIN runs : \E j \in DOMAIN runs[k] : r = runs[k][j]
      <3>1. SUFFICES ASSUME NEW r PROVE (\E p \in RunPositions(runs) : r = runs[p[1]][p[2]])
                   <=> \E k \in DOMAIN runs : \E j \in DOMAIN runs[k] : r = runs[k][j]
        OBVIOUS
      <3>2. ASSUME NEW p \in RunPositions(runs), r = runs[p[1]][p[2]]
            PROVE  \E k \in DOMAIN runs : \E j \in DOMAIN runs[k] : r = runs[k][j]
        <4>1. PICK k \in DOMAIN runs : \E j \in DOMAIN runs[k] : p = <<k, j>>
          BY <2>1
        <4>2. QED BY <3>2, <4>1
      <3>3. ASSUME NEW k \in DOMAIN runs, NEW j \in DOMAIN runs[k], r = runs[k][j]
            PROVE  \E p \in RunPositions(runs) : r = runs[p[1]][p[2]]
        <4>1. <<k, j>> \in RunPositions(runs) /\ <<k, j>>[1] = k /\ <<k, j>>[2] = j
          BY <2>1
        <4>2. QED BY <3>3, <4>1
      <3>4. QED BY <3>2, <3>3
    <2>3. \A r : r \in ToSet(out) <=> \E p \in RunPositions(runs) : r = runs[p[1]][p[2]]
      BY <1>1, <1>2
    <2>4. \A r : r \in UNION {ToSet(runs[i]) : i \in DOMAIN runs}
                   <=> \E k \in DOMAIN runs : \E j \in DOMAIN runs[k] : r = runs[k][j]
      BY DEF ToSet
    <2>5. QED BY <2>2, <2>3, <2>4
  <1>4. QED BY <1>1, <1>3

(* However large its runs are, the external sort (external.rs) puts every record of its input once, in order. *)
THEOREM SortedInput ==
    ASSUME NEW input \in Seq(Records), NEW max \in Nat \ {0}
    PROVE  PairSet(ToSet(input)) /\ ExternalSort(input, max) = Sorted(ToSet(input))
  <1> DEFINE runs == SortedRuns(input, max)
             total == Cardinality(RunPositions(runs))
  <1>1. /\ runs \in Seq(Seq(Records)) /\ \A i \in 1..Len(runs) : InSequence(runs[i])
        /\ UNION {ToSet(runs[i]) : i \in 1..Len(runs)} = ToSet(input)
    BY RunsCover
  <1>2. DOMAIN runs = 1..Len(runs)
    BY <1>1
  <1>3. total \in Nat
    <2> HIDE DEF runs
    <2> QED BY <1>1, PositionsFinite
  <1>4. HeapWalk(runs, input, max, total)
    BY <1>3, HeapSteps
  <1> HIDE DEF runs, total
  <1>5. PICK f : /\ f[0] = [at |-> [i \in DOMAIN runs |-> 1], out |-> <<>>]
                 /\ \A i \in 1..total : f[i] = PopOne(runs, f[i - 1])
                 /\ ExternalSort(input, max) = f[total].out
    BY <1>4, Zenon DEF HeapWalk
  <1> DEFINE T == {n \in 0..total : HeapOK(runs, f[n].at, f[n].out, n)}
  <1>6. 0 \in T
    <2>1. HeapOK(runs, [i \in DOMAIN runs |-> 1], <<>>, 0)
      BY <1>1, HeapStart
    <2>2. f[0].at = [i \in DOMAIN runs |-> 1] /\ f[0].out = <<>>
      BY <1>5
    <2>3. QED BY <1>3, <2>1, <2>2
  <1>7. \A n \in 0..(total - 1) : n \in T => n + 1 \in T
    <2>1. SUFFICES ASSUME NEW n \in 0..(total - 1), HeapOK(runs, f[n].at, f[n].out, n)
                   PROVE  n + 1 \in T
      OBVIOUS
    <2>2. n \in Nat /\ n + 1 \in 1..total /\ n + 1 \in 0..total /\ (n + 1) - 1 = n /\ n # total
      BY <1>3
    <2>3. PICK x : x = f[n]
      OBVIOUS
    <2> DEFINE at == x.at
               out == x.out
               live == {k \in DOMAIN runs : at[k] <= Len(runs[k])}
               least == CHOOSE k \in live : \A j \in live : ~ Before(runs[j][at[j]], runs[k][at[k]])
               record == runs[least][at[least]]
               more == [at EXCEPT ![least] = @ + 1]
               longer == IF out # <<>> /\ Last(out) = record THEN out ELSE Append(out, record)
    <2>4. f[n + 1] = PopOne(runs, x)
      BY <1>5, <2>2, <2>3
    <2>6. f[n + 1] = [at |-> more, out |-> longer]
      BY <2>4 DEF PopOne
    <2>5. HeapOK(runs, at, out, n)
      BY <2>1, <2>3
    <2> HIDE DEF at, out
    <2>7. at \in [DOMAIN runs -> Nat] /\ (\A k \in DOMAIN runs : at[k] >= 1) /\ Cardinality(Popped(runs, at)) = n
      BY <2>5 DEF HeapOK
    <2>8. live # {}
      <3>1. \E k \in DOMAIN runs : at[k] <= Len(runs[k])
        BY <1>1, <2>2, <2>7, SomeLive DEF total
      <3>2. QED BY <3>1
    <2>9. \E k \in live : \A j \in live : ~ Before(runs[j][at[j]], runs[k][at[k]])
      <3>1. live = {k \in DOMAIN runs : at[k] <= Len(runs[k])}
        OBVIOUS
      <3> HIDE DEF live
      <3>2. QED BY <1>1, <2>7, <2>8, <3>1, LeastHead
    <2>10. least \in live /\ \A j \in live : ~ Before(runs[j][at[j]], record)
      BY <2>9
    <2>11. least \in DOMAIN runs /\ at[least] <= Len(runs[least])
           /\ \A j \in DOMAIN runs : at[j] <= Len(runs[j]) => ~ Before(runs[j][at[j]], record)
      BY <2>10
    <2>12. HeapOK(runs, more, longer, n + 1)
      <3>1. more = [at EXCEPT ![least] = @ + 1] /\ record = runs[least][at[least]]
            /\ longer = IF out # <<>> /\ Last(out) = record THEN out ELSE Append(out, record)
        OBVIOUS
      <3>2. \A k \in DOMAIN runs : InSequence(runs[k])
        BY <1>1, <1>2
      <3> HIDE DEF least, record, more, longer, live
      <3>3. QED BY <1>1, <2>2, <2>5, <2>11, <3>1, <3>2, HeapStep
    <2> HIDE DEF more, longer
    <2>13. f[n + 1].at = more /\ f[n + 1].out = longer
      BY <2>6
    <2>14. QED BY <2>2, <2>12, <2>13
  <1>8. HeapOK(runs, f[total].at, f[total].out, total)
    <2> HIDE DEF T
    <2>1. 0..total \subseteq T
      BY <1>3, <1>6, <1>7, UpTo
    <2>2. total \in T
      BY <1>3, <2>1
    <2>3. QED BY <2>2 DEF T
  <1>9. LET out == ExternalSort(input, max) IN out \in Seq(Records) /\ InSequence(out) /\ ToSet(out) = ToSet(input)
    <2>1. PICK at, out : at = f[total].at /\ out = f[total].out
      OBVIOUS
    <2>2. HeapOK(runs, at, out, Cardinality(RunPositions(runs)))
      BY <1>8, <2>1 DEF total
    <2>3. out \in Seq(Records) /\ InSequence(out) /\ ToSet(out) = UNION {ToSet(runs[i]) : i \in DOMAIN runs}
      BY <1>1, <2>2, HeapEnd
    <2>4. QED BY <1>1, <1>2, <1>5, <2>1, <2>3
  <1>10. QED BY <1>9, SequenceIsSorted

(* Sets whose members correspond one to one have as many of them.          *)
LEMMA SameSize ==
    ASSUME NEW S, IsFiniteSet(S), NEW T, NEW f \in [S -> T], \A x, y \in S : f[x] = f[y] => x = y,
           \A y \in T : \E x \in S : f[x] = y
    PROVE  IsFiniteSet(T) /\ Cardinality(T) = Cardinality(S)
  <1>1. f \in Bijection(S, T)
    BY DEF Bijection, Injection, Surjection, IsInjective
  <1>2. ExistsBijection(S, T)
    BY <1>1 DEF ExistsBijection
  <1>3. QED BY <1>2, FS_Bijection

(* A set of positions that holds with a position all those before it.      *)
LEMMA PrefixCount ==
    ASSUME NEW n \in Nat, NEW T \in SUBSET (1..n), \A i \in T, j \in 1..n : j < i => j \in T
    PROVE  Cardinality(T) \in 0..n /\ \A i \in 1..n : i \in T <=> i <= Cardinality(T)
  <1> DEFINE B == {i \in 1..(n + 1) : i \notin T}
  <1>1. n + 1 \in B /\ B \in SUBSET Nat
    OBVIOUS
  <1>2. PICK x \in B : \A y \in B : x <= y
    <2> HIDE DEF B
    <2> QED BY <1>1, LeastNumber
  <1>3. x \in 1..(n + 1) /\ x \notin T
    BY <1>2
  <1>4. \A i \in 1..n : i \in T <=> i <= x - 1
    <2>1. SUFFICES ASSUME NEW i \in 1..n PROVE i \in T <=> i <= x - 1
      OBVIOUS
    <2>2. ASSUME i <= x - 1 PROVE i \in T
      BY <1>2, <1>3, <2>2
    <2>3. ASSUME i \in T PROVE i <= x - 1
      <3>1. i # x
        BY <1>3, <2>3
      <3>2. ~ (x < i)
        BY <1>3, <2>3
      <3>3. QED BY <1>3, <3>1, <3>2
    <2>4. QED BY <2>2, <2>3
  <1>5. T = 1..(x - 1)
    <2>1. \A i : i \in 1..(x - 1) => i \in 1..n
      BY <1>3
    <2>2. \A i \in 1..n : i \in 1..(x - 1) <=> i <= x - 1
      BY <1>3
    <2>3. \A i : i \in T <=> i \in 1..(x - 1)
      BY <1>4, <2>1, <2>2
    <2>4. QED BY <2>3
  <1>6. Cardinality(T) = x - 1
    <2>1. x - 1 \in Nat
      BY <1>3
    <2>2. Cardinality(1..(x - 1)) = x - 1
      <3> DEFINE k == x - 1
      <3> HIDE DEF k
      <3>1. Cardinality(1..k) = IF 1 > k THEN 0 ELSE k - 1 + 1
        BY <2>1, FS_Interval DEF k
      <3>2. k \in Nat
        BY <2>1 DEF k
      <3>3. Cardinality(1..k) = k
        BY <3>1, <3>2
      <3>4. QED BY <3>3 DEF k
    <2>3. QED BY <1>5, <2>2
  <1>7. QED BY <1>3, <1>4, <1>6

(* The numbers of the body after position a and up to position e increase. *)
RunAt(body, a, e) ==
    /\ body \in Seq(Int) /\ a \in 0..Len(body) /\ e \in a..Len(body)
    /\ \A i, j \in (a + 1)..e : i < j => body[i] < body[j]

(* What is left of a run is the ascending order of its members.            *)
LEMMA RunAscending ==
    ASSUME NEW body, NEW a, NEW e, RunAt(body, a, e), NEW c \in a..e
    PROVE  LET members == {body[i] : i \in (c + 1)..e}
           IN /\ IdSet(members) /\ Cardinality(members) = e - c
              /\ SubSeq(body, c + 1, e) = Ascending(members)
  <1> DEFINE part == SubSeq(body, c + 1, e)
             members == {body[i] : i \in (c + 1)..e}
  <1>1. /\ body \in Seq(Int) /\ Len(body) \in Nat /\ a \in 0..Len(body) /\ e \in a..Len(body)
        /\ c \in 0..Len(body) /\ e \in c..Len(body) /\ e - c \in Nat
        /\ \A i, j \in (a + 1)..e : i < j => body[i] < body[j]
    BY DEF RunAt
  <1>2. part \in Seq(Int) /\ Len(part) = e - c /\ \A k \in 1..(e - c) : part[k] = body[c + k]
    BY <1>1, PartOf
  <1>3. DOMAIN part = 1..(e - c)
    BY <1>2
  <1> HIDE DEF part
  <1>4. \A k \in 1..(e - c) : c + k \in (c + 1)..e /\ c + k \in (a + 1)..e
    BY <1>1
  <1>5. Increasing(part)
    <2>1. SUFFICES ASSUME NEW i \in 1..(e - c), NEW j \in 1..(e - c), i < j PROVE part[i] < part[j]
      BY <1>3 DEF Increasing
    <2>2. c + i < c + j
      BY <1>1, <2>1
    <2>3. body[c + i] < body[c + j]
      BY <1>1, <1>4, <2>2
    <2>4. QED BY <1>2, <2>3
  <1>6. ToSet(part) = members
    <2>1. \A i \in (c + 1)..e : i - c \in 1..(e - c) /\ c + (i - c) = i
      BY <1>1
    <2>2. ASSUME NEW x \in members PROVE x \in ToSet(part)
      <3>1. PICK i \in (c + 1)..e : x = body[i]
        OBVIOUS
      <3>2. part[i - c] = x /\ i - c \in DOMAIN part
        BY <1>2, <1>3, <2>1, <3>1
      <3>3. QED BY <3>2 DEF ToSet
    <2>3. ASSUME NEW x \in ToSet(part) PROVE x \in members
      <3>1. PICK k \in 1..(e - c) : x = part[k]
        BY <1>3 DEF ToSet
      <3>2. QED BY <1>2, <1>4, <3>1
    <2>4. QED BY <2>2, <2>3
  <1> HIDE DEF members
  <1>7. IdSet(members) /\ Cardinality(members) = e - c /\ part = Ascending(members)
    BY <1>2, <1>5, <1>6, IncreasingIsAscending
  <1>8. QED BY <1>7 DEF part, members

(* The binary search of a run.                                             *)
LEMMA RunLowerBound ==
    ASSUME NEW body, NEW a, NEW e, RunAt(body, a, e), NEW row \in Int
    PROVE  LET at == a + Cardinality({i \in a..(e - 1) : body[i + 1] < row})
           IN at \in a..e /\ \A i \in (a + 1)..e : body[i] < row <=> i <= at
  <1> DEFINE n == e - a
             S == {i \in a..(e - 1) : body[i + 1] < row}
             T == {k \in 1..n : body[a + k] < row}
             f == [k \in T |-> a + k - 1]
  <1>1. /\ body \in Seq(Int) /\ Len(body) \in Nat /\ a \in Nat /\ e \in Nat /\ a <= e /\ e <= Len(body) /\ n \in Nat
        /\ \A i, j \in (a + 1)..e : i < j => body[i] < body[j]
    BY DEF RunAt
  <1>2. \A i \in (a + 1)..e : body[i] \in Int
    <2>1. \A i \in (a + 1)..e : i \in 1..Len(body)
      BY <1>1
    <2>2. QED BY <1>1, <2>1
  <1>3. \A k \in 1..n : a + k \in (a + 1)..e /\ a + k - 1 \in a..(e - 1) /\ (a + k - 1) + 1 = a + k
    BY <1>1
  <1>4. \A i \in T, j \in 1..n : j < i => j \in T
    <2>1. SUFFICES ASSUME NEW i \in T, NEW j \in 1..n, j < i PROVE body[a + j] < row
      OBVIOUS
    <2>2. a + j < a + i
      BY <1>1, <2>1
    <2>3. body[a + j] < body[a + i]
      BY <1>1, <1>3, <2>2
    <2>4. QED BY <1>2, <1>3, <2>3
  <1>5. Cardinality(T) \in 0..n /\ \A k \in 1..n : k \in T <=> k <= Cardinality(T)
    <2>1. T \in SUBSET (1..n)
      OBVIOUS
    <2> HIDE DEF T, n
    <2>2. QED BY <1>1, <1>4, <2>1, PrefixCount
  <1>6. IsFiniteSet(T)
    <2>1. T \subseteq 1..n
      OBVIOUS
    <2> HIDE DEF T, n
    <2>2. IsFiniteSet(1..n)
      BY <1>1, FS_Interval
    <2>3. QED BY <2>1, <2>2, FS_Subset
  <1>7. IsFiniteSet(S) /\ Cardinality(S) = Cardinality(T)
    <2>1. f \in [T -> S]
      BY <1>3
    <2>2. \A x, y \in T : f[x] = f[y] => x = y
      BY <1>1
    <2>3. ASSUME NEW i \in S PROVE \E k \in T : f[k] = i
      <3>1. i - a + 1 \in 1..n /\ a + (i - a + 1) = i + 1 /\ a + (i - a + 1) - 1 = i
        BY <1>1
      <3>2. i - a + 1 \in T
        BY <3>1
      <3>3. QED BY <3>1, <3>2
    <2> HIDE DEF f, S, T
    <2>4. QED BY <1>6, <2>1, <2>2, <2>3, SameSize
  <1> DEFINE m == Cardinality(T)
  <1>9. m \in Nat /\ m <= n /\ \A k \in 1..n : body[a + k] < row <=> k <= m
    BY <1>5
  <1> HIDE DEF m, T, S, n
  <1>10. a + m \in a..e
    BY <1>1, <1>9 DEF n
  <1>11. ASSUME NEW i \in (a + 1)..e PROVE body[i] < row <=> i <= a + m
    <2>1. i - a \in 1..n /\ a + (i - a) = i
      BY <1>1 DEF n
    <2>2. body[i] < row <=> i - a <= m
      BY <1>9, <2>1
    <2>3. QED BY <1>1, <1>9, <2>2
  <1>12. QED BY <1>7, <1>10, <1>11 DEF m, S

\* The entries of two sequences joined.
LEMMA JoinEntries ==
    ASSUME NEW S, NEW s \in Seq(S), NEW t \in Seq(S)
    PROVE  /\ s \o t \in Seq(S) /\ Len(s \o t) = Len(s) + Len(t)
           /\ \A i \in 1..Len(s) : (s \o t)[i] = s[i]
           /\ \A j \in 1..Len(t) : (s \o t)[Len(s) + j] = t[j]
  <1>1. s \o t \in Seq(S) /\ Len(s \o t) = Len(s) + Len(t)
    OBVIOUS
  <1>2. \A i \in 1..Len(s) : (s \o t)[i] = s[i]
    OBVIOUS
  <1>3. \A j \in 1..Len(t) : (s \o t)[Len(s) + j] = t[j]
    OBVIOUS
  <1>4. QED BY <1>1, <1>2, <1>3

(* The first position of a sequence that passes a test.                    *)
LEMMA FirstPosition ==
    ASSUME NEW n \in Nat, NEW I \in SUBSET (1..n), I # {}
    PROVE  Min(I) \in I /\ \A i \in I : Min(I) <= i
  <1>1. I \in SUBSET Nat
    OBVIOUS
  <1>2. \E x \in I : \A y \in I : x <= y
    BY <1>1, LeastNumber
  <1>3. QED BY <1>2, Zenon DEF Min

----------------------------------------------------------------------------
(* A list merged with the seed.                                            *)

Merging(g, at, seed, body, e) ==
    LET i == at[1]
        j == at[2]
    IN IF i > Len(seed) \/ j >= e THEN <<>>
       ELSE IF seed[i] < body[j + 1] THEN g[<<i + 1, j>>]
       ELSE IF seed[i] > body[j + 1] THEN g[<<i, j + 1>>]
       ELSE <<seed[i]>> \o g[<<i + 1, j + 1>>]

MergePlaces(seed, e) == (1..(Len(seed) + 1)) \X (0..e)

Merges(g, seed, body, e) ==
    \A at \in MergePlaces(seed, e) : g[at] = Merging(g, at, seed, body, e)

(* The merge stops: each of its steps reads on in the seed or in the list. *)
LEMMA MergeStops ==
    ASSUME NEW seed \in Seq(Int), NEW body, NEW e \in Nat,
           NEW m, m = (CHOOSE g : g = [at \in MergePlaces(seed, e) |-> Merging(g, at, seed, body, e)])
    PROVE  Merges(m, seed, body, e)
  <1> DEFINE L == Len(seed)
             S == MergePlaces(seed, e)
             V == Seq(Int)
             rank == [at \in S |-> (L + 1 - at[1]) + (e - at[2])]
             Step == [x \in S \X [S -> V] |-> Merging(x[2], x[1], seed, body, e)]
  <1>1. L \in Nat /\ \A i \in 1..L : seed[i] \in Int
    OBVIOUS
  <1>2. S = (1..(L + 1)) \X (0..e)
    BY DEF MergePlaces
  <1> HIDE DEF S, L
  <1>3. ASSUME NEW at \in S
        PROVE  /\ at[1] \in 1..(L + 1) /\ at[2] \in 0..e
               /\ ~ (at[1] > L \/ at[2] >= e) =>
                     /\ <<at[1] + 1, at[2]>> \in S /\ <<at[1], at[2] + 1>> \in S
                     /\ <<at[1] + 1, at[2] + 1>> \in S /\ at[1] \in 1..L
    BY <1>1, <1>2
  <1>4. rank \in [S -> Nat]
    <2>1. ASSUME NEW at \in S PROVE (L + 1 - at[1]) + (e - at[2]) \in Nat
      <3>1. L \in Nat /\ at[1] \in 1..(L + 1) /\ at[2] \in 0..e
        BY <1>1, <1>3
      <3>2. QED BY SMTT(30), <3>1
    <2>2. QED BY <2>1
  <1>5. ASSUME NEW at \in S, ~ (at[1] > L \/ at[2] >= e)
        PROVE  /\ rank[<<at[1] + 1, at[2]>>] < rank[at] /\ rank[<<at[1], at[2] + 1>>] < rank[at]
               /\ rank[<<at[1] + 1, at[2] + 1>>] < rank[at]
    <2>1. L \in Nat /\ at[1] \in 1..(L + 1) /\ at[2] \in 0..e
      BY <1>1, <1>3
    <2>2. /\ <<at[1] + 1, at[2]>> \in S /\ <<at[1], at[2] + 1>> \in S /\ <<at[1] + 1, at[2] + 1>> \in S
      BY <1>3, <1>5
    <2>3. \A i, j : <<i, j>> \in S => rank[<<i, j>>] = (L + 1 - i) + (e - j)
      OBVIOUS
    <2>4. rank[at] = (L + 1 - at[1]) + (e - at[2])
      OBVIOUS
    <2> HIDE DEF rank
    <2>5. /\ rank[<<at[1] + 1, at[2]>>] = (L + 1 - (at[1] + 1)) + (e - at[2])
          /\ rank[<<at[1], at[2] + 1>>] = (L + 1 - at[1]) + (e - (at[2] + 1))
          /\ rank[<<at[1] + 1, at[2] + 1>>] = (L + 1 - (at[1] + 1)) + (e - (at[2] + 1))
      BY <2>2, <2>3
    <2> DEFINE i == at[1]
               j == at[2]
    <2>6. L \in Nat /\ i \in Nat /\ j \in Nat
      BY <2>1
    <2> HIDE DEF i, j
    <2>7. /\ (L + 1 - (i + 1)) + (e - j) < (L + 1 - i) + (e - j)
          /\ (L + 1 - i) + (e - (j + 1)) < (L + 1 - i) + (e - j)
          /\ (L + 1 - (i + 1)) + (e - (j + 1)) < (L + 1 - i) + (e - j)
      BY <2>6
    <2>8. QED BY <2>4, <2>5, <2>7, Zenon DEF i, j
  <1> HIDE DEF rank
  <1>6. ASSUME NEW at \in S, NEW g \in [S -> V] PROVE Merging(g, at, seed, body, e) \in V
    <2>1. CASE at[1] > L \/ at[2] >= e
      BY <2>1 DEF Merging, L
    <2>2. CASE ~ (at[1] > L \/ at[2] >= e)
      <3>1. /\ g[<<at[1] + 1, at[2]>>] \in V /\ g[<<at[1], at[2] + 1>>] \in V
            /\ g[<<at[1] + 1, at[2] + 1>>] \in V
        BY <1>3, <2>2
      <3>2. <<seed[at[1]]>> \in V
        <4>1. seed[at[1]] \in Int
          BY <1>1, <1>3, <2>2
        <4>2. QED BY <4>1
      <3>3. <<seed[at[1]]>> \o g[<<at[1] + 1, at[2] + 1>>] \in V
        BY <3>1, <3>2
      <3> HIDE DEF V
      <3>4. QED BY <2>2, <3>1, <3>3 DEF Merging, L
    <2>3. QED BY <2>1, <2>2
  <1> HIDE DEF V
  <1>7. Step \in [S \X [S -> V] -> V]
    <2>1. ASSUME NEW x \in S \X [S -> V] PROVE Merging(x[2], x[1], seed, body, e) \in V
      <3>1. x[1] \in S /\ x[2] \in [S -> V]
        OBVIOUS
      <3>2. QED BY <1>6, <3>1
    <2>2. QED BY <2>1, Zenon
  <1>8. \A x \in S, g \in [S -> V] : Step[<<x, g>>] = Merging(g, x, seed, body, e)
    <2>1. SUFFICES ASSUME NEW x \in S, NEW g \in [S -> V] PROVE Step[<<x, g>>] = Merging(g, x, seed, body, e)
      OBVIOUS
    <2>2. <<x, g>> \in S \X [S -> V] /\ <<x, g>>[1] = x /\ <<x, g>>[2] = g
      OBVIOUS
    <2>3. Step[<<x, g>>] = Merging(<<x, g>>[2], <<x, g>>[1], seed, body, e)
      BY <2>2, Zenon
    <2>4. QED BY <2>2, <2>3, Zenon
  <1> HIDE DEF Step
  <1>9. ASSUME NEW x \in S, NEW g \in [S -> V], NEW h \in [S -> V],
               \A y \in S : rank[y] < rank[x] => g[y] = h[y]
        PROVE  Merging(g, x, seed, body, e) = Merging(h, x, seed, body, e)
    <2>1. CASE x[1] > L \/ x[2] >= e
      BY <2>1 DEF Merging, L
    <2>2. CASE ~ (x[1] > L \/ x[2] >= e)
      <3>1. /\ g[<<x[1] + 1, x[2]>>] = h[<<x[1] + 1, x[2]>>]
            /\ g[<<x[1], x[2] + 1>>] = h[<<x[1], x[2] + 1>>]
            /\ g[<<x[1] + 1, x[2] + 1>>] = h[<<x[1] + 1, x[2] + 1>>]
        BY <1>3, <1>5, <1>9, <2>2
      <3>2. QED BY <2>2, <3>1 DEF Merging, L
    <2>3. QED BY <2>1, <2>2
  <1>10. Recursive(S, V, rank, Step)
    <2>1. \A x \in S : \A g, h \in [S -> V] :
             (\A y \in S : rank[y] < rank[x] => g[y] = h[y]) => Step[<<x, g>>] = Step[<<x, h>>]
      BY <1>8, <1>9
    <2>2. QED BY <1>4, <1>7, <2>1, Zenon DEF Recursive
  <1>11. Solvable(S, V, Step)
    <2>1. <<>> \in V
      BY DEF V
    <2>2. QED BY <1>10, <2>1, RecursionExists
  <1>12. PICK f \in [S -> V] : \A x \in S : f[x] = Step[<<x, f>>]
    BY <1>11 DEF Solvable
  <1>13. f = [at \in S |-> Merging(f, at, seed, body, e)]
    <2>1. \A x \in S : f[x] = Merging(f, x, seed, body, e)
      BY <1>8, <1>12
    <2>2. QED BY <2>1
  <1>14. m = [at \in S |-> Merging(m, at, seed, body, e)]
    BY <1>13, Zenon DEF S
  <1>15. QED BY <1>14, Zenon DEF Merges, S

----------------------------------------------------------------------------
(* What a merge answers.                                                   *)

(* What the seed from its i-th entry on and the list after position j share. *)
Shared(seed, body, e, i, j) == {seed[x] : x \in i..Len(seed)} \cap {body[y] : y \in (j + 1)..e}

SharedOK(m, seed, body, e, i, j) ==
    IdSet(Shared(seed, body, e, i, j)) /\ m[<<i, j>>] = Ascending(Shared(seed, body, e, i, j))

(* A smaller member comes first.                                           *)
LEMMA AscendingPrepend ==
    ASSUME NEW A, IdSet(A), NEW x \in Int, \A y \in A : x < y
    PROVE  IdSet({x} \cup A) /\ <<x>> \o Ascending(A) = Ascending({x} \cup A)
  <1>1. IdSet({x}) /\ Ascending({x}) = <<x>>
    BY AscendingSingle
  <1>2. \A z \in {x}, y \in A : z < y
    OBVIOUS
  <1>3. IdSet({x} \cup A) /\ Ascending({x}) \o Ascending(A) = Ascending({x} \cup A)
    BY <1>1, <1>2, AscendingJoined
  <1>4. QED BY <1>1, <1>3

\* One step of the merge of a list with a run answers the common rows if the next steps do.
LEMMA MergeStep ==
    ASSUME NEW seed \in Seq(Int), Increasing(seed), NEW body, NEW a, NEW e, RunAt(body, a, e),
           NEW m, Merges(m, seed, body, e), NEW i \in 1..(Len(seed) + 1), NEW j \in a..e,
           i <= Len(seed) /\ j < e => /\ SharedOK(m, seed, body, e, i + 1, j)
                                      /\ SharedOK(m, seed, body, e, i, j + 1)
                                      /\ SharedOK(m, seed, body, e, i + 1, j + 1)
    PROVE  SharedOK(m, seed, body, e, i, j)
  <1> DEFINE L == Len(seed)
             all == Shared(seed, body, e, i, j)
  <1>1. L \in Nat /\ (\A x \in 1..L : seed[x] \in Int) /\ i \in 1..(L + 1)
    OBVIOUS
  <1>2. \A x, y \in 1..L : x < y => seed[x] < seed[y]
    BY DEF Increasing
  <1>3. /\ Len(body) \in Nat /\ a \in Nat /\ e \in Nat /\ e <= Len(body) /\ j \in Nat /\ j >= a /\ j <= e
        /\ \A x, y \in (a + 1)..e : x < y => body[x] < body[y]
    BY DEF RunAt
  <1>4. \A y \in (a + 1)..e : body[y] \in Int
    <2>1. \A y \in (a + 1)..e : y \in 1..Len(body)
      BY <1>3
    <2>2. body \in Seq(Int)
      BY DEF RunAt
    <2>3. QED BY <2>1, <2>2
  <1>5. m[<<i, j>>] = Merging(m, <<i, j>>, seed, body, e)
    <2>1. <<i, j>> \in MergePlaces(seed, e)
      BY <1>1, <1>3 DEF MergePlaces
    <2>2. QED BY <2>1 DEF Merges
  <1>6. m[<<i, j>>] = IF i > L \/ j >= e THEN <<>>
                      ELSE IF seed[i] < body[j + 1] THEN m[<<i + 1, j>>]
                      ELSE IF seed[i] > body[j + 1] THEN m[<<i, j + 1>>]
                      ELSE <<seed[i]>> \o m[<<i + 1, j + 1>>]
    BY <1>5 DEF Merging
  <1>7. all = {seed[x] : x \in i..L} \cap {body[y] : y \in (j + 1)..e}
    BY DEF Shared
  <1> HIDE DEF L
  <1>8. CASE i > L \/ j >= e
    <2>1. i..L = {} \/ (j + 1)..e = {}
      BY <1>1, <1>3, <1>8
    <2>2. all = {}
      BY <1>7, <2>1
    <2>3. m[<<i, j>>] = <<>>
      BY <1>6, <1>8
    <2>4. QED BY <2>2, <2>3, AscendingEmpty DEF SharedOK
  <1>9. CASE ~ (i > L \/ j >= e)
    <2>1. i \in 1..L /\ j + 1 \in (a + 1)..e /\ i <= L /\ j < e
      BY <1>1, <1>3, <1>9
    <2>2. seed[i] \in Int /\ body[j + 1] \in Int
      BY <1>1, <1>4, <2>1
    <2>3. \A x \in i..L : x = i \/ (x \in (i + 1)..L /\ seed[i] < seed[x])
      BY <1>1, <1>2, <2>1
    <2>4. \A y \in (j + 1)..e : y = j + 1 \/ (y \in ((j + 1) + 1)..e /\ body[j + 1] < body[y])
      BY <1>3, <2>1
    <2>5. /\ \A x \in (i + 1)..L : x \in i..L /\ seed[x] \in Int /\ seed[i] < seed[x]
          /\ \A y \in ((j + 1) + 1)..e : y \in (j + 1)..e /\ body[y] \in Int /\ body[j + 1] < body[y]
          /\ i \in i..L /\ j + 1 \in (j + 1)..e
      <3>1. \A x \in (i + 1)..L : x \in i..L /\ x \in 1..L /\ i < x
        BY <1>1, <2>1
      <3>2. \A y \in ((j + 1) + 1)..e : y \in (j + 1)..e /\ y \in (a + 1)..e /\ j + 1 < y
        BY <1>3, <2>1
      <3>3. i \in i..L /\ j + 1 \in (j + 1)..e
        BY <1>1, <1>3, <2>1
      <3>4. QED BY <1>1, <1>2, <1>3, <1>4, <2>1, <3>1, <3>2, <3>3
    <2>6. /\ SharedOK(m, seed, body, e, i + 1, j) /\ SharedOK(m, seed, body, e, i, j + 1)
          /\ SharedOK(m, seed, body, e, i + 1, j + 1)
      BY <2>1 DEF L
    <2>7. CASE seed[i] < body[j + 1]
      <3>1. \A y \in (j + 1)..e : body[y] # seed[i]
        BY <2>2, <2>4, <2>5, <2>7
      <3>2. all = Shared(seed, body, e, i + 1, j)
        BY <1>7, <2>3, <2>5, <3>1 DEF Shared, L
      <3>3. m[<<i, j>>] = m[<<i + 1, j>>]
        BY <1>6, <1>9, <2>7
      <3>4. QED BY <2>6, <3>2, <3>3 DEF SharedOK
    <2>8. CASE seed[i] > body[j + 1]
      <3>1. \A x \in i..L : seed[x] # body[j + 1]
        BY <2>2, <2>3, <2>5, <2>8
      <3>2. all = Shared(seed, body, e, i, j + 1)
        BY <1>7, <2>4, <2>5, <3>1 DEF Shared, L
      <3>3. m[<<i, j>>] = m[<<i, j + 1>>]
        BY <1>6, <1>9, <2>2, <2>8
      <3>4. QED BY <2>6, <3>2, <3>3 DEF SharedOK
    <2>9. CASE seed[i] = body[j + 1]
      <3> DEFINE less == Shared(seed, body, e, i + 1, j + 1)
      <3>1. less = {seed[x] : x \in (i + 1)..L} \cap {body[y] : y \in ((j + 1) + 1)..e}
        BY DEF Shared, L
      <3>2. all = {seed[i]} \cup less
        <4>1. ASSUME NEW z \in all PROVE z \in {seed[i]} \cup less
          <5>1. PICK x \in i..L : z = seed[x]
            BY <1>7
          <5>2. PICK y \in (j + 1)..e : z = body[y]
            BY <1>7
          <5>3. CASE x = i
            BY <5>1, <5>3
          <5>4. CASE x # i
            <6>1. x \in (i + 1)..L /\ seed[i] < seed[x] /\ seed[x] \in Int
              BY <2>3, <2>5, <5>4
            <6>2. y # j + 1
              BY <2>2, <2>9, <5>1, <5>2, <6>1
            <6>3. y \in ((j + 1) + 1)..e
              BY <2>4, <6>2
            <6>4. QED BY <3>1, <5>1, <5>2, <6>1, <6>3
          <5>5. QED BY <5>3, <5>4
        <4>2. seed[i] \in all
          BY <1>7, <2>5, <2>9
        <4>3. less \subseteq all
          BY <1>7, <2>5, <3>1
        <4>4. QED BY <4>1, <4>2, <4>3
      <3>3. \A y \in less : seed[i] < y
        BY <2>5, <3>1
      <3> HIDE DEF less, all
      <3>4. IdSet(less) /\ m[<<i + 1, j + 1>>] = Ascending(less)
        BY <2>6 DEF SharedOK, less
      <3>5. IdSet(all) /\ <<seed[i]>> \o Ascending(less) = Ascending(all)
        BY <2>2, <3>2, <3>3, <3>4, AscendingPrepend
      <3>6. m[<<i, j>>] = <<seed[i]>> \o m[<<i + 1, j + 1>>]
        BY <1>6, <1>9, <2>2, <2>9
      <3>7. QED BY <3>4, <3>5, <3>6 DEF SharedOK, all
    <2>10. QED BY <2>2, <2>7, <2>8, <2>9
  <1>10. QED BY <1>8, <1>9

\* The merge of a list with a run answers their common rows.
LEMMA MergeAnswers ==
    ASSUME NEW seed \in Seq(Int), Increasing(seed), NEW body, NEW a, NEW e, RunAt(body, a, e),
           NEW m, Merges(m, seed, body, e), NEW j \in a..e
    PROVE  SharedOK(m, seed, body, e, 1, j)
  <1> DEFINE L == Len(seed)
             N == (L + 1) + e
             T == {n \in 0..N : \A i \in 1..(L + 1), k \in a..e :
                                   (L + 1 - i) + (e - k) < n => SharedOK(m, seed, body, e, i, k)}
  <1>1. L \in Nat /\ e \in Nat /\ a \in Nat /\ a <= e
    BY DEF RunAt
  <1>2. \A i \in 1..(L + 1), k \in a..e :
           (i <= L /\ k < e => /\ SharedOK(m, seed, body, e, i + 1, k)
                               /\ SharedOK(m, seed, body, e, i, k + 1)
                               /\ SharedOK(m, seed, body, e, i + 1, k + 1))
           => SharedOK(m, seed, body, e, i, k)
    BY MergeStep
  <1> HIDE DEF L
  <1>3. N \in Nat
    BY <1>1
  <1>4. 0 \in T
    <2>1. \A i \in 1..(L + 1), k \in a..e : ~ ((L + 1 - i) + (e - k) < 0)
      BY <1>1
    <2>2. QED BY <1>3, <2>1
  <1>5. \A n \in 0..(N - 1) : n \in T => n + 1 \in T
    <2> DEFINE Next(n) == \A i \in 1..(L + 1), k \in a..e :
                            (L + 1 - i) + (e - k) < n + 1 => SharedOK(m, seed, body, e, i, k)
    <2>01. SUFFICES ASSUME NEW n \in 0..(N - 1), n \in T PROVE Next(n)
      <3> HIDE DEF N, Next
      <3>1. SUFFICES ASSUME NEW n \in 0..(N - 1), n \in T PROVE n + 1 \in T
        OBVIOUS
      <3>2. n + 1 \in 0..N
        BY <1>3
      <3>3. Next(n)
        BY <2>01, <3>1
      <3>4. QED BY <3>2, <3>3 DEF Next
    <2>1. SUFFICES ASSUME NEW i \in 1..(L + 1), NEW k \in a..e, (L + 1 - i) + (e - k) < n + 1
                   PROVE  SharedOK(m, seed, body, e, i, k)
      OBVIOUS
    <2>2. SUFFICES ASSUME i <= L, k < e
                   PROVE  /\ SharedOK(m, seed, body, e, i + 1, k) /\ SharedOK(m, seed, body, e, i, k + 1)
                          /\ SharedOK(m, seed, body, e, i + 1, k + 1)
      BY <1>2
    <2>3. /\ i + 1 \in 1..(L + 1) /\ k + 1 \in a..e
          /\ (L + 1 - (i + 1)) + (e - k) < n /\ (L + 1 - i) + (e - (k + 1)) < n
          /\ (L + 1 - (i + 1)) + (e - (k + 1)) < n
      BY <1>1, <1>3, <2>1, <2>2
    <2>4. \A x \in 1..(L + 1), y \in a..e : (L + 1 - x) + (e - y) < n => SharedOK(m, seed, body, e, x, y)
      BY <2>01
    <2>5. QED BY <2>3, <2>4
  <1>6. N \in T
    <2> HIDE DEF T, N
    <2>1. 0..N \subseteq T
      BY <1>3, <1>4, <1>5, UpTo
    <2>2. QED BY <1>3, <2>1
  <1>7. 1 \in 1..(L + 1) /\ (L + 1 - 1) + (e - j) < N
    BY <1>1
  <1>8. QED BY <1>6, <1>7

\* A product grows with its factor.
LEMMA TimesMore ==
    ASSUME NEW d \in Nat, NEW p \in Nat, NEW q \in Nat, p <= q
    PROVE  p * d <= q * d /\ p * d \in Nat /\ q * d \in Nat
  <1>1. q = p + (q - p) /\ q - p \in Nat
    OBVIOUS
  <1>2. (p + (q - p)) * d = p * d + (q - p) * d
    OBVIOUS
  <1>3. (q - p) * d \in Nat /\ p * d \in Nat
    BY <1>1
  <1>4. QED BY <1>1, <1>2, <1>3

(* Halving a quotient is dividing by twice as much.                        *)
LEMMA HalfQuotient ==
    ASSUME NEW a \in Nat, NEW d \in Nat \ {0}
    PROVE  a \div (2 * d) = (a \div d) \div 2
  <1> DEFINE q == a \div d
             r == a % d
             h == q \div 2
             t == q % 2
  <1>1. q \in Nat /\ r \in 0..(d - 1) /\ a = d * q + r
    BY DivMod
  <1> HIDE DEF q, r
  <1>2. h \in Nat /\ t \in 0..1 /\ q = 2 * h + t
    BY <1>1, DivMod
  <1> HIDE DEF h, t
  <1> DEFINE e == 2 * d
  <1>3. e \in Nat \ {0}
    OBVIOUS
  <1>4. CASE t = 0
    <2>1. a = d * (2 * h) + r
      BY <1>1, <1>2, <1>4
    <2>2. d * (2 * h) = (2 * d) * h
      BY <1>2
    <2>3. a = e * h + r /\ r \in 0..(e - 1)
      BY <1>1, <2>1, <2>2
    <2> HIDE DEF e
    <2>4. (e * h + r) \div e = h
      BY <1>2, <1>3, <2>3, DivUnique
    <2>5. QED BY <2>3, <2>4 DEF e, h, q
  <1>5. CASE t = 1
    <2>1. a = d * (2 * h + 1) + r
      BY <1>1, <1>2, <1>5
    <2>2. d * (2 * h + 1) = (2 * d) * h + d
      BY <1>2
    <2>3. a = e * h + (d + r) /\ d + r \in 0..(e - 1)
      BY <1>1, <1>2, <2>1, <2>2
    <2> HIDE DEF e
    <2>4. (e * h + (d + r)) \div e = h
      BY <1>2, <1>3, <2>3, DivUnique
    <2>5. QED BY <2>3, <2>4 DEF e, h, q
  <1>6. QED BY <1>2, <1>4, <1>5

\* A number of mixed radix stays below its keyspace when a digit is appended.
LEMMA DigitBelow ==
    ASSUME NEW f \in Nat, NEW g \in Nat, f < g, NEW c \in Nat \ {0}, NEW t \in 0..(c - 1)
    PROVE  f * c + t \in Nat /\ g * c \in Nat \ {0} /\ f * c + t < g * c
  <1>1. PICK d \in Nat : g = f + 1 + d
    <2>1. g - f - 1 \in Nat /\ g = f + 1 + (g - f - 1)
      OBVIOUS
    <2>2. QED BY <2>1
  <1>2. f * c \in Nat /\ d * c \in Nat
    OBVIOUS
  <1>3. g * c = f * c + c + d * c
    BY <1>1
  <1>4. QED BY <1>2, <1>3

(* Whole pages.                                                            *)
LEMMA PagesWhole ==
    ASSUME NEW n \in Nat, NEW d \in Nat \ {0}
    PROVE  LET full == (n \div d) * d
           IN full \in 0..n /\ n - full < d /\ CeilDiv(full, d) * d = full
  <1> DEFINE q == n \div d
             r == n % d
  <1>1. q \in Nat /\ r \in 0..(d - 1) /\ n = d * q + r
    BY DivMod
  <1> HIDE DEF q, r
  <1>2. d * q = q * d /\ q * d \in Nat
    BY <1>1
  <1>3. CeilDiv(q * d, d) = q
    <2>1. (d * q + (d - 1)) \div d = q
      BY <1>1, DivUnique
    <2>2. q * d + d - 1 = d * q + (d - 1)
      BY <1>1, <1>2
    <2>3. QED BY <2>1, <2>2, Zenon DEF CeilDiv
  <1>4. q * d \in 0..n /\ n - q * d < d /\ CeilDiv(q * d, d) * d = q * d
    BY <1>1, <1>2, <1>3
  <1>5. QED BY <1>4, Zenon DEF q

(* Pages that are added to whole pages.                                    *)
LEMMA PagesAdd ==
    ASSUME NEW p \in Nat, NEW n \in Nat, NEW d \in Nat \ {0}
    PROVE  CeilDiv(p * d + n, d) = p + CeilDiv(n, d)
  <1> DEFINE a == n + d - 1
             q == a \div d
             r == a % d
  <1>1. a \in Nat
    OBVIOUS
  <1>2. q \in Nat /\ r \in 0..(d - 1) /\ a = d * q + r
    BY <1>1, DivMod
  <1>3. CeilDiv(n, d) = q
    BY DEF CeilDiv
  <1> HIDE DEF q, r
  <1>4. (d * (p + q) + r) \div d = p + q
    <2> DEFINE k == p + q
    <2>1. k \in Nat
      BY <1>2
    <2> HIDE DEF k
    <2>2. (d * k + r) \div d = k
      BY <1>2, <2>1, DivUnique
    <2>3. QED BY <2>2 DEF k
  <1>5. p * d + n + d - 1 = d * (p + q) + r
    <2>1. d * (p + q) = p * d + d * q /\ p * d \in Nat /\ d * q \in Nat
      BY <1>2
    <2>2. QED BY <1>2, <2>1
  <1>6. CeilDiv(p * d + n, d) = p + q
    BY <1>4, <1>5, Zenon DEF CeilDiv
  <1>7. QED BY <1>3, <1>6

\* A row of a batch is a row of the table.
LEMMA RowWithin ==
    ASSUME NEW a \in Nat, NEW s \in Nat, NEW j \in Nat, NEW n \in Nat, NEW m \in Nat,
           j >= 1, j <= n - s, a + n <= m
    PROVE  a + s + j - 1 \in a..(a + n - 1) /\ a + s + j - 1 \in 0..(m - 1)
           /\ a + s + j - 1 + 1 = a + s + j
  OBVIOUS

\* The row at a position of a batch.
LEMMA RowBack ==
    ASSUME NEW a \in Nat, NEW r \in Int, NEW x \in Nat, NEW t \in Int, r - a + 1 = x + (t + 1)
    PROVE  a + x + (t + 1) - 1 = r
  OBVIOUS

\* Products with a positive number are ordered as their factors.
LEMMA TimesLess ==
    ASSUME NEW d \in Nat \ {0}, NEW p \in Nat, NEW q \in Nat
    PROVE  /\ p < q <=> p * d < q * d
           /\ p <= q <=> p * d <= q * d
           /\ p * d \in Nat /\ q * d \in Nat
  <1>1. p * d \in Nat /\ q * d \in Nat
    OBVIOUS
  <1>2. p <= q => p * d <= q * d
    BY TimesMore
  <1>3. ASSUME p < q PROVE p * d < q * d
    <2> DEFINE k == p + 1
    <2>1. k \in Nat /\ k <= q
      BY <1>3
    <2>2. k * d = p * d + d
      OBVIOUS
    <2> HIDE DEF k
    <2>3. k * d <= q * d
      BY <2>1, TimesMore
    <2>4. QED BY <1>1, <2>2, <2>3
  <1>4. ASSUME q < p PROVE q * d < p * d
    <2> DEFINE k == q + 1
    <2>1. k \in Nat /\ k <= p
      BY <1>4
    <2>2. k * d = q * d + d
      OBVIOUS
    <2> HIDE DEF k
    <2>3. k * d <= p * d
      BY <2>1, TimesMore
    <2>4. QED BY <1>1, <2>2, <2>3
  <1>5. p < q \/ p = q \/ q < p
    OBVIOUS
  <1> DEFINE P == p * d
             Q == q * d
  <1>6. P \in Nat /\ Q \in Nat /\ (p <= q => P <= Q) /\ (p < q => P < Q) /\ (q < p => Q < P) /\ (p = q => P = Q)
    BY <1>1, <1>2, <1>3, <1>4
  <1> HIDE DEF P, Q
  <1>7. (p < q <=> P < Q) /\ (p <= q <=> P <= Q)
    BY <1>5, <1>6
  <1>8. QED BY <1>6, <1>7 DEF P, Q

(* Costs per column are compared by cross-multiplication.                  *)
LEMMA CostsOrder ==
    ASSUME NEW a \in Nat, NEW b \in Nat, NEW c \in Nat,
           NEW x \in Nat \ {0}, NEW y \in Nat \ {0}, NEW z \in Nat \ {0},
           a * y < b * x, b * z <= c * y
    PROVE  a * z < c * x
  <1>1. (a * y) * z < (b * x) * z
    <2> DEFINE p == a * y
               q == b * x
    <2>1. p \in Nat /\ q \in Nat /\ p < q
      OBVIOUS
    <2> HIDE DEF p, q
    <2>2. p * z < q * z
      BY <2>1, TimesLess
    <2>3. QED BY <2>2 DEF p, q
  <1>2. (b * z) * x <= (c * y) * x
    <2> DEFINE p == b * z
               q == c * y
    <2>1. p \in Nat /\ q \in Nat /\ p <= q
      OBVIOUS
    <2> HIDE DEF p, q
    <2>2. p * x <= q * x
      BY <2>1, TimesLess
    <2>3. QED BY <2>2 DEF p, q
  <1>3. /\ (a * y) * z = (a * z) * y /\ (b * x) * z = (b * z) * x /\ (c * y) * x = (c * x) * y
        /\ (a * z) * y \in Nat /\ (b * z) * x \in Nat /\ (c * x) * y \in Nat
    OBVIOUS
  <1> DEFINE p == a * z
             q == c * x
             P == p * y
             Q == q * y
             m == (b * z) * x
  <1>4. p \in Nat /\ q \in Nat
    OBVIOUS
  <1>5. P < m /\ m <= Q /\ P \in Nat /\ Q \in Nat /\ m \in Nat
    BY <1>1, <1>2, <1>3
  <1> HIDE DEF m, p, q
  <1>6. P < Q
    <2> HIDE DEF P, Q
    <2>1. QED BY <1>5
  <1>7. p < q
    BY <1>4, <1>6, TimesLess
  <1>8. QED BY <1>7 DEF p, q

----------------------------------------------------------------------------
(* The rows of candidate pages.                                            *)

(* The rows of a page lie between its start and the start of the next one. *)
LEMMA PageSpan ==
    ASSUME NEW d \in Nat \ {0}, NEW page \in Nat, NEW row \in Nat
    PROVE  row \div d = page <=> page * d <= row /\ row < page * d + d
  <1> DEFINE q == row \div d
             r == row % d
             b == page * d
  <1>1. q \in Nat /\ r \in 0..(d - 1) /\ row = d * q + r
    BY DivMod
  <1>2. b \in Nat
    OBVIOUS
  <1>3. ASSUME q = page PROVE b <= row /\ row < b + d
    <2>1. d * q = b
      BY <1>3
    <2> HIDE DEF q, r, b
    <2>2. row = b + r
      BY <1>1, <2>1
    <2>3. QED BY <1>1, <1>2, <2>2
  <1>4. ASSUME b <= row, row < b + d PROVE q = page
    <2> DEFINE s == row - b
    <2>1. s \in 0..(d - 1) /\ row = b + s
      <3> HIDE DEF b
      <3>1. QED BY <1>2, <1>4
    <2>2. b = d * page
      OBVIOUS
    <2> HIDE DEF s
    <2>3. (d * page + s) \div d = page
      BY <2>1, DivUnique
    <2>4. row = d * page + s
      <3> HIDE DEF b
      <3>1. QED BY <2>1, <2>2
    <2>5. QED BY <2>3, <2>4
  <1>5. QED BY <1>3, <1>4

(* A segment of n rows from row a and page f on has these rows on a page.  *)
OnPage(d, f, a, n, page) ==
    LET start == (page - f) * d
        len == IF start + d < n THEN d ELSE n - start
    IN /\ start \in Nat /\ len \in Nat
       /\ \A row \in Int : row \in (a + start)..(a + start + len - 1)
                             <=> row \in a..(a + n - 1) /\ row \div d = page

(* The rows of a segment on one of its pages.                              *)
LEMMA PagePart ==
    ASSUME NEW d \in Nat \ {0}, NEW f \in Nat, NEW a \in Nat, a = f * d, NEW n \in Nat \ {0},
           NEW page \in f..(f + CeilDiv(n, d) - 1)
    PROVE  OnPage(d, f, a, n, page)
  <1> DEFINE j == page - f
             k == CeilDiv(n, d)
             start == j * d
             len == IF start + d < n THEN d ELSE n - start
             b == page * d
  <1>1. k \in Nat /\ k > 0 /\ (k - 1) * d < n
    BY CeilDivBounds
  <1> HIDE DEF k
  <1>2. j \in Nat /\ j <= k - 1 /\ page \in Nat /\ page = f + j
    BY <1>1 DEF k
  <1>3. b = a + start /\ start \in Nat
    <2> HIDE DEF j
    <2>1. (f + j) * d = f * d + j * d /\ j * d \in Nat
      BY <1>2
    <2>2. QED BY <1>2, <2>1
  <1>4. start < n
    <2> DEFINE m == (k - 1) * d
    <2>1. k - 1 \in Nat
      BY <1>1
    <2> HIDE DEF j
    <2>2. j * d <= m
      BY <1>2, <2>1, TimesMore
    <2>3. m \in Nat /\ m < n
      BY <1>1, <2>1
    <2> DEFINE t == j * d
    <2> HIDE DEF m
    <2>4. t <= m /\ t \in Nat
      BY <1>3, <2>2
    <2> HIDE DEF t
    <2>5. t < n
      BY <2>3, <2>4
    <2>6. QED BY <2>5 DEF t
  <1> HIDE DEF start, b, j
  <1>5. len \in Nat
    BY <1>3, <1>4
  <1>6. ASSUME NEW row \in Nat PROVE row \div d = page <=> b <= row /\ row < b + d
    BY <1>2, PageSpan DEF b
  <1>7. ASSUME NEW row \in Int
        PROVE  row \in (a + start)..(a + start + len - 1) <=> row \in a..(a + n - 1) /\ row \div d = page
    <2>1. row \in a..(a + n - 1) => row \in Nat
      OBVIOUS
    <2>2. row \in (a + start)..(a + start + len - 1) => row \in Nat
      BY <1>3
    <2> DEFINE on == row \div d = page
    <2>3. row \in Nat => (on <=> b <= row /\ row < b + d)
      BY <1>6
    <2> HIDE DEF on
    <2>4. row \in (a + start)..(a + start + len - 1) <=> row \in a..(a + n - 1) /\ on
      BY <1>3, <1>4, <1>5, <2>1, <2>2, <2>3
    <2>5. QED BY <2>4 DEF on
  <1>8. QED BY <1>3, <1>5, <1>7 DEF OnPage, start, j

(* The rows of a segment are on its pages.                                 *)
LEMMA PageIn ==
    ASSUME NEW d \in Nat \ {0}, NEW f \in Nat, NEW a \in Nat, a = f * d, NEW n \in Nat \ {0},
           NEW row \in a..(a + n - 1)
    PROVE  row \div d \in f..(f + CeilDiv(n, d) - 1)
  <1> DEFINE k == CeilDiv(n, d)
             q == row \div d
             b == q * d
             e == (f + k) * d
  <1>1. k \in Nat /\ n <= k * d
    BY CeilDivBounds
  <1>2. row \in Nat
    OBVIOUS
  <1>3. q \in Nat
    BY <1>2, DivMod
  <1> HIDE DEF k, q
  <1>4. b <= row /\ row < b + d
    BY <1>2, <1>3, PageSpan DEF q
  <1>5. e = a + k * d /\ b \in Nat /\ k * d \in Nat /\ e \in Nat
    BY <1>1, <1>3
  <1>6. f <= q
    <2>1. CASE q < f
      <3> DEFINE c == (q + 1) * d
      <3>1. q + 1 <= f /\ q + 1 \in Nat
        BY <1>3, <2>1
      <3>2. c <= f * d
        BY <3>1, TimesMore
      <3>3. c = b + d
        BY <1>3
      <3> HIDE DEF c, b
      <3>4. FALSE
        BY <1>4, <1>5, <3>2, <3>3
      <3>5. QED BY <3>4
    <2>2. QED BY <1>3, <2>1
  <1>7. q < f + k
    <2>1. CASE f + k <= q
      <3>1. e <= b
        BY <1>1, <1>3, <2>1, TimesMore
      <3> DEFINE m == k * d
      <3>2. e = a + m /\ n <= m /\ m \in Nat
        BY <1>1, <1>5
      <3> HIDE DEF m, e, b
      <3>3. FALSE
        BY <1>4, <1>5, <3>1, <3>2
      <3>4. QED BY <3>3
    <2>2. QED BY <1>1, <1>3, <2>1
  <1>8. q \in f..(f + k - 1)
    BY <1>1, <1>3, <1>6, <1>7
  <1>9. QED BY <1>8 DEF q, k

(* Numbers listed from a first one on.                                     *)
LEMMA CountingUp ==
    ASSUME NEW b \in Nat, NEW n \in Nat
    PROVE  IdSet(b..(b + n - 1)) /\ [i \in 1..n |-> b + i - 1] = Ascending(b..(b + n - 1))
  <1> DEFINE S == b..(b + n - 1)
             s == [i \in 1..n |-> b + i - 1]
  <1>1. S \in SUBSET Int /\ s \in [1..n -> S]
    OBVIOUS
  <1>2. Increasing(s)
    BY DEF Increasing
  <1>3. \A x \in S : \E i \in 1..n : s[i] = x
    <2>1. SUFFICES ASSUME NEW x \in S PROVE x - b + 1 \in 1..n /\ s[x - b + 1] = x
      OBVIOUS
    <2>2. QED OBVIOUS
  <1> HIDE DEF S, s
  <1>4. IdSet(S) /\ s = Ascending(S)
    BY <1>1, <1>2, <1>3, AscendingIsUnique
  <1>5. QED BY <1>4 DEF S, s

(* Rows on an earlier page come first.                                     *)
LEMMA QuotientOrder ==
    ASSUME NEW d \in Nat \ {0}, NEW x \in Nat, NEW y \in Nat, x \div d < y \div d
    PROVE  x < y
  <1> DEFINE p == x \div d
             q == y \div d
             b == p * d
             c == q * d
             e == (p + 1) * d
  <1>1. p \in Nat /\ q \in Nat
    BY DivMod
  <1>2. x < b + d /\ c <= y
    BY <1>1, PageSpan
  <1> HIDE DEF p, q
  <1>3. e <= c
    <2>1. p + 1 \in Nat /\ p + 1 <= q
      BY <1>1 DEF p, q
    <2>2. QED BY <1>1, <2>1, TimesMore
  <1>4. e = b + d /\ b \in Nat /\ c \in Nat
    BY <1>1
  <1> HIDE DEF b, c, e
  <1>5. QED BY <1>2, <1>3, <1>4

(* The rows of an ascending answer from a row on.                          *)
LEMMA SelectFrom ==
    ASSUME NEW A, IdSet(A), NEW first
    PROVE  LET from == {row \in A : row >= first}
           IN IdSet(from) /\ Select(Ascending(A), LAMBDA row : row >= first) = Ascending(from)
  <1> DEFINE from == {row \in A : row >= first}
             s == Ascending(A)
             I == {i \in DOMAIN s : s[i] >= first}
  <1>1. \A i \in DOMAIN s : s[i] \in A
    <2>1. ToSet(s) = A
      BY AscendingFacts
    <2> HIDE DEF s
    <2>2. QED BY <2>1 DEF ToSet
  <1>2. Select(s, LAMBDA row : row >= first) = EntriesAt(s, I)
    BY DEF Select
  <1> HIDE DEF s
  <1>3. I = {i \in DOMAIN s : s[i] \in from}
    BY <1>1
  <1> HIDE DEF I
  <1>4. IdSet(A \cap from) /\ EntriesAt(s, I) = Ascending(A \cap from)
    BY <1>3, AscendingWithin DEF s
  <1>5. A \cap from = from
    OBVIOUS
  <1> HIDE DEF from
  <1>6. IdSet(from) /\ Select(s, LAMBDA row : row >= first) = Ascending(from)
    BY <1>2, <1>4, <1>5
  <1>7. QED BY <1>6 DEF from, s
=============================================================================
