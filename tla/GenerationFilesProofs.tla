------------------------ MODULE GenerationFilesProofs ------------------------
(***************************************************************************)
(* Proofs about generations that share files: every published generation   *)
(* verifies in every state, and each of its indexes serves its data.       *)
(***************************************************************************)
EXTENDS GenerationFiles, RowOrderProofs, SequenceTheorems

----------------------------------------------------------------------------
(* Names.                                                                  *)

IndexNames == {Name(kind, number) : kind \in {"dlt", "other"}, number \in Nat}
FixedNames == {Data, Schema, Manifest, Overlay, Integrity}
DataName(layer) == Name("delta data", layer)
IdsName(layer) == Name("delta ids", layer)

(* The files that are always there have different names.                   *)
LEMMA FixedDiffer ==
    /\ Data # Schema /\ Data # Manifest /\ Data # Overlay /\ Data # Integrity
    /\ Schema # Manifest /\ Schema # Overlay /\ Schema # Integrity
    /\ Manifest # Overlay /\ Manifest # Integrity /\ Overlay # Integrity
  BY DEF Data, Schema, Manifest, Overlay, Integrity, Name

(* An index file is named by its kind and number, and like no other file.  *)
LEMMA IndexNamed ==
    ASSUME NEW kind \in {"dlt", "other"}, NEW number \in Nat
    PROVE  /\ IndexFile(kind, number) \in IndexNames
           /\ IndexFile(kind, number).number = number
           /\ IndexFile(kind, number).kind = kind
  BY DEF IndexFile, IndexNames, Name

(* So the names of index files are no others' names.                      *)
LEMMA IndexNamesDiffer ==
    ASSUME NEW n \in IndexNames
    PROVE  n \notin FixedNames /\ n.number \in Nat /\ \A layer : n # DataName(layer) /\ n # IdsName(layer)
  <1>1. PICK kind \in {"dlt", "other"}, number \in Nat : n = Name(kind, number)
    BY DEF IndexNames
  <1>2. n.number = number /\ n.kind = kind
    BY <1>1 DEF Name
  <1>3. n \notin FixedNames
    BY <1>1 DEF FixedNames, Data, Schema, Manifest, Overlay, Integrity, Name
  <1>4. \A layer : n # DataName(layer) /\ n # IdsName(layer)
    BY <1>1 DEF DataName, IdsName, Name
  <1>5. QED BY <1>2, <1>3, <1>4

(* The files of a layer are named by its number.                           *)
LEMMA ChildNames ==
    ASSUME NEW layer
    PROVE  /\ Child(layer) = {DataName(layer), IdsName(layer)}
           /\ DataName(layer) \notin FixedNames /\ IdsName(layer) \notin FixedNames
           /\ DataName(layer) # IdsName(layer)
           /\ \A other : /\ DataName(other) = DataName(layer) => other = layer
                         /\ IdsName(other) = IdsName(layer) => other = layer
                         /\ DataName(layer) # IdsName(other)
  <1>1. Child(layer) = {DataName(layer), IdsName(layer)}
    BY DEF Child, DataName, IdsName
  <1>2. DataName(layer) \notin FixedNames /\ IdsName(layer) \notin FixedNames
    BY DEF DataName, IdsName, FixedNames, Data, Schema, Manifest, Overlay, Integrity, Name
  <1>3. ASSUME NEW other
        PROVE  /\ DataName(other) = DataName(layer) => other = layer
               /\ IdsName(other) = IdsName(layer) => other = layer
               /\ DataName(layer) # IdsName(other)
    BY DEF DataName, IdsName, Name
  <1>4. QED BY <1>1, <1>2, <1>3

----------------------------------------------------------------------------
(* The disk: sequences of files, whatever is in them.                      *)

IsDisk(files) == files \in Seq({files[i] : i \in DOMAIN files})

(* Every sequence is a disk.                                               *)
LEMMA SequencesAreDisks ==
    ASSUME NEW S, NEW files \in Seq(S)
    PROVE  IsDisk(files)
  BY DEF IsDisk

(* One more file.                                                          *)
LEMMA AppendedFile ==
    ASSUME NEW files, IsDisk(files), NEW contents
    PROVE  LET more == Append(files, contents)
           IN /\ IsDisk(more) /\ Len(files) \in Nat /\ Len(more) = Len(files) + 1
              /\ more[Len(files) + 1] = contents
              /\ \A i \in 1..Len(files) : more[i] = files[i]
  <1> DEFINE S == {files[i] : i \in DOMAIN files} \cup {contents}
             more == Append(files, contents)
  <1>1. files \in Seq(S)
    BY DEF IsDisk
  <1>2. /\ more \in Seq(S) /\ Len(files) \in Nat /\ Len(more) = Len(files) + 1
        /\ more[Len(files) + 1] = contents
        /\ \A i \in 1..Len(files) : more[i] = files[i]
    <2>1. contents \in S
      OBVIOUS
    <2> HIDE DEF S
    <2>2. QED BY <1>1, <2>1, AppendProperties
  <1>3. IsDisk(more)
    BY <1>2, SequencesAreDisks
  <1>4. QED BY <1>2, <1>3

Changed(files, k, contents) == [files EXCEPT ![k] = contents]

(* One file gets new contents.                                             *)
LEMMA ChangedFile ==
    ASSUME NEW files, IsDisk(files), NEW k \in 1..Len(files), NEW contents,
           NEW changed, changed = Changed(files, k, contents)
    PROVE  /\ IsDisk(changed) /\ Len(changed) = Len(files) /\ changed[k] = contents
           /\ \A i \in 1..Len(files) : i # k => changed[i] = files[i]
  <1> DEFINE S == {files[i] : i \in DOMAIN files} \cup {contents}
  <1>1. files \in Seq(S)
    BY DEF IsDisk
  <1>2. /\ changed \in Seq(S) /\ Len(changed) = Len(files)
        /\ \A i \in 1..Len(files) : changed[i] = IF i = k THEN contents ELSE files[i]
    <2>1. contents \in S
      OBVIOUS
    <2> HIDE DEF S
    <2>2. QED BY <1>1, <2>1, ExceptSeq DEF Changed
  <1>3. IsDisk(changed)
    BY <1>2, SequencesAreDisks
  <1>4. QED BY <1>2, <1>3

(* The files of a second disk follow those of the first.                   *)
LEMMA JoinedFiles ==
    ASSUME NEW files, IsDisk(files), NEW others, IsDisk(others)
    PROVE  LET all == files \o others
           IN /\ IsDisk(all) /\ Len(files) \in Nat /\ Len(others) \in Nat
              /\ Len(all) = Len(files) + Len(others)
              /\ \A i \in 1..Len(files) : all[i] = files[i]
              /\ \A i \in 1..Len(others) : all[Len(files) + i] = others[i]
  <1> DEFINE S == {files[i] : i \in DOMAIN files} \cup {others[i] : i \in DOMAIN others}
             all == files \o others
  <1>1. files \in Seq(S) /\ others \in Seq(S) /\ Len(files) \in Nat /\ Len(others) \in Nat
    BY DEF IsDisk
  <1>2. /\ all \in Seq(S) /\ Len(all) = Len(files) + Len(others)
        /\ \A i \in 1..(Len(files) + Len(others)) :
             all[i] = IF i <= Len(files) THEN files[i] ELSE others[i - Len(files)]
    <2> HIDE DEF S
    <2>1. /\ files \o others \in Seq(S) /\ Len(files \o others) = Len(files) + Len(others)
          /\ \A i \in 1..(Len(files) + Len(others)) :
               (files \o others)[i] = IF i <= Len(files) THEN files[i] ELSE others[i - Len(files)]
      BY <1>1, ConcatProperties, Zenon
    <2>2. QED BY <2>1, Zenon
  <1>3. IsDisk(all)
    BY <1>2, SequencesAreDisks
  <1>4. /\ \A i \in 1..Len(files) : all[i] = files[i]
        /\ \A i \in 1..Len(others) : all[Len(files) + i] = others[i]
    <2> HIDE DEF all, S
    <2>1. ASSUME NEW i \in 1..Len(files) PROVE all[i] = files[i]
      BY <1>1, <1>2
    <2>2. ASSUME NEW i \in 1..Len(others) PROVE all[Len(files) + i] = others[i]
      <3>1. /\ Len(files) + i \in 1..(Len(files) + Len(others)) /\ ~ Len(files) + i <= Len(files)
            /\ Len(files) + i - Len(files) = i
        BY <1>1
      <3>2. QED BY <1>2, <3>1
    <2>3. QED BY <2>1, <2>2
  <1>5. QED BY <1>1, <1>2, <1>3, <1>4

(* The first files only.                                                   *)
LEMMA FirstFiles ==
    ASSUME NEW files, IsDisk(files), NEW n \in Nat, n <= Len(files)
    PROVE  LET first == SubSeq(files, 1, n)
           IN IsDisk(first) /\ Len(first) = n /\ \A i \in 1..n : first[i] = files[i]
  <1> DEFINE S == {files[i] : i \in DOMAIN files}
             first == SubSeq(files, 1, n)
  <1>1. files \in Seq(S) /\ \A i \in 1..n : files[i] \in S
    BY DEF IsDisk
  <1>2. /\ first \in Seq(S) /\ Len(first) = (IF 1 <= n THEN n - 1 + 1 ELSE 0)
        /\ \A i \in 1..(n - 1 + 1) : first[i] = files[1 + i - 1]
    <2> HIDE DEF S
    <2>1. QED BY <1>1, SubSeqProperties
  <1>3. Len(first) = n /\ \A i \in 1..n : first[i] = files[i]
    <2> HIDE DEF first, S
    <2>1. QED BY <1>2
  <1>4. IsDisk(first)
    BY <1>2, SequencesAreDisks
  <1>5. QED BY <1>3, <1>4

----------------------------------------------------------------------------
(* Directories.                                                            *)

(* A directory as its reader sees it: the contents under each name.        *)
View(files, dir) == [n \in DOMAIN dir |-> files[dir[n]]]

With(view, name, contents) ==
    [n \in DOMAIN view \cup {name} |-> IF n = name THEN contents ELSE view[n]]

Less(view, names) == [n \in DOMAIN view \ names |-> view[n]]

(* Each name has a file of its own.                                        *)
IsDir(dir, size) ==
    /\ dir = [n \in DOMAIN dir |-> dir[n]]
    /\ \A n \in DOMAIN dir : dir[n] \in 1..size
    /\ \A m, n \in DOMAIN dir : dir[m] = dir[n] => m = n

(* What a write to a directory does to it and to the disk.                 *)
Written(files, dir, written, name, contents) ==
    /\ IsDisk(written.disk) /\ Len(files) \in Nat /\ Len(files) <= Len(written.disk)
    /\ IsDir(written.dir, Len(written.disk))
    /\ View(written.disk, written.dir) = With(View(files, dir), name, contents)

(* A replaced file is a new one, and no other file changes.                *)
LEMMA ReplaceEffect ==
    ASSUME NEW files, IsDisk(files), NEW dir, IsDir(dir, Len(files)), NEW name, NEW contents
    PROVE  LET written == Replace(files, dir, name, contents)
           IN /\ Written(files, dir, written, name, contents)
              /\ \A i \in 1..Len(files) : written.disk[i] = files[i]
              /\ \A n \in DOMAIN dir : n # name => written.dir[n] = dir[n]
              /\ written.dir[name] = Len(files) + 1 /\ DOMAIN written.dir = DOMAIN dir \cup {name}
  <1>1. PICK more, next : /\ more = Append(files, contents)
                          /\ next = [n \in DOMAIN dir \cup {name} |->
                                       IF n = name THEN Len(files) + 1 ELSE dir[n]]
    OBVIOUS
  <1>2. PICK written : written = Replace(files, dir, name, contents)
    OBVIOUS
  <1>3. written.disk = more /\ written.dir = next
    BY <1>1, <1>2 DEF Replace
  <1>4. /\ IsDisk(more) /\ Len(files) \in Nat /\ Len(more) = Len(files) + 1
        /\ more[Len(files) + 1] = contents
        /\ \A i \in 1..Len(files) : more[i] = files[i]
    BY <1>1, AppendedFile
  <1>5. IsDir(next, Len(more))
    <2>1. \A n \in DOMAIN next : next[n] = IF n = name THEN Len(files) + 1 ELSE dir[n]
      BY <1>1
    <2>2. \A n \in DOMAIN next : n # name => n \in DOMAIN dir /\ dir[n] \in 1..Len(files)
      BY <1>1 DEF IsDir
    <2>3. \A n \in DOMAIN next : next[n] \in 1..Len(more)
      BY <1>4, <2>1, <2>2
    <2>4. ASSUME NEW m \in DOMAIN next, NEW n \in DOMAIN next, next[m] = next[n] PROVE m = n
      <3>1. CASE m = name \/ n = name
        BY <1>4, <2>1, <2>2, <2>4, <3>1
      <3>2. CASE m # name /\ n # name
        BY <2>1, <2>2, <2>4, <3>2 DEF IsDir
      <3>3. QED BY <3>1, <3>2
    <2>5. next = [n \in DOMAIN next |-> next[n]]
      BY <1>1
    <2>6. QED BY <2>3, <2>4, <2>5 DEF IsDir
  <1>6. View(more, next) = With(View(files, dir), name, contents)
    <2>1. \A n \in DOMAIN dir : dir[n] \in 1..Len(files)
      BY DEF IsDir
    <2>2. DOMAIN next = DOMAIN dir \cup {name} /\ DOMAIN View(files, dir) = DOMAIN dir
      BY <1>1 DEF View
    <2>3. ASSUME NEW n \in DOMAIN next
          PROVE  more[next[n]] = IF n = name THEN contents ELSE View(files, dir)[n]
      BY <1>1, <1>4, <2>1, <2>2 DEF View
    <2>4. QED BY <2>2, <2>3 DEF View, With
  <1>7. QED BY <1>1, <1>2, <1>3, <1>4, <1>5, <1>6 DEF Written

(* Creating a file under a free name makes a new one.                      *)
LEMMA CreateIsReplace ==
    ASSUME NEW files, NEW dir, NEW name, name \notin DOMAIN dir, NEW contents
    PROVE  Create(files, dir, name, contents) = Replace(files, dir, name, contents)
  BY DEF Create, Replace

(* Creating a file under a name that is there changes that file.           *)
LEMMA CreateEffect ==
    ASSUME NEW files, IsDisk(files), NEW dir, IsDir(dir, Len(files)),
           NEW name \in DOMAIN dir, NEW contents
    PROVE  LET written == Create(files, dir, name, contents)
           IN /\ Written(files, dir, written, name, contents) /\ written.dir = dir
              /\ \A i \in 1..Len(files) : i # dir[name] => written.disk[i] = files[i]
  <1>0. PICK k : k = dir[name]
    OBVIOUS
  <1>1. PICK changed : changed = Changed(files, k, contents)
    OBVIOUS
  <1>2. PICK written : written = Create(files, dir, name, contents)
    OBVIOUS
  <1>3. written.disk = changed /\ written.dir = dir
    BY <1>0, <1>1, <1>2 DEF Create, Changed
  <1>4. k \in 1..Len(files)
    BY <1>0 DEF IsDir
  <1>5. /\ IsDisk(changed) /\ Len(changed) = Len(files) /\ changed[k] = contents
        /\ \A i \in 1..Len(files) : i # k => changed[i] = files[i]
    BY <1>1, <1>4, ChangedFile
  <1>6. View(changed, dir) = With(View(files, dir), name, contents)
    <2>1. DOMAIN dir = DOMAIN View(files, dir) \cup {name} /\ DOMAIN View(files, dir) = DOMAIN dir
      BY DEF View
    <2>2. ASSUME NEW n \in DOMAIN dir
          PROVE  changed[dir[n]] = IF n = name THEN contents ELSE View(files, dir)[n]
      BY <1>0, <1>5 DEF View, IsDir
    <2>3. QED BY <2>1, <2>2 DEF View, With
  <1>7. Len(files) \in Nat
    BY DEF IsDisk
  <1>8. QED BY <1>0, <1>1, <1>2, <1>3, <1>5, <1>6, <1>7 DEF Written

(* Removing names only changes the directory.                              *)
LEMMA UnlinkEffect ==
    ASSUME NEW size, NEW dir, IsDir(dir, size), NEW names, NEW next, next = Unlink(dir, names)
    PROVE  IsDir(next, size)
  <1>1. DOMAIN next = DOMAIN dir \ names /\ \A n \in DOMAIN next : next[n] = dir[n]
    BY DEF Unlink
  <1>2. next = [n \in DOMAIN next |-> next[n]]
    BY DEF Unlink
  <1>3. QED BY <1>1, <1>2 DEF IsDir

(* A directory none of whose files changes is seen as before.              *)
LEMMA ViewStays ==
    ASSUME NEW files, NEW more, NEW dir, \A n \in DOMAIN dir : more[dir[n]] = files[dir[n]]
    PROVE  View(more, dir) = View(files, dir)
  BY DEF View

----------------------------------------------------------------------------
(* Complete generations.                                                   *)

Built(columns, data) == [whole |-> TRUE, columns |-> columns, data |-> data]

Indexes(view) == view[Manifest].indexes

(* An index the manifest names is in a file, which holds the generation's  *)
(* data.                                                                   *)
IndexIn(view, x) ==
    /\ x.file \in IndexNames /\ x.file \in DOMAIN view
    /\ view[x.file] = Built(x.columns, view[Data])

(* And the index files are those the manifest names, one for each set of   *)
(* columns: that is why the next number leads to no file.                  *)
Indexed(view) ==
    /\ {Data, Schema, Manifest} \subseteq DOMAIN view
    /\ IsFiniteSet(Indexes(view))
    /\ \A x \in Indexes(view) : IndexIn(view, x)
    /\ \A x, y \in Indexes(view) : x # y => x.file # y.file /\ x.columns # y.columns
    /\ \A n \in DOMAIN view : n \in IndexNames => \E x \in Indexes(view) : x.file = n

Layers(view) == IF Overlay \in DOMAIN view THEN view[Overlay].layers ELSE 0

(* The layers' files are those the overlay counts.                         *)
Layered(view) ==
    /\ Layers(view) \in Nat
    /\ \A l \in 1..Layers(view) : Child(l) \subseteq DOMAIN view
    /\ \A l \in Nat : Child(l) \cap DOMAIN view # {} => l <= Layers(view)

Complete(view) == Indexed(view) /\ Layered(view)

(* The layers do not depend on the indexes and the seal.                   *)
LEMMA LayeredSame ==
    ASSUME NEW v, Layered(v), NEW w,
           \A l \in Nat : Child(l) \cap DOMAIN w = Child(l) \cap DOMAIN v,
           Overlay \in DOMAIN w <=> Overlay \in DOMAIN v,
           Overlay \in DOMAIN v => w[Overlay] = v[Overlay]
    PROVE  Layered(w)
  <1>1. Layers(w) = Layers(v)
    BY DEF Layers
  <1>2. \A l \in 1..Layers(w) : Child(l) \subseteq DOMAIN w
    BY <1>1 DEF Layered
  <1>3. \A l \in Nat : Child(l) \cap DOMAIN w # {} => l <= Layers(w)
    BY <1>1 DEF Layered
  <1>4. QED BY <1>1, <1>2, <1>3 DEF Layered

(* The indexes depend only on their files, the data and the manifest.      *)
LEMMA IndexedSame ==
    ASSUME NEW v, Indexed(v), NEW w,
           \A n \in IndexNames \cup {Data, Schema, Manifest} :
             n \in DOMAIN w <=> n \in DOMAIN v,
           \A n \in IndexNames \cup {Data, Manifest} : n \in DOMAIN v => w[n] = v[n]
    PROVE  Indexed(w)
  <1>1. {Data, Schema, Manifest} \subseteq DOMAIN w /\ Indexes(w) = Indexes(v) /\ w[Data] = v[Data]
    BY DEF Indexed, Indexes
  <1>2. \A x \in Indexes(w) : IndexIn(w, x)
    BY <1>1 DEF Indexed, IndexIn
  <1>3. \A n \in DOMAIN w : n \in IndexNames => \E x \in Indexes(w) : x.file = n
    BY <1>1 DEF Indexed
  <1>4. QED BY <1>1, <1>2, <1>3 DEF Indexed

(* The largest of a finite set of integers.                                *)
LEMMA LargestOf ==
    ASSUME NEW ids \in SUBSET Int, IsFiniteSet(ids), ids # {}
    PROVE  Max(ids) \in ids /\ \A x \in ids : x <= Max(ids)
  <1>1. Cardinality(ids) \in Nat /\ Cardinality(ids) # 0
    BY FS_CardinalityType, FS_EmptySet
  <1>2. Cardinality(ids) - 1 \in 0..(Cardinality(ids) - 1)
    BY <1>1
  <1>3. PICK m \in ids : Rank(m, ids) = Cardinality(ids) - 1
    BY <1>2, RankOnto DEF IdSet
  <1>4. \A x \in ids : x <= m
    <2> SUFFICES ASSUME NEW x \in ids, m < x PROVE FALSE
      OBVIOUS
    <2>1. Rank(m, ids) < Rank(x, ids) /\ Rank(x, ids) < Cardinality(ids)
          /\ Rank(x, ids) \in Nat
      BY RankMonotone, RankTyped DEF IdSet
    <2>2. QED BY <1>1, <1>3, <2>1
  <1>5. Max(ids) \in ids /\ \A x \in ids : Max(ids) >= x
    <2>1. \A x \in ids : m >= x
      BY <1>4
    <2>2. QED BY <2>1 DEF Max
  <1>6. QED BY <1>5

(* next_hierarchy_number is above the number of every index file.          *)
LEMMA NextNumber ==
    ASSUME NEW view, Indexed(view)
    PROVE  /\ NextHierarchyNumber(Indexes(view)) \in Nat
           /\ \A kind \in {"dlt", "other"} :
                IndexFile(kind, NextHierarchyNumber(Indexes(view))) \notin DOMAIN view
  <1> DEFINE numbers == {-1} \cup {x.file.number : x \in Indexes(view)}
  <1>1. \A x \in Indexes(view) : x.file.number \in Nat
    BY IndexNamesDiffer DEF Indexed, IndexIn
  <1>2. numbers \subseteq Int /\ numbers # {}
    BY <1>1
  <1>3. IsFiniteSet(numbers)
    <2>1. IsFiniteSet({x.file.number : x \in Indexes(view)})
      <3> DEFINE S == Indexes(view)
                 T == {x.file.number : x \in Indexes(view)}
                 f == [x \in S |-> x.file.number]
      <3>1. f \in Surjection(S, T)
        BY DEF Surjection
      <3>2. IsFiniteSet(S)
        BY DEF Indexed
      <3> HIDE DEF S, T, f
      <3>3. IsFiniteSet(T)
        BY <3>1, <3>2, FS_Surjection
      <3>4. QED BY <3>3 DEF T
    <2>2. QED BY <2>1, FS_Singleton, FS_Union
  <1>4. PICK m : m = Max(numbers)
    OBVIOUS
  <1>5. m \in numbers /\ \A i \in numbers : i <= m
    BY <1>2, <1>3, <1>4, LargestOf
  <1>6. PICK next : next = NextHierarchyNumber(Indexes(view))
    OBVIOUS
  <1>7. next = m + 1
    BY <1>4, <1>6 DEF NextHierarchyNumber
  <1>8. m \in Int /\ m >= -1
    <2>1. -1 \in numbers
      OBVIOUS
    <2>2. QED BY <1>2, <1>5, <2>1
  <1>9. next \in Nat /\ \A x \in Indexes(view) : x.file.number # next
    <2>1. \A x \in Indexes(view) : x.file.number <= m
      BY <1>5
    <2> HIDE DEF numbers
    <2>2. QED BY <1>1, <1>7, <1>8, <2>1
  <1>10. ASSUME NEW kind \in {"dlt", "other"}, IndexFile(kind, next) \in DOMAIN view
         PROVE  FALSE
    <2>1. IndexFile(kind, next) \in IndexNames /\ IndexFile(kind, next).number = next
      BY <1>9, IndexNamed
    <2>2. QED BY <1>9, <1>10, <2>1 DEF Indexed
  <1>11. QED BY <1>6, <1>9, <1>10

(* Layers' files are neither index files nor files that are always there.  *)
LEMMA ChildElsewhere ==
    ASSUME NEW l, NEW n \in Child(l)
    PROVE  n \notin FixedNames /\ n \notin IndexNames
  BY ChildNames, IndexNamesDiffer

(* Dropping indexes with their files leaves a complete generation.         *)
LEMMA DropComplete ==
    ASSUME NEW v, Complete(v), NEW m \in SUBSET Indexes(v),
           NEW gone, gone = {x.file : x \in m},
           NEW manifest, manifest.indexes = Indexes(v) \ m,
           NEW w, w = With(Less(v, gone), Manifest, manifest)
    PROVE  Complete(w)
  <1>1. Indexed(v) /\ Layered(v)
    BY DEF Complete
  <1>2. gone \subseteq IndexNames
    BY <1>1 DEF Indexed, IndexIn
  <1>3. \A n \in gone : n \notin FixedNames
    BY <1>2, IndexNamesDiffer
  <1>4. PICK u : u = Less(v, gone)
    OBVIOUS
  <1>5. DOMAIN u = DOMAIN v \ gone /\ \A n \in DOMAIN u : u[n] = v[n]
    BY <1>4 DEF Less
  <1>6. w = With(u, Manifest, manifest)
    BY <1>4
  <1>7. /\ DOMAIN w = DOMAIN u \cup {Manifest} /\ w[Manifest] = manifest
        /\ \A n \in DOMAIN u : n # Manifest => w[n] = u[n]
    BY <1>6 DEF With
  <1>8. DOMAIN w = DOMAIN v \ gone /\ \A n \in DOMAIN w : n # Manifest => w[n] = v[n]
    <2>1. Manifest \in DOMAIN v /\ Manifest \notin gone
      BY <1>1, <1>3 DEF Indexed, FixedNames
    <2>2. DOMAIN w = DOMAIN v \ gone
      BY <1>5, <1>7, <2>1
    <2>3. QED BY <1>5, <1>7, <2>2
  <1>9. Indexes(w) = Indexes(v) \ m
    BY <1>7 DEF Indexes
  <1>10. /\ {Data, Schema, Manifest} \subseteq DOMAIN w /\ w[Data] = v[Data]
    BY <1>1, <1>3, <1>8, FixedDiffer DEF Indexed, FixedNames
  <1>11. IsFiniteSet(Indexes(w))
    BY <1>1, <1>9, FS_Subset DEF Indexed
  <1>12. ASSUME NEW x \in Indexes(w) PROVE IndexIn(w, x)
    <2>1. x \in Indexes(v) /\ x \notin m /\ IndexIn(v, x)
      BY <1>1, <1>9 DEF Indexed
    <2>2. x.file \notin gone
      BY <1>1, <2>1 DEF Indexed
    <2>3. x.file \in DOMAIN w /\ x.file # Manifest
      BY <1>8, <2>1, <2>2, IndexNamesDiffer DEF IndexIn, FixedNames
    <2>4. QED BY <1>8, <1>10, <2>1, <2>3 DEF IndexIn
  <1>13. \A x, y \in Indexes(w) : x # y => x.file # y.file /\ x.columns # y.columns
    BY <1>1, <1>9 DEF Indexed
  <1>14. \A n \in DOMAIN w : n \in IndexNames => \E x \in Indexes(w) : x.file = n
    BY <1>1, <1>8, <1>9 DEF Indexed
  <1>15. Indexed(w)
    BY <1>10, <1>11, <1>12, <1>13, <1>14 DEF Indexed
  <1>16. Layered(w)
    <2>1. \A l \in Nat : Child(l) \cap DOMAIN w = Child(l) \cap DOMAIN v
      BY <1>2, <1>8, ChildElsewhere
    <2>2. Overlay \in DOMAIN w <=> Overlay \in DOMAIN v
      BY <1>3, <1>8 DEF FixedNames
    <2>3. Overlay \in DOMAIN v => w[Overlay] = v[Overlay]
      BY <1>8, <2>2, FixedDiffer
    <2>4. QED BY <1>1, <2>1, <2>2, <2>3, LayeredSame
  <1>17. QED BY <1>15, <1>16 DEF Complete

(* A new index in a file with the next number, on columns that had none.   *)
LEMMA AddComplete ==
    ASSUME NEW v, Complete(v), NEW kind \in {"dlt", "other"}, NEW columns,
           Matching(Indexes(v), columns) = {},
           NEW number, number = NextHierarchyNumber(Indexes(v)),
           NEW file, file = IndexFile(kind, number), NEW new, new = Index(kind, number, columns),
           NEW contents, contents = Built(columns, v[Data]),
           NEW manifest, manifest.indexes = Indexes(v) \cup {new},
           NEW w, w = With(With(v, file, contents), Manifest, manifest)
    PROVE  Complete(w)
  <1>1. Indexed(v) /\ Layered(v)
    BY DEF Complete
  <1>2. PICK u : u = With(v, file, contents)
    OBVIOUS
  <1>3. new.file = file /\ new.columns = columns
    BY DEF Index
  <1>4. file \in IndexNames /\ file \notin DOMAIN v /\ file \notin FixedNames
    <2>1. number \in Nat /\ file \notin DOMAIN v
      BY <1>1, NextNumber
    <2>2. file \in IndexNames
      BY <2>1, IndexNamed
    <2>3. QED BY <2>1, <2>2, IndexNamesDiffer
  <1>5. /\ DOMAIN u = DOMAIN v \cup {file} /\ u[file] = contents
        /\ \A n \in DOMAIN v : n # file => u[n] = v[n]
    BY <1>2 DEF With
  <1>6. w = With(u, Manifest, manifest)
    BY <1>2
  <1>7. /\ DOMAIN w = DOMAIN u \cup {Manifest} /\ w[Manifest] = manifest
        /\ \A n \in DOMAIN u : n # Manifest => w[n] = u[n]
    BY <1>6 DEF With
  <1>8. /\ DOMAIN w = DOMAIN v \cup {file} /\ w[file] = contents
        /\ \A n \in DOMAIN v : n # Manifest => w[n] = v[n]
    BY <1>1, <1>4, <1>5, <1>7 DEF Indexed, FixedNames
  <1>9. Indexes(w) = Indexes(v) \cup {new}
    BY <1>7 DEF Indexes
  <1>10. {Data, Schema, Manifest} \subseteq DOMAIN w /\ w[Data] = v[Data]
    <2>1. {Data, Schema, Manifest} \subseteq DOMAIN v
      BY <1>1 DEF Indexed
    <2>2. Data # Manifest
      BY FixedDiffer
    <2>3. QED BY <1>8, <2>1, <2>2
  <1>11. IsFiniteSet(Indexes(w))
    <2>1. IsFiniteSet(Indexes(v)) /\ IsFiniteSet({new})
      BY <1>1, FS_Singleton DEF Indexed
    <2>2. QED BY <1>9, <2>1, FS_Union
  <1>12. ASSUME NEW x \in Indexes(w) PROVE IndexIn(w, x)
    <2>1. CASE x = new
      BY <1>3, <1>4, <1>8, <1>10, <2>1 DEF IndexIn
    <2>2. CASE x \in Indexes(v)
      <3>1. IndexIn(v, x)
        BY <1>1, <2>2 DEF Indexed
      <3>2. x.file \in DOMAIN w /\ x.file # Manifest
        BY <1>8, <3>1, IndexNamesDiffer DEF IndexIn, FixedNames
      <3>3. QED BY <1>8, <1>10, <3>1, <3>2 DEF IndexIn
    <2>3. QED BY <1>9, <2>1, <2>2
  <1>13. ASSUME NEW x \in Indexes(w), NEW y \in Indexes(w), x # y
         PROVE  x.file # y.file /\ x.columns # y.columns
    <2>1. ASSUME NEW z \in Indexes(v) PROVE z.file # file /\ z.columns # columns
      BY <1>1, <1>4 DEF Indexed, IndexIn, Matching
    <2>2. QED BY <1>1, <1>3, <1>9, <1>13, <2>1 DEF Indexed
  <1>14. \A n \in DOMAIN w : n \in IndexNames => \E x \in Indexes(w) : x.file = n
    BY <1>1, <1>3, <1>8, <1>9 DEF Indexed
  <1>15. Indexed(w)
    BY <1>10, <1>11, <1>12, <1>13, <1>14 DEF Indexed
  <1>16. Layered(w)
    <2>1. \A l \in Nat : Child(l) \cap DOMAIN w = Child(l) \cap DOMAIN v
      BY <1>4, <1>8, ChildElsewhere
    <2>2. Overlay \in DOMAIN w <=> Overlay \in DOMAIN v
      BY <1>4, <1>8 DEF FixedNames
    <2>3. Overlay \in DOMAIN v => w[Overlay] = v[Overlay]
      BY <1>8, FixedDiffer
    <2>4. QED BY <1>1, <2>1, <2>2, <2>3, LayeredSame
  <1>17. QED BY <1>15, <1>16 DEF Complete

(* A layer more, with its files and the overlay that counts it.            *)
LEMMA AttachComplete ==
    ASSUME NEW v, Complete(v), NEW layer, layer = Layers(v) + 1,
           NEW overlay, overlay.layers = layer, NEW w,
           DOMAIN w = DOMAIN v \cup {DataName(layer), IdsName(layer), Overlay},
           w[Overlay] = overlay,
           \A n \in DOMAIN v : n \notin {DataName(layer), IdsName(layer), Overlay} => w[n] = v[n]
    PROVE  Complete(w)
  <1>1. Indexed(v) /\ Layered(v)
    BY DEF Complete
  <1>2. layer \in Nat /\ layer = Layers(v) + 1 /\ Layers(v) \in Nat
    BY <1>1 DEF Layered
  <1>3. Layers(w) = layer
    BY DEF Layers
  <1>4. ASSUME NEW n \in IndexNames \cup {Data, Schema, Manifest}
        PROVE  n \notin {DataName(layer), IdsName(layer), Overlay}
    <2>1. CASE n \in IndexNames
      BY <2>1, IndexNamesDiffer DEF FixedNames
    <2>2. CASE n \in {Data, Schema, Manifest}
      BY <2>2, FixedDiffer, ChildNames DEF FixedNames
    <2>3. QED BY <2>1, <2>2
  <1>5. Indexed(w)
    <2>1. \A n \in IndexNames \cup {Data, Schema, Manifest} : n \in DOMAIN w <=> n \in DOMAIN v
      BY <1>4
    <2>2. \A n \in IndexNames \cup {Data, Manifest} : n \in DOMAIN v => w[n] = v[n]
      BY <1>4
    <2>3. QED BY <1>1, <2>1, <2>2, IndexedSame
  <1>6. ASSUME NEW l \in 1..Layers(w) PROVE Child(l) \subseteq DOMAIN w
    <2>1. CASE l = layer
      BY <2>1, ChildNames
    <2>2. CASE l # layer
      <3>1. l \in 1..Layers(v)
        BY <1>2, <1>3, <2>2
      <3>2. QED BY <1>1, <3>1 DEF Layered
    <2>3. QED BY <2>1, <2>2
  <1>7. ASSUME NEW l \in Nat, Child(l) \cap DOMAIN w # {} PROVE l <= Layers(w)
    <2>1. PICK n \in Child(l) : n \in DOMAIN w
      BY <1>7
    <2>2. CASE n \in DOMAIN v
      <3>1. l <= Layers(v)
        BY <1>1, <2>1, <2>2 DEF Layered
      <3>2. QED BY <1>2, <1>3, <3>1
    <2>3. CASE n \notin DOMAIN v
      <3>1. n \in {DataName(layer), IdsName(layer)}
        BY <2>1, <2>3, ChildElsewhere DEF FixedNames
      <3>2. l = layer
        BY <2>1, <3>1, ChildNames
      <3>3. QED BY <1>2, <1>3, <3>2
    <2>4. QED BY <2>2, <2>3
  <1>8. Layered(w)
    BY <1>2, <1>3, <1>6, <1>7 DEF Layered
  <1>9. QED BY <1>5, <1>8 DEF Complete

(* The seal is not part of what makes a generation complete.               *)
LEMMA SealComplete ==
    ASSUME NEW v, Complete(v), NEW w,
           DOMAIN w \ {Integrity} = DOMAIN v \ {Integrity},
           \A n \in DOMAIN v \ {Integrity} : w[n] = v[n]
    PROVE  Complete(w)
  <1>1. Indexed(v) /\ Layered(v)
    BY DEF Complete
  <1>2. \A n \in IndexNames \cup {Data, Schema, Manifest, Overlay} : n # Integrity
    BY FixedDiffer, IndexNamesDiffer DEF FixedNames
  <1>3. Indexed(w)
    <2>1. \A n \in IndexNames \cup {Data, Schema, Manifest} : n \in DOMAIN w <=> n \in DOMAIN v
      BY <1>2
    <2>2. \A n \in IndexNames \cup {Data, Manifest} : n \in DOMAIN v => w[n] = v[n]
      BY <1>2
    <2>3. QED BY <1>1, <2>1, <2>2, IndexedSame
  <1>4. Layered(w)
    <2>1. \A l \in Nat : Child(l) \cap DOMAIN w = Child(l) \cap DOMAIN v
      BY ChildElsewhere DEF FixedNames
    <2>2. Overlay \in DOMAIN w <=> Overlay \in DOMAIN v
      BY <1>2
    <2>3. Overlay \in DOMAIN v => w[Overlay] = v[Overlay]
      BY <1>2
    <2>4. QED BY <1>1, <2>1, <2>2, <2>3, LayeredSame
  <1>5. QED BY <1>3, <1>4 DEF Complete

----------------------------------------------------------------------------
(* Imported datasets.                                                      *)

Fits(view) == \A x \in Indexes(view) : x.columns \subseteq DOMAIN view[Schema].columns

(* A function on the first numbers is a sequence.                          *)
LEMMA NumberedIsSequence ==
    ASSUME NEW S, NEW n \in Nat, NEW f \in [1..n -> S]
    PROVE  f \in Seq(S) /\ Len(f) = n
  <1>1. f \in Seq(S)
    BY SeqDef
  <1>2. QED BY <1>1

(* Sets of one member.                                                     *)
LEMMA SingletonsDiffer ==
    ASSUME NEW a, NEW b
    PROVE  a # b => {a} # {b}
  OBVIOUS

(* exact_specs names sets of the schema's columns, each of them once.      *)
LEMMA SpecsDiffer ==
    ASSUME NEW schema \in Seq(STRING), NEW accelerated \in BOOLEAN,
           NEW specs, specs = ExactSpecs(schema, accelerated)
    PROVE  /\ IsDisk(specs)
           /\ \A i \in DOMAIN specs : specs[i] \subseteq DOMAIN schema
           /\ \A i, j \in DOMAIN specs : i # j => specs[i] # specs[j]
  <1>1. PICK n \in Nat : n = Len(schema) /\ DOMAIN schema = 1..n
    OBVIOUS
  <1>2. CASE accelerated /\ n > 1
    <2>0. PICK m \in Nat : m = n + 1
      BY <1>1
    <2>1. specs = [i \in 1..m |-> CASE i = 1 -> {1} [] i = 2 -> 1..n [] OTHER -> {i - 1}]
      BY <1>1, <1>2, <2>0 DEF ExactSpecs
    <2>2. /\ DOMAIN specs = 1..m /\ specs[1] = {1} /\ specs[2] = 1..n
          /\ \A i \in 3..m : specs[i] = {i - 1}
      <3>1. 1 \in 1..m /\ 2 \in 1..m /\ \A i \in 3..m : i \in 1..m /\ i # 1 /\ i # 2
        BY <1>1, <1>2, <2>0
      <3>2. QED BY <2>1, <3>1, Zenon
    <2>3. \A i \in 1..m : i = 1 \/ i = 2 \/ i \in 3..m
      BY <2>0
    <2>4. specs \in Seq(SUBSET (1..n))
      <3>1. ASSUME NEW i \in 1..m PROVE specs[i] \in SUBSET (1..n)
        <4>1. CASE i = 1
          <5>1. 1 \in 1..n
            BY <1>1, <1>2
          <5>2. specs[i] = {1}
            BY <2>2, <4>1
          <5>3. {1} \in SUBSET (1..n)
            BY <5>1
          <5>4. QED BY <5>2, <5>3, Zenon
        <4>2. CASE i = 2
          BY <2>2, <4>2
        <4>3. CASE i \in 3..m
          BY <1>1, <2>0, <2>2, <4>3
        <4>4. QED BY <2>3, <4>1, <4>2, <4>3
      <3>2. specs \in [1..m -> SUBSET (1..n)]
        <4>1. DOMAIN specs = 1..m /\ specs = [i \in DOMAIN specs |-> specs[i]]
          BY <2>1
        <4>2. QED BY <3>1, <4>1
      <3>3. QED BY <2>0, <3>2, NumberedIsSequence
    <2>5. \A i \in DOMAIN specs : specs[i] \subseteq DOMAIN schema
      BY <1>1, <2>4
    <2>6. ASSUME NEW i \in DOMAIN specs, NEW j \in DOMAIN specs, i # j PROVE specs[i] # specs[j]
      <3>1. 1 \in 1..n /\ 2 \in 1..n
        BY <1>1, <1>2
      <3>2. ASSUME NEW k \in 3..m PROVE {k - 1} # {1}
        <4>1. k - 1 # 1
          BY <2>0
        <4>2. QED BY <4>1, SingletonsDiffer
      <3>3. ASSUME NEW k, 1..n = {k} PROVE FALSE
        <4>1. 1 \in {k} /\ 2 \in {k}
          BY <3>1, <3>3, Zenon
        <4>2. QED BY <4>1
      <3>4. ASSUME NEW k \in 3..m, NEW l \in 3..m, k # l PROVE {k - 1} # {l - 1}
        <4>1. k - 1 # l - 1
          BY <2>0, <3>4
        <4>2. QED BY <4>1, SingletonsDiffer
      <3>5. CASE i \in 3..m /\ j \in 3..m
        <4>1. specs[i] = {i - 1} /\ specs[j] = {j - 1}
          BY <2>2, <3>5
        <4>2. {i - 1} # {j - 1}
          BY <2>6, <3>4, <3>5, Zenon
        <4>3. QED BY <4>1, <4>2, Zenon
      <3>6. CASE i = 2 \/ j = 2
        <4>1. \A k \in DOMAIN specs : k # 2 => \E a : specs[k] = {a}
          BY <2>2, <2>3
        <4>2. specs[2] = 1..n
          BY <2>2
        <4>3. QED BY <2>6, <3>3, <3>6, <4>1, <4>2, Zenon
      <3>7. CASE (i = 1 /\ j \in 3..m) \/ (j = 1 /\ i \in 3..m)
        BY <2>2, <3>2, <3>7
      <3>8. QED BY <2>2, <2>3, <2>6, <3>5, <3>6, <3>7
    <2>7. QED BY <2>4, <2>5, <2>6, SequencesAreDisks
  <1>3. CASE ~ (accelerated /\ n > 1)
    <2>1. specs = [i \in 1..n |-> {i}]
      BY <1>1, <1>3 DEF ExactSpecs
    <2>2. specs \in [1..n -> SUBSET (1..n)]
      <3>1. \A i \in 1..n : {i} \in SUBSET (1..n)
        OBVIOUS
      <3>2. QED BY <2>1, <3>1, Zenon
    <2>3. specs \in Seq(SUBSET (1..n))
      BY <1>1, <2>2, NumberedIsSequence
    <2>4. IsDisk(specs) /\ \A i \in DOMAIN specs : specs[i] \subseteq DOMAIN schema
      BY <1>1, <2>2, <2>3, SequencesAreDisks
    <2>5. ASSUME NEW i \in DOMAIN specs, NEW j \in DOMAIN specs, i # j PROVE specs[i] # specs[j]
      BY <2>1, <2>5, SingletonsDiffer, Zenon
    <2>6. QED BY <2>4, <2>5
  <1>4. QED BY <1>2, <1>3

(* What an import writes, file by file.                                    *)
LEMMA ImportedFiles ==
    ASSUME NEW specs, IsDisk(specs), NEW data, NEW schema, NEW kind,
           NEW imported, imported = Imported(data, schema, specs, kind)
    PROVE  /\ IsDisk(imported) /\ Len(imported) = Len(specs) + 3 /\ Len(specs) \in Nat
           /\ DOMAIN specs = 1..Len(specs)
           /\ imported[1] = data /\ imported[2].columns = schema
           /\ imported[3].indexes = {Index(kind, j - 1, specs[j]) : j \in DOMAIN specs}
           /\ \A j \in DOMAIN specs : imported[j + 3] = Built(specs[j], data)
  <1>1. PICK n : n = Len(specs) /\ n \in Nat /\ DOMAIN specs = 1..n
    BY DEF IsDisk
  <1>2. PICK two, three : /\ two = [columns |-> schema]
                          /\ three = [indexes |-> {Index(kind, j - 1, specs[j]) : j \in DOMAIN specs}]
    OBVIOUS
  <1>3. imported = [i \in 1..n + 3 |-> CASE i = 1 -> data [] i = 2 -> two [] i = 3 -> three
                                         [] OTHER -> Built(specs[i - 3], data)]
    BY <1>1, <1>2 DEF Imported, Built
  <1>4. /\ 1 \in 1..n + 3 /\ 2 \in 1..n + 3 /\ 3 \in 1..n + 3 /\ n + 3 \in Nat
        /\ \A j \in 1..n : j + 3 \in 1..n + 3 /\ j + 3 # 1 /\ j + 3 # 2 /\ j + 3 # 3
        /\ \A j \in 1..n : j + 3 - 3 = j
    BY <1>1
  <1>5. imported[1] = data /\ imported[2] = two /\ imported[3] = three
    BY <1>3, <1>4
  <1>6. ASSUME NEW j \in DOMAIN specs PROVE imported[j + 3] = Built(specs[j], data)
    BY <1>1, <1>3, <1>4
  <1>7. imported = [i \in 1..n + 3 |-> imported[i]]
    BY <1>3
  <1>8. PICK S : S = {imported[i] : i \in 1..n + 3}
    OBVIOUS
  <1>9. imported \in [1..n + 3 -> S]
    BY <1>7, <1>8
  <1>10. imported \in Seq(S) /\ Len(imported) = n + 3
    BY <1>4, <1>9, NumberedIsSequence
  <1>11. IsDisk(imported)
    BY <1>10, SequencesAreDisks
  <1>12. two.columns = schema
    BY <1>2
  <1>13. three.indexes = {Index(kind, j - 1, specs[j]) : j \in DOMAIN specs}
    BY <1>2
  <1>14. QED BY <1>1, <1>5, <1>6, <1>10, <1>11, <1>12, <1>13

Placed(dir, n, specs, kind) ==
    /\ dir = [name \in DOMAIN dir |-> dir[name]]
    /\ DOMAIN dir = {Data, Schema, Manifest} \cup {IndexFile(kind, j - 1) : j \in DOMAIN specs}
    /\ dir[Data] = n + 1 /\ dir[Schema] = n + 2 /\ dir[Manifest] = n + 3
    /\ \A j \in DOMAIN specs :
         /\ IndexFile(kind, j - 1) \in IndexNames /\ IndexFile(kind, j - 1).number = j - 1
         /\ dir[IndexFile(kind, j - 1)] = n + 3 + j

(* Where they are, after n others.                                         *)
LEMMA Positions ==
    ASSUME NEW specs, IsDisk(specs), NEW kind \in {"dlt", "other"}, NEW n \in Nat,
           NEW dir, dir = DirAfter(n, specs, kind)
    PROVE  Placed(dir, n, specs, kind)
  <1>1. PICK m : m = Len(specs) /\ m \in Nat /\ DOMAIN specs = 1..m
    BY DEF IsDisk
  <1>2. /\ dir = [name \in DOMAIN dir |-> dir[name]]
        /\ DOMAIN dir = {Data, Schema, Manifest} \cup {IndexFile(kind, j - 1) : j \in DOMAIN specs}
        /\ \A name \in DOMAIN dir : dir[name] = n + Position(name)
    BY DEF DirAfter
  <1>3. Position(Data) = 1 /\ Position(Schema) = 2 /\ Position(Manifest) = 3
    BY FixedDiffer DEF Position
  <1>4. ASSUME NEW j \in DOMAIN specs
        PROVE  /\ IndexFile(kind, j - 1) \in IndexNames /\ IndexFile(kind, j - 1).number = j - 1
               /\ dir[IndexFile(kind, j - 1)] = n + 3 + j
    <2>1. PICK i : i = j - 1 /\ i \in Nat /\ j = i + 1
      BY <1>1
    <2>2. PICK file : file = IndexFile(kind, i)
      OBVIOUS
    <2>3. file \in IndexNames /\ file.number = i /\ file \in DOMAIN dir
      BY <1>2, <2>1, <2>2, IndexNamed
    <2>4. file # Data /\ file # Schema /\ file # Manifest
      BY <2>3, IndexNamesDiffer DEF FixedNames
    <2>5. Position(file) = 4 + i
      BY <2>3, <2>4 DEF Position
    <2>6. dir[file] = n + (4 + i)
      BY <1>2, <2>3, <2>5
    <2>7. n + (4 + i) = n + 3 + j
      BY <2>1
    <2>8. QED BY <2>1, <2>2, <2>3, <2>6, <2>7
  <1>5. dir[Data] = n + 1 /\ dir[Schema] = n + 2 /\ dir[Manifest] = n + 3
    BY <1>2, <1>3
  <1>6. QED BY <1>2, <1>4, <1>5 DEF Placed

Distinct(specs, schema) ==
    /\ IsDisk(specs) /\ \A i \in DOMAIN specs : specs[i] \subseteq DOMAIN schema
    /\ \A i, j \in DOMAIN specs : i # j => specs[i] # specs[j]

Follow(files, n, imported) == \A i \in 1..Len(imported) : files[n + i] = imported[i]

NewDataset(files, dir, n, imported) ==
    /\ IsDir(dir, n + Len(imported)) /\ \A m \in DOMAIN dir : dir[m] > n
    /\ Integrity \notin DOMAIN dir
    /\ Complete(View(files, dir)) /\ Fits(View(files, dir))

(* An imported dataset is complete, and its indexes fit its schema.        *)
LEMMA ImportedComplete ==
    ASSUME NEW specs, NEW schema, Distinct(specs, schema),
           NEW kind \in {"dlt", "other"}, NEW data,
           NEW imported, imported = Imported(data, schema, specs, kind),
           NEW n \in Nat, NEW dir, dir = DirAfter(n, specs, kind),
           NEW files, Follow(files, n, imported)
    PROVE  NewDataset(files, dir, n, imported)
  <1>0. /\ IsDisk(specs) /\ \A i \in DOMAIN specs : specs[i] \subseteq DOMAIN schema
        /\ \A i, j \in DOMAIN specs : i # j => specs[i] # specs[j]
        /\ \A i \in 1..Len(imported) : files[n + i] = imported[i]
    BY DEF Distinct, Follow
  <1>1. /\ Len(imported) = Len(specs) + 3 /\ Len(specs) \in Nat /\ DOMAIN specs = 1..Len(specs)
        /\ imported[1] = data /\ imported[2].columns = schema
        /\ imported[3].indexes = {Index(kind, j - 1, specs[j]) : j \in DOMAIN specs}
        /\ \A j \in DOMAIN specs : imported[j + 3] = Built(specs[j], data)
    BY <1>0, ImportedFiles
  <1>2. /\ dir = [name \in DOMAIN dir |-> dir[name]]
        /\ DOMAIN dir = {Data, Schema, Manifest} \cup {IndexFile(kind, j - 1) : j \in DOMAIN specs}
        /\ dir[Data] = n + 1 /\ dir[Schema] = n + 2 /\ dir[Manifest] = n + 3
        /\ \A j \in DOMAIN specs :
             /\ IndexFile(kind, j - 1) \in IndexNames /\ IndexFile(kind, j - 1).number = j - 1
             /\ dir[IndexFile(kind, j - 1)] = n + 3 + j
    <2>1. Placed(dir, n, specs, kind)
      BY <1>0, Positions
    <2>2. QED BY <2>1 DEF Placed
  <1>3. PICK v : v = View(files, dir)
    OBVIOUS
  <1>4. DOMAIN v = DOMAIN dir /\ \A m \in DOMAIN dir : v[m] = files[dir[m]]
    BY <1>3 DEF View
  <1>5. PICK size \in Nat : size = Len(specs) /\ DOMAIN specs = 1..size /\ Len(imported) = size + 3
    BY <1>1
  <1>6. v[Data] = data /\ v[Schema].columns = schema
        /\ Indexes(v) = {Index(kind, j - 1, specs[j]) : j \in DOMAIN specs}
    <2>1. files[n + 1] = imported[1] /\ files[n + 2] = imported[2] /\ files[n + 3] = imported[3]
      BY <1>0, <1>5
    <2>2. v[Data] = files[n + 1] /\ v[Schema] = files[n + 2] /\ v[Manifest] = files[n + 3]
      BY <1>2, <1>4
    <2>3. QED BY <1>1, <2>1, <2>2 DEF Indexes
  <1>7. ASSUME NEW j \in DOMAIN specs PROVE v[IndexFile(kind, j - 1)] = Built(specs[j], data)
    <2>1. j + 3 \in 1..Len(imported) /\ n + 3 + j = n + (j + 3)
      BY <1>5
    <2>2. files[n + (j + 3)] = imported[j + 3]
      BY <1>0, <2>1
    <2>3. dir[IndexFile(kind, j - 1)] = n + (j + 3) /\ IndexFile(kind, j - 1) \in DOMAIN dir
      BY <1>2, <2>1
    <2>4. QED BY <1>1, <1>4, <2>2, <2>3
  <1>8. ASSUME NEW x \in Indexes(v)
        PROVE  \E j \in DOMAIN specs : x.file = IndexFile(kind, j - 1) /\ x.columns = specs[j]
    BY <1>6 DEF Index
  <1>9. ASSUME NEW x \in Indexes(v) PROVE IndexIn(v, x) /\ x.columns \subseteq DOMAIN schema
    <2>1. PICK j \in DOMAIN specs : x.file = IndexFile(kind, j - 1) /\ x.columns = specs[j]
      BY <1>8
    <2>2. x.file \in IndexNames /\ x.file \in DOMAIN v
      BY <1>2, <1>4, <2>1
    <2>3. v[x.file] = Built(x.columns, v[Data])
      BY <1>6, <1>7, <2>1
    <2>4. QED BY <1>0, <2>1, <2>2, <2>3 DEF IndexIn
  <1>10. ASSUME NEW x \in Indexes(v), NEW y \in Indexes(v), x # y
         PROVE  x.file # y.file /\ x.columns # y.columns
    <2>1. PICK i \in DOMAIN specs : x = Index(kind, i - 1, specs[i])
      BY <1>6
    <2>2. PICK j \in DOMAIN specs : y = Index(kind, j - 1, specs[j])
      BY <1>6
    <2>3. i # j
      BY <1>10, <2>1, <2>2
    <2>4. i - 1 # j - 1
      BY <1>5, <2>3
    <2>5. x.file.number = i - 1 /\ y.file.number = j - 1
      BY <1>2, <2>1, <2>2 DEF Index
    <2>6. x.columns = specs[i] /\ y.columns = specs[j]
      BY <2>1, <2>2 DEF Index
    <2>7. QED BY <1>0, <2>3, <2>4, <2>5, <2>6
  <1>11. ASSUME NEW m \in DOMAIN v, m \in IndexNames PROVE \E x \in Indexes(v) : x.file = m
    <2>1. m \notin {Data, Schema, Manifest}
      BY <1>11, IndexNamesDiffer DEF FixedNames
    <2>2. PICK j \in DOMAIN specs : m = IndexFile(kind, j - 1)
      BY <1>2, <1>4, <2>1
    <2>3. Index(kind, j - 1, specs[j]) \in Indexes(v)
      BY <1>6
    <2>4. Index(kind, j - 1, specs[j]).file = m
      BY <2>2 DEF Index
    <2>5. QED BY <2>3, <2>4
  <1>12. IsFiniteSet(Indexes(v))
    <2>1. PICK T : T = Indexes(v)
      OBVIOUS
    <2>2. PICK f : f = [j \in 1..size |-> Index(kind, j - 1, specs[j])]
      OBVIOUS
    <2>3. f \in Surjection(1..size, T)
      BY <1>5, <1>6, <2>1, <2>2 DEF Surjection
    <2>4. IsFiniteSet(1..size)
      BY <1>5, FS_Interval
    <2>5. IsFiniteSet(T)
      BY <2>3, <2>4, FS_Surjection
    <2>6. QED BY <2>1, <2>5
  <1>13. Indexed(v)
    BY <1>2, <1>4, <1>9, <1>10, <1>11, <1>12 DEF Indexed
  <1>14. ASSUME NEW m \in DOMAIN dir PROVE m \in IndexNames \cup {Data, Schema, Manifest}
    BY <1>2
  <1>15. Overlay \notin DOMAIN dir /\ Integrity \notin DOMAIN dir
    BY <1>14, FixedDiffer, IndexNamesDiffer DEF FixedNames
  <1>16. \A l \in Nat : Child(l) \cap DOMAIN dir = {}
    BY <1>14, ChildElsewhere DEF FixedNames
  <1>17. Layered(v)
    BY <1>4, <1>15, <1>16 DEF Layered, Layers
  <1>18. Fits(v)
    BY <1>6, <1>9 DEF Fits
  <1>19. ASSUME NEW m \in DOMAIN dir
         PROVE  \E i \in 1..size + 3 : dir[m] = n + i
    <2>1. CASE m \in {Data, Schema, Manifest}
      BY <1>2, <1>5, <2>1
    <2>2. CASE m \notin {Data, Schema, Manifest}
      <3>1. PICK j \in DOMAIN specs : m = IndexFile(kind, j - 1)
        BY <1>2, <2>2
      <3>2. dir[m] = n + 3 + j /\ j \in 1..size
        BY <1>2, <1>5, <3>1
      <3>3. n + 3 + j = n + (j + 3) /\ j + 3 \in 1..size + 3
        <4>1. j \in 1..size /\ size \in Nat
          BY <1>5, <3>2
        <4>2. QED BY <4>1
      <3>4. dir[m] = n + (j + 3)
        BY <3>2, <3>3
      <3>5. QED BY <3>3, <3>4, Zenon
    <2>3. QED BY <2>1, <2>2
  <1>20. ASSUME NEW m1 \in DOMAIN dir, NEW m2 \in DOMAIN dir, dir[m1] = dir[m2] PROVE m1 = m2
    <2>1. ASSUME NEW m \in DOMAIN dir, m \notin {Data, Schema, Manifest}
          PROVE  \E j \in 1..size : m = IndexFile(kind, j - 1) /\ dir[m] = n + 3 + j
      <3>1. PICK j \in DOMAIN specs : m = IndexFile(kind, j - 1)
        BY <1>2, <2>1
      <3>2. dir[m] = n + 3 + j
        BY <1>2, <3>1
      <3>3. j \in 1..size
        BY <1>5
      <3>4. QED BY <3>1, <3>2, <3>3, Zenon
    <2>2. ASSUME NEW j \in 1..size
          PROVE  /\ n + 3 + j # n + 1 /\ n + 3 + j # n + 2 /\ n + 3 + j # n + 3
                 /\ \A i \in 1..size : n + 3 + i = n + 3 + j => i = j
      BY <1>5
    <2>3. n + 1 # n + 2 /\ n + 1 # n + 3 /\ n + 2 # n + 3
      OBVIOUS
    <2>4. CASE m1 \in {Data, Schema, Manifest} /\ m2 \in {Data, Schema, Manifest}
      BY <1>2, <1>20, <2>3, <2>4
    <2>5. CASE m1 \in {Data, Schema, Manifest} /\ m2 \notin {Data, Schema, Manifest}
      BY <1>2, <1>20, <2>1, <2>2, <2>5
    <2>6. CASE m1 \notin {Data, Schema, Manifest} /\ m2 \in {Data, Schema, Manifest}
      BY <1>2, <1>20, <2>1, <2>2, <2>6
    <2>7. CASE m1 \notin {Data, Schema, Manifest} /\ m2 \notin {Data, Schema, Manifest}
      <3>1. PICK i \in 1..size : m1 = IndexFile(kind, i - 1) /\ dir[m1] = n + 3 + i
        BY <2>1, <2>7
      <3>2. PICK j \in 1..size : m2 = IndexFile(kind, j - 1) /\ dir[m2] = n + 3 + j
        BY <2>1, <2>7
      <3>3. i = j
        BY <1>20, <2>2, <3>1, <3>2
      <3>4. QED BY <3>1, <3>2, <3>3
    <2>8. QED BY <2>4, <2>5, <2>6, <2>7
  <1>21. IsDir(dir, n + Len(imported)) /\ \A m \in DOMAIN dir : dir[m] > n
    <2>1. \A i \in 1..size + 3 : n + i \in 1..n + (size + 3) /\ n + i > n
      BY <1>5
    <2>2. \A m \in DOMAIN dir : dir[m] \in 1..n + Len(imported) /\ dir[m] > n
      BY <1>5, <1>19, <2>1
    <2>3. QED BY <1>2, <1>20, <2>2 DEF IsDir
  <1>22. QED BY <1>3, <1>13, <1>15, <1>17, <1>18, <1>21 DEF Complete, NewDataset

----------------------------------------------------------------------------
(* The invariant.                                                          *)

Sealed(view) == Integrity \in DOMAIN view /\ view[Integrity].entries = Less(view, {Integrity})

Published(files, dir) ==
    /\ IsDir(dir, Len(files))
    /\ Complete(View(files, dir)) /\ Fits(View(files, dir)) /\ Sealed(View(files, dir))

Generations ==
    /\ IsDisk(disk)
    /\ DOMAIN dirs \subseteq Nat /\ IsFiniteSet(DOMAIN dirs) /\ current \in DOMAIN dirs
    /\ \A g \in DOMAIN dirs : Published(disk, dirs[g])

OperationShape ==
    op.at # "none" => /\ {"at", "type", "names", "columns"} \subseteq DOMAIN op
                      /\ op.type \in {"add", "drop", "rebuild", "append"}

Staged == View(disk, stage.dir)

StageShape ==
    op.at \in {"drop", "build", "choose", "publish", "attach", "compose"} =>
        /\ {"open", "dir", "seal"} \subseteq DOMAIN stage /\ stage.open
        /\ IsDir(stage.dir, Len(disk)) /\ Integrity \notin DOMAIN stage.dir

(* Between steps the staged generation is complete, ...                    *)
StagedComplete == op.at \in {"drop", "build", "publish", "attach", "compose"} => Complete(Staged)

(* ... except for the delta file that is being written: no published       *)
(* generation has that file, and the columns have no other index.          *)
DeltaIsPrivate ==
    op.at = "choose" =>
        \E number : LET delta == IndexFile("dlt", number)
                    IN /\ number = NextHierarchyNumber(Indexes(Staged))
                       /\ Matching(Indexes(Staged), op.columns) = {}
                       /\ delta \in DOMAIN stage.dir
                       /\ \A g \in DOMAIN dirs :
                            \A n \in DOMAIN dirs[g] : dirs[g][n] # stage.dir[delta]
                       /\ Complete(Less(Staged, {delta}))

(* The seal an append starts from is that of the staged files, and after   *)
(* it has attached the layer, of all but the layer's.                      *)
SealStarts == op.at = "attach" => stage.seal = Staged

SealComposes ==
    op.at = "compose" =>
        /\ Overlay \in DOMAIN Staged
        /\ DOMAIN Staged = DOMAIN stage.seal \cup Child(Staged[Overlay].layers) \cup {Overlay}
        /\ \A n \in DOMAIN stage.seal \ {Overlay} : Staged[n] = stage.seal[n]

Inv ==
    /\ Generations /\ OperationShape /\ StageShape
    /\ StagedComplete /\ DeltaIsPrivate /\ SealStarts /\ SealComposes

(* A published generation stays one when its files do not change.          *)
LEMMA PublishedStays ==
    ASSUME NEW files, NEW dir, Published(files, dir), NEW more,
           \A n \in DOMAIN dir : dir[n] \in 1..Len(more) /\ more[dir[n]] = files[dir[n]]
    PROVE  Published(more, dir)
  <1>1. View(more, dir) = View(files, dir)
    BY ViewStays
  <1>2. IsDir(dir, Len(more))
    BY DEF Published, IsDir
  <1>3. QED BY <1>1, <1>2 DEF Published

(* So all of them stay when the files that are there do.                   *)
LEMMA GenerationsStay ==
    ASSUME Generations, UNCHANGED <<dirs, current>>, IsDisk(disk'), Len(disk) <= Len(disk'),
           \A g \in DOMAIN dirs : \A n \in DOMAIN dirs[g] : disk'[dirs[g][n]] = disk[dirs[g][n]]
    PROVE  Generations'
  <1>1. ASSUME NEW g \in DOMAIN dirs PROVE Published(disk', dirs[g])
    <2>1. PICK dir : dir = dirs[g]
      OBVIOUS
    <2>2. Published(disk, dir)
      BY <2>1 DEF Generations
    <2>3. Len(disk) \in Nat /\ Len(disk') \in Nat
      BY DEF Generations, IsDisk
    <2>4. \A n \in DOMAIN dir : dir[n] \in 1..Len(disk)
      BY <2>2 DEF Published, IsDir
    <2>5. \A n \in DOMAIN dir : dir[n] \in 1..Len(disk') /\ disk'[dir[n]] = disk[dir[n]]
      BY <2>1, <2>3, <2>4
    <2>6. QED BY <2>1, <2>2, <2>5, PublishedStays
  <1>2. QED BY <1>1 DEF Generations

(* A change of the operation's place keeps what else it is.                *)
LEMMA OperationMoves ==
    ASSUME OperationShape, op.at # "none", NEW x, op' = [op EXCEPT !.at = x]
    PROVE  OperationShape' /\ op'.at = x /\ op'.columns = op.columns /\ op'.type = op.type
  <1>1. {"at", "type", "names", "columns"} \subseteq DOMAIN op
        /\ op.type \in {"add", "drop", "rebuild", "append"}
    BY DEF OperationShape
  <1>2. DOMAIN op' = DOMAIN op /\ op'.at = x /\ op'.type = op.type /\ op'.columns = op.columns
    BY <1>1
  <1>3. QED BY <1>1, <1>2 DEF OperationShape

(* A change of the staging directory keeps its seal.                       *)
LEMMA StageMoves ==
    ASSUME {"open", "dir", "seal"} \subseteq DOMAIN stage, stage.open,
           NEW dir, stage' = [stage EXCEPT !.dir = dir]
    PROVE  /\ {"open", "dir", "seal"} \subseteq DOMAIN stage' /\ stage'.open
           /\ stage'.dir = dir /\ stage'.seal = stage.seal
  <1>1. stage'.open = stage.open
    OBVIOUS
  <1>2. stage'.open
    BY <1>1
  <1>3. QED BY <1>2

----------------------------------------------------------------------------
(* Publication.                                                            *)

(* Sealing a complete directory.                                           *)
LEMMA SealPublishes ==
    ASSUME NEW files, IsDisk(files), NEW dir, IsDir(dir, Len(files)), Integrity \notin DOMAIN dir,
           Complete(View(files, dir)), Fits(View(files, dir)),
           NEW seal, seal.entries = View(files, dir),
           NEW sealed, sealed = Replace(files, dir, Integrity, seal)
    PROVE  /\ Published(sealed.disk, sealed.dir)
           /\ IsDisk(sealed.disk) /\ Len(files) \in Nat /\ Len(files) <= Len(sealed.disk)
           /\ \A i \in 1..Len(files) : sealed.disk[i] = files[i]
  <1>1. /\ Written(files, dir, sealed, Integrity, seal)
        /\ \A i \in 1..Len(files) : sealed.disk[i] = files[i]
    BY ReplaceEffect
  <1>2. PICK v, w : v = View(files, dir) /\ w = View(sealed.disk, sealed.dir)
    OBVIOUS
  <1>3. w = With(v, Integrity, seal) /\ DOMAIN v = DOMAIN dir
    BY <1>1, <1>2 DEF Written, View
  <1>4. /\ DOMAIN w = DOMAIN v \cup {Integrity} /\ w[Integrity] = seal
        /\ \A n \in DOMAIN v : n # Integrity => w[n] = v[n]
    BY <1>3 DEF With
  <1>5. Complete(w)
    <2>1. DOMAIN w \ {Integrity} = DOMAIN v \ {Integrity}
      BY <1>4
    <2>2. \A n \in DOMAIN v \ {Integrity} : w[n] = v[n]
      BY <1>4
    <2>3. QED BY <1>2, <2>1, <2>2, SealComplete
  <1>6. Fits(w)
    <2>1. Schema \in DOMAIN v /\ Manifest \in DOMAIN v
      BY <1>2 DEF Complete, Indexed
    <2>2. w[Schema] = v[Schema] /\ w[Manifest] = v[Manifest]
      BY <1>4, <2>1, FixedDiffer
    <2>3. QED BY <1>2, <2>2 DEF Fits, Indexes
  <1>7. Sealed(w)
    <2>1. Less(w, {Integrity}) = v
      <3>1. DOMAIN v = DOMAIN w \ {Integrity} /\ \A n \in DOMAIN v : v[n] = w[n]
        BY <1>3, <1>4
      <3>2. v = [n \in DOMAIN v |-> v[n]]
        BY <1>2 DEF View
      <3>3. QED BY <3>1, <3>2 DEF Less
    <2>2. QED BY <1>2, <1>4, <2>1 DEF Sealed
  <1>8. Published(sealed.disk, sealed.dir)
    BY <1>1, <1>2, <1>5, <1>6, <1>7 DEF Published, Written
  <1>9. QED BY <1>1, <1>8 DEF Written

(* Publishing a complete directory with a seal of all its files.           *)
LEMMA RenamePublishes ==
    ASSUME Generations, NEW files, IsDisk(files), Len(disk) <= Len(files),
           \A i \in 1..Len(disk) : files[i] = disk[i],
           NEW dir, IsDir(dir, Len(files)), Integrity \notin DOMAIN dir,
           Complete(View(files, dir)), Fits(View(files, dir)),
           NEW entries, entries = View(files, dir), Rename(files, dir, entries)
    PROVE  Generations'
  <1>1. PICK seal : seal = [entries |-> entries]
    OBVIOUS
  <1>2. PICK sealed : sealed = Replace(files, dir, Integrity, seal)
    OBVIOUS
  <1>3. PICK id : id = Max(DOMAIN dirs) + 1
    OBVIOUS
  <1>4. /\ disk' = sealed.disk /\ current' = id
        /\ dirs' = [g \in DOMAIN dirs \cup {id} |-> IF g = id THEN sealed.dir ELSE dirs[g]]
    BY <1>1, <1>2, <1>3 DEF Rename
  <1>5. seal.entries = View(files, dir)
    BY <1>1
  <1>6. /\ Published(disk', sealed.dir)
         /\ IsDisk(disk') /\ Len(files) \in Nat /\ Len(files) <= Len(disk')
         /\ \A i \in 1..Len(files) : disk'[i] = files[i]
    BY <1>2, <1>4, <1>5, SealPublishes
  <1>7. ASSUME NEW g \in DOMAIN dirs PROVE Published(disk', dirs[g])
    <2>1. PICK old : old = dirs[g]
      OBVIOUS
    <2>2. Published(disk, old)
      BY <2>1 DEF Generations
    <2>3. \A n \in DOMAIN old : old[n] \in 1..Len(disk)
      BY <2>2 DEF Published, IsDir
    <2>4. Len(disk) \in Nat /\ Len(files) \in Nat /\ Len(files) <= Len(disk') /\ Len(disk') \in Nat
      BY <1>6 DEF Generations, IsDisk
    <2>5. \A n \in DOMAIN old : old[n] \in 1..Len(disk') /\ disk'[old[n]] = disk[old[n]]
      BY <1>6, <2>3, <2>4
    <2>6. QED BY <2>1, <2>2, <2>5, PublishedStays
  <1>8. id \in Nat /\ id \notin DOMAIN dirs
    <2>1. DOMAIN dirs \in SUBSET Int /\ IsFiniteSet(DOMAIN dirs) /\ DOMAIN dirs # {}
      BY DEF Generations
    <2>2. PICK m : m = Max(DOMAIN dirs)
      OBVIOUS
    <2>3. m \in DOMAIN dirs /\ \A g \in DOMAIN dirs : g <= m
      BY <2>1, <2>2, LargestOf
    <2>4. m \in Nat /\ id = m + 1 /\ \A g \in DOMAIN dirs : g \in Nat
      BY <1>3, <2>2, <2>3 DEF Generations
    <2>5. QED BY <2>3, <2>4
  <1>9. DOMAIN dirs' = DOMAIN dirs \cup {id} /\ dirs'[id] = sealed.dir
         /\ \A g \in DOMAIN dirs : dirs'[g] = dirs[g]
    BY <1>4, <1>8
  <1>10. DOMAIN dirs' \subseteq Nat /\ current' \in DOMAIN dirs'
    BY <1>4, <1>8, <1>9 DEF Generations
  <1>11. IsFiniteSet(DOMAIN dirs')
    <2>1. IsFiniteSet(DOMAIN dirs) /\ IsFiniteSet({id})
      BY FS_Singleton DEF Generations
    <2>2. QED BY <1>9, <2>1, FS_Union
  <1>12. \A g \in DOMAIN dirs' : Published(disk', dirs'[g])
    BY <1>6, <1>7, <1>9
  <1>13. QED BY <1>6, <1>10, <1>11, <1>12 DEF Generations

(* When no operation is in progress nothing is said of the stage.          *)
LEMMA Idle ==
    ASSUME op = NoOp
    PROVE  OperationShape /\ StageShape /\ StagedComplete /\ DeltaIsPrivate /\ SealStarts /\ SealComposes
  <1>1. op.at = "none"
    BY DEF NoOp
  <1>2. QED BY <1>1 DEF OperationShape, StageShape, StagedComplete, DeltaIsPrivate, SealStarts, SealComposes

(* The same after a step that ends it.                                     *)
LEMMA IdleNext ==
    ASSUME op' = NoOp
    PROVE  /\ OperationShape' /\ StageShape' /\ StagedComplete' /\ DeltaIsPrivate' /\ SealStarts'
           /\ SealComposes'
  <1>1. op'.at = "none"
    BY DEF NoOp
  <1>2. QED BY <1>1 DEF OperationShape, StageShape, StagedComplete, DeltaIsPrivate, SealStarts, SealComposes

----------------------------------------------------------------------------
(* The steps.                                                              *)

(* The first import.                                                       *)
LEMMA InitHolds == Init => Inv
  <1> SUFFICES ASSUME Init PROVE Inv
    OBVIOUS
  <1>1. PICK schema \in Schemas, kind \in {"dlt", "other"} :
          LET specs == ExactSpecs(schema, TRUE)
              files == Imported([import |-> 1], schema, specs, kind)
              dir == DirAfter(0, specs, kind)
              entries == [name \in DOMAIN dir |-> files[dir[name]]]
              sealed == Replace(files, dir, Integrity, [entries |-> entries])
          IN /\ disk = sealed.disk
             /\ dirs = [g \in {1} |-> sealed.dir]
             /\ current = 1 /\ stage = NoStage /\ op = NoOp
    BY DEF Init
  <1>2. PICK specs, data : specs = ExactSpecs(schema, TRUE) /\ data = [import |-> 1]
    OBVIOUS
  <1>3. PICK files, dir : files = Imported(data, schema, specs, kind) /\ dir = DirAfter(0, specs, kind)
    OBVIOUS
  <1>4. PICK v : v = View(files, dir)
    OBVIOUS
  <1>5. PICK seal : seal = [entries |-> v]
    OBVIOUS
  <1>6. PICK sealed : sealed = Replace(files, dir, Integrity, seal)
    OBVIOUS
  <1>7. disk = sealed.disk /\ dirs = [g \in {1} |-> sealed.dir] /\ current = 1 /\ op = NoOp
    BY <1>1, <1>2, <1>3, <1>4, <1>5, <1>6 DEF View
  <1>8. Distinct(specs, schema)
    <2>1. schema \in Seq(STRING)
      BY GenerationFilesAssumption
    <2>2. PICK accelerated \in BOOLEAN : specs = ExactSpecs(schema, accelerated)
      <3>1. TRUE \in BOOLEAN
        OBVIOUS
      <3>2. QED BY <1>2, <3>1, Zenon
    <2>3. QED BY <2>1, <2>2, SpecsDiffer DEF Distinct
  <1>9. IsDisk(files) /\ Len(files) \in Nat
    <2>1. IsDisk(files)
      BY <1>3, <1>8, ImportedFiles DEF Distinct
    <2>2. QED BY <2>1 DEF IsDisk
  <1>10. /\ IsDir(dir, Len(files)) /\ Integrity \notin DOMAIN dir /\ Complete(v) /\ Fits(v)
    <2>1. \A i \in 1..Len(files) : files[0 + i] = files[i]
      BY <1>9
    <2>2. NewDataset(files, dir, 0, files)
      BY <1>3, <1>8, <2>1, ImportedComplete DEF Follow
    <2>3. 0 + Len(files) = Len(files)
      BY <1>9
    <2>4. QED BY <1>4, <2>2, <2>3 DEF NewDataset
  <1>11. seal.entries = View(files, dir)
    BY <1>4, <1>5
  <1>12. Published(sealed.disk, sealed.dir) /\ IsDisk(sealed.disk)
    BY <1>4, <1>6, <1>9, <1>10, <1>11, SealPublishes
  <1>13. DOMAIN dirs = {1} /\ dirs[1] = sealed.dir
    BY <1>7
  <1>14. Generations
    BY <1>7, <1>12, <1>13, FS_Singleton DEF Generations
  <1>15. QED BY <1>7, <1>14, Idle DEF Inv

(* Generations do not depend on the operation and the stage.               *)
LEMMA GenerationsUnchanged ==
    ASSUME Generations, UNCHANGED <<disk, dirs, current>>
    PROVE  Generations'
  BY DEF Generations

(* A request begins.                                                       *)
LEMMA RequestKeeps ==
    ASSUME Inv, NEW type \in {"add", "drop", "rebuild", "append"}, NEW names, NEW columns,
           op' = [at |-> "validated", type |-> type, names |-> names, columns |-> columns],
           UNCHANGED <<disk, dirs, current, stage>>
    PROVE  Inv'
  <1>1. /\ op'.at = "validated" /\ op'.type = type
        /\ DOMAIN op' = {"at", "type", "names", "columns"}
    OBVIOUS
  <1>2. OperationShape'
    BY <1>1 DEF OperationShape
  <1>3. StageShape' /\ StagedComplete' /\ DeltaIsPrivate' /\ SealStarts' /\ SealComposes'
    BY <1>1 DEF StageShape, StagedComplete, DeltaIsPrivate, SealStarts, SealComposes
  <1>4. Generations'
    BY GenerationsUnchanged DEF Inv
  <1>5. QED BY <1>2, <1>3, <1>4 DEF Inv

(* The staging directory begins as a complete copy of CURRENT.             *)
LEMMA CloneKeeps ==
    ASSUME Inv, CloneCurrent
    PROVE  Inv'
  <1>1. PICK dir, seal, opened : /\ dir = Unlink(dirs[current], {Integrity})
                                 /\ seal = Read(dirs[current], Integrity).entries
                                 /\ opened /\ stage' = [open |-> opened, dir |-> dir, seal |-> seal]
    BY Zenon DEF CloneCurrent, CloneTreeLink
  <1>2. stage'.dir = dir /\ stage'.seal = seal /\ {"open", "dir", "seal"} \subseteq DOMAIN stage' /\ stage'.open
    <2>1. stage'.open = opened
      BY <1>1
    <2>2. QED BY <1>1, <2>1
  <1>3. op.at = "validated" /\ OperationShape
    BY DEF Inv, CloneCurrent
  <1>4. PICK at : /\ op' = [op EXCEPT !.at = at] /\ at \in {"build", "drop", "attach"}
    BY <1>3 DEF CloneCurrent, OperationShape
  <1>5. OperationShape' /\ op'.at = at
    BY <1>3, <1>4, OperationMoves
  <1>6. PICK old : old = dirs[current]
    OBVIOUS
  <1>7. Published(disk, old)
    BY <1>6 DEF Inv, Generations
  <1>8. PICK v, w : v = View(disk, old) /\ w = View(disk, dir)
    OBVIOUS
  <1>9. IsDir(dir, Len(disk)) /\ w = Less(v, {Integrity}) /\ DOMAIN dir = DOMAIN old \ {Integrity}
    <2>1. dir = Unlink(old, {Integrity}) /\ IsDir(old, Len(disk))
      BY <1>1, <1>6, <1>7 DEF Published
    <2>2. IsDir(dir, Len(disk))
      BY <2>1, UnlinkEffect
    <2>3. View(disk, dir) = Less(View(disk, old), {Integrity}) /\ DOMAIN dir = DOMAIN old \ {Integrity}
      BY <2>1 DEF Unlink, View, Less
    <2>4. QED BY <1>8, <2>2, <2>3
  <1>10. /\ DOMAIN w = DOMAIN v \ {Integrity} /\ \A n \in DOMAIN v \ {Integrity} : w[n] = v[n]
    BY <1>9 DEF Less
  <1>11. Complete(w)
    <2>1. DOMAIN w \ {Integrity} = DOMAIN v \ {Integrity}
      BY <1>10
    <2>2. Complete(v)
      BY <1>7, <1>8 DEF Published
    <2>3. QED BY <1>10, <2>1, <2>2, SealComplete
  <1>12. seal = w
    <2>1. Integrity \in DOMAIN v /\ v[Integrity].entries = Less(v, {Integrity})
      BY <1>7, <1>8 DEF Published, Sealed
    <2>2. v[Integrity] = Read(old, Integrity)
      BY <1>8, <2>1 DEF View, Read
    <2>3. QED BY <1>1, <1>6, <1>9, <2>1, <2>2
  <1>13. UNCHANGED <<disk, dirs, current>>
    BY DEF CloneCurrent
  <1>14. Staged' = w
    BY <1>2, <1>8, <1>13 DEF Staged
  <1>15. StageShape'
    BY <1>2, <1>9, <1>13 DEF StageShape
  <1>16. StagedComplete' /\ SealStarts'
    BY <1>2, <1>11, <1>12, <1>14 DEF StagedComplete, SealStarts
  <1>17. DeltaIsPrivate' /\ SealComposes'
    BY <1>4, <1>5 DEF DeltaIsPrivate, SealComposes
  <1>18. Generations'
    BY <1>13, GenerationsUnchanged DEF Inv
  <1>19. QED BY <1>5, <1>15, <1>16, <1>17, <1>18 DEF Inv

(* The manifest of the staging directory.                                  *)
LEMMA StagedIndexes ==
    ASSUME Manifest \in DOMAIN stage.dir
    PROVE  StageIndexes = Indexes(Staged)
  BY DEF StageIndexes, Indexes, Staged, View, Read

(* Indexes are dropped.                                                    *)
LEMMA DropKeeps ==
    ASSUME Inv, DropFromStage
    PROVE  Inv'
  <1>1. PICK matches, gone, manifest :
          /\ matches = Matching(StageIndexes, op.columns) /\ gone = {x.file : x \in matches}
          /\ manifest = [indexes |-> StageIndexes \ matches]
    OBVIOUS
  <1>2. PICK less : less = Unlink(stage.dir, gone)
    OBVIOUS
  <1>3. PICK written : written = Replace(disk, less, Manifest, manifest)
    OBVIOUS
  <1>4. PICK at : at \in {"publish", "build"} /\ op' = [op EXCEPT !.at = at]
    BY DEF DropFromStage
  <1>5. /\ op.at = "drop" /\ disk' = written.disk /\ stage' = [stage EXCEPT !.dir = written.dir]
        /\ UNCHANGED <<dirs, current>>
    BY <1>1, <1>2, <1>3 DEF DropFromStage
  <1>6. OperationShape' /\ op'.at = at
    BY <1>4, <1>5, OperationMoves DEF Inv
  <1>7. /\ {"open", "dir", "seal"} \subseteq DOMAIN stage /\ stage.open /\ IsDir(stage.dir, Len(disk))
        /\ Integrity \notin DOMAIN stage.dir /\ Complete(Staged) /\ IsDisk(disk)
    BY <1>5 DEF Inv, StageShape, StagedComplete, Generations
  <1>8. stage'.dir = written.dir /\ {"open", "dir", "seal"} \subseteq DOMAIN stage' /\ stage'.open
    BY <1>5, <1>7, StageMoves
  <1>9. PICK v, u : v = Staged /\ u = View(disk, less)
    OBVIOUS
  <1>10. DOMAIN v = DOMAIN stage.dir /\ Manifest \in DOMAIN stage.dir
    BY <1>7, <1>9 DEF Staged, View, Complete, Indexed
  <1>11. StageIndexes = Indexes(v)
    BY <1>9, <1>10, StagedIndexes
  <1>12. matches \subseteq Indexes(v)
    BY <1>1, <1>11 DEF Matching
  <1>13. /\ IsDir(less, Len(disk)) /\ u = Less(v, gone) /\ DOMAIN less = DOMAIN stage.dir \ gone
    <2>1. IsDir(less, Len(disk))
      BY <1>2, <1>7, UnlinkEffect
    <2>2. View(disk, less) = Less(View(disk, stage.dir), gone) /\ DOMAIN less = DOMAIN stage.dir \ gone
      BY <1>2 DEF Unlink, View, Less
    <2>3. QED BY <1>9, <2>1, <2>2 DEF Staged
  <1>14. /\ Written(disk, less, written, Manifest, manifest)
         /\ \A i \in 1..Len(disk) : written.disk[i] = disk[i]
         /\ DOMAIN written.dir = DOMAIN less \cup {Manifest}
    BY <1>3, <1>7, <1>13, ReplaceEffect
  <1>15. PICK w : w = View(disk', written.dir)
    OBVIOUS
  <1>16. w = With(u, Manifest, manifest)
    BY <1>5, <1>9, <1>14, <1>15 DEF Written
  <1>17. manifest.indexes = Indexes(v) \ matches
    BY <1>1, <1>11
  <1>18. Complete(w)
    BY <1>1, <1>7, <1>9, <1>12, <1>13, <1>16, <1>17, DropComplete
  <1>19. Staged' = w
    BY <1>8, <1>15 DEF Staged
  <1>20. Integrity \notin DOMAIN written.dir
    BY <1>7, <1>13, <1>14, FixedDiffer
  <1>21. StageShape'
    BY <1>5, <1>8, <1>14, <1>20 DEF StageShape, Written
  <1>22. StagedComplete'
    BY <1>18, <1>19 DEF StagedComplete
  <1>23. DeltaIsPrivate' /\ SealStarts' /\ SealComposes'
    BY <1>4, <1>6 DEF DeltaIsPrivate, SealStarts, SealComposes
  <1>24. Generations'
    <2>1. \A g \in DOMAIN dirs : IsDir(dirs[g], Len(disk))
      BY DEF Inv, Generations, Published
    <2>2. \A g \in DOMAIN dirs : \A n \in DOMAIN dirs[g] : disk'[dirs[g][n]] = disk[dirs[g][n]]
      BY <1>5, <1>14, <2>1 DEF IsDir
    <2>3. QED BY <1>5, <1>14, <2>2, GenerationsStay DEF Inv, Written
  <1>25. QED BY <1>6, <1>21, <1>22, <1>23, <1>24 DEF Inv

(* A file that is new to the disk is in no published generation.           *)
LEMMA PublishedFiles ==
    ASSUME Generations, NEW g \in DOMAIN dirs, NEW n \in DOMAIN dirs[g]
    PROVE  dirs[g][n] \in 1..Len(disk) /\ Len(disk) \in Nat
  <1>1. IsDir(dirs[g], Len(disk))
    BY DEF Generations, Published
  <1>2. QED BY <1>1 DEF IsDir, Generations, IsDisk

(* The delta file is started.                                              *)
LEMMA DeltaKeeps ==
    ASSUME Inv, CreateDelta
    PROVE  Inv'
  <1>1. PICK number : number = NextHierarchyNumber(StageIndexes)
    OBVIOUS
  <1>2. PICK delta : delta = IndexFile("dlt", number)
    OBVIOUS
  <1>3. PICK partial : partial = [whole |-> FALSE]
    OBVIOUS
  <1>4. PICK written : written = Create(disk, stage.dir, delta, partial)
    OBVIOUS
  <1>5. /\ op.at = "build" /\ Matching(StageIndexes, op.columns) = {} /\ disk' = written.disk
        /\ stage' = [stage EXCEPT !.dir = written.dir] /\ op' = [op EXCEPT !.at = "choose"]
        /\ UNCHANGED <<dirs, current>>
    BY <1>1, <1>2, <1>3, <1>4, Zenon DEF CreateDelta
  <1>6. OperationShape' /\ op'.at = "choose" /\ op'.columns = op.columns
    BY <1>5, OperationMoves DEF Inv
  <1>7. /\ {"open", "dir", "seal"} \subseteq DOMAIN stage /\ stage.open /\ IsDir(stage.dir, Len(disk))
        /\ Integrity \notin DOMAIN stage.dir /\ Complete(Staged) /\ IsDisk(disk)
    BY <1>5 DEF Inv, StageShape, StagedComplete, Generations
  <1>8. stage'.dir = written.dir /\ {"open", "dir", "seal"} \subseteq DOMAIN stage' /\ stage'.open
    BY <1>5, <1>7, StageMoves
  <1>9. PICK v, w : v = Staged /\ w = View(disk', written.dir)
    OBVIOUS
  <1>10. DOMAIN v = DOMAIN stage.dir /\ v = [n \in DOMAIN v |-> v[n]] /\ Manifest \in DOMAIN v
    BY <1>7, <1>9 DEF Staged, View, Complete, Indexed
  <1>11. StageIndexes = Indexes(v)
    BY <1>9, <1>10, StagedIndexes
  <1>12. delta \notin DOMAIN v /\ number \in Nat
    BY <1>1, <1>2, <1>7, <1>9, <1>11, NextNumber DEF Complete
  <1>13. delta \in IndexNames /\ delta # Manifest /\ delta # Integrity
    <2>1. delta \in IndexNames
      BY <1>2, <1>12, IndexNamed
    <2>2. QED BY <2>1, IndexNamesDiffer DEF FixedNames
  <1>14. written = Replace(disk, stage.dir, delta, partial)
    BY <1>4, <1>10, <1>12, CreateIsReplace
  <1>15. /\ Written(disk, stage.dir, written, delta, partial)
         /\ \A i \in 1..Len(disk) : written.disk[i] = disk[i]
         /\ written.dir[delta] = Len(disk) + 1 /\ DOMAIN written.dir = DOMAIN stage.dir \cup {delta}
    BY <1>7, <1>14, ReplaceEffect
  <1>16. w = With(v, delta, partial)
    BY <1>5, <1>9, <1>15 DEF Written, Staged
  <1>17. DOMAIN w = DOMAIN v \cup {delta} /\ \A n \in DOMAIN v : w[n] = v[n]
    BY <1>12, <1>16 DEF With
  <1>18. Less(w, {delta}) = v
    <2>1. DOMAIN v = DOMAIN w \ {delta}
      BY <1>12, <1>17
    <2>2. QED BY <1>10, <1>17, <2>1 DEF Less
  <1>19. Indexes(w) = Indexes(v)
    BY <1>10, <1>17 DEF Indexes
  <1>20. Staged' = w
    BY <1>8, <1>9 DEF Staged
  <1>21. DeltaIsPrivate'
    <2>1. number = NextHierarchyNumber(Indexes(w)) /\ Matching(Indexes(w), op'.columns) = {}
      BY <1>1, <1>5, <1>6, <1>11, <1>19
    <2>2. delta \in DOMAIN stage'.dir /\ stage'.dir[delta] = Len(disk) + 1
      BY <1>8, <1>15
    <2>3. ASSUME NEW g \in DOMAIN dirs', NEW n \in DOMAIN dirs'[g]
          PROVE  dirs'[g][n] # stage'.dir[delta]
      <3>1. dirs'[g][n] \in 1..Len(disk) /\ Len(disk) \in Nat
        BY <1>5, PublishedFiles DEF Inv
      <3>2. QED BY <2>2, <3>1
    <2>4. Complete(Less(w, {delta}))
      BY <1>7, <1>9, <1>18
    <2>5. QED BY <1>2, <1>20, <2>1, <2>2, <2>3, <2>4 DEF DeltaIsPrivate
  <1>22. Integrity \notin DOMAIN written.dir
    BY <1>7, <1>13, <1>15
  <1>23. StageShape'
    BY <1>5, <1>8, <1>15, <1>22 DEF StageShape, Written
  <1>24. StagedComplete' /\ SealStarts' /\ SealComposes'
    BY <1>6 DEF StagedComplete, SealStarts, SealComposes
  <1>25. Generations'
    <2>1. \A g \in DOMAIN dirs : \A n \in DOMAIN dirs[g] : disk'[dirs[g][n]] = disk[dirs[g][n]]
      BY <1>5, <1>15, PublishedFiles DEF Inv
    <2>2. QED BY <1>5, <1>15, <2>1, GenerationsStay DEF Inv, Written
  <1>26. QED BY <1>6, <1>21, <1>23, <1>24, <1>25 DEF Inv

(* The index is written into the delta file, which is private, or into a   *)
(* file of its own; either way the rest is the complete generation that    *)
(* the delta file was added to.                                            *)
LEMMA IndexBuilt ==
    ASSUME Inv, op.at = "choose", NEW kind \in {"dlt", "other"},
           NEW number, number = NextHierarchyNumber(StageIndexes),
           NEW delta, delta = IndexFile("dlt", number), NEW file, file = IndexFile(kind, number),
           NEW contents, NEW v, v = Less(Staged, {delta}), NEW built,
           built = Create(disk, IF kind = "dlt" THEN stage.dir ELSE Unlink(stage.dir, {delta}),
                          file, contents)
    PROVE  /\ Complete(v) /\ Indexes(v) = StageIndexes /\ Matching(Indexes(v), op.columns) = {}
           /\ v[Data] = Read(stage.dir, Data)
           /\ IsDisk(built.disk) /\ Len(disk) \in Nat /\ Len(disk) <= Len(built.disk)
           /\ IsDir(built.dir, Len(built.disk)) /\ Integrity \notin DOMAIN built.dir
           /\ View(built.disk, built.dir) = With(v, file, contents)
           /\ \A g \in DOMAIN dirs :
                \A n \in DOMAIN dirs[g] : built.disk[dirs[g][n]] = disk[dirs[g][n]]
  <1>1. /\ IsDir(stage.dir, Len(disk)) /\ Integrity \notin DOMAIN stage.dir /\ IsDisk(disk)
    BY DEF Inv, StageShape, Generations
  <1>2. PICK s : s = Staged
    OBVIOUS
  <1>3. PICK num : LET d == IndexFile("dlt", num)
                   IN /\ num = NextHierarchyNumber(Indexes(s)) /\ Matching(Indexes(s), op.columns) = {}
                      /\ d \in DOMAIN stage.dir
                      /\ \A g \in DOMAIN dirs : \A n \in DOMAIN dirs[g] : dirs[g][n] # stage.dir[d]
                      /\ Complete(Less(s, {d}))
    BY <1>2 DEF Inv, DeltaIsPrivate
  <1>4. DOMAIN s = DOMAIN stage.dir /\ \A n \in DOMAIN stage.dir : s[n] = Read(stage.dir, n)
    BY <1>2 DEF Staged, View, Read
  <1>5. Manifest \in DOMAIN s
    BY <1>3 DEF Complete, Indexed, Less
  <1>6. StageIndexes = Indexes(s)
    BY <1>2, <1>4, <1>5, StagedIndexes
  <1>7. /\ delta \in DOMAIN stage.dir /\ Matching(Indexes(s), op.columns) = {} /\ Complete(v)
        /\ \A g \in DOMAIN dirs : \A n \in DOMAIN dirs[g] : dirs[g][n] # stage.dir[delta]
    BY <1>2, <1>3, <1>6
  <1>8. DOMAIN v = DOMAIN s \ {delta} /\ \A n \in DOMAIN v : v[n] = s[n]
    BY <1>2 DEF Less
  <1>9. Manifest \in DOMAIN v /\ Data \in DOMAIN v
    BY <1>7 DEF Complete, Indexed
  <1>10. Indexes(v) = Indexes(s) /\ v[Data] = Read(stage.dir, Data)
    BY <1>4, <1>8, <1>9 DEF Indexes
  <1>11. number \in Nat /\ file \notin DOMAIN v /\ file \in IndexNames /\ file # Integrity
    <2>1. number \in Nat /\ file \notin DOMAIN v
      BY <1>6, <1>7, <1>10, NextNumber DEF Complete
    <2>2. file \in IndexNames
      BY <2>1, IndexNamed
    <2>3. QED BY <2>1, <2>2, IndexNamesDiffer DEF FixedNames
  <1>12. CASE kind = "dlt"
    <2>1. file = delta /\ built = Create(disk, stage.dir, file, contents)
      BY <1>12
    <2>2. /\ Written(disk, stage.dir, built, file, contents) /\ built.dir = stage.dir
          /\ \A i \in 1..Len(disk) : i # stage.dir[file] => built.disk[i] = disk[i]
      <3>1. file \in DOMAIN stage.dir
        BY <1>7, <2>1
      <3>2. PICK dir : dir = stage.dir
        OBVIOUS
      <3>3. IsDisk(disk) /\ IsDir(dir, Len(disk)) /\ file \in DOMAIN dir
        BY <1>1, <3>1, <3>2
      <3>4. PICK written : written = Create(disk, dir, file, contents)
        OBVIOUS
      <3>5. /\ Written(disk, dir, written, file, contents) /\ written.dir = dir
            /\ \A i \in 1..Len(disk) : i # dir[file] => written.disk[i] = disk[i]
        BY <3>3, <3>4, CreateEffect
      <3>6. QED BY <2>1, <3>2, <3>4, <3>5, Zenon
    <2>3. With(s, file, contents) = With(v, file, contents)
      <3>1. DOMAIN s \cup {file} = DOMAIN v \cup {file}
        BY <1>8, <2>1
      <3>2. \A n \in DOMAIN v \cup {file} : n # file => s[n] = v[n]
        BY <1>8
      <3>3. QED BY <3>1, <3>2 DEF With
    <2>4. View(built.disk, built.dir) = With(v, file, contents)
      BY <1>2, <2>2, <2>3 DEF Written, Staged
    <2>5. \A g \in DOMAIN dirs : \A n \in DOMAIN dirs[g] : built.disk[dirs[g][n]] = disk[dirs[g][n]]
      BY <1>7, <2>1, <2>2, PublishedFiles DEF Inv
    <2>6. QED BY <1>1, <1>6, <1>7, <1>10, <2>2, <2>4, <2>5 DEF Written
  <1>13. CASE kind = "other"
    <2>1. PICK less : less = Unlink(stage.dir, {delta})
      OBVIOUS
    <2>2. built = Create(disk, less, file, contents)
      BY <1>13, <2>1
    <2>3. IsDir(less, Len(disk))
      BY <1>1, <2>1, UnlinkEffect
    <2>4. View(disk, less) = v /\ DOMAIN less = DOMAIN stage.dir \ {delta}
      BY <2>1 DEF Unlink, View, Less, Staged
    <2>5. file \notin DOMAIN less
      BY <1>4, <1>8, <1>11, <2>4
    <2>6. built = Replace(disk, less, file, contents)
      BY <2>2, <2>5, CreateIsReplace
    <2>7. /\ Written(disk, less, built, file, contents)
          /\ \A i \in 1..Len(disk) : built.disk[i] = disk[i]
          /\ DOMAIN built.dir = DOMAIN less \cup {file}
      <3>1. PICK written : written = Replace(disk, less, file, contents)
        OBVIOUS
      <3>2. IsDisk(disk) /\ IsDir(less, Len(disk))
        BY <1>1, <2>3
      <3>3. /\ Written(disk, less, written, file, contents)
            /\ \A i \in 1..Len(disk) : written.disk[i] = disk[i]
            /\ DOMAIN written.dir = DOMAIN less \cup {file}
        BY <3>1, <3>2, ReplaceEffect
      <3>4. QED BY <2>6, <3>1, <3>3, Zenon
    <2>8. View(built.disk, built.dir) = With(v, file, contents)
      BY <2>4, <2>7 DEF Written
    <2>9. Integrity \notin DOMAIN built.dir
      BY <1>1, <1>11, <2>4, <2>7
    <2>10. \A g \in DOMAIN dirs : \A n \in DOMAIN dirs[g] : built.disk[dirs[g][n]] = disk[dirs[g][n]]
      BY <2>7, PublishedFiles DEF Inv
    <2>11. QED BY <1>6, <1>7, <1>10, <2>7, <2>8, <2>9, <2>10 DEF Written
  <1>14. QED BY <1>12, <1>13

(* The index is in the manifest.                                           *)
LEMMA ChooseKeeps ==
    ASSUME Inv, ChooseKind
    PROVE  Inv'
  <1>1. PICK number, delta, v : /\ number = NextHierarchyNumber(StageIndexes)
                                /\ delta = IndexFile("dlt", number) /\ v = Less(Staged, {delta})
    OBVIOUS
  <1>2. PICK contents : contents = Built(op.columns, Read(stage.dir, Data))
    OBVIOUS
  <1>3. PICK kind \in {"dlt", "other"} :
          LET built == Create(disk, IF kind = "dlt" THEN stage.dir ELSE Unlink(stage.dir, {delta}),
                              IndexFile(kind, number), contents)
              written == Replace(built.disk, built.dir, Manifest,
                                 [indexes |-> StageIndexes \cup {Index(kind, number, op.columns)}])
          IN /\ op.at = "choose"
             /\ disk' = written.disk
             /\ stage' = [stage EXCEPT !.dir = written.dir]
             /\ op' = [op EXCEPT !.at = "publish"]
             /\ UNCHANGED <<dirs, current>>
    BY <1>1, <1>2, Zenon DEF ChooseKind, Built
  <1>4. PICK file, new : file = IndexFile(kind, number) /\ new = Index(kind, number, op.columns)
    OBVIOUS
  <1>5. PICK built : built = Create(disk, IF kind = "dlt" THEN stage.dir ELSE Unlink(stage.dir, {delta}),
                                    file, contents)
    OBVIOUS
  <1>6. PICK manifest : manifest = [indexes |-> StageIndexes \cup {new}]
    OBVIOUS
  <1>7. PICK written : written = Replace(built.disk, built.dir, Manifest, manifest)
    OBVIOUS
  <1>8. /\ op.at = "choose" /\ disk' = written.disk /\ stage' = [stage EXCEPT !.dir = written.dir]
        /\ op' = [op EXCEPT !.at = "publish"] /\ UNCHANGED <<dirs, current>>
    BY <1>3, <1>4, <1>5, <1>6, <1>7, Zenon
  <1>9. OperationShape' /\ op'.at = "publish"
    BY <1>8, OperationMoves DEF Inv
  <1>10. {"open", "dir", "seal"} \subseteq DOMAIN stage /\ stage.open
    BY <1>8 DEF Inv, StageShape
  <1>11. stage'.dir = written.dir /\ {"open", "dir", "seal"} \subseteq DOMAIN stage' /\ stage'.open
    BY <1>8, <1>10, StageMoves
  <1>12. /\ Complete(v) /\ Indexes(v) = StageIndexes /\ Matching(Indexes(v), op.columns) = {}
         /\ v[Data] = Read(stage.dir, Data)
         /\ IsDisk(built.disk) /\ Len(disk) \in Nat /\ Len(disk) <= Len(built.disk)
         /\ IsDir(built.dir, Len(built.disk)) /\ Integrity \notin DOMAIN built.dir
         /\ View(built.disk, built.dir) = With(v, file, contents)
         /\ \A g \in DOMAIN dirs :
              \A n \in DOMAIN dirs[g] : built.disk[dirs[g][n]] = disk[dirs[g][n]]
    BY <1>1, <1>4, <1>5, <1>8, IndexBuilt
  <1>13. PICK files, dir : files = built.disk /\ dir = built.dir
    OBVIOUS
  <1>14. /\ Written(files, dir, written, Manifest, manifest)
         /\ \A i \in 1..Len(files) : written.disk[i] = files[i]
         /\ DOMAIN written.dir = DOMAIN dir \cup {Manifest}
    <2>1. IsDisk(files) /\ IsDir(dir, Len(files)) /\ written = Replace(files, dir, Manifest, manifest)
      BY <1>7, <1>12, <1>13
    <2>2. QED BY <2>1, ReplaceEffect
  <1>15. PICK w : w = View(disk', written.dir)
    OBVIOUS
  <1>16. w = With(With(v, file, contents), Manifest, manifest)
    BY <1>8, <1>12, <1>13, <1>14, <1>15 DEF Written
  <1>17. Complete(w)
    <2>1. contents = Built(op.columns, v[Data]) /\ number = NextHierarchyNumber(Indexes(v))
      BY <1>1, <1>2, <1>12
    <2>2. manifest.indexes = Indexes(v) \cup {new}
      BY <1>6, <1>12
    <2>3. QED BY <1>4, <1>12, <1>16, <2>1, <2>2, AddComplete
  <1>18. Staged' = w
    BY <1>11, <1>15 DEF Staged
  <1>19. Integrity \notin DOMAIN written.dir
    BY <1>12, <1>13, <1>14, FixedDiffer
  <1>20. StageShape'
    BY <1>8, <1>11, <1>14, <1>19 DEF StageShape, Written
  <1>21. StagedComplete' /\ DeltaIsPrivate' /\ SealStarts' /\ SealComposes'
    BY <1>9, <1>17, <1>18 DEF StagedComplete, DeltaIsPrivate, SealStarts, SealComposes
  <1>22. Generations'
    <2>1. Len(files) \in Nat /\ Len(files) <= Len(disk') /\ IsDisk(disk')
      BY <1>8, <1>14 DEF Written
    <2>2. ASSUME NEW g \in DOMAIN dirs, NEW n \in DOMAIN dirs[g]
          PROVE  disk'[dirs[g][n]] = disk[dirs[g][n]]
      <3>1. dirs[g][n] \in 1..Len(disk)
        BY PublishedFiles DEF Inv
      <3>2. dirs[g][n] \in 1..Len(files)
        BY <1>12, <1>13, <2>1, <3>1
      <3>3. disk'[dirs[g][n]] = files[dirs[g][n]]
        BY <1>8, <1>14, <3>2
      <3>4. QED BY <1>12, <1>13, <3>3
    <2>3. Len(disk) <= Len(disk')
      BY <1>12, <1>13, <2>1 DEF IsDisk
    <2>4. QED BY <1>8, <2>1, <2>2, <2>3, GenerationsStay DEF Inv
  <1>23. QED BY <1>9, <1>20, <1>21, <1>22 DEF Inv

(* What StructureValid finds of the staging directory.                     *)
LEMMA StructureFits ==
    ASSUME StructureValid(stage.dir)
    PROVE  Fits(Staged)
  BY DEF StructureValid, Fits, Indexes, Staged, View, Read

(* A generation is hashed and published.                                   *)
LEMMA PublishKeeps ==
    ASSUME Inv, PublishGeneration
    PROVE  Inv'
  <1>1. /\ op.at = "publish" /\ StructureValid(stage.dir) /\ op' = NoOp
        /\ Rename(disk, stage.dir, ComputeIntegrity(stage.dir))
    BY DEF PublishGeneration
  <1>2. /\ IsDir(stage.dir, Len(disk)) /\ Integrity \notin DOMAIN stage.dir
        /\ Complete(Staged) /\ Generations /\ IsDisk(disk)
    BY <1>1 DEF Inv, StageShape, StagedComplete, Generations
  <1>3. ComputeIntegrity(stage.dir) = Staged
    <2>1. StableFiles(stage.dir) = DOMAIN stage.dir
      BY <1>2 DEF StableFiles
    <2>2. QED BY <2>1 DEF ComputeIntegrity, Staged, View, Read
  <1>4. PICK dir, entries : dir = stage.dir /\ entries = Staged
    OBVIOUS
  <1>5. /\ IsDir(dir, Len(disk)) /\ Integrity \notin DOMAIN dir /\ entries = View(disk, dir)
        /\ Complete(View(disk, dir)) /\ Fits(View(disk, dir)) /\ Rename(disk, dir, entries)
    BY <1>1, <1>2, <1>3, <1>4, StructureFits DEF Staged
  <1>6. Len(disk) \in Nat /\ Len(disk) <= Len(disk)
    BY <1>2 DEF IsDisk
  <1>7. Generations'
    BY <1>2, <1>5, <1>6, RenamePublishes
  <1>8. QED BY <1>1, <1>7, IdleNext DEF Inv

(* A layer is attached.                                                    *)
LEMMA AttachKeeps ==
    ASSUME Inv, AttachLayer
    PROVE  Inv'
  <1>1. PICK v : v = Staged
    OBVIOUS
  <1>2. PICK layer, rows, overlay : layer = Layers(v) + 1 /\ rows = [rows |-> layer]
                                    /\ overlay = [layers |-> layer]
    OBVIOUS
  <1>3. PICK part : part = Replace(disk, stage.dir, DataName(layer), rows)
    OBVIOUS
  <1>4. PICK ids : ids = Create(part.disk, part.dir, IdsName(layer), rows)
    OBVIOUS
  <1>5. PICK written : written = Replace(ids.disk, ids.dir, Overlay, overlay)
    OBVIOUS
  <1>6. op.at = "attach" /\ IsDir(stage.dir, Len(disk)) /\ IsDisk(disk) /\ Complete(v)
        /\ {"open", "dir", "seal"} \subseteq DOMAIN stage /\ stage.open /\ Integrity \notin DOMAIN stage.dir
        /\ stage.seal = v /\ DOMAIN v = DOMAIN stage.dir
    BY <1>1 DEF AttachLayer, Inv, StageShape, StagedComplete, SealStarts, Generations, Staged, View
  <1>7. layer = 1 + IF Overlay \in DOMAIN stage.dir THEN Read(stage.dir, Overlay).layers ELSE 0
    <2>1. Overlay \in DOMAIN stage.dir => v[Overlay] = Read(stage.dir, Overlay)
      BY <1>1 DEF Staged, View, Read
    <2>2. Layers(v) \in Nat
      BY <1>6 DEF Complete, Layered
    <2>3. Layers(v) = IF Overlay \in DOMAIN stage.dir THEN Read(stage.dir, Overlay).layers ELSE 0
      BY <1>6, <2>1 DEF Layers
    <2>4. layer = 1 + Layers(v)
      BY <1>2, <2>2
    <2>5. QED BY <2>3, <2>4
  <1>8. /\ disk' = written.disk /\ stage' = [stage EXCEPT !.dir = written.dir]
        /\ op' = [op EXCEPT !.at = "compose"] /\ UNCHANGED <<dirs, current>>
    BY <1>2, <1>3, <1>4, <1>5, <1>7, Zenon DEF AttachLayer, DataName, IdsName
  <1>9. OperationShape' /\ op'.at = "compose"
    BY <1>6, <1>8, OperationMoves DEF Inv
  <1>10. stage'.dir = written.dir /\ stage'.seal = v /\ {"open", "dir", "seal"} \subseteq DOMAIN stage' /\ stage'.open
    BY <1>6, <1>8, StageMoves
  <1>11. /\ DataName(layer) \notin DOMAIN v /\ IdsName(layer) \notin DOMAIN v
         /\ DataName(layer) # IdsName(layer)
         /\ DataName(layer) \notin FixedNames /\ IdsName(layer) \notin FixedNames
         /\ Child(layer) = {DataName(layer), IdsName(layer)}
    <2>1. layer \in Nat /\ ~ (layer <= Layers(v))
      BY <1>2, <1>6 DEF Complete, Layered
    <2>2. Child(layer) \cap DOMAIN v = {}
      BY <1>6, <2>1 DEF Complete, Layered
    <2>3. QED BY <2>2, ChildNames
  <1>12. PICK f1, d1 : f1 = part.disk /\ d1 = part.dir
    OBVIOUS
  <1>13. /\ Written(disk, stage.dir, part, DataName(layer), rows)
         /\ \A i \in 1..Len(disk) : f1[i] = disk[i]
         /\ DOMAIN d1 = DOMAIN stage.dir \cup {DataName(layer)}
    BY <1>3, <1>6, <1>12, ReplaceEffect
  <1>14. IsDisk(f1) /\ IsDir(d1, Len(f1)) /\ Len(disk) \in Nat /\ Len(disk) <= Len(f1)
         /\ View(f1, d1) = With(v, DataName(layer), rows)
    BY <1>1, <1>12, <1>13 DEF Written, Staged
  <1>15. IdsName(layer) \notin DOMAIN d1
    BY <1>6, <1>11, <1>13
  <1>16. ids = Replace(f1, d1, IdsName(layer), rows)
    BY <1>4, <1>12, <1>15, CreateIsReplace
  <1>17. PICK f2, d2 : f2 = ids.disk /\ d2 = ids.dir
    OBVIOUS
  <1>18. /\ Written(f1, d1, ids, IdsName(layer), rows)
         /\ \A i \in 1..Len(f1) : f2[i] = f1[i]
         /\ DOMAIN d2 = DOMAIN d1 \cup {IdsName(layer)}
    BY <1>14, <1>16, <1>17, ReplaceEffect
  <1>19. IsDisk(f2) /\ IsDir(d2, Len(f2)) /\ Len(f1) \in Nat /\ Len(f1) <= Len(f2)
         /\ View(f2, d2) = With(With(v, DataName(layer), rows), IdsName(layer), rows)
    BY <1>14, <1>17, <1>18 DEF Written
  <1>20. /\ Written(f2, d2, written, Overlay, overlay)
         /\ \A i \in 1..Len(f2) : written.disk[i] = f2[i]
         /\ DOMAIN written.dir = DOMAIN d2 \cup {Overlay}
    <2>1. written = Replace(f2, d2, Overlay, overlay)
      BY <1>5, <1>17
    <2>2. QED BY <1>19, <2>1, ReplaceEffect
  <1>21. PICK w : w = View(disk', written.dir)
    OBVIOUS
  <1>22. w = With(With(With(v, DataName(layer), rows), IdsName(layer), rows), Overlay, overlay)
    BY <1>8, <1>19, <1>20, <1>21 DEF Written
  <1>23. /\ DOMAIN w = DOMAIN v \cup {DataName(layer), IdsName(layer), Overlay}
         /\ w[Overlay] = overlay
         /\ \A n \in DOMAIN v : n \notin {DataName(layer), IdsName(layer), Overlay} => w[n] = v[n]
    BY <1>22 DEF With
  <1>24. overlay.layers = layer
    BY <1>2
  <1>25. Complete(w)
    BY <1>2, <1>6, <1>23, <1>24, AttachComplete
  <1>26. Staged' = w
    BY <1>10, <1>21 DEF Staged
  <1>27. SealComposes'
    <2>1. Overlay \in DOMAIN w /\ w[Overlay].layers = layer
      BY <1>23, <1>24
    <2>2. DOMAIN w = DOMAIN v \cup Child(layer) \cup {Overlay}
      BY <1>11, <1>23
    <2>3. \A n \in DOMAIN v \ {Overlay} : w[n] = v[n]
      BY <1>11, <1>23
    <2>4. QED BY <1>10, <1>26, <2>1, <2>2, <2>3 DEF SealComposes
  <1>28. StagedComplete' /\ DeltaIsPrivate' /\ SealStarts'
    BY <1>9, <1>25, <1>26 DEF StagedComplete, DeltaIsPrivate, SealStarts
  <1>29. Integrity \notin DOMAIN written.dir
    BY <1>6, <1>11, <1>13, <1>18, <1>20, FixedDiffer DEF FixedNames
  <1>30. StageShape'
    BY <1>8, <1>10, <1>20, <1>29 DEF StageShape, Written
  <1>31. Generations'
    <2>1. Len(f2) \in Nat /\ Len(f2) <= Len(disk') /\ IsDisk(disk')
      BY <1>8, <1>20 DEF Written
    <2>2. Len(disk') \in Nat
      BY <2>1 DEF IsDisk
    <2>3. ASSUME NEW g \in DOMAIN dirs, NEW n \in DOMAIN dirs[g]
          PROVE  disk'[dirs[g][n]] = disk[dirs[g][n]]
      <3>1. PICK i : i = dirs[g][n]
        OBVIOUS
      <3>2. i \in 1..Len(disk)
        BY <3>1, PublishedFiles DEF Inv
      <3>3. i \in 1..Len(f1) /\ i \in 1..Len(f2)
        BY <1>14, <1>19, <2>1, <3>2
      <3>4. QED BY <1>8, <1>13, <1>18, <1>20, <3>1, <3>2, <3>3
    <2>4. Len(disk) <= Len(disk')
      BY <1>14, <1>19, <2>1, <2>2
    <2>5. QED BY <1>8, <2>1, <2>3, <2>4, GenerationsStay DEF Inv
  <1>32. QED BY <1>9, <1>27, <1>28, <1>30, <1>31 DEF Inv

(* A generation is published with the composed seal.                       *)
LEMMA PresealedKeeps ==
    ASSUME Inv, PublishPresealed
    PROVE  Inv'
  <1>1. PICK v, layer, entries : /\ v = Staged /\ layer = Read(stage.dir, Overlay).layers
                                 /\ entries = ComposedSeal(stage.seal, stage.dir, layer)
    OBVIOUS
  <1>2. /\ op.at = "compose" /\ StructureValid(stage.dir) /\ op' = NoOp
        /\ Rename(disk, stage.dir, entries)
    BY <1>1 DEF PublishPresealed
  <1>3. /\ IsDir(stage.dir, Len(disk)) /\ Integrity \notin DOMAIN stage.dir
        /\ Complete(v) /\ Generations /\ IsDisk(disk)
    BY <1>1, <1>2 DEF Inv, StageShape, StagedComplete, Generations
  <1>4. DOMAIN v = DOMAIN stage.dir /\ v = [n \in DOMAIN v |-> v[n]]
        /\ \A n \in DOMAIN v : v[n] = Read(stage.dir, n)
    BY <1>1 DEF Staged, View, Read
  <1>5. PICK seal : seal = stage.seal
    OBVIOUS
  <1>6. /\ Overlay \in DOMAIN v /\ DOMAIN v = DOMAIN seal \cup Child(layer) \cup {Overlay}
        /\ \A n \in DOMAIN seal \ {Overlay} : v[n] = seal[n]
    <2>1. /\ Overlay \in DOMAIN v
          /\ DOMAIN v = DOMAIN seal \cup Child(v[Overlay].layers) \cup {Overlay}
          /\ \A n \in DOMAIN seal \ {Overlay} : v[n] = seal[n]
      BY <1>1, <1>2, <1>5 DEF Inv, SealComposes
    <2>2. v[Overlay].layers = layer
      BY <1>1, <1>4, <2>1
    <2>3. QED BY <2>1, <2>2
  <1>7. entries = v
    <2>1. entries = [n \in DOMAIN v |-> IF n \in DOMAIN seal \ {Overlay} THEN seal[n]
                                          ELSE Read(stage.dir, n)]
      BY <1>1, <1>5, <1>6 DEF ComposedSeal
    <2>2. \A n \in DOMAIN v : (IF n \in DOMAIN seal \ {Overlay} THEN seal[n]
                                 ELSE Read(stage.dir, n)) = v[n]
      BY <1>4, <1>6
    <2>3. QED BY <1>4, <2>1, <2>2
  <1>8. PICK dir : dir = stage.dir
    OBVIOUS
  <1>9. /\ IsDir(dir, Len(disk)) /\ Integrity \notin DOMAIN dir /\ entries = View(disk, dir)
        /\ Complete(View(disk, dir)) /\ Fits(View(disk, dir)) /\ Rename(disk, dir, entries)
    BY <1>1, <1>2, <1>3, <1>7, <1>8, StructureFits DEF Staged
  <1>10. Len(disk) \in Nat /\ Len(disk) <= Len(disk)
    BY <1>3 DEF IsDisk
  <1>11. Generations'
    BY <1>3, <1>9, <1>10, RenamePublishes
  <1>12. QED BY <1>2, <1>11, IdleNext DEF Inv

(* While no staging directory is open, nothing is said of it.              *)
LEMMA NotStaged ==
    ASSUME Inv, ~ stage.open, UNCHANGED <<stage, op>>
    PROVE  /\ OperationShape' /\ StageShape' /\ StagedComplete' /\ DeltaIsPrivate' /\ SealStarts'
           /\ SealComposes'
  <1>1. op.at \notin {"drop", "build", "choose", "publish", "attach", "compose"}
    BY DEF Inv, StageShape
  <1>2. QED BY <1>1 DEF Inv, OperationShape, StageShape, StagedComplete, DeltaIsPrivate, SealStarts, SealComposes

(* A dataset is imported.                                                  *)
LEMMA ImportKeeps ==
    ASSUME Inv, Import
    PROVE  Inv'
  <1>1. PICK schema \in Schemas, accelerated \in BOOLEAN :
          LET specs == ExactSpecs(schema, accelerated)
              data == [import |-> Cardinality(DOMAIN dirs) + 1]
              files == disk \o Imported(data, schema, specs, "dlt")
              dir == DirAfter(Len(disk), specs, "dlt")
          IN Rename(files, dir, [name \in DOMAIN dir |-> files[dir[name]]])
    BY DEF Import
  <1>2. PICK specs, data : specs = ExactSpecs(schema, accelerated)
                           /\ data = [import |-> Cardinality(DOMAIN dirs) + 1]
    OBVIOUS
  <1>3. PICK imported, dir : imported = Imported(data, schema, specs, "dlt")
                             /\ dir = DirAfter(Len(disk), specs, "dlt")
    OBVIOUS
  <1>4. PICK files : files = disk \o imported
    OBVIOUS
  <1>5. PICK entries : entries = View(files, dir)
    OBVIOUS
  <1>6. Rename(files, dir, entries)
    BY <1>1, <1>2, <1>3, <1>4, <1>5, Zenon DEF View
  <1>7. Generations /\ IsDisk(disk)
    BY DEF Inv, Generations
  <1>8. Distinct(specs, schema)
    <2>1. schema \in Seq(STRING)
      BY GenerationFilesAssumption
    <2>2. QED BY <1>2, <2>1, SpecsDiffer DEF Distinct
  <1>9. IsDisk(imported)
    BY <1>3, <1>8, ImportedFiles DEF Distinct
  <1>10. /\ IsDisk(files) /\ Len(disk) \in Nat /\ Len(imported) \in Nat
         /\ Len(files) = Len(disk) + Len(imported)
         /\ \A i \in 1..Len(disk) : files[i] = disk[i]
         /\ \A i \in 1..Len(imported) : files[Len(disk) + i] = imported[i]
    BY <1>4, <1>7, <1>9, JoinedFiles
  <1>11. /\ IsDir(dir, Len(disk) + Len(imported)) /\ Integrity \notin DOMAIN dir
         /\ Complete(View(files, dir)) /\ Fits(View(files, dir))
    <2>1. PICK kind, n : kind = "dlt" /\ n = Len(disk)
      OBVIOUS
    <2>2. kind \in {"dlt", "other"} /\ n \in Nat /\ imported = Imported(data, schema, specs, kind)
          /\ dir = DirAfter(n, specs, kind)
      BY <1>3, <1>10, <2>1
    <2>3. Follow(files, n, imported)
      BY <1>10, <2>1 DEF Follow
    <2>4. NewDataset(files, dir, n, imported)
      BY <1>8, <2>2, <2>3, ImportedComplete
    <2>5. QED BY <2>1, <2>4 DEF NewDataset
  <1>12. Len(disk) <= Len(files) /\ IsDir(dir, Len(files))
    BY <1>10, <1>11
  <1>13. Generations'
    BY <1>5, <1>6, <1>7, <1>10, <1>11, <1>12, RenamePublishes
  <1>14. ~ stage.open /\ UNCHANGED <<stage, op>>
    BY DEF Import
  <1>15. QED BY <1>13, <1>14, NotStaged DEF Inv

(* CURRENT names another generation.                                       *)
LEMMA RollbackKeeps ==
    ASSUME Inv, Rollback
    PROVE  Inv'
  <1>1. ~ stage.open /\ UNCHANGED <<stage, op>>
    BY DEF Rollback
  <1>2. Generations'
    BY DEF Rollback, Inv, Generations
  <1>3. QED BY <1>1, <1>2, NotStaged DEF Inv

(* The operation ends without a generation: the files that only the        *)
(* staging directory has follow all those of the published generations.    *)
LEMMA StopKeeps ==
    ASSUME Inv, Stop
    PROVE  Inv'
  <1>1. PICK used : used = UNION {Range(dirs[g]) : g \in DOMAIN dirs}
    OBVIOUS
  <1>2. /\ op' = NoOp /\ UNCHANGED <<dirs, current>> /\ disk' = SubSeq(disk, 1, Max(used))
    BY <1>1 DEF Stop
  <1>3. Generations /\ IsDisk(disk) /\ Len(disk) \in Nat
    BY DEF Inv, Generations, IsDisk
  <1>4. used \subseteq 1..Len(disk)
    BY <1>1, <1>3, PublishedFiles DEF Range
  <1>5. \A g \in DOMAIN dirs : \A n \in DOMAIN dirs[g] : dirs[g][n] \in used
    BY <1>1 DEF Range
  <1>6. used # {}
    <2>1. PICK dir : dir = dirs[current] /\ current \in DOMAIN dirs
      BY <1>3 DEF Generations
    <2>2. Data \in DOMAIN dir
      BY <1>3, <2>1 DEF Generations, Published, Complete, Indexed, View
    <2>3. QED BY <1>5, <2>1, <2>2
  <1>7. PICK last : last = Max(used)
    OBVIOUS
  <1>8. last \in used /\ \A i \in used : i <= last
    <2>1. IsFiniteSet(1..Len(disk))
      BY <1>3, FS_Interval
    <2>2. IsFiniteSet(used)
      BY <1>4, <2>1, FS_Subset
    <2>3. used \in SUBSET Int
      BY <1>4
    <2>4. QED BY <1>6, <1>7, <2>2, <2>3, LargestOf
  <1>9. last \in Nat /\ last <= Len(disk)
    BY <1>3, <1>4, <1>8
  <1>10. /\ IsDisk(disk') /\ Len(disk') = last /\ \A i \in 1..last : disk'[i] = disk[i]
    BY <1>2, <1>3, <1>7, <1>9, FirstFiles
  <1>11. ASSUME NEW g \in DOMAIN dirs PROVE Published(disk', dirs[g])
    <2>1. PICK dir : dir = dirs[g]
      OBVIOUS
    <2>2. Published(disk, dir)
      BY <1>3, <2>1 DEF Generations
    <2>3. ASSUME NEW n \in DOMAIN dir PROVE dir[n] \in 1..Len(disk') /\ disk'[dir[n]] = disk[dir[n]]
      <3>1. dir[n] \in used /\ dir[n] \in 1..Len(disk)
        BY <1>4, <1>5, <2>1
      <3>2. dir[n] \in 1..last
        BY <1>8, <1>9, <3>1
      <3>3. QED BY <1>10, <3>2
    <2>4. QED BY <2>1, <2>2, <2>3, PublishedStays
  <1>12. Generations'
    BY <1>2, <1>3, <1>10, <1>11 DEF Generations
  <1>13. QED BY <1>2, <1>12, IdleNext DEF Inv

----------------------------------------------------------------------------
(* What the invariant says.                                                *)

(* A published directory of complete, sealed files passes verify_dataset.  *)
LEMMA PublishedVerifies ==
    ASSUME Generations, NEW g \in DOMAIN dirs
    PROVE  VerifyDataset(dirs[g])
  <1>1. PICK dir : dir = dirs[g]
    OBVIOUS
  <1>2. PICK v : v = View(disk, dir)
    OBVIOUS
  <1>3. Complete(v) /\ Fits(v) /\ Sealed(v)
    BY <1>1, <1>2 DEF Generations, Published
  <1>4. DOMAIN v = DOMAIN dir /\ \A n \in DOMAIN dir : Read(dir, n) = v[n]
    BY <1>2 DEF View, Read
  <1>5. {Manifest, Schema, Data} \subseteq DOMAIN dir /\ Integrity \in DOMAIN dir
    BY <1>3, <1>4 DEF Complete, Indexed, Sealed
  <1>6. Read(dir, Manifest).indexes = Indexes(v) /\ Read(dir, Schema) = v[Schema]
    BY <1>4, <1>5 DEF Indexes
  <1>7. ASSUME NEW x \in Indexes(v)
        PROVE  x.columns \subseteq DOMAIN v[Schema].columns /\ x.file \in DOMAIN dir
               /\ Read(dir, x.file).whole
    <2>1. IndexIn(v, x) /\ x.columns \subseteq DOMAIN v[Schema].columns
      BY <1>3 DEF Complete, Indexed, Fits
    <2>2. x.file \in DOMAIN dir /\ Read(dir, x.file) = Built(x.columns, v[Data])
      BY <1>4, <2>1 DEF IndexIn
    <2>3. Built(x.columns, v[Data]).whole
      BY Zenon DEF Built
    <2>4. QED BY <2>1, <2>2, <2>3
  <1>8. Overlay \in DOMAIN dir => \A l \in 1..Read(dir, Overlay).layers : Child(l) \subseteq DOMAIN dir
    BY <1>3, <1>4 DEF Complete, Layered, Layers
  <1>9. StructureValid(dir)
    BY <1>5, <1>6, <1>7, <1>8 DEF StructureValid
  <1>10. Read(dir, Integrity).entries = ComputeIntegrity(dir)
    <2>1. Read(dir, Integrity).entries = Less(v, {Integrity})
      BY <1>3, <1>4, <1>5 DEF Sealed
    <2>2. ComputeIntegrity(dir) = Less(v, {Integrity})
      BY <1>4 DEF ComputeIntegrity, StableFiles, Less
    <2>3. QED BY <2>1, <2>2
  <1>11. QED BY <1>1, <1>5, <1>9, <1>10 DEF VerifyDataset

(* And its indexes are in files of their own and hold its data.            *)
LEMMA PublishedServe ==
    ASSUME Generations
    PROVE  IndexesServeTheirData
  <1> SUFFICES ASSUME NEW g \in DOMAIN dirs
               PROVE  LET indexes == Read(dirs[g], Manifest).indexes
                      IN /\ \A x, y \in indexes : x # y =>
                              dirs[g][x.file] # dirs[g][y.file] /\ x.columns # y.columns
                         /\ \A x \in indexes :
                              Read(dirs[g], x.file) =
                                [whole |-> TRUE, columns |-> x.columns, data |-> Read(dirs[g], Data)]
    BY DEF IndexesServeTheirData
  <1>1. PICK dir : dir = dirs[g]
    OBVIOUS
  <1>2. PICK v : v = View(disk, dir)
    OBVIOUS
  <1>3. Indexed(v) /\ IsDir(dir, Len(disk))
    BY <1>1, <1>2 DEF Generations, Published, Complete
  <1>4. DOMAIN v = DOMAIN dir /\ \A n \in DOMAIN dir : Read(dir, n) = v[n]
    BY <1>2 DEF View, Read
  <1>5. Read(dir, Manifest).indexes = Indexes(v) /\ Read(dir, Data) = v[Data]
    BY <1>3, <1>4 DEF Indexed, Indexes
  <1>6. ASSUME NEW x \in Indexes(v), NEW y \in Indexes(v), x # y
        PROVE  dir[x.file] # dir[y.file] /\ x.columns # y.columns
    BY <1>3, <1>4, <1>6 DEF Indexed, IndexIn, IsDir
  <1>7. ASSUME NEW x \in Indexes(v) PROVE Read(dir, x.file) = Built(x.columns, Read(dir, Data))
    BY <1>3, <1>4, <1>5 DEF Indexed, IndexIn
  <1>8. QED BY <1>1, <1>5, <1>6, <1>7, Zenon DEF Built

(* Every step of the writers keeps the invariant.                          *)
LEMMA NextKeeps ==
    ASSUME Inv, [Next]_vars
    PROVE  Inv'
  <1>1. CASE UNCHANGED vars
    BY <1>1 DEF vars, Inv, Generations, OperationShape, StageShape, StagedComplete, DeltaIsPrivate,
                SealStarts, SealComposes, Staged
  <1>2. ASSUME NEW type \in {"add", "drop", "rebuild"}, NEW names \in IndexChoices, Validate(type, names)
        PROVE  Inv'
    <2>1. PICK columns : op' = [at |-> "validated", type |-> type, names |-> names, columns |-> columns]
      BY <1>2 DEF Validate
    <2>2. type \in {"add", "drop", "rebuild", "append"} /\ UNCHANGED <<disk, dirs, current, stage>>
      BY <1>2 DEF Validate
    <2>3. QED BY <2>1, <2>2, RequestKeeps
  <1>3. CASE BeginAppend
    <2>1. PICK type, names, columns :
            /\ type = "append"
            /\ op' = [at |-> "validated", type |-> type, names |-> names, columns |-> columns]
      BY <1>3 DEF BeginAppend
    <2>2. type \in {"add", "drop", "rebuild", "append"} /\ UNCHANGED <<disk, dirs, current, stage>>
      BY <1>3, <2>1 DEF BeginAppend
    <2>3. QED BY <2>1, <2>2, RequestKeeps
  <1>4. CASE CloneCurrent
    BY <1>4, CloneKeeps
  <1>5. CASE DropFromStage
    BY <1>5, DropKeeps
  <1>6. CASE CreateDelta
    BY <1>6, DeltaKeeps
  <1>7. CASE ChooseKind
    BY <1>7, ChooseKeeps
  <1>8. CASE PublishGeneration
    BY <1>8, PublishKeeps
  <1>9. CASE AttachLayer
    BY <1>9, AttachKeeps
  <1>10. CASE PublishPresealed
    BY <1>10, PresealedKeeps
  <1>11. CASE Import
    BY <1>11, ImportKeeps
  <1>12. CASE Rollback
    BY <1>12, RollbackKeeps
  <1>13. CASE Stop
    BY <1>13, StopKeeps
  <1>14. QED
    BY <1>1, <1>2, <1>3, <1>4, <1>5, <1>6, <1>7, <1>8, <1>9, <1>10, <1>11, <1>12, <1>13 DEF Next

(* The invariant holds in every state.                                     *)
THEOREM InvHolds == Spec => []Inv
  <1>1. Inv /\ [Next]_vars => Inv'
    BY NextKeeps
  <1>2. QED BY InitHolds, <1>1, PTL DEF Spec

(* Every published generation passes verify_dataset in every state,        *)
(* although later ones are built over links to its files and truncate,     *)
(* replace and unlink files (admin.rs, exact.rs, segmented_import.rs).     *)
THEOREM PublishedAlwaysVerify == Spec => []PublishedVerify
  <1>1. Inv => PublishedVerify
    BY PublishedVerifies DEF Inv, PublishedVerify
  <1>2. QED BY InvHolds, <1>1, PTL

(* Every index a published manifest names is in a file of its own, is the  *)
(* only one on its columns and holds its own generation's data             *)
(* (next_hierarchy_number, drop_from_stage, add_exact_hierarchies).        *)
THEOREM IndexesAlwaysServe == Spec => []IndexesServeTheirData
  <1>1. Inv => IndexesServeTheirData
    BY PublishedServe DEF Inv
  <1>2. QED BY InvHolds, <1>1, PTL
=============================================================================
