------------------------------- MODULE Postings -------------------------------
(***************************************************************************)
(* The exact index files of rust/src: how each is built from sorted        *)
(* (key, row) records and how each is read.  Five files list the rows of a *)
(* key (postings.rs, dense_postings.rs, flat_postings.rs,                  *)
(* delta_postings.rs, bitslice_postings.rs) and two the pages of a key     *)
(* (hierarchy.rs, bitmap.rs).  A file is the structure its bytes lay out:  *)
(* directories, offsets, blocks, planes and words are kept, bytes and bit  *)
(* packing are not.  Positions in a file count from 0, as in the code, and *)
(* a binary search is the position it finds.                               *)
(***************************************************************************)
EXTENDS Integers, Sequences, SequencesExt, FiniteSetsExt, Sorting

CONSTANTS
    Block,     \* rows in a block of a delta file (BLOCK, 128)
    Word,      \* bits in a word of a bit-slice or bitmap file (64)
    Gallop     \* a list this many times longer than the seed is searched, not merged (16)

ASSUME WidthsAssumption == Block \in Nat \ {0} /\ Word \in Nat \ {0} /\ Gallop \in Nat

ListKinds == {"postings", "densepost", "flatpost"}
RowKinds  == ListKinds \cup {"deltapost", "bitslice"}
PageKinds == {"sparse", "bitmap"}

----------------------------------------------------------------------------
(* Building a file from sorted records.                                    *)

Second(records) == [i \in DOMAIN records |-> records[i][2]]

\* One entry per change of key.
Directory(sorted) ==
    LET after[n \in 0..Len(sorted)] ==
            IF n = 0 THEN <<>>
            ELSE LET dir == after[n - 1]
                 IN IF dir # <<>> /\ Last(dir).key = sorted[n][1]
                    THEN [dir EXCEPT ![Len(dir)].len = @ + 1]
                    ELSE Append(dir, [key |-> sorted[n][1], start |-> n - 1, len |-> 1])
    IN after[Len(sorted)]

\* offset[k], the position of the first row of key k, written for every key up to the one that is
\* read and, at the end, for the rest of the keyspace.
Offsets(sorted, keyspace) ==
    LET FillTo(offsets, key, n) == offsets \o [i \in 1..(key + 1 - Len(offsets)) |-> n]
        after[n \in 0..Len(sorted)] ==
            IF n = 0 THEN <<>> ELSE FillTo(after[n - 1], sorted[n][1], n - 1)
    IN FillTo(after[Len(sorted)], keyspace, Len(sorted))

\* The rows of a key as blocks: the first row and the gaps to the next ones.
DeltaBlocks(rows) ==
    [b \in 1..CeilDiv(Len(rows), Block) |->
        LET chunk == Take(SubSeq(rows, (b - 1) * Block + 1, Len(rows)), Block)
        IN [base |-> chunk[1], gaps |-> [i \in 1..(Len(chunk) - 1) |-> chunk[i + 1] - chunk[i]]]]

DeltaGroups(sorted) ==
    [key \in {sorted[i][1] : i \in DOMAIN sorted} |->
        LET rows == Second(Select(sorted, LAMBDA record : record[1] = key))
        IN [count |-> Len(rows), blocks |-> DeltaBlocks(rows)]]

Pow2[n \in Nat] == IF n = 0 THEN 1 ELSE 2 * Pow2[n - 1]

HasBit(key, bit) == (key \div Pow2[bit]) % 2 = 1

BitsFor(keyspace) ==
    CHOOSE b \in 0..keyspace : Pow2[b] >= keyspace /\ \A c \in 0..(b - 1) : Pow2[c] < keyspace

\* Plane b holds the rows whose key has bit b, as words of row bits.
Planes(sorted, keyspace, rows) ==
    [bit \in 0..(BitsFor(keyspace) - 1) |-> [word \in 0..(CeilDiv(rows, Word) - 1) |->
        {r % Word : r \in {sorted[i][2] : i \in {j \in DOMAIN sorted :
                                /\ HasBit(sorted[j][1], bit) /\ sorted[j][2] \div Word = word}}}]]

KeyCounts(sorted, keyspace) ==
    [key \in 0..(keyspace - 1) |-> Cardinality({i \in DOMAIN sorted : sorted[i][1] = key})]

BuildRowFile(kind, sorted, keyspace, rows) ==
    CASE kind = "postings"  -> [kind |-> kind, dir |-> Directory(sorted), body |-> Second(sorted)]
      [] kind = "densepost" -> [kind |-> kind, offsets |-> Offsets(sorted, keyspace), body |-> Second(sorted)]
      [] kind = "flatpost"  -> [kind |-> kind, records |-> sorted, body |-> Second(sorted)]
      [] kind = "deltapost" -> [kind |-> kind, groups |-> DeltaGroups(sorted)]
      [] kind = "bitslice"  -> [kind |-> kind, rows |-> rows, counts |-> KeyCounts(sorted, keyspace),
                                planes |-> Planes(sorted, keyspace, rows)]

\* A bit per page of every key.
Bitmap(sorted, keyspace, pages) ==
    [key \in 0..(keyspace - 1) |-> [word \in 0..(CeilDiv(pages, Word) - 1) |->
        {p \in 0..(Word - 1) : Contains(sorted, <<key, word * Word + p>>)}]]

BuildPageFile(kind, sorted, keyspace, pages) ==
    IF kind = "bitmap" THEN [kind |-> kind, words |-> Bitmap(sorted, keyspace, pages)]
    ELSE [kind |-> kind, records |-> sorted]

----------------------------------------------------------------------------
(* Reading the files that list rows contiguously.                          *)

\* partition_point of sorted records by key.
KeyLowerBound(records, key) == Cardinality({i \in DOMAIN records : records[i][1] < key})
KeyUpperBound(records, key) == Cardinality({i \in DOMAIN records : records[i][1] <= key})

\* Where a key's rows start and end in the body; a missing key has none.
ListBounds(file, key) ==
    CASE file.kind = "postings" ->
            LET at == SelectInSeq(file.dir, LAMBDA entry : entry.key >= key)
            IN IF at # 0 /\ file.dir[at].key = key
               THEN [start |-> file.dir[at].start, end |-> file.dir[at].start + file.dir[at].len]
               ELSE [start |-> 0, end |-> 0]
      [] file.kind = "densepost" ->
            IF key + 1 >= Len(file.offsets) THEN [start |-> 0, end |-> 0]
            ELSE [start |-> file.offsets[key + 1], end |-> file.offsets[key + 2]]
      [] file.kind = "flatpost" ->
            LET start == KeyLowerBound(file.records, key)
            IN IF start = Len(file.records) \/ file.records[start + 1][1] # key
               THEN [start |-> start, end |-> start]
               ELSE [start |-> start, end |-> KeyUpperBound(file.records, key)]

RowLowerBound(file, bounds, row) ==
    bounds.start + Cardinality({i \in bounds.start..(bounds.end - 1) : file.body[i + 1] < row})

ListRowsFrom(file, key, first, limit) ==
    LET bounds == ListBounds(file, key)
    IN Take(SubSeq(file.body, RowLowerBound(file, bounds, first) + 1, bounds.end), limit)

\* A long list is searched for each row of the seed, a short one is merged with it.
ListIntersect(file, key, seed) ==
    LET bounds == ListBounds(file, key)
        Found(row) == LET at == RowLowerBound(file, bounds, row)
                      IN at < bounds.end /\ file.body[at + 1] = row
        merge[at \in (1..(Len(seed) + 1)) \X (0..bounds.end)] ==
            LET i == at[1]
                j == at[2]
            IN IF i > Len(seed) \/ j >= bounds.end THEN <<>>
               ELSE IF seed[i] < file.body[j + 1] THEN merge[<<i + 1, j>>]
               ELSE IF seed[i] > file.body[j + 1] THEN merge[<<i, j + 1>>]
               ELSE <<seed[i]>> \o merge[<<i + 1, j + 1>>]
    IN IF seed = <<>> THEN <<>>
       ELSE IF bounds.end - bounds.start > Len(seed) * Gallop THEN Select(seed, Found)
       ELSE merge[<<1, RowLowerBound(file, bounds, seed[1])>>]

----------------------------------------------------------------------------
(* Reading delta files.                                                    *)

Decoded(block) ==
    LET row[i \in 0..Len(block.gaps)] == IF i = 0 THEN block.base ELSE row[i - 1] + block.gaps[i]
    IN [i \in 1..(Len(block.gaps) + 1) |-> row[i - 1]]

BlocksOf(file, key) == IF key \in DOMAIN file.groups THEN file.groups[key].blocks ELSE <<>>

DeltaCount(file, key) == IF key \in DOMAIN file.groups THEN file.groups[key].count ELSE 0

\* Seeded fault: an off-by-one skips the block that holds the row just before the next block.
SkipTooFar(blocks, b, first) == b < Len(blocks) /\ blocks[b + 1].base <= first + 1

\* A block is skipped if the next one starts at or before the first row wanted.
SkipBefore(blocks, b, first) == b < Len(blocks) /\ blocks[b + 1].base <= first

DeltaRowsFrom(file, key, first, limit) ==
    LET blocks == BlocksOf(file, key)
        walk[b \in 0..Len(blocks)] ==
            IF b = 0 THEN <<>>
            ELSE IF SkipBefore(blocks, b, first) THEN walk[b - 1]
            ELSE walk[b - 1] \o Select(Decoded(blocks[b]), LAMBDA row : row >= first)
    IN Take(walk[Len(blocks)], limit)

\* The seed is consumed block by block; only a block that may hold its next row is decoded.
DeltaIntersect(file, key, seed) ==
    LET blocks == BlocksOf(file, key)
        SeedFrom(i, row) == i + Cardinality({j \in i..Len(seed) : seed[j] < row})
        walk[from \in (1..(Len(blocks) + 1)) \X (1..(Len(seed) + 1))] ==
            LET b == from[1]
                at == SeedFrom(from[2], blocks[b].base)
                rows == Decoded(blocks[b])
            IN IF b > Len(blocks) \/ from[2] > Len(seed) THEN <<>>
               ELSE IF blocks[b].base > Last(seed) \/ at > Len(seed) THEN <<>>
               ELSE IF SkipBefore(blocks, b, seed[at]) THEN walk[<<b + 1, at>>]
               ELSE Select(SubSeq(seed, at, Len(seed)), LAMBDA row : Contains(rows, row))
                    \o walk[<<b + 1, SeedFrom(at, Last(rows) + 1)>>]
    IN walk[<<1, 1>>]

----------------------------------------------------------------------------
(* Reading bit-slice files.                                                *)

\* The bits of a word that stand for rows: all, but in a last word that is not full.
LastMask(file, word) ==
    IF (word + 1) * Word <= file.rows THEN 0..(Word - 1) ELSE 0..((file.rows % Word) - 1)

\* The row bits of a word whose planes spell the key.
EqualityWord(file, key, word) ==
    {bit \in LastMask(file, word) :
        \A plane \in DOMAIN file.planes : (bit \in file.planes[plane][word]) <=> HasBit(key, plane)}

SliceWords(file) == CeilDiv(file.rows, Word)

\* The rows of the masks of some words.
MaskedRows(mask) == Ascending(UNION {{word * Word + bit : bit \in mask[word]} : word \in DOMAIN mask})

SliceRowsFrom(file, key, first, limit) ==
    LET firstWord == first \div Word
        mask == [word \in firstWord..(SliceWords(file) - 1) |->
                    EqualityWord(file, key, word) \ (IF word = firstWord THEN 0..((first % Word) - 1) ELSE {})]
    IN IF key \notin DOMAIN file.counts \/ first >= file.rows THEN <<>>
       ELSE Take(MaskedRows(mask), limit)

SliceIntersect(file, key, seed) ==
    IF key \notin DOMAIN file.counts THEN <<>>
    ELSE Select(seed, LAMBDA row : row < file.rows /\ row % Word \in EqualityWord(file, key, row \div Word))

\* Two bit-slice files are intersected word by word.
SlicePair(file, key, other, otherKey) ==
    IF key \notin DOMAIN file.counts \/ otherKey \notin DOMAIN other.counts \/ file.rows # other.rows
    THEN <<>>
    ELSE MaskedRows([word \in 0..(SliceWords(file) - 1) |->
             EqualityWord(file, key, word) \cap EqualityWord(other, otherKey, word)])

----------------------------------------------------------------------------
(* What the engine asks of any file of rows, and of any file of pages.     *)

RowCount(file, key) ==
    CASE file.kind \in ListKinds   -> LET bounds == ListBounds(file, key) IN bounds.end - bounds.start
      [] file.kind = "deltapost"   -> DeltaCount(file, key)
      [] file.kind = "bitslice"    -> IF key \in DOMAIN file.counts THEN file.counts[key] ELSE 0

RowsFrom(file, key, first, limit) ==
    CASE file.kind \in ListKinds   -> ListRowsFrom(file, key, first, limit)
      [] file.kind = "deltapost"   -> DeltaRowsFrom(file, key, first, limit)
      [] file.kind = "bitslice"    -> SliceRowsFrom(file, key, first, limit)

\* rows(key), the whole list.
AllRows(file, key) == RowsFrom(file, key, 0, RowCount(file, key))

IntersectRows(file, key, seed) ==
    CASE file.kind \in ListKinds   -> ListIntersect(file, key, seed)
      [] file.kind = "deltapost"   -> DeltaIntersect(file, key, seed)
      [] file.kind = "bitslice"    -> SliceIntersect(file, key, seed)

PagesOf(file, key) ==
    IF file.kind = "sparse"
    THEN Second(SubSeq(file.records, KeyLowerBound(file.records, key) + 1, KeyUpperBound(file.records, key)))
    ELSE IF key \notin DOMAIN file.words THEN <<>>
    ELSE Ascending(UNION {{word * Word + bit : bit \in file.words[key][word]} :
                              word \in DOMAIN file.words[key]})

IntersectPages(file, key, seed) == Select(seed, LAMBDA page : Contains(PagesOf(file, key), page))

=============================================================================
