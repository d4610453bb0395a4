------------------------------- MODULE Buckets -------------------------------
(***************************************************************************)
(* rust/src/buckets.rs: independent catalogs under one root, and the       *)
(* operations that span several of them.  A transfer publishes copies in   *)
(* the destination and, if rows are moved, deletes them in the source by a *)
(* second transaction; a combination creates a bucket, fills it and takes  *)
(* it back when that fails; a deletion removes a catalog's directory entry *)
(* by entry without the catalog's writer lock.                             *)
(*                                                                         *)
(* All requests run as threads of one service.  A catalog is reduced to    *)
(* its directory: CURRENT, the published and the staged generations, the   *)
(* lock files and the bucket's metadata.  All datasets have one schema.    *)
(* The steps of a publication are those of module Catalog; compaction,     *)
(* rollback, vacuum and recovery of a catalog are modelled there.          *)
(***************************************************************************)
EXTENDS Integers, Sequences, SequencesExt, FiniteSetsExt, RowOrder

CONSTANTS
    Buckets,      \* the named buckets
    Workers,      \* the service's threads
    Rows,         \* the rows clients ever insert
    Kinds,        \* the kinds of requests clients make
    MaxEvents,    \* bound: how many requests are made and how often the service dies
    MaxVersion,   \* bound: how often a row is updated
    Nobody,       \* no lock holder
    Building      \* the content of a staging directory before it is complete

AllKinds == {"create", "rename", "delete", "combine", "copy", "move", "mutate", "import"}

ASSUME ConstantsAssumption ==
    /\ Kinds \subseteq AllKinds
    /\ MaxEvents \in Nat /\ MaxVersion \in Nat
    /\ Nobody \notin Workers /\ IsFiniteSet(Buckets) /\ IsFiniteSet(Workers)

Names == {"meta", "CURRENT", "generations", "locks"}

\* A version of a row, and a bucket's visible rows by row id with max_row_id.
Cell == [row : Rows, version : 0..MaxVersion]
NewCell(r) == [row |-> r, version |-> 0]
NoTable == [rows |-> <<>>, top |-> -1]

VARIABLES
    made,      \* the buckets whose directory exists
    names,     \* what each directory holds
    current,   \* the number in CURRENT
    gens,      \* the published generations: their tables by number
    stage,     \* the staging directories: their tables by number
    holder,    \* who has locked the lock file that is in the directory
    pc,        \* where each worker is
    job,       \* each worker's request
    events     \* requests made and deaths of the service so far

\* What clients may expect, and what is known to go wrong.
VARIABLES
    kept,      \* the rows written by an acknowledged request that no client asked to delete
    owed,      \* the cells written by an acknowledged request and not overwritten or deleted by one
    extra,     \* for each row, the copies that were asked for or reported
    excused,   \* rows that removing directories endangers: see RowsKept
    used,      \* the row ids each bucket has ever given
    doomed,    \* workers whose bucket was removed while they were writing to it
    born       \* the rows inserted so far

disk  == <<made, names, current, gens, stage, holder>>
ghost == <<kept, owed, extra, excused, used, doomed, born>>
vars  == <<disk, pc, job, events, ghost>>

IdleJob == [kind |-> "none", from |-> {}, ids |-> {}, cells |-> <<>>, into |-> Nobody,
            task |-> "none", gen |-> 0, todo |-> {}, gone |-> {}, fresh |-> {}]

Writing == {"prepare", "publish", "current"}

RowsOf(cells) == {c.row : c \in cells}

Put(f, x, value) == [y \in DOMAIN f \cup {x} |-> IF y = x THEN value ELSE f[y]]
Without(f, x) == [y \in DOMAIN f \ {x} |-> f[y]]

----------------------------------------------------------------------------
(* A bucket's directory.                                                   *)

\* resolve_dataset_root: CURRENT and the generation it names.
Resolves(b) == b \in made /\ "CURRENT" \in names[b] /\ current[b] \in DOMAIN gens[b]

Visible(b) == IF Resolves(b) THEN gens[b][current[b]] ELSE NoTable

CellsOf(table) == {table.rows[id] : id \in DOMAIN table.rows}

NextId(b) ==
    1 + Max({0} \cup DOMAIN gens[b] \cup (IF "CURRENT" \in names[b] THEN {current[b]} ELSE {}))

\* The datasets a worker has open, which hold reader leases: the sources of a transfer until
\* it deletes, those of a combination until its end.
Leases(p) == IF job[p].task = "delete" THEN {} ELSE job[p].from

Leased(b) == \E p \in Workers : b \in Leases(p)

Writers(b) == {p \in Workers : job[p].into = b /\ pc[p] \in Writing}

TypeOK ==
    /\ made \subseteq Buckets
    /\ names \in [Buckets -> SUBSET Names]
    /\ \A b \in Buckets :
         /\ current[b] \in Nat
         /\ \A g \in DOMAIN gens[b] : CellsOf(gens[b][g]) \subseteq Cell
         /\ \A g \in DOMAIN stage[b] : stage[b][g] # Building => CellsOf(stage[b][g]) \subseteq Cell
         /\ b \notin made => names[b] = {}
         /\ "generations" \notin names[b] => gens[b] = <<>> /\ stage[b] = <<>>
         /\ "locks" \notin names[b] => holder[b] = Nobody
    /\ pc \in [Workers -> Writing \cup {"idle", "make", "begin", "undo", "sweep"}]
    /\ \A p \in Workers : pc[p] = "idle" => job[p] = IdleJob
    /\ \A b \in Buckets : holder[b] # Nobody => holder[b] \in Writers(b)
    /\ owed \subseteq Cell /\ doomed \subseteq Workers
    /\ kept \subseteq Rows /\ excused \subseteq Rows /\ born \subseteq Rows

----------------------------------------------------------------------------
(* Requests.                                                               *)

Begun(p, j, at) ==
    /\ pc[p] = "idle" /\ events < MaxEvents /\ j.kind \in Kinds
    /\ events' = events + 1
    /\ job' = [job EXCEPT ![p] = j] /\ pc' = [pc EXCEPT ![p] = at]
    /\ UNCHANGED disk

\* create_bucket: the path does not exist.
StartCreate(p, b) ==
    /\ b \notin made
    /\ Begun(p, [IdleJob EXCEPT !.kind = "create", !.into = b], "make")
    /\ UNCHANGED ghost

StartRename(p, b) ==
    /\ b \in made
    /\ Begun(p, [IdleJob EXCEPT !.kind = "rename", !.into = b], "make")
    /\ UNCHANGED ghost

\* delete_bucket: no generation is leased.
StartDelete(p, b) ==
    /\ b \in made /\ ~Leased(b)
    /\ Begun(p, [IdleJob EXCEPT !.kind = "delete", !.into = b, !.todo = names[b]], "sweep")
    /\ UNCHANGED ghost

\* A transaction of a client on one bucket.
StartMutate(p, b) ==
    /\ b \in made
    /\ Begun(p, [IdleJob EXCEPT !.kind = "mutate", !.into = b, !.task = "mutate"], "begin")
    /\ UNCHANGED ghost

\* An initial import of one new row.
StartImport(p, b, r) ==
    /\ b \in made /\ ~Resolves(b) /\ r \notin born
    /\ Begun(p, [IdleJob EXCEPT !.kind = "import", !.into = b, !.task = "initial",
                                !.cells = <<NewCell(r)>>, !.fresh = {NewCell(r)}], "begin")
    /\ born' = born \cup {r}
    /\ UNCHANGED <<kept, owed, extra, excused, used, doomed>>

\* The table's cells in the order of their row ids.
InOrder(table, ids) == [i \in 1..Cardinality(ids) |-> table.rows[Ascending(ids)[i]]]

\* transfer_rows: a move must leave a row in the source.
LeavesARow(move, ids, table) == move => Cardinality(ids) < Cardinality(DOMAIN table.rows)

\* transfer_rows, to the choice between a transaction and an initial publication.
StartTransfer(p, s, d, ids, move) ==
    /\ s # d /\ d \in made /\ Resolves(s)
    /\ ids # {} /\ ids \subseteq DOMAIN Visible(s).rows
    /\ LeavesARow(move, ids, Visible(s))
    /\ Begun(p, [IdleJob EXCEPT !.kind = IF move THEN "move" ELSE "copy",
                                !.from = {s}, !.into = d, !.ids = ids,
                                !.cells = InOrder(Visible(s), ids),
                                !.task = IF Resolves(d) THEN "insert" ELSE "initial"], "begin")
    /\ UNCHANGED ghost

\* The rows of several buckets: the buckets in the order asked for, each in the order of its ids.
Places(S) == UNION {{s} \X DOMAIN Visible(s).rows : s \in S}

Comes(order, x, y) == order[x[1]] < order[y[1]] \/ (x[1] = y[1] /\ x[2] < y[2])

Listings(S) ==
    {list \in [1..Cardinality(Places(S)) -> Places(S)] :
       \E order \in [S -> 1..Cardinality(S)] :
         /\ \A s, t \in S : order[s] = order[t] => s = t
         /\ \A i, j \in DOMAIN list : i < j => Comes(order, list[i], list[j])}

\* combine_buckets, to create_bucket's check.
StartCombine(p, S, t) ==
    /\ S # {} /\ t \notin S /\ t \notin made
    /\ \A s \in S : Resolves(s)
    /\ \E list \in Listings(S) :
         LET cells == [i \in DOMAIN list |-> Visible(list[i][1]).rows[list[i][2]]]
         IN Begun(p, [IdleJob EXCEPT !.kind = "combine", !.from = S, !.into = t,
                                     !.cells = cells, !.task = "initial"], "make")
    /\ UNCHANGED ghost

----------------------------------------------------------------------------
(* Ends of a request.                                                      *)

Ends(p) == pc' = [pc EXCEPT ![p] = "idle"] /\ job' = [job EXCEPT ![p] = IdleJob]

\* Where a row is among a table's or a list's cells.
Holds(cells, r) == {i \in DOMAIN cells : cells[i].row = r}

\* A further copy of each of the given cells is accounted for.
OneMore(cells) == [r \in Rows |-> extra[r] + Cardinality(Holds(cells, r))]

\* The writer of a request fails.  A combination looks whether its bucket must be taken back;
\* a move whose deletion fails is answered with a warning.
Fails(p) ==
    /\ IF job[p].kind = "combine"
         THEN pc' = [pc EXCEPT ![p] = "undo"] /\ UNCHANGED job
         ELSE Ends(p)
    /\ extra' = IF job[p].task = "delete" THEN OneMore(job[p].cells) ELSE extra
    /\ doomed' = doomed \ {p}
    /\ UNCHANGED <<kept, owed, excused, used, born>>

----------------------------------------------------------------------------
(* Making and removing directories.                                        *)

\* create_dir_all and atomic_write_json, of create_bucket and rename_bucket.
MakeBucket(p) ==
    /\ pc[p] = "make"
    /\ made' = made \cup {job[p].into}
    /\ names' = [names EXCEPT ![job[p].into] = @ \cup {"meta"}]
    /\ IF job[p].kind = "combine"
         THEN pc' = [pc EXCEPT ![p] = "begin"] /\ UNCHANGED job
         ELSE Ends(p)
    /\ UNCHANGED <<current, gens, stage, holder, events, ghost>>

\* Writing the metadata fails: create_bucket removes the directory, rename_bucket leaves it.
MakeBucketFails(p) ==
    /\ pc[p] = "make"
    /\ made' = made \cup {job[p].into}
    /\ IF job[p].kind = "rename"
         THEN Ends(p)
         ELSE /\ pc' = [pc EXCEPT ![p] = "sweep"]
              /\ job' = [job EXCEPT ![p].todo = names[job[p].into]]
    /\ UNCHANGED <<names, current, gens, stage, holder, events, ghost>>

\* The cleanup of combine_buckets: only a bucket that has no dataset is removed.
UndoCombine(p) ==
    /\ pc[p] = "undo"
    /\ IF Resolves(job[p].into)
         THEN Ends(p)
         ELSE /\ pc' = [pc EXCEPT ![p] = "sweep"]
              /\ job' = [job EXCEPT ![p].todo = names[job[p].into]]
    /\ UNCHANGED <<disk, events, ghost>>

\* The rows that writers carry to a bucket, and these with all rows in its directory.
Carried(b) == UNION {RowsOf(ToSet(job[q].cells) \cup job[q].fresh) : q \in Writers(b)}

Staged(b) == {g \in DOMAIN stage[b] : stage[b][g] # Building}

RowsAmong(tables, numbers) == UNION {RowsOf(CellsOf(tables[g])) : g \in numbers}

Around(b) == Carried(b) \cup RowsAmong(gens[b], DOMAIN gens[b]) \cup RowsAmong(stage[b], Staged(b))

\* What a step of a writer endangers whose directory has been removed.
Endangered(p, rows) == IF p \in doomed THEN Around(job[p].into) \cup rows ELSE {}

\* remove_dir_all takes the entries in any order; the small files are taken together.
Entries == {{"meta", "locks"}, {"CURRENT"}, {"generations"}}

SweepEntry(p, n) ==
    LET b    == job[p].into
        lost == RowsOf(CellsOf(Visible(b)))
    IN /\ pc[p] = "sweep" /\ n \cap names[b] # {}
       /\ names' = [names EXCEPT ![b] = @ \ n]
       /\ job' = [job EXCEPT ![p].todo = @ \ n]
       /\ IF "generations" \in n
            THEN gens' = [gens EXCEPT ![b] = <<>>] /\ stage' = [stage EXCEPT ![b] = <<>>]
            ELSE UNCHANGED <<gens, stage>>
       /\ holder' = IF "locks" \in n THEN [holder EXCEPT ![b] = Nobody] ELSE holder
       /\ current' = IF "CURRENT" \in n THEN [current EXCEPT ![b] = 0] ELSE current
       /\ doomed' = doomed \cup Writers(b)
       /\ IF n \cap {"CURRENT", "generations"} = {} \/ job[p].kind # "delete"
            THEN UNCHANGED <<kept, owed>>
            ELSE kept' = kept \ lost /\ owed' = {c \in owed : c.row \notin lost}
       /\ excused' = excused \cup Carried(b) \cup (IF job[p].kind = "delete" THEN {} ELSE lost)
       /\ UNCHANGED <<made, pc, events, extra, used, born>>

\* The directory itself goes last, if nobody has put anything into it meanwhile.
SweepEnds(p) ==
    /\ pc[p] = "sweep" /\ job[p].todo = {}
    /\ made' = IF names[job[p].into] = {} THEN made \ {job[p].into} ELSE made
    /\ Ends(p)
    /\ UNCHANGED <<names, current, gens, stage, holder, events, ghost>>

----------------------------------------------------------------------------
(* The writer of a request: begin_generation to CURRENT.                   *)

\* Seeded fault: the writer lock is not looked at.
LockIgnored(b) == TRUE

LockFree(b) == holder[b] = Nobody

\* begin_generation makes the directory it needs, also one that was just removed.
Begin(p) ==
    LET b == job[p].into IN
    /\ pc[p] = "begin"
    /\ made' = made \cup {b}
    /\ names' = [names EXCEPT ![b] = @ \cup {"generations", "locks"}]
    /\ IF LockFree(b) /\ NextId(b) \notin DOMAIN stage[b]
         THEN /\ holder' = [holder EXCEPT ![b] = p]
              /\ stage' = [stage EXCEPT ![b] = Put(@, NextId(b), Building)]
              /\ job' = [job EXCEPT ![p].gen = NextId(b)]
              /\ pc' = [pc EXCEPT ![p] = "prepare"]
              /\ UNCHANGED ghost
         ELSE Fails(p) /\ UNCHANGED <<holder, stage>>
    /\ UNCHANGED <<current, gens, events>>

\* Seeded fault: a writer that ends keeps its lock.
StaysLocked(p) == holder

Unlocked(p) == [b \in Buckets |-> IF holder[b] = p THEN Nobody ELSE holder[b]]

\* Rows appended after the highest id ever given to a row of the dataset.
Appended(table, cells) ==
    [rows |-> [id \in DOMAIN table.rows \cup (table.top + 1 .. table.top + Len(cells)) |->
                 IF id \in DOMAIN table.rows THEN table.rows[id] ELSE cells[id - table.top]],
     top  |-> table.top + Len(cells)]

Removed(table, ids) ==
    [rows |-> [id \in DOMAIN table.rows \ ids |-> table.rows[id]], top |-> table.top]

NextVersion(cell) == [cell EXCEPT !.version = @ + 1]

Updated(table, id) ==
    [rows |-> [table.rows EXCEPT ![id] = NextVersion(@)], top |-> table.top]

\* Seeded fault: an initial publication does not look again whether there is a dataset.
InitialUnchecked(b) == TRUE

\* publish_csv_generation: still no dataset, now that the lock is held.
StillEmpty(b) == ~Resolves(b)

\* A transaction deletes only rows that exist, and not all of them.
Deletable(ids, table) == ids \subseteq DOMAIN table.rows /\ ids # DOMAIN table.rows

Plan(table, gone, fresh) == [table |-> table, gone |-> gone, fresh |-> fresh]

\* What one transaction of a client does: insert, update or delete a row.
Insertions(now) == {Plan(Appended(now, <<NewCell(r)>>), {}, {NewCell(r)}) : r \in Rows \ born}

Updates(now) ==
    {Plan(Updated(now, id), {now.rows[id]}, {NextVersion(now.rows[id])}) :
       id \in {i \in DOMAIN now.rows : now.rows[i].version < MaxVersion}}

Deletions(now) ==
    {Plan(Removed(now, {id}), {now.rows[id]}, {}) :
       id \in {i \in DOMAIN now.rows : Deletable({i}, now)}}

\* What worker p writes to bucket b: the table, the cells it replaces and those it adds.
Plans(p, b) ==
    LET now == Visible(b)
        j   == job[p]
    IN CASE j.task = "initial" ->
              IF StillEmpty(b) THEN {Plan(Appended(NoTable, j.cells), {}, j.fresh)} ELSE {}
         [] j.task = "insert" ->
              IF Resolves(b) THEN {Plan(Appended(now, j.cells), {}, {})} ELSE {}
         [] j.task = "delete" ->
              IF Deletable(j.ids, now) THEN {Plan(Removed(now, j.ids), {}, {})} ELSE {}
         [] j.task = "mutate" ->
              IF Resolves(b) THEN Insertions(now) \cup Updates(now) \cup Deletions(now) ELSE {}

Prepare(p) ==
    LET b == job[p].into IN
    /\ pc[p] = "prepare" /\ job[p].gen \in DOMAIN stage[b]
    /\ \E plan \in Plans(p, b) :
         LET new == DOMAIN plan.table.rows \ DOMAIN Visible(b).rows
         IN /\ stage' = [stage EXCEPT ![b][job[p].gen] = plan.table]
            /\ job' = [job EXCEPT ![p].gone = plan.gone, ![p].fresh = plan.fresh]
            /\ born' = born \cup RowsOf(plan.fresh)
            /\ used' = [used EXCEPT ![b] = @ \cup new]
            /\ excused' = excused \cup {plan.table.rows[id].row : id \in new \cap used[b]}
                                 \cup Endangered(p, RowsOf(CellsOf(plan.table)))
    /\ pc' = [pc EXCEPT ![p] = "publish"]
    /\ UNCHANGED <<made, names, current, gens, holder, events, kept, owed, extra, doomed>>

\* Something is wrong or refused: abandon_generation.
PrepareFails(p) ==
    LET b == job[p].into IN
    /\ pc[p] = "prepare"
    /\ stage' = [stage EXCEPT ![b] = Without(@, job[p].gen)]
    /\ holder' = Unlocked(p)
    /\ Fails(p)
    /\ UNCHANGED <<made, names, current, gens, events>>

\* What is staged is complete, and there is no generation of this number.
Publishable(p) ==
    LET b == job[p].into
        g == job[p].gen
    IN g \in DOMAIN stage[b] /\ stage[b][g] # Building /\ g \notin DOMAIN gens[b]

\* publish_generation: the staging directory is renamed.
Publish(p) ==
    LET b == job[p].into
        g == job[p].gen
    IN /\ pc[p] = "publish" /\ Publishable(p)
       /\ gens' = [gens EXCEPT ![b] = Put(@, g, stage[b][g])]
       /\ stage' = [stage EXCEPT ![b] = Without(@, g)]
       /\ pc' = [pc EXCEPT ![p] = "current"]
       /\ excused' = excused \cup Endangered(p, {})
       /\ UNCHANGED <<made, names, current, holder, job, events, kept, owed, extra, used, doomed,
                      born>>

\* What is staged is not there, is not complete, or its number is taken.  (Module Catalog has the
\* other failures.)  publish_generation does not abandon what it could not publish.
PublishFails(p) ==
    /\ pc[p] = "publish" /\ ~Publishable(p)
    /\ holder' = Unlocked(p)
    /\ Fails(p)
    /\ UNCHANGED <<made, names, current, gens, stage, events>>

\* Seeded fault: an initial publication ends a move as well as a copy.
DeletesAfterInsert(p) == job[p].kind = "move" /\ job[p].task = "insert"

\* A move that has published its copies goes on to delete the rows in the source.
GoesOn(p) == job[p].kind = "move" /\ job[p].task # "delete"

\* An insertion that is acknowledged, unless the directory was removed; an update; a deletion.
Acknowledged(p) ==
    (kept \ (RowsOf(job[p].gone) \ RowsOf(job[p].fresh)))
      \cup (IF p \in doomed \/ job[p].gone # {} THEN {} ELSE RowsOf(job[p].fresh))

\* The ids a move deletes in the source name the rows it has copied, not others that were given
\* these ids after the source was deleted and made again.
DeletesCopied(p) ==
    \A r \in Rows : Cardinality(job[p].ids \cap Holds(Visible(job[p].into).rows, r))
                     >= Cardinality(Holds(job[p].cells, r))

\* The copies that are asked for, or left by a deletion that hits other rows.
CopiesStay(p) ==
    job[p].kind \in {"copy", "combine"} \/ (job[p].task = "delete" /\ ~DeletesCopied(p))

\* atomic_write_current, which also makes the directory.
WriteCurrent(p) ==
    LET b == job[p].into
    IN /\ pc[p] = "current"
       /\ made' = made \cup {b}
       /\ names' = [names EXCEPT ![b] = @ \cup {"CURRENT"}]
       /\ current' = [current EXCEPT ![b] = job[p].gen]
       /\ holder' = Unlocked(p)
       /\ IF GoesOn(p)
            THEN /\ pc' = [pc EXCEPT ![p] = "begin"]
                 /\ job' = [job EXCEPT ![p].task = "delete", ![p].gen = 0,
                                       ![p].into = CHOOSE s \in job[p].from : TRUE]
            ELSE Ends(p)
       /\ kept' = Acknowledged(p)
       /\ owed' = (owed \ job[p].gone) \cup (IF p \in doomed THEN {} ELSE job[p].fresh)
       /\ extra' = IF CopiesStay(p) THEN OneMore(job[p].cells) ELSE extra
       /\ excused' = excused \cup Endangered(p, {})
       /\ doomed' = doomed \ {p}
       /\ UNCHANGED <<gens, stage, events, used, born>>

\* The members of a family of sets, each counted as often as it occurs.
Pairs(family) == UNION {{x} \X family[x] : x \in DOMAIN family}

\* What a move whose copies are published has copied of a row and not yet deleted.
Moving(p, r) == IF job[p].task = "delete" THEN Holds(job[p].cells, r) ELSE {}

InFlight(r) == Cardinality(Pairs([p \in Workers |-> Moving(p, r)]))

\* The service dies: its locks are released, its files stay.
Crash ==
    /\ events < MaxEvents /\ \E p \in Workers : pc[p] # "idle"
    /\ events' = events + 1
    /\ pc' = [p \in Workers |-> "idle"] /\ job' = [p \in Workers |-> IdleJob]
    /\ holder' = [b \in Buckets |-> Nobody]
    /\ extra' = [r \in Rows |-> extra[r] + InFlight(r)]
    /\ doomed' = {}
    /\ UNCHANGED <<made, names, current, gens, stage, kept, owed, excused, used, born>>

----------------------------------------------------------------------------
\* The full buckets have these tables, the empty ones only a directory.
Starts(tables, full, empty) ==
    /\ made = full \cup empty
    /\ names = [b \in Buckets |-> IF b \in full THEN Names
                                  ELSE IF b \in empty THEN {"meta"} ELSE {}]
    /\ current = [b \in Buckets |-> IF b \in full THEN 1 ELSE 0]
    /\ gens = [b \in Buckets |-> IF b \in full THEN Put(<<>>, 1, tables[b]) ELSE <<>>]
    /\ stage = [b \in Buckets |-> <<>>]
    /\ holder = [b \in Buckets |-> Nobody]
    /\ pc = [p \in Workers |-> "idle"] /\ job = [p \in Workers |-> IdleJob]
    /\ events = 0
    /\ owed = UNION {CellsOf(tables[b]) : b \in full}
    /\ kept = RowsOf(owed) /\ born = RowsOf(owed)
    /\ extra = [r \in Rows |-> 0] /\ excused = {} /\ doomed = {}
    /\ used = [b \in Buckets |-> IF b \in full THEN DOMAIN tables[b].rows ELSE {}]

FirstTables(s, r1, r2, r3) ==
    [b \in Buckets |-> Appended(NoTable, IF b = s THEN <<NewCell(r1), NewCell(r2)>>
                                                 ELSE <<NewCell(r3)>>)]

\* One bucket has two rows; the other does not exist, is empty, or has one row.
Init ==
    \E s, d \in Buckets, r1, r2, r3 \in Rows, there \in {"absent", "empty", "full"} :
      /\ s # d /\ Cardinality({r1, r2, r3}) = 3
      /\ Starts(FirstTables(s, r1, r2, r3),
                {s} \cup (IF there = "full" THEN {d} ELSE {}),
                IF there = "empty" THEN {d} ELSE {})

Request(p) ==
    \/ \E b \in Buckets : StartCreate(p, b) \/ StartRename(p, b) \/ StartDelete(p, b)
                          \/ StartMutate(p, b)
    \/ \E b \in Buckets, r \in Rows : StartImport(p, b, r)
    \/ \E s, d \in Buckets : \E ids \in SUBSET DOMAIN Visible(s).rows, move \in BOOLEAN :
         StartTransfer(p, s, d, ids, move)
    \/ \E S \in SUBSET Buckets, t \in Buckets : StartCombine(p, S, t)

Step(p) ==
    \/ MakeBucket(p) \/ MakeBucketFails(p) \/ UndoCombine(p)
    \/ \E n \in Entries : SweepEntry(p, n)
    \/ SweepEnds(p)
    \/ Begin(p) \/ Prepare(p) \/ PrepareFails(p)
    \/ Publish(p) \/ PublishFails(p) \/ WriteCurrent(p)

Next == (\E p \in Workers : Request(p) \/ Step(p)) \/ Crash

Spec == Init /\ [][Next]_vars

----------------------------------------------------------------------------
(* Properties.                                                             *)

Stored == UNION {CellsOf(Visible(b)) : b \in Buckets}

\* "A row move is copy-first [..] leaves the destination copy intact rather than risking data
\* loss" (docs/BUCKETS.md): whatever transfers, transactions, deletions of buckets, failures
\* and crashes do, a row that no client asked to delete is in some bucket.  All exceptions come
\* from the removal of directories: a row with a row id that another row of the bucket had
\* before the bucket was removed; a row removed by the cleanup of a failed create or combine;
\* a row that was being written while the directory was removed; and a row that is in the
\* bucket, or on its way to it, when such a writer goes on in the bucket that was made again,
\* since it no longer holds the lock.
RowsKept == kept \subseteq RowsOf(Stored) \cup excused

\* The same for what is in the row: an update that was acknowledged stays.
UpdatesKept == \A c \in owed : c \in Stored \/ c.row \in excused

Copies(r) == Cardinality(Pairs([b \in Buckets |-> Holds(Visible(b).rows, r)]))

\* "Copy-first" (docs/BUCKETS.md) also means that rows get doubled: every copy of a row beyond
\* the first was asked for, was reported by the warning of a move whose deletion failed, is left
\* by a crash or by a deletion whose row ids name other rows by now, or belongs to a move that has
\* still to delete it.  The exceptions are those of RowsKept.
CopiesAccounted ==
    \A r \in born \ excused : Copies(r) <= 1 + extra[r] + InFlight(r)

\* Two requests write to one bucket at a time only if its directory was removed under one of
\* them: deletion takes the lock file away from a writer that holds it.
WritersExcludeEachOther ==
    \A b \in Buckets : \A p, q \in Writers(b) : p # q => {p, q} \cap doomed # {}
=============================================================================
