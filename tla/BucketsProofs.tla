---------------------------- MODULE BucketsProofs ----------------------------
(***************************************************************************)
(* Proofs about the operations that span buckets: types, the exclusion of  *)
(* writers, that no row is lost, and that every copy is accounted for.     *)
(***************************************************************************)
EXTENDS Buckets, RowOrderProofs

USE ConstantsAssumption

----------------------------------------------------------------------------
(* Types.                                                                  *)

Tasks == {"none", "initial", "insert", "delete", "mutate"}

JobType ==
    [kind : AllKinds \cup {"none"}, from : SUBSET Buckets, ids : SUBSET Nat, cells : Seq(Cell),
     into : Buckets \cup {Nobody}, task : Tasks, gen : Nat, todo : SUBSET Names,
     gone : SUBSET Cell, fresh : SUBSET Cell]

IsTable(t) ==
    /\ t = [rows |-> t.rows, top |-> t.top]
    /\ t.top \in Int /\ t.top >= -1
    /\ DOMAIN t.rows \subseteq 0..t.top
    /\ t.rows \in [DOMAIN t.rows -> Cell]

TablesTyped(b) ==
    /\ \A g \in DOMAIN gens[b] : IsTable(gens[b][g])
    /\ \A g \in Staged(b) : IsTable(stage[b][g])

DirectoryTyped(b) ==
    /\ current[b] \in Nat
    /\ DOMAIN gens[b] \subseteq Nat /\ IsFiniteSet(DOMAIN gens[b])
    /\ DOMAIN stage[b] \subseteq Nat
    /\ b \notin made => names[b] = {}
    /\ "generations" \notin names[b] => gens[b] = <<>> /\ stage[b] = <<>>
    /\ "locks" \notin names[b] => holder[b] = Nobody

Domains ==
    /\ made \subseteq Buckets /\ names \in [Buckets -> SUBSET Names]
    /\ DOMAIN current = Buckets /\ DOMAIN gens = Buckets /\ DOMAIN stage = Buckets
    /\ DOMAIN holder = Buckets
    /\ used \in [Buckets -> SUBSET Nat]

Positions == {"idle", "make", "begin", "undo", "sweep"} \cup Writing

\* What a request can look like where its worker is.
Shape(at, j) ==
    /\ at = "idle" => j = IdleJob
    /\ at # "idle" => j.into \in Buckets
    /\ j.kind = "move" => \E s \in Buckets : j.from = {s} /\ (s = j.into <=> j.task = "delete")
    /\ j.task = "delete" => j.kind = "move"
    /\ at \in Writing \cup {"begin"} => j.task # "none"
    /\ j.task = "mutate" <=> j.kind = "mutate"
    /\ j.kind = "import" => j.task = "initial"
    /\ j.kind # "mutate" => j.gone = {}
    /\ j.kind \notin {"mutate", "import"} => j.fresh = {}
    /\ j.kind = "import" => j.fresh \subseteq ToSet(j.cells)
    /\ at = "make" /\ j.kind = "combine" => j.task = "initial"

JobsTyped ==
    /\ pc \in [Workers -> Positions] /\ job \in [Workers -> JobType]
    /\ \A p \in Workers : Shape(pc[p], job[p])

HoldersWrite == \A b \in Buckets : holder[b] # Nobody => holder[b] \in Writers(b)

GhostTyped ==
    /\ owed \subseteq Cell /\ doomed \subseteq Workers
    /\ kept \subseteq Rows /\ excused \subseteq Rows /\ born \subseteq Rows

Typed ==
    /\ Domains /\ JobsTyped /\ HoldersWrite /\ GhostTyped
    /\ \A b \in Buckets : DirectoryTyped(b) /\ TablesTyped(b)

(* The largest of a finite set of integers is in it and above the others.  *)
LEMMA LargestId ==
    ASSUME NEW ids, IdSet(ids), ids # {}
    PROVE  Max(ids) \in ids /\ \A x \in ids : x <= Max(ids)
  <1>1. Cardinality(ids) \in Nat /\ Cardinality(ids) # 0
    BY FS_CardinalityType, FS_EmptySet DEF IdSet
  <1>2. Cardinality(ids) - 1 \in 0..(Cardinality(ids) - 1)
    BY <1>1
  <1>3. PICK m \in ids : Rank(m, ids) = Cardinality(ids) - 1
    BY <1>2, RankOnto
  <1>4. \A x \in ids : x <= m
    <2> SUFFICES ASSUME NEW x \in ids, m < x PROVE FALSE
      BY DEF IdSet
    <2>1. Rank(m, ids) < Rank(x, ids) /\ Rank(x, ids) < Cardinality(ids)
          /\ Rank(x, ids) \in Nat
      BY RankMonotone, RankTyped DEF IdSet
    <2>2. QED BY <1>1, <1>3, <2>1
  <1>5. Max(ids) \in ids /\ \A x \in ids : Max(ids) >= x
    <2>1. \A x \in ids : m >= x
      BY <1>4 DEF IdSet
    <2>2. QED BY <2>1 DEF Max
  <1>6. \A x \in ids : x \in Int
    BY DEF IdSet
  <1>7. QED BY <1>5, <1>6

(* The number of a new generation is above all that the directory names.   *)
LEMMA NextIdTyped ==
    ASSUME NEW b, DirectoryTyped(b)
    PROVE  /\ NextId(b) \in Nat
           /\ \A g \in DOMAIN gens[b] : g < NextId(b)
           /\ "CURRENT" \in names[b] => current[b] < NextId(b)
  <1> DEFINE ids == {0} \cup DOMAIN gens[b]
                      \cup (IF "CURRENT" \in names[b] THEN {current[b]} ELSE {})
  <1>1. ids \subseteq Nat /\ ids # {}
    BY DEF DirectoryTyped
  <1>2. IsFiniteSet(ids)
    BY FS_Singleton, FS_EmptySet, FS_Union DEF DirectoryTyped
  <1>3. Max(ids) \in ids /\ \A x \in ids : x <= Max(ids)
    BY <1>1, <1>2, LargestId DEF IdSet
  <1>4. NextId(b) = 1 + Max(ids)
    BY DEF NextId
  <1>5. \A x \in ids : x \in Nat /\ x < NextId(b)
    <2>1. PICK m : m = Max(ids)
      OBVIOUS
    <2>2. m \in Nat /\ NextId(b) = 1 + m /\ \A x \in ids : x \in Nat /\ x <= m
      BY <1>1, <1>3, <1>4, <2>1
    <2> HIDE DEF ids
    <2>3. QED BY <2>2
  <1>6. 0 \in ids /\ DOMAIN gens[b] \subseteq ids
    OBVIOUS
  <1>7. "CURRENT" \in names[b] => current[b] \in ids
    OBVIOUS
  <1>8. NextId(b) \in Nat
    BY <1>1, <1>3, <1>4
  <1>9. QED BY <1>5, <1>6, <1>7, <1>8

(* No dataset is a table without rows.                                     *)
LEMMA NoTableTyped == IsTable(NoTable) /\ DOMAIN NoTable.rows = {}
  BY DEF IsTable, NoTable

(* What CURRENT names is a table of the bucket.                            *)
LEMMA VisibleTyped ==
    ASSUME NEW b, TablesTyped(b)
    PROVE  /\ IsTable(Visible(b))
           /\ ~Resolves(b) => Visible(b) = NoTable
           /\ Resolves(b) => Visible(b) = gens[b][current[b]] /\ current[b] \in DOMAIN gens[b]
  BY NoTableTyped DEF Visible, Resolves, TablesTyped

(* Appended cells get new ids in their order; the rows that were there     *)
(* stay.                                                                   *)
LEMMA AppendedTyped ==
    ASSUME NEW t, IsTable(t), NEW cells \in Seq(Cell)
    PROVE  /\ IsTable(Appended(t, cells))
           /\ \A id \in DOMAIN t.rows : /\ id \in DOMAIN Appended(t, cells).rows
                                        /\ Appended(t, cells).rows[id] = t.rows[id]
           /\ \A id \in DOMAIN Appended(t, cells).rows \ DOMAIN t.rows :
                Appended(t, cells).rows[id] \in ToSet(cells)
           /\ \A c \in ToSet(cells) : \E id \in DOMAIN Appended(t, cells).rows :
                id \notin DOMAIN t.rows /\ Appended(t, cells).rows[id] = c
  <1> DEFINE a == Appended(t, cells)
             new == t.top + 1 .. t.top + Len(cells)
  <1>1. /\ Len(cells) \in Nat /\ DOMAIN cells = 1..Len(cells)
        /\ \A i \in 1..Len(cells) : cells[i] \in Cell
    OBVIOUS
  <1>2. /\ t.top \in Int /\ t.top >= -1 /\ DOMAIN t.rows \subseteq 0..t.top
        /\ \A id \in DOMAIN t.rows : t.rows[id] \in Cell
    BY DEF IsTable
  <1>3. /\ DOMAIN a.rows = DOMAIN t.rows \cup new
        /\ a.top = t.top + Len(cells) /\ a = [rows |-> a.rows, top |-> a.top]
        /\ \A id \in DOMAIN t.rows : a.rows[id] = t.rows[id]
        /\ \A id \in new \ DOMAIN t.rows : a.rows[id] = cells[id - t.top]
        /\ a.rows = [id \in DOMAIN a.rows |-> a.rows[id]]
    BY DEF Appended
  <1>4. \A id \in new : id \notin DOMAIN t.rows /\ id - t.top \in 1..Len(cells)
    BY <1>1, <1>2
  <1>5. \A i \in 1..Len(cells) : t.top + i \in new /\ (t.top + i) - t.top = i
    BY <1>1, <1>2
  <1>6. DOMAIN a.rows \subseteq 0..a.top /\ a.top \in Int /\ a.top >= -1
    <2>1. \A id \in new : id \in 0..(t.top + Len(cells))
      BY <1>1, <1>2
    <2>2. \A id \in DOMAIN t.rows : id \in 0..(t.top + Len(cells))
      BY <1>1, <1>2
    <2>3. t.top + Len(cells) \in Int /\ t.top + Len(cells) >= -1
      BY <1>1, <1>2
    <2>4. QED BY <1>3, <2>1, <2>2, <2>3
  <1>7. \A id \in new : a.rows[id] \in ToSet(cells) /\ a.rows[id] \in Cell
    BY <1>1, <1>3, <1>4 DEF ToSet
  <1>8. a.rows \in [DOMAIN a.rows -> Cell]
    BY <1>2, <1>3, <1>7
  <1>9. \A c \in ToSet(cells) : \E id \in DOMAIN a.rows :
          id \notin DOMAIN t.rows /\ a.rows[id] = c
    <2> TAKE c \in ToSet(cells)
    <2>1. PICK i \in 1..Len(cells) : c = cells[i]
      BY <1>1 DEF ToSet
    <2>2. t.top + i \in new /\ a.rows[t.top + i] = c
      BY <1>3, <1>4, <1>5, <2>1
    <2>3. QED BY <1>3, <1>4, <2>2
  <1>10. IsTable(a)
    BY <1>3, <1>6, <1>8 DEF IsTable
  <1>11. QED BY <1>3, <1>7, <1>9, <1>10

(* Deleting rows leaves the others.                                        *)
LEMMA RemovedTyped ==
    ASSUME NEW t, IsTable(t), NEW ids
    PROVE  /\ IsTable(Removed(t, ids)) /\ DOMAIN Removed(t, ids).rows = DOMAIN t.rows \ ids
           /\ \A id \in DOMAIN t.rows \ ids : Removed(t, ids).rows[id] = t.rows[id]
  BY DEF IsTable, Removed

(* A new version of a cell is of the same row.                             *)
LEMMA NextVersionTyped ==
    ASSUME NEW c \in Cell, c.version < MaxVersion
    PROVE  NextVersion(c) \in Cell /\ NextVersion(c).row = c.row
  <1>1. c.row \in Rows /\ c.version \in 0..MaxVersion /\ MaxVersion \in Nat
    BY DEF Cell
  <1>2. c.version + 1 \in 0..MaxVersion
    BY <1>1
  <1>3. NextVersion(c) = [row |-> c.row, version |-> c.version + 1]
    BY DEF NextVersion, Cell
  <1>4. QED BY <1>1, <1>2, <1>3 DEF Cell

(* Updating a row keeps all rows.                                          *)
LEMMA UpdatedTyped ==
    ASSUME NEW t, IsTable(t), NEW id \in DOMAIN t.rows, t.rows[id].version < MaxVersion
    PROVE  /\ IsTable(Updated(t, id)) /\ DOMAIN Updated(t, id).rows = DOMAIN t.rows
           /\ \A i \in DOMAIN t.rows : Updated(t, id).rows[i].row = t.rows[i].row
  <1>1. NextVersion(t.rows[id]) \in Cell /\ NextVersion(t.rows[id]).row = t.rows[id].row
    BY NextVersionTyped DEF IsTable
  <1>2. /\ Updated(t, id).top = t.top
        /\ Updated(t, id).rows = [t.rows EXCEPT ![id] = NextVersion(t.rows[id])]
        /\ Updated(t, id) = [rows |-> Updated(t, id).rows, top |-> Updated(t, id).top]
    BY DEF Updated
  <1>3. QED BY <1>1, <1>2 DEF IsTable

(* A new row is a cell.                                                    *)
LEMMA NewCellTyped ==
    ASSUME NEW r \in Rows
    PROVE  NewCell(r) \in Cell /\ NewCell(r).row = r
  BY DEF NewCell, Cell

(* What a plan writes: a table that has the rows of the one it starts from *)
(* under their ids, but for those to be deleted, and the rows to be added  *)
(* under new ids.                                                          *)
PlanTyped(plan) == IsTable(plan.table) /\ plan.gone \subseteq Cell /\ plan.fresh \subseteq Cell

PlanKeeps(p, now, plan) ==
    /\ \A id \in DOMAIN now.rows \cap DOMAIN plan.table.rows :
         plan.table.rows[id].row = now.rows[id].row
    /\ \A id \in DOMAIN now.rows :
         \/ id \in DOMAIN plan.table.rows
         \/ now.rows[id].row \in RowsOf(plan.gone) \ RowsOf(plan.fresh)
         \/ job[p].task = "delete" /\ id \in job[p].ids

ToAdd(j, fresh) == IF j.task \in {"insert", "initial"} THEN ToSet(j.cells) ELSE fresh

PlanAdds(p, now, plan) ==
    plan.gone = {} =>
      \A r \in RowsOf(ToAdd(job[p], plan.fresh)) : \E id \in DOMAIN plan.table.rows :
        id \notin DOMAIN now.rows /\ plan.table.rows[id].row = r

PlanShape(p, plan) ==
    /\ job[p].kind # "mutate" => plan.gone = {}
    /\ job[p].kind \notin {"mutate", "import"} => plan.fresh = {}
    /\ job[p].kind = "import" => plan.fresh \subseteq ToSet(job[p].cells)

(* The cells of a typed table.                                             *)
LEMMA TableCells ==
    ASSUME NEW t, IsTable(t)
    PROVE  /\ CellsOf(t) \subseteq Cell /\ RowsOf(CellsOf(t)) \subseteq Rows
           /\ \A id \in DOMAIN t.rows : /\ t.rows[id] \in Cell /\ t.rows[id].row \in Rows
                                        /\ t.rows[id].row \in RowsOf(CellsOf(t))
           /\ \A r \in RowsOf(CellsOf(t)) : \E id \in DOMAIN t.rows : t.rows[id].row = r
           /\ DOMAIN t.rows \subseteq Nat
  <1>1. \A id \in DOMAIN t.rows : t.rows[id] \in Cell /\ t.rows[id].row \in Rows
    BY DEF IsTable, Cell
  <1>2. DOMAIN t.rows \subseteq Nat
    BY DEF IsTable
  <1>3. QED BY <1>1, <1>2 DEF CellsOf, RowsOf

(* A client's insertion, update or deletion on a dataset.                  *)
LEMMA InsertionPlans ==
    ASSUME Typed, NEW p \in Workers, job[p].task = "mutate", job[p].kind = "mutate",
           NEW now, IsTable(now), NEW plan \in Insertions(now)
    PROVE  PlanTyped(plan) /\ PlanKeeps(p, now, plan) /\ PlanAdds(p, now, plan)
           /\ PlanShape(p, plan)
  <1>1. PICK r \in Rows \ born : plan = Plan(Appended(now, <<NewCell(r)>>), {}, {NewCell(r)})
    BY DEF Insertions
  <1>2. PICK cells : cells = <<NewCell(r)>>
    OBVIOUS
  <1>3. cells \in Seq(Cell) /\ ToSet(cells) = {NewCell(r)} /\ NewCell(r) \in Cell
    BY <1>2, NewCellTyped DEF ToSet
  <1>4. /\ plan.table = Appended(now, cells) /\ plan.gone = {} /\ plan.fresh = {NewCell(r)}
    BY <1>1, <1>2 DEF Plan
  <1>5. PlanTyped(plan) /\ PlanKeeps(p, now, plan)
    BY <1>3, <1>4, AppendedTyped DEF PlanTyped, PlanKeeps
  <1>6. PlanAdds(p, now, plan)
    <2>0. \A c \in ToSet(cells) : \E id \in DOMAIN Appended(now, cells).rows :
            id \notin DOMAIN now.rows /\ Appended(now, cells).rows[id] = c
      BY <1>3, AppendedTyped
    <2>1. PICK id \in DOMAIN plan.table.rows :
            id \notin DOMAIN now.rows /\ plan.table.rows[id] = NewCell(r)
      BY <1>3, <1>4, <2>0
    <2>2. \A x \in RowsOf(ToAdd(job[p], plan.fresh)) : x = NewCell(r).row
      BY <1>4 DEF ToAdd, RowsOf
    <2>3. plan.table.rows[id].row = NewCell(r).row
      BY <2>1
    <2>4. \A x \in RowsOf(ToAdd(job[p], plan.fresh)) :
            id \notin DOMAIN now.rows /\ plan.table.rows[id].row = x
      BY <2>1, <2>2, <2>3
    <2>5. QED BY <2>4 DEF PlanAdds
  <1>7. QED BY <1>4, <1>5, <1>6 DEF PlanShape

(* What a client's update of a row plans.                                 *)
LEMMA UpdatePlans ==
    ASSUME Typed, NEW p \in Workers, job[p].task = "mutate", job[p].kind = "mutate",
           NEW now, IsTable(now), NEW plan \in Updates(now)
    PROVE  PlanTyped(plan) /\ PlanKeeps(p, now, plan) /\ PlanAdds(p, now, plan)
           /\ PlanShape(p, plan)
  <1>1. PICK id \in DOMAIN now.rows :
          /\ now.rows[id].version < MaxVersion
          /\ plan = Plan(Updated(now, id), {now.rows[id]}, {NextVersion(now.rows[id])})
    BY DEF Updates
  <1>2. now.rows[id] \in Cell /\ NextVersion(now.rows[id]) \in Cell
    BY <1>1, NextVersionTyped, TableCells
  <1>3. /\ plan.table = Updated(now, id) /\ plan.gone = {now.rows[id]}
        /\ plan.fresh = {NextVersion(now.rows[id])}
    BY <1>1 DEF Plan
  <1>4. /\ IsTable(plan.table) /\ DOMAIN plan.table.rows = DOMAIN now.rows
        /\ \A i \in DOMAIN now.rows : plan.table.rows[i].row = now.rows[i].row
    <2>1. PICK t : t = Updated(now, id)
      OBVIOUS
    <2>2. /\ IsTable(t) /\ DOMAIN t.rows = DOMAIN now.rows
          /\ \A i \in DOMAIN now.rows : t.rows[i].row = now.rows[i].row
      BY <1>1, <2>1, UpdatedTyped
    <2>3. QED BY <1>3, <2>1, <2>2
  <1>5. PlanTyped(plan)
    BY <1>2, <1>3, <1>4 DEF PlanTyped
  <1>6. PlanKeeps(p, now, plan)
    BY <1>4 DEF PlanKeeps
  <1>7. QED BY <1>3, <1>5, <1>6 DEF PlanAdds, PlanShape

(* What a client's deletion of a row plans.                               *)
LEMMA DeletionPlans ==
    ASSUME Typed, NEW p \in Workers, job[p].task = "mutate", job[p].kind = "mutate",
           NEW now, IsTable(now), NEW plan \in Deletions(now)
    PROVE  PlanTyped(plan) /\ PlanKeeps(p, now, plan) /\ PlanAdds(p, now, plan)
           /\ PlanShape(p, plan)
  <1>1. PICK id \in DOMAIN now.rows : plan = Plan(Removed(now, {id}), {now.rows[id]}, {})
    BY DEF Deletions
  <1>2. now.rows[id] \in Cell
    BY TableCells
  <1>3. plan.table = Removed(now, {id}) /\ plan.gone = {now.rows[id]} /\ plan.fresh = {}
    BY <1>1 DEF Plan
  <1>4. /\ IsTable(plan.table) /\ DOMAIN plan.table.rows = DOMAIN now.rows \ {id}
        /\ \A i \in DOMAIN now.rows \ {id} : plan.table.rows[i] = now.rows[i]
    BY <1>3, RemovedTyped
  <1>5. PlanTyped(plan)
    BY <1>2, <1>3, <1>4 DEF PlanTyped
  <1>6. now.rows[id].row \in RowsOf(plan.gone) \ RowsOf(plan.fresh)
    BY <1>3 DEF RowsOf
  <1>7. PlanKeeps(p, now, plan)
    BY <1>4, <1>6 DEF PlanKeeps
  <1>8. QED BY <1>3, <1>5, <1>7 DEF PlanAdds, PlanShape

(* Every plan of a worker that prepares.  One that starts without a        *)
(* dataset writes only the cells of its request.                           *)
LEMMA PlansTyped ==
    ASSUME Typed, NEW p \in Workers, pc[p] = "prepare", NEW b \in Buckets, b = job[p].into,
           NEW plan \in Plans(p, b)
    PROVE  /\ PlanTyped(plan) /\ PlanKeeps(p, Visible(b), plan)
           /\ PlanAdds(p, Visible(b), plan) /\ PlanShape(p, plan)
           /\ ~Resolves(b) => CellsOf(plan.table) \subseteq ToSet(job[p].cells)
  <1>1. PICK now : now = Visible(b)
    OBVIOUS
  <1>2. /\ IsTable(now) /\ (~Resolves(b) => now = NoTable)
    BY <1>1, VisibleTyped DEF Typed
  <1>3. /\ job[p] \in JobType /\ Shape(pc[p], job[p])
        /\ job[p].cells \in Seq(Cell) /\ job[p].fresh \subseteq Cell
    BY DEF Typed, JobsTyped, JobType
  <1>4. job[p].task \in Tasks \ {"none"} /\ (job[p].task = "mutate" => job[p].kind = "mutate")
    BY <1>3 DEF JobType, Shape, Writing
  <1>5. CASE job[p].task = "initial"
    <2>1. ~Resolves(b) /\ plan = Plan(Appended(NoTable, job[p].cells), {}, job[p].fresh)
      BY <1>5 DEF Plans, StillEmpty
    <2>2. now = NoTable
      BY <1>2, <2>1
    <2>3. /\ plan.table = Appended(now, job[p].cells) /\ plan.gone = {}
          /\ plan.fresh = job[p].fresh
      BY <2>1, <2>2 DEF Plan
    <2>4. PlanTyped(plan) /\ PlanKeeps(p, now, plan)
      BY <1>2, <1>3, <2>3, AppendedTyped DEF PlanTyped, PlanKeeps
    <2>5. PlanAdds(p, now, plan)
      BY <1>2, <1>3, <1>5, <2>3, AppendedTyped DEF PlanAdds, ToAdd, RowsOf
    <2>6. PlanShape(p, plan)
      BY <1>3, <2>3 DEF PlanShape, Shape
    <2>7. CellsOf(plan.table) \subseteq ToSet(job[p].cells)
      BY <1>2, <1>3, <2>2, <2>3, AppendedTyped, NoTableTyped DEF CellsOf
    <2>8. QED BY <1>1, <2>4, <2>5, <2>6, <2>7
  <1>6. CASE job[p].task = "insert"
    <2>1. Resolves(b) /\ plan = Plan(Appended(now, job[p].cells), {}, {})
      BY <1>1, <1>6 DEF Plans
    <2>2. plan.table = Appended(now, job[p].cells) /\ plan.gone = {} /\ plan.fresh = {}
      BY <2>1 DEF Plan
    <2>3. PlanTyped(plan) /\ PlanKeeps(p, now, plan)
      BY <1>2, <1>3, <2>2, AppendedTyped DEF PlanTyped, PlanKeeps
    <2>4. PlanAdds(p, now, plan)
      BY <1>2, <1>3, <1>6, <2>2, AppendedTyped DEF PlanAdds, ToAdd, RowsOf
    <2>5. PlanShape(p, plan)
      BY <2>2 DEF PlanShape
    <2>6. QED BY <1>1, <2>1, <2>3, <2>4, <2>5
  <1>7. CASE job[p].task = "delete"
    <2>1. Deletable(job[p].ids, now) /\ plan = Plan(Removed(now, job[p].ids), {}, {})
      BY <1>1, <1>7 DEF Plans
    <2>2. plan.table = Removed(now, job[p].ids) /\ plan.gone = {} /\ plan.fresh = {}
      BY <2>1 DEF Plan
    <2>3. PlanTyped(plan) /\ PlanKeeps(p, now, plan)
      BY <1>2, <1>7, <2>2, RemovedTyped DEF PlanTyped, PlanKeeps
    <2>4. PlanAdds(p, now, plan) /\ PlanShape(p, plan)
      BY <1>7, <2>2 DEF PlanAdds, PlanShape, ToAdd, RowsOf
    <2>5. Resolves(b)
      BY <1>2, <2>1, NoTableTyped DEF Deletable
    <2>6. QED BY <1>1, <2>3, <2>4, <2>5
  <1>8. CASE job[p].task = "mutate"
    <2>1. Resolves(b) /\ plan \in Insertions(now) \cup Updates(now) \cup Deletions(now)
      BY <1>1, <1>8 DEF Plans
    <2>2. /\ PlanTyped(plan) /\ PlanKeeps(p, now, plan) /\ PlanAdds(p, now, plan)
          /\ PlanShape(p, plan)
      BY <1>2, <1>4, <1>8, <2>1, InsertionPlans, UpdatePlans, DeletionPlans
    <2>3. QED BY <1>1, <2>1, <2>2
  <1>9. QED BY <1>4, <1>5, <1>6, <1>7, <1>8 DEF Tasks

----------------------------------------------------------------------------
(* A step changes the request and the place of one worker.                 *)

Becomes(p, at, j) == pc' = [pc EXCEPT ![p] = at] /\ job' = [job EXCEPT ![p] = j]

\* A worker that moves on to a request of the right shape keeps all requests typed.
LEMMA BecomesTyped ==
    ASSUME JobsTyped, NEW p \in Workers, NEW at \in Positions, NEW j \in JobType, Shape(at, j),
           Becomes(p, at, j)
    PROVE  JobsTyped'
  <1>1. pc' \in [Workers -> Positions] /\ job' \in [Workers -> JobType]
    BY DEF JobsTyped, Becomes
  <1>2. ASSUME NEW q \in Workers PROVE Shape(pc'[q], job'[q])
    <2>1. CASE q = p
      <3>1. pc'[q] = at /\ job'[q] = j
        BY <2>1 DEF JobsTyped, Becomes
      <3>2. QED BY <3>1
    <2>2. CASE q # p
      <3>1. pc'[q] = pc[q] /\ job'[q] = job[q]
        BY <2>2 DEF JobsTyped, Becomes
      <3>2. QED BY <3>1 DEF JobsTyped
    <2>3. QED BY <2>1, <2>2
  <1>3. QED BY <1>1, <1>2 DEF JobsTyped

(* The request of a worker that has none.                                  *)
LEMMA IdleTyped == IdleJob \in JobType /\ Shape("idle", IdleJob) /\ "idle" \in Positions
  BY DEF IdleJob, JobType, Shape, Tasks, Positions, Writing

(* An idle worker has no task.                                            *)
LEMMA IdleTask == IdleJob.task = "none" /\ IdleJob.kind = "none"
  BY DEF IdleJob

(* An ended request leaves its worker idle.                                *)
LEMMA EndsBecomes ==
    ASSUME JobsTyped, NEW p \in Workers, Ends(p)
    PROVE  Becomes(p, "idle", IdleJob) /\ JobsTyped'
  BY BecomesTyped, IdleTyped DEF Ends, Becomes

(* A failed writer is idle, or looks whether its bucket must go.           *)
LEMMA FailsBecomes ==
    ASSUME JobsTyped, NEW p \in Workers, Fails(p), pc[p] # "idle"
    PROVE  /\ JobsTyped'
           /\ \/ Becomes(p, "idle", IdleJob)
              \/ Becomes(p, "undo", job[p])
           /\ doomed' = doomed \ {p} /\ UNCHANGED <<kept, owed, excused, used, born>>
  <1>1. CASE job[p].kind = "combine"
    <2>1. Becomes(p, "undo", job[p])
      <3>1. job' = [job EXCEPT ![p] = job[p]]
        BY <1>1 DEF Fails, JobsTyped
      <3>2. QED BY <1>1, <3>1 DEF Fails, Becomes
    <2>2. job[p] \in JobType /\ Shape("undo", job[p]) /\ "undo" \in Positions
      BY DEF JobsTyped, Shape, Positions, Writing
    <2>3. QED BY <2>1, <2>2, BecomesTyped DEF Fails
  <1>2. CASE job[p].kind # "combine"
    BY <1>2, EndsBecomes DEF Fails
  <1>3. QED BY <1>1, <1>2

(* Who holds a lock writes to that bucket, whatever one worker does, if it *)
(* holds a lock afterwards only where it writes.                           *)
LEMMA HoldersStill ==
    ASSUME JobsTyped, HoldersWrite, NEW p \in Workers, NEW at, NEW j, Becomes(p, at, j),
           \A b \in Buckets : \/ holder'[b] = Nobody
                              \/ holder'[b] = p /\ j.into = b /\ at \in Writing
                              \/ holder'[b] = holder[b] /\ holder[b] # p
    PROVE  HoldersWrite'
  <1> SUFFICES ASSUME NEW b \in Buckets, holder'[b] # Nobody PROVE holder'[b] \in Writers(b)'
    BY DEF HoldersWrite
  <1>1. pc'[p] = at /\ job'[p] = j
    BY DEF Becomes, JobsTyped
  <1>2. \A q \in Workers : q # p => pc'[q] = pc[q] /\ job'[q] = job[q]
    BY DEF Becomes, JobsTyped
  <1>3. CASE holder'[b] = p /\ j.into = b /\ at \in Writing
    BY <1>1, <1>3 DEF Writers
  <1>4. CASE holder'[b] = holder[b] /\ holder[b] # p
    <2>1. holder[b] \in Writers(b)
      BY <1>4 DEF HoldersWrite
    <2>2. QED BY <1>2, <1>4, <2>1 DEF Writers
  <1>5. QED BY <1>3, <1>4

(* A worker that does not write holds no lock.                             *)
LEMMA IdleHoldNothing ==
    ASSUME HoldersWrite, NEW p \in Workers, pc[p] \notin Writing
    PROVE  \A b \in Buckets : holder[b] # p
  BY DEF HoldersWrite, Writers

(* What is where a step leaves a directory alone.                          *)
LEMMA SameDirectory ==
    ASSUME NEW b, DirectoryTyped(b), TablesTyped(b),
           gens'[b] = gens[b], stage'[b] = stage[b], current'[b] = current[b],
           names'[b] = names[b], holder'[b] = holder[b] \/ holder'[b] = Nobody,
           b \notin made' => b \notin made \/ names[b] = {}
    PROVE  DirectoryTyped(b)' /\ TablesTyped(b)'
  BY DEF DirectoryTyped, TablesTyped, Staged

----------------------------------------------------------------------------
(* Requests keep the types.                                                *)

(* What does not touch the directories keeps them typed.                  *)
LEMMA SamePaths ==
    ASSUME Typed, UNCHANGED disk
    PROVE  \A b \in Buckets : DirectoryTyped(b)' /\ TablesTyped(b)'
  <1> SUFFICES ASSUME NEW b \in Buckets PROVE DirectoryTyped(b)' /\ TablesTyped(b)'
    OBVIOUS
  <1>1. DirectoryTyped(b) /\ TablesTyped(b)
    BY DEF Typed
  <1>2. QED BY <1>1, SameDirectory DEF disk

(* A request that has begun keeps the types.                              *)
LEMMA BegunTyped ==
    ASSUME Typed, NEW p \in Workers, NEW j \in JobType, NEW at \in {"make", "begin", "sweep"},
           Shape(at, j), Begun(p, j, at), GhostTyped', used' = used
    PROVE  Typed' /\ Becomes(p, at, j)
  <1>1. Becomes(p, at, j) /\ at \in Positions /\ pc[p] = "idle"
    BY DEF Begun, Becomes, Positions
  <1>2. JobsTyped'
    BY <1>1, BecomesTyped DEF Typed
  <1>3. UNCHANGED disk
    BY DEF Begun
  <1>4. HoldersWrite'
    <2>1. \A b \in Buckets : holder[b] # p
      BY <1>1, IdleHoldNothing DEF Typed, Writing
    <2>2. QED BY <1>1, <1>3, <2>1, HoldersStill DEF Typed, disk
  <1>5. Domains'
    BY <1>3 DEF Typed, Domains, disk
  <1>6. QED BY <1>1, <1>2, <1>3, <1>4, <1>5, SamePaths DEF Typed

(* The requests that concern one bucket.                                   *)
LEMMA SimpleRequestsTyped ==
    ASSUME Typed, NEW p \in Workers, NEW b \in Buckets,
           StartCreate(p, b) \/ StartRename(p, b) \/ StartDelete(p, b) \/ StartMutate(p, b)
    PROVE  /\ Typed'
           /\ \E j \in JobType, at \in {"make", "begin", "sweep"} :
                Becomes(p, at, j) /\ j.kind # "move" /\ j.task # "delete"
  <1>1. GhostTyped' /\ used' = used
    BY DEF Typed, GhostTyped, StartCreate, StartRename, StartDelete, StartMutate, ghost
  <1>2. names[b] \subseteq Names
    BY DEF Typed, Domains
  <1>3. CASE StartCreate(p, b)
    <2>1. PICK j : j = [IdleJob EXCEPT !.kind = "create", !.into = b]
      OBVIOUS
    <2>2. j \in JobType /\ Shape("make", j) /\ j.kind # "move" /\ j.task # "delete"
      <3>1. j \in JobType /\ j.kind # "move" /\ j.task # "delete"
        BY <2>1, IdleTyped, IdleTask DEF JobType, AllKinds, Tasks
      <3>2. Shape("make", j)
        BY <2>1 DEF IdleJob, Shape, Writing
      <3>3. QED BY <3>1, <3>2
    <2>3. Begun(p, j, "make")
      BY <1>3, <2>1 DEF StartCreate
    <2>4. QED BY <1>1, <2>2, <2>3, BegunTyped
  <1>4. CASE StartRename(p, b)
    <2>1. PICK j : j = [IdleJob EXCEPT !.kind = "rename", !.into = b]
      OBVIOUS
    <2>2. j \in JobType /\ Shape("make", j) /\ j.kind # "move" /\ j.task # "delete"
      <3>1. j \in JobType /\ j.kind # "move" /\ j.task # "delete"
        BY <2>1, IdleTyped, IdleTask DEF JobType, AllKinds, Tasks
      <3>2. Shape("make", j)
        BY <2>1 DEF IdleJob, Shape, Writing
      <3>3. QED BY <3>1, <3>2
    <2>3. Begun(p, j, "make")
      BY <1>4, <2>1 DEF StartRename
    <2>4. QED BY <1>1, <2>2, <2>3, BegunTyped
  <1>5. CASE StartDelete(p, b)
    <2>1. PICK j : j = [IdleJob EXCEPT !.kind = "delete", !.into = b, !.todo = names[b]]
      OBVIOUS
    <2>2. j \in JobType /\ Shape("sweep", j) /\ j.kind # "move" /\ j.task # "delete"
      <3>1. j \in JobType /\ j.kind # "move" /\ j.task # "delete"
        BY <1>2, <2>1, IdleTyped, IdleTask DEF JobType, AllKinds, Tasks
      <3>2. Shape("sweep", j)
        BY <2>1 DEF IdleJob, Shape, Writing
      <3>3. QED BY <3>1, <3>2
    <2>3. Begun(p, j, "sweep")
      BY <1>5, <2>1 DEF StartDelete
    <2>4. QED BY <1>1, <2>2, <2>3, BegunTyped
  <1>6. CASE StartMutate(p, b)
    <2>1. PICK j : j = [IdleJob EXCEPT !.kind = "mutate", !.into = b, !.task = "mutate"]
      OBVIOUS
    <2>2. j \in JobType /\ Shape("begin", j) /\ j.kind # "move" /\ j.task # "delete"
      <3>1. j \in JobType /\ j.kind # "move" /\ j.task # "delete"
        BY <2>1, IdleTyped, IdleTask DEF JobType, AllKinds, Tasks
      <3>2. Shape("begin", j)
        BY <2>1 DEF IdleJob, Shape, Writing
      <3>3. QED BY <3>1, <3>2
    <2>3. Begun(p, j, "begin")
      BY <1>6, <2>1 DEF StartMutate
    <2>4. QED BY <1>1, <2>2, <2>3, BegunTyped
  <1>7. QED BY <1>3, <1>4, <1>5, <1>6

(* An initial import begins.                                              *)
LEMMA ImportTyped ==
    ASSUME Typed, NEW p \in Workers, NEW b \in Buckets, NEW r \in Rows, StartImport(p, b, r)
    PROVE  /\ Typed'
           /\ \E j \in JobType, at \in {"make", "begin", "sweep"} :
                Becomes(p, at, j) /\ j.kind # "move" /\ j.task # "delete"
  <1>1. GhostTyped' /\ used' = used
    BY DEF Typed, GhostTyped, StartImport
  <1>2. PICK cells, fresh : cells = <<NewCell(r)>> /\ fresh = {NewCell(r)}
    OBVIOUS
  <1>3. cells \in Seq(Cell) /\ fresh \subseteq Cell /\ fresh \subseteq ToSet(cells)
    BY <1>2, NewCellTyped DEF ToSet
  <1>4. PICK j : j = [IdleJob EXCEPT !.kind = "import", !.into = b, !.task = "initial",
                                     !.cells = cells, !.fresh = fresh]
    OBVIOUS
  <1>5. j \in JobType /\ j.kind # "move" /\ j.task # "delete"
    BY <1>3, <1>4 DEF IdleJob, JobType, AllKinds, Tasks
  <1>6. Shape("begin", j)
    BY <1>3, <1>4 DEF IdleJob, Shape
  <1>7. Begun(p, j, "begin")
    BY <1>2, <1>4 DEF StartImport
  <1>8. QED BY <1>1, <1>5, <1>6, <1>7, BegunTyped

(* The rows that a transfer takes, in the order of their ids.              *)
LEMMA InOrderTyped ==
    ASSUME NEW t, IsTable(t), NEW ids, ids \subseteq DOMAIN t.rows
    PROVE  /\ InOrder(t, ids) \in Seq(Cell) /\ ids \subseteq Nat
           /\ \A id \in ids : t.rows[id] \in ToSet(InOrder(t, ids))
  <1>1. ids \subseteq Nat /\ IdSet(ids)
    <2>1. t.top \in Int /\ ids \subseteq 0..t.top
      BY DEF IsTable
    <2>2. IsFiniteSet(0..t.top)
      BY <2>1, FS_Interval
    <2>3. QED BY <2>1, <2>2, FS_Subset DEF IdSet
  <1> DEFINE n == Cardinality(ids)
             c == InOrder(t, ids)
  <1>2. /\ n \in Nat /\ Ascending(ids) \in [1..n -> ids]
        /\ {Ascending(ids)[i] : i \in 1..n} = ids
    BY <1>1, AscendingOrder
  <1>3. c = [i \in 1..n |-> t.rows[Ascending(ids)[i]]]
    BY DEF InOrder
  <1>4. \A i \in 1..n : Ascending(ids)[i] \in DOMAIN t.rows /\ c[i] \in Cell
    BY <1>2, <1>3 DEF IsTable
  <1>5. c \in Seq(Cell)
    BY <1>2, <1>3, <1>4
  <1>6. \A id \in ids : t.rows[id] \in ToSet(c)
    <2> TAKE id \in ids
    <2>1. PICK i \in 1..n : Ascending(ids)[i] = id
      BY <1>2
    <2>2. i \in DOMAIN c /\ c[i] = t.rows[id]
      BY <1>3, <2>1
    <2>3. QED BY <2>2 DEF ToSet
  <1>7. QED BY <1>1, <1>5, <1>6

(* A request starts with what its source shows.                            *)
Fetched(j) ==
    j.kind = "move" => \E s \in Buckets :
      /\ j.from = {s} /\ j.ids \subseteq DOMAIN Visible(s).rows
      /\ \A id \in j.ids : Visible(s).rows[id] \in ToSet(j.cells)

(* A copy or a move of rows begins.                                       *)
LEMMA TransferTyped ==
    ASSUME Typed, NEW p \in Workers, NEW s \in Buckets, NEW d \in Buckets,
           NEW ids \in SUBSET DOMAIN Visible(s).rows, NEW move \in BOOLEAN,
           StartTransfer(p, s, d, ids, move)
    PROVE  /\ Typed'
           /\ \E j \in JobType : Becomes(p, "begin", j) /\ j.task # "delete" /\ Fetched(j)
  <1>1. GhostTyped' /\ used' = used
    BY DEF Typed, GhostTyped, StartTransfer, ghost
  <1>2. PICK cells : cells = InOrder(Visible(s), ids)
    OBVIOUS
  <1>3. /\ cells \in Seq(Cell) /\ ids \subseteq Nat
        /\ \A id \in ids : Visible(s).rows[id] \in ToSet(cells)
    BY <1>2, InOrderTyped, VisibleTyped DEF Typed
  <1>4. PICK kind, task : /\ kind = (IF move THEN "move" ELSE "copy")
                          /\ task = (IF Resolves(d) THEN "insert" ELSE "initial")
    OBVIOUS
  <1>5. PICK j : j = [IdleJob EXCEPT !.kind = kind, !.from = {s}, !.into = d, !.ids = ids,
                                     !.cells = cells, !.task = task]
    OBVIOUS
  <1>6. kind \in {"move", "copy"} /\ task \in {"insert", "initial"} /\ s # d
    BY <1>4 DEF StartTransfer
  <1>7. j \in JobType /\ j.task # "delete" /\ j.from = {s} /\ j.ids = ids /\ j.cells = cells
    BY <1>3, <1>5, <1>6 DEF IdleJob, JobType, AllKinds, Tasks
  <1>8. Shape("begin", j)
    BY <1>5, <1>6 DEF IdleJob, Shape
  <1>9. Begun(p, j, "begin")
    BY <1>2, <1>4, <1>5 DEF StartTransfer
  <1>10. Fetched(j)
    BY <1>3, <1>7 DEF Fetched
  <1>11. QED BY <1>1, <1>7, <1>8, <1>9, <1>10, BegunTyped

(* The places of the rows that a combination takes are finitely many.      *)
LEMMA PlacesFinite ==
    ASSUME Typed, NEW S \in SUBSET Buckets
    PROVE  /\ Cardinality(Places(S)) \in Nat
           /\ \A x \in Places(S) : x[1] \in S /\ x[2] \in DOMAIN Visible(x[1]).rows
  <1> DEFINE place(s) == {s} \X DOMAIN Visible(s).rows
             f == [s \in S |-> place(s)]
             all == {place(s) : s \in S}
  <1>1. \A s \in S : IsFiniteSet(DOMAIN Visible(s).rows)
    <2> TAKE s \in S
    <2>1. Visible(s).top \in Int /\ DOMAIN Visible(s).rows \subseteq 0..Visible(s).top
      BY VisibleTyped DEF Typed, IsTable
    <2>2. IsFiniteSet(0..Visible(s).top)
      BY <2>1, FS_Interval
    <2>3. QED BY <2>1, <2>2, FS_Subset
  <1>2. \A s \in S : IsFiniteSet(place(s))
    BY <1>1, FS_Singleton, FS_Product
  <1>3. IsFiniteSet(all)
    <2>1. f \in Surjection(S, all)
      BY DEF Surjection
    <2>2. IsFiniteSet(S)
      BY FS_Subset
    <2>3. QED BY <2>1, <2>2, FS_Surjection
  <1>4. IsFiniteSet(UNION all)
    BY <1>2, <1>3, FS_UNION
  <1>5. Places(S) = UNION all
    BY DEF Places
  <1>6. Cardinality(Places(S)) \in Nat
    BY <1>4, <1>5, FS_CardinalityType
  <1>7. \A x \in Places(S) : x[1] \in S /\ x[2] \in DOMAIN Visible(x[1]).rows
    BY DEF Places
  <1>8. QED BY <1>6, <1>7

(* A combination of buckets begins.                                       *)
LEMMA CombineTyped ==
    ASSUME Typed, NEW p \in Workers, NEW S \in SUBSET Buckets, NEW t \in Buckets,
           StartCombine(p, S, t)
    PROVE  /\ Typed'
           /\ \E j \in JobType, at \in {"make", "begin", "sweep"} :
                Becomes(p, at, j) /\ j.kind # "move" /\ j.task # "delete"
  <1>1. GhostTyped' /\ used' = used
    BY DEF Typed, GhostTyped, StartCombine, ghost
  <1>2. PICK list, cells :
          /\ list \in Listings(S)
          /\ cells = [i \in DOMAIN list |-> Visible(list[i][1]).rows[list[i][2]]]
          /\ Begun(p, [IdleJob EXCEPT !.kind = "combine", !.from = S, !.into = t,
                                      !.cells = cells, !.task = "initial"], "make")
    BY DEF StartCombine
  <1>3. cells \in Seq(Cell)
    <2>1. list \in [1..Cardinality(Places(S)) -> Places(S)]
      BY <1>2 DEF Listings
    <2>2. ASSUME NEW i \in 1..Cardinality(Places(S)) PROVE cells[i] \in Cell
      <3>1. list[i][1] \in Buckets /\ list[i][2] \in DOMAIN Visible(list[i][1]).rows
        BY <2>1, PlacesFinite
      <3>2. IsTable(Visible(list[i][1]))
        BY <3>1, VisibleTyped DEF Typed
      <3>3. QED BY <1>2, <2>1, <3>1, <3>2, TableCells
    <2>3. QED BY <1>2, <2>1, <2>2, PlacesFinite
  <1>4. PICK j : j = [IdleJob EXCEPT !.kind = "combine", !.from = S, !.into = t,
                                     !.cells = cells, !.task = "initial"]
    OBVIOUS
  <1>5. j \in JobType /\ j.kind # "move" /\ j.task # "delete"
    BY <1>3, <1>4 DEF IdleJob, JobType, AllKinds, Tasks
  <1>6. Shape("make", j)
    BY <1>4 DEF IdleJob, Shape, Writing
  <1>7. QED BY <1>1, <1>2, <1>4, <1>5, <1>6, BegunTyped

----------------------------------------------------------------------------
(* Steps keep the types.                                                   *)

(* What the types say of one worker's request.                            *)
LEMMA JobTyped ==
    ASSUME Typed, NEW p \in Workers
    PROVE  /\ job[p] \in JobType /\ Shape(pc[p], job[p]) /\ pc[p] \in Positions
           /\ job[p].cells \in Seq(Cell) /\ ToSet(job[p].cells) \subseteq Cell
           /\ job[p].gone \subseteq Cell /\ job[p].fresh \subseteq Cell
           /\ job[p].gen \in Nat /\ job[p].todo \subseteq Names
           /\ pc[p] # "idle" => job[p].into \in Buckets
  <1>1. job[p] \in JobType /\ Shape(pc[p], job[p]) /\ pc[p] \in Positions
    BY DEF Typed, JobsTyped
  <1>2. /\ job[p].cells \in Seq(Cell) /\ job[p].gone \subseteq Cell /\ job[p].fresh \subseteq Cell
        /\ job[p].gen \in Nat /\ job[p].todo \subseteq Names
    BY <1>1 DEF JobType
  <1>3. ToSet(job[p].cells) \subseteq Cell
    BY <1>2 DEF ToSet
  <1>4. QED BY <1>1, <1>2, <1>3 DEF Shape

(* The rows of typed cells are rows.                                      *)
LEMMA RowsOfCells ==
    ASSUME NEW cells, cells \subseteq Cell
    PROVE  RowsOf(cells) \subseteq Rows
  BY DEF RowsOf, Cell

\* The rows around a bucket are carried to it, published in it or staged in it.
LEMMA AroundMembers ==
    ASSUME NEW b, NEW r
    PROVE  r \in Around(b) <=> \/ r \in Carried(b)
                               \/ \E g \in DOMAIN gens[b] : r \in RowsOf(CellsOf(gens[b][g]))
                               \/ \E g \in Staged(b) : r \in RowsOf(CellsOf(stage[b][g]))
  <1>1. ASSUME NEW tables, NEW numbers
        PROVE  r \in RowsAmong(tables, numbers)
                 <=> \E g \in numbers : r \in RowsOf(CellsOf(tables[g]))
    BY Zenon DEF RowsAmong
  <1>2. QED BY <1>1 DEF Around

(* The rows around a bucket are rows.                                     *)
LEMMA AroundTyped ==
    ASSUME Typed, NEW b \in Buckets
    PROVE  /\ Carried(b) \subseteq Rows /\ Around(b) \subseteq Rows
           /\ RowsOf(CellsOf(Visible(b))) \subseteq Rows
  <1>1. Carried(b) \subseteq Rows
    <2>1. \A q \in Writers(b) : RowsOf(ToSet(job[q].cells) \cup job[q].fresh) \subseteq Rows
      <3> TAKE q \in Writers(b)
      <3>1. q \in Workers
        BY DEF Writers
      <3>2. ToSet(job[q].cells) \cup job[q].fresh \subseteq Cell
        BY <3>1, JobTyped
      <3>3. QED BY <3>2, RowsOfCells
    <2>2. QED BY <2>1 DEF Carried
  <1>2. \A g \in DOMAIN gens[b] : RowsOf(CellsOf(gens[b][g])) \subseteq Rows
    BY TableCells DEF Typed, TablesTyped
  <1>3. \A g \in Staged(b) : RowsOf(CellsOf(stage[b][g])) \subseteq Rows
    BY TableCells DEF Typed, TablesTyped
  <1>4. RowsOf(CellsOf(Visible(b))) \subseteq Rows
    BY VisibleTyped, TableCells DEF Typed
  <1>5. Around(b) \subseteq Rows
    BY <1>1, <1>2, <1>3, AroundMembers
  <1>6. QED BY <1>1, <1>4, <1>5

(* The rows a writer endangers are rows.                                  *)
LEMMA EndangeredTyped ==
    ASSUME Typed, NEW p \in Workers, pc[p] # "idle", NEW rows \in SUBSET Rows
    PROVE  Endangered(p, rows) \subseteq Rows
  <1>1. job[p].into \in Buckets
    BY JobTyped
  <1>2. QED BY <1>1, AroundTyped DEF Endangered

(* create_bucket and rename_bucket write the metadata.                    *)
LEMMA MakeTyped ==
    ASSUME Typed, NEW p \in Workers, MakeBucket(p)
    PROVE  Typed' /\ \/ Becomes(p, "idle", IdleJob)
                     \/ Becomes(p, "begin", job[p]) /\ job[p].kind = "combine"
  <1>1. PICK b \in Buckets : b = job[p].into
    BY JobTyped DEF MakeBucket
  <1>2. /\ pc[p] = "make" /\ made' = made \cup {b}
        /\ names' = [names EXCEPT ![b] = names[b] \cup {"meta"}]
        /\ UNCHANGED <<current, gens, stage, holder, events, ghost>>
    BY <1>1 DEF MakeBucket
  <1>3. JobsTyped' /\ \/ Becomes(p, "idle", IdleJob)
                      \/ Becomes(p, "begin", job[p]) /\ job[p].kind = "combine"
    <2>1. CASE job[p].kind = "combine"
      <3>1. Becomes(p, "begin", job[p])
        <4>1. job' = [job EXCEPT ![p] = job[p]]
          BY <2>1 DEF MakeBucket, Typed, JobsTyped
        <4>2. QED BY <2>1, <4>1 DEF MakeBucket, Becomes
      <3>2. job[p] \in JobType /\ Shape("begin", job[p]) /\ "begin" \in Positions
        BY <1>1, <1>2, <2>1, JobTyped DEF Shape, Positions, Writing
      <3>3. QED BY <2>1, <3>1, <3>2, BecomesTyped DEF Typed
    <2>2. CASE job[p].kind # "combine"
      BY <2>2, EndsBecomes DEF MakeBucket, Typed
    <2>3. QED BY <2>1, <2>2
  <1>4. HoldersWrite'
    <2>1. \A c \in Buckets : holder[c] # p
      BY <1>2, IdleHoldNothing DEF Typed, Writing
    <2>2. QED BY <1>2, <1>3, <2>1, HoldersStill DEF Typed
  <1>5. Domains' /\ GhostTyped'
    BY <1>2 DEF Typed, Domains, GhostTyped, ghost, Names
  <1>6. ASSUME NEW c \in Buckets PROVE DirectoryTyped(c)' /\ TablesTyped(c)'
    <2>1. DirectoryTyped(c) /\ TablesTyped(c)
      BY DEF Typed
    <2>2. TablesTyped(c)'
      BY <1>2, <2>1 DEF TablesTyped, Staged
    <2>3. DirectoryTyped(c)'
      BY <1>2, <2>1 DEF DirectoryTyped, Typed, Domains
    <2>4. QED BY <2>2, <2>3
  <1>7. QED BY <1>3, <1>4, <1>5, <1>6 DEF Typed

(* A worker begins to remove a directory.                                 *)
LEMMA SweepBecomes ==
    ASSUME Typed, NEW p \in Workers, pc[p] # "idle", NEW todo \in SUBSET Names,
           pc' = [pc EXCEPT ![p] = "sweep"], job' = [job EXCEPT ![p].todo = todo]
    PROVE  JobsTyped' /\ \E j \in JobType :
             Becomes(p, "sweep", j) /\ j = [job[p] EXCEPT !.todo = todo]
  <1>1. job[p] \in JobType /\ Shape(pc[p], job[p]) /\ job[p].into \in Buckets
    BY JobTyped
  <1>2. PICK j : j = [job[p] EXCEPT !.todo = todo]
    OBVIOUS
  <1>3. j \in JobType
    BY <1>1, <1>2 DEF JobType
  <1>4. Shape("sweep", j)
    BY <1>1, <1>2 DEF JobType, Shape, Writing
  <1>5. Becomes(p, "sweep", j) /\ "sweep" \in Positions
    BY <1>2 DEF Becomes, Typed, JobsTyped, Positions
  <1>6. QED BY <1>2, <1>3, <1>4, <1>5, BecomesTyped DEF Typed

(* Writing the metadata fails.                                            *)
LEMMA MakeFailsTyped ==
    ASSUME Typed, NEW p \in Workers, MakeBucketFails(p)
    PROVE  Typed' /\ \/ Becomes(p, "idle", IdleJob)
                     \/ \E j \in JobType : /\ Becomes(p, "sweep", j)
                                           /\ \E todo : j = [job[p] EXCEPT !.todo = todo]
  <1>1. PICK b \in Buckets : b = job[p].into
    BY JobTyped DEF MakeBucketFails
  <1>2. /\ pc[p] = "make" /\ made' = made \cup {b} /\ names[b] \in SUBSET Names
        /\ UNCHANGED <<names, current, gens, stage, holder, events, ghost>>
    BY <1>1 DEF MakeBucketFails, Typed, Domains
  <1>3. JobsTyped' /\ \/ Becomes(p, "idle", IdleJob)
                      \/ \E j \in JobType : /\ Becomes(p, "sweep", j)
                                            /\ \E todo : j = [job[p] EXCEPT !.todo = todo]
    <2>1. CASE job[p].kind = "rename"
      BY <2>1, EndsBecomes DEF MakeBucketFails, Typed
    <2>2. CASE job[p].kind # "rename"
      <3>1. pc' = [pc EXCEPT ![p] = "sweep"] /\ job' = [job EXCEPT ![p].todo = names[b]]
        BY <1>1, <2>2 DEF MakeBucketFails
      <3>2. QED BY <1>2, <3>1, SweepBecomes
    <2>3. QED BY <2>1, <2>2
  <1>4. HoldersWrite'
    <2>1. \A c \in Buckets : holder[c] # p
      BY <1>2, IdleHoldNothing DEF Typed, Writing
    <2>2. QED BY <1>2, <1>3, <2>1, HoldersStill DEF Typed
  <1>5. Domains' /\ GhostTyped'
    BY <1>2 DEF Typed, Domains, GhostTyped, ghost
  <1>6. \A c \in Buckets : DirectoryTyped(c)' /\ TablesTyped(c)'
    BY <1>2, SameDirectory DEF Typed
  <1>7. QED BY <1>3, <1>4, <1>5, <1>6 DEF Typed

(* A failed combination looks whether its bucket has a dataset.           *)
LEMMA UndoTyped ==
    ASSUME Typed, NEW p \in Workers, UndoCombine(p)
    PROVE  Typed' /\ \/ Becomes(p, "idle", IdleJob)
                     \/ \E j \in JobType : /\ Becomes(p, "sweep", j)
                                           /\ \E todo : j = [job[p] EXCEPT !.todo = todo]
  <1>1. PICK b \in Buckets : b = job[p].into
    BY JobTyped DEF UndoCombine
  <1>2. pc[p] = "undo" /\ names[b] \in SUBSET Names /\ UNCHANGED <<disk, events, ghost>>
    BY <1>1 DEF UndoCombine, Typed, Domains
  <1>3. JobsTyped' /\ \/ Becomes(p, "idle", IdleJob)
                      \/ \E j \in JobType : /\ Becomes(p, "sweep", j)
                                            /\ \E todo : j = [job[p] EXCEPT !.todo = todo]
    <2>1. CASE Resolves(b)
      BY <1>1, <2>1, EndsBecomes DEF UndoCombine, Typed
    <2>2. CASE ~Resolves(b)
      <3>1. pc' = [pc EXCEPT ![p] = "sweep"] /\ job' = [job EXCEPT ![p].todo = names[b]]
        BY <1>1, <2>2 DEF UndoCombine
      <3>2. QED BY <1>2, <3>1, SweepBecomes
    <2>3. QED BY <2>1, <2>2
  <1>4. HoldersWrite'
    <2>1. \A c \in Buckets : holder[c] # p
      BY <1>2, IdleHoldNothing DEF Typed, Writing
    <2>2. QED BY <1>2, <1>3, <2>1, HoldersStill DEF Typed, disk
  <1>5. Domains' /\ GhostTyped'
    BY <1>2 DEF Typed, Domains, GhostTyped, ghost, disk
  <1>6. QED BY <1>2, <1>3, <1>4, <1>5, SamePaths DEF Typed

(* An entry of a directory is removed.                                    *)
LEMMA SweepTyped ==
    ASSUME Typed, NEW p \in Workers, NEW n \in Entries, SweepEntry(p, n)
    PROVE  Typed' /\ \E j \in JobType : /\ Becomes(p, "sweep", j)
                                        /\ \E todo : j = [job[p] EXCEPT !.todo = todo]
  <1>1. PICK b \in Buckets : b = job[p].into
    BY JobTyped DEF SweepEntry
  <1>2. PICK lost : lost = RowsOf(CellsOf(Visible(b)))
    OBVIOUS
  <1>3. /\ pc[p] = "sweep" /\ n \cap names[b] # {} /\ UNCHANGED <<made, pc, events, extra, used, born>>
        /\ names' = [names EXCEPT ![b] = names[b] \ n]
        /\ job' = [job EXCEPT ![p].todo = job[p].todo \ n]
        /\ IF "generations" \in n
             THEN gens' = [gens EXCEPT ![b] = <<>>] /\ stage' = [stage EXCEPT ![b] = <<>>]
             ELSE UNCHANGED <<gens, stage>>
        /\ holder' = (IF "locks" \in n THEN [holder EXCEPT ![b] = Nobody] ELSE holder)
        /\ current' = (IF "CURRENT" \in n THEN [current EXCEPT ![b] = 0] ELSE current)
        /\ doomed' = doomed \cup Writers(b)
        /\ kept' \subseteq kept /\ owed' \subseteq owed
        /\ excused' = excused \cup Carried(b) \cup (IF job[p].kind = "delete" THEN {} ELSE lost)
    BY <1>1, <1>2 DEF SweepEntry
  <1>4. JobsTyped' /\ \E j \in JobType : /\ Becomes(p, "sweep", j)
                                         /\ \E todo : j = [job[p] EXCEPT !.todo = todo]
    <2>1. pc' = [pc EXCEPT ![p] = "sweep"]
      BY <1>3 DEF Typed, JobsTyped
    <2>2. PICK todo : todo = job[p].todo \ n
      OBVIOUS
    <2>3. todo \in SUBSET Names
      BY <2>2, JobTyped
    <2>4. job' = [job EXCEPT ![p].todo = todo]
      BY <1>3, <2>2
    <2>5. pc[p] # "idle"
      BY <1>3
    <2>6. QED BY <2>1, <2>3, <2>4, <2>5, SweepBecomes
  <1>5. HoldersWrite'
    <2>1. \A c \in Buckets : holder[c] # p
      BY <1>3, IdleHoldNothing DEF Typed, Writing
    <2>2. \A c \in Buckets : holder'[c] = Nobody \/ (holder'[c] = holder[c] /\ holder[c] # p)
      BY <1>3, <2>1 DEF Typed, Domains
    <2>3. QED BY <1>4, <2>2, HoldersStill DEF Typed
  <1>6. Domains'
    BY <1>3 DEF Typed, Domains
  <1>7. GhostTyped'
    <2>1. Writers(b) \subseteq Workers
      BY DEF Writers
    <2>2. QED BY <1>2, <1>3, <2>1, AroundTyped DEF Typed, GhostTyped
  <1>8. ASSUME NEW c \in Buckets PROVE DirectoryTyped(c)' /\ TablesTyped(c)'
    <2>1. DirectoryTyped(c) /\ TablesTyped(c)
      BY DEF Typed
    <2>2. CASE c # b
      <3>1. /\ gens'[c] = gens[c] /\ stage'[c] = stage[c] /\ current'[c] = current[c]
            /\ names'[c] = names[c] /\ holder'[c] = holder[c]
        BY <1>3, <2>2 DEF Typed, Domains
      <3>2. QED BY <1>3, <2>1, <3>1, SameDirectory
    <2>3. CASE c = b
      <3>1. names'[b] = names[b] \ n /\ made' = made /\ b \in made
        BY <1>3, <2>1, <2>3 DEF Typed, Domains, DirectoryTyped
      <3>2. /\ "generations" \in n => gens'[b] = <<>> /\ stage'[b] = <<>>
            /\ "generations" \notin n => gens'[b] = gens[b] /\ stage'[b] = stage[b]
        BY <1>3 DEF Typed, Domains
      <3>3. /\ "locks" \in n => holder'[b] = Nobody
            /\ "locks" \notin n => holder'[b] = holder[b]
        BY <1>3 DEF Typed, Domains
      <3>4. current'[b] \in Nat
        BY <1>3, <2>1, <2>3 DEF Typed, Domains, DirectoryTyped
      <3>5. CASE "generations" \in n
        <4>1. DOMAIN gens'[b] = {} /\ DOMAIN stage'[b] = {}
          BY <3>2, <3>5
        <4>2. IsFiniteSet(DOMAIN gens'[b])
          BY <4>1, FS_EmptySet
        <4>3. TablesTyped(c)'
          BY <2>3, <4>1 DEF TablesTyped, Staged
        <4>4. DirectoryTyped(c)'
          BY <2>1, <2>3, <3>1, <3>2, <3>3, <3>4, <3>5, <4>1, <4>2 DEF DirectoryTyped
        <4>5. QED BY <4>3, <4>4
      <3>6. CASE "generations" \notin n
        <4>1. TablesTyped(c)'
          BY <2>1, <2>3, <3>2, <3>6 DEF TablesTyped, Staged
        <4>2. DirectoryTyped(c)'
          BY <2>1, <2>3, <3>1, <3>2, <3>3, <3>4, <3>6 DEF DirectoryTyped
        <4>3. QED BY <4>1, <4>2
      <3>7. QED BY <3>5, <3>6
    <2>4. QED BY <2>2, <2>3
  <1>9. QED BY <1>4, <1>5, <1>6, <1>7, <1>8 DEF Typed

(* The directory itself is removed.                                       *)
LEMMA SweepEndsTyped ==
    ASSUME Typed, NEW p \in Workers, SweepEnds(p)
    PROVE  Typed' /\ Becomes(p, "idle", IdleJob)
  <1>1. PICK b \in Buckets : b = job[p].into
    BY JobTyped DEF SweepEnds
  <1>2. /\ pc[p] = "sweep" /\ Ends(p)
        /\ made' = (IF names[b] = {} THEN made \ {b} ELSE made)
        /\ UNCHANGED <<names, current, gens, stage, holder, events, ghost>>
    BY <1>1 DEF SweepEnds
  <1>3. JobsTyped' /\ Becomes(p, "idle", IdleJob)
    BY <1>2, EndsBecomes DEF Typed
  <1>4. HoldersWrite'
    <2>1. \A c \in Buckets : holder[c] # p
      BY <1>2, IdleHoldNothing DEF Typed, Writing
    <2>2. QED BY <1>2, <1>3, <2>1, HoldersStill DEF Typed
  <1>5. Domains' /\ GhostTyped'
    BY <1>2 DEF Typed, Domains, GhostTyped, ghost
  <1>6. \A c \in Buckets : DirectoryTyped(c)' /\ TablesTyped(c)'
    BY <1>2, SameDirectory DEF Typed
  <1>7. QED BY <1>3, <1>4, <1>5, <1>6 DEF Typed

(* begin_generation succeeds or is refused.                               *)
LEMMA BeginTyped ==
    ASSUME Typed, NEW p \in Workers, Begin(p)
    PROVE  /\ Typed'
           /\ \/ /\ Becomes(p, "prepare", [job[p] EXCEPT !.gen = NextId(job[p].into)])
                 /\ holder[job[p].into] = Nobody /\ UNCHANGED ghost
                 /\ holder' = [holder EXCEPT ![job[p].into] = p]
                 /\ NextId(job[p].into) \notin DOMAIN stage[job[p].into]
                 /\ stage' = [stage EXCEPT ![job[p].into] =
                                Put(stage[job[p].into], NextId(job[p].into), Building)]
              \/ /\ Becomes(p, "idle", IdleJob) \/ Becomes(p, "undo", job[p])
                 /\ doomed' = doomed \ {p} /\ UNCHANGED <<kept, owed, excused, used, born>>
                 /\ UNCHANGED <<holder, stage>>
  <1>1. PICK b \in Buckets : b = job[p].into
    BY JobTyped DEF Begin
  <1>2. /\ pc[p] = "begin" /\ made' = made \cup {b}
        /\ names' = [names EXCEPT ![b] = names[b] \cup {"generations", "locks"}]
        /\ UNCHANGED <<current, gens, events>>
    BY <1>1 DEF Begin
  <1>3. job[p] \in JobType /\ Shape(pc[p], job[p])
    BY JobTyped
  <1>4. PICK g : g = NextId(b)
    OBVIOUS
  <1>5. g \in Nat
    BY <1>4, NextIdTyped DEF Typed
  <1>6. \A c \in Buckets : holder[c] # p
    BY <1>2, IdleHoldNothing DEF Typed, Writing
  <1>7. Domains' /\ \A c \in Buckets : c # b => names'[c] = names[c]
    <2>1. DOMAIN stage' = Buckets /\ DOMAIN holder' = Buckets /\ used' = used
      BY <1>1 DEF Begin, Fails, ghost, Typed, Domains
    <2>2. QED BY <1>2, <2>1 DEF Typed, Domains, Names
  <1>8. CASE LockFree(b) /\ g \notin DOMAIN stage[b]
    <2>1. /\ holder' = [holder EXCEPT ![b] = p]
          /\ stage' = [stage EXCEPT ![b] = Put(stage[b], g, Building)]
          /\ job' = [job EXCEPT ![p].gen = g] /\ pc' = [pc EXCEPT ![p] = "prepare"]
          /\ UNCHANGED ghost
      BY <1>1, <1>4, <1>8 DEF Begin
    <2>2. PICK j : j = [job[p] EXCEPT !.gen = g]
      OBVIOUS
    <2>3. j \in JobType /\ j.into = b
      BY <1>1, <1>3, <1>5, <2>2 DEF JobType
    <2>4. Shape("prepare", j)
      BY <1>2, <1>3, <2>2, <2>3 DEF JobType, Shape, Writing
    <2>5. Becomes(p, "prepare", j)
      BY <2>1, <2>2 DEF Becomes, Typed, JobsTyped
    <2>6. JobsTyped'
      BY <2>3, <2>4, <2>5, BecomesTyped DEF Typed, Positions, Writing
    <2>7. HoldersWrite'
      <3>1. \A c \in Buckets : \/ holder'[c] = p /\ j.into = c
                               \/ holder'[c] = holder[c] /\ holder[c] # p
        BY <1>6, <2>1, <2>3 DEF Typed, Domains
      <3>2. QED BY <2>5, <3>1, HoldersStill DEF Typed, Writing
    <2>8. GhostTyped'
      BY <2>1 DEF GhostTyped, Typed, ghost
    <2>9. ASSUME NEW c \in Buckets PROVE DirectoryTyped(c)' /\ TablesTyped(c)'
      <3>1. DirectoryTyped(c) /\ TablesTyped(c)
        BY DEF Typed
      <3>2. CASE c # b
        <4>1. /\ gens'[c] = gens[c] /\ stage'[c] = stage[c] /\ current'[c] = current[c]
              /\ names'[c] = names[c] /\ holder'[c] = holder[c]
          BY <1>2, <1>7, <2>1, <3>2 DEF Typed, Domains
        <4>2. QED BY <1>2, <3>1, <3>2, <4>1, SameDirectory
      <3>3. CASE c = b
        <4>1. /\ DOMAIN stage'[b] = DOMAIN stage[b] \cup {g} /\ stage'[b][g] = Building
              /\ \A x \in DOMAIN stage[b] : x # g => stage'[b][x] = stage[b][x]
          BY <2>1 DEF Put, Typed, Domains
        <4>2. names'[b] = names[b] \cup {"generations", "locks"} /\ b \in made'
          BY <1>2 DEF Typed, Domains
        <4>3. DirectoryTyped(c)'
          BY <1>2, <1>5, <3>1, <3>3, <4>1, <4>2 DEF DirectoryTyped
        <4>4. \A x \in Staged(b)' : x \in Staged(b) /\ stage'[b][x] = stage[b][x]
          BY <4>1 DEF Staged
        <4>5. TablesTyped(c)'
          BY <1>2, <3>1, <3>3, <4>4 DEF TablesTyped
        <4>6. QED BY <4>3, <4>5
      <3>4. QED BY <3>2, <3>3
    <2>10. Typed'
      BY <1>7, <2>6, <2>7, <2>8, <2>9 DEF Typed
    <2>11. QED BY <1>1, <1>4, <1>8, <2>1, <2>2, <2>5, <2>10 DEF LockFree
  <1>9. CASE ~(LockFree(b) /\ g \notin DOMAIN stage[b])
    <2>1. Fails(p) /\ UNCHANGED <<holder, stage>>
      BY <1>1, <1>4, <1>9 DEF Begin
    <2>2. /\ JobsTyped' /\ (Becomes(p, "idle", IdleJob) \/ Becomes(p, "undo", job[p]))
          /\ doomed' = doomed \ {p} /\ UNCHANGED <<kept, owed, excused, used, born>>
      BY <1>2, <2>1, FailsBecomes DEF Typed
    <2>3. HoldersWrite'
      BY <1>6, <2>1, <2>2, HoldersStill DEF Typed
    <2>4. GhostTyped'
      BY <2>2 DEF GhostTyped, Typed
    <2>5. ASSUME NEW c \in Buckets PROVE DirectoryTyped(c)' /\ TablesTyped(c)'
      <3>1. DirectoryTyped(c) /\ TablesTyped(c)
        BY DEF Typed
      <3>2. TablesTyped(c)'
        BY <1>2, <2>1, <3>1 DEF TablesTyped, Staged
      <3>3. DirectoryTyped(c)'
        BY <1>2, <2>1, <3>1 DEF DirectoryTyped, Typed, Domains
      <3>4. QED BY <3>2, <3>3
    <2>6. QED BY <1>7, <2>1, <2>2, <2>3, <2>4, <2>5 DEF Typed
  <1>10. QED BY <1>8, <1>9

(* What Prepare writes.                                                    *)
PrepareEffect(p, b, g, plan, new) ==
    /\ stage' = [stage EXCEPT ![b] = [stage[b] EXCEPT ![g] = plan.table]]
    /\ used' = [used EXCEPT ![b] = used[b] \cup new]
    /\ excused' = excused \cup {plan.table.rows[id].row : id \in new \cap used[b]}
                          \cup Endangered(p, RowsOf(CellsOf(plan.table)))
    /\ born' = born \cup RowsOf(plan.fresh)
    /\ UNCHANGED <<made, names, current, gens, holder, events, kept, owed, extra, doomed>>

(* A writer completes its staging directory.                              *)
LEMMA PrepareTyped ==
    ASSUME Typed, NEW p \in Workers, NEW b \in Buckets, b = job[p].into, Prepare(p)
    PROVE  /\ Typed'
           /\ \E plan \in Plans(p, b) :
                /\ PrepareEffect(p, b, job[p].gen, plan,
                                 DOMAIN plan.table.rows \ DOMAIN Visible(b).rows)
                /\ Becomes(p, "publish", [job[p] EXCEPT !.gone = plan.gone, !.fresh = plan.fresh])
  <1>1. PICK g : g = job[p].gen
    OBVIOUS
  <1>2. PICK plan, new :
          /\ plan \in Plans(p, b)
          /\ new = DOMAIN plan.table.rows \ DOMAIN Visible(b).rows
          /\ stage' = [stage EXCEPT ![b][g] = plan.table]
          /\ job' = [job EXCEPT ![p].gone = plan.gone, ![p].fresh = plan.fresh]
          /\ born' = born \cup RowsOf(plan.fresh)
          /\ used' = [used EXCEPT ![b] = used[b] \cup new]
          /\ excused' = excused \cup {plan.table.rows[id].row : id \in new \cap used[b]}
                                \cup Endangered(p, RowsOf(CellsOf(plan.table)))
    BY <1>1 DEF Prepare
  <1>3. /\ pc[p] = "prepare" /\ pc' = [pc EXCEPT ![p] = "publish"] /\ g \in DOMAIN stage[b]
        /\ UNCHANGED <<made, names, current, gens, holder, events, kept, owed, extra, doomed>>
    BY <1>1 DEF Prepare
  <1>4. PlanTyped(plan) /\ PlanShape(p, plan)
    BY <1>2, <1>3, PlansTyped
  <1>5. IsTable(plan.table) /\ plan.gone \subseteq Cell /\ plan.fresh \subseteq Cell
    BY <1>4 DEF PlanTyped
  <1>6. /\ job[p] \in JobType /\ Shape(pc[p], job[p]) /\ job[p].into \in Buckets
    BY <1>3, JobTyped
  <1>7. PICK j : j = [job[p] EXCEPT !.gone = plan.gone, !.fresh = plan.fresh]
    OBVIOUS
  <1>8. j \in JobType /\ j.into = job[p].into
    BY <1>5, <1>6, <1>7 DEF JobType
  <1>9. Shape("publish", j)
    <2>1. /\ j.kind = job[p].kind /\ j.task = job[p].task /\ j.from = job[p].from
          /\ j.cells = job[p].cells /\ j.gone = plan.gone /\ j.fresh = plan.fresh
      BY <1>6, <1>7 DEF JobType
    <2>2. job[p].task # "none"
      BY <1>3, <1>6 DEF Shape, Writing
    <2>3. QED BY <1>4, <1>6, <1>8, <2>1, <2>2 DEF Shape, PlanShape
  <1>10. Becomes(p, "publish", j)
    BY <1>2, <1>3, <1>7 DEF Becomes, Typed, JobsTyped
  <1>11. JobsTyped'
    BY <1>8, <1>9, <1>10, BecomesTyped DEF Typed, Positions, Writing
  <1>12. stage' = [stage EXCEPT ![b] = [stage[b] EXCEPT ![g] = plan.table]]
    BY <1>2 DEF Typed, Domains
  <1>13. HoldersWrite'
    <2>1. \A c \in Buckets : holder[c] = p => c = b
      BY DEF Typed, HoldersWrite, Writers
    <2>2. \A c \in Buckets : \/ holder'[c] = Nobody
                             \/ holder'[c] = p /\ j.into = c
                             \/ holder'[c] = holder[c] /\ holder[c] # p
      BY <1>3, <1>8, <2>1
    <2>3. QED BY <1>10, <2>2, HoldersStill DEF Typed, Writing
  <1>14. Domains'
    <2>1. new \subseteq Nat
      BY <1>2, <1>5, TableCells
    <2>2. used' \in [Buckets -> SUBSET Nat]
      BY <1>2, <2>1 DEF Typed, Domains
    <2>3. QED BY <1>3, <1>12, <2>2 DEF Typed, Domains
  <1>15. GhostTyped'
    <2>1. RowsOf(CellsOf(plan.table)) \subseteq Rows /\ RowsOf(plan.fresh) \subseteq Rows
      BY <1>5, TableCells, RowsOfCells
    <2>2. Endangered(p, RowsOf(CellsOf(plan.table))) \subseteq Rows
      BY <1>3, <2>1, EndangeredTyped
    <2>3. {plan.table.rows[id].row : id \in new \cap used[b]} \subseteq Rows
      BY <1>2, <1>5, TableCells
    <2>4. QED BY <1>2, <1>3, <2>1, <2>2, <2>3 DEF GhostTyped, Typed
  <1>16. ASSUME NEW c \in Buckets PROVE DirectoryTyped(c)' /\ TablesTyped(c)'
    <2>1. DirectoryTyped(c) /\ TablesTyped(c)
      BY DEF Typed
    <2>2. CASE c # b
      <3>1. stage'[c] = stage[c]
        BY <1>12, <2>2 DEF Typed, Domains
      <3>2. QED BY <1>3, <2>1, <3>1, SameDirectory
    <2>3. CASE c = b
      <3>1. /\ DOMAIN stage'[b] = DOMAIN stage[b] /\ stage'[b][g] = plan.table
            /\ \A x \in DOMAIN stage[b] : x # g => stage'[b][x] = stage[b][x]
        BY <1>3, <1>12 DEF Typed, Domains
      <3>2. stage[b] # <<>>
        BY <1>3
      <3>3. DirectoryTyped(c)'
        BY <1>3, <2>1, <2>3, <3>1, <3>2 DEF DirectoryTyped
      <3>4. \A x \in Staged(b)' : x = g \/ (x \in Staged(b) /\ stage'[b][x] = stage[b][x])
        BY <3>1 DEF Staged
      <3>5. TablesTyped(c)'
        BY <1>3, <1>5, <2>1, <2>3, <3>1, <3>4 DEF TablesTyped
      <3>6. QED BY <3>3, <3>5
    <2>4. QED BY <2>2, <2>3
  <1>17. Typed'
    BY <1>11, <1>13, <1>14, <1>15, <1>16 DEF Typed
  <1>18. PrepareEffect(p, b, g, plan, new)
    BY <1>2, <1>3, <1>12 DEF PrepareEffect
  <1>19. QED BY <1>1, <1>2, <1>7, <1>10, <1>17, <1>18

(* A writer that gives its lock back.                                      *)
LEMMA UnlockedTyped ==
    ASSUME Typed, NEW p \in Workers, NEW at, NEW j, Becomes(p, at, j), holder' = Unlocked(p)
    PROVE  /\ HoldersWrite' /\ DOMAIN holder' = Buckets
           /\ \A b \in Buckets : holder'[b] = (IF holder[b] = p THEN Nobody ELSE holder[b])
  <1>1. \A b \in Buckets : holder'[b] = (IF holder[b] = p THEN Nobody ELSE holder[b])
    BY DEF Unlocked
  <1>2. HoldersWrite'
    BY <1>1, HoldersStill DEF Typed
  <1>3. QED BY <1>1, <1>2 DEF Unlocked

(* A writer abandons its staging directory.                               *)
LEMMA PrepareFailsTyped ==
    ASSUME Typed, NEW p \in Workers, PrepareFails(p)
    PROVE  /\ Typed'
           /\ Becomes(p, "idle", IdleJob) \/ Becomes(p, "undo", job[p])
           /\ doomed' = doomed \ {p} /\ UNCHANGED <<kept, owed, excused, used, born>>
  <1>1. PICK b \in Buckets : b = job[p].into
    BY JobTyped DEF PrepareFails
  <1>2. PICK g : g = job[p].gen
    OBVIOUS
  <1>3. /\ pc[p] = "prepare" /\ stage' = [stage EXCEPT ![b] = Without(stage[b], g)]
        /\ holder' = Unlocked(p) /\ Fails(p) /\ UNCHANGED <<made, names, current, gens, events>>
    BY <1>1, <1>2 DEF PrepareFails
  <1>4. /\ JobsTyped' /\ (Becomes(p, "idle", IdleJob) \/ Becomes(p, "undo", job[p]))
        /\ doomed' = doomed \ {p} /\ UNCHANGED <<kept, owed, excused, used, born>>
    BY <1>3, FailsBecomes DEF Typed
  <1>5. /\ HoldersWrite' /\ DOMAIN holder' = Buckets
        /\ \A c \in Buckets : holder'[c] = Nobody \/ holder'[c] = holder[c]
    BY <1>3, <1>4, UnlockedTyped
  <1>6. Domains' /\ GhostTyped'
    BY <1>3, <1>4, <1>5 DEF Domains, GhostTyped, Typed
  <1>7. ASSUME NEW c \in Buckets PROVE DirectoryTyped(c)' /\ TablesTyped(c)'
    <2>1. DirectoryTyped(c) /\ TablesTyped(c)
      BY DEF Typed
    <2>2. CASE c # b
      <3>1. stage'[c] = stage[c]
        BY <1>3, <2>2 DEF Typed, Domains
      <3>2. QED BY <1>3, <1>5, <2>1, <3>1, SameDirectory
    <2>3. CASE c = b
      <3>1. /\ stage'[b] = [x \in DOMAIN stage[b] \ {g} |-> stage[b][x]]
        BY <1>3 DEF Typed, Domains, Without
      <3>2. stage[b] = <<>> => stage'[b] = <<>>
        BY <3>1
      <3>3. DirectoryTyped(c)'
        BY <1>3, <1>5, <2>1, <2>3, <3>1, <3>2 DEF DirectoryTyped
      <3>4. \A x \in Staged(b)' : x \in Staged(b) /\ stage'[b][x] = stage[b][x]
        BY <3>1 DEF Staged
      <3>5. TablesTyped(c)'
        BY <1>3, <2>1, <2>3, <3>4 DEF TablesTyped
      <3>6. QED BY <3>3, <3>5
    <2>4. QED BY <2>2, <2>3
  <1>8. QED BY <1>4, <1>5, <1>6, <1>7 DEF Typed

(* A staging directory is renamed to a generation.                        *)
LEMMA PublishTyped ==
    ASSUME Typed, NEW p \in Workers, Publish(p)
    PROVE  Typed' /\ Becomes(p, "current", job[p])
  <1>1. PICK b \in Buckets : b = job[p].into
    BY JobTyped DEF Publish
  <1>2. PICK g : g = job[p].gen
    OBVIOUS
  <1>3. /\ pc[p] = "publish" /\ g \in DOMAIN stage[b] /\ stage[b][g] # Building
        /\ g \notin DOMAIN gens[b]
        /\ gens' = [gens EXCEPT ![b] = Put(gens[b], g, stage[b][g])]
        /\ stage' = [stage EXCEPT ![b] = Without(stage[b], g)]
        /\ pc' = [pc EXCEPT ![p] = "current"]
        /\ excused' = excused \cup Endangered(p, {})
        /\ UNCHANGED <<made, names, current, holder, job, events, kept, owed, used, doomed, born>>
    BY <1>1, <1>2 DEF Publish, Publishable
  <1>4. job[p] \in JobType /\ Shape("current", job[p]) /\ g \in Nat
    BY <1>2, <1>3, JobTyped DEF Shape, Writing
  <1>5. Becomes(p, "current", job[p])
    BY <1>3 DEF Becomes, Typed, JobsTyped
  <1>6. JobsTyped'
    BY <1>4, <1>5, BecomesTyped DEF Typed, Positions, Writing
  <1>7. HoldersWrite'
    <2>1. \A c \in Buckets : \/ holder'[c] = Nobody
                             \/ holder'[c] = p /\ job[p].into = c
                             \/ holder'[c] = holder[c] /\ holder[c] # p
      BY <1>3 DEF Typed, HoldersWrite, Writers
    <2>2. QED BY <1>5, <2>1, HoldersStill DEF Typed, Writing
  <1>8. Domains' /\ GhostTyped'
    <2>1. Endangered(p, {}) \subseteq Rows
      BY <1>3, EndangeredTyped
    <2>2. QED BY <1>3, <2>1 DEF Domains, GhostTyped, Typed
  <1>9. ASSUME NEW c \in Buckets PROVE DirectoryTyped(c)' /\ TablesTyped(c)'
    <2>1. DirectoryTyped(c) /\ TablesTyped(c)
      BY DEF Typed
    <2>2. CASE c # b
      <3>1. stage'[c] = stage[c] /\ gens'[c] = gens[c]
        BY <1>3, <2>2 DEF Typed, Domains
      <3>2. QED BY <1>3, <2>1, <3>1, SameDirectory
    <2>3. CASE c = b
      <3>1. stage'[b] = [x \in DOMAIN stage[b] \ {g} |-> stage[b][x]]
        BY <1>3 DEF Typed, Domains, Without
      <3>2. /\ DOMAIN gens'[b] = DOMAIN gens[b] \cup {g} /\ gens'[b][g] = stage[b][g]
            /\ \A x \in DOMAIN gens[b] : gens'[b][x] = gens[b][x]
        BY <1>3 DEF Typed, Domains, Put
      <3>3. stage[b] # <<>> /\ IsTable(stage[b][g])
        BY <1>3, <2>1, <2>3 DEF TablesTyped, Staged
      <3>4. IsFiniteSet(DOMAIN gens'[b])
        <4>1. IsFiniteSet(DOMAIN gens[b])
          BY <2>1, <2>3 DEF DirectoryTyped
        <4>2. IsFiniteSet(DOMAIN gens[b] \cup {g})
          BY <4>1, FS_AddElement
        <4>3. QED BY <3>2, <4>2
      <3>5. DirectoryTyped(c)'
        BY <1>3, <1>4, <2>1, <2>3, <3>1, <3>2, <3>3, <3>4 DEF DirectoryTyped
      <3>6. \A x \in Staged(b)' : x \in Staged(b) /\ stage'[b][x] = stage[b][x]
        BY <3>1 DEF Staged
      <3>7. TablesTyped(c)'
        BY <2>1, <2>3, <3>2, <3>3, <3>6 DEF TablesTyped
      <3>8. QED BY <3>5, <3>7
    <2>4. QED BY <2>2, <2>3
  <1>10. QED BY <1>5, <1>6, <1>7, <1>8, <1>9 DEF Typed

(* A staging directory cannot be renamed.                                 *)
LEMMA PublishFailsTyped ==
    ASSUME Typed, NEW p \in Workers, PublishFails(p)
    PROVE  /\ Typed'
           /\ Becomes(p, "idle", IdleJob) \/ Becomes(p, "undo", job[p])
           /\ doomed' = doomed \ {p} /\ UNCHANGED <<kept, owed, excused, used, born>>
  <1>1. /\ pc[p] = "publish" /\ holder' = Unlocked(p) /\ Fails(p)
        /\ UNCHANGED <<made, names, current, gens, stage, events>>
    BY DEF PublishFails
  <1>2. /\ JobsTyped' /\ (Becomes(p, "idle", IdleJob) \/ Becomes(p, "undo", job[p]))
        /\ doomed' = doomed \ {p} /\ UNCHANGED <<kept, owed, excused, used, born>>
    BY <1>1, FailsBecomes DEF Typed
  <1>3. /\ HoldersWrite' /\ DOMAIN holder' = Buckets
        /\ \A c \in Buckets : holder'[c] = Nobody \/ holder'[c] = holder[c]
    BY <1>1, <1>2, UnlockedTyped
  <1>4. Domains' /\ GhostTyped'
    BY <1>1, <1>2, <1>3 DEF Domains, GhostTyped, Typed
  <1>5. \A c \in Buckets : DirectoryTyped(c)' /\ TablesTyped(c)'
    BY <1>1, <1>3, SameDirectory DEF Typed
  <1>6. QED BY <1>2, <1>3, <1>4, <1>5 DEF Typed

(* The second transaction of a move.                                       *)
Deletion(j, s) == [j EXCEPT !.task = "delete", !.gen = 0, !.into = s]

(* CURRENT is replaced, and a move goes on to its deletion.               *)
LEMMA WriteTyped ==
    ASSUME Typed, NEW p \in Workers, WriteCurrent(p)
    PROVE  /\ Typed'
           /\ \/ Becomes(p, "idle", IdleJob)
              \/ /\ job[p].kind = "move" /\ job[p].task # "delete"
                 /\ \E s \in Buckets : job[p].from = {s} /\ s # job[p].into
                                       /\ Becomes(p, "begin", Deletion(job[p], s))
  <1>1. PICK b \in Buckets : b = job[p].into
    BY JobTyped DEF WriteCurrent
  <1>2. PICK g : g = job[p].gen
    OBVIOUS
  <1>3. /\ pc[p] = "current" /\ made' = made \cup {b}
        /\ names' = [names EXCEPT ![b] = names[b] \cup {"CURRENT"}]
        /\ current' = [current EXCEPT ![b] = g] /\ holder' = Unlocked(p)
        /\ kept' = Acknowledged(p)
        /\ owed' = (owed \ job[p].gone) \cup (IF p \in doomed THEN {} ELSE job[p].fresh)
        /\ excused' = excused \cup Endangered(p, {}) /\ doomed' = doomed \ {p}
        /\ UNCHANGED <<gens, stage, events, used, born>>
    BY <1>1, <1>2 DEF WriteCurrent
  <1>4. job[p] \in JobType /\ Shape("current", job[p]) /\ g \in Nat
    BY <1>2, <1>3, JobTyped
  <1>5. /\ JobsTyped'
        /\ \/ Becomes(p, "idle", IdleJob)
           \/ /\ job[p].kind = "move" /\ job[p].task # "delete"
              /\ \E s \in Buckets : job[p].from = {s} /\ s # job[p].into
                                    /\ Becomes(p, "begin", Deletion(job[p], s))
    <2>1. CASE GoesOn(p)
      <3>1. job[p].kind = "move" /\ job[p].task # "delete"
        BY <2>1 DEF GoesOn
      <3>2. PICK s \in Buckets : job[p].from = {s} /\ s # job[p].into
        BY <1>4, <3>1 DEF Shape
      <3>3. s = CHOOSE x \in job[p].from : TRUE
        BY <3>2
      <3>4. PICK j : j = Deletion(job[p], s)
        OBVIOUS
      <3>5. Becomes(p, "begin", j)
        BY <2>1, <3>3, <3>4 DEF WriteCurrent, Becomes, Deletion, Typed, JobsTyped
      <3>6. j \in JobType
        BY <1>4, <3>4 DEF Deletion, JobType, Tasks
      <3>7. Shape("begin", j)
        <4>1. /\ j.kind = "move" /\ j.from = {s} /\ j.into = s /\ j.task = "delete"
              /\ j.gone = job[p].gone /\ j.fresh = job[p].fresh
          BY <1>4, <3>1, <3>2, <3>4 DEF Deletion, JobType
        <4>2. QED BY <1>4, <3>1, <4>1 DEF Shape
      <3>8. QED BY <3>1, <3>2, <3>4, <3>5, <3>6, <3>7, BecomesTyped DEF Typed, Positions
    <2>2. CASE ~GoesOn(p)
      BY <2>2, EndsBecomes DEF WriteCurrent, Typed
    <2>3. QED BY <2>1, <2>2
  <1>6. /\ HoldersWrite' /\ DOMAIN holder' = Buckets
        /\ \A c \in Buckets : holder'[c] = Nobody \/ holder'[c] = holder[c]
    BY <1>3, <1>5, UnlockedTyped
  <1>7. Domains'
    BY <1>3, <1>6 DEF Domains, Typed, Names
  <1>8. GhostTyped'
    <2>1. Endangered(p, {}) \subseteq Rows
      BY <1>3, EndangeredTyped
    <2>2. job[p].fresh \subseteq Cell /\ RowsOf(job[p].fresh) \subseteq Rows
      BY JobTyped, RowsOfCells
    <2>3. kept' \subseteq Rows
      BY <1>3, <2>2 DEF Acknowledged, Typed, GhostTyped
    <2>4. QED BY <1>3, <2>1, <2>2, <2>3 DEF GhostTyped, Typed
  <1>9. ASSUME NEW c \in Buckets PROVE DirectoryTyped(c)' /\ TablesTyped(c)'
    <2>1. DirectoryTyped(c) /\ TablesTyped(c)
      BY DEF Typed
    <2>2. TablesTyped(c)'
      BY <1>3, <2>1 DEF TablesTyped, Staged
    <2>3. CASE c # b
      <3>1. current'[c] = current[c] /\ names'[c] = names[c]
        BY <1>3, <2>3 DEF Typed, Domains
      <3>2. QED BY <1>3, <1>6, <2>1, <3>1, SameDirectory
    <2>4. CASE c = b
      <3>1. names'[b] = names[b] \cup {"CURRENT"} /\ current'[b] = g /\ b \in made'
        BY <1>3 DEF Typed, Domains
      <3>2. DirectoryTyped(c)'
        BY <1>3, <1>4, <1>6, <2>1, <2>4, <3>1 DEF DirectoryTyped
      <3>3. QED BY <2>2, <3>2
    <2>5. QED BY <2>3, <2>4
  <1>10. QED BY <1>5, <1>6, <1>7, <1>8, <1>9 DEF Typed

(* The service dies.                                                      *)
LEMMA CrashTyped ==
    ASSUME Typed, Crash
    PROVE  Typed'
  <1>1. /\ pc' = [p \in Workers |-> "idle"] /\ job' = [p \in Workers |-> IdleJob]
        /\ holder' = [b \in Buckets |-> Nobody] /\ doomed' = {}
        /\ UNCHANGED <<made, names, current, gens, stage, kept, owed, excused, used, born>>
    BY DEF Crash
  <1>2. JobsTyped'
    BY <1>1, IdleTyped DEF JobsTyped
  <1>3. HoldersWrite'
    BY <1>1 DEF HoldersWrite
  <1>4. Domains' /\ GhostTyped'
    BY <1>1 DEF Domains, GhostTyped, Typed
  <1>5. \A c \in Buckets : DirectoryTyped(c)' /\ TablesTyped(c)'
    BY <1>1, SameDirectory DEF Typed
  <1>6. QED BY <1>2, <1>3, <1>4, <1>5 DEF Typed

(* The first buckets.                                                      *)
LEMMA FirstTablesTyped ==
    ASSUME NEW s, NEW r1 \in Rows, NEW r2 \in Rows, NEW r3 \in Rows, NEW b \in Buckets
    PROVE  IsTable(FirstTables(s, r1, r2, r3)[b])
  <1>1. PICK one, two : one = <<NewCell(r3)>> /\ two = <<NewCell(r1), NewCell(r2)>>
    OBVIOUS
  <1>2. one \in Seq(Cell) /\ two \in Seq(Cell)
    BY <1>1, NewCellTyped
  <1>3. IsTable(Appended(NoTable, one)) /\ IsTable(Appended(NoTable, two))
    BY <1>2, AppendedTyped, NoTableTyped
  <1>4. FirstTables(s, r1, r2, r3)[b] = Appended(NoTable, IF b = s THEN two ELSE one)
    BY <1>1 DEF FirstTables
  <1>5. CASE b = s
    BY <1>3, <1>4, <1>5
  <1>6. CASE b # s
    BY <1>3, <1>4, <1>6
  <1>7. QED BY <1>5, <1>6

(* The initial states are typed.                                          *)
LEMMA StartsTyped ==
    ASSUME NEW tables, NEW full \in SUBSET Buckets, NEW empty \in SUBSET Buckets,
           \A b \in Buckets : IsTable(tables[b]), Starts(tables, full, empty)
    PROVE  Typed
  <1>1. Domains
    <2>1. \A b \in Buckets : DOMAIN tables[b].rows \subseteq Nat
      BY TableCells
    <2>2. used \in [Buckets -> SUBSET Nat]
      BY <2>1 DEF Starts
    <2>3. QED BY <2>2 DEF Starts, Domains, Names
  <1>2. JobsTyped /\ HoldersWrite
    BY IdleTyped DEF Starts, JobsTyped, HoldersWrite
  <1>3. owed \subseteq Cell
    <2>1. \A b \in full : CellsOf(tables[b]) \subseteq Cell
      BY TableCells
    <2>2. QED BY <2>1 DEF Starts
  <1>4. GhostTyped
    BY <1>3, RowsOfCells DEF Starts, GhostTyped
  <1>5. ASSUME NEW b \in Buckets PROVE DirectoryTyped(b) /\ TablesTyped(b)
    <2>1. /\ stage[b] = <<>> /\ holder[b] = Nobody /\ current[b] \in Nat
          /\ DOMAIN stage[b] = {}
      BY DEF Starts
    <2>2. CASE b \in full
      <3>1. /\ names[b] = Names /\ b \in made
            /\ DOMAIN gens[b] = {1} /\ gens[b][1] = tables[b]
        <4>1. names[b] = Names /\ b \in made /\ gens[b] = Put(<<>>, 1, tables[b])
          BY <2>2 DEF Starts
        <4>2. \A v : DOMAIN Put(<<>>, 1, v) = {1} /\ Put(<<>>, 1, v)[1] = v
          BY DEF Put
        <4>3. QED BY <4>1, <4>2
      <3>2. IsFiniteSet(DOMAIN gens[b])
        <4>1. IsFiniteSet({1})
          BY FS_Singleton
        <4>2. QED BY <3>1, <4>1
      <3>3. QED BY <2>1, <3>1, <3>2 DEF DirectoryTyped, TablesTyped, Staged, Names
    <2>3. CASE b \notin full
      <3>1. gens[b] = <<>> /\ DOMAIN gens[b] = {} /\ (b \notin made => names[b] = {})
        BY <2>3 DEF Starts
      <3>2. IsFiniteSet(DOMAIN gens[b])
        BY <3>1, FS_EmptySet
      <3>3. QED BY <2>1, <3>1, <3>2 DEF DirectoryTyped, TablesTyped, Staged
    <2>4. QED BY <2>2, <2>3
  <1>6. QED BY <1>1, <1>2, <1>4, <1>5 DEF Typed

(* What an initial state consists of.                                     *)
LEMMA InitStarts ==
    ASSUME Init
    PROVE  \E tables, full, empty : /\ full \subseteq Buckets /\ empty \subseteq Buckets
                                    /\ \A b \in Buckets : IsTable(tables[b])
                                    /\ Starts(tables, full, empty)
  <1>1. PICK s \in Buckets, d \in Buckets, r1 \in Rows, r2 \in Rows, r3 \in Rows,
             there \in {"absent", "empty", "full"} :
               Starts(FirstTables(s, r1, r2, r3),
                      {s} \cup (IF there = "full" THEN {d} ELSE {}),
                      IF there = "empty" THEN {d} ELSE {})
    BY DEF Init
  <1>2. PICK tables, full, empty : /\ tables = FirstTables(s, r1, r2, r3)
                                   /\ full = {s} \cup (IF there = "full" THEN {d} ELSE {})
                                   /\ empty = (IF there = "empty" THEN {d} ELSE {})
    OBVIOUS
  <1>3. full \subseteq Buckets /\ empty \subseteq Buckets
    BY <1>2
  <1>4. \A b \in Buckets : IsTable(tables[b])
    BY <1>2, FirstTablesTyped
  <1>5. Starts(tables, full, empty)
    BY <1>1, <1>2
  <1>6. QED BY <1>3, <1>4, <1>5

(* Every step keeps the types.                                             *)
LEMMA NextTyped == Typed /\ [Next]_vars => Typed'
  <1> SUFFICES ASSUME Typed, [Next]_vars PROVE Typed'
    OBVIOUS
  <1>1. ASSUME NEW p \in Workers, Request(p) PROVE Typed'
    BY <1>1, SimpleRequestsTyped, ImportTyped, TransferTyped, CombineTyped DEF Request
  <1>2. ASSUME NEW p \in Workers, Step(p) PROVE Typed'
    <2>1. CASE Prepare(p)
      <3>1. PICK b \in Buckets : b = job[p].into
        BY <2>1, JobTyped DEF Prepare
      <3>2. QED BY <2>1, <3>1, PrepareTyped
    <2>2. CASE MakeBucket(p) \/ MakeBucketFails(p) \/ UndoCombine(p) \/ SweepEnds(p)
               \/ \E n \in Entries : SweepEntry(p, n)
      BY <2>2, MakeTyped, MakeFailsTyped, UndoTyped, SweepTyped, SweepEndsTyped
    <2>3. CASE Begin(p) \/ PrepareFails(p) \/ Publish(p) \/ PublishFails(p) \/ WriteCurrent(p)
      BY <2>3, BeginTyped, PrepareFailsTyped, PublishTyped, PublishFailsTyped, WriteTyped
    <2>4. QED BY <1>2, <2>1, <2>2, <2>3 DEF Step
  <1>3. CASE Crash
    BY <1>3, CrashTyped
  <1>4. CASE UNCHANGED vars
    <2>1. UNCHANGED <<disk, pc, job, events, ghost>>
      BY <1>4 DEF vars
    <2>2. UNCHANGED <<made, names, current, gens, stage, holder, pc, job, kept, owed, excused,
                      used, doomed, born>>
      BY <2>1 DEF disk, ghost
    <2>3. Domains' /\ JobsTyped' /\ HoldersWrite' /\ GhostTyped'
      BY <2>2 DEF Typed, Domains, JobsTyped, HoldersWrite, Writers, GhostTyped
    <2>4. QED BY <2>1, <2>3, SamePaths DEF Typed
  <1>5. QED BY <1>1, <1>2, <1>3, <1>4 DEF Next

(* The types are an invariant.                                            *)
LEMMA TypesHold == Spec => []Typed
  <1>1. Init => Typed
    BY InitStarts, StartsTyped
  <1>2. QED BY <1>1, NextTyped, PTL DEF Spec

(* Every variable keeps its type; a removed directory keeps no files and   *)
(* no lock; who holds a lock is writing to that bucket.                    *)
THEOREM TypeCorrect == Spec => []TypeOK
  <1>1. Typed => TypeOK
    <2> SUFFICES ASSUME Typed PROVE TypeOK
      OBVIOUS
    <2>1. ASSUME NEW b \in Buckets
          PROVE  /\ current[b] \in Nat
                 /\ \A g \in DOMAIN gens[b] : CellsOf(gens[b][g]) \subseteq Cell
                 /\ \A g \in DOMAIN stage[b] : stage[b][g] # Building =>
                                                 CellsOf(stage[b][g]) \subseteq Cell
                 /\ b \notin made => names[b] = {}
                 /\ "generations" \notin names[b] => gens[b] = <<>> /\ stage[b] = <<>>
                 /\ "locks" \notin names[b] => holder[b] = Nobody
      <3>1. DirectoryTyped(b) /\ TablesTyped(b)
        BY DEF Typed
      <3>2. \A t : IsTable(t) => CellsOf(t) \subseteq Cell
        BY TableCells
      <3>3. QED BY <3>1, <3>2 DEF DirectoryTyped, TablesTyped, Staged
    <2>2. \A p \in Workers : pc[p] = "idle" => job[p] = IdleJob
      BY JobTyped DEF Shape
    <2>3. pc \in [Workers -> Writing \cup {"idle", "make", "begin", "undo", "sweep"}]
      BY DEF Typed, JobsTyped, Positions, Writing
    <2>4. QED BY <2>1, <2>2, <2>3 DEF Typed, Domains, HoldersWrite, GhostTyped, TypeOK
  <1>2. QED BY <1>1, TypesHold, PTL

----------------------------------------------------------------------------
(* Locks.                                                                  *)

Reliable(b) == Writers(b) \ doomed

Locks ==
    /\ \A p \in doomed : pc[p] \in Writing /\ RowsOf(ToSet(job[p].cells)) \subseteq excused
    /\ \A b \in Buckets : \A p \in Reliable(b) : holder[b] = p

(* A worker that stops writing, or was not writing.                        *)
LEMMA LocksOfOthers ==
    ASSUME Typed, Locks, NEW p \in Workers, NEW at, NEW j, Becomes(p, at, j), at \notin Writing,
           doomed' = doomed \ {p}, excused \subseteq excused',
           \A b \in Buckets : holder'[b] = holder[b] \/ holder[b] = p
    PROVE  Locks'
  <1>1. \A q \in Workers : q # p => pc'[q] = pc[q] /\ job'[q] = job[q]
    BY DEF Becomes, Typed, JobsTyped
  <1>2. pc'[p] = at
    BY DEF Becomes, Typed, JobsTyped
  <1>3. \A q \in doomed' : q \in doomed /\ q \in Workers /\ q # p
    BY DEF Typed, GhostTyped
  <1>4. \A q \in doomed' : pc'[q] \in Writing /\ RowsOf(ToSet(job'[q].cells)) \subseteq excused'
    BY <1>1, <1>3 DEF Locks
  <1>5. ASSUME NEW b \in Buckets, NEW q \in Reliable(b)' PROVE holder'[b] = q
    <2>1. q \in Workers /\ q # p /\ q \in Reliable(b)
      BY <1>1, <1>2, <1>5 DEF Reliable, Writers
    <2>2. holder[b] = q
      BY <2>1 DEF Locks
    <2>3. QED BY <2>1, <2>2
  <1>6. QED BY <1>4, <1>5 DEF Locks

(* A worker that goes on writing where it did.                             *)
LEMMA LocksOfWriter ==
    ASSUME Typed, Locks, NEW p \in Workers, NEW at, NEW j, Becomes(p, at, j), pc[p] \in Writing,
           at \in Writing, j.into = job[p].into, j.cells = job[p].cells,
           UNCHANGED <<doomed, holder>>, excused \subseteq excused'
    PROVE  Locks'
  <1>1. \A q \in Workers : /\ job'[q].into = job[q].into /\ job'[q].cells = job[q].cells
                           /\ pc'[q] \in Writing <=> pc[q] \in Writing
    BY DEF Becomes, Typed, JobsTyped
  <1>2. \A b \in Buckets : Reliable(b)' = Reliable(b)
    BY <1>1 DEF Reliable, Writers
  <1>3. \A q \in doomed : q \in Workers
    BY DEF Typed, GhostTyped
  <1>4. QED BY <1>1, <1>2, <1>3 DEF Locks

(* A new request changes nothing but its worker, and does not delete yet. *)
LEMMA RequestEffect ==
    ASSUME Typed, NEW p \in Workers, Request(p)
    PROVE  /\ pc[p] = "idle" /\ UNCHANGED <<disk, kept, owed, excused, used, doomed>>
           /\ \E j \in JobType, at \in {"make", "begin", "sweep"} :
                Becomes(p, at, j) /\ j.task # "delete" /\ Fetched(j)
  <1>1. CASE \E b \in Buckets : StartCreate(p, b) \/ StartRename(p, b) \/ StartDelete(p, b)
                                \/ StartMutate(p, b)
    <2>1. pc[p] = "idle" /\ UNCHANGED disk /\ UNCHANGED ghost
      BY <1>1 DEF StartCreate, StartRename, StartDelete, StartMutate, Begun
    <2>2. QED BY <1>1, <2>1, SimpleRequestsTyped DEF ghost, Fetched
  <1>2. CASE \E b \in Buckets, r \in Rows : StartImport(p, b, r)
    <2>1. pc[p] = "idle" /\ UNCHANGED <<disk, kept, owed, excused, used, doomed>>
      BY <1>2 DEF StartImport, Begun
    <2>2. QED BY <1>2, <2>1, ImportTyped DEF Fetched
  <1>3. CASE \E s, d \in Buckets : \E ids \in SUBSET DOMAIN Visible(s).rows, move \in BOOLEAN :
               StartTransfer(p, s, d, ids, move)
    <2>1. PICK s \in Buckets, d \in Buckets :
                 \E ids \in SUBSET DOMAIN Visible(s).rows, move \in BOOLEAN :
                   StartTransfer(p, s, d, ids, move)
      BY <1>3
    <2>2. pc[p] = "idle" /\ UNCHANGED disk /\ UNCHANGED ghost
      BY <2>1 DEF StartTransfer, Begun
    <2>3. QED BY <2>1, <2>2, TransferTyped DEF ghost
  <1>4. CASE \E S \in SUBSET Buckets, t \in Buckets : StartCombine(p, S, t)
    <2>1. pc[p] = "idle" /\ UNCHANGED disk /\ UNCHANGED ghost
      BY <1>4 DEF StartCombine, Begun
    <2>2. QED BY <1>4, <2>1, CombineTyped DEF ghost, Fetched
  <1>5. QED BY <1>1, <1>2, <1>3, <1>4 DEF Request

(* A new request leaves the locks as they are.                            *)
LEMMA RequestLocks ==
    ASSUME Typed, Locks, NEW p \in Workers, Request(p)
    PROVE  Locks'
  <1>1. PICK j \in JobType, at \in {"make", "begin", "sweep"} : Becomes(p, at, j)
    BY RequestEffect
  <1>2. pc[p] = "idle" /\ UNCHANGED <<disk, excused, doomed>>
    BY RequestEffect
  <1>3. p \notin doomed
    BY <1>2 DEF Locks, Writing
  <1>4. at \notin Writing /\ doomed' = doomed \ {p} /\ excused \subseteq excused'
    BY <1>2, <1>3 DEF Writing
  <1>5. \A b \in Buckets : holder'[b] = holder[b] \/ holder[b] = p
    BY <1>2 DEF disk
  <1>6. QED BY <1>1, <1>4, <1>5, LocksOfOthers

(* The steps that are no writer's.                                         *)
LEMMA DirectoryLocks ==
    ASSUME Typed, Locks, NEW p \in Workers,
           MakeBucket(p) \/ MakeBucketFails(p) \/ UndoCombine(p) \/ SweepEnds(p)
    PROVE  Locks'
  <1>1. pc[p] \notin Writing /\ UNCHANGED <<holder, doomed, excused>>
    BY DEF MakeBucket, MakeBucketFails, UndoCombine, SweepEnds, Writing, disk, ghost
  <1>2. p \notin doomed
    BY <1>1 DEF Locks
  <1>3. doomed' = doomed \ {p} /\ excused \subseteq excused'
        /\ \A b \in Buckets : holder'[b] = holder[b] \/ holder[b] = p
    BY <1>1, <1>2
  <1>4. \E j, at : Becomes(p, at, j) /\ at \in {"idle", "begin", "sweep"}
    BY MakeTyped, MakeFailsTyped, UndoTyped, SweepEndsTyped
  <1>5. PICK j, at : Becomes(p, at, j) /\ at \in {"idle", "begin", "sweep"}
    BY <1>4
  <1>6. at \notin Writing
    BY <1>5 DEF Writing
  <1>7. QED BY <1>3, <1>5, <1>6, LocksOfOthers

(* The removal of a directory dooms its writers.                           *)
LEMMA SweepLocks ==
    ASSUME Typed, Locks, NEW p \in Workers, NEW n \in Entries, SweepEntry(p, n)
    PROVE  Locks'
  <1>1. PICK b \in Buckets : b = job[p].into
    BY JobTyped DEF SweepEntry
  <1>2. PICK j \in JobType : /\ Becomes(p, "sweep", j)
                             /\ \E todo : j = [job[p] EXCEPT !.todo = todo]
    BY SweepTyped
  <1>3. pc[p] = "sweep" /\ doomed' = doomed \cup Writers(b)
        /\ holder' = (IF "locks" \in n THEN [holder EXCEPT ![b] = Nobody] ELSE holder)
    BY <1>1 DEF SweepEntry
  <1>4. excused \subseteq excused' /\ Carried(b) \subseteq excused'
    BY <1>1 DEF SweepEntry
  <1>5. j.cells = job[p].cells /\ j.into = job[p].into
    BY <1>2, JobTyped DEF JobType
  <1>6. \A q \in Workers : /\ job'[q].into = job[q].into /\ job'[q].cells = job[q].cells
                           /\ pc'[q] \in Writing <=> pc[q] \in Writing
    BY <1>2, <1>3, <1>5 DEF Becomes, Typed, JobsTyped, Writing
  <1>7. \A q \in doomed' : q \in Workers /\ (q \in doomed \/ q \in Writers(b))
    BY <1>3 DEF Typed, GhostTyped, Writers
  <1>8. ASSUME NEW q \in Writers(b) PROVE RowsOf(ToSet(job[q].cells)) \subseteq Carried(b)
    BY <1>8 DEF Carried, RowsOf
  <1>9. \A q \in doomed' : pc'[q] \in Writing /\ RowsOf(ToSet(job'[q].cells)) \subseteq excused'
    <2> SUFFICES ASSUME NEW q \in doomed'
                 PROVE  pc'[q] \in Writing /\ RowsOf(ToSet(job'[q].cells)) \subseteq excused'
      OBVIOUS
    <2>1. q \in Workers /\ (q \in doomed \/ q \in Writers(b))
      BY <1>7
    <2>2. CASE q \in doomed
      BY <2>1, <2>2, <1>4, <1>6 DEF Locks
    <2>3. CASE q \in Writers(b)
      BY <2>1, <2>3, <1>4, <1>6, <1>8 DEF Writers
    <2>4. QED BY <2>1, <2>2, <2>3
  <1>10. ASSUME NEW c \in Buckets, NEW q \in Reliable(c)' PROVE holder'[c] = q
    <2>1. q \in Workers /\ q \in Reliable(c) /\ c # b
      BY <1>3, <1>6, <1>10 DEF Reliable, Writers
    <2>2. holder[c] = q
      BY <2>1 DEF Locks
    <2>3. QED BY <1>3, <2>1, <2>2 DEF Typed, Domains
  <1>11. QED BY <1>9, <1>10 DEF Locks

(* The writer that takes the lock: nobody held it, so nobody else writes   *)
(* there without its directory having been removed.                        *)
LEMMA BeginLocks ==
    ASSUME Typed, Locks, NEW p \in Workers, Begin(p)
    PROVE  Locks'
  <1>1. PICK b \in Buckets : b = job[p].into
    BY JobTyped DEF Begin
  <1>2. pc[p] = "begin" /\ p \notin doomed
    BY DEF Begin, Locks, Writing
  <1>3. CASE /\ Becomes(p, "prepare", [job[p] EXCEPT !.gen = NextId(b)])
             /\ holder[b] = Nobody /\ UNCHANGED ghost
             /\ holder' = [holder EXCEPT ![b] = p]
    <2>1. PICK j : j = [job[p] EXCEPT !.gen = NextId(b)]
      OBVIOUS
    <2>2. Becomes(p, "prepare", j) /\ j.into = b
      BY <1>1, <1>3, <2>1, JobTyped DEF JobType
    <2>3. \A q \in Workers : q # p => pc'[q] = pc[q] /\ job'[q] = job[q]
      BY <2>2 DEF Becomes, Typed, JobsTyped
    <2>4. job'[p].into = b
      BY <2>2 DEF Becomes, Typed, JobsTyped
    <2>5. doomed' = doomed /\ excused' = excused
      BY <1>3 DEF ghost
    <2>6. \A q \in doomed : q \in Workers /\ q # p
      BY <1>2 DEF Typed, GhostTyped
    <2>7. \A q \in doomed' : /\ pc'[q] \in Writing
                             /\ RowsOf(ToSet(job'[q].cells)) \subseteq excused'
      BY <2>3, <2>5, <2>6 DEF Locks
    <2>8. ASSUME NEW c \in Buckets, NEW q \in Reliable(c)', q # p PROVE holder'[c] = q
      <3>1. q \in Workers /\ q \in Reliable(c)
        BY <2>3, <2>5, <2>8 DEF Reliable, Writers
      <3>2. holder[c] = q
        BY <3>1 DEF Locks
      <3>3. c # b
        BY <3>1, <3>2, <1>3, ConstantsAssumption
      <3>4. QED BY <3>2, <3>3, <1>3 DEF Typed, Domains
    <2>9. ASSUME NEW c \in Buckets, p \in Reliable(c)' PROVE holder'[c] = p
      <3>1. c = b
        BY <2>4, <2>9 DEF Reliable, Writers
      <3>2. QED BY <3>1, <1>3 DEF Typed, Domains
    <2>10. QED BY <2>7, <2>8, <2>9 DEF Locks
  <1>4. CASE /\ Becomes(p, "idle", IdleJob) \/ Becomes(p, "undo", job[p])
             /\ doomed' = doomed \ {p} /\ UNCHANGED <<kept, owed, excused, used, born>>
             /\ UNCHANGED <<holder, stage>>
    BY <1>4, LocksOfOthers DEF Writing
  <1>5. QED BY <1>1, <1>3, <1>4, BeginTyped

(* Completing a staging directory leaves the locks as they are.           *)
LEMMA PrepareLocks ==
    ASSUME Typed, Locks, NEW p \in Workers, Prepare(p)
    PROVE  Locks'
  <1>1. PICK b \in Buckets : b = job[p].into
    BY JobTyped DEF Prepare
  <1>2. PICK plan, new :
          /\ PrepareEffect(p, b, job[p].gen, plan, new)
          /\ Becomes(p, "publish", [job[p] EXCEPT !.gone = plan.gone, !.fresh = plan.fresh])
    BY <1>1, PrepareTyped
  <1>3. PICK j : j = [job[p] EXCEPT !.gone = plan.gone, !.fresh = plan.fresh]
    OBVIOUS
  <1>4. Becomes(p, "publish", j) /\ j.into = job[p].into /\ j.cells = job[p].cells
    BY <1>2, <1>3, JobTyped DEF JobType
  <1>5. UNCHANGED <<doomed, holder>> /\ excused \subseteq excused'
    BY <1>2 DEF PrepareEffect
  <1>6. pc[p] \in Writing
    BY DEF Prepare, Writing
  <1>7. QED BY <1>4, <1>5, <1>6, LocksOfWriter DEF Writing

(* The rename keeps the lock with its writer.                             *)
LEMMA PublishLocks ==
    ASSUME Typed, Locks, NEW p \in Workers, Publish(p)
    PROVE  Locks'
  <1>1. Becomes(p, "current", job[p])
    BY PublishTyped
  <1>2. UNCHANGED <<doomed, holder>> /\ excused \subseteq excused' /\ pc[p] \in Writing
    BY DEF Publish, Writing
  <1>3. QED BY <1>1, <1>2, LocksOfWriter DEF Writing

(* The steps that unlock.                                                  *)
LEMMA UnlockLocks ==
    ASSUME Typed, Locks, NEW p \in Workers, PrepareFails(p) \/ PublishFails(p) \/ WriteCurrent(p)
    PROVE  Locks'
  <1>1. holder' = Unlocked(p)
    BY DEF PrepareFails, PublishFails, WriteCurrent
  <1>2. doomed' = doomed \ {p} /\ excused \subseteq excused'
    BY PrepareFailsTyped, PublishFailsTyped DEF WriteCurrent
  <1>3. \E at, j : Becomes(p, at, j) /\ at \in {"idle", "undo", "begin"}
    BY PrepareFailsTyped, PublishFailsTyped, WriteTyped
  <1>4. PICK at, j : Becomes(p, at, j) /\ at \in {"idle", "undo", "begin"}
    BY <1>3
  <1>5. \A b \in Buckets : holder'[b] = holder[b] \/ holder[b] = p
    BY <1>1, <1>4, UnlockedTyped
  <1>6. QED BY <1>2, <1>4, <1>5, LocksOfOthers DEF Writing

(* The death of the service releases all locks.                           *)
LEMMA CrashLocks ==
    ASSUME Typed, Locks, Crash
    PROVE  Locks'
  <1>1. doomed' = {} /\ pc' = [p \in Workers |-> "idle"]
    BY DEF Crash
  <1>2. \A b \in Buckets : Reliable(b)' = {}
    BY <1>1 DEF Reliable, Writers, Writing
  <1>3. QED BY <1>1, <1>2 DEF Locks

\* Every step keeps the locks exclusive but for writers whose directory was removed.
LEMMA NextLocks == Typed /\ Locks /\ [Next]_vars => Locks'
  <1> SUFFICES ASSUME Typed, Locks, [Next]_vars PROVE Locks'
    OBVIOUS
  <1>1. ASSUME NEW p \in Workers, Step(p) PROVE Locks'
    <2>1. CASE MakeBucket(p) \/ MakeBucketFails(p) \/ UndoCombine(p) \/ SweepEnds(p)
      BY <2>1, DirectoryLocks
    <2>2. CASE Begin(p) \/ Prepare(p) \/ PrepareFails(p)
               \/ Publish(p) \/ PublishFails(p) \/ WriteCurrent(p)
      BY <2>2, BeginLocks, PrepareLocks, PublishLocks, UnlockLocks
    <2>3. CASE \E n \in Entries : SweepEntry(p, n)
      BY <2>3, SweepLocks
    <2>4. QED BY <1>1, <2>1, <2>2, <2>3 DEF Step
  <1>2. CASE UNCHANGED vars
    <2>1. UNCHANGED <<disk, pc, job, ghost>>
      BY <1>2 DEF vars
    <2>2. UNCHANGED <<holder, pc, job, excused, doomed>>
      BY <2>1 DEF disk, ghost
    <2>3. QED BY <2>2 DEF Locks, Reliable, Writers
  <1>3. QED BY <1>1, <1>2, RequestLocks, CrashLocks DEF Next

(* The exclusion of writers is an invariant.                              *)
LEMMA LocksHold == Spec => [](Typed /\ Locks)
  <1>1. Init => Typed /\ Locks
    <2> SUFFICES ASSUME Init PROVE Typed /\ Locks
      OBVIOUS
    <2>1. Typed
      BY InitStarts, StartsTyped
    <2>2. doomed = {} /\ pc = [p \in Workers |-> "idle"]
      BY InitStarts DEF Starts
    <2>3. Locks
      BY <2>2 DEF Locks, Reliable, Writers, Writing
    <2>4. QED BY <2>1, <2>3
  <1>2. (Typed /\ Locks) /\ [Next]_vars => (Typed /\ Locks)'
    BY NextTyped, NextLocks
  <1>3. QED BY <1>1, <1>2, PTL DEF Spec

(* Two requests write to one bucket at a time only if its directory was    *)
(* removed under one of them: every other writer holds the lock.           *)
THEOREM WritersExclude == Spec => []WritersExcludeEachOther
  <1>1. Typed /\ Locks => WritersExcludeEachOther
    <2> SUFFICES ASSUME Locks, NEW b \in Buckets, NEW p \in Writers(b), NEW q \in Writers(b),
                        p # q, {p, q} \cap doomed = {}
                 PROVE  FALSE
      BY DEF WritersExcludeEachOther
    <2>1. p \in Reliable(b) /\ q \in Reliable(b)
      BY DEF Reliable
    <2>2. holder[b] = p /\ holder[b] = q
      BY <2>1 DEF Locks
    <2>3. QED BY <2>2
  <1>2. QED BY <1>1, LocksHold, PTL

----------------------------------------------------------------------------
(* Rows.                                                                   *)
(*                                                                         *)
(* A kept row is safe in some bucket: it is visible there, the writer that *)
(* holds that bucket's lock keeps it in the table it has staged, and no    *)
(* move is about to delete it.  For a move to make its rows safe in the    *)
(* destination before it deletes them, what is staged must have them at    *)
(* ids that no deletion under way names, and for a deletion to take only   *)
(* rows that were carried away, an id must never be given twice.           *)

\* What a writer has staged or published.
HasTable(q) ==
    \/ pc[q] = "publish" /\ Publishable(q)
    \/ pc[q] = "current" /\ job[q].gen \in DOMAIN gens[job[q].into]

TableOf(q) == IF pc[q] = "publish" THEN stage[job[q].into][job[q].gen]
                                   ELSE gens[job[q].into][job[q].gen]

Adds(q) == ToAdd(job[q], job[q].fresh)

\* The moves that take rows from a bucket.
Movers(b) == {m \in Workers : job[m].kind = "move" /\ job[m].from = {b}}

\* An id that no row has and no move names.
Elsewhere(b, id) == id \notin DOMAIN Visible(b).rows /\ \A m \in Movers(b) : id \notin job[m].ids

IdsUsed(b) ==
    /\ \A g \in DOMAIN gens[b] : DOMAIN gens[b][g].rows \subseteq used[b]
    /\ \A g \in Staged(b) : DOMAIN stage[b][g].rows \subseteq used[b]
    /\ \A m \in Movers(b) : job[m].ids \subseteq used[b]

PublishedStays(b) == \A q \in Reliable(b) : pc[q] = "current" => HasTable(q)

\* CURRENT names a writer's generation before the writer wrote it: somebody else did, who had
\* lost the directory.
Overtaken(b) ==
    \A q \in Reliable(b) : "CURRENT" \in names[b] /\ current[b] = job[q].gen =>
      /\ RowsOf(ToSet(job[q].cells)) \subseteq excused
      /\ HasTable(q) => RowsOf(CellsOf(TableOf(q))) \subseteq excused

TableAgrees(b) ==
    \A q \in Reliable(b) : HasTable(q) => \A id \in DOMAIN TableOf(q).rows :
      \/ TableOf(q).rows[id].row \in excused
      \/ id \in DOMAIN Visible(b).rows /\ TableOf(q).rows[id].row = Visible(b).rows[id].row
      \/ Elsewhere(b, id)

TableHasNew(b) ==
    \A q \in Reliable(b) : HasTable(q) /\ job[q].gone = {} =>
      \A r \in RowsOf(Adds(q)) :
        \/ r \in excused
        \/ \E id \in DOMAIN TableOf(q).rows : TableOf(q).rows[id].row = r /\ Elsewhere(b, id)

MovedAreCarried(b) ==
    \A m \in Movers(b) : \A id \in job[m].ids : id \in DOMAIN Visible(b).rows =>
      Visible(b).rows[id].row \in RowsOf(ToSet(job[m].cells)) \cup excused

BucketOK(b) ==
    /\ IdsUsed(b) /\ PublishedStays(b) /\ Overtaken(b)
    /\ TableAgrees(b) /\ TableHasNew(b) /\ MovedAreCarried(b)

KeepsCopy(q, id, r) ==
    \/ r \in RowsOf(job[q].gone) \ RowsOf(job[q].fresh)
    \/ id \in DOMAIN TableOf(q).rows /\ TableOf(q).rows[id].row = r

Spared(b, id) == \A m \in Workers : job[m].task = "delete" /\ job[m].into = b => id \notin job[m].ids

Safe(b, id, r) ==
    /\ id \in DOMAIN Visible(b).rows /\ Visible(b).rows[id].row = r
    /\ \A q \in Reliable(b) : HasTable(q) => KeepsCopy(q, id, r)
    /\ Spared(b, id)

SafeSomewhere(r) == \E b \in Buckets : \E id \in DOMAIN Visible(b).rows : Safe(b, id, r)

KeptAreSafe == \A r \in kept \ excused : SafeSomewhere(r)

Inv == Typed /\ Locks /\ (\A b \in Buckets : BucketOK(b)) /\ KeptAreSafe

\* A step that shows the same rows in a bucket and neither stages nor publishes any there.
SameRows(b) ==
    /\ gens'[b] = gens[b] /\ current'[b] = current[b]
    /\ "CURRENT" \in names'[b] <=> "CURRENT" \in names[b]
    /\ used'[b] = used[b] /\ excused \subseteq excused'
    /\ \A g \in Staged(b)' : g \in Staged(b) /\ stage'[b][g] = stage[b][g]

SameWriters(b) ==
    \A q \in Reliable(b)' :
      \/ q \in Reliable(b) /\ pc'[q] = pc[q] /\ job'[q] = job[q]
      \/ pc'[q] = "prepare" /\ ("CURRENT" \in names[b] => current[b] # job'[q].gen)

SameMovers(b) ==
    \A m \in Movers(b)' :
      \/ m \in Movers(b) /\ job'[m].ids = job[m].ids /\ job'[m].cells = job[m].cells
      \/ /\ job'[m].ids \subseteq DOMAIN Visible(b).rows
         /\ \A id \in job'[m].ids : Visible(b).rows[id] \in ToSet(job'[m].cells)

SameDeleters(b) ==
    \A m \in Workers : job'[m].task = "delete" /\ job'[m].into = b =>
      job[m].task = "delete" /\ job[m].into = b /\ job'[m].ids = job[m].ids

Quiet(b) == SameRows(b) /\ SameWriters(b) /\ SameMovers(b)

(* A typed bucket resolves as soon as CURRENT names a generation it has.  *)
LEMMA ResolvesTyped ==
    ASSUME Typed, NEW b \in Buckets
    PROVE  Resolves(b) <=> "CURRENT" \in names[b] /\ current[b] \in DOMAIN gens[b]
  BY DEF Typed, DirectoryTyped, Resolves

\* A bucket whose generations and CURRENT stay the same shows the same table.
LEMMA QuietShows ==
    ASSUME Typed, Typed', NEW b \in Buckets, SameRows(b)
    PROVE  Visible(b)' = Visible(b)
  <1>1. Resolves(b) <=> "CURRENT" \in names[b] /\ current[b] \in DOMAIN gens[b]
    BY ResolvesTyped
  <1>2. Resolves(b)' <=> "CURRENT" \in names'[b] /\ current'[b] \in DOMAIN gens'[b]
    BY DEF Typed, DirectoryTyped, Resolves
  <1>3. QED BY <1>1, <1>2 DEF SameRows, Visible

\* A reliable writer that had a complete table before a quiet step has the same one.
LEMMA QuietTables ==
    ASSUME Typed, NEW b \in Buckets, SameRows(b), SameWriters(b),
           NEW q \in Reliable(b)', HasTable(q)'
    PROVE  /\ q \in Reliable(b) /\ HasTable(q) /\ TableOf(q)' = TableOf(q)
           /\ pc'[q] = pc[q] /\ job'[q] = job[q] /\ job[q].into = b
  <1>1. pc'[q] # "prepare"
    BY DEF HasTable
  <1>2. q \in Reliable(b) /\ pc'[q] = pc[q] /\ job'[q] = job[q]
    BY <1>1 DEF SameWriters
  <1>3. job[q].into = b
    BY <1>2 DEF Reliable, Writers
  <1>4. CASE pc[q] = "publish"
    <2>1. Publishable(q)'
      BY <1>2, <1>4 DEF HasTable
    <2>2. job[q].gen \in Staged(b)' /\ job[q].gen \notin DOMAIN gens[b]
      BY <1>2, <1>3, <2>1 DEF Publishable, Staged, SameRows
    <2>3. job[q].gen \in Staged(b) /\ stage'[b][job[q].gen] = stage[b][job[q].gen]
      BY <2>2 DEF SameRows
    <2>4. QED BY <1>2, <1>3, <1>4, <2>2, <2>3 DEF HasTable, TableOf, Publishable, Staged
  <1>5. CASE pc[q] # "publish"
    BY <1>2, <1>3, <1>5 DEF HasTable, TableOf, SameRows
  <1>6. QED BY <1>4, <1>5

(* An id that was elsewhere stays elsewhere.                               *)
LEMMA QuietElsewhere ==
    ASSUME NEW b \in Buckets, SameMovers(b), Visible(b)' = Visible(b), NEW id, Elsewhere(b, id)
    PROVE  Elsewhere(b, id)'
  BY DEF Elsewhere, SameMovers

(* What a bucket promises survives every quiet step.                       *)
LEMMA QuietKeeps ==
    ASSUME Typed, Typed', NEW b \in Buckets, BucketOK(b), Quiet(b)
    PROVE  BucketOK(b)'
  <1>1. Visible(b)' = Visible(b) /\ SameRows(b) /\ SameWriters(b) /\ SameMovers(b)
    BY QuietShows DEF Quiet
  <1>2. \A q \in Reliable(b)' : HasTable(q)' =>
          /\ q \in Reliable(b) /\ HasTable(q) /\ TableOf(q)' = TableOf(q)
          /\ pc'[q] = pc[q] /\ job'[q] = job[q] /\ job[q].into = b
    BY <1>1, QuietTables
  <1>3. excused \subseteq excused'
    BY <1>1 DEF SameRows
  <1>4. IdsUsed(b)'
    <2>1. \A g \in DOMAIN gens'[b] : DOMAIN gens'[b][g].rows \subseteq used'[b]
      BY <1>1 DEF SameRows, BucketOK, IdsUsed
    <2>2. \A g \in Staged(b)' : DOMAIN stage'[b][g].rows \subseteq used'[b]
      BY <1>1 DEF SameRows, BucketOK, IdsUsed
    <2>3. DOMAIN Visible(b).rows \subseteq used[b]
      BY NoTableTyped, VisibleTyped DEF Typed, BucketOK, IdsUsed
    <2>4. \A m \in Movers(b)' : job'[m].ids \subseteq used'[b]
      BY <1>1, <2>3 DEF SameMovers, SameRows, BucketOK, IdsUsed
    <2>5. QED BY <2>1, <2>2, <2>4 DEF IdsUsed
  <1>5. PublishedStays(b)'
    <2> SUFFICES ASSUME NEW q \in Reliable(b)', pc'[q] = "current" PROVE HasTable(q)'
      BY DEF PublishedStays
    <2>1. q \in Reliable(b) /\ pc[q] = "current" /\ job'[q] = job[q]
      BY <1>1 DEF SameWriters
    <2>2. HasTable(q) /\ job[q].into = b
      BY <2>1 DEF BucketOK, PublishedStays, Reliable, Writers
    <2>3. QED BY <1>1, <2>1, <2>2 DEF HasTable, SameRows
  <1>6. Overtaken(b)'
    <2> SUFFICES ASSUME NEW q \in Reliable(b)', "CURRENT" \in names'[b], current'[b] = job'[q].gen
                 PROVE  /\ RowsOf(ToSet(job'[q].cells)) \subseteq excused'
                        /\ HasTable(q)' => RowsOf(CellsOf(TableOf(q)')) \subseteq excused'
      BY DEF Overtaken
    <2>1. "CURRENT" \in names[b] /\ current[b] = job'[q].gen
      BY <1>1 DEF SameRows
    <2>2. q \in Reliable(b) /\ job'[q] = job[q]
      BY <1>1, <2>1 DEF SameWriters
    <2>3. /\ RowsOf(ToSet(job[q].cells)) \subseteq excused
          /\ HasTable(q) => RowsOf(CellsOf(TableOf(q))) \subseteq excused
      BY <2>1, <2>2 DEF BucketOK, Overtaken
    <2>4. HasTable(q)' => HasTable(q) /\ TableOf(q)' = TableOf(q)
      BY <1>2
    <2>5. QED BY <1>3, <2>2, <2>3, <2>4
  <1>7. TableAgrees(b)'
    <2> SUFFICES ASSUME NEW q \in Reliable(b)', HasTable(q)', NEW id \in DOMAIN TableOf(q)'.rows
                 PROVE  \/ TableOf(q)'.rows[id].row \in excused'
                        \/ /\ id \in DOMAIN Visible(b)'.rows
                           /\ TableOf(q)'.rows[id].row = Visible(b)'.rows[id].row
                        \/ Elsewhere(b, id)'
      BY DEF TableAgrees
    <2>1. q \in Reliable(b) /\ HasTable(q) /\ TableOf(q)' = TableOf(q)
      BY <1>2
    <2>2. \/ TableOf(q).rows[id].row \in excused
          \/ id \in DOMAIN Visible(b).rows /\ TableOf(q).rows[id].row = Visible(b).rows[id].row
          \/ Elsewhere(b, id)
      BY <2>1 DEF BucketOK, TableAgrees
    <2>3. Elsewhere(b, id) => Elsewhere(b, id)'
      BY <1>1, QuietElsewhere
    <2>4. QED BY <1>1, <1>3, <2>1, <2>2, <2>3
  <1>8. TableHasNew(b)'
    <2> SUFFICES ASSUME NEW q \in Reliable(b)', HasTable(q)', job'[q].gone = {},
                        NEW r \in RowsOf(Adds(q)')
                 PROVE  \/ r \in excused'
                        \/ \E id \in DOMAIN TableOf(q)'.rows :
                             TableOf(q)'.rows[id].row = r /\ Elsewhere(b, id)'
      BY DEF TableHasNew
    <2>1. q \in Reliable(b) /\ HasTable(q) /\ TableOf(q)' = TableOf(q) /\ job'[q] = job[q]
      BY <1>2
    <2>2. Adds(q)' = Adds(q)
      BY <2>1 DEF Adds
    <2>3. \/ r \in excused
          \/ \E id \in DOMAIN TableOf(q).rows : TableOf(q).rows[id].row = r /\ Elsewhere(b, id)
      BY <2>1, <2>2 DEF BucketOK, TableHasNew
    <2>4. \A id : Elsewhere(b, id) => Elsewhere(b, id)'
      BY <1>1, QuietElsewhere
    <2>5. QED BY <1>3, <2>1, <2>3, <2>4
  <1>9. MovedAreCarried(b)'
    <2> SUFFICES ASSUME NEW m \in Movers(b)', NEW id \in job'[m].ids, id \in DOMAIN Visible(b)'.rows
                 PROVE  Visible(b)'.rows[id].row \in RowsOf(ToSet(job'[m].cells)) \cup excused'
      BY DEF MovedAreCarried
    <2>1. CASE m \in Movers(b) /\ job'[m].ids = job[m].ids /\ job'[m].cells = job[m].cells
      BY <1>1, <1>3, <2>1 DEF BucketOK, MovedAreCarried
    <2>2. CASE \A i \in job'[m].ids : Visible(b).rows[i] \in ToSet(job'[m].cells)
      BY <1>1, <2>2 DEF RowsOf
    <2>3. QED BY <1>1, <2>1, <2>2 DEF SameMovers
  <1>10. QED BY <1>4, <1>5, <1>6, <1>7, <1>8, <1>9 DEF BucketOK

(* A row that is safe in a bucket stays safe when the step is quiet there  *)
(* and starts no deletion that names it.                                   *)
LEMMA QuietSafe ==
    ASSUME Typed, Typed', NEW b \in Buckets, SameRows(b), SameWriters(b), NEW id, NEW r,
           Safe(b, id, r), Spared(b, id)'
    PROVE  Safe(b, id, r)'
  <1>1. Visible(b)' = Visible(b)
    BY QuietShows
  <1>2. ASSUME NEW q \in Reliable(b)', HasTable(q)' PROVE KeepsCopy(q, id, r)'
    <2>1. q \in Reliable(b) /\ HasTable(q) /\ TableOf(q)' = TableOf(q) /\ job'[q] = job[q]
      BY <1>2, QuietTables
    <2>2. KeepsCopy(q, id, r)
      BY <2>1 DEF Safe
    <2>3. QED BY <2>1, <2>2 DEF KeepsCopy
  <1>3. QED BY <1>1, <1>2 DEF Safe

\* A row that no deletion in flight removes is still spared if there are no new deletions.
LEMMA SparedStill ==
    ASSUME NEW b \in Buckets, SameDeleters(b), NEW id, Spared(b, id)
    PROVE  Spared(b, id)'
  BY DEF SameDeleters, Spared

(* A step that is quiet everywhere.                                        *)
LEMMA QuietStep ==
    ASSUME Inv, Typed', Locks', kept' = kept, excused \subseteq excused',
           \A b \in Buckets : Quiet(b) /\ SameDeleters(b)
    PROVE  Inv'
  <1>1. \A b \in Buckets : BucketOK(b)'
    BY QuietKeeps DEF Inv
  <1>2. ASSUME NEW r \in kept' \ excused', ~(SafeSomewhere(r)') PROVE FALSE
    <2>1. r \in kept \ excused
      BY <1>2
    <2>2. PICK b \in Buckets : \E id \in DOMAIN Visible(b).rows : Safe(b, id, r)
      BY <2>1 DEF Inv, KeptAreSafe, SafeSomewhere
    <2>3. PICK id : Safe(b, id, r)
      BY <2>2
    <2>4. Spared(b, id)'
      BY <2>3, SparedStill DEF Safe
    <2>5. Safe(b, id, r)'
      BY <2>3, <2>4, QuietSafe DEF Inv, Quiet
    <2>6. QED BY <1>2, <2>5 DEF Safe, SafeSomewhere
  <1>3. QED BY <1>1, <1>2 DEF Inv, KeptAreSafe

(* Quiet steps: a worker turns to something else than writing.             *)
SameRequest(p, j) ==
    /\ j.kind = job[p].kind /\ j.from = job[p].from /\ j.ids = job[p].ids
    /\ j.cells = job[p].cells /\ j.task = job[p].task /\ j.into = job[p].into

(* A step of one worker leaves the requests of the others alone.          *)
LEMMA OthersSame ==
    ASSUME Typed, NEW p \in Workers, NEW at, NEW j, Becomes(p, at, j)
    PROVE  /\ pc'[p] = at /\ job'[p] = j
           /\ \A q \in Workers : q # p => pc'[q] = pc[q] /\ job'[q] = job[q]
  BY DEF Becomes, Typed, JobsTyped

\* A step that keeps a worker's request, or gives it a freshly read one, adds no deletion.
LEMMA RequestsSame ==
    ASSUME Typed, NEW p \in Workers, NEW at, NEW j, Becomes(p, at, j),
           (Fetched(j) /\ j.task # "delete") \/ SameRequest(p, j), NEW b \in Buckets
    PROVE  SameMovers(b) /\ SameDeleters(b)
  <1>1. /\ job'[p] = j
        /\ \A q \in Workers : q # p => job'[q] = job[q]
    BY OthersSame
  <1>2. ASSUME NEW m \in Movers(b)'
        PROVE  \/ m \in Movers(b) /\ job'[m].ids = job[m].ids /\ job'[m].cells = job[m].cells
               \/ /\ job'[m].ids \subseteq DOMAIN Visible(b).rows
                  /\ \A id \in job'[m].ids : Visible(b).rows[id] \in ToSet(job'[m].cells)
    <2>1. m \in Workers /\ job'[m].kind = "move" /\ job'[m].from = {b}
      BY DEF Movers
    <2>2. CASE m # p \/ SameRequest(p, j)
      BY <1>1, <2>1, <2>2 DEF Movers, SameRequest
    <2>3. CASE m = p /\ Fetched(j)
      <3>1. PICK s \in Buckets :
              /\ j.from = {s} /\ j.ids \subseteq DOMAIN Visible(s).rows
              /\ \A id \in j.ids : Visible(s).rows[id] \in ToSet(j.cells)
        BY <1>1, <2>1, <2>3 DEF Fetched
      <3>2. s = b
        BY <1>1, <2>1, <2>3, <3>1
      <3>3. QED BY <1>1, <2>3, <3>1, <3>2
    <2>4. QED BY <2>2, <2>3
  <1>3. ASSUME NEW m \in Workers, job'[m].task = "delete", job'[m].into = b
        PROVE  job[m].task = "delete" /\ job[m].into = b /\ job'[m].ids = job[m].ids
    BY <1>1, <1>3 DEF SameRequest
  <1>4. QED BY <1>2, <1>3 DEF SameMovers, SameDeleters

\* A step that makes nobody a writer leaves the writers of every bucket as they were.
LEMMA WritersSame ==
    ASSUME Typed, NEW p \in Workers, NEW at, NEW j, Becomes(p, at, j), at \notin Writing,
           doomed \subseteq doomed' \cup {p}, NEW b
    PROVE  SameWriters(b)
  <1>1. /\ pc'[p] = at
        /\ \A q \in Workers : q # p => pc'[q] = pc[q] /\ job'[q] = job[q]
    BY OthersSame
  <1>2. \A q \in Reliable(b)' : /\ q \in Reliable(b) /\ pc'[q] = pc[q] /\ job'[q] = job[q]
    BY <1>1 DEF Reliable, Writers
  <1>3. QED BY <1>2 DEF SameWriters

(* What remains of the steps that write no table and change no CURRENT.    *)
LEMMA WorkerTurns ==
    ASSUME Inv, Typed', Locks', NEW p \in Workers, NEW at, NEW j, Becomes(p, at, j),
           at \notin Writing, (Fetched(j) /\ j.task # "delete") \/ SameRequest(p, j),
           doomed \subseteq doomed' \cup {p}, UNCHANGED <<kept, excused, used, gens, current>>,
           \A b \in Buckets : "CURRENT" \in names'[b] <=> "CURRENT" \in names[b],
           \A b \in Buckets : \A g \in Staged(b)' : g \in Staged(b) /\ stage'[b][g] = stage[b][g]
    PROVE  Inv'
  <1>1. \A b \in Buckets : SameMovers(b) /\ SameDeleters(b) /\ SameWriters(b)
    BY RequestsSame, WritersSame DEF Inv
  <1>2. \A b \in Buckets : SameRows(b)
    BY DEF SameRows
  <1>3. \A b \in Buckets : Quiet(b) /\ SameDeleters(b)
    BY <1>1, <1>2 DEF Quiet
  <1>4. QED BY <1>3, QuietStep

(* An idle worker moves no rows.                                          *)
LEMMA IdleFetched == Fetched(IdleJob) /\ IdleJob.task # "delete"
  BY IdleTask DEF Fetched

(* A new request keeps the invariant.                                     *)
LEMMA RequestSafe ==
    ASSUME Inv, Typed', Locks', NEW p \in Workers, Request(p)
    PROVE  Inv'
  <1>1. Typed
    BY DEF Inv
  <1>2. PICK j \in JobType, at \in {"make", "begin", "sweep"} :
          Becomes(p, at, j) /\ j.task # "delete" /\ Fetched(j)
    BY <1>1, RequestEffect
  <1>3. UNCHANGED disk /\ UNCHANGED <<kept, excused, used, doomed>>
    BY <1>1, RequestEffect
  <1>4. UNCHANGED <<gens, current, names, stage>>
    BY <1>3 DEF disk
  <1>5. at \notin Writing
    BY DEF Writing
  <1>6. \A b \in Buckets : \A g \in Staged(b)' : g \in Staged(b) /\ stage'[b][g] = stage[b][g]
    BY <1>4 DEF Staged
  <1>7. QED BY <1>2, <1>3, <1>4, <1>5, <1>6, WorkerTurns

(* What is left to remove is no part of what a request moves.             *)
LEMMA TodoSame ==
    ASSUME Typed, NEW p \in Workers, NEW j, NEW todo, j = [job[p] EXCEPT !.todo = todo]
    PROVE  SameRequest(p, j)
  BY JobTyped DEF SameRequest, JobType

(* Making a directory and deciding on its removal.                         *)
LEMMA DirectorySafe ==
    ASSUME Inv, Typed', Locks', NEW p \in Workers,
           MakeBucket(p) \/ MakeBucketFails(p) \/ UndoCombine(p) \/ SweepEnds(p)
    PROVE  Inv'
  <1>1. Typed
    BY DEF Inv
  <1>2. UNCHANGED <<gens, current, stage, ghost>>
    BY DEF MakeBucket, MakeBucketFails, UndoCombine, SweepEnds, disk
  <1>3. \A b \in Buckets : "CURRENT" \in names'[b] <=> "CURRENT" \in names[b]
    <2>1. CASE MakeBucket(p)
      <3>1. PICK d : d = job[p].into
        OBVIOUS
      <3>2. names' = [names EXCEPT ![d] = @ \cup {"meta"}]
        BY <2>1, <3>1 DEF MakeBucket
      <3>3. QED BY <1>1, <3>2 DEF Typed, Domains
    <2>2. CASE MakeBucketFails(p) \/ UndoCombine(p) \/ SweepEnds(p)
      BY <2>2 DEF MakeBucketFails, UndoCombine, SweepEnds, disk
    <2>3. QED BY <2>1, <2>2
  <1>4. \E j, at : /\ Becomes(p, at, j) /\ at \in {"idle", "begin", "sweep"}
                   /\ j = IdleJob \/ SameRequest(p, j)
    <2>1. SameRequest(p, job[p])
      BY DEF SameRequest
    <2>2. \A j : (\E todo : j = [job[p] EXCEPT !.todo = todo]) => SameRequest(p, j)
      BY <1>1, TodoSame
    <2>3. QED BY <1>1, <2>1, <2>2, MakeTyped, MakeFailsTyped, UndoTyped, SweepEndsTyped
  <1>5. PICK j, at : /\ Becomes(p, at, j) /\ at \in {"idle", "begin", "sweep"}
                     /\ j = IdleJob \/ SameRequest(p, j)
    BY <1>4
  <1>6. at \notin Writing /\ ((Fetched(j) /\ j.task # "delete") \/ SameRequest(p, j))
    BY <1>5, IdleFetched DEF Writing
  <1>7. UNCHANGED <<kept, excused, used, doomed>>
    BY <1>2 DEF ghost
  <1>8. \A b \in Buckets : \A g \in Staged(b)' : g \in Staged(b) /\ stage'[b][g] = stage[b][g]
    BY <1>2 DEF Staged
  <1>9. QED BY <1>2, <1>3, <1>5, <1>6, <1>7, <1>8, WorkerTurns

(* A writer that fails keeps the invariant.                               *)
LEMMA FailureSafe ==
    ASSUME Inv, Typed', Locks', NEW p \in Workers, PrepareFails(p) \/ PublishFails(p)
    PROVE  Inv'
  <1>1. Typed
    BY DEF Inv
  <1>2. UNCHANGED <<gens, current, names>>
    BY DEF PrepareFails, PublishFails
  <1>3. /\ Becomes(p, "idle", IdleJob) \/ Becomes(p, "undo", job[p])
        /\ doomed' = doomed \ {p} /\ UNCHANGED <<kept, excused, used>>
    BY <1>1, PrepareFailsTyped, PublishFailsTyped
  <1>4. \A b \in Buckets : \A g \in Staged(b)' : g \in Staged(b) /\ stage'[b][g] = stage[b][g]
    <2>1. CASE PrepareFails(p)
      <3>1. PICK c, n : c = job[p].into /\ n = job[p].gen
        OBVIOUS
      <3>2. stage' = [stage EXCEPT ![c] = Without(stage[c], n)]
        BY <2>1, <3>1 DEF PrepareFails
      <3>3. QED BY <1>1, <3>2 DEF Typed, Domains, Staged, Without
    <2>2. CASE PublishFails(p)
      BY <2>2 DEF PublishFails, Staged
    <2>3. QED BY <2>1, <2>2
  <1>5. \E at, j : /\ Becomes(p, at, j) /\ at \notin Writing
                   /\ (Fetched(j) /\ j.task # "delete") \/ SameRequest(p, j)
    <2>1. SameRequest(p, job[p])
      BY DEF SameRequest
    <2>2. "idle" \notin Writing /\ "undo" \notin Writing
      BY DEF Writing
    <2>3. QED BY <1>3, <2>1, <2>2, IdleFetched
  <1>6. PICK at, j : /\ Becomes(p, at, j) /\ at \notin Writing
                     /\ (Fetched(j) /\ j.task # "delete") \/ SameRequest(p, j)
    BY <1>5
  <1>7. doomed \subseteq doomed' \cup {p}
    BY <1>3
  <1>8. QED BY <1>2, <1>3, <1>4, <1>6, <1>7, WorkerTurns

(* A writer begins: the number of its generation is not the one in CURRENT. *)
LEMMA BeginSafe ==
    ASSUME Inv, Typed', Locks', NEW p \in Workers, Begin(p)
    PROVE  Inv'
  <1>1. Typed
    BY DEF Inv
  <1>2. PICK b \in Buckets : b = job[p].into
    BY <1>1, JobTyped DEF Begin
  <1>3. UNCHANGED <<gens, current>> /\ names' = [names EXCEPT ![b] = @ \cup {"generations", "locks"}]
    BY <1>2 DEF Begin
  <1>4. \A c \in Buckets : "CURRENT" \in names'[c] <=> "CURRENT" \in names[c]
    BY <1>1, <1>3 DEF Typed, Domains
  <1>5. CASE /\ Becomes(p, "prepare", [job[p] EXCEPT !.gen = NextId(b)]) /\ UNCHANGED ghost
             /\ stage' = [stage EXCEPT ![b] = Put(stage[b], NextId(b), Building)]
             /\ NextId(b) \notin DOMAIN stage[b]
    <2>1. PICK n, j : n = NextId(b) /\ j = [job[p] EXCEPT !.gen = n]
      OBVIOUS
    <2>2. /\ Becomes(p, "prepare", j) /\ UNCHANGED <<kept, excused, used, doomed>>
          /\ stage' = [stage EXCEPT ![b] = Put(stage[b], n, Building)] /\ n \notin DOMAIN stage[b]
      BY <1>5, <2>1 DEF ghost
    <2>3. SameRequest(p, j) /\ j.gen = n
      BY <1>1, <2>1, JobTyped DEF SameRequest, JobType
    <2>4. /\ pc'[p] = "prepare" /\ job'[p] = j
          /\ \A q \in Workers : q # p => pc'[q] = pc[q] /\ job'[q] = job[q]
      BY <1>1, <2>2, OthersSame
    <2>5. "CURRENT" \in names[b] => current[b] # n
      <3>1. DirectoryTyped(b)
        BY <1>1 DEF Typed
      <3>2. "CURRENT" \in names[b] => current[b] < n
        BY <2>1, <3>1, NextIdTyped
      <3>3. QED BY <3>1, <3>2 DEF DirectoryTyped
    <2>6. ASSUME NEW c \in Buckets PROVE Quiet(c) /\ SameDeleters(c)
      <3>1. SameMovers(c) /\ SameDeleters(c)
        BY <1>1, <2>2, <2>3, RequestsSame
      <3>2. \A g \in Staged(c)' : g \in Staged(c) /\ stage'[c][g] = stage[c][g]
        BY <1>1, <2>2 DEF Typed, Domains, Staged, Put
      <3>3. SameRows(c)
        BY <1>3, <1>4, <2>2, <3>2 DEF SameRows
      <3>4. SameWriters(c)
        <4> SUFFICES ASSUME NEW q \in Reliable(c)'
                     PROVE  \/ q \in Reliable(c) /\ pc'[q] = pc[q] /\ job'[q] = job[q]
                            \/ /\ pc'[q] = "prepare"
                               /\ "CURRENT" \in names[c] => current[c] # job'[q].gen
          BY DEF SameWriters
        <4>1. CASE q # p
          BY <2>2, <2>4, <4>1 DEF Reliable, Writers
        <4>2. CASE q = p
          <5>1. c = b
            BY <1>2, <2>3, <2>4, <4>2 DEF Reliable, Writers, SameRequest
          <5>2. QED BY <2>3, <2>4, <2>5, <4>2, <5>1
        <4>3. QED BY <4>1, <4>2
      <3>5. QED BY <3>1, <3>3, <3>4 DEF Quiet
    <2>7. QED BY <2>2, <2>6, QuietStep
  <1>6. CASE /\ Becomes(p, "idle", IdleJob) \/ Becomes(p, "undo", job[p])
             /\ doomed' = doomed \ {p} /\ UNCHANGED <<kept, owed, excused, used, born>>
             /\ UNCHANGED <<holder, stage>>
    <2>1. SameRequest(p, job[p])
      BY DEF SameRequest
    <2>2. "idle" \notin Writing /\ "undo" \notin Writing
      BY DEF Writing
    <2>3. \E at, j : /\ Becomes(p, at, j) /\ at \notin Writing
                     /\ (Fetched(j) /\ j.task # "delete") \/ SameRequest(p, j)
      BY <1>6, <2>1, <2>2, IdleFetched
    <2>4. PICK at, j : /\ Becomes(p, at, j) /\ at \notin Writing
                       /\ (Fetched(j) /\ j.task # "delete") \/ SameRequest(p, j)
      BY <2>3
    <2>5. \A c \in Buckets : \A g \in Staged(c)' : g \in Staged(c) /\ stage'[c][g] = stage[c][g]
      BY <1>6 DEF Staged
    <2>6. doomed \subseteq doomed' \cup {p} /\ UNCHANGED <<kept, excused, used>>
      BY <1>6
    <2>7. QED BY <1>3, <1>4, <2>4, <2>5, <2>6, WorkerTurns
  <1>7. QED BY <1>1, <1>2, <1>5, <1>6, BeginTyped

(* The death of the service keeps the invariant.                          *)
LEMMA CrashSafe ==
    ASSUME Inv, Typed', Locks', Crash
    PROVE  Inv'
  <1>1. /\ job' = [p \in Workers |-> IdleJob] /\ pc' = [p \in Workers |-> "idle"]
        /\ UNCHANGED <<names, current, gens, stage, kept, excused, used>>
    BY DEF Crash
  <1>2. ASSUME NEW b \in Buckets PROVE Quiet(b) /\ SameDeleters(b)
    <2>1. SameRows(b)
      BY <1>1 DEF SameRows, Staged
    <2>2. Reliable(b)' = {} /\ Movers(b)' = {}
      BY <1>1, IdleTask DEF Reliable, Writers, Writing, Movers
    <2>3. SameDeleters(b)
      BY <1>1, IdleTask DEF SameDeleters
    <2>4. QED BY <2>1, <2>2, <2>3 DEF Quiet, SameWriters, SameMovers
  <1>3. QED BY <1>1, <1>2, QuietStep

(* Where everything in and around a bucket is excused, nothing is promised. *)
AllExcused(b) ==
    /\ \A g \in DOMAIN gens[b] : RowsOf(CellsOf(gens[b][g])) \subseteq excused
    /\ \A g \in Staged(b) : RowsOf(CellsOf(stage[b][g])) \subseteq excused
    /\ \A q \in Reliable(b) : /\ RowsOf(ToSet(job[q].cells)) \subseteq excused
                              /\ RowsOf(Adds(q)) \subseteq excused

(* What a bucket shows is in one of its generations.                      *)
LEMMA VisibleExcused ==
    ASSUME Typed, NEW b \in Buckets, NEW rows,
           \A g \in DOMAIN gens[b] : RowsOf(CellsOf(gens[b][g])) \subseteq rows
    PROVE  \A id \in DOMAIN Visible(b).rows : Visible(b).rows[id].row \in rows
  <1> SUFFICES ASSUME NEW id \in DOMAIN Visible(b).rows
               PROVE  Visible(b).rows[id].row \in rows
    OBVIOUS
  <1>1. TablesTyped(b)
    BY DEF Typed
  <1>2. Resolves(b)
    BY <1>1, VisibleTyped, NoTableTyped
  <1>3. PICK g \in DOMAIN gens[b] : Visible(b) = gens[b][g]
    BY <1>1, <1>2, VisibleTyped
  <1>4. IsTable(gens[b][g])
    BY <1>1 DEF TablesTyped
  <1>5. Visible(b).rows[id].row \in RowsOf(CellsOf(gens[b][g]))
    BY <1>3, <1>4, TableCells
  <1>6. QED BY <1>5

(* A bucket all of whose rows are excused meets the invariant.            *)
LEMMA ExcusedOK ==
    Typed => \A b \in Buckets :
      IdsUsed(b) /\ PublishedStays(b) /\ AllExcused(b) => BucketOK(b)
  <1> SUFFICES ASSUME Typed, NEW b \in Buckets, IdsUsed(b), PublishedStays(b), AllExcused(b)
               PROVE  BucketOK(b)
    OBVIOUS
  <1>1. \A id \in DOMAIN Visible(b).rows : Visible(b).rows[id].row \in excused
    BY VisibleExcused DEF AllExcused
  <1>2. ASSUME NEW q \in Reliable(b), HasTable(q)
        PROVE  RowsOf(CellsOf(TableOf(q))) \subseteq excused
    <2>1. job[q].into = b
      BY DEF Reliable, Writers
    <2>2. \/ job[q].gen \in Staged(b) /\ TableOf(q) = stage[b][job[q].gen]
          \/ job[q].gen \in DOMAIN gens[b] /\ TableOf(q) = gens[b][job[q].gen]
      BY <1>2, <2>1 DEF HasTable, TableOf, Publishable, Staged
    <2>3. QED BY <2>2 DEF AllExcused
  <1>3. Overtaken(b) /\ TableHasNew(b) /\ MovedAreCarried(b)
    BY <1>1, <1>2 DEF AllExcused, Overtaken, TableHasNew, MovedAreCarried
  <1>4. \A q \in Reliable(b) : HasTable(q) => \A id \in DOMAIN TableOf(q).rows :
          TableOf(q).rows[id].row \in RowsOf(CellsOf(TableOf(q)))
    BY DEF RowsOf, CellsOf
  <1>5. TableAgrees(b)
    BY <1>2, <1>4 DEF TableAgrees
  <1>6. QED BY <1>3, <1>5 DEF BucketOK

(* The same after a step.                                                 *)
LEMMA ExcusedPrimed ==
    (Typed => \A b \in Buckets :
      IdsUsed(b) /\ PublishedStays(b) /\ AllExcused(b) => BucketOK(b))'
  BY ExcusedOK, PTL

(* The same after a step, for one bucket.                                 *)
LEMMA ExcusedKeeps ==
    ASSUME Typed', NEW b \in Buckets, IdsUsed(b)', PublishedStays(b)', AllExcused(b)'
    PROVE  BucketOK(b)'
  BY ExcusedPrimed

(* What a writer endangers that has lost its directory.                    *)
LEMMA DoomedEndanger ==
    ASSUME Typed, NEW b \in Buckets, NEW rows, Around(b) \subseteq rows
    PROVE  /\ \A g \in DOMAIN gens[b] : RowsOf(CellsOf(gens[b][g])) \subseteq rows
           /\ \A g \in Staged(b) : RowsOf(CellsOf(stage[b][g])) \subseteq rows
           /\ \A q \in Reliable(b) : /\ RowsOf(ToSet(job[q].cells)) \subseteq rows
                                     /\ RowsOf(Adds(q)) \subseteq rows
           /\ \A id \in DOMAIN Visible(b).rows : Visible(b).rows[id].row \in rows
  <1>1. /\ \A g \in DOMAIN gens[b] : RowsOf(CellsOf(gens[b][g])) \subseteq rows
        /\ \A g \in Staged(b) : RowsOf(CellsOf(stage[b][g])) \subseteq rows
    BY AroundMembers
  <1>2. ASSUME NEW q \in Reliable(b)
        PROVE  /\ RowsOf(ToSet(job[q].cells)) \subseteq rows
               /\ RowsOf(Adds(q)) \subseteq rows
    <2>1. q \in Writers(b)
      BY DEF Reliable
    <2>2. RowsOf(ToSet(job[q].cells) \cup job[q].fresh) \subseteq rows
      BY <2>1 DEF Carried, Around
    <2>3. QED BY <2>2 DEF Adds, ToAdd, RowsOf
  <1>3. \A id \in DOMAIN Visible(b).rows : Visible(b).rows[id].row \in rows
    BY <1>1, VisibleExcused
  <1>4. QED BY <1>1, <1>2, <1>3

(* The step of a writer is quiet in the other buckets.                     *)
LEMMA WritersElsewhere ==
    ASSUME Typed, NEW p \in Workers, NEW at, NEW j, Becomes(p, at, j),
           at \notin Writing \/ j.into = job[p].into,
           doomed \subseteq doomed' \cup {p}, NEW c, c # job[p].into
    PROVE  SameWriters(c)
  <1>1. /\ pc'[p] = at /\ job'[p] = j
        /\ \A q \in Workers : q # p => pc'[q] = pc[q] /\ job'[q] = job[q]
    BY OthersSame
  <1>2. \A q \in Reliable(c)' : q \in Reliable(c) /\ pc'[q] = pc[q] /\ job'[q] = job[q]
    BY <1>1 DEF Reliable, Writers
  <1>3. QED BY <1>2 DEF SameWriters

\* A writer whose directory was not removed is the only such writer of its bucket.
LEMMA OnlyWriter ==
    ASSUME Locks, NEW b \in Buckets, NEW p \in Reliable(b)
    PROVE  Reliable(b) = {p}
  BY DEF Locks

(* A step that is quiet in all buckets but one.                            *)
LEMMA KeptOutside ==
    ASSUME Inv, Typed', NEW b \in Buckets, excused \subseteq excused', kept' \subseteq kept,
           \A c \in Buckets : c # b => SameRows(c) /\ SameWriters(c) /\ SameDeleters(c),
           \A r \in kept' \ excused' : \A id : Safe(b, id, r) => Safe(b, id, r)'
    PROVE  KeptAreSafe'
  <1> SUFFICES ASSUME NEW r \in kept' \ excused' PROVE SafeSomewhere(r)'
    BY DEF KeptAreSafe
  <1>1. PICK c \in Buckets : \E id \in DOMAIN Visible(c).rows : Safe(c, id, r)
    BY DEF Inv, KeptAreSafe, SafeSomewhere
  <1>2. PICK id : Safe(c, id, r)
    BY <1>1
  <1>3. CASE c = b
    BY <1>2, <1>3 DEF Safe, SafeSomewhere
  <1>4. CASE c # b
    <2>1. Spared(c, id)'
      BY <1>2, <1>4, SparedStill DEF Safe
    <2>2. Safe(c, id, r)'
      BY <1>2, <1>4, <2>1, QuietSafe DEF Inv
    <2>3. QED BY <2>2 DEF Safe, SafeSomewhere
  <1>5. QED BY <1>3, <1>4

(* The removal of a directory entry.                                       *)
LEMMA SweepSafe ==
    ASSUME Inv, Typed', Locks', NEW p \in Workers, NEW n \in Entries, SweepEntry(p, n)
    PROVE  Inv'
  <1>1. Typed /\ Locks
    BY DEF Inv
  <1>2. PICK b \in Buckets : b = job[p].into
    BY <1>1, JobTyped DEF SweepEntry
  <1>3. PICK j \in JobType : Becomes(p, "sweep", j) /\ \E todo : j = [job[p] EXCEPT !.todo = todo]
    BY <1>1, SweepTyped
  <1>4. SameRequest(p, j)
    BY <1>1, <1>3, TodoSame
  <1>5. \A c \in Buckets : SameMovers(c) /\ SameDeleters(c)
    BY <1>1, <1>3, <1>4, RequestsSame
  <1>6. PICK lost : lost = RowsOf(CellsOf(Visible(b)))
    OBVIOUS
  <1>7. /\ names' = [names EXCEPT ![b] = @ \ n] /\ made' = made
        /\ IF "generations" \in n
             THEN gens' = [gens EXCEPT ![b] = <<>>] /\ stage' = [stage EXCEPT ![b] = <<>>]
             ELSE UNCHANGED <<gens, stage>>
        /\ current' = (IF "CURRENT" \in n THEN [current EXCEPT ![b] = 0] ELSE current)
        /\ doomed' = doomed \cup Writers(b) /\ used' = used
    BY <1>2 DEF SweepEntry
  <1>8. /\ excused \subseteq excused' /\ kept' \subseteq kept
        /\ job[p].kind # "delete" => lost \subseteq excused'
        /\ n \cap {"CURRENT", "generations"} # {} /\ job[p].kind = "delete" => kept' = kept \ lost
    BY <1>2, <1>6 DEF SweepEntry
  <1>9. "sweep" \notin Writing
    BY DEF Writing
  <1>10. ASSUME NEW c \in Buckets, c # b PROVE SameRows(c) /\ SameWriters(c)
    <2>1. SameWriters(c)
      BY <1>1, <1>2, <1>3, <1>7, <1>9, <1>10, WritersElsewhere
    <2>2. /\ gens'[c] = gens[c] /\ stage'[c] = stage[c] /\ current'[c] = current[c]
          /\ names'[c] = names[c]
      BY <1>1, <1>7, <1>10 DEF Typed, Domains
    <2>3. QED BY <1>7, <1>8, <2>1, <2>2 DEF SameRows, Staged
  <1>11. Reliable(b)' = {}
    <2>1. /\ pc'[p] = "sweep"
          /\ \A q \in Workers : q # p => pc'[q] = pc[q] /\ job'[q] = job[q]
      BY <1>1, <1>3, OthersSame
    <2>2. QED BY <1>7, <1>9, <2>1 DEF Reliable, Writers
  <1>12. CASE n = {"meta", "locks"}
    <2>1. SameRows(b)
      BY <1>1, <1>7, <1>8, <1>12 DEF Typed, Domains, SameRows, Staged
    <2>2. SameWriters(b)
      BY <1>11 DEF SameWriters
    <2>3. kept' = kept
      BY <1>12 DEF SweepEntry
    <2>4. \A c \in Buckets : Quiet(c) /\ SameDeleters(c)
      BY <1>5, <1>10, <2>1, <2>2 DEF Quiet
    <2>5. QED BY <1>8, <2>3, <2>4, QuietStep
  <1>13. CASE n \in {{"CURRENT"}, {"generations"}}
    <2>1. Visible(b)' = NoTable
      BY <1>1, <1>7, <1>13 DEF Typed, Domains, Visible, Resolves
    <2>2. BucketOK(b)'
      <3>1. PublishedStays(b)' /\ Overtaken(b)' /\ TableAgrees(b)' /\ TableHasNew(b)'
        BY <1>11 DEF PublishedStays, Overtaken, TableAgrees, TableHasNew
      <3>2. MovedAreCarried(b)'
        BY <2>1, NoTableTyped DEF MovedAreCarried
      <3>3. \A g \in DOMAIN gens'[b] : g \in DOMAIN gens[b] /\ gens'[b][g] = gens[b][g]
        BY <1>1, <1>7 DEF Typed, Domains
      <3>4. \A g \in Staged(b)' : g \in Staged(b) /\ stage'[b][g] = stage[b][g]
        BY <1>1, <1>7 DEF Typed, Domains, Staged
      <3>5. IdsUsed(b)
        BY DEF Inv, BucketOK
      <3>6. DOMAIN Visible(b).rows \subseteq used[b]
        BY <1>1, <3>5, NoTableTyped, VisibleTyped DEF Typed, IdsUsed
      <3>7. \A m \in Movers(b)' : job'[m].ids \subseteq used[b]
        BY <1>5, <3>5, <3>6 DEF SameMovers, IdsUsed
      <3>8. IdsUsed(b)'
        BY <1>7, <3>3, <3>4, <3>5, <3>7 DEF IdsUsed
      <3>9. QED BY <3>1, <3>2, <3>8 DEF BucketOK
    <2>3. \A c \in Buckets : BucketOK(c)'
      BY <1>1, <1>5, <1>10, <2>2, QuietKeeps DEF Quiet, Inv
    <2>4. \A r \in kept' \ excused' : \A id : ~Safe(b, id, r)
      <3>1. IsTable(Visible(b))
        BY <1>1, VisibleTyped DEF Typed
      <3>2. \A id \in DOMAIN Visible(b).rows : Visible(b).rows[id].row \in lost
        BY <1>6, <3>1, TableCells
      <3>3. kept' \ excused' \subseteq kept \ lost
        BY <1>8, <1>13
      <3>4. QED BY <3>2, <3>3 DEF Safe
    <2>5. KeptAreSafe'
      BY <1>5, <1>8, <1>10, <2>4, KeptOutside
    <2>6. QED BY <2>3, <2>5 DEF Inv
  <1>14. QED BY <1>12, <1>13 DEF Entries

(* What Prepare leaves as it was, and what it stages.                      *)
Prepared(p, b, g, plan, j) ==
    /\ b = job[p].into /\ g = job[p].gen /\ plan \in Plans(p, b)
    /\ PlanTyped(plan) /\ PlanKeeps(p, Visible(b), plan) /\ PlanAdds(p, Visible(b), plan)
    /\ ~Resolves(b) => CellsOf(plan.table) \subseteq ToSet(job[p].cells)
    /\ Becomes(p, "publish", j) /\ SameRequest(p, j) /\ j.gen = g
    /\ j.gone = plan.gone /\ j.fresh = plan.fresh
    /\ UNCHANGED <<made, names, current, gens, kept, extra, doomed>>
    /\ born' = born \cup RowsOf(plan.fresh) /\ excused \subseteq excused'
    /\ p \in doomed => Around(b) \cup RowsOf(CellsOf(plan.table)) \subseteq excused'
    /\ \A c \in Buckets : c # b => stage'[c] = stage[c] /\ used'[c] = used[c]
    /\ stage'[b] = [stage[b] EXCEPT ![g] = plan.table] /\ g \in DOMAIN stage[b]
    /\ used[b] \subseteq used'[b] /\ DOMAIN plan.table.rows \subseteq used'[b]
    /\ \A id \in DOMAIN plan.table.rows \ DOMAIN Visible(b).rows :
         id \in used[b] => plan.table.rows[id].row \in excused'

(* Prepare, by its effect on one bucket.                                  *)
LEMMA PrepareIs ==
    ASSUME Typed, NEW p \in Workers, NEW b \in Buckets, b = job[p].into, IdsUsed(b), Prepare(p)
    PROVE  \E plan, j : Prepared(p, b, job[p].gen, plan, j)
  <1>1. PICK g : g = job[p].gen
    OBVIOUS
  <1>2. PICK plan \in Plans(p, b) :
          /\ PrepareEffect(p, b, g, plan, DOMAIN plan.table.rows \ DOMAIN Visible(b).rows)
          /\ Becomes(p, "publish", [job[p] EXCEPT !.gone = plan.gone, !.fresh = plan.fresh])
    BY <1>1, PrepareTyped
  <1>3. PICK new, now : new = DOMAIN plan.table.rows \ DOMAIN now.rows /\ now = Visible(b)
    OBVIOUS
  <1>4. /\ PlanTyped(plan) /\ PlanKeeps(p, Visible(b), plan)
        /\ PlanAdds(p, Visible(b), plan)
        /\ ~Resolves(b) => CellsOf(plan.table) \subseteq ToSet(job[p].cells)
    BY PlansTyped DEF Prepare
  <1>5. PICK j : j = [job[p] EXCEPT !.gone = plan.gone, !.fresh = plan.fresh]
    OBVIOUS
  <1>6. Becomes(p, "publish", j)
    BY <1>2, <1>5
  <1>7. /\ SameRequest(p, j) /\ j.gen = g /\ j.gone = plan.gone /\ j.fresh = plan.fresh
    BY <1>1, <1>5, JobTyped DEF JobType, SameRequest
  <1>8. /\ stage' = [stage EXCEPT ![b] = [stage[b] EXCEPT ![g] = plan.table]]
        /\ used' = [used EXCEPT ![b] = used[b] \cup new]
        /\ UNCHANGED <<made, names, current, gens, kept, extra, doomed>>
        /\ born' = born \cup RowsOf(plan.fresh)
    BY <1>2, <1>3 DEF PrepareEffect
  <1>9. excused' = excused \cup {plan.table.rows[id].row : id \in new \cap used[b]}
                      \cup Endangered(p, RowsOf(CellsOf(plan.table)))
    BY <1>2, <1>3 DEF PrepareEffect
  <1>10. p \in doomed => Around(b) \cup RowsOf(CellsOf(plan.table)) \subseteq excused'
    BY <1>9 DEF Endangered
  <1>11. /\ excused \subseteq excused'
         /\ \A id \in DOMAIN plan.table.rows \ DOMAIN Visible(b).rows :
              id \in used[b] => plan.table.rows[id].row \in excused'
    BY <1>3, <1>9
  <1>12. /\ \A c \in Buckets : c # b => stage'[c] = stage[c] /\ used'[c] = used[c]
         /\ stage'[b] = [stage[b] EXCEPT ![g] = plan.table] /\ used'[b] = used[b] \cup new
    BY <1>8 DEF Typed, Domains
  <1>13. DOMAIN Visible(b).rows \subseteq used[b]
    BY NoTableTyped, VisibleTyped DEF Typed, IdsUsed
  <1>14. used[b] \subseteq used'[b] /\ DOMAIN plan.table.rows \subseteq used'[b]
    BY <1>3, <1>12, <1>13
  <1>15. g \in DOMAIN stage[b]
    BY <1>1 DEF Prepare
  <1>16. QED BY <1>1, <1>2, <1>4, <1>6, <1>7, <1>8, <1>10, <1>11, <1>12, <1>14, <1>15 DEF Prepared

(* What Prepare leaves alone, and that it keeps ids and published tables. *)
LEMMA PreparedFrame ==
    ASSUME Inv, Typed', Locks', NEW p \in Workers, NEW b \in Buckets, NEW g, NEW plan, NEW j,
           Prepared(p, b, g, plan, j), pc[p] = "prepare"
    PROVE  /\ \A c \in Buckets : Visible(c)' = Visible(c) /\ SameMovers(c) /\ SameDeleters(c)
           /\ \A c \in Buckets : c # b => SameRows(c) /\ SameWriters(c)
           /\ \A h \in Staged(b)' : \/ h = g /\ stage'[b][h] = plan.table
                                    \/ h \in Staged(b) /\ stage'[b][h] = stage[b][h]
           /\ pc'[p] = "publish" /\ job'[p] = j
           /\ \A q \in Workers : q # p => pc'[q] = pc[q] /\ job'[q] = job[q]
           /\ IdsUsed(b)' /\ PublishedStays(b)'
  <1>1. Typed
    BY DEF Inv
  <1>2. /\ Becomes(p, "publish", j) /\ SameRequest(p, j)
        /\ UNCHANGED <<made, names, current, gens, kept, doomed>>
        /\ excused \subseteq excused' /\ b = job[p].into
        /\ \A c \in Buckets : c # b => stage'[c] = stage[c] /\ used'[c] = used[c]
        /\ stage'[b] = [stage[b] EXCEPT ![g] = plan.table] /\ g \in DOMAIN stage[b]
        /\ used[b] \subseteq used'[b] /\ DOMAIN plan.table.rows \subseteq used'[b]
    BY DEF Prepared
  <1>3. \A c \in Buckets : Visible(c)' = Visible(c)
    BY <1>2 DEF Visible, Resolves
  <1>4. \A c \in Buckets : SameMovers(c) /\ SameDeleters(c)
    BY <1>1, <1>2, RequestsSame
  <1>5. ASSUME NEW c \in Buckets, c # b PROVE SameRows(c) /\ SameWriters(c)
    <2>1. SameWriters(c)
      BY <1>1, <1>2, <1>5, WritersElsewhere DEF SameRequest
    <2>2. SameRows(c)
      BY <1>2, <1>5 DEF SameRows, Staged
    <2>3. QED BY <2>1, <2>2
  <1>6. \A h \in Staged(b)' : \/ h = g /\ stage'[b][h] = plan.table
                              \/ h \in Staged(b) /\ stage'[b][h] = stage[b][h]
    BY <1>2 DEF Staged
  <1>7. /\ pc'[p] = "publish" /\ job'[p] = j
        /\ \A q \in Workers : q # p => pc'[q] = pc[q] /\ job'[q] = job[q]
    BY <1>1, <1>2, OthersSame
  <1>8. IdsUsed(b)'
    <2>1. IdsUsed(b)
      BY DEF Inv, BucketOK
    <2>2. \A h \in DOMAIN gens'[b] : DOMAIN gens'[b][h].rows \subseteq used'[b]
      BY <1>2, <2>1 DEF IdsUsed
    <2>3. \A h \in Staged(b)' : DOMAIN stage'[b][h].rows \subseteq used'[b]
      BY <1>2, <1>6, <2>1 DEF IdsUsed
    <2>4. DOMAIN Visible(b).rows \subseteq used[b]
      BY <1>1, <2>1, NoTableTyped, VisibleTyped DEF Typed, IdsUsed
    <2>5. \A m \in Movers(b)' : job'[m].ids \subseteq used'[b]
      BY <1>2, <1>4, <2>1, <2>4 DEF SameMovers, IdsUsed
    <2>6. QED BY <2>2, <2>3, <2>5 DEF IdsUsed
  <1>9. PublishedStays(b)'
    <2> SUFFICES ASSUME NEW q \in Reliable(b)', pc'[q] = "current" PROVE HasTable(q)'
      BY DEF PublishedStays
    <2>1. q # p /\ q \in Workers /\ pc[q] = "current" /\ job'[q] = job[q]
      BY <1>7 DEF Reliable, Writers
    <2>2. q \in Reliable(b)
      BY <1>2, <1>7, <2>1 DEF Reliable, Writers
    <2>3. HasTable(q)
      BY <2>1, <2>2 DEF Inv, BucketOK, PublishedStays
    <2>4. QED BY <1>2, <2>1, <2>3 DEF HasTable
  <1>10. QED BY <1>3, <1>4, <1>5, <1>6, <1>7, <1>8, <1>9

(* A writer that has lost its directory stages a table.                    *)
LEMMA PreparedDoomed ==
    ASSUME Inv, Typed', Locks', NEW p \in Workers, NEW b \in Buckets, NEW g, NEW plan, NEW j,
           Prepared(p, b, g, plan, j), pc[p] = "prepare", p \in doomed
    PROVE  /\ BucketOK(b)' /\ AllExcused(b)'
           /\ \A r \in kept' \ excused' : \A id : ~Safe(b, id, r)
  <1>1. Typed
    BY DEF Inv
  <1>2. /\ Around(b) \subseteq excused' /\ RowsOf(CellsOf(plan.table)) \subseteq excused'
        /\ UNCHANGED <<gens, doomed>>
    BY DEF Prepared
  <1>3. /\ \A h \in DOMAIN gens[b] : RowsOf(CellsOf(gens[b][h])) \subseteq excused'
        /\ \A h \in Staged(b) : RowsOf(CellsOf(stage[b][h])) \subseteq excused'
        /\ \A q \in Reliable(b) : /\ RowsOf(ToSet(job[q].cells)) \subseteq excused'
                                  /\ RowsOf(Adds(q)) \subseteq excused'
        /\ \A id \in DOMAIN Visible(b).rows : Visible(b).rows[id].row \in excused'
    BY <1>1, <1>2, DoomedEndanger
  <1>4. \A h \in Staged(b)' : \/ h = g /\ stage'[b][h] = plan.table
                              \/ h \in Staged(b) /\ stage'[b][h] = stage[b][h]
    BY PreparedFrame
  <1>5. \A q \in Workers : q # p => pc'[q] = pc[q] /\ job'[q] = job[q]
    BY PreparedFrame
  <1>6. IdsUsed(b)' /\ PublishedStays(b)'
    BY PreparedFrame
  <1>7. \A q \in Reliable(b)' : q \in Reliable(b) /\ job'[q] = job[q]
    BY <1>2, <1>5 DEF Reliable, Writers
  <1>8. \A q \in Reliable(b)' : RowsOf(Adds(q)') \subseteq excused'
    BY <1>3, <1>7 DEF Adds
  <1>9. \A q \in Reliable(b)' : RowsOf(ToSet(job'[q].cells)) \subseteq excused'
    BY <1>3, <1>7
  <1>10. /\ \A h \in DOMAIN gens'[b] : RowsOf(CellsOf(gens'[b][h])) \subseteq excused'
         /\ \A h \in Staged(b)' : RowsOf(CellsOf(stage'[b][h])) \subseteq excused'
    BY <1>2, <1>3, <1>4
  <1>11. AllExcused(b)'
    BY <1>8, <1>9, <1>10 DEF AllExcused
  <1>12. BucketOK(b)'
    BY <1>6, <1>11, ExcusedKeeps
  <1>13. QED BY <1>3, <1>11, <1>12 DEF Safe

(* The writer that holds the lock stages a table.                          *)
LEMMA PreparedReliable ==
    ASSUME Inv, Typed', Locks', NEW p \in Workers, NEW b \in Buckets, NEW g, NEW plan, NEW j,
           Prepared(p, b, g, plan, j), pc[p] = "prepare", p \notin doomed
    PROVE  /\ BucketOK(b)'
           /\ \A r \in kept' \ excused' : \A id : Safe(b, id, r) => Safe(b, id, r)'
  <1>1. Typed /\ Locks /\ BucketOK(b)
    BY DEF Inv
  <1>2. PICK T : T = plan.table
    OBVIOUS
  <1>3. /\ b = job[p].into /\ g = job[p].gen /\ excused \subseteq excused' /\ doomed' = doomed
        /\ gens' = gens /\ current' = current /\ names' = names
        /\ SameRequest(p, j) /\ j.gen = g /\ j.gone = plan.gone /\ j.fresh = plan.fresh
        /\ stage'[b] = [stage[b] EXCEPT ![g] = T] /\ g \in DOMAIN stage[b]
    BY <1>2 DEF Prepared
  <1>4. /\ PlanTyped(plan) /\ PlanKeeps(p, Visible(b), plan) /\ PlanAdds(p, Visible(b), plan)
        /\ ~Resolves(b) => CellsOf(T) \subseteq ToSet(job[p].cells)
        /\ \A id \in DOMAIN T.rows \ DOMAIN Visible(b).rows :
             id \in used[b] => T.rows[id].row \in excused'
    BY <1>2 DEF Prepared
  <1>5. Visible(b)' = Visible(b) /\ SameMovers(b) /\ SameDeleters(b)
    BY PreparedFrame
  <1>6. /\ pc'[p] = "publish" /\ job'[p] = j /\ IdsUsed(b)' /\ PublishedStays(b)'
        /\ \A q \in Workers : q # p => pc'[q] = pc[q] /\ job'[q] = job[q]
    BY PreparedFrame
  <1>7. p \in Reliable(b) /\ p \in Reliable(b)'
    BY <1>3, <1>6 DEF Reliable, Writers, Writing, SameRequest
  <1>8. Reliable(b) = {p} /\ Reliable(b)' = {p}
    <2>1. Reliable(b) = {p}
      BY <1>1, <1>7, OnlyWriter
    <2>2. \A q \in Reliable(b)' : q = p \/ q \in Reliable(b)
      BY <1>3, <1>6 DEF Reliable, Writers
    <2>3. QED BY <1>7, <2>1, <2>2
  <1>9. TableOf(p)' = T
    BY <1>3, <1>6 DEF TableOf, SameRequest
  <1>10. ASSUME NEW id \in DOMAIN T.rows, id \notin DOMAIN Visible(b).rows
         PROVE  T.rows[id].row \in excused' \/ Elsewhere(b, id)'
    <2>1. CASE id \in used[b]
      BY <1>4, <1>10, <2>1
    <2>2. CASE id \notin used[b]
      <3>1. \A m \in Movers(b) : id \notin job[m].ids
        BY <1>1, <2>2 DEF BucketOK, IdsUsed
      <3>2. Elsewhere(b, id)
        BY <1>10, <3>1 DEF Elsewhere
      <3>3. QED BY <1>5, <3>2, QuietElsewhere
    <2>3. QED BY <2>1, <2>2
  <1>11. Overtaken(b)'
    <2> SUFFICES ASSUME "CURRENT" \in names[b], current[b] = g
                 PROVE  /\ RowsOf(ToSet(j.cells)) \subseteq excused'
                        /\ HasTable(p)' => RowsOf(CellsOf(T)) \subseteq excused'
      BY <1>3, <1>6, <1>8, <1>9 DEF Overtaken
    <2>1. RowsOf(ToSet(job[p].cells)) \subseteq excused
      BY <1>1, <1>3, <1>7 DEF BucketOK, Overtaken
    <2>2. ASSUME HasTable(p)' PROVE RowsOf(CellsOf(T)) \subseteq excused'
      <3>1. g \notin DOMAIN gens[b]
        BY <1>3, <1>6, <2>2 DEF HasTable, Publishable, SameRequest
      <3>2. ~Resolves(b)
        BY <3>1 DEF Resolves
      <3>3. RowsOf(CellsOf(T)) \subseteq RowsOf(ToSet(job[p].cells))
        BY <1>4, <3>2 DEF RowsOf
      <3>4. QED BY <1>3, <2>1, <3>3
    <2>3. QED BY <1>3, <2>1, <2>2 DEF SameRequest
  <1>12. TableAgrees(b)'
    <2> SUFFICES ASSUME NEW id \in DOMAIN T.rows
                 PROVE  \/ T.rows[id].row \in excused'
                        \/ id \in DOMAIN Visible(b).rows /\ T.rows[id].row = Visible(b).rows[id].row
                        \/ Elsewhere(b, id)'
      BY <1>5, <1>8, <1>9 DEF TableAgrees
    <2>1. CASE id \in DOMAIN Visible(b).rows
      BY <1>2, <1>4, <2>1 DEF PlanKeeps
    <2>2. CASE id \notin DOMAIN Visible(b).rows
      BY <1>10, <2>2
    <2>3. QED BY <2>1, <2>2
  <1>13. TableHasNew(b)'
    <2>1. Adds(p)' = ToAdd(job[p], plan.fresh)
      BY <1>3, <1>6 DEF Adds, ToAdd, SameRequest
    <2> SUFFICES ASSUME j.gone = {}, NEW r \in RowsOf(ToAdd(job[p], plan.fresh))
                 PROVE  \/ r \in excused'
                        \/ \E id \in DOMAIN T.rows : T.rows[id].row = r /\ Elsewhere(b, id)'
      BY <1>6, <1>8, <1>9, <2>1 DEF TableHasNew
    <2>2. PICK id \in DOMAIN T.rows : id \notin DOMAIN Visible(b).rows /\ T.rows[id].row = r
      BY <1>2, <1>3, <1>4 DEF PlanAdds
    <2>3. QED BY <1>10, <2>2
  <1>14. MovedAreCarried(b)'
    <2> SUFFICES ASSUME NEW m \in Movers(b)', NEW id \in job'[m].ids, id \in DOMAIN Visible(b).rows
                 PROVE  Visible(b).rows[id].row \in RowsOf(ToSet(job'[m].cells)) \cup excused'
      BY <1>5 DEF MovedAreCarried
    <2>1. CASE m \in Movers(b) /\ job'[m].ids = job[m].ids /\ job'[m].cells = job[m].cells
      BY <1>1, <1>3, <2>1 DEF BucketOK, MovedAreCarried
    <2>2. CASE \A i \in job'[m].ids : Visible(b).rows[i] \in ToSet(job'[m].cells)
      BY <2>2 DEF RowsOf
    <2>3. QED BY <1>5, <2>1, <2>2 DEF SameMovers
  <1>15. BucketOK(b)'
    BY <1>6, <1>11, <1>12, <1>13, <1>14 DEF BucketOK
  <1>16. ASSUME NEW r, NEW id, Safe(b, id, r) PROVE Safe(b, id, r)'
    <2>1. id \in DOMAIN Visible(b).rows /\ Visible(b).rows[id].row = r /\ Spared(b, id)
      BY <1>16 DEF Safe
    <2>2. Spared(b, id)'
      BY <1>5, <2>1, SparedStill
    <2>3. ~(job[p].task = "delete" /\ id \in job[p].ids)
      BY <1>3, <2>1 DEF Spared
    <2>4. \/ id \in DOMAIN T.rows /\ T.rows[id].row = r
          \/ r \in RowsOf(plan.gone) \ RowsOf(plan.fresh)
      BY <1>2, <1>4, <2>1, <2>3 DEF PlanKeeps
    <2>5. KeepsCopy(p, id, r)'
      BY <1>3, <1>6, <1>9, <2>4 DEF KeepsCopy
    <2>6. QED BY <1>5, <1>8, <2>1, <2>2, <2>5 DEF Safe
  <1>17. QED BY <1>15, <1>16

(* Completing a staging directory keeps the invariant.                    *)
LEMMA PrepareSafe ==
    ASSUME Inv, Typed', Locks', NEW p \in Workers, Prepare(p)
    PROVE  Inv'
  <1>1. PICK b \in Buckets : b = job[p].into
    BY JobTyped DEF Inv, Prepare
  <1>2. pc[p] = "prepare"
    BY DEF Prepare
  <1>3. Typed /\ IdsUsed(b)
    BY DEF Inv, BucketOK
  <1>4. PICK g, plan, j : Prepared(p, b, g, plan, j)
    BY <1>1, <1>3, PrepareIs
  <1>5. /\ BucketOK(b)'
        /\ \A r \in kept' \ excused' : \A id : Safe(b, id, r) => Safe(b, id, r)'
    BY <1>2, <1>4, PreparedDoomed, PreparedReliable
  <1>6. \A c \in Buckets : SameMovers(c) /\ SameDeleters(c)
    BY <1>2, <1>4, PreparedFrame
  <1>7. \A c \in Buckets : c # b => SameRows(c) /\ SameWriters(c)
    BY <1>2, <1>4, PreparedFrame
  <1>8. \A c \in Buckets : BucketOK(c)'
    BY <1>3, <1>5, <1>6, <1>7, QuietKeeps DEF Quiet, Inv
  <1>9. kept' = kept /\ excused \subseteq excused'
    BY <1>4 DEF Prepared
  <1>10. KeptAreSafe'
    BY <1>5, <1>6, <1>7, <1>9, KeptOutside
  <1>11. QED BY <1>8, <1>10 DEF Inv

(* What Publish changes.                                                   *)
Published(p, b, g, t) ==
    /\ b = job[p].into /\ g = job[p].gen /\ t = stage[b][g] /\ pc[p] = "publish"
    /\ g \in Staged(b) /\ g \notin DOMAIN gens[b]
    /\ Becomes(p, "current", job[p])
    /\ UNCHANGED <<made, names, current, kept, used, doomed>>
    /\ excused \subseteq excused' /\ (p \in doomed => Around(b) \subseteq excused')
    /\ \A c \in Buckets : c # b => stage'[c] = stage[c] /\ gens'[c] = gens[c]
    /\ gens'[b] = Put(gens[b], g, t) /\ stage'[b] = Without(stage[b], g)

(* Publish, by its effect on one bucket.                                  *)
LEMMA PublishIs ==
    ASSUME Typed, NEW p \in Workers, NEW b \in Buckets, b = job[p].into, Publish(p)
    PROVE  \E g, t : Published(p, b, g, t)
  <1>1. PICK g, t : g = job[p].gen /\ t = stage[b][g]
    OBVIOUS
  <1>2. /\ pc[p] = "publish" /\ Publishable(p)
        /\ gens' = [gens EXCEPT ![b] = Put(gens[b], g, t)]
        /\ stage' = [stage EXCEPT ![b] = Without(stage[b], g)]
        /\ UNCHANGED <<made, names, current, kept, used, doomed>>
        /\ excused' = excused \cup Endangered(p, {})
    BY <1>1 DEF Publish
  <1>3. g \in Staged(b) /\ g \notin DOMAIN gens[b]
    BY <1>1, <1>2 DEF Publishable, Staged
  <1>4. /\ \A c \in Buckets : c # b => stage'[c] = stage[c] /\ gens'[c] = gens[c]
        /\ gens'[b] = Put(gens[b], g, t) /\ stage'[b] = Without(stage[b], g)
    BY <1>2 DEF Typed, Domains
  <1>5. p \in doomed => Around(b) \subseteq excused'
    BY <1>2 DEF Endangered
  <1>6. Becomes(p, "current", job[p])
    BY PublishTyped
  <1>7. QED BY <1>1, <1>2, <1>3, <1>4, <1>5, <1>6 DEF Published

(* What Publish leaves alone.                                             *)
LEMMA PublishedFrame ==
    ASSUME Inv, Typed', Locks', NEW p \in Workers, NEW b \in Buckets, NEW g, NEW t,
           Published(p, b, g, t)
    PROVE  /\ \A c \in Buckets : SameMovers(c) /\ SameDeleters(c)
           /\ \A c \in Buckets : c # b => SameRows(c) /\ SameWriters(c)
           /\ \A h \in Staged(b)' : h \in Staged(b) /\ stage'[b][h] = stage[b][h]
           /\ \A h \in DOMAIN gens'[b] :
                \/ h = g /\ gens'[b][h] = t
                \/ h # g /\ h \in DOMAIN gens[b] /\ gens'[b][h] = gens[b][h]
           /\ \A h \in DOMAIN gens[b] : h \in DOMAIN gens'[b] /\ gens'[b][h] = gens[b][h]
           /\ g \in DOMAIN gens'[b] /\ gens'[b][g] = t
           /\ pc'[p] = "current" /\ job' = job
           /\ \A q \in Workers : q # p => pc'[q] = pc[q]
           /\ PublishedStays(b)'
  <1>1. Typed
    BY DEF Inv
  <1>2. /\ b = job[p].into /\ g = job[p].gen /\ g \notin DOMAIN gens[b]
        /\ Becomes(p, "current", job[p])
        /\ UNCHANGED <<made, names, current, kept, used, doomed>> /\ excused \subseteq excused'
        /\ \A c \in Buckets : c # b => stage'[c] = stage[c] /\ gens'[c] = gens[c]
        /\ gens'[b] = Put(gens[b], g, t) /\ stage'[b] = Without(stage[b], g)
    BY DEF Published
  <1>3. \A c \in Buckets : SameMovers(c) /\ SameDeleters(c)
    BY <1>1, <1>2, RequestsSame DEF SameRequest
  <1>4. ASSUME NEW c \in Buckets, c # b PROVE SameRows(c) /\ SameWriters(c)
    <2>1. SameWriters(c)
      BY <1>1, <1>2, <1>4, WritersElsewhere
    <2>2. SameRows(c)
      BY <1>2, <1>4 DEF SameRows, Staged
    <2>3. QED BY <2>1, <2>2
  <1>5. \A h \in Staged(b)' : h \in Staged(b) /\ stage'[b][h] = stage[b][h]
    BY <1>2 DEF Staged, Without
  <1>6. /\ \A h \in DOMAIN gens'[b] : \/ h = g /\ gens'[b][h] = t
                                      \/ h # g /\ h \in DOMAIN gens[b] /\ gens'[b][h] = gens[b][h]
        /\ \A h \in DOMAIN gens[b] : h \in DOMAIN gens'[b] /\ gens'[b][h] = gens[b][h]
        /\ g \in DOMAIN gens'[b] /\ gens'[b][g] = t
    BY <1>2 DEF Put
  <1>7. /\ pc'[p] = "current" /\ job' = job /\ \A q \in Workers : q # p => pc'[q] = pc[q]
    BY <1>1, <1>2 DEF Becomes, Typed, JobsTyped
  <1>8. PublishedStays(b)'
    <2> SUFFICES ASSUME NEW q \in Reliable(b)', pc'[q] = "current" PROVE HasTable(q)'
      BY DEF PublishedStays
    <2>1. q \in Workers /\ job[q].into = b
      BY <1>7 DEF Reliable, Writers
    <2>2. CASE q = p
      BY <1>2, <1>6, <1>7, <2>2 DEF HasTable
    <2>3. CASE q # p
      <3>1. q \in Reliable(b) /\ pc[q] = "current"
        BY <1>2, <1>7, <2>3 DEF Reliable, Writers
      <3>2. job[q].gen \in DOMAIN gens[b]
        BY <2>1, <3>1 DEF Inv, BucketOK, PublishedStays, HasTable
      <3>3. QED BY <1>6, <1>7, <2>1, <3>1, <3>2 DEF HasTable
    <2>4. QED BY <2>2, <2>3
  <1>9. QED BY <1>3, <1>4, <1>5, <1>6, <1>7, <1>8

(* The ids of what is published were used when it was staged.              *)
LEMMA PublishedIds ==
    ASSUME Inv, Typed', Locks', NEW p \in Workers, NEW b \in Buckets, NEW g, NEW t,
           Published(p, b, g, t)
    PROVE  IdsUsed(b)'
  <1>1. IdsUsed(b) /\ Typed
    BY DEF Inv, BucketOK
  <1>2. g \in Staged(b) /\ t = stage[b][g] /\ used' = used
    BY DEF Published
  <1>3. /\ SameMovers(b)
        /\ \A h \in Staged(b)' : h \in Staged(b) /\ stage'[b][h] = stage[b][h]
        /\ \A h \in DOMAIN gens'[b] : \/ h = g /\ gens'[b][h] = t
                                      \/ h # g /\ h \in DOMAIN gens[b] /\ gens'[b][h] = gens[b][h]
    BY PublishedFrame
  <1>4. DOMAIN Visible(b).rows \subseteq used[b]
    BY <1>1, NoTableTyped, VisibleTyped DEF Typed, IdsUsed
  <1>5. \A h \in DOMAIN gens'[b] : DOMAIN gens'[b][h].rows \subseteq used'[b]
    BY <1>1, <1>2, <1>3 DEF IdsUsed
  <1>6. \A h \in Staged(b)' : DOMAIN stage'[b][h].rows \subseteq used'[b]
    BY <1>1, <1>2, <1>3 DEF IdsUsed
  <1>7. \A m \in Movers(b)' : job'[m].ids \subseteq used'[b]
    BY <1>1, <1>2, <1>3, <1>4 DEF SameMovers, IdsUsed
  <1>8. QED BY <1>5, <1>6, <1>7 DEF IdsUsed

\* A writer that publishes after its directory was removed endangers the whole bucket.
LEMMA PublishedDoomed ==
    ASSUME Inv, Typed', Locks', NEW p \in Workers, NEW b \in Buckets, NEW g, NEW t,
           Published(p, b, g, t), p \in doomed
    PROVE  /\ BucketOK(b)' /\ AllExcused(b)'
           /\ \A r \in kept' \ excused' : \A id : ~Safe(b, id, r)
  <1>1. Typed
    BY DEF Inv
  <1>2. /\ Around(b) \subseteq excused' /\ doomed' = doomed
        /\ g \in Staged(b) /\ t = stage[b][g]
    BY DEF Published
  <1>3. /\ \A h \in DOMAIN gens[b] : RowsOf(CellsOf(gens[b][h])) \subseteq excused'
        /\ \A h \in Staged(b) : RowsOf(CellsOf(stage[b][h])) \subseteq excused'
        /\ \A q \in Reliable(b) : /\ RowsOf(ToSet(job[q].cells)) \subseteq excused'
                                  /\ RowsOf(Adds(q)) \subseteq excused'
        /\ \A id \in DOMAIN Visible(b).rows : Visible(b).rows[id].row \in excused'
    BY <1>1, <1>2, DoomedEndanger
  <1>4. /\ \A h \in Staged(b)' : h \in Staged(b) /\ stage'[b][h] = stage[b][h]
        /\ \A h \in DOMAIN gens'[b] : \/ h = g /\ gens'[b][h] = t
                                      \/ h # g /\ h \in DOMAIN gens[b] /\ gens'[b][h] = gens[b][h]
        /\ job' = job /\ \A q \in Workers : q # p => pc'[q] = pc[q]
    BY PublishedFrame
  <1>5. IdsUsed(b)' /\ PublishedStays(b)'
    BY PublishedIds, PublishedFrame
  <1>6. \A q \in Reliable(b)' : q \in Reliable(b)
    BY <1>2, <1>4 DEF Reliable, Writers
  <1>7. \A q \in Reliable(b)' : /\ RowsOf(Adds(q)') \subseteq excused'
                                /\ RowsOf(ToSet(job'[q].cells)) \subseteq excused'
    BY <1>3, <1>4, <1>6 DEF Adds
  <1>8. /\ \A h \in DOMAIN gens'[b] : RowsOf(CellsOf(gens'[b][h])) \subseteq excused'
        /\ \A h \in Staged(b)' : RowsOf(CellsOf(stage'[b][h])) \subseteq excused'
    BY <1>2, <1>3, <1>4
  <1>9. AllExcused(b)'
    BY <1>7, <1>8 DEF AllExcused
  <1>10. BucketOK(b)'
    BY <1>5, <1>9, ExcusedKeeps
  <1>11. QED BY <1>3, <1>9, <1>10 DEF Safe

(* The writer that holds the lock publishes what CURRENT does not name.    *)
LEMMA PublishedUnseen ==
    ASSUME Inv, Typed', Locks', NEW p \in Workers, NEW b \in Buckets, NEW g, NEW t,
           Published(p, b, g, t), p \notin doomed, ~("CURRENT" \in names[b] /\ current[b] = g)
    PROVE  /\ BucketOK(b)'
           /\ \A r : \A id : Safe(b, id, r) => Safe(b, id, r)'
  <1>1. Typed /\ Locks /\ BucketOK(b)
    BY DEF Inv
  <1>2. /\ b = job[p].into /\ g = job[p].gen /\ t = stage[b][g] /\ pc[p] = "publish"
        /\ g \in Staged(b) /\ g \notin DOMAIN gens[b] /\ doomed' = doomed
        /\ UNCHANGED <<made, names, current>> /\ excused \subseteq excused'
    BY DEF Published
  <1>3. /\ SameMovers(b) /\ SameDeleters(b)
        /\ \A h \in DOMAIN gens'[b] : \/ h = g /\ gens'[b][h] = t
                                      \/ h # g /\ h \in DOMAIN gens[b] /\ gens'[b][h] = gens[b][h]
        /\ \A h \in DOMAIN gens[b] : h \in DOMAIN gens'[b] /\ gens'[b][h] = gens[b][h]
        /\ g \in DOMAIN gens'[b] /\ gens'[b][g] = t
        /\ pc'[p] = "current" /\ job' = job /\ \A q \in Workers : q # p => pc'[q] = pc[q]
    BY PublishedFrame
  <1>4. p \in Reliable(b) /\ p \in Reliable(b)'
    BY <1>2, <1>3 DEF Reliable, Writers, Writing
  <1>5. Reliable(b) = {p} /\ Reliable(b)' = {p}
    <2>1. Reliable(b) = {p}
      BY <1>1, <1>4, OnlyWriter
    <2>2. \A q \in Reliable(b)' : q = p \/ q \in Reliable(b)
      BY <1>2, <1>3 DEF Reliable, Writers
    <2>3. QED BY <1>4, <2>1, <2>2
  <1>6. HasTable(p) /\ TableOf(p) = t /\ TableOf(p)' = t
    BY <1>2, <1>3 DEF HasTable, TableOf, Publishable, Staged
  <1>7. Visible(b)' = Visible(b)
    BY <1>2, <1>3 DEF Visible, Resolves
  <1>8. \A id : Elsewhere(b, id) => Elsewhere(b, id)'
    BY <1>3, <1>7, QuietElsewhere
  <1>9. Overtaken(b)'
    BY <1>2, <1>3, <1>5 DEF Overtaken
  <1>10. TableAgrees(b)'
    BY <1>1, <1>2, <1>5, <1>6, <1>7, <1>8 DEF TableAgrees, BucketOK
  <1>11. TableHasNew(b)'
    <2>1. Adds(p)' = Adds(p)
      BY <1>3 DEF Adds
    <2>2. QED BY <1>1, <1>2, <1>3, <1>5, <1>6, <1>8, <2>1 DEF TableHasNew, BucketOK
  <1>12. MovedAreCarried(b)'
    <2>1. Movers(b)' = Movers(b)
      BY <1>3 DEF Movers
    <2>2. QED BY <1>1, <1>2, <1>3, <1>7, <2>1 DEF MovedAreCarried, BucketOK
  <1>13. IdsUsed(b)' /\ PublishedStays(b)'
    BY PublishedIds, PublishedFrame
  <1>14. BucketOK(b)'
    BY <1>9, <1>10, <1>11, <1>12, <1>13 DEF BucketOK
  <1>15. ASSUME NEW r, NEW id, Safe(b, id, r) PROVE Safe(b, id, r)'
    <2>1. Spared(b, id)'
      BY <1>3, <1>15, SparedStill DEF Safe
    <2>2. KeepsCopy(p, id, r)
      BY <1>5, <1>6, <1>15 DEF Safe
    <2>3. KeepsCopy(p, id, r)'
      BY <1>3, <1>6, <2>2 DEF KeepsCopy
    <2>4. QED BY <1>5, <1>7, <1>15, <2>1, <2>3 DEF Safe
  <1>16. QED BY <1>14, <1>15

(* Somebody who had lost the directory has made CURRENT name the number of *)
(* this generation: the bucket resolves again, but nothing in it counts.   *)
LEMMA PublishedOvertaken ==
    ASSUME Inv, Typed', Locks', NEW p \in Workers, NEW b \in Buckets, NEW g, NEW t,
           Published(p, b, g, t), p \notin doomed, "CURRENT" \in names[b], current[b] = g
    PROVE  BucketOK(b)' /\ \A r : \A id : ~Safe(b, id, r)
  <1>1. Typed /\ Locks /\ BucketOK(b)
    BY DEF Inv
  <1>2. /\ b = job[p].into /\ g = job[p].gen /\ t = stage[b][g] /\ pc[p] = "publish"
        /\ g \in Staged(b) /\ g \notin DOMAIN gens[b] /\ doomed' = doomed
        /\ UNCHANGED <<made, names, current>> /\ excused \subseteq excused'
    BY DEF Published
  <1>3. /\ SameMovers(b)
        /\ g \in DOMAIN gens'[b] /\ gens'[b][g] = t
        /\ pc'[p] = "current" /\ job' = job /\ \A q \in Workers : q # p => pc'[q] = pc[q]
    BY PublishedFrame
  <1>4. p \in Reliable(b) /\ p \in Reliable(b)'
    BY <1>2, <1>3 DEF Reliable, Writers, Writing
  <1>5. Reliable(b) = {p} /\ Reliable(b)' = {p}
    <2>1. Reliable(b) = {p}
      BY <1>1, <1>4, OnlyWriter
    <2>2. \A q \in Reliable(b)' : q = p \/ q \in Reliable(b)
      BY <1>2, <1>3 DEF Reliable, Writers
    <2>3. QED BY <1>4, <2>1, <2>2
  <1>6. HasTable(p) /\ TableOf(p) = t /\ TableOf(p)' = t
    BY <1>2, <1>3 DEF HasTable, TableOf, Publishable, Staged
  <1>7. /\ RowsOf(ToSet(job[p].cells)) \subseteq excused
        /\ RowsOf(CellsOf(t)) \subseteq excused
    BY <1>1, <1>2, <1>4, <1>6 DEF BucketOK, Overtaken
  <1>8. \A id \in DOMAIN t.rows : t.rows[id].row \in RowsOf(CellsOf(t))
    BY DEF RowsOf, CellsOf
  <1>9. Visible(b)' = t \/ Visible(b)' = NoTable
    BY <1>2, <1>3 DEF Visible, Resolves
  <1>10. Overtaken(b)'
    BY <1>2, <1>3, <1>5, <1>6, <1>7 DEF Overtaken
  <1>11. TableAgrees(b)'
    BY <1>2, <1>5, <1>6, <1>7, <1>8 DEF TableAgrees
  <1>12. TableHasNew(b)'
    <2>1. Adds(p)' = Adds(p)
      BY <1>3 DEF Adds
    <2>2. job[p].gone = {} => RowsOf(Adds(p)) \subseteq excused
      BY <1>1, <1>4, <1>6, <1>7, <1>8 DEF TableHasNew, BucketOK
    <2>3. QED BY <1>2, <1>3, <1>5, <2>1, <2>2 DEF TableHasNew
  <1>13. MovedAreCarried(b)'
    BY <1>2, <1>7, <1>8, <1>9, NoTableTyped DEF MovedAreCarried
  <1>14. IdsUsed(b)' /\ PublishedStays(b)'
    BY PublishedIds, PublishedFrame
  <1>15. BucketOK(b)'
    BY <1>10, <1>11, <1>12, <1>13, <1>14 DEF BucketOK
  <1>16. Visible(b) = NoTable
    BY <1>2 DEF Visible, Resolves
  <1>17. QED BY <1>15, <1>16, NoTableTyped DEF Safe

(* The rename keeps the invariant.                                        *)
LEMMA PublishSafe ==
    ASSUME Inv, Typed', Locks', NEW p \in Workers, Publish(p)
    PROVE  Inv'
  <1>1. PICK b \in Buckets : b = job[p].into
    BY JobTyped DEF Inv, Publish
  <1>2. Typed
    BY DEF Inv
  <1>3. PICK g, t : Published(p, b, g, t)
    BY <1>1, <1>2, PublishIs
  <1>4. /\ BucketOK(b)'
        /\ \A r \in kept' \ excused' : \A id : Safe(b, id, r) => Safe(b, id, r)'
    BY <1>3, PublishedDoomed, PublishedUnseen, PublishedOvertaken
  <1>5. \A c \in Buckets : SameMovers(c) /\ SameDeleters(c)
    BY <1>3, PublishedFrame
  <1>6. \A c \in Buckets : c # b => SameRows(c) /\ SameWriters(c)
    BY <1>3, PublishedFrame
  <1>7. \A c \in Buckets : BucketOK(c)'
    BY <1>2, <1>4, <1>5, <1>6, QuietKeeps DEF Quiet, Inv
  <1>8. kept' = kept /\ excused \subseteq excused'
    BY <1>3 DEF Published
  <1>9. KeptAreSafe'
    BY <1>4, <1>5, <1>6, <1>8, KeptOutside
  <1>10. QED BY <1>7, <1>9 DEF Inv

(* What WriteCurrent changes.  A move turns to the deletion in its source. *)
TurnsTo(p, b, at, j) ==
    \/ at = "idle" /\ j = IdleJob
    \/ /\ at = "begin" /\ job[p].kind = "move" /\ job[p].task # "delete"
       /\ \E s \in Buckets : job[p].from = {s} /\ s # b /\ j = Deletion(job[p], s)

Written(p, b, g, at, j) ==
    /\ b = job[p].into /\ g = job[p].gen /\ pc[p] = "current"
    /\ Becomes(p, at, j) /\ TurnsTo(p, b, at, j)
    /\ UNCHANGED <<gens, stage, used>> /\ doomed' = doomed \ {p}
    /\ "CURRENT" \in names'[b] /\ current'[b] = g
    /\ \A c \in Buckets : c # b => names'[c] = names[c] /\ current'[c] = current[c]
    /\ excused \subseteq excused' /\ (p \in doomed => Around(b) \subseteq excused')
    /\ kept' = Acknowledged(p)

(* WriteCurrent, by its effect on one bucket.                             *)
LEMMA WriteIs ==
    ASSUME Typed, NEW p \in Workers, NEW b \in Buckets, b = job[p].into, WriteCurrent(p)
    PROVE  \E g, at, j : Written(p, b, g, at, j)
  <1>1. PICK g : g = job[p].gen
    OBVIOUS
  <1>2. /\ pc[p] = "current" /\ UNCHANGED <<gens, stage, used>> /\ doomed' = doomed \ {p}
        /\ names' = [names EXCEPT ![b] = @ \cup {"CURRENT"}]
        /\ current' = [current EXCEPT ![b] = g]
        /\ excused' = excused \cup Endangered(p, {}) /\ kept' = Acknowledged(p)
    BY <1>1 DEF WriteCurrent
  <1>3. /\ "CURRENT" \in names'[b] /\ current'[b] = g
        /\ \A c \in Buckets : c # b => names'[c] = names[c] /\ current'[c] = current[c]
    BY <1>2 DEF Typed, Domains
  <1>4. excused \subseteq excused' /\ (p \in doomed => Around(b) \subseteq excused')
    BY <1>2 DEF Endangered
  <1>5. \E at, j : Becomes(p, at, j) /\ TurnsTo(p, b, at, j)
    BY WriteTyped DEF TurnsTo
  <1>6. QED BY <1>1, <1>2, <1>3, <1>4, <1>5 DEF Written

(* A move's second transaction is about the same rows.                    *)
LEMMA DeletionFields ==
    ASSUME Typed, NEW p \in Workers, NEW s
    PROVE  /\ Deletion(job[p], s).kind = job[p].kind /\ Deletion(job[p], s).from = job[p].from
           /\ Deletion(job[p], s).ids = job[p].ids /\ Deletion(job[p], s).cells = job[p].cells
           /\ Deletion(job[p], s).task = "delete" /\ Deletion(job[p], s).into = s
  BY JobTyped DEF Deletion, JobType

\* What WriteCurrent leaves alone, and the table the bucket shows afterwards.
LEMMA WrittenFrame ==
    ASSUME Inv, Typed', Locks', NEW p \in Workers, NEW b \in Buckets, NEW g, NEW at, NEW j,
           Written(p, b, g, at, j)
    PROVE  /\ pc'[p] = at /\ job'[p] = j /\ at \notin Writing
           /\ \A q \in Workers : q # p => pc'[q] = pc[q] /\ job'[q] = job[q]
           /\ \A c \in Buckets : c # b => SameRows(c) /\ SameWriters(c)
           /\ \A c \in Buckets : \A m \in Movers(c)' :
                m \in Movers(c) /\ job'[m].ids = job[m].ids /\ job'[m].cells = job[m].cells
           /\ IdsUsed(b)'
           /\ Visible(b)' = IF g \in DOMAIN gens[b] THEN gens[b][g] ELSE NoTable
  <1>1. Typed
    BY DEF Inv
  <1>2. /\ b = job[p].into /\ Becomes(p, at, j) /\ TurnsTo(p, b, at, j)
        /\ UNCHANGED <<gens, stage, used>> /\ doomed' = doomed \ {p}
        /\ "CURRENT" \in names'[b] /\ current'[b] = g
        /\ \A c \in Buckets : c # b => names'[c] = names[c] /\ current'[c] = current[c]
        /\ excused \subseteq excused'
    BY DEF Written
  <1>3. at \notin Writing
    BY <1>2 DEF TurnsTo, Writing
  <1>4. /\ pc'[p] = at /\ job'[p] = j
        /\ \A q \in Workers : q # p => pc'[q] = pc[q] /\ job'[q] = job[q]
    BY <1>1, <1>2, OthersSame
  <1>5. ASSUME NEW c \in Buckets, c # b PROVE SameRows(c) /\ SameWriters(c)
    <2>1. SameWriters(c)
      BY <1>1, <1>2, <1>3, <1>5, WritersElsewhere
    <2>2. SameRows(c)
      BY <1>2, <1>5 DEF SameRows, Staged
    <2>3. QED BY <2>1, <2>2
  <1>6. ASSUME NEW c \in Buckets, NEW m \in Movers(c)'
        PROVE  m \in Movers(c) /\ job'[m].ids = job[m].ids /\ job'[m].cells = job[m].cells
    <2>1. m \in Workers /\ job'[m].kind = "move" /\ job'[m].from = {c}
      BY DEF Movers
    <2>2. CASE m # p
      BY <1>4, <2>1, <2>2 DEF Movers
    <2>3. CASE m = p
      <3>1. PICK s : j = Deletion(job[p], s)
        BY <1>2, <1>4, <2>1, <2>3, IdleTask DEF TurnsTo
      <3>2. /\ j.kind = job[p].kind /\ j.from = job[p].from
            /\ j.ids = job[p].ids /\ j.cells = job[p].cells
        BY <1>1, <3>1, DeletionFields
      <3>3. QED BY <1>4, <2>1, <2>3, <3>2 DEF Movers
    <2>4. QED BY <2>2, <2>3
  <1>7. IdsUsed(b)'
    <2>1. IdsUsed(b)
      BY DEF Inv, BucketOK
    <2>2. Staged(b)' = Staged(b)
      BY <1>2 DEF Staged
    <2>3. \A m \in Movers(b)' : job'[m].ids \subseteq used'[b]
      BY <1>2, <1>6, <2>1 DEF IdsUsed
    <2>4. QED BY <1>2, <2>1, <2>2, <2>3 DEF IdsUsed
  <1>8. Visible(b)' = IF g \in DOMAIN gens[b] THEN gens[b][g] ELSE NoTable
    <2>1. Resolves(b)' <=> g \in DOMAIN gens[b]
      BY <1>2 DEF Typed, DirectoryTyped, Resolves
    <2>2. QED BY <1>2, <2>1 DEF Visible
  <1>9. QED BY <1>3, <1>4, <1>5, <1>6, <1>7, <1>8

\* A writer that replaces CURRENT after its directory was removed endangers the whole bucket.
LEMMA WrittenDoomed ==
    ASSUME Inv, Typed', Locks', NEW p \in Workers, NEW b \in Buckets, NEW g, NEW at, NEW j,
           Written(p, b, g, at, j), p \in doomed
    PROVE  /\ BucketOK(b)' /\ AllExcused(b)'
           /\ \A r \in kept' \ excused' : \A id : ~Safe(b, id, r)
  <1>1. Typed
    BY DEF Inv
  <1>2. /\ Around(b) \subseteq excused' /\ doomed' = doomed \ {p} /\ UNCHANGED <<gens, stage>>
    BY DEF Written
  <1>3. /\ \A h \in DOMAIN gens[b] : RowsOf(CellsOf(gens[b][h])) \subseteq excused'
        /\ \A h \in Staged(b) : RowsOf(CellsOf(stage[b][h])) \subseteq excused'
        /\ \A q \in Reliable(b) : /\ RowsOf(ToSet(job[q].cells)) \subseteq excused'
                                  /\ RowsOf(Adds(q)) \subseteq excused'
        /\ \A id \in DOMAIN Visible(b).rows : Visible(b).rows[id].row \in excused'
    BY <1>1, <1>2, DoomedEndanger
  <1>4. /\ pc'[p] = at /\ at \notin Writing /\ IdsUsed(b)'
        /\ \A q \in Workers : q # p => pc'[q] = pc[q] /\ job'[q] = job[q]
    BY WrittenFrame
  <1>5. \A q \in Reliable(b)' : q \in Reliable(b) /\ pc'[q] = pc[q] /\ job'[q] = job[q]
    BY <1>2, <1>4 DEF Reliable, Writers
  <1>6. \A q \in Reliable(b)' : /\ RowsOf(Adds(q)') \subseteq excused'
                                /\ RowsOf(ToSet(job'[q].cells)) \subseteq excused'
    BY <1>3, <1>5 DEF Adds
  <1>7. Staged(b)' = Staged(b)
    BY <1>2 DEF Staged
  <1>8. AllExcused(b)'
    BY <1>2, <1>3, <1>6, <1>7 DEF AllExcused
  <1>9. PublishedStays(b)'
    <2> SUFFICES ASSUME NEW q \in Reliable(b)', pc'[q] = "current" PROVE HasTable(q)'
      BY DEF PublishedStays
    <2>1. q \in Reliable(b) /\ pc[q] = "current" /\ job'[q] = job[q]
      BY <1>5
    <2>2. HasTable(q)
      BY <2>1 DEF Inv, BucketOK, PublishedStays
    <2>3. QED BY <1>2, <2>1, <2>2 DEF HasTable
  <1>10. BucketOK(b)'
    BY <1>4, <1>8, <1>9, ExcusedKeeps
  <1>11. QED BY <1>3, <1>8, <1>10 DEF Safe

(* The writer that holds the lock makes its table the visible one.         *)
LEMMA WrittenReliable ==
    ASSUME Inv, Typed', Locks', NEW p \in Workers, NEW b \in Buckets, NEW g, NEW at, NEW j,
           Written(p, b, g, at, j), p \notin doomed
    PROVE  /\ BucketOK(b)' /\ Reliable(b)' = {} /\ Reliable(b) = {p} /\ HasTable(p)
           /\ Visible(b)' = TableOf(p)
  <1>1. Typed /\ Locks /\ BucketOK(b)
    BY DEF Inv
  <1>2. /\ b = job[p].into /\ g = job[p].gen /\ pc[p] = "current" /\ doomed' = doomed \ {p}
        /\ excused \subseteq excused'
    BY DEF Written
  <1>3. /\ pc'[p] = at /\ at \notin Writing /\ IdsUsed(b)'
        /\ \A q \in Workers : q # p => pc'[q] = pc[q] /\ job'[q] = job[q]
        /\ \A m \in Movers(b)' :
             m \in Movers(b) /\ job'[m].ids = job[m].ids /\ job'[m].cells = job[m].cells
        /\ Visible(b)' = IF g \in DOMAIN gens[b] THEN gens[b][g] ELSE NoTable
    BY WrittenFrame
  <1>4. p \in Reliable(b)
    BY <1>2 DEF Reliable, Writers, Writing
  <1>5. Reliable(b) = {p}
    BY <1>1, <1>4, OnlyWriter
  <1>6. Reliable(b)' = {}
    <2>1. \A q \in Reliable(b)' : q # p /\ q \in Reliable(b)
      BY <1>2, <1>3 DEF Reliable, Writers
    <2>2. QED BY <1>5, <2>1
  <1>7. HasTable(p)
    BY <1>1, <1>2, <1>4 DEF BucketOK, PublishedStays
  <1>8. Visible(b)' = TableOf(p)
    BY <1>2, <1>3, <1>7 DEF HasTable, TableOf
  <1>9. ASSUME NEW m \in Movers(b)', NEW id \in job'[m].ids, id \in DOMAIN Visible(b)'.rows
        PROVE  Visible(b)'.rows[id].row \in RowsOf(ToSet(job'[m].cells)) \cup excused'
    <2>1. m \in Movers(b) /\ id \in job[m].ids /\ job'[m].cells = job[m].cells
      BY <1>3, <1>9
    <2>2. \/ TableOf(p).rows[id].row \in excused
          \/ id \in DOMAIN Visible(b).rows /\ TableOf(p).rows[id].row = Visible(b).rows[id].row
          \/ Elsewhere(b, id)
      BY <1>1, <1>4, <1>7, <1>8, <1>9 DEF BucketOK, TableAgrees
    <2>3. ~Elsewhere(b, id)
      BY <2>1 DEF Elsewhere
    <2>4. id \in DOMAIN Visible(b).rows =>
            Visible(b).rows[id].row \in RowsOf(ToSet(job[m].cells)) \cup excused
      BY <1>1, <2>1 DEF BucketOK, MovedAreCarried
    <2>5. QED BY <1>2, <1>8, <2>1, <2>2, <2>3, <2>4
  <1>10. MovedAreCarried(b)'
    BY <1>9 DEF MovedAreCarried
  <1>11. PublishedStays(b)' /\ Overtaken(b)' /\ TableAgrees(b)' /\ TableHasNew(b)'
    BY <1>6 DEF PublishedStays, Overtaken, TableAgrees, TableHasNew
  <1>12. BucketOK(b)'
    BY <1>3, <1>10, <1>11 DEF BucketOK
  <1>13. QED BY <1>5, <1>6, <1>7, <1>8, <1>12

(* The rows a request brings are among those it adds.                      *)
LEMMA FreshAdded ==
    ASSUME Typed, NEW p \in Workers
    PROVE  RowsOf(job[p].fresh) \subseteq RowsOf(Adds(p))
  <1>1. Shape(pc[p], job[p])
    BY JobTyped
  <1>2. job[p].task \in {"insert", "initial"} => job[p].fresh \subseteq ToSet(job[p].cells)
    BY <1>1 DEF Shape
  <1>3. QED BY <1>2 DEF Adds, ToAdd, RowsOf

\* Who deletes rows of a bucket as the end of a move is moving rows out of it.
LEMMA DeleterMoves ==
    ASSUME Typed, NEW m \in Workers, NEW b \in Buckets, job[m].task = "delete", job[m].into = b
    PROVE  m \in Movers(b)
  <1>1. Shape(pc[m], job[m])
    BY JobTyped
  <1>2. QED BY <1>1 DEF Shape, Movers

(* Which deletions are under way after WriteCurrent.                       *)
LEMMA WrittenDeleters ==
    ASSUME Inv, Typed', Locks', NEW p \in Workers, NEW b \in Buckets, NEW g, NEW at, NEW j,
           Written(p, b, g, at, j), NEW c \in Buckets, NEW id
    PROVE  /\ Spared(b, id) \/ Elsewhere(b, id) => Spared(b, id)'
           /\ Spared(c, id) /\ ~(Spared(c, id)') =>
                /\ c # b /\ job[p].kind = "move" /\ job[p].task # "delete"
                /\ p \in Movers(c) /\ id \in job[p].ids
  <1>1. Typed
    BY DEF Inv
  <1>2. b = job[p].into /\ TurnsTo(p, b, at, j)
    BY DEF Written
  <1>3. job'[p] = j /\ \A q \in Workers : q # p => job'[q] = job[q]
    BY WrittenFrame
  <1>4. ~(j.task = "delete" /\ j.into = b)
    BY <1>1, <1>2, IdleTask, DeletionFields DEF TurnsTo
  <1>5. \A m \in Workers : job[m].task = "delete" /\ job[m].into = b => m \in Movers(b)
    BY <1>1, DeleterMoves
  <1>6. Spared(b, id) \/ Elsewhere(b, id) => Spared(b, id)'
    BY <1>3, <1>4, <1>5 DEF Spared, Elsewhere
  <1>7. ASSUME Spared(c, id), ~(Spared(c, id)')
        PROVE  /\ c # b /\ job[p].kind = "move" /\ job[p].task # "delete"
               /\ p \in Movers(c) /\ id \in job[p].ids
    <2>1. c # b
      BY <1>6, <1>7
    <2>2. j.task = "delete" /\ j.into = c /\ id \in j.ids
      BY <1>3, <1>7 DEF Spared
    <2>3. PICK s \in Buckets : /\ job[p].kind = "move" /\ job[p].task # "delete"
                               /\ job[p].from = {s} /\ j = Deletion(job[p], s)
      BY <1>2, <2>2, IdleTask DEF TurnsTo
    <2>4. s = c /\ id \in job[p].ids
      BY <1>1, <2>2, <2>3, DeletionFields
    <2>5. QED BY <2>1, <2>3, <2>4 DEF Movers
  <1>8. QED BY <1>6, <1>7

(* What a writer with the lock has added is safe once CURRENT names it.    *)
LEMMA WrittenNew ==
    ASSUME Inv, Typed', Locks', NEW p \in Workers, NEW b \in Buckets, NEW g, NEW at, NEW j,
           Written(p, b, g, at, j), p \notin doomed, job[p].gone = {},
           NEW r \in RowsOf(Adds(p)), r \notin excused
    PROVE  SafeSomewhere(r)'
  <1>1. /\ Reliable(b)' = {} /\ Reliable(b) = {p} /\ HasTable(p) /\ Visible(b)' = TableOf(p)
    BY WrittenReliable
  <1>2. PICK id \in DOMAIN TableOf(p).rows : TableOf(p).rows[id].row = r /\ Elsewhere(b, id)
    BY <1>1 DEF Inv, BucketOK, TableHasNew
  <1>3. Spared(b, id)'
    BY <1>2, WrittenDeleters
  <1>4. Safe(b, id, r)'
    BY <1>1, <1>2, <1>3 DEF Safe
  <1>5. QED BY <1>4 DEF Safe, SafeSomewhere

(* After CURRENT was replaced every kept row is in a bucket or excused.   *)
LEMMA WrittenKept ==
    ASSUME Inv, Typed', Locks', NEW p \in Workers, NEW b \in Buckets, NEW g, NEW at, NEW j,
           Written(p, b, g, at, j)
    PROVE  KeptAreSafe'
  <1> SUFFICES ASSUME NEW r \in kept' \ excused' PROVE SafeSomewhere(r)'
    BY DEF KeptAreSafe
  <1>1. Typed /\ Locks
    BY DEF Inv
  <1>2. /\ b = job[p].into /\ kept' = Acknowledged(p) /\ r \notin excused
    BY DEF Written
  <1>3. CASE r \in kept /\ r \notin RowsOf(job[p].gone) \ RowsOf(job[p].fresh)
    <2>1. PICK c \in Buckets : \E id \in DOMAIN Visible(c).rows : Safe(c, id, r)
      BY <1>2, <1>3 DEF Inv, KeptAreSafe, SafeSomewhere
    <2>2. PICK id : Safe(c, id, r)
      BY <2>1
    <2>3. id \in DOMAIN Visible(c).rows /\ Visible(c).rows[id].row = r /\ Spared(c, id)
      BY <2>2 DEF Safe
    <2>4. CASE c = b
      <3>1. p \notin doomed
        BY <2>2, <2>4, WrittenDoomed
      <3>2. /\ Reliable(b)' = {} /\ Reliable(b) = {p} /\ HasTable(p)
            /\ Visible(b)' = TableOf(p)
        BY <3>1, WrittenReliable
      <3>3. id \in DOMAIN TableOf(p).rows /\ TableOf(p).rows[id].row = r
        BY <1>3, <2>2, <2>4, <3>2 DEF Safe, KeepsCopy
      <3>4. Spared(b, id)'
        BY <2>3, <2>4, WrittenDeleters
      <3>5. Safe(b, id, r)'
        BY <3>2, <3>3, <3>4 DEF Safe
      <3>6. QED BY <3>5 DEF Safe, SafeSomewhere
    <2>5. CASE c # b /\ Spared(c, id)'
      <3>1. SameRows(c) /\ SameWriters(c)
        BY <2>5, WrittenFrame
      <3>2. Safe(c, id, r)'
        BY <1>1, <2>2, <2>5, <3>1, QuietSafe
      <3>3. QED BY <3>2 DEF Safe, SafeSomewhere
    <2>6. CASE c # b /\ ~(Spared(c, id)')
      <3>1. /\ job[p].kind = "move" /\ job[p].task # "delete"
            /\ p \in Movers(c) /\ id \in job[p].ids
        BY <2>3, <2>6, WrittenDeleters
      <3>2. r \in RowsOf(ToSet(job[p].cells))
        BY <1>2, <2>3, <3>1 DEF Inv, BucketOK, MovedAreCarried
      <3>3. p \notin doomed
        BY <1>1, <1>2, <3>2 DEF Locks
      <3>4. Shape(pc[p], job[p]) /\ pc[p] = "current" /\ job[p].task \in Tasks
        BY <1>1, JobTyped DEF JobType, Written
      <3>5. job[p].task \in {"insert", "initial"} /\ job[p].gone = {}
        BY <3>1, <3>4 DEF Shape, Tasks, Writing
      <3>6. r \in RowsOf(Adds(p))
        BY <3>2, <3>5 DEF Adds, ToAdd
      <3>7. QED BY <1>2, <3>3, <3>5, <3>6, WrittenNew
    <2>7. QED BY <2>4, <2>5, <2>6
  <1>4. CASE ~(r \in kept /\ r \notin RowsOf(job[p].gone) \ RowsOf(job[p].fresh))
    <2>1. p \notin doomed /\ job[p].gone = {} /\ r \in RowsOf(job[p].fresh)
      BY <1>2, <1>4 DEF Acknowledged
    <2>2. r \in RowsOf(Adds(p))
      BY <1>1, <2>1, FreshAdded
    <2>3. QED BY <1>2, <2>1, <2>2, WrittenNew
  <1>5. QED BY <1>3, <1>4

(* Replacing CURRENT keeps the invariant.                                 *)
LEMMA WriteSafe ==
    ASSUME Inv, Typed', Locks', NEW p \in Workers, WriteCurrent(p)
    PROVE  Inv'
  <1>1. PICK b \in Buckets : b = job[p].into
    BY JobTyped DEF Inv, WriteCurrent
  <1>2. Typed
    BY DEF Inv
  <1>3. PICK g, at, j : Written(p, b, g, at, j)
    BY <1>1, <1>2, WriteIs
  <1>4. BucketOK(b)'
    BY <1>3, WrittenDoomed, WrittenReliable
  <1>5. ASSUME NEW c \in Buckets, c # b PROVE BucketOK(c)'
    <2>1. SameRows(c) /\ SameWriters(c)
      BY <1>3, <1>5, WrittenFrame
    <2>2. \A m \in Movers(c)' :
            m \in Movers(c) /\ job'[m].ids = job[m].ids /\ job'[m].cells = job[m].cells
      BY <1>3, WrittenFrame
    <2>3. SameMovers(c)
      BY <2>2 DEF SameMovers
    <2>4. QED BY <1>2, <2>1, <2>3, QuietKeeps DEF Quiet, Inv
  <1>6. KeptAreSafe'
    BY <1>3, WrittenKept
  <1>7. QED BY <1>4, <1>5, <1>6 DEF Inv

(* The full buckets show their tables; nobody writes yet.                  *)
LEMMA InitSafe ==
    ASSUME NEW tables, NEW full \in SUBSET Buckets, NEW empty \in SUBSET Buckets,
           \A b \in Buckets : IsTable(tables[b]), Starts(tables, full, empty), Typed, Locks
    PROVE  Inv
  <1>1. /\ made = full \cup empty
        /\ names = [b \in Buckets |-> IF b \in full THEN Names
                                      ELSE IF b \in empty THEN {"meta"} ELSE {}]
        /\ current = [b \in Buckets |-> IF b \in full THEN 1 ELSE 0]
        /\ gens = [b \in Buckets |-> IF b \in full THEN Put(<<>>, 1, tables[b]) ELSE <<>>]
        /\ stage = [b \in Buckets |-> <<>>]
        /\ pc = [p \in Workers |-> "idle"] /\ job = [p \in Workers |-> IdleJob]
        /\ used = [b \in Buckets |-> IF b \in full THEN DOMAIN tables[b].rows ELSE {}]
    BY DEF Starts
  <1>2. owed = UNION {CellsOf(tables[b]) : b \in full} /\ kept = RowsOf(owed)
    BY DEF Starts
  <1>3. \A b \in Buckets : /\ gens[b] = IF b \in full THEN Put(<<>>, 1, tables[b]) ELSE <<>>
                           /\ stage[b] = <<>> /\ current[b] = IF b \in full THEN 1 ELSE 0
                           /\ "CURRENT" \in names[b] <=> b \in full
                           /\ used[b] = IF b \in full THEN DOMAIN tables[b].rows ELSE {}
    BY <1>1 DEF Names
  <1>4. \A b \in full : DOMAIN gens[b] = {1} /\ gens[b][1] = tables[b]
    <2> SUFFICES ASSUME NEW b \in full PROVE DOMAIN gens[b] = {1} /\ gens[b][1] = tables[b]
      OBVIOUS
    <2>1. gens[b] = [y \in {1} |-> tables[b]]
      BY <1>3 DEF Put
    <2>2. QED BY <2>1
  <1>5. \A b \in full : b \in made /\ Visible(b) = tables[b]
    BY <1>1, <1>3, <1>4 DEF Visible, Resolves
  <1>6. \A b \in Buckets : Reliable(b) = {} /\ Movers(b) = {}
    BY <1>1, IdleTask DEF Reliable, Writers, Writing, Movers
  <1>7. \A b \in Buckets : IdsUsed(b)
    BY <1>3, <1>4, <1>6 DEF IdsUsed, Staged
  <1>8. \A b \in Buckets : BucketOK(b)
    BY <1>6, <1>7 DEF BucketOK, PublishedStays, Overtaken, TableAgrees, TableHasNew, MovedAreCarried
  <1>9. KeptAreSafe
    <2> SUFFICES ASSUME NEW r \in kept \ excused PROVE SafeSomewhere(r)
      BY DEF KeptAreSafe
    <2>1. PICK cell \in owed : cell.row = r
      BY <1>2 DEF RowsOf
    <2>2. PICK b \in full : cell \in CellsOf(tables[b])
      BY <1>2, <2>1
    <2>3. PICK id \in DOMAIN tables[b].rows : tables[b].rows[id] = cell
      BY <2>2 DEF CellsOf
    <2>4. Spared(b, id)
      BY <1>1, IdleTask DEF Spared
    <2>5. Safe(b, id, r)
      BY <1>5, <1>6, <2>1, <2>3, <2>4 DEF Safe
    <2>6. QED BY <1>5, <2>3, <2>5 DEF SafeSomewhere
  <1>10. QED BY <1>8, <1>9 DEF Inv

(* A stuttering step keeps the invariant.                                 *)
LEMMA StutterSafe ==
    ASSUME Inv, Typed', Locks', UNCHANGED vars
    PROVE  Inv'
  <1>1. UNCHANGED <<disk, pc, job, ghost>>
    BY DEF vars
  <1>2. UNCHANGED <<made, names, current, gens, stage, pc, job, kept, excused, used, doomed>>
    BY <1>1 DEF disk, ghost
  <1>3. \A b \in Buckets : SameRows(b)
    BY <1>2 DEF SameRows, Staged
  <1>4. \A b \in Buckets : Reliable(b)' = Reliable(b) /\ Movers(b)' = Movers(b)
    BY <1>2 DEF Reliable, Writers, Movers
  <1>5. \A b \in Buckets : \A q \in Reliable(b) : q \in Workers
    BY DEF Reliable, Writers
  <1>6. \A b \in Buckets : SameWriters(b) /\ SameMovers(b) /\ SameDeleters(b)
    BY <1>2, <1>4, <1>5 DEF SameWriters, SameMovers, SameDeleters
  <1>7. QED BY <1>2, <1>3, <1>6, QuietStep DEF Quiet

(* Every step keeps the invariant.                                        *)
LEMMA NextSafe == Inv /\ [Next]_vars => Inv'
  <1> SUFFICES ASSUME Inv, [Next]_vars PROVE Inv'
    OBVIOUS
  <1>1. Typed' /\ Locks'
    BY NextTyped, NextLocks DEF Inv
  <1>2. ASSUME NEW p \in Workers, Step(p) PROVE Inv'
    <2>1. CASE MakeBucket(p) \/ MakeBucketFails(p) \/ UndoCombine(p) \/ SweepEnds(p)
      BY <1>1, <2>1, DirectorySafe
    <2>2. CASE Begin(p) \/ Prepare(p) \/ Publish(p) \/ WriteCurrent(p)
      BY <1>1, <2>2, BeginSafe, PrepareSafe, PublishSafe, WriteSafe
    <2>3. CASE PrepareFails(p) \/ PublishFails(p)
      BY <1>1, <2>3, FailureSafe
    <2>4. CASE \E n \in Entries : SweepEntry(p, n)
      BY <1>1, <2>4, SweepSafe
    <2>5. QED BY <1>2, <2>1, <2>2, <2>3, <2>4 DEF Step
  <1>3. ASSUME NEW p \in Workers, Request(p) PROVE Inv'
    BY <1>1, <1>3, RequestSafe
  <1>4. CASE Crash
    BY <1>1, <1>4, CrashSafe
  <1>5. CASE UNCHANGED vars
    BY <1>1, <1>5, StutterSafe
  <1>6. QED BY <1>2, <1>3, <1>4, <1>5 DEF Next

(* The invariant holds initially.                                         *)
LEMMA InitInv == Init => Inv
  <1> SUFFICES ASSUME Init PROVE Inv
    OBVIOUS
  <1>1. PICK tables, full, empty :
          /\ full \subseteq Buckets /\ empty \subseteq Buckets
          /\ \A b \in Buckets : IsTable(tables[b])
          /\ Starts(tables, full, empty)
    BY InitStarts
  <1>2. Typed
    BY <1>1, StartsTyped
  <1>3. doomed = {} /\ pc = [p \in Workers |-> "idle"]
    BY <1>1 DEF Starts
  <1>4. Locks
    BY <1>3 DEF Locks, Reliable, Writers, Writing
  <1>5. QED BY <1>1, <1>2, <1>4, InitSafe

(* The inductive invariant holds in every reachable state.                *)
LEMMA InvHolds == Spec => []Inv
  BY InitInv, NextSafe, PTL DEF Spec

(* Transfers, transactions, deletions of buckets, failures and deaths of   *)
(* the service lose no row of which nobody asked to be rid, unless the     *)
(* removal of a directory has endangered it: moves copy before they        *)
(* delete, and a deletion names only rows that were carried away.          *)
THEOREM NoRowIsLost == Spec => []RowsKept
  <1>1. Inv => RowsKept
    <2> SUFFICES ASSUME Inv, NEW r \in kept \ excused PROVE r \in RowsOf(Stored)
      BY DEF RowsKept
    <2>1. PICK b \in Buckets : \E id \in DOMAIN Visible(b).rows : Visible(b).rows[id].row = r
      BY DEF Inv, KeptAreSafe, SafeSomewhere, Safe
    <2>2. PICK id \in DOMAIN Visible(b).rows : Visible(b).rows[id].row = r
      BY <2>1
    <2>3. Visible(b).rows[id] \in Stored
      BY DEF Stored, CellsOf
    <2>4. QED BY <2>2, <2>3 DEF RowsOf
  <1>2. QED BY <1>1, InvHolds, PTL

----------------------------------------------------------------------------
(* Copies.                                                                 *)
(*                                                                         *)
(* How often a row is visible changes only when a writer replaces CURRENT. *)
(* What such a writer has staged holds a row at most as often as the table *)
(* it replaces, but for the cells it adds and less the rows it deletes.    *)
(* What it adds is accounted for by its request: a transfer or combination *)
(* asks for copies, a move has still to delete, and a new row is nowhere   *)
(* else yet.  The deletion of a move takes away what the move has doubled. *)

(* How many members a family of sets has.                                  *)
FiniteFamily(F) ==
    /\ F = [x \in DOMAIN F |-> F[x]] /\ IsFiniteSet(DOMAIN F)
    /\ \A x \in DOMAIN F : IsFiniteSet(F[x])

(* A finite family of finite sets has finitely many members.               *)
LEMMA PairsFinite ==
    ASSUME NEW F, FiniteFamily(F)
    PROVE  /\ IsFiniteSet(Pairs(F)) /\ Cardinality(Pairs(F)) \in Nat
           /\ \A y : y \in Pairs(F) <=> \E x \in DOMAIN F : y \in {x} \X F[x]
  <1> DEFINE part(x) == {x} \X F[x]
             all == {part(x) : x \in DOMAIN F}
             f == [x \in DOMAIN F |-> part(x)]
  <1>1. \A x \in DOMAIN F : IsFiniteSet(part(x))
    BY FS_Singleton, FS_Product DEF FiniteFamily
  <1>2. IsFiniteSet(all)
    <2>1. f \in Surjection(DOMAIN F, all)
      BY DEF Surjection
    <2>2. QED BY <2>1, FS_Surjection DEF FiniteFamily
  <1>3. IsFiniteSet(UNION all)
    BY <1>1, <1>2, FS_UNION
  <1>4. Pairs(F) = UNION all
    BY DEF Pairs
  <1>5. \A y : y \in Pairs(F) <=> \E x \in DOMAIN F : y \in {x} \X F[x]
    BY Zenon DEF Pairs
  <1>6. QED BY <1>3, <1>4, <1>5, FS_CardinalityType

(* Two finite sets that have no member in common.                          *)
LEMMA DisjointUnion ==
    ASSUME NEW A, NEW B, IsFiniteSet(A), IsFiniteSet(B), A \cap B = {}
    PROVE  IsFiniteSet(A \cup B) /\ Cardinality(A \cup B) = Cardinality(A) + Cardinality(B)
  <1>1. /\ IsFiniteSet(A \cup B)
        /\ Cardinality(A \cup B) = Cardinality(A) + Cardinality(B) - Cardinality(A \cap B)
    BY FS_Union
  <1>2. Cardinality(A \cap B) = 0 /\ Cardinality(A) \in Nat /\ Cardinality(B) \in Nat
    BY FS_EmptySet, FS_CardinalityType
  <1>3. QED BY <1>1, <1>2

(* A family that changes at one place.                                     *)
LEMMA PairsAt ==
    ASSUME NEW F, NEW G, FiniteFamily(F), FiniteFamily(G), DOMAIN G = DOMAIN F,
           NEW x \in DOMAIN F, \A y \in DOMAIN F : y # x => G[y] = F[y]
    PROVE  Cardinality(Pairs(G)) + Cardinality(F[x]) = Cardinality(Pairs(F)) + Cardinality(G[x])
  <1> DEFINE rest == {y \in Pairs(F) : y[1] # x}
             here == {x} \X F[x]
             there == {x} \X G[x]
  <1>1. /\ IsFiniteSet(Pairs(F)) /\ IsFiniteSet(Pairs(G))
        /\ \A y : y \in Pairs(F) <=> \E z \in DOMAIN F : y \in {z} \X F[z]
        /\ \A y : y \in Pairs(G) <=> \E z \in DOMAIN F : y \in {z} \X G[z]
    BY PairsFinite
  <1>2. IsFiniteSet(F[x]) /\ IsFiniteSet(G[x])
    BY DEF FiniteFamily
  <1>3. /\ IsFiniteSet(here) /\ Cardinality(here) = Cardinality(F[x])
        /\ IsFiniteSet(there) /\ Cardinality(there) = Cardinality(G[x])
    <2>1. IsFiniteSet({x}) /\ Cardinality({x}) = 1
      BY FS_Singleton
    <2>2. Cardinality(F[x]) \in Nat /\ Cardinality(G[x]) \in Nat
      BY <1>2, FS_CardinalityType
    <2>3. /\ IsFiniteSet(here) /\ Cardinality(here) = 1 * Cardinality(F[x])
          /\ IsFiniteSet(there) /\ Cardinality(there) = 1 * Cardinality(G[x])
      BY <1>2, <2>1, FS_Product
    <2>4. QED BY <2>2, <2>3
  <1>4. IsFiniteSet(rest)
    BY <1>1, FS_Subset
  <1>5. \A y \in here : y[1] = x
    OBVIOUS
  <1>6. \A y \in there : y[1] = x
    OBVIOUS
  <1>7. Pairs(F) = rest \cup here
    <2>1. \A y \in Pairs(F) : y[1] = x => y \in here
      BY <1>1
    <2>2. here \subseteq Pairs(F)
      BY <1>1
    <2>3. QED BY <2>1, <2>2
  <1>8. Pairs(G) = rest \cup there
    <2>1. \A y \in Pairs(G) : y[1] = x => y \in there
      BY <1>1
    <2>2. \A y \in Pairs(G) : y[1] # x => y \in rest
      BY <1>1
    <2>3. there \subseteq Pairs(G)
      BY <1>1
    <2>4. rest \subseteq Pairs(G)
      BY <1>1
    <2>5. QED BY <2>1, <2>2, <2>3, <2>4
  <1>9. rest \cap here = {} /\ rest \cap there = {}
    BY <1>5, <1>6
  <1> HIDE DEF rest, here, there
  <1>10. Cardinality(Pairs(F)) = Cardinality(rest) + Cardinality(here)
    BY <1>3, <1>4, <1>7, <1>9, DisjointUnion
  <1>11. Cardinality(Pairs(G)) = Cardinality(rest) + Cardinality(there)
    BY <1>3, <1>4, <1>8, <1>9, DisjointUnion
  <1>12. /\ Cardinality(rest) \in Nat /\ Cardinality(F[x]) \in Nat
         /\ Cardinality(G[x]) \in Nat
    BY <1>2, <1>4, FS_CardinalityType
  <1>13. QED BY <1>3, <1>10, <1>11, <1>12

(* A family of parts has no more members.                                  *)
LEMMA PairsMonotone ==
    ASSUME NEW F, NEW G, FiniteFamily(F), FiniteFamily(G), DOMAIN G = DOMAIN F,
           \A x \in DOMAIN F : G[x] \subseteq F[x]
    PROVE  Cardinality(Pairs(G)) <= Cardinality(Pairs(F))
  <1>1. Pairs(G) \subseteq Pairs(F)
    <2>1. /\ \A y : y \in Pairs(F) <=> \E z \in DOMAIN F : y \in {z} \X F[z]
          /\ \A y : y \in Pairs(G) <=> \E z \in DOMAIN F : y \in {z} \X G[z]
      BY PairsFinite
    <2>2. QED BY <2>1
  <1>2. QED BY <1>1, PairsFinite, FS_Subset

(* A family of empty sets has none.                                        *)
LEMMA PairsEmpty ==
    ASSUME NEW F, FiniteFamily(F), \A x \in DOMAIN F : F[x] = {}
    PROVE  Cardinality(Pairs(F)) = 0
  <1>1. \A y : y \in Pairs(F) <=> \E z \in DOMAIN F : y \in {z} \X F[z]
    BY PairsFinite
  <1>2. Pairs(F) = {}
    BY <1>1
  <1>3. QED BY <1>2, FS_EmptySet

(* Where a row is among the cells of a table or a list.                    *)
LEMMA HoldsFinite ==
    ASSUME NEW r
    PROVE  /\ \A t : IsTable(t) => IsFiniteSet(Holds(t.rows, r))
           /\ \A cells \in Seq(Cell) : IsFiniteSet(Holds(cells, r))
  <1>1. ASSUME NEW t, IsTable(t) PROVE IsFiniteSet(Holds(t.rows, r))
    <2>1. Holds(t.rows, r) \subseteq 0..t.top /\ t.top \in Int
      BY <1>1 DEF IsTable, Holds
    <2>2. IsFiniteSet(0..t.top)
      BY <2>1, FS_Interval
    <2>3. QED BY <2>1, <2>2, FS_Subset
  <1>2. ASSUME NEW cells \in Seq(Cell) PROVE IsFiniteSet(Holds(cells, r))
    <2>1. Holds(cells, r) \subseteq 1..Len(cells) /\ Len(cells) \in Int
      BY DEF Holds
    <2>2. IsFiniteSet(1..Len(cells))
      BY <2>1, FS_Interval
    <2>3. QED BY <2>1, <2>2, FS_Subset
  <1>3. QED BY <1>1, <1>2

(* A row that is not among the cells is held nowhere.                      *)
LEMMA HoldsNone ==
    ASSUME NEW r
    PROVE  /\ \A t : Holds(t.rows, r) = {} <=> r \notin RowsOf(CellsOf(t))
           /\ \A cells \in Seq(Cell) : Holds(cells, r) = {} <=> r \notin RowsOf(ToSet(cells))
  <1>1. \A t : r \in RowsOf(CellsOf(t)) <=> \E id \in DOMAIN t.rows : t.rows[id].row = r
    BY DEF RowsOf, CellsOf
  <1>2. \A cells \in Seq(Cell) : r \in RowsOf(ToSet(cells)) <=> \E i \in DOMAIN cells : cells[i].row = r
    BY DEF RowsOf, ToSet
  <1>3. QED BY <1>1, <1>2 DEF Holds

\* How often a row is among a table's or a list's cells.
Count(cells, r) == Cardinality(Holds(cells, r))

\* How many copies of a row a writer adds, and how many it takes away.
AddedBy(task, cells, gone, fresh, r) ==
    IF task \in {"insert", "initial"} THEN Count(cells, r)
    ELSE IF gone = {} /\ r \in RowsOf(fresh) THEN 1 ELSE 0

Added(q, r) == AddedBy(job[q].task, job[q].cells, job[q].gone, job[q].fresh, r)

TakenBy(task, ids, now, r) ==
    IF task = "delete" THEN Cardinality(ids \cap Holds(now.rows, r)) ELSE 0

Taken(q, r) == TakenBy(job[q].task, job[q].ids, Visible(job[q].into), r)

(* The counts of typed tables and lists.                                   *)
LEMMA CountTyped ==
    ASSUME NEW r
    PROVE  /\ \A t : IsTable(t) => Count(t.rows, r) \in Nat
           /\ \A cells \in Seq(Cell) : Count(cells, r) \in Nat
           /\ \A t : IsTable(t) => (Count(t.rows, r) = 0 <=> Holds(t.rows, r) = {})
           /\ \A cells \in Seq(Cell) : Count(cells, r) = 0 <=> Holds(cells, r) = {}
  <1>1. \A S : IsFiniteSet(S) => Cardinality(S) \in Nat /\ (Cardinality(S) = 0 <=> S = {})
    BY FS_CardinalityType, FS_EmptySet
  <1>2. QED BY <1>1, HoldsFinite DEF Count

(* What a writer adds and takes away are numbers.                          *)
LEMMA AddedTyped ==
    ASSUME NEW task, NEW ids, NEW now, IsTable(now), NEW cells \in Seq(Cell), NEW gone,
           NEW fresh, NEW r
    PROVE  /\ AddedBy(task, cells, gone, fresh, r) \in Nat /\ TakenBy(task, ids, now, r) \in Nat
           /\ TakenBy(task, ids, now, r) <= Count(now.rows, r)
  <1>1. Count(cells, r) \in Nat /\ Count(now.rows, r) \in Nat
    BY CountTyped
  <1>2. /\ Cardinality(ids \cap Holds(now.rows, r)) \in Nat
        /\ Cardinality(ids \cap Holds(now.rows, r)) <= Count(now.rows, r)
    <2>1. IsFiniteSet(Holds(now.rows, r))
      BY HoldsFinite
    <2>2. IsFiniteSet(ids \cap Holds(now.rows, r))
          /\ Cardinality(ids \cap Holds(now.rows, r)) <= Cardinality(Holds(now.rows, r))
      BY <2>1, FS_Intersection
    <2>3. QED BY <2>2, FS_CardinalityType DEF Count
  <1>3. QED BY <1>1, <1>2 DEF AddedBy, TakenBy

(* Appended cells add up.                                                  *)
LEMMA AppendedCount ==
    ASSUME NEW t, IsTable(t), NEW cells \in Seq(Cell), NEW r
    PROVE  Count(Appended(t, cells).rows, r) <= Count(t.rows, r) + Count(cells, r)
  <1> DEFINE a == Appended(t, cells)
             new == {t.top + i : i \in Holds(cells, r)}
  <1>1. /\ t.top \in Int /\ DOMAIN t.rows \subseteq 0..t.top
        /\ Len(cells) \in Nat /\ DOMAIN cells = 1..Len(cells)
    BY DEF IsTable
  <1>2. /\ DOMAIN a.rows = DOMAIN t.rows \cup (t.top + 1 .. t.top + Len(cells))
        /\ \A id \in DOMAIN t.rows : a.rows[id] = t.rows[id]
        /\ \A id \in DOMAIN a.rows \ DOMAIN t.rows : a.rows[id] = cells[id - t.top]
    BY DEF Appended
  <1>3. ASSUME NEW id \in Holds(a.rows, r), id \notin Holds(t.rows, r) PROVE id \in new
    <2>1. id \in DOMAIN a.rows /\ a.rows[id].row = r /\ id \notin DOMAIN t.rows
      BY <1>2, <1>3 DEF Holds
    <2>2. id \in t.top + 1 .. t.top + Len(cells) /\ cells[id - t.top].row = r
      BY <1>2, <2>1
    <2>3. id - t.top \in 1..Len(cells) /\ id = t.top + (id - t.top)
      BY <1>1, <2>2
    <2>4. id - t.top \in Holds(cells, r)
      BY <1>1, <2>2, <2>3 DEF Holds
    <2>5. QED BY <2>3, <2>4
  <1>4. Holds(a.rows, r) \subseteq Holds(t.rows, r) \cup new
    BY <1>3
  <1>5. IsFiniteSet(Holds(t.rows, r)) /\ IsFiniteSet(Holds(cells, r))
    BY HoldsFinite
  <1>6. IsFiniteSet(new) /\ Cardinality(new) <= Cardinality(Holds(cells, r))
    <2>1. [i \in Holds(cells, r) |-> t.top + i] \in Surjection(Holds(cells, r), new)
      BY DEF Surjection
    <2>2. QED BY <1>5, <2>1, FS_Surjection
  <1> HIDE DEF a, new
  <1>7. /\ IsFiniteSet(Holds(t.rows, r) \cup new)
        /\ Cardinality(Holds(t.rows, r) \cup new) =
             Cardinality(Holds(t.rows, r)) + Cardinality(new) - Cardinality(Holds(t.rows, r) \cap new)
    BY <1>5, <1>6, FS_Union
  <1>8. Cardinality(Holds(t.rows, r) \cap new) \in Nat
    BY <1>5, FS_Intersection, FS_CardinalityType
  <1>9. /\ Cardinality(Holds(a.rows, r)) <= Cardinality(Holds(t.rows, r) \cup new)
        /\ IsFiniteSet(Holds(a.rows, r))
    BY <1>4, <1>7, FS_Subset
  <1>10. /\ Cardinality(Holds(t.rows, r)) \in Nat /\ Cardinality(new) \in Nat
         /\ Cardinality(Holds(cells, r)) \in Nat /\ Cardinality(Holds(a.rows, r)) \in Nat
    BY <1>5, <1>6, <1>9, FS_CardinalityType
  <1>11. Cardinality(Holds(a.rows, r)) <= Cardinality(Holds(t.rows, r)) + Cardinality(Holds(cells, r))
    BY <1>6, <1>7, <1>8, <1>9, <1>10
  <1>12. QED BY <1>11 DEF a, Count

(* Deleted rows are gone.                                                  *)
LEMMA RemovedCount ==
    ASSUME NEW t, IsTable(t), NEW ids, NEW r
    PROVE  Count(Removed(t, ids).rows, r) + Cardinality(ids \cap Holds(t.rows, r))
             <= Count(t.rows, r)
  <1>1. Holds(Removed(t, ids).rows, r) = Holds(t.rows, r) \ ids
    BY DEF Removed, Holds
  <1>2. IsFiniteSet(Holds(t.rows, r))
    BY HoldsFinite
  <1>3. Cardinality(Holds(t.rows, r) \ ids) =
          Cardinality(Holds(t.rows, r)) - Cardinality(Holds(t.rows, r) \cap ids)
    BY <1>2, FS_Difference
  <1>4. Holds(t.rows, r) \cap ids = ids \cap Holds(t.rows, r)
    OBVIOUS
  <1>5. /\ Cardinality(Holds(t.rows, r)) \in Nat
        /\ Cardinality(ids \cap Holds(t.rows, r)) \in Nat
    BY <1>2, FS_Intersection, FS_CardinalityType
  <1>6. QED BY <1>1, <1>3, <1>4, <1>5 DEF Count

(* One cell holds one row, once.                                           *)
LEMMA SingleCount ==
    ASSUME NEW x \in Rows, NEW r
    PROVE  Count(<<NewCell(x)>>, r) = IF r = x THEN 1 ELSE 0
  <1>1. Holds(<<NewCell(x)>>, r) = IF r = x THEN {1} ELSE {}
    BY DEF Holds, NewCell
  <1>2. QED BY <1>1, FS_Singleton, FS_EmptySet DEF Count

(* How often a plan's table holds a row, and which rows it holds.          *)
PlanCounts(p, now, plan) ==
    /\ \A r \in Rows :
         Count(plan.table.rows, r) + TakenBy(job[p].task, job[p].ids, now, r)
           <= Count(now.rows, r) + AddedBy(job[p].task, job[p].cells, plan.gone, plan.fresh, r)
    /\ RowsOf(CellsOf(plan.table))
         \subseteq RowsOf(CellsOf(now)) \cup RowsOf(ToSet(job[p].cells)) \cup RowsOf(plan.fresh)
    /\ RowsOf(plan.fresh) \subseteq RowsOf(job[p].fresh) \cup RowsOf(CellsOf(now)) \cup (Rows \ born)
    /\ \/ plan.gone # {} \/ plan.fresh = {}
       \/ job[p].task # "mutate" /\ plan.fresh = job[p].fresh
       \/ job[p].task = "mutate" /\ \E r \in Rows \ born : plan.fresh = {NewCell(r)}
    /\ job[p].task = "initial" => plan.fresh = job[p].fresh

(* A client's insertion adds one new row.                                  *)
LEMMA InsertionCounts ==
    ASSUME NEW p, job[p].task = "mutate", NEW now, IsTable(now), NEW plan \in Insertions(now)
    PROVE  PlanCounts(p, now, plan)
  <1>1. PICK x \in Rows \ born : plan = Plan(Appended(now, <<NewCell(x)>>), {}, {NewCell(x)})
    BY DEF Insertions
  <1>2. PICK cells : cells = <<NewCell(x)>>
    OBVIOUS
  <1>3. cells \in Seq(Cell) /\ ToSet(cells) = {NewCell(x)} /\ NewCell(x).row = x
    BY <1>2, NewCellTyped DEF ToSet
  <1>4. plan.table = Appended(now, cells) /\ plan.gone = {} /\ plan.fresh = {NewCell(x)}
    BY <1>1, <1>2 DEF Plan
  <1>5. RowsOf(plan.fresh) = {x}
    BY <1>3, <1>4 DEF RowsOf
  <1>6. ASSUME NEW r \in Rows
        PROVE  Count(plan.table.rows, r) + TakenBy(job[p].task, job[p].ids, now, r)
                 <= Count(now.rows, r)
                      + AddedBy(job[p].task, job[p].cells, plan.gone, plan.fresh, r)
    <2>1. Count(Appended(now, cells).rows, r) <= Count(now.rows, r) + Count(cells, r)
      BY <1>3, AppendedCount
    <2>2. Count(cells, r) = AddedBy(job[p].task, job[p].cells, plan.gone, plan.fresh, r)
      BY <1>2, <1>4, <1>5, SingleCount DEF AddedBy
    <2>3. TakenBy(job[p].task, job[p].ids, now, r) = 0
      BY DEF TakenBy
    <2>4. Count(Appended(now, cells).rows, r) \in Nat
      BY <1>3, AppendedTyped, CountTyped
    <2>5. QED BY <1>4, <2>1, <2>2, <2>3, <2>4
  <1>7. RowsOf(CellsOf(plan.table)) \subseteq RowsOf(CellsOf(now)) \cup RowsOf(plan.fresh)
    <2> SUFFICES ASSUME NEW id \in DOMAIN plan.table.rows
                 PROVE  plan.table.rows[id].row \in RowsOf(CellsOf(now)) \cup RowsOf(plan.fresh)
      BY DEF RowsOf, CellsOf
    <2>1. CASE id \in DOMAIN now.rows
      <3>1. plan.table.rows[id] = now.rows[id]
        BY <1>3, <1>4, <2>1, AppendedTyped
      <3>2. QED BY <2>1, <3>1 DEF RowsOf, CellsOf
    <2>2. CASE id \notin DOMAIN now.rows
      <3>1. plan.table.rows[id] \in ToSet(cells)
        BY <1>3, <1>4, <2>2, AppendedTyped
      <3>2. QED BY <1>3, <1>4, <3>1 DEF RowsOf
    <2>3. QED BY <2>1, <2>2
  <1>8. QED BY <1>4, <1>5, <1>6, <1>7 DEF PlanCounts

(* A client's update keeps every row where it is.                          *)
LEMMA UpdateCounts ==
    ASSUME NEW p, job[p].task = "mutate", NEW now, IsTable(now), NEW plan \in Updates(now)
    PROVE  PlanCounts(p, now, plan)
  <1>1. PICK id \in DOMAIN now.rows :
          /\ now.rows[id].version < MaxVersion
          /\ plan = Plan(Updated(now, id), {now.rows[id]}, {NextVersion(now.rows[id])})
    BY DEF Updates
  <1>2. /\ plan.table = Updated(now, id) /\ plan.gone = {now.rows[id]}
        /\ plan.fresh = {NextVersion(now.rows[id])}
    BY <1>1 DEF Plan
  <1>3. /\ IsTable(Updated(now, id)) /\ DOMAIN Updated(now, id).rows = DOMAIN now.rows
        /\ \A i \in DOMAIN now.rows : Updated(now, id).rows[i].row = now.rows[i].row
    BY <1>1, UpdatedTyped
  <1>4. now.rows[id] \in Cell /\ NextVersion(now.rows[id]).row = now.rows[id].row
    BY <1>1, NextVersionTyped, TableCells
  <1>5. ASSUME NEW r \in Rows
        PROVE  Count(plan.table.rows, r) + TakenBy(job[p].task, job[p].ids, now, r)
                 <= Count(now.rows, r)
                      + AddedBy(job[p].task, job[p].cells, plan.gone, plan.fresh, r)
    <2>1. Holds(plan.table.rows, r) = Holds(now.rows, r)
      BY <1>2, <1>3 DEF Holds
    <2>2. /\ TakenBy(job[p].task, job[p].ids, now, r) = 0
          /\ AddedBy(job[p].task, job[p].cells, plan.gone, plan.fresh, r) = 0
      BY <1>2 DEF TakenBy, AddedBy
    <2>3. Count(now.rows, r) \in Nat
      BY CountTyped
    <2>4. QED BY <2>1, <2>2, <2>3 DEF Count
  <1>6. RowsOf(CellsOf(plan.table)) \subseteq RowsOf(CellsOf(now))
    BY <1>2, <1>3 DEF RowsOf, CellsOf
  <1>7. RowsOf(plan.fresh) \subseteq RowsOf(CellsOf(now))
    BY <1>2, <1>4 DEF RowsOf, CellsOf
  <1>8. plan.gone # {}
    BY <1>2
  <1>9. QED BY <1>5, <1>6, <1>7, <1>8 DEF PlanCounts

(* A deletion only takes rows away.                                        *)
LEMMA RemovalCounts ==
    ASSUME NEW p \in Workers, job[p].task \in {"mutate", "delete"}, job[p].cells \in Seq(Cell),
           NEW now, IsTable(now),
           NEW ids, job[p].task = "delete" => ids = job[p].ids,
           NEW plan, plan.table = Removed(now, ids), plan.fresh = {}
    PROVE  PlanCounts(p, now, plan)
  <1>1. ASSUME NEW r \in Rows
        PROVE  Count(plan.table.rows, r) + TakenBy(job[p].task, job[p].ids, now, r)
                 <= Count(now.rows, r)
                      + AddedBy(job[p].task, job[p].cells, plan.gone, plan.fresh, r)
    <2>1. Count(Removed(now, ids).rows, r) + Cardinality(ids \cap Holds(now.rows, r))
            <= Count(now.rows, r)
      BY RemovedCount
    <2>2. AddedBy(job[p].task, job[p].cells, plan.gone, plan.fresh, r) = 0
      BY DEF AddedBy, RowsOf
    <2>3. \/ TakenBy(job[p].task, job[p].ids, now, r) = Cardinality(ids \cap Holds(now.rows, r))
          \/ TakenBy(job[p].task, job[p].ids, now, r) = 0
      BY DEF TakenBy
    <2>4. /\ Count(now.rows, r) \in Nat /\ Count(Removed(now, ids).rows, r) \in Nat
          /\ Cardinality(ids \cap Holds(now.rows, r)) \in Nat
      <3>1. IsFiniteSet(Holds(now.rows, r))
        BY HoldsFinite
      <3>2. Cardinality(ids \cap Holds(now.rows, r)) \in Nat
        BY <3>1, FS_Intersection, FS_CardinalityType
      <3>3. QED BY <3>2, CountTyped, RemovedTyped
    <2>5. QED BY <2>1, <2>2, <2>3, <2>4
  <1>2. RowsOf(CellsOf(plan.table)) \subseteq RowsOf(CellsOf(now))
    BY DEF Removed, RowsOf, CellsOf
  <1>3. RowsOf(plan.fresh) = {}
    BY DEF RowsOf
  <1>4. QED BY <1>1, <1>2, <1>3 DEF PlanCounts

(* Appending the request's own cells adds them.                            *)
LEMMA AppendCounts ==
    ASSUME NEW p \in Workers, job[p].task \in {"insert", "initial"}, job[p].cells \in Seq(Cell),
           NEW now, IsTable(now),
           NEW plan, plan.table = Appended(now, job[p].cells),
           plan.fresh = IF job[p].task = "initial" THEN job[p].fresh ELSE {}
    PROVE  PlanCounts(p, now, plan)
  <1>1. PICK cells \in Seq(Cell) : cells = job[p].cells
    OBVIOUS
  <1>2. ASSUME NEW r \in Rows
        PROVE  Count(plan.table.rows, r) + TakenBy(job[p].task, job[p].ids, now, r)
                 <= Count(now.rows, r)
                      + AddedBy(job[p].task, job[p].cells, plan.gone, plan.fresh, r)
    <2>1. Count(Appended(now, cells).rows, r) <= Count(now.rows, r) + Count(cells, r)
      BY AppendedCount
    <2>2. /\ AddedBy(job[p].task, job[p].cells, plan.gone, plan.fresh, r) = Count(cells, r)
          /\ TakenBy(job[p].task, job[p].ids, now, r) = 0
      BY <1>1 DEF AddedBy, TakenBy
    <2>3. Count(Appended(now, cells).rows, r) \in Nat
      BY AppendedTyped, CountTyped
    <2>4. QED BY <1>1, <2>1, <2>2, <2>3
  <1>3. RowsOf(CellsOf(plan.table)) \subseteq RowsOf(CellsOf(now)) \cup RowsOf(ToSet(cells))
    <2> SUFFICES ASSUME NEW id \in DOMAIN plan.table.rows
                 PROVE  plan.table.rows[id].row \in RowsOf(CellsOf(now)) \cup RowsOf(ToSet(cells))
      BY DEF RowsOf, CellsOf
    <2>1. CASE id \in DOMAIN now.rows
      <3>1. plan.table.rows[id] = now.rows[id]
        BY <1>1, <2>1, AppendedTyped
      <3>2. QED BY <2>1, <3>1 DEF RowsOf, CellsOf
    <2>2. CASE id \notin DOMAIN now.rows
      <3>1. plan.table.rows[id] \in ToSet(cells)
        BY <1>1, <2>2, AppendedTyped
      <3>2. QED BY <3>1 DEF RowsOf
    <2>3. QED BY <2>1, <2>2
  <1>4. RowsOf(plan.fresh) \subseteq RowsOf(job[p].fresh)
    BY DEF RowsOf
  <1>5. QED BY <1>1, <1>2, <1>3, <1>4 DEF PlanCounts

(* Every plan counts.                                                      *)
LEMMA PlansCounted ==
    ASSUME Typed, NEW p \in Workers, NEW b \in Buckets, NEW plan \in Plans(p, b),
           job[p].task # "none"
    PROVE  PlanCounts(p, Visible(b), plan)
  <1>1. PICK now : now = Visible(b)
    OBVIOUS
  <1>2. IsTable(now) /\ (~Resolves(b) => now = NoTable) /\ IsTable(NoTable)
    BY <1>1, VisibleTyped, NoTableTyped DEF Typed
  <1>3. job[p].task \in Tasks /\ job[p].cells \in Seq(Cell)
    BY JobTyped DEF JobType
  <1>4. CASE job[p].task = "initial"
    <2>1. ~Resolves(b) /\ plan = Plan(Appended(NoTable, job[p].cells), {}, job[p].fresh)
      BY <1>4 DEF Plans, StillEmpty
    <2>2. plan.table = Appended(now, job[p].cells) /\ plan.fresh = job[p].fresh
      BY <1>2, <2>1 DEF Plan
    <2>3. QED BY <1>1, <1>2, <1>3, <1>4, <2>2, AppendCounts
  <1>5. CASE job[p].task = "insert"
    <2>1. plan = Plan(Appended(now, job[p].cells), {}, {})
      BY <1>1, <1>5 DEF Plans
    <2>2. plan.table = Appended(now, job[p].cells) /\ plan.fresh = {}
      BY <2>1 DEF Plan
    <2>3. QED BY <1>1, <1>2, <1>3, <1>5, <2>2, AppendCounts
  <1>6. CASE job[p].task = "delete"
    <2>1. plan = Plan(Removed(now, job[p].ids), {}, {})
      BY <1>1, <1>6 DEF Plans
    <2>2. plan.table = Removed(now, job[p].ids) /\ plan.fresh = {}
      BY <2>1 DEF Plan
    <2>3. QED BY <1>1, <1>2, <1>3, <1>6, <2>2, RemovalCounts
  <1>7. CASE job[p].task = "mutate"
    <2>1. plan \in Insertions(now) \cup Updates(now) \cup Deletions(now)
      BY <1>1, <1>7 DEF Plans
    <2>2. CASE plan \in Deletions(now)
      <3>1. PICK id \in DOMAIN now.rows : plan = Plan(Removed(now, {id}), {now.rows[id]}, {})
        BY <2>2 DEF Deletions
      <3>2. plan.table = Removed(now, {id}) /\ plan.fresh = {}
        BY <3>1 DEF Plan
      <3>3. QED BY <1>1, <1>2, <1>3, <1>7, <3>2, RemovalCounts
    <2>3. QED BY <1>1, <1>2, <1>7, <2>1, <2>2, InsertionCounts, UpdateCounts
  <1>8. QED BY <1>3, <1>4, <1>5, <1>6, <1>7 DEF Tasks

----------------------------------------------------------------------------
(* The invariant that counts copies.                                       *)

\* The rows a request brings along.
Brings(q) == RowsOf(ToSet(job[q].cells)) \cup RowsOf(job[q].fresh)

Unseen(r) == \A b \in Buckets : Holds(Visible(b).rows, r) = {}

\* Which requests write, delete in the source of a move, and import.
KindFits(at, j) ==
    /\ j.task # "none" => j.kind \in {"combine", "copy", "move", "mutate", "import"}
    /\ j.task = "delete" => at \in Writing \cup {"begin"}
    /\ j.kind = "import" => /\ RowsOf(ToSet(j.cells)) \subseteq RowsOf(j.fresh)
                            /\ \A r \in Rows : Count(j.cells, r) <= 1

TablesBorn(b) ==
    /\ \A g \in DOMAIN gens[b] : RowsOf(CellsOf(gens[b][g])) \subseteq born
    /\ \A g \in Staged(b) : RowsOf(CellsOf(stage[b][g])) \subseteq born

\* What a writer with the lock has staged holds no more copies than it has added.
TableCounts(b) ==
    \A q \in Reliable(b) : HasTable(q) => \A r \in Rows \ excused :
      Count(TableOf(q).rows, r) + Taken(q, r) <= Count(Visible(b).rows, r) + Added(q, r)

\* The row a request inserts is nowhere else.
FreshIsNew(q) ==
    job[q].gone = {} => \A r \in RowsOf(job[q].fresh) \ excused :
      Unseen(r) /\ \A o \in Workers : o # q => r \notin Brings(o)

Counted ==
    /\ extra \in [Rows -> Nat]
    /\ \A r \in born \ excused : Copies(r) <= 1 + extra[r] + InFlight(r)

RequestsCount ==
    \A q \in Workers : KindFits(pc[q], job[q]) /\ Brings(q) \subseteq born /\ FreshIsNew(q)

CountInv ==
    /\ Inv /\ RequestsCount /\ Counted
    /\ \A b \in Buckets : TablesBorn(b) /\ TableCounts(b)

(* The families that are counted.                                          *)
LEMMA CopiesFamily ==
    ASSUME Typed, NEW r
    PROVE  /\ FiniteFamily([b \in Buckets |-> Holds(Visible(b).rows, r)])
           /\ FiniteFamily([q \in Workers |-> Moving(q, r)])
           /\ Copies(r) \in Nat /\ InFlight(r) \in Nat
           /\ \A q \in Workers : Cardinality(Moving(q, r)) \in Nat
  <1> DEFINE F == [b \in Buckets |-> Holds(Visible(b).rows, r)]
             M == [q \in Workers |-> Moving(q, r)]
  <1>1. \A b \in Buckets : IsFiniteSet(Holds(Visible(b).rows, r))
    BY HoldsFinite, VisibleTyped DEF Typed
  <1>2. \A q \in Workers : IsFiniteSet(Moving(q, r))
    BY HoldsFinite, JobTyped, FS_EmptySet DEF Moving
  <1>3. FiniteFamily(F)
    BY <1>1 DEF FiniteFamily
  <1>4. FiniteFamily(M)
    BY <1>2 DEF FiniteFamily
  <1>5. Copies(r) \in Nat
    BY <1>3, PairsFinite DEF Copies
  <1>6. InFlight(r) \in Nat
    BY <1>4, PairsFinite DEF InFlight
  <1>7. QED BY <1>2, <1>3, <1>4, <1>5, <1>6, FS_CardinalityType

(* The same after a step.                                                  *)
LEMMA CopiesFamilyPrimed ==
    ASSUME Typed', NEW r
    PROVE  /\ FiniteFamily([b \in Buckets |-> Holds(Visible(b)'.rows, r)])
           /\ FiniteFamily([q \in Workers |-> Moving(q, r)'])
           /\ Copies(r)' = Cardinality(Pairs([b \in Buckets |-> Holds(Visible(b)'.rows, r)]))
           /\ InFlight(r)' = Cardinality(Pairs([q \in Workers |-> Moving(q, r)']))
           /\ Copies(r)' \in Nat /\ InFlight(r)' \in Nat
           /\ \A q \in Workers : Cardinality(Moving(q, r)') \in Nat
  <1> DEFINE F == [b \in Buckets |-> Holds(Visible(b)'.rows, r)]
             M == [q \in Workers |-> Moving(q, r)']
  <1>1. \A b \in Buckets : IsTable(Visible(b)')
    <2>1. \A b \in Buckets : Visible(b)' = NoTable \/ \E g \in DOMAIN gens'[b] : Visible(b)' = gens'[b][g]
      BY DEF Visible, Resolves
    <2>2. QED BY <2>1, NoTableTyped DEF Typed, TablesTyped
  <1>2. \A b \in Buckets : IsFiniteSet(Holds(Visible(b)'.rows, r))
    BY <1>1, HoldsFinite
  <1>3. \A q \in Workers : job'[q].cells \in Seq(Cell)
    BY DEF Typed, JobsTyped, JobType
  <1>4. \A q \in Workers : IsFiniteSet(Moving(q, r)')
    BY <1>3, HoldsFinite, FS_EmptySet DEF Moving
  <1>5. FiniteFamily(F)
    BY <1>2 DEF FiniteFamily
  <1>6. FiniteFamily(M)
    BY <1>4 DEF FiniteFamily
  <1>7. Copies(r)' = Cardinality(Pairs(F)) /\ InFlight(r)' = Cardinality(Pairs(M))
    BY DEF Copies, InFlight
  <1>8. Cardinality(Pairs(F)) \in Nat /\ Cardinality(Pairs(M)) \in Nat
    BY <1>5, <1>6, PairsFinite
  <1>9. QED BY <1>4, <1>5, <1>6, <1>7, <1>8, FS_CardinalityType

(* What one worker's step does to what moves have still to delete.         *)
LEMMA InFlightAt ==
    ASSUME Typed, Typed', NEW p \in Workers, NEW r,
           \A q \in Workers : q # p => job'[q] = job[q]
    PROVE  InFlight(r)' + Cardinality(Moving(p, r)) = InFlight(r) + Cardinality(Moving(p, r)')
  <1> DEFINE M == [q \in Workers |-> Moving(q, r)]
             N == [q \in Workers |-> Moving(q, r)']
  <1>1. FiniteFamily(M) /\ FiniteFamily(N) /\ DOMAIN N = DOMAIN M /\ p \in DOMAIN M
    BY CopiesFamily, CopiesFamilyPrimed
  <1>2. \A q \in DOMAIN M : q # p => N[q] = M[q]
    BY DEF Moving
  <1>3. M[p] = Moving(p, r) /\ N[p] = Moving(p, r)'
    OBVIOUS
  <1>4. InFlight(r) = Cardinality(Pairs(M)) /\ InFlight(r)' = Cardinality(Pairs(N))
    BY CopiesFamilyPrimed DEF InFlight
  <1> HIDE DEF M, N
  <1>5. Cardinality(Pairs(N)) + Cardinality(M[p]) = Cardinality(Pairs(M)) + Cardinality(N[p])
    BY <1>1, <1>2, PairsAt
  <1>6. QED BY <1>3, <1>4, <1>5

(* A step that shows no further copy of a row.                             *)
LEMMA CopiesFewer ==
    ASSUME Typed, Typed', NEW r,
           \A b \in Buckets : Holds(Visible(b)'.rows, r) \subseteq Holds(Visible(b).rows, r)
    PROVE  Copies(r)' <= Copies(r)
  <1> DEFINE F == [b \in Buckets |-> Holds(Visible(b).rows, r)]
             G == [b \in Buckets |-> Holds(Visible(b)'.rows, r)]
  <1>1. FiniteFamily(F) /\ FiniteFamily(G) /\ DOMAIN G = DOMAIN F
    BY CopiesFamily, CopiesFamilyPrimed
  <1>2. \A b \in DOMAIN F : G[b] \subseteq F[b]
    OBVIOUS
  <1>3. Copies(r) = Cardinality(Pairs(F)) /\ Copies(r)' = Cardinality(Pairs(G))
    BY CopiesFamilyPrimed DEF Copies
  <1> HIDE DEF F, G
  <1>4. QED BY <1>1, <1>2, <1>3, PairsMonotone

(* A step that changes what one bucket shows.                              *)
LEMMA CopiesAt ==
    ASSUME Typed, Typed', NEW r, NEW b \in Buckets,
           \A c \in Buckets : c # b => Visible(c)' = Visible(c)
    PROVE  Copies(r)' + Count(Visible(b).rows, r) = Copies(r) + Count(Visible(b)'.rows, r)
  <1> DEFINE F == [c \in Buckets |-> Holds(Visible(c).rows, r)]
             G == [c \in Buckets |-> Holds(Visible(c)'.rows, r)]
  <1>1. FiniteFamily(F) /\ FiniteFamily(G) /\ DOMAIN G = DOMAIN F /\ b \in DOMAIN F
    BY CopiesFamily, CopiesFamilyPrimed
  <1>2. \A c \in DOMAIN F : c # b => G[c] = F[c]
    OBVIOUS
  <1>3. F[b] = Holds(Visible(b).rows, r) /\ G[b] = Holds(Visible(b)'.rows, r)
    OBVIOUS
  <1>4. Copies(r) = Cardinality(Pairs(F)) /\ Copies(r)' = Cardinality(Pairs(G))
    BY CopiesFamilyPrimed DEF Copies
  <1> HIDE DEF F, G
  <1>5. Cardinality(Pairs(G)) + Cardinality(F[b]) = Cardinality(Pairs(F)) + Cardinality(G[b])
    BY <1>1, <1>2, PairsAt
  <1>6. QED BY <1>3, <1>4, <1>5 DEF Count

(* A row that no bucket shows has no copies.                               *)
LEMMA UnseenHasNone ==
    ASSUME Typed, NEW r, Unseen(r)
    PROVE  Copies(r) = 0 /\ \A b \in Buckets : Count(Visible(b).rows, r) = 0
  <1> DEFINE F == [b \in Buckets |-> Holds(Visible(b).rows, r)]
  <1>1. FiniteFamily(F) /\ \A b \in DOMAIN F : F[b] = {}
    BY CopiesFamily DEF Unseen
  <1>2. Copies(r) = Cardinality(Pairs(F))
    BY DEF Copies
  <1> HIDE DEF F
  <1>3. Copies(r) = 0
    BY <1>1, <1>2, PairsEmpty
  <1>4. \A b \in Buckets : Count(Visible(b).rows, r) = 0
    BY FS_EmptySet DEF Unseen, Count
  <1>5. QED BY <1>3, <1>4

(* What the buckets show has been inserted.                                *)
LEMMA SeenIsBorn ==
    ASSUME Typed, \A b \in Buckets : TablesBorn(b), NEW r, r \notin born
    PROVE  Unseen(r)
  <1> SUFFICES ASSUME NEW b \in Buckets PROVE Holds(Visible(b).rows, r) = {}
    BY DEF Unseen
  <1>1. \A id \in DOMAIN Visible(b).rows : Visible(b).rows[id].row \in born
    BY VisibleExcused DEF TablesBorn
  <1>2. QED BY <1>1 DEF Holds

----------------------------------------------------------------------------
(* What a step of one worker must do to keep the counts.                   *)

\* A worker's next request brings nothing but what it brought, what some bucket shows, and rows
\* that are new; what it inserts it inserted before, or it is new.
BringsOld(p, j) ==
    /\ \A r \in RowsOf(ToSet(j.cells)) \cup RowsOf(j.fresh) :
         r \in Brings(p) \/ ~Unseen(r) \/ r \in born' \ born
    /\ j.gone = {} => \A r \in RowsOf(j.fresh) :
         (job[p].gone = {} /\ r \in RowsOf(job[p].fresh)) \/ r \in born' \ born

\* A row that no bucket shows stays so, but for what a finished request brought.
StaysUnseen(p, j) ==
    \A r \in Rows \ excused' : Unseen(r) /\ (r \in Brings(p) => r \in RowsOf(j.fresh)) => Unseen(r)'

(* The requests keep what they promise.                                    *)
LEMMA TurnRequests ==
    ASSUME CountInv, Typed', NEW p \in Workers, NEW at, NEW j, Becomes(p, at, j), KindFits(at, j),
           BringsOld(p, j), StaysUnseen(p, j), excused \subseteq excused', born \subseteq born'
    PROVE  RequestsCount'
  <1>1. Typed /\ (\A b \in Buckets : TablesBorn(b)) /\ RequestsCount
    BY DEF CountInv, Inv
  <1>2. /\ pc'[p] = at /\ job'[p] = j
        /\ \A q \in Workers : q # p => pc'[q] = pc[q] /\ job'[q] = job[q]
    BY <1>1, OthersSame
  <1>3. \A r : r \notin born => Unseen(r) /\ \A o \in Workers : r \notin Brings(o)
    BY <1>1, SeenIsBorn DEF RequestsCount
  <1>4. /\ Brings(p)' = RowsOf(ToSet(j.cells)) \cup RowsOf(j.fresh)
        /\ \A q \in Workers : q # p => Brings(q)' = Brings(q)
    BY <1>2 DEF Brings
  <1>5. \A r \in Brings(p)' : r \in Brings(p) \/ ~Unseen(r) \/ r \in born' \ born
    BY <1>4 DEF BringsOld
  <1>6. ASSUME NEW q \in Workers PROVE KindFits(pc'[q], job'[q]) /\ Brings(q)' \subseteq born'
    <2>1. CASE q = p
      BY <1>1, <1>2, <1>3, <1>5, <2>1 DEF RequestsCount
    <2>2. CASE q # p
      BY <1>1, <1>2, <1>4, <2>2 DEF RequestsCount
    <2>3. QED BY <2>1, <2>2
  <1>7. ASSUME NEW q \in Workers, job'[q].gone = {}, NEW r \in RowsOf(job'[q].fresh), r \notin excused'
        PROVE  Unseen(r)' /\ \A o \in Workers : o # q => r \notin Brings(o)'
    <2>1. r \in Rows
      BY RowsOfCells, <1>7 DEF Typed, JobsTyped, JobType
    <2>2. CASE q # p
      <3>1. job[q].gone = {} /\ r \in RowsOf(job[q].fresh) /\ r \notin excused
        BY <1>2, <1>7, <2>2
      <3>2. Unseen(r) /\ \A o \in Workers : o # q => r \notin Brings(o)
        BY <1>1, <3>1 DEF RequestsCount, FreshIsNew
      <3>3. r \in born
        BY <1>1, <3>1 DEF RequestsCount, Brings
      <3>4. r \notin Brings(p)'
        BY <1>5, <2>2, <3>2, <3>3
      <3>5. Unseen(r)'
        BY <1>7, <2>1, <2>2, <3>2 DEF StaysUnseen
      <3>6. QED BY <1>4, <3>2, <3>4, <3>5
    <2>3. CASE q = p
      <3>1. r \in RowsOf(j.fresh) /\ j.gone = {}
        BY <1>2, <1>7, <2>3
      <3>2. Unseen(r) /\ \A o \in Workers : o # p => r \notin Brings(o)
        <4>1. CASE r \notin born
          BY <1>3, <4>1
        <4>2. CASE r \in born
          <5>1. job[p].gone = {} /\ r \in RowsOf(job[p].fresh) /\ r \notin excused
            BY <1>7, <3>1, <4>2 DEF BringsOld
          <5>2. QED BY <1>1, <5>1 DEF RequestsCount, FreshIsNew
        <4>3. QED BY <4>1, <4>2
      <3>3. Unseen(r)'
        BY <1>7, <2>1, <3>1, <3>2 DEF StaysUnseen
      <3>4. QED BY <1>4, <2>3, <3>2, <3>3
    <2>4. QED BY <2>2, <2>3
  <1>8. \A q \in Workers : FreshIsNew(q)'
    BY <1>7 DEF FreshIsNew
  <1>9. QED BY <1>6, <1>8 DEF RequestsCount

\* A step that shows no further copies.
ShowsNoMore ==
    \A b \in Buckets : \A r \in Rows \ excused' :
      Holds(Visible(b)'.rows, r) \subseteq Holds(Visible(b).rows, r)

\* A deletion of a move that does not come about is accounted for.
Accounts(p) ==
    /\ extra' \in [Rows -> Nat]
    /\ \A r \in Rows \ excused' :
         extra[r] + Cardinality(Moving(p, r)) <= extra'[r] + Cardinality(Moving(p, r)')

(* The counts survive a step that shows no further copies.                 *)
LEMMA TurnCounted ==
    ASSUME CountInv, Typed', NEW p \in Workers, \A q \in Workers : q # p => job'[q] = job[q],
           excused \subseteq excused', born \subseteq born', ShowsNoMore, Accounts(p)
    PROVE  Counted'
  <1>1. Typed /\ (\A b \in Buckets : TablesBorn(b)) /\ Counted
    BY DEF CountInv, Inv
  <1> SUFFICES ASSUME NEW r \in born' \ excused'
               PROVE  Copies(r)' <= 1 + extra'[r] + InFlight(r)'
    BY DEF Counted, Accounts
  <1>2. r \in Rows
    BY DEF Typed, GhostTyped
  <1>3. Copies(r)' <= Copies(r)
    BY <1>1, <1>2, CopiesFewer DEF ShowsNoMore
  <1>4. InFlight(r)' + Cardinality(Moving(p, r)) = InFlight(r) + Cardinality(Moving(p, r)')
    BY <1>1, InFlightAt
  <1>5. extra[r] + Cardinality(Moving(p, r)) <= extra'[r] + Cardinality(Moving(p, r)')
    BY <1>2 DEF Accounts
  <1>6. /\ Copies(r) \in Nat /\ InFlight(r) \in Nat /\ extra[r] \in Nat
        /\ Cardinality(Moving(p, r)) \in Nat
    BY <1>1, <1>2, CopiesFamily DEF Counted
  <1>7. /\ Copies(r)' \in Nat /\ InFlight(r)' \in Nat /\ extra'[r] \in Nat
        /\ Cardinality(Moving(p, r)') \in Nat
    BY <1>2, CopiesFamilyPrimed DEF Accounts
  <1>8. CASE r \in born
    <2>1. Copies(r) <= 1 + extra[r] + InFlight(r)
      BY <1>1, <1>8 DEF Counted
    <2>2. QED BY <1>3, <1>4, <1>5, <1>6, <1>7, <2>1
  <1>9. CASE r \notin born
    <2>1. Copies(r) = 0
      BY <1>1, <1>9, SeenIsBorn, UnseenHasNone
    <2>2. QED BY <1>3, <1>7, <2>1
  <1>10. QED BY <1>8, <1>9

(* Everywhere a quiet step leaves the counts of staged tables.             *)
LEMMA QuietCounts ==
    ASSUME Typed, Typed', NEW b \in Buckets, SameRows(b), SameWriters(b), TableCounts(b)
    PROVE  TableCounts(b)'
  <1>1. Visible(b)' = Visible(b) /\ excused \subseteq excused'
    BY QuietShows DEF SameRows
  <1> SUFFICES ASSUME NEW q \in Reliable(b)', HasTable(q)', NEW r \in Rows \ excused'
               PROVE  Count(TableOf(q)'.rows, r) + Taken(q, r)'
                        <= Count(Visible(b)'.rows, r) + Added(q, r)'
    BY DEF TableCounts, Count, Taken, TakenBy, Added, AddedBy
  <1>2. /\ q \in Reliable(b) /\ HasTable(q) /\ TableOf(q)' = TableOf(q)
        /\ job'[q] = job[q] /\ job[q].into = b
    BY QuietTables
  <1>3. Taken(q, r)' = Taken(q, r) /\ Added(q, r)' = Added(q, r)
    BY <1>1, <1>2 DEF Taken, Added, TakenBy, AddedBy
  <1>4. QED BY <1>1, <1>2, <1>3 DEF TableCounts

(* Where everything is excused no count is promised.                       *)
LEMMA ExcusedCounts ==
    Typed => \A b \in Buckets : AllExcused(b) =>
      /\ TableCounts(b)
      /\ \A r \in Rows \ excused : Holds(Visible(b).rows, r) = {}
  <1> SUFFICES ASSUME Typed, NEW b \in Buckets, AllExcused(b)
               PROVE  /\ TableCounts(b)
                      /\ \A r \in Rows \ excused : Holds(Visible(b).rows, r) = {}
    OBVIOUS
  <1>1. \A id \in DOMAIN Visible(b).rows : Visible(b).rows[id].row \in excused
    BY VisibleExcused DEF AllExcused
  <1>2. ASSUME NEW q \in Reliable(b), HasTable(q), NEW r \in Rows \ excused
        PROVE  Count(TableOf(q).rows, r) + Taken(q, r) <= Count(Visible(b).rows, r) + Added(q, r)
    <2>1. q \in Workers /\ job[q].into = b
      BY DEF Reliable, Writers
    <2>2. \/ job[q].gen \in Staged(b) /\ TableOf(q) = stage[b][job[q].gen]
          \/ job[q].gen \in DOMAIN gens[b] /\ TableOf(q) = gens[b][job[q].gen]
      BY <1>2, <2>1 DEF HasTable, TableOf, Publishable, Staged
    <2>3. RowsOf(CellsOf(TableOf(q))) \subseteq excused /\ IsTable(TableOf(q))
      BY <2>2 DEF AllExcused, Typed, TablesTyped
    <2>4. Count(TableOf(q).rows, r) = 0
      <3>1. Holds(TableOf(q).rows, r) = {}
        BY <2>3, HoldsNone
      <3>2. QED BY <2>3, <3>1, CountTyped
    <2>5. /\ Added(q, r) \in Nat /\ Taken(q, r) \in Nat
          /\ Taken(q, r) <= Count(Visible(b).rows, r)
      BY <2>1, JobTyped, VisibleTyped, AddedTyped DEF Added, Taken, Typed
    <2>6. Count(Visible(b).rows, r) \in Nat
      BY VisibleTyped, CountTyped DEF Typed
    <2>7. QED BY <2>4, <2>5, <2>6
  <1>3. TableCounts(b)
    BY <1>2 DEF TableCounts
  <1>4. QED BY <1>1, <1>3 DEF Holds

(* The same after a step.                                                  *)
LEMMA ExcusedCountsPrimed ==
    (Typed => \A b \in Buckets : AllExcused(b) =>
      /\ TableCounts(b)
      /\ \A r \in Rows \ excused : Holds(Visible(b).rows, r) = {})'
  BY ExcusedCounts, PTL

(* A quiet step keeps what is born, and shows the same.                    *)
LEMMA QuietBorn ==
    ASSUME NEW b \in Buckets, TablesBorn(b), SameRows(b), born \subseteq born'
    PROVE  TablesBorn(b)'
  BY DEF TablesBorn, SameRows

\* A worker that ends its request, or goes on with the same rows.
SameLoad(p, j) == SameRequest(p, j) /\ j.gone = job[p].gone /\ j.fresh = job[p].fresh

(* The idle request brings nothing.                                        *)
LEMMA IdleLoad ==
    /\ RowsOf(ToSet(IdleJob.cells)) = {} /\ RowsOf(IdleJob.fresh) = {}
    /\ \A at : KindFits(at, IdleJob)
  <1>1. IdleJob.cells = <<>> /\ IdleJob.fresh = {}
    BY DEF IdleJob
  <1>2. RowsOf(ToSet(IdleJob.cells)) = {} /\ RowsOf(IdleJob.fresh) = {}
    BY <1>1 DEF RowsOf, ToSet
  <1>3. \A at : KindFits(at, IdleJob)
    BY IdleTask DEF KindFits
  <1>4. QED BY <1>2, <1>3

(* A worker that ends or goes on brings nothing new.                       *)
LEMMA LoadKept ==
    ASSUME NEW p, NEW j, j = IdleJob \/ SameLoad(p, j)
    PROVE  BringsOld(p, j)
  <1>1. CASE j = IdleJob
    BY <1>1, IdleLoad DEF BringsOld
  <1>2. CASE SameLoad(p, j)
    BY <1>2 DEF BringsOld, SameLoad, SameRequest, Brings
  <1>3. QED BY <1>1, <1>2

(* A step that is no deletion's, or leaves it under way.                   *)
LEMMA AccountsKept ==
    ASSUME CountInv, Typed', NEW p \in Workers, NEW j, job'[p] = j, extra' = extra,
           job[p].task # "delete" \/ SameRequest(p, j)
    PROVE  Accounts(p)
  <1>1. Typed /\ extra \in [Rows -> Nat]
    BY DEF CountInv, Inv, Counted
  <1> SUFFICES ASSUME NEW r \in Rows
               PROVE  extra[r] + Cardinality(Moving(p, r)) <= extra'[r] + Cardinality(Moving(p, r)')
    BY <1>1 DEF Accounts
  <1>2. Cardinality(Moving(p, r)') \in Nat /\ extra[r] \in Nat /\ Cardinality(Moving(p, r)) \in Nat
    BY <1>1, CopiesFamily, CopiesFamilyPrimed
  <1>3. CASE job[p].task # "delete"
    <2>1. Cardinality(Moving(p, r)) = 0
      BY <1>3, FS_EmptySet DEF Moving
    <2>2. QED BY <1>2, <2>1
  <1>4. CASE SameRequest(p, j)
    <2>1. Moving(p, r)' = Moving(p, r)
      BY <1>4 DEF Moving, SameRequest
    <2>2. QED BY <1>2, <2>1
  <1>5. QED BY <1>3, <1>4

(* Every copy that is accounted for is counted.                            *)
LEMMA OneMoreTyped ==
    ASSUME extra \in [Rows -> Nat], NEW cells \in Seq(Cell)
    PROVE  /\ OneMore(cells) \in [Rows -> Nat]
           /\ \A r \in Rows : OneMore(cells)[r] = extra[r] + Count(cells, r)
  <1>1. \A r \in Rows : Count(cells, r) \in Nat
    BY CountTyped
  <1>2. QED BY <1>1 DEF OneMore, Count

(* A deletion that fails is reported.                                      *)
LEMMA AccountsFailed ==
    ASSUME CountInv, Typed', NEW p \in Workers, Fails(p)
    PROVE  Accounts(p)
  <1>1. Typed /\ extra \in [Rows -> Nat]
    BY DEF CountInv, Inv, Counted
  <1>2. job[p].cells \in Seq(Cell)
    BY <1>1, JobTyped
  <1>3. CASE job[p].task # "delete"
    BY <1>3, AccountsKept DEF Fails
  <1>4. CASE job[p].task = "delete"
    <2>1. extra' = OneMore(job[p].cells)
      BY <1>4 DEF Fails
    <2>2. extra' \in [Rows -> Nat] /\ \A r \in Rows : extra'[r] = extra[r] + Count(job[p].cells, r)
      BY <1>1, <1>2, <2>1, OneMoreTyped
    <2>3. \A r \in Rows : Cardinality(Moving(p, r)) = Count(job[p].cells, r)
      BY <1>4 DEF Moving, Count
    <2>4. \A r \in Rows : /\ Cardinality(Moving(p, r)') \in Nat /\ extra[r] \in Nat
                          /\ Cardinality(Moving(p, r)) \in Nat
      BY <1>1, CopiesFamily, CopiesFamilyPrimed
    <2>5. QED BY <2>2, <2>3, <2>4 DEF Accounts
  <1>5. QED BY <1>3, <1>4

(* What a step of one worker that shows no further copies has to keep.     *)
LEMMA TurnCounts ==
    ASSUME CountInv, Inv', NEW p \in Workers, NEW at, NEW j, Becomes(p, at, j), KindFits(at, j),
           BringsOld(p, j), ShowsNoMore, Accounts(p), excused \subseteq excused',
           born \subseteq born', \A b \in Buckets : TablesBorn(b)' /\ TableCounts(b)'
    PROVE  CountInv'
  <1>1. Typed /\ Typed'
    BY DEF CountInv, Inv
  <1>2. StaysUnseen(p, j)
    BY DEF StaysUnseen, ShowsNoMore, Unseen
  <1>3. RequestsCount'
    BY <1>1, <1>2, TurnRequests
  <1>4. \A q \in Workers : q # p => job'[q] = job[q]
    BY <1>1, OthersSame
  <1>5. Counted'
    BY <1>1, <1>4, TurnCounted
  <1>6. QED BY <1>3, <1>5 DEF CountInv

(* A quiet step keeps the counts.                                          *)
LEMMA QuietTurn ==
    ASSUME CountInv, Inv', NEW p \in Workers, NEW at, NEW j, Becomes(p, at, j), KindFits(at, j),
           BringsOld(p, j), Accounts(p), excused \subseteq excused', born \subseteq born',
           \A b \in Buckets : SameRows(b) /\ SameWriters(b)
    PROVE  CountInv'
  <1>1. Typed /\ Typed' /\ \A b \in Buckets : TablesBorn(b) /\ TableCounts(b)
    BY DEF CountInv, Inv
  <1>2. \A b \in Buckets : TablesBorn(b)' /\ TableCounts(b)'
    BY <1>1, QuietBorn, QuietCounts
  <1>3. \A b \in Buckets : Visible(b)' = Visible(b)
    BY <1>1, QuietShows
  <1>4. ShowsNoMore
    BY <1>3 DEF ShowsNoMore
  <1>5. QED BY <1>2, <1>4, TurnCounts

----------------------------------------------------------------------------
(* Requests and the steps that write no table.                             *)

(* A row that a bucket shows is seen.                                      *)
LEMMA ShownIsSeen ==
    ASSUME NEW b \in Buckets, NEW id \in DOMAIN Visible(b).rows
    PROVE  ~Unseen(Visible(b).rows[id].row)
  <1>1. id \in Holds(Visible(b).rows, Visible(b).rows[id].row)
    BY DEF Holds
  <1>2. QED BY <1>1 DEF Unseen

\* What a new request of a worker is.
Requests(p, at, j) ==
    /\ Becomes(p, at, j) /\ at \in {"make", "begin", "sweep"} /\ KindFits(at, j)
    /\ BringsOld(p, j) /\ j.task # "delete" /\ extra' = extra /\ born \subseteq born'

(* The requests that concern one bucket bring no rows.                     *)
LEMMA SimpleRequestsCount ==
    ASSUME NEW p \in Workers, NEW b \in Buckets,
           StartCreate(p, b) \/ StartRename(p, b) \/ StartDelete(p, b) \/ StartMutate(p, b)
    PROVE  \E at, j : Requests(p, at, j)
  <1> DEFINE Plain(j) == /\ j.cells = <<>> /\ j.fresh = {}
                         /\ \/ j.task = "none" /\ j.kind # "import"
                            \/ j.task = "mutate" /\ j.kind = "mutate"
  <1>1. ASSUME NEW j, Plain(j), NEW at \in {"make", "begin", "sweep"}, Begun(p, j, at),
               UNCHANGED ghost
        PROVE  Requests(p, at, j)
    <2>1. RowsOf(ToSet(j.cells)) = {} /\ RowsOf(j.fresh) = {}
      BY <1>1 DEF RowsOf, ToSet
    <2>2. KindFits(at, j) /\ j.task # "delete"
      BY <1>1 DEF KindFits
    <2>3. BringsOld(p, j)
      BY <2>1 DEF BringsOld
    <2>4. Becomes(p, at, j) /\ extra' = extra /\ born' = born
      BY <1>1 DEF Begun, Becomes, ghost
    <2>5. QED BY <2>2, <2>3, <2>4 DEF Requests
  <1>2. CASE StartCreate(p, b)
    <2>1. PICK j : j = [IdleJob EXCEPT !.kind = "create", !.into = b]
      OBVIOUS
    <2>2. Plain(j)
      BY <2>1 DEF IdleJob
    <2>3. Begun(p, j, "make") /\ UNCHANGED ghost
      BY <1>2, <2>1 DEF StartCreate
    <2> HIDE DEF Plain
    <2>4. QED BY <1>1, <2>2, <2>3
  <1>3. CASE StartRename(p, b)
    <2>1. PICK j : j = [IdleJob EXCEPT !.kind = "rename", !.into = b]
      OBVIOUS
    <2>2. Plain(j)
      BY <2>1 DEF IdleJob
    <2>3. Begun(p, j, "make") /\ UNCHANGED ghost
      BY <1>3, <2>1 DEF StartRename
    <2> HIDE DEF Plain
    <2>4. QED BY <1>1, <2>2, <2>3
  <1>4. CASE StartDelete(p, b)
    <2>1. PICK j, todo : todo = names[b] /\ j = [IdleJob EXCEPT !.kind = "delete", !.into = b, !.todo = todo]
      OBVIOUS
    <2>2. Plain(j)
      BY <2>1 DEF IdleJob
    <2>3. Begun(p, j, "sweep") /\ UNCHANGED ghost
      BY <1>4, <2>1 DEF StartDelete
    <2> HIDE DEF Plain
    <2>4. QED BY <1>1, <2>2, <2>3
  <1>5. CASE StartMutate(p, b)
    <2>1. PICK j : j = [IdleJob EXCEPT !.kind = "mutate", !.into = b, !.task = "mutate"]
      OBVIOUS
    <2>2. Plain(j)
      BY <2>1 DEF IdleJob
    <2>3. Begun(p, j, "begin") /\ UNCHANGED ghost
      BY <1>5, <2>1 DEF StartMutate
    <2> HIDE DEF Plain
    <2>4. QED BY <1>1, <2>2, <2>3
  <1>6. QED BY <1>2, <1>3, <1>4, <1>5

(* An import brings one new row.                                           *)
LEMMA ImportCounts ==
    ASSUME NEW p \in Workers, NEW b \in Buckets, NEW r \in Rows, StartImport(p, b, r)
    PROVE  \E at, j : Requests(p, at, j)
  <1>1. PICK cells, fresh : cells = <<NewCell(r)>> /\ fresh = {NewCell(r)}
    OBVIOUS
  <1>2. PICK j : j = [IdleJob EXCEPT !.kind = "import", !.into = b, !.task = "initial",
                                     !.cells = cells, !.fresh = fresh]
    OBVIOUS
  <1>3. j.cells = cells /\ j.fresh = fresh /\ j.kind = "import" /\ j.task = "initial"
    BY <1>2 DEF IdleJob
  <1>4. RowsOf(ToSet(cells)) = {r} /\ RowsOf(fresh) = {r}
    BY <1>1 DEF RowsOf, ToSet, NewCell
  <1>5. \A x \in Rows : Count(cells, x) <= 1
    BY <1>1, SingleCount
  <1>6. KindFits("begin", j)
    BY <1>3, <1>4, <1>5 DEF KindFits
  <1>7. born' = born \cup {r} /\ r \notin born /\ extra' = extra
    BY DEF StartImport
  <1>8. BringsOld(p, j)
    BY <1>3, <1>4, <1>7 DEF BringsOld
  <1>9. Becomes(p, "begin", j)
    <2>1. Begun(p, j, "begin")
      BY <1>1, <1>2 DEF StartImport
    <2>2. QED BY <2>1 DEF Begun, Becomes
  <1>10. QED BY <1>3, <1>6, <1>7, <1>8, <1>9 DEF Requests

(* What is listed in order is in the table.                                *)
LEMMA InOrderTakes ==
    ASSUME NEW t, IsTable(t), NEW ids, ids \subseteq DOMAIN t.rows
    PROVE  \A i \in DOMAIN InOrder(t, ids) : \E id \in ids : InOrder(t, ids)[i] = t.rows[id]
  <1>1. t.top \in Int /\ ids \subseteq 0..t.top
    BY DEF IsTable
  <1>2. IsFiniteSet(0..t.top)
    BY <1>1, FS_Interval
  <1>3. IdSet(ids)
    BY <1>1, <1>2, FS_Subset DEF IdSet
  <1>4. Ascending(ids) \in [1..Cardinality(ids) -> ids]
    BY <1>3, AscendingOrder
  <1>5. QED BY <1>4 DEF InOrder

(* A transfer brings rows of its source.                                   *)
LEMMA TransferCounts ==
    ASSUME Typed, NEW p \in Workers, NEW s \in Buckets, NEW d \in Buckets,
           NEW ids \in SUBSET DOMAIN Visible(s).rows, NEW move \in BOOLEAN,
           StartTransfer(p, s, d, ids, move)
    PROVE  \E at, j : Requests(p, at, j)
  <1>1. PICK cells, kind, task :
          /\ cells = InOrder(Visible(s), ids)
          /\ kind = (IF move THEN "move" ELSE "copy")
          /\ task = (IF Resolves(d) THEN "insert" ELSE "initial")
    OBVIOUS
  <1>2. PICK j : j = [IdleJob EXCEPT !.kind = kind, !.from = {s}, !.into = d, !.ids = ids,
                                     !.cells = cells, !.task = task]
    OBVIOUS
  <1>3. j.cells = cells /\ j.fresh = {} /\ j.kind = kind /\ j.task = task
    BY <1>2 DEF IdleJob
  <1>4. \A r \in RowsOf(ToSet(cells)) : ~Unseen(r)
    <2> SUFFICES ASSUME NEW i \in DOMAIN cells PROVE ~Unseen(cells[i].row)
      BY DEF RowsOf, ToSet
    <2>1. IsTable(Visible(s))
      BY VisibleTyped DEF Typed
    <2>2. PICK id \in ids : cells[i] = Visible(s).rows[id]
      BY <1>1, <2>1, InOrderTakes
    <2>3. QED BY <2>2, ShownIsSeen
  <1>5. RowsOf(j.fresh) = {}
    BY <1>3 DEF RowsOf
  <1>6. BringsOld(p, j)
    BY <1>3, <1>4, <1>5 DEF BringsOld
  <1>7. KindFits("begin", j) /\ j.task # "delete"
    BY <1>1, <1>3 DEF KindFits
  <1>8. Begun(p, j, "begin") /\ UNCHANGED ghost
    BY <1>1, <1>2 DEF StartTransfer
  <1>9. Becomes(p, "begin", j) /\ extra' = extra /\ born' = born
    BY <1>8 DEF Begun, Becomes, ghost
  <1>10. QED BY <1>6, <1>7, <1>9 DEF Requests

(* A combination brings the rows of its sources.                           *)
LEMMA CombineCounts ==
    ASSUME Typed, NEW p \in Workers, NEW S \in SUBSET Buckets, NEW t \in Buckets,
           StartCombine(p, S, t)
    PROVE  \E at, j : Requests(p, at, j)
  <1>1. PICK list, cells :
          /\ list \in Listings(S)
          /\ cells = [i \in DOMAIN list |-> Visible(list[i][1]).rows[list[i][2]]]
          /\ Begun(p, [IdleJob EXCEPT !.kind = "combine", !.from = S, !.into = t,
                                      !.cells = cells, !.task = "initial"], "make")
    BY DEF StartCombine
  <1>2. PICK j : j = [IdleJob EXCEPT !.kind = "combine", !.from = S, !.into = t,
                                     !.cells = cells, !.task = "initial"]
    OBVIOUS
  <1>3. j.cells = cells /\ j.fresh = {} /\ j.kind = "combine" /\ j.task = "initial"
    BY <1>2 DEF IdleJob
  <1>4. \A r \in RowsOf(ToSet(cells)) : ~Unseen(r)
    <2> SUFFICES ASSUME NEW i \in DOMAIN cells PROVE ~Unseen(cells[i].row)
      BY DEF RowsOf, ToSet
    <2>1. list \in [1..Cardinality(Places(S)) -> Places(S)]
      BY <1>1 DEF Listings
    <2>2. i \in DOMAIN list /\ list[i] \in Places(S)
      BY <1>1, <2>1
    <2>3. list[i][1] \in Buckets /\ list[i][2] \in DOMAIN Visible(list[i][1]).rows
      BY <2>2, PlacesFinite
    <2>4. cells[i] = Visible(list[i][1]).rows[list[i][2]]
      BY <1>1, <2>2
    <2>5. QED BY <2>3, <2>4, ShownIsSeen
  <1>5. RowsOf(j.fresh) = {}
    BY <1>3 DEF RowsOf
  <1>6. BringsOld(p, j)
    BY <1>3, <1>4, <1>5 DEF BringsOld
  <1>7. KindFits("make", j) /\ j.task # "delete"
    BY <1>3 DEF KindFits
  <1>8. UNCHANGED ghost /\ Begun(p, j, "make")
    BY <1>1, <1>2 DEF StartCombine
  <1>9. Becomes(p, "make", j) /\ extra' = extra /\ born' = born
    BY <1>8 DEF Begun, Becomes, ghost
  <1>10. QED BY <1>6, <1>7, <1>9 DEF Requests

(* A new request keeps the counts.                                         *)
LEMMA RequestCounts ==
    ASSUME CountInv, Inv', NEW p \in Workers, Request(p)
    PROVE  CountInv'
  <1>1. Typed /\ Locks /\ Typed'
    BY DEF CountInv, Inv
  <1>2. /\ pc[p] = "idle" /\ UNCHANGED <<disk, excused, used, doomed>>
    BY <1>1, RequestEffect
  <1>3. \E at, j : Requests(p, at, j)
    <2>1. CASE \E b \in Buckets : StartCreate(p, b) \/ StartRename(p, b) \/ StartDelete(p, b)
                                  \/ StartMutate(p, b)
      BY <2>1, SimpleRequestsCount
    <2>2. CASE \E b \in Buckets, r \in Rows : StartImport(p, b, r)
      BY <2>2, ImportCounts
    <2>3. CASE \E s, d \in Buckets : \E ids \in SUBSET DOMAIN Visible(s).rows, move \in BOOLEAN :
                 StartTransfer(p, s, d, ids, move)
      <3>1. PICK s \in Buckets, d \in Buckets :
                   \E ids \in SUBSET DOMAIN Visible(s).rows, move \in BOOLEAN :
                     StartTransfer(p, s, d, ids, move)
        BY <2>3
      <3>2. QED BY <1>1, <3>1, TransferCounts
    <2>4. CASE \E S \in SUBSET Buckets, t \in Buckets : StartCombine(p, S, t)
      BY <1>1, <2>4, CombineCounts
    <2>5. QED BY <2>1, <2>2, <2>3, <2>4 DEF Request
  <1>4. PICK at, j : Requests(p, at, j)
    BY <1>3
  <1>5. /\ Becomes(p, at, j) /\ KindFits(at, j) /\ BringsOld(p, j) /\ at \notin Writing
        /\ extra' = extra /\ born \subseteq born'
    BY <1>4 DEF Requests, Writing
  <1>6. UNCHANGED <<names, gens, current, stage>>
    BY <1>2 DEF disk
  <1>7. \A b \in Buckets : SameRows(b)
    BY <1>2, <1>6 DEF SameRows, Staged
  <1>8. \A b \in Buckets : SameWriters(b)
    BY <1>1, <1>2, <1>5, WritersSame
  <1>9. Accounts(p)
    <2>1. job[p].task # "delete"
      BY <1>1, <1>2, IdleTask DEF Typed, JobsTyped, Shape
    <2>2. job'[p] = j
      BY <1>1, <1>5, OthersSame
    <2>3. QED BY <1>1, <1>5, <2>1, <2>2, AccountsKept
  <1>10. QED BY <1>2, <1>5, <1>7, <1>8, <1>9, QuietTurn

(* A worker goes on with a request of its kind.                            *)
LEMMA KindKept ==
    ASSUME CountInv, NEW p \in Workers, NEW at, NEW j, SameLoad(p, j),
           \/ at \in Writing \cup {"begin"} \/ pc[p] \notin Writing \cup {"begin"}
           \/ job[p].task # "delete"
    PROVE  KindFits(at, j)
  <1>1. KindFits(pc[p], job[p])
    BY DEF CountInv, RequestsCount
  <1>2. QED BY <1>1 DEF KindFits, SameLoad, SameRequest

(* What is left to remove is no part of what a request brings.             *)
LEMMA TodoLoad ==
    ASSUME Typed, NEW p \in Workers, NEW j, NEW todo, j = [job[p] EXCEPT !.todo = todo]
    PROVE  SameLoad(p, j)
  BY JobTyped DEF SameLoad, SameRequest, JobType

(* Making a directory and deciding on its removal.                         *)
LEMMA DirectoryCounts ==
    ASSUME CountInv, Inv', NEW p \in Workers,
           MakeBucket(p) \/ MakeBucketFails(p) \/ UndoCombine(p) \/ SweepEnds(p)
    PROVE  CountInv'
  <1>1. Typed /\ Typed'
    BY DEF CountInv, Inv
  <1>2. UNCHANGED <<gens, current, stage, ghost>>
    BY DEF MakeBucket, MakeBucketFails, UndoCombine, SweepEnds, disk
  <1>3. \A b \in Buckets : "CURRENT" \in names'[b] <=> "CURRENT" \in names[b]
    <2>1. CASE MakeBucket(p)
      <3>1. PICK d : d = job[p].into
        OBVIOUS
      <3>2. names' = [names EXCEPT ![d] = @ \cup {"meta"}]
        BY <2>1, <3>1 DEF MakeBucket
      <3>3. QED BY <1>1, <3>2 DEF Typed, Domains
    <2>2. CASE MakeBucketFails(p) \/ UndoCombine(p) \/ SweepEnds(p)
      BY <2>2 DEF MakeBucketFails, UndoCombine, SweepEnds, disk
    <2>3. QED BY <2>1, <2>2
  <1>4. \E j, at : /\ Becomes(p, at, j) /\ at \in {"idle", "begin", "sweep"}
                   /\ j = IdleJob \/ SameLoad(p, j)
    <2>1. SameLoad(p, job[p])
      BY DEF SameLoad, SameRequest
    <2>2. \A j : (\E todo : j = [job[p] EXCEPT !.todo = todo]) => SameLoad(p, j)
      BY <1>1, TodoLoad
    <2>3. QED BY <1>1, <2>1, <2>2, MakeTyped, MakeFailsTyped, UndoTyped, SweepEndsTyped
  <1>5. PICK j, at : /\ Becomes(p, at, j) /\ at \in {"idle", "begin", "sweep"}
                     /\ j = IdleJob \/ SameLoad(p, j)
    BY <1>4
  <1>6. pc[p] \notin Writing \cup {"begin"} /\ at \notin Writing
    BY <1>5 DEF MakeBucket, MakeBucketFails, UndoCombine, SweepEnds, Writing
  <1>7. KindFits(at, j)
    BY <1>5, <1>6, KindKept, IdleLoad
  <1>8. UNCHANGED <<excused, used, doomed, extra, born>>
    BY <1>2 DEF ghost
  <1>9. job[p].task # "delete"
    BY <1>6 DEF CountInv, RequestsCount, KindFits
  <1>10. Accounts(p)
    <2>1. job'[p] = j
      BY <1>1, <1>5, OthersSame
    <2>2. QED BY <1>1, <1>8, <1>9, <2>1, AccountsKept
  <1>11. \A b \in Buckets : SameRows(b)
    BY <1>2, <1>3, <1>8 DEF SameRows, Staged
  <1>12. \A b \in Buckets : SameWriters(b)
    BY <1>1, <1>5, <1>6, <1>8, WritersSame
  <1>13. BringsOld(p, j)
    BY <1>5, LoadKept
  <1>14. QED BY <1>5, <1>7, <1>8, <1>10, <1>11, <1>12, <1>13, QuietTurn

(* A writer that fails keeps the counts.                                   *)
LEMMA FailureCounts ==
    ASSUME CountInv, Inv', NEW p \in Workers, Fails(p), pc[p] # "idle", UNCHANGED <<gens, current>>,
           \A b \in Buckets : "CURRENT" \in names'[b] <=> "CURRENT" \in names[b],
           \A b \in Buckets : \A g \in Staged(b)' : g \in Staged(b) /\ stage'[b][g] = stage[b][g]
    PROVE  CountInv'
  <1>1. Typed /\ Typed'
    BY DEF CountInv, Inv
  <1>2. UNCHANGED <<excused, used, born>> /\ doomed' = doomed \ {p}
    BY DEF Fails
  <1>3. \E at, j : /\ Becomes(p, at, j) /\ at \notin Writing /\ KindFits(at, j)
                   /\ j = IdleJob \/ SameLoad(p, j)
    <2>1. CASE job[p].kind = "combine"
      <3>1. Becomes(p, "undo", job[p])
        <4>1. job' = [job EXCEPT ![p] = job[p]]
          BY <1>1, <2>1 DEF Fails, Typed, JobsTyped
        <4>2. QED BY <2>1, <4>1 DEF Fails, Becomes
      <3>2. SameLoad(p, job[p])
        BY DEF SameLoad, SameRequest
      <3>3. job[p].task # "delete"
        BY <1>1, <2>1, JobTyped DEF Shape
      <3>4. KindFits("undo", job[p])
        BY <3>2, <3>3, KindKept
      <3>5. QED BY <3>1, <3>2, <3>4 DEF Writing
    <2>2. CASE job[p].kind # "combine"
      BY <1>1, <2>2, EndsBecomes, IdleLoad DEF Fails, Typed, Writing
    <2>3. QED BY <2>1, <2>2
  <1>4. PICK at, j : /\ Becomes(p, at, j) /\ at \notin Writing /\ KindFits(at, j)
                     /\ j = IdleJob \/ SameLoad(p, j)
    BY <1>3
  <1>5. Accounts(p)
    BY <1>1, AccountsFailed
  <1>6. \A b \in Buckets : SameRows(b)
    BY <1>2 DEF SameRows
  <1>7. \A b \in Buckets : SameWriters(b)
    BY <1>1, <1>2, <1>4, WritersSame
  <1>8. BringsOld(p, j)
    BY <1>4, LoadKept
  <1>9. QED BY <1>2, <1>4, <1>5, <1>6, <1>7, <1>8, QuietTurn

(* Abandoning and not publishing a generation.                             *)
LEMMA WriterFailsCounts ==
    ASSUME CountInv, Inv', NEW p \in Workers, PrepareFails(p) \/ PublishFails(p)
    PROVE  CountInv'
  <1>1. Typed
    BY DEF CountInv, Inv
  <1>2. UNCHANGED <<gens, current, names>> /\ Fails(p) /\ pc[p] # "idle"
    BY DEF PrepareFails, PublishFails
  <1>3. \A b \in Buckets : \A g \in Staged(b)' : g \in Staged(b) /\ stage'[b][g] = stage[b][g]
    <2>1. CASE PrepareFails(p)
      <3>1. PICK c, n : c = job[p].into /\ n = job[p].gen
        OBVIOUS
      <3>2. stage' = [stage EXCEPT ![c] = Without(stage[c], n)]
        BY <2>1, <3>1 DEF PrepareFails
      <3>3. QED BY <1>1, <3>2 DEF Typed, Domains, Staged, Without
    <2>2. CASE PublishFails(p)
      BY <2>2 DEF PublishFails, Staged
    <2>3. QED BY <2>1, <2>2
  <1>4. QED BY <1>2, <1>3, FailureCounts

(* Beginning a generation keeps the counts.                                *)
LEMMA BeginCounts ==
    ASSUME CountInv, Inv', NEW p \in Workers, Begin(p)
    PROVE  CountInv'
  <1>1. Typed /\ Typed'
    BY DEF CountInv, Inv
  <1>2. PICK b \in Buckets : b = job[p].into
    BY <1>1, JobTyped DEF Begin
  <1>3. /\ UNCHANGED <<gens, current>> /\ pc[p] = "begin"
        /\ names' = [names EXCEPT ![b] = @ \cup {"generations", "locks"}]
    BY <1>2 DEF Begin
  <1>4. \A c \in Buckets : "CURRENT" \in names'[c] <=> "CURRENT" \in names[c]
    BY <1>1, <1>3 DEF Typed, Domains
  <1>5. PICK n : n = NextId(b)
    OBVIOUS
  <1>6. CASE LockFree(b) /\ n \notin DOMAIN stage[b]
    <2>1. PICK j : j = [job[p] EXCEPT !.gen = n]
      OBVIOUS
    <2>2. /\ stage' = [stage EXCEPT ![b] = Put(stage[b], n, Building)]
          /\ job' = [job EXCEPT ![p].gen = n] /\ pc' = [pc EXCEPT ![p] = "prepare"]
          /\ UNCHANGED ghost
      BY <1>2, <1>5, <1>6 DEF Begin
    <2>3. Becomes(p, "prepare", j)
      BY <1>1, <2>1, <2>2 DEF Becomes, Typed, JobsTyped
    <2>4. UNCHANGED <<excused, used, doomed, extra, born>>
      BY <2>2 DEF ghost
    <2>5. SameLoad(p, j) /\ j.gen = n
      BY <1>1, <2>1, JobTyped DEF SameLoad, SameRequest, JobType
    <2>6. /\ pc'[p] = "prepare" /\ job'[p] = j
          /\ \A q \in Workers : q # p => pc'[q] = pc[q] /\ job'[q] = job[q]
      BY <1>1, <2>3, OthersSame
    <2>7. "CURRENT" \in names[b] => current[b] # n
      <3>1. DirectoryTyped(b)
        BY <1>1 DEF Typed
      <3>2. "CURRENT" \in names[b] => current[b] < n
        BY <1>5, <3>1, NextIdTyped
      <3>3. QED BY <3>1, <3>2 DEF DirectoryTyped
    <2>8. \A c \in Buckets : SameRows(c)
      <3> TAKE c \in Buckets
      <3>1. \A g \in Staged(c)' : g \in Staged(c) /\ stage'[c][g] = stage[c][g]
        BY <1>1, <1>6, <2>2 DEF Typed, Domains, Staged, Put
      <3>2. QED BY <1>3, <1>4, <2>4, <3>1 DEF SameRows
    <2>9. ASSUME NEW c \in Buckets PROVE SameWriters(c)
      <3> SUFFICES ASSUME NEW q \in Reliable(c)'
                   PROVE  \/ q \in Reliable(c) /\ pc'[q] = pc[q] /\ job'[q] = job[q]
                          \/ /\ pc'[q] = "prepare"
                             /\ "CURRENT" \in names[c] => current[c] # job'[q].gen
        BY DEF SameWriters
      <3>1. CASE q # p
        BY <2>4, <2>6, <3>1 DEF Reliable, Writers
      <3>2. CASE q = p
        <4>1. c = b
          BY <1>2, <2>5, <2>6, <3>2 DEF Reliable, Writers, SameLoad, SameRequest
        <4>2. QED BY <2>5, <2>6, <2>7, <3>2, <4>1
      <3>3. QED BY <3>1, <3>2
    <2>10. KindFits("prepare", j)
      BY <2>5, KindKept DEF Writing
    <2>11. Accounts(p) /\ BringsOld(p, j)
      BY <1>1, <2>4, <2>5, <2>6, AccountsKept, LoadKept DEF SameLoad
    <2>12. QED BY <2>3, <2>4, <2>8, <2>9, <2>10, <2>11, QuietTurn
  <1>7. CASE ~(LockFree(b) /\ n \notin DOMAIN stage[b])
    <2>1. Fails(p) /\ UNCHANGED <<holder, stage>>
      BY <1>2, <1>5, <1>7 DEF Begin
    <2>2. \A c \in Buckets : \A g \in Staged(c)' : g \in Staged(c) /\ stage'[c][g] = stage[c][g]
      BY <2>1 DEF Staged
    <2>3. QED BY <1>3, <1>4, <2>1, <2>2, FailureCounts
  <1>8. QED BY <1>6, <1>7

(* Removing an entry of a directory shows less, and dooms the writers.     *)
LEMMA SweepCounts ==
    ASSUME CountInv, Inv', NEW p \in Workers, NEW n \in Entries, SweepEntry(p, n)
    PROVE  CountInv'
  <1>1. Typed /\ Locks /\ Typed'
    BY DEF CountInv, Inv
  <1>2. PICK b \in Buckets : b = job[p].into
    BY <1>1, JobTyped DEF SweepEntry
  <1>3. PICK j \in JobType : Becomes(p, "sweep", j) /\ \E todo : j = [job[p] EXCEPT !.todo = todo]
    BY <1>1, SweepTyped
  <1>4. SameLoad(p, j)
    BY <1>1, <1>3, TodoLoad
  <1>5. /\ names' = [names EXCEPT ![b] = @ \ n] /\ pc[p] = "sweep"
        /\ IF "generations" \in n
             THEN gens' = [gens EXCEPT ![b] = <<>>] /\ stage' = [stage EXCEPT ![b] = <<>>]
             ELSE UNCHANGED <<gens, stage>>
        /\ current' = (IF "CURRENT" \in n THEN [current EXCEPT ![b] = 0] ELSE current)
        /\ doomed' = doomed \cup Writers(b) /\ UNCHANGED <<used, extra, born>>
    BY <1>2 DEF SweepEntry
  <1>6. excused \subseteq excused'
    BY DEF SweepEntry
  <1>7. "sweep" \notin Writing \cup {"begin"}
    BY DEF Writing
  <1>8. ASSUME NEW c \in Buckets, c # b PROVE SameRows(c) /\ SameWriters(c)
    <2>1. SameWriters(c)
      BY <1>1, <1>2, <1>3, <1>5, <1>7, <1>8, WritersElsewhere
    <2>2. /\ gens'[c] = gens[c] /\ stage'[c] = stage[c] /\ current'[c] = current[c]
          /\ names'[c] = names[c]
      BY <1>1, <1>5, <1>8 DEF Typed, Domains
    <2>3. QED BY <1>5, <1>6, <2>1, <2>2 DEF SameRows, Staged
  <1>9. Reliable(b)' = {}
    <2>1. /\ pc'[p] = "sweep"
          /\ \A q \in Workers : q # p => pc'[q] = pc[q] /\ job'[q] = job[q]
      BY <1>1, <1>3, OthersSame
    <2>2. QED BY <1>5, <1>7, <2>1 DEF Reliable, Writers
  <1>10. TableCounts(b)'
    BY <1>9 DEF TableCounts
  <1>11. TablesBorn(b)'
    <2>1. \A g \in DOMAIN gens'[b] : g \in DOMAIN gens[b] /\ gens'[b][g] = gens[b][g]
      BY <1>1, <1>5 DEF Typed, Domains
    <2>2. \A g \in Staged(b)' : g \in Staged(b) /\ stage'[b][g] = stage[b][g]
      BY <1>1, <1>5 DEF Typed, Domains, Staged
    <2>3. TablesBorn(b)
      BY DEF CountInv
    <2>4. QED BY <1>5, <2>1, <2>2, <2>3 DEF TablesBorn
  <1>12. \A c \in Buckets : TablesBorn(c)' /\ TableCounts(c)'
    <2>1. \A c \in Buckets : TablesBorn(c) /\ TableCounts(c)
      BY DEF CountInv
    <2>2. QED BY <1>1, <1>5, <1>8, <1>10, <1>11, <2>1, QuietBorn, QuietCounts
  <1>13. Visible(b)' = Visible(b) \/ Visible(b)' = NoTable
    <2>1. CASE n = {"meta", "locks"}
      <3>1. SameRows(b)
        BY <1>1, <1>5, <1>6, <2>1 DEF Typed, Domains, SameRows, Staged
      <3>2. QED BY <1>1, <3>1, QuietShows
    <2>2. CASE n \in {{"CURRENT"}, {"generations"}}
      BY <1>1, <1>5, <2>2 DEF Typed, Domains, Visible, Resolves
    <2>3. QED BY <2>1, <2>2 DEF Entries
  <1>14. ShowsNoMore
    <2>1. \A c \in Buckets : c # b => Visible(c)' = Visible(c)
      BY <1>1, <1>8, QuietShows
    <2>2. \A r : Holds(NoTable.rows, r) = {}
      BY NoTableTyped DEF Holds
    <2>3. QED BY <1>13, <2>1, <2>2 DEF ShowsNoMore
  <1>15. Accounts(p) /\ BringsOld(p, j) /\ KindFits("sweep", j)
    <2>1. job'[p] = j
      BY <1>1, <1>3, OthersSame
    <2>2. KindFits("sweep", j)
      BY <1>4, <1>5, <1>7, KindKept
    <2>3. QED BY <1>1, <1>4, <1>5, <2>1, <2>2, AccountsKept, LoadKept DEF SameLoad
  <1>16. QED BY <1>3, <1>5, <1>6, <1>12, <1>14, <1>15, TurnCounts

----------------------------------------------------------------------------
(* The steps of a writer.                                                  *)

(* The request of a writer that has staged a plan.                         *)
LEMMA PreparedLoad ==
    ASSUME CountInv, NEW p \in Workers, NEW b \in Buckets, NEW g, NEW plan, NEW j,
           Prepared(p, b, g, plan, j), pc[p] = "prepare"
    PROVE  /\ PlanCounts(p, Visible(b), plan) /\ KindFits("publish", j) /\ BringsOld(p, j)
           /\ RowsOf(CellsOf(plan.table)) \subseteq born'
  <1>1. Typed /\ \A c \in Buckets : TablesBorn(c)
    BY DEF CountInv, Inv
  <1>2. /\ plan \in Plans(p, b) /\ SameRequest(p, j) /\ j.gone = plan.gone /\ j.fresh = plan.fresh
        /\ born' = born \cup RowsOf(plan.fresh)
    BY DEF Prepared
  <1>3. Shape(pc[p], job[p]) /\ job[p].task # "none"
    BY <1>1, JobTyped DEF Shape, Writing
  <1>4. PlanCounts(p, Visible(b), plan)
    BY <1>1, <1>2, <1>3, PlansCounted
  <1>5. KindFits(pc[p], job[p]) /\ Brings(p) \subseteq born
    BY DEF CountInv, RequestsCount
  <1>6. KindFits("publish", j)
    <2>1. job[p].kind = "import" => j.fresh = job[p].fresh
      BY <1>2, <1>3, <1>4 DEF PlanCounts, Shape
    <2>2. QED BY <1>2, <1>5, <2>1 DEF KindFits, SameRequest, Writing
  <1>7. RowsOf(CellsOf(Visible(b))) \subseteq born /\ \A r \in RowsOf(CellsOf(Visible(b))) : ~Unseen(r)
    <2>1. \A id \in DOMAIN Visible(b).rows : Visible(b).rows[id].row \in born
      BY <1>1, VisibleExcused DEF TablesBorn
    <2>2. \A r \in RowsOf(CellsOf(Visible(b))) :
            \E id \in DOMAIN Visible(b).rows : Visible(b).rows[id].row = r
      BY DEF RowsOf, CellsOf
    <2>3. QED BY <2>1, <2>2, ShownIsSeen
  <1>8. RowsOf(CellsOf(plan.table)) \subseteq born'
    BY <1>2, <1>4, <1>5, <1>7 DEF PlanCounts, Brings
  <1>9. \A r \in RowsOf(ToSet(j.cells)) \cup RowsOf(j.fresh) :
          r \in Brings(p) \/ ~Unseen(r) \/ r \in born' \ born
    BY <1>2, <1>4, <1>7 DEF PlanCounts, Brings, SameRequest
  <1>10. ASSUME j.gone = {}, NEW r \in RowsOf(j.fresh)
         PROVE  (job[p].gone = {} /\ r \in RowsOf(job[p].fresh)) \/ r \in born' \ born
    <2>1. \/ plan.fresh = {}
          \/ job[p].task # "mutate" /\ plan.fresh = job[p].fresh
          \/ \E x \in Rows \ born : plan.fresh = {NewCell(x)}
      BY <1>2, <1>4, <1>10 DEF PlanCounts
    <2>2. CASE plan.fresh = {}
      BY <1>2, <1>10, <2>2 DEF RowsOf
    <2>3. CASE job[p].task # "mutate" /\ plan.fresh = job[p].fresh
      BY <1>2, <1>3, <1>10, <2>3 DEF Shape
    <2>4. CASE \E x \in Rows \ born : plan.fresh = {NewCell(x)}
      <3>1. PICK x \in Rows \ born : plan.fresh = {NewCell(x)}
        BY <2>4
      <3>2. r = x
        BY <1>2, <1>10, <3>1 DEF RowsOf, NewCell
      <3>3. QED BY <1>2, <1>10, <3>1, <3>2
    <2>5. QED BY <2>1, <2>2, <2>3, <2>4
  <1>11. BringsOld(p, j)
    BY <1>9, <1>10 DEF BringsOld
  <1>12. QED BY <1>4, <1>6, <1>8, <1>11

(* What a writer stages counts.                                            *)
LEMMA PreparedTable ==
    ASSUME CountInv, Inv', NEW p \in Workers, NEW b \in Buckets, NEW g, NEW plan, NEW j,
           Prepared(p, b, g, plan, j), pc[p] = "prepare"
    PROVE  TableCounts(b)'
  <1>1. Typed /\ Locks /\ Typed' /\ Locks' /\ Inv
    BY DEF CountInv, Inv
  <1>2. CASE p \in doomed
    <2>1. AllExcused(b)'
      BY <1>1, <1>2, PreparedDoomed
    <2>2. QED BY <1>1, <2>1, ExcusedCountsPrimed
  <1>3. CASE p \notin doomed
    <2>1. PICK T : T = plan.table
      OBVIOUS
    <2>2. /\ b = job[p].into /\ g = job[p].gen /\ excused \subseteq excused' /\ doomed' = doomed
          /\ SameRequest(p, j) /\ j.gen = g /\ j.gone = plan.gone /\ j.fresh = plan.fresh
          /\ stage'[b] = [stage[b] EXCEPT ![g] = T] /\ g \in DOMAIN stage[b]
      BY <2>1 DEF Prepared
    <2>3. Visible(b)' = Visible(b)
      BY <1>1, PreparedFrame
    <2>4. /\ pc'[p] = "publish" /\ job'[p] = j
          /\ \A q \in Workers : q # p => pc'[q] = pc[q] /\ job'[q] = job[q]
      BY <1>1, PreparedFrame
    <2>5. p \in Reliable(b)
      BY <1>3, <2>2 DEF Reliable, Writers, Writing
    <2>6. Reliable(b) = {p}
      BY <1>1, <2>5, OnlyWriter
    <2>7. \A q \in Reliable(b)' : q = p
      BY <2>2, <2>4, <2>6 DEF Reliable, Writers
    <2>8. TableOf(p)' = T
      BY <2>2, <2>4 DEF TableOf, SameRequest
    <2>9. \A r : Taken(p, r)' = TakenBy(job[p].task, job[p].ids, Visible(b), r)
      BY <2>2, <2>3, <2>4 DEF Taken, TakenBy, SameRequest
    <2>10. \A r : Added(p, r)' = AddedBy(job[p].task, job[p].cells, plan.gone, plan.fresh, r)
      BY <2>2, <2>4 DEF Added, AddedBy, SameRequest
    <2>11. PlanCounts(p, Visible(b), plan)
      BY PreparedLoad
    <2>12. \A r \in Rows : Count(T.rows, r) + TakenBy(job[p].task, job[p].ids, Visible(b), r)
             <= Count(Visible(b).rows, r)
                  + AddedBy(job[p].task, job[p].cells, plan.gone, plan.fresh, r)
      BY <2>1, <2>11 DEF PlanCounts
    <2> SUFFICES ASSUME NEW q \in Reliable(b)', NEW r \in Rows
                 PROVE  Count(TableOf(q)'.rows, r) + Taken(q, r)'
                          <= Count(Visible(b)'.rows, r) + Added(q, r)'
      BY DEF TableCounts, Count, Taken, TakenBy, Added, AddedBy
    <2>13. q = p
      BY <2>7
    <2>14. QED BY <2>3, <2>8, <2>9, <2>10, <2>12, <2>13
  <1>4. QED BY <1>2, <1>3

(* Completing a staging directory keeps the counts.                        *)
LEMMA PrepareCounts ==
    ASSUME CountInv, Inv', NEW p \in Workers, Prepare(p)
    PROVE  CountInv'
  <1>1. Typed /\ Typed' /\ Locks' /\ Inv
    BY DEF CountInv, Inv
  <1>2. PICK b \in Buckets : b = job[p].into
    BY <1>1, JobTyped DEF Prepare
  <1>3. pc[p] = "prepare"
    BY DEF Prepare
  <1>4. IdsUsed(b)
    BY <1>1 DEF Inv, BucketOK
  <1>5. PICK g, plan, j : Prepared(p, b, g, plan, j)
    BY <1>1, <1>2, <1>4, PrepareIs
  <1>6. /\ Becomes(p, "publish", j) /\ SameRequest(p, j) /\ UNCHANGED <<gens, extra>>
        /\ born' = born \cup RowsOf(plan.fresh) /\ excused \subseteq excused'
    BY <1>5 DEF Prepared
  <1>7. /\ \A c \in Buckets : Visible(c)' = Visible(c)
        /\ \A c \in Buckets : c # b => SameRows(c) /\ SameWriters(c)
        /\ \A h \in Staged(b)' : \/ h = g /\ stage'[b][h] = plan.table
                                 \/ h \in Staged(b) /\ stage'[b][h] = stage[b][h]
        /\ job'[p] = j
    BY <1>1, <1>3, <1>5, PreparedFrame
  <1>8. /\ KindFits("publish", j) /\ BringsOld(p, j)
        /\ RowsOf(CellsOf(plan.table)) \subseteq born'
    BY <1>3, <1>5, PreparedLoad
  <1>9. \A c \in Buckets : TablesBorn(c) /\ TableCounts(c)
    BY DEF CountInv
  <1>10. TablesBorn(b)'
    BY <1>6, <1>7, <1>8, <1>9 DEF TablesBorn
  <1>11. TableCounts(b)'
    BY <1>3, <1>5, PreparedTable
  <1>12. \A c \in Buckets : TablesBorn(c)' /\ TableCounts(c)'
    BY <1>1, <1>6, <1>7, <1>9, <1>10, <1>11, QuietBorn, QuietCounts
  <1>13. ShowsNoMore
    BY <1>7 DEF ShowsNoMore
  <1>14. Accounts(p)
    BY <1>1, <1>6, <1>7, AccountsKept
  <1>15. QED BY <1>6, <1>8, <1>12, <1>13, <1>14, TurnCounts

(* A published generation that CURRENT does not name is not shown; where   *)
(* CURRENT does name it, all its rows are excused.                         *)
LEMMA PublishedShows ==
    ASSUME Inv, Inv', NEW p \in Workers, NEW b \in Buckets, NEW g, NEW t, Published(p, b, g, t),
           p \notin doomed
    PROVE  /\ Reliable(b) = {p} /\ Reliable(b)' = {p} /\ HasTable(p)
           /\ TableOf(p) = t /\ TableOf(p)' = t /\ IsTable(t)
           /\ \/ Visible(b)' = Visible(b)
              \/ /\ Visible(b)' = t \/ Visible(b)' = NoTable
                 /\ RowsOf(CellsOf(t)) \subseteq excused
  <1>1. Typed /\ Locks /\ BucketOK(b) /\ Typed' /\ Locks'
    BY DEF Inv
  <1>2. /\ b = job[p].into /\ g = job[p].gen /\ t = stage[b][g] /\ pc[p] = "publish"
        /\ g \in Staged(b) /\ g \notin DOMAIN gens[b] /\ doomed' = doomed
        /\ UNCHANGED <<made, names, current>>
    BY DEF Published
  <1>3. /\ \A h \in DOMAIN gens'[b] : \/ h = g /\ gens'[b][h] = t
                                      \/ h # g /\ h \in DOMAIN gens[b] /\ gens'[b][h] = gens[b][h]
        /\ \A h \in DOMAIN gens[b] : h \in DOMAIN gens'[b] /\ gens'[b][h] = gens[b][h]
        /\ g \in DOMAIN gens'[b] /\ gens'[b][g] = t
        /\ pc'[p] = "current" /\ job' = job /\ \A q \in Workers : q # p => pc'[q] = pc[q]
    BY <1>1, PublishedFrame
  <1>4. p \in Reliable(b) /\ p \in Reliable(b)'
    BY <1>2, <1>3 DEF Reliable, Writers, Writing
  <1>5. Reliable(b) = {p} /\ Reliable(b)' = {p}
    <2>1. Reliable(b) = {p}
      BY <1>1, <1>4, OnlyWriter
    <2>2. \A q \in Reliable(b)' : q = p \/ q \in Reliable(b)
      BY <1>2, <1>3 DEF Reliable, Writers
    <2>3. QED BY <1>4, <2>1, <2>2
  <1>6. HasTable(p) /\ TableOf(p) = t /\ TableOf(p)' = t
    BY <1>2, <1>3 DEF HasTable, TableOf, Publishable, Staged
  <1>7. IsTable(t)
    BY <1>1, <1>2 DEF Typed, TablesTyped
  <1>8. CASE ~("CURRENT" \in names[b] /\ current[b] = g)
    <2>1. Visible(b)' = Visible(b)
      BY <1>2, <1>3, <1>8 DEF Visible, Resolves
    <2>2. QED BY <1>5, <1>6, <1>7, <2>1
  <1>9. CASE "CURRENT" \in names[b] /\ current[b] = g
    <2>1. RowsOf(CellsOf(t)) \subseteq excused
      BY <1>1, <1>2, <1>4, <1>6, <1>9 DEF BucketOK, Overtaken
    <2>2. Visible(b)' = t \/ Visible(b)' = NoTable
      BY <1>2, <1>3, <1>9 DEF Visible, Resolves
    <2>3. QED BY <1>5, <1>6, <1>7, <2>1, <2>2
  <1>10. QED BY <1>8, <1>9

(* What is published counts, and shows no further copies.                  *)
LEMMA PublishedTable ==
    ASSUME CountInv, Inv', NEW p \in Workers, NEW b \in Buckets, NEW g, NEW t,
           Published(p, b, g, t)
    PROVE  /\ TableCounts(b)'
           /\ \A r \in Rows \ excused' : Holds(Visible(b)'.rows, r) \subseteq Holds(Visible(b).rows, r)
  <1>1. Typed /\ Locks /\ Typed' /\ Locks' /\ Inv /\ TableCounts(b)
    BY DEF CountInv, Inv
  <1>2. CASE p \in doomed
    <2>1. AllExcused(b)'
      BY <1>1, <1>2, PublishedDoomed
    <2>2. TableCounts(b)' /\ \A r \in Rows \ excused' : Holds(Visible(b)'.rows, r) = {}
      BY <1>1, <2>1, ExcusedCountsPrimed
    <2>3. QED BY <2>2
  <1>3. CASE p \notin doomed
    <2>1. /\ Reliable(b) = {p} /\ Reliable(b)' = {p} /\ HasTable(p)
          /\ TableOf(p) = t /\ TableOf(p)' = t /\ IsTable(t)
          /\ \/ Visible(b)' = Visible(b)
             \/ /\ Visible(b)' = t \/ Visible(b)' = NoTable
                /\ RowsOf(CellsOf(t)) \subseteq excused
      BY <1>1, <1>3, PublishedShows
    <2>2. excused \subseteq excused' /\ b = job[p].into
      BY DEF Published
    <2>3. job' = job
      BY <1>1, PublishedFrame
    <2>4. \A r : /\ Added(p, r)' = Added(p, r)
                 /\ Taken(p, r)' = TakenBy(job[p].task, job[p].ids, Visible(b)', r)
      BY <2>2, <2>3 DEF Added, Taken, AddedBy, TakenBy
    <2>5. \A r \in Rows \ excused : Count(t.rows, r) + TakenBy(job[p].task, job[p].ids, Visible(b), r)
                                      <= Count(Visible(b).rows, r) + Added(p, r)
      BY <1>1, <2>1, <2>2 DEF TableCounts, Taken
    <2>6. CASE Visible(b)' = Visible(b)
      <3>1. TableCounts(b)'
        <4> SUFFICES ASSUME NEW q \in Reliable(b)', NEW r \in Rows \ excused'
                     PROVE  Count(TableOf(q)'.rows, r) + Taken(q, r)'
                              <= Count(Visible(b)'.rows, r) + Added(q, r)'
          BY DEF TableCounts, Count, Taken, TakenBy, Added, AddedBy
        <4>1. q = p
          BY <2>1
        <4>2. QED BY <2>1, <2>2, <2>4, <2>5, <2>6, <4>1
      <3>2. QED BY <2>6, <3>1
    <2>7. CASE (Visible(b)' = t \/ Visible(b)' = NoTable) /\ RowsOf(CellsOf(t)) \subseteq excused
      <3>1. IsTable(Visible(b)')
        BY <2>1, <2>7, NoTableTyped
      <3>2. \A r \in Rows \ excused' : Holds(t.rows, r) = {} /\ Count(t.rows, r) = 0
        <4> TAKE r \in Rows \ excused'
        <4>1. Holds(t.rows, r) = {}
          BY <2>2, <2>7, HoldsNone
        <4>2. QED BY <2>1, <4>1, CountTyped
      <3>3. \A r : Holds(NoTable.rows, r) = {}
        BY NoTableTyped DEF Holds
      <3>4. ASSUME NEW r PROVE
              /\ Added(p, r) \in Nat /\ TakenBy(job[p].task, job[p].ids, Visible(b)', r) \in Nat
              /\ TakenBy(job[p].task, job[p].ids, Visible(b)', r) <= Count(Visible(b)'.rows, r)
        <4>1. job[p].cells \in Seq(Cell)
          BY <1>1, JobTyped
        <4>2. PICK now : now = Visible(b)' /\ IsTable(now)
          BY <3>1
        <4>3. /\ AddedBy(job[p].task, job[p].cells, job[p].gone, job[p].fresh, r) \in Nat
              /\ TakenBy(job[p].task, job[p].ids, now, r) \in Nat
              /\ TakenBy(job[p].task, job[p].ids, now, r) <= Count(now.rows, r)
          BY <4>1, <4>2, AddedTyped
        <4>4. QED BY <4>2, <4>3 DEF Added
      <3>5. \A r : Count(Visible(b)'.rows, r) \in Nat
        BY <3>1, CountTyped
      <3>6. TableCounts(b)'
        <4> SUFFICES ASSUME NEW q \in Reliable(b)', NEW r \in Rows \ excused'
                     PROVE  Count(TableOf(q)'.rows, r) + Taken(q, r)'
                              <= Count(Visible(b)'.rows, r) + Added(q, r)'
          BY DEF TableCounts, Count, Taken, TakenBy, Added, AddedBy
        <4>1. q = p
          BY <2>1
        <4>2. Count(TableOf(q)'.rows, r) = 0
          BY <2>1, <3>2, <4>1
        <4>3. QED BY <2>4, <3>4, <3>5, <4>1, <4>2
      <3>7. QED BY <2>7, <3>2, <3>3, <3>6
    <2>8. QED BY <2>1, <2>6, <2>7
  <1>4. QED BY <1>2, <1>3

(* The rename keeps the counts.                                            *)
LEMMA PublishCounts ==
    ASSUME CountInv, Inv', NEW p \in Workers, Publish(p)
    PROVE  CountInv'
  <1>1. Typed /\ Typed' /\ Locks' /\ Inv
    BY DEF CountInv, Inv
  <1>2. PICK b \in Buckets : b = job[p].into
    BY <1>1, JobTyped DEF Publish
  <1>3. PICK g, t : Published(p, b, g, t)
    BY <1>1, <1>2, PublishIs
  <1>4. UNCHANGED <<extra, born>>
    BY DEF Publish
  <1>5. /\ Becomes(p, "current", job[p]) /\ excused \subseteq excused'
        /\ g \in Staged(b) /\ t = stage[b][g]
    BY <1>3 DEF Published
  <1>6. /\ \A c \in Buckets : c # b => SameRows(c) /\ SameWriters(c)
        /\ \A h \in Staged(b)' : h \in Staged(b) /\ stage'[b][h] = stage[b][h]
        /\ \A h \in DOMAIN gens'[b] :
             \/ h = g /\ gens'[b][h] = t
             \/ h # g /\ h \in DOMAIN gens[b] /\ gens'[b][h] = gens[b][h]
        /\ job' = job
    BY <1>1, <1>3, PublishedFrame
  <1>7. \A c \in Buckets : TablesBorn(c) /\ TableCounts(c)
    BY DEF CountInv
  <1>8. TablesBorn(b)'
    BY <1>4, <1>5, <1>6, <1>7 DEF TablesBorn
  <1>9. /\ TableCounts(b)'
        /\ \A r \in Rows \ excused' : Holds(Visible(b)'.rows, r) \subseteq Holds(Visible(b).rows, r)
    BY <1>3, PublishedTable
  <1>10. \A c \in Buckets : TablesBorn(c)' /\ TableCounts(c)'
    BY <1>1, <1>4, <1>6, <1>7, <1>8, <1>9, QuietBorn, QuietCounts
  <1>11. ShowsNoMore
    <2>1. \A c \in Buckets : c # b => Visible(c)' = Visible(c)
      BY <1>1, <1>6, QuietShows
    <2>2. QED BY <1>9, <2>1 DEF ShowsNoMore
  <1>12. SameLoad(p, job[p])
    BY DEF SameLoad, SameRequest
  <1>13. KindFits("current", job[p]) /\ BringsOld(p, job[p]) /\ Accounts(p)
    <2>1. KindFits("current", job[p])
      BY <1>12, KindKept DEF Writing
    <2>2. job'[p] = job[p] /\ SameRequest(p, job[p])
      BY <1>6, <1>12 DEF SameLoad
    <2>3. QED BY <1>1, <1>4, <1>12, <2>1, <2>2, AccountsKept, LoadKept
  <1>14. QED BY <1>4, <1>5, <1>10, <1>11, <1>13, TurnCounts

(* What a worker that replaces CURRENT brings along afterwards.            *)
LEMMA WrittenLoad ==
    ASSUME CountInv, NEW p \in Workers, NEW b \in Buckets, NEW g, NEW at, NEW j,
           Written(p, b, g, at, j)
    PROVE  KindFits(at, j) /\ BringsOld(p, j) /\ RowsOf(j.fresh) = {}
  <1>1. Typed
    BY DEF CountInv, Inv
  <1>2. TurnsTo(p, b, at, j)
    BY DEF Written
  <1>3. CASE j = IdleJob
    BY <1>3, IdleLoad, LoadKept
  <1>4. CASE j # IdleJob
    <2>1. /\ at = "begin" /\ job[p].kind = "move"
          /\ \E s \in Buckets : j = Deletion(job[p], s)
      BY <1>2, <1>4 DEF TurnsTo
    <2>2. PICK s \in Buckets : j = Deletion(job[p], s)
      BY <2>1
    <2>3. j.kind = "move" /\ j.cells = job[p].cells /\ j.task = "delete"
      BY <1>1, <2>1, <2>2, DeletionFields
    <2>4. j.fresh = job[p].fresh
      BY <1>1, <2>2, JobTyped DEF Deletion, JobType
    <2>5. job[p].fresh = {}
      BY <1>1, <2>1, JobTyped DEF Shape
    <2>6. RowsOf(j.fresh) = {}
      BY <2>4, <2>5 DEF RowsOf
    <2>7. KindFits(at, j)
      BY <2>1, <2>3 DEF KindFits
    <2>8. BringsOld(p, j)
      BY <2>3, <2>6 DEF BringsOld, Brings
    <2>9. QED BY <2>6, <2>7, <2>8
  <1>5. QED BY <1>3, <1>4

(* A row that a worker does not bring it does not add.                     *)
LEMMA NotBrought ==
    ASSUME Typed, NEW p \in Workers, NEW r
    PROVE  /\ Added(p, r) \in Nat /\ Taken(p, r) \in Nat
           /\ r \notin Brings(p) => Added(p, r) = 0
           /\ r \notin RowsOf(ToSet(job[p].cells)) => Count(job[p].cells, r) = 0
           /\ Count(job[p].cells, r) \in Nat
  <1>1. job[p].cells \in Seq(Cell)
    BY JobTyped
  <1>2. r \notin RowsOf(ToSet(job[p].cells)) => Count(job[p].cells, r) = 0
    BY <1>1, HoldsNone, CountTyped
  <1>3. Count(job[p].cells, r) \in Nat
    BY <1>1, CountTyped
  <1>4. Added(p, r) \in Nat
    BY <1>3 DEF Added, AddedBy
  <1>5. r \notin Brings(p) => Added(p, r) = 0
    BY <1>2 DEF Brings, Added, AddedBy
  <1>6. Taken(p, r) \in Nat
    <2>1. CASE job[p].task = "delete"
      <3>1. Shape(pc[p], job[p]) /\ job[p].kind = "move"
        BY <2>1, JobTyped DEF Shape
      <3>2. job[p].into \in Buckets
        BY <2>1, <3>1, IdleTask DEF Shape
      <3>3. IsTable(Visible(job[p].into))
        BY <3>2, VisibleTyped DEF Typed
      <3>4. TakenBy(job[p].task, job[p].ids, Visible(job[p].into), r) \in Nat
        BY <1>1, <3>3, AddedTyped
      <3>5. QED BY <3>4 DEF Taken
    <2>2. CASE job[p].task # "delete"
      BY <2>2 DEF Taken, TakenBy
    <2>3. QED BY <2>1, <2>2
  <1>7. QED BY <1>2, <1>3, <1>4, <1>5, <1>6

(* The table of the writer with the lock is a table.                       *)
LEMMA WrittenTable ==
    ASSUME Typed, NEW p \in Workers, HasTable(p), job[p].into \in Buckets
    PROVE  IsTable(TableOf(p))
  BY DEF Typed, TablesTyped, HasTable, TableOf, Publishable, Staged

(* A move that has published its copies goes on with the same rows.        *)
LEMMA MoveGoesOn ==
    ASSUME Typed, NEW p \in Workers, WriteCurrent(p), job[p].kind = "move", job[p].task # "delete"
    PROVE  job'[p].task = "delete" /\ job'[p].cells = job[p].cells
  <1>1. PICK s : s = CHOOSE x \in job[p].from : TRUE
    OBVIOUS
  <1>2. job' = [job EXCEPT ![p].task = "delete", ![p].gen = 0, ![p].into = s]
    BY <1>1 DEF WriteCurrent, GoesOn
  <1>3. job'[p] = Deletion(job[p], s)
    BY <1>2 DEF Typed, JobsTyped, Deletion
  <1>4. QED BY <1>3, DeletionFields

(* What is shown instead has no row that was not there or brought along.   *)
LEMMA WrittenUnseen ==
    ASSUME CountInv, Inv', NEW p \in Workers, NEW b \in Buckets, NEW g, NEW at, NEW j,
           Written(p, b, g, at, j)
    PROVE  StaysUnseen(p, j)
  <1>1. Typed /\ Typed' /\ Locks' /\ Inv /\ TableCounts(b) /\ excused \subseteq excused'
    BY DEF CountInv, Inv, Written
  <1>2. RowsOf(j.fresh) = {}
    BY WrittenLoad
  <1>3. \A c \in Buckets : c # b => Visible(c)' = Visible(c)
    <2>1. \A c \in Buckets : c # b => SameRows(c)
      BY <1>1, WrittenFrame
    <2>2. QED BY <1>1, <2>1, QuietShows
  <1> SUFFICES ASSUME NEW r \in Rows \ excused', Unseen(r), r \notin Brings(p)
               PROVE  Unseen(r)'
    BY <1>2 DEF StaysUnseen
  <1>4. Holds(Visible(b)'.rows, r) = {}
    <2>1. CASE p \in doomed
      <3>1. AllExcused(b)'
        BY <1>1, <2>1, WrittenDoomed
      <3>2. QED BY <1>1, <3>1, ExcusedCountsPrimed
    <2>2. CASE p \notin doomed
      <3>1. Reliable(b) = {p} /\ HasTable(p) /\ Visible(b)' = TableOf(p)
        BY <1>1, <2>2, WrittenReliable
      <3>2. Count(TableOf(p).rows, r) + Taken(p, r) <= Count(Visible(b).rows, r) + Added(p, r)
        BY <1>1, <3>1 DEF TableCounts
      <3>3. Added(p, r) = 0 /\ Taken(p, r) \in Nat
        BY <1>1, NotBrought
      <3>4. Count(Visible(b).rows, r) = 0
        BY <1>1, UnseenHasNone
      <3>5. IsTable(TableOf(p))
        <4>1. job[p].into \in Buckets
          BY DEF Written
        <4>2. QED BY <1>1, <3>1, <4>1, WrittenTable
      <3>6. Count(TableOf(p).rows, r) \in Nat
        BY <3>5, CountTyped
      <3>7. Count(TableOf(p).rows, r) = 0
        BY <3>2, <3>3, <3>4, <3>6
      <3>8. QED BY <3>1, <3>5, <3>7, CountTyped
    <2>3. QED BY <2>1, <2>2
  <1>5. QED BY <1>3, <1>4 DEF Unseen

(* What a request adds is asked for, has still to be deleted or is new;    *)
(* what a deletion leaves is accounted for.                                *)
LEMMA WrittenBalance ==
    ASSUME CountInv, Typed', NEW p \in Workers, WriteCurrent(p), NEW r \in Rows \ excused
    PROVE  \/ extra[r] + Cardinality(Moving(p, r)) + Added(p, r)
                <= extra'[r] + Cardinality(Moving(p, r)') + Taken(p, r)
           \/ Unseen(r) /\ Added(p, r) <= 1
  <1>1. Typed /\ extra \in [Rows -> Nat] /\ extra[r] \in Nat
    BY DEF CountInv, Inv, Counted
  <1>2. job[p].cells \in Seq(Cell) /\ job[p].task \in Tasks /\ Shape(pc[p], job[p])
    BY <1>1, JobTyped DEF JobType
  <1>3. pc[p] \in Writing /\ job[p].task # "none"
    BY <1>2 DEF WriteCurrent, Writing, Shape
  <1>4. KindFits(pc[p], job[p]) /\ FreshIsNew(p)
    BY DEF CountInv, RequestsCount
  <1>5. PICK n : n = Count(job[p].cells, r)
    OBVIOUS
  <1>6. n \in Nat /\ Added(p, r) \in Nat /\ Taken(p, r) \in Nat
    BY <1>1, <1>5, NotBrought
  <1>7. Cardinality(Moving(p, r)) \in Nat /\ Cardinality(Moving(p, r)') \in Nat
    BY <1>1, CopiesFamily, CopiesFamilyPrimed
  <1>8. extra' = IF CopiesStay(p) THEN OneMore(job[p].cells) ELSE extra
    BY DEF WriteCurrent
  <1>9. OneMore(job[p].cells)[r] = extra[r] + n
    BY <1>1, <1>2, <1>5, OneMoreTyped
  <1>10. job[p].task # "delete" => Cardinality(Moving(p, r)) = 0
    BY FS_EmptySet DEF Moving
  <1>11. job[p].task \in {"insert", "initial"} => Added(p, r) = n
    BY <1>5 DEF Added, AddedBy
  <1>12. CASE job[p].kind \in {"copy", "combine"}
    <2>1. job[p].task \in {"insert", "initial"}
      BY <1>2, <1>3, <1>12 DEF Tasks, Shape
    <2>2. extra'[r] = extra[r] + n
      BY <1>8, <1>9, <1>12 DEF CopiesStay
    <2>3. Cardinality(Moving(p, r)) = 0
      BY <1>10, <2>1
    <2>4. QED BY <1>1, <1>6, <1>7, <1>11, <2>1, <2>2, <2>3
  <1>13. CASE job[p].kind = "move" /\ job[p].task # "delete"
    <2>1. job[p].task \in {"insert", "initial"}
      BY <1>2, <1>3, <1>13 DEF Tasks, Shape
    <2>2. extra' = extra
      BY <1>8, <1>13 DEF CopiesStay
    <2>3. job'[p].task = "delete" /\ job'[p].cells = job[p].cells
      BY <1>1, <1>13, MoveGoesOn
    <2>4. Cardinality(Moving(p, r)') = n
      BY <1>5, <2>3 DEF Moving, Count, Holds
    <2>5. Cardinality(Moving(p, r)) = 0
      BY <1>10, <1>13
    <2>6. QED BY <1>1, <1>6, <1>11, <2>1, <2>2, <2>4, <2>5
  <1>14. CASE job[p].task = "delete"
    <2>1. Cardinality(Moving(p, r)) = n
      BY <1>5, <1>14 DEF Moving, Count
    <2>2. Added(p, r) = 0
      <3>1. job[p].kind = "move" /\ job[p].fresh = {}
        BY <1>2, <1>14 DEF Shape
      <3>2. QED BY <1>14, <3>1 DEF Added, AddedBy, RowsOf
    <2>3. CASE DeletesCopied(p)
      <3>1. Taken(p, r) >= n
        BY <1>5, <1>14, <2>3 DEF DeletesCopied, Taken, TakenBy, Count
      <3>2. job[p].kind = "move"
        BY <1>2, <1>14 DEF Shape
      <3>3. extra' = extra
        BY <1>8, <2>3, <3>2 DEF CopiesStay
      <3>4. QED BY <1>1, <1>6, <1>7, <2>1, <2>2, <3>1, <3>3
    <2>4. CASE ~DeletesCopied(p)
      <3>1. extra'[r] = extra[r] + n
        BY <1>8, <1>9, <1>14, <2>4 DEF CopiesStay
      <3>2. QED BY <1>1, <1>6, <1>7, <2>1, <2>2, <3>1
    <2>5. QED BY <2>3, <2>4
  <1>15. CASE job[p].kind \in {"mutate", "import"} /\ job[p].task # "delete"
    <2>1. extra' = extra
      BY <1>8, <1>15 DEF CopiesStay
    <2>2. Cardinality(Moving(p, r)) = 0
      BY <1>10, <1>15
    <2>3. CASE Added(p, r) = 0
      BY <1>1, <1>6, <1>7, <2>1, <2>2, <2>3
    <2>4. CASE Added(p, r) # 0
      <3>1. job[p].gone = {} /\ r \in RowsOf(job[p].fresh) /\ Added(p, r) <= 1
        <4>1. CASE job[p].kind = "mutate"
          <5>1. job[p].task = "mutate"
            BY <1>2, <4>1 DEF Shape
          <5>2. QED BY <2>4, <5>1 DEF Added, AddedBy
        <4>2. CASE job[p].kind = "import"
          <5>1. job[p].task = "initial" /\ job[p].gone = {}
            BY <1>2, <4>2 DEF Shape
          <5>2. Added(p, r) = n /\ n <= 1
            BY <1>4, <1>5, <1>11, <4>2, <5>1 DEF KindFits
          <5>3. r \in RowsOf(ToSet(job[p].cells))
            BY <1>1, <1>5, <2>4, <5>2, NotBrought
          <5>4. QED BY <1>4, <4>2, <5>1, <5>2, <5>3 DEF KindFits
        <4>3. QED BY <1>15, <4>1, <4>2
      <3>2. Unseen(r)
        BY <1>4, <3>1 DEF FreshIsNew
      <3>3. QED BY <3>1, <3>2
    <2>5. QED BY <2>3, <2>4
  <1>16. job[p].kind \in {"combine", "copy", "move", "mutate", "import"}
    BY <1>3, <1>4 DEF KindFits
  <1>17. QED BY <1>12, <1>13, <1>14, <1>15, <1>16

(* Where the removal of a directory let the worker go on, all is excused.  *)
LEMMA WrittenCountedDoomed ==
    ASSUME CountInv, Inv', NEW p \in Workers, NEW b \in Buckets, NEW g, NEW at, NEW j,
           Written(p, b, g, at, j), p \in doomed, WriteCurrent(p)
    PROVE  Counted'
  <1>1. Typed /\ Typed' /\ Locks /\ Locks' /\ Inv /\ extra \in [Rows -> Nat]
    BY DEF CountInv, Inv, Counted
  <1>2. excused \subseteq excused' /\ born' = born
    BY DEF Written, WriteCurrent
  <1>3. /\ \A q \in Workers : q # p => job'[q] = job[q]
        /\ \A c \in Buckets : c # b => SameRows(c)
    BY <1>1, WrittenFrame
  <1>4. ShowsNoMore
    <2>1. AllExcused(b)'
      BY <1>1, WrittenDoomed
    <2>2. \A r \in Rows \ excused' : Holds(Visible(b)'.rows, r) = {}
      BY <1>1, <2>1, ExcusedCountsPrimed
    <2>3. \A c \in Buckets : c # b => Visible(c)' = Visible(c)
      BY <1>1, <1>3, QuietShows
    <2>4. QED BY <2>2, <2>3 DEF ShowsNoMore
  <1>5. job[p].cells \in Seq(Cell)
    BY <1>1, JobTyped
  <1>6. extra' = IF CopiesStay(p) THEN OneMore(job[p].cells) ELSE extra
    BY DEF WriteCurrent
  <1>7. extra' \in [Rows -> Nat]
    BY <1>1, <1>5, <1>6, OneMoreTyped
  <1>8. ASSUME NEW r \in Rows \ excused'
        PROVE  extra[r] + Cardinality(Moving(p, r)) <= extra'[r] + Cardinality(Moving(p, r)')
    <2>1. r \notin RowsOf(ToSet(job[p].cells))
      BY <1>1, <1>2 DEF Locks
    <2>2. Holds(job[p].cells, r) = {} /\ Count(job[p].cells, r) = 0
      BY <1>1, <1>5, <2>1, HoldsNone, NotBrought
    <2>3. Cardinality(Moving(p, r)) = 0
      BY <2>2, FS_EmptySet DEF Moving
    <2>4. OneMore(job[p].cells)[r] = extra[r] + 0
      BY <1>1, <1>5, <2>2, OneMoreTyped
    <2>5. extra'[r] = extra[r] /\ extra[r] \in Nat
      BY <1>1, <1>6, <2>4
    <2>6. Cardinality(Moving(p, r)') \in Nat
      BY <1>1, CopiesFamilyPrimed
    <2>7. QED BY <2>3, <2>5, <2>6
  <1>9. Accounts(p)
    BY <1>7, <1>8 DEF Accounts
  <1>10. QED BY <1>1, <1>2, <1>3, <1>4, <1>9, TurnCounted

(* What the writer with the lock shows is accounted for.                   *)
LEMMA WrittenCountedReliable ==
    ASSUME CountInv, Inv', NEW p \in Workers, NEW b \in Buckets, NEW g, NEW at, NEW j,
           Written(p, b, g, at, j), p \notin doomed, WriteCurrent(p)
    PROVE  Counted'
  <1>1. /\ Typed /\ Typed' /\ Locks' /\ Inv /\ TableCounts(b) /\ extra \in [Rows -> Nat]
        /\ \A c \in Buckets : TablesBorn(c)
    BY DEF CountInv, Inv, Counted
  <1>2. excused \subseteq excused' /\ born' = born /\ b = job[p].into
    BY DEF Written, WriteCurrent
  <1>3. /\ \A q \in Workers : q # p => job'[q] = job[q]
        /\ \A c \in Buckets : c # b => SameRows(c)
    BY <1>1, WrittenFrame
  <1>4. \A c \in Buckets : c # b => Visible(c)' = Visible(c)
    BY <1>1, <1>3, QuietShows
  <1>5. Reliable(b) = {p} /\ HasTable(p) /\ Visible(b)' = TableOf(p)
    BY <1>1, WrittenReliable
  <1>6. IsTable(TableOf(p))
    BY <1>1, <1>2, <1>5, WrittenTable
  <1>7. extra' \in [Rows -> Nat]
    <2>1. job[p].cells \in Seq(Cell)
      BY <1>1, JobTyped
    <2>2. extra' = IF CopiesStay(p) THEN OneMore(job[p].cells) ELSE extra
      BY DEF WriteCurrent
    <2>3. QED BY <1>1, <2>1, <2>2, OneMoreTyped
  <1> SUFFICES ASSUME NEW r \in born \ excused'
               PROVE  Copies(r)' <= 1 + extra'[r] + InFlight(r)'
    BY <1>2, <1>7 DEF Counted
  <1>8. r \in Rows \ excused /\ r \in born
    BY <1>1, <1>2 DEF Typed, GhostTyped
  <1>9. Copies(r) <= 1 + extra[r] + InFlight(r)
    BY <1>8 DEF CountInv, Counted
  <1>10. Count(TableOf(p).rows, r) + Taken(p, r) <= Count(Visible(b).rows, r) + Added(p, r)
    BY <1>1, <1>5, <1>8 DEF TableCounts
  <1>11. Copies(r)' + Count(Visible(b).rows, r) = Copies(r) + Count(TableOf(p).rows, r)
    <2>1. Copies(r)' + Count(Visible(b).rows, r) = Copies(r) + Count(Visible(b)'.rows, r)
      BY <1>1, <1>4, CopiesAt
    <2>2. QED BY <1>5, <2>1
  <1>12. InFlight(r)' + Cardinality(Moving(p, r)) = InFlight(r) + Cardinality(Moving(p, r)')
    BY <1>1, <1>3, InFlightAt
  <1>13. /\ Copies(r) \in Nat /\ InFlight(r) \in Nat /\ Cardinality(Moving(p, r)) \in Nat
         /\ extra[r] \in Nat /\ extra'[r] \in Nat
    BY <1>1, <1>7, <1>8, CopiesFamily
  <1>14. Copies(r)' \in Nat /\ InFlight(r)' \in Nat /\ Cardinality(Moving(p, r)') \in Nat
    BY <1>1, CopiesFamilyPrimed
  <1>15. Added(p, r) \in Nat /\ Taken(p, r) \in Nat
    BY <1>1, NotBrought
  <1>16. Count(TableOf(p).rows, r) \in Nat /\ Count(Visible(b).rows, r) \in Nat
    BY <1>1, <1>6, VisibleTyped, CountTyped DEF Typed
  <1>17. CASE extra[r] + Cardinality(Moving(p, r)) + Added(p, r)
                <= extra'[r] + Cardinality(Moving(p, r)') + Taken(p, r)
    BY <1>9, <1>10, <1>11, <1>12, <1>13, <1>14, <1>15, <1>16, <1>17
  <1>18. CASE Unseen(r) /\ Added(p, r) <= 1
    <2>1. Copies(r) = 0 /\ Count(Visible(b).rows, r) = 0
      BY <1>1, <1>18, UnseenHasNone
    <2>2. Copies(r)' <= 1
      BY <1>10, <1>11, <1>14, <1>15, <1>16, <1>18, <2>1
    <2>3. QED BY <1>13, <1>14, <2>2
  <1>19. QED BY <1>1, <1>8, <1>17, <1>18, WrittenBalance

(* Replacing CURRENT keeps the counts.                                     *)
LEMMA WriteCounts ==
    ASSUME CountInv, Inv', NEW p \in Workers, WriteCurrent(p)
    PROVE  CountInv'
  <1>1. Typed /\ Typed' /\ Locks' /\ Inv
    BY DEF CountInv, Inv
  <1>2. PICK b \in Buckets : b = job[p].into
    BY <1>1, JobTyped DEF WriteCurrent
  <1>3. PICK g, at, j : Written(p, b, g, at, j)
    BY <1>1, <1>2, WriteIs
  <1>4. /\ Becomes(p, at, j) /\ excused \subseteq excused' /\ UNCHANGED <<gens, stage, born>>
    BY <1>3 DEF Written, WriteCurrent
  <1>5. KindFits(at, j) /\ BringsOld(p, j)
    BY <1>3, WrittenLoad
  <1>6. StaysUnseen(p, j)
    BY <1>3, WrittenUnseen
  <1>7. RequestsCount'
    BY <1>1, <1>4, <1>5, <1>6, TurnRequests
  <1>8. Counted'
    BY <1>3, WrittenCountedDoomed, WrittenCountedReliable
  <1>9. \A c \in Buckets : c # b => SameRows(c) /\ SameWriters(c)
    BY <1>1, <1>3, WrittenFrame
  <1>10. \A c \in Buckets : TablesBorn(c) /\ TableCounts(c)
    BY DEF CountInv
  <1>11. TablesBorn(b)'
    <2>1. TablesBorn(b)
      BY <1>10
    <2>2. QED BY <1>4, <2>1 DEF TablesBorn, Staged
  <1>12. TableCounts(b)'
    <2>1. CASE p \in doomed
      <3>1. AllExcused(b)'
        BY <1>1, <1>3, <2>1, WrittenDoomed
      <3>2. QED BY <1>1, <3>1, ExcusedCountsPrimed
    <2>2. CASE p \notin doomed
      <3>1. Reliable(b)' = {}
        BY <1>1, <1>3, <2>2, WrittenReliable
      <3>2. QED BY <3>1 DEF TableCounts
    <2>3. QED BY <2>1, <2>2
  <1>13. \A c \in Buckets : TablesBorn(c)' /\ TableCounts(c)'
    BY <1>1, <1>4, <1>9, <1>10, <1>11, <1>12, QuietBorn, QuietCounts
  <1>14. QED BY <1>7, <1>8, <1>13 DEF CountInv

----------------------------------------------------------------------------
(* Deaths of the service, and where all begins.                            *)

(* When nobody has a request, none has promises to keep.                   *)
LEMMA NobodyWrites ==
    ASSUME pc = [p \in Workers |-> "idle"], job = [p \in Workers |-> IdleJob]
    PROVE  RequestsCount /\ \A b \in Buckets : TableCounts(b)
  <1>1. \A q \in Workers : Brings(q) = {} /\ RowsOf(job[q].fresh) = {} /\ KindFits(pc[q], job[q])
    BY IdleLoad DEF Brings
  <1>2. RequestsCount
    BY <1>1 DEF RequestsCount, FreshIsNew
  <1>3. \A b \in Buckets : Reliable(b) = {}
    BY DEF Reliable, Writers, Writing
  <1>4. QED BY <1>2, <1>3 DEF TableCounts

(* The same after a step.                                                  *)
LEMMA NobodyWritesPrimed ==
    (pc = [p \in Workers |-> "idle"] /\ job = [p \in Workers |-> IdleJob] =>
       RequestsCount /\ \A b \in Buckets : TableCounts(b))'
  <1>1. pc = [p \in Workers |-> "idle"] /\ job = [p \in Workers |-> IdleJob] =>
          RequestsCount /\ \A b \in Buckets : TableCounts(b)
    BY NobodyWrites
  <1>2. QED BY <1>1, PTL

(* A death leaves the copies that moves had still to delete.               *)
LEMMA CrashCounts ==
    ASSUME CountInv, Inv', Crash
    PROVE  CountInv'
  <1>1. Typed /\ Typed' /\ extra \in [Rows -> Nat] /\ \A b \in Buckets : TablesBorn(b)
    BY DEF CountInv, Inv, Counted
  <1>2. /\ pc' = [p \in Workers |-> "idle"] /\ job' = [p \in Workers |-> IdleJob]
        /\ extra' = [r \in Rows |-> extra[r] + InFlight(r)]
        /\ UNCHANGED <<names, current, gens, stage, excused, used, born>>
    BY DEF Crash
  <1>3. RequestsCount' /\ \A b \in Buckets : TableCounts(b)'
    BY <1>2, NobodyWritesPrimed
  <1>4. \A b \in Buckets : SameRows(b)
    BY <1>2 DEF SameRows, Staged
  <1>5. \A b \in Buckets : TablesBorn(b)'
    BY <1>1, <1>2, <1>4, QuietBorn
  <1>6. extra' \in [Rows -> Nat]
    <2>1. \A r \in Rows : extra[r] + InFlight(r) \in Nat
      <3> TAKE r \in Rows
      <3>1. InFlight(r) \in Nat /\ extra[r] \in Nat
        BY <1>1, CopiesFamily
      <3>2. QED BY <3>1
    <2>2. QED BY <1>2, <2>1
  <1>7. ASSUME NEW r \in born' \ excused'
        PROVE  Copies(r)' <= 1 + extra'[r] + InFlight(r)'
    <2>1. r \in Rows /\ r \in born \ excused
      BY <1>1, <1>2 DEF Typed, GhostTyped
    <2>2. \A b \in Buckets : Visible(b)' = Visible(b)
      BY <1>1, <1>4, QuietShows
    <2>3. Copies(r)' <= Copies(r)
      BY <1>1, <2>2, CopiesFewer
    <2>4. Copies(r) <= 1 + extra[r] + InFlight(r)
      BY <2>1 DEF CountInv, Counted
    <2>5. extra'[r] = extra[r] + InFlight(r)
      BY <1>2, <2>1
    <2>6. /\ Copies(r) \in Nat /\ InFlight(r) \in Nat /\ extra[r] \in Nat
          /\ Copies(r)' \in Nat /\ InFlight(r)' \in Nat
      BY <1>1, <2>1, CopiesFamily, CopiesFamilyPrimed
    <2>7. QED BY <2>3, <2>4, <2>5, <2>6
  <1>8. Counted'
    BY <1>6, <1>7 DEF Counted
  <1>9. QED BY <1>3, <1>5, <1>8 DEF CountInv

(* Nothing changes when nothing happens.                                   *)
LEMMA StutterCounts ==
    ASSUME CountInv, Inv', UNCHANGED vars
    PROVE  CountInv'
  <1>1. UNCHANGED <<made, names, current, gens, stage, pc, job, extra, excused, doomed, born>>
    BY DEF vars, disk, ghost
  <1>2. UNCHANGED <<used>>
    BY DEF vars, ghost
  <1>3. /\ Typed /\ Typed' /\ RequestsCount /\ Counted
        /\ \A b \in Buckets : TablesBorn(b) /\ TableCounts(b)
    BY DEF CountInv, Inv
  <1>4. \A b \in Buckets : SameRows(b)
    BY <1>1, <1>2 DEF SameRows, Staged
  <1>5. \A b \in Buckets : SameWriters(b)
    BY <1>1 DEF SameWriters, Reliable, Writers
  <1>6. \A b \in Buckets : Visible(b)' = Visible(b)
    BY <1>3, <1>4, QuietShows
  <1>7. \A b \in Buckets : TablesBorn(b)' /\ TableCounts(b)'
    BY <1>1, <1>3, <1>4, <1>5, QuietBorn, QuietCounts
  <1>8. RequestsCount'
    BY <1>1, <1>3, <1>6 DEF RequestsCount, KindFits, Brings, FreshIsNew, Unseen
  <1>9. Counted'
    <2>1. \A r : InFlight(r)' = InFlight(r)
      BY <1>1 DEF InFlight, Moving
    <2>2. \A r : Copies(r)' = Copies(r)
      <3> TAKE r
      <3>1. [b \in Buckets |-> Holds(Visible(b)'.rows, r)] = [b \in Buckets |-> Holds(Visible(b).rows, r)]
        BY <1>6
      <3>2. QED BY <3>1 DEF Copies, Holds
    <2>3. QED BY <1>1, <1>3, <2>1, <2>2 DEF Counted
  <1>10. QED BY <1>7, <1>8, <1>9 DEF CountInv

(* A set all of whose members are the same has at most one.                *)
LEMMA AtMostOne ==
    ASSUME NEW S, \A x, y \in S : x = y
    PROVE  Cardinality(S) <= 1
  <1>1. CASE S = {}
    BY <1>1, FS_EmptySet
  <1>2. CASE S # {}
    <2>1. PICK x : S = {x}
      BY <1>2
    <2>2. QED BY <2>1, FS_Singleton
  <1>3. QED BY <1>1, <1>2

(* Three rows that are three are different.                                *)
LEMMA ThreeRows ==
    ASSUME NEW r1, NEW r2, NEW r3, Cardinality({r1, r2, r3}) = 3
    PROVE  r1 # r2 /\ r1 # r3 /\ r2 # r3
  <1>1. \A x, y : Cardinality({x} \cup {y}) <= 2
    <2> TAKE x, y
    <2>1. /\ IsFiniteSet({x}) /\ Cardinality({x}) = 1 /\ IsFiniteSet({y}) /\ Cardinality({y}) = 1
      BY FS_Singleton
    <2>2. /\ IsFiniteSet({x} \cap {y})
          /\ Cardinality({x} \cup {y}) = Cardinality({x}) + Cardinality({y}) - Cardinality({x} \cap {y})
      BY <2>1, FS_Union, FS_Intersection
    <2>3. Cardinality({x} \cap {y}) \in Nat
      BY <2>2, FS_CardinalityType
    <2>4. QED BY <2>1, <2>2, <2>3
  <1>2. ASSUME r1 = r2 \/ r1 = r3 \/ r2 = r3 PROVE FALSE
    <2>1. \E x, y : {r1, r2, r3} = {x} \cup {y}
      <3>1. CASE r1 = r2 \/ r1 = r3
        <4>1. {r1, r2, r3} = {r2} \cup {r3}
          BY <3>1
        <4>2. QED BY <4>1
      <3>2. CASE r2 = r3
        <4>1. {r1, r2, r3} = {r1} \cup {r2}
          BY <3>2
        <4>2. QED BY <4>1
      <3>3. QED BY <1>2, <3>1, <3>2
    <2>2. PICK x, y : {r1, r2, r3} = {x} \cup {y}
      BY <2>1
    <2>3. Cardinality({x} \cup {y}) <= 2 /\ Cardinality({x} \cup {y}) = 3
      BY <1>1, <2>2
    <2>4. QED BY <2>3
  <1>3. QED BY <1>2

(* Which rows the first tables have.                                       *)
LEMMA FirstTablesRows ==
    ASSUME NEW s, NEW r1, NEW r2, NEW r3, NEW b \in Buckets, NEW t,
           t = FirstTables(s, r1, r2, r3)[b]
    PROVE  \A id \in DOMAIN t.rows : \/ b = s /\ id = 0 /\ t.rows[id].row = r1
                                     \/ b = s /\ id = 1 /\ t.rows[id].row = r2
                                     \/ b # s /\ id = 0 /\ t.rows[id].row = r3
  <1> TAKE id \in DOMAIN t.rows
  <1>1. PICK one, two : one = <<NewCell(r3)>> /\ two = <<NewCell(r1), NewCell(r2)>>
    OBVIOUS
  <1>2. /\ Len(one) = 1 /\ one[1].row = r3
        /\ Len(two) = 2 /\ two[1].row = r1 /\ two[2].row = r2
    BY <1>1 DEF NewCell
  <1>3. ASSUME NEW cells, Len(cells) \in Nat, NEW i \in DOMAIN Appended(NoTable, cells).rows
        PROVE  i \in 0..Len(cells) - 1 /\ Appended(NoTable, cells).rows[i] = cells[i + 1]
    <2>1. DOMAIN NoTable.rows = {} /\ NoTable.top = -1
      BY NoTableTyped DEF NoTable
    <2>2. /\ DOMAIN Appended(NoTable, cells).rows = -1 + 1 .. -1 + Len(cells)
          /\ Appended(NoTable, cells).rows[i] = cells[i - (-1)]
      BY <1>3, <2>1 DEF Appended
    <2>3. QED BY <1>3, <2>2
  <1>4. t = Appended(NoTable, IF b = s THEN two ELSE one)
    BY <1>1 DEF FirstTables
  <1>5. CASE b = s
    <2>1. id \in 0..1 /\ t.rows[id] = two[id + 1]
      <3>1. t = Appended(NoTable, two)
        BY <1>4, <1>5
      <3>2. id \in DOMAIN Appended(NoTable, two).rows
        BY <3>1
      <3>3. id \in 0..Len(two) - 1 /\ Appended(NoTable, two).rows[id] = two[id + 1]
        <4>1. Len(two) \in Nat
          BY <1>2
        <4>2. QED BY <1>3, <3>2, <4>1
      <3>4. QED BY <1>2, <3>1, <3>3
    <2>2. id = 0 \/ id = 1
      BY <2>1
    <2>3. QED BY <1>2, <1>5, <2>1, <2>2
  <1>6. CASE b # s
    <2>1. id \in 0..0 /\ t.rows[id] = one[id + 1]
      <3>1. t = Appended(NoTable, one)
        BY <1>4, <1>6
      <3>2. id \in DOMAIN Appended(NoTable, one).rows
        BY <3>1
      <3>3. id \in 0..Len(one) - 1 /\ Appended(NoTable, one).rows[id] = one[id + 1]
        <4>1. Len(one) \in Nat
          BY <1>2
        <4>2. QED BY <1>3, <3>2, <4>1
      <3>4. QED BY <1>2, <3>1, <3>3
    <2>2. id = 0
      BY <2>1
    <2>3. QED BY <1>2, <1>6, <2>1, <2>2
  <1>7. QED BY <1>5, <1>6

\* The first bucket has two rows, the second at most one.
FirstRows(s, d, r1, r2, r3) ==
    \A b \in Buckets : \A id \in DOMAIN Visible(b).rows :
      \/ b = s /\ id = 0 /\ Visible(b).rows[id].row = r1
      \/ b = s /\ id = 1 /\ Visible(b).rows[id].row = r2
      \/ b = d /\ id = 0 /\ Visible(b).rows[id].row = r3

(* Each row is there at most once.                                         *)
LEMMA FirstCopies ==
    ASSUME Typed, NEW s, NEW d, s # d, NEW r1, NEW r2, NEW r3, Cardinality({r1, r2, r3}) = 3,
           FirstRows(s, d, r1, r2, r3), NEW r
    PROVE  Copies(r) <= 1
  <1> DEFINE F == [b \in Buckets |-> Holds(Visible(b).rows, r)]
  <1>1. FiniteFamily(F)
    BY CopiesFamily
  <1>2. \A y : y \in Pairs(F) <=> \E b \in DOMAIN F : y \in {b} \X F[b]
    BY <1>1, PairsFinite
  <1>3. r1 # r2 /\ r1 # r3 /\ r2 # r3
    BY ThreeRows
  <1>4. ASSUME NEW y \in Pairs(F)
        PROVE  /\ y = <<y[1], y[2]>>
               /\ \/ y[1] = s /\ y[2] = 0 /\ r = r1
                  \/ y[1] = s /\ y[2] = 1 /\ r = r2
                  \/ y[1] = d /\ y[2] = 0 /\ r = r3
    <2>1. PICK b \in Buckets : y \in {b} \X F[b]
      BY <1>2
    <2>2. y = <<y[1], y[2]>> /\ y[1] = b /\ y[2] \in Holds(Visible(b).rows, r)
      BY <2>1
    <2>3. y[2] \in DOMAIN Visible(b).rows /\ Visible(b).rows[y[2]].row = r
      BY <2>2 DEF Holds
    <2>4. QED BY <2>2, <2>3 DEF FirstRows
  <1>5. \A x, y \in Pairs(F) : x = y
    <2> TAKE x, y \in Pairs(F)
    <2>1. x[1] = y[1] /\ x[2] = y[2]
      BY <1>3, <1>4
    <2>2. x = <<x[1], x[2]>> /\ y = <<y[1], y[2]>>
      BY <1>4
    <2>3. QED BY <2>1, <2>2
  <1>6. Copies(r) = Cardinality(Pairs(F))
    BY DEF Copies
  <1> HIDE DEF F
  <1>7. QED BY <1>5, <1>6, AtMostOne

(* The first buckets show their tables and nothing else.                   *)
LEMMA StartsShow ==
    ASSUME NEW tables, NEW full \in SUBSET Buckets, NEW empty \in SUBSET Buckets,
           Starts(tables, full, empty), NEW b \in Buckets
    PROVE  /\ b \in full => Visible(b) = tables[b] /\ DOMAIN gens[b] = {1} /\ gens[b][1] = tables[b]
           /\ b \notin full => Visible(b) = NoTable /\ DOMAIN gens[b] = {}
           /\ Staged(b) = {}
  <1>1. /\ made = full \cup empty /\ stage[b] = <<>>
        /\ names[b] = (IF b \in full THEN Names ELSE IF b \in empty THEN {"meta"} ELSE {})
        /\ current[b] = (IF b \in full THEN 1 ELSE 0)
        /\ gens[b] = (IF b \in full THEN Put(<<>>, 1, tables[b]) ELSE <<>>)
    BY DEF Starts
  <1>2. Staged(b) = {}
    BY <1>1 DEF Staged
  <1>3. CASE b \in full
    <2>1. gens[b] = [y \in {1} |-> tables[b]]
      BY <1>1, <1>3 DEF Put
    <2>2. DOMAIN gens[b] = {1} /\ gens[b][1] = tables[b]
      BY <2>1
    <2>3. Visible(b) = tables[b]
      BY <1>1, <1>3, <2>2 DEF Visible, Resolves, Names
    <2>4. QED BY <1>2, <1>3, <2>2, <2>3
  <1>4. CASE b \notin full
    <2>1. gens[b] = <<>> /\ "CURRENT" \notin names[b]
      BY <1>1, <1>4
    <2>2. QED BY <1>2, <1>4, <2>1 DEF Visible, Resolves
  <1>5. QED BY <1>3, <1>4

(* The counts hold initially.                                              *)
LEMMA InitCounts == Init => CountInv
  <1> SUFFICES ASSUME Init PROVE CountInv
    OBVIOUS
  <1>1. Inv /\ Typed
    BY InitInv DEF Inv
  <1>2. PICK s \in Buckets, d \in Buckets, r1 \in Rows, r2 \in Rows, r3 \in Rows,
             there \in {"absent", "empty", "full"} :
          /\ s # d /\ Cardinality({r1, r2, r3}) = 3
          /\ Starts(FirstTables(s, r1, r2, r3),
                    {s} \cup (IF there = "full" THEN {d} ELSE {}),
                    IF there = "empty" THEN {d} ELSE {})
    BY DEF Init
  <1>3. PICK tables, full, empty : /\ tables = FirstTables(s, r1, r2, r3)
                                   /\ full = {s} \cup (IF there = "full" THEN {d} ELSE {})
                                   /\ empty = (IF there = "empty" THEN {d} ELSE {})
    OBVIOUS
  <1>4. full \in SUBSET Buckets /\ empty \in SUBSET Buckets /\ full \subseteq {s, d}
    BY <1>3
  <1>5. Starts(tables, full, empty)
    BY <1>2, <1>3
  <1> DEFINE Shows(b) == Visible(b) = tables[b] /\ DOMAIN gens[b] = {1} /\ gens[b][1] = tables[b]
  <1>6. \A b \in Buckets : /\ b \in full => Shows(b)
                           /\ b \notin full => Visible(b) = NoTable /\ DOMAIN gens[b] = {}
                           /\ Staged(b) = {}
    BY <1>4, <1>5, StartsShow
  <1>7. RequestsCount /\ \A b \in Buckets : TableCounts(b)
    <2>1. pc = [p \in Workers |-> "idle"] /\ job = [p \in Workers |-> IdleJob]
      BY <1>5 DEF Starts
    <2>2. QED BY <2>1, NobodyWrites
  <1>8. \A b \in Buckets : TablesBorn(b)
    <2> TAKE b \in Buckets
    <2>1. owed = UNION {CellsOf(tables[c]) : c \in full} /\ born = RowsOf(owed)
      BY <1>5 DEF Starts
    <2>2. Staged(b) = {}
      BY <1>6
    <2>3. CASE b \in full
      <3>1. DOMAIN gens[b] = {1} /\ gens[b][1] = tables[b]
        BY <2>3, <1>6
      <3>2. CellsOf(tables[b]) \subseteq owed
        BY <2>1, <2>3
      <3>3. RowsOf(CellsOf(tables[b])) \subseteq born
        BY <2>1, <3>2 DEF RowsOf
      <3>4. QED BY <2>2, <3>1, <3>3 DEF TablesBorn
    <2>4. CASE b \notin full
      <3>1. DOMAIN gens[b] = {}
        BY <2>4, <1>6
      <3>2. QED BY <2>2, <3>1 DEF TablesBorn
    <2>5. QED BY <2>3, <2>4
  <1>9. ASSUME NEW b \in Buckets, NEW id \in DOMAIN Visible(b).rows
        PROVE  \/ b = s /\ id = 0 /\ Visible(b).rows[id].row = r1
               \/ b = s /\ id = 1 /\ Visible(b).rows[id].row = r2
               \/ b = d /\ id = 0 /\ Visible(b).rows[id].row = r3
    <2>1. b \in full /\ Visible(b) = tables[b]
      <3>1. b \notin full => DOMAIN Visible(b).rows = {}
        BY <1>6, NoTableTyped
      <3>2. QED BY <1>9, <3>1, <1>6
    <2>2. b = s \/ b = d
      BY <1>4, <2>1
    <2>3. PICK t : t = tables[b] /\ id \in DOMAIN t.rows
      BY <1>9, <2>1
    <2>4. \/ b = s /\ id = 0 /\ t.rows[id].row = r1
          \/ b = s /\ id = 1 /\ t.rows[id].row = r2
          \/ b # s /\ id = 0 /\ t.rows[id].row = r3
      <3>1. t = FirstTables(s, r1, r2, r3)[b]
        BY <1>3, <2>3
      <3>2. \A i \in DOMAIN t.rows : \/ b = s /\ i = 0 /\ t.rows[i].row = r1
                                     \/ b = s /\ i = 1 /\ t.rows[i].row = r2
                                     \/ b # s /\ i = 0 /\ t.rows[i].row = r3
        BY <3>1, FirstTablesRows
      <3>3. QED BY <2>3, <3>2
    <2>5. QED BY <2>1, <2>2, <2>3, <2>4
  <1>10. ASSUME NEW r PROVE Copies(r) <= 1
    <2>1. FirstRows(s, d, r1, r2, r3)
      BY <1>9 DEF FirstRows
    <2>2. s # d /\ Cardinality({r1, r2, r3}) = 3
      BY <1>2
    <2>3. QED BY <1>1, <2>1, <2>2, FirstCopies
  <1>11. extra = [r \in Rows |-> 0]
    BY <1>5 DEF Starts
  <1>12. Counted
    <2>1. extra \in [Rows -> Nat]
      BY <1>11
    <2>2. ASSUME NEW r \in born \ excused PROVE Copies(r) <= 1 + extra[r] + InFlight(r)
      <3>1. r \in Rows
        BY <1>1 DEF Typed, GhostTyped
      <3>2. extra[r] = 0 /\ InFlight(r) \in Nat /\ Copies(r) \in Nat
        BY <1>1, <1>11, <3>1, CopiesFamily
      <3>3. QED BY <1>10, <3>2
    <2>3. QED BY <2>1, <2>2 DEF Counted
  <1>13. QED BY <1>1, <1>7, <1>8, <1>12 DEF CountInv

(* Every step keeps the counts.                                            *)
LEMMA NextCounts == CountInv /\ [Next]_vars => CountInv'
  <1> SUFFICES ASSUME CountInv, [Next]_vars PROVE CountInv'
    OBVIOUS
  <1>1. Inv'
    BY NextSafe DEF CountInv
  <1>2. ASSUME NEW p \in Workers, Step(p) PROVE CountInv'
    <2>1. CASE MakeBucket(p) \/ MakeBucketFails(p) \/ UndoCombine(p) \/ SweepEnds(p)
      BY <1>1, <2>1, DirectoryCounts
    <2>2. CASE Begin(p) \/ Prepare(p) \/ Publish(p) \/ WriteCurrent(p)
      BY <1>1, <2>2, BeginCounts, PrepareCounts, PublishCounts, WriteCounts
    <2>3. CASE PrepareFails(p) \/ PublishFails(p)
      BY <1>1, <2>3, WriterFailsCounts
    <2>4. CASE \E n \in Entries : SweepEntry(p, n)
      BY <1>1, <2>4, SweepCounts
    <2>5. QED BY <1>2, <2>1, <2>2, <2>3, <2>4 DEF Step
  <1>3. ASSUME NEW p \in Workers, Request(p) PROVE CountInv'
    BY <1>1, <1>3, RequestCounts
  <1>4. CASE Crash
    BY <1>1, <1>4, CrashCounts
  <1>5. CASE UNCHANGED vars
    BY <1>1, <1>5, StutterCounts
  <1>6. QED BY <1>2, <1>3, <1>4, <1>5 DEF Next

(* Copies of a row beyond the first are asked for, reported, left by a     *)
(* death of the service or by a deletion whose ids name other rows by now, *)
(* or belong to a move that has still to delete: whatever transfers,       *)
(* transactions, imports, combinations and failures interleave, no other   *)
(* copy of a row appears, unless a removed directory endangers the row.    *)
THEOREM EveryCopyAccounted == Spec => []CopiesAccounted
  <1>1. CountInv => CopiesAccounted
    BY DEF CountInv, Counted, CopiesAccounted
  <1>2. QED BY <1>1, InitCounts, NextCounts, PTL DEF Spec
=============================================================================
