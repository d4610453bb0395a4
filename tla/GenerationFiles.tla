----------------------------- MODULE GenerationFiles -----------------------------
(***************************************************************************)
(* The files of published generations and how new generations share them. *)
(* An index is added, dropped or rebuilt (admin.rs, exact.rs), and rows are *)
(* appended as a layer (segmented_import.rs), in a staging directory whose *)
(* files are hard links to those of CURRENT; the result is sealed, or its  *)
(* seal is composed from seals that exist, and verified (operations.rs).   *)
(*                                                                         *)
(* A name in a directory leads to a file on the disk, which other          *)
(* directories may share.  Creating a file under a name that exists        *)
(* truncates the shared file; renaming over a name and removing one only   *)
(* change the directory.  A file that is written under a temporary name    *)
(* and renamed is a new file under the final name.  Writers exclude each   *)
(* other (Catalog): there is one staging directory.                        *)
(***************************************************************************)
EXTENDS Integers, Sequences, FiniteSets, FiniteSetsExt, SequencesExt

CONSTANTS
    Schemas,        \* the schemas an import may bring: sequences of column names
    IndexChoices,   \* the sets of column names an index is requested on
    MaxGenerations  \* how many generations are published

ASSUME GenerationFilesAssumption ==
    /\ MaxGenerations \in Nat
    /\ Schemas # {}
    /\ \A schema \in Schemas : schema \in Seq(STRING) /\ schema # <<>> /\ IsInjective(schema)
    /\ \A names \in IndexChoices : IsFiniteSet(names) /\ Cardinality(names) >= 2

VARIABLES
    disk,     \* the files, by number: their contents
    dirs,     \* the published generations: the file of each name
    current,  \* the generation CURRENT names
    stage,    \* the staging directory, and the seal that was composed for it
    op        \* the operation in progress

vars == <<disk, dirs, current, stage, op>>

NoStage == [dir |-> <<>>, open |-> FALSE]
NoOp    == [at |-> "none"]

\* The names in a generation.  An index file is a delta file or, by the sizes, one of the others.
Name(kind, number) == [kind |-> kind, number |-> number]
Data      == Name("canonical", 0)
Schema    == Name("schema.json", 0)
Manifest  == Name("manifest.json", 0)
Overlay   == Name("overlay.json", 0)
Integrity == Name("integrity.json", 0)
Child(layer) == {Name("delta data", layer), Name("delta ids", layer)}

IndexFile(kind, number) == Name(kind, number)

Read(dir, name) == disk[dir[name]]

----------------------------------------------------------------------------
(* Writing files.                                                          *)

\* File::create: the file of an existing name is emptied, and gets the new contents.
Create(files, dir, name, contents) ==
    IF name \in DOMAIN dir
    THEN [disk |-> [files EXCEPT ![dir[name]] = contents], dir |-> dir]
    ELSE [disk |-> Append(files, contents),
          dir |-> [n \in DOMAIN dir \cup {name} |-> IF n = name THEN Len(files) + 1 ELSE dir[n]]]

\* A temporary file that is renamed over the name.
Replace(files, dir, name, contents) ==
    [disk |-> Append(files, contents),
     dir |-> [n \in DOMAIN dir \cup {name} |-> IF n = name THEN Len(files) + 1 ELSE dir[n]]]

Unlink(dir, names) == [n \in DOMAIN dir \ names |-> dir[n]]

----------------------------------------------------------------------------
(* Seals.                                                                  *)

\* collect_stable_files
StableFiles(dir) == DOMAIN dir \ {Integrity}

ComputeIntegrity(dir) == [name \in StableFiles(dir) |-> Read(dir, name)]

\* The files the manifest and the overlay name exist and can be opened.
StructureValid(dir) ==
    /\ {Manifest, Schema, Data} \subseteq DOMAIN dir
    /\ \A index \in Read(dir, Manifest).indexes :
         /\ index.columns \subseteq DOMAIN Read(dir, Schema).columns
         /\ index.file \in DOMAIN dir /\ Read(dir, index.file).whole
    /\ Overlay \in DOMAIN dir => \A l \in 1..Read(dir, Overlay).layers : Child(l) \subseteq DOMAIN dir

\* verify_dataset: every file is sealed, every sealed file exists and has the sealed contents.
VerifyDataset(dir) ==
    /\ StructureValid(dir)
    /\ Integrity \in DOMAIN dir
    /\ Read(dir, Integrity).entries = ComputeIntegrity(dir)

\* verify_integrity_metadata and the length check of install_integrity_manifest compare names.
SealCoversFiles(entries, dir) == DOMAIN entries = StableFiles(dir)

----------------------------------------------------------------------------
(* Index administration.                                                   *)

CurrentSchema == Read(dirs[current], Schema).columns

\* validated_columns: the names are looked up before the writer lock is taken.
Validate(type, names) ==
    /\ op = NoOp
    /\ names \subseteq ToSet(CurrentSchema)
    /\ op' = [at |-> "validated", type |-> type, names |-> names,
              columns |-> {c \in DOMAIN CurrentSchema : CurrentSchema[c] \in names}]
    /\ UNCHANGED <<disk, dirs, current, stage>>

\* clone_tree_link: every file but the seal.
CloneTreeLink(dir) == Unlink(dir, {Integrity})

\* begin_generation, and the staging directory gets links to the files of CURRENT.
CloneCurrent ==
    /\ op.at = "validated" /\ ~ stage.open
    /\ Cardinality(DOMAIN dirs) < MaxGenerations
    /\ stage' = [open |-> TRUE, dir |-> CloneTreeLink(dirs[current]),
                 seal |-> Read(dirs[current], Integrity).entries]
    /\ op' = [op EXCEPT !.at = CASE op.type = "add" -> "build"
                                 [] op.type \in {"drop", "rebuild"} -> "drop"
                                 [] op.type = "append" -> "attach"]
    /\ UNCHANGED <<disk, dirs, current>>

\* Seeded fault: one of the kinds is missing from the list of exact kinds.
MatchingButDelta(indexes, columns) ==
    {index \in indexes : index.columns = columns /\ index.file.kind # "dlt"}

\* The indexes on exactly these columns.
Matching(indexes, columns) == {index \in indexes : index.columns = columns}

StageIndexes == Read(stage.dir, Manifest).indexes

\* drop_from_stage; an index that does not exist is an error.
DropFromStage ==
    LET matches == Matching(StageIndexes, op.columns)
        written == Replace(disk, Unlink(stage.dir, {index.file : index \in matches}),
                           Manifest, [indexes |-> StageIndexes \ matches])
    IN /\ op.at = "drop" /\ matches # {}
       /\ disk' = written.disk
       /\ stage' = [stage EXCEPT !.dir = written.dir]
       /\ op' = [op EXCEPT !.at = IF op.type = "drop" THEN "publish" ELSE "build"]
       /\ UNCHANGED <<dirs, current>>

\* Seeded fault: files are numbered by how many there are.
NumberByLength(indexes) == Cardinality(indexes)

\* next_hierarchy_number: above every number in the manifest.
NextHierarchyNumber(indexes) == Max({-1} \cup {index.file.number : index \in indexes}) + 1

Index(kind, number, columns) == [file |-> IndexFile(kind, number), columns |-> columns]

\* add_exact_hierarchies starts the delta file; an index on the columns is an error.
CreateDelta ==
    LET number == NextHierarchyNumber(StageIndexes)
        written == Create(disk, stage.dir, IndexFile("dlt", number), [whole |-> FALSE])
    IN /\ op.at = "build" /\ Matching(StageIndexes, op.columns) = {}
       /\ disk' = written.disk
       /\ stage' = [stage EXCEPT !.dir = written.dir]
       /\ op' = [op EXCEPT !.at = "choose"]
       /\ UNCHANGED <<dirs, current>>

\* The delta file is complete and measured; it is kept, or removed and another kind is written.
ChooseKind ==
    \E kind \in {"dlt", "other"} :
        LET number == NextHierarchyNumber(StageIndexes)
            delta == IndexFile("dlt", number)
            contents == [whole |-> TRUE, columns |-> op.columns, data |-> Read(stage.dir, Data)]
            built == Create(disk, IF kind = "dlt" THEN stage.dir ELSE Unlink(stage.dir, {delta}),
                            IndexFile(kind, number), contents)
            written == Replace(built.disk, built.dir, Manifest,
                               [indexes |-> StageIndexes \cup {Index(kind, number, op.columns)}])
        IN /\ op.at = "choose"
           /\ disk' = written.disk
           /\ stage' = [stage EXCEPT !.dir = written.dir]
           /\ op' = [op EXCEPT !.at = "publish"]
           /\ UNCHANGED <<dirs, current>>

----------------------------------------------------------------------------
(* Publication.                                                            *)

\* The sealed staging directory gets its name, and CURRENT names it.
Rename(files, dir, entries) ==
    LET sealed == Replace(files, dir, Integrity, [entries |-> entries])
        id == Max(DOMAIN dirs) + 1
    IN /\ disk' = sealed.disk
       /\ dirs' = [g \in DOMAIN dirs \cup {id} |-> IF g = id THEN sealed.dir ELSE dirs[g]]
       /\ current' = id

\* publish_generation: the files are hashed after the structure is found valid.
PublishGeneration ==
    /\ op.at = "publish" /\ op.type # "append"
    /\ StructureValid(stage.dir)
    /\ Rename(disk, stage.dir, ComputeIntegrity(stage.dir))
    /\ stage' = NoStage /\ op' = NoOp

\* The seal of CURRENT with the entries of the new layer, and that of the overlay replaced.
ComposedSeal(seal, dir, layer) ==
    [name \in DOMAIN seal \cup Child(layer) \cup {Overlay} |->
        IF name \in DOMAIN seal \ {Overlay} THEN seal[name] ELSE Read(dir, name)]

\* attach_layer: the part's files move into the staging directory and the overlay is replaced.
AttachLayer ==
    LET layer == 1 + IF Overlay \in DOMAIN stage.dir THEN Read(stage.dir, Overlay).layers ELSE 0
        part == Replace(disk, stage.dir, Name("delta data", layer), [rows |-> layer])
        ids == Create(part.disk, part.dir, Name("delta ids", layer), [rows |-> layer])
        written == Replace(ids.disk, ids.dir, Overlay, [layers |-> layer])
    IN /\ op.at = "attach"
       /\ disk' = written.disk
       /\ stage' = [stage EXCEPT !.dir = written.dir]
       /\ op' = [op EXCEPT !.at = "compose"]
       /\ UNCHANGED <<dirs, current>>

\* The layer's entries are composed with those of CURRENT's seal and the generation is published
\* without hashing the linked files again: install_integrity_manifest, publish_presealed_generation.
PublishPresealed ==
    LET entries == ComposedSeal(stage.seal, stage.dir, Read(stage.dir, Overlay).layers)
    IN /\ op.at = "compose"
       /\ StructureValid(stage.dir)
       /\ SealCoversFiles(entries, stage.dir)
       /\ Rename(disk, stage.dir, entries)
       /\ stage' = NoStage /\ op' = NoOp

\* Rows are appended; nothing is read before the lock.
BeginAppend ==
    /\ op = NoOp
    /\ op' = [at |-> "validated", type |-> "append", names |-> {}, columns |-> {}]
    /\ UNCHANGED <<disk, dirs, current, stage>>

\* exact_specs: an index on every column, and one on all of them if it is asked for and there
\* are two at least, in the order of their columns.
ExactSpecs(schema, accelerated) ==
    IF accelerated /\ Len(schema) > 1
      THEN [i \in 1..Len(schema) + 1 |-> CASE i = 1 -> {1}
                                           [] i = 2 -> DOMAIN schema
                                           [] OTHER -> {i - 1}]
      ELSE [i \in DOMAIN schema |-> {i}]

\* The files of a dataset that was imported, as they follow each other on the disk.
Imported(data, schema, specs, kind) ==
    [i \in 1..Len(specs) + 3 |->
        CASE i = 1 -> data
          [] i = 2 -> [columns |-> schema]
          [] i = 3 -> [indexes |-> {Index(kind, j - 1, specs[j]) : j \in DOMAIN specs}]
          [] OTHER -> [whole |-> TRUE, columns |-> specs[i - 3], data |-> data]]

Position(name) ==
    CASE name = Data -> 1 [] name = Schema -> 2 [] name = Manifest -> 3 [] OTHER -> 4 + name.number

\* Their directory, when they follow n others.
DirAfter(n, specs, kind) ==
    [name \in {Data, Schema, Manifest} \cup {IndexFile(kind, i - 1) : i \in DOMAIN specs} |->
        n + Position(name)]

\* import_csv replaces the dataset by one that may have another schema.
Import ==
    \E schema \in Schemas, accelerated \in BOOLEAN :
        LET specs == ExactSpecs(schema, accelerated)
            data == [import |-> Cardinality(DOMAIN dirs) + 1]
            files == disk \o Imported(data, schema, specs, "dlt")
            dir == DirAfter(Len(disk), specs, "dlt")
        IN /\ ~ stage.open /\ Cardinality(DOMAIN dirs) < MaxGenerations
           /\ Rename(files, dir, [name \in DOMAIN dir |-> files[dir[name]]])
           /\ UNCHANGED <<stage, op>>

\* CURRENT names an earlier generation again.
Rollback ==
    /\ ~ stage.open
    /\ current' \in DOMAIN dirs \ {current}
    /\ UNCHANGED <<disk, dirs, stage, op>>

\* An error or a crash: the staging directory is removed, or is left under a name nobody reads,
\* and files that only it has are gone.
Stop ==
    /\ op # NoOp
    /\ stage' = NoStage /\ op' = NoOp
    /\ disk' = SubSeq(disk, 1, Max(UNION {Range(dirs[g]) : g \in DOMAIN dirs}))
    /\ UNCHANGED <<dirs, current>>

----------------------------------------------------------------------------

\* A first import has published a generation with an accelerator on all columns.
Init ==
    \E schema \in Schemas, kind \in {"dlt", "other"} :
        LET specs == ExactSpecs(schema, TRUE)
            files == Imported([import |-> 1], schema, specs, kind)
            dir == DirAfter(0, specs, kind)
            entries == [name \in DOMAIN dir |-> files[dir[name]]]
            sealed == Replace(files, dir, Integrity, [entries |-> entries])
        IN /\ disk = sealed.disk
           /\ dirs = [g \in {1} |-> sealed.dir]
           /\ current = 1 /\ stage = NoStage /\ op = NoOp

Next ==
    \/ \E type \in {"add", "drop", "rebuild"}, names \in IndexChoices : Validate(type, names)
    \/ CloneCurrent \/ DropFromStage \/ CreateDelta \/ ChooseKind \/ PublishGeneration
    \/ BeginAppend \/ AttachLayer \/ PublishPresealed \/ Import \/ Rollback \/ Stop

Spec == Init /\ [][Next]_vars

----------------------------------------------------------------------------
(* Properties.                                                             *)

\* Every published generation passes verify_dataset in every state: no staged change of a later
\* generation reaches a file that is shared with it, and a composed seal has the hashes that
\* sealing from scratch would find.
PublishedVerify == \A g \in DOMAIN dirs : VerifyDataset(dirs[g])

\* Every index a published manifest names is in a file of its own, is the only one on its columns
\* and holds those columns of that generation's data, also while another is being built, dropped
\* or rebuilt over links to it.
IndexesServeTheirData ==
    \A g \in DOMAIN dirs :
        LET indexes == Read(dirs[g], Manifest).indexes
        IN /\ \A x, y \in indexes : x # y =>
                dirs[g][x.file] # dirs[g][y.file] /\ x.columns # y.columns
           /\ \A x \in indexes :
                Read(dirs[g], x.file) =
                    [whole |-> TRUE, columns |-> x.columns, data |-> Read(dirs[g], Data)]

\* An index that is added is on the columns that were named in the request: the column numbers
\* that were looked up before the lock mean the same columns in the generation that is cloned.
IndexedAsNamed ==
    [][PublishGeneration /\ op.type \in {"add", "rebuild"} =>
         {Read(stage.dir, Schema).columns[c] : c \in op.columns} = op.names]_vars

=============================================================================
