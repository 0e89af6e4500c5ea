------------------------------ MODULE Catalog ------------------------------
(***************************************************************************)
(* Projects, datasets, images, reconstruction rows and similarity indexes: *)
(* the requests of api/v1/{projects,datasets,images,similarity}.py and the *)
(* services below them, as database sessions that interleave.              *)
(*                                                                         *)
(* A session reads first and writes later, and what it wrote becomes       *)
(* visible when get_db commits.  Two databases are supported and they      *)
(* differ in what serialises the writers:                                  *)
(*   - sqlite (the default): a SELECT opens no transaction, the first      *)
(*     write takes the one write lock until the commit, and foreign keys   *)
(*     are not enforced (no PRAGMA turns them on);                         *)
(*   - postgres (READ COMMITTED): writers of different rows proceed side   *)
(*     by side, writers of one row wait for each other, foreign keys are   *)
(*     enforced and cascade.                                               *)
(* Left out: pose priors, EXIF, byte sizes, tenants (every query carries   *)
(* the tenant of the caller), listing.                                     *)
(***************************************************************************)
EXTENDS Naturals, Sequences, FiniteSets, Functions

CONSTANTS
    Dbs,         \* the databases this instance considers
    Projects, Datasets, Tasks,
    Names,       \* names of images
    Labels,      \* names of datasets that clients choose
    Blobs,       \* finalized uploads
    Missing,     \* a hash that names no blob
    Requests,    \* sessions that may be open at once
    Batches,     \* the image lists clients send, sequences of <<name, sha>>
    Ops,         \* the operations this instance exercises
    NoHash, None,
    Gone,        \* a Dataset row that was deleted: ids are never given twice
    MaxOps,      \* bound on the sessions opened
    MaxImages    \* bound on the image ids given out

ASSUME DbAssumption == Dbs \subseteq {"sqlite", "postgres"}
ASSUME BoundsAssumption == MaxOps \in Nat /\ MaxImages \in Nat
ASSUME NamesAssumption == IsFiniteSet(Names)

VARIABLES
    db,          \* which database runs below; never changes
    projects,    \* Project rows
    dataset,     \* Dataset rows, by id: None or [project, label, kind, hash, task]
    images,      \* Image rows
    refs,        \* Blob.refcount
    recons,      \* Reconstruction rows
    plans,       \* what submissions hand to workers: snapshot hash and image list
    index,       \* the similarity index file of a dataset
    req,         \* open sessions
    raced,       \* auxiliary: see Commit
    opened, nextId

vars == <<db, projects, dataset, images, refs, recons, plans, index, req, raced, opened, nextId>>

Placeholder == "zeros"    \* the content hash of an image given by a path
Rendered == "rendered"    \* the content hash of an image a worker wrote
Shas == Blobs \union {Placeholder, Rendered}

DatasetRow == [project : Projects, label : Labels \union Tasks, kind : {"upload", "local"},
               hash : (SUBSET (Names \X Shas)) \union {NoHash},
               task : Tasks \union {None}]
ImageRow == [id : 1 .. MaxImages, ds : Datasets, name : Names,
             sha : Shas, kind : {"upload", "local"}]

\* A client names uploads or paths; no value stands for the lack of another.
ASSUME RowsAssumption ==
    /\ \A b \in Batches : b \in Seq(Names \X (Blobs \union {Placeholder, Missing}))
    /\ {Placeholder, Rendered, Missing} \intersect Blobs = {}
    /\ None \notin Projects /\ None \notin Datasets /\ None \notin Tasks
    /\ None \notin DatasetRow /\ Gone \notin DatasetRow /\ None # Gone

NoCounts == [b \in {} |-> 0]
Idle == [pc |-> "idle", op |-> "none", ds |-> None, kind |-> "none", todo |-> <<>>,
         dirty |-> FALSE, adds |-> {}, dels |-> {}, counts |-> NoCounts, hash |-> NoHash,
         row |-> None, recon |-> {}, task |-> None, project |-> None]

Init == /\ db \in Dbs
        /\ projects = Projects
        /\ dataset = [d \in Datasets |-> None]
        /\ images = {}
        /\ refs = [b \in Blobs |-> 0]
        /\ recons = {}
        /\ plans = {}
        /\ index = [d \in Datasets |-> None]
        /\ req = [r \in Requests |-> Idle]
        /\ raced = {}
        /\ opened = 0
        /\ nextId = 1

(***************************************************************************)
(* Sessions                                                                *)
(***************************************************************************)
Of(d, imgs) == {i \in imgs : i.ds = d}

\* recompute_manifest_hash: the content address of the sorted (name, sha) pairs.
Manifest(d, imgs) == {<<i.name, i.sha>> : i \in Of(d, imgs)}

\* What a statement of r sees: committed rows and its own.
Visible(r) == (images \ req[r].dels) \union req[r].adds

Others(r) == {s \in Requests \ {r} : req[s].pc # "idle"}

\* Sessions that have written and not yet committed.
Writing(s) == req[s].dirty

Live(d) == dataset[d] \notin {None, Gone}

\* SQLite has one writer at a time.
WriteLock(r) == db = "sqlite" => \A s \in Others(r) : ~Writing(s)

\* In PostgreSQL a row has one writer at a time: blob rows by their count ...
BlobLock(r, b) == db = "postgres" =>
    \A s \in Others(r) : ~(Writing(s) /\ b \in DOMAIN req[s].counts)

\* ... and dataset rows by their hash, their deletion, or a row that refers to them.
DatasetLock(r, d) == db = "postgres" =>
    \A s \in Others(r) : ~(req[s].ds = d /\ Writing(s) /\ req[s].pc \in {"read", "commit"})

\* Mutant of ProjectLock: the foreign key is not enforced.
NoProjectLock(r) == TRUE

\* A row that refers to a project waits for the deletion of the project, which waits
\* for whoever has written below it.
ProjectLock(r) == db = "postgres" => \A s \in Others(r) : ~(Writing(s) /\ req[s].op = "rmproject")

Open(r, op) == /\ req[r].pc = "idle"
               /\ op \in Ops
               /\ opened < MaxOps
               /\ opened' = opened + 1

\* An error: get_db rolls the session back.
Fail(r) == /\ req' = [req EXCEPT ![r] = Idle]
           /\ UNCHANGED <<db, projects, dataset, images, refs, recons, plans, index, raced, opened, nextId>>

\* Auxiliary: r reads the counts of bs, which others may have read too.
RacedBlobs(r, bs) == {b \in bs : \E s \in Others(r) : b \in DOMAIN req[s].counts}

(***************************************************************************)
(* Datasets and projects                                                   *)
(***************************************************************************)
\* create: get_project, create_image_source; the Dataset row is inserted at the flush.
CreateDataset(r, p, d, l, k) ==
    /\ Open(r, "mkdir")
    /\ p \in projects
    /\ dataset[d] = None /\ \A s \in Others(r) : req[s].row # None => req[s].ds # d
    /\ req' = [req EXCEPT ![r] = [Idle EXCEPT !.pc = "insert", !.op = "mkdir", !.ds = d,
                  !.row = [project |-> p, label |-> l, kind |-> k, hash |-> NoHash, task |-> None]]]
    /\ UNCHANGED <<db, projects, dataset, images, refs, recons, plans, index, raced, nextId>>

LabelTaken(p, l) == \E d \in Datasets : Live(d) /\ dataset[d].project = p
                                        /\ dataset[d].label = l

\* An uncommitted insert or rename to the same label of the same project.
LabelHeld(r, p, l) == \E s \in Others(r) : /\ req[s].row # None /\ Writing(s)
                                           /\ req[s].row.project = p /\ req[s].row.label = l

\* create_dataset: the flush either inserts the row or meets the unique constraint
\* (or, on postgres, the missing project).
InsertDataset(r) ==
    /\ req[r].pc = "insert" /\ WriteLock(r) /\ ProjectLock(r)
    /\ LET row == req[r].row IN
       /\ ~LabelHeld(r, row.project, row.label)
       /\ IF LabelTaken(row.project, row.label) \/ (db = "postgres" /\ row.project \notin projects)
          THEN Fail(r)
          ELSE /\ req' = [req EXCEPT ![r].pc = "commit", ![r].dirty = TRUE]
               /\ UNCHANGED <<db, projects, dataset, images, refs, recons, plans, index, raced, opened, nextId>>

\* patch_dataset with a new name: the other allowed columns are not looked at by anyone here.
PatchDataset(r, d, l) ==
    /\ Open(r, "patch")
    /\ Live(d)
    /\ req' = [req EXCEPT ![r] = [Idle EXCEPT !.pc = "rename", !.op = "patch", !.ds = d,
                                              !.row = [dataset[d] EXCEPT !.label = l]]]
    /\ UNCHANGED <<db, projects, dataset, images, refs, recons, plans, index, raced, nextId>>

RenameDataset(r) ==
    /\ req[r].pc = "rename" /\ WriteLock(r) /\ ProjectLock(r) /\ DatasetLock(r, req[r].ds)
    /\ LET row == req[r].row IN
       /\ ~LabelHeld(r, row.project, row.label)
       /\ IF \/ ~Live(req[r].ds)       \* the UPDATE matches no row: StaleDataError
             \/ LabelTaken(row.project, row.label) /\ dataset[req[r].ds].label # row.label
          THEN Fail(r)
          ELSE /\ req' = [req EXCEPT ![r].pc = "commit", ![r].dirty = TRUE]
               /\ UNCHANGED <<db, projects, dataset, images, refs, recons, plans, index, raced, opened, nextId>>

\* Mutant of DeleteDataset: one image per blob is counted.
DeleteDatasetOnce(r, d) ==
    /\ Open(r, "rmdir")
    /\ Live(d)
    /\ LET used == {i.sha : i \in {j \in Of(d, images) : j.kind = "upload"}}
       IN /\ req' = [req EXCEPT ![r] = [Idle EXCEPT !.pc = "rmdir", !.op = "rmdir", !.ds = d,
                        !.counts = [b \in used |-> IF refs[b] > 0 THEN refs[b] - 1 ELSE 0]]]
          /\ raced' = raced \union RacedBlobs(r, used)
    /\ UNCHANGED <<db, projects, dataset, images, refs, recons, plans, index, nextId>>

\* delete_dataset: reads the images and, for uploads, lowers the counts it has read.
DeleteDataset(r, d) ==
    /\ Open(r, "rmdir")
    /\ Live(d)
    /\ LET mine == {i \in Of(d, images) : i.kind = "upload"}
           used == {i.sha : i \in mine}
           uses(b) == Cardinality({i \in mine : i.sha = b})
       IN /\ req' = [req EXCEPT ![r] = [Idle EXCEPT !.pc = "rmdir", !.op = "rmdir", !.ds = d,
                        !.counts = [b \in used |-> IF refs[b] > uses(b) THEN refs[b] - uses(b) ELSE 0]]]
          /\ raced' = raced \union RacedBlobs(r, used)
    /\ UNCHANGED <<db, projects, dataset, images, refs, recons, plans, index, nextId>>

\* The DELETE statements: every image of the dataset that is there now, then the dataset.
DropDataset(r) ==
    /\ req[r].pc = "rmdir" /\ WriteLock(r) /\ ProjectLock(r) /\ DatasetLock(r, req[r].ds)
    /\ \A b \in DOMAIN req[r].counts : BlobLock(r, b)
    /\ db = "postgres" => \A s \in Others(r) : Of(req[r].ds, req[s].adds) = {}
    /\ req' = [req EXCEPT ![r].pc = "commit", ![r].dirty = TRUE, ![r].dels = Of(req[r].ds, images)]
    /\ UNCHANGED <<db, projects, dataset, images, refs, recons, plans, index, raced, opened, nextId>>

\* delete_project: one DELETE.  Only postgres cascades; no count is lowered.
DeleteProject(r, p) ==
    /\ Open(r, "rmproject")
    /\ p \in projects
    /\ req' = [req EXCEPT ![r] = [Idle EXCEPT !.pc = "rmproject", !.op = "rmproject", !.project = p]]
    /\ UNCHANGED <<db, projects, dataset, images, refs, recons, plans, index, raced, nextId>>

\* The DELETE waits (postgres) for uncommitted rows that refer to what it cascades to.
DropProject(r) ==
    /\ req[r].pc = "rmproject" /\ WriteLock(r)
    /\ db = "postgres" => \A s \in Others(r) : ~Writing(s)
    /\ req' = [req EXCEPT ![r].pc = "commit", ![r].dirty = TRUE]
    /\ UNCHANGED <<db, projects, dataset, images, refs, recons, plans, index, raced, opened, nextId>>

(***************************************************************************)
(* Images                                                                  *)
(***************************************************************************)
\* create and batch_create: get_dataset, then one add_image per item.
CreateImages(r, d, b) ==
    /\ Open(r, "add")
    /\ Live(d)
    /\ req' = [req EXCEPT ![r] = [Idle EXCEPT !.pc = "read", !.op = "add", !.ds = d,
                                              !.kind = dataset[d].kind, !.todo = b]]
    /\ UNCHANGED <<db, projects, dataset, images, refs, recons, plans, index, raced, nextId>>

\* _resolve_kind: an item given by a path is local, its hash a placeholder.
KindOf(item) == IF item[2] = Placeholder THEN "local" ELSE "upload"

With(counts, b, n) == [x \in DOMAIN counts \union {b} |-> IF x = b THEN n ELSE counts[x]]

\* add_image up to the flush: source and blob are read, the count goes up in memory.
ReadItem(r) ==
    /\ req[r].pc = "read" /\ req[r].todo # <<>>
    /\ LET item == Head(req[r].todo)
           b == item[2]
           seen == IF b \in DOMAIN req[r].counts THEN req[r].counts[b] ELSE refs[b]
       IN IF KindOf(item) # req[r].kind \/ b = Missing
          THEN Fail(r)
          ELSE /\ req' = [req EXCEPT ![r].pc = "item",
                     ![r].counts = IF KindOf(item) = "upload" THEN With(@, b, seen + 1) ELSE @]
               /\ raced' = raced \union (IF b \in Blobs THEN RacedBlobs(r, {b}) ELSE {})
               /\ UNCHANGED <<db, projects, dataset, images, refs, recons, plans, index, opened, nextId>>

\* The flush inserts the row or meets a constraint; the manifest is then read.
InsertItem(r) ==
    /\ req[r].pc = "item" /\ WriteLock(r) /\ ProjectLock(r)
    /\ LET item == Head(req[r].todo)
           d == req[r].ds
           same(i) == i.ds = d /\ i.name = item[1]
           img == [id |-> nextId, ds |-> d, name |-> item[1], sha |-> item[2], kind |-> KindOf(item)]
       IN /\ item[2] \in Blobs => BlobLock(r, item[2])
          /\ \A s \in Others(r) : ~\E i \in req[s].adds : same(i)
          /\ DatasetLock(r, d)
          /\ IF (\E i \in Visible(r) : same(i)) \/ (db = "postgres" /\ ~Live(d))
             THEN Fail(r)
             ELSE /\ nextId <= MaxImages
                  /\ nextId' = nextId + 1
                  /\ req' = [req EXCEPT ![r].pc = "hash", ![r].dirty = TRUE, ![r].todo = Tail(@),
                                        ![r].adds = @ \union {img},
                                        ![r].hash = Manifest(d, Visible(r) \union {img})]
                  /\ UNCHANGED <<db, projects, dataset, images, refs, recons, plans, index, raced, opened>>

\* recompute_manifest_hash: the UPDATE of the dataset, with the hash read before.
WriteHash(r) ==
    /\ req[r].pc = "hash" /\ DatasetLock(r, req[r].ds)
    /\ req' = [req EXCEPT ![r].pc = IF req[r].todo = <<>> THEN "commit" ELSE "read"]
    /\ UNCHANGED <<db, projects, dataset, images, refs, recons, plans, index, raced, opened, nextId>>

\* delete_image, delete_image_by_id: the row, then the blob of an upload.
DeleteImage(r, i) ==
    /\ Open(r, "rm")
    /\ LET used == IF i.kind = "upload" THEN {i.sha} ELSE {} IN
       /\ req' = [req EXCEPT ![r] = [Idle EXCEPT !.pc = "rm", !.op = "rm", !.ds = i.ds, !.dels = {i},
                     !.counts = [b \in used |-> IF refs[b] > 0 THEN refs[b] - 1 ELSE 0]]]
       /\ raced' = raced \union RacedBlobs(r, used)
    /\ UNCHANGED <<db, projects, dataset, images, refs, recons, plans, index, nextId>>

\* Mutant of DropImage: the manifest is read before the DELETE.
DropImageEarlyHash(r) ==
    /\ req[r].pc = "rm" /\ WriteLock(r) /\ ProjectLock(r)
    /\ \A b \in DOMAIN req[r].counts : BlobLock(r, b)
    /\ req' = [req EXCEPT ![r].pc = "hash", ![r].dirty = TRUE, ![r].hash = Manifest(req[r].ds, images)]
    /\ UNCHANGED <<db, projects, dataset, images, refs, recons, plans, index, raced, opened, nextId>>

\* _delete_image_row: the DELETE, then the manifest without the row.
DropImage(r) ==
    /\ req[r].pc = "rm" /\ WriteLock(r) /\ ProjectLock(r)
    /\ \A b \in DOMAIN req[r].counts : BlobLock(r, b)
    /\ req' = [req EXCEPT ![r].pc = "hash", ![r].dirty = TRUE, ![r].hash = Manifest(req[r].ds, Visible(r))]
    /\ UNCHANGED <<db, projects, dataset, images, refs, recons, plans, index, raced, opened, nextId>>

(***************************************************************************)
(* Derived datasets: register_derived_dataset in the dispatcher's success  *)
(* session.  Two successes of one task do not overlap (SettleIsExclusive   *)
(* of Orchestrator).                                                       *)
(***************************************************************************)
DerivedOf(t) == {d \in Datasets : Live(d) /\ dataset[d].task = t}

\* _find_existing_derived_dataset: rows registered by an earlier run are reported again.
Derive(r, t, p, d, l) ==
    /\ Open(r, "derive")
    /\ db = "postgres" => p \in projects
    /\ \A s \in Others(r) : req[s].task # t
    /\ dataset[d] = None /\ \A s \in Others(r) : req[s].row # None => req[s].ds # d
    /\ req' = IF DerivedOf(t) # {} THEN req
              ELSE [req EXCEPT ![r] = [Idle EXCEPT !.pc = "derive", !.op = "derive", !.ds = d,
                       !.task = t, !.row = [project |-> p, label |-> l, kind |-> "local",
                                            hash |-> NoHash, task |-> t]]]
    /\ UNCHANGED <<db, projects, dataset, images, refs, recons, plans, index, raced, nextId>>

\* The images of a derived dataset, one add_image each, in some order.
Numbering == CHOOSE f \in [Names -> 0 .. Cardinality(Names) - 1] : IsInjective(f)
Rendering(d) ==
    {[id |-> nextId + Numbering[n], ds |-> d, name |-> n, sha |-> Rendered, kind |-> "local"] :
        n \in Names}

\* Source, a free label (_unique_derived_dataset_name), the dataset and its images.
RegisterDerived(r) ==
    /\ req[r].pc = "derive" /\ WriteLock(r) /\ ProjectLock(r)
    /\ LET row == req[r].row
           d == req[r].ds
           l == IF LabelTaken(row.project, row.label) THEN req[r].task ELSE row.label
       IN /\ ~LabelHeld(r, row.project, l)
          /\ IF LabelTaken(row.project, l) \/ (db = "postgres" /\ row.project \notin projects)
             THEN Fail(r)
             ELSE /\ nextId + Cardinality(Names) - 1 <= MaxImages
                  /\ nextId' = nextId + Cardinality(Names)
                  /\ req' = [req EXCEPT ![r].pc = "commit", ![r].dirty = TRUE,
                                ![r].row = [row EXCEPT !.label = l], ![r].adds = Rendering(d),
                                ![r].hash = Manifest(d, Rendering(d))]
                  /\ UNCHANGED <<db, projects, dataset, images, refs, recons, plans, index, raced, opened>>

(***************************************************************************)
(* Reconstructions and indexes, which remember a manifest                  *)
(***************************************************************************)
\* A stage submission: get_dataset and the look-up of ensure_reconstruction.
SubmitRead(r, d) ==
    /\ Open(r, "submit")
    /\ Live(d)
    /\ LET found == {x \in recons : x.ds = d /\ x.hash = dataset[d].hash} IN
       req' = [req EXCEPT ![r] = [Idle EXCEPT !.pc = "submit", !.op = "submit", !.ds = d,
                 !.hash = dataset[d].hash,
                 !.recon = IF found = {} THEN {[n |-> opened, ds |-> d, hash |-> dataset[d].hash]}
                           ELSE {}]]
    /\ UNCHANGED <<db, projects, dataset, images, refs, recons, plans, index, raced, nextId>>

\* The insert of ensure_reconstruction, and the image list of derive_materialization.
SubmitWrite(r) ==
    /\ req[r].pc = "submit" /\ WriteLock(r) /\ ProjectLock(r) /\ DatasetLock(r, req[r].ds)
    /\ IF Of(req[r].ds, images) = {} \/ (db = "postgres" /\ ~Live(req[r].ds))
       THEN Fail(r)
       ELSE /\ req' = [req EXCEPT ![r].pc = "commit", ![r].dirty = TRUE,
                                  ![r].adds = Of(req[r].ds, images)]
            /\ UNCHANGED <<db, projects, dataset, images, refs, recons, plans, index, raced, opened, nextId>>

\* build_index: an index with the hash of the dataset is returned as it is.
BuildRead(r, d, force) ==
    /\ Open(r, "build")
    /\ Live(d)
    /\ req' = IF index[d] # None /\ ~force /\ index[d].hash = dataset[d].hash
              THEN req
              ELSE [req EXCEPT ![r] = [Idle EXCEPT !.pc = "build", !.op = "build", !.ds = d,
                                                   !.hash = dataset[d].hash]]
    /\ UNCHANGED <<db, projects, dataset, images, refs, recons, plans, index, raced, nextId>>

\* The images are read and hashed one by one ...
BuildSelect(r) ==
    /\ req[r].pc = "build"
    /\ IF Of(req[r].ds, images) = {}
       THEN Fail(r)
       ELSE /\ req' = [req EXCEPT ![r].pc = "save", ![r].adds = Of(req[r].ds, images)]
            /\ UNCHANGED <<db, projects, dataset, images, refs, recons, plans, index, raced, opened, nextId>>

\* Mutant of BuildSave: the stamp is read again when the file is written.
BuildSaveRestamped(r) ==
    /\ req[r].pc = "save"
    /\ Live(req[r].ds)
    /\ index' = [index EXCEPT ![req[r].ds] = [hash |-> dataset[req[r].ds].hash, of |-> req[r].adds]]
    /\ req' = [req EXCEPT ![r] = Idle]
    /\ UNCHANGED <<db, projects, dataset, images, refs, recons, plans, raced, opened, nextId>>

\* ... and the file replaced.  It is not part of any transaction.
BuildSave(r) ==
    /\ req[r].pc = "save"
    /\ index' = [index EXCEPT ![req[r].ds] = [hash |-> req[r].hash, of |-> req[r].adds]]
    /\ req' = [req EXCEPT ![r] = Idle]
    /\ UNCHANGED <<db, projects, dataset, images, refs, recons, plans, raced, opened, nextId>>

(***************************************************************************)
(* The commit at the end of get_db, or of the worker's session             *)
(***************************************************************************)
\* A new Dataset row, a renamed one, a new hash, or the rows that are gone.
CommitDatasets(r) ==
    LET q == req[r]
        gone == CASE q.op = "rmdir" -> {q.ds}
                  [] q.op = "rmproject" /\ db = "postgres" ->
                        {d \in Datasets : Live(d) /\ dataset[d].project = q.project}
                  [] OTHER -> {}
    IN [d \in Datasets |->
          CASE d \in gone -> Gone
            [] d = q.ds /\ q.op = "mkdir" -> q.row
            [] d = q.ds /\ q.op = "derive" -> [q.row EXCEPT !.hash = q.hash]
            [] d = q.ds /\ q.op = "patch" /\ Live(d) ->
                  [dataset[d] EXCEPT !.label = q.row.label]
            [] d = q.ds /\ q.op \in {"add", "rm"} /\ Live(d) ->
                  [dataset[d] EXCEPT !.hash = q.hash]
            [] OTHER -> dataset[d]]

\* Only postgres deletes what refers to a deleted row.  raced collects what two
\* sessions disturbed: a blob whose images were deleted without their counts, a
\* dataset that moved under a session that had read its hash.
Commit(r) ==
    LET q == req[r]
        cascaded == IF db = "postgres"
                    THEN {i \in images : Live(i.ds) /\ CommitDatasets(r)[i.ds] = Gone} \ q.dels
                    ELSE {}
        uncounted == {i \in q.dels \union cascaded : i.kind = "upload" /\ i.sha \notin DOMAIN q.counts}
        inserted == IF q.op = "submit" THEN {} ELSE q.adds
    IN /\ q.pc = "commit"
       /\ dataset' = CommitDatasets(r)
       /\ images' = (images \ (q.dels \union cascaded)) \union inserted
       /\ refs' = [b \in Blobs |-> IF b \in DOMAIN q.counts THEN q.counts[b] ELSE refs[b]]
       /\ projects' = projects \ {q.project}
       /\ recons' = {x \in recons \union q.recon : db = "postgres" => dataset'[x.ds] # Gone}
       /\ plans' = plans \union IF q.op = "submit"
                                THEN {[ds |-> q.ds, hash |-> q.hash, list |-> Manifest(q.ds, q.adds)]}
                                ELSE {}
       /\ raced' = raced \union {i.sha : i \in uncounted}
                         \union {d \in {i.ds : i \in inserted \union q.dels} :
                                   \E s \in Others(r) : req[s].ds = d
                                                        /\ req[s].pc \in {"submit", "build"}}
       /\ req' = [req EXCEPT ![r] = Idle]
       /\ UNCHANGED <<db, index, opened, nextId>>

\* A client that goes away, a busy database, a crash: the transaction is rolled back.
Abort(r) == req[r].pc # "idle" /\ Fail(r)

Client(r) ==
    \/ \E p \in Projects, d \in Datasets, l \in Labels, k \in {"upload", "local"} :
          CreateDataset(r, p, d, l, k)
    \/ \E d \in Datasets, l \in Labels : PatchDataset(r, d, l)
    \/ \E d \in Datasets : DeleteDataset(r, d)
    \/ \E p \in Projects : DeleteProject(r, p)
    \/ \E d \in Datasets, b \in Batches : CreateImages(r, d, b)
    \/ \E i \in images : DeleteImage(r, i)
    \/ \E t \in Tasks, p \in Projects, d \in Datasets, l \in Labels : Derive(r, t, p, d, l)
    \/ \E d \in Datasets : SubmitRead(r, d)
    \/ \E d \in Datasets, force \in BOOLEAN : BuildRead(r, d, force)

Next == \E r \in Requests :
    \/ Client(r)
    \/ InsertDataset(r) \/ RenameDataset(r) \/ DropDataset(r) \/ DropProject(r)
    \/ ReadItem(r) \/ InsertItem(r) \/ WriteHash(r) \/ DropImage(r)
    \/ RegisterDerived(r) \/ SubmitWrite(r) \/ BuildSelect(r) \/ BuildSave(r)
    \/ Commit(r) \/ Abort(r)

Spec == Init /\ [][Next]_vars

(***************************************************************************)
(* Properties                                                              *)
(***************************************************************************)
\* Types of the rows, and of what the sessions carry.
TypeOK ==
    /\ db \in Dbs /\ projects \subseteq Projects
    /\ \A d \in Datasets : dataset[d] \in DatasetRow \union {None, Gone}
    /\ images \subseteq ImageRow
    /\ refs \in [Blobs -> Nat]
    /\ \A r \in Requests : /\ req[r].adds \union req[r].dels \subseteq ImageRow
                           /\ DOMAIN req[r].counts \subseteq Blobs
    /\ raced \subseteq Blobs \union Datasets

\* On SQLite the manifest hash of a dataset is that of its images, whatever sessions
\* interleave: recompute_manifest_hash selects after the insert or delete, inside the
\* transaction that holds the write lock.
ManifestCurrent ==
    db = "sqlite" =>
        \A d \in Datasets : Live(d) => \/ dataset[d].hash = Manifest(d, images)
                                       \/ dataset[d].hash = NoHash /\ Of(d, images) = {}

\* The count of a blob is the number of images that use it, unless two sessions were
\* changing it at once or a cascade took images away: batches that fail half way,
\* images and datasets that are deleted and aborted sessions leave it exact.
RefcountExact ==
    \A b \in Blobs \ raced : refs[b] = Cardinality({i \in images : i.sha = b})

\* On PostgreSQL no image and no reconstruction outlives its dataset, and no dataset
\* its project, although deletions race with sessions that have read the parent row.
NoOrphans ==
    db = "postgres" =>
        /\ \A i \in images : Live(i.ds)
        /\ \A x \in recons : Live(x.ds)
        /\ \A d \in Datasets : Live(d) => dataset[d].project \in projects

\* On SQLite a similarity index and a worker's image list hold what the manifest hash
\* they are stamped with stands for, unless the dataset moved while they were made.
StampsHonest ==
    db = "sqlite" =>
        /\ \A x \in plans : x.ds \notin raced => x.list = x.hash
        /\ \A d \in Datasets \ raced : index[d] # None => Manifest(d, index[d].of) = index[d].hash

\* What api/v1/similarity.py promises: an index that is stamped with the current hash
\* covers the images of the dataset.
IndexFresh ==
    \A d \in Datasets : Live(d) /\ index[d] # None /\ index[d].hash = dataset[d].hash
                            => index[d].of = Of(d, images)
=============================================================================
