--------------------------- MODULE CatalogProofs ---------------------------
(***************************************************************************)
(* Theorems about Catalog: types, what the foreign keys of postgres keep   *)
(* (NoOrphans), what the write lock of sqlite keeps (ManifestCurrent and   *)
(* StampsHonest), and the counts of blobs (RefcountExact).                 *)
(***************************************************************************)
EXTENDS Catalog, FiniteSetTheorems, FunctionTheorems, TLAPS

-----------------------------------------------------------------------------
(* The inductive invariants. *)

Hashes == (SUBSET (Names \X Shas)) \union {NoHash}
Counts == UNION {[B -> Nat] : B \in SUBSET Blobs}
Todos == Seq(Names \X (Blobs \union {Placeholder, Missing}))
ReconRow == [n : Nat, ds : Datasets, hash : Hashes]

SessionState ==
    [pc : {"idle", "insert", "rename", "rmdir", "rmproject", "read", "item", "hash", "rm",
           "derive", "submit", "build", "save", "commit"},
     op : {"none", "mkdir", "patch", "rmdir", "rmproject", "add", "rm", "derive", "submit",
           "build"},
     ds : Datasets \union {None}, kind : {"none", "upload", "local"},
     todo : Todos, dirty : BOOLEAN,
     adds : SUBSET ImageRow, dels : SUBSET ImageRow, counts : Counts, hash : Hashes,
     row : DatasetRow \union {None}, recon : SUBSET ReconRow,
     task : Tasks \union {None}, project : Projects \union {None}]

Typed ==
    /\ db \in Dbs /\ projects \subseteq Projects
    /\ dataset \in [Datasets -> DatasetRow \union {None, Gone}]
    /\ images \subseteq ImageRow
    /\ refs \in [Blobs -> Nat]
    /\ recons \subseteq ReconRow
    /\ req \in [Requests -> SessionState]
    /\ raced \subseteq Blobs \union Datasets
    /\ opened \in Nat /\ nextId \in 1 .. MaxImages + 1

Using(b, imgs) == {i \in imgs : i.sha = b}

\* Uploads have blobs, and each blob has finitely many.
Proper(imgs) ==
    /\ \A i \in imgs : i.kind = "upload" <=> i.sha \in Blobs
    /\ \A b \in Blobs : IsFiniteSet(Using(b, imgs))

\* What a session carries, by what it is there for.
Shape(q) ==
    /\ q.pc = "commit" \/ q.pc = "hash" => q.dirty
    /\ q.dirty => q.pc \in {"read", "item", "hash", "commit"}
    /\ q.op \in {"none", "rmproject"} \/ q.ds \in Datasets
    /\ q.op = "none" <=> q.pc = "idle"
    /\ q.pc = "insert" => q.op = "mkdir"
    /\ q.pc = "rename" => q.op = "patch"
    /\ q.pc = "rmproject" => q.op = "rmproject"
    /\ q.pc = "rmdir" => q.op = "rmdir"
    /\ q.pc = "rm" => q.op = "rm"
    /\ q.pc = "derive" => q.op = "derive"
    /\ q.pc \in {"read", "item"} => q.op = "add"
    /\ q.pc = "hash" => q.op \in {"add", "rm"}
    /\ q.pc = "submit" => q.op = "submit"
    /\ q.pc \in {"build", "save"} <=> q.op = "build"
    /\ q.op \in {"mkdir", "patch", "derive"} <=> q.row # None
    /\ q.op = "mkdir" => q.row.hash = NoHash
    /\ q.op \notin {"rm", "rmdir"} => q.dels = {}
    /\ q.op \notin {"add", "derive", "submit", "build"} => q.adds = {}
    /\ q.op # "submit" => q.recon = {}
    /\ q.op # "rmproject" => q.project = None
    /\ q.op \notin {"add", "rm", "rmdir"} => DOMAIN q.counts = {}
    /\ \A i \in q.adds \union q.dels : i.ds = q.ds
    /\ \A i \in q.dels : i.kind = "upload" <=> i.sha \in Blobs
    /\ \A x \in q.recon : x.ds = q.ds
    /\ q.op = "add" /\ q.dirty => q.adds # {}
    /\ q.op = "derive" /\ q.dirty => q.hash = Manifest(q.ds, q.adds)
    /\ q.pc = "item" => q.todo # <<>> /\ Head(q.todo)[2] # Missing
    /\ q.op \in {"add", "derive"} => Proper(q.adds)
    /\ q.op = "rm" => q.todo = <<>>
    /\ q.op = "derive" => q.task \in Tasks

Newborn == {"mkdir", "derive"}

\* Ids of datasets are given once: to one session, and never again.
Named ==
    /\ \A i \in images : dataset[i.ds] # None
    /\ \A x \in recons : dataset[x.ds] # None
    /\ \A r \in Requests : LET q == req[r]
                           IN  /\ q.op \in Newborn => dataset[q.ds] = None
                               /\ q.op \notin Newborn \union {"none", "rmproject"} =>
                                    dataset[q.ds] # None
    /\ \A r, s \in Requests : r # s /\ req[r].op \in Newborn /\ req[s].op \in Newborn =>
                                req[r].ds # req[s].ds

Base == Typed /\ Proper(images) /\ (\A r \in Requests : Shape(req[r])) /\ Named

\* postgres: whoever has written below a row is safe from the deletion of the row.
Guarded ==
    db = "postgres" =>
        /\ \A r \in Requests :
             req[r].dirty => /\ req[r].op \in {"add", "submit"} => Live(req[r].ds)
                             /\ req[r].op \in Newborn => req[r].row.project \in projects
        /\ \A r, s \in Requests :
             r # s /\ req[r].dirty /\ req[s].dirty =>
               /\ req[r].op # "rmproject"
               /\ ~(req[r].op = "rmdir" /\ req[s].op \in {"add", "submit"}
                    /\ req[r].ds = req[s].ds)

\* sqlite: the one writer holds the hash of what its commit will leave.
OneWriter ==
    db = "sqlite" =>
        /\ \A r, s \in Requests : req[r].dirty /\ req[s].dirty => r = s
        /\ \A r \in Requests :
             LET q == req[r]
             IN  q.dirty => /\ q.op = "add" => q.hash = Manifest(q.ds, images \union q.adds)
                            /\ q.op = "rm" => q.hash = Manifest(q.ds, images \ q.dels)

\* sqlite: a session stamps what it has read with the hash it stands for.
Stamping ==
    db = "sqlite" =>
        \A r \in Requests :
          LET q == req[r]
          IN  q.ds \notin raced =>
                /\ q.pc \in {"submit", "build"} =>
                     \/ q.hash = Manifest(q.ds, images)
                     \/ q.hash = NoHash /\ Of(q.ds, images) = {}
                /\ q.pc = "save" \/ (q.pc = "commit" /\ q.op = "submit") =>
                     q.hash = Manifest(q.ds, q.adds)

\* The images that a session is about to delete, of those in imgs that use the blob.
Leaving(q, b, imgs) == IF q.op = "rm" THEN Using(b, q.dels) ELSE Using(b, Of(q.ds, imgs))

\* The image whose blob has been counted and whose row has not been inserted.
Pending(q, b) == IF q.pc = "item" /\ Head(q.todo)[2] = b THEN 1 ELSE 0

\* What a session has counted of a blob, when the tables hold imgs and cnt: exactly the
\* images it adds or takes away, unless others were counting too.
Counted(q, b, imgs, cnt, rc, nx) ==
    /\ Pending(q, b) = 1 => b \in DOMAIN q.counts
    /\ q.op \in {"add", "derive"} /\ Using(b, q.adds) # {} => b \in DOMAIN q.counts
    /\ q.op = "add" => /\ Using(b, q.adds) \intersect imgs = {}
                       /\ \A i \in Using(b, q.adds) : i.id < nx
    /\ b \in DOMAIN q.counts /\ b \notin rc =>
         /\ q.op = "add" => q.counts[b] = cnt[b] + Cardinality(Using(b, q.adds)) + Pending(q, b)
         /\ q.op \in {"rm", "rmdir"} =>
              /\ Leaving(q, b, imgs) \subseteq imgs
              /\ q.counts[b] + Cardinality(Leaving(q, b, imgs)) = cnt[b]
         /\ q.pc = "commit" /\ q.op = "rmdir" => Using(b, q.dels) = Leaving(q, b, imgs)

Counting ==
    /\ \A b \in Blobs : \A i \in Using(b, images) : i.id < nextId
    /\ \A r \in Requests : \A b \in Blobs : Counted(req[r], b, images, refs, raced, nextId)
    /\ \A r, s \in Requests : r # s =>
         /\ DOMAIN req[r].counts \intersect DOMAIN req[s].counts \subseteq raced
         /\ req[r].op = "add" /\ req[s].op = "add" =>
              \A b \in Blobs : Using(b, req[r].adds) \intersect Using(b, req[s].adds) = {}

-----------------------------------------------------------------------------
(* Sessions one at a time. *)

LEMMA Strings ==
    /\ Placeholder \notin Blobs /\ Rendered \notin Blobs /\ Missing \notin Blobs
    /\ Blobs \subseteq Shas /\ Placeholder \in Shas /\ Rendered \in Shas
BY RowsAssumption DEF Shas

LEMMA NothingCounted == NoCounts \in Counts /\ DOMAIN NoCounts = {}
<1>1. NoCounts \in [{} -> Nat]
  BY DEF NoCounts
<1> QED BY <1>1 DEF Counts

LEMMA NothingProper == Proper({})
<1>1. \A b \in Blobs : Using(b, {}) = {}
  BY DEF Using
<1> QED BY <1>1, FS_EmptySet DEF Proper

LEMMA IdleState == Idle \in SessionState /\ Shape(Idle) /\ Idle.pc = "idle" /\ ~Idle.dirty
<1>1. FALSE \in BOOLEAN
  OBVIOUS
<1>2. <<>> \in Todos
  BY DEF Todos
<1>3. NoHash \in Hashes
  BY DEF Hashes
<1>4. Idle \in SessionState
  BY <1>1, <1>2, <1>3, NothingCounted DEF Idle, SessionState
<1>5. Shape(Idle)
  BY NothingCounted, NothingProper DEF Shape, Idle
<1> QED BY <1>4, <1>5 DEF Idle

\* The tables are as they were, and only session r has moved.
Still(r) ==
    /\ UNCHANGED <<db, projects, dataset, images, refs, recons, plans>>
    /\ req' = [req EXCEPT ![r] = req'[r]]
    /\ raced \subseteq raced'
    /\ opened' \in {opened, opened + 1}
Quiet(r) == Still(r) /\ index' = index

\* The dataset that session q works on exists, or is its own to create.
OwnName(r, q) ==
    /\ q.op \in Newborn => /\ dataset[q.ds] = None
                           /\ \A s \in Requests \ {r} : req[s].op \in Newborn => req[s].ds # q.ds
    /\ q.op \notin Newborn \union {"none", "rmproject"} => dataset[q.ds] # None

LEMMA QuietBase ==
  ASSUME Base, NEW r \in Requests, Still(r),
         req'[r] \in SessionState, Shape(req'[r]), OwnName(r, req'[r]),
         raced' \subseteq Blobs \union Datasets, nextId' \in 1 .. MaxImages + 1
  PROVE  Base'
<1> DEFINE q == req'[r]
<1>1. /\ db' = db /\ projects' = projects /\ dataset' = dataset /\ images' = images
      /\ refs' = refs /\ recons' = recons
      /\ \A s \in Requests \ {r} : req'[s] = req[s]
  BY DEF Still, Base, Typed
<1>2. Typed'
  <2>1. req' \in [Requests -> SessionState]
    BY DEF Base, Typed, Still
  <2> QED BY <1>1, <2>1 DEF Base, Typed, Still
<1>3. \A s \in Requests : Shape(req'[s])
  BY <1>1 DEF Base
<1>4. Named'
  BY <1>1 DEF Base, Named, OwnName
<1>5. Proper(images')
  BY <1>1 DEF Base
<1> QED BY <1>2, <1>3, <1>4, <1>5 DEF Base, Shape, Manifest, Of, Proper, Using

\* Opening a session: what an idle session becomes.
LEMMA OpenQuiet ==
  ASSUME Base, NEW r \in Requests, NEW q, req' = [req EXCEPT ![r] = q], q \in SessionState,
         UNCHANGED <<db, projects, dataset, images, refs, recons, plans, index, nextId>>,
         raced \subseteq raced', opened' \in {opened, opened + 1},
         raced' \subseteq Blobs \union Datasets, Shape(q), OwnName(r, q)
  PROVE  Base' /\ Quiet(r) /\ req'[r] = q
<1>1. req'[r] = q
  BY DEF Base, Typed
<1>2. nextId' \in 1 .. MaxImages + 1
  BY DEF Base, Typed
<1>3. Quiet(r)
  BY <1>1 DEF Quiet, Still
<1> QED BY <1>1, <1>2, <1>3, QuietBase DEF Quiet

\* A session that has just been opened, or is gone, and holds nothing.
Blank(r) ==
    /\ Base' /\ Quiet(r) /\ UNCHANGED <<raced, nextId>>
    /\ ~req'[r].dirty
    /\ req'[r].pc \notin {"submit", "build", "save", "commit", "item"}
    /\ req'[r].counts = NoCounts /\ req'[r].adds = {} /\ req'[r].dels = {}

LEMMA FailBlank ==
  ASSUME Base, NEW r \in Requests, Fail(r)
  PROVE  Blank(r)
<1>1. /\ UNCHANGED <<db, projects, dataset, images, refs, recons, plans, index, nextId, raced>>
      /\ opened' = opened /\ req' = [req EXCEPT ![r] = Idle]
  BY DEF Fail
<1>2. OwnName(r, Idle)
  BY DEF OwnName, Idle, Newborn
<1>3. raced' \subseteq Blobs \union Datasets
  BY <1>1 DEF Base, Typed
<1>4. Base' /\ Quiet(r) /\ req'[r] = Idle
  BY <1>1, <1>2, <1>3, IdleState, OpenQuiet
<1> QED BY <1>1, <1>4 DEF Blank, Idle

LEMMA OpenBlank ==
  ASSUME Base, NEW r \in Requests,
         \/ \E p \in Projects, d \in Datasets, l \in Labels, k \in {"upload", "local"} :
               CreateDataset(r, p, d, l, k)
         \/ \E d \in Datasets, l \in Labels : PatchDataset(r, d, l)
         \/ \E p \in Projects : DeleteProject(r, p)
         \/ \E d \in Datasets, b \in Batches : CreateImages(r, d, b)
         \/ \E t \in Tasks, p \in Projects, d \in Datasets, l \in Labels :
               Derive(r, t, p, d, l) /\ req' # req
  PROVE  Blank(r)
<1>0. dataset \in [Datasets -> DatasetRow \union {None, Gone}] /\ raced \subseteq Blobs \union Datasets
  BY DEF Base, Typed
<1>1. ASSUME NEW p \in Projects, NEW d \in Datasets, NEW l \in Labels,
             NEW k \in {"upload", "local"}, CreateDataset(r, p, d, l, k)
      PROVE  Blank(r)
  <2> DEFINE row == [project |-> p, label |-> l, kind |-> k, hash |-> NoHash, task |-> None]
             q == [Idle EXCEPT !.pc = "insert", !.op = "mkdir", !.ds = d, !.row = row]
  <2>1. row \in DatasetRow /\ row.hash = NoHash
    BY DEF DatasetRow
  <2>2. /\ UNCHANGED <<db, projects, dataset, images, refs, recons, plans, index, nextId, raced>>
        /\ opened' = opened + 1 /\ req' = [req EXCEPT ![r] = q]
    BY <1>1 DEF CreateDataset, Open
  <2>3. row # None
    BY <2>1, RowsAssumption
  <2> HIDE DEF row
  <2>4. q \in SessionState
    BY <2>1, IdleState DEF SessionState
  <2>5. /\ q.pc = "insert" /\ q.op = "mkdir" /\ q.ds = d /\ q.row = row /\ ~q.dirty
        /\ q.adds = {} /\ q.dels = {} /\ q.counts = NoCounts /\ q.recon = {} /\ q.project = None
    BY DEF Idle
  <2> HIDE DEF q
  <2>6. Shape(q)
    BY NothingProper, <2>1, <2>3, <2>5, NothingCounted DEF Shape
  <2>7. OwnName(r, q)
    <3>1. dataset[d] = None
      BY <1>1 DEF CreateDataset
    <3>2. ASSUME NEW s \in Requests \ {r}, req[s].op \in Newborn PROVE req[s].ds # d
      <4>1. Shape(req[s])
        BY DEF Base
      <4>2. req[s].pc # "idle" /\ req[s].row # None
        BY <3>2, <4>1 DEF Shape, Newborn
      <4> QED BY <1>1, <4>2 DEF CreateDataset, Others
    <3> QED BY <2>5, <3>1, <3>2 DEF OwnName, Newborn
  <2>8. Base' /\ Quiet(r) /\ req'[r] = q
    BY <1>0, <2>2, <2>4, <2>6, <2>7, OpenQuiet
  <2> QED BY <2>2, <2>5, <2>8 DEF Blank
<1>2. ASSUME NEW d \in Datasets, NEW l \in Labels, PatchDataset(r, d, l)
      PROVE  Blank(r)
  <2> DEFINE row == [dataset[d] EXCEPT !.label = l]
             q == [Idle EXCEPT !.pc = "rename", !.op = "patch", !.ds = d, !.row = row]
  <2>1. dataset[d] \in DatasetRow /\ dataset[d] # None
    BY <1>0, <1>2 DEF PatchDataset, Live
  <2>2. /\ UNCHANGED <<db, projects, dataset, images, refs, recons, plans, index, nextId, raced>>
        /\ opened' = opened + 1 /\ req' = [req EXCEPT ![r] = q]
    BY <1>2 DEF PatchDataset, Open
  <2>3. row \in DatasetRow
    BY <2>1 DEF DatasetRow
  <2>9. row # None
    BY <2>3, RowsAssumption
  <2> HIDE DEF row
  <2>4. q \in SessionState
    BY <2>3, IdleState DEF SessionState
  <2>5. /\ q.pc = "rename" /\ q.op = "patch" /\ q.ds = d /\ q.row = row /\ ~q.dirty
        /\ q.adds = {} /\ q.dels = {} /\ q.counts = NoCounts /\ q.recon = {} /\ q.project = None
    BY DEF Idle
  <2> HIDE DEF q
  <2>6. Shape(q)
    BY NothingProper, <2>5, <2>9, NothingCounted DEF Shape
  <2>7. OwnName(r, q)
    BY <2>1, <2>5 DEF OwnName, Newborn
  <2>8. Base' /\ Quiet(r) /\ req'[r] = q
    BY <1>0, <2>2, <2>4, <2>6, <2>7, OpenQuiet
  <2> QED BY <2>2, <2>5, <2>8 DEF Blank
<1>3. ASSUME NEW p \in Projects, DeleteProject(r, p)
      PROVE  Blank(r)
  <2> DEFINE q == [Idle EXCEPT !.pc = "rmproject", !.op = "rmproject", !.project = p]
  <2>2. /\ UNCHANGED <<db, projects, dataset, images, refs, recons, plans, index, nextId, raced>>
        /\ opened' = opened + 1 /\ req' = [req EXCEPT ![r] = q]
    BY <1>3 DEF DeleteProject, Open
  <2>4. q \in SessionState
    BY IdleState DEF SessionState
  <2>5. /\ q.pc = "rmproject" /\ q.op = "rmproject" /\ q.row = None /\ ~q.dirty
        /\ q.adds = {} /\ q.dels = {} /\ q.counts = NoCounts /\ q.recon = {}
    BY DEF Idle
  <2> HIDE DEF q
  <2>6. Shape(q)
    BY NothingProper, <2>5, NothingCounted DEF Shape
  <2>7. OwnName(r, q)
    BY <2>5 DEF OwnName, Newborn
  <2>8. Base' /\ Quiet(r) /\ req'[r] = q
    BY <1>0, <2>2, <2>4, <2>6, <2>7, OpenQuiet
  <2> QED BY <2>2, <2>5, <2>8 DEF Blank
<1>4. ASSUME NEW d \in Datasets, NEW b \in Batches, CreateImages(r, d, b)
      PROVE  Blank(r)
  <2> DEFINE kind == dataset[d].kind
             q == [Idle EXCEPT !.pc = "read", !.op = "add", !.ds = d, !.kind = kind, !.todo = b]
  <2>1. dataset[d] \in DatasetRow /\ dataset[d] # None
    BY <1>0, <1>4 DEF CreateImages, Live
  <2>2. /\ UNCHANGED <<db, projects, dataset, images, refs, recons, plans, index, nextId, raced>>
        /\ opened' = opened + 1 /\ req' = [req EXCEPT ![r] = q]
    BY <1>4 DEF CreateImages, Open
  <2>3. kind \in {"upload", "local"} /\ b \in Todos
    BY <2>1, RowsAssumption DEF DatasetRow, Todos
  <2> HIDE DEF kind
  <2>4. q \in SessionState
    BY <2>3, IdleState DEF SessionState
  <2>5. /\ q.pc = "read" /\ q.op = "add" /\ q.ds = d /\ q.row = None /\ ~q.dirty
        /\ q.adds = {} /\ q.dels = {} /\ q.counts = NoCounts /\ q.recon = {} /\ q.project = None
    BY DEF Idle
  <2> HIDE DEF q
  <2>6. Shape(q)
    BY NothingProper, <2>5, NothingCounted DEF Shape
  <2>7. OwnName(r, q)
    BY <2>1, <2>5 DEF OwnName, Newborn
  <2>8. Base' /\ Quiet(r) /\ req'[r] = q
    BY <1>0, <2>2, <2>4, <2>6, <2>7, OpenQuiet
  <2> QED BY <2>2, <2>5, <2>8 DEF Blank
<1>5. ASSUME NEW t \in Tasks, NEW p \in Projects, NEW d \in Datasets, NEW l \in Labels,
             Derive(r, t, p, d, l), req' # req
      PROVE  Blank(r)
  <2> DEFINE row == [project |-> p, label |-> l, kind |-> "local", hash |-> NoHash, task |-> t]
             q == [Idle EXCEPT !.pc = "derive", !.op = "derive", !.ds = d, !.task = t, !.row = row]
  <2>1. row \in DatasetRow /\ row.hash = NoHash
    BY DEF DatasetRow
  <2>2. /\ UNCHANGED <<db, projects, dataset, images, refs, recons, plans, index, nextId, raced>>
        /\ opened' = opened + 1 /\ req' = [req EXCEPT ![r] = q]
    BY <1>5 DEF Derive, Open
  <2>3. row # None
    BY <2>1, RowsAssumption
  <2> HIDE DEF row
  <2>4. q \in SessionState
    BY <2>1, IdleState DEF SessionState
  <2>5. /\ q.pc = "derive" /\ q.op = "derive" /\ q.task = t /\ q.ds = d /\ q.row = row /\ ~q.dirty
        /\ q.adds = {} /\ q.dels = {} /\ q.counts = NoCounts /\ q.recon = {} /\ q.project = None
    BY DEF Idle
  <2> HIDE DEF q
  <2>6. Shape(q)
    BY NothingProper, <2>1, <2>3, <2>5, NothingCounted DEF Shape
  <2>7. OwnName(r, q)
    <3>1. dataset[d] = None
      BY <1>5 DEF Derive
    <3>2. ASSUME NEW s \in Requests \ {r}, req[s].op \in Newborn PROVE req[s].ds # d
      <4>1. Shape(req[s])
        BY DEF Base
      <4>2. req[s].pc # "idle" /\ req[s].row # None
        BY <3>2, <4>1 DEF Shape, Newborn
      <4> QED BY <1>5, <4>2 DEF Derive, Others
    <3> QED BY <2>5, <3>1, <3>2 DEF OwnName, Newborn
  <2>8. Base' /\ Quiet(r) /\ req'[r] = q
    BY <1>0, <2>2, <2>4, <2>6, <2>7, OpenQuiet
  <2> QED BY <2>2, <2>5, <2>8 DEF Blank
<1> QED BY <1>1, <1>2, <1>3, <1>4, <1>5

\* The openings that count, or remember a hash.
LEMMA CountsType ==
  ASSUME NEW B \in SUBSET Blobs, NEW f \in [B -> Nat]
  PROVE  f \in Counts /\ DOMAIN f = B
BY DEF Counts

LEMMA RacedType ==
  ASSUME Base, NEW r \in Requests, NEW B \in SUBSET Blobs
  PROVE  raced \union RacedBlobs(r, B) \subseteq Blobs \union Datasets
BY DEF Base, Typed, RacedBlobs

LEMMA OpenDeleteDataset ==
  ASSUME Base, NEW r \in Requests, NEW d \in Datasets, DeleteDataset(r, d)
  PROVE  LET q == req'[r]
             used == {b \in Blobs : Using(b, Of(d, images)) # {}}
         IN  /\ Base' /\ Quiet(r) /\ nextId' = nextId
             /\ raced' = raced \union RacedBlobs(r, used)
             /\ ~q.dirty /\ q.pc = "rmdir" /\ q.op = "rmdir" /\ q.ds = d
             /\ q.adds = {} /\ q.dels = {}
             /\ DOMAIN q.counts = used
             /\ \A b \in used : q.counts[b] =
                  LET n == Cardinality(Using(b, Of(d, images)))
                  IN  IF refs[b] > n THEN refs[b] - n ELSE 0
<1> DEFINE used == {b \in Blobs : Using(b, Of(d, images)) # {}}
           n(b) == Cardinality(Using(b, Of(d, images)))
           c == [b \in used |-> IF refs[b] > n(b) THEN refs[b] - n(b) ELSE 0]
           q == [Idle EXCEPT !.pc = "rmdir", !.op = "rmdir", !.ds = d, !.counts = c]
           mine == {i \in Of(d, images) : i.kind = "upload"}
<1>0. /\ dataset \in [Datasets -> DatasetRow \union {None, Gone}]
      /\ refs \in [Blobs -> Nat] /\ images \subseteq ImageRow
      /\ \A i \in images : i.kind = "upload" <=> i.sha \in Blobs
      /\ \A b \in Blobs : IsFiniteSet(Using(b, images))
  BY DEF Base, Typed, Proper
<1>1. used = {i.sha : i \in mine}
  BY <1>0 DEF Of, Using
<1>2. \A b \in used : {i \in mine : i.sha = b} = Using(b, Of(d, images))
  BY <1>0 DEF Of, Using
<1>3. \A b \in Blobs : n(b) \in Nat
  <2> SUFFICES ASSUME NEW b \in Blobs PROVE n(b) \in Nat
    OBVIOUS
  <2>1. Using(b, Of(d, images)) \in SUBSET Using(b, images)
    BY DEF Using, Of
  <2> QED BY <1>0, <2>1, FS_Subset, FS_CardinalityType
<1>4. c \in [used -> Nat]
  BY <1>0, <1>3
<1>5. c \in Counts /\ DOMAIN c = used
  BY <1>4, CountsType
<1>6. /\ UNCHANGED <<db, projects, dataset, images, refs, recons, plans, index, nextId>>
      /\ opened' = opened + 1
      /\ raced' = raced \union RacedBlobs(r, used)
      /\ Live(d)
      /\ req' = [req EXCEPT ![r] = [Idle EXCEPT !.pc = "rmdir", !.op = "rmdir", !.ds = d,
                   !.counts = [b \in {i.sha : i \in mine} |->
                      IF refs[b] > Cardinality({i \in mine : i.sha = b})
                      THEN refs[b] - Cardinality({i \in mine : i.sha = b}) ELSE 0]]]
  BY <1>1 DEF DeleteDataset, Open
<1>7. [b \in {i.sha : i \in mine} |->
         IF refs[b] > Cardinality({i \in mine : i.sha = b})
         THEN refs[b] - Cardinality({i \in mine : i.sha = b}) ELSE 0] = c
  BY <1>1, <1>2
<1>8. req' = [req EXCEPT ![r] = q]
  BY <1>6, <1>7
<1>9. \A b \in used : c[b] = IF refs[b] > n(b) THEN refs[b] - n(b) ELSE 0
  OBVIOUS
<1>10. raced' \subseteq Blobs \union Datasets
  BY <1>6, RacedType
<1>11. dataset[d] # None
  BY <1>6 DEF Live
<1> HIDE DEF c, used, mine
<1>12. q \in SessionState
  BY <1>5, IdleState DEF SessionState
<1>13. /\ q.pc = "rmdir" /\ q.op = "rmdir" /\ q.ds = d /\ q.row = None /\ ~q.dirty
       /\ q.adds = {} /\ q.dels = {} /\ q.counts = c /\ q.recon = {} /\ q.project = None
  BY DEF Idle
<1> HIDE DEF q
<1>14. Shape(q)
  BY <1>13 DEF Shape
<1>15. OwnName(r, q)
  BY <1>11, <1>13 DEF OwnName, Newborn
<1>16. Base' /\ Quiet(r) /\ req'[r] = q
  BY <1>6, <1>8, <1>10, <1>12, <1>14, <1>15, OpenQuiet
<1>17. /\ DOMAIN req'[r].counts = used /\ nextId' = nextId
       /\ raced' = raced \union RacedBlobs(r, used)
       /\ \A b \in used : req'[r].counts[b] = IF refs[b] > n(b) THEN refs[b] - n(b) ELSE 0
  BY <1>5, <1>6, <1>9, <1>13, <1>16
<1> QED BY <1>13, <1>16, <1>17 DEF used

LEMMA OpenDeleteImage ==
  ASSUME Base, NEW r \in Requests, NEW i \in images, DeleteImage(r, i)
  PROVE  LET q == req'[r]
             used == {i.sha} \intersect Blobs
         IN  /\ Base' /\ Quiet(r) /\ nextId' = nextId
             /\ raced' = raced \union RacedBlobs(r, used)
             /\ ~q.dirty /\ q.pc = "rm" /\ q.op = "rm" /\ q.adds = {} /\ q.dels = {i}
             /\ DOMAIN q.counts = used
             /\ \A b \in used : q.counts[b] = IF refs[b] > 0 THEN refs[b] - 1 ELSE 0
<1> DEFINE used == {i.sha} \intersect Blobs
           c == [b \in used |-> IF refs[b] > 0 THEN refs[b] - 1 ELSE 0]
           q == [Idle EXCEPT !.pc = "rm", !.op = "rm", !.ds = i.ds, !.dels = {i}, !.counts = c]
<1>0. /\ refs \in [Blobs -> Nat] /\ i \in ImageRow
      /\ i.kind = "upload" <=> i.sha \in Blobs
      /\ dataset[i.ds] # None
  BY DEF Base, Typed, Proper, Named
<1>1. used = IF i.kind = "upload" THEN {i.sha} ELSE {}
  BY <1>0
<1>4. c \in [used -> Nat]
  BY <1>0
<1>5. c \in Counts /\ DOMAIN c = used
  BY <1>4, CountsType
<1>6. /\ UNCHANGED <<db, projects, dataset, images, refs, recons, plans, index, nextId>>
      /\ opened' = opened + 1
      /\ raced' = raced \union RacedBlobs(r, used)
      /\ req' = [req EXCEPT ![r] = q]
  BY <1>1 DEF DeleteImage, Open
<1>9. \A b \in used : c[b] = IF refs[b] > 0 THEN refs[b] - 1 ELSE 0
  OBVIOUS
<1>10. raced' \subseteq Blobs \union Datasets
  BY <1>6, RacedType
<1>11. i.ds \in Datasets
  BY <1>0 DEF ImageRow
<1> HIDE DEF c, used
<1>12. q \in SessionState
  BY <1>0, <1>5, <1>11, IdleState DEF SessionState
<1>13. /\ q.pc = "rm" /\ q.op = "rm" /\ q.ds = i.ds /\ q.row = None /\ ~q.dirty
       /\ q.adds = {} /\ q.dels = {i} /\ q.counts = c /\ q.recon = {} /\ q.project = None
       /\ q.todo = <<>>
  BY DEF Idle
<1> HIDE DEF q
<1>14. Shape(q)
  BY <1>0, <1>11, <1>13 DEF Shape
<1>15. OwnName(r, q)
  BY <1>0, <1>13 DEF OwnName, Newborn
<1>16. Base' /\ Quiet(r) /\ req'[r] = q
  BY <1>6, <1>10, <1>12, <1>14, <1>15, OpenQuiet
<1>17. /\ DOMAIN req'[r].counts = used /\ nextId' = nextId
       /\ raced' = raced \union RacedBlobs(r, used)
       /\ \A b \in used : req'[r].counts[b] = IF refs[b] > 0 THEN refs[b] - 1 ELSE 0
  BY <1>5, <1>6, <1>9, <1>13, <1>16
<1> QED BY <1>13, <1>16, <1>17 DEF used

LEMMA OpenStamp ==
  ASSUME Base, NEW r \in Requests, NEW d \in Datasets, req' # req,
         SubmitRead(r, d) \/ \E force \in BOOLEAN : BuildRead(r, d, force)
  PROVE  LET q == req'[r]
         IN  /\ Base' /\ Quiet(r) /\ UNCHANGED <<raced, nextId>>
             /\ ~q.dirty /\ q.pc \in {"submit", "build"} /\ q.ds = d /\ Live(d)
             /\ q.hash = dataset[d].hash /\ q.counts = NoCounts /\ q.adds = {} /\ q.dels = {}
<1>0. /\ dataset \in [Datasets -> DatasetRow \union {None, Gone}]
      /\ raced \subseteq Blobs \union Datasets /\ opened \in Nat
  BY DEF Base, Typed
<1>1. Live(d) /\ dataset[d] \in DatasetRow /\ dataset[d] # None
  BY <1>0 DEF SubmitRead, BuildRead, Live
<1>2. dataset[d].hash \in Hashes
  BY <1>1 DEF DatasetRow, Hashes
<1>3. CASE SubmitRead(r, d)
  <2> DEFINE h == dataset[d].hash
             x == IF {y \in recons : y.ds = d /\ y.hash = h} = {}
                  THEN {[n |-> opened, ds |-> d, hash |-> h]} ELSE {}
             q == [Idle EXCEPT !.pc = "submit", !.op = "submit", !.ds = d, !.hash = h, !.recon = x]
  <2>1. x \in SUBSET ReconRow /\ \A y \in x : y.ds = d
    BY <1>0, <1>2 DEF ReconRow
  <2>2. /\ UNCHANGED <<db, projects, dataset, images, refs, recons, plans, index, nextId, raced>>
        /\ opened' = opened + 1 /\ req' = [req EXCEPT ![r] = q]
    BY <1>3 DEF SubmitRead, Open
  <2> HIDE DEF x
  <2>4. q \in SessionState
    BY <1>2, <2>1, IdleState DEF SessionState
  <2>5. /\ q.pc = "submit" /\ q.op = "submit" /\ q.ds = d /\ q.row = None /\ ~q.dirty
        /\ q.adds = {} /\ q.dels = {} /\ q.counts = NoCounts /\ q.recon = x /\ q.project = None
        /\ q.hash = dataset[d].hash
    BY DEF Idle
  <2> HIDE DEF q
  <2>6. Shape(q)
    BY <2>1, <2>5, NothingCounted DEF Shape
  <2>7. OwnName(r, q)
    BY <1>1, <2>5 DEF OwnName, Newborn
  <2>8. Base' /\ Quiet(r) /\ req'[r] = q
    BY <1>0, <2>2, <2>4, <2>6, <2>7, OpenQuiet
  <2> QED BY <1>1, <2>2, <2>5, <2>8
<1>4. ASSUME NEW force \in BOOLEAN, BuildRead(r, d, force)
      PROVE  LET q == req'[r]
             IN  /\ Base' /\ Quiet(r) /\ UNCHANGED <<raced, nextId>>
                 /\ ~q.dirty /\ q.pc \in {"submit", "build"} /\ q.ds = d /\ Live(d)
                 /\ q.hash = dataset[d].hash /\ q.counts = NoCounts /\ q.adds = {} /\ q.dels = {}
  <2> DEFINE h == dataset[d].hash
             q == [Idle EXCEPT !.pc = "build", !.op = "build", !.ds = d, !.hash = h]
  <2>2. /\ UNCHANGED <<db, projects, dataset, images, refs, recons, plans, index, nextId, raced>>
        /\ opened' = opened + 1 /\ req' = [req EXCEPT ![r] = q]
    BY <1>4 DEF BuildRead, Open
  <2>4. q \in SessionState
    BY <1>2, IdleState DEF SessionState
  <2>5. /\ q.pc = "build" /\ q.op = "build" /\ q.ds = d /\ q.row = None /\ ~q.dirty
        /\ q.adds = {} /\ q.dels = {} /\ q.counts = NoCounts /\ q.recon = {} /\ q.project = None
        /\ q.hash = dataset[d].hash
    BY DEF Idle
  <2> HIDE DEF q
  <2>6. Shape(q)
    BY <2>5, NothingCounted DEF Shape
  <2>7. OwnName(r, q)
    BY <1>1, <2>5 DEF OwnName, Newborn
  <2>8. Base' /\ Quiet(r) /\ req'[r] = q
    BY <1>0, <2>2, <2>4, <2>6, <2>7, OpenQuiet
  <2> QED BY <1>1, <2>2, <2>5, <2>8
<1> QED BY <1>3, <1>4

\* A session that goes on with what it is there for.
LEMMA ContinueQuiet ==
  ASSUME Base, NEW r \in Requests, NEW q, req' = [req EXCEPT ![r] = q], q \in SessionState,
         UNCHANGED <<db, projects, dataset, images, refs, recons, plans, index, opened>>,
         raced \subseteq raced', raced' \subseteq Blobs \union Datasets,
         nextId' \in 1 .. MaxImages + 1, Shape(q),
         q.op = req[r].op, q.ds = req[r].ds
  PROVE  Base' /\ Quiet(r) /\ req'[r] = q
<1>1. req'[r] = q
  BY DEF Base, Typed
<1>2. OwnName(r, q)
  BY DEF Base, Named, OwnName
<1>3. Quiet(r)
  BY <1>1 DEF Quiet, Still
<1> QED BY <1>1, <1>2, <1>3, QuietBase DEF Quiet

LEMMA ManifestType ==
  ASSUME NEW d, NEW imgs \in SUBSET ImageRow
  PROVE  Manifest(d, imgs) \in Hashes
BY DEF Manifest, Of, ImageRow, Hashes

\* What the session keeps of its contents.
SameRows(r) ==
    /\ req'[r].op = req[r].op /\ req'[r].ds = req[r].ds /\ req'[r].row = req[r].row
    /\ req'[r].counts = req[r].counts

\* A row is written under the locks; the commit is next.
LEMMA WriteRow ==
  ASSUME Base, NEW r \in Requests, InsertDataset(r) \/ RenameDataset(r) \/ DropProject(r)
  PROVE  \/ Blank(r)
         \/ /\ Base' /\ Quiet(r) /\ UNCHANGED <<raced, nextId>> /\ SameRows(r)
            /\ req'[r].dirty /\ req'[r].pc = "commit"
            /\ req'[r].op \in {"mkdir", "patch", "rmproject"}
            /\ WriteLock(r)
            /\ req[r].op \in {"mkdir", "patch"} => ProjectLock(r)
            /\ req[r].op = "mkdir" => (db = "postgres" => req[r].row.project \in projects)
            /\ req[r].op = "rmproject" =>
                 (db = "postgres" => \A s \in Others(r) : ~Writing(s))
<1>1. CASE Fail(r)
  BY <1>1, FailBlank
<1>2. CASE ~Fail(r)
  <2> DEFINE p == req[r]
             q == [p EXCEPT !.pc = "commit", !.dirty = TRUE]
  <2>1. /\ UNCHANGED <<db, projects, dataset, images, refs, recons, plans, index, raced, opened, nextId>>
        /\ req' = [req EXCEPT ![r].pc = "commit", ![r].dirty = TRUE]
        /\ p.pc \in {"insert", "rename", "rmproject"}
    BY <1>2 DEF InsertDataset, RenameDataset, DropProject
  <2>2. p \in SessionState /\ Shape(p) /\ TRUE \in BOOLEAN
    BY DEF Base, Typed
  <2>3. req' = [req EXCEPT ![r] = q]
    BY <2>1, <2>2 DEF Base, Typed
  <2>4. q \in SessionState
    BY <2>2 DEF SessionState
  <2>5. /\ q.pc = "commit" /\ q.dirty /\ q.op = p.op /\ q.ds = p.ds /\ q.row = p.row
        /\ q.adds = p.adds /\ q.dels = p.dels /\ q.counts = p.counts /\ q.recon = p.recon
        /\ q.project = p.project
    BY <2>2 DEF SessionState
  <2>6. p.op \in {"mkdir", "patch", "rmproject"} /\ (p.pc = "insert" <=> p.op = "mkdir")
        /\ (p.pc = "rmproject" <=> p.op = "rmproject")
    BY <2>1, <2>2 DEF Shape
  <2>7. Shape(q)
    <3> HIDE DEF p, q
    <3> QED BY <2>2, <2>5, <2>6 DEF Shape
  <2>8. raced' \subseteq Blobs \union Datasets /\ nextId' \in 1 .. MaxImages + 1
    BY <2>1 DEF Base, Typed
  <2>9. Base' /\ Quiet(r) /\ req'[r] = q
    <3> HIDE DEF q
    <3> QED BY <2>1, <2>3, <2>4, <2>5, <2>7, <2>8, ContinueQuiet
  <2>10. /\ WriteLock(r)
         /\ p.op \in {"mkdir", "patch"} => ProjectLock(r)
         /\ p.op = "mkdir" => (db = "postgres" => p.row.project \in projects)
         /\ p.op = "rmproject" => (db = "postgres" => \A s \in Others(r) : ~Writing(s))
    <3>1. CASE p.pc = "insert"
      BY <1>2, <2>6, <3>1 DEF InsertDataset, RenameDataset, DropProject
    <3>2. CASE p.pc = "rename"
      BY <2>6, <3>2 DEF InsertDataset, RenameDataset, DropProject
    <3>3. CASE p.pc = "rmproject"
      BY <2>6, <3>3 DEF InsertDataset, RenameDataset, DropProject
    <3> QED BY <2>1, <3>1, <3>2, <3>3
  <2> QED BY <2>1, <2>5, <2>6, <2>9, <2>10 DEF SameRows
<1> QED BY <1>1, <1>2

LEMMA WriteHashQuiet ==
  ASSUME Base, NEW r \in Requests, WriteHash(r)
  PROVE  /\ Base' /\ Quiet(r) /\ UNCHANGED <<raced, nextId>> /\ SameRows(r)
         /\ req'[r].pc \in {"read", "commit"} /\ req'[r].op \in {"add", "rm"}
         /\ req[r].pc = "hash" /\ req[r].dirty /\ req'[r].dirty
         /\ req'[r].adds = req[r].adds /\ req'[r].dels = req[r].dels
         /\ req'[r].hash = req[r].hash
<1> DEFINE p == req[r]
           pc == IF p.todo = <<>> THEN "commit" ELSE "read"
           q == [p EXCEPT !.pc = pc]
<1>1. /\ UNCHANGED <<db, projects, dataset, images, refs, recons, plans, index, raced, opened, nextId>>
      /\ req' = [req EXCEPT ![r].pc = pc]
      /\ p.pc = "hash"
  BY DEF WriteHash
<1>2. p \in SessionState /\ Shape(p) /\ pc \in {"commit", "read"}
  BY DEF Base, Typed
<1>3. req' = [req EXCEPT ![r] = q]
  BY <1>1, <1>2 DEF Base, Typed
<1>4. q \in SessionState
  BY <1>2 DEF SessionState
<1>5. /\ q.pc = pc /\ q.dirty = p.dirty /\ q.op = p.op /\ q.ds = p.ds /\ q.row = p.row
      /\ q.adds = p.adds /\ q.dels = p.dels /\ q.counts = p.counts /\ q.recon = p.recon
      /\ q.project = p.project /\ q.hash = p.hash /\ q.todo = p.todo
  BY <1>2 DEF SessionState
<1>6. p.op \in {"add", "rm"} /\ p.dirty
  BY <1>1, <1>2 DEF Shape
<1>10. p.op = "rm" => pc = "commit"
  BY <1>2 DEF Shape
<1>7. Shape(q)
  <2> HIDE DEF p, q, pc
  <2> QED BY <1>1, <1>2, <1>5, <1>6, <1>10 DEF Shape
<1>8. raced' \subseteq Blobs \union Datasets /\ nextId' \in 1 .. MaxImages + 1
  BY <1>1 DEF Base, Typed
<1>9. Base' /\ Quiet(r) /\ req'[r] = q
  <2> HIDE DEF q
  <2> QED BY <1>1, <1>3, <1>4, <1>5, <1>7, <1>8, ContinueQuiet
<1> QED BY <1>1, <1>2, <1>5, <1>6, <1>9 DEF SameRows

LEMMA DropDatasetQuiet ==
  ASSUME Base, NEW r \in Requests, DropDataset(r)
  PROVE  /\ Base' /\ Quiet(r) /\ UNCHANGED <<raced, nextId>> /\ SameRows(r)
         /\ req'[r].pc = "commit" /\ req'[r].op = "rmdir" /\ req'[r].dirty
         /\ req'[r].adds = {} /\ req'[r].dels = Of(req[r].ds, images)
         /\ WriteLock(r) /\ ProjectLock(r) /\ DatasetLock(r, req[r].ds)
         /\ db = "postgres" => \A s \in Others(r) : Of(req[r].ds, req[s].adds) = {}
<1> DEFINE p == req[r]
           dels == Of(p.ds, images)
           q == [p EXCEPT !.pc = "commit", !.dirty = TRUE, !.dels = dels]
<1>1. /\ UNCHANGED <<db, projects, dataset, images, refs, recons, plans, index, raced, opened, nextId>>
      /\ req' = [req EXCEPT ![r].pc = "commit", ![r].dirty = TRUE, ![r].dels = dels]
      /\ p.pc = "rmdir"
      /\ WriteLock(r) /\ ProjectLock(r) /\ DatasetLock(r, p.ds)
      /\ db = "postgres" => \A s \in Others(r) : Of(p.ds, req[s].adds) = {}
  BY DEF DropDataset
<1>2. p \in SessionState /\ Shape(p) /\ TRUE \in BOOLEAN
  BY DEF Base, Typed
<1>10. /\ dels \in SUBSET ImageRow
       /\ \A i \in dels : i.ds = p.ds /\ (i.kind = "upload" <=> i.sha \in Blobs)
  BY DEF Of, Base, Typed, Proper
<1> HIDE DEF dels
<1>3. req' = [req EXCEPT ![r] = q]
  BY <1>1, <1>2 DEF Base, Typed
<1>4. q \in SessionState
  BY <1>2, <1>10 DEF SessionState
<1>5. /\ q.pc = "commit" /\ q.dirty /\ q.op = p.op /\ q.ds = p.ds /\ q.row = p.row
      /\ q.adds = p.adds /\ q.dels = dels /\ q.counts = p.counts /\ q.recon = p.recon
      /\ q.project = p.project
  BY <1>2 DEF SessionState
<1>6. p.op = "rmdir" /\ p.adds = {}
  BY <1>1, <1>2 DEF Shape
<1>7. Shape(q)
  <2> HIDE DEF p, q
  <2> QED BY <1>1, <1>2, <1>5, <1>6, <1>10 DEF Shape
<1>8. raced' \subseteq Blobs \union Datasets /\ nextId' \in 1 .. MaxImages + 1
  BY <1>1 DEF Base, Typed
<1>9. Base' /\ Quiet(r) /\ req'[r] = q
  <2> HIDE DEF q
  <2> QED BY <1>1, <1>3, <1>4, <1>5, <1>7, <1>8, ContinueQuiet
<1> QED BY <1>1, <1>5, <1>6, <1>9 DEF SameRows, dels

LEMMA ItemType ==
  ASSUME NEW q \in SessionState, q.todo # <<>>
  PROVE  /\ Head(q.todo)[1] \in Names
         /\ Head(q.todo)[2] \in Blobs \union {Placeholder, Missing}
         /\ Tail(q.todo) \in Todos
<1>1. q.todo \in Seq(Names \X (Blobs \union {Placeholder, Missing})) /\ q.todo # <<>>
  BY DEF SessionState, Todos
<1>2. Head(q.todo) \in Names \X (Blobs \union {Placeholder, Missing})
  BY <1>1
<1>3. Tail(q.todo) \in Todos
  BY <1>1 DEF Todos
<1> QED BY <1>2, <1>3

LEMMA ReadItemQuiet ==
  ASSUME Base, NEW r \in Requests, ReadItem(r)
  PROVE  \/ Blank(r)
         \/ LET b == Head(req[r].todo)[2]
                old == req[r].counts
                new == req'[r].counts
            IN  /\ Base' /\ Quiet(r) /\ nextId' = nextId
                /\ req[r].pc = "read" /\ req'[r].pc = "item"
                /\ req'[r].dirty = req[r].dirty /\ req'[r].op = "add" /\ req[r].op = "add"
                /\ req'[r].ds = req[r].ds /\ req'[r].hash = req[r].hash
                /\ req'[r].adds = req[r].adds /\ req'[r].dels = req[r].dels
                /\ req'[r].todo = req[r].todo
                /\ b \notin Blobs => new = old /\ raced' = raced
                /\ b \in Blobs =>
                     /\ raced' = raced \union RacedBlobs(r, {b})
                     /\ DOMAIN new = DOMAIN old \union {b}
                     /\ new[b] = (IF b \in DOMAIN old THEN old[b] ELSE refs[b]) + 1
                     /\ \A c \in DOMAIN old \ {b} : new[c] = old[c]
<1>1. CASE Fail(r)
  BY <1>1, FailBlank
<1>2. CASE ~Fail(r)
  <2> DEFINE p == req[r]
             b == Head(p.todo)[2]
             seen == IF b \in DOMAIN p.counts THEN p.counts[b] ELSE refs[b]
             new == IF b # Placeholder THEN With(p.counts, b, seen + 1) ELSE p.counts
             q == [p EXCEPT !.pc = "item", !.counts = new]
  <2>1. /\ UNCHANGED <<db, projects, dataset, images, refs, recons, plans, index, opened, nextId>>
        /\ req' = [req EXCEPT ![r].pc = "item",
                     ![r].counts = IF KindOf(Head(p.todo)) = "upload"
                                   THEN With(@, b, seen + 1) ELSE @]
        /\ p.pc = "read" /\ p.todo # <<>> /\ b # Missing
        /\ raced' = raced \union (IF b \in Blobs THEN RacedBlobs(r, {b}) ELSE {})
    BY <1>2 DEF ReadItem
  <2>2. p \in SessionState /\ Shape(p)
    BY DEF Base, Typed
  <2>3. req' = [req EXCEPT ![r] = q]
    <3>1. KindOf(Head(p.todo)) = "upload" <=> b # Placeholder
      BY DEF KindOf
    <3> HIDE DEF seen, b
    <3> QED BY <2>1, <2>2, <3>1 DEF Base, Typed
  <2>4. b \in Blobs \/ b = Placeholder
    BY <2>1, <2>2, ItemType
  <2>5. p.counts \in Counts
    BY <2>2 DEF SessionState
  <2>6. PICK B \in SUBSET Blobs : p.counts \in [B -> Nat]
    BY <2>5 DEF Counts
  <2>7. b \in Blobs =>
          /\ new \in [B \union {b} -> Nat] /\ new[b] = seen + 1
          /\ \A c \in B \ {b} : new[c] = p.counts[c]
    <3> SUFFICES ASSUME b \in Blobs
                 PROVE  /\ new \in [B \union {b} -> Nat] /\ new[b] = seen + 1
                        /\ \A c \in B \ {b} : new[c] = p.counts[c]
      OBVIOUS
    <3>1. seen \in Nat /\ DOMAIN p.counts = B
      BY <2>6 DEF Base, Typed
    <3>2. b # Placeholder
      BY Strings
    <3> HIDE DEF seen, b
    <3>3. new = [x \in B \union {b} |-> IF x = b THEN seen + 1 ELSE p.counts[x]]
      BY <3>1, <3>2 DEF With
    <3> HIDE DEF new
    <3> QED BY <2>6, <3>1, <3>3
  <2>8. b \notin Blobs => new = p.counts
    BY <2>4
  <2>9. new \in Counts
    <3>1. CASE b \in Blobs
      <4>1. B \union {b} \in SUBSET Blobs
        BY <3>1
      <4> HIDE DEF new, b
      <4> QED BY <2>7, <3>1, <4>1, CountsType
    <3>2. CASE b \notin Blobs
      BY <2>5, <2>8, <3>2
    <3> QED BY <3>1, <3>2
  <2> HIDE DEF new
  <2>10. q \in SessionState
    BY <2>2, <2>9 DEF SessionState
  <2>11. /\ q.pc = "item" /\ q.dirty = p.dirty /\ q.op = p.op /\ q.ds = p.ds /\ q.row = p.row
         /\ q.adds = p.adds /\ q.dels = p.dels /\ q.counts = new /\ q.recon = p.recon
         /\ q.project = p.project /\ q.hash = p.hash /\ q.todo = p.todo
    BY <2>2 DEF SessionState
  <2>12. p.op = "add"
    BY <2>1, <2>2 DEF Shape
  <2>13. Shape(q)
    <3> HIDE DEF p, q
    <3> QED BY <2>1, <2>2, <2>11, <2>12 DEF Shape
  <2>14. raced \subseteq raced' /\ raced' \subseteq Blobs \union Datasets /\ nextId' \in 1 .. MaxImages + 1
    BY <2>1, RacedType DEF Base, Typed
  <2>15. Base' /\ Quiet(r) /\ req'[r] = q
    <3> HIDE DEF q
    <3> QED BY <2>1, <2>3, <2>10, <2>11, <2>13, <2>14, ContinueQuiet
  <2>16. b \in Blobs => /\ raced' = raced \union RacedBlobs(r, {b})
                        /\ DOMAIN new = DOMAIN p.counts \union {b}
                        /\ new[b] = seen + 1
                        /\ \A c \in DOMAIN p.counts \ {b} : new[c] = p.counts[c]
    BY <2>1, <2>6, <2>7
  <2>17. b \notin Blobs => raced' = raced
    BY <2>1
  <2> HIDE DEF q
  <2> QED BY <2>1, <2>8, <2>11, <2>12, <2>15, <2>16, <2>17
<1> QED BY <1>1, <1>2

LEMMA InsertItemQuiet ==
  ASSUME Base, NEW r \in Requests, InsertItem(r)
  PROVE  \/ Blank(r)
         \/ /\ Base' /\ Quiet(r) /\ raced' = raced /\ SameRows(r)
            /\ nextId \in Nat /\ nextId' = nextId + 1
            /\ req[r].pc = "item" /\ req'[r].pc = "hash" /\ req'[r].op = "add" /\ req'[r].dirty
            /\ req'[r].hash = Manifest(req[r].ds, images \union req'[r].adds)
            /\ WriteLock(r) /\ ProjectLock(r) /\ DatasetLock(r, req[r].ds)
            /\ db = "postgres" => Live(req[r].ds)
            /\ \E img \in ImageRow : /\ img.id = nextId /\ img.sha = Head(req[r].todo)[2]
                                     /\ req'[r].adds = req[r].adds \union {img}
<1>1. CASE Fail(r)
  BY <1>1, FailBlank
<1>2. CASE ~Fail(r)
  <2> DEFINE p == req[r]
             item == Head(p.todo)
             img == [id |-> nextId, ds |-> p.ds, name |-> item[1], sha |-> item[2],
                     kind |-> KindOf(item)]
             todo == Tail(p.todo)
             adds == p.adds \union {img}
             hash == Manifest(p.ds, images \union adds)
             q == [p EXCEPT !.pc = "hash", !.dirty = TRUE, !.todo = todo, !.adds = adds,
                            !.hash = hash]
  <2>1. /\ UNCHANGED <<db, projects, dataset, images, refs, recons, plans, index, raced, opened>>
        /\ req' = [req EXCEPT ![r].pc = "hash", ![r].dirty = TRUE, ![r].todo = Tail(@),
                              ![r].adds = @ \union {img},
                              ![r].hash = Manifest(p.ds, Visible(r) \union {img})]
        /\ nextId <= MaxImages /\ nextId' = nextId + 1
        /\ p.pc = "item"
        /\ WriteLock(r) /\ ProjectLock(r) /\ DatasetLock(r, p.ds)
        /\ db = "postgres" => Live(p.ds)
    BY <1>2 DEF InsertItem
  <2>2. p \in SessionState /\ Shape(p) /\ TRUE \in BOOLEAN
    BY DEF Base, Typed
  <2>3. /\ p.op = "add" /\ p.dels = {} /\ p.todo # <<>> /\ item[2] # Missing /\ p.ds \in Datasets
        /\ Proper(p.adds)
    BY <2>1, <2>2 DEF Shape
  <2>4. item[1] \in Names /\ item[2] \in Blobs \union {Placeholder} /\ todo \in Todos
    BY <2>2, <2>3, ItemType
  <2>5. /\ KindOf(item) \in {"upload", "local"}
        /\ KindOf(item) = "upload" <=> item[2] \in Blobs
    BY <2>4, Strings DEF KindOf
  <2>6. nextId \in 1 .. MaxImages /\ nextId' \in 1 .. MaxImages + 1
    BY <2>1, BoundsAssumption DEF Base, Typed
  <2>7. img \in ImageRow
    <3> HIDE DEF item
    <3> QED BY <2>3, <2>4, <2>5, <2>6, Strings DEF ImageRow
  <2>8. /\ img.id = nextId /\ img.ds = p.ds /\ img.sha = item[2]
        /\ img.kind = "upload" <=> img.sha \in Blobs
    BY <2>5
  <2>9. Visible(r) \union {img} = images \union adds
    BY <2>3 DEF Visible
  <2> HIDE DEF img
  <2>10. adds \in SUBSET ImageRow /\ images \in SUBSET ImageRow
    BY <2>2, <2>7 DEF SessionState, Base, Typed
  <2>11. Proper(adds)
    <3>1. ASSUME NEW b \in Blobs PROVE IsFiniteSet(Using(b, adds))
      <4>1. IsFiniteSet(Using(b, p.adds))
        BY <2>3 DEF Proper
      <4>2. IsFiniteSet(Using(b, p.adds) \union {img})
        BY <4>1, FS_AddElement
      <4>3. Using(b, adds) \in SUBSET (Using(b, p.adds) \union {img})
        BY DEF Using
      <4> QED BY <4>2, <4>3, FS_Subset
    <3> QED BY <2>3, <2>8, <3>1 DEF Proper
  <2>12. \A i \in adds : i.ds = p.ds
    BY <2>2, <2>8 DEF Shape
  <2>13. hash \in Hashes
    BY <2>10, ManifestType
  <2>14. req' = [req EXCEPT ![r] = q]
    <3>1. req' = [req EXCEPT ![r].pc = "hash", ![r].dirty = TRUE, ![r].todo = Tail(@),
                              ![r].adds = @ \union {img}, ![r].hash = hash]
      BY <2>1, <2>9
    <3> HIDE DEF hash
    <3> QED BY <2>2, <3>1 DEF Base, Typed
  <2>15. img \in adds /\ p.adds \subseteq adds
    OBVIOUS
  <2> HIDE DEF adds, hash, todo
  <2>16. q \in SessionState
    BY <2>2, <2>4, <2>10, <2>13 DEF SessionState
  <2>17. /\ q.pc = "hash" /\ q.dirty /\ q.op = p.op /\ q.ds = p.ds /\ q.row = p.row
         /\ q.adds = adds /\ q.dels = p.dels /\ q.counts = p.counts /\ q.recon = p.recon
         /\ q.project = p.project /\ q.hash = hash
    BY <2>2 DEF SessionState
  <2>18. Shape(q)
    <3> HIDE DEF p, q
    <3> QED BY <2>2, <2>3, <2>11, <2>12, <2>15, <2>17 DEF Shape
  <2>19. raced' \subseteq Blobs \union Datasets
    BY <2>1 DEF Base, Typed
  <2>20. Base' /\ Quiet(r) /\ req'[r] = q
    <3> HIDE DEF q
    <3> QED BY <2>1, <2>6, <2>14, <2>16, <2>17, <2>18, <2>19, ContinueQuiet
  <2>21. nextId \in Nat
    BY DEF Base, Typed
  <2> HIDE DEF q
  <2>22. req'[r].hash = Manifest(req[r].ds, images \union req'[r].adds)
    BY <2>17, <2>20 DEF hash
  <2>23. \E x \in ImageRow : /\ x.id = nextId /\ x.sha = Head(req[r].todo)[2]
                             /\ req'[r].adds = req[r].adds \union {x}
    BY <2>7, <2>8, <2>17, <2>20 DEF adds
  <2> QED BY <2>1, <2>3, <2>17, <2>20, <2>21, <2>22, <2>23 DEF SameRows
<1> QED BY <1>1, <1>2

LEMMA DropImageQuiet ==
  ASSUME Base, NEW r \in Requests, DropImage(r)
  PROVE  /\ Base' /\ Quiet(r) /\ UNCHANGED <<raced, nextId>> /\ SameRows(r)
         /\ req'[r].pc = "hash" /\ req'[r].op = "rm" /\ req'[r].dirty
         /\ req'[r].adds = {} /\ req'[r].dels = req[r].dels
         /\ req'[r].hash = Manifest(req[r].ds, images \ req[r].dels)
         /\ WriteLock(r) /\ ProjectLock(r)
<1> DEFINE p == req[r]
           hash == Manifest(p.ds, images \ p.dels)
           q == [p EXCEPT !.pc = "hash", !.dirty = TRUE, !.hash = hash]
<1>1. /\ UNCHANGED <<db, projects, dataset, images, refs, recons, plans, index, raced, opened, nextId>>
      /\ req' = [req EXCEPT ![r].pc = "hash", ![r].dirty = TRUE, ![r].hash = Manifest(p.ds, Visible(r))]
      /\ p.pc = "rm" /\ WriteLock(r) /\ ProjectLock(r)
  BY DEF DropImage
<1>2. p \in SessionState /\ Shape(p) /\ TRUE \in BOOLEAN
  BY DEF Base, Typed
<1>6. p.op = "rm" /\ p.adds = {}
  BY <1>1, <1>2 DEF Shape
<1>10. Visible(r) = images \ p.dels /\ images \ p.dels \in SUBSET ImageRow
  BY <1>6 DEF Visible, Base, Typed
<1>11. hash \in Hashes
  BY <1>10, ManifestType
<1>3. req' = [req EXCEPT ![r] = q]
  <2>1. req' = [req EXCEPT ![r].pc = "hash", ![r].dirty = TRUE, ![r].hash = hash]
    BY <1>1, <1>10
  <2> HIDE DEF hash
  <2> QED BY <1>2, <2>1 DEF Base, Typed
<1> HIDE DEF hash
<1>4. q \in SessionState
  BY <1>2, <1>11 DEF SessionState
<1>5. /\ q.pc = "hash" /\ q.dirty /\ q.op = p.op /\ q.ds = p.ds /\ q.row = p.row
      /\ q.adds = p.adds /\ q.dels = p.dels /\ q.counts = p.counts /\ q.recon = p.recon
      /\ q.project = p.project /\ q.hash = hash /\ q.todo = p.todo
  BY <1>2 DEF SessionState
<1>7. Shape(q)
  <2> HIDE DEF p, q
  <2> QED BY <1>1, <1>2, <1>5, <1>6 DEF Shape
<1>8. raced' \subseteq Blobs \union Datasets /\ nextId' \in 1 .. MaxImages + 1
  BY <1>1 DEF Base, Typed
<1>9. Base' /\ Quiet(r) /\ req'[r] = q
  <2> HIDE DEF q
  <2> QED BY <1>1, <1>3, <1>4, <1>5, <1>7, <1>8, ContinueQuiet
<1> QED BY <1>1, <1>5, <1>6, <1>9 DEF SameRows, hash

LEMMA NumberingType == Numbering \in [Names -> 0 .. Cardinality(Names) - 1]
<1> DEFINE n == Cardinality(Names)
<1>1. n \in Nat /\ ExistsBijection(1 .. n, Names)
  BY NamesAssumption, FS_CardinalityType
<1>2. PICK g \in Bijection(Names, 1 .. n) : TRUE
  BY <1>1, Fun_ExistsBijSymmetric DEF ExistsBijection
<1>3. g \in [Names -> 1 .. n] /\ \A x, y \in Names : g[x] = g[y] => x = y
  BY <1>2, Fun_BijectionProperties DEF Injection, IsInjective
<1> DEFINE f == [x \in Names |-> g[x] - 1]
<1>4. f \in [Names -> 0 .. n - 1]
  <2>1. \A x \in Names : g[x] \in 1 .. n
    BY <1>3
  <2>2. \A x \in Names : g[x] - 1 \in 0 .. n - 1
    BY <1>1, <2>1
  <2> QED BY <2>2
<1>5. IsInjective(f)
  <2>1. DOMAIN f = Names /\ \A x \in Names : f[x] = g[x] - 1 /\ g[x] \in 1 .. n
    BY <1>3
  <2> HIDE DEF f
  <2> QED BY <1>1, <1>3, <2>1 DEF IsInjective
<1> QED BY <1>4, <1>5 DEF Numbering

LEMMA RenderingType ==
  ASSUME Base, NEW d \in Datasets, nextId + Cardinality(Names) - 1 <= MaxImages
  PROVE  /\ Rendering(d) \in SUBSET ImageRow /\ Proper(Rendering(d))
         /\ \A b \in Blobs : Using(b, Rendering(d)) = {}
         /\ \A i \in Rendering(d) : i.ds = d
         /\ Cardinality(Names) \in Nat
         /\ nextId + Cardinality(Names) \in 1 .. MaxImages + 1
<1> DEFINE n == Cardinality(Names)
<1>1. n \in Nat
  BY NamesAssumption, FS_CardinalityType
<1>2. nextId \in 1 .. MaxImages + 1 /\ MaxImages \in Nat
  BY BoundsAssumption DEF Base, Typed
<1>3. \A x \in Names : Numbering[x] \in 0 .. n - 1
  BY NumberingType
<1> HIDE DEF n
<1>4. \A x \in Names : nextId + Numbering[x] \in 1 .. MaxImages
  BY <1>1, <1>2, <1>3 DEF n
<1>5. \A i \in Rendering(d) : i \in ImageRow /\ i.ds = d /\ i.sha = Rendered /\ i.kind = "local"
  <2> SUFFICES ASSUME NEW x \in Names
               PROVE  LET i == [id |-> nextId + Numbering[x], ds |-> d, name |-> x,
                                sha |-> Rendered, kind |-> "local"]
                      IN  i \in ImageRow /\ i.ds = d /\ i.sha = Rendered /\ i.kind = "local"
    BY DEF Rendering
  <2> DEFINE k == nextId + Numbering[x]
  <2>1. k \in 1 .. MaxImages
    BY <1>4
  <2> HIDE DEF k
  <2>2. LET i == [id |-> k, ds |-> d, name |-> x, sha |-> Rendered, kind |-> "local"]
        IN  i \in ImageRow /\ i.ds = d /\ i.sha = Rendered /\ i.kind = "local"
    BY <2>1, Strings DEF ImageRow
  <2> QED BY <2>2 DEF k
<1>6. \A b \in Blobs : Using(b, Rendering(d)) = {}
  BY <1>5, Strings DEF Using
<1>7. Proper(Rendering(d))
  BY <1>5, <1>6, FS_EmptySet, Strings DEF Proper
<1>8. nextId + n \in 1 .. MaxImages + 1
  BY <1>1, <1>2 DEF n
<1> QED BY <1>1, <1>5, <1>6, <1>7, <1>8 DEF n

LEMMA RegisterDerivedQuiet ==
  ASSUME Base, NEW r \in Requests, RegisterDerived(r)
  PROVE  \/ Blank(r)
         \/ /\ Base' /\ Quiet(r) /\ raced' = raced
            /\ nextId \in Nat /\ nextId' \in Nat /\ nextId <= nextId'
            /\ req'[r].pc = "commit" /\ req'[r].op = "derive" /\ req[r].op = "derive" /\ req'[r].dirty
            /\ req'[r].ds = req[r].ds /\ req'[r].row.project = req[r].row.project
            /\ req'[r].counts = req[r].counts
            /\ WriteLock(r) /\ ProjectLock(r)
            /\ db = "postgres" => req[r].row.project \in projects
            /\ \A b \in Blobs : Using(b, req'[r].adds) = {}
<1>1. CASE Fail(r)
  BY <1>1, FailBlank
<1>2. CASE ~Fail(r)
  <2> DEFINE p == req[r]
             l == IF LabelTaken(p.row.project, p.row.label) THEN p.task ELSE p.row.label
             row == [p.row EXCEPT !.label = l]
             adds == Rendering(p.ds)
             hash == Manifest(p.ds, adds)
             q == [p EXCEPT !.pc = "commit", !.dirty = TRUE, !.row = row, !.adds = adds,
                            !.hash = hash]
  <2>1. /\ UNCHANGED <<db, projects, dataset, images, refs, recons, plans, index, raced, opened>>
        /\ req' = [req EXCEPT ![r].pc = "commit", ![r].dirty = TRUE, ![r].row = row,
                              ![r].adds = adds, ![r].hash = hash]
        /\ nextId + Cardinality(Names) - 1 <= MaxImages
        /\ nextId' = nextId + Cardinality(Names)
        /\ p.pc = "derive"
        /\ WriteLock(r) /\ ProjectLock(r)
        /\ db = "postgres" => p.row.project \in projects
    BY <1>2 DEF RegisterDerived
  <2>2. p \in SessionState /\ Shape(p) /\ TRUE \in BOOLEAN
    BY DEF Base, Typed
  <2>3. p.op = "derive" /\ p.dels = {} /\ p.ds \in Datasets /\ p.row # None /\ p.task \in Tasks
    BY <2>1, <2>2 DEF Shape
  <2>4. p.row \in DatasetRow
    BY <2>2, <2>3 DEF SessionState
  <2>5. l \in Labels \union Tasks
    BY <2>3, <2>4 DEF DatasetRow
  <2> HIDE DEF l
  <2>6. row \in DatasetRow /\ row.project = p.row.project
    BY <2>4, <2>5 DEF DatasetRow
  <2>7. row # None
    BY <2>6, RowsAssumption
  <2>8. /\ adds \in SUBSET ImageRow /\ Proper(adds) /\ \A i \in adds : i.ds = p.ds
        /\ \A b \in Blobs : Using(b, adds) = {}
        /\ nextId' \in 1 .. MaxImages + 1 /\ Cardinality(Names) \in Nat
    BY <2>1, <2>3, RenderingType
  <2>9. hash \in Hashes
    BY <2>8, ManifestType
  <2>10. nextId \in Nat /\ nextId' \in Nat /\ nextId <= nextId'
    BY <2>1, <2>8 DEF Base, Typed
  <2> HIDE DEF row, adds
  <2>20. hash = Manifest(p.ds, adds)
    OBVIOUS
  <2> HIDE DEF hash
  <2>11. req' = [req EXCEPT ![r] = q]
    BY <2>1, <2>2 DEF Base, Typed
  <2>12. q \in SessionState
    BY <2>2, <2>6, <2>8, <2>9 DEF SessionState
  <2>13. /\ q.pc = "commit" /\ q.dirty /\ q.op = p.op /\ q.ds = p.ds /\ q.row = row
         /\ q.adds = adds /\ q.dels = p.dels /\ q.counts = p.counts /\ q.recon = p.recon
         /\ q.project = p.project /\ q.hash = hash /\ q.task = p.task
    BY <2>2 DEF SessionState
  <2>14. Shape(q)
    <3> HIDE DEF p, q
    <3> QED BY <2>2, <2>3, <2>7, <2>8, <2>13, <2>20 DEF Shape
  <2>15. raced' \subseteq Blobs \union Datasets
    BY <2>1 DEF Base, Typed
  <2>16. Base' /\ Quiet(r) /\ req'[r] = q
    <3> HIDE DEF q
    <3> QED BY <2>1, <2>8, <2>11, <2>12, <2>13, <2>14, <2>15, ContinueQuiet
  <2> HIDE DEF q
  <2> QED BY <2>1, <2>3, <2>6, <2>8, <2>10, <2>13, <2>16
<1> QED BY <1>1, <1>2

\* The images of a stamp are read.
LEMMA SelectQuiet ==
  ASSUME Base, NEW r \in Requests, SubmitWrite(r) \/ BuildSelect(r)
  PROVE  \/ Blank(r)
         \/ /\ Base' /\ Quiet(r) /\ UNCHANGED <<raced, nextId>> /\ SameRows(r)
            /\ req'[r].hash = req[r].hash /\ req'[r].dels = req[r].dels
            /\ Of(req[r].ds, images) # {} /\ req'[r].adds = Of(req[r].ds, images)
            /\ \/ /\ req[r].pc = "submit" /\ req'[r].pc = "commit" /\ req'[r].op = "submit"
                  /\ req'[r].dirty
                  /\ WriteLock(r) /\ ProjectLock(r) /\ DatasetLock(r, req[r].ds)
                  /\ db = "postgres" => Live(req[r].ds)
               \/ /\ req[r].pc = "build" /\ req'[r].pc = "save" /\ req'[r].op = "build"
                  /\ ~req'[r].dirty
<1>1. CASE Fail(r)
  BY <1>1, FailBlank
<1> DEFINE p == req[r]
           adds == Of(p.ds, images)
<1>0. p \in SessionState /\ Shape(p) /\ TRUE \in BOOLEAN
  BY DEF Base, Typed
<1>10. adds \in SUBSET ImageRow /\ \A i \in adds : i.ds = p.ds
  BY DEF Of, Base, Typed
<1>2. CASE SubmitWrite(r) /\ ~Fail(r)
  <2> DEFINE q == [p EXCEPT !.pc = "commit", !.dirty = TRUE, !.adds = adds]
  <2>1. /\ UNCHANGED <<db, projects, dataset, images, refs, recons, plans, index, raced, opened, nextId>>
        /\ req' = [req EXCEPT ![r].pc = "commit", ![r].dirty = TRUE, ![r].adds = adds]
        /\ p.pc = "submit" /\ adds # {}
        /\ WriteLock(r) /\ ProjectLock(r) /\ DatasetLock(r, p.ds)
        /\ db = "postgres" => Live(p.ds)
    BY <1>2 DEF SubmitWrite
  <2> HIDE DEF adds
  <2>3. req' = [req EXCEPT ![r] = q]
    BY <1>0, <2>1 DEF Base, Typed
  <2>4. q \in SessionState
    BY <1>0, <1>10 DEF SessionState
  <2>5. /\ q.pc = "commit" /\ q.dirty /\ q.op = p.op /\ q.ds = p.ds /\ q.row = p.row
        /\ q.adds = adds /\ q.dels = p.dels /\ q.counts = p.counts /\ q.recon = p.recon
        /\ q.project = p.project /\ q.hash = p.hash
    BY <1>0 DEF SessionState
  <2>6. p.op = "submit" /\ p.dels = {}
    BY <1>0, <2>1 DEF Shape
  <2>7. Shape(q)
    <3> HIDE DEF p, q
    <3> QED BY <1>0, <1>10, <2>1, <2>5, <2>6 DEF Shape
  <2>8. raced' \subseteq Blobs \union Datasets /\ nextId' \in 1 .. MaxImages + 1
    BY <2>1 DEF Base, Typed
  <2>9. Base' /\ Quiet(r) /\ req'[r] = q
    <3> HIDE DEF q
    <3> QED BY <2>1, <2>3, <2>4, <2>5, <2>7, <2>8, ContinueQuiet
  <2> QED BY <2>1, <2>5, <2>6, <2>9 DEF SameRows, adds
<1>3. CASE BuildSelect(r) /\ ~Fail(r)
  <2> DEFINE q == [p EXCEPT !.pc = "save", !.adds = adds]
  <2>1. /\ UNCHANGED <<db, projects, dataset, images, refs, recons, plans, index, raced, opened, nextId>>
        /\ req' = [req EXCEPT ![r].pc = "save", ![r].adds = adds]
        /\ p.pc = "build" /\ adds # {}
    BY <1>3 DEF BuildSelect
  <2> HIDE DEF adds
  <2>3. req' = [req EXCEPT ![r] = q]
    BY <1>0, <2>1 DEF Base, Typed
  <2>4. q \in SessionState
    BY <1>0, <1>10 DEF SessionState
  <2>5. /\ q.pc = "save" /\ q.dirty = p.dirty /\ q.op = p.op /\ q.ds = p.ds /\ q.row = p.row
        /\ q.adds = adds /\ q.dels = p.dels /\ q.counts = p.counts /\ q.recon = p.recon
        /\ q.project = p.project /\ q.hash = p.hash
    BY <1>0 DEF SessionState
  <2>6. p.op = "build" /\ p.dels = {} /\ ~p.dirty
    BY <1>0, <2>1 DEF Shape
  <2>7. Shape(q)
    <3> HIDE DEF p, q
    <3> QED BY <1>0, <1>10, <2>1, <2>5, <2>6 DEF Shape
  <2>8. raced' \subseteq Blobs \union Datasets /\ nextId' \in 1 .. MaxImages + 1
    BY <2>1 DEF Base, Typed
  <2>9. Base' /\ Quiet(r) /\ req'[r] = q
    <3> HIDE DEF q
    <3> QED BY <2>1, <2>3, <2>4, <2>5, <2>7, <2>8, ContinueQuiet
  <2> QED BY <2>1, <2>5, <2>6, <2>9 DEF SameRows, adds
<1> QED BY <1>1, <1>2, <1>3

-----------------------------------------------------------------------------
(* The commit. *)

Inserted(q) == IF q.op = "submit" THEN {} ELSE q.adds
Cascaded(r) ==
    IF db = "postgres"
    THEN {i \in images : Live(i.ds) /\ CommitDatasets(r)[i.ds] = Gone} \ req[r].dels
    ELSE {}

LEMMA CommitParts ==
  ASSUME Base, NEW r \in Requests, Commit(r)
  PROVE  LET p == req[r]
         IN  /\ p \in SessionState /\ Shape(p) /\ p.pc = "commit" /\ p.dirty
             /\ p.op \in {"mkdir", "patch", "rmdir", "rmproject", "add", "rm", "derive", "submit"}
             /\ p.op \in {"mkdir", "patch", "derive"} => p.row \in DatasetRow
             /\ p.op # "rmproject" => p.ds \in Datasets
             /\ p.op \in {"add", "derive"} => Proper(p.adds)
             /\ p.op \notin {"add", "derive"} => Inserted(p) = {}
             /\ UNCHANGED <<db, index, opened, nextId>>
             /\ dataset' = CommitDatasets(r)
             /\ images' = (images \ (p.dels \union Cascaded(r))) \union Inserted(p)
             /\ refs' = [b \in Blobs |-> IF b \in DOMAIN p.counts THEN p.counts[b] ELSE refs[b]]
             /\ projects' = projects \ {p.project}
             /\ recons' = {x \in recons \union p.recon : db = "postgres" => dataset'[x.ds] # Gone}
             /\ raced' = raced
                  \union {i.sha : i \in {j \in p.dels \union Cascaded(r) :
                                           j.kind = "upload" /\ j.sha \notin DOMAIN p.counts}}
                  \union {d \in {i.ds : i \in Inserted(p) \union p.dels} :
                            \E s \in Others(r) : req[s].ds = d /\ req[s].pc \in {"submit", "build"}}
             /\ req' = [req EXCEPT ![r] = Idle]
<1> DEFINE p == req[r]
<1>1. p \in SessionState /\ Shape(p) /\ p.pc = "commit"
  BY DEF Base, Typed, Commit
<1>2. /\ p.dirty
      /\ p.op \in {"mkdir", "patch", "rmdir", "rmproject", "add", "rm", "derive", "submit"}
      /\ p.op # "rmproject" => p.ds \in Datasets
      /\ p.op \in {"add", "derive"} => Proper(p.adds)
      /\ p.op \notin {"add", "derive"} => Inserted(p) = {}
      /\ p.op \in {"mkdir", "patch", "derive"} => p.row \in DatasetRow
  <2>1. /\ p.op \in {"none", "mkdir", "patch", "rmdir", "rmproject", "add", "rm", "derive", "submit",
                     "build"}
        /\ p.row \in DatasetRow \union {None}
    BY <1>1 DEF SessionState
  <2> HIDE DEF p
  <2> QED BY <1>1, <2>1 DEF Shape, Inserted
<1>3. UNCHANGED <<db, index, opened, nextId>> /\ dataset' = CommitDatasets(r)
  BY DEF Commit
<1>4. /\ images' = (images \ (p.dels \union Cascaded(r))) \union Inserted(p)
      /\ refs' = [b \in Blobs |-> IF b \in DOMAIN p.counts THEN p.counts[b] ELSE refs[b]]
      /\ projects' = projects \ {p.project}
      /\ recons' = {x \in recons \union p.recon : db = "postgres" => dataset'[x.ds] # Gone}
      /\ req' = [req EXCEPT ![r] = Idle]
  BY DEF Commit, Cascaded, Inserted
<1>5. raced' = raced
        \union {i.sha : i \in {j \in p.dels \union Cascaded(r) :
                                 j.kind = "upload" /\ j.sha \notin DOMAIN p.counts}}
        \union {d \in {i.ds : i \in Inserted(p) \union p.dels} :
                  \E s \in Others(r) : req[s].ds = d /\ req[s].pc \in {"submit", "build"}}
  BY DEF Commit, Cascaded, Inserted
<1> QED BY <1>1, <1>2, <1>3, <1>4, <1>5

\* What becomes of a dataset.
LEMMA DatasetAfter ==
  ASSUME Base, NEW r \in Requests, Commit(r), NEW d \in Datasets
  PROVE  LET p == req[r]
         IN  /\ d # p.ds /\ p.op # "rmproject" => dataset'[d] = dataset[d]
             /\ p.op = "rmproject" =>
                  dataset'[d] = IF db = "postgres" /\ Live(d) /\ dataset[d].project = p.project
                                THEN Gone ELSE dataset[d]
             /\ d = p.ds =>
                  /\ p.op = "rmdir" => dataset'[d] = Gone
                  /\ p.op = "mkdir" => dataset'[d] = p.row
                  /\ p.op = "derive" => dataset'[d] = [p.row EXCEPT !.hash = p.hash]
                  /\ p.op = "patch" =>
                       dataset'[d] = IF Live(d) THEN [dataset[d] EXCEPT !.label = p.row.label]
                                                ELSE dataset[d]
                  /\ p.op \in {"add", "rm"} =>
                       dataset'[d] = IF Live(d) THEN [dataset[d] EXCEPT !.hash = p.hash]
                                                ELSE dataset[d]
                  /\ p.op = "submit" => dataset'[d] = dataset[d]
<1> DEFINE p == req[r]
<1>1. dataset' = CommitDatasets(r)
  BY CommitParts
<1>2. CASE p.op = "rmproject"
  BY <1>1, <1>2 DEF CommitDatasets
<1>3. CASE p.op = "rmdir"
  BY <1>1, <1>3 DEF CommitDatasets
<1>4. CASE p.op \notin {"rmproject", "rmdir"}
  BY <1>1, <1>4 DEF CommitDatasets
<1> QED BY <1>2, <1>3, <1>4

\* A row stays a row, and a name that is not taken is taken by its own session only.
LEMMA DatasetStep ==
  ASSUME Base, NEW r \in Requests, Commit(r), NEW d \in Datasets
  PROVE  LET p == req[r]
         IN  /\ dataset'[d] \in DatasetRow \union {None, Gone}
             /\ dataset[d] # None => dataset'[d] # None
             /\ d = p.ds /\ p.op \in Newborn => dataset'[d] # None
             /\ dataset[d] = None /\ ~(d = p.ds /\ p.op \in Newborn) => dataset'[d] = None
<1> DEFINE p == req[r]
<1>0. /\ p \in SessionState /\ dataset[d] \in DatasetRow \union {None, Gone}
      /\ p.op \in {"mkdir", "patch", "rmdir", "rmproject", "add", "rm", "derive", "submit"}
      /\ p.op \in {"mkdir", "patch", "derive"} => p.row \in DatasetRow
  BY CommitParts DEF Base, Typed
<1>1. \A x \in DatasetRow : x # None /\ x # Gone
  BY RowsAssumption
<1>2. p.hash \in Hashes
  BY <1>0 DEF SessionState
<1>3. CASE d # p.ds \/ p.op \in {"rmproject", "submit"}
  <2>1. dataset'[d] \in {dataset[d], Gone} /\ (dataset'[d] = Gone => dataset[d] # None \/ dataset[d] = Gone)
    BY <1>0, <1>3, DatasetAfter DEF Live
  <2> QED BY <1>0, <1>3, <2>1, RowsAssumption DEF Newborn
<1>4. CASE d = p.ds /\ p.op = "rmdir"
  <2>1. dataset'[d] = Gone /\ dataset[d] # None
    BY <1>4, DatasetAfter DEF Base, Named, Newborn
  <2> QED BY <1>4, <2>1, RowsAssumption DEF Newborn
<1>5. CASE d = p.ds /\ p.op = "mkdir"
  BY <1>0, <1>1, <1>5, DatasetAfter DEF Newborn
<1>6. CASE d = p.ds /\ p.op = "derive"
  <2>1. dataset'[d] = [p.row EXCEPT !.hash = p.hash] /\ p.row \in DatasetRow
    BY <1>0, <1>6, DatasetAfter
  <2>2. dataset'[d] \in DatasetRow
    BY <1>2, <2>1 DEF DatasetRow, Hashes
  <2> QED BY <1>1, <1>6, <2>2 DEF Newborn
<1>7. CASE d = p.ds /\ p.op = "patch"
  <2>1. p.row \in DatasetRow
    BY <1>0, <1>7
  <2>2. CASE ~Live(d)
    BY <1>0, <1>7, <2>2, DatasetAfter DEF Newborn
  <2>3. CASE Live(d)
    <3>1. dataset[d] \in DatasetRow
      BY <1>0, <2>3 DEF Live
    <3>2. dataset'[d] = [dataset[d] EXCEPT !.label = p.row.label]
      BY <1>7, <2>3, DatasetAfter
    <3>3. p.row.label \in Labels \union Tasks
      BY <2>1 DEF DatasetRow
    <3>4. dataset'[d] \in DatasetRow
      BY <3>1, <3>2, <3>3 DEF DatasetRow
    <3> QED BY <1>1, <1>7, <3>1, <3>4 DEF Newborn
  <2> QED BY <2>2, <2>3
<1>8. CASE d = p.ds /\ p.op \in {"add", "rm"}
  <2>2. CASE ~Live(d)
    BY <1>0, <1>8, <2>2, DatasetAfter DEF Newborn
  <2>3. CASE Live(d)
    <3>1. dataset[d] \in DatasetRow
      BY <1>0, <2>3 DEF Live
    <3>2. dataset'[d] = [dataset[d] EXCEPT !.hash = p.hash]
      BY <1>8, <2>3, DatasetAfter
    <3>4. dataset'[d] \in DatasetRow
      BY <1>2, <3>1, <3>2 DEF DatasetRow, Hashes
    <3> QED BY <1>1, <1>8, <3>1, <3>4 DEF Newborn
  <2> QED BY <2>2, <2>3
<1> QED BY <1>0, <1>3, <1>4, <1>5, <1>6, <1>7, <1>8

LEMMA CommitBase ==
  ASSUME Base, NEW r \in Requests, Commit(r)
  PROVE  Base'
<1> DEFINE p == req[r]
<1>0. /\ p \in SessionState /\ Shape(p) /\ p.pc = "commit"
      /\ p.op \in {"mkdir", "patch", "rmdir", "rmproject", "add", "rm", "derive", "submit"}
      /\ p.op # "rmproject" => p.ds \in Datasets
      /\ p.op \in {"add", "derive"} => Proper(p.adds)
      /\ p.op \notin {"add", "derive"} => Inserted(p) = {}
      /\ UNCHANGED <<db, opened, nextId>> /\ dataset' = CommitDatasets(r)
      /\ images' = (images \ (p.dels \union Cascaded(r))) \union Inserted(p)
      /\ refs' = [b \in Blobs |-> IF b \in DOMAIN p.counts THEN p.counts[b] ELSE refs[b]]
      /\ projects' = projects \ {p.project}
      /\ recons' \subseteq recons \union p.recon
      /\ req' = [req EXCEPT ![r] = Idle]
  BY CommitParts
<1>1. Inserted(p) \subseteq p.adds /\ p.adds \subseteq ImageRow /\ p.recon \subseteq ReconRow
      /\ p.counts \in Counts /\ p.dels \subseteq ImageRow
  BY <1>0 DEF Inserted, SessionState
<1>2. req'[r] = Idle /\ \A s \in Requests \ {r} : req'[s] = req[s]
  BY <1>0 DEF Base, Typed
<1>3. dataset' \in [Datasets -> DatasetRow \union {None, Gone}]
  <2>1. dataset' = [d \in Datasets |-> dataset'[d]]
    BY <1>0 DEF CommitDatasets
  <2> QED BY <2>1, DatasetStep
<1>4. refs' \in [Blobs -> Nat]
  <2>1. PICK B \in SUBSET Blobs : p.counts \in [B -> Nat]
    BY <1>1 DEF Counts
  <2> HIDE DEF p
  <2> QED BY <1>0, <2>1 DEF Base, Typed
<1>5. raced' \subseteq Blobs \union Datasets
  <2>1. \A i \in p.dels \union Cascaded(r) : i.kind = "upload" => i.sha \in Blobs
    BY <1>0 DEF Base, Proper, Shape, Cascaded
  <2>2. \A i \in Inserted(p) \union p.dels : i.ds \in Datasets
    BY <1>1 DEF ImageRow
  <2>3. raced' = raced
          \union {i.sha : i \in {j \in p.dels \union Cascaded(r) :
                                   j.kind = "upload" /\ j.sha \notin DOMAIN p.counts}}
          \union {d \in {i.ds : i \in Inserted(p) \union p.dels} :
                    \E s \in Others(r) : req[s].ds = d /\ req[s].pc \in {"submit", "build"}}
    BY CommitParts
  <2> HIDE DEF p
  <2> QED BY <2>1, <2>2, <2>3 DEF Base, Typed
<1>6. Typed'
  <2>1. req' \in [Requests -> SessionState]
    BY <1>0, IdleState DEF Base, Typed
  <2> HIDE DEF p
  <2> QED BY <1>0, <1>1, <1>3, <1>4, <1>5, <2>1 DEF Base, Typed
<1>7. Proper(images')
  <2>0. p.op \in {"add", "derive"} => Inserted(p) = p.adds
    BY DEF Inserted
  <2>1. Proper(Inserted(p))
    BY <1>0, <2>0, NothingProper
  <2> HIDE DEF p
  <2>2. ASSUME NEW b \in Blobs PROVE IsFiniteSet(Using(b, images'))
    <3>1. IsFiniteSet(Using(b, images)) /\ IsFiniteSet(Using(b, Inserted(p)))
      BY <2>1 DEF Base, Proper
    <3>2. IsFiniteSet(Using(b, images) \union Using(b, Inserted(p)))
      BY <3>1, FS_Union
    <3>3. Using(b, images') \in SUBSET (Using(b, images) \union Using(b, Inserted(p)))
      BY <1>0 DEF Using
    <3> QED BY <3>2, <3>3, FS_Subset
  <2> QED BY <1>0, <2>1, <2>2 DEF Base, Proper
<1>8. \A s \in Requests : Shape(req'[s])
  BY <1>2, IdleState DEF Base
<1>9. Named'
  <2>1. \A i \in images' : dataset'[i.ds] # None
    <3>1. ASSUME NEW i \in images PROVE dataset'[i.ds] # None
      <4>1. i.ds \in Datasets /\ dataset[i.ds] # None
        BY DEF Base, Typed, Named, ImageRow
      <4> QED BY <4>1, DatasetStep
    <3>2. ASSUME NEW i \in Inserted(p) PROVE dataset'[i.ds] # None
      <4>1. p.op \in {"add", "derive"} /\ i \in p.adds
        BY <1>0, <1>1, <3>2
      <4>2. i.ds = p.ds /\ p.ds \in Datasets
        BY <1>0, <4>1 DEF Shape
      <4>3. p.op = "add" => dataset[p.ds] # None
        BY DEF Base, Named, Newborn
      <4> QED BY <4>1, <4>2, <4>3, DatasetStep DEF Newborn
    <3> QED BY <1>0, <3>1, <3>2
  <2>2. \A x \in recons' : dataset'[x.ds] # None
    <3>1. ASSUME NEW x \in recons PROVE dataset'[x.ds] # None
      <4>1. x.ds \in Datasets /\ dataset[x.ds] # None
        BY DEF Base, Typed, Named, ReconRow
      <4> QED BY <4>1, DatasetStep
    <3>2. ASSUME NEW x \in p.recon PROVE dataset'[x.ds] # None
      <4>1. x.ds = p.ds /\ p.ds \in Datasets /\ p.op = "submit"
        BY <1>0, <3>2 DEF Shape
      <4>2. dataset[p.ds] # None
        BY <4>1 DEF Base, Named, Newborn
      <4> QED BY <4>1, <4>2, DatasetStep
    <3> QED BY <1>0, <3>1, <3>2
  <2>3. ASSUME NEW s \in Requests
        PROVE  /\ req'[s].op \in Newborn => dataset'[req'[s].ds] = None
               /\ req'[s].op \notin Newborn \union {"none", "rmproject"} => dataset'[req'[s].ds] # None
    <3>1. CASE s = r
      BY <1>2, <3>1 DEF Idle, Newborn
    <3>2. CASE s # r /\ req[s].op \notin {"none", "rmproject"}
      <4>1. req'[s] = req[s] /\ req[s].ds \in Datasets
        BY <1>2, <3>2 DEF Base, Shape
      <4>2. req[s].op \in Newborn => dataset[req[s].ds] = None /\ ~(req[s].ds = p.ds /\ p.op \in Newborn)
        BY <3>2 DEF Base, Named
      <4>3. req[s].op \notin Newborn => dataset[req[s].ds] # None
        BY <3>2 DEF Base, Named
      <4> QED BY <4>1, <4>2, <4>3, DatasetStep
    <3>3. CASE s # r /\ req[s].op \in {"none", "rmproject"}
      BY <1>2, <3>3 DEF Newborn
    <3> QED BY <3>1, <3>2, <3>3
  <2>4. \A s, t \in Requests : s # t /\ req'[s].op \in Newborn /\ req'[t].op \in Newborn =>
                                 req'[s].ds # req'[t].ds
    <3>1. Idle.op \notin Newborn
      BY DEF Idle, Newborn
    <3> QED BY <1>2, <3>1 DEF Base, Named
  <2> QED BY <2>1, <2>2, <2>3, <2>4 DEF Named
<1> QED BY <1>6, <1>7, <1>8, <1>9 DEF Base, Shape, Manifest, Of, Proper, Using

LEMMA BuildSaveStill ==
  ASSUME Base, NEW r \in Requests, BuildSave(r)
  PROVE  /\ Base' /\ Still(r) /\ UNCHANGED <<raced, nextId>> /\ req'[r] = Idle
         /\ req[r].pc = "save" /\ req[r].ds \in Datasets
         /\ index' = [index EXCEPT ![req[r].ds] = [hash |-> req[r].hash, of |-> req[r].adds]]
<1>1. /\ UNCHANGED <<db, projects, dataset, images, refs, recons, plans, raced, opened, nextId>>
      /\ req' = [req EXCEPT ![r] = Idle] /\ req[r].pc = "save"
      /\ index' = [index EXCEPT ![req[r].ds] = [hash |-> req[r].hash, of |-> req[r].adds]]
  BY DEF BuildSave
<1>2. req'[r] = Idle /\ req[r].ds \in Datasets
  BY <1>1 DEF Base, Typed, Shape
<1>3. Still(r)
  BY <1>1, <1>2 DEF Still
<1>4. OwnName(r, req'[r])
  BY <1>2 DEF OwnName, Idle, Newborn
<1>5. raced' \subseteq Blobs \union Datasets /\ nextId' \in 1 .. MaxImages + 1
  BY <1>1 DEF Base, Typed
<1> QED BY <1>1, <1>2, <1>3, <1>4, <1>5, IdleState, QuietBase

\* An answer that needs no session: only the count of sessions moves.
Answered ==
    UNCHANGED <<db, projects, dataset, images, refs, recons, plans, index, req, raced, nextId>>

LEMMA AnsweredBase ==
  ASSUME Base, Answered, opened' \in Nat
  PROVE  Base'
BY DEF Answered, Base, Typed, Named, Shape, Proper, Using, Manifest, Of

\* The steps of sessions, as the proofs below tell them apart.
LEMMA Cases ==
  ASSUME Base, NEW r \in Requests,
         \/ Client(r)
         \/ InsertDataset(r) \/ RenameDataset(r) \/ DropDataset(r) \/ DropProject(r)
         \/ ReadItem(r) \/ InsertItem(r) \/ WriteHash(r) \/ DropImage(r)
         \/ RegisterDerived(r) \/ SubmitWrite(r) \/ BuildSelect(r) \/ BuildSave(r)
         \/ Commit(r) \/ Abort(r)
  PROVE  \/ Blank(r)
         \/ Answered /\ opened' \in Nat
         \/ \E d \in Datasets : DeleteDataset(r, d)
         \/ \E i \in images : DeleteImage(r, i)
         \/ \E d \in Datasets : /\ req' # req
                                /\ \/ SubmitRead(r, d)
                                   \/ \E force \in BOOLEAN : BuildRead(r, d, force)
         \/ InsertDataset(r) \/ RenameDataset(r) \/ DropDataset(r) \/ DropProject(r)
         \/ ReadItem(r) \/ InsertItem(r) \/ WriteHash(r) \/ DropImage(r)
         \/ RegisterDerived(r) \/ SubmitWrite(r) \/ BuildSelect(r) \/ BuildSave(r) \/ Commit(r)
<1>0. opened \in Nat
  BY DEF Base, Typed
<1>1. CASE Abort(r)
  BY <1>1, FailBlank DEF Abort
<1>2. ASSUME NEW t \in Tasks, NEW p \in Projects, NEW d \in Datasets, NEW l \in Labels,
             Derive(r, t, p, d, l), req' = req
      PROVE  Answered /\ opened' \in Nat
  BY <1>0, <1>2 DEF Derive, Open, Answered
<1>3. ASSUME NEW d \in Datasets, NEW force \in BOOLEAN, BuildRead(r, d, force), req' = req
      PROVE  Answered /\ opened' \in Nat
  BY <1>0, <1>3 DEF BuildRead, Open, Answered
<1>4. ASSUME NEW d \in Datasets, SubmitRead(r, d), req' = req
      PROVE  Answered /\ opened' \in Nat
  BY <1>0, <1>4 DEF SubmitRead, Open, Answered
<1>5. CASE Client(r)
  BY <1>2, <1>3, <1>4, <1>5, OpenBlank DEF Client
<1> QED BY <1>1, <1>5

LEMMA BaseInit == Init => Base
<1> SUFFICES ASSUME Init PROVE Base
  OBVIOUS
<1>1. \A r \in Requests : req[r] = Idle
  BY DEF Init
<1>2. Typed
  BY IdleState, BoundsAssumption DEF Init, Typed
<1>3. Named
  BY <1>1 DEF Init, Named, Idle, Newborn
<1>4. \A r \in Requests : Shape(req[r])
  BY <1>1, IdleState
<1> QED BY <1>2, <1>3, <1>4, NothingProper DEF Base, Init

LEMMA BaseNext ==
  ASSUME Base, [Next]_vars
  PROVE  Base'
<1>1. ASSUME UNCHANGED vars PROVE Base'
  BY <1>1, AnsweredBase DEF vars, Answered, Base, Typed
<1>2. ASSUME Next PROVE Base'
  <2>1. PICK r \in Requests :
           \/ Client(r)
           \/ InsertDataset(r) \/ RenameDataset(r) \/ DropDataset(r) \/ DropProject(r)
           \/ ReadItem(r) \/ InsertItem(r) \/ WriteHash(r) \/ DropImage(r)
           \/ RegisterDerived(r) \/ SubmitWrite(r) \/ BuildSelect(r) \/ BuildSave(r)
           \/ Commit(r) \/ Abort(r)
    BY <1>2 DEF Next
  <2>2. ASSUME Blank(r) PROVE Base'
    BY <2>2 DEF Blank
  <2>3. ASSUME NEW d \in Datasets, DeleteDataset(r, d) PROVE Base'
    BY <2>3, OpenDeleteDataset
  <2>4. ASSUME NEW i \in images, DeleteImage(r, i) PROVE Base'
    BY <2>4, OpenDeleteImage
  <2>5. ASSUME NEW d \in Datasets, req' # req,
               SubmitRead(r, d) \/ \E force \in BOOLEAN : BuildRead(r, d, force)
        PROVE  Base'
    BY <2>5, OpenStamp
  <2>6. ASSUME InsertDataset(r) \/ RenameDataset(r) \/ DropProject(r) PROVE Base'
    BY <2>2, <2>6, WriteRow
  <2>7. ASSUME DropDataset(r) \/ WriteHash(r) \/ DropImage(r) \/ BuildSave(r) PROVE Base'
    BY <2>7, DropDatasetQuiet, WriteHashQuiet, DropImageQuiet, BuildSaveStill
  <2>8. ASSUME ReadItem(r) PROVE Base'
    BY <2>2, <2>8, ReadItemQuiet
  <2>9. ASSUME InsertItem(r) PROVE Base'
    BY <2>2, <2>9, InsertItemQuiet
  <2>10. ASSUME RegisterDerived(r) PROVE Base'
    BY <2>2, <2>10, RegisterDerivedQuiet
  <2>11. ASSUME SubmitWrite(r) \/ BuildSelect(r) PROVE Base'
    BY <2>2, <2>11, SelectQuiet
  <2> QED BY <2>1, <2>2, <2>3, <2>4, <2>5, <2>6, <2>7, <2>8, <2>9, <2>10, <2>11,
             Cases, AnsweredBase, CommitBase
<1> QED BY <1>1, <1>2

\* Types: the rows are rows, and a session carries rows and counts of blobs only.
THEOREM TypeCorrect == Spec => []TypeOK
<1>1. Base => TypeOK
  <2> SUFFICES ASSUME Base PROVE TypeOK
    OBVIOUS
  <2>1. ASSUME NEW r \in Requests
        PROVE  /\ req[r].adds \union req[r].dels \subseteq ImageRow
               /\ DOMAIN req[r].counts \subseteq Blobs
    BY DEF Base, Typed, SessionState, Counts
  <2> QED BY <2>1 DEF Base, Typed, TypeOK
<1> QED BY <1>1, BaseInit, BaseNext, PTL DEF Spec

-----------------------------------------------------------------------------
(* postgres: nothing outlives its parent. *)

OrphanInv == NoOrphans /\ Guarded

\* A dataset is alive after a commit when it was, or has just been created.
LEMMA DatasetLives ==
  ASSUME Base, NEW r \in Requests, Commit(r), NEW d \in Datasets
  PROVE  LET p == req[r]
             born == d = p.ds /\ p.op \in Newborn
         IN  /\ Live(d)' =>
                  \/ Live(d) /\ dataset'[d].project = dataset[d].project
                  \/ born /\ dataset'[d].project = p.row.project
             /\ born => Live(d)'
             /\ p.op \notin {"rmdir", "rmproject"} /\ Live(d) => Live(d)'
             /\ p.op = "rmdir" /\ d # p.ds /\ Live(d) => Live(d)'
             /\ p.op = "rmproject" /\ db = "postgres" /\ Live(d)' => dataset'[d].project # p.project
<1> DEFINE p == req[r]
           born == d = p.ds /\ p.op \in Newborn
<1>0. /\ p \in SessionState /\ dataset[d] \in DatasetRow \union {None, Gone}
      /\ p.op \in {"mkdir", "patch", "rmdir", "rmproject", "add", "rm", "derive", "submit"}
      /\ p.op \in {"mkdir", "patch", "derive"} => p.row \in DatasetRow
      /\ born => dataset[d] = None
  BY CommitParts DEF Base, Typed, Named
<1>1. \A x \in DatasetRow : x # None /\ x # Gone
  BY RowsAssumption
<1>2. Live(d)' <=> dataset'[d] \notin {None, Gone}
  BY DEF Live
<1>3. CASE p.op \in {"rmproject", "submit"} \/ d # p.ds
  <2>1. dataset'[d] \in {dataset[d], Gone}
    BY <1>3, DatasetAfter
  <2>2. p.op # "rmproject" => dataset'[d] = dataset[d]
    BY <1>3, DatasetAfter
  <2>3. p.op = "rmproject" /\ db = "postgres" /\ Live(d)' => dataset'[d].project # p.project
    BY <1>2, DatasetAfter DEF Live
  <2>4. ~(d = p.ds /\ p.op \in Newborn)
    BY <1>3 DEF Newborn
  <2>5. Live(d)' => Live(d) /\ dataset'[d].project = dataset[d].project
    BY <1>2, <2>1 DEF Live
  <2>6. p.op # "rmproject" /\ Live(d) => Live(d)'
    BY <1>2, <2>2 DEF Live
  <2> QED BY <2>3, <2>4, <2>5, <2>6
<1>4. CASE d = p.ds /\ p.op = "rmdir"
  BY <1>2, <1>4, DatasetAfter DEF Newborn
<1>5. CASE d = p.ds /\ p.op = "mkdir"
  BY <1>0, <1>1, <1>2, <1>5, DatasetAfter DEF Newborn
<1>6. CASE d = p.ds /\ p.op = "derive"
  <2>1. dataset'[d] = [p.row EXCEPT !.hash = p.hash] /\ p.row \in DatasetRow
    BY <1>0, <1>6, DatasetAfter
  <2>2. dataset'[d] \in DatasetRow /\ dataset'[d].project = p.row.project
    <3>1. p.hash \in Hashes
      BY <1>0 DEF SessionState
    <3> QED BY <2>1, <3>1 DEF DatasetRow, Hashes
  <2> QED BY <1>1, <1>2, <1>6, <2>2 DEF Newborn
<1>7. CASE d = p.ds /\ p.op \in {"patch", "add", "rm"}
  <2>1. CASE ~Live(d)
    BY <1>2, <1>7, <2>1, DatasetAfter DEF Live, Newborn
  <2>2. CASE Live(d)
    <3>1. dataset[d] \in DatasetRow
      BY <1>0, <2>2 DEF Live
    <3>2. \/ dataset'[d] = [dataset[d] EXCEPT !.label = p.row.label]
          \/ dataset'[d] = [dataset[d] EXCEPT !.hash = p.hash]
      BY <1>7, <2>2, DatasetAfter
    <3>3. dataset'[d].project = dataset[d].project
      BY <3>1, <3>2 DEF DatasetRow
    <3>4. dataset'[d] \in DatasetRow
      <4>1. p.hash \in Hashes
        BY <1>0 DEF SessionState
      <4>2. p.op = "patch" => p.row.label \in Labels \union Tasks
        BY <1>0 DEF DatasetRow
      <4>3. CASE p.op = "patch"
        <5>1. dataset'[d] = [dataset[d] EXCEPT !.label = p.row.label]
          BY <1>7, <2>2, <4>3, DatasetAfter
        <5> QED BY <3>1, <4>2, <4>3, <5>1 DEF DatasetRow
      <4>4. CASE p.op \in {"add", "rm"}
        <5>1. dataset'[d] = [dataset[d] EXCEPT !.hash = p.hash]
          BY <1>7, <2>2, <4>4, DatasetAfter
        <5> QED BY <3>1, <4>1, <5>1 DEF DatasetRow, Hashes
      <4> QED BY <1>7, <4>3, <4>4
    <3> QED BY <1>1, <1>2, <1>7, <2>2, <3>3, <3>4 DEF Newborn
  <2> QED BY <2>1, <2>2
<1> QED BY <1>0, <1>3, <1>4, <1>5, <1>6, <1>7

\* What a session that has written holds of the rows above it.
Admitted(r) ==
    LET q == req'[r]
    IN  db = "postgres" /\ q.dirty =>
          /\ q.op \in {"add", "submit"} => Live(q.ds)
          /\ q.op \in Newborn => q.row.project \in projects
          /\ \A s \in Requests \ {r} : req[s].dirty =>
               /\ q.op # "rmproject" /\ req[s].op # "rmproject"
               /\ q.ds = req[s].ds =>
                    /\ ~(q.op = "rmdir" /\ req[s].op \in {"add", "submit"})
                    /\ ~(req[s].op = "rmdir" /\ q.op \in {"add", "submit"})

LEMMA AdmittedOrphan ==
  ASSUME Base, OrphanInv, NEW r \in Requests, Still(r), Admitted(r)
  PROVE  OrphanInv'
<1>1. /\ db' = db /\ projects' = projects /\ dataset' = dataset /\ images' = images
      /\ recons' = recons
      /\ \A s \in Requests \ {r} : req'[s] = req[s]
  BY DEF Still, Base, Typed
<1>2. NoOrphans'
  BY <1>1 DEF OrphanInv, NoOrphans, Live
<1>3. Guarded'
  <2> SUFFICES ASSUME db = "postgres"
               PROVE  /\ \A s \in Requests :
                           req'[s].dirty =>
                             /\ req'[s].op \in {"add", "submit"} => Live(req'[s].ds)
                             /\ req'[s].op \in Newborn => req'[s].row.project \in projects
                      /\ \A s, t \in Requests :
                           s # t /\ req'[s].dirty /\ req'[t].dirty =>
                             /\ req'[s].op # "rmproject"
                             /\ ~(req'[s].op = "rmdir" /\ req'[t].op \in {"add", "submit"}
                                  /\ req'[s].ds = req'[t].ds)
    BY <1>1 DEF Guarded, Live
  <2>1. /\ \A s \in Requests :
             req[s].dirty => /\ req[s].op \in {"add", "submit"} => Live(req[s].ds)
                             /\ req[s].op \in Newborn => req[s].row.project \in projects
        /\ \A s, t \in Requests :
             s # t /\ req[s].dirty /\ req[t].dirty =>
               /\ req[s].op # "rmproject"
               /\ ~(req[s].op = "rmdir" /\ req[t].op \in {"add", "submit"}
                    /\ req[s].ds = req[t].ds)
    BY DEF OrphanInv, Guarded
  <2> QED BY <1>1, <2>1 DEF Admitted
<1> QED BY <1>2, <1>3 DEF OrphanInv

\* Nobody who has written is idle.
LEMMA WritersOpen ==
  ASSUME Base, NEW r \in Requests, NEW s \in Requests \ {r}, req[s].dirty
  PROVE  /\ s \in Others(r) /\ Writing(s)
         /\ req[s].op \in {"rmdir", "submit"} => req[s].pc = "commit"
         /\ req[s].op = "add" => Of(req[s].ds, req[s].adds) # {}
<1>1. Shape(req[s])
  BY DEF Base
<1>2. req[s].pc \in {"read", "item", "hash", "commit"}
  BY <1>1 DEF Shape
<1>3. req[s].op = "add" => Of(req[s].ds, req[s].adds) # {}
  BY <1>1 DEF Shape, Of
<1>4. req[s].op \in {"rmdir", "submit"} => req[s].pc = "commit"
  BY <1>1, <1>2 DEF Shape
<1> QED BY <1>2, <1>3, <1>4 DEF Others, Writing

LEMMA OrphanQuiet ==
  ASSUME Base, OrphanInv, NEW r \in Requests,
         \/ InsertDataset(r) \/ RenameDataset(r) \/ DropDataset(r) \/ DropProject(r)
         \/ ReadItem(r) \/ InsertItem(r) \/ WriteHash(r) \/ DropImage(r)
         \/ RegisterDerived(r) \/ SubmitWrite(r) \/ BuildSelect(r)
  PROVE  OrphanInv'
<1>0. ASSUME Blank(r) PROVE OrphanInv'
  BY <1>0, AdmittedOrphan DEF Blank, Quiet, Admitted
<1>1. CASE InsertDataset(r) \/ RenameDataset(r) \/ DropProject(r)
  <2>1. CASE Blank(r)
    BY <1>0, <2>1
  <2>2. CASE ~Blank(r)
    <3>1. /\ Quiet(r) /\ SameRows(r) /\ req'[r].op \in {"mkdir", "patch", "rmproject"}
          /\ req[r].op \in {"mkdir", "patch"} => ProjectLock(r)
          /\ req[r].op = "mkdir" => (db = "postgres" => req[r].row.project \in projects)
          /\ req[r].op = "rmproject" => (db = "postgres" => \A s \in Others(r) : ~Writing(s))
      BY <1>1, <2>2, WriteRow
    <3>2. Admitted(r)
      BY <3>1, WritersOpen DEF SameRows, Admitted, Newborn, ProjectLock
    <3> QED BY <3>1, <3>2, AdmittedOrphan DEF Quiet
  <2> QED BY <2>1, <2>2
<1>2. CASE DropDataset(r)
  <2>1. /\ Quiet(r) /\ SameRows(r) /\ req'[r].op = "rmdir"
        /\ ProjectLock(r) /\ DatasetLock(r, req[r].ds)
        /\ db = "postgres" => \A s \in Others(r) : Of(req[r].ds, req[s].adds) = {}
    BY <1>2, DropDatasetQuiet
  <2>2. Admitted(r)
    BY <2>1, WritersOpen DEF SameRows, Admitted, Newborn, ProjectLock, DatasetLock
  <2> QED BY <2>1, <2>2, AdmittedOrphan DEF Quiet
<1>3. CASE ReadItem(r)
  <2>1. CASE Blank(r)
    BY <1>0, <2>1
  <2>2. CASE ~Blank(r)
    <3>1. /\ Quiet(r) /\ req'[r].dirty = req[r].dirty /\ req'[r].op = "add" /\ req[r].op = "add"
          /\ req'[r].ds = req[r].ds
      BY <1>3, <2>2, ReadItemQuiet
    <3>2. Admitted(r)
      BY <3>1 DEF Admitted, OrphanInv, Guarded, Newborn
    <3> QED BY <3>1, <3>2, AdmittedOrphan DEF Quiet
  <2> QED BY <2>1, <2>2
<1>4. CASE InsertItem(r)
  <2>1. CASE Blank(r)
    BY <1>0, <2>1
  <2>2. CASE ~Blank(r)
    <3>1. /\ Quiet(r) /\ SameRows(r) /\ req'[r].op = "add" /\ ProjectLock(r)
          /\ DatasetLock(r, req[r].ds) /\ (db = "postgres" => Live(req[r].ds))
      BY <1>4, <2>2, InsertItemQuiet
    <3>2. Admitted(r)
      BY <3>1, WritersOpen DEF SameRows, Admitted, Newborn, ProjectLock, DatasetLock
    <3> QED BY <3>1, <3>2, AdmittedOrphan DEF Quiet
  <2> QED BY <2>1, <2>2
<1>5. CASE WriteHash(r)
  <2>1. Quiet(r) /\ SameRows(r) /\ req'[r].op \in {"add", "rm"} /\ req[r].dirty
    BY <1>5, WriteHashQuiet
  <2>2. Admitted(r)
    BY <2>1 DEF SameRows, Admitted, OrphanInv, Guarded, Newborn
  <2> QED BY <2>1, <2>2, AdmittedOrphan DEF Quiet
<1>6. CASE DropImage(r)
  <2>1. Quiet(r) /\ req'[r].op = "rm" /\ ProjectLock(r)
    BY <1>6, DropImageQuiet
  <2>2. Admitted(r)
    BY <2>1, WritersOpen DEF Admitted, Newborn, ProjectLock
  <2> QED BY <2>1, <2>2, AdmittedOrphan DEF Quiet
<1>7. CASE RegisterDerived(r)
  <2>1. CASE Blank(r)
    BY <1>0, <2>1
  <2>2. CASE ~Blank(r)
    <3>1. /\ Quiet(r) /\ req'[r].op = "derive" /\ ProjectLock(r)
          /\ req'[r].row.project = req[r].row.project
          /\ db = "postgres" => req[r].row.project \in projects
      BY <1>7, <2>2, RegisterDerivedQuiet
    <3>2. Admitted(r)
      BY <3>1, WritersOpen DEF Admitted, Newborn, ProjectLock
    <3> QED BY <3>1, <3>2, AdmittedOrphan DEF Quiet
  <2> QED BY <2>1, <2>2
<1>8. CASE SubmitWrite(r) \/ BuildSelect(r)
  <2>1. CASE Blank(r)
    BY <1>0, <2>1
  <2>2. CASE ~Blank(r)
    <3>1. /\ Quiet(r) /\ SameRows(r)
          /\ \/ /\ req'[r].op = "submit" /\ ProjectLock(r) /\ DatasetLock(r, req[r].ds)
                /\ db = "postgres" => Live(req[r].ds)
             \/ ~req'[r].dirty
      BY <1>8, <2>2, SelectQuiet
    <3>2. Admitted(r)
      BY <3>1, WritersOpen DEF SameRows, Admitted, Newborn, ProjectLock, DatasetLock
    <3> QED BY <3>1, <3>2, AdmittedOrphan DEF Quiet
  <2> QED BY <2>1, <2>2
<1> QED BY <1>1, <1>2, <1>3, <1>4, <1>5, <1>6, <1>7, <1>8

LEMMA OrphanCommit ==
  ASSUME Base, Base', OrphanInv, NEW r \in Requests, Commit(r), db = "postgres"
  PROVE  OrphanInv'
<1> DEFINE p == req[r]
<1>0. /\ Shape(p) /\ p.dirty
      /\ p.op # "rmproject" => p.ds \in Datasets
      /\ p.op \notin {"add", "derive"} => Inserted(p) = {}
      /\ db' = db
      /\ images' = (images \ (p.dels \union Cascaded(r))) \union Inserted(p)
      /\ dataset' = CommitDatasets(r)
      /\ projects' = projects \ {p.project}
      /\ recons' = {x \in recons \union p.recon : db = "postgres" => dataset'[x.ds] # Gone}
      /\ req' = [req EXCEPT ![r] = Idle]
  BY CommitParts
<1>1. req'[r] = Idle /\ \A s \in Requests \ {r} : req'[s] = req[s]
  BY <1>0 DEF Base, Typed
<1>2. /\ p.op \in {"add", "submit"} => Live(p.ds)
      /\ p.op \in Newborn => p.row.project \in projects
      /\ \A s \in Requests \ {r} : req[s].dirty =>
           /\ p.op # "rmproject"
           /\ req[s].op \in {"add", "submit"} => Live(req[s].ds)
           /\ req[s].op \in Newborn => req[s].row.project \in projects
           /\ ~(p.op = "rmdir" /\ req[s].op \in {"add", "submit"} /\ p.ds = req[s].ds)
  BY <1>0 DEF OrphanInv, Guarded
<1>3. \A x \in projects : p.op # "rmproject" => x # p.project
  BY <1>0, RowsAssumption DEF Shape, Base, Typed
<1>4. NoOrphans'
  <2>1. ASSUME NEW i \in images' PROVE Live(i.ds)'
    <3>1. i.ds \in Datasets
      BY DEF Base, Typed, ImageRow
    <3>2. CASE i \in Inserted(p)
      <4>1. p.op \in {"add", "derive"} /\ i.ds = p.ds
        BY <1>0, <3>2 DEF Shape, Inserted
      <4> QED BY <1>2, <3>1, <4>1, DatasetLives DEF Newborn
    <3>3. CASE i \notin Inserted(p)
      <4>1. i \in images /\ i \notin p.dels /\ i \notin Cascaded(r)
        BY <1>0, <3>3
      <4>2. Live(i.ds)
        BY <4>1 DEF OrphanInv, NoOrphans
      <4>3. dataset'[i.ds] # Gone
        BY <1>0, <4>1, <4>2 DEF Cascaded
      <4>4. dataset'[i.ds] # None
        BY <3>1, <4>2, DatasetStep DEF Live
      <4> QED BY <4>3, <4>4 DEF Live
    <3> QED BY <3>2, <3>3
  <2>2. ASSUME NEW x \in recons' PROVE Live(x.ds)'
    <3>1. dataset'[x.ds] # Gone
      BY <1>0
    <3>2. dataset'[x.ds] # None
      BY DEF Base, Named
    <3> QED BY <3>1, <3>2 DEF Live
  <2>3. ASSUME NEW d \in Datasets, Live(d)' PROVE dataset'[d].project \in projects'
    <3>1. CASE Live(d) /\ dataset'[d].project = dataset[d].project
      <4>1. dataset[d].project \in projects
        BY <3>1 DEF OrphanInv, NoOrphans
      <4>2. p.op = "rmproject" => dataset'[d].project # p.project
        BY <2>3, DatasetLives
      <4> QED BY <1>0, <1>3, <3>1, <4>1, <4>2
    <3>2. CASE p.op \in Newborn /\ dataset'[d].project = p.row.project
      BY <1>0, <1>2, <1>3, <3>2 DEF Newborn
    <3> QED BY <2>3, <3>1, <3>2, DatasetLives
  <2> QED BY <2>1, <2>2, <2>3 DEF NoOrphans, Live
<1>5. Guarded'
  <2>1. ~Idle.dirty
    BY DEF Idle
  <2>2. ASSUME NEW s \in Requests, req'[s].dirty
        PROVE  /\ req'[s].op \in {"add", "submit"} => dataset'[req'[s].ds] \notin {None, Gone}
               /\ req'[s].op \in Newborn => req'[s].row.project \in projects'
    <3>1. s # r /\ req'[s] = req[s]
      BY <1>1, <2>1, <2>2
    <3>2. req[s].op \in {"add", "submit"} => req[s].ds \in Datasets
      BY DEF Base, Shape
    <3>3. req[s].op \in {"add", "submit"} => dataset'[req[s].ds] \notin {None, Gone}
      <4> SUFFICES ASSUME req[s].op \in {"add", "submit"}
                   PROVE  dataset'[req[s].ds] \notin {None, Gone}
        OBVIOUS
      <4>0. PICK e \in Datasets : e = req[s].ds
        BY <3>2
      <4>1. Live(e) /\ p.op # "rmproject" /\ ~(p.op = "rmdir" /\ e = p.ds)
        BY <1>2, <2>2, <3>1, <4>0
      <4>2. dataset'[e] # None
        BY <4>1, DatasetStep DEF Live
      <4>3. Live(e)'
        BY <4>1, DatasetLives
      <4> QED BY <4>0, <4>2, <4>3 DEF Live
    <3>4. req[s].op \in Newborn => req[s].row.project \in projects'
      BY <1>0, <1>2, <1>3, <2>2, <3>1
    <3> QED BY <3>1, <3>3, <3>4 DEF Live
  <2>3. \A s, t \in Requests :
          s # t /\ req'[s].dirty /\ req'[t].dirty =>
            /\ req'[s].op # "rmproject"
            /\ ~(req'[s].op = "rmdir" /\ req'[t].op \in {"add", "submit"}
                 /\ req'[s].ds = req'[t].ds)
    BY <1>0, <1>1, <2>1 DEF OrphanInv, Guarded
  <2> QED BY <2>2, <2>3 DEF Guarded, Live
<1> QED BY <1>4, <1>5 DEF OrphanInv

LEMMA OrphanNext ==
  ASSUME Base, OrphanInv, [Next]_vars
  PROVE  OrphanInv'
<1>0. ASSUME Answered PROVE OrphanInv'
  BY <1>0 DEF Answered, OrphanInv, NoOrphans, Guarded, Live
<1>1. ASSUME UNCHANGED vars PROVE OrphanInv'
  BY <1>0, <1>1 DEF vars, Answered
<1>2. ASSUME Next PROVE OrphanInv'
  <2>1. PICK r \in Requests :
           \/ Client(r)
           \/ InsertDataset(r) \/ RenameDataset(r) \/ DropDataset(r) \/ DropProject(r)
           \/ ReadItem(r) \/ InsertItem(r) \/ WriteHash(r) \/ DropImage(r)
           \/ RegisterDerived(r) \/ SubmitWrite(r) \/ BuildSelect(r) \/ BuildSave(r)
           \/ Commit(r) \/ Abort(r)
    BY <1>2 DEF Next
  <2>2. ASSUME Still(r), ~req'[r].dirty PROVE OrphanInv'
    BY <2>2, AdmittedOrphan DEF Admitted
  <2>3. CASE Blank(r)
    BY <2>2, <2>3 DEF Blank, Quiet
  <2>4. ASSUME NEW d \in Datasets, DeleteDataset(r, d) PROVE OrphanInv'
    <3>1. Quiet(r) /\ ~req'[r].dirty
      BY <2>4, OpenDeleteDataset
    <3> QED BY <2>2, <3>1 DEF Quiet
  <2>5. ASSUME NEW i \in images, DeleteImage(r, i) PROVE OrphanInv'
    <3>1. Quiet(r) /\ ~req'[r].dirty
      BY <2>5, OpenDeleteImage
    <3> QED BY <2>2, <3>1 DEF Quiet
  <2>6. ASSUME NEW d \in Datasets, req' # req,
               SubmitRead(r, d) \/ \E force \in BOOLEAN : BuildRead(r, d, force)
        PROVE  OrphanInv'
    <3>1. Quiet(r) /\ ~req'[r].dirty
      BY <2>6, OpenStamp
    <3> QED BY <2>2, <3>1 DEF Quiet
  <2>7. CASE BuildSave(r)
    BY <2>2, <2>7, BuildSaveStill, IdleState
  <2>8. CASE Commit(r)
    <3>1. CASE db = "postgres"
      BY <1>2, <2>8, <3>1, BaseNext, OrphanCommit
    <3>2. CASE db # "postgres"
      <4>1. db' = db
        BY <2>8, CommitParts
      <4> QED BY <3>2, <4>1 DEF OrphanInv, NoOrphans, Guarded
    <3> QED BY <3>1, <3>2
  <2> QED BY <1>0, <2>1, <2>3, <2>4, <2>5, <2>6, <2>7, <2>8, Cases, OrphanQuiet
<1> QED BY <1>1, <1>2

\* No image and no reconstruction outlives its dataset and no dataset its project, in a
\* database that enforces foreign keys: the service's own reads, which are stale when it
\* writes, are covered by the locks of the rows it refers to.
THEOREM NothingOrphaned == Spec => []NoOrphans
<1>1. Init => Base /\ OrphanInv
  <2> SUFFICES ASSUME Init PROVE OrphanInv
    BY BaseInit
  <2>1. \A r \in Requests : ~req[r].dirty
    BY DEF Init, Idle
  <2> QED BY <2>1 DEF Init, OrphanInv, NoOrphans, Guarded, Live
<1>2. (Base /\ OrphanInv) /\ [Next]_vars => (Base /\ OrphanInv)'
  BY BaseNext, OrphanNext
<1>3. OrphanInv => NoOrphans
  BY DEF OrphanInv
<1> QED BY <1>1, <1>2, <1>3, PTL DEF Spec

-----------------------------------------------------------------------------
(* sqlite: the hash of a dataset is that of its images. *)

ManifestInv == ManifestCurrent /\ OneWriter

\* A session that has written is the only one, and has the hash of what it leaves.
Sole(r) ==
    LET q == req'[r]
    IN  db = "sqlite" /\ q.dirty =>
          /\ \A s \in Requests \ {r} : ~req[s].dirty
          /\ q.op = "add" => q.hash = Manifest(q.ds, images \union q.adds)
          /\ q.op = "rm" => q.hash = Manifest(q.ds, images \ q.dels)

LEMMA SoleManifest ==
  ASSUME Base, ManifestInv, NEW r \in Requests, Still(r), Sole(r)
  PROVE  ManifestInv'
<1>1. /\ db' = db /\ dataset' = dataset /\ images' = images
      /\ \A s \in Requests \ {r} : req'[s] = req[s]
  BY DEF Still, Base, Typed
<1>2. ManifestCurrent'
  BY <1>1 DEF ManifestInv, ManifestCurrent, Live, Manifest, Of
<1>3. OneWriter'
  <2> SUFFICES ASSUME db = "sqlite"
               PROVE  /\ \A s, t \in Requests : req'[s].dirty /\ req'[t].dirty => s = t
                      /\ \A s \in Requests : req'[s].dirty =>
                           /\ req'[s].op = "add" =>
                                req'[s].hash = Manifest(req'[s].ds, images \union req'[s].adds)
                           /\ req'[s].op = "rm" =>
                                req'[s].hash = Manifest(req'[s].ds, images \ req'[s].dels)
    BY <1>1 DEF OneWriter, Manifest, Of
  <2>1. /\ \A s, t \in Requests : req[s].dirty /\ req[t].dirty => s = t
        /\ \A s \in Requests : req[s].dirty =>
             /\ req[s].op = "add" => req[s].hash = Manifest(req[s].ds, images \union req[s].adds)
             /\ req[s].op = "rm" => req[s].hash = Manifest(req[s].ds, images \ req[s].dels)
    BY DEF ManifestInv, OneWriter
  <2> QED BY <1>1, <2>1 DEF Sole
<1> QED BY <1>2, <1>3 DEF ManifestInv

\* The write lock of sqlite.
LEMMA LockHeld ==
  ASSUME Base, NEW r \in Requests, db = "sqlite",
         WriteLock(r)
  PROVE  \A s \in Requests \ {r} : ~req[s].dirty
BY WritersOpen DEF WriteLock, Writing

LEMMA KeepsLock ==
  ASSUME ManifestInv, NEW r \in Requests, db = "sqlite", req[r].dirty
  PROVE  /\ \A s \in Requests \ {r} : ~req[s].dirty
         /\ req[r].op = "add" => req[r].hash = Manifest(req[r].ds, images \union req[r].adds)
         /\ req[r].op = "rm" => req[r].hash = Manifest(req[r].ds, images \ req[r].dels)
BY DEF ManifestInv, OneWriter

LEMMA ManifestQuiet ==
  ASSUME Base, ManifestInv, NEW r \in Requests,
         \/ InsertDataset(r) \/ RenameDataset(r) \/ DropDataset(r) \/ DropProject(r)
         \/ ReadItem(r) \/ InsertItem(r) \/ WriteHash(r) \/ DropImage(r)
         \/ RegisterDerived(r) \/ SubmitWrite(r) \/ BuildSelect(r)
  PROVE  ManifestInv'
<1>0. ASSUME Blank(r) PROVE ManifestInv'
  BY <1>0, SoleManifest DEF Blank, Quiet, Sole
<1>9. ASSUME Quiet(r), Sole(r) PROVE ManifestInv'
  BY <1>9, SoleManifest DEF Quiet
<1>1. CASE InsertDataset(r) \/ RenameDataset(r) \/ DropProject(r)
  <2>1. Blank(r) \/ (/\ Quiet(r) /\ WriteLock(r)
                     /\ req'[r].op \in {"mkdir", "patch", "rmproject"})
    BY <1>1, WriteRow
  <2>2. ~Blank(r) => Sole(r)
    BY <2>1, LockHeld DEF Sole
  <2> QED BY <1>0, <1>9, <2>1, <2>2
<1>2. CASE DropDataset(r)
  <2>1. Quiet(r) /\ WriteLock(r) /\ req'[r].op = "rmdir"
    BY <1>2, DropDatasetQuiet
  <2>2. Sole(r)
    BY <2>1, LockHeld DEF Sole
  <2> QED BY <1>9, <2>1, <2>2
<1>3. CASE ReadItem(r)
  <2>1. Blank(r) \/ (/\ Quiet(r) /\ req'[r].dirty = req[r].dirty
                     /\ req'[r].op = "add" /\ req[r].op = "add" /\ req'[r].ds = req[r].ds
                     /\ req'[r].hash = req[r].hash /\ req'[r].adds = req[r].adds)
    BY <1>3, ReadItemQuiet
  <2>2. ~Blank(r) => Sole(r)
    BY <2>1, KeepsLock DEF Sole
  <2> QED BY <1>0, <1>9, <2>1, <2>2
<1>4. CASE InsertItem(r)
  <2>1. Blank(r) \/ (/\ Quiet(r) /\ WriteLock(r) /\ SameRows(r) /\ req'[r].op = "add"
                     /\ req'[r].hash = Manifest(req[r].ds, images \union req'[r].adds))
    BY <1>4, InsertItemQuiet
  <2>2. ~Blank(r) => Sole(r)
    BY <2>1, LockHeld DEF Sole, SameRows
  <2> QED BY <1>0, <1>9, <2>1, <2>2
<1>5. CASE WriteHash(r)
  <2>1. /\ Quiet(r) /\ SameRows(r) /\ req[r].dirty /\ req'[r].op \in {"add", "rm"}
        /\ req'[r].adds = req[r].adds /\ req'[r].dels = req[r].dels
        /\ req'[r].hash = req[r].hash
    BY <1>5, WriteHashQuiet
  <2>2. Sole(r)
    BY <2>1, KeepsLock DEF Sole, SameRows
  <2> QED BY <1>9, <2>1, <2>2
<1>6. CASE DropImage(r)
  <2>1. /\ Quiet(r) /\ SameRows(r) /\ WriteLock(r) /\ req'[r].op = "rm"
        /\ req'[r].dels = req[r].dels
        /\ req'[r].hash = Manifest(req[r].ds, images \ req[r].dels)
    BY <1>6, DropImageQuiet
  <2>2. Sole(r)
    BY <2>1, LockHeld DEF Sole, SameRows
  <2> QED BY <1>9, <2>1, <2>2
<1>7. CASE RegisterDerived(r)
  <2>1. Blank(r) \/ (Quiet(r) /\ WriteLock(r) /\ req'[r].op = "derive")
    BY <1>7, RegisterDerivedQuiet
  <2>2. ~Blank(r) => Sole(r)
    BY <2>1, LockHeld DEF Sole
  <2> QED BY <1>0, <1>9, <2>1, <2>2
<1>8. CASE SubmitWrite(r) \/ BuildSelect(r)
  <2>1. Blank(r) \/ (Quiet(r) /\ ((WriteLock(r) /\ req'[r].op = "submit") \/ ~req'[r].dirty))
    BY <1>8, SelectQuiet
  <2>2. ~Blank(r) => Sole(r)
    BY <2>1, LockHeld DEF Sole
  <2> QED BY <1>0, <1>9, <2>1, <2>2
<1> QED BY <1>1, <1>2, <1>3, <1>4, <1>5, <1>6, <1>7, <1>8

\* What a commit does to the images of a dataset, on sqlite.
LEMMA ImagesAfter ==
  ASSUME Base, NEW r \in Requests, Commit(r), db = "sqlite"
  PROVE  LET p == req[r]
         IN  /\ images' = (images \ p.dels) \union Inserted(p)
             /\ \A d \in Datasets :
                  (\A i \in Inserted(p) \union p.dels : i.ds # d) =>
                    Of(d, images') = Of(d, images) /\ Manifest(d, images') = Manifest(d, images)
             /\ \A i \in Inserted(p) \union p.dels : i.ds = p.ds
<1> DEFINE p == req[r]
<1>1. /\ images' = (images \ (p.dels \union Cascaded(r))) \union Inserted(p) /\ Shape(p)
  BY CommitParts
<1>2. Cascaded(r) = {}
  BY DEF Cascaded
<1>3. images' = (images \ p.dels) \union Inserted(p)
  BY <1>1, <1>2
<1>4. \A i \in Inserted(p) \union p.dels : i.ds = p.ds
  BY <1>1 DEF Shape, Inserted
<1>5. ASSUME NEW d \in Datasets, \A i \in Inserted(p) \union p.dels : i.ds # d
      PROVE  Of(d, images') = Of(d, images)
  BY <1>3, <1>5 DEF Of
<1> QED BY <1>3, <1>4, <1>5 DEF Manifest

LEMMA ManifestCommit ==
  ASSUME Base, ManifestInv, NEW r \in Requests, Commit(r)
  PROVE  ManifestInv'
<1> DEFINE p == req[r]
<1>0. /\ db' = db /\ req' = [req EXCEPT ![r] = Idle] /\ Shape(p) /\ p.dirty
      /\ p.op \in {"mkdir", "patch", "rmdir", "rmproject", "add", "rm", "derive", "submit"}
      /\ p.op \in {"mkdir", "patch", "derive"} => p.row \in DatasetRow
      /\ p.op \notin {"add", "derive"} => Inserted(p) = {}
      /\ p \in SessionState
  BY CommitParts
<1> SUFFICES ASSUME db = "sqlite" PROVE ManifestInv'
  BY <1>0 DEF ManifestInv, ManifestCurrent, OneWriter
<1>1. OneWriter'
  <2>1. \A s \in Requests : ~req'[s].dirty
    BY <1>0, KeepsLock, IdleState DEF Base, Typed
  <2> QED BY <2>1 DEF OneWriter
<1>2. ASSUME NEW d \in Datasets, dataset'[d] \notin {None, Gone}
      PROVE  \/ dataset'[d].hash = Manifest(d, images')
             \/ dataset'[d].hash = NoHash /\ Of(d, images') = {}
  <2>0. images' = (images \ p.dels) \union Inserted(p)
    BY ImagesAfter
  <2>1. CASE (\A i \in Inserted(p) \union p.dels : i.ds # d) /\ dataset[d] \notin {None, Gone}
             /\ dataset'[d].hash = dataset[d].hash
    BY <2>1, ImagesAfter DEF ManifestInv, ManifestCurrent, Live
  <2>2. ASSUME d # p.ds
        PROVE  \A i \in Inserted(p) \union p.dels : i.ds # d
    BY <2>2, ImagesAfter
  <2>3. CASE p.op = "rmproject" \/ (d # p.ds)
    <3>1. dataset'[d] = dataset[d]
      BY <2>3, DatasetAfter
    <3>2. p.op = "rmproject" => Inserted(p) \union p.dels = {}
      BY <1>0 DEF Shape
    <3> QED BY <1>2, <2>1, <2>2, <2>3, <3>1, <3>2
  <2>4. CASE d = p.ds /\ p.op \in {"mkdir", "derive"}
    <3>1. Of(d, images) = {} /\ p.dels = {}
      BY <1>0, <2>4 DEF Base, Named, Newborn, Of, Shape
    <3>2. CASE p.op = "mkdir"
      BY <1>0, <2>0, <2>4, <3>1, <3>2, DatasetAfter DEF Shape
    <3>3. CASE p.op = "derive"
      <4>1. dataset'[d] = [p.row EXCEPT !.hash = p.hash] /\ p.row \in DatasetRow
        BY <1>0, <2>4, <3>3, DatasetAfter
      <4>2. dataset'[d].hash = p.hash /\ p.hash = Manifest(d, p.adds)
        BY <1>0, <2>4, <3>3, <4>1 DEF DatasetRow, Shape
      <4>3. Inserted(p) = p.adds
        BY <3>3 DEF Inserted
      <4>4. Of(d, images') = Of(d, p.adds)
        BY <2>0, <3>1, <4>3 DEF Of
      <4> QED BY <4>2, <4>4 DEF Manifest
    <3> QED BY <2>4, <3>2, <3>3
  <2>5. CASE d = p.ds /\ p.op \in {"patch", "submit"}
    <3>1. Inserted(p) \union p.dels = {}
      BY <1>0, <2>5 DEF Shape
    <3>2. dataset[d] \notin {None, Gone} /\ dataset[d] \in DatasetRow
      BY <1>2, <2>5, DatasetAfter DEF Live, Base, Typed
    <3>3. dataset'[d].hash = dataset[d].hash
      BY <2>5, <3>2, DatasetAfter DEF Live, DatasetRow
    <3> QED BY <2>1, <3>1, <3>2, <3>3
  <2>6. CASE d = p.ds /\ p.op \in {"add", "rm"}
    <3>1. dataset[d] \notin {None, Gone} /\ dataset[d] \in DatasetRow
      BY <1>2, <2>6, DatasetAfter DEF Live, Base, Typed
    <3>2. dataset'[d].hash = p.hash
      BY <2>6, <3>1, DatasetAfter DEF Live, DatasetRow
    <3>3. /\ p.op = "add" => p.hash = Manifest(d, images \union p.adds)
          /\ p.op = "rm" => p.hash = Manifest(d, images \ p.dels)
      BY <1>0, <2>6, KeepsLock
    <3>4. p.op = "add" => images' = images \union p.adds
      BY <1>0, <2>0 DEF Shape, Inserted
    <3>5. p.op = "rm" => images' = images \ p.dels
      BY <1>0, <2>0
    <3> QED BY <2>6, <3>2, <3>3, <3>4, <3>5
  <2>7. CASE d = p.ds /\ p.op = "rmdir"
    BY <1>2, <2>7, DatasetAfter
  <2> QED BY <1>0, <2>3, <2>4, <2>5, <2>6, <2>7
<1> QED BY <1>1, <1>2 DEF ManifestInv, ManifestCurrent, Live

LEMMA ManifestNext ==
  ASSUME Base, ManifestInv, [Next]_vars
  PROVE  ManifestInv'
<1>0. ASSUME Answered PROVE ManifestInv'
  BY <1>0 DEF Answered, ManifestInv, ManifestCurrent, OneWriter, Live, Manifest, Of
<1>1. ASSUME UNCHANGED vars PROVE ManifestInv'
  BY <1>0, <1>1 DEF vars, Answered
<1>2. ASSUME Next PROVE ManifestInv'
  <2>1. PICK r \in Requests :
           \/ Client(r)
           \/ InsertDataset(r) \/ RenameDataset(r) \/ DropDataset(r) \/ DropProject(r)
           \/ ReadItem(r) \/ InsertItem(r) \/ WriteHash(r) \/ DropImage(r)
           \/ RegisterDerived(r) \/ SubmitWrite(r) \/ BuildSelect(r) \/ BuildSave(r)
           \/ Commit(r) \/ Abort(r)
    BY <1>2 DEF Next
  <2>2. ASSUME Still(r), ~req'[r].dirty PROVE ManifestInv'
    BY <2>2, SoleManifest DEF Sole
  <2>3. CASE Blank(r)
    BY <2>2, <2>3 DEF Blank, Quiet
  <2>4. ASSUME NEW d \in Datasets, DeleteDataset(r, d) PROVE ManifestInv'
    <3>1. Quiet(r) /\ ~req'[r].dirty
      BY <2>4, OpenDeleteDataset
    <3> QED BY <2>2, <3>1 DEF Quiet
  <2>5. ASSUME NEW i \in images, DeleteImage(r, i) PROVE ManifestInv'
    <3>1. Quiet(r) /\ ~req'[r].dirty
      BY <2>5, OpenDeleteImage
    <3> QED BY <2>2, <3>1 DEF Quiet
  <2>6. ASSUME NEW d \in Datasets, req' # req,
               SubmitRead(r, d) \/ \E force \in BOOLEAN : BuildRead(r, d, force)
        PROVE  ManifestInv'
    <3>1. Quiet(r) /\ ~req'[r].dirty
      BY <2>6, OpenStamp
    <3> QED BY <2>2, <3>1 DEF Quiet
  <2>7. CASE BuildSave(r)
    BY <2>2, <2>7, BuildSaveStill, IdleState
  <2>8. CASE Commit(r)
    BY <2>8, ManifestCommit
  <2> QED BY <1>0, <2>1, <2>3, <2>4, <2>5, <2>6, <2>7, <2>8, Cases, ManifestQuiet
<1> QED BY <1>1, <1>2

LEMMA ManifestStart == Init => ManifestInv
<1> SUFFICES ASSUME Init PROVE ManifestInv
  OBVIOUS
<1>1. \A r \in Requests : ~req[r].dirty
  BY DEF Init, Idle
<1> QED BY <1>1 DEF Init, ManifestInv, ManifestCurrent, OneWriter, Live

\* On sqlite the manifest hash of a dataset is that of its images: the hash is computed
\* from what the writing transaction sees, and no other writer commits before it does.
THEOREM ManifestsCurrent == Spec => []ManifestCurrent
<1>1. (Base /\ ManifestInv) /\ [Next]_vars => (Base /\ ManifestInv)'
  BY BaseNext, ManifestNext
<1>2. ManifestInv => ManifestCurrent
  BY DEF ManifestInv
<1> QED BY <1>1, <1>2, BaseInit, ManifestStart, PTL DEF Spec

-----------------------------------------------------------------------------
(* sqlite: what is stamped with a hash is what the hash stands for. *)

StampInv ==
    /\ StampsHonest
    /\ Stamping
    /\ \E S : index \in [Datasets -> S]

\* What session r stamps, or is about to.
Stamped(r) ==
    LET q == req'[r]
    IN  db = "sqlite" /\ q.ds \notin raced' =>
          /\ q.pc \in {"submit", "build"} =>
               \/ q.hash = Manifest(q.ds, images)
               \/ q.hash = NoHash /\ Of(q.ds, images) = {}
          /\ q.pc = "save" \/ (q.pc = "commit" /\ q.op = "submit") =>
               q.hash = Manifest(q.ds, q.adds)

LEMMA StampedStill ==
  ASSUME Base, Stamping, NEW r \in Requests, Still(r), Stamped(r)
  PROVE  Stamping'
<1>1. /\ db' = db /\ images' = images /\ raced \subseteq raced'
      /\ \A s \in Requests \ {r} : req'[s] = req[s]
  BY DEF Still, Base, Typed
<1> SUFFICES ASSUME db = "sqlite", NEW s \in Requests, req'[s].ds \notin raced'
             PROVE  /\ req'[s].pc \in {"submit", "build"} =>
                         \/ req'[s].hash = Manifest(req'[s].ds, images)
                         \/ req'[s].hash = NoHash /\ Of(req'[s].ds, images) = {}
                    /\ req'[s].pc = "save" \/ (req'[s].pc = "commit" /\ req'[s].op = "submit") =>
                         req'[s].hash = Manifest(req'[s].ds, req'[s].adds)
  BY <1>1 DEF Stamping, Manifest, Of
<1>2. CASE s = r
  BY <1>2 DEF Stamped
<1>3. CASE s # r
  <2>1. req[s].ds \notin raced /\ req'[s] = req[s]
    BY <1>1, <1>3
  <2> QED BY <2>1 DEF Stamping
<1> QED BY <1>2, <1>3

LEMMA StampedQuiet ==
  ASSUME Base, StampInv, NEW r \in Requests, Quiet(r), Stamped(r)
  PROVE  StampInv'
<1>1. /\ db' = db /\ index' = index /\ plans' = plans /\ raced \subseteq raced'
  BY DEF Quiet, Still
<1>2. StampsHonest'
  BY <1>1 DEF StampInv, StampsHonest, Manifest, Of
<1> QED BY <1>1, <1>2, StampedStill DEF StampInv, Quiet

LEMMA StampQuiet ==
  ASSUME Base, StampInv, NEW r \in Requests,
         \/ InsertDataset(r) \/ RenameDataset(r) \/ DropDataset(r) \/ DropProject(r)
         \/ ReadItem(r) \/ InsertItem(r) \/ WriteHash(r) \/ DropImage(r)
         \/ RegisterDerived(r) \/ SubmitWrite(r) \/ BuildSelect(r)
  PROVE  StampInv'
<1>0. ASSUME Blank(r) PROVE StampInv'
  BY <1>0, StampedQuiet DEF Blank, Stamped
<1>9. ASSUME Quiet(r), req'[r].pc \notin {"submit", "build", "save"},
             req'[r].op # "submit" \/ req'[r].pc # "commit"
      PROVE  StampInv'
  BY <1>9, StampedQuiet DEF Stamped
<1>1. CASE InsertDataset(r) \/ RenameDataset(r) \/ DropProject(r)
  <2>1. Blank(r) \/ (/\ Quiet(r) /\ req'[r].pc = "commit"
                     /\ req'[r].op \in {"mkdir", "patch", "rmproject"})
    BY <1>1, WriteRow
  <2> QED BY <1>0, <1>9, <2>1
<1>2. CASE DropDataset(r)
  <2>1. Quiet(r) /\ req'[r].pc = "commit" /\ req'[r].op = "rmdir"
    BY <1>2, DropDatasetQuiet
  <2> QED BY <1>9, <2>1
<1>3. CASE ReadItem(r)
  <2>1. Blank(r) \/ (Quiet(r) /\ req'[r].pc = "item")
    BY <1>3, ReadItemQuiet
  <2> QED BY <1>0, <1>9, <2>1
<1>4. CASE InsertItem(r)
  <2>1. Blank(r) \/ (Quiet(r) /\ req'[r].pc = "hash")
    BY <1>4, InsertItemQuiet
  <2> QED BY <1>0, <1>9, <2>1
<1>5. CASE WriteHash(r)
  <2>1. Quiet(r) /\ req'[r].pc \in {"read", "commit"} /\ req'[r].op \in {"add", "rm"}
    BY <1>5, WriteHashQuiet
  <2> QED BY <1>9, <2>1
<1>6. CASE DropImage(r)
  <2>1. Quiet(r) /\ req'[r].pc = "hash"
    BY <1>6, DropImageQuiet
  <2> QED BY <1>9, <2>1
<1>7. CASE RegisterDerived(r)
  <2>1. Blank(r) \/ (Quiet(r) /\ req'[r].pc = "commit" /\ req'[r].op = "derive")
    BY <1>7, RegisterDerivedQuiet
  <2> QED BY <1>0, <1>9, <2>1
<1>8. CASE SubmitWrite(r) \/ BuildSelect(r)
  <2>1. Blank(r) \/ (/\ Quiet(r) /\ UNCHANGED <<raced, nextId>> /\ SameRows(r)
                     /\ req'[r].hash = req[r].hash
                     /\ Of(req[r].ds, images) # {} /\ req'[r].adds = Of(req[r].ds, images)
                     /\ \/ req[r].pc = "submit" /\ req'[r].pc = "commit"
                        \/ req[r].pc = "build" /\ req'[r].pc = "save")
    BY <1>8, SelectQuiet
  <2>2. ASSUME ~Blank(r) PROVE Stamped(r)
    <3>1. db = "sqlite" /\ req[r].ds \notin raced => req[r].hash = Manifest(req[r].ds, images)
      BY <2>1, <2>2 DEF StampInv, Stamping
    <3>2. Manifest(req[r].ds, req'[r].adds) = Manifest(req[r].ds, images)
      BY <2>1, <2>2 DEF Manifest, Of
    <3> QED BY <2>1, <2>2, <3>1, <3>2 DEF Stamped, SameRows
  <2> QED BY <1>0, <2>1, <2>2, StampedQuiet
<1> QED BY <1>1, <1>2, <1>3, <1>4, <1>5, <1>6, <1>7, <1>8

LEMMA StampSave ==
  ASSUME Base, StampInv, NEW r \in Requests, BuildSave(r)
  PROVE  StampInv'
<1> DEFINE p == req[r]
           x == [hash |-> p.hash, of |-> p.adds]
<1>1. /\ Still(r) /\ raced' = raced /\ req'[r] = Idle /\ p.pc = "save" /\ p.ds \in Datasets
      /\ index' = [index EXCEPT ![p.ds] = x] /\ db' = db /\ plans' = plans
  BY BuildSaveStill DEF Still
<1>2. Stamping'
  <2>1. Stamped(r)
    BY <1>1, IdleState DEF Stamped
  <2> QED BY <1>1, <2>1, StampedStill DEF StampInv
<1>3. PICK S : index \in [Datasets -> S]
  BY DEF StampInv
<1>4. index' \in [Datasets -> S \union {x}]
  BY <1>1, <1>3
<1>5. db = "sqlite" /\ p.ds \notin raced => p.hash = Manifest(p.ds, p.adds)
  BY <1>1 DEF StampInv, Stamping
<1>6. StampsHonest'
  <2> SUFFICES ASSUME db = "sqlite"
               PROVE  /\ \A y \in plans : y.ds \notin raced => y.list = y.hash
                      /\ \A d \in Datasets \ raced :
                           index'[d] # None => Manifest(d, index'[d].of) = index'[d].hash
    BY <1>1 DEF StampsHonest, Manifest, Of
  <2>1. ASSUME NEW d \in Datasets \ raced, index'[d] # None
        PROVE  Manifest(d, index'[d].of) = index'[d].hash
    <3>1. CASE d = p.ds
      <4>1. index'[d] = x
        BY <1>1, <1>3, <3>1
      <4> QED BY <1>5, <3>1, <4>1
    <3>2. CASE d # p.ds
      <4>1. index'[d] = index[d]
        BY <1>1, <1>3, <3>2
      <4> QED BY <2>1, <4>1 DEF StampInv, StampsHonest
    <3> QED BY <3>1, <3>2
  <2> QED BY <2>1 DEF StampInv, StampsHonest
<1> QED BY <1>2, <1>4, <1>6 DEF StampInv

LEMMA StampCommit ==
  ASSUME Base, StampInv, NEW r \in Requests, Commit(r)
  PROVE  StampInv'
<1> DEFINE p == req[r]
           new == [ds |-> p.ds, hash |-> p.hash, list |-> Manifest(p.ds, p.adds)]
<1>0. /\ p.pc = "commit" /\ db' = db /\ index' = index /\ req' = [req EXCEPT ![r] = Idle]
      /\ raced' = raced
             \union {i.sha : i \in {j \in p.dels \union Cascaded(r) :
                                      j.kind = "upload" /\ j.sha \notin DOMAIN p.counts}}
             \union {d \in {i.ds : i \in Inserted(p) \union p.dels} :
                       \E s \in Others(r) : req[s].ds = d /\ req[s].pc \in {"submit", "build"}}
  BY CommitParts
<1>1. plans' = plans \union (IF p.op = "submit" THEN {new} ELSE {})
  BY DEF Commit
<1>2. /\ raced \subseteq raced' /\ req'[r] = Idle
      /\ \A s \in Requests \ {r} : req'[s] = req[s]
  BY <1>0 DEF Base, Typed
<1> SUFFICES ASSUME db = "sqlite" PROVE StampInv'
  BY <1>0 DEF StampInv, StampsHonest, Stamping
<1>3. StampsHonest'
  <2>1. ASSUME NEW x \in plans', x.ds \notin raced' PROVE x.list = x.hash
    <3>1. CASE x \in plans
      BY <1>2, <2>1, <3>1 DEF StampInv, StampsHonest
    <3>2. CASE p.op = "submit" /\ x = new
      BY <1>0, <1>2, <2>1, <3>2 DEF StampInv, Stamping
    <3> QED BY <1>1, <3>1, <3>2
  <2>2. ASSUME NEW d \in Datasets \ raced', index[d] # None
        PROVE  Manifest(d, index[d].of) = index[d].hash
    BY <1>2, <2>2 DEF StampInv, StampsHonest
  <2> QED BY <1>0, <2>1, <2>2 DEF StampsHonest, Manifest, Of
<1>4. Stamping'
  <2> SUFFICES ASSUME NEW s \in Requests, req'[s].ds \notin raced'
               PROVE  /\ req'[s].pc \in {"submit", "build"} =>
                           \/ req'[s].hash = Manifest(req'[s].ds, images')
                           \/ req'[s].hash = NoHash /\ Of(req'[s].ds, images') = {}
                      /\ req'[s].pc = "save" \/ (req'[s].pc = "commit" /\ req'[s].op = "submit") =>
                           req'[s].hash = Manifest(req'[s].ds, req'[s].adds)
    BY DEF Stamping, Manifest, Of
  <2>1. CASE s = r
    BY <1>2, <2>1, IdleState
  <2>2. CASE s # r
    <3>1. req'[s] = req[s] /\ req[s].ds \notin raced
      BY <1>2, <2>2
    <3>2. ASSUME req[s].pc \in {"submit", "build"}
          PROVE  Of(req[s].ds, images') = Of(req[s].ds, images)
                 /\ Manifest(req[s].ds, images') = Manifest(req[s].ds, images)
      <4>1. s \in Others(r) /\ req[s].ds \in Datasets
        BY <2>2, <3>2 DEF Others, Base, Shape
      <4>2. \A i \in Inserted(p) \union p.dels : i.ds # req[s].ds
        BY <1>0, <3>1, <3>2, <4>1
      <4> QED BY <4>1, <4>2, ImagesAfter
    <3> QED BY <3>1, <3>2 DEF StampInv, Stamping
  <2> QED BY <2>1, <2>2
<1> QED BY <1>0, <1>3, <1>4 DEF StampInv

LEMMA StampNext ==
  ASSUME Base, ManifestInv, StampInv, [Next]_vars
  PROVE  StampInv'
<1>0. ASSUME Answered PROVE StampInv'
  BY <1>0 DEF Answered, StampInv, StampsHonest, Stamping, Manifest, Of
<1>1. ASSUME UNCHANGED vars PROVE StampInv'
  BY <1>0, <1>1 DEF vars, Answered
<1>2. ASSUME Next PROVE StampInv'
  <2>1. PICK r \in Requests :
           \/ Client(r)
           \/ InsertDataset(r) \/ RenameDataset(r) \/ DropDataset(r) \/ DropProject(r)
           \/ ReadItem(r) \/ InsertItem(r) \/ WriteHash(r) \/ DropImage(r)
           \/ RegisterDerived(r) \/ SubmitWrite(r) \/ BuildSelect(r) \/ BuildSave(r)
           \/ Commit(r) \/ Abort(r)
    BY <1>2 DEF Next
  <2>2. ASSUME Quiet(r), req'[r].pc \notin {"submit", "build", "save", "commit"} PROVE StampInv'
    BY <2>2, StampedQuiet DEF Stamped
  <2>3. CASE Blank(r)
    BY <2>2, <2>3 DEF Blank
  <2>4. ASSUME NEW d \in Datasets, DeleteDataset(r, d) PROVE StampInv'
    <3>1. Quiet(r) /\ req'[r].pc = "rmdir"
      BY <2>4, OpenDeleteDataset
    <3> QED BY <2>2, <3>1
  <2>5. ASSUME NEW i \in images, DeleteImage(r, i) PROVE StampInv'
    <3>1. Quiet(r) /\ req'[r].pc = "rm"
      BY <2>5, OpenDeleteImage
    <3> QED BY <2>2, <3>1
  <2>6. ASSUME NEW d \in Datasets, req' # req,
               SubmitRead(r, d) \/ \E force \in BOOLEAN : BuildRead(r, d, force)
        PROVE  StampInv'
    <3>1. /\ Quiet(r) /\ req'[r].pc \in {"submit", "build"} /\ req'[r].ds = d /\ Live(d)
          /\ req'[r].hash = dataset[d].hash
      BY <2>6, OpenStamp
    <3>2. db = "sqlite" => \/ dataset[d].hash = Manifest(d, images)
                           \/ dataset[d].hash = NoHash /\ Of(d, images) = {}
      BY <3>1 DEF ManifestInv, ManifestCurrent
    <3>3. Stamped(r)
      BY <3>1, <3>2 DEF Stamped
    <3> QED BY <3>1, <3>3, StampedQuiet
  <2>7. CASE BuildSave(r)
    BY <2>7, StampSave
  <2>8. CASE Commit(r)
    BY <2>8, StampCommit
  <2> QED BY <1>0, <2>1, <2>3, <2>4, <2>5, <2>6, <2>7, <2>8, Cases, StampQuiet
<1> QED BY <1>1, <1>2

LEMMA StampStart == Init => StampInv
<1> SUFFICES ASSUME Init PROVE StampInv
  OBVIOUS
<1>1. \A r \in Requests : req[r].pc = "idle"
  BY DEF Init, Idle
<1>2. index \in [Datasets -> {None}] /\ plans = {}
  BY DEF Init
<1>3. \A d \in Datasets : index[d] = None
  BY <1>2
<1> QED BY <1>1, <1>2, <1>3 DEF StampInv, StampsHonest, Stamping

\* On sqlite a worker's image list and a similarity index hold exactly the images that the
\* manifest hash they carry stands for, unless a commit changed the images of the dataset
\* between the reading of the hash and the reading of the images.
THEOREM HonestStamps == Spec => []StampsHonest
<1>1. (Base /\ ManifestInv /\ StampInv) /\ [Next]_vars => (Base /\ ManifestInv /\ StampInv)'
  BY BaseNext, ManifestNext, StampNext
<1>2. StampInv => StampsHonest
  BY DEF StampInv
<1> QED BY <1>1, <1>2, BaseInit, ManifestStart, StampStart, PTL DEF Spec

-----------------------------------------------------------------------------
(* The counts of blobs. *)

CountInv == RefcountExact /\ Counting

LEMMA CountedLater ==
  ASSUME NEW q, NEW b, NEW imgs, NEW cnt, NEW rc, NEW rc2, NEW nx \in Nat, NEW nx2 \in Nat,
         Counted(q, b, imgs, cnt, rc, nx), rc \subseteq rc2, nx <= nx2, q \in SessionState
  PROVE  Counted(q, b, imgs, cnt, rc2, nx2)
<1>1. \A i \in Using(b, q.adds) : i.id \in Nat
  BY BoundsAssumption DEF SessionState, ImageRow, Using
<1>2. q.op = "add" => \A i \in Using(b, q.adds) : i.id < nx2
  BY <1>1 DEF Counted
<1> QED BY <1>2 DEF Counted

\* A session that carries no image and no count has nothing to account for.
LEMMA NothingToCount ==
  ASSUME NEW q, NEW b, NEW imgs, NEW cnt, NEW rc, NEW nx,
         DOMAIN q.counts = {}, Pending(q, b) = 0,
         q.op \in {"add", "derive"} => Using(b, q.adds) = {}
  PROVE  Counted(q, b, imgs, cnt, rc, nx)
BY DEF Counted

\* Session r has counted, and only counted what nobody else is counting.
Tallied(r) ==
    /\ \A b \in Blobs : Counted(req'[r], b, images, refs, raced', nextId')
    /\ \A s \in Requests \ {r} : DOMAIN req'[r].counts \intersect DOMAIN req[s].counts \subseteq raced'
    /\ \A s \in Requests \ {r} : req'[r].op = "add" /\ req[s].op = "add" =>
         \A b \in Blobs : Using(b, req'[r].adds) \intersect Using(b, req[s].adds) = {}

LEMMA TalliedStill ==
  ASSUME Base, Base', CountInv, NEW r \in Requests, Still(r), nextId <= nextId', Tallied(r)
  PROVE  CountInv'
<1>1. /\ images' = images /\ refs' = refs /\ raced \subseteq raced'
      /\ nextId \in Nat /\ nextId' \in Nat
      /\ \A s \in Requests \ {r} : req'[s] = req[s]
      /\ \A s \in Requests : req[s] \in SessionState
  BY BoundsAssumption DEF Still, Base, Typed
<1>2. RefcountExact'
  BY <1>1 DEF CountInv, RefcountExact
<1>3. ASSUME NEW b \in Blobs, NEW i \in Using(b, images) PROVE i.id < nextId'
  <2>1. i.id \in Nat
    BY BoundsAssumption DEF Base, Typed, ImageRow, Using
  <2>2. i.id < nextId
    BY DEF CountInv, Counting
  <2> QED BY <1>1, <2>1, <2>2
<1>4. ASSUME NEW s \in Requests, NEW b \in Blobs
      PROVE  Counted(req'[s], b, images, refs, raced', nextId')
  <2>1. CASE s = r
    BY <2>1 DEF Tallied
  <2>2. CASE s # r
    <3>1. Counted(req[s], b, images, refs, raced, nextId)
      BY DEF CountInv, Counting
    <3> QED BY <1>1, <2>2, <3>1, CountedLater
  <2> QED BY <2>1, <2>2
<1>5. ASSUME NEW s \in Requests, NEW t \in Requests, s # t
      PROVE  /\ DOMAIN req'[s].counts \intersect DOMAIN req'[t].counts \subseteq raced'
             /\ req'[s].op = "add" /\ req'[t].op = "add" =>
                  \A b \in Blobs : Using(b, req'[s].adds) \intersect Using(b, req'[t].adds) = {}
  <2>1. CASE s = r
    BY <1>1, <1>5, <2>1 DEF Tallied
  <2>2. CASE t = r
    BY <1>1, <1>5, <2>2 DEF Tallied
  <2>3. CASE s # r /\ t # r
    BY <1>1, <1>5, <2>3 DEF CountInv, Counting
  <2> QED BY <2>1, <2>2, <2>3
<1>6. Counting'
  BY <1>1, <1>3, <1>4, <1>5 DEF Counting, Using
<1> QED BY <1>2, <1>6 DEF CountInv

\* A session that counts nothing, or what it had counted before.
LEMMA TalliedNone ==
  ASSUME NEW r \in Requests, DOMAIN req'[r].counts = {}, req'[r].pc # "item",
         \/ req'[r].adds = {}
         \/ req'[r].op \in {"submit", "build"}
         \/ req'[r].op = "derive" /\ \A b \in Blobs : Using(b, req'[r].adds) = {}
  PROVE  Tallied(r)
<1>1. ASSUME NEW b \in Blobs
      PROVE  /\ Pending(req'[r], b) = 0
             /\ req'[r].op \in {"add", "derive"} => Using(b, req'[r].adds) = {}
  BY DEF Pending, Using
<1>2. \A b \in Blobs : Counted(req'[r], b, images, refs, raced', nextId')
  BY <1>1, NothingToCount
<1> QED BY <1>1, <1>2 DEF Tallied, Using

LEMMA Exclusive ==
  ASSUME CountInv, NEW r \in Requests
  PROVE  /\ \A b \in Blobs : Counted(req[r], b, images, refs, raced, nextId)
         /\ \A s \in Requests \ {r} :
              /\ DOMAIN req[r].counts \intersect DOMAIN req[s].counts \subseteq raced
              /\ req[r].op = "add" /\ req[s].op = "add" =>
                   \A b \in Blobs : Using(b, req[r].adds) \intersect Using(b, req[s].adds) = {}
BY DEF CountInv, Counting

\* Who else has counted a blob is open, so that the auxiliary variable tells.
LEMMA NewCount ==
  ASSUME Base, NEW r \in Requests, NEW B \in SUBSET Blobs,
         raced' = raced \union RacedBlobs(r, B)
  PROVE  \A s \in Requests \ {r} : B \intersect DOMAIN req[s].counts \subseteq raced'
<1> SUFFICES ASSUME NEW s \in Requests \ {r}, NEW b \in B \intersect DOMAIN req[s].counts
             PROVE  b \in raced'
  OBVIOUS
<1>1. req[s].pc # "idle"
  BY DEF Base, Shape
<1> QED BY <1>1 DEF RacedBlobs, Others

\* The images of a dataset, or one of them, are among those that were counted.
LEMMA Fewer ==
  ASSUME Base, CountInv, NEW b \in Blobs, b \notin raced, NEW S \in SUBSET Using(b, images)
  PROVE  /\ IsFiniteSet(S) /\ Cardinality(S) \in Nat /\ refs[b] \in Nat
         /\ refs[b] = Cardinality(Using(b, images)) /\ Cardinality(S) <= refs[b]
<1>1. IsFiniteSet(Using(b, images)) /\ refs[b] \in Nat
  BY DEF Base, Typed, Proper
<1>2. refs[b] = Cardinality(Using(b, images))
  BY DEF CountInv, RefcountExact, Using
<1> QED BY <1>1, <1>2, FS_Subset, FS_CardinalityType

LEMMA TalliedDeleteDataset ==
  ASSUME Base, CountInv, NEW r \in Requests, NEW d \in Datasets, DeleteDataset(r, d)
  PROVE  Tallied(r)
<1> DEFINE used == {b \in Blobs : Using(b, Of(d, images)) # {}}
           n(b) == Cardinality(Using(b, Of(d, images)))
<1>1. /\ raced' = raced \union RacedBlobs(r, used)
      /\ req'[r].pc = "rmdir" /\ req'[r].op = "rmdir" /\ req'[r].ds = d
      /\ DOMAIN req'[r].counts = used
      /\ \A b \in used : req'[r].counts[b] = IF refs[b] > n(b) THEN refs[b] - n(b) ELSE 0
  BY OpenDeleteDataset
<1>2. \A s \in Requests \ {r} : used \intersect DOMAIN req[s].counts \subseteq raced'
  <2>1. used \in SUBSET Blobs
    OBVIOUS
  <2> HIDE DEF used
  <2> QED BY <1>1, <2>1, NewCount
<1>3. ASSUME NEW b \in Blobs, b \in used, b \notin raced'
      PROVE  /\ Using(b, Of(d, images)) \subseteq images
             /\ req'[r].counts[b] + n(b) = refs[b]
  <2>1. Using(b, Of(d, images)) \subseteq Using(b, images)
    BY DEF Using, Of
  <2>2. n(b) \in Nat /\ refs[b] \in Nat /\ n(b) <= refs[b]
    BY <1>1, <1>3, <2>1, Fewer
  <2>3. req'[r].counts[b] = refs[b] - n(b)
    BY <1>1, <1>3, <2>2
  <2> QED BY <2>1, <2>2, <2>3 DEF Using
<1>4. ASSUME NEW b \in Blobs PROVE Counted(req'[r], b, images, refs, raced', nextId')
  <2>1. Pending(req'[r], b) = 0 /\ Leaving(req'[r], b, images) = Using(b, Of(d, images))
    BY <1>1 DEF Pending, Leaving
  <2> HIDE DEF used
  <2> QED BY <1>1, <1>3, <2>1 DEF Counted
<1> QED BY <1>1, <1>2, <1>4 DEF Tallied

LEMMA TalliedDeleteImage ==
  ASSUME Base, CountInv, NEW r \in Requests, NEW i \in images, DeleteImage(r, i)
  PROVE  Tallied(r)
<1> DEFINE used == {i.sha} \intersect Blobs
<1>1. /\ raced' = raced \union RacedBlobs(r, used)
      /\ req'[r].pc = "rm" /\ req'[r].op = "rm" /\ req'[r].dels = {i}
      /\ DOMAIN req'[r].counts = used
      /\ \A b \in used : req'[r].counts[b] = IF refs[b] > 0 THEN refs[b] - 1 ELSE 0
  BY OpenDeleteImage
<1>2. \A s \in Requests \ {r} : used \intersect DOMAIN req[s].counts \subseteq raced'
  <2>1. used \in SUBSET Blobs
    OBVIOUS
  <2> HIDE DEF used
  <2> QED BY <1>1, <2>1, NewCount
<1>3. ASSUME NEW b \in Blobs, b \in used, b \notin raced'
      PROVE  /\ Using(b, {i}) \subseteq images
             /\ req'[r].counts[b] + Cardinality(Using(b, {i})) = refs[b]
  <2>1. Using(b, {i}) = {i} /\ {i} \subseteq Using(b, images)
    BY <1>3 DEF Using
  <2>2. refs[b] \in Nat /\ 1 <= refs[b] /\ Cardinality({i}) = 1
    BY <1>1, <1>3, <2>1, Fewer, FS_Singleton
  <2>3. req'[r].counts[b] = refs[b] - 1
    BY <1>1, <1>3, <2>2
  <2>4. Cardinality(Using(b, {i})) = 1
    BY <2>1, <2>2
  <2>5. Using(b, {i}) \subseteq images
    BY <2>1
  <2>6. (refs[b] - 1) + 1 = refs[b]
    BY <2>2
  <2>7. req'[r].counts[b] + Cardinality(Using(b, {i})) = refs[b]
    BY <2>3, <2>4, <2>6
  <2> QED BY <2>5, <2>7
<1>4. ASSUME NEW b \in Blobs PROVE Counted(req'[r], b, images, refs, raced', nextId')
  <2>1. Pending(req'[r], b) = 0 /\ Leaving(req'[r], b, images) = Using(b, {i})
    BY <1>1 DEF Pending, Leaving
  <2>2. /\ req'[r].op = "rm" /\ DOMAIN req'[r].counts = used
    BY <1>1
  <2>3. b \in used /\ b \notin raced' =>
          /\ Using(b, {i}) \subseteq images
          /\ req'[r].counts[b] + Cardinality(Using(b, {i})) = refs[b]
    BY <1>3
  <2> HIDE DEF used
  <2> QED BY <2>1, <2>2, <2>3 DEF Counted
<1> QED BY <1>1, <1>2, <1>4 DEF Tallied

LEMMA TalliedRead ==
  ASSUME Base, CountInv, NEW r \in Requests, ReadItem(r), ~Blank(r)
  PROVE  Tallied(r)
<1> DEFINE p == req[r]
           q == req'[r]
           b == Head(p.todo)[2]
<1>1. /\ nextId' = nextId /\ p.pc = "read" /\ q.pc = "item" /\ q.op = "add" /\ p.op = "add"
      /\ q.adds = p.adds /\ q.todo = p.todo
      /\ b \notin Blobs => q.counts = p.counts /\ raced' = raced
      /\ b \in Blobs =>
           /\ raced' = raced \union RacedBlobs(r, {b})
           /\ DOMAIN q.counts = DOMAIN p.counts \union {b}
           /\ q.counts[b] = (IF b \in DOMAIN p.counts THEN p.counts[b] ELSE refs[b]) + 1
           /\ \A c \in DOMAIN p.counts \ {b} : q.counts[c] = p.counts[c]
  BY ReadItemQuiet
<1>2. /\ refs \in [Blobs -> Nat] /\ Proper(p.adds) /\ DOMAIN p.counts \subseteq Blobs
  BY <1>1 DEF Base, Typed, Shape, SessionState, Counts
<1>3. ASSUME NEW c \in Blobs PROVE Counted(q, c, images, refs, raced', nextId')
  <2>0. /\ Counted(p, c, images, refs, raced, nextId)
        /\ Pending(p, c) = 0 /\ Pending(q, c) = IF c = b THEN 1 ELSE 0
        /\ raced \subseteq raced'
    BY <1>1, Exclusive DEF Pending
  <2>1. Cardinality(Using(c, p.adds)) \in Nat /\ refs[c] \in Nat
    BY <1>2, FS_CardinalityType DEF Proper
  <2>2. CASE c # b
    <3>1. /\ c \in DOMAIN q.counts <=> c \in DOMAIN p.counts
          /\ c \in DOMAIN p.counts => q.counts[c] = p.counts[c]
      BY <1>1, <1>2, <2>2
    <3> HIDE DEF p, q, b
    <3> QED BY <1>1, <2>0, <2>2, <3>1 DEF Counted
  <2>3. CASE c = b
    <3>1. /\ c \in DOMAIN q.counts
          /\ q.counts[c] = (IF c \in DOMAIN p.counts THEN p.counts[c] ELSE refs[c]) + 1
      BY <1>1, <2>3
    <3>2. c \notin raced' => q.counts[c] = refs[c] + Cardinality(Using(c, p.adds)) + 1
      <4> HIDE DEF p, q, b
      <4>1. CASE c \in DOMAIN p.counts
        BY <1>1, <2>0, <2>1, <3>1, <4>1 DEF Counted
      <4>2. CASE c \notin DOMAIN p.counts
        <5>1. Using(c, p.adds) = {}
          BY <1>1, <2>0, <4>2 DEF Counted
        <5> QED BY <2>1, <3>1, <4>2, <5>1, FS_EmptySet
      <4> QED BY <4>1, <4>2
    <3> HIDE DEF p, q, b
    <3> QED BY <1>1, <2>0, <2>3, <3>1, <3>2 DEF Counted
  <2> QED BY <2>2, <2>3
<1>4. ASSUME NEW s \in Requests \ {r}
      PROVE  DOMAIN q.counts \intersect DOMAIN req[s].counts \subseteq raced'
  <2>1. DOMAIN p.counts \intersect DOMAIN req[s].counts \subseteq raced
    BY Exclusive
  <2>2. b \in Blobs => {b} \intersect DOMAIN req[s].counts \subseteq raced'
    <3>1. b \in Blobs => {b} \in SUBSET Blobs
      OBVIOUS
    <3> HIDE DEF p, q, b
    <3> QED BY <1>1, <3>1, NewCount
  <2> HIDE DEF p, q, b
  <2> QED BY <1>1, <2>1, <2>2
<1> QED BY <1>1, <1>3, <1>4, Exclusive DEF Tallied

LEMMA TalliedInsert ==
  ASSUME Base, CountInv, NEW r \in Requests, InsertItem(r), ~Blank(r)
  PROVE  Tallied(r)
<1> DEFINE p == req[r]
           q == req'[r]
<1>1. /\ raced' = raced /\ q.counts = p.counts
      /\ nextId \in Nat /\ nextId' = nextId + 1
      /\ p.pc = "item" /\ q.pc = "hash" /\ q.op = "add" /\ p.op = "add"
  BY InsertItemQuiet DEF SameRows
<1>2. PICK img \in ImageRow : /\ img.id = nextId /\ img.sha = Head(p.todo)[2]
                              /\ q.adds = p.adds \union {img}
  BY InsertItemQuiet
<1>3. refs \in [Blobs -> Nat] /\ Proper(p.adds) /\ p.adds \subseteq ImageRow
  BY <1>1 DEF Base, Typed, Shape, SessionState
<1> HIDE DEF p, q
<1>4. ASSUME NEW c \in Blobs
      PROVE  /\ Counted(p, c, images, refs, raced, nextId)
             /\ \A i \in Using(c, images) : i.id < nextId
             /\ \A s \in Requests : req[s].op = "add" =>
                  \A i \in Using(c, req[s].adds) : i.id < nextId
  BY DEF CountInv, Counting, Counted, p
<1>5. ASSUME NEW c \in Blobs PROVE Counted(q, c, images, refs, raced', nextId')
  <2>1. Cardinality(Using(c, p.adds)) \in Nat /\ refs[c] \in Nat /\ IsFiniteSet(Using(c, p.adds))
    BY <1>3, FS_CardinalityType DEF Proper
  <2>2. Pending(q, c) = 0
    BY <1>1 DEF Pending
  <2>3. \A i \in Using(c, p.adds) : i.id \in Nat /\ i.id < nextId
    <3>1. \A i \in Using(c, p.adds) : i.id < nextId
      BY <1>1, <1>4 DEF Counted
    <3>2. \A i \in Using(c, p.adds) : i.id \in Nat
      BY <1>3, BoundsAssumption DEF Using, ImageRow
    <3> QED BY <3>1, <3>2
  <2>4. CASE img.sha # c
    <3>1. Using(c, q.adds) = Using(c, p.adds)
      BY <1>2, <2>4 DEF Using
    <3>2. Pending(p, c) = 0
      BY <1>2, <2>4 DEF Pending
    <3>3. \A i \in Using(c, q.adds) : i.id < nextId'
      BY <1>1, <2>3, <3>1
    <3> QED BY <1>1, <1>4, <2>2, <3>1, <3>2, <3>3 DEF Counted
  <2>5. CASE img.sha = c
    <3>1. Using(c, q.adds) = Using(c, p.adds) \union {img} /\ img \notin Using(c, p.adds)
      BY <1>1, <1>2, <2>3, <2>5 DEF Using
    <3>2. Cardinality(Using(c, q.adds)) = Cardinality(Using(c, p.adds)) + 1
      BY <2>1, <3>1, FS_AddElement
    <3>3. Pending(p, c) = 1
      BY <1>1, <1>2, <2>5 DEF Pending
    <3>4. \A i \in Using(c, q.adds) : i.id < nextId'
      BY <1>1, <1>2, <2>3, <3>1
    <3>5. img \notin images
      <4> SUFFICES ASSUME img \in images PROVE FALSE
        OBVIOUS
      <4>1. img.id < nextId
        BY <1>4, <2>5 DEF Using
      <4> QED BY <1>1, <1>2, <4>1
    <3>6. Using(c, q.adds) \intersect images = {}
      BY <1>1, <1>4, <3>1, <3>5 DEF Counted
    <3>7. c \in DOMAIN p.counts
      BY <1>4, <3>3 DEF Counted
    <3>8. c \notin raced => p.counts[c] = refs[c] + Cardinality(Using(c, p.adds)) + 1
      BY <1>1, <1>4, <3>3, <3>7 DEF Counted
    <3>9. c \notin raced => q.counts[c] = refs[c] + Cardinality(Using(c, q.adds)) + Pending(q, c)
      BY <1>1, <2>1, <2>2, <3>2, <3>8
    <3> QED BY <1>1, <2>2, <3>4, <3>6, <3>7, <3>9 DEF Counted
  <2> QED BY <2>4, <2>5
<1>6. ASSUME NEW s \in Requests \ {r}, req[s].op = "add", NEW c \in Blobs
      PROVE  Using(c, q.adds) \intersect Using(c, req[s].adds) = {}
  <2>1. Using(c, p.adds) \intersect Using(c, req[s].adds) = {}
    BY <1>1, <1>6, Exclusive DEF p
  <2>2. img \notin Using(c, req[s].adds)
    BY <1>1, <1>2, <1>4, <1>6
  <2> QED BY <1>2, <2>1, <2>2 DEF Using
<1>7. \A s \in Requests \ {r} : DOMAIN q.counts \intersect DOMAIN req[s].counts \subseteq raced'
  BY <1>1, Exclusive DEF p
<1> QED BY <1>5, <1>6, <1>7 DEF Tallied, q

\* A session that goes on with the counts it has.
LEMMA TalliedSame ==
  ASSUME Base, CountInv, NEW r \in Requests, raced' = raced, nextId' = nextId, SameRows(r),
         req'[r].adds = req[r].adds,
         req'[r].op = "rm" => req'[r].dels = req[r].dels,
         req'[r].pc # "item" /\ req[r].pc # "item",
         req'[r].pc = "commit" /\ req'[r].op = "rmdir" => req'[r].dels = Of(req[r].ds, images)
  PROVE  Tallied(r)
<1> DEFINE p == req[r]
           q == req'[r]
<1>1. q.op = p.op /\ q.ds = p.ds /\ q.counts = p.counts
  BY DEF SameRows
<1>2. ASSUME NEW b \in Blobs PROVE Counted(q, b, images, refs, raced', nextId')
  <2>1. Pending(q, b) = 0 /\ Pending(p, b) = 0
    BY DEF Pending
  <2>2. Leaving(q, b, images) = Leaving(p, b, images)
    BY <1>1 DEF Leaving
  <2>3. q.pc = "commit" /\ q.op = "rmdir" => Using(b, q.dels) = Leaving(q, b, images)
    BY <1>1 DEF Leaving
  <2>4. Counted(p, b, images, refs, raced, nextId)
    BY Exclusive
  <2> HIDE DEF p, q
  <2>5. q.adds = p.adds
    BY DEF p, q
  <2> QED BY <1>1, <2>1, <2>2, <2>3, <2>4, <2>5 DEF Counted
<1> QED BY <1>1, <1>2, Exclusive DEF Tallied

LEMMA CountQuiet ==
  ASSUME Base, Base', CountInv, NEW r \in Requests,
         \/ InsertDataset(r) \/ RenameDataset(r) \/ DropDataset(r) \/ DropProject(r)
         \/ ReadItem(r) \/ InsertItem(r) \/ WriteHash(r) \/ DropImage(r)
         \/ RegisterDerived(r) \/ SubmitWrite(r) \/ BuildSelect(r)
  PROVE  CountInv'
<1>0. ASSUME Blank(r) PROVE CountInv'
  <2>1. /\ Still(r) /\ nextId' = nextId /\ nextId \in Nat /\ req'[r].counts = NoCounts
        /\ req'[r].adds = {} /\ req'[r].pc # "item"
    BY <1>0, BoundsAssumption DEF Blank, Quiet, Base, Typed
  <2>2. Tallied(r)
    BY <2>1, NothingCounted, TalliedNone
  <2> QED BY <2>1, <2>2, TalliedStill
<1>9. ASSUME Quiet(r), nextId <= nextId', Tallied(r) PROVE CountInv'
  BY <1>9, TalliedStill DEF Quiet
<1>10. nextId \in Nat /\ nextId' \in Nat /\ Shape(req'[r]) /\ Shape(req[r])
  BY BoundsAssumption DEF Base, Typed
<1>1. CASE InsertDataset(r) \/ RenameDataset(r) \/ DropProject(r)
  <2>1. Blank(r) \/ (/\ Quiet(r) /\ nextId' = nextId /\ req'[r].pc = "commit"
                     /\ req'[r].op \in {"mkdir", "patch", "rmproject"})
    BY <1>1, WriteRow
  <2>2. ~Blank(r) => DOMAIN req'[r].counts = {} /\ req'[r].adds = {} /\ req'[r].pc # "item"
    BY <1>10, <2>1 DEF Shape
  <2> QED BY <1>0, <1>9, <1>10, <2>1, <2>2, TalliedNone
<1>2. CASE DropDataset(r)
  <2>1. /\ Quiet(r) /\ raced' = raced /\ nextId' = nextId /\ SameRows(r)
        /\ req'[r].pc = "commit" /\ req'[r].op = "rmdir" /\ req[r].op = "rmdir"
        /\ req'[r].adds = {} /\ req'[r].dels = Of(req[r].ds, images)
    BY <1>2, DropDatasetQuiet DEF SameRows
  <2>2. req[r].adds = {} /\ req[r].pc # "item"
    BY <1>10, <2>1 DEF Shape
  <2>3. Tallied(r)
    BY <2>1, <2>2, TalliedSame
  <2>4. nextId <= nextId'
    BY <1>10, <2>1
  <2> QED BY <1>9, <2>1, <2>3, <2>4
<1>3. CASE ReadItem(r)
  <2>1. Blank(r) \/ (Quiet(r) /\ nextId' = nextId)
    BY <1>3, ReadItemQuiet
  <2> QED BY <1>0, <1>3, <1>9, <1>10, <2>1, TalliedRead
<1>4. CASE InsertItem(r)
  <2>1. Blank(r) \/ (Quiet(r) /\ nextId' = nextId + 1)
    BY <1>4, InsertItemQuiet
  <2> QED BY <1>0, <1>4, <1>9, <1>10, <2>1, TalliedInsert
<1>5. CASE WriteHash(r)
  <2>1. /\ Quiet(r) /\ raced' = raced /\ nextId' = nextId /\ SameRows(r)
        /\ req'[r].pc \in {"read", "commit"} /\ req'[r].op \in {"add", "rm"} /\ req[r].pc = "hash"
        /\ req'[r].adds = req[r].adds /\ req'[r].dels = req[r].dels
    BY <1>5, WriteHashQuiet
  <2>3. Tallied(r)
    BY <2>1, TalliedSame
  <2>4. nextId <= nextId'
    BY <1>10, <2>1
  <2> QED BY <1>9, <2>1, <2>3, <2>4
<1>6. CASE DropImage(r)
  <2>1. /\ Quiet(r) /\ raced' = raced /\ nextId' = nextId /\ SameRows(r)
        /\ req'[r].pc = "hash" /\ req'[r].op = "rm" /\ req[r].op = "rm"
        /\ req'[r].adds = {} /\ req'[r].dels = req[r].dels
    BY <1>6, DropImageQuiet DEF SameRows
  <2>2. req[r].adds = {} /\ req[r].pc # "item"
    BY <1>10, <2>1 DEF Shape
  <2>3. Tallied(r)
    BY <2>1, <2>2, TalliedSame
  <2>4. nextId <= nextId'
    BY <1>10, <2>1
  <2> QED BY <1>9, <2>1, <2>3, <2>4
<1>7. CASE RegisterDerived(r)
  <2>1. Blank(r) \/ (/\ Quiet(r) /\ nextId <= nextId' /\ req'[r].pc = "commit"
                     /\ req'[r].op = "derive"
                     /\ \A b \in Blobs : Using(b, req'[r].adds) = {})
    BY <1>7, RegisterDerivedQuiet
  <2>2. ~Blank(r) => DOMAIN req'[r].counts = {} /\ req'[r].pc # "item"
    BY <1>10, <2>1 DEF Shape
  <2> QED BY <1>0, <1>9, <2>1, <2>2, TalliedNone
<1>8. CASE SubmitWrite(r) \/ BuildSelect(r)
  <2>1. Blank(r) \/ (/\ Quiet(r) /\ nextId' = nextId /\ req'[r].pc \in {"commit", "save"}
                     /\ req'[r].op \in {"submit", "build"})
    BY <1>8, SelectQuiet
  <2>2. ~Blank(r) => DOMAIN req'[r].counts = {} /\ req'[r].pc # "item"
    BY <1>10, <2>1 DEF Shape
  <2> QED BY <1>0, <1>9, <1>10, <2>1, <2>2, TalliedNone
<1> QED BY <1>1, <1>2, <1>3, <1>4, <1>5, <1>6, <1>7, <1>8

\* A commit that has not counted a blob leaves its images alone, or admits that it has not.
LEMMA Uncounted ==
  ASSUME Base, CountInv, NEW r \in Requests, Commit(r), NEW b \in Blobs, b \notin raced',
         b \notin DOMAIN req[r].counts
  PROVE  Using(b, images') = Using(b, images) /\ refs'[b] = refs[b]
<1> DEFINE p == req[r]
           lost == p.dels \union Cascaded(r)
<1>1. /\ images' = (images \ lost) \union Inserted(p)
      /\ refs' = [c \in Blobs |-> IF c \in DOMAIN p.counts THEN p.counts[c] ELSE refs[c]]
      /\ {i.sha : i \in {j \in lost : j.kind = "upload" /\ j.sha \notin DOMAIN p.counts}}
           \subseteq raced'
      /\ Shape(p) /\ (p.op \notin {"add", "derive"} => Inserted(p) = {})
  BY CommitParts
<1>2. Using(b, lost) = {}
  <2> SUFFICES ASSUME NEW i \in lost, i.sha = b PROVE FALSE
    BY DEF Using
  <2>1. i.kind = "upload"
    <3>1. CASE i \in p.dels
      BY <1>1, <3>1 DEF Shape
    <3>2. CASE i \in Cascaded(r)
      BY <3>2 DEF Cascaded, Base, Proper
    <3> QED BY <3>1, <3>2
  <2>2. i \in {j \in lost : j.kind = "upload" /\ j.sha \notin DOMAIN p.counts}
    BY <2>1
  <2>3. i.sha \in raced'
    BY <1>1, <2>2
  <2> QED BY <2>3
<1>3. Using(b, Inserted(p)) = {}
  <2>1. CASE p.op \in {"add", "derive"}
    <3>1. Inserted(p) = p.adds
      BY <2>1 DEF Inserted
    <3>2. Counted(p, b, images, refs, raced, nextId)
      BY Exclusive
    <3> QED BY <2>1, <3>1, <3>2 DEF Counted
  <2>2. CASE p.op \notin {"add", "derive"}
    BY <1>1, <2>2 DEF Using
  <2> QED BY <2>1, <2>2
<1>4. refs'[b] = refs[b]
  BY <1>1
<1> HIDE DEF p, lost
<1> QED BY <1>1, <1>2, <1>3, <1>4 DEF Using

LEMMA NotCascaded ==
  ASSUME Base, NEW r \in Requests, Commit(r), req[r].op \in {"add", "rm"}
  PROVE  Cascaded(r) = {}
<1> SUFFICES ASSUME NEW i \in images, Live(i.ds), CommitDatasets(r)[i.ds] = Gone PROVE FALSE
  BY DEF Cascaded
<1>1. PICK d \in Datasets : d = i.ds
  BY DEF Base, Typed, ImageRow
<1>2. Live(d)' /\ dataset' = CommitDatasets(r)
  BY <1>1, CommitParts, DatasetLives
<1> QED BY <1>1, <1>2 DEF Live

LEMMA GoneImages ==
  ASSUME Base, NEW r \in Requests, Commit(r), req[r].op = "rmdir"
  PROVE  \A i \in Cascaded(r) : i \in images /\ i.ds = req[r].ds
<1> SUFFICES ASSUME NEW i \in Cascaded(r), i.ds # req[r].ds PROVE FALSE
  BY DEF Cascaded
<1>1. PICK d \in Datasets : d = i.ds
  BY DEF Base, Typed, ImageRow, Cascaded
<1>2. Live(d)' /\ dataset' = CommitDatasets(r)
  BY <1>1, CommitParts, DatasetLives DEF Cascaded
<1> QED BY <1>1, <1>2 DEF Live, Cascaded

\* A commit that has counted a blob, alone, leaves the count of the images it leaves.
LEMMA CountedCommit ==
  ASSUME Base, CountInv, NEW r \in Requests, Commit(r), NEW b \in Blobs, b \notin raced',
         b \in DOMAIN req[r].counts
  PROVE  refs'[b] = Cardinality(Using(b, images'))
<1> DEFINE p == req[r]
           had == Using(b, images)
<1>1. /\ images' = (images \ (p.dels \union Cascaded(r))) \union Inserted(p)
      /\ refs' = [c \in Blobs |-> IF c \in DOMAIN p.counts THEN p.counts[c] ELSE refs[c]]
      /\ raced \subseteq raced'
      /\ Shape(p) /\ p.pc = "commit" /\ (p.op \notin {"add", "derive"} => Inserted(p) = {})
      /\ p.op \in {"add", "derive"} => Proper(p.adds)
  BY CommitParts
<1>2. refs'[b] = p.counts[b] /\ p.op \in {"add", "rm", "rmdir"} /\ b \notin raced
  BY <1>1 DEF Shape
<1>3. Counted(p, b, images, refs, raced, nextId) /\ Pending(p, b) = 0
  BY <1>1, Exclusive DEF Pending
<1>4. /\ IsFiniteSet(had) /\ Cardinality(had) \in Nat /\ refs[b] = Cardinality(had)
  BY <1>2, Fewer
<1>5. p.counts[b] \in Nat
  BY DEF Base, Typed, SessionState, Counts
<1>6. CASE p.op = "add"
  <2>1. images' = images \union p.adds
    BY <1>1, <1>6, NotCascaded DEF Shape, Inserted
  <2>2. Using(b, images') = had \union Using(b, p.adds)
    BY <2>1 DEF Using
  <2>3. had \intersect Using(b, p.adds) = {}
    BY <1>3, <1>6 DEF Counted, Using
  <2>4. IsFiniteSet(Using(b, p.adds)) /\ Cardinality(Using(b, p.adds)) \in Nat
    BY <1>1, <1>6, FS_CardinalityType DEF Proper
  <2>5. Cardinality(had \union Using(b, p.adds)) = Cardinality(had) + Cardinality(Using(b, p.adds)) - 0
    <3> DEFINE new == Using(b, p.adds)
    <3>1. had \intersect new = {} /\ IsFiniteSet(new)
      BY <2>3, <2>4
    <3> HIDE DEF had, new
    <3>2. Cardinality(had \union new) = Cardinality(had) + Cardinality(new) - Cardinality(had \intersect new)
      BY <1>4, <3>1, FS_Union
    <3>3. Cardinality(had \intersect new) = 0
      BY <3>1, FS_EmptySet
    <3>4. Cardinality(had \union new) = Cardinality(had) + Cardinality(new) - 0
      BY <3>2, <3>3
    <3> QED BY <3>4 DEF new
  <2>6. p.counts[b] = refs[b] + Cardinality(Using(b, p.adds)) + 0
    BY <1>2, <1>3, <1>6 DEF Counted
  <2> HIDE DEF had, p
  <2> QED BY <1>2, <1>4, <2>2, <2>4, <2>5, <2>6
<1>7. CASE p.op \in {"rm", "rmdir"}
  <2> DEFINE L == Leaving(p, b, images)
  <2>1. L \subseteq images /\ p.counts[b] + Cardinality(L) = refs[b]
    BY <1>2, <1>3, <1>7 DEF Counted
  <2>2. L \subseteq had
    BY <2>1 DEF Leaving, Using, Of
  <2>3. Using(b, images') = had \ L
    <3>1. CASE p.op = "rm"
      <4>1. images' = images \ p.dels /\ L = Using(b, p.dels)
        BY <1>1, <3>1, NotCascaded DEF Leaving
      <4> QED BY <4>1 DEF Using
    <3>2. CASE p.op = "rmdir"
      <4>1. Using(b, p.dels) = L /\ L = Using(b, Of(p.ds, images))
        BY <1>1, <1>2, <1>3, <3>2 DEF Counted, Leaving
      <4>2. Using(b, Cascaded(r)) \subseteq L
        BY <3>2, <4>1, GoneImages DEF Using, Of
      <4>3. images' = images \ (p.dels \union Cascaded(r))
        BY <1>1, <3>2
      <4> HIDE DEF p, L
      <4> QED BY <4>1, <4>2, <4>3 DEF Using
    <3> QED BY <1>7, <3>1, <3>2
  <2>4. had \intersect L = L /\ IsFiniteSet(L) /\ Cardinality(L) \in Nat
    BY <1>4, <2>2, FS_Subset, FS_CardinalityType
  <2>5. Cardinality(had \ L) = Cardinality(had) - Cardinality(L)
    <3> HIDE DEF had, L
    <3>1. Cardinality(had \ L) = Cardinality(had) - Cardinality(had \intersect L)
      BY <1>4, FS_Difference
    <3> QED BY <2>4, <3>1
  <2> HIDE DEF had, L, p
  <2> QED BY <1>2, <1>4, <1>5, <2>1, <2>3, <2>4, <2>5
<1> QED BY <1>2, <1>6, <1>7

\* The images of a blob after a commit are old ones, or those of a batch.
LEMMA ImagesOfBlob ==
  ASSUME Base, CountInv, NEW r \in Requests, Commit(r), NEW b \in Blobs, NEW i \in Using(b, images')
  PROVE  i \in Using(b, images) \/ (req[r].op = "add" /\ i \in Using(b, req[r].adds))
<1> DEFINE p == req[r]
<1>1. /\ images' = (images \ (p.dels \union Cascaded(r))) \union Inserted(p) /\ Shape(p)
      /\ p.op \notin {"add", "derive"} => Inserted(p) = {}
  BY CommitParts
<1>2. CASE i \in images
  BY <1>2 DEF Using
<1>3. CASE i \in Inserted(p)
  <2>1. i \in Using(b, p.adds) /\ p.op \in {"add", "derive"}
    BY <1>1, <1>3 DEF Using, Inserted
  <2>2. Counted(p, b, images, refs, raced, nextId)
    BY Exclusive
  <2>3. b \in DOMAIN p.counts
    BY <2>1, <2>2 DEF Counted
  <2> QED BY <1>1, <2>1, <2>3 DEF Shape
<1> QED BY <1>1, <1>2, <1>3 DEF Using

LEMMA CountCommit ==
  ASSUME Base, CountInv, NEW r \in Requests, Commit(r)
  PROVE  CountInv'
<1> DEFINE p == req[r]
<1>0. req' = [req EXCEPT ![r] = Idle] /\ nextId' = nextId /\ raced \subseteq raced'
  BY CommitParts
<1>1. req'[r] = Idle /\ \A s \in Requests \ {r} : req'[s] = req[s]
  BY <1>0 DEF Base, Typed
<1>2. DOMAIN Idle.counts = {} /\ Idle.op = "none" /\ Idle.adds = {} /\ Idle.pc = "idle"
  BY NothingCounted DEF Idle
<1>3. RefcountExact'
  <2> SUFFICES ASSUME NEW b \in Blobs, b \notin raced'
               PROVE  refs'[b] = Cardinality(Using(b, images'))
    BY DEF RefcountExact, Using
  <2>1. CASE b \in DOMAIN p.counts
    BY <2>1, CountedCommit
  <2>2. CASE b \notin DOMAIN p.counts
    <3>1. Using(b, images') = Using(b, images) /\ refs'[b] = refs[b]
      BY <2>2, Uncounted
    <3>2. refs[b] = Cardinality(Using(b, images))
      BY <1>0 DEF CountInv, RefcountExact, Using
    <3> QED BY <3>1, <3>2
  <2> QED BY <2>1, <2>2
<1>4. ASSUME NEW b \in Blobs, NEW i \in Using(b, images') PROVE i.id < nextId'
  <2>1. CASE i \in Using(b, images)
    BY <1>0, <2>1 DEF CountInv, Counting
  <2>2. CASE p.op = "add" /\ i \in Using(b, p.adds)
    <3>1. Counted(p, b, images, refs, raced, nextId)
      BY Exclusive
    <3> QED BY <1>0, <2>2, <3>1 DEF Counted
  <2> QED BY <2>1, <2>2, ImagesOfBlob
<1>5. ASSUME NEW s \in Requests, NEW b \in Blobs
      PROVE  Counted(req'[s], b, images', refs', raced', nextId')
  <2>1. CASE s = r
    <3>1. Pending(Idle, b) = 0
      BY <1>2 DEF Pending
    <3> QED BY <1>1, <1>2, <2>1, <3>1, NothingToCount
  <2>2. CASE s # r
    <3> DEFINE q == req[s]
    <3>1. req'[s] = q /\ Counted(q, b, images, refs, raced, nextId)
      BY <1>1, <2>2, Exclusive
    <3>2. q.op = "add" => Using(b, q.adds) \intersect images' = {}
      <4> SUFFICES ASSUME q.op = "add", NEW i \in Using(b, q.adds), i \in images' PROVE FALSE
        OBVIOUS
      <4>1. i \in Using(b, images')
        BY DEF Using
      <4>2. i \notin Using(b, images)
        BY <3>1 DEF Counted, Using
      <4>3. p.op = "add" => i \notin Using(b, p.adds)
        BY <2>2, Exclusive
      <4> QED BY <4>1, <4>2, <4>3, ImagesOfBlob
    <3>3. ASSUME b \in DOMAIN q.counts, b \notin raced'
          PROVE  /\ refs'[b] = refs[b] /\ Using(b, images') = Using(b, images)
                 /\ Leaving(q, b, images') = Leaving(q, b, images)
                 /\ Leaving(q, b, images) \subseteq images => Leaving(q, b, images) \subseteq images'
      <4>1. b \notin DOMAIN p.counts
        BY <1>0, <2>2, <3>3, Exclusive
      <4>2. refs'[b] = refs[b] /\ Using(b, images') = Using(b, images)
        BY <3>3, <4>1, Uncounted
      <4>3. Using(b, Of(q.ds, images')) = Using(b, Of(q.ds, images))
        BY <4>2 DEF Using, Of
      <4>4. Leaving(q, b, images') = Leaving(q, b, images)
        BY <4>3 DEF Leaving
      <4>5. \A i \in Leaving(q, b, images) : i.sha = b
        BY DEF Leaving, Using, Of
      <4> QED BY <4>2, <4>4, <4>5 DEF Using
    <3> HIDE DEF q
    <3> QED BY <1>0, <3>1, <3>2, <3>3 DEF Counted
  <2> QED BY <2>1, <2>2
<1>6. ASSUME NEW s \in Requests, NEW t \in Requests, s # t
      PROVE  /\ DOMAIN req'[s].counts \intersect DOMAIN req'[t].counts \subseteq raced'
             /\ req'[s].op = "add" /\ req'[t].op = "add" =>
                  \A b \in Blobs : Using(b, req'[s].adds) \intersect Using(b, req'[t].adds) = {}
  <2>1. CASE s = r \/ t = r
    BY <1>1, <1>2, <2>1
  <2>2. CASE s # r /\ t # r
    BY <1>0, <1>1, <1>6, <2>2 DEF CountInv, Counting
  <2> QED BY <2>1, <2>2
<1>7. Counting'
  BY <1>4, <1>5, <1>6 DEF Counting, Using
<1> QED BY <1>3, <1>7 DEF CountInv

LEMMA CountNext ==
  ASSUME Base, Base', CountInv, [Next]_vars
  PROVE  CountInv'
<1>0. ASSUME Answered PROVE CountInv'
  BY <1>0 DEF Answered, CountInv, RefcountExact, Counting, Using
<1>1. ASSUME UNCHANGED vars PROVE CountInv'
  BY <1>0, <1>1 DEF vars, Answered
<1>2. ASSUME Next PROVE CountInv'
  <2>0. nextId \in Nat
    BY BoundsAssumption DEF Base, Typed
  <2>1. PICK r \in Requests :
           \/ Client(r)
           \/ InsertDataset(r) \/ RenameDataset(r) \/ DropDataset(r) \/ DropProject(r)
           \/ ReadItem(r) \/ InsertItem(r) \/ WriteHash(r) \/ DropImage(r)
           \/ RegisterDerived(r) \/ SubmitWrite(r) \/ BuildSelect(r) \/ BuildSave(r)
           \/ Commit(r) \/ Abort(r)
    BY <1>2 DEF Next
  <2>2. ASSUME Still(r), nextId' = nextId, Tallied(r) PROVE CountInv'
    BY <2>0, <2>2, TalliedStill
  <2>3. CASE Blank(r)
    <3>1. /\ Still(r) /\ nextId' = nextId /\ req'[r].counts = NoCounts
          /\ req'[r].adds = {} /\ req'[r].pc # "item"
      BY <2>3 DEF Blank, Quiet
    <3> QED BY <2>2, <3>1, NothingCounted, TalliedNone
  <2>4. ASSUME NEW d \in Datasets, DeleteDataset(r, d) PROVE CountInv'
    <3>1. Still(r) /\ nextId' = nextId
      BY <2>4, OpenDeleteDataset DEF Quiet
    <3> QED BY <2>2, <2>4, <3>1, TalliedDeleteDataset
  <2>5. ASSUME NEW i \in images, DeleteImage(r, i) PROVE CountInv'
    <3>1. Quiet(r) /\ nextId' = nextId
      BY <2>5, OpenDeleteImage
    <3> QED BY <2>2, <2>5, <3>1, TalliedDeleteImage DEF Quiet
  <2>6. ASSUME NEW d \in Datasets, req' # req,
               SubmitRead(r, d) \/ \E force \in BOOLEAN : BuildRead(r, d, force)
        PROVE  CountInv'
    <3>1. /\ Quiet(r) /\ nextId' = nextId /\ req'[r].counts = NoCounts /\ req'[r].adds = {}
          /\ req'[r].pc \in {"submit", "build"}
      BY <2>6, OpenStamp
    <3>2. Tallied(r)
      BY <3>1, NothingCounted, TalliedNone
    <3> QED BY <2>2, <3>1, <3>2 DEF Quiet
  <2>7. CASE BuildSave(r)
    <3>1. Still(r) /\ nextId' = nextId /\ req'[r] = Idle
      BY <2>7, BuildSaveStill
    <3>2. DOMAIN Idle.counts = {} /\ Idle.adds = {} /\ Idle.pc # "item"
      BY NothingCounted DEF Idle
    <3> QED BY <2>2, <3>1, <3>2, TalliedNone
  <2>8. CASE Commit(r)
    BY <2>8, CountCommit
  <2> QED BY <1>0, <2>1, <2>3, <2>4, <2>5, <2>6, <2>7, <2>8, Cases, CountQuiet
<1> QED BY <1>1, <1>2

LEMMA CountStart == Init => CountInv
<1> SUFFICES ASSUME Init PROVE CountInv
  OBVIOUS
<1>1. images = {} /\ refs = [b \in Blobs |-> 0] /\ \A r \in Requests : req[r] = Idle
  BY DEF Init
<1>2. DOMAIN Idle.counts = {} /\ Idle.op = "none" /\ Idle.adds = {} /\ Idle.pc = "idle"
  BY NothingCounted DEF Idle
<1>3. RefcountExact
  <2>1. \A b \in Blobs : {i \in images : i.sha = b} = {} /\ refs[b] = 0
    BY <1>1
  <2> QED BY <2>1, FS_EmptySet DEF RefcountExact
<1>4. \A b \in Blobs : Counted(Idle, b, images, refs, raced, nextId)
  BY <1>2, NothingToCount DEF Pending
<1> QED BY <1>1, <1>2, <1>3, <1>4 DEF CountInv, Counting, Using

\* The count of a blob is the number of images that use it, in either database, for every
\* blob that two sessions were not counting at once and that no cascade took images from:
\* failed batches, deletions and rolled back sessions leave it exact.
THEOREM ExactCounts == Spec => []RefcountExact
<1>1. (Base /\ CountInv) /\ [Next]_vars => (Base /\ CountInv)'
  BY BaseNext, CountNext
<1>2. CountInv => RefcountExact
  BY DEF CountInv
<1> QED BY <1>1, <1>2, BaseInit, CountStart, PTL DEF Spec
=============================================================================
