------------------------------- MODULE Stages -------------------------------
(***************************************************************************)
(* The SfM stages: how a request becomes tasks with a cache key, and what  *)
(* those tasks read and write on disk.                                     *)
(*                                                                         *)
(* A submission reads the dataset row, then the image rows, finds or makes *)
(* the reconstruction of its settings, and builds the nodes of a DAG       *)
(* (services/_sfm_stage_*.py, api/v1/pipelines.py). A node whose key an    *)
(* earlier succeeded task has is answered from the cache; the others run   *)
(* in workers, which share the correspondence store and the live `sparse`  *)
(* directory of the reconstruction (workers/tasks/*.py, _io_match.py,      *)
(* _io_map.py). Leases, retries and roll-up are in Orchestrator; here a    *)
(* task starts, finishes or fails, and a failed one may be resumed.        *)
(*                                                                         *)
(* The manifest hash of a dataset is the set of its images; a setting is a *)
(* name; a resolved specification is a setting with its provider.          *)
(***************************************************************************)
EXTENDS CorrespondenceStore, Sequences

CONSTANTS Images,     \* image numbers
          Providers,  \* backends a stage can be routed to
          Bodies,     \* request bodies of the stage and recipe endpoints
          Ops,        \* reconstruction, dataset and project endpoints in use
          MaxTasks,   \* bound: task rows
          MaxJobs,    \* bound: submissions
          Uploaded,   \* the image sets the dataset may start with
          MaxEdits,   \* bound: dataset edits
          MaxFaults,  \* bound: attempts that stop part-way
          MaxSwitches,\* bound: routing profile changes
          MaxEvents   \* bound: the three together

\* The specifications of the features, of the recipes and of feed-forward mapping are
\* different schemas (FeaturesSpec has no `kind`, and PipelineSpec is discriminated by
\* it), and a resolved provider is a name.
FeatureSettings == {b.features : b \in {c \in Bodies : c.op = "features"}}
RecipeSettings == {b.map : b \in {c \in Bodies : c.op = "incremental"}}
FastSettings == {b.map : b \in {c \in Bodies : c.op = "feed_forward"}}

ASSUME SettingsAssumption ==
  /\ None \notin Providers
  /\ FeatureSettings \cap RecipeSettings = {} /\ FastSettings \cap RecipeSettings = {}

VARIABLES images,    \* images of the dataset
          priors,    \* version of the pose priors of the dataset
          provider,  \* the provider the routing profile names for each part
          pending,   \* the submission in progress and the manifest it read
          stores,    \* correspondence stores on disk, by their anchor
          recons,    \* reconstruction rows with what their directory holds
          tasks,     \* task rows, in order of insertion
          budget     \* edits, faults and switches so far

vars == <<images, priors, provider, pending, stores, recons, tasks, budget>>

\* What a provider is chosen for: the parts of a recipe, and any other stage.
Parts == {"features", "pairs", "matcher", "verify", "map", "other"}

EmptySpec == [of |-> None, provider |-> None]
----------------------------------------------------------------------------
(* Stage tables *)

\* _RECON_STAGES: the ones that also take the images and the feature database.
_RECON_STAGES == [bundle_adjust |-> FALSE, pose_graph_optimize |-> FALSE, export |-> FALSE,
                  triangulate |-> TRUE, relocalize |-> TRUE, undistort |-> TRUE]

\* _DATASET_DB_STAGES: stages over the database of the unnamed reconstruction.
_DATASET_DB_STAGES == {"vocab_tree", "configure_rig", "two_view"}

\* Stages that read `sparse` and seal what they make as a new snapshot.
Resealing == {"georegister", "to_cubemap", "merge_recons"}

\* Stages that read the live `sparse` of one reconstruction.
OfSparse == DOMAIN _RECON_STAGES \cup {"georegister", "to_cubemap", "localize"}

----------------------------------------------------------------------------
(* Keys *)

\* apply_provider_resolution: the provider is written into the specification.
apply_provider_resolution(part, setting) == [of |-> setting, provider |-> provider[part]]

reconstruction_database_path(r) == <<r, 0>>

\* The artifact roles that can name a database, with the tasks whose artifacts a role takes.
ROLE_TASKS == [features |-> {"extract"}, matches |-> {"match", "verify"}, verified_matches |-> {"verify"}]

\* Where an artifact of a task on a database leads: the uri of a backend of the first
\* generation is that very database, the uri of a sceneio one is a directory of its store
\* and leads to a store nested there, and a portable kind leads nowhere.
Leads(db) == {db, <<db[1], db[2] + 1>>, None}

\* The artifact of a role, if its uri is a database, stands in for the database of r.
database_path_from_input_artifacts(r, art, role) ==
  IF role \in DOMAIN art /\ art[role].uri # None THEN art[role].uri ELSE reconstruction_database_path(r)

\* The artifacts of a request are part of the inputs of its tasks, if it names any.
Attached(art) == IF DOMAIN art = {} THEN None ELSE art

StoreAt(anchor) == IF anchor \in DOMAIN stores THEN stores[anchor] ELSE EmptyStore

NoInputs == [recon |-> None, hash |-> None, mat |-> None, priors |-> None, db |-> None, extra |-> None]

\* Slips: a reconstruction found without its snapshot hash; a key with something of the
\* submission in it.
ensure_reconstruction_any_snapshot(hash, spec) == [of |-> {}, spec |-> spec]
\* ensure_reconstruction finds the row of a snapshot hash and a specification or
\* inserts it, so the pair is the identity of the row.
ensure_reconstruction(hash, spec) == [of |-> hash, spec |-> spec]

cache_key_per_job(n) == [job |-> n.job, kind |-> n.kind, inputs |-> n.inputs, spec |-> n.spec]
\* TaskNode.cache_key, over the hashes of the inputs and of the specification.
cache_key(n) == [kind |-> n.kind, inputs |-> n.inputs, spec |-> n.spec]

\* What the map task of a recipe and of feed_forward is keyed by.
map_inputs(r, mat, db, art) ==
  [NoInputs EXCEPT !.recon = r, !.mat = mat, !.db = db, !.priors = priors, !.extra = Attached(art)]

\* lookup_cached_task: a succeeded row with the key. Any of several may be the
\* one returned: copies made by the cache have no end time to order them by.
\* Rows that agree on the result are one choice; 0 is no row.
lookup_cached_task(n) ==
  LET hit == {i \in 1..Len(tasks) : /\ tasks[i].kind = n.kind /\ tasks[i].status = "succeeded"
                                    /\ cache_key(tasks[i]) = cache_key(n)}
  IN  IF hit = {} THEN {0}
      ELSE {i \in hit : \A j \in hit : j < i => tasks[j].result # tasks[i].result}

----------------------------------------------------------------------------
(* Nodes. `want` is what the request asks for (None where the request alone *)
(* does not say) and `read` the manifest its handler read first: neither is *)
(* in the code, both are kept to judge the result by.                       *)

NextJob == 1 + Len(SelectSeq(tasks, LAMBDA t : t.dep = 0))

\* The bound on submissions.  Requests alone read the dataset and the routing
\* profile: after the last of them a change of either is not worth following.
MoreToCome == NextJob <= MaxJobs

_stage_node(kind, inputs, spec, dep, want) ==
  [job |-> NextJob, kind |-> kind, inputs |-> inputs,
   spec |-> spec, dep |-> dep, status |-> "pending", seen |-> None, result |-> None, want |-> want,
   read |-> IF pending = None THEN None ELSE pending.hash]

Model(graph, p, names, spec) == [graph |-> graph, priors |-> p, names |-> names, spec |-> spec]

FeatureFiles(names, spec) == [i \in names |-> spec]

\* submit_features
FeaturesNodes(hash, b, art) ==
  LET spec == apply_provider_resolution("features", b.features)
      r == ensure_reconstruction(hash, spec)
  IN  <<_stage_node("extract",
          [NoInputs EXCEPT !.recon = r, !.hash = hash, !.mat = images, !.db = reconstruction_database_path(r),
                           !.extra = Attached(art)],
          spec, 0, FeatureFiles(images, spec))>>

\* _resolve_database_path: the unnamed reconstruction of the snapshot.
_resolve_database_path(hash) == ensure_reconstruction(hash, EmptySpec)

MatchSpec(b, again) ==
  [pairs |-> apply_provider_resolution("pairs", b.pairs), matcher |-> apply_provider_resolution("matcher", b.matcher),
   provider |-> IF again THEN provider["matcher"] ELSE None]

\* submit_matches and submit_verify: no image list among the inputs.
UnnamedInputs(hash, art, role) ==
  LET r == _resolve_database_path(hash)
  IN  [NoInputs EXCEPT !.recon = r, !.hash = hash, !.extra = Attached(art),
                       !.db = database_path_from_input_artifacts(r, art, role)]

MatchesNodes(hash, b, art) ==
  <<_stage_node("match", UnnamedInputs(hash, art, "features"), MatchSpec(b, FALSE), 0, None)>>

VerifyNodes(hash, b, art) ==
  <<_stage_node("verify", UnnamedInputs(hash, art, "matches"),
      apply_provider_resolution("verify", b.verify), 0, None)>>

\* build_recipe_dag: extract, match, verify and map over one store, unless the artifacts
\* of the request send the last three to another.
build_recipe_dag(hash, b, art) ==
  LET fs == apply_provider_resolution("features", b.features)
      vs == apply_provider_resolution("verify", b.verify)
      ms == apply_provider_resolution("map", b.map)
      r == ensure_reconstruction(hash, ms)
      common == [NoInputs EXCEPT !.recon = r, !.db = reconstruction_database_path(r), !.extra = Attached(art)]
      graph == Graph(images, fs, b.pairs, apply_provider_resolution("matcher", b.matcher), vs)
  IN  <<_stage_node("extract", [common EXCEPT !.mat = images], fs, 0, FeatureFiles(images, fs)),
        _stage_node("match", [common EXCEPT !.db = database_path_from_input_artifacts(r, art, "features")],
          MatchSpec(b, TRUE), 1, None),
        _stage_node("verify", [common EXCEPT !.db = database_path_from_input_artifacts(r, art, "matches")],
          vs, 2, None),
        _stage_node("map",
          map_inputs(r, images, database_path_from_input_artifacts(r, art, "verified_matches"), art),
          ms, 3, Model(graph, priors, images, ms))>>

\* build_feed_forward_dag: one map node, over the images alone.
build_feed_forward_dag(hash, b, art) ==
  LET ms == apply_provider_resolution("map", b.map)
      r == ensure_reconstruction(hash, ms)
  IN  <<_stage_node("map", map_inputs(r, images, reconstruction_database_path(r), art), ms, 0,
          Model(None, priors, images, ms))>>

----------------------------------------------------------------------------
(* Submissions *)

\* submit_job_dag: the rows of a job, the cached ones already succeeded.
submit_job_dag(nodes) ==
  LET found == [k \in 1..Len(nodes) |-> lookup_cached_task(nodes[k])]
  IN  /\ Len(tasks) + Len(nodes) <= MaxTasks /\ MoreToCome
      /\ \E got \in [1..Len(nodes) -> UNION {found[k] : k \in 1..Len(nodes)}] :
           /\ \A k \in 1..Len(nodes) : got[k] \in found[k]
           /\ tasks' = tasks \o [k \in 1..Len(nodes) |->
                         IF got[k] = 0 THEN nodes[k]
                         ELSE [nodes[k] EXCEPT !.status = "succeeded", !.result = tasks[got[k]].result]]

\* The row of every reconstruction the nodes belong to.
WithRecons(nodes) ==
  LET named == {n.inputs.recon : n \in {nodes[k] : k \in 1..Len(nodes)}} \ {None}
  IN  recons' = Over(recons, [r \in named |-> [sparse |-> None, latest |-> None]])

\* _validate_explicit_pairs: only POST /matches does it.
_validate_explicit_pairs(b) ==
  b.pairs.strategy = "explicit" /\ b.pairs.inline # None
    => \A p \in b.pairs.inline : p[1] # p[2] /\ p[1] \in images /\ p[2] \in images

\* The artifacts a request can pass in a role: those of the tasks that succeeded.
Artifacts(role) ==
  UNION {[task : {i}, uri : Leads(tasks[i].inputs.db)] :
           i \in {j \in 1..Len(tasks) : tasks[j].kind \in ROLE_TASKS[role] /\ tasks[j].status = "succeeded"}}

\* get_dataset, the first read of the handler of a stage or a recipe.
get_dataset(b) ==
  /\ pending = None /\ MoreToCome
  /\ \E art \in [b.roles -> UNION {Artifacts(role) : role \in b.roles}] :
       /\ \A role \in b.roles : art[role] \in Artifacts(role)
       /\ pending' = [hash |-> images, body |-> b, art |-> art]
  /\ UNCHANGED <<images, priors, provider, stores, recons, tasks, budget>>

\* The rest of the handler: refused, or a job.
Respond(op, valid, nodes) ==
  /\ pending # None
  /\ pending.body.op = op
  /\ pending' = None
  /\ IF valid THEN submit_job_dag(nodes) /\ WithRecons(nodes) ELSE UNCHANGED <<recons, tasks>>
  /\ UNCHANGED <<images, priors, provider, stores, budget>>

\* derive_materialization refuses a dataset without images; match and verify
\* do not call it.
derive_materialization == images # {}

features == Respond("features", derive_materialization, FeaturesNodes(pending.hash, pending.body, pending.art))
matches == Respond("matches", _validate_explicit_pairs(pending.body),
             MatchesNodes(pending.hash, pending.body, pending.art))
verify == Respond("verify", TRUE, VerifyNodes(pending.hash, pending.body, pending.art))
run_recipe == Respond("incremental", derive_materialization, build_recipe_dag(pending.hash, pending.body, pending.art))

\* run_pipeline: the flat chain of a recipe's steps is that recipe, and a single
\* mapping step over images is the feed-forward one.
run_legacy_sfm == Respond("incremental", derive_materialization, build_recipe_dag(pending.hash, pending.body, pending.art))
run_feed_forward ==
  Respond("feed_forward", derive_materialization, build_feed_forward_dag(pending.hash, pending.body, pending.art))

\* _submit_single_stage: a job of one task.
_submit_single_stage(op, nodes) ==
  /\ op \in Ops
  /\ submit_job_dag(nodes)
  /\ UNCHANGED <<images, priors, provider, pending, stores, recons, budget>>

\* _recon_stage_base: the inputs the stages over one reconstruction share.
_recon_stage_base(op, r) ==
  [NoInputs EXCEPT !.recon = r, !.db = IF _RECON_STAGES[op] THEN reconstruction_database_path(r) ELSE None]

\* _submit_recon_stage: where the stage needs images the dataset has some, and
\* has them in a directory (uploaded ones are refused).
_submit_recon_stage(op, r) ==
  /\ _RECON_STAGES[op] => images # {}
  /\ _submit_single_stage(op, <<_stage_node(op, _recon_stage_base(op, r),
                                  apply_provider_resolution("other", op), 0, recons[r].sparse)>>)

bundle_adjust(r) == _submit_recon_stage("bundle_adjust", r)
triangulate(r) == _submit_recon_stage("triangulate", r)
pose_graph_optimize(r) == _submit_recon_stage("pose_graph_optimize", r)
export(r) == _submit_recon_stage("export", r)
relocalize(r) == _submit_recon_stage("relocalize", r)
undistort(r) == _submit_recon_stage("undistort", r)

\* submit_localize, for one query image; submit_georegister; submit_to_cubemap;
\* submit_merge_recons of the target with another reconstruction. None of them
\* names the model it reads by anything but its directory.
submit_localize(r) ==
  <<_stage_node("localize", [NoInputs EXCEPT !.recon = r, !.extra = "query"],
      apply_provider_resolution("other", "localize"), 0, recons[r].sparse)>>
submit_georegister(r) ==
  <<_stage_node("georegister", [NoInputs EXCEPT !.recon = r],
      apply_provider_resolution("other", "georegister"), 0, recons[r].sparse)>>
submit_to_cubemap(r) ==
  <<_stage_node("to_cubemap", [NoInputs EXCEPT !.recon = r],
      apply_provider_resolution("other", "to_cubemap"), 0, recons[r].sparse)>>
submit_merge_recons(r, q) ==
  <<_stage_node("merge_recons", [NoInputs EXCEPT !.recon = r, !.extra = q],
      apply_provider_resolution("other", "merge_recons"), 0, recons[r].sparse)>>

localize(r) == _submit_single_stage("localize", submit_localize(r))
georegister(r) == _submit_single_stage("georegister", submit_georegister(r))
to_cubemap(r) == images # {} /\ _submit_single_stage("to_cubemap", submit_to_cubemap(r))
merge_recons_endpoint(r, q) == r # q /\ _submit_single_stage("merge_recons", submit_merge_recons(r, q))

\* _submit_dataset_db_stage: neither the images nor the manifest hash.
_submit_dataset_db_stage(op) ==
  LET r == _resolve_database_path(images)
      nodes == <<_stage_node(op, [NoInputs EXCEPT !.recon = r, !.db = reconstruction_database_path(r)],
                   apply_provider_resolution("other", op), 0, None)>>
  IN  /\ op \in Ops \cap _DATASET_DB_STAGES
      /\ submit_job_dag(nodes)
      /\ WithRecons(nodes)
      /\ UNCHANGED <<images, priors, provider, pending, stores, budget>>

build_vocab_tree == _submit_dataset_db_stage("vocab_tree")
configure_rig == _submit_dataset_db_stage("configure_rig")
estimate_two_view == _submit_dataset_db_stage("two_view")

\* submit_project_images (POST cubemap is one projection of it) and
\* submit_vlad_index, over the current images.
submit_project_images(op) ==
  <<_stage_node("project_images", [NoInputs EXCEPT !.mat = images],
      apply_provider_resolution("other", op), 0, images)>>
submit_vlad_index ==
  <<_stage_node("vlad_index", [NoInputs EXCEPT !.mat = images, !.hash = images],
      apply_provider_resolution("other", "vlad_index"), 0, images)>>

project_images == images # {} /\ _submit_single_stage("project_images", submit_project_images("project_images"))
render_cubemap == images # {} /\ _submit_single_stage("render_cubemap", submit_project_images("render_cubemap"))
build_vlad == images # {} /\ _submit_single_stage("vlad_index", submit_vlad_index)

\* Imports run no stage on the dataset. submit_video_frames and
\* submit_dataset_from_archive name a fresh directory, so no two submissions
\* share a key; submit_kapture_import does not.
submit_video_frames == <<_stage_node("video_frames", [NoInputs EXCEPT !.extra = Len(tasks)], EmptySpec, 0, None)>>
submit_dataset_from_archive ==
  <<_stage_node("import_archive", [NoInputs EXCEPT !.extra = Len(tasks)], EmptySpec, 0, None)>>
submit_kapture_import == <<_stage_node("kapture_import", [NoInputs EXCEPT !.extra = "archive"], EmptySpec, 0, None)>>

from_video == _submit_single_stage("video_frames", submit_video_frames)
from_archive == _submit_single_stage("import_archive", submit_dataset_from_archive)
import_kapture == _submit_single_stage("kapture_import", submit_kapture_import)

----------------------------------------------------------------------------
(* Workers *)

Classical(t) == t.spec.of \in RecipeSettings

Sparse(r) == IF r \in DOMAIN recons THEN recons[r].sparse ELSE None

\* What the handlers load before they work: the features (match), the raw
\* pairs (verify), the whole graph (map, unless the provider maps images
\* alone), one model (localize, georegister, the recon stages) or two (merge).
MatchLoads(t) == StoreAt(t.inputs.db).feat
VerifyLoads(t) == StoreAt(t.inputs.db).raw
MapLoads(t) == IF Classical(t) THEN load_correspondence_graph(StoreAt(t.inputs.db)) ELSE None
MergeLoads(t) == {Sparse(t.inputs.recon), Sparse(t.inputs.extra)}
ModelLoads(t) == Sparse(t.inputs.recon)
ImageLoads(t) == t.inputs.mat

Load(t) ==
  CASE t.kind = "match" -> MatchLoads(t)
    [] t.kind = "verify" -> VerifyLoads(t)
    [] t.kind = "map" -> MapLoads(t)
    [] t.kind = "merge_recons" -> MergeLoads(t)
    [] t.kind \in OfSparse -> ModelLoads(t)
    [] t.kind \in _DATASET_DB_STAGES -> StoreAt(t.inputs.db)
    [] t.kind \in {"project_images", "vlad_index"} -> ImageLoads(t)
    [] OTHER -> None

\* backend_for_stage of a match: pair selection and matcher of two backends.
OneBackend(t) == t.spec.pairs.provider = t.spec.matcher.provider

\* The checks a handler fails on: that one, no features to match, no
\* correspondences to map, no sparse model to read.
CanRun(t) ==
  CASE t.kind = "match" -> OneBackend(t) /\ DOMAIN MatchLoads(t) # {}
    [] t.kind = "map" -> Classical(t) => MapLoads(t) # None
    [] t.kind = "merge_recons" -> None \notin MergeLoads(t)
    [] t.kind \in OfSparse -> ModelLoads(t) # None
    [] OTHER -> TRUE

DepsDone(i) == tasks[i].dep # 0 => tasks[i - 1].status = "succeeded"

Start(i) ==
  /\ tasks[i].status = "pending" /\ DepsDone(i)
  /\ tasks' = [tasks EXCEPT ![i] = IF CanRun(@) THEN [@ EXCEPT !.status = "running", !.seen = Load(tasks[i])]
                                  ELSE [@ EXCEPT !.status = "failed"]]
  /\ UNCHANGED <<images, priors, provider, pending, stores, recons, budget>>

\* The store as the handler leaves it.
Written(t) ==
  LET store == StoreAt(t.inputs.db)
  IN  CASE t.kind = "extract" -> run_io_extract(store, t.inputs.mat, t.spec)
        [] t.kind = "match" -> run_io_match(store, t.seen, t.spec.pairs.of, t.spec.matcher)
        [] t.kind = "verify" -> run_io_verify(store, t.seen, t.spec)
        [] OTHER -> store

Stored(anchor, store) == stores' = Over([a \in {anchor} |-> store], stores)

\* The model a map task makes of what it loaded.
reconstruction_from_result(t) == Model(t.seen, t.inputs.priors, t.inputs.mat, t.spec)

\* project_images renders what it loaded into a directory named after the task,
\* localize poses its query in the model it loaded, the other stages over a
\* model write one of their own from it; the imports read nothing of the dataset.
ProjectedImages(t) == t.seen
Localized(t) == t.seen
Refined(t) == t.seen
Frames(t) == "done"
Unpacked(t) == "done"
Records(t) == "done"

\* What the task row keeps of the work.
Result(t) ==
  CASE t.kind = "extract" -> FeatureFiles(t.inputs.mat, t.spec)
    [] t.kind = "map" -> reconstruction_from_result(t)
    [] t.kind = "project_images" -> ProjectedImages(t)
    [] t.kind = "localize" -> Localized(t)
    [] t.kind \in DOMAIN _RECON_STAGES -> Refined(t)
    [] t.kind = "video_frames" -> Frames(t)
    [] t.kind = "import_archive" -> Unpacked(t)
    [] t.kind = "kapture_import" -> Records(t)
    [] t.kind \in {"match", "verify"} -> "done"
    [] OTHER -> t.seen

\* map writes the live `sparse` and seals it; the resealing stages seal what
\* they made of `sparse` and leave it alone; the other stages write to a
\* directory of their own.
Sealed(t) ==
  CASE t.kind = "map" -> [recons EXCEPT ![t.inputs.recon] = [sparse |-> Result(t), latest |-> Result(t)]]
    [] t.kind \in Resealing -> [recons EXCEPT ![t.inputs.recon].latest = [by |-> t.kind, of |-> t.seen]]
    [] OTHER -> recons

\* A handler that returns.
Finish(i) ==
  LET t == tasks[i]
  IN  /\ t.status = "running"
      /\ tasks' = [tasks EXCEPT ![i] = [@ EXCEPT !.status = "succeeded", !.seen = None, !.result = Result(t)]]
      /\ IF t.kind \in {"extract", "match", "verify"} THEN Stored(t.inputs.db, Written(t)) ELSE UNCHANGED stores
      /\ recons' = Sealed(t)
      /\ UNCHANGED <<images, priors, provider, pending, budget>>

\* A handler that stops part-way has written some of its files.
Spend(what, max) ==
  /\ budget[what] < max /\ budget.edits + budget.faults + budget.switches < MaxEvents
  /\ budget' = [budget EXCEPT ![what] = @ + 1]

Fail(i) ==
  LET t == tasks[i]
  IN  /\ t.status = "running" /\ Spend("faults", MaxFaults)
      /\ tasks' = [tasks EXCEPT ![i] = [@ EXCEPT !.status = "failed", !.seen = None]]
      /\ \/ UNCHANGED stores
         \/ /\ t.kind \in {"extract", "match", "verify"}
            /\ LET dir == CASE t.kind = "extract" -> "feat" [] t.kind = "match" -> "raw" [] OTHER -> "ver"
                   old == StoreAt(t.inputs.db)
                   new == Written(t)
               IN  \E some \in SUBSET DOMAIN new[dir] :
                     Stored(t.inputs.db, [old EXCEPT ![dir] = Over([x \in some |-> new[dir][x]], @)])
      /\ UNCHANGED <<images, priors, provider, pending, recons>>

Resume(i) ==
  /\ tasks[i].status = "failed"
  /\ tasks' = [tasks EXCEPT ![i] = [@ EXCEPT !.status = "pending"]]
  /\ UNCHANGED <<images, priors, provider, pending, stores, recons, budget>>

----------------------------------------------------------------------------
(* The dataset and the routing profile change meanwhile *)

Edit ==
  /\ MoreToCome /\ Spend("edits", MaxEdits)
  /\ \/ /\ \E i \in Images : images' = (images \ {i}) \cup ({i} \ images)
        /\ UNCHANGED priors
     \/ /\ priors' = priors + 1
        /\ UNCHANGED images
  /\ UNCHANGED <<provider, pending, stores, recons, tasks>>

Switch ==
  /\ MoreToCome /\ Spend("switches", MaxSwitches)
  /\ \E part \in Parts, p \in Providers : p # provider[part] /\ provider' = [provider EXCEPT ![part] = p]
  /\ UNCHANGED <<images, priors, pending, stores, recons, tasks>>

----------------------------------------------------------------------------
Init ==
  /\ images \in Uploaded
  /\ priors = 0
  /\ provider \in {[part \in Parts |-> p] : p \in Providers}
  /\ pending = None
  /\ stores = NoFiles
  /\ recons = NoFiles
  /\ tasks = <<>>
  /\ budget = [edits |-> 0, faults |-> 0, switches |-> 0]

Submit ==
  \/ \E b \in Bodies : get_dataset(b)
  \/ features \/ matches \/ verify \/ run_recipe \/ run_legacy_sfm \/ run_feed_forward
  \/ \E r \in DOMAIN recons :
       \/ bundle_adjust(r) \/ triangulate(r) \/ pose_graph_optimize(r)
       \/ export(r) \/ relocalize(r) \/ undistort(r)
       \/ localize(r) \/ georegister(r) \/ to_cubemap(r)
       \/ \E q \in DOMAIN recons : merge_recons_endpoint(r, q)
  \/ build_vocab_tree \/ configure_rig \/ estimate_two_view
  \/ project_images \/ render_cubemap \/ build_vlad
  \/ from_video \/ from_archive \/ import_kapture

Next ==
  \/ Submit
  \/ \E i \in 1..Len(tasks) : Start(i) \/ Finish(i) \/ Fail(i) \/ Resume(i)
  \/ Edit \/ Switch

Spec == Init /\ [][Next]_vars

----------------------------------------------------------------------------
(* Properties *)

\* Every variable has its type: a task that succeeded has an outcome, only a
\* running one holds what it loaded, and a reconstruction is named by tasks.
TypeOK ==
  /\ images \subseteq Images /\ priors \in 0..MaxEdits /\ provider \in [Parts -> Providers]
  /\ budget.edits \in 0..MaxEdits /\ budget.faults \in 0..MaxFaults /\ budget.switches \in 0..MaxSwitches
  /\ Len(tasks) <= MaxTasks
  /\ \A i \in 1..Len(tasks) :
       /\ tasks[i].status \in {"pending", "running", "succeeded", "failed"}
       /\ tasks[i].status = "succeeded" <=> tasks[i].result # None
       /\ tasks[i].status # "running" => tasks[i].seen = None
       /\ tasks[i].inputs.recon # None => tasks[i].inputs.recon \in DOMAIN recons
  /\ \A a \in DOMAIN stores : a[1] \in DOMAIN recons

Done == {i \in 1..Len(tasks) : tasks[i].status = "succeeded"}

MapsOf(r) == {i \in 1..Len(tasks) : tasks[i].inputs.recon = r /\ tasks[i].kind = "map"}

\* The recipes of a reconstruction agree on everything before mapping, and none
\* read its image list after the dataset had changed.
Agreeing(r) ==
  /\ \A i, j \in MapsOf(r) : tasks[i].dep = 3 /\ tasks[j].dep = 3 /\ i < j =>
       \A k \in 1..3 : tasks[i - k].spec = tasks[j - k].spec
  /\ \A i \in MapsOf(r) : tasks[i].inputs.mat = tasks[i].read

\* No artifact sends a stage of its recipes to another database, nor a stage of
\* another reconstruction to its own.
Undisturbed(r) ==
  /\ \A i \in MapsOf(r) : \A k \in 0..tasks[i].dep : tasks[i - k].inputs.db = reconstruction_database_path(r)
  /\ \A i \in 1..Len(tasks) :
       tasks[i].kind \in {"extract", "match", "verify"} /\ tasks[i].inputs.db = reconstruction_database_path(r)
         => tasks[i].inputs.recon = r

Uniform(r) == Agreeing(r) /\ Undisturbed(r)

\* Where the recipes of a reconstruction agree up to mapping and no request uses artifacts
\* to lead a stage out of its store or into it, every model is the one its request asks
\* for: no partial write of a failed attempt, no file of another snapshot and no
\* concurrent run of the same recipe shows in it, and pose priors set in between are
\* not ignored.
UniformSound ==
  \A i \in Done : tasks[i].kind = "map" /\ Uniform(tasks[i].inputs.recon)
                    => tasks[i].result = tasks[i].want

\* "Re-running with an identical spec hits the cache" (api/v1/sfm_stages.py): a
\* recipe whose settings, providers, images and priors are those of one that
\* succeeded starts no task, whatever ran in between.
RerunHits ==
  [][\A i \in Done, j \in (Len(tasks) + 1)..Len(tasks') :
       (/\ tasks[i].dep = 3 /\ tasks'[j].dep = 3
        /\ \A k \in 0..3 : /\ i - k \in Done /\ tasks[i - k].spec = tasks'[j - k].spec
                            /\ tasks[i - k].inputs = tasks'[j - k].inputs)
          => \A k \in 0..3 : tasks'[j - k].status = "succeeded"]_vars

----------------------------------------------------------------------------
(* What the documentation says and the code does not keep *)

\* "the cache key is the contract" (docs/guides/architecture.md): every task of
\* a recipe that succeeded, from the cache or not, answers its own request.
CacheSound == \A i \in Done : tasks[i].kind = "map" => tasks[i].result = tasks[i].want

\* A recipe whose artifacts keep every stage in its own store gets the model that it asks
\* for, whatever other requests do: not kept, for a verify request given the matches
\* artifact of that recipe verifies with its own settings into the same store.
KeptApart ==
  \A i \in Done : tasks[i].kind = "map" /\ Agreeing(tasks[i].inputs.recon)
                    /\ (\A j \in MapsOf(tasks[i].inputs.recon) : \A k \in 0..tasks[j].dep :
                          tasks[j - k].inputs.db = reconstruction_database_path(tasks[i].inputs.recon))
                    => tasks[i].result = tasks[i].want

\* "a single-stage submission and the same stage inside a recipe must produce the
\* same (inputs_hash, params_hash)" (_stage_node).
StageParity ==
  \A i, j \in 1..Len(tasks) :
    (/\ tasks[i].kind = "extract" /\ tasks[j].kind = "extract"
     /\ tasks[i].spec = tasks[j].spec /\ tasks[i].inputs.mat = tasks[j].inputs.mat)
      => cache_key(tasks[i]) = cache_key(tasks[j])

\* A cached export is an export of the model the reconstruction has now.
ExportCurrent ==
  [][\A j \in (Len(tasks) + 1)..Len(tasks') :
       tasks'[j].kind = "export" /\ tasks'[j].status = "succeeded" => tasks'[j].result = tasks'[j].want]_vars

\* "Requires features to have been extracted" (api/v1/sfm_stages.py, matches):
\* once they have been, for the images the dataset still has, matching them
\* does not fail for want of features.
FeaturesThenMatches ==
  [][\A i \in 1..Len(tasks) :
       (/\ tasks[i].kind = "match" /\ tasks[i].dep = 0 /\ tasks[i].status = "pending"
        /\ \E k \in Done : tasks[k].kind = "extract" /\ k < i /\ tasks[k].inputs.mat = tasks[i].read)
          => tasks'[i].status # "failed"]_vars

\* What a stage reads is the newest snapshot of the reconstruction.
LatestIsLive == \A r \in DOMAIN recons : recons[r].latest = recons[r].sparse

\* A reconstruction holds a model of the snapshot its row names.
SnapshotHonest == \A r \in DOMAIN recons : recons[r].sparse # None => recons[r].sparse.names = r.of
=============================================================================
