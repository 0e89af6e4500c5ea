----------------------------- MODULE Artifacts -----------------------------
(***************************************************************************)
(* Stage artifacts: the typed data products that jobs record, import and   *)
(* convert (services/artifact_service.py, artifact_conversion_service.py,  *)
(* workers/tasks/convert_artifact.py, orchestrator/janitor.py).            *)
(*                                                                         *)
(* A job has one task here. A worker holds the handler's local variables   *)
(* in run[j]; the rest is the database. A row is a completed descriptor    *)
(* with the job that recorded it, its place in the job's outputs, and the  *)
(* data set it belongs to; job and place are its identity.                 *)
(***************************************************************************)
EXTENDS Conversion

CONSTANTS
  Providers, Default,       \* the backends; the one SCENEAPI_BACKEND selects
  Contracts,                \* what each backend declares
  Implements,               \* the backends with a convert_artifact method
  Datasets,
  Names,                    \* of artifacts
  Imports,                  \* descriptors a client registers
  Outputs,                  \* sequences of descriptors a stage handler returns
  Answers,                  \* sequences of descriptors a backend's convert_artifact returns
  Requests,                 \* conversion requests
  MaxJobs, MaxCrashes, MaxRoutes, MaxPurges

JobIds == 1 .. MaxJobs

\* What a handler, a provider or an import says of an artifact: its source is a row,
\* format and type may be absent, and the format may be given in the metadata instead.
Descriptors(kinds) ==
  [name : Names, kind : kinds, format : Formats \cup {None}, meta : Formats \cup {None},
   type : Types \cup {None}, source : (JobIds \X Nat) \cup {None}, wellFormed : BOOLEAN]

\* The columns of a StageArtifact row: its job and place, its data set, its descriptor.
Ordinals == Nat \ {0}
RowType ==
  [job : JobIds, n : Ordinals, dataset : Datasets \cup {None}, name : Names, kind : Kinds,
   format : Formats \cup {None}, meta : Formats \cup {None}, type : Types \cup {None},
   source : (JobIds \X Nat) \cup {None}, wellFormed : BOOLEAN]

ASSUME ArtifactsAssumption ==
  /\ Default \in Providers /\ Implements \subseteq Providers
  /\ None \notin Providers \cup Datasets \cup RowType
  /\ Contracts \in [Providers -> Seq(ContractRows)]
  /\ {MaxJobs, MaxCrashes, MaxRoutes, MaxPurges} \subseteq Nat
  /\ {"a", "b"} \subseteq Names
  /\ Imports \subseteq Descriptors(Kinds) /\ Outputs \subseteq Seq(Descriptors(Kinds))
  /\ Answers \subseteq Seq(Descriptors(Kinds \cup {None}))
  /\ Requests \subseteq [targets : SUBSET Formats, lossless : BOOLEAN,
                         provider : Providers \cup {None}, kind : Kinds \cup {None}]

VARIABLES
  job,       \* [1 .. MaxJobs -> job and task rows]
  run,       \* [1 .. MaxJobs -> the worker executing the job]
  rows,      \* the StageArtifact rows
  route,     \* the provider the routing profiles select for convert_artifact
  budget     \* crashes, route changes and purges left

vars == <<job, run, rows, route, budget>>

Backend(provider) == IF provider = None THEN Default ELSE provider

\* What the contracts come to: the formats and conversions of the backends, and
\* the plan for each request from each format.
Own   == {[provider |-> p, formats |-> OwnFormats(Contracts[p])] : p \in Providers}
Edges == UNION {{[provider |-> p, step |-> e] : e \in ToSet(Steps(Contracts[p]))} : p \in Providers}
Plans == {[from |-> f, req |-> req,
           plan |-> Planned(Steps(Contracts[Backend(req.provider)]), f, req.targets, req.lossless)] :
            f \in Formats \cup {None}, req \in Requests}

\* What the planner promises of every plan that a request can be made of: it is a
\* sequence of conversions, not empty, and ends in a format the request accepts.
PlansArePaths ==
  \A p \in Plans : p.plan.executable /\ p.plan.required =>
    /\ p.plan.steps \in Seq(Conversions) \ {<<>>}
    /\ p.plan.steps[Len(p.plan.steps)].to \in p.req.targets

OwnOf(p) == (CHOOSE o \in Own : o.provider = p).formats

NoJob == [op |-> "none", status |-> "none", dataset |-> None, input |-> None,
          role |-> None, plan |-> <<>>, kind |-> None, provider |-> None,
          targets |-> {}, said |-> <<>>, outputs |-> <<>>]
NoRun == [at |-> 0, current |-> None, listed |-> <<>>]

Terminal == {"succeeded", "failed"}
Unused   == {j \in JobIds : job[j].status = "none"}
Fresh    == CHOOSE j \in Unused : \A i \in Unused : j <= i

RowId(r) == <<r.job, r.n>>

\* The format a conversion is planned to end in.
To(jb) == jb.plan[Len(jb.plan)].to

Init ==
  /\ job = [j \in JobIds |-> NoJob] /\ run = [j \in JobIds |-> NoRun]
  /\ rows = {} /\ route = None
  /\ budget = [crash |-> MaxCrashes, route |-> MaxRoutes, purge |-> MaxPurges]

----------------------------------------------------------------------------
(* Recording *)

\* _append_unique: a descriptor with the kind and the name of an earlier one is
\* dropped. The others keep the place they had.
Unique(list) ==
  [i \in {n \in DOMAIN list : \A e \in DOMAIN list :
             e < n => list[e].kind # list[n].kind \/ list[e].name # list[n].name} |-> list[i]]

\* normalize_task_outputs, with the backend of the process.
Normalized(list) == Unique([i \in DOMAIN list |-> Described(OwnOf(Default), list[i])])

\* The row of the descriptor d in place i of the outputs of job j; the data set is the
\* task's.
StageArtifact(j, i, dataset, d) ==
  [job |-> j, n |-> i, dataset |-> dataset, name |-> d.name, kind |-> d.kind,
   format |-> d.format, meta |-> d.meta, type |-> d.type, source |-> d.source,
   wellFormed |-> d.wellFormed]

\* record_task_artifacts: the rows of the task are replaced.
Recorded(j, jb, outs) ==
  {r \in rows : r.job # j} \cup
  {StageArtifact(j, i, jb.dataset, outs[i]) : i \in DOMAIN outs}

Admissible(list) == \A i \in DOMAIN list : Accepted(OwnOf(Default), list[i])

\* Slip: the rows are written first, whatever the checks say of the outputs.
CommitRowsFirst(j, list, said) ==
  /\ job' = [job EXCEPT ![j].status = IF Admissible(list) THEN "succeeded" ELSE "failed",
                        ![j].said = said,
                        ![j].outputs = IF Admissible(list) THEN Normalized(list) ELSE <<>>]
  /\ rows' = Recorded(j, job[j], Normalized(list))

\* The transaction that ends a task: status, outputs and rows together. An
\* output the checks refuse fails the task and leaves no rows. What the backend said is
\* history: the database does not keep it.
Commit(j, list, said) ==
  IF Admissible(list)
    THEN /\ job' = [job EXCEPT ![j].status = "succeeded", ![j].said = said,
                               ![j].outputs = Normalized(list)]
         /\ rows' = Recorded(j, job[j], Normalized(list))
    ELSE /\ job' = [job EXCEPT ![j].status = "failed"]
         /\ UNCHANGED rows

----------------------------------------------------------------------------
(* Submission *)

\* What the cache key of the task covers.
CacheKey(jb) ==
  [op |-> jb.op, dataset |-> jb.dataset, role |-> jb.role, plan |-> jb.plan,
   kind |-> jb.kind, provider |-> jb.provider,
   input |-> IF jb.input = None THEN None ELSE RowId(jb.input)]

\* submit_job_dag and materialize_dag: a task whose key belongs to one that
\* succeeded is born succeeded, with a copy of its outputs and rows of its own.
Submit(jb) ==
  LET j == Fresh
      hits == {i \in JobIds : job[i].status = "succeeded" /\ CacheKey(job[i]) = CacheKey(jb)}
  IN  /\ Unused # {}
      /\ \/ /\ hits = {}
            /\ job' = [job EXCEPT ![j] = [jb EXCEPT !.status = "pending"]]
            /\ UNCHANGED rows
         \/ \E i \in hits :
            LET outs == Normalized(job[i].outputs)
            IN  /\ job' = [job EXCEPT ![j] = [jb EXCEPT !.status = "succeeded", !.said = job[i].said,
                                                         !.outputs = outs]]
                /\ rows' = Recorded(j, jb, outs)
      /\ UNCHANGED <<run, route, budget>>

\* import_artifact: a finished job, its task and its row in one transaction; a
\* refused descriptor leaves nothing.
Import(d, ds) ==
  LET j == Fresh
      jb == [NoJob EXCEPT !.op = "import", !.status = "succeeded", !.dataset = ds,
                          !.outputs = Normalized(<<d>>)]
  IN  /\ Unused # {} /\ Admissible(<<d>>)
      /\ job' = [job EXCEPT ![j] = jb]
      /\ rows' = Recorded(j, jb, jb.outputs)
      /\ UNCHANGED <<run, route, budget>>

\* resolve_input_artifacts: role and data set are checked, then the reference is
\* copied into the task.
Usable(r, ds, role) ==
  /\ is_artifact_allowed_for_role(role, r.kind)
  /\ r.dataset \in {None, ds}

SubmitStage(ds, role, r) ==
  /\ r # None => Usable(r, ds, role)
  /\ Submit([NoJob EXCEPT !.op = "stage", !.dataset = ds, !.input = r,
                          !.role = IF r = None THEN None ELSE role])

\* submit_conversion compares the kind and the format it is about to promise.
Fits(k, f) == is_format_compatible_with_kind(k, f)

\* The plan is made from the contracts of the requested provider; the routing
\* profiles choose who executes it.
SubmitConvert(r, p) ==
  LET plan == p.plan
      req == p.req
      to == plan.steps[Len(plan.steps)].to
      kind == target_kind(r.kind, to, req.kind)
      provider == IF req.provider = None THEN route ELSE req.provider
  IN  /\ p.from = r.format /\ plan.executable /\ plan.required
      /\ Fits(kind, to)
      /\ Backend(provider) \in Implements
      /\ Submit([NoJob EXCEPT !.op = "convert", !.input = r, !.plan = plan.steps,
                              !.kind = kind, !.provider = provider,
                              !.targets = req.targets])

----------------------------------------------------------------------------
(* Execution *)

Start(j) ==
  /\ job[j].status = "pending"
  /\ job' = [job EXCEPT ![j].status = "running"]
  /\ run' = [run EXCEPT ![j] = [NoRun EXCEPT !.at = 1, !.current = job[j].input]]
  /\ UNCHANGED <<rows, route, budget>>

\* A stage handler returns; the dispatcher commits.
FinishStage(j, list) ==
  /\ job[j].op = "stage" /\ job[j].status = "running" /\ run[j].at = 1
  /\ Commit(j, list, <<>>)
  /\ run' = [run EXCEPT ![j] = NoRun]
  /\ UNCHANGED <<route, budget>>

Converting(j) ==
  /\ job[j].op = "convert" /\ job[j].status = "running"
  /\ run[j].at \in 1 .. Len(job[j].plan)

\* convert_artifact of the executing backend, which knows its own conversions only.
Offers(provider, step) == [provider |-> Backend(provider), step |-> step] \in Edges

\* The artifact keeps to the kind and the format it was asked for, as far as it says:
\* whatever else it says is kept.
Keeps(d, k, f) ==
  /\ d.kind \in {None, k} /\ d.format \in {None, f}
  /\ Coherent(k, f, d.type) /\ WellFormed(d)

\* _target_kind_for_step
StepKind(j, step) ==
  IF run[j].at = Len(job[j].plan) THEN job[j].kind
  ELSE target_kind(run[j].current.kind, step.to, None)

\* The setdefault lines: what an answer leaves out is filled in.
Filled(d, k, f, source) ==
  [d EXCEPT !.kind = IF @ = None THEN k ELSE @,
            !.format = IF @ = None THEN f ELSE @,
            !.source = IF @ = None THEN source ELSE @]

\* _synthesized_artifact: it points to the artifact the step started from,
\* which has an identity only in the first step.
Synthesized(j, k, f) ==
  [name |-> "a", kind |-> k, format |-> f, meta |-> None, type |-> None, wellFormed |-> TRUE,
   source |-> IF run[j].at = 1 THEN RowId(job[j].input) ELSE None]

\* One round of the loop over the plan; the answer need not be what was asked for.
ConvertStep(j, answer) ==
  LET step == job[j].plan[run[j].at]
      k == StepKind(j, step)
      src == RowId(job[j].input)
      next == IF answer = <<>> THEN Synthesized(j, k, step.to)
              ELSE Filled(answer[1], k, step.to, src)
  IN  /\ Offers(job[j].provider, step)
      /\ run' = [run EXCEPT ![j] = [at |-> run[j].at + 1, current |-> next,
                                    listed |-> answer]]
      /\ UNCHANGED <<job, rows, route, budget>>

\* The backend raises: it has no such conversion.
ConvertRaises(j) ==
  /\ Converting(j) /\ ~Offers(job[j].provider, job[j].plan[run[j].at])
  /\ job' = [job EXCEPT ![j].status = "failed"]
  /\ run' = [run EXCEPT ![j] = NoRun]
  /\ UNCHANGED <<rows, route, budget>>

\* Slip: what the answer leaves out is filled in from the input.
ReturnedAsInput(j) ==
  IF run[j].listed = <<>> THEN <<run[j].current>>
  ELSE [i \in DOMAIN run[j].listed |->
          Filled(run[j].listed[i], job[j].input.kind, job[j].input.format, RowId(job[j].input))]

\* What the handler returns: the artifacts of the last answer, or the last one
\* it made up.
Returned(j) ==
  IF run[j].listed = <<>> THEN <<run[j].current>>
  ELSE [i \in DOMAIN run[j].listed |->
          Filled(run[j].listed[i], job[j].kind, To(job[j]), RowId(job[j].input))]

FinishConvert(j) ==
  /\ job[j].op = "convert" /\ job[j].status = "running"
  /\ run[j].at = Len(job[j].plan) + 1
  /\ Commit(j, Returned(j), run[j].listed)
  /\ run' = [run EXCEPT ![j] = NoRun]
  /\ UNCHANGED <<route, budget>>

----------------------------------------------------------------------------
(* Faults, retention and configuration *)

\* The worker dies; its task row stays "running" until the lease expires.
Crash(j) ==
  /\ budget.crash > 0 /\ run[j].at > 0
  /\ run' = [run EXCEPT ![j] = NoRun]
  /\ budget' = [budget EXCEPT !.crash = @ - 1]
  /\ UNCHANGED <<job, rows, route>>

\* reclaim_expired: the task goes back to the queue.
Reclaim(j) ==
  /\ job[j].status = "running" /\ run[j].at = 0
  /\ job' = [job EXCEPT ![j].status = "pending"]
  /\ UNCHANGED <<run, rows, route, budget>>

\* gc_expired_job_records: a finished job goes, with its task and its rows.
Purge(j) ==
  /\ budget.purge > 0 /\ job[j].status \in Terminal
  /\ job' = [job EXCEPT ![j] = [NoJob EXCEPT !.status = "purged"]]
  /\ rows' = {r \in rows : r.job # j}
  /\ budget' = [budget EXCEPT !.purge = @ - 1]
  /\ UNCHANGED <<run, route>>

SetRoute(p) ==
  /\ budget.route > 0 /\ route # p
  /\ route' = p
  /\ budget' = [budget EXCEPT !.route = @ - 1]
  /\ UNCHANGED <<job, run, rows>>

----------------------------------------------------------------------------
(* Reading: none of these requests changes anything. *)

list_job_artifacts(j) == {r \in rows : r.job = j}

\* What a URI leads to, c, is "no uri", "remote", "unmanaged", "missing", "directory" or
\* "file"; the verdict on a file is "intact", "unchecked", "missing" or "altered".

\* _managed_path: only what lies under the roots of the server is looked at.
managed_path(c) == c \notin {"no uri", "remote", "unmanaged"}

\* _compare_file_integrity and the loop over the files: a file that is gone, or whose
\* size, hash or JSON content is not the recorded one, is an error.
FileIssues(c, files) ==
  IF c = "missing" THEN {"error"}
  ELSE UNION {CASE v \in {"missing", "altered"} -> {"error"}
                [] v = "unchecked" -> {"warning"}
                [] OTHER -> {} : v \in files}

\* _datatype_conflict_message
datatype_conflict(r) ==
  r.type # None /\ (\/ datatype_for_format(r.format) \notin {None, r.type}
                    \/ datatype_for_kind(r.kind) \notin {None, r.type})

\* The descriptor as it stands in the row, then the content.
validate_artifact(r, c, files) ==
  LET issues == (IF r.format = None THEN {"warning"}
                 ELSE IF is_format_compatible_with_kind(r.kind, r.format) THEN {} ELSE {"error"})
                \cup (IF datatype_conflict(r) THEN {"error"} ELSE {})
                \cup (IF managed_path(c) THEN FileIssues(c, files) ELSE {"warning"})
  IN  [valid |-> "error" \notin issues, checked |-> c \in {"directory", "file"}]

----------------------------------------------------------------------------
Worker(j) ==
  \/ Start(j) \/ FinishConvert(j) \/ ConvertRaises(j) \/ Reclaim(j)
  \/ \E list \in Outputs : FinishStage(j, list)
  \/ Converting(j) /\ \E answer \in Answers : ConvertStep(j, answer)

Next ==
  \/ \E d \in Imports, ds \in Datasets \cup {None} : Import(d, ds)
  \/ \E ds \in Datasets, role \in Roles, r \in rows \cup {None} : SubmitStage(ds, role, r)
  \/ \E r \in rows, p \in Plans : SubmitConvert(r, p)
  \/ \E j \in JobIds : Worker(j) \/ Crash(j) \/ Purge(j)
  \/ \E p \in Providers : SetRoute(p)

Spec == Init /\ [][Next]_vars

----------------------------------------------------------------------------
(* Properties *)

\* Statuses, plans and outputs have their shapes, and only a running job has a
\* worker.
TypeOK ==
  /\ \A j \in JobIds :
       /\ job[j].op \in {"none", "import", "stage", "convert"}
       /\ job[j].status \in {"none", "pending", "running", "succeeded", "failed", "purged"}
       /\ job[j].dataset \in Datasets \cup {None} /\ job[j].kind \in Kinds \cup {None}
       /\ job[j].provider \in Providers \cup {None}
       /\ run[j].at \in 0 .. Len(job[j].plan) + 1
       /\ run[j].at > 0 => job[j].status = "running"
  /\ rows \subseteq RowType
  /\ route \in Providers \cup {None}

\* The artifacts a client lists for a job are the outputs its task reports: all
\* of them once it succeeded, none before that, after a failure or after the
\* retention sweep, also for tasks that died, ran again or hit the cache; and no
\* descriptor a row holds is one the validation endpoint rejects (record_task_artifacts,
\* materialize_dag, gc_expired_job_records, validate_artifact).
RowsMatchOutputs ==
  \A j \in JobIds :
    LET mine == list_job_artifacts(j)
        outs == IF job[j].status = "succeeded" THEN job[j].outputs ELSE <<>>
    IN  /\ {r.n : r \in mine} = DOMAIN outs
        /\ \A r \in mine : \A field \in DOMAIN outs[r.n] : r[field] = outs[r.n][field]
        /\ \A r \in mine : validate_artifact(r, "file", {"intact"}).valid

\* A conversion that was accepted delivers what its submission promised as soon as the
\* answer to its last step keeps to it, whatever the answers before that were: the checks
\* at its end refuse nothing then, an artifact that does not name another format is in one
\* the request accepts, and one that does not name another source has the one the job was
\* given; all of it also when the outputs come from the cache (submit_conversion, the
\* convert_artifact handler).
ConversionDelivers ==
  \A j \in JobIds : job[j].op = "convert" =>
    LET jb == job[j]
        Silent(i, field, value) == i \in DOMAIN jb.said => jb.said[i][field] \in {None, value}
    IN  /\ run[j].at = Len(jb.plan) + 1 /\ (\A d \in ToSet(run[j].listed) : Keeps(d, jb.kind, To(jb)))
             => Admissible(Returned(j))
        /\ jb.status = "succeeded" =>
             /\ jb.outputs # <<>>
             /\ \A i \in DOMAIN jb.outputs :
                  /\ Silent(i, "format", To(jb)) => jb.outputs[i].format \in jb.targets
                  /\ Silent(i, "source", None) => jb.outputs[i].source \in {None, RowId(jb.input)}

----------------------------------------------------------------------------
(* What the code does not keep *)

\* A conversion only ever asks a backend for what that backend declares.
ExecutedAsPlanned ==
  \A j \in JobIds :
    Converting(j) => Offers(job[j].provider, job[j].plan[run[j].at])

\* Every converted artifact is in a format that the request accepts: the handler keeps
\* another one that a backend names.
TargetsReached ==
  \A j \in JobIds :
    job[j].op = "convert" /\ job[j].status = "succeeded" =>
      \A d \in ToSet(job[j].outputs) : d.format \in job[j].targets

\* Every converted artifact names its source.
ProvenanceKept ==
  \A j \in JobIds :
    job[j].op = "convert" /\ job[j].status = "succeeded" =>
      \A d \in ToSet(job[j].outputs) : d.source = RowId(job[j].input)

\* A stage of one data set never uses an artifact converted from another's.
InputsOfDataset ==
  \A j \in JobIds :
    job[j].op = "stage" /\ job[j].input # None =>
      LET maker == job[job[j].input.job]
      IN  maker.op = "convert" => maker.input.dataset \in {None, job[j].dataset}
=============================================================================
