------------------------------ MODULE Radiance ------------------------------
(***************************************************************************)
(* One radiance field: its training job, the evaluation submitted with it, *)
(* later evaluations of its snapshots, the rows those jobs write and the   *)
(* managed snapshots/ directory (services/radiance_service.py,             *)
(* workers/tasks/radiance_train.py and radiance_eval.py).                  *)
(*                                                                         *)
(* A provider is either the built-in stub or a plugin's container service, *)
(* an external process whose answer is arbitrary: Answers enumerates what  *)
(* it may say, and Judged what _run_container_service_provider makes of it.*)
(* At most one worker executes a job at a time here; what a slow worker    *)
(* that has lost its lease can do is the subject of Orchestrator.          *)
(***************************************************************************)
EXTENDS Integers, Sequences, FiniteSets

CONSTANTS
  Later,       \* evaluations requested after training
  MaxSeq,      \* largest snapshot number a service answers with
  MaxItems,    \* bound on the entries of outputs.evaluations
  MaxCrashes,  \* bound on worker crashes
  MaxResumes,  \* bound on resume requests
  MaxToggles   \* bound on the changes of the installed plugin

ASSUME RadianceAssumption ==
  /\ "train" \notin Later /\ "co" \notin Later
  /\ MaxSeq \in Nat \ {0} /\ MaxItems \in Nat
  /\ MaxCrashes \in Nat /\ MaxResumes \in Nat /\ MaxToggles \in Nat

Seqs      == 1 .. MaxSeq
Jobs      == Later \cup {"train"}
Evals     == Later \cup {"co"}      \* "co" is submitted with the training
Providers == {"stub", "service"}
MaxTries  == 1 + MaxCrashes + MaxResumes   \* executions of one job
\* What the enabled plugin advertises; nothing when it is disabled or removed.
Offers    == {{}, {"train"}, {"train", "evaluate", "metrics"}}

VARIABLES
  caps,   \* capabilities of the installed and enabled provider record
  field,  \* the RadianceField row
  eval,   \* the RadianceEvaluation rows
  snaps,  \* the RadianceSnapshot rows: the execution that recorded each
  disk,   \* snapshots/{seq}: which execution wrote the cloud and the summary
  job,    \* the job (one task each): status, cancel_requested, executions
  exec,   \* what the worker that executes it is doing
  used    \* how much of each bound is used up

vars == <<caps, field, eval, snaps, disk, job, exec, used>>

NoField == [status |-> "none", provider |-> "stub", wants |-> "off"]
NoEval  == [status |-> "none", provider |-> "stub", seq |-> 0, label |-> "none", try |-> 0]
NoDir   == [there |-> FALSE, cloud |-> 0, summary |-> 0]
NoOut   == [ok |-> FALSE, seq |-> 0, path |-> "none", label |-> "none"]
Asleep  == [pc |-> "idle", out |-> NoOut]

Init ==
  /\ caps \in Offers
  /\ field = NoField
  /\ eval = [e \in Evals |-> NoEval]
  /\ snaps = [s \in Seqs |-> 0]
  /\ disk = [s \in Seqs |-> NoDir]
  /\ job = [j \in Jobs |-> [status |-> "none", cancel |-> FALSE, tries |-> 0]]
  /\ exec = [j \in Jobs |-> Asleep]
  /\ used = [crash |-> 0, resume |-> 0, toggle |-> 0]

Spend(kind, bound) == used[kind] < bound /\ used' = [used EXCEPT ![kind] = @ + 1]
Try(j) == job[j].tries

----------------------------------------------------------------------------
(* What a provider's answer is judged to be *)

\* An entry of outputs.evaluations: whose id it carries, whether it has
\* metrics, and whether it has any key besides the ids.
Items == [id : {"mine", "other", "none"}, metrics : BOOLEAN, extra : BOOLEAN]
Entries == UNION {[1 .. n -> Items] : n \in 0 .. MaxItems}
Answers == [status : {"succeeded", "failed"}, seq : 0 .. MaxSeq,
            path : {"live", "outside", "uri"}, top : BOOLEAN,
            artifacts : BOOLEAN, items : Entries]

WithMetrics(items) == {i \in DOMAIN items : items[i].metrics}

\* The entry _normalize_train_evaluation_outputs selects: the first one with
\* metrics that names this evaluation, or the only one with metrics if it names
\* none; the empty set when there is no such entry.
Selected(items) ==
  LET own == {i \in WithMetrics(items) : items[i].id = "mine"}
  IN  IF own # {} THEN {CHOOSE i \in own : \A k \in own : i <= k}
      ELSE IF Cardinality(WithMetrics(items)) = 1
        THEN {i \in WithMetrics(items) : items[i].id = "none"} ELSE {}

\* The remaining entries must not carry metrics, nor anything else under this
\* evaluation's id.
OthersBare(items, sel) ==
  \A i \in DOMAIN items \ sel :
    ~items[i].metrics /\ ~(items[i].id = "mine" /\ items[i].extra)

\* _run_container_service_provider for radiance_train: the answer's own
\* status, metrics at the top level, metrics nobody asked for, artifact
\* descriptors, and the metrics that were asked for.
TrainAccepted(wanted, a) ==
  /\ a.status = "succeeded" /\ ~a.top
  /\ ~wanted => WithMetrics(a.items) = {}
  /\ a.artifacts
  /\ wanted => Selected(a.items) # {} /\ OthersBare(a.items, Selected(a.items))

\* The same for radiance_eval: metrics at the top and nowhere else.
EvalAccepted(a) ==
  a.status = "succeeded" /\ a.top /\ WithMetrics(a.items) = {} /\ a.artifacts

\* _record_embedded_evaluations: with an expected evaluation, the entry with
\* metrics is recorded under it.
Recorded(wanted, a) ==
  IF ~wanted \/ Selected(a.items) = {} THEN "none"
  ELSE LET i == CHOOSE k \in Selected(a.items) : TRUE
       IN  IF a.items[i].id = "none" THEN "anonymous" ELSE a.items[i].id

Judge(wanted, a) ==
  IF TrainAccepted(wanted, a)
    THEN [ok |-> TRUE, seq |-> a.seq, path |-> a.path, label |-> Recorded(wanted, a)]
    ELSE NoOut

\* Everything a training service may come to; a constant, so TLC enumerates the
\* answers once.
Judged == [wanted \in BOOLEAN |-> {Judge(wanted, a) : a \in Answers}]
JudgedEval ==
  {IF EvalAccepted(a) THEN [NoOut EXCEPT !.ok = TRUE, !.label = "mine"] ELSE NoOut :
     a \in Answers}

----------------------------------------------------------------------------
(* Requests *)

\* _require_radiance_provider_capabilities
Offered(provider, needed) == provider = "stub" \/ needed \subseteq caps

\* submit_radiance_train; wants is "final" when eval.enabled and eval.final,
\* "late" when eval.enabled only. The evaluation is of snapshot 1.
SubmitTrain(provider, wants) ==
  /\ field = NoField
  /\ Offered(provider, {"train"} \cup IF wants = "off" THEN {} ELSE {"metrics"})
  /\ field' = [status |-> "running", provider |-> provider, wants |-> wants]
  /\ eval' = IF wants = "final"
               THEN [eval EXCEPT !["co"] = [NoEval EXCEPT !.status = "running",
                                              !.provider = provider, !.seq = 1]]
               ELSE eval
  /\ job' = [job EXCEPT !["train"].status = "pending"]
  /\ UNCHANGED <<caps, snaps, disk, exec, used>>

\* list_radiance_snapshots
Rows == {s \in Seqs : snaps[s] # 0}

\* resolve_radiance_snapshot_file: a regular file below the managed directory.
Resolves(s, name) == disk[s].there /\ disk[s][name] # 0

\* The file route: a snapshot with a row, a file on disk.
Readable(s, name) == s \in Rows /\ Resolves(s, name)

\* submit_radiance_evaluate: of the snapshot asked for (which must have a row)
\* or of the last one.
SubmitEvaluate(e, provider, asked) ==
  LET last == CHOOSE s \in Rows : \A u \in Rows : u <= s
      seq  == IF asked = 0 THEN last ELSE asked
  IN  /\ field # NoField /\ eval[e] = NoEval
      /\ Rows # {} /\ seq \in Rows
      /\ Offered(provider, {"evaluate", "metrics"})
      /\ eval' = [eval EXCEPT ![e] = [NoEval EXCEPT !.status = "running",
                                        !.provider = provider, !.seq = seq]]
      /\ job' = [job EXCEPT ![e].status = "pending"]
      /\ UNCHANGED <<caps, field, snaps, disk, exec, used>>

\* cancel_job, in any state of the job.
Cancel(j) ==
  /\ job[j].status # "none"
  /\ job' = [job EXCEPT ![j].cancel = TRUE]
  /\ UNCHANGED <<caps, field, eval, snaps, disk, exec, used>>

\* resume_job: the task is pending again and the request to cancel forgotten;
\* the resources keep the status they have.
Resume(j) ==
  /\ job[j].status \in {"failed", "cancelled"}
  /\ Spend("resume", MaxResumes)
  /\ job' = [job EXCEPT ![j].status = "pending", ![j].cancel = FALSE]
  /\ UNCHANGED <<caps, field, eval, snaps, disk, exec>>

\* The hub installs, enables, disables or replaces the plugin.
Toggle(offer) ==
  /\ offer # caps /\ Spend("toggle", MaxToggles)
  /\ caps' = offer
  /\ UNCHANGED <<field, eval, snaps, disk, job, exec>>

----------------------------------------------------------------------------
(* The worker *)

HasCo == eval["co"] # NoEval

\* Slip: a failed training leaves the evaluation submitted with it alone.
StatusHookFieldOnly(j, status) ==
  /\ field' = IF j = "train" THEN [field EXCEPT !.status = status] ELSE field
  /\ eval' = IF j = "train" THEN eval ELSE [eval EXCEPT ![j].status = status]

\* on_status: training rolls its status up to the field and a failure on to
\* the evaluation submitted with it; an evaluation job to its evaluation.
StatusHook(j, status) ==
  /\ field' = IF j = "train" THEN [field EXCEPT !.status = status] ELSE field
  /\ eval' = IF j # "train" THEN [eval EXCEPT ![j].status = status]
             ELSE IF HasCo /\ status = "failed" THEN [eval EXCEPT !["co"].status = status]
             ELSE eval

\* execute_task up to the commit of "running", or of the cancellation.
Start(j) ==
  /\ job[j].status = "pending"
  /\ IF job[j].cancel
       THEN /\ job' = [job EXCEPT ![j].status = "cancelled"]
            /\ StatusHook(j, "failed")
            /\ UNCHANGED exec
       ELSE /\ job' = [job EXCEPT ![j].status = "running", ![j].tries = @ + 1]
            /\ StatusHook(j, "running")
            /\ exec' = [exec EXCEPT ![j] = [Asleep EXCEPT !.pc = "run"]]
  /\ UNCHANGED <<caps, snaps, disk, used>>

\* The handler returns outputs, or raises.
Handled(j, out) ==
  exec' = [exec EXCEPT ![j] = [pc |-> IF out.ok THEN "commit" ELSE "fail", out |-> out]]

\* The stub trains: it seals its live directory as snapshot 1 itself, which
\* SnapshotStore.seal refuses when the directory exists.
RunStub ==
  /\ exec["train"].pc = "run" /\ field.provider = "stub"
  /\ IF disk[1].there
       THEN Handled("train", NoOut) /\ UNCHANGED disk
       ELSE /\ disk' = [disk EXCEPT ![1] = [there |-> TRUE, cloud |-> Try("train"),
                                            summary |-> Try("train")]]
            /\ Handled("train", [ok |-> TRUE, seq |-> 1, path |-> "managed",
                                 label |-> IF HasCo THEN "mine" ELSE "none"])
  /\ UNCHANGED <<caps, field, eval, snaps, job, used>>

\* The container service is called, if its record still advertises the
\* capability; an HTTP or connection error is a failure too.
CallService ==
  /\ exec["train"].pc = "run" /\ field.provider = "service"
  /\ \E out \in IF "train" \in caps THEN Judged[HasCo] \cup {NoOut} ELSE {NoOut} :
       Handled("train", out)
  /\ UNCHANGED <<caps, field, eval, snaps, disk, job, used>>

\* radiance_eval: the stub's fixed metrics, or the service's.
RunEval(e) ==
  /\ exec[e].pc = "run"
  /\ \E out \in IF eval[e].provider = "stub"
                  THEN {[NoOut EXCEPT !.ok = TRUE, !.label = "mine"]}
                  ELSE IF "evaluate" \in caps THEN JudgedEval ELSE {NoOut} :
       Handled(e, out)
  /\ UNCHANGED <<caps, field, eval, snaps, disk, job, used>>

\* _seal_radiance_snapshot_path: the managed directory is created, a local
\* result is copied into it, the summary is written if there is none yet.
SealedDir(out, try) ==
  LET d == disk[out.seq]
  IN  [there |-> TRUE,
       cloud |-> IF out.path = "live" THEN try ELSE d.cloud,
       summary |-> IF out.path = "outside" \/ d.summary # 0 THEN d.summary ELSE try]

\* What recording a result does to the file system; it is not undone when the
\* transaction is.
SealEffect(j, out) ==
  disk' = IF j = "train" /\ out.seq # 0
            THEN [disk EXCEPT ![out.seq] = SealedDir(out, Try(j))] ELSE disk

\* record_radiance_train_result refuses a bad number and a path outside the
\* field's own directories.
Recordable(j, out) == j # "train" \/ (out.seq # 0 /\ out.path # "outside")

\* Slip: the result is recorded although the job is cancelled.
CommitCancelledRecorded(j) ==
  LET out == exec[j].out
  IN  /\ exec[j].pc = "commit" /\ job[j].cancel
      /\ job' = [job EXCEPT ![j].status = "cancelled"]
      /\ StatusHook(j, "failed")
      /\ exec' = [exec EXCEPT ![j] = Asleep]
      /\ SealEffect(j, out)
      /\ snaps' = IF j = "train" /\ Recordable(j, out)
                    THEN [snaps EXCEPT ![out.seq] = Try(j)] ELSE snaps
      /\ UNCHANGED <<caps, used>>

\* The terminal commit when a request to cancel came in meanwhile.
CommitCancelled(j) ==
  /\ exec[j].pc = "commit" /\ job[j].cancel
  /\ job' = [job EXCEPT ![j].status = "cancelled"]
  /\ StatusHook(j, "failed")
  /\ exec' = [exec EXCEPT ![j] = Asleep]
  /\ UNCHANGED <<caps, snaps, disk, used>>

\* record_radiance_evaluation_result, for the evaluation whose metrics these are.
WithResult(row, out, try) ==
  IF out.label = "none" THEN eval
  ELSE [eval EXCEPT ![row].status = "succeeded", ![row].label = out.label, ![row].try = try]

\* The succeeding terminal commit: on_success of the kind; an exception in it
\* rolls the rows back and fails the task.
Commit(j) ==
  LET out == exec[j].out
  IN  /\ exec[j].pc = "commit" /\ ~job[j].cancel
      /\ SealEffect(j, out)
      /\ \/ /\ Recordable(j, out)
            /\ exec' = [exec EXCEPT ![j] = Asleep]
            /\ job' = [job EXCEPT ![j].status = "succeeded"]
            /\ IF j = "train"
                 THEN /\ field' = [field EXCEPT !.status = "succeeded"]
                      /\ eval' = WithResult("co", out, Try(j))
                      /\ snaps' = [snaps EXCEPT ![out.seq] = Try(j)]
                 ELSE /\ eval' = WithResult(j, out, Try(j))
                      /\ UNCHANGED <<field, snaps>>
         \/ /\ ~Recordable(j, out)
            /\ exec' = [exec EXCEPT ![j].pc = "fail"]
            /\ UNCHANGED <<job, field, eval, snaps>>
      /\ UNCHANGED <<caps, used>>

\* The failing terminal commit.
Fail(j) ==
  /\ exec[j].pc = "fail"
  /\ job' = [job EXCEPT ![j].status = "failed"]
  /\ StatusHook(j, "failed")
  /\ exec' = [exec EXCEPT ![j] = Asleep]
  /\ UNCHANGED <<caps, snaps, disk, used>>

\* The worker dies, in the middle of recording also after it has written files.
Crash(j) ==
  /\ exec[j].pc \in {"run", "commit", "fail"} /\ Spend("crash", MaxCrashes)
  /\ \/ UNCHANGED disk
     \/ exec[j].pc = "commit" /\ ~job[j].cancel /\ SealEffect(j, exec[j].out)
  /\ exec' = [exec EXCEPT ![j] = [Asleep EXCEPT !.pc = "dead"]]
  /\ UNCHANGED <<caps, field, eval, snaps, job>>

\* Slip: the janitor looks for expired leases among the pending tasks only.
ReclaimPending(j) ==
  /\ job[j].status = "pending" /\ exec[j].pc = "dead"
  /\ exec' = [exec EXCEPT ![j] = Asleep]
  /\ UNCHANGED <<caps, field, eval, snaps, disk, job, used>>

\* The janitor takes the task back and enqueues it again; no hook runs.
Reclaim(j) ==
  /\ job[j].status = "running" /\ exec[j].pc = "dead"
  /\ job' = [job EXCEPT ![j].status = "pending"]
  /\ exec' = [exec EXCEPT ![j] = Asleep]
  /\ UNCHANGED <<caps, field, eval, snaps, disk, used>>

----------------------------------------------------------------------------
Work(j) ==
  \/ Start(j) \/ Commit(j) \/ CommitCancelled(j) \/ Fail(j) \/ Reclaim(j)
  \/ j = "train" /\ (RunStub \/ CallService)
  \/ j # "train" /\ RunEval(j)

Next ==
  \/ \E p \in Providers : \/ \E w \in {"off", "late", "final"} : SubmitTrain(p, w)
                          \/ \E e \in Later, s \in 0 .. MaxSeq : SubmitEvaluate(e, p, s)
  \/ \E j \in Jobs : Work(j) \/ Crash(j) \/ Cancel(j) \/ Resume(j)
  \/ \E o \in Offers : Toggle(o)

\* Queue, worker and janitor keep working; the service answers or times out.
Spec == Init /\ [][Next]_vars /\ \A j \in Jobs : WF_vars(Work(j))

----------------------------------------------------------------------------
(* Properties *)

RowStatus == {"none", "running", "succeeded", "failed"}

\* Type invariant; an execution is numbered within the crashes and resumes there
\* were.
TypeOK ==
  /\ caps \in Offers
  /\ field \in [status : RowStatus, provider : Providers, wants : {"off", "late", "final"}]
  /\ eval \in [Evals -> [status : RowStatus, provider : Providers, seq : 0 .. MaxSeq,
                         label : {"none", "mine", "anonymous", "other"}, try : 0 .. MaxTries]]
  /\ snaps \in [Seqs -> 0 .. MaxTries]
  /\ disk \in [Seqs -> [there : BOOLEAN, cloud : 0 .. MaxTries, summary : 0 .. MaxTries]]
  /\ job \in [Jobs -> [status : {"none", "pending", "running", "succeeded", "failed",
                                 "cancelled"}, cancel : BOOLEAN, tries : 0 .. MaxTries]]
  /\ \A j \in Jobs : exec[j].pc \in {"idle", "run", "commit", "fail", "dead"}
  /\ \A j \in Jobs : (exec[j].pc # "idle") <=> (job[j].status = "running")

\* Through crashes, cancellations and resumes the rows say what became of the jobs
\* behind them (on_status, on_success). The field has succeeded exactly when its
\* training job has, and has failed once that job failed or was cancelled; so has
\* every evaluation with its own job, the training for the one submitted with it, and
\* the metrics of one that succeeded are those of that job's last execution.
RowsAgree ==
  /\ (field.status = "succeeded") <=> (job["train"].status = "succeeded")
  /\ job["train"].status \in {"failed", "cancelled"} => field.status = "failed"
  /\ job["train"].status = "running" => field.status = "running"
  /\ \A e \in Evals :
       LET j == IF e = "co" THEN "train" ELSE e
       IN  eval[e] # NoEval =>
             /\ (eval[e].status = "succeeded") <=> (job[j].status = "succeeded")
             /\ eval[e].status = "succeeded" => eval[e].try = job[j].tries
             /\ eval[e].status = "succeeded" => eval[e].label \in {"mine", "anonymous"}
             /\ job[j].status \in {"failed", "cancelled"} => eval[e].status = "failed"

\* A file a client could read never changes: the route answers with `immutable`
\* cache headers, while executions that fail or die write into the same directory.
ServedImmutable ==
  [][\A s \in Seqs, name \in {"cloud", "summary"} :
       Readable(s, name) => disk'[s][name] = disk[s][name]]_vars

\* A training that was submitted ends, crashes and cancellations or not: the field
\* stops saying "running".
FieldSettles == (field.status = "running") ~> (field.status \in {"succeeded", "failed"})

\* Not kept by the code: the evaluation submitted with a training is of a snapshot
\* the training recorded (its number is fixed as 1 at submission).
CoEvaluationOfRow == eval["co"].status = "succeeded" => eval["co"].seq \in Rows

\* Not kept by the code: the summary on disk is the one of the row (the file is
\* only written when there is none, so an execution that died leaves its own).
SummaryAgrees == \A s \in Rows : disk[s].summary = snaps[s]

\* Not kept by the code: a stub training that is executed again is not refused by
\* the snapshot it sealed the first time.
StubCanRetry == exec["train"].pc = "run" /\ field.provider = "stub" => ~disk[1].there
=============================================================================
