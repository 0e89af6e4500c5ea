--------------------------- MODULE RadianceProofs ---------------------------
(***************************************************************************)
(* Theorems about Radiance: type correctness, with the count of executions *)
(* it needs; that the rows say what became of the jobs behind them; and    *)
(* that a file a client could read never changes.                          *)
(***************************************************************************)
EXTENDS Radiance, WellFoundedInduction, TLAPS

-----------------------------------------------------------------------------
(* The inductive invariants. *)

UsedType == [crash : 0 .. MaxCrashes, resume : 0 .. MaxResumes, toggle : 0 .. MaxToggles]
OutType  == [ok : BOOLEAN, seq : 0 .. MaxSeq, path : {"none", "managed", "live", "outside", "uri"},
             label : {"none", "mine", "anonymous", "other"}]
ExecType == [pc : {"idle", "run", "commit", "fail", "dead"}, out : OutType]

FieldType == [status : RowStatus, provider : Providers, wants : {"off", "late", "final"}]
EvalType  == [status : RowStatus, provider : Providers, seq : 0 .. MaxSeq,
              label : {"none", "mine", "anonymous", "other"}, try : 0 .. MaxTries]
DirType   == [there : BOOLEAN, cloud : 0 .. MaxTries, summary : 0 .. MaxTries]
JobType   == [status : {"none", "pending", "running", "succeeded", "failed", "cancelled"},
              cancel : BOOLEAN, tries : 0 .. MaxTries]

\* A job is executed once, and once more for every crash and every resumption.
Counted(row, work, spent) ==
  /\ row.status = "none" => row.tries = 0
  /\ row.status = "pending" \/ work.pc = "dead" => row.tries <= spent
  /\ row.tries <= 1 + spent

TriesCounted == \A j \in Jobs : Counted(job[j], exec[j], used.crash + used.resume)

TypeInv == TypeOK /\ used \in UsedType /\ exec \in [Jobs -> ExecType] /\ TriesCounted

\* What a row may say of the job behind it.
Follows(job_status, row_status) ==
  /\ (job_status = "none") <=> (row_status = "none")
  /\ job_status \in {"pending", "running"} => row_status \in {"running", "failed"}
  /\ job_status = "succeeded" => row_status = "succeeded"
  /\ job_status \in {"failed", "cancelled"} => row_status = "failed"

FieldFollows == Follows(job["train"].status, field.status)
                /\ (job["train"].status = "running" => field.status = "running")

LaterFollow == \A e \in Later : Follows(job[e].status, eval[e].status)

\* The evaluation submitted with the training has no other job.
CoFollows ==
  \/ eval["co"] = NoEval
  \/ eval["co"].status # "none" /\ Follows(job["train"].status, eval["co"].status)

\* The metrics of an evaluation are of the last execution of its job.
MetricsCurrent ==
  \A e \in Evals : eval[e].status = "succeeded" =>
    /\ eval[e].try = job[IF e = "co" THEN "train" ELSE e].tries
    /\ eval[e].label \in {"mine", "anonymous"}

\* Outputs that are about to be recorded carry the metrics that were asked for, and
\* no others.
OutputsJudged ==
  \A j \in Jobs : exec[j].pc = "commit" =>
    IF j # "train" THEN exec[j].out.label = "mine"
    ELSE exec[j].out.label \in IF HasCo THEN {"mine", "anonymous"} ELSE {"none"}

\* There is no snapshot row before the training has succeeded.
RowsAreFinal == (\E s \in Seqs : snaps[s] # 0) => job["train"].status = "succeeded"

RowsInv ==
  /\ FieldFollows /\ LaterFollow /\ CoFollows
  /\ MetricsCurrent /\ OutputsJudged /\ RowsAreFinal

-----------------------------------------------------------------------------
(* What the judgement of an answer can be. *)

\* A set of natural numbers has a least one.
LEMMA LeastNat ==
  ASSUME NEW S \in SUBSET Nat, S # {}
  PROVE  \E x \in S : \A y \in S : x <= y
<1>1. PICK x \in S : \A y \in S : ~(<<y, x>> \in OpToRel(<, Nat))
  BY NatLessThanWellFounded, WFMin
<1>2. OpToRel(<, Nat) = {p \in Nat \X Nat : p[1] < p[2]}
  BY Zenon DEF OpToRel
<1>3. \A y \in S : ~(<<y, x>> \in {p \in Nat \X Nat : p[1] < p[2]})
  BY Zenon, <1>1, <1>2
<1>4. \A y \in S : ~(y < x)
  BY <1>3
<1> QED BY <1>4

\* An entry that is selected names this evaluation or none at all, never another.
LEMMA SelectedFacts ==
  ASSUME NEW items \in Entries, NEW i \in Selected(items)
  PROVE  items[i].id \in {"mine", "none"}
<1> DEFINE own == {k \in WithMetrics(items) : items[k].id = "mine"}
<1>1. PICK n \in 0 .. MaxItems : items \in [1 .. n -> Items]
  BY DEF Entries
<1>2. CASE own # {}
  <2>1. own \in SUBSET Nat
    BY <1>1 DEF WithMetrics
  <2>2. \E x \in own : \A k \in own : x <= k
    BY <1>2, <2>1, LeastNat
  <2>3. (CHOOSE x \in own : \A k \in own : x <= k) \in own
    BY <2>2
  <2>4. i = CHOOSE x \in own : \A k \in own : x <= k
    BY <1>2 DEF Selected
  <2> QED BY <2>3, <2>4
<1>3. CASE own = {}
  BY <1>3 DEF Selected
<1> QED BY <1>2, <1>3

\* What _run_container_service_provider lets through has the metrics that were asked
\* for, and none when none were.
LEMMA JudgedFacts ==
  ASSUME NEW wanted \in BOOLEAN, NEW out \in Judged[wanted]
  PROVE  /\ out \in OutType
         /\ out.ok => out.label \in IF wanted THEN {"mine", "anonymous"} ELSE {"none"}
<1>1. PICK a \in Answers : out = Judge(wanted, a)
  BY DEF Judged
<1>2. a.items \in Entries /\ a.seq \in 0 .. MaxSeq /\ a.path \in {"live", "outside", "uri"}
  BY DEF Answers
<1>3. CASE ~TrainAccepted(wanted, a)
  <2>1. out = NoOut
    BY <1>1, <1>3 DEF Judge
  <2>2. FALSE \in BOOLEAN /\ MaxSeq \in Nat
    BY RadianceAssumption
  <2> QED BY <2>1, <2>2 DEF NoOut, OutType
<1>4. CASE TrainAccepted(wanted, a)
  <2>1. out = [ok |-> TRUE, seq |-> a.seq, path |-> a.path, label |-> Recorded(wanted, a)]
    BY <1>1, <1>4 DEF Judge
  <2>2. Recorded(wanted, a) \in IF wanted THEN {"mine", "anonymous"} ELSE {"none"}
    <3>1. CASE ~wanted
      BY <3>1 DEF Recorded
    <3>2. CASE wanted
      <4>1. Selected(a.items) # {}
        BY <1>4, <3>2 DEF TrainAccepted
      <4> DEFINE i == CHOOSE k \in Selected(a.items) : TRUE
      <4>2. i \in Selected(a.items)
        BY <4>1
      <4>3. a.items[i].id \in {"mine", "none"}
        BY <1>2, <4>2, SelectedFacts
      <4>4. Recorded(wanted, a) = IF a.items[i].id = "none" THEN "anonymous" ELSE a.items[i].id
        BY <3>2, <4>1 DEF Recorded
      <4> HIDE DEF i
      <4> QED BY <3>2, <4>3, <4>4
    <3> QED BY <3>1, <3>2
  <2>3. TRUE \in BOOLEAN
    OBVIOUS
  <2>4. Recorded(wanted, a) \in {"none", "mine", "anonymous", "other"}
    BY <2>2
  <2> HIDE DEF Recorded
  <2>5. out \in OutType /\ out.label = Recorded(wanted, a)
    BY <1>2, <2>1, <2>3, <2>4 DEF OutType
  <2> QED BY <2>2, <2>5
<1> QED BY <1>3, <1>4

LEMMA EvalAnswerFacts ==
  ASSUME NEW out \in JudgedEval \cup {NoOut, [NoOut EXCEPT !.ok = TRUE, !.label = "mine"]}
  PROVE  out \in OutType /\ (out.ok => out.label = "mine")
<1>1. TRUE \in BOOLEAN /\ FALSE \in BOOLEAN /\ MaxSeq \in Nat
  BY RadianceAssumption
<1>2. out = NoOut \/ out = [NoOut EXCEPT !.ok = TRUE, !.label = "mine"]
  BY DEF JudgedEval
<1>3. NoOut \in OutType /\ ~NoOut.ok
  BY <1>1 DEF NoOut, OutType
<1>4. [NoOut EXCEPT !.ok = TRUE, !.label = "mine"] \in OutType
      /\ [NoOut EXCEPT !.ok = TRUE, !.label = "mine"].label = "mine"
  BY <1>1, <1>3 DEF OutType
<1> QED BY <1>2, <1>3, <1>4

-----------------------------------------------------------------------------
(* Types. *)

\* TypeInv in parts: the rows and files, and the jobs.
RowsTyped ==
  /\ caps \in Offers /\ field \in FieldType /\ eval \in [Evals -> EvalType]
  /\ snaps \in [Seqs -> 0 .. MaxTries] /\ disk \in [Seqs -> DirType]

JobsTyped ==
  /\ job \in [Jobs -> JobType] /\ exec \in [Jobs -> ExecType] /\ used \in UsedType
  /\ \A j \in Jobs : (exec[j].pc # "idle") <=> (job[j].status = "running")
  /\ TriesCounted

LEMMA TypeParts == TypeInv => RowsTyped /\ JobsTyped
BY DEF TypeInv, TypeOK, RowsTyped, JobsTyped, FieldType, EvalType, DirType, JobType

LEMMA ConstantFacts ==
  /\ MaxSeq \in Nat \ {0} /\ MaxCrashes \in Nat /\ MaxResumes \in Nat /\ MaxToggles \in Nat
  /\ MaxTries \in Nat /\ MaxTries = 1 + MaxCrashes + MaxResumes /\ 1 \in Seqs
  /\ "train" \in Jobs /\ "co" \in Evals /\ Later \subseteq Jobs /\ Later \subseteq Evals
  /\ "train" \notin Later /\ "co" \notin Later
  /\ \A j \in Jobs : j # "train" => j \in Later /\ j \in Evals
BY RadianceAssumption DEF MaxTries, Seqs, Jobs, Evals

LEMMA BlankTyped ==
  /\ NoField \in FieldType /\ NoEval \in EvalType /\ NoDir \in DirType /\ NoOut \in OutType
  /\ Asleep \in ExecType
  /\ Asleep.pc = "idle" /\ Asleep.out = NoOut
<1>1. FALSE \in BOOLEAN
  OBVIOUS
<1>2. NoField \in FieldType
  BY DEF NoField, FieldType, RowStatus, Providers
<1>3. NoEval \in EvalType
  BY ConstantFacts DEF NoEval, EvalType, RowStatus, Providers
<1>4. NoDir \in DirType
  BY <1>1, ConstantFacts DEF NoDir, DirType
<1>5. NoOut \in OutType
  BY <1>1, ConstantFacts DEF NoOut, OutType
<1>6. Asleep \in ExecType
  BY <1>5 DEF Asleep, ExecType
<1> QED BY <1>2, <1>3, <1>4, <1>5, <1>6 DEF Asleep

LEMMA TypeInit == Init => TypeInv
<1> SUFFICES ASSUME Init PROVE TypeInv
  OBVIOUS
<1>1. FALSE \in BOOLEAN
  OBVIOUS
<1>2. [status |-> "none", cancel |-> FALSE, tries |-> 0] \in JobType
  BY <1>1, ConstantFacts DEF JobType
<1>3. RowsTyped
  BY BlankTyped, ConstantFacts DEF Init, RowsTyped
<1>4. used \in UsedType /\ used.crash + used.resume = 0
  BY ConstantFacts DEF Init, UsedType
<1>5. job \in [Jobs -> JobType] /\ exec \in [Jobs -> ExecType]
  BY <1>2, BlankTyped DEF Init
<1>6. \A j \in Jobs : job[j].status = "none" /\ job[j].tries = 0 /\ exec[j].pc = "idle"
  BY BlankTyped DEF Init
<1>7. TriesCounted
  BY <1>4, <1>6 DEF TriesCounted, Counted
<1>8. JobsTyped
  BY <1>4, <1>5, <1>6, <1>7 DEF JobsTyped
<1> QED BY <1>3, <1>8 DEF TypeInv, TypeOK, RowsTyped, JobsTyped,
                          FieldType, EvalType, DirType, JobType, ExecType

\* A step of one job and the worker that executes it.
LEMMA JobMoves ==
  ASSUME TypeInv, NEW j \in Jobs, NEW row \in JobType, NEW work \in ExecType,
         job' = [job EXCEPT ![j] = row], exec' = [exec EXCEPT ![j] = work],
         (work.pc # "idle") <=> (row.status = "running"),
         used' \in UsedType,
         used.crash + used.resume <= used'.crash + used'.resume,
         Counted(row, work, used'.crash + used'.resume)
  PROVE  JobsTyped'
<1> DEFINE old == used.crash + used.resume
           new == used'.crash + used'.resume
<1>1. JobsTyped
  BY TypeParts
<1>2. old \in Nat /\ new \in Nat /\ old <= new
  BY <1>1, ConstantFacts DEF JobsTyped, UsedType
<1>3. /\ job \in [Jobs -> JobType] /\ exec \in [Jobs -> ExecType]
      /\ \A k \in Jobs : (exec[k].pc # "idle") <=> (job[k].status = "running")
      /\ \A k \in Jobs : Counted(job[k], exec[k], old)
  BY <1>1 DEF JobsTyped, TriesCounted
<1> HIDE DEF old, new
<1>4. job' \in [Jobs -> JobType] /\ exec' \in [Jobs -> ExecType]
      /\ \A k \in Jobs : (exec'[k].pc # "idle") <=> (job'[k].status = "running")
  BY <1>3
<1>5. ASSUME NEW k \in Jobs PROVE Counted(job'[k], exec'[k], new)
  <2>1. CASE k = j
    BY <1>3, <2>1 DEF new
  <2>2. CASE k # j
    <3>1. job'[k] = job[k] /\ exec'[k] = exec[k]
      BY <1>3, <2>2
    <3>2. job[k].tries \in 0 .. MaxTries /\ MaxTries \in Nat
      BY <1>3, ConstantFacts DEF JobType
    <3>3. Counted(job[k], exec[k], old)
      BY <1>3
    <3> QED BY <1>2, <3>1, <3>2, <3>3 DEF Counted
  <2> QED BY <2>1, <2>2
<1>6. TriesCounted'
  BY <1>5 DEF TriesCounted, new
<1> QED BY <1>4, <1>6 DEF JobsTyped

\* The same where no bound is spent.
LEMMA FreeMove ==
  ASSUME TypeInv, NEW j \in Jobs, NEW row \in JobType, NEW work \in ExecType,
         job' = [job EXCEPT ![j] = row], exec' = [exec EXCEPT ![j] = work],
         (work.pc # "idle") <=> (row.status = "running"),
         UNCHANGED used,
         Counted(row, work, used.crash + used.resume)
  PROVE  JobsTyped'
<1>1. used \in UsedType /\ used.crash + used.resume \in Nat
  BY TypeParts, ConstantFacts DEF JobsTyped, UsedType
<1>2. used' \in UsedType /\ used'.crash + used'.resume = used.crash + used.resume
      /\ used.crash + used.resume <= used'.crash + used'.resume
  BY <1>1
<1> QED BY <1>2, JobMoves

\* on_status keeps the rows typed.
LEMMA HookTyped ==
  ASSUME TypeInv, NEW j \in Jobs, NEW status \in {"running", "failed"}, StatusHook(j, status)
  PROVE  field' \in FieldType /\ eval' \in [Evals -> EvalType]
<1>1. field \in FieldType /\ eval \in [Evals -> EvalType]
  BY TypeParts DEF RowsTyped
<1>2. status \in RowStatus
  BY DEF RowStatus
<1>3. [field EXCEPT !.status = status] \in FieldType
  BY <1>1, <1>2 DEF FieldType
<1>4. \A e \in Evals : [eval[e] EXCEPT !.status = status] \in EvalType
  BY <1>1, <1>2 DEF EvalType
<1>5. \A e \in Evals : [eval EXCEPT ![e].status = status]
                         = [eval EXCEPT ![e] = [eval[e] EXCEPT !.status = status]]
  BY <1>1
<1>6. \A e \in Evals : [eval EXCEPT ![e].status = status] \in [Evals -> EvalType]
  BY <1>1, <1>4, <1>5
<1>7. field' \in FieldType
  BY <1>1, <1>3 DEF StatusHook
<1>8. eval' = eval \/ \E e \in Evals : eval' = [eval EXCEPT ![e].status = status]
  BY ConstantFacts DEF StatusHook
<1>9. eval' \in [Evals -> EvalType]
  BY <1>1, <1>6, <1>8
<1> QED BY <1>7, <1>9

\* Recording on disk keeps the directories typed.
LEMMA SealTyped ==
  ASSUME TypeInv, NEW j \in Jobs, NEW out \in OutType, SealEffect(j, out)
  PROVE  disk' \in [Seqs -> DirType]
<1>1. disk \in [Seqs -> DirType] /\ job[j].tries \in 0 .. MaxTries
  BY TypeParts DEF RowsTyped, JobsTyped, JobType
<1>2. CASE j = "train" /\ out.seq # 0
  <2>1. disk' = [disk EXCEPT ![out.seq] = SealedDir(out, Try(j))]
    BY <1>2 DEF SealEffect
  <2>2. out.seq \in Seqs
    BY <1>2, ConstantFacts DEF OutType, Seqs
  <2>3. TRUE \in BOOLEAN
    OBVIOUS
  <2>4. SealedDir(out, Try(j)) \in DirType
    BY <1>1, <2>2, <2>3 DEF SealedDir, DirType, Try
  <2> QED BY <1>1, <2>1, <2>2, <2>4
<1>3. CASE ~(j = "train" /\ out.seq # 0)
  BY <1>1, <1>3 DEF SealEffect
<1> QED BY <1>2, <1>3

LEMMA TypeStep ==
  ASSUME TypeInv, RowsInv, [Next]_vars
  PROVE  RowsTyped' /\ JobsTyped'
<1> DEFINE Kept == RowsTyped /\ JobsTyped
<1>a. /\ caps \in Offers /\ field \in FieldType /\ eval \in [Evals -> EvalType]
      /\ snaps \in [Seqs -> 0 .. MaxTries] /\ disk \in [Seqs -> DirType]
      /\ job \in [Jobs -> JobType] /\ exec \in [Jobs -> ExecType] /\ used \in UsedType
      /\ \A j \in Jobs : (exec[j].pc # "idle") <=> (job[j].status = "running")
      /\ \A j \in Jobs : Counted(job[j], exec[j], used.crash + used.resume)
      /\ TriesCounted
  BY TypeParts DEF RowsTyped, JobsTyped, TriesCounted
<1>b. used.crash \in 0 .. MaxCrashes /\ used.resume \in 0 .. MaxResumes
  BY <1>a DEF UsedType
<1>c. TRUE \in BOOLEAN /\ FALSE \in BOOLEAN
  OBVIOUS
<1>d. \A j \in Jobs : /\ job[j].tries \in 0 .. MaxTries
                      /\ exec[j].out \in OutType
  BY <1>a DEF JobType, ExecType
\* A job that has not been submitted becomes pending.
<1>e. ASSUME NEW j \in Jobs, job[j].status = "none", job' = [job EXCEPT ![j].status = "pending"],
             UNCHANGED <<exec, used>>
      PROVE  JobsTyped'
  <2> DEFINE row == [job[j] EXCEPT !.status = "pending"]
  <2>1. job' = [job EXCEPT ![j] = row] /\ exec' = [exec EXCEPT ![j] = exec[j]]
    BY <1>a, <1>e
  <2>2. row \in JobType /\ row.status = "pending" /\ row.tries = job[j].tries
    BY <1>a DEF JobType
  <2> HIDE DEF row
  <2>3. job[j].tries = 0 /\ exec[j] \in ExecType /\ exec[j].pc = "idle"
    BY <1>a, <1>e DEF Counted
  <2>4. Counted(row, exec[j], used.crash + used.resume)
    BY <1>b, <2>2, <2>3, ConstantFacts DEF Counted
  <2> QED BY <1>e, <2>1, <2>2, <2>3, <2>4, FreeMove
\* A worker ends its execution and leaves a terminal status.
<1>f. ASSUME NEW j \in Jobs, NEW status \in {"succeeded", "failed", "cancelled"},
             job' = [job EXCEPT ![j].status = status], exec' = [exec EXCEPT ![j] = Asleep],
             UNCHANGED used, job[j].status # "none"
      PROVE  JobsTyped'
  <2> DEFINE row == [job[j] EXCEPT !.status = status]
  <2>1. job' = [job EXCEPT ![j] = row]
    BY <1>a, <1>f
  <2>2. row \in JobType /\ row.status = status /\ row.tries = job[j].tries
    BY <1>a DEF JobType
  <2> HIDE DEF row
  <2>3. Counted(job[j], exec[j], used.crash + used.resume)
    BY <1>a
  <2>4. Counted(row, Asleep, used.crash + used.resume)
    BY <2>2, <2>3, BlankTyped DEF Counted
  <2> QED BY <1>f, <2>1, <2>2, <2>4, BlankTyped, FreeMove
\* A worker goes on to its next statement.
<1>g. ASSUME NEW j \in Jobs, NEW work \in ExecType, exec' = [exec EXCEPT ![j] = work],
             exec[j].pc # "idle", work.pc \notin {"idle", "dead"}, UNCHANGED <<job, used>>
      PROVE  JobsTyped'
  <2>1. job' = [job EXCEPT ![j] = job[j]] /\ job[j] \in JobType /\ job[j].status = "running"
    BY <1>a, <1>g
  <2>2. Counted(job[j], exec[j], used.crash + used.resume)
    BY <1>a
  <2>3. Counted(job[j], work, used.crash + used.resume)
    BY <1>g, <2>1, <2>2 DEF Counted
  <2> QED BY <1>g, <2>1, <2>3, FreeMove
<1>1. ASSUME NEW p \in Providers, NEW w \in {"off", "late", "final"}, SubmitTrain(p, w)
      PROVE  Kept'
  <2>1. field' \in FieldType
    BY <1>1 DEF SubmitTrain, FieldType, RowStatus
  <2>0. 1 \in 0 .. MaxSeq
    BY ConstantFacts
  <2>2. [NoEval EXCEPT !.status = "running", !.provider = p, !.seq = 1] \in EvalType
    BY <2>0, BlankTyped DEF EvalType, RowStatus
  <2>3. eval' \in [Evals -> EvalType]
    BY <1>1, <1>a, <2>2, ConstantFacts DEF SubmitTrain
  <2>4. job["train"].status = "none"
    BY <1>1 DEF SubmitTrain, RowsInv, FieldFollows, Follows, NoField
  <2>5. JobsTyped'
    BY <1>1, <1>e, <2>4, ConstantFacts DEF SubmitTrain
  <2> QED BY <1>1, <1>a, <2>1, <2>3, <2>5 DEF SubmitTrain, RowsTyped
<1>2. ASSUME NEW e \in Later, NEW p \in Providers, NEW asked \in 0 .. MaxSeq,
             SubmitEvaluate(e, p, asked)
      PROVE  Kept'
  <2>1. PICK seq \in Rows :
          eval' = [eval EXCEPT ![e] = [NoEval EXCEPT !.status = "running",
                                         !.provider = p, !.seq = seq]]
    BY <1>2 DEF SubmitEvaluate
  <2>2. seq \in 0 .. MaxSeq
    BY ConstantFacts DEF Rows, Seqs
  <2>3. [NoEval EXCEPT !.status = "running", !.provider = p, !.seq = seq] \in EvalType
    BY <2>2, BlankTyped DEF EvalType, RowStatus
  <2>4. eval' \in [Evals -> EvalType]
    BY <1>a, <2>1, <2>3
  <2>5. eval[e].status = "none"
    BY <1>2 DEF SubmitEvaluate, NoEval
  <2>6. job[e].status = "none" /\ e \in Jobs
    BY <2>5, ConstantFacts DEF RowsInv, LaterFollow, Follows
  <2>7. job' = [job EXCEPT ![e].status = "pending"]
        /\ UNCHANGED <<caps, field, snaps, disk, exec, used>>
    BY <1>2 DEF SubmitEvaluate
  <2>8. JobsTyped'
    BY <1>e, <2>6, <2>7
  <2> QED BY <1>a, <2>4, <2>7, <2>8 DEF RowsTyped
<1>3. ASSUME NEW j \in Jobs, Cancel(j) PROVE Kept'
  <2> DEFINE row == [job[j] EXCEPT !.cancel = TRUE]
  <2>1. job' = [job EXCEPT ![j] = row] /\ exec' = [exec EXCEPT ![j] = exec[j]]
        /\ UNCHANGED <<caps, field, eval, snaps, disk, exec, used>>
    BY <1>a, <1>3 DEF Cancel
  <2>2. row \in JobType /\ row.status = job[j].status /\ row.tries = job[j].tries
    BY <1>a, <1>c DEF JobType
  <2> HIDE DEF row
  <2>3. Counted(job[j], exec[j], used.crash + used.resume)
        /\ exec[j] \in ExecType /\ ((exec[j].pc # "idle") <=> (row.status = "running"))
    BY <1>a, <2>2
  <2>4. Counted(row, exec[j], used.crash + used.resume)
    BY <2>2, <2>3 DEF Counted
  <2>5. JobsTyped'
    BY <2>1, <2>2, <2>3, <2>4, FreeMove
  <2> QED BY <1>a, <2>1, <2>5 DEF RowsTyped
<1>4. ASSUME NEW j \in Jobs, Resume(j) PROVE Kept'
  <2> DEFINE row == [job[j] EXCEPT !.status = "pending", !.cancel = FALSE]
  <2>1. /\ job' = [job EXCEPT ![j] = row] /\ exec' = [exec EXCEPT ![j] = exec[j]]
        /\ UNCHANGED <<caps, field, eval, snaps, disk, exec>>
        /\ used.resume < MaxResumes /\ used' = [used EXCEPT !.resume = @ + 1]
        /\ job[j].status \in {"failed", "cancelled"}
    BY <1>a, <1>4 DEF Resume, Spend
  <2>2. row \in JobType /\ row.status = "pending" /\ row.tries = job[j].tries
    BY <1>a, <1>c DEF JobType
  <2> HIDE DEF row
  <2>3. used' \in UsedType /\ used'.crash = used.crash /\ used'.resume = used.resume + 1
    BY <1>a, <1>b, <2>1, ConstantFacts DEF UsedType
  <2>4. used'.crash + used'.resume = 1 + (used.crash + used.resume)
        /\ used.crash + used.resume <= used'.crash + used'.resume
    BY <1>b, <2>3, ConstantFacts
  <2>5. Counted(job[j], exec[j], used.crash + used.resume)
        /\ exec[j] \in ExecType /\ exec[j].pc = "idle"
    BY <1>a, <2>1
  <2>6. Counted(row, exec[j], used'.crash + used'.resume)
    <3> DEFINE n == used.crash + used.resume
    <3>1. n \in Nat /\ job[j].tries \in Nat
      BY <1>b, <1>d, ConstantFacts
    <3>2. job[j].tries <= 1 + n
      BY <2>5 DEF Counted
    <3> HIDE DEF n
    <3>3. row.tries <= 1 + n /\ row.tries <= 1 + (1 + n)
      BY <2>2, <3>1, <3>2
    <3> QED BY <2>2, <2>4, <3>3 DEF Counted, n
  <2>7. JobsTyped'
    BY <2>1, <2>2, <2>3, <2>4, <2>5, <2>6, JobMoves
  <2> QED BY <1>a, <2>1, <2>7 DEF RowsTyped
<1>5. ASSUME NEW o \in Offers, Toggle(o) PROVE Kept'
  <2>1. used' \in UsedType /\ used'.crash = used.crash /\ used'.resume = used.resume
    <3>1. used.toggle \in 0 .. MaxToggles /\ used.toggle < MaxToggles
          /\ used' = [used EXCEPT !.toggle = @ + 1]
      BY <1>5, <1>a DEF Toggle, Spend, UsedType
    <3>2. used.toggle + 1 \in 0 .. MaxToggles
      BY <3>1, ConstantFacts
    <3> QED BY <1>a, <3>1, <3>2 DEF UsedType
  <2>2. JobsTyped'
    BY <1>5, <1>a, <2>1 DEF Toggle, JobsTyped, TriesCounted
  <2> QED BY <1>5, <1>a, <2>2 DEF Toggle, RowsTyped
<1>6. ASSUME NEW j \in Jobs, Start(j) PROVE Kept'
  <2>0. job[j].status = "pending" /\ exec[j].pc = "idle" /\ UNCHANGED <<caps, snaps, disk, used>>
    BY <1>6, <1>a DEF Start
  <2>1. CASE job[j].cancel
    <3>1. /\ job' = [job EXCEPT ![j].status = "cancelled"] /\ StatusHook(j, "failed")
          /\ UNCHANGED exec
      BY <1>6, <2>1 DEF Start
    <3>2. field' \in FieldType /\ eval' \in [Evals -> EvalType]
      BY <3>1, HookTyped
    <3> DEFINE row == [job[j] EXCEPT !.status = "cancelled"]
    <3>3. job' = [job EXCEPT ![j] = row] /\ exec' = [exec EXCEPT ![j] = exec[j]]
      BY <1>a, <3>1
    <3>4. row \in JobType /\ row.status = "cancelled" /\ row.tries = job[j].tries
      BY <1>a DEF JobType
    <3> HIDE DEF row
    <3>5. Counted(job[j], exec[j], used.crash + used.resume) /\ exec[j] \in ExecType
      BY <1>a
    <3>6. Counted(row, exec[j], used.crash + used.resume)
      BY <2>0, <3>4, <3>5 DEF Counted
    <3>7. JobsTyped'
      BY <2>0, <3>3, <3>4, <3>5, <3>6, FreeMove
    <3> QED BY <1>a, <2>0, <3>2, <3>7 DEF RowsTyped
  <2>2. CASE ~job[j].cancel
    <3>1. /\ job' = [job EXCEPT ![j].status = "running", ![j].tries = @ + 1]
          /\ StatusHook(j, "running")
          /\ exec' = [exec EXCEPT ![j] = [Asleep EXCEPT !.pc = "run"]]
      BY <1>6, <2>2 DEF Start
    <3>2. field' \in FieldType /\ eval' \in [Evals -> EvalType]
      BY <3>1, HookTyped
    <3> DEFINE row == [job[j] EXCEPT !.status = "running", !.tries = @ + 1]
               work == [Asleep EXCEPT !.pc = "run"]
    <3>3. job' = [job EXCEPT ![j] = row]
      BY <1>a, <3>1
    <3>4. work \in ExecType /\ work.pc = "run"
      BY BlankTyped DEF ExecType
    <3>5. job[j].tries <= used.crash + used.resume
      BY <1>a, <2>0 DEF Counted
    <3>6. job[j].tries + 1 \in 0 .. MaxTries
      BY <1>b, <1>d, <3>5, ConstantFacts
    <3>7. row \in JobType /\ row.status = "running" /\ row.tries = job[j].tries + 1
      BY <1>a, <3>6 DEF JobType
    <3> HIDE DEF row, work
    <3>8. Counted(row, work, used.crash + used.resume)
      BY <1>b, <1>d, <3>4, <3>5, <3>7, ConstantFacts DEF Counted
    <3>9. JobsTyped'
      BY <2>0, <3>1, <3>3, <3>4, <3>7, <3>8, FreeMove DEF work
    <3> QED BY <1>a, <2>0, <3>2, <3>9 DEF RowsTyped
  <2> QED BY <2>1, <2>2
\* A handler comes to an end.
<1>7. ASSUME NEW j \in Jobs, NEW out \in OutType, Handled(j, out), exec[j].pc = "run",
             UNCHANGED <<job, used>>
      PROVE  JobsTyped'
  <2> DEFINE work == [pc |-> IF out.ok THEN "commit" ELSE "fail", out |-> out]
  <2>1. work \in ExecType /\ work.pc \in {"commit", "fail"}
    BY DEF ExecType
  <2>2. exec' = [exec EXCEPT ![j] = work]
    BY <1>7 DEF Handled
  <2> HIDE DEF work
  <2> QED BY <1>7, <1>g, <2>1, <2>2
<1>8. ASSUME RunStub PROVE Kept'
  <2>1. exec["train"].pc = "run" /\ UNCHANGED <<caps, field, eval, snaps, job, used>>
    BY <1>8 DEF RunStub
  <2>2. CASE disk[1].there
    <3>1. Handled("train", NoOut) /\ UNCHANGED disk
      BY <1>8, <2>2 DEF RunStub
    <3>2. JobsTyped'
      BY <1>7, <2>1, <3>1, BlankTyped, ConstantFacts
    <3> QED BY <1>a, <2>1, <3>1, <3>2 DEF RowsTyped
  <2>3. CASE ~disk[1].there
    <3> DEFINE label == IF HasCo THEN "mine" ELSE "none"
               out == [ok |-> TRUE, seq |-> 1, path |-> "managed", label |-> label]
               dir == [there |-> TRUE, cloud |-> Try("train"), summary |-> Try("train")]
    <3>1. Handled("train", out) /\ disk' = [disk EXCEPT ![1] = dir]
      BY <1>8, <2>3 DEF RunStub
    <3>2. label \in {"none", "mine", "anonymous", "other"} /\ 1 \in 0 .. MaxSeq
      BY ConstantFacts
    <3>3. dir \in DirType
      BY <1>c, <1>d, ConstantFacts DEF Try, DirType
    <3> HIDE DEF label, dir
    <3>4. out \in OutType
      BY <1>c, <3>2 DEF OutType
    <3>5. JobsTyped'
      BY <1>7, <2>1, <3>1, <3>4, ConstantFacts
    <3>6. disk' \in [Seqs -> DirType]
      BY <1>a, <3>1, <3>3
    <3> QED BY <1>a, <2>1, <3>5, <3>6 DEF RowsTyped
  <2> QED BY <2>2, <2>3
<1>9. ASSUME CallService PROVE Kept'
  <2>1. exec["train"].pc = "run" /\ UNCHANGED <<caps, field, eval, snaps, disk, job, used>>
    BY <1>9 DEF CallService
  <2>2. PICK out \in Judged[HasCo] \cup {NoOut} : Handled("train", out)
    BY <1>9 DEF CallService
  <2>3. HasCo \in BOOLEAN
    BY DEF HasCo
  <2>4. out \in OutType
    BY <2>2, <2>3, JudgedFacts, BlankTyped
  <2>5. JobsTyped'
    BY <1>7, <2>1, <2>2, <2>4, ConstantFacts
  <2> QED BY <1>a, <2>1, <2>5 DEF RowsTyped
<1>10. ASSUME NEW j \in Jobs, RunEval(j) PROVE Kept'
  <2>1. exec[j].pc = "run" /\ UNCHANGED <<caps, field, eval, snaps, disk, job, used>>
    BY <1>10 DEF RunEval
  <2>2. PICK out \in JudgedEval \cup {NoOut, [NoOut EXCEPT !.ok = TRUE, !.label = "mine"]} :
          Handled(j, out)
    BY <1>10 DEF RunEval
  <2>3. out \in OutType
    BY <2>2, EvalAnswerFacts
  <2>4. JobsTyped'
    BY <1>7, <2>1, <2>2, <2>3
  <2> QED BY <1>a, <2>1, <2>4 DEF RowsTyped
<1>11. ASSUME NEW j \in Jobs, CommitCancelled(j) PROVE Kept'
  <2>1. /\ StatusHook(j, "failed") /\ UNCHANGED <<caps, snaps, disk, used>>
        /\ job' = [job EXCEPT ![j].status = "cancelled"] /\ exec' = [exec EXCEPT ![j] = Asleep]
        /\ job[j].status = "running"
    BY <1>11, <1>a DEF CommitCancelled
  <2>2. field' \in FieldType /\ eval' \in [Evals -> EvalType]
    BY <2>1, HookTyped
  <2>3. JobsTyped'
    BY <1>f, <2>1
  <2> QED BY <1>a, <2>1, <2>2, <2>3 DEF RowsTyped
<1>12. ASSUME NEW j \in Jobs, Fail(j) PROVE Kept'
  <2>1. /\ StatusHook(j, "failed") /\ UNCHANGED <<caps, snaps, disk, used>>
        /\ job' = [job EXCEPT ![j].status = "failed"] /\ exec' = [exec EXCEPT ![j] = Asleep]
        /\ job[j].status = "running"
    BY <1>12, <1>a DEF Fail
  <2>2. field' \in FieldType /\ eval' \in [Evals -> EvalType]
    BY <2>1, HookTyped
  <2>3. JobsTyped'
    BY <1>f, <2>1
  <2> QED BY <1>a, <2>1, <2>2, <2>3 DEF RowsTyped
<1>13. ASSUME NEW j \in Jobs, Commit(j) PROVE Kept'
  <2> DEFINE out == exec[j].out
  <2>1. exec[j].pc = "commit" /\ SealEffect(j, out) /\ UNCHANGED <<caps, used>>
        /\ job[j].status = "running" /\ out \in OutType
    BY <1>13, <1>a, <1>d DEF Commit
  <2>2. disk' \in [Seqs -> DirType]
    BY <2>1, SealTyped
  <2>3. CASE ~Recordable(j, out)
    <3> DEFINE work == [exec[j] EXCEPT !.pc = "fail"]
    <3>1. exec' = [exec EXCEPT ![j] = work] /\ UNCHANGED <<job, field, eval, snaps>>
      BY <1>13, <1>a, <2>3 DEF Commit
    <3>2. work \in ExecType /\ work.pc = "fail"
      BY <1>a DEF ExecType
    <3> HIDE DEF work
    <3>3. JobsTyped'
      BY <1>g, <2>1, <3>1, <3>2
    <3> QED BY <1>a, <2>1, <2>2, <3>1, <3>3 DEF RowsTyped
  <2>4. CASE Recordable(j, out)
    <3>1. /\ exec' = [exec EXCEPT ![j] = Asleep] /\ job' = [job EXCEPT ![j].status = "succeeded"]
          /\ IF j = "train"
               THEN /\ field' = [field EXCEPT !.status = "succeeded"]
                    /\ eval' = WithResult("co", out, Try(j))
                    /\ snaps' = [snaps EXCEPT ![out.seq] = Try(j)]
               ELSE /\ eval' = WithResult(j, out, Try(j))
                    /\ UNCHANGED <<field, snaps>>
      BY <1>13, <2>4 DEF Commit
    <3>2. JobsTyped'
      BY <1>f, <2>1, <3>1
    <3>3. field' \in FieldType
      BY <1>a, <3>1 DEF FieldType, RowStatus
    <3>4. snaps' \in [Seqs -> 0 .. MaxTries]
      BY <1>a, <1>d, <3>1 DEF Try
    <3>5. ASSUME NEW e \in Evals PROVE WithResult(e, out, Try(j)) \in [Evals -> EvalType]
      <4> DEFINE row == [eval[e] EXCEPT !.status = "succeeded", !.label = out.label,
                                        !.try = Try(j)]
      <4>1. WithResult(e, out, Try(j)) = IF out.label = "none" THEN eval
                                         ELSE [eval EXCEPT ![e] = row]
        BY <1>a DEF WithResult
      <4>2. row \in EvalType
        <5>1. eval[e] \in EvalType
          BY <1>a
        <5>2. out.label \in {"none", "mine", "anonymous", "other"}
          BY <2>1 DEF OutType
        <5>3. Try(j) \in 0 .. MaxTries
          BY <1>a, <1>d DEF Try
        <5> HIDE DEF out
        <5> QED BY <5>1, <5>2, <5>3 DEF EvalType, RowStatus
      <4> HIDE DEF row
      <4> QED BY <1>a, <4>1, <4>2
    <3>6. eval' \in [Evals -> EvalType]
      BY <3>1, <3>5, ConstantFacts
    <3> QED BY <1>a, <2>1, <2>2, <3>2, <3>3, <3>4, <3>6 DEF RowsTyped
  <2> QED BY <2>3, <2>4
<1>14. ASSUME NEW j \in Jobs, Crash(j) PROVE Kept'
  <2> DEFINE work == [Asleep EXCEPT !.pc = "dead"]
  <2>1. /\ exec' = [exec EXCEPT ![j] = work] /\ UNCHANGED <<caps, field, eval, snaps, job>>
        /\ job' = [job EXCEPT ![j] = job[j]]
        /\ exec[j].pc \in {"run", "commit", "fail"} /\ job[j].status = "running"
        /\ used.crash < MaxCrashes /\ used' = [used EXCEPT !.crash = @ + 1]
    BY <1>a, <1>14 DEF Crash, Spend
  <2>2. work \in ExecType /\ work.pc = "dead"
    BY BlankTyped DEF ExecType
  <2> HIDE DEF work
  <2>3. used' \in UsedType /\ used'.crash = used.crash + 1 /\ used'.resume = used.resume
    BY <1>a, <1>b, <2>1, ConstantFacts DEF UsedType
  <2>4. used'.crash + used'.resume = 1 + (used.crash + used.resume)
        /\ used.crash + used.resume <= used'.crash + used'.resume
    BY <1>b, <2>3, ConstantFacts
  <2>5. Counted(job[j], work, used'.crash + used'.resume) /\ job[j] \in JobType
    <3> DEFINE n == used.crash + used.resume
    <3>1. n \in Nat /\ job[j].tries \in Nat /\ job[j] \in JobType
      BY <1>a, <1>b, <1>d, ConstantFacts
    <3>2. job[j].tries <= 1 + n
      BY <1>a DEF Counted
    <3> HIDE DEF n
    <3>3. job[j].tries <= 1 + n /\ job[j].tries <= 1 + (1 + n)
      BY <3>1, <3>2
    <3> QED BY <2>1, <2>4, <3>1, <3>3 DEF Counted, n
  <2>6. JobsTyped'
    BY <2>1, <2>2, <2>3, <2>4, <2>5, JobMoves
  <2>7. disk' \in [Seqs -> DirType]
    BY <1>14, <1>a, <1>d, SealTyped DEF Crash
  <2> QED BY <1>a, <2>1, <2>6, <2>7 DEF RowsTyped
<1>15. ASSUME NEW j \in Jobs, Reclaim(j) PROVE Kept'
  <2> DEFINE row == [job[j] EXCEPT !.status = "pending"]
  <2>1. /\ job' = [job EXCEPT ![j] = row] /\ exec' = [exec EXCEPT ![j] = Asleep]
        /\ UNCHANGED <<caps, field, eval, snaps, disk, used>> /\ exec[j].pc = "dead"
    BY <1>a, <1>15 DEF Reclaim
  <2>2. row \in JobType /\ row.status = "pending" /\ row.tries = job[j].tries
    BY <1>a DEF JobType
  <2> HIDE DEF row
  <2>3. Counted(job[j], exec[j], used.crash + used.resume)
    BY <1>a
  <2>4. Counted(row, Asleep, used.crash + used.resume)
    BY <2>1, <2>2, <2>3 DEF Counted
  <2>5. JobsTyped'
    BY <2>1, <2>2, <2>4, BlankTyped, FreeMove
  <2> QED BY <1>a, <2>1, <2>5 DEF RowsTyped
<1>16. ASSUME UNCHANGED vars PROVE Kept'
  BY <1>a, <1>16 DEF vars, RowsTyped, JobsTyped, TriesCounted
<1> QED
  BY <1>1, <1>2, <1>3, <1>4, <1>5, <1>6, <1>8, <1>9, <1>10, <1>11, <1>12, <1>13, <1>14,
     <1>15, <1>16
  DEF Next, Work, vars

-----------------------------------------------------------------------------
(* The rows follow the jobs. *)

\* What on_status does to each row.
LEMMA HookMeans ==
  ASSUME TypeInv, RowsInv, NEW j \in Jobs, NEW status \in {"running", "failed"},
         StatusHook(j, status)
  PROVE  /\ field'.status = IF j = "train" THEN status ELSE field.status
         /\ \A e \in Later : eval'[e].status = IF e = j THEN status ELSE eval[e].status
         /\ \A e \in Evals : eval'[e].try = eval[e].try /\ eval'[e].label = eval[e].label
         /\ ~HasCo => eval'["co"] = NoEval
         /\ HasCo => eval'["co"].status = IF j = "train" /\ status = "failed" THEN "failed"
                                          ELSE eval["co"].status
         /\ HasCo => eval'["co"].status # "none"
         /\ HasCo' <=> HasCo
<1>1. field \in FieldType /\ eval \in [Evals -> EvalType]
  BY TypeParts DEF RowsTyped
<1>2. field'.status = IF j = "train" THEN status ELSE field.status
  BY <1>1 DEF StatusHook, FieldType
<1>3. CASE j # "train"
  <2>1. eval' = [eval EXCEPT ![j].status = status] /\ j \in Later /\ j \in Evals /\ j # "co"
    BY <1>3, ConstantFacts DEF StatusHook
  <2>2. \A e \in Evals : e # j => eval'[e] = eval[e]
    BY <1>1, <2>1
  <2>3. eval'[j].status = status /\ eval'[j].try = eval[j].try /\ eval'[j].label = eval[j].label
    BY <1>1, <2>1 DEF EvalType
  <2>4. eval'["co"] = eval["co"]
    BY <2>1, <2>2, ConstantFacts
  <2>5. HasCo => eval["co"].status # "none"
    BY DEF RowsInv, CoFollows, HasCo
  <2> QED BY <1>2, <1>3, <2>2, <2>3, <2>4, <2>5, ConstantFacts DEF HasCo
<1>4. CASE j = "train" /\ HasCo /\ status = "failed"
  <2>1. eval' = [eval EXCEPT !["co"].status = status]
    BY <1>4 DEF StatusHook
  <2>2. \A e \in Evals : e # "co" => eval'[e] = eval[e]
    BY <1>1, <2>1
  <2>3. eval'["co"].status = "failed" /\ eval'["co"].try = eval["co"].try
        /\ eval'["co"].label = eval["co"].label
    BY <1>1, <1>4, <2>1, ConstantFacts DEF EvalType
  <2>4. HasCo'
    BY <2>3 DEF HasCo, NoEval
  <2> QED BY <1>2, <1>4, <2>2, <2>3, <2>4, ConstantFacts
<1>5. CASE j = "train" /\ ~(HasCo /\ status = "failed")
  <2>1. eval' = eval
    BY <1>5 DEF StatusHook
  <2>2. HasCo => eval["co"].status # "none"
    BY DEF RowsInv, CoFollows, HasCo
  <2> QED BY <1>2, <1>5, <2>1, <2>2, ConstantFacts DEF HasCo
<1> QED BY <1>3, <1>4, <1>5

\* The outputs a worker holds stay judged when it is the only one that moves, and the
\* evaluation submitted with the training is still there.
LEMMA OutputsStay ==
  ASSUME TypeInv, RowsInv, NEW j \in Jobs, NEW work,
         exec' = [exec EXCEPT ![j] = work], work.pc # "commit", HasCo' <=> HasCo
  PROVE  OutputsJudged'
<1>1. exec \in [Jobs -> ExecType]
  BY TypeParts DEF JobsTyped
<1>2. \A k \in Jobs : k # j => exec'[k] = exec[k]
  BY <1>1
<1>3. exec'[j].pc # "commit"
  BY <1>1
<1> QED BY <1>2, <1>3 DEF RowsInv, OutputsJudged

\* The job fails or is cancelled, and says so to its rows.
LEMMA FailureFollows ==
  ASSUME TypeInv, RowsInv, NEW j \in Jobs, NEW status \in {"failed", "cancelled"},
         job[j].status \in {"pending", "running"},
         job' = [job EXCEPT ![j].status = status], StatusHook(j, "failed"),
         NEW work, exec' = [exec EXCEPT ![j] = work], work.pc # "commit", UNCHANGED snaps
  PROVE  RowsInv'
<1>1. job \in [Jobs -> JobType]
  BY TypeParts DEF JobsTyped
<1>2. /\ job'[j].status = status
      /\ \A k \in Jobs : k # j => job'[k].status = job[k].status
      /\ \A k \in Jobs : job'[k].tries = job[k].tries
  BY <1>1 DEF JobType
<1>3. /\ field'.status = IF j = "train" THEN "failed" ELSE field.status
      /\ \A e \in Later : eval'[e].status = IF e = j THEN "failed" ELSE eval[e].status
      /\ \A e \in Evals : eval'[e].try = eval[e].try /\ eval'[e].label = eval[e].label
      /\ ~HasCo => eval'["co"] = NoEval
      /\ HasCo => eval'["co"].status = IF j = "train" THEN "failed" ELSE eval["co"].status
      /\ HasCo => eval'["co"].status # "none"
      /\ HasCo' <=> HasCo
  BY HookMeans
<1>4. FieldFollows'
  BY <1>2, <1>3, ConstantFacts DEF RowsInv, FieldFollows, Follows
<1>5. LaterFollow'
  BY <1>2, <1>3, ConstantFacts DEF RowsInv, LaterFollow, Follows
<1>6. CoFollows'
  BY <1>2, <1>3, ConstantFacts DEF RowsInv, CoFollows, Follows, HasCo
<1>7. MetricsCurrent'
  <2> SUFFICES ASSUME NEW e \in Evals, eval'[e].status = "succeeded"
               PROVE  /\ eval'[e].try = job'[IF e = "co" THEN "train" ELSE e].tries
                      /\ eval'[e].label \in {"mine", "anonymous"}
    BY DEF MetricsCurrent
  <2>1. e = "co" \/ e \in Later
    BY DEF Evals
  <2>2. eval[e].status = "succeeded"
    BY <1>3, <2>1 DEF HasCo, NoEval
  <2>3. eval[e].try = job[IF e = "co" THEN "train" ELSE e].tries
        /\ eval[e].label \in {"mine", "anonymous"}
    BY <2>2 DEF RowsInv, MetricsCurrent
  <2> QED BY <1>2, <1>3, <2>1, <2>3, ConstantFacts
<1>8. OutputsJudged'
  BY <1>3, OutputsStay
<1>9. RowsAreFinal'
  BY <1>2, ConstantFacts DEF RowsInv, RowsAreFinal
<1> QED BY <1>4, <1>5, <1>6, <1>7, <1>8, <1>9 DEF RowsInv

\* The rows stay, and a job at most becomes pending again.
LEMMA RowsStay ==
  ASSUME TypeInv, RowsInv, UNCHANGED <<field, eval, snaps>>,
         \A k \in Jobs : /\ job'[k].tries = job[k].tries
                         /\ \/ job'[k].status = job[k].status
                            \/ /\ job[k].status \in {"running", "failed", "cancelled"}
                               /\ job'[k].status = "pending",
         OutputsJudged'
  PROVE  RowsInv'
<1>1. FieldFollows'
  BY ConstantFacts DEF RowsInv, FieldFollows, Follows
<1>2. LaterFollow'
  BY ConstantFacts DEF RowsInv, LaterFollow, Follows
<1>3. CoFollows'
  BY ConstantFacts DEF RowsInv, CoFollows, Follows
<1>4. MetricsCurrent'
  BY ConstantFacts DEF RowsInv, MetricsCurrent, Evals
<1>5. RowsAreFinal'
  BY ConstantFacts DEF RowsInv, RowsAreFinal
<1> QED BY <1>1, <1>2, <1>3, <1>4, <1>5 DEF RowsInv

LEMMA RowsInit == Init => RowsInv
<1> SUFFICES ASSUME Init PROVE RowsInv
  OBVIOUS
<1>1. /\ job["train"].status = "none" /\ field.status = "none" /\ eval["co"] = NoEval
      /\ \A e \in Later : job[e].status = "none" /\ eval[e].status = "none"
      /\ \A e \in Evals : eval[e].status = "none"
      /\ \A j \in Jobs : exec[j].pc = "idle"
      /\ \A s \in Seqs : snaps[s] = 0
  BY ConstantFacts, BlankTyped DEF Init, NoField, NoEval
<1>2. FieldFollows /\ LaterFollow /\ CoFollows
  BY <1>1 DEF FieldFollows, LaterFollow, CoFollows, Follows
<1>3. MetricsCurrent /\ OutputsJudged /\ RowsAreFinal
  BY <1>1 DEF MetricsCurrent, OutputsJudged, RowsAreFinal
<1> QED BY <1>2, <1>3 DEF RowsInv

LEMMA RowsStep ==
  ASSUME TypeInv, RowsInv, [Next]_vars
  PROVE  RowsInv'
<1>a. /\ field \in FieldType /\ eval \in [Evals -> EvalType]
      /\ snaps \in [Seqs -> 0 .. MaxTries]
      /\ job \in [Jobs -> JobType] /\ exec \in [Jobs -> ExecType]
      /\ \A j \in Jobs : (exec[j].pc # "idle") <=> (job[j].status = "running")
  BY TypeParts DEF RowsTyped, JobsTyped
<1>b. FieldFollows /\ LaterFollow /\ CoFollows /\ MetricsCurrent /\ OutputsJudged /\ RowsAreFinal
  BY DEF RowsInv
<1>1. ASSUME NEW p \in Providers, NEW w \in {"off", "late", "final"}, SubmitTrain(p, w)
      PROVE  RowsInv'
  <2>1. job["train"].status = "none"
    BY <1>1, <1>b DEF SubmitTrain, FieldFollows, Follows, NoField
  <2>2. eval["co"] = NoEval
    BY <1>b, <2>1 DEF CoFollows, Follows
  <2>3. /\ job'["train"].status = "pending" /\ job'["train"].tries = job["train"].tries
        /\ \A k \in Jobs : k # "train" => job'[k] = job[k]
    BY <1>1, <1>a, ConstantFacts DEF SubmitTrain, JobType
  <2>4. /\ \A e \in Evals : e # "co" => eval'[e] = eval[e]
        /\ eval'["co"] = NoEval \/ eval'["co"].status = "running"
    BY <1>1, <1>a, <2>2, ConstantFacts DEF SubmitTrain, NoEval
  <2>5. field'.status = "running" /\ UNCHANGED <<snaps, exec>>
    BY <1>1 DEF SubmitTrain
  <2>6. FieldFollows'
    BY <2>3, <2>5 DEF FieldFollows, Follows
  <2>7. LaterFollow'
    BY <1>b, <2>3, <2>4, ConstantFacts DEF LaterFollow
  <2>8. CoFollows'
    BY <2>3, <2>4 DEF CoFollows, Follows
  <2>9. MetricsCurrent'
    <3> SUFFICES ASSUME NEW e \in Evals, eval'[e].status = "succeeded"
                 PROVE  /\ eval'[e].try = job'[IF e = "co" THEN "train" ELSE e].tries
                        /\ eval'[e].label \in {"mine", "anonymous"}
      BY DEF MetricsCurrent
    <3>1. e # "co" /\ e \in Later
      BY <2>4 DEF NoEval, Evals
    <3>2. eval'[e] = eval[e] /\ job'[e] = job[e]
      BY <2>3, <2>4, <3>1, ConstantFacts
    <3> QED BY <1>b, <3>1, <3>2 DEF MetricsCurrent
  <2>10. OutputsJudged'
    <3>1. exec["train"].pc = "idle"
      BY <1>a, <2>1, ConstantFacts
    <3> QED BY <1>b, <2>5, <3>1 DEF OutputsJudged
  <2>11. RowsAreFinal'
    BY <1>b, <2>1, <2>5 DEF RowsAreFinal
  <2> QED BY <2>6, <2>7, <2>8, <2>9, <2>10, <2>11 DEF RowsInv
<1>2. ASSUME NEW e \in Later, NEW p \in Providers, NEW asked \in 0 .. MaxSeq,
             SubmitEvaluate(e, p, asked)
      PROVE  RowsInv'
  <2>0. e \in Jobs /\ e \in Evals /\ e # "co" /\ e # "train"
    BY ConstantFacts
  <2>1. /\ eval'[e].status = "running" /\ \A d \in Evals : d # e => eval'[d] = eval[d]
    BY <1>2, <1>a, <2>0 DEF SubmitEvaluate, NoEval
  <2>2. /\ job'[e].status = "pending" /\ \A k \in Jobs : k # e => job'[k] = job[k]
    BY <1>2, <1>a, <2>0 DEF SubmitEvaluate
  <2>3. UNCHANGED <<field, snaps, exec>>
    BY <1>2 DEF SubmitEvaluate
  <2>4. eval'["co"] = eval["co"] /\ job'["train"] = job["train"]
    BY <2>0, <2>1, <2>2, ConstantFacts
  <2>5. FieldFollows' /\ CoFollows' /\ RowsAreFinal'
    BY <1>b, <2>3, <2>4 DEF FieldFollows, CoFollows, RowsAreFinal
  <2>6. LaterFollow'
    BY <1>b, <2>1, <2>2, ConstantFacts DEF LaterFollow, Follows
  <2>7. MetricsCurrent'
    <3> SUFFICES ASSUME NEW d \in Evals, eval'[d].status = "succeeded"
                 PROVE  /\ eval'[d].try = job'[IF d = "co" THEN "train" ELSE d].tries
                        /\ eval'[d].label \in {"mine", "anonymous"}
      BY DEF MetricsCurrent
    <3>1. d # e
      BY <2>1
    <3>2. eval'[d] = eval[d]
          /\ job'[IF d = "co" THEN "train" ELSE d] = job[IF d = "co" THEN "train" ELSE d]
      BY <2>0, <2>1, <2>2, <2>4, <3>1, ConstantFacts DEF Evals
    <3> QED BY <1>b, <3>2 DEF MetricsCurrent
  <2>8. OutputsJudged'
    BY <1>b, <2>3, <2>4 DEF OutputsJudged, HasCo
  <2> QED BY <2>5, <2>6, <2>7, <2>8 DEF RowsInv
<1>3. ASSUME NEW j \in Jobs, Cancel(j) PROVE RowsInv'
  <2>1. \A k \in Jobs : job'[k].tries = job[k].tries /\ job'[k].status = job[k].status
    BY <1>3, <1>a DEF Cancel, JobType
  <2>2. UNCHANGED <<field, eval, snaps>>
    BY <1>3 DEF Cancel
  <2>3. OutputsJudged'
    BY <1>3, <1>b DEF Cancel, OutputsJudged, HasCo
  <2> QED BY <2>1, <2>2, <2>3, RowsStay
<1>4. ASSUME NEW j \in Jobs, Resume(j) PROVE RowsInv'
  <2>1. \A k \in Jobs : /\ job'[k].tries = job[k].tries
                        /\ \/ job'[k].status = job[k].status
                           \/ /\ job[k].status \in {"running", "failed", "cancelled"}
                              /\ job'[k].status = "pending"
    BY <1>4, <1>a DEF Resume, JobType
  <2>2. UNCHANGED <<field, eval, snaps>>
    BY <1>4 DEF Resume
  <2>3. OutputsJudged'
    BY <1>4, <1>b DEF Resume, OutputsJudged, HasCo
  <2> QED BY <2>1, <2>2, <2>3, RowsStay
<1>5. ASSUME NEW o \in Offers, Toggle(o) PROVE RowsInv'
  <2>1. OutputsJudged'
    BY <1>5, <1>b DEF Toggle, OutputsJudged, HasCo
  <2>2. UNCHANGED <<field, eval, snaps, job>>
    BY <1>5 DEF Toggle
  <2> QED BY <2>1, <2>2, RowsStay
<1>6. ASSUME NEW j \in Jobs, Start(j) PROVE RowsInv'
  <2>0. job[j].status = "pending" /\ exec[j].pc = "idle" /\ UNCHANGED <<snaps>>
    BY <1>6, <1>a DEF Start
  <2>1. CASE job[j].cancel
    <3>1. /\ job' = [job EXCEPT ![j].status = "cancelled"] /\ StatusHook(j, "failed")
          /\ exec' = [exec EXCEPT ![j] = exec[j]]
      BY <1>6, <1>a, <2>1 DEF Start
    <3> QED BY <2>0, <3>1, FailureFollows
  <2>2. CASE ~job[j].cancel
    <3>1. /\ job' = [job EXCEPT ![j].status = "running", ![j].tries = @ + 1]
          /\ StatusHook(j, "running")
          /\ exec' = [exec EXCEPT ![j] = [Asleep EXCEPT !.pc = "run"]]
      BY <1>6, <2>2 DEF Start
    <3>2. /\ job'[j].status = "running" /\ \A k \in Jobs : k # j => job'[k] = job[k]
      BY <1>a, <3>1 DEF JobType
    <3>3. /\ field'.status = IF j = "train" THEN "running" ELSE field.status
          /\ \A e \in Later : eval'[e].status = IF e = j THEN "running" ELSE eval[e].status
          /\ \A e \in Evals : eval'[e].try = eval[e].try /\ eval'[e].label = eval[e].label
          /\ ~HasCo => eval'["co"] = NoEval
          /\ HasCo => eval'["co"].status = eval["co"].status
          /\ HasCo => eval'["co"].status # "none"
          /\ HasCo' <=> HasCo
      BY <3>1, HookMeans
    <3>4. FieldFollows'
      BY <1>b, <3>2, <3>3, ConstantFacts DEF FieldFollows, Follows
    <3>5. LaterFollow'
      BY <1>b, <3>2, <3>3, ConstantFacts DEF LaterFollow, Follows
    <3>6. CoFollows'
      BY <1>b, <2>0, <3>2, <3>3, ConstantFacts DEF CoFollows, Follows, HasCo
    <3>7. MetricsCurrent'
      <4> SUFFICES ASSUME NEW e \in Evals, eval'[e].status = "succeeded"
                   PROVE  /\ eval'[e].try = job'[IF e = "co" THEN "train" ELSE e].tries
                          /\ eval'[e].label \in {"mine", "anonymous"}
        BY DEF MetricsCurrent
      <4> DEFINE k == IF e = "co" THEN "train" ELSE e
      <4>1. e = "co" \/ e \in Later
        BY DEF Evals
      <4>2. eval[e].status = "succeeded"
        BY <3>3, <4>1 DEF HasCo, NoEval
      <4>3. job[k].status # "pending" /\ k \in Jobs
        BY <1>b, <4>1, <4>2, ConstantFacts DEF LaterFollow, CoFollows, Follows, NoEval
      <4>4. job'[k] = job[k]
        BY <2>0, <3>2, <4>3
      <4>5. eval[e].try = job[k].tries /\ eval[e].label \in {"mine", "anonymous"}
        BY <1>b, <4>2 DEF MetricsCurrent
      <4> QED BY <3>3, <4>4, <4>5
    <3>8. [Asleep EXCEPT !.pc = "run"].pc # "commit"
      BY DEF Asleep
    <3>9. OutputsJudged'
      BY <3>1, <3>3, <3>8, OutputsStay
    <3>10. RowsAreFinal'
      BY <1>b, <2>0, <3>2, ConstantFacts DEF RowsAreFinal
    <3> QED BY <3>4, <3>5, <3>6, <3>7, <3>9, <3>10 DEF RowsInv
  <2> QED BY <2>1, <2>2
\* A handler comes to an end, with outputs that were judged.
<1>7. ASSUME NEW j \in Jobs, NEW out, Handled(j, out),
             out.ok => IF j # "train" THEN out.label = "mine"
                       ELSE out.label \in IF HasCo THEN {"mine", "anonymous"} ELSE {"none"},
             UNCHANGED <<field, eval, snaps, job>>
      PROVE  RowsInv'
  <2> DEFINE work == [pc |-> IF out.ok THEN "commit" ELSE "fail", out |-> out]
  <2>1. exec'[j] = work /\ \A k \in Jobs : k # j => exec'[k] = exec[k]
    BY <1>7, <1>a DEF Handled
  <2>2. work.out = out /\ (work.pc = "commit" => out.ok)
    OBVIOUS
  <2>3. HasCo' <=> HasCo
    BY <1>7 DEF HasCo
  <2> HIDE DEF work
  <2>4. OutputsJudged'
    BY <1>7, <1>b, <2>1, <2>2, <2>3 DEF OutputsJudged
  <2> QED BY <1>7, <2>4, RowsStay
<1>8. ASSUME RunStub PROVE RowsInv'
  <2>1. UNCHANGED <<field, eval, snaps, job>>
    BY <1>8 DEF RunStub
  <2>2. CASE disk[1].there
    <3>1. Handled("train", NoOut) /\ ~NoOut.ok
      BY <1>8, <2>2 DEF RunStub, NoOut
    <3> QED BY <1>7, <2>1, <3>1, ConstantFacts
  <2>3. CASE ~disk[1].there
    <3> DEFINE label == IF HasCo THEN "mine" ELSE "none"
               out == [ok |-> TRUE, seq |-> 1, path |-> "managed", label |-> label]
    <3>1. Handled("train", out)
      BY <1>8, <2>3 DEF RunStub
    <3>2. out.label = label /\ label \in IF HasCo THEN {"mine", "anonymous"} ELSE {"none"}
      OBVIOUS
    <3> HIDE DEF out
    <3> QED BY <1>7, <2>1, <3>1, <3>2, ConstantFacts
  <2> QED BY <2>2, <2>3
<1>9. ASSUME CallService PROVE RowsInv'
  <2>1. UNCHANGED <<field, eval, snaps, job>>
    BY <1>9 DEF CallService
  <2>2. PICK out \in Judged[HasCo] \cup {NoOut} : Handled("train", out)
    BY <1>9 DEF CallService
  <2>3. HasCo \in BOOLEAN
    BY DEF HasCo
  <2>4. out.ok => out.label \in IF HasCo THEN {"mine", "anonymous"} ELSE {"none"}
    <3>1. CASE out = NoOut
      BY <3>1 DEF NoOut
    <3>2. CASE out \in Judged[HasCo]
      BY <2>3, <3>2, JudgedFacts
    <3> QED BY <2>2, <3>1, <3>2
  <2> QED BY <1>7, <2>1, <2>2, <2>4, ConstantFacts
<1>10. ASSUME NEW j \in Jobs, j # "train", RunEval(j) PROVE RowsInv'
  <2>1. UNCHANGED <<field, eval, snaps, job>>
    BY <1>10 DEF RunEval
  <2>2. PICK out \in JudgedEval \cup {NoOut, [NoOut EXCEPT !.ok = TRUE, !.label = "mine"]} :
          Handled(j, out)
    BY <1>10 DEF RunEval
  <2>3. out.ok => out.label = "mine"
    BY <2>2, EvalAnswerFacts
  <2> QED BY <1>7, <1>10, <2>1, <2>2, <2>3
<1>11. ASSUME NEW j \in Jobs, CommitCancelled(j) PROVE RowsInv'
  <2>1. /\ StatusHook(j, "failed") /\ UNCHANGED snaps
        /\ job' = [job EXCEPT ![j].status = "cancelled"] /\ exec' = [exec EXCEPT ![j] = Asleep]
        /\ job[j].status = "running" /\ Asleep.pc # "commit"
    BY <1>11, <1>a, BlankTyped DEF CommitCancelled
  <2> QED BY <2>1, FailureFollows
<1>12. ASSUME NEW j \in Jobs, Fail(j) PROVE RowsInv'
  <2>1. /\ StatusHook(j, "failed") /\ UNCHANGED snaps
        /\ job' = [job EXCEPT ![j].status = "failed"] /\ exec' = [exec EXCEPT ![j] = Asleep]
        /\ job[j].status = "running" /\ Asleep.pc # "commit"
    BY <1>12, <1>a, BlankTyped DEF Fail
  <2> QED BY <2>1, FailureFollows
<1>13. ASSUME NEW j \in Jobs, Commit(j) PROVE RowsInv'
  <2> DEFINE out == exec[j].out
  <2>1. exec[j].pc = "commit" /\ job[j].status = "running" /\ out \in OutType
    BY <1>13, <1>a DEF Commit, ExecType
  <2>2. CASE ~Recordable(j, out)
    <3> DEFINE work == [exec[j] EXCEPT !.pc = "fail"]
    <3>1. exec' = [exec EXCEPT ![j] = work] /\ UNCHANGED <<job, field, eval, snaps>>
      BY <1>13, <1>a, <2>2 DEF Commit
    <3>2. work.pc # "commit" /\ (HasCo' <=> HasCo)
      BY <1>a, <3>1 DEF ExecType, HasCo
    <3> HIDE DEF work
    <3>3. OutputsJudged'
      BY <3>1, <3>2, OutputsStay
    <3> QED BY <3>1, <3>3, RowsStay
  <2>3. CASE Recordable(j, out) /\ j = "train"
    <3>1. /\ exec' = [exec EXCEPT ![j] = Asleep] /\ job' = [job EXCEPT ![j].status = "succeeded"]
          /\ field' = [field EXCEPT !.status = "succeeded"]
          /\ eval' = WithResult("co", out, Try(j))
      BY <1>13, <2>3 DEF Commit
    <3>2. /\ job'["train"].status = "succeeded" /\ job'["train"].tries = job["train"].tries
          /\ \A k \in Jobs : k # "train" => job'[k] = job[k]
          /\ field'.status = "succeeded"
      BY <1>a, <2>3, <3>1 DEF JobType, FieldType
    <3>3. out.label \in IF HasCo THEN {"mine", "anonymous"} ELSE {"none"}
      BY <1>b, <2>1, <2>3 DEF OutputsJudged
    <3>4. \A e \in Evals : e # "co" => eval'[e] = eval[e]
      BY <1>a, <3>1 DEF WithResult
    <3>5. ~HasCo => eval' = eval /\ eval'["co"] = NoEval
      BY <3>1, <3>3 DEF WithResult, HasCo
    <3>6. HasCo => /\ eval'["co"].status = "succeeded" /\ eval'["co"].try = job["train"].tries
                   /\ eval'["co"].label \in {"mine", "anonymous"}
      BY <1>a, <2>3, <3>1, <3>3, ConstantFacts DEF WithResult, Try, EvalType
    <3>7. HasCo' <=> HasCo
      BY <3>5, <3>6 DEF HasCo, NoEval
    <3>8. FieldFollows'
      BY <3>2 DEF FieldFollows, Follows
    <3>9. LaterFollow'
      BY <1>b, <3>2, <3>4, ConstantFacts DEF LaterFollow
    <3>10. CoFollows'
      BY <3>2, <3>5, <3>6 DEF CoFollows, Follows
    <3>11. MetricsCurrent'
      <4> SUFFICES ASSUME NEW e \in Evals, eval'[e].status = "succeeded"
                   PROVE  /\ eval'[e].try = job'[IF e = "co" THEN "train" ELSE e].tries
                          /\ eval'[e].label \in {"mine", "anonymous"}
        BY DEF MetricsCurrent
      <4>1. CASE e = "co"
        BY <3>2, <3>5, <3>6, <4>1 DEF NoEval
      <4>2. CASE e # "co"
        <5>1. eval'[e] = eval[e] /\ e \in Later
          BY <3>4, <4>2 DEF Evals
        <5>2. job'[e] = job[e]
          BY <3>2, <5>1, ConstantFacts
        <5> QED BY <1>b, <4>2, <5>1, <5>2 DEF MetricsCurrent
      <4> QED BY <4>1, <4>2
    <3>12. OutputsJudged'
      BY <3>1, <3>7, OutputsStay, BlankTyped
    <3>13. RowsAreFinal'
      BY <3>2 DEF RowsAreFinal
    <3> QED BY <3>8, <3>9, <3>10, <3>11, <3>12, <3>13 DEF RowsInv
  <2>4. CASE Recordable(j, out) /\ j # "train"
    <3>0. j \in Later /\ j \in Evals /\ j # "co"
      BY <2>4, ConstantFacts
    <3>1. /\ exec' = [exec EXCEPT ![j] = Asleep] /\ job' = [job EXCEPT ![j].status = "succeeded"]
          /\ eval' = WithResult(j, out, Try(j)) /\ UNCHANGED <<field, snaps>>
      BY <1>13, <2>4 DEF Commit
    <3>2. /\ job'[j].status = "succeeded" /\ job'[j].tries = job[j].tries
          /\ \A k \in Jobs : k # j => job'[k] = job[k]
      BY <1>a, <3>1 DEF JobType
    <3>3. out.label = "mine"
      BY <1>b, <2>1, <2>4 DEF OutputsJudged
    <3>4. \A e \in Evals : e # j => eval'[e] = eval[e]
      BY <1>a, <3>1 DEF WithResult
    <3>5. eval'[j].status = "succeeded" /\ eval'[j].try = job[j].tries /\ eval'[j].label = "mine"
      BY <1>a, <3>0, <3>1, <3>3 DEF WithResult, Try, EvalType
    <3>6. eval'["co"] = eval["co"] /\ job'["train"] = job["train"]
      BY <2>4, <3>0, <3>2, <3>4, ConstantFacts
    <3>7. FieldFollows' /\ CoFollows' /\ RowsAreFinal'
      BY <1>b, <3>1, <3>6 DEF FieldFollows, CoFollows, RowsAreFinal
    <3>8. LaterFollow'
      BY <1>b, <3>2, <3>4, <3>5, ConstantFacts DEF LaterFollow, Follows
    <3>9. MetricsCurrent'
      <4> SUFFICES ASSUME NEW e \in Evals, eval'[e].status = "succeeded"
                   PROVE  /\ eval'[e].try = job'[IF e = "co" THEN "train" ELSE e].tries
                          /\ eval'[e].label \in {"mine", "anonymous"}
        BY DEF MetricsCurrent
      <4>1. CASE e = j
        BY <3>0, <3>2, <3>5, <4>1
      <4>2. CASE e # j
        <5>1. eval'[e] = eval[e]
              /\ job'[IF e = "co" THEN "train" ELSE e] = job[IF e = "co" THEN "train" ELSE e]
          BY <3>2, <3>4, <3>6, <4>2, ConstantFacts DEF Evals
        <5> QED BY <1>b, <5>1 DEF MetricsCurrent
      <4> QED BY <4>1, <4>2
    <3>10. HasCo' <=> HasCo
      BY <3>6 DEF HasCo
    <3>11. OutputsJudged'
      BY <3>1, <3>10, OutputsStay, BlankTyped
    <3> QED BY <3>7, <3>8, <3>9, <3>11 DEF RowsInv
  <2> QED BY <2>2, <2>3, <2>4
<1>14. ASSUME NEW j \in Jobs, Crash(j) PROVE RowsInv'
  <2>1. exec' = [exec EXCEPT ![j] = [Asleep EXCEPT !.pc = "dead"]]
        /\ UNCHANGED <<field, eval, snaps, job>>
    BY <1>14 DEF Crash
  <2>2. [Asleep EXCEPT !.pc = "dead"].pc # "commit" /\ (HasCo' <=> HasCo)
    BY <2>1 DEF Asleep, HasCo
  <2>3. OutputsJudged'
    BY <2>1, <2>2, OutputsStay
  <2> QED BY <2>1, <2>3, RowsStay
<1>15. ASSUME NEW j \in Jobs, Reclaim(j) PROVE RowsInv'
  <2>1. exec' = [exec EXCEPT ![j] = Asleep] /\ UNCHANGED <<field, eval, snaps>>
        /\ Asleep.pc # "commit"
    BY <1>15, BlankTyped DEF Reclaim
  <2>2. HasCo' <=> HasCo
    BY <2>1 DEF HasCo
  <2>3. \A k \in Jobs : /\ job'[k].tries = job[k].tries
                        /\ \/ job'[k].status = job[k].status
                           \/ /\ job[k].status \in {"running", "failed", "cancelled"}
                              /\ job'[k].status = "pending"
    BY <1>15, <1>a DEF Reclaim, JobType
  <2>4. OutputsJudged'
    BY <2>1, <2>2, OutputsStay
  <2> QED BY <2>1, <2>3, <2>4, RowsStay
<1>16. ASSUME UNCHANGED vars PROVE RowsInv'
  <2>1. OutputsJudged'
    BY <1>16, <1>b DEF vars, OutputsJudged, HasCo
  <2> QED BY <1>16, <2>1, RowsStay DEF vars
<1> QED
  BY <1>1, <1>2, <1>3, <1>4, <1>5, <1>6, <1>8, <1>9, <1>10, <1>11, <1>12, <1>13, <1>14,
     <1>15, <1>16
  DEF Next, Work, vars

-----------------------------------------------------------------------------
(* The theorems. *)

RadianceInv == TypeInv /\ RowsInv

LEMMA RadianceInvariant == Spec => []RadianceInv
<1>1. Init => RadianceInv
  BY TypeInit, RowsInit DEF RadianceInv
<1>2. RadianceInv /\ [Next]_vars => RadianceInv'
  <2> SUFFICES ASSUME TypeInv, RowsInv, [Next]_vars PROVE RadianceInv'
    BY DEF RadianceInv
  <2>1. RowsTyped' /\ JobsTyped'
    BY TypeStep
  <2>2. RowsInv'
    BY RowsStep
  <2>3. TypeInv'
    BY <2>1 DEF TypeInv, TypeOK, RowsTyped, JobsTyped,
                FieldType, EvalType, DirType, JobType, ExecType
  <2> QED BY <2>2, <2>3 DEF RadianceInv
<1> QED BY <1>1, <1>2, PTL DEF Spec

\* Every row, directory and execution has its shape, exactly the running jobs have a
\* worker, and no job is executed more often than once and once more for every crash
\* and every resumption.
THEOREM TypeCorrect == Spec => []TypeOK
<1>1. RadianceInv => TypeOK
  BY DEF RadianceInv, TypeInv
<1> QED BY <1>1, RadianceInvariant, PTL

\* Through any crashes, cancellations, resumptions, and whatever a service answers, the
\* field and every evaluation say what became of the job behind them, and metrics are
\* those of its last execution.
THEOREM RowsSayWhatHappened == Spec => []RowsAgree
<1>1. RadianceInv => RowsAgree
  <2> SUFFICES ASSUME RadianceInv PROVE RowsAgree
    OBVIOUS
  <2>1. FieldFollows /\ LaterFollow /\ CoFollows /\ MetricsCurrent
        /\ job \in [Jobs -> JobType]
    BY TypeParts DEF RadianceInv, RowsInv, JobsTyped
  <2>2. \A j \in Jobs : job[j].status \in {"none", "pending", "running", "succeeded",
                                           "failed", "cancelled"}
    BY <2>1 DEF JobType
  <2>3. ASSUME NEW e \in Evals, eval[e] # NoEval
        PROVE  LET j == IF e = "co" THEN "train" ELSE e
               IN  /\ (eval[e].status = "succeeded") <=> (job[j].status = "succeeded")
                   /\ eval[e].status = "succeeded" => eval[e].try = job[j].tries
                   /\ eval[e].status = "succeeded" => eval[e].label \in {"mine", "anonymous"}
                   /\ job[j].status \in {"failed", "cancelled"} => eval[e].status = "failed"
    <3> DEFINE j == IF e = "co" THEN "train" ELSE e
    <3>1. Follows(job[j].status, eval[e].status) /\ j \in Jobs
      BY <2>1, <2>3, ConstantFacts DEF LaterFollow, CoFollows, Evals
    <3>2. eval[e].status = "succeeded" =>
            eval[e].try = job[j].tries /\ eval[e].label \in {"mine", "anonymous"}
      BY <2>1 DEF MetricsCurrent
    <3> HIDE DEF j
    <3>3. (eval[e].status = "succeeded") <=> (job[j].status = "succeeded")
      BY <2>2, <3>1 DEF Follows
    <3> QED BY <3>1, <3>2, <3>3 DEF Follows, j
  <2>4. (field.status = "succeeded") <=> (job["train"].status = "succeeded")
    BY <2>1, <2>2, ConstantFacts DEF FieldFollows, Follows
  <2> QED BY <2>1, <2>3, <2>4 DEF RowsAgree, FieldFollows, Follows
<1> QED BY <1>1, RadianceInvariant, PTL

\* Whatever executions fail, die or are repeated, none writes a file that a client could
\* read: rows appear only with the success of the training, after which nothing of it
\* runs again.
THEOREM ServedFilesStay == Spec => ServedImmutable
<1> DEFINE Stay == \A s \in Seqs, name \in {"cloud", "summary"} :
                     Readable(s, name) => disk'[s][name] = disk[s][name]
<1>1. RadianceInv /\ [Next]_vars => [Stay]_vars
  <2> SUFFICES ASSUME RadianceInv, [Next]_vars,
                      NEW s \in Seqs, NEW name \in {"cloud", "summary"}, Readable(s, name)
               PROVE  disk' = disk
    OBVIOUS
  <2>1. job["train"].status = "succeeded"
    BY DEF Readable, Rows, RadianceInv, RowsInv, RowsAreFinal
  <2>2. exec["train"].pc = "idle"
    BY <2>1, TypeParts, ConstantFacts DEF RadianceInv, JobsTyped
  <2>3. ASSUME NEW j \in Jobs, Commit(j) PROVE disk' = disk
    BY <2>2, <2>3 DEF Commit, SealEffect
  <2>4. ASSUME NEW j \in Jobs, Crash(j) PROVE disk' = disk
    BY <2>2, <2>4 DEF Crash, SealEffect
  <2>5. ~RunStub /\ ~CallService
    BY <2>2 DEF RunStub, CallService
  <2>6. ASSUME NEW j \in Jobs, Work(j) PROVE disk' = disk
    BY <2>3, <2>5, <2>6 DEF Work, Start, CommitCancelled, Fail, Reclaim, RunEval
  <2> QED BY <2>4, <2>6 DEF Next, SubmitTrain, SubmitEvaluate, Cancel, Resume, Toggle, vars
<1> QED BY <1>1, RadianceInvariant, PTL DEF Spec, ServedImmutable
=============================================================================
