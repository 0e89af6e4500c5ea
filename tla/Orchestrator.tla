---------------------------- MODULE Orchestrator ----------------------------
(***************************************************************************)
(* The task orchestrator: the rows of the Job, Task and Reconstruction     *)
(* tables, the queue, the execution attempts of the worker processes       *)
(* (workers/dispatcher.py), the lease protocol (orchestrator/lease.py),    *)
(* the janitor (orchestrator/janitor.py), submission (scheduler.py,        *)
(* job_service.py), cancellation and resume (resume.py).                   *)
(*                                                                         *)
(* A step is one read or one committed transaction of the code.  A value   *)
(* that the code reads, keeps across an await and writes later is kept in  *)
(* the attempt's (janitor's, resumer's) record between the two steps, and  *)
(* the write is as blind as the ORM's UPDATE ... WHERE task_id = ?.        *)
(***************************************************************************)
EXTENDS Readiness, Integers

CONSTANTS Job, Task,
          JobOf,        \* the job of each task
          Deps,         \* depends_on_json of each task
          Key,          \* cache_key of each task
          Hooked,       \* tasks whose kind registers on_status / on_success
          Attempt,      \* concurrent executions of execute_task
          WorkerOf,     \* the process (WORKER_ID) an execution runs in
          Resumer,      \* concurrent resume_job requests
          NoWorker, NoTask, NoJob,
          Retention,    \* whether retention_days is set
          FaultKinds,   \* which faults may happen
          MaxFaults,    \* bound on the number of faults
          MaxRequests   \* bound on the number of cancel and resume requests

Worker == {WorkerOf[a] : a \in Attempt}

ASSUME TopologyAssumption ==
  /\ JobOf \in [Task -> Job]
  /\ Deps \in [Task -> SUBSET Task]
  /\ Hooked \subseteq Task
  /\ NoWorker \notin Worker
  /\ NoTask \notin Task
  /\ NoJob \notin Job
ASSUME BoundsAssumption ==
  /\ Retention \in BOOLEAN
  /\ FaultKinds \subseteq {"crash", "error", "lost", "stall", "slow_commit"}
  /\ MaxFaults \in Nat
  /\ MaxRequests \in Nat

VARIABLES
  task,       \* Task.status, "absent" when there is no row
  owner,      \* Task.worker_id
  lease,      \* Task.lease_expires_at against the clock: none, live or expired
  job,        \* Job.status, "new" before submission and "absent" once deleted
  requested,  \* jobs with cancel_requested
  forced,     \* jobs with cancel_force
  recon,      \* Reconstruction.status of each job's reconstruction
  queue,      \* tasks with a queued run_task message
  submitting, \* all-cached jobs between the two commits of submit_job_dag
  att,        \* what each execution of execute_task is doing
  janitor,    \* what the janitor sweep is doing
  resuming,   \* what each resume_job request is doing
  overtaken,  \* history: jobs that were resumed, or an execution of which was overtaken
  faults, requests

vars == <<task, owner, lease, job, requested, forced, recon, queue, submitting,
          att, janitor, resuming, overtaken, faults, requests>>
taskRow == <<task, owner, lease>>
flags == <<requested, forced>>
actors == <<submitting, att, janitor, resuming>>

Doomed == FailedDep \cup CancelledDep
Terminal == Doomed \cup {"succeeded"}
TaskStatus == Terminal \cup {"absent", "pending", "running"}
JobTerminal == {"succeeded", "failed", "cancelled"}
JobStatus == JobTerminal \cup {"new", "absent", "pending"}
ReconStatus == Doomed \cup {"running", "succeeded"}

TasksOf(j) == {t \in Task : JobOf[t] = j}

\* A set of writes: a function from some of the tasks to their new status.
Marks == UNION {[D -> Doomed] : D \in SUBSET Task}
Override(status, m) == [t \in Task |-> IF t \in DOMAIN m THEN m[t] ELSE status[t]]

-----------------------------------------------------------------------------
(* What the handlers compute from the rows they read. *)

\* Mutants of Decided: a task that is still running is overlooked; "cancelled_dirty"
\* is not counted among the terminal statuses.
DecidedEarly(j, status) ==
  LET seen == {status[t] : t \in TasksOf(j)} \ {"absent"}
  IN  seen # {} /\ "pending" \notin seen
DecidedClean(j, status) ==
  LET seen == {status[t] : t \in TasksOf(j)} \ {"absent"}
  IN  seen # {} /\ seen \subseteq {"succeeded", "failed", "cancelled"}

\* The job has tasks, and all of them are terminal.
Decided(j, status) ==
  LET seen == {status[t] : t \in TasksOf(j)} \ {"absent"}
  IN  seen # {} /\ seen \cap {"pending", "running"} = {}

\* Mutant of Verdict: a job with a dirty task is dirty itself.
VerdictDirty(j, status) ==
  LET some(S) == \E t \in TasksOf(j) : status[t] \in S
  IN  IF some({"failed"}) THEN "failed"
      ELSE IF some({"cancelled_dirty"}) THEN "cancelled_dirty"
      ELSE IF some({"cancelled"}) THEN "cancelled"
      ELSE "succeeded"

\* What terminal tasks add up to.
Verdict(j, status) ==
  LET some(S) == \E t \in TasksOf(j) : status[t] \in S
  IN  IF some({"failed"}) THEN "failed"
      ELSE IF some(CancelledDep) THEN "cancelled"
      ELSE "succeeded"

\* finalize_job_if_ready: the rolled-up status of a job, or the status it has.
Finalized(j, status) ==
  IF Decided(j, status) /\ job[j] # "absent" THEN Verdict(j, status) ELSE job[j]

\* The fixed-point loops of _mark_dependency_failures_and_ready and
\* propagate_terminal_dependencies over the pending rows of a scope: a task is
\* marked from the statuses as they are when the loop reaches it (the read ones
\* overridden by the marks made so far), and the loop ends when no pending row
\* is left to mark.
Cascades(scope, status) ==
  LET pending == {t \in scope : status[t] = "pending" /\ Deps[t] # {}}
  IN  {m \in UNION {[D -> Doomed] : D \in SUBSET pending} :
         LET final == Override(status, m)
         IN  /\ \A t \in DOMAIN m :
                  \E X \in SUBSET (DOMAIN m \ {t}) :
                    m[t] = dependency_state(Deps[t],
                             [d \in Task |-> IF d \in X THEN m[d] ELSE status[d]])
             /\ \A t \in pending \ DOMAIN m :
                  dependency_state(Deps[t], final) \in {"ready", "blocked"}}

\* status_by_id of _mark_dependency_failures_and_ready and of resume_job: the
\* query selects the rows of one job.
JobRows(j) == [t \in Task |-> IF JobOf[t] = j THEN task[t] ELSE "absent"]

\* on_status and on_success of a task's kind, if it registers them.
Hook(t, status) ==
  recon' = IF t \in Hooked THEN [recon EXCEPT ![JobOf[t]] = status] ELSE recon

\* A step of an attempt that writes nothing.
Reads == UNCHANGED <<taskRow, job, flags, recon, queue, submitting, janitor, resuming,
                     overtaken, faults, requests>>

\* A fault of some kind, while the budget lasts.
Fault(kind) ==
  /\ kind \in FaultKinds
  /\ faults < MaxFaults
  /\ faults' = faults + 1

\* Enqueueing: each failing enqueue is suppressed and its message lost.
Enqueue(ids) ==
  \/ /\ queue' = queue \cup ids
     /\ UNCHANGED faults
  \/ /\ Fault("lost")
     /\ \E lost \in SUBSET ids \ {{}} : queue' = queue \cup (ids \ lost)

NoMarks == [t \in {} |-> "failed"]
Idle == [pc |-> "idle", task |-> NoTask, out |-> "none", loaded |-> "none",
         marks |-> NoMarks, ready |-> {}, late |-> FALSE]

\* The attempt goes on, with the status of its job that its session has loaded:
\* sessions do not expire what they hold (expire_on_commit=False).
Hold(a, pc, t, out, loaded) ==
  att' = [att EXCEPT ![a] =
    [Idle EXCEPT !.pc = pc, !.task = t, !.out = out, !.loaded = loaded]]
GoTo(a, pc, t, out) == Hold(a, pc, t, out, "none")
Mark(a, t, m, ready) ==
  att' = [att EXCEPT ![a] =
    [Idle EXCEPT !.pc = "advance", !.task = t, !.marks = m, !.ready = ready]]
Carry(a, pc, out) == att' = [att EXCEPT ![a] = [att[a] EXCEPT !.pc = pc, !.out = out]]
Return(a) == att' = [att EXCEPT ![a] = Idle]

\* Mutants of Owns: the expiry, or the worker id, is not compared.
OwnsExpired(a) == task[att[a].task] = "running" /\ owner[att[a].task] = WorkerOf[a]
OwnsAnyWorker(a) == task[att[a].task] = "running" /\ lease[att[a].task] = "live"

\* _owns_live_running_lease, and the row still exists.
Owns(a) ==
  LET t == att[a].task
  IN  /\ task[t] = "running"
      /\ owner[t] = WorkerOf[a]
      /\ lease[t] = "live"

-----------------------------------------------------------------------------
(* The client's requests. *)

\* lookup_cached_task: some task of any job has succeeded with the same key.
Cached(t) == \E u \in Task : task[u] = "succeeded" /\ Key[u] = Key[t]

\* materialize_dag: the rows of a new job; a task with a cache hit is born succeeded.
Materialized(j) ==
  [t \in Task |-> IF JobOf[t] # j THEN task[t]
                  ELSE IF Cached(t) THEN "succeeded" ELSE "pending"]

\* submit_job_dag: create_job, materialize_dag and the commit; then either the
\* roll-up (all cached) or the enqueues of the tasks that are ready.
Submit(j) ==
  LET rows == Materialized(j)
      waiting == {t \in TasksOf(j) : rows[t] = "pending"}
  IN  /\ job[j] = "new"
      /\ \A t \in TasksOf(j) : \A d \in Deps[t] \ TasksOf(j) : task[d] # "absent"
      /\ task' = rows
      /\ job' = [job EXCEPT ![j] = "pending"]
      /\ IF waiting = {}
           THEN submitting' = submitting \cup {j} /\ UNCHANGED <<queue, faults>>
           ELSE /\ Enqueue({t \in waiting : dependencies_ready(Deps[t], rows)})
                /\ UNCHANGED submitting
      /\ UNCHANGED <<owner, lease, flags, recon, att, janitor, resuming, overtaken, requests>>

\* The second transaction of a submission whose every task hit the cache.
SubmitFinalize(j) ==
  /\ j \in submitting
  /\ job' = [job EXCEPT ![j] = Finalized(j, task)]
  /\ submitting' = submitting \ {j}
  /\ UNCHANGED <<taskRow, flags, recon, queue, att, janitor, resuming, overtaken, faults,
                 requests>>

\* The web process dies between the two.
SubmitCrash(j) ==
  /\ j \in submitting
  /\ Fault("crash")
  /\ submitting' = submitting \ {j}
  /\ UNCHANGED <<taskRow, job, flags, recon, queue, att, janitor, resuming, overtaken,
                 requests>>

Request ==
  /\ requests < MaxRequests
  /\ requests' = requests + 1

\* cancel_job: whatever the status of the job; force is sticky.
Cancel(j, force) ==
  /\ Request
  /\ job[j] \notin {"new", "absent"}
  /\ requested' = requested \cup {j}
  /\ forced' = IF force THEN forced \cup {j} ELSE forced
  /\ UNCHANGED <<taskRow, job, recon, queue, actors, overtaken, faults>>

\* The attempts that lose the leases of some tasks between check and commit (history).
Lapsed(tasks) ==
  [a \in Attempt |-> IF att[a].pc = "settle" /\ att[a].task \in tasks
                     THEN [att[a] EXCEPT !.late = TRUE] ELSE att[a]]

NoResume == [job |-> NoJob, reset |-> {}, held |-> {}, flagged |-> FALSE,
             forced |-> FALSE, ready |-> {}]

\* resume_job up to its flush.  The ORM writes only the columns whose value
\* differs from the one it loaded, so what was loaded is remembered.
ResumeRead(r, j) ==
  LET reset == {t \in TasksOf(j) : task[t] \in Doomed}
      rows == [t \in Task |-> IF t \in reset THEN "pending" ELSE JobRows(j)[t]]
  IN  /\ Request
      /\ resuming[r] = NoResume
      /\ job[j] \in {"failed", "cancelled"}
      /\ reset # {}
      /\ resuming' = [resuming EXCEPT ![r] =
           [job |-> j, reset |-> reset,
            held |-> {t \in reset : owner[t] # NoWorker},
            flagged |-> j \in requested, forced |-> j \in forced,
            ready |-> {t \in TasksOf(j) : rows[t] = "pending"
                                          /\ dependencies_ready(Deps[t], rows)}]]
      /\ UNCHANGED <<taskRow, job, flags, recon, queue, submitting, att, janitor, overtaken,
                     faults>>

\* The commit and the enqueues; rows deleted meanwhile fail the whole transaction.
ResumeCommit(r) ==
  LET p == resuming[r]
      gone == job[p.job] = "absent"
  IN  /\ p # NoResume
      /\ resuming' = [resuming EXCEPT ![r] = NoResume]
      /\ \/ gone /\ UNCHANGED <<taskRow, job, flags, queue, att, overtaken, faults>>
         \/ /\ ~gone
            /\ task' = [t \in Task |-> IF t \in p.reset THEN "pending" ELSE task[t]]
            /\ owner' = [t \in Task |-> IF t \in p.held THEN NoWorker ELSE owner[t]]
            /\ lease' = [t \in Task |-> IF t \in p.held THEN "none" ELSE lease[t]]
            /\ job' = [job EXCEPT ![p.job] = "pending"]
            /\ requested' = IF p.flagged THEN requested \ {p.job} ELSE requested
            /\ forced' = IF p.forced THEN forced \ {p.job} ELSE forced
            /\ att' = Lapsed(p.held)
            /\ overtaken' = overtaken \cup {p.job}
            /\ Enqueue(p.ready)
      /\ UNCHANGED <<recon, submitting, janitor, requests>>

-----------------------------------------------------------------------------
(* execute_task. *)

\* A message is delivered.  The early returns (missing, not pending, blocked)
\* drop it; otherwise the attempt goes on with what it read.
Pickup(a, t) ==
  LET state == dependency_state(Deps[t], task)
  IN  /\ att[a].pc = "idle"
      /\ t \in queue
      /\ queue' = queue \ {t}
      /\ IF task[t] # "pending" \/ state = "blocked" THEN UNCHANGED att
         ELSE IF state = "ready" THEN GoTo(a, "gate", t, "none")
         ELSE GoTo(a, "doom", t, state)
      /\ UNCHANGED <<taskRow, job, flags, recon, submitting, janitor, resuming, overtaken,
                     faults, requests>>

\* The DependencyFailed and DependencyCancelled branches: a blind write of the
\* task's status and no hook.
Doom(a) ==
  LET t == att[a].task
  IN  /\ att[a].pc = "doom"
      /\ \/ task[t] = "absent" /\ Return(a) /\ UNCHANGED task
         \/ /\ task[t] # "absent"
            /\ task' = [task EXCEPT ![t] = att[a].out]
            /\ GoTo(a, "mark", t, "none")
      /\ UNCHANGED <<owner, lease, job, flags, recon, queue, submitting, janitor,
                     resuming, overtaken, faults, requests>>

\* Mutant of Acquirable: the status of the row is not part of the condition.
AcquirableAnyStatus(t) == task[t] # "absent" /\ lease[t] # "live"

\* The condition of try_acquire_lease.
Acquirable(t) == task[t] = "pending" /\ lease[t] # "live"

\* An attempt that is between its acquisition of a task and its terminal commit.
Beating == {"run", "except", "settle"}
Busy(b, t) == att[b].task = t /\ att[b].pc \in Beating

\* try_acquire_lease, the cancellation check at pickup, and the commit of
\* "running" or of the cancellation: one transaction, under the row's lock.
Acquire(a) ==
  LET t == att[a].task
      j == JobOf[t]
  IN  /\ att[a].pc = "gate"
      /\ \/ /\ ~Acquirable(t)
            /\ Return(a)
            /\ UNCHANGED <<taskRow, recon, overtaken>>
         \/ /\ Acquirable(t)
            /\ owner' = [owner EXCEPT ![t] = WorkerOf[a]]
            /\ lease' = [lease EXCEPT ![t] = "live"]
            /\ IF j \in requested
                 THEN LET out == IF j \in forced THEN "cancelled_dirty" ELSE "cancelled"
                      IN  /\ task' = [task EXCEPT ![t] = out]
                          /\ Hook(t, "failed")
                          /\ Hold(a, "roll", t, out, job[j])
                          /\ UNCHANGED overtaken
                 ELSE /\ task' = [task EXCEPT ![t] = "running"]
                      /\ Hook(t, "running")
                      /\ GoTo(a, "run", t, "none")
                      /\ overtaken' = IF \E b \in Attempt \ {a} :
                                           Busy(b, t) /\ WorkerOf[b] = WorkerOf[a]
                                      THEN overtaken \cup {j} ELSE overtaken
      /\ UNCHANGED <<job, flags, queue, submitting, janitor, resuming, faults, requests>>

\* Mutant of HandlerReturns: cancellation is not checked before success.
HandlerReturnsUnchecked(a) ==
  /\ att[a].pc = "run"
  /\ IF Owns(a) THEN GoTo(a, "settle", att[a].task, "succeeded") ELSE Return(a)
  /\ UNCHANGED <<taskRow, job, flags, recon, queue, submitting, janitor, resuming,
                 overtaken, faults, requests>>

\* The handler returned: the checks of the success session.
HandlerReturns(a) ==
  LET t == att[a].task
  IN  /\ att[a].pc = "run"
      /\ IF Owns(a)
           THEN Hold(a, "settle", t,
                     IF JobOf[t] \in requested THEN "cancelled_dirty" ELSE "succeeded",
                     job[JobOf[t]])
           ELSE Return(a)
      /\ UNCHANGED <<taskRow, job, flags, recon, queue, submitting, janitor, resuming,
                     overtaken, faults, requests>>

\* The handler raised, is unknown, or the success session raised: the checks of
\* the failure session.
HandlerRaises(a) ==
  /\ att[a].pc \in {"run", "except"}
  /\ IF Owns(a) THEN GoTo(a, "settle", att[a].task, "failed") ELSE Return(a)
  /\ UNCHANGED <<taskRow, job, flags, recon, queue, submitting, janitor, resuming,
                 overtaken, faults, requests>>

\* The terminal commit, a blind write by primary key with the kind's hook.
Settle(a) ==
  LET t == att[a].task
      out == att[a].out
  IN  /\ att[a].pc = "settle"
      /\ \/ task[t] = "absent" /\ Return(a) /\ UNCHANGED <<task, recon>>
         \/ /\ task[t] # "absent"
            /\ task' = [task EXCEPT ![t] = out]
            /\ Hook(t, IF out = "succeeded" THEN "succeeded" ELSE "failed")
            /\ Hold(a, "roll", t, out, att[a].loaded)
      /\ UNCHANGED <<owner, lease, job, flags, queue, submitting, janitor, resuming,
                     overtaken, faults, requests>>

\* _maybe_finalize_job reads the rows, in the session of the terminal commit: its
\* own task as that session holds it, the others as they are; and it compares the
\* verdict with the job, if the session holds it...
RollUp(a) ==
  LET t == att[a].task
      rows == [task EXCEPT ![t] = IF @ = "absent" THEN @ ELSE att[a].out]
      verdict == Verdict(JobOf[t], rows)
  IN  /\ att[a].pc = "roll"
      /\ IF Decided(JobOf[t], rows) /\ att[a].loaded \notin {verdict, "absent"}
           THEN GoTo(a, IF att[a].loaded = "none" THEN "rolljob" ELSE "rollcommit", t, verdict)
           ELSE GoTo(a, "mark", t, "none")
      /\ Reads

\* ... or reads the job.
RollUpJob(a) ==
  LET t == att[a].task
      out == att[a].out
  IN  /\ att[a].pc = "rolljob"
      /\ IF job[JobOf[t]] \in {out, "absent"} THEN GoTo(a, "mark", t, "none")
                                              ELSE GoTo(a, "rollcommit", t, out)
      /\ Reads

\* _maybe_finalize_job's commit.
RollUpCommit(a) ==
  LET t == att[a].task
      j == JobOf[t]
  IN  /\ att[a].pc = "rollcommit"
      /\ \/ job[j] = "absent" /\ Return(a) /\ UNCHANGED job
         \/ /\ job[j] # "absent"
            /\ job' = [job EXCEPT ![j] = att[a].out]
            /\ GoTo(a, "mark", t, "none")
      /\ UNCHANGED <<taskRow, flags, recon, queue, submitting, janitor, resuming,
                     overtaken, faults, requests>>

\* The tasks of a job that some rows leave pending with satisfied dependencies.
Followers(j, rows) ==
  {u \in TasksOf(j) : /\ rows[u] = "pending"
                      /\ Deps[u] # {}
                      /\ dependencies_ready(Deps[u], rows)}

\* _mark_dependency_failures_and_ready of _advance_job_after_terminal: the rows
\* it reads, the marks it will write and the tasks it will enqueue.
AdvanceRead(a) ==
  LET t == att[a].task
      rows == JobRows(JobOf[t])
  IN  /\ att[a].pc = "mark"
      /\ \E m \in Cascades(TasksOf(JobOf[t]), rows) :
           Mark(a, t, m, Followers(JobOf[t], Override(rows, m)))
      /\ Reads

\* With marks to write, finalize_job_if_ready flushes them before it reads the rows,
\* and SQLite lets nobody else write from the flush to the commit: the rows read,
\* the job read and the commit are one step, followed by the enqueues.
AdvanceFlush(a) ==
  LET m == att[a].marks
      j == JobOf[att[a].task]
      rows == Override(task, m)
  IN  /\ att[a].pc = "advance"
      /\ m # NoMarks
      /\ \/ /\ \E t \in DOMAIN m : task[t] = "absent"
            /\ UNCHANGED <<task, job, queue, faults>>
         \/ /\ \A t \in DOMAIN m : task[t] # "absent"
            /\ task' = rows
            /\ job' = [job EXCEPT ![j] = Finalized(j, rows)]
            /\ Enqueue(att[a].ready)
      /\ Return(a)
      /\ UNCHANGED <<owner, lease, flags, recon, submitting, janitor, resuming, overtaken,
                     requests>>

\* Without marks nothing is flushed, and no lock keeps what is read: the rows...
AdvanceRollUp(a) ==
  LET j == JobOf[att[a].task]
  IN  /\ att[a].pc = "advance"
      /\ att[a].marks = NoMarks
      /\ IF Decided(j, task) THEN Carry(a, "advancejob", Verdict(j, task))
                            ELSE Carry(a, "advancecommit", "none")
      /\ Reads

\* ... and then the job.
AdvanceJob(a) ==
  /\ att[a].pc = "advancejob"
  /\ Carry(a, "advancecommit",
           IF job[JobOf[att[a].task]] \in {att[a].out, "absent"} THEN "none" ELSE att[a].out)
  /\ Reads

\* The commit of the verdict, a blind write, and the enqueues.
AdvanceCommit(a) ==
  LET out == att[a].out
      j == JobOf[att[a].task]
      gone == out # "none" /\ job[j] = "absent"
  IN  /\ att[a].pc = "advancecommit"
      /\ \/ gone /\ UNCHANGED <<job, queue, faults>>
         \/ /\ ~gone
            /\ job' = IF out = "none" THEN job ELSE [job EXCEPT ![j] = out]
            /\ Enqueue(att[a].ready)
      /\ Return(a)
      /\ UNCHANGED <<taskRow, flags, recon, submitting, janitor, resuming, overtaken,
                     requests>>

-----------------------------------------------------------------------------
(* Leases, and what goes wrong in a worker process. *)

\* The attempts that keep the lease of a task alive: _heartbeat runs beside the
\* handler, in the process that the row names.
Keepers(t) == {a \in Attempt : Busy(a, t) /\ owner[t] = WorkerOf[a]}

\* The lease of a task ages out: for want of a heartbeat, or because its owner
\* stalls for longer than lease_ttl_seconds while it runs ("stall") or between
\* its ownership check and its commit ("slow_commit").
Expire(t) ==
  /\ task[t] \in {"pending", "running"}
  /\ lease[t] = "live"
  /\ lease' = [lease EXCEPT ![t] = "expired"]
  /\ LET slow == \E a \in Keepers(t) : att[a].pc = "settle"
     IN  /\ IF Keepers(t) = {} THEN UNCHANGED faults
            ELSE Fault(IF slow THEN "slow_commit" ELSE "stall")
         /\ att' = Lapsed({t})
         /\ overtaken' = IF slow THEN overtaken \cup {JobOf[t]} ELSE overtaken
  /\ UNCHANGED <<task, owner, job, flags, recon, queue, submitting, janitor, resuming, requests>>

\* refresh_lease by a heartbeat that is late: it asks for the worker id only.
Heartbeat(a) ==
  LET t == att[a].task
  IN  /\ att[a].pc \in Beating
      /\ owner[t] = WorkerOf[a]
      /\ lease[t] = "expired"
      /\ lease' = [lease EXCEPT ![t] = "live"]
      /\ UNCHANGED <<task, owner, job, flags, recon, queue, actors, overtaken, faults,
                     requests>>

\* A worker process dies with everything its attempts had in memory.
Crash(w) ==
  /\ \E a \in Attempt : WorkerOf[a] = w /\ att[a].pc # "idle"
  /\ Fault("crash")
  /\ att' = [a \in Attempt |-> IF WorkerOf[a] = w THEN Idle ELSE att[a]]
  /\ UNCHANGED <<taskRow, job, flags, recon, queue, submitting, janitor, resuming, overtaken,
                 requests>>

\* A statement of an attempt raises.  In the success session (up to its commit)
\* the failure session runs next; anywhere else execute_task gives up.
Raise(a) ==
  /\ att[a].pc \notin {"idle", "run"}
  /\ Fault("error")
  /\ IF att[a].pc = "settle" /\ att[a].out # "failed"
       THEN GoTo(a, "except", att[a].task, "none")
       ELSE Return(a)
  /\ UNCHANGED <<taskRow, job, flags, recon, queue, submitting, janitor, resuming, overtaken,
                 requests>>

-----------------------------------------------------------------------------
(* run_janitor_once. *)

Sweep == [pc |-> "reclaim", todo |-> {}, marks |-> NoMarks, old |-> {}]

\* reclaim_expired_leases.
Reclaim ==
  LET late == {t \in Task : task[t] = "running" /\ lease[t] = "expired"}
  IN  /\ janitor.pc = "reclaim"
      /\ task' = [t \in Task |-> IF t \in late THEN "pending" ELSE task[t]]
      /\ owner' = [t \in Task |-> IF t \in late THEN NoWorker ELSE owner[t]]
      /\ lease' = [t \in Task |-> IF t \in late THEN "none" ELSE lease[t]]
      /\ janitor' = [Sweep EXCEPT !.pc = "propagate", !.todo = late]
      /\ UNCHANGED <<job, flags, recon, queue, submitting, att, resuming, overtaken, faults,
                     requests>>

\* propagate_terminal_dependencies: what it reads and decides...
PropagateRead ==
  /\ janitor.pc = "propagate"
  /\ \E m \in Cascades(Task, task) :
       janitor' = [janitor EXCEPT !.pc = IF m = NoMarks THEN "requeue" ELSE "commit",
                                  !.marks = m]
  /\ UNCHANGED <<taskRow, job, flags, recon, queue, submitting, att, resuming, overtaken, faults,
                     requests>>

\* ... and its transaction: the marks, the reconstruction of each task marked
\* (the last of a job's tasks decides) and the roll-up of the jobs affected.
PropagateCommit ==
  LET m == janitor.marks
      rows == Override(task, m)
      affected == {JobOf[t] : t \in DOMAIN m}
  IN  /\ janitor.pc = "commit"
      /\ \/ /\ \E t \in DOMAIN m : task[t] = "absent"
            /\ UNCHANGED <<task, job, recon>>
         \/ /\ \A t \in DOMAIN m : task[t] # "absent"
            /\ task' = rows
            /\ job' = [j \in Job |-> IF j \in affected THEN Finalized(j, rows) ELSE job[j]]
            /\ recon' \in {f \in [Job -> ReconStatus] :
                 \A j \in Job : IF j \in affected
                                THEN \E t \in DOMAIN m : JobOf[t] = j /\ f[j] = m[t]
                                ELSE f[j] = recon[j]}
      /\ janitor' = [janitor EXCEPT !.pc = "requeue", !.marks = NoMarks]
      /\ UNCHANGED <<owner, lease, flags, queue, submitting, att, resuming, overtaken, faults,
                     requests>>

\* Mutant of Requeue: only what this sweep reclaimed is enqueued again.
RequeueReclaimed ==
  /\ janitor.pc = "requeue"
  /\ Enqueue(janitor.todo)
  /\ janitor' = [Sweep EXCEPT !.pc = IF Retention THEN "gc" ELSE "reclaim"]
  /\ UNCHANGED <<taskRow, job, flags, recon, submitting, att, resuming, overtaken, requests>>

\* find_ready_pending_tasks and the enqueues.
Requeue ==
  /\ janitor.pc = "requeue"
  /\ Enqueue(janitor.todo
             \cup {t \in Task : task[t] = "pending" /\ dependencies_ready(Deps[t], task)})
  /\ janitor' = [Sweep EXCEPT !.pc = IF Retention THEN "gc" ELSE "reclaim"]
  /\ UNCHANGED <<taskRow, job, flags, recon, submitting, att, resuming, overtaken, requests>>

\* gc_expired_job_records: the terminal jobs it finds past retention (any of
\* them, time being abstracted)...
GcRead ==
  /\ janitor.pc = "gc"
  /\ \E old \in SUBSET {j \in Job : job[j] \in JobTerminal} :
       janitor' = IF old = {} THEN Sweep ELSE [Sweep EXCEPT !.pc = "delete", !.old = old]
  /\ UNCHANGED <<taskRow, job, flags, recon, queue, submitting, att, resuming, overtaken, faults,
                     requests>>

\* ... and the deletes, by job id.
GcDelete ==
  LET gone == {t \in Task : JobOf[t] \in janitor.old}
  IN  /\ janitor.pc = "delete"
      /\ task' = [t \in Task |-> IF t \in gone THEN "absent" ELSE task[t]]
      /\ owner' = [t \in Task |-> IF t \in gone THEN NoWorker ELSE owner[t]]
      /\ lease' = [t \in Task |-> IF t \in gone THEN "none" ELSE lease[t]]
      /\ job' = [j \in Job |-> IF j \in janitor.old THEN "absent" ELSE job[j]]
      /\ requested' = requested \ janitor.old
      /\ forced' = forced \ janitor.old
      /\ janitor' = Sweep
      /\ UNCHANGED <<recon, queue, submitting, att, resuming, overtaken, faults,
                     requests>>

\* A phase raises: the next one runs.
NextPhase(pc) ==
  CASE pc = "reclaim" -> "propagate"
    [] pc \in {"propagate", "commit"} -> "requeue"
    [] pc = "requeue" /\ Retention -> "gc"
    [] OTHER -> "reclaim"

PhaseFails ==
  /\ Fault("error")
  /\ janitor' = [janitor EXCEPT !.pc = NextPhase(janitor.pc), !.marks = NoMarks,
                   !.old = {},
                   !.todo = IF janitor.pc \in {"propagate", "commit"} THEN @ ELSE {}]
  /\ UNCHANGED <<taskRow, job, flags, recon, queue, submitting, att, resuming, overtaken, requests>>

\* The web process dies and starts again.
JanitorCrash ==
  /\ janitor # Sweep
  /\ Fault("crash")
  /\ janitor' = Sweep
  /\ UNCHANGED <<taskRow, job, flags, recon, queue, submitting, att, resuming, overtaken, requests>>

-----------------------------------------------------------------------------
Init ==
  /\ task = [t \in Task |-> "absent"]
  /\ owner = [t \in Task |-> NoWorker]
  /\ lease = [t \in Task |-> "none"]
  /\ job = [j \in Job |-> "new"]
  /\ requested = {}
  /\ forced = {}
  /\ recon = [j \in Job |-> "running"]
  /\ queue = {}
  /\ submitting = {}
  /\ att = [a \in Attempt |-> Idle]
  /\ janitor = Sweep
  /\ resuming = [r \in Resumer |-> NoResume]
  /\ overtaken = {}
  /\ faults = 0
  /\ requests = 0

\* What an attempt does by itself, faults aside.
Step(a) ==
  \/ Doom(a) \/ Acquire(a) \/ HandlerReturns(a) \/ HandlerRaises(a) \/ Settle(a)
  \/ RollUp(a) \/ RollUpJob(a) \/ RollUpCommit(a)
  \/ AdvanceRead(a) \/ AdvanceFlush(a)
  \/ AdvanceRollUp(a) \/ AdvanceJob(a) \/ AdvanceCommit(a)

JanitorStep ==
  Reclaim \/ PropagateRead \/ PropagateCommit \/ Requeue \/ GcRead \/ GcDelete

Next ==
  \/ \E j \in Job : \/ Submit(j) \/ SubmitFinalize(j) \/ SubmitCrash(j)
                    \/ \E force \in BOOLEAN : Cancel(j, force)
                    \/ \E r \in Resumer : ResumeRead(r, j)
  \/ \E r \in Resumer : ResumeCommit(r)
  \/ \E a \in Attempt : \/ \E t \in Task : Pickup(a, t)
                        \/ Step(a) \/ Heartbeat(a) \/ Raise(a)
  \/ \E t \in Task : Expire(t)
  \/ \E w \in Worker : Crash(w)
  \/ JanitorStep
  \/ PhaseFails
  \/ JanitorCrash

Spec == Init /\ [][Next]_vars

\* Every process that is up goes on, every message is delivered, a handler
\* returns or raises, and time passes; nothing is assumed of the client.
Fairness ==
  /\ \A j \in Job : WF_vars(SubmitFinalize(j))
  /\ \A r \in Resumer : WF_vars(ResumeCommit(r))
  /\ \A a \in Attempt : WF_vars(Step(a))
  /\ \A t \in Task : WF_vars(\E a \in Attempt : Pickup(a, t))
  /\ \A t \in Task : WF_vars(Expire(t) /\ Keepers(t) = {})
  /\ WF_vars(JanitorStep)

LiveSpec == Spec /\ Fairness

-----------------------------------------------------------------------------
AttemptState ==
  [pc : {"idle", "gate", "doom", "run", "except", "settle", "roll", "rolljob", "rollcommit",
         "mark", "advance", "advancejob", "advancecommit"},
   task : Task \cup {NoTask}, out : Terminal \cup {"none"}, loaded : JobStatus \cup {"none"},
   marks : Marks, ready : SUBSET Task, late : BOOLEAN]
JanitorState ==
  [pc : {"reclaim", "propagate", "commit", "requeue", "gc", "delete"},
   todo : SUBSET Task, marks : Marks, old : SUBSET Job]
ResumeState ==
  [job : Job \cup {NoJob}, reset : SUBSET Task, held : SUBSET Task,
   flagged : BOOLEAN, forced : BOOLEAN, ready : SUBSET Task]

TypeOK ==
  /\ task \in [Task -> TaskStatus]
  /\ owner \in [Task -> Worker \cup {NoWorker}]
  /\ lease \in [Task -> {"none", "live", "expired"}]
  /\ job \in [Job -> JobStatus]
  /\ requested \subseteq Job
  /\ forced \subseteq Job
  /\ recon \in [Job -> ReconStatus]
  /\ queue \subseteq Task
  /\ submitting \subseteq Job
  /\ att \in [Attempt -> AttemptState]
  /\ janitor \in JanitorState
  /\ resuming \in [Resumer -> ResumeState]
  /\ overtaken \subseteq Job
  /\ faults \in 0..MaxFaults
  /\ requests \in 0..MaxRequests

\* Every running row carries an owner and a lease, so reclaim_expired_leases can
\* see it when its worker dies; every pending row carries neither, so the next
\* try_acquire_lease on it succeeds.
LeaseShape(t) ==
  /\ task[t] = "running" => owner[t] # NoWorker /\ lease[t] # "none"
  /\ task[t] = "pending" => owner[t] = NoWorker /\ lease[t] = "none"

\* No attempt but this one is between its ownership check and its terminal commit.
SettlesAlone(a) ==
  \A b \in Attempt \ {a} : ~(att[b].pc = "settle" /\ att[b].task = att[a].task)

\* "The lease gate above guarantees a single owner" (dispatcher.py): an attempt that
\* is about to commit an outcome has the row's lease, unless it was lost after the
\* ownership check, so no two processes hold a task at once; and but for the jobs
\* that were overtaken, a single attempt is there and the row is still running.
SettleIsExclusive ==
  \A a \in Attempt : att[a].pc = "settle" =>
    LET t == att[a].task
    IN  /\ ~att[a].late => \/ task[t] = "absent"
                           \/ owner[t] = WorkerOf[a] /\ lease[t] = "live"
        /\ JobOf[t] \notin overtaken =>
             task[t] = "running" /\ owner[t] = WorkerOf[a] /\ SettlesAlone(a)

\* The same of every job: what a process with several attempts (MCSharedWorker) and
\* a commit slower than the lease (MCSlowCommit) take away.
SettlesAlwaysAlone == \A a \in Attempt : att[a].pc = "settle" => SettlesAlone(a)

\* A task runs only while all its dependencies are satisfied, whatever was
\* delivered twice, late or out of order.
DepsMet(t) == task[t] = "running" => \A d \in Deps[t] : task[d] \in ReadyDep
RunsAfterDeps == \A t \in Task : DepsMet(t)

\* A terminal job has only terminal tasks, and its status is the one its tasks
\* add up to: no stale roll-up is ever committed, unless the job was overtaken.
MatchesTasks(j) ==
  job[j] \in JobTerminal =>
    /\ \A t \in TasksOf(j) : task[t] \in Terminal
    /\ job[j] = "failed" <=> \E t \in TasksOf(j) : task[t] = "failed"
    /\ job[j] = "succeeded" <=> \A t \in TasksOf(j) : task[t] = "succeeded"
VerdictMatches == \A j \in Job \ overtaken : MatchesTasks(j)

\* A committed outcome stands (until the row is deleted), unless the job is resumed or
\* overtaken: a succeeded task stays succeeded and a failed or cancelled one never
\* succeeds or runs, so no late attempt, stale cascade or reclaim turns a result
\* around.
OutcomeIsFinal ==
  [][\A t \in Task : JobOf[t] \notin overtaken' =>
       /\ task[t] = "succeeded" => task'[t] \in {"succeeded", "absent"}
       /\ task[t] \in Doomed => task'[t] \in Doomed \cup {"absent"}]_vars

\* A task of a cancelled job that no attempt is past its last check for.
Stopped(t) ==
  /\ JobOf[t] \in requested
  /\ task[t] \in {"pending", "running"} \cup Doomed
  /\ \A a \in Attempt : ~(att[a].task = t /\ att[a].pc = "settle" /\ att[a].out = "succeeded")

\* The step ends a resume of the job.
Resumed(j) == \E r \in Resumer : resuming[r].job = j /\ resuming'[r] # resuming[r]

\* Cancellation sticks: once a job is cancelled, a task of it that no attempt is
\* already committing never succeeds, until the job is resumed.
CancelSticks ==
  [][\A t \in Task :
       Stopped(t) => Stopped(t)' \/ task'[t] = "absent" \/ Resumed(JobOf[t])]_vars

\* A pending task fails without having run only when one of its dependencies has
\* failed, was cancelled or is gone, or falls in the same transaction.
Justified(t) ==
  task[t] = "pending" /\ task'[t] = "failed" =>
    \E d \in Deps[t] : task[d] \in Doomed \cup {"absent"} \/ task'[d] \in Doomed

\* The cascade of a task's siblings does not see all its dependencies: one of them is
\* in another job, whose rows it does not read, and a sibling has ended.
NarrowView(t) ==
  /\ \E d \in Deps[t] : JobOf[d] # JobOf[t]
  /\ \E u \in TasksOf(JobOf[t]) \ {t} : task[u] \in Terminal

\* The task's job was overtaken; or that of a dependency in another job was, or was
\* deleted by retention: a late delivery may doom the task while an attempt runs it.
Unsettled(t) ==
  \/ JobOf[t] \in overtaken
  \/ \E d \in Deps[t] :
       JobOf[d] # JobOf[t] /\ (JobOf[d] \in overtaken \/ task[d] = "absent")

\* No doom is decided on a row that is out of date, whoever decides it: the attempt
\* that picks the task up, the cascade of a sibling or the janitor, of which the
\* cascade alone has a view narrower than the dependencies; but for tasks that are
\* unsettled, or depend on one.
DoomIsJustified ==
  [][\A t \in Task :
       \/ Justified(t)
       \/ NarrowView(t)
       \/ \E u \in Deps[t] \cup {t} : Unsettled(u)']_vars

\* The same without the exceptions: what a cascade with a narrow view takes away
\* (MCCrossJob).
EveryDoomIsJustified == [][\A t \in Task : Justified(t)]_vars

\* The reconstruction of a task that registers an on_status hook does not stay
\* "running" when the task fails or is cancelled ("fired by the dispatcher ... on
\* every non-success terminal transition").
ReconFollows ==
  \A t \in Hooked : task[t] \in Doomed => recon[JobOf[t]] # "running"

\* A job whose tasks are not all terminal is not reported terminal ("any Task
\* still pending/running -> Job stays pending"), unless it was overtaken.
VerdictLast(j) == job[j] \in JobTerminal => \A t \in TasksOf(j) : task[t] \in Terminal
NoEarlyVerdict == \A j \in Job \ overtaken : VerdictLast(j)

\* Whatever races with a resume, the status of every job ends up and stays the
\* one its tasks add up to.  It does not: a roll-up that read the rows before the
\* resume may commit after it.
VerdictConverges == <>[](\A j \in Job : MatchesTasks(j))

\* Every task of a submitted job comes to an end, whatever messages are lost and
\* whichever worker or janitor dies.
TasksEnd ==
  \A t \in Task : task[t] = "pending" ~> task[t] \in Terminal \cup {"absent"}

\* Every submitted job reaches a terminal status.
JobEnds ==
  \A j \in Job : job[j] = "pending" ~> job[j] \in JobTerminal \cup {"absent"}

\* The rows a client reads behave as Lifecycle says.
L == INSTANCE Lifecycle WITH task <- task, job <- job, overtaken <- overtaken
ImplementsLifecycle == L!Spec

-----------------------------------------------------------------------------
(* The inductive invariant behind the theorems of OrchestratorProofs. *)

\* A job and its tasks are inserted and deleted together, and a row that does not
\* exist has no lease.
RowsFollowJob ==
  \A t \in Task : /\ task[t] = "absent" <=> job[JobOf[t]] \in {"new", "absent"}
                  /\ task[t] = "absent" => owner[t] = NoWorker /\ lease[t] = "none"

\* A task that a doom or a set of marks in flight is about to fell: it can no
\* longer start, since one of its dependencies has fallen or is about to.
Condemned(t, m) ==
  \/ job[JobOf[t]] = "absent"
  \/ /\ task[t] \in Doomed \cup {"pending"}
     /\ \E d \in Deps[t] : task[d] \in Doomed \/ d \in DOMAIN m

\* An attempt that has rolled up its job carries a verdict to the commit.
Rolling == {"rolljob", "rollcommit", "advancejob", "advancecommit"}

\* What an attempt read still holds, at each of its steps.
AttemptOK(a) ==
  LET t == att[a].task
  IN  /\ att[a].pc = "gate" => task[t] = "absent" \/ dependencies_ready(Deps[t], task)
      /\ att[a].pc = "doom" => att[a].out \in Doomed /\ Condemned(t, NoMarks)
      /\ att[a].pc = "settle" => att[a].out \in Terminal /\ Owns(a)
      /\ att[a].pc = "roll" =>
           att[a].out \in Terminal /\ task[t] \in Terminal \cup {"absent"}
      /\ att[a].pc \in Rolling /\ att[a].out # "none" =>
           /\ att[a].out \in JobTerminal
           /\ \A u \in TasksOf(JobOf[t]) : task[u] \in Terminal \cup {"absent"}
      /\ att[a].pc = "advance" => \A u \in DOMAIN att[a].marks : Condemned(u, att[a].marks)

\* The same of the janitor, for one job.
SweepOK(j) ==
  /\ janitor.pc = "commit" =>
       \A u \in DOMAIN janitor.marks \cap TasksOf(j) : Condemned(u, janitor.marks)
  /\ janitor.pc = "delete" /\ j \in janitor.old => job[j] \in JobTerminal \cup {"absent"}

\* No two attempts of one process are at the same task of the job.
OnePerProcess(j) ==
  \A t \in TasksOf(j) : \A a, b \in Attempt :
    a # b /\ Busy(a, t) /\ Busy(b, t) => WorkerOf[a] # WorkerOf[b]

\* Nothing that a process in flight relies on has changed for the tasks of a job.
Current(j) ==
  /\ \A t \in TasksOf(j) : LeaseShape(t) /\ DepsMet(t)
  /\ VerdictLast(j)
  /\ \A a \in Attempt : att[a].pc # "idle" /\ att[a].task \in TasksOf(j) => AttemptOK(a)
  /\ SweepOK(j)
  /\ OnePerProcess(j)

\* No task runs, is settled, felled or deleted on the strength of a row that has
\* changed since: what each process in flight still relies on is still true, for
\* every job that was neither resumed nor overtaken.
InFlightIsCurrent ==
  /\ RowsFollowJob
  /\ \A j \in Job \ overtaken : Current(j)

=============================================================================
