------------------------------ MODULE Lifecycle ------------------------------
(***************************************************************************)
(* What the orchestrator promises of the rows a client can read, whatever  *)
(* its workers, janitor and queue do: how the status of a task and of its  *)
(* job may change.  Any number of rows may move in one transaction.        *)
(* A job that is resumed, or overtaken by an attempt whose lease lapsed    *)
(* before its commit, leaves this life; only its insertion and deletion    *)
(* still follow the rules.                                                 *)
(***************************************************************************)
EXTENDS Readiness

CONSTANTS Job, Task, JobOf, Deps
VARIABLES task, job, overtaken

Bad == FailedDep \cup CancelledDep
Ended == Bad \cup {"succeeded"}
JobEnded == {"succeeded", "failed", "cancelled"}
Members(j) == {t \in Task : JobOf[t] = j}

\* A task is admitted with its job, starts when its dependencies are satisfied,
\* may be started again as long as it has no outcome, ends, and is deleted with
\* its job.  Without running it is cancelled, or falls with a dependency.
TaskMove(t) ==
  \/ task'[t] = task[t]
  \/ /\ task[t] = "absent"
     /\ job[JobOf[t]] = "new"
     /\ task'[t] \in {"pending", "succeeded"}
  \/ /\ task[t] = "pending"
     /\ task'[t] = "running"
     /\ dependencies_ready(Deps[t], task)
  \/ task[t] = "running" /\ task'[t] \in Ended \cup {"pending"}
  \/ task[t] = "pending" /\ task'[t] \in CancelledDep
  \/ /\ task[t] \in Bad \cup {"pending"}
     /\ task'[t] \in Bad
     /\ \E d \in Deps[t] : task'[d] \in Bad
  \/ /\ task[t] \in Ended
     /\ task'[t] = "absent"
     /\ job'[JobOf[t]] = "absent"

\* A job is decided once, when all its tasks have ended, and it has succeeded
\* exactly when they all have.
JobMove(j) ==
  \/ job'[j] = job[j]
  \/ job[j] = "new" /\ job'[j] = "pending"
  \/ /\ job[j] = "pending"
     /\ job'[j] \in JobEnded
     /\ \A t \in Members(j) : task'[t] \in Ended
     /\ job'[j] = "succeeded" <=> \A t \in Members(j) : task'[t] = "succeeded"
  \/ job[j] \in JobEnded /\ job'[j] = "absent"

Init ==
  /\ task = [t \in Task |-> "absent"]
  /\ job = [j \in Job |-> "new"]
  /\ overtaken = {}

\* Whatever becomes of a job, its rows are inserted and deleted together, and once.
RowsTogether(j) ==
  /\ \A t \in Members(j) : task'[t] = "absent" <=> job'[j] \in {"new", "absent"}
  /\ job'[j] = "new" => job[j] = "new"
  /\ job[j] = "absent" => job'[j] = "absent"

Next ==
  /\ overtaken \subseteq overtaken'
  /\ \A j \in Job : RowsTogether(j)
  /\ \A j \in Job \ overtaken' : JobMove(j) /\ \A t \in Members(j) : TaskMove(t)

Spec == Init /\ [][Next]_<<task, job, overtaken>>

=============================================================================
