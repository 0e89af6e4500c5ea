------------------------------ MODULE Readiness ------------------------------
(***************************************************************************)
(* The dependency vocabulary of orchestrator/readiness.py, shared by the   *)
(* scheduler, the dispatcher, the janitor and resume.  A status map is a   *)
(* function on task identifiers; "absent" stands for an identifier with no *)
(* entry (the row is gone, or the caller's query did not cover it).        *)
(***************************************************************************)

\* READY_DEPENDENCY_STATUSES, FAILED_DEPENDENCY_STATUSES and
\* CANCELLED_DEPENDENCY_STATUSES.
ReadyDep == {"succeeded", "skipped"}
FailedDep == {"failed"}
CancelledDep == {"cancelled", "cancelled_dirty"}

\* Mutant of dependencies_ready: a dependency that has started is enough.
dependencies_ready_started(deps, status) ==
  \A d \in deps : status[d] \in ReadyDep \cup {"running"}

dependencies_ready(deps, status) == \A d \in deps : status[d] \in ReadyDep

\* Mutant of dependency_state: a dependency that is not ready yet counts as failed.
dependency_state_eager(deps, status) ==
  IF dependencies_ready(deps, status) THEN "ready" ELSE "failed"

\* Precedence: missing or failed, then cancelled_dirty, cancelled, blocked, ready.
dependency_state(deps, status) ==
  LET some(S) == \E d \in deps : status[d] \in S
  IN  IF some(FailedDep \cup {"absent"}) THEN "failed"
      ELSE IF some({"cancelled_dirty"}) THEN "cancelled_dirty"
      ELSE IF some({"cancelled"}) THEN "cancelled"
      ELSE IF dependencies_ready(deps, status) THEN "ready"
      ELSE "blocked"

=============================================================================
