------------------------- MODULE OrchestratorProofs -------------------------
(***************************************************************************)
(* Theorems about Orchestrator, for every topology of jobs, tasks and      *)
(* workers and every fault: type correctness and that cancellation sticks; *)
(* when the tasks of a job depend on one another only, the safety of the   *)
(* lease protocol for every job that was neither resumed nor overtaken by  *)
(* a lapsed lease; and, when moreover the dependencies have no cycles,     *)
(* that the verdicts are right and that the rows implement Lifecycle.      *)
(***************************************************************************)
EXTENDS Orchestrator, TLAPS

-----------------------------------------------------------------------------
(* The operators the actions are built from. *)

LEMMA NoMarksType == NoMarks \in Marks /\ DOMAIN NoMarks = {}
BY DEF NoMarks, Marks

LEMMA MarksFacts ==
  ASSUME NEW m \in Marks
  PROVE  /\ DOMAIN m \subseteq Task
         /\ \A t \in DOMAIN m : m[t] \in Doomed
BY DEF Marks

LEMMA OverrideFacts ==
  ASSUME NEW m \in Marks, NEW status
  PROVE  /\ Override(status, m) = [t \in Task |-> Override(status, m)[t]]
         /\ \A t \in DOMAIN m : Override(status, m)[t] = m[t]
         /\ \A t \in Task \ DOMAIN m : Override(status, m)[t] = status[t]
BY MarksFacts DEF Override

LEMMA OverrideType ==
  ASSUME NEW m \in Marks, NEW status \in [Task -> TaskStatus]
  PROVE  Override(status, m) \in [Task -> TaskStatus]
BY MarksFacts DEF Override, TaskStatus, Terminal

\* A cascade only marks pending tasks of its scope that have dependencies.
LEMMA CascadesType ==
  ASSUME NEW scope \in SUBSET Task, NEW status, NEW m \in Cascades(scope, status)
  PROVE  /\ m \in Marks
         /\ DOMAIN m \subseteq scope
         /\ \A t \in DOMAIN m : status[t] = "pending"
BY DEF Cascades, Marks

LEMMA DependencyStateType ==
  ASSUME NEW deps, NEW status
  PROVE  dependency_state(deps, status) \in {"ready", "blocked"} \cup Doomed
BY DEF dependency_state, Doomed, FailedDep, CancelledDep

\* A job that is decided gets a terminal status, from tasks that are all terminal.
LEMMA DecidedFacts ==
  ASSUME NEW j \in Job, NEW status, Decided(j, status)
  PROVE  /\ Verdict(j, status) \in JobTerminal /\ Verdict(j, status) \in Terminal
         /\ \E t \in TasksOf(j) : status[t] # "absent"
         /\ \A t \in TasksOf(j) : status[t] \notin {"pending", "running"}
<1>1. Verdict(j, status) \in JobTerminal /\ Verdict(j, status) \in Terminal
  BY DEF Verdict, JobTerminal, Terminal, Doomed, FailedDep, CancelledDep
<1>2. /\ \E t \in TasksOf(j) : status[t] # "absent"
      /\ \A t \in TasksOf(j) : status[t] \notin {"pending", "running"}
  BY DEF Decided
<1> QED BY <1>1, <1>2

\* A roll-up leaves the status of the job, or decides it.
LEMMA FinalizedFacts ==
  ASSUME NEW j \in Job, NEW status
  PROVE  \/ Finalized(j, status) = job[j]
         \/ /\ Finalized(j, status) \in JobTerminal
            /\ job[j] # "absent"
            /\ \E t \in TasksOf(j) : status[t] # "absent"
            /\ \A t \in TasksOf(j) : status[t] \notin {"pending", "running"}
BY DecidedFacts DEF Finalized

LEMMA FaultType ==
  ASSUME faults \in 0..MaxFaults, NEW kind, Fault(kind)
  PROVE  faults' \in 0..MaxFaults
BY BoundsAssumption DEF Fault

LEMMA EnqueueType ==
  ASSUME faults \in 0..MaxFaults, queue \subseteq Task, NEW ids \in SUBSET Task,
         Enqueue(ids)
  PROVE  faults' \in 0..MaxFaults /\ queue' \subseteq Task
BY FaultType DEF Enqueue

LEMMA HookType ==
  ASSUME recon \in [Job -> ReconStatus], NEW t, NEW status \in ReconStatus, Hook(t, status)
  PROVE  recon' \in [Job -> ReconStatus]
BY DEF Hook

LEMMA IdleType == Idle \in AttemptState
BY NoMarksType DEF Idle, AttemptState

LEMMA SweepType == Sweep \in JanitorState
BY NoMarksType DEF Sweep, JanitorState

LEMMA ReturnFacts ==
  ASSUME NEW a \in Attempt, att \in [Attempt -> AttemptState], Return(a)
  PROVE  /\ att' \in [Attempt -> AttemptState]
         /\ att'[a].pc = "idle" /\ att'[a].marks = NoMarks
         /\ \A b \in Attempt \ {a} : att'[b] = att[b]
BY IdleType DEF Return, Idle

LEMMA HoldFacts ==
  ASSUME NEW a \in Attempt, att \in [Attempt -> AttemptState],
         NEW pc \in {"gate", "doom", "run", "except", "settle", "roll", "rolljob", "rollcommit",
                   "mark"},
         NEW t \in Task \cup {NoTask}, NEW out \in Terminal \cup {"none"},
         NEW loaded \in JobStatus \cup {"none"}, Hold(a, pc, t, out, loaded)
  PROVE  /\ att' \in [Attempt -> AttemptState]
         /\ att'[a].pc = pc /\ att'[a].task = t /\ att'[a].out = out
         /\ att'[a].marks = NoMarks /\ ~att'[a].late
         /\ \A b \in Attempt \ {a} : att'[b] = att[b]
BY NoMarksType DEF Hold, Idle, AttemptState

LEMMA GoToFacts ==
  ASSUME NEW a \in Attempt, att \in [Attempt -> AttemptState],
         NEW pc \in {"gate", "doom", "run", "except", "settle", "roll", "rolljob", "rollcommit",
                   "mark"},
         NEW t \in Task \cup {NoTask}, NEW out \in Terminal \cup {"none"},
         GoTo(a, pc, t, out)
  PROVE  /\ att' \in [Attempt -> AttemptState]
         /\ att'[a].pc = pc /\ att'[a].task = t /\ att'[a].out = out
         /\ att'[a].marks = NoMarks /\ ~att'[a].late
         /\ \A b \in Attempt \ {a} : att'[b] = att[b]
BY HoldFacts DEF GoTo

\* ... or carries on with all that it has read.
LEMMA CarryFacts ==
  ASSUME NEW a \in Attempt, att \in [Attempt -> AttemptState],
         NEW pc \in {"advancejob", "advancecommit"}, NEW out \in Terminal \cup {"none"},
         Carry(a, pc, out)
  PROVE  /\ att' \in [Attempt -> AttemptState]
         /\ att'[a].pc = pc /\ att'[a].out = out
         /\ att'[a].task = att[a].task /\ att'[a].marks = att[a].marks
         /\ \A b \in Attempt \ {a} : att'[b] = att[b]
<1> DEFINE record(r) == [r EXCEPT !.pc = pc, !.out = out]
<1>1. \A r \in AttemptState : /\ record(r) \in AttemptState
                              /\ record(r).pc = pc /\ record(r).out = out
                              /\ record(r).task = r.task /\ record(r).marks = r.marks
  BY DEF AttemptState
<1>2. att' = [att EXCEPT ![a] = record(att[a])]
  BY DEF Carry
<1> HIDE DEF record
<1> QED BY <1>1, <1>2

\* ... or with a cascade.
LEMMA MarkFacts ==
  ASSUME NEW a \in Attempt, att \in [Attempt -> AttemptState],
         NEW t \in Task, NEW m \in Marks, NEW ready \in SUBSET Task, Mark(a, t, m, ready)
  PROVE  /\ att' \in [Attempt -> AttemptState]
         /\ att'[a].pc = "advance" /\ att'[a].task = t /\ att'[a].marks = m
         /\ \A b \in Attempt \ {a} : att'[b] = att[b]
BY NoMarksType DEF Mark, Idle, AttemptState

\* Losing a lease between check and commit changes nothing but the history.
LEMMA LapsedFacts ==
  ASSUME att \in [Attempt -> AttemptState], NEW tasks, att' = Lapsed(tasks)
  PROVE  /\ att' \in [Attempt -> AttemptState]
         /\ \A a \in Attempt :
              /\ att'[a].pc = att[a].pc /\ att'[a].task = att[a].task /\ att'[a].out = att[a].out
              /\ att'[a].marks = att[a].marks
              /\ \/ att'[a] = att[a] /\ ~(att[a].pc = "settle" /\ att[a].task \in tasks)
                 \/ att[a].pc = "settle" /\ att[a].task \in tasks /\ att'[a].late
<1> DEFINE late(r) == [r EXCEPT !.late = TRUE]
<1>1. \A r \in AttemptState :
        /\ late(r) \in AttemptState
        /\ late(r).pc = r.pc /\ late(r).task = r.task /\ late(r).out = r.out
        /\ late(r).marks = r.marks /\ late(r).late
  BY DEF AttemptState
<1>2. att' = [a \in Attempt |-> IF att[a].pc = "settle" /\ att[a].task \in tasks
                                THEN late(att[a]) ELSE att[a]]
  BY DEF Lapsed
<1> HIDE DEF late
<1> QED BY <1>1, <1>2

-----------------------------------------------------------------------------
(* Type correctness. *)

\* An attempt works on a task, and what it is about to write is a status of the
\* row it will write to; the marks of a cascade are on the tasks of its job.
Carries(a) ==
  /\ att[a].pc # "idle" =>
       att[a].task \in Task /\ DOMAIN att[a].marks \subseteq TasksOf(JobOf[att[a].task])
  /\ att[a].pc = "settle" => att[a].out \in Terminal
  /\ att[a].pc = "doom" => att[a].out \in Doomed
  /\ att[a].pc \in {"rolljob", "rollcommit", "advancejob"} => att[a].out \in JobTerminal
  /\ att[a].pc = "advancecommit" => att[a].out \in JobTerminal \cup {"none"}

\* A resume is of a job and resets tasks of it.
Booked(r) ==
  resuming[r] # NoResume =>
    /\ resuming[r].job \in Job
    /\ resuming[r].reset \subseteq TasksOf(resuming[r].job)
    /\ resuming[r].held \subseteq resuming[r].reset

Carried == TypeOK /\ \A a \in Attempt : Carries(a)
Typed == Carried /\ \A r \in Resumer : Booked(r)

LEMMA TypedInit == Init => Typed
<1> SUFFICES ASSUME Init PROVE Typed
  OBVIOUS
<1>1. att = [a \in Attempt |-> Idle] /\ \A a \in Attempt : att[a].pc = "idle"
  BY DEF Init, Idle
<1>2. att \in [Attempt -> AttemptState] /\ janitor \in JanitorState
  BY <1>1, IdleType, SweepType DEF Init
<1>3. resuming \in [Resumer -> ResumeState]
  BY DEF Init, NoResume, ResumeState
<1>4. TypeOK
  BY <1>2, <1>3, BoundsAssumption DEF Init, TypeOK, TaskStatus, JobStatus, ReconStatus
<1>5. \A r \in Resumer : Booked(r)
  BY DEF Init, Booked
<1> QED BY <1>1, <1>4, <1>5 DEF Typed, Carried, Carries

\* An attempt without marks.
LEMMA NothingMarked ==
  ASSUME NEW a \in Attempt, NEW t, att'[a].task = t, att'[a].marks = NoMarks
  PROVE  DOMAIN att'[a].marks \subseteq TasksOf(JobOf[t])
<1>1. DOMAIN att'[a].marks = {}
  BY NoMarksType, Zenon
<1> QED BY <1>1

\* An attempt that goes on carries nothing wrong: with nothing to write...
LEMMA GoToCarries ==
  ASSUME Typed, NEW a \in Attempt, NEW t \in Task,
         NEW pc \in {"gate", "run", "except", "mark"}, GoTo(a, pc, t, "none")
  PROVE  att' \in [Attempt -> AttemptState] /\ \A b \in Attempt : Carries(b)'
<1>1. att \in [Attempt -> AttemptState]
  BY DEF Typed, Carried, TypeOK
<1>2. /\ att' \in [Attempt -> AttemptState] /\ att'[a].pc = pc /\ att'[a].task = t
      /\ att'[a].marks = NoMarks
      /\ \A b \in Attempt \ {a} : att'[b] = att[b]
  BY <1>1, GoToFacts
<1>3. DOMAIN att'[a].marks \subseteq TasksOf(JobOf[att'[a].task])
  BY <1>2, NothingMarked
<1> QED BY <1>2, <1>3 DEF Typed, Carried, Carries

\* ... or with the outcome of its task.
LEMMA HoldCarries ==
  ASSUME Typed, NEW a \in Attempt, NEW t \in Task, NEW pc \in {"settle", "roll"},
         NEW out \in Terminal, NEW loaded \in JobStatus \cup {"none"},
         Hold(a, pc, t, out, loaded)
  PROVE  att' \in [Attempt -> AttemptState] /\ \A b \in Attempt : Carries(b)'
<1>1. att \in [Attempt -> AttemptState]
  BY DEF Typed, Carried, TypeOK
<1>2. /\ att' \in [Attempt -> AttemptState]
      /\ att'[a].pc = pc /\ att'[a].task = t /\ att'[a].out = out
      /\ att'[a].marks = NoMarks
      /\ \A b \in Attempt \ {a} : att'[b] = att[b]
  BY <1>1, HoldFacts
<1>3. DOMAIN att'[a].marks \subseteq TasksOf(JobOf[att'[a].task])
  BY <1>2, NothingMarked
<1> QED BY <1>2, <1>3 DEF Typed, Carried, Carries

\* The requests of clients.
LEMMA TypedRequests ==
  ASSUME Typed,
         \/ \E j \in Job : \/ Submit(j) \/ SubmitFinalize(j) \/ SubmitCrash(j)
                           \/ \E force \in BOOLEAN : Cancel(j, force)
                           \/ \E r \in Resumer : ResumeRead(r, j)
         \/ \E r \in Resumer : ResumeCommit(r)
  PROVE  Typed'
<1> USE DEF Typed, Carried, TypeOK, taskRow, flags, actors
<1>1. ASSUME NEW j \in Job, Submit(j) PROVE Typed'
  <2> DEFINE rows == Materialized(j)
             waiting == {t \in TasksOf(j) : rows[t] = "pending"}
             ready == {t \in waiting : dependencies_ready(Deps[t], rows)}
  <2>1. task' = rows /\ rows \in [Task -> TaskStatus]
    BY <1>1 DEF Submit, Materialized, TaskStatus, Terminal
  <2>2. job' \in [Job -> JobStatus]
    BY <1>1 DEF Submit, JobStatus
  <2>3. queue' \subseteq Task /\ faults' \in 0..MaxFaults /\ submitting' \subseteq Job
    <3>1. CASE waiting = {}
      BY <1>1, <3>1 DEF Submit
    <3>2. CASE waiting # {}
      <4>1. Enqueue(ready) /\ submitting' = submitting
        BY <1>1, <3>2 DEF Submit
      <4>2. ready \in SUBSET Task
        BY DEF TasksOf
      <4> HIDE DEF ready
      <4> QED BY <4>1, <4>2, EnqueueType
    <3> QED BY <3>1, <3>2
  <2> HIDE DEF rows, waiting, ready
  <2> QED BY <1>1, <2>1, <2>2, <2>3 DEF Submit, Carries, Booked
<1>2. ASSUME NEW j \in Job, SubmitFinalize(j) PROVE Typed'
  <2>1. Finalized(j, task) \in JobStatus
    BY FinalizedFacts DEF JobStatus
  <2> QED BY <1>2, <2>1 DEF SubmitFinalize, Carries, Booked
<1>3. ASSUME NEW j \in Job, SubmitCrash(j) PROVE Typed'
  BY <1>3, FaultType DEF SubmitCrash, Carries, Booked
<1>4. ASSUME NEW j \in Job, NEW force \in BOOLEAN, Cancel(j, force)
      PROVE Typed'
  <2>1. requests' \in 0..MaxRequests
    BY <1>4, BoundsAssumption DEF Cancel, Request
  <2> QED BY <1>4, <2>1 DEF Cancel, Carries, Booked
<1>5. ASSUME NEW j \in Job, NEW r \in Resumer, ResumeRead(r, j) PROVE Typed'
  <2>1. requests' \in 0..MaxRequests
    BY <1>5, BoundsAssumption DEF ResumeRead, Request
  <2>2. resuming' \in [Resumer -> ResumeState]
    BY <1>5 DEF ResumeRead, ResumeState, TasksOf
  <2>3. \A q \in Resumer : Booked(q)'
    BY <1>5 DEF ResumeRead, Booked, TasksOf
  <2> QED BY <1>5, <2>1, <2>2, <2>3 DEF ResumeRead, Carries
<1>6. ASSUME NEW r \in Resumer, ResumeCommit(r) PROVE Typed'
  <2> DEFINE p == resuming[r]
  <2>1. p \in ResumeState /\ NoResume \in ResumeState
    BY DEF ResumeState, NoResume
  <2>2. resuming' \in [Resumer -> ResumeState]
    BY <1>6, <2>1 DEF ResumeCommit
  <2>5. \A q \in Resumer : Booked(q)'
    BY <1>6 DEF ResumeCommit, Booked
  <2>3. CASE UNCHANGED <<taskRow, job, flags, queue, att, overtaken, faults>>
    BY <1>6, <2>2, <2>3, <2>5 DEF ResumeCommit, Carries
  <2>4. CASE /\ job[p.job] # "absent" /\ p # NoResume
             /\ task' = [t \in Task |-> IF t \in p.reset THEN "pending" ELSE task[t]]
             /\ owner' = [t \in Task |-> IF t \in p.held THEN NoWorker ELSE owner[t]]
             /\ lease' = [t \in Task |-> IF t \in p.held THEN "none" ELSE lease[t]]
             /\ job' = [job EXCEPT ![p.job] = "pending"]
             /\ requested' = IF p.flagged THEN requested \ {p.job} ELSE requested
             /\ forced' = IF p.forced THEN forced \ {p.job} ELSE forced
             /\ att' = Lapsed(p.held)
             /\ overtaken' = overtaken \cup {p.job}
             /\ Enqueue(p.ready)
    <3>1. queue' \subseteq Task /\ faults' \in 0..MaxFaults
      BY <2>1, <2>4, EnqueueType DEF ResumeState
    <3>2. task' \in [Task -> TaskStatus]
      BY <2>4 DEF TaskStatus
    <3>3. owner' \in [Task -> Worker \cup {NoWorker}] /\ lease' \in [Task -> {"none", "live", "expired"}]
      BY <2>4
    <3>4. /\ job' \in [Job -> JobStatus] /\ requested' \subseteq Job /\ forced' \subseteq Job
          /\ overtaken' \subseteq Job
      BY <2>4 DEF JobStatus, Booked
    <3>5. att' \in [Attempt -> AttemptState] /\ \A a \in Attempt : Carries(a)'
      BY <2>4, LapsedFacts DEF Carries
    <3> QED BY <1>6, <2>2, <2>5, <3>1, <3>2, <3>3, <3>4, <3>5 DEF ResumeCommit
  <2> QED BY <1>6, <2>3, <2>4 DEF ResumeCommit
<1> QED BY <1>1, <1>2, <1>3, <1>4, <1>5, <1>6

\* The steps of an attempt.
LEMMA TypedAttempt ==
  ASSUME Typed, NEW a \in Attempt,
         (\E t \in Task : Pickup(a, t)) \/ Step(a) \/ Heartbeat(a) \/ Raise(a)
  PROVE  Typed'
<1> SUFFICES Carried'
  <2>1. resuming' = resuming
    BY DEF Step, Pickup, Doom, Acquire, HandlerReturns, HandlerRaises, Settle, RollUp, RollUpJob,
           RollUpCommit, AdvanceRead, AdvanceFlush, AdvanceRollUp, AdvanceJob, AdvanceCommit,
           Heartbeat, Raise, Reads, actors
  <2> QED BY <2>1 DEF Typed, Booked
<1> USE DEF Typed, Carried, TypeOK, taskRow, flags, actors
<1>0. att[a] \in AttemptState /\ att[a].task \in Task \cup {NoTask} /\ att[a].marks \in Marks
      /\ att[a].ready \in SUBSET Task
  BY DEF AttemptState
<1>1. ASSUME NEW t \in Task, Pickup(a, t) PROVE Carried'
  <2>1. CASE UNCHANGED att
    BY <1>1, <2>1 DEF Pickup, Carries
  <2>2. CASE GoTo(a, "gate", t, "none")
    <3>1. att' \in [Attempt -> AttemptState] /\ \A b \in Attempt : Carries(b)'
      BY <2>2, GoToCarries
    <3> QED BY <1>1, <3>1 DEF Pickup
  <2>3. CASE /\ GoTo(a, "doom", t, dependency_state(Deps[t], task))
             /\ dependency_state(Deps[t], task) \notin {"ready", "blocked"}
    <3>1. dependency_state(Deps[t], task) \in Doomed
      BY <2>3, DependencyStateType
    <3>2. dependency_state(Deps[t], task) \in Terminal
      BY <3>1 DEF Terminal
    <3>3. /\ att' \in [Attempt -> AttemptState]
          /\ att'[a].pc = "doom" /\ att'[a].task = t /\ att'[a].out \in Doomed
          /\ att'[a].marks = NoMarks
          /\ \A b \in Attempt \ {a} : att'[b] = att[b]
      BY <2>3, <3>1, <3>2, GoToFacts
    <3>4. \A b \in Attempt : Carries(b)'
      BY <3>3, NothingMarked DEF Carries
    <3> QED BY <1>1, <3>3, <3>4 DEF Pickup
  <2> QED BY <1>1, <2>1, <2>2, <2>3 DEF Pickup
<1>13. att[a].pc # "idle" => att[a].task \in Task /\ job[JobOf[att[a].task]] \in JobStatus
  BY TopologyAssumption DEF Carries
<1>2. CASE Doom(a)
  <2>1. CASE Return(a) /\ UNCHANGED task
    BY <1>2, <2>1, ReturnFacts DEF Doom, Carries
  <2>2. CASE task' = [task EXCEPT ![att[a].task] = att[a].out]
             /\ GoTo(a, "mark", att[a].task, "none")
    <3>1. task' \in [Task -> TaskStatus]
      BY <1>2, <2>2 DEF Doom, Carries, TaskStatus, Terminal
    <3>2. att[a].task \in Task
      BY <1>13, <1>2 DEF Doom
    <3>3. att' \in [Attempt -> AttemptState] /\ \A b \in Attempt : Carries(b)'
      BY <2>2, <3>2, GoToCarries
    <3> QED BY <1>2, <3>1, <3>3 DEF Doom
  <2> QED BY <1>2, <2>1, <2>2 DEF Doom
<1>3. CASE Acquire(a)
  <2> DEFINE t == att[a].task
  <2>0. overtaken' \subseteq Job
    BY <1>3, <1>13, TopologyAssumption DEF Acquire
  <2>1. CASE Return(a) /\ UNCHANGED <<taskRow, recon>>
    BY <1>3, <2>0, <2>1, ReturnFacts DEF Acquire, Carries
  <2>2. CASE /\ owner' = [owner EXCEPT ![t] = WorkerOf[a]]
             /\ lease' = [lease EXCEPT ![t] = "live"]
             /\ \/ \E out \in {"cancelled_dirty", "cancelled"} :
                     /\ task' = [task EXCEPT ![t] = out]
                     /\ Hook(t, "failed")
                     /\ Hold(a, "roll", t, out, job[JobOf[t]])
                \/ /\ task' = [task EXCEPT ![t] = "running"]
                   /\ Hook(t, "running")
                   /\ GoTo(a, "run", t, "none")
    <3>1. owner' \in [Task -> Worker \cup {NoWorker}] /\ lease' \in [Task -> {"none", "live", "expired"}]
      BY <2>2 DEF Worker
    <3>2. task' \in [Task -> TaskStatus]
      BY <2>2 DEF TaskStatus, Terminal, Doomed, CancelledDep
    <3>3. recon' \in [Job -> ReconStatus]
      <4>1. {"failed", "running"} \subseteq ReconStatus
        BY DEF ReconStatus, Doomed, FailedDep
      <4> QED BY <2>2, <4>1, HookType
    <3>4. t \in Task /\ job[JobOf[t]] \in JobStatus
      BY <1>13, <1>3 DEF Acquire
    <3>5. {"cancelled_dirty", "cancelled"} \subseteq Terminal
      BY DEF Terminal, Doomed, CancelledDep
    <3>6. att' \in [Attempt -> AttemptState] /\ \A b \in Attempt : Carries(b)'
      BY <2>2, <3>4, <3>5, GoToCarries, HoldCarries
    <3> QED BY <1>3, <2>0, <3>1, <3>2, <3>3, <3>6 DEF Acquire
  <2> QED BY <1>3, <2>1, <2>2 DEF Acquire
<1>4. CASE HandlerReturns(a)
  <2>1. CASE Return(a)
    BY <1>4, <2>1, ReturnFacts DEF HandlerReturns, Carries
  <2>2. ASSUME NEW out \in {"cancelled_dirty", "succeeded"},
               Hold(a, "settle", att[a].task, out, job[JobOf[att[a].task]])
        PROVE  Carried'
    <3>1. out \in Terminal
      BY DEF Terminal, Doomed, CancelledDep
    <3>2. att[a].task \in Task /\ job[JobOf[att[a].task]] \in JobStatus
      BY <1>13, <1>4 DEF HandlerReturns
    <3>3. att' \in [Attempt -> AttemptState] /\ \A b \in Attempt : Carries(b)'
      BY <2>2, <3>1, <3>2, HoldCarries
    <3> QED BY <1>4, <3>3 DEF HandlerReturns
  <2> QED BY <1>4, <2>1, <2>2 DEF HandlerReturns
<1>5. CASE HandlerRaises(a)
  <2>1. CASE Return(a)
    BY <1>5, <2>1, ReturnFacts DEF HandlerRaises, Carries
  <2>2. CASE GoTo(a, "settle", att[a].task, "failed")
    <3>1. "failed" \in Terminal
      BY DEF Terminal, Doomed, FailedDep
    <3>2. att[a].task \in Task
      BY <1>13, <1>5 DEF HandlerRaises
    <3>3. att' \in [Attempt -> AttemptState] /\ \A b \in Attempt : Carries(b)'
      BY <2>2, <3>1, <3>2, HoldCarries DEF GoTo
    <3> QED BY <1>5, <3>3 DEF HandlerRaises
  <2> QED BY <1>5, <2>1, <2>2 DEF HandlerRaises
<1>6. CASE Settle(a)
  <2>1. CASE Return(a) /\ UNCHANGED <<task, recon>>
    BY <1>6, <2>1, ReturnFacts DEF Settle, Carries
  <2>2. CASE /\ task' = [task EXCEPT ![att[a].task] = att[a].out]
             /\ Hook(att[a].task, IF att[a].out = "succeeded" THEN "succeeded" ELSE "failed")
             /\ Hold(a, "roll", att[a].task, att[a].out, att[a].loaded)
    <3>1. task' \in [Task -> TaskStatus]
      BY <1>6, <2>2 DEF Settle, Carries, TaskStatus
    <3>2. recon' \in [Job -> ReconStatus]
      <4>1. {"succeeded", "failed"} \subseteq ReconStatus
        BY DEF ReconStatus, Doomed, FailedDep
      <4> QED BY <2>2, <4>1, HookType
    <3>3. att[a].task \in Task /\ att[a].out \in Terminal /\ att[a].loaded \in JobStatus \cup {"none"}
      BY <1>0, <1>13, <1>6 DEF Settle, Carries, AttemptState
    <3>4. att' \in [Attempt -> AttemptState] /\ \A b \in Attempt : Carries(b)'
      BY <2>2, <3>3, HoldCarries
    <3> QED BY <1>6, <3>1, <3>2, <3>4 DEF Settle
  <2> QED BY <1>6, <2>1, <2>2 DEF Settle
<1>7. CASE RollUp(a)
  <2> DEFINE t == att[a].task
             rows == [task EXCEPT ![t] = IF @ = "absent" THEN @ ELSE att[a].out]
             verdict == Verdict(JobOf[t], rows)
  <2>0. t \in Task /\ JobOf[t] \in Job
    BY <1>13, <1>7, TopologyAssumption DEF RollUp
  <2>1. CASE GoTo(a, "mark", t, "none")
    <3>1. att' \in [Attempt -> AttemptState] /\ \A b \in Attempt : Carries(b)'
      BY <2>0, <2>1, GoToCarries
    <3> QED BY <1>7, <3>1 DEF RollUp, Reads
  <2>2. ASSUME Decided(JobOf[t], rows), NEW pc \in {"rolljob", "rollcommit"},
               GoTo(a, pc, t, verdict)
        PROVE  Carried'
    <3>1. verdict \in JobTerminal /\ verdict \in Terminal
      <4> HIDE DEF rows
      <4> QED BY <2>0, <2>2, DecidedFacts
    <3> HIDE DEF verdict
    <3>2. /\ att' \in [Attempt -> AttemptState]
          /\ att'[a].pc = pc /\ att'[a].task = t /\ att'[a].out \in JobTerminal
          /\ att'[a].marks = NoMarks
          /\ \A b \in Attempt \ {a} : att'[b] = att[b]
      BY <2>0, <2>2, <3>1, GoToFacts
    <3>3. \A b \in Attempt : Carries(b)'
      BY <2>0, <3>2, NothingMarked DEF Carries
    <3> QED BY <1>7, <3>2, <3>3 DEF RollUp, Reads
  <2> QED BY <1>7, <2>1, <2>2 DEF RollUp
<1>14. CASE RollUpJob(a)
  <2> DEFINE t == att[a].task
  <2>0. t \in Task /\ att[a].out \in JobTerminal /\ att[a].out \in Terminal
    BY <1>0, <1>14 DEF RollUpJob, Carries, AttemptState, JobTerminal
  <2>1. CASE GoTo(a, "mark", t, "none")
    <3>1. att' \in [Attempt -> AttemptState] /\ \A b \in Attempt : Carries(b)'
      BY <2>0, <2>1, GoToCarries
    <3> QED BY <1>14, <3>1 DEF RollUpJob, Reads
  <2>2. CASE GoTo(a, "rollcommit", t, att[a].out)
    <3>1. /\ att' \in [Attempt -> AttemptState]
          /\ att'[a].pc = "rollcommit" /\ att'[a].task = t /\ att'[a].out \in JobTerminal
          /\ att'[a].marks = NoMarks
          /\ \A b \in Attempt \ {a} : att'[b] = att[b]
      BY <2>0, <2>2, GoToFacts
    <3>2. \A b \in Attempt : Carries(b)'
      BY <2>0, <3>1, NothingMarked DEF Carries
    <3> QED BY <1>14, <3>1, <3>2 DEF RollUpJob, Reads
  <2> QED BY <1>14, <2>1, <2>2 DEF RollUpJob
<1>8. CASE RollUpCommit(a)
  <2>1. CASE Return(a) /\ UNCHANGED job
    BY <1>8, <2>1, ReturnFacts DEF RollUpCommit, Carries
  <2>2. CASE /\ job' = [job EXCEPT ![JobOf[att[a].task]] = att[a].out]
             /\ GoTo(a, "mark", att[a].task, "none")
    <3>1. job' \in [Job -> JobStatus]
      BY <1>8, <2>2 DEF RollUpCommit, Carries, JobStatus
    <3>2. att[a].task \in Task
      BY <1>13, <1>8 DEF RollUpCommit
    <3>3. att' \in [Attempt -> AttemptState] /\ \A b \in Attempt : Carries(b)'
      BY <2>2, <3>2, GoToCarries
    <3> QED BY <1>8, <3>1, <3>3 DEF RollUpCommit
  <2> QED BY <1>8, <2>1, <2>2 DEF RollUpCommit
<1>9. CASE AdvanceRead(a)
  <2> DEFINE t == att[a].task
             rows == JobRows(JobOf[t])
             ready(m) == Followers(JobOf[t], Override(rows, m))
  <2>1. PICK m \in Cascades(TasksOf(JobOf[t]), rows) : Mark(a, t, m, ready(m))
    BY <1>9 DEF AdvanceRead
  <2>2. m \in Marks /\ DOMAIN m \subseteq TasksOf(JobOf[t])
    <3>1. TasksOf(JobOf[t]) \in SUBSET Task
      BY DEF TasksOf
    <3> HIDE DEF rows
    <3> QED BY <3>1, CascadesType
  <2>3. ready(m) \in SUBSET Task /\ t \in Task
    BY <1>13, <1>9 DEF TasksOf, Followers, AdvanceRead
  <2> HIDE DEF rows, ready
  <2>4. att' \in [Attempt -> AttemptState] /\ \A b \in Attempt : Carries(b)'
    BY <2>1, <2>2, <2>3, MarkFacts DEF Carries
  <2> QED BY <1>9, <2>4 DEF AdvanceRead, Reads
<1>10. CASE AdvanceFlush(a)
  <2> DEFINE j == JobOf[att[a].task]
             rows == Override(task, att[a].marks)
  <2>1. CASE UNCHANGED <<task, job, queue, faults>>
    BY <1>10, <2>1, ReturnFacts DEF AdvanceFlush, Carries
  <2>2. CASE /\ task' = rows
             /\ job' = [job EXCEPT ![j] = Finalized(j, rows)]
             /\ Enqueue(att[a].ready)
    <3>1. task' \in [Task -> TaskStatus]
      BY <1>0, <2>2, OverrideType
    <3>2. job' \in [Job -> JobStatus]
      <4> HIDE DEF j, rows
      <4> QED BY <2>2, FinalizedFacts DEF JobStatus
    <3>3. queue' \subseteq Task /\ faults' \in 0..MaxFaults
      BY <1>0, <2>2, EnqueueType
    <3> QED BY <1>10, <3>1, <3>2, <3>3, ReturnFacts DEF AdvanceFlush, Carries
  <2> QED BY <1>10, <2>1, <2>2 DEF AdvanceFlush
<1>15. CASE AdvanceRollUp(a)
  <2> DEFINE j == JobOf[att[a].task]
             decided == Decided(j, task)
  <2>1. j \in Job /\ att[a].task \in Task
    BY <1>13, <1>15, TopologyAssumption DEF AdvanceRollUp
  <2>2. decided => Verdict(j, task) \in JobTerminal /\ Verdict(j, task) \in Terminal
    <3> HIDE DEF j
    <3> QED BY <2>1, DecidedFacts
  <2>3. PICK v \in Terminal \cup {"none"}, pc \in {"advancejob", "advancecommit"} :
          /\ Carry(a, pc, v)
          /\ pc = "advancejob" => v \in JobTerminal
          /\ v \in JobTerminal \cup {"none"}
    <3>1. CASE decided
      BY <1>15, <2>2, <3>1 DEF AdvanceRollUp
    <3>2. CASE ~decided
      BY <1>15, <3>2 DEF AdvanceRollUp
    <3> QED BY <3>1, <3>2
  <2>4. att' \in [Attempt -> AttemptState] /\ \A b \in Attempt : Carries(b)'
    BY <1>15, <2>1, <2>3, CarryFacts DEF AdvanceRollUp, Carries
  <2> QED BY <1>15, <2>4 DEF AdvanceRollUp, Reads
<1>16. CASE AdvanceJob(a)
  <2>1. att[a].pc = "advancejob" /\ att[a].out \in JobTerminal
    BY <1>16 DEF AdvanceJob, Carries
  <2>2. PICK v \in {"none", att[a].out} : Carry(a, "advancecommit", v)
    BY <1>16 DEF AdvanceJob
  <2>3. att' \in [Attempt -> AttemptState] /\ \A b \in Attempt : Carries(b)'
    <3>1. v \in Terminal \cup {"none"}
      BY <1>0, <2>2 DEF AttemptState
    <3> QED BY <2>1, <2>2, <3>1, CarryFacts DEF Carries
  <2> QED BY <1>16, <2>3 DEF AdvanceJob, Reads
<1>17. CASE AdvanceCommit(a)
  <2> DEFINE j == JobOf[att[a].task]
             out == att[a].out
  <2>1. out \in JobTerminal \cup {"none"} /\ Return(a)
    BY <1>17 DEF AdvanceCommit, Carries
  <2>2. job' \in [Job -> JobStatus]
    BY <1>17, <2>1 DEF AdvanceCommit, JobStatus
  <2>3. queue' \subseteq Task /\ faults' \in 0..MaxFaults
    BY <1>0, <1>17, EnqueueType DEF AdvanceCommit
  <2> QED BY <1>17, <2>1, <2>2, <2>3, ReturnFacts DEF AdvanceCommit, Carries
<1>11. CASE Heartbeat(a)
  BY <1>11 DEF Heartbeat, Carries
<1>12. CASE Raise(a)
  <2>1. CASE Return(a)
    BY <1>12, <2>1, ReturnFacts, FaultType DEF Raise, Carries
  <2>2. CASE GoTo(a, "except", att[a].task, "none")
    <3>1. att[a].task \in Task
      BY <1>13, <1>12 DEF Raise
    <3>2. att' \in [Attempt -> AttemptState] /\ \A b \in Attempt : Carries(b)'
      BY <2>2, <3>1, GoToCarries
    <3> QED BY <1>12, <3>2, FaultType DEF Raise
  <2> QED BY <1>12, <2>1, <2>2 DEF Raise
<1> QED BY <1>1, <1>2, <1>3, <1>4, <1>5, <1>6, <1>7, <1>8, <1>9, <1>10, <1>11, <1>12, <1>14,
           <1>15, <1>16, <1>17 DEF Step

\* The clock, the crashes and the janitor.
LEMMA TypedRest ==
  ASSUME Typed,
         \/ \E t \in Task : Expire(t)
         \/ \E w \in Worker : Crash(w)
         \/ JanitorStep \/ PhaseFails \/ JanitorCrash
  PROVE  Typed'
<1> SUFFICES Carried'
  <2>1. resuming' = resuming
    BY DEF Expire, Crash, JanitorStep, Reclaim, PropagateRead, PropagateCommit, Requeue, GcRead,
           GcDelete, PhaseFails, JanitorCrash, actors
  <2> QED BY <2>1 DEF Typed, Booked
<1> USE DEF Typed, Carried, TypeOK, taskRow, flags, actors
<1>0. janitor.marks \in Marks /\ janitor.todo \subseteq Task /\ janitor.old \subseteq Job
  BY DEF JanitorState
<1>1. ASSUME NEW t \in Task, Expire(t) PROVE Carried'
  <2>1. att' \in [Attempt -> AttemptState] /\ \A a \in Attempt : Carries(a)'
    <3>1. att' = Lapsed({t})
      BY <1>1 DEF Expire
    <3>2. /\ att' \in [Attempt -> AttemptState]
          /\ \A a \in Attempt :
               /\ att'[a].pc = att[a].pc /\ att'[a].task = att[a].task
               /\ att'[a].out = att[a].out /\ att'[a].marks = att[a].marks
      BY <3>1, LapsedFacts
    <3> QED BY <3>2 DEF Carries
  <2>2. overtaken' \subseteq Job /\ faults' \in 0..MaxFaults
    BY <1>1, FaultType, TopologyAssumption DEF Expire
  <2> QED BY <1>1, <2>1, <2>2 DEF Expire
<1>2. ASSUME NEW w \in Worker, Crash(w) PROVE Carried'
  <2>1. att' \in [Attempt -> AttemptState]
    BY <1>2, IdleType DEF Crash
  <2>2. \A a \in Attempt : Carries(a)'
    BY <1>2 DEF Crash, Carries, Idle
  <2> QED BY <1>2, <2>1, <2>2, FaultType DEF Crash
<1>3. CASE Reclaim
  <2>1. task' \in [Task -> TaskStatus]
    BY <1>3 DEF Reclaim, TaskStatus
  <2>2. janitor' \in JanitorState
    BY <1>3, NoMarksType DEF Reclaim, Sweep, JanitorState
  <2> QED BY <1>3, <2>1, <2>2 DEF Reclaim, Carries
<1>4. CASE PropagateRead
  <2>1. PICK m \in Cascades(Task, task) :
          janitor' = [janitor EXCEPT !.pc = IF m = NoMarks THEN "requeue" ELSE "commit",
                                     !.marks = m]
    BY <1>4 DEF PropagateRead
  <2>2. m \in Marks
    BY CascadesType
  <2> QED BY <1>4, <2>1, <2>2 DEF PropagateRead, JanitorState, Carries
<1>5. CASE PropagateCommit
  <2> DEFINE rows == Override(task, janitor.marks)
             affected == {JobOf[t] : t \in DOMAIN janitor.marks}
  <2>1. janitor' \in JanitorState
    BY <1>5, NoMarksType DEF PropagateCommit, JanitorState
  <2>2. CASE UNCHANGED <<task, job, recon>>
    BY <1>5, <2>1, <2>2 DEF PropagateCommit, Carries
  <2>3. CASE /\ task' = rows
             /\ job' = [j \in Job |-> IF j \in affected THEN Finalized(j, rows) ELSE job[j]]
             /\ recon' \in [Job -> ReconStatus]
    <3>1. task' \in [Task -> TaskStatus]
      BY <1>0, <2>3, OverrideType
    <3>2. job' \in [Job -> JobStatus]
      <4> HIDE DEF rows, affected
      <4> QED BY <2>3, FinalizedFacts DEF JobStatus
    <3> QED BY <1>5, <2>1, <2>3, <3>1, <3>2 DEF PropagateCommit, Carries
  <2> QED BY <1>5, <2>2, <2>3 DEF PropagateCommit
<1>6. CASE Requeue
  <2> DEFINE ids == janitor.todo
               \cup {t \in Task : task[t] = "pending" /\ dependencies_ready(Deps[t], task)}
  <2>1. Enqueue(ids) /\ ids \in SUBSET Task
    BY <1>0, <1>6 DEF Requeue
  <2>2. queue' \subseteq Task /\ faults' \in 0..MaxFaults
    <3> HIDE DEF ids
    <3> QED BY <2>1, EnqueueType
  <2>3. janitor' \in JanitorState
    BY <1>6, NoMarksType DEF Requeue, Sweep, JanitorState
  <2> QED BY <1>6, <2>2, <2>3 DEF Requeue, Carries
<1>7. CASE GcRead
  <2>1. PICK old \in SUBSET {j \in Job : job[j] \in JobTerminal} :
          janitor' = IF old = {} THEN Sweep ELSE [Sweep EXCEPT !.pc = "delete", !.old = old]
    BY <1>7 DEF GcRead
  <2>2. [Sweep EXCEPT !.pc = "delete", !.old = old] \in JanitorState
    BY NoMarksType DEF Sweep, JanitorState
  <2>3. janitor' \in JanitorState
    BY <2>1, <2>2, SweepType
  <2> QED BY <1>7, <2>3 DEF GcRead, Carries
<1>8. CASE GcDelete
  <2>1. task' \in [Task -> TaskStatus] /\ job' \in [Job -> JobStatus]
    BY <1>8 DEF GcDelete, TaskStatus, JobStatus
  <2> QED BY <1>8, <2>1, SweepType DEF GcDelete, Carries
<1>9. CASE PhaseFails
  <2>1. janitor' \in JanitorState
    BY <1>9, NoMarksType DEF PhaseFails, NextPhase, JanitorState
  <2> QED BY <1>9, <2>1, FaultType DEF PhaseFails, Carries
<1>10. CASE JanitorCrash
  BY <1>10, SweepType, FaultType DEF JanitorCrash, Carries
<1> QED BY <1>1, <1>2, <1>3, <1>4, <1>5, <1>6, <1>7, <1>8, <1>9, <1>10 DEF JanitorStep

LEMMA TypedNext == Typed /\ [Next]_vars => Typed'
<1> SUFFICES ASSUME Typed, [Next]_vars PROVE Typed'
  OBVIOUS
<1>1. CASE UNCHANGED vars
  BY <1>1 DEF vars, Typed, Carried, TypeOK, Carries, Booked
<1>2. CASE Next
  BY <1>2, TypedRequests, TypedAttempt, TypedRest DEF Next
<1> QED BY <1>1, <1>2

\* Every row, message and record in flight keeps its type, for every topology of
\* jobs, tasks and workers and whatever faults happen: in particular no attempt
\* ever commits a status that the Task or Job table does not know.
THEOREM TypeCorrect == Spec => []TypeOK
<1>1. Init => Typed
  BY TypedInit
<1>2. Typed /\ [Next]_vars => Typed'
  BY TypedNext
<1>3. Typed => TypeOK
  BY DEF Typed, Carried
<1> QED BY <1>1, <1>2, <1>3, PTL DEF Spec


-----------------------------------------------------------------------------
(* What holds of every job, also of those that were resumed or overtaken:   *)
(* rows come and go with their job, nobody is at work on a job that was not *)
(* submitted, and an attempt about to commit has the row's lease, or knows  *)
(* (history) that it has lost it.                                           *)

\* A lease that was not lost since the ownership check.
SettleHeld(a) ==
  att[a].pc = "settle" /\ ~att[a].late =>
    \/ task[att[a].task] = "absent"
    \/ owner[att[a].task] = WorkerOf[a] /\ lease[att[a].task] = "live"

Placed ==
  /\ RowsFollowJob
  /\ \A a \in Attempt : att[a].pc # "idle" => job[JobOf[att[a].task]] # "new"
  /\ \A r \in Resumer : resuming[r] # NoResume => job[resuming[r].job] # "new"
  /\ \A a \in Attempt : SettleHeld(a)

\* Rows are inserted and deleted with their job, and once.
Lasts(j) ==
  /\ job'[j] = "new" => job[j] = "new"
  /\ job[j] = "absent" => job'[j] = "absent"
RowStep == RowsFollowJob' /\ \A j \in Job : Lasts(j)

\* A step that neither inserts nor deletes rows.
StaysPut ==
  /\ \A t \in Task : /\ task'[t] = "absent" <=> task[t] = "absent"
                     /\ task[t] = "absent" => owner'[t] = owner[t] /\ lease'[t] = lease[t]
  /\ \A j \in Job : \/ job'[j] = job[j]
                    \/ job[j] \notin {"new", "absent"} /\ job'[j] \notin {"new", "absent"}

\* What a step may do to an attempt.
AttStep(b) ==
  \/ att'[b] = att[b]
  \/ att'[b].pc = "idle"
  \/ /\ att[b].pc = "idle"
     /\ att'[b].pc \in {"gate", "doom"}
     /\ att'[b].task \in Task
     /\ task[att'[b].task] = "pending"
  \/ att[b].pc = "settle" /\ att'[b].pc = "settle" /\ att'[b].task = att[b].task /\ att'[b].late
  \/ /\ att[b].pc # "idle"
     /\ att'[b].task = att[b].task
     /\ att'[b].pc = "settle" => Owns(b) /\ UNCHANGED <<task, owner, lease>>
     /\ att'[b].pc \in Beating => att[b].pc \in Beating \/ Acquire(b)

\* A live lease is only lost by deletion, or by an attempt that knows.
Grip(t) ==
  lease[t] = "live" =>
    \/ task'[t] = "absent"
    \/ owner'[t] = owner[t] /\ lease'[t] = "live"
    \/ \A a \in Attempt : att[a].pc = "settle" /\ att[a].task = t => att'[a].late

LEMMA StatusFacts ==
  /\ "absent" \notin Terminal /\ "pending" \notin Terminal /\ "running" \notin Terminal
  /\ "absent" \notin Doomed /\ "pending" \notin Doomed /\ "running" \notin Doomed
  /\ "succeeded" \notin Doomed
  /\ Doomed \subseteq Terminal /\ Terminal \subseteq TaskStatus
  /\ Terminal \cap ReadyDep = {"succeeded"}
  /\ TaskStatus \cap ReadyDep = {"succeeded"}
  /\ JobTerminal \cap {"new", "absent", "pending"} = {} /\ "none" \notin JobTerminal
  /\ TaskStatus = Terminal \cup {"absent", "pending", "running"}
  /\ Terminal = Doomed \cup {"succeeded"}
BY DEF Terminal, Doomed, TaskStatus, ReadyDep, FailedDep, CancelledDep, JobTerminal

LEMMA PutRows ==
  ASSUME RowsFollowJob, StaysPut
  PROVE  RowStep
BY TopologyAssumption DEF RowsFollowJob, StaysPut, RowStep, Lasts

LEMMA UnwrittenRows ==
  ASSUME RowsFollowJob, UNCHANGED <<task, owner, lease, job>>
  PROVE  RowStep
BY DEF RowsFollowJob, RowStep, Lasts

\* A roll-up of rows that neither come nor go.
LEMMA RollUpStaysPut ==
  ASSUME RowsFollowJob, NEW j \in Job, NEW status,
         \A t \in Task : status[t] = "absent" <=> task[t] = "absent"
  PROVE  \/ Finalized(j, status) = job[j]
         \/ job[j] \notin {"new", "absent"} /\ Finalized(j, status) \in JobTerminal
BY FinalizedFacts DEF RowsFollowJob, TasksOf

\* Nor do they when marks are written.
LEMMA MarksStayPut ==
  ASSUME NEW m \in Marks, task \in [Task -> TaskStatus],
         \A t \in DOMAIN m : task[t] # "absent"
  PROVE  \A t \in Task : Override(task, m)[t] = "absent" <=> task[t] = "absent"
<1>1. \A t \in DOMAIN m : t \in Task /\ Override(task, m)[t] \in Doomed
  BY MarksFacts, OverrideFacts
<1>2. \A t \in Task \ DOMAIN m : Override(task, m)[t] = task[t]
  BY OverrideFacts
<1> QED BY <1>1, <1>2, StatusFacts

LEMMA RowsOfRequests ==
  ASSUME Typed, Placed,
         \/ \E j \in Job : \/ Submit(j) \/ SubmitFinalize(j) \/ SubmitCrash(j)
                           \/ \E force \in BOOLEAN : Cancel(j, force)
                           \/ \E r \in Resumer : ResumeRead(r, j)
         \/ \E r \in Resumer : ResumeCommit(r)
  PROVE  RowStep
<1>0. RowsFollowJob /\ task \in [Task -> TaskStatus] /\ job \in [Job -> JobStatus]
  BY DEF Typed, Carried, TypeOK, Placed
<1>1. ASSUME NEW j \in Job, Submit(j) PROVE RowStep
  <2>1. /\ job[j] = "new" /\ job' = [job EXCEPT ![j] = "pending"]
        /\ \A t \in Task : IF t \in TasksOf(j) THEN task'[t] \in {"pending", "succeeded"}
                                              ELSE task'[t] = task[t]
        /\ UNCHANGED <<owner, lease>>
    BY <1>1 DEF Submit, Materialized, TasksOf
  <2> QED BY <1>0, <2>1, TopologyAssumption DEF RowsFollowJob, TasksOf, RowStep, Lasts
<1>2. ASSUME NEW j \in Job, SubmitFinalize(j) PROVE RowStep
  <2>1. /\ job' = [job EXCEPT ![j] = Finalized(j, task)]
        /\ UNCHANGED <<task, owner, lease>>
    BY <1>2 DEF SubmitFinalize, taskRow
  <2>2. \/ Finalized(j, task) = job[j]
        \/ job[j] \notin {"new", "absent"} /\ Finalized(j, task) \in JobTerminal
    BY <1>0, RollUpStaysPut
  <2>3. StaysPut
    BY <1>0, <2>1, <2>2, StatusFacts DEF StaysPut
  <2> QED BY <1>0, <2>3, PutRows
<1>3. ASSUME NEW r \in Resumer, ResumeCommit(r) PROVE RowStep
  <2> DEFINE p == resuming[r]
  <2>1. CASE UNCHANGED <<taskRow, job>>
    BY <1>0, <2>1, UnwrittenRows DEF taskRow
  <2>2. CASE /\ job[p.job] # "absent" /\ p # NoResume
             /\ task' = [t \in Task |-> IF t \in p.reset THEN "pending" ELSE task[t]]
             /\ owner' = [t \in Task |-> IF t \in p.held THEN NoWorker ELSE owner[t]]
             /\ lease' = [t \in Task |-> IF t \in p.held THEN "none" ELSE lease[t]]
             /\ job' = [job EXCEPT ![p.job] = "pending"]
    <3>1. /\ p.job \in Job /\ p.reset \subseteq TasksOf(p.job) /\ p.held \subseteq p.reset
          /\ job[p.job] \notin {"new", "absent"}
      BY <2>2 DEF Typed, Booked, Placed
    <3>2. \A t \in p.reset : task[t] # "absent"
      BY <1>0, <3>1 DEF RowsFollowJob, TasksOf
    <3> HIDE DEF p
    <3>3. owner \in [Task -> Worker \cup {NoWorker}] /\ lease \in [Task -> {"none", "live", "expired"}]
      BY DEF Typed, Carried, TypeOK
    <3>4. StaysPut
      BY <1>0, <2>2, <3>1, <3>2, <3>3 DEF StaysPut
    <3> QED BY <1>0, <3>4, PutRows
  <2> QED BY <1>3, <2>1, <2>2 DEF ResumeCommit
<1>4. ASSUME UNCHANGED <<task, owner, lease, job>> PROVE RowStep
  BY <1>0, <1>4, UnwrittenRows
<1> QED BY <1>1, <1>2, <1>3, <1>4 DEF SubmitCrash, Cancel, ResumeRead, taskRow

LEMMA RowsOfAttempt ==
  ASSUME Typed, Placed, NEW a \in Attempt,
         (\E t \in Task : Pickup(a, t)) \/ Step(a) \/ Heartbeat(a) \/ Raise(a)
  PROVE  RowStep
<1> DEFINE t == att[a].task
<1>0. /\ RowsFollowJob /\ TypeOK /\ Carries(a)
      /\ att[a].pc # "idle" => t \in Task /\ JobOf[t] \in Job /\ job[JobOf[t]] # "new"
  BY TopologyAssumption DEF Typed, Carried, Carries, Placed
<1>1. CASE UNCHANGED <<task, owner, lease, job>>
  BY <1>0, <1>1, UnwrittenRows
<1>2. CASE Doom(a) \/ Settle(a)
  <2>1. CASE UNCHANGED task
    BY <1>1, <1>2, <2>1 DEF Doom, Settle
  <2>2. CASE task[t] # "absent" /\ task' = [task EXCEPT ![t] = att[a].out]
    <3>1. att[a].out \in Terminal /\ t \in Task /\ UNCHANGED <<owner, lease, job>>
      BY <1>0, <1>2, StatusFacts DEF Doom, Settle, Carries
    <3>2. StaysPut
      BY <1>0, <2>2, <3>1, StatusFacts DEF StaysPut, TypeOK
    <3> QED BY <1>0, <3>2, PutRows
  <2> QED BY <1>2, <2>1, <2>2 DEF Doom, Settle
<1>3. CASE Acquire(a)
  <2>1. CASE UNCHANGED taskRow
    BY <1>1, <1>3, <2>1 DEF Acquire, taskRow
  <2>2. CASE /\ Acquirable(t)
             /\ owner' = [owner EXCEPT ![t] = WorkerOf[a]]
             /\ lease' = [lease EXCEPT ![t] = "live"]
             /\ \E out \in {"cancelled_dirty", "cancelled", "running"} :
                  task' = [task EXCEPT ![t] = out]
    <3>1. StaysPut
      BY <1>0, <1>3, <2>2 DEF StaysPut, TypeOK, Acquirable, Acquire
    <3> QED BY <1>0, <3>1, PutRows
  <2> QED BY <1>3, <2>1, <2>2 DEF Acquire
<1>4. CASE RollUpCommit(a) \/ AdvanceCommit(a)
  <2>1. CASE UNCHANGED job
    BY <1>1, <1>4, <2>1 DEF RollUpCommit, AdvanceCommit, taskRow
  <2>2. CASE /\ job[JobOf[t]] # "absent" /\ att[a].out # "none"
             /\ job' = [job EXCEPT ![JobOf[t]] = att[a].out]
    <3>1. /\ att[a].out \in JobTerminal /\ t \in Task /\ JobOf[t] \in Job
          /\ job[JobOf[t]] \notin {"new", "absent"}
          /\ UNCHANGED <<task, owner, lease>>
      BY <1>0, <1>4, <2>2 DEF RollUpCommit, AdvanceCommit, Carries, taskRow
    <3>2. StaysPut
      BY <1>0, <2>2, <3>1, StatusFacts DEF StaysPut, TypeOK
    <3> QED BY <1>0, <3>2, PutRows
  <2>3. att[a].pc = "rollcommit" => att[a].out # "none"
    BY <1>0, StatusFacts DEF Carries
  <2> QED BY <1>4, <2>1, <2>2, <2>3 DEF RollUpCommit, AdvanceCommit
<1>5. CASE AdvanceFlush(a)
  <2> DEFINE m == att[a].marks
             j == JobOf[t]
  <2>1. CASE UNCHANGED <<task, job>>
    BY <1>1, <1>5, <2>1 DEF AdvanceFlush
  <2>2. CASE /\ \A u \in DOMAIN m : task[u] # "absent"
             /\ task' = Override(task, m)
             /\ job' = [job EXCEPT ![j] = Finalized(j, task')]
    <3>1. m \in Marks /\ j \in Job /\ UNCHANGED <<owner, lease>>
      BY <1>0, <1>5 DEF AdvanceFlush, TypeOK, AttemptState
    <3> HIDE DEF m, j
    <3>2. \A u \in Task : task'[u] = "absent" <=> task[u] = "absent"
      BY <1>0, <2>2, <3>1, MarksStayPut DEF TypeOK
    <3>3. \/ Finalized(j, task') = job[j]
          \/ job[j] \notin {"new", "absent"} /\ Finalized(j, task') \in JobTerminal
      BY <1>0, <3>1, <3>2, RollUpStaysPut
    <3>4. StaysPut
      BY <1>0, <2>2, <3>1, <3>2, <3>3, StatusFacts DEF StaysPut, TypeOK
    <3> QED BY <1>0, <3>4, PutRows
  <2> QED BY <1>5, <2>1, <2>2 DEF AdvanceFlush
<1>6. CASE Heartbeat(a)
  <2>1. t \in Task /\ task[t] # "absent" /\ lease' = [lease EXCEPT ![t] = "live"]
        /\ UNCHANGED <<task, owner, job>>
    BY <1>0, <1>6 DEF Heartbeat, Beating, RowsFollowJob
  <2>2. StaysPut
    BY <1>0, <2>1 DEF StaysPut, TypeOK
  <2> QED BY <1>0, <2>2, PutRows
<1> QED BY <1>1, <1>2, <1>3, <1>4, <1>5, <1>6
        DEF Step, Pickup, HandlerReturns, HandlerRaises, RollUp, RollUpJob, AdvanceRead,
            AdvanceRollUp, AdvanceJob, Raise, Reads, taskRow

LEMMA RowsOfRest ==
  ASSUME Typed, Placed,
         \/ \E t \in Task : Expire(t)
         \/ \E w \in Worker : Crash(w)
         \/ JanitorStep \/ PhaseFails \/ JanitorCrash
  PROVE  RowStep
<1>0. /\ RowsFollowJob /\ TypeOK /\ janitor.marks \in Marks /\ janitor.old \subseteq Job
  BY DEF Typed, Carried, Placed, TypeOK, JanitorState
<1>1. CASE UNCHANGED <<task, owner, lease, job>>
  BY <1>0, <1>1, UnwrittenRows
<1>2. ASSUME NEW t \in Task, Expire(t) PROVE RowStep
  <2>1. StaysPut
    BY <1>0, <1>2 DEF Expire, StaysPut, TypeOK
  <2> QED BY <1>0, <2>1, PutRows
<1>3. CASE Reclaim
  <2>1. StaysPut
    BY <1>0, <1>3 DEF Reclaim, StaysPut, TypeOK
  <2> QED BY <1>0, <2>1, PutRows
<1>4. CASE PropagateCommit
  <2> DEFINE m == janitor.marks
             affected == {JobOf[t] : t \in DOMAIN m}
  <2>1. CASE UNCHANGED <<task, job>>
    BY <1>1, <1>4, <2>1 DEF PropagateCommit
  <2>2. CASE /\ \A u \in DOMAIN m : task[u] # "absent"
             /\ task' = Override(task, m)
             /\ job' = [j \in Job |-> IF j \in affected THEN Finalized(j, task') ELSE job[j]]
    <3>1. m \in Marks /\ UNCHANGED <<owner, lease>>
      BY <1>0, <1>4 DEF PropagateCommit
    <3> HIDE DEF m, affected
    <3>2. \A u \in Task : task'[u] = "absent" <=> task[u] = "absent"
      BY <1>0, <2>2, <3>1, MarksStayPut DEF TypeOK
    <3>3. \A j \in Job :
            \/ Finalized(j, task') = job[j]
            \/ job[j] \notin {"new", "absent"} /\ Finalized(j, task') \in JobTerminal
      BY <1>0, <3>1, <3>2, RollUpStaysPut
    <3>4. StaysPut
      BY <1>0, <2>2, <3>1, <3>2, <3>3, StatusFacts DEF StaysPut, TypeOK
    <3> QED BY <1>0, <3>4, PutRows
  <2> QED BY <1>4, <2>1, <2>2 DEF PropagateCommit
<1>5. CASE GcDelete
  <2>1. /\ \A j \in Job : job'[j] = IF j \in janitor.old THEN "absent" ELSE job[j]
        /\ \A t \in Task :
             IF JobOf[t] \in janitor.old
               THEN task'[t] = "absent" /\ owner'[t] = NoWorker /\ lease'[t] = "none"
               ELSE task'[t] = task[t] /\ owner'[t] = owner[t] /\ lease'[t] = lease[t]
    BY <1>5 DEF GcDelete
  <2> QED BY <1>0, <2>1, TopologyAssumption DEF RowsFollowJob, RowStep, Lasts
<1> QED BY <1>1, <1>2, <1>3, <1>4, <1>5
        DEF Crash, JanitorStep, PropagateRead, Requeue, GcRead, PhaseFails, JanitorCrash, taskRow

\* The step is an attempt's own.
OwnStep(a) == AttStep(a) /\ \A b \in Attempt \ {a} : att'[b] = att[b]

\* The attempt goes on with the same task, not to its commit.
LEMMA GoesOn ==
  ASSUME Typed, NEW a \in Attempt, att[a].pc # "idle",
         \/ Return(a)
         \/ \E pc \in {"rolljob", "rollcommit", "mark"},
               out \in Terminal \cup {"none"} : GoTo(a, pc, att[a].task, out)
         \/ \E out \in Terminal \cup {"none"}, loaded \in JobStatus \cup {"none"} :
              Hold(a, "roll", att[a].task, out, loaded)
         \/ \E pc \in {"advancejob", "advancecommit"}, out \in Terminal \cup {"none"} :
              Carry(a, pc, out)
  PROVE  OwnStep(a)
<1>1. att \in [Attempt -> AttemptState] /\ att[a].task \in Task
  BY DEF Typed, Carried, TypeOK, Carries
<1>2. /\ \A b \in Attempt \ {a} : att'[b] = att[b]
      /\ \/ att'[a].pc = "idle"
         \/ att'[a].task = att[a].task
            /\ att'[a].pc \in {"rolljob", "rollcommit", "mark", "roll", "advancejob", "advancecommit"}
  <2>1. CASE Return(a)
    BY <1>1, <2>1, ReturnFacts
  <2>2. ASSUME NEW pc \in {"rolljob", "rollcommit", "mark"}, NEW out \in Terminal \cup {"none"},
               GoTo(a, pc, att[a].task, out)
        PROVE  /\ \A b \in Attempt \ {a} : att'[b] = att[b]
               /\ att'[a].task = att[a].task /\ att'[a].pc = pc
    BY <1>1, <2>2, GoToFacts
  <2>3. ASSUME NEW out \in Terminal \cup {"none"}, NEW loaded \in JobStatus \cup {"none"},
               Hold(a, "roll", att[a].task, out, loaded)
        PROVE  /\ \A b \in Attempt \ {a} : att'[b] = att[b]
               /\ att'[a].task = att[a].task /\ att'[a].pc = "roll"
    BY <1>1, <2>3, HoldFacts
  <2>4. ASSUME NEW pc \in {"advancejob", "advancecommit"}, NEW out \in Terminal \cup {"none"},
               Carry(a, pc, out)
        PROVE  /\ \A b \in Attempt \ {a} : att'[b] = att[b]
               /\ att'[a].task = att[a].task /\ att'[a].pc = pc
    BY <1>1, <2>4, CarryFacts
  <2> QED BY <2>1, <2>2, <2>3, <2>4
<1> QED BY <1>2 DEF OwnStep, AttStep, Beating

\* A picked-up task is pending.
LEMMA PickupStep ==
  ASSUME Typed, NEW a \in Attempt, NEW t \in Task, Pickup(a, t)
  PROVE  /\ \A b \in Attempt \ {a} : att'[b] = att[b]
         /\ \/ att'[a] = att[a]
            \/ /\ att[a].pc = "idle" /\ att'[a].task = t /\ task[t] = "pending"
               /\ att'[a].marks = NoMarks
               /\ \/ /\ att'[a].pc = "gate"
                     /\ dependencies_ready(Deps[t], task)
                  \/ /\ att'[a].pc = "doom"
                     /\ att'[a].out \in Doomed
                     /\ \E d \in Deps[t] : task[d] \in Doomed \cup {"absent"}
<1>0. att \in [Attempt -> AttemptState]
  BY DEF Typed, Carried, TypeOK
<1>1. CASE UNCHANGED att
  BY <1>1
<1>2. CASE dependency_state(Deps[t], task) = "ready" /\ GoTo(a, "gate", t, "none")
           /\ task[t] = "pending"
  <2>1. /\ att'[a].pc = "gate" /\ att'[a].task = t /\ att'[a].marks = NoMarks
        /\ \A b \in Attempt \ {a} : att'[b] = att[b]
    BY <1>0, <1>2, GoToFacts
  <2>2. dependencies_ready(Deps[t], task)
    BY <1>2 DEF dependency_state
  <2> QED BY <1>2, <2>1, <2>2, Pickup(a, t) DEF Pickup
<1>3. CASE /\ dependency_state(Deps[t], task) \notin {"ready", "blocked"}
           /\ GoTo(a, "doom", t, dependency_state(Deps[t], task))
           /\ task[t] = "pending"
  <2>1. dependency_state(Deps[t], task) \in Doomed
    BY <1>3, DependencyStateType
  <2>2. dependency_state(Deps[t], task) \in Terminal
    BY <2>1 DEF Terminal
  <2>3. /\ att'[a].pc = "doom" /\ att'[a].task = t /\ att'[a].out \in Doomed
        /\ att'[a].marks = NoMarks
        /\ \A b \in Attempt \ {a} : att'[b] = att[b]
    BY <1>0, <1>3, <2>1, <2>2, GoToFacts
  <2>4. \E d \in Deps[t] : task[d] \in Doomed \cup {"absent"}
    BY <2>1 DEF dependency_state, Doomed, FailedDep, CancelledDep
  <2> QED BY <1>3, <2>3, <2>4 DEF Pickup
<1> QED BY <1>1, <1>2, <1>3 DEF Pickup

LEMMA AttemptSteps ==
  ASSUME Typed, NEW a \in Attempt,
         (\E t \in Task : Pickup(a, t)) \/ Step(a) \/ Heartbeat(a) \/ Raise(a)
  PROVE  OwnStep(a)
<1> DEFINE t == att[a].task
<1>0. /\ att \in [Attempt -> AttemptState] /\ Carries(a) /\ job \in [Job -> JobStatus]
      /\ att[a].pc # "idle" => t \in Task /\ job[JobOf[t]] \in JobStatus
      /\ att[a].out \in Terminal \cup {"none"} /\ att[a].loaded \in JobStatus \cup {"none"}
  BY TopologyAssumption DEF Typed, Carried, TypeOK, Carries, AttemptState
<1>1. ASSUME NEW u \in Task, Pickup(a, u) PROVE OwnStep(a)
  BY <1>1, PickupStep DEF OwnStep, AttStep
<1>2. CASE Doom(a)
  BY <1>2, GoesOn DEF Doom
<1>3. CASE Acquire(a)
  <2>1. CASE Return(a)
    BY <1>3, <2>1, GoesOn DEF Acquire
  <2>2. ASSUME NEW out \in {"cancelled_dirty", "cancelled"}, Hold(a, "roll", t, out, job[JobOf[t]])
        PROVE  OwnStep(a)
    <3>1. out \in Terminal \cup {"none"} /\ att[a].pc = "gate" /\ job[JobOf[t]] \in JobStatus
      BY <1>0, <1>3 DEF Acquire, Terminal, Doomed, CancelledDep
    <3> QED BY <2>2, <3>1, GoesOn
  <2>3. CASE GoTo(a, "run", t, "none")
    <3>1. /\ att'[a].pc = "run" /\ att'[a].task = t /\ att[a].pc = "gate"
          /\ \A b \in Attempt \ {a} : att'[b] = att[b]
      BY <1>0, <1>3, <2>3, GoToFacts DEF Acquire
    <3> QED BY <1>3, <3>1 DEF OwnStep, AttStep
  <2> QED BY <1>3, <2>1, <2>2, <2>3 DEF Acquire
<1>4. CASE HandlerReturns(a) \/ HandlerRaises(a)
  <2>1. CASE Return(a)
    BY <1>4, <2>1, GoesOn DEF HandlerReturns, HandlerRaises
  <2>2. CASE /\ Owns(a)
             /\ \/ GoTo(a, "settle", t, "failed")
                \/ Hold(a, "settle", t, "cancelled_dirty", job[JobOf[t]])
                \/ Hold(a, "settle", t, "succeeded", job[JobOf[t]])
    <3>1. "failed" \in Terminal /\ "cancelled_dirty" \in Terminal /\ "succeeded" \in Terminal
      BY DEF Terminal, Doomed, CancelledDep, FailedDep
    <3>2. /\ t \in Task /\ job[JobOf[t]] \in JobStatus
          /\ att[a].pc \in {"run", "except"} /\ UNCHANGED <<task, owner, lease>>
      BY <1>0, <1>4 DEF HandlerReturns, HandlerRaises, taskRow
    <3>3. /\ att'[a].pc = "settle" /\ att'[a].task = t
          /\ \A b \in Attempt \ {a} : att'[b] = att[b]
      BY <1>0, <2>2, <3>1, <3>2, GoToFacts, HoldFacts
    <3> QED BY <2>2, <3>2, <3>3 DEF OwnStep, AttStep, Beating
  <2> QED BY <1>4, <2>1, <2>2 DEF HandlerReturns, HandlerRaises
<1>5. CASE Settle(a)
  BY <1>0, <1>5, GoesOn DEF Settle
<1>6. CASE RollUp(a)
  <2>1. PICK pc \in {"rolljob", "rollcommit", "mark"}, out \in Terminal \cup {"none"} :
          GoTo(a, pc, t, out)
    <3> DEFINE v == Verdict(JobOf[t], [task EXCEPT ![t] = IF @ = "absent" THEN @ ELSE att[a].out])
    <3>1. v \in Terminal
      BY DEF Verdict, Terminal, Doomed, FailedDep, CancelledDep
    <3>2. \/ GoTo(a, "mark", t, "none") \/ GoTo(a, "rolljob", t, v) \/ GoTo(a, "rollcommit", t, v)
      BY <1>6 DEF RollUp
    <3> QED BY <3>1, <3>2
  <2> QED BY <1>6, <2>1, GoesOn DEF RollUp
<1>7. CASE RollUpJob(a) \/ RollUpCommit(a)
  BY <1>0, <1>7, GoesOn DEF RollUpJob, RollUpCommit
<1>8. CASE AdvanceRead(a)
  <2> DEFINE rows == JobRows(JobOf[t])
             ready(m) == Followers(JobOf[t], Override(rows, m))
  <2>1. PICK m \in Cascades(TasksOf(JobOf[t]), rows) : Mark(a, t, m, ready(m))
    BY <1>8 DEF AdvanceRead
  <2>2. m \in Marks
    <3>1. TasksOf(JobOf[t]) \in SUBSET Task
      BY DEF TasksOf
    <3> HIDE DEF rows
    <3> QED BY <3>1, CascadesType
  <2>3. ready(m) \in SUBSET Task /\ t \in Task /\ att[a].pc = "mark"
    BY <1>0, <1>8 DEF TasksOf, Followers, AdvanceRead
  <2> HIDE DEF rows, ready
  <2>4. att'[a].pc = "advance" /\ att'[a].task = t /\ \A b \in Attempt \ {a} : att'[b] = att[b]
    BY <1>0, <2>1, <2>2, <2>3, MarkFacts
  <2> QED BY <2>3, <2>4 DEF OwnStep, AttStep, Beating
<1>9. CASE AdvanceFlush(a) \/ AdvanceCommit(a)
  BY <1>9, GoesOn DEF AdvanceFlush, AdvanceCommit
<1>10. CASE AdvanceRollUp(a)
  <2>1. Verdict(JobOf[t], task) \in Terminal
    BY DEF Verdict, Terminal, Doomed, FailedDep, CancelledDep
  <2> QED BY <1>10, <2>1, GoesOn DEF AdvanceRollUp
<1>11. CASE AdvanceJob(a)
  BY <1>0, <1>11, GoesOn DEF AdvanceJob
<1>12. CASE Heartbeat(a)
  BY <1>12 DEF Heartbeat, actors, OwnStep, AttStep
<1>13. CASE Raise(a)
  <2>1. CASE Return(a)
    BY <1>13, <2>1, GoesOn DEF Raise
  <2>2. CASE GoTo(a, "except", t, "none") /\ att[a].pc = "settle"
    <3>1. /\ att'[a].pc = "except" /\ att'[a].task = t
          /\ \A b \in Attempt \ {a} : att'[b] = att[b]
      BY <1>0, <2>2, GoToFacts
    <3> QED BY <2>2, <3>1 DEF OwnStep, AttStep, Beating
  <2> QED BY <1>13, <2>1, <2>2 DEF Raise
<1> QED BY <1>1, <1>2, <1>3, <1>4, <1>5, <1>6, <1>7, <1>8, <1>9, <1>10, <1>11, <1>12, <1>13
        DEF Step

LEMMA LapsedSteps ==
  ASSUME Typed, NEW tasks, att' = Lapsed(tasks)
  PROVE  \A b \in Attempt : AttStep(b)
<1>1. att \in [Attempt -> AttemptState]
  BY DEF Typed, Carried, TypeOK
<1>2. \A b \in Attempt : \/ att'[b] = att[b]
                         \/ /\ att[b].pc = "settle" /\ att'[b].pc = "settle"
                            /\ att'[b].task = att[b].task /\ att'[b].late
  BY <1>1, LapsedFacts
<1> QED BY <1>2 DEF AttStep

\* Whatever the step.
LEMMA NextSteps ==
  ASSUME Typed, Next
  PROVE  \A b \in Attempt : AttStep(b)
<1>1. CASE att' = att
  BY <1>1 DEF AttStep
<1>2. ASSUME NEW a \in Attempt,
             (\E t \in Task : Pickup(a, t)) \/ Step(a) \/ Heartbeat(a) \/ Raise(a)
      PROVE  \A b \in Attempt : AttStep(b)
  BY <1>2, AttemptSteps DEF OwnStep, AttStep
<1>3. ASSUME NEW r \in Resumer, ResumeCommit(r) PROVE \A b \in Attempt : AttStep(b)
  BY <1>1, <1>3, LapsedSteps DEF ResumeCommit
<1>4. ASSUME NEW t \in Task, Expire(t) PROVE \A b \in Attempt : AttStep(b)
  <2>1. att' = Lapsed({t})
    BY <1>4 DEF Expire
  <2> QED BY <2>1, LapsedSteps
<1>5. ASSUME NEW w \in Worker, Crash(w) PROVE \A b \in Attempt : AttStep(b)
  BY <1>5 DEF Crash, Idle, AttStep
<1>6. ASSUME NEW j \in Job,
             \/ Submit(j) \/ SubmitFinalize(j) \/ SubmitCrash(j)
             \/ \E force \in BOOLEAN : Cancel(j, force)
             \/ \E r \in Resumer : ResumeRead(r, j)
      PROVE  \A b \in Attempt : AttStep(b)
  BY <1>1, <1>6 DEF Submit, SubmitFinalize, SubmitCrash, Cancel, ResumeRead, actors
<1>7. CASE JanitorStep \/ PhaseFails \/ JanitorCrash
  BY <1>1, <1>7 DEF JanitorStep, Reclaim, PropagateRead, PropagateCommit, Requeue, GcRead,
                    GcDelete, PhaseFails, JanitorCrash
<1> QED BY <1>2, <1>3, <1>4, <1>5, <1>6, <1>7 DEF Next

LEMMA NextGrips ==
  ASSUME Typed, Next, NEW t \in Task
  PROVE  Grip(t)
<1>0. TypeOK
  BY DEF Typed, Carried
<1>1. CASE UNCHANGED <<owner, lease>>
  BY <1>1 DEF Grip
<1>2. ASSUME NEW a \in Attempt, Acquire(a) PROVE Grip(t)
  <2>1. CASE UNCHANGED taskRow
    BY <1>1, <2>1 DEF taskRow
  <2>2. CASE /\ lease[att[a].task] # "live"
             /\ owner' = [owner EXCEPT ![att[a].task] = WorkerOf[a]]
             /\ lease' = [lease EXCEPT ![att[a].task] = "live"]
    BY <1>0, <2>2 DEF Grip, TypeOK
  <2> QED BY <1>2, <2>1, <2>2 DEF Acquire, Acquirable
<1>3. ASSUME NEW a \in Attempt, Heartbeat(a) PROVE Grip(t)
  BY <1>0, <1>3 DEF Heartbeat, Grip, TypeOK
<1>4. ASSUME NEW u \in Task, Expire(u) PROVE Grip(t)
  <2>1. att' = Lapsed({u}) /\ owner' = owner /\ lease' = [lease EXCEPT ![u] = "expired"]
    BY <1>4 DEF Expire
  <2>2. \A a \in Attempt : att[a].pc = "settle" /\ att[a].task = u => att'[a].late
    BY <1>0, <2>1, LapsedFacts DEF TypeOK
  <2> QED BY <1>0, <2>1, <2>2 DEF Grip, TypeOK
<1>5. ASSUME NEW r \in Resumer, ResumeCommit(r) PROVE Grip(t)
  <2>1. CASE UNCHANGED taskRow
    BY <1>1, <2>1 DEF taskRow
  <2> DEFINE held == resuming[r].held
  <2>2. CASE /\ owner' = [u \in Task |-> IF u \in held THEN NoWorker ELSE owner[u]]
             /\ lease' = [u \in Task |-> IF u \in held THEN "none" ELSE lease[u]]
             /\ att' = Lapsed(held)
    <3>1. \A a \in Attempt : att[a].pc = "settle" /\ att[a].task \in held => att'[a].late
      <4> HIDE DEF held
      <4> QED BY <1>0, <2>2, LapsedFacts DEF TypeOK
    <3> QED BY <1>0, <2>2, <3>1 DEF Grip
  <2> QED BY <1>5, <2>1, <2>2 DEF ResumeCommit
<1>6. CASE Reclaim
  BY <1>6 DEF Reclaim, Grip
<1>7. CASE GcDelete
  BY <1>7 DEF GcDelete, Grip
<1>8. ASSUME NEW a \in Attempt,
             (\E u \in Task : Pickup(a, u)) \/ (Step(a) /\ ~Acquire(a)) \/ Raise(a)
      PROVE  Grip(t)
  BY <1>1, <1>8 DEF Step, Pickup, Doom, HandlerReturns, HandlerRaises, Settle, RollUp, RollUpJob,
       RollUpCommit, AdvanceRead, AdvanceFlush, AdvanceRollUp, AdvanceJob, AdvanceCommit, Raise,
       Reads, taskRow
<1>9. ASSUME NEW j \in Job,
             \/ Submit(j) \/ SubmitFinalize(j) \/ SubmitCrash(j)
             \/ \E force \in BOOLEAN : Cancel(j, force)
             \/ \E r \in Resumer : ResumeRead(r, j)
      PROVE  Grip(t)
  BY <1>1, <1>9 DEF Submit, SubmitFinalize, SubmitCrash, Cancel, ResumeRead, taskRow
<1>10. CASE \/ PropagateRead \/ PropagateCommit \/ Requeue \/ GcRead \/ PhaseFails \/ JanitorCrash
            \/ \E w \in Worker : Crash(w)
  BY <1>1, <1>10 DEF PropagateRead, PropagateCommit, Requeue, GcRead, PhaseFails, JanitorCrash,
                     Crash, taskRow
<1> QED BY <1>2, <1>3, <1>4, <1>5, <1>6, <1>7, <1>8, <1>9, <1>10 DEF Next, JanitorStep

\* A resume is of a job that was submitted.
LEMMA ResumesKept ==
  ASSUME Typed, Placed, RowStep, Next, NEW r \in Resumer, resuming'[r] # NoResume
  PROVE  job'[resuming'[r].job] # "new"
<1>0. \A j \in Job : job[j] # "new" => job'[j] # "new"
  BY DEF RowStep, Lasts
<1>1. CASE resuming'[r] = resuming[r]
  BY <1>0, <1>1 DEF Placed, Typed, Booked
<1>2. ASSUME NEW q \in Resumer, NEW j \in Job, ResumeRead(q, j)
      PROVE  job'[resuming'[r].job] # "new"
  <2>1. resuming \in [Resumer -> ResumeState] /\ job[j] # "new"
    BY <1>2 DEF ResumeRead, Typed, Carried, TypeOK
  <2>2. CASE q = r
    <3>1. resuming'[r].job = j
      BY <1>2, <2>1, <2>2 DEF ResumeRead
    <3> QED BY <1>0, <2>1, <3>1
  <2>3. CASE q # r
    BY <1>1, <1>2, <2>1, <2>3 DEF ResumeRead
  <2> QED BY <2>2, <2>3
<1>3. ASSUME NEW q \in Resumer, ResumeCommit(q) PROVE job'[resuming'[r].job] # "new"
  <2>1. resuming \in [Resumer -> ResumeState] /\ resuming' = [resuming EXCEPT ![q] = NoResume]
    BY <1>3 DEF ResumeCommit, Typed, Carried, TypeOK
  <2> QED BY <1>1, <2>1
<1>4. CASE resuming' = resuming
  BY <1>1, <1>4
<1>5. ASSUME NEW a \in Attempt,
             (\E t \in Task : Pickup(a, t)) \/ Step(a) \/ Heartbeat(a) \/ Raise(a)
      PROVE  job'[resuming'[r].job] # "new"
  BY <1>4, <1>5
  DEF Step, Pickup, Doom, Acquire, HandlerReturns, HandlerRaises, Settle, RollUp, RollUpJob,
      RollUpCommit, AdvanceRead, AdvanceFlush, AdvanceRollUp, AdvanceJob, AdvanceCommit,
      Heartbeat, Raise, Reads, actors
<1>6. CASE \/ \E j \in Job : \/ Submit(j) \/ SubmitFinalize(j) \/ SubmitCrash(j)
                             \/ \E force \in BOOLEAN : Cancel(j, force)
           \/ \E t \in Task : Expire(t)
           \/ \E w \in Worker : Crash(w)
           \/ JanitorStep \/ PhaseFails \/ JanitorCrash
  BY <1>4, <1>6
  DEF Submit, SubmitFinalize, SubmitCrash, Cancel, Expire, Crash, JanitorStep, Reclaim,
      PropagateRead, PropagateCommit, Requeue, GcRead, GcDelete, PhaseFails, JanitorCrash, actors
<1> QED BY <1>2, <1>3, <1>5, <1>6 DEF Next

LEMMA PlacedNext ==
  ASSUME Typed, Placed, Typed', Next
  PROVE  Placed' /\ RowStep
<1>1. RowStep
  BY RowsOfRequests, RowsOfAttempt, RowsOfRest DEF Next
<1>2. ASSUME NEW a \in Attempt, att'[a].pc # "idle" PROVE job'[JobOf[att'[a].task]] # "new"
  <2>1. AttStep(a)
    BY NextSteps
  <2>2. att'[a].task \in Task /\ JobOf[att'[a].task] \in Job
    BY <1>2, TopologyAssumption DEF Typed, Carried, Carries
  <2>3. job[JobOf[att'[a].task]] # "new"
    <3>1. CASE att[a].pc = "idle"
      BY <1>2, <2>1, <2>2, <3>1 DEF AttStep, Placed, RowsFollowJob
    <3>2. CASE att[a].pc # "idle"
      BY <1>2, <2>1, <3>2 DEF AttStep, Placed
    <3> QED BY <3>1, <3>2
  <2> QED BY <1>1, <2>2, <2>3 DEF RowStep, Lasts
<1>3. ASSUME NEW r \in Resumer, resuming'[r] # NoResume PROVE job'[resuming'[r].job] # "new"
  BY <1>1, <1>3, ResumesKept
<1>4. ASSUME NEW a \in Attempt PROVE SettleHeld(a)'
  <2> SUFFICES ASSUME att'[a].pc = "settle", ~att'[a].late, task'[att'[a].task] # "absent"
               PROVE  owner'[att'[a].task] = WorkerOf[a] /\ lease'[att'[a].task] = "live"
    BY DEF SettleHeld
  <2>1. AttStep(a)
    BY NextSteps
  <2>2. CASE att'[a] = att[a]
    <3> DEFINE t == att[a].task
    <3>1. t \in Task /\ JobOf[t] \in Job /\ SettleHeld(a) /\ job[JobOf[t]] # "new"
      BY <2>2, TopologyAssumption DEF Typed, Carried, Carries, Placed
    <3>2. task[t] # "absent"
      BY <1>1, <2>2, <3>1 DEF RowStep, Lasts, Placed, RowsFollowJob
    <3>3. owner[t] = WorkerOf[a] /\ lease[t] = "live"
      BY <2>2, <3>1, <3>2 DEF SettleHeld
    <3> QED BY <2>2, <3>1, <3>3, NextGrips DEF Grip
  <2>3. CASE Owns(a) /\ UNCHANGED <<task, owner, lease>> /\ att'[a].task = att[a].task
    BY <2>3 DEF Owns
  <2> QED BY <2>1, <2>2, <2>3 DEF AttStep
<1> QED BY <1>1, <1>2, <1>3, <1>4 DEF Placed, RowStep

LEMMA PlacedInit == Init => Placed
<1> SUFFICES ASSUME Init PROVE Placed
  OBVIOUS
<1>1. \A a \in Attempt : att[a].pc = "idle"
  BY DEF Init, Idle
<1>2. RowsFollowJob
  BY TopologyAssumption DEF Init, RowsFollowJob
<1>3. \A r \in Resumer : resuming[r] = NoResume
  BY DEF Init
<1> QED BY <1>1, <1>2, <1>3 DEF Placed, SettleHeld

-----------------------------------------------------------------------------
(* The safety of the lease protocol, for the jobs that were neither resumed *)
(* nor overtaken.                                                           *)

\* The tasks of a job depend on one another only.
LocalDeps == \A t \in Task : \A d \in Deps[t] : JobOf[d] = JobOf[t]

IInv == Typed /\ Placed /\ InFlightIsCurrent
Sound(j) == Typed /\ Placed /\ Current(j)

\* How a step may change the status of a task...
TaskStep(t) ==
  \/ task'[t] = task[t]
  \/ task[t] = "absent" /\ job[JobOf[t]] = "new" /\ task'[t] \in {"pending", "succeeded"}
  \/ task[t] = "pending" /\ task'[t] = "running" /\ dependencies_ready(Deps[t], task)
  \/ task[t] = "running" /\ task'[t] \in Terminal \cup {"pending"}
  \/ task[t] \in Doomed \cup {"pending"} /\ task'[t] \in Doomed
  \/ task[t] \in Terminal /\ task'[t] = "absent"

\* ... and that of a job.
JobStep(j) ==
  \/ job'[j] = job[j]
  \/ job[j] = "new" /\ job'[j] = "pending"
  \/ /\ job[j] \notin {"new", "absent"}
     /\ job'[j] \in JobTerminal
     /\ \A t \in TasksOf(j) : task'[t] \in Terminal
  \/ job[j] \in JobTerminal \cup {"absent"} /\ job'[j] = "absent"

\* What there is to show of an action, for a job: it moves the rows by such steps,
\* what its own process carries on with is current, and no row is taken from an
\* attempt that is about to commit.  The other processes follow.
Moves(j) ==
  /\ \A t \in TasksOf(j) : TaskStep(t) /\ LeaseShape(t)'
  /\ JobStep(j)
Going(j) ==
  \A a \in Attempt : att'[a].pc # "idle" /\ att'[a].task \in TasksOf(j) =>
    att'[a] = att[a] \/ AttemptOK(a)'
RowKept(t) == task'[t] = task[t] /\ owner'[t] = owner[t] /\ lease'[t] = lease[t]
Holding(j) ==
  \A a \in Attempt :
    att'[a] = att[a] /\ att[a].pc = "settle" /\ att[a].task \in TasksOf(j) => RowKept(att[a].task)
Sweeping(j) == janitor' = janitor \/ SweepOK(j)'
Kept(j) == Going(j) /\ Holding(j) /\ Sweeping(j)

\* Condemned after the step, for the marks of before it.
StillCondemned(t, m) ==
  \/ job'[JobOf[t]] = "absent"
  \/ /\ task'[t] \in Doomed \cup {"pending"}
     /\ \E d \in Deps[t] : task'[d] \in Doomed \/ d \in DOMAIN m

LEMMA TasksFacts ==
  ASSUME LocalDeps, NEW j \in Job, NEW t \in TasksOf(j)
  PROVE  /\ t \in Task /\ JobOf[t] = j
         /\ \A d \in Deps[t] : d \in Task /\ JobOf[d] = j /\ d \in TasksOf(j)
BY TopologyAssumption DEF LocalDeps, TasksOf

\* Rows do not move by themselves: deletion is the only way out.
LEMMA DeletedStays ==
  ASSUME Placed, RowStep, NEW j \in Job, NEW t \in TasksOf(j)
  PROVE  /\ job[j] = "absent" => job'[j] = "absent"
         /\ task[t] # "absent" /\ task'[t] = "absent" => job'[j] = "absent"
         /\ job[j] # "new" => job'[j] # "new"
         /\ task[t] = "absent" /\ job[j] # "new" => task'[t] = "absent"
         /\ task[t] = "absent" <=> job[j] \in {"new", "absent"}
         /\ task'[t] = "absent" <=> job'[j] \in {"new", "absent"}
BY DEF Placed, RowStep, Lasts, RowsFollowJob, TasksOf

LEMMA CondemnedStays ==
  ASSUME LocalDeps, NEW j \in Job, Placed, RowStep, Moves(j),
         NEW m, \A u \in DOMAIN m \cap TasksOf(j) : Condemned(u, m),
         NEW t \in TasksOf(j), Condemned(t, m)
  PROVE  StillCondemned(t, m)
<1>0. t \in Task /\ JobOf[t] = j
  BY TasksFacts
<1>1. CASE job'[j] = "absent"
  BY <1>0, <1>1 DEF StillCondemned
<1>2. CASE job'[j] # "absent"
  <2>1. job[j] # "absent"
    BY <1>2, DeletedStays
  <2>2. task[t] \in Doomed \cup {"pending"} /\ \E d \in Deps[t] : task[d] \in Doomed \/ d \in DOMAIN m
    BY <1>0, <2>1 DEF Condemned
  <2>3. PICK d \in Deps[t] : task[d] \in Doomed \/ d \in DOMAIN m
    BY <2>2
  <2>4. d \in Task /\ JobOf[d] = j /\ d \in TasksOf(j)
    BY TasksFacts
  <2>5. task[d] \in Doomed \cup {"pending"}
    BY <2>1, <2>3, <2>4 DEF Condemned
  <2>6. ~dependencies_ready(Deps[t], task)
    BY <2>5, StatusFacts DEF dependencies_ready, ReadyDep
  <2>7. task'[t] # "absent" /\ (task[d] \in Doomed => task'[d] # "absent")
    BY <1>2, <2>2, <2>4, DeletedStays, StatusFacts
  <2>8. task'[t] \in Doomed \cup {"pending"}
    <3>1. TaskStep(t)
      BY DEF Moves
    <3> QED BY <2>2, <2>6, <2>7, <3>1, StatusFacts DEF TaskStep
  <2>9. task[d] \in Doomed => task'[d] \in Doomed
    <3>1. TaskStep(d)
      BY <2>4 DEF Moves
    <3> QED BY <2>7, <3>1, StatusFacts DEF TaskStep
  <2> QED BY <2>3, <2>8, <2>9 DEF StillCondemned
<1> QED BY <1>1, <1>2

LEMMA ReadyStays ==
  ASSUME LocalDeps, NEW j \in Job, Sound(j), RowStep, Moves(j),
         NEW t \in TasksOf(j), dependencies_ready(Deps[t], task),
         task'[t] # "absent", job[j] # "new"
  PROVE  dependencies_ready(Deps[t], task)'
<1> SUFFICES ASSUME NEW d \in Deps[t] PROVE task'[d] \in ReadyDep
  BY DEF dependencies_ready
<1>0. Placed
  BY DEF Sound
<1>1. d \in Task /\ JobOf[d] = j /\ d \in TasksOf(j)
  BY TasksFacts
<1>2. task[d] = "succeeded"
  <2>1. task[d] \in ReadyDep /\ task[d] \in TaskStatus
    BY <1>1 DEF dependencies_ready, Sound, Typed, Carried, TypeOK
  <2> QED BY <2>1, StatusFacts
<1>3. task'[d] # "absent"
  BY <1>0, <1>1, DeletedStays
<1>4. task'[d] = "succeeded"
  <2>1. TaskStep(d)
    BY <1>1 DEF Moves
  <2> QED BY <1>2, <1>3, <2>1, StatusFacts DEF TaskStep
<1> QED BY <1>4, StatusFacts

LEMMA DepsMetStays ==
  ASSUME LocalDeps, NEW j \in Job, Sound(j), RowStep, Moves(j), NEW t \in TasksOf(j)
  PROVE  DepsMet(t)'
<1> SUFFICES ASSUME task'[t] = "running" PROVE dependencies_ready(Deps[t], task)'
  BY DEF DepsMet, dependencies_ready
<1>1. TaskStep(t) /\ DepsMet(t) /\ Placed
  BY DEF Moves, Sound, Current
<1>2. dependencies_ready(Deps[t], task) /\ task[t] # "absent"
  BY <1>1, StatusFacts DEF TaskStep, DepsMet, dependencies_ready
<1>3. job[j] # "new"
  BY <1>1, <1>2, DeletedStays
<1> QED BY <1>2, <1>3, ReadyStays

LEMMA VerdictLastStays ==
  ASSUME NEW j \in Job, Sound(j), RowStep, Moves(j)
  PROVE  VerdictLast(j)'
<1> SUFFICES ASSUME job'[j] \in JobTerminal, NEW t \in TasksOf(j)
             PROVE  task'[t] \in Terminal
  BY DEF VerdictLast, TasksOf
<1>1. JobStep(j) /\ TaskStep(t) /\ VerdictLast(j) /\ Placed
  BY DEF Moves, Sound, Current
<1>2. CASE job'[j] = job[j]
  <2>1. task[t] \in Terminal
    BY <1>1, <1>2 DEF VerdictLast
  <2>2. task'[t] # "absent"
    BY <1>1, DeletedStays, StatusFacts
  <2> QED BY <1>1, <2>1, <2>2, StatusFacts DEF TaskStep
<1>3. CASE job'[j] # job[j]
  BY <1>1, <1>3, StatusFacts DEF JobStep
<1> QED BY <1>2, <1>3

\* An attempt that takes no part in the step can go on with what it has read.
LEMMA AttemptStays ==
  ASSUME LocalDeps, NEW j \in Job, Sound(j), RowStep, Moves(j), Holding(j),
         NEW a \in Attempt, att'[a] = att[a], att[a].pc # "idle", att[a].task \in TasksOf(j)
  PROVE  AttemptOK(a)'
<1> DEFINE t == att[a].task
<1>0. /\ AttemptOK(a) /\ att[a] \in AttemptState /\ Placed
      /\ t \in Task /\ JobOf[t] = j /\ job[j] # "new"
      /\ DOMAIN att[a].marks \subseteq TasksOf(j)
  BY TasksFacts DEF Sound, Current, Typed, Carried, Carries, TypeOK, Placed
<1>1. job'[j] # "new"
  BY <1>0, DeletedStays
<1>2. att[a].pc = "gate" => task'[t] = "absent" \/ dependencies_ready(Deps[t], task)'
  BY <1>0, DeletedStays, ReadyStays DEF AttemptOK
<1>3. att[a].pc = "doom" => att[a].out \in Doomed /\ StillCondemned(t, NoMarks)
  BY <1>0, NoMarksType, CondemnedStays DEF AttemptOK
<1>4. att[a].pc = "settle" => /\ att[a].out \in Terminal
                              /\ task'[t] = "running" /\ owner'[t] = WorkerOf[a]
                              /\ lease'[t] = "live"
  BY <1>0 DEF AttemptOK, Owns, Holding, RowKept
<1>5. att[a].pc \in Rolling /\ att[a].out # "none" =>
        /\ att[a].out \in JobTerminal
        /\ \A u \in TasksOf(JobOf[t]) : task'[u] \in Terminal \cup {"absent"}
  <2> SUFFICES ASSUME att[a].pc \in Rolling, att[a].out # "none", NEW u \in TasksOf(j)
               PROVE  task'[u] \in Terminal \cup {"absent"}
    BY <1>0 DEF AttemptOK
  <2>1. task[u] \in Terminal \cup {"absent"} /\ TaskStep(u) /\ JobOf[u] = j
    BY <1>0 DEF AttemptOK, Moves, TasksOf
  <2> QED BY <1>0, <2>1, StatusFacts DEF TaskStep
<1>6. att[a].pc = "roll" => att[a].out \in Terminal /\ task'[t] \in Terminal \cup {"absent"}
  <2> SUFFICES ASSUME att[a].pc = "roll"
               PROVE  att[a].out \in Terminal /\ task'[t] \in Terminal \cup {"absent"}
    OBVIOUS
  <2>1. att[a].out \in Terminal /\ task[t] \in Terminal \cup {"absent"} /\ TaskStep(t)
    BY <1>0 DEF AttemptOK, Moves
  <2> QED BY <1>0, <2>1, StatusFacts DEF TaskStep
<1>7. att[a].pc = "advance" =>
        \A u \in DOMAIN att[a].marks : StillCondemned(u, att[a].marks)
  BY <1>0, CondemnedStays DEF AttemptOK
<1> QED BY <1>0, <1>2, <1>3, <1>4, <1>5, <1>6, <1>7
        DEF AttemptOK, StillCondemned, Condemned, Owns

LEMMA SweepStays ==
  ASSUME LocalDeps, NEW j \in Job, Sound(j), RowStep, Moves(j), janitor' = janitor
  PROVE  SweepOK(j)'
<1>0. SweepOK(j) /\ Placed
  BY DEF Sound, Current
<1>1. ASSUME janitor.pc = "commit", NEW u \in DOMAIN janitor.marks \cap TasksOf(j)
      PROVE  StillCondemned(u, janitor.marks)
  BY <1>0, <1>1, CondemnedStays DEF SweepOK
<1>2. ASSUME janitor.pc = "delete", j \in janitor.old
      PROVE  job'[j] \in JobTerminal \cup {"absent"}
  <2>1. job[j] \in JobTerminal \cup {"absent"} /\ JobStep(j)
    BY <1>0, <1>2 DEF SweepOK, Moves
  <2> QED BY <2>1, StatusFacts DEF JobStep
<1>3. TasksOf(j)' = TasksOf(j)
  BY DEF TasksOf
<1> QED BY <1>1, <1>2, <1>3 DEF SweepOK, StillCondemned, Condemned

\* Only an acquisition puts an attempt to work on a task.
LEMMA BusyStep ==
  ASSUME Typed, Next, NEW a \in Attempt, NEW t \in Task, Busy(a, t)'
  PROVE  Busy(a, t) \/ (Acquire(a) /\ att[a].task = t)
<1>1. AttStep(a)
  BY NextSteps
<1> QED BY <1>1 DEF AttStep, Busy, Beating

\* An acquisition beside an attempt of the same process overtakes the job.
LEMMA AcquireOvertakes ==
  ASSUME Typed, NEW a \in Attempt, NEW b \in Attempt \ {a}, NEW t \in Task,
         Acquire(a), att[a].task = t, Busy(a, t)', Busy(b, t)', WorkerOf[a] = WorkerOf[b]
  PROVE  JobOf[t] \in overtaken'
<1>1. OwnStep(a)
  BY AttemptSteps DEF Step
<1>2. Busy(b, t)
  BY <1>1 DEF OwnStep, Busy
<1>3. att \in [Attempt -> AttemptState] /\ job \in [Job -> JobStatus] /\ JobOf[t] \in Job
  BY TopologyAssumption DEF Typed, Carried, TypeOK
<1>4. ~Return(a)
  BY <1>3, ReturnFacts DEF Busy, Beating
<1>5. ASSUME NEW out \in {"cancelled", "cancelled_dirty"}, Hold(a, "roll", t, out, job[JobOf[t]])
      PROVE  FALSE
  <2>1. out \in Terminal
    BY DEF Terminal, Doomed, CancelledDep
  <2>2. att'[a].pc = "roll"
    BY <1>3, <1>5, <2>1, HoldFacts
  <2> QED BY <2>2 DEF Busy, Beating
<1> QED BY <1>2, <1>4, <1>5 DEF Acquire

LEMMA OnePerNext ==
  ASSUME NEW j \in Job, Sound(j), Next, j \notin overtaken'
  PROVE  OnePerProcess(j)'
<1> SUFFICES ASSUME NEW t \in TasksOf(j), NEW a \in Attempt, NEW b \in Attempt, a # b,
                    Busy(a, t)', Busy(b, t)', WorkerOf[a] = WorkerOf[b]
             PROVE  FALSE
  BY DEF OnePerProcess, TasksOf
<1>1. t \in Task /\ JobOf[t] = j /\ Typed /\ OnePerProcess(j)
  BY DEF TasksOf, Sound, Current
<1>2. CASE Busy(a, t) /\ Busy(b, t)
  BY <1>1, <1>2 DEF OnePerProcess
<1>3. CASE Acquire(a) /\ att[a].task = t
  BY <1>1, <1>3, AcquireOvertakes
<1>4. CASE Acquire(b) /\ att[b].task = t
  BY <1>1, <1>4, AcquireOvertakes
<1> QED BY <1>1, <1>2, <1>3, <1>4, BusyStep

LEMMA StepPreserves ==
  ASSUME LocalDeps, NEW j \in Job, Sound(j), RowStep, Moves(j), Kept(j), OnePerProcess(j)'
  PROVE  Current(j)'
<1>1. ASSUME NEW a \in Attempt, att'[a].pc # "idle", att'[a].task \in TasksOf(j)
      PROVE  AttemptOK(a)'
  BY <1>1, AttemptStays DEF Kept, Going
<1>2. SweepOK(j)'
  BY SweepStays DEF Kept, Sweeping
<1>3. \A t \in TasksOf(j) : LeaseShape(t)' /\ DepsMet(t)'
  BY DepsMetStays DEF Moves
<1>4. TasksOf(j)' = TasksOf(j)
  BY DEF TasksOf
<1> QED BY <1>1, <1>2, <1>3, <1>4, VerdictLastStays DEF Current

\* A step that does not touch the rows of a job.
Untouched(j) == job'[j] = job[j] /\ \A t \in TasksOf(j) : RowKept(t)

LEMMA UntouchedMoves ==
  ASSUME NEW j \in Job, Sound(j), Untouched(j)
  PROVE  Moves(j) /\ Holding(j)
<1>1. \A t \in TasksOf(j) : LeaseShape(t)
  BY DEF Sound, Current
<1> QED BY <1>1 DEF Untouched, RowKept, Moves, TaskStep, JobStep, LeaseShape, Holding

LEMMA UnwrittenMoves ==
  ASSUME NEW j \in Job, Sound(j), UNCHANGED <<task, owner, lease, job>>
  PROVE  Moves(j) /\ Holding(j)
BY UntouchedMoves DEF Untouched, RowKept

\* Whoever is between its check and its commit holds the row.
LEMMA SettlingOwns ==
  ASSUME NEW j \in Job, Sound(j), NEW a \in Attempt, att[a].pc = "settle",
         att[a].task \in TasksOf(j)
  PROVE  /\ task[att[a].task] = "running"
         /\ owner[att[a].task] = WorkerOf[a]
         /\ lease[att[a].task] = "live"
BY DEF Sound, Current, AttemptOK, Owns

\* A roll-up of the rows as the step leaves them is a step of the job.
LEMMA RollUpIsStep ==
  ASSUME TypeOK', NEW j \in Job, Placed, RowStep, job'[j] = Finalized(j, task'),
         \A t \in TasksOf(j) : task'[t] = "absent" <=> task[t] = "absent"
  PROVE  JobStep(j)
<1>1. CASE Finalized(j, task') = job[j]
  BY <1>1 DEF JobStep
<1>2. CASE Finalized(j, task') # job[j]
  <2>1. /\ job'[j] \in JobTerminal
        /\ job[j] # "absent"
        /\ \E t \in TasksOf(j) : task'[t] # "absent"
        /\ \A t \in TasksOf(j) : task'[t] \notin {"pending", "running"}
    BY <1>2, FinalizedFacts
  <2>2. ASSUME NEW t \in TasksOf(j) PROVE task'[t] \in Terminal
    <3>1. task'[t] # "absent" /\ task'[t] \in TaskStatus
      BY <2>1, DeletedStays, StatusFacts DEF TypeOK, TasksOf
    <3> QED BY <2>1, <3>1, StatusFacts
  <2>3. job[j] # "new"
    <3>1. PICK t \in TasksOf(j) : task'[t] # "absent"
      BY <2>1
    <3>2. task[t] # "absent"
      BY <3>1
    <3> QED BY <3>2, DeletedStays
  <2> QED BY <2>1, <2>2, <2>3 DEF JobStep
<1> QED BY <1>1, <1>2

\* The marks of a cascade are condemned when they are computed.
LEMMA CascadeCondemns ==
  ASSUME LocalDeps, NEW j \in Job, Placed, NEW scope \in SUBSET Task, TasksOf(j) \subseteq scope,
         NEW status, NEW m \in Cascades(scope, status),
         \A t \in TasksOf(j) : status[t] = task[t]
  PROVE  \A u \in DOMAIN m \cap TasksOf(j) : Condemned(u, m)
<1> SUFFICES ASSUME NEW u \in DOMAIN m \cap TasksOf(j) PROVE Condemned(u, m)
  OBVIOUS
<1>0. m \in Marks /\ DOMAIN m \subseteq scope /\ \A t \in DOMAIN m : status[t] = "pending"
  BY CascadesType
<1>1. u \in Task /\ JobOf[u] = j /\ task[u] = "pending" /\ m[u] \in Doomed
  BY <1>0, MarksFacts, TasksFacts
<1>2. PICK X \in SUBSET (DOMAIN m \ {u}) :
        m[u] = dependency_state(Deps[u], [d \in Task |-> IF d \in X THEN m[d] ELSE status[d]])
  BY DEF Cascades
<1> DEFINE view == [d \in Task |-> IF d \in X THEN m[d] ELSE status[d]]
<1>3. \E d \in Deps[u] : view[d] \in Doomed \cup {"absent"}
  <2>1. dependency_state(Deps[u], view) \in Doomed
    BY <1>1, <1>2
  <2> HIDE DEF view
  <2> QED BY <2>1 DEF dependency_state, Doomed, FailedDep, CancelledDep
<1>4. PICK d \in Deps[u] : view[d] \in Doomed \cup {"absent"}
  BY <1>3
<1>5. d \in Task /\ JobOf[d] = j /\ d \in TasksOf(j)
  BY TasksFacts
<1>6. task[d] # "absent"
  BY <1>1, <1>5, StatusFacts DEF Placed, RowsFollowJob
<1>7. d \in DOMAIN m \/ task[d] \in Doomed
  BY <1>1, <1>2, <1>4, <1>5, <1>6
<1> QED BY <1>1, <1>7 DEF Condemned

\* Committing a set of condemned marks moves tasks as a step may.
LEMMA MarksAreSteps ==
  ASSUME NEW j \in Job, Sound(j), NEW m \in Marks,
         \A u \in DOMAIN m \cap TasksOf(j) : Condemned(u, m),
         \A t \in DOMAIN m : task[t] # "absent",
         task' = Override(task, m), UNCHANGED <<owner, lease>>
  PROVE  /\ \A t \in TasksOf(j) : TaskStep(t) /\ LeaseShape(t)'
         /\ \A t \in TasksOf(j) : task'[t] = "absent" <=> task[t] = "absent"
         /\ Holding(j)
<1>1. ASSUME NEW t \in DOMAIN m \cap TasksOf(j)
      PROVE  t \in Task /\ task[t] \in Doomed \cup {"pending"} /\ task'[t] \in Doomed
  <2>1. t \in Task /\ m[t] \in Doomed /\ task'[t] = m[t]
    BY MarksFacts, OverrideFacts
  <2>2. job[JobOf[t]] # "absent"
    BY <2>1 DEF Sound, Placed, RowsFollowJob
  <2> QED BY <2>1, <2>2 DEF Condemned
<1>2. \A t \in TasksOf(j) \ DOMAIN m : task'[t] = task[t]
  BY OverrideFacts DEF TasksOf
<1>3. \A t \in TasksOf(j) : TaskStep(t)
  BY <1>1, <1>2 DEF TaskStep
<1>4. \A t \in TasksOf(j) : LeaseShape(t)'
  BY <1>1, <1>2, StatusFacts DEF Sound, Current, LeaseShape
<1>5. \A t \in TasksOf(j) : task'[t] = "absent" <=> task[t] = "absent"
  BY <1>1, <1>2, StatusFacts
<1>6. Holding(j)
  BY <1>1, <1>2, SettlingOwns, StatusFacts DEF Holding, RowKept
<1> QED BY <1>3, <1>4, <1>5, <1>6

\* An attempt on a task of another job.
LEMMA ElsewhereUntouched ==
  ASSUME Typed, Placed, NEW j \in Job, NEW a \in Attempt, att[a].pc # "idle",
         JobOf[att[a].task] # j, Step(a) \/ Heartbeat(a) \/ Raise(a)
  PROVE  Untouched(j) /\ janitor' = janitor
<1> DEFINE t == att[a].task
<1>0. /\ t \in Task /\ JobOf[t] \in Job /\ TypeOK
      /\ DOMAIN att[a].marks \subseteq TasksOf(JobOf[t]) /\ att[a].marks \in Marks
      /\ t \notin TasksOf(j)
  BY TopologyAssumption DEF Typed, Carried, Carries, TypeOK, AttemptState, TasksOf
<1>1. \A u \in TasksOf(j) : u \in Task /\ u # t /\ u \notin DOMAIN att[a].marks
  BY <1>0 DEF TasksOf
<1>2. CASE UNCHANGED <<task, owner, lease, job, janitor>>
  BY <1>2 DEF Untouched, RowKept
<1>3. CASE Doom(a) \/ Settle(a)
  BY <1>0, <1>1, <1>3 DEF Doom, Settle, Untouched, RowKept, TypeOK
<1>4. CASE Acquire(a)
  BY <1>0, <1>1, <1>4 DEF Acquire, Untouched, RowKept, TypeOK, taskRow
<1>5. CASE RollUpCommit(a) \/ AdvanceCommit(a)
  BY <1>0, <1>5 DEF RollUpCommit, AdvanceCommit, Untouched, RowKept, TypeOK, taskRow
<1>6. CASE AdvanceFlush(a)
  <2>1. UNCHANGED <<owner, lease, janitor>>
    BY <1>6 DEF AdvanceFlush
  <2>2. CASE UNCHANGED <<task, job>>
    BY <1>2, <2>1, <2>2
  <2>3. CASE /\ task' = Override(task, att[a].marks)
             /\ job' = [job EXCEPT ![JobOf[t]] = Finalized(JobOf[t], task')]
    <3>1. \A u \in TasksOf(j) : task'[u] = task[u]
      BY <1>0, <1>1, <2>3, OverrideFacts
    <3> QED BY <1>0, <2>1, <2>3, <3>1 DEF Untouched, RowKept, TypeOK
  <2> QED BY <1>6, <2>2, <2>3 DEF AdvanceFlush
<1>7. CASE Heartbeat(a)
  BY <1>0, <1>1, <1>7 DEF Heartbeat, Untouched, RowKept, TypeOK, actors
<1> QED BY <1>2, <1>3, <1>4, <1>5, <1>6, <1>7
        DEF Step, HandlerReturns, HandlerRaises, RollUp, RollUpJob, AdvanceRead,
            AdvanceRollUp, AdvanceJob, Raise, Reads, taskRow

LEMMA SafeElsewhere ==
  ASSUME NEW j \in Job, Sound(j), NEW a \in Attempt, att[a].pc # "idle",
         JobOf[att[a].task] # j, Step(a) \/ Heartbeat(a) \/ Raise(a)
  PROVE  Moves(j) /\ Kept(j)
<1>1. Untouched(j) /\ janitor' = janitor
  BY ElsewhereUntouched DEF Sound
<1>2. OwnStep(a)
  BY AttemptSteps DEF Sound
<1>3. ASSUME NEW b \in Attempt, att'[b].pc # "idle", att'[b].task \in TasksOf(j)
      PROVE  att'[b] = att[b]
  BY <1>2, <1>3 DEF OwnStep, AttStep, TasksOf
<1> QED BY <1>1, <1>3, UntouchedMoves DEF Kept, Going, Sweeping

LEMMA SafePickup ==
  ASSUME LocalDeps, NEW j \in Job, Sound(j), NEW a \in Attempt, NEW t \in Task, Pickup(a, t)
  PROVE  Moves(j) /\ Kept(j)
<1>1. UNCHANGED <<task, owner, lease, job, janitor>>
  BY DEF Pickup, taskRow
<1>2. ASSUME NEW b \in Attempt, att'[b].pc # "idle", att'[b].task \in TasksOf(j), att'[b] # att[b]
      PROVE  AttemptOK(b)'
  <2>1. /\ b = a /\ t \in TasksOf(j) /\ att'[a].task = t /\ task[t] = "pending"
        /\ \/ att'[a].pc = "gate" /\ dependencies_ready(Deps[t], task)
           \/ /\ att'[a].pc = "doom" /\ att'[a].out \in Doomed
              /\ \E d \in Deps[t] : task[d] \in Doomed \cup {"absent"}
    BY <1>2, PickupStep DEF Sound
  <2>2. CASE att'[a].pc = "gate"
    BY <1>1, <2>1, <2>2 DEF AttemptOK, dependencies_ready, Rolling
  <2>3. CASE att'[a].pc = "doom"
    <3>1. \A d \in Deps[t] : task[d] # "absent"
      <4>1. job[j] \notin {"new", "absent"}
        BY <2>1 DEF Sound, Placed, RowsFollowJob, TasksOf
      <4> QED BY <2>1, <4>1, TasksFacts DEF Sound, Placed, RowsFollowJob
    <3>2. Condemned(t, NoMarks)'
      BY <1>1, <2>1, <2>3, <3>1 DEF Condemned
    <3> QED BY <2>1, <2>3, <3>2 DEF AttemptOK, Rolling
  <2> QED BY <2>1, <2>2, <2>3
<1> QED BY <1>1, <1>2, UnwrittenMoves DEF Kept, Going, Sweeping

\* An attempt that gives up, or only moves on to a step that relies on nothing.
LEMMA PlainMove ==
  ASSUME NEW j \in Job, Typed, NEW a \in Attempt, att[a].pc # "idle", Holding(j),
         \/ Return(a)
         \/ \E pc \in {"run", "except", "mark"} : GoTo(a, pc, att[a].task, "none"),
         janitor' = janitor
  PROVE  Kept(j)
<1>0. att \in [Attempt -> AttemptState] /\ att[a].task \in Task
  BY DEF Typed, Carried, TypeOK, Carries
<1>1. CASE Return(a)
  BY <1>0, <1>1, ReturnFacts DEF Kept, Going, Sweeping
<1>2. ASSUME NEW pc \in {"run", "except", "mark"}, GoTo(a, pc, att[a].task, "none")
      PROVE  AttemptOK(a)' /\ \A b \in Attempt \ {a} : att'[b] = att[b]
  <2>1. att'[a].pc = pc /\ att'[a].task = att[a].task /\ \A b \in Attempt \ {a} : att'[b] = att[b]
    BY <1>0, <1>2, GoToFacts
  <2> QED BY <1>0, <2>1 DEF AttemptOK, Rolling
<1> QED BY <1>1, <1>2 DEF Kept, Going, Sweeping

\* An attempt whose next step relies on something that holds.
LEMMA CurrentMove ==
  ASSUME NEW j \in Job, NEW a \in Attempt, Holding(j), janitor' = janitor,
         AttemptOK(a)', \A b \in Attempt \ {a} : att'[b] = att[b]
  PROVE  Kept(j)
BY DEF Kept, Going, Sweeping

\* An attempt that goes on to the roll-up with the outcome it has just written.
LEMMA RollMove ==
  ASSUME NEW j \in Job, Typed, NEW a \in Attempt, att[a].pc # "idle", Holding(j),
         NEW out \in Terminal, NEW loaded \in JobStatus \cup {"none"},
         Hold(a, "roll", att[a].task, out, loaded), task'[att[a].task] = out,
         janitor' = janitor
  PROVE  Kept(j)
<1>1. att \in [Attempt -> AttemptState] /\ att[a].task \in Task
  BY DEF Typed, Carried, TypeOK, Carries
<1>2. /\ att'[a].pc = "roll" /\ att'[a].task = att[a].task /\ att'[a].out = out
      /\ \A b \in Attempt \ {a} : att'[b] = att[b]
  BY <1>1, HoldFacts
<1>3. AttemptOK(a)'
  BY <1>1, <1>2 DEF AttemptOK, Rolling
<1> QED BY <1>2, <1>3, CurrentMove

\* The steps of an attempt up to its terminal commit.
LEMMA SafeRun ==
  ASSUME LocalDeps, NEW j \in Job, Sound(j), j \notin overtaken', NEW a \in Attempt,
         Doom(a) \/ Acquire(a) \/ HandlerReturns(a) \/ HandlerRaises(a) \/ Settle(a)
  PROVE  Moves(j) /\ Kept(j)
<1> DEFINE t == att[a].task
<1>1. att[a].pc # "idle"
  BY DEF Doom, Acquire, HandlerReturns, HandlerRaises, Settle
<1>2. CASE JobOf[t] # j
  BY <1>1, <1>2, SafeElsewhere DEF Step
<1> SUFFICES ASSUME JobOf[t] = j PROVE Moves(j) /\ Kept(j)
  BY <1>2
<1>0. /\ TypeOK /\ Typed /\ att \in [Attempt -> AttemptState]
      /\ t \in Task /\ t \in TasksOf(j) /\ job[j] # "new"
      /\ RowsFollowJob /\ AttemptOK(a) /\ LeaseShape(t)
  BY <1>1 DEF Sound, Typed, Carried, Carries, TypeOK, Placed, Current, TasksOf
<1>3. CASE Doom(a)
  <2>1. UNCHANGED <<owner, lease, job, janitor>> /\ att[a].pc = "doom"
    BY <1>3 DEF Doom
  <2>2. CASE UNCHANGED task
    <3>1. Moves(j) /\ Holding(j)
      BY <2>1, <2>2, UnwrittenMoves
    <3> QED BY <1>0, <1>3, <2>1, <3>1, PlainMove DEF Doom
  <2>3. CASE task[t] # "absent" /\ task' = [task EXCEPT ![t] = att[a].out]
    <3>1. att[a].out \in Doomed /\ task[t] \in Doomed \cup {"pending"}
      BY <1>0, <2>1, <2>3 DEF AttemptOK, Condemned, RowsFollowJob
    <3>2. \A u \in Task : IF u = t THEN task'[u] \in Doomed ELSE task'[u] = task[u]
      BY <1>0, <2>3, <3>1 DEF TypeOK
    <3>3. \A u \in TasksOf(j) : TaskStep(u) /\ LeaseShape(u)'
      BY <2>1, <3>1, <3>2, StatusFacts DEF TaskStep, LeaseShape, TasksOf, Sound, Current
    <3>4. Holding(j)
      BY <2>1, <3>1, <3>2, SettlingOwns, StatusFacts DEF Holding, RowKept, TasksOf
    <3>5. Kept(j)
      BY <1>0, <1>3, <2>1, <3>4, PlainMove DEF Doom
    <3> QED BY <2>1, <3>3, <3>5 DEF Moves, JobStep
  <2> QED BY <1>3, <2>2, <2>3 DEF Doom
<1>4. CASE Acquire(a)
  <2>1. UNCHANGED <<job, janitor>> /\ att[a].pc = "gate"
    BY <1>4 DEF Acquire
  <2>2. CASE UNCHANGED taskRow /\ Return(a)
    <3>1. Moves(j) /\ Holding(j)
      BY <2>1, <2>2, UnwrittenMoves DEF taskRow
    <3> QED BY <1>0, <2>1, <2>2, <3>1, PlainMove
  <2>3. CASE /\ Acquirable(t)
             /\ owner' = [owner EXCEPT ![t] = WorkerOf[a]]
             /\ lease' = [lease EXCEPT ![t] = "live"]
             /\ \/ \E out \in {"cancelled_dirty", "cancelled"} :
                     /\ task' = [task EXCEPT ![t] = out]
                     /\ Hold(a, "roll", t, out, job[j])
                \/ /\ task' = [task EXCEPT ![t] = "running"]
                   /\ GoTo(a, "run", t, "none")
    <3>1. PICK out \in {"cancelled_dirty", "cancelled", "running"} :
             /\ task' = [task EXCEPT ![t] = out]
             /\ \/ out # "running" /\ Hold(a, "roll", t, out, job[j])
                \/ GoTo(a, "run", t, "none")
      BY <2>3
    <3>2. out \in Doomed \cup {"running"}
      BY DEF Doomed, CancelledDep
    <3>3. task[t] = "pending" /\ dependencies_ready(Deps[t], task)
      BY <1>0, <2>1, <2>3 DEF Acquirable, AttemptOK
    <3>4. \A u \in Task : IF u = t THEN task'[u] = out /\ owner'[u] = WorkerOf[a] /\ lease'[u] = "live"
                          ELSE task'[u] = task[u] /\ owner'[u] = owner[u] /\ lease'[u] = lease[u]
      BY <1>0, <2>3, <3>1 DEF TypeOK
    <3>5. WorkerOf[a] # NoWorker
      BY TopologyAssumption DEF Worker
    <3>6. \A u \in TasksOf(j) : TaskStep(u) /\ LeaseShape(u)'
      BY <3>2, <3>3, <3>4, <3>5, StatusFacts DEF TaskStep, LeaseShape, TasksOf, Sound, Current
    <3>7. Holding(j)
      BY <3>3, <3>4, SettlingOwns DEF Holding, RowKept, TasksOf
    <3>8. Kept(j)
      <4>1. CASE GoTo(a, "run", t, "none")
        BY <1>0, <2>1, <3>7, <4>1, PlainMove
      <4>2. CASE out # "running" /\ Hold(a, "roll", t, out, job[j])
        <5>1. out \in Terminal /\ task'[t] = out /\ job[j] \in JobStatus
          BY <1>0, <3>2, <3>4, <4>2, StatusFacts DEF TypeOK
        <5> QED BY <1>0, <2>1, <3>7, <4>2, <5>1, RollMove
      <4> QED BY <3>1, <4>1, <4>2
    <3> QED BY <2>1, <3>6, <3>8 DEF Moves, JobStep
  <2> QED BY <1>4, <2>2, <2>3 DEF Acquire
<1>5. CASE HandlerReturns(a) \/ HandlerRaises(a)
  <2>1. UNCHANGED <<task, owner, lease, job, janitor>> /\ att[a].pc \in {"run", "except"}
    BY <1>5 DEF HandlerReturns, HandlerRaises, taskRow
  <2>2. Moves(j) /\ Holding(j)
    BY <2>1, UnwrittenMoves
  <2>3. CASE Return(a)
    BY <1>0, <2>1, <2>2, <2>3, PlainMove
  <2>4. CASE /\ Owns(a)
             /\ \/ GoTo(a, "settle", t, "failed")
                \/ Hold(a, "settle", t, "cancelled_dirty", job[j])
                \/ Hold(a, "settle", t, "succeeded", job[j])
    <3>1. "failed" \in Terminal /\ "cancelled_dirty" \in Terminal /\ "succeeded" \in Terminal
      BY DEF Terminal, Doomed, CancelledDep, FailedDep
    <3>2. job[j] \in JobStatus
      BY <1>0 DEF TypeOK
    <3>3. /\ att'[a].pc = "settle" /\ att'[a].task = t /\ att'[a].out \in Terminal
          /\ \A b \in Attempt \ {a} : att'[b] = att[b]
      BY <1>0, <2>4, <3>1, <3>2, GoToFacts, HoldFacts
    <3>4. AttemptOK(a)'
      BY <2>1, <2>4, <3>3 DEF AttemptOK, Owns, Rolling
    <3> QED BY <2>1, <2>2, <3>3, <3>4, CurrentMove
  <2> QED BY <1>5, <2>3, <2>4 DEF HandlerReturns, HandlerRaises
<1>6. CASE Settle(a)
  <2>1. UNCHANGED <<owner, lease, job, janitor>> /\ att[a].pc = "settle"
    BY <1>6 DEF Settle
  <2>2. CASE Return(a) /\ UNCHANGED task
    <3>1. Moves(j) /\ Holding(j)
      BY <2>1, <2>2, UnwrittenMoves
    <3> QED BY <1>0, <2>1, <2>2, <3>1, PlainMove
  <2>3. CASE /\ task' = [task EXCEPT ![t] = att[a].out]
             /\ Hold(a, "roll", t, att[a].out, att[a].loaded)
    <3>1. task[t] = "running" /\ owner[t] = WorkerOf[a] /\ att[a].out \in Terminal
      BY <1>0, <2>1 DEF AttemptOK, Owns
    <3>2. \A u \in Task : IF u = t THEN task'[u] = att[a].out ELSE task'[u] = task[u]
      BY <1>0, <2>3 DEF TypeOK
    <3>3. \A u \in TasksOf(j) : TaskStep(u) /\ LeaseShape(u)'
      BY <2>1, <3>1, <3>2, StatusFacts DEF TaskStep, LeaseShape, TasksOf, Sound, Current
    <3>4. ASSUME NEW b \in Attempt, b # a, att[b].pc = "settle", att[b].task \in TasksOf(j)
          PROVE  att[b].task # t
      <4> SUFFICES ASSUME att[b].task = t PROVE FALSE
        OBVIOUS
      <4>1. owner[t] = WorkerOf[b] /\ Busy(a, t) /\ Busy(b, t)
        BY <2>1, <3>4, SettlingOwns DEF Busy, Beating
      <4> QED BY <1>0, <3>1, <3>4, <4>1 DEF Sound, Current, OnePerProcess
    <3>5. att'[a].pc = "roll" /\ \A b \in Attempt \ {a} : att'[b] = att[b]
      <4>1. att[a].loaded \in JobStatus \cup {"none"}
        BY <1>0 DEF AttemptState
      <4> QED BY <1>0, <2>3, <3>1, <4>1, HoldFacts
    <3>6. Holding(j)
      BY <2>1, <3>2, <3>4, <3>5 DEF Holding, RowKept, TasksOf
    <3>7. Kept(j)
      <4>1. att[a].loaded \in JobStatus \cup {"none"} /\ task'[t] = att[a].out
        BY <1>0, <3>2 DEF AttemptState
      <4> QED BY <1>0, <2>1, <2>3, <3>1, <3>6, <4>1, RollMove
    <3> QED BY <2>1, <3>3, <3>7 DEF Moves, JobStep
  <2> QED BY <1>6, <2>2, <2>3 DEF Settle
<1> QED BY <1>3, <1>4, <1>5, <1>6

\* The steps of an attempt after its terminal commit, its heartbeat and its errors.
LEMMA SafeAfter ==
  ASSUME LocalDeps, NEW j \in Job, Sound(j), TypeOK', RowStep, NEW a \in Attempt,
         \/ RollUp(a) \/ RollUpJob(a) \/ RollUpCommit(a)
         \/ AdvanceRead(a) \/ AdvanceFlush(a) \/ AdvanceRollUp(a) \/ AdvanceJob(a)
         \/ AdvanceCommit(a) \/ Heartbeat(a) \/ Raise(a)
  PROVE  Moves(j) /\ Kept(j)
<1> DEFINE t == att[a].task
<1>1. att[a].pc # "idle"
  BY DEF RollUp, RollUpJob, RollUpCommit, AdvanceRead, AdvanceFlush, AdvanceRollUp, AdvanceJob,
         AdvanceCommit, Heartbeat, Beating, Raise
<1>2. CASE JobOf[t] # j
  BY <1>1, <1>2, SafeElsewhere DEF Step
<1> SUFFICES ASSUME JobOf[t] = j PROVE Moves(j) /\ Kept(j)
  BY <1>2
<1>0. /\ TypeOK /\ Typed /\ att \in [Attempt -> AttemptState]
      /\ t \in Task /\ t \in TasksOf(j) /\ job[j] # "new"
      /\ RowsFollowJob /\ Placed /\ AttemptOK(a) /\ Carries(a)
  BY <1>1 DEF Sound, Typed, Carried, Carries, TypeOK, Placed, Current, TasksOf
\* The rows of the job that this step has read are all terminal.
<1>3. ASSUME UNCHANGED <<task, owner, lease, job, janitor>>,
             NEW pc \in Rolling, NEW out \in JobTerminal,
             att'[a].pc = pc, att'[a].task = t, att'[a].out = out,
             \A b \in Attempt \ {a} : att'[b] = att[b],
             \A u \in TasksOf(j) : task[u] \in Terminal \cup {"absent"}
      PROVE  Moves(j) /\ Kept(j)
  <2>1. AttemptOK(a)'
    BY <1>3 DEF AttemptOK, Rolling, TasksOf
  <2> QED BY <1>3, <2>1, CurrentMove, UnwrittenMoves
<1>4. ASSUME NEW status, Decided(j, status),
             \A u \in TasksOf(j) \ {t} : status[u] = task[u],
             status[t] = task[t] \/ task[t] \in Terminal \cup {"absent"}
      PROVE  /\ Verdict(j, status) \in JobTerminal /\ Verdict(j, status) \in Terminal
             /\ \A u \in TasksOf(j) : task[u] \in Terminal \cup {"absent"}
  <2>1. /\ Verdict(j, status) \in JobTerminal /\ Verdict(j, status) \in Terminal
        /\ \A u \in TasksOf(j) : status[u] \notin {"pending", "running"}
    BY <1>4, DecidedFacts
  <2>2. \A u \in TasksOf(j) : task[u] \in TaskStatus
    BY <1>0 DEF TypeOK, TasksOf
  <2> QED BY <1>4, <2>1, <2>2, StatusFacts
<1>5. CASE RollUp(a)
  <2>1. UNCHANGED <<task, owner, lease, job, janitor>> /\ att[a].pc = "roll"
    BY <1>5 DEF RollUp, Reads, taskRow
  <2>2. CASE GoTo(a, "mark", t, "none")
    <3>1. Moves(j) /\ Holding(j)
      BY <2>1, UnwrittenMoves
    <3> QED BY <1>0, <1>1, <2>1, <2>2, <3>1, PlainMove
  <2> DEFINE rows == [task EXCEPT ![t] = IF @ = "absent" THEN @ ELSE att[a].out]
  <2>3. CASE Decided(j, rows) /\ \E pc \in {"rolljob", "rollcommit"} : GoTo(a, pc, t, Verdict(j, rows))
    <3>1. \A u \in TasksOf(j) \ {t} : rows[u] = task[u]
      BY <1>0 DEF TypeOK, TasksOf
    <3>2. task[t] \in Terminal \cup {"absent"}
      BY <1>0, <2>1 DEF AttemptOK
    <3> HIDE DEF rows
    <3>3. /\ Verdict(j, rows) \in JobTerminal /\ Verdict(j, rows) \in Terminal
          /\ \A u \in TasksOf(j) : task[u] \in Terminal \cup {"absent"}
      BY <1>4, <2>3, <3>1, <3>2
    <3>4. PICK pc \in {"rolljob", "rollcommit"} : GoTo(a, pc, t, Verdict(j, rows))
      BY <2>3
    <3>5. /\ att'[a].pc = pc /\ att'[a].task = t /\ att'[a].out = Verdict(j, rows)
          /\ \A b \in Attempt \ {a} : att'[b] = att[b]
      BY <1>0, <3>3, <3>4, GoToFacts
    <3> QED BY <1>3, <2>1, <3>3, <3>5 DEF Rolling
  <2> QED BY <1>5, <2>2, <2>3 DEF RollUp
<1>6. CASE RollUpJob(a)
  <2>1. UNCHANGED <<task, owner, lease, job, janitor>> /\ att[a].pc = "rolljob"
    BY <1>6 DEF RollUpJob, Reads, taskRow
  <2>2. CASE GoTo(a, "mark", t, "none")
    <3>1. Moves(j) /\ Holding(j)
      BY <2>1, UnwrittenMoves
    <3> QED BY <1>0, <1>1, <2>1, <2>2, <3>1, PlainMove
  <2>3. CASE GoTo(a, "rollcommit", t, att[a].out)
    <3>1. att[a].out # "none" /\ att[a].out \in Terminal \cup {"none"}
      BY <1>0, <2>1, StatusFacts DEF Carries, AttemptState
    <3>2. /\ att'[a].pc = "rollcommit" /\ att'[a].task = t /\ att'[a].out = att[a].out
          /\ \A b \in Attempt \ {a} : att'[b] = att[b]
      BY <1>0, <2>3, <3>1, GoToFacts
    <3>3. att[a].out \in JobTerminal /\ \A u \in TasksOf(j) : task[u] \in Terminal \cup {"absent"}
      BY <1>0, <2>1, <3>1 DEF AttemptOK, Rolling
    <3> QED BY <1>3, <2>1, <3>2, <3>3 DEF Rolling
  <2> QED BY <1>6, <2>2, <2>3 DEF RollUpJob
<1>7. CASE RollUpCommit(a) \/ AdvanceCommit(a)
  <2>1. UNCHANGED <<task, owner, lease, janitor>> /\ att[a].pc \in {"rollcommit", "advancecommit"}
    BY <1>7 DEF RollUpCommit, AdvanceCommit, taskRow
  <2>2. Return(a) \/ GoTo(a, "mark", t, "none")
    BY <1>7 DEF RollUpCommit, AdvanceCommit
  <2>3. Moves(j) /\ Holding(j)
    <3>1. CASE UNCHANGED job
      BY <2>1, <3>1, UnwrittenMoves
    <3>2. CASE /\ job[j] # "absent" /\ att[a].out # "none"
               /\ job' = [job EXCEPT ![j] = att[a].out]
      <4>1. /\ att[a].out \in JobTerminal /\ job'[j] = att[a].out
            /\ \A u \in TasksOf(j) : task[u] \in Terminal \cup {"absent"}
        BY <1>0, <2>1, <3>2 DEF AttemptOK, Rolling, TypeOK
      <4>2. JobStep(j)
        BY <1>0, <2>1, <3>2, <4>1 DEF JobStep, RowsFollowJob, TasksOf
      <4> QED BY <2>1, <4>2 DEF Moves, TaskStep, Sound, Current, LeaseShape, Holding, RowKept
    <3>3. att[a].pc = "rollcommit" => att[a].out # "none"
      BY <1>0, StatusFacts DEF Carries
    <3> QED BY <1>7, <3>1, <3>2, <3>3 DEF RollUpCommit, AdvanceCommit
  <2> QED BY <1>0, <1>1, <2>1, <2>2, <2>3, PlainMove
<1>8. CASE AdvanceRead(a)
  <2>1. UNCHANGED <<task, owner, lease, job, janitor>> /\ att[a].pc = "mark"
    BY <1>8 DEF AdvanceRead, Reads, taskRow
  <2> DEFINE rows == JobRows(j)
             ready(m) == Followers(j, Override(rows, m))
  <2>2. PICK m \in Cascades(TasksOf(j), rows) : Mark(a, t, m, ready(m))
    BY <1>8 DEF AdvanceRead
  <2>3. /\ TasksOf(j) \in SUBSET Task
        /\ \A u \in TasksOf(j) : rows[u] = task[u]
    BY DEF TasksOf, JobRows
  <2>4. m \in Marks
    <3> HIDE DEF rows
    <3> QED BY <2>3, CascadesType
  <2>5. ready(m) \in SUBSET Task
    BY DEF Followers, TasksOf
  <2> HIDE DEF rows, ready
  <2>6. /\ att'[a].pc = "advance" /\ att'[a].task = t /\ att'[a].marks = m
        /\ \A b \in Attempt \ {a} : att'[b] = att[b]
    BY <1>0, <2>2, <2>4, <2>5, MarkFacts
  <2>7. \A u \in DOMAIN m \cap TasksOf(j) : Condemned(u, m)
    BY <1>0, <2>2, <2>3, CascadeCondemns
  <2>8. DOMAIN m \subseteq TasksOf(j)
    BY <2>2, <2>3, CascadesType
  <2>9. AttemptOK(a)'
    BY <2>1, <2>6, <2>7, <2>8 DEF AttemptOK, Condemned, Rolling
  <2> QED BY <2>1, <2>6, <2>9, CurrentMove, UnwrittenMoves
<1>9. CASE AdvanceFlush(a)
  <2> DEFINE m == att[a].marks
  <2>1. /\ UNCHANGED <<owner, lease, janitor>> /\ att[a].pc = "advance" /\ Return(a)
        /\ m \in Marks
    BY <1>0, <1>9 DEF AdvanceFlush, AttemptState
  <2>2. CASE UNCHANGED <<task, job>>
    <3>1. Moves(j) /\ Holding(j)
      BY <2>1, <2>2, UnwrittenMoves
    <3> QED BY <1>0, <1>1, <2>1, <3>1, PlainMove
  <2>3. CASE /\ \A u \in DOMAIN m : task[u] # "absent"
             /\ task' = Override(task, m)
             /\ job' = [job EXCEPT ![j] = Finalized(j, task')]
    <3>1. \A u \in DOMAIN m \cap TasksOf(j) : Condemned(u, m)
      BY <1>0, <2>1 DEF AttemptOK
    <3> HIDE DEF m
    <3>2. /\ \A u \in TasksOf(j) : TaskStep(u) /\ LeaseShape(u)'
          /\ \A u \in TasksOf(j) : task'[u] = "absent" <=> task[u] = "absent"
          /\ Holding(j)
      BY <2>1, <2>3, <3>1, MarksAreSteps
    <3>3. job'[j] = Finalized(j, task')
      BY <1>0, <2>3 DEF TypeOK
    <3>4. JobStep(j)
      BY <1>0, <3>2, <3>3, RollUpIsStep
    <3> QED BY <1>0, <1>1, <2>1, <3>2, <3>4, PlainMove DEF Moves
  <2> QED BY <1>9, <2>2, <2>3 DEF AdvanceFlush
<1>10. CASE AdvanceRollUp(a) \/ AdvanceJob(a)
  <2>1. /\ UNCHANGED <<task, owner, lease, job, janitor>>
        /\ att[a].pc \in {"advance", "advancejob"}
    BY <1>10 DEF AdvanceRollUp, AdvanceJob, Reads, taskRow
  <2>2. Moves(j) /\ Holding(j)
    BY <2>1, UnwrittenMoves
  <2>3. CASE Carry(a, "advancecommit", "none")
    <3>1. /\ att'[a].pc = "advancecommit" /\ att'[a].out = "none"
          /\ \A b \in Attempt \ {a} : att'[b] = att[b]
      BY <1>0, <2>3, CarryFacts
    <3>2. AttemptOK(a)'
      BY <3>1 DEF AttemptOK
    <3> QED BY <2>1, <2>2, <3>1, <3>2, CurrentMove
  <2>4. CASE Decided(j, task) /\ Carry(a, "advancejob", Verdict(j, task))
    <3>1. /\ Verdict(j, task) \in JobTerminal /\ Verdict(j, task) \in Terminal
          /\ \A u \in TasksOf(j) : task[u] \in Terminal \cup {"absent"}
      BY <1>4, <2>4
    <3>2. /\ att'[a].pc = "advancejob" /\ att'[a].out = Verdict(j, task) /\ att'[a].task = t
          /\ \A b \in Attempt \ {a} : att'[b] = att[b]
      BY <1>0, <2>4, <3>1, CarryFacts
    <3> QED BY <1>3, <2>1, <3>1, <3>2 DEF Rolling
  <2>5. CASE att[a].pc = "advancejob" /\ Carry(a, "advancecommit", att[a].out)
    <3>1. att[a].out \in Terminal \cup {"none"}
      BY <1>0 DEF AttemptState
    <3>2. /\ att'[a].pc = "advancecommit" /\ att'[a].out = att[a].out /\ att'[a].task = t
          /\ \A b \in Attempt \ {a} : att'[b] = att[b]
      BY <1>0, <2>5, <3>1, CarryFacts
    <3>3. CASE att[a].out = "none"
      <4>1. AttemptOK(a)'
        BY <3>2, <3>3 DEF AttemptOK
      <4> QED BY <2>1, <2>2, <3>2, <4>1, CurrentMove
    <3>4. CASE att[a].out # "none"
      <4>1. att[a].out \in JobTerminal /\ \A u \in TasksOf(j) : task[u] \in Terminal \cup {"absent"}
        BY <1>0, <2>5, <3>4 DEF AttemptOK, Rolling
      <4> QED BY <1>3, <2>1, <3>2, <4>1 DEF Rolling
    <3> QED BY <3>3, <3>4
  <2> QED BY <1>10, <2>3, <2>4, <2>5 DEF AdvanceRollUp, AdvanceJob
<1>11. CASE Heartbeat(a)
  <2>1. /\ UNCHANGED <<task, owner, job, att, janitor>>
        /\ lease[t] = "expired" /\ lease' = [lease EXCEPT ![t] = "live"]
    BY <1>11 DEF Heartbeat, actors
  <2>2. \A u \in Task : lease'[u] = IF u = t THEN "live" ELSE lease[u]
    BY <1>0, <2>1 DEF TypeOK
  <2>3. \A u \in TasksOf(j) : LeaseShape(u)'
    BY <2>1, <2>2 DEF LeaseShape, Sound, Current, TasksOf
  <2>4. Holding(j)
    BY <2>1, <2>2, SettlingOwns DEF Holding, RowKept, TasksOf
  <2> QED BY <2>1, <2>3, <2>4 DEF Moves, TaskStep, JobStep, Kept, Going, Sweeping
<1>12. CASE Raise(a)
  <2>1. UNCHANGED <<task, owner, lease, job, janitor>>
    BY <1>12 DEF Raise, taskRow
  <2> QED BY <1>0, <1>1, <1>12, <2>1, UnwrittenMoves, PlainMove DEF Raise
<1> QED BY <1>5, <1>6, <1>7, <1>8, <1>9, <1>10, <1>11, <1>12

\* The requests of clients, of this job and of others.
LEMMA SafeRequests ==
  ASSUME LocalDeps, NEW j \in Job, Sound(j), TypeOK', RowStep, j \notin overtaken',
         \/ \E i \in Job : \/ Submit(i) \/ SubmitFinalize(i) \/ SubmitCrash(i)
                           \/ \E force \in BOOLEAN : Cancel(i, force)
                           \/ \E r \in Resumer : ResumeRead(r, i)
         \/ \E r \in Resumer : ResumeCommit(r)
  PROVE  Moves(j) /\ Kept(j)
<1>0. RowsFollowJob /\ TypeOK /\ Typed /\ Placed
  BY DEF Sound, Typed, Carried, Placed
<1>1. ASSUME NEW i \in Job, Submit(i) PROVE Moves(j) /\ Kept(j)
  <2>1. /\ job[i] = "new" /\ job' = [job EXCEPT ![i] = "pending"]
        /\ \A t \in Task : IF t \in TasksOf(i) THEN task'[t] \in {"pending", "succeeded"}
                                              ELSE task'[t] = task[t]
        /\ UNCHANGED <<owner, lease, att, janitor>>
    BY <1>1 DEF Submit, Materialized, TasksOf
  <2>2. CASE i # j
    <3>1. Untouched(j)
      BY <1>0, <2>1, <2>2 DEF Untouched, RowKept, TasksOf, TypeOK
    <3> QED BY <2>1, <3>1, UntouchedMoves DEF Kept, Going, Sweeping
  <2>3. CASE i = j
    <3>1. \A t \in TasksOf(j) : task[t] = "absent" /\ owner[t] = NoWorker /\ lease[t] = "none"
      BY <1>0, <2>1, <2>3 DEF RowsFollowJob, TasksOf
    <3>2. \A t \in TasksOf(j) : TaskStep(t) /\ LeaseShape(t)'
      BY <2>1, <2>3, <3>1 DEF TaskStep, LeaseShape, TasksOf
    <3>3. JobStep(j)
      BY <1>0, <2>1, <2>3 DEF JobStep, TypeOK
    <3>4. Holding(j)
      BY <3>1, SettlingOwns DEF Holding
    <3> QED BY <2>1, <3>2, <3>3, <3>4 DEF Moves, Kept, Going, Sweeping
  <2> QED BY <2>2, <2>3
<1>2. ASSUME NEW i \in Job, SubmitFinalize(i) PROVE Moves(j) /\ Kept(j)
  <2>1. /\ job' = [job EXCEPT ![i] = Finalized(i, task)]
        /\ UNCHANGED <<task, owner, lease, att, janitor>>
    BY <1>2 DEF SubmitFinalize, taskRow
  <2>2. JobStep(j)
    <3>1. CASE i # j
      BY <1>0, <2>1, <3>1 DEF JobStep, TypeOK
    <3>2. CASE i = j
      <4>1. job'[j] = Finalized(j, task')
        BY <1>0, <2>1, <3>2 DEF TypeOK
      <4> QED BY <1>0, <2>1, <4>1, RollUpIsStep
    <3> QED BY <3>1, <3>2
  <2>3. Moves(j) /\ Holding(j)
    BY <2>1, <2>2 DEF Moves, TaskStep, Sound, Current, LeaseShape, Holding, RowKept
  <2> QED BY <2>1, <2>3 DEF Kept, Going, Sweeping
<1>3. ASSUME UNCHANGED <<task, owner, lease, job, att, janitor>> PROVE Moves(j) /\ Kept(j)
  BY <1>3, UnwrittenMoves DEF Kept, Going, Sweeping
<1>4. ASSUME NEW r \in Resumer, ResumeCommit(r) PROVE Moves(j) /\ Kept(j)
  <2> DEFINE p == resuming[r]
  <2>1. CASE UNCHANGED <<taskRow, job, att>>
    BY <1>3, <1>4, <2>1 DEF ResumeCommit, taskRow
  <2>2. CASE /\ p # NoResume
             /\ task' = [t \in Task |-> IF t \in p.reset THEN "pending" ELSE task[t]]
             /\ owner' = [t \in Task |-> IF t \in p.held THEN NoWorker ELSE owner[t]]
             /\ lease' = [t \in Task |-> IF t \in p.held THEN "none" ELSE lease[t]]
             /\ job' = [job EXCEPT ![p.job] = "pending"]
             /\ att' = Lapsed(p.held)
             /\ overtaken' = overtaken \cup {p.job}
    <3>1. p.job \in Job /\ p.reset \subseteq TasksOf(p.job) /\ p.held \subseteq p.reset
          /\ p.job # j /\ janitor' = janitor
      BY <1>0, <1>4, <2>2 DEF Typed, Booked, ResumeCommit
    <3> HIDE DEF p
    <3>2. \A t \in TasksOf(j) : t \in Task /\ t \notin p.reset /\ t \notin p.held
      BY <3>1 DEF TasksOf
    <3>3. Untouched(j)
      BY <1>0, <2>2, <3>1, <3>2 DEF Untouched, RowKept, TypeOK
    <3>4. ASSUME NEW b \in Attempt, att'[b].pc # "idle", att'[b].task \in TasksOf(j)
          PROVE  att'[b] = att[b]
      BY <1>0, <2>2, <3>2, <3>4, LapsedFacts DEF TypeOK
    <3> QED BY <3>1, <3>3, <3>4, UntouchedMoves DEF Kept, Going, Sweeping
  <2> QED BY <1>4, <2>1, <2>2 DEF ResumeCommit
<1> QED BY <1>1, <1>2, <1>3, <1>4 DEF SubmitCrash, Cancel, ResumeRead, taskRow, actors

\* The clock and the crashes.
LEMMA SafeFaults ==
  ASSUME NEW j \in Job, Sound(j), j \notin overtaken',
         (\E t \in Task : Expire(t)) \/ (\E w \in Worker : Crash(w))
  PROVE  Moves(j) /\ Kept(j)
<1>0. TypeOK
  BY DEF Sound, Typed, Carried
<1>1. ASSUME NEW t \in Task, Expire(t) PROVE Moves(j) /\ Kept(j)
  <2>1. /\ UNCHANGED <<task, owner, job, janitor>>
        /\ lease[t] = "live"
        /\ \A u \in Task : lease'[u] = IF u = t THEN "expired" ELSE lease[u]
        /\ att' = Lapsed({t})
    BY <1>0, <1>1 DEF Expire, TypeOK
  <2>2. ASSUME NEW a \in Attempt, att[a].pc = "settle", att[a].task \in TasksOf(j)
        PROVE  att[a].task # t
    <3> SUFFICES ASSUME att[a].task = t PROVE FALSE
      OBVIOUS
    <3>1. a \in Keepers(t) /\ JobOf[t] = j
      BY <2>2, SettlingOwns DEF Keepers, Busy, Beating, TasksOf
    <3>2. j \in overtaken'
      BY <1>1, <2>2, <3>1 DEF Expire
    <3> QED BY <3>2
  <2>3. \A u \in TasksOf(j) : LeaseShape(u)'
    BY <2>1 DEF LeaseShape, Sound, Current, TasksOf
  <2>4. Holding(j)
    BY <2>1, <2>2 DEF Holding, RowKept, TasksOf
  <2>5. ASSUME NEW b \in Attempt, att'[b].pc # "idle", att'[b].task \in TasksOf(j)
        PROVE  att'[b] = att[b]
    <3>1. att \in [Attempt -> AttemptState] /\ att' = Lapsed({t})
      BY <1>0, <2>1 DEF TypeOK
    <3>2. /\ att'[b].pc = att[b].pc /\ att'[b].task = att[b].task
          /\ att'[b] = att[b] \/ (att[b].pc = "settle" /\ att[b].task \in {t})
      BY <3>1, LapsedFacts
    <3> QED BY <2>2, <2>5, <3>2
  <2> QED BY <2>1, <2>3, <2>4, <2>5 DEF Moves, TaskStep, JobStep, Kept, Going, Sweeping
<1>2. ASSUME NEW w \in Worker, Crash(w) PROVE Moves(j) /\ Kept(j)
  <2>1. UNCHANGED <<task, owner, lease, job, janitor>>
    BY <1>2 DEF Crash, taskRow
  <2>2. \A a \in Attempt : att'[a] = att[a] \/ att'[a].pc = "idle"
    BY <1>2 DEF Crash, Idle
  <2> QED BY <2>1, <2>2, UnwrittenMoves DEF Kept, Going, Sweeping
<1> QED BY <1>1, <1>2

\* The janitor.
LEMMA SafeJanitor ==
  ASSUME LocalDeps, NEW j \in Job, Sound(j), TypeOK', RowStep,
         JanitorStep \/ PhaseFails \/ JanitorCrash
  PROVE  Moves(j) /\ Kept(j)
<1>0. /\ RowsFollowJob /\ TypeOK /\ Placed /\ SweepOK(j) /\ VerdictLast(j)
      /\ janitor.marks \in Marks /\ janitor.old \subseteq Job
  BY DEF Sound, Typed, Carried, Placed, Current, TypeOK, JanitorState
<1>00. att' = att => Going(j)
  BY DEF Going
<1>1. CASE Reclaim
  <2> DEFINE late == {t \in Task : task[t] = "running" /\ lease[t] = "expired"}
  <2>1. /\ UNCHANGED <<job, att>>
        /\ janitor'.pc = "propagate"
        /\ \A t \in Task :
             IF t \in late THEN task'[t] = "pending" /\ owner'[t] = NoWorker /\ lease'[t] = "none"
             ELSE task'[t] = task[t] /\ owner'[t] = owner[t] /\ lease'[t] = lease[t]
    BY <1>1 DEF Reclaim, Sweep
  <2>2. \A t \in TasksOf(j) : TaskStep(t) /\ LeaseShape(t)'
    BY <2>1 DEF TaskStep, LeaseShape, TasksOf, Sound, Current
  <2>3. Holding(j)
    BY <2>1, SettlingOwns DEF Holding, RowKept, TasksOf
  <2>4. SweepOK(j)'
    BY <2>1 DEF SweepOK
  <2> QED BY <1>00, <2>1, <2>2, <2>3, <2>4 DEF Moves, JobStep, Kept, Sweeping
<1>2. CASE PropagateRead
  <2>1. UNCHANGED <<task, owner, lease, job, att>>
    BY <1>2 DEF PropagateRead, taskRow
  <2>2. PICK m \in Cascades(Task, task) :
          janitor' = [janitor EXCEPT !.pc = IF m = NoMarks THEN "requeue" ELSE "commit",
                                     !.marks = m]
    BY <1>2 DEF PropagateRead
  <2>3. janitor'.marks = m /\ janitor'.pc # "delete"
    BY <1>0, <2>2 DEF TypeOK, JanitorState
  <2>4. \A u \in DOMAIN m \cap TasksOf(j) : Condemned(u, m)
    <3>1. TasksOf(j) \subseteq Task
      BY DEF TasksOf
    <3> QED BY <1>0, <3>1, CascadeCondemns
  <2>5. SweepOK(j)'
    BY <2>1, <2>3, <2>4 DEF SweepOK, Condemned, TasksOf
  <2> QED BY <1>00, <2>1, <2>5, UnwrittenMoves DEF Kept, Sweeping
<1>3. CASE PropagateCommit
  <2> DEFINE m == janitor.marks
             affected == {JobOf[t] : t \in DOMAIN m}
  <2>1. UNCHANGED <<owner, lease, att>> /\ janitor.pc = "commit" /\ janitor'.pc = "requeue"
    BY <1>0, <1>3 DEF PropagateCommit, TypeOK, JanitorState
  <2>2. SweepOK(j)'
    BY <2>1 DEF SweepOK
  <2>3. CASE UNCHANGED <<task, job>>
    BY <1>00, <2>1, <2>2, <2>3, UnwrittenMoves DEF Kept, Sweeping
  <2>4. CASE /\ \A u \in DOMAIN m : task[u] # "absent"
             /\ task' = Override(task, m)
             /\ job' = [i \in Job |-> IF i \in affected THEN Finalized(i, task') ELSE job[i]]
    <3>1. \A u \in DOMAIN m \cap TasksOf(j) : Condemned(u, m)
      BY <1>0, <2>1 DEF SweepOK
    <3> HIDE DEF m, affected
    <3>2. m \in Marks
      BY <1>0 DEF m
    <3>3. /\ \A u \in TasksOf(j) : TaskStep(u) /\ LeaseShape(u)'
          /\ \A u \in TasksOf(j) : task'[u] = "absent" <=> task[u] = "absent"
          /\ Holding(j)
      BY <2>1, <2>4, <3>1, <3>2, MarksAreSteps
    <3>4. JobStep(j)
      <4>1. CASE j \in affected
        <5>1. job'[j] = Finalized(j, task')
          BY <2>4, <4>1
        <5> QED BY <1>0, <3>3, <5>1, RollUpIsStep
      <4>2. CASE j \notin affected
        BY <2>4, <4>2 DEF JobStep
      <4> QED BY <4>1, <4>2
    <3> QED BY <1>00, <2>1, <2>2, <3>3, <3>4 DEF Moves, Kept, Sweeping
  <2> QED BY <1>3, <2>3, <2>4 DEF PropagateCommit
<1>4. CASE GcRead
  <2>1. UNCHANGED <<task, owner, lease, job, att>>
    BY <1>4 DEF GcRead, taskRow
  <2>2. PICK old \in SUBSET {i \in Job : job[i] \in JobTerminal} :
          janitor' = IF old = {} THEN Sweep ELSE [Sweep EXCEPT !.pc = "delete", !.old = old]
    BY <1>4 DEF GcRead
  <2>3. janitor'.pc # "commit" /\ (janitor'.pc = "delete" => janitor'.old = old)
    BY <2>2 DEF Sweep
  <2>4. SweepOK(j)'
    BY <2>1, <2>2, <2>3 DEF SweepOK
  <2> QED BY <1>00, <2>1, <2>4, UnwrittenMoves DEF Kept, Sweeping
<1>5. CASE GcDelete
  <2> DEFINE gone == {t \in Task : JobOf[t] \in janitor.old}
  <2>1. /\ att' = att /\ janitor.pc = "delete" /\ janitor'.pc = "reclaim"
        /\ \A i \in Job : job'[i] = IF i \in janitor.old THEN "absent" ELSE job[i]
        /\ \A t \in Task :
             IF t \in gone THEN task'[t] = "absent" /\ owner'[t] = NoWorker /\ lease'[t] = "none"
             ELSE task'[t] = task[t] /\ owner'[t] = owner[t] /\ lease'[t] = lease[t]
    BY <1>5 DEF GcDelete, Sweep
  <2>2. j \in janitor.old => job[j] \in JobTerminal \cup {"absent"}
    BY <1>0, <2>1 DEF SweepOK
  <2>3. j \in janitor.old => \A t \in TasksOf(j) : task[t] \in Terminal \cup {"absent"}
    BY <1>0, <2>2 DEF VerdictLast, RowsFollowJob, TasksOf
  <2>4. \A t \in TasksOf(j) : TaskStep(t) /\ LeaseShape(t)'
    BY <2>1, <2>3, StatusFacts DEF TaskStep, LeaseShape, TasksOf, Sound, Current
  <2>5. JobStep(j)
    BY <2>1, <2>2 DEF JobStep
  <2>6. Holding(j)
    BY <2>1, <2>3, SettlingOwns, StatusFacts DEF Holding, RowKept, TasksOf
  <2>7. SweepOK(j)'
    BY <2>1 DEF SweepOK
  <2> QED BY <1>00, <2>1, <2>4, <2>5, <2>6, <2>7 DEF Moves, Kept, Sweeping
<1>6. CASE Requeue \/ PhaseFails \/ JanitorCrash
  <2>1. UNCHANGED <<task, owner, lease, job, att>>
    BY <1>6 DEF Requeue, PhaseFails, JanitorCrash, taskRow
  <2>2. janitor'.pc \notin {"commit", "delete"}
    <3>1. CASE Requeue
      BY <3>1 DEF Requeue, Sweep
    <3>2. CASE PhaseFails
      <4>1. janitor \in JanitorState
        BY <1>0 DEF TypeOK
      <4>2. NextPhase(janitor.pc) \in {"reclaim", "propagate", "requeue", "gc"}
        BY DEF NextPhase
      <4>3. janitor'.pc = NextPhase(janitor.pc)
        BY <3>2, <4>1 DEF PhaseFails, JanitorState
      <4> QED BY <4>2, <4>3
    <3>3. CASE JanitorCrash
      BY <3>3 DEF JanitorCrash, Sweep
    <3> QED BY <1>6, <3>1, <3>2, <3>3
  <2>3. SweepOK(j)'
    BY <2>2 DEF SweepOK
  <2> QED BY <1>00, <2>1, <2>3, UnwrittenMoves DEF Kept, Sweeping
<1> QED BY <1>1, <1>2, <1>3, <1>4, <1>5, <1>6 DEF JanitorStep

\* Nothing takes a job out of the history.
LEMMA OvertakenGrows ==
  ASSUME Next
  PROVE  overtaken \subseteq overtaken'
<1>1. CASE overtaken' = overtaken
  BY <1>1
<1>2. ASSUME NEW r \in Resumer, ResumeCommit(r) PROVE overtaken \subseteq overtaken'
  BY <1>2 DEF ResumeCommit
<1>3. ASSUME NEW a \in Attempt, Acquire(a) PROVE overtaken \subseteq overtaken'
  BY <1>3 DEF Acquire
<1>4. ASSUME NEW t \in Task, Expire(t) PROVE overtaken \subseteq overtaken'
  BY <1>4 DEF Expire
<1>5. ASSUME NEW a \in Attempt,
             (\E t \in Task : Pickup(a, t)) \/ (Step(a) /\ ~Acquire(a)) \/ Heartbeat(a) \/ Raise(a)
      PROVE  overtaken' = overtaken
  BY <1>5 DEF Step, Pickup, Doom, HandlerReturns, HandlerRaises, Settle, RollUp, RollUpJob,
       RollUpCommit, AdvanceRead, AdvanceFlush, AdvanceRollUp, AdvanceJob, AdvanceCommit,
       Heartbeat, Raise, Reads
<1>6. CASE \/ \E j \in Job : \/ Submit(j) \/ SubmitFinalize(j) \/ SubmitCrash(j)
                             \/ \E force \in BOOLEAN : Cancel(j, force)
                             \/ \E r \in Resumer : ResumeRead(r, j)
           \/ \E w \in Worker : Crash(w)
           \/ JanitorStep \/ PhaseFails \/ JanitorCrash
  BY <1>1, <1>6
  DEF Submit, SubmitFinalize, SubmitCrash, Cancel, ResumeRead, Crash, JanitorStep, Reclaim,
      PropagateRead, PropagateCommit, Requeue, GcRead, GcDelete, PhaseFails, JanitorCrash
<1> QED BY <1>1, <1>2, <1>3, <1>4, <1>5, <1>6 DEF Next

LEMMA SafeInit == Init => InFlightIsCurrent
<1> SUFFICES ASSUME Init PROVE InFlightIsCurrent
  OBVIOUS
<1>1. \A a \in Attempt : att[a].pc = "idle"
  BY DEF Init, Idle
<1>2. RowsFollowJob
  BY PlacedInit DEF Placed
<1>3. ASSUME NEW j \in Job PROVE Current(j)
  <2>1. \A t \in TasksOf(j) : LeaseShape(t) /\ DepsMet(t)
    BY DEF Init, LeaseShape, DepsMet, TasksOf
  <2>2. VerdictLast(j)
    BY StatusFacts DEF Init, VerdictLast
  <2>3. SweepOK(j)
    BY DEF Init, SweepOK, Sweep
  <2>4. OnePerProcess(j)
    BY <1>1 DEF OnePerProcess, Busy, Beating
  <2> QED BY <1>1, <2>1, <2>2, <2>3, <2>4 DEF Current
<1> QED BY <1>2, <1>3 DEF InFlightIsCurrent

\* Every step moves the rows of a job by steps of tasks and jobs.
LEMMA NextMoves ==
  ASSUME LocalDeps, NEW j \in Job, Sound(j), TypeOK', RowStep, Next, j \notin overtaken'
  PROVE  Moves(j) /\ Kept(j)
BY SafeRequests, SafePickup, SafeRun, SafeAfter, SafeFaults, SafeJanitor DEF Next, Step

LEMMA SoundOf ==
  ASSUME IInv, NEW j \in Job \ overtaken
  PROVE  Sound(j)
BY DEF IInv, InFlightIsCurrent, Sound

LEMMA UnchangedSafe ==
  ASSUME LocalDeps, IInv, UNCHANGED vars
  PROVE  IInv'
<1>1. Typed' /\ Typed /\ Placed /\ RowsFollowJob
  BY TypedNext DEF IInv, Placed
<1>2. Placed' /\ RowStep
  <2>1. RowStep
    BY <1>1, UnwrittenRows DEF vars
  <2>2. UNCHANGED <<task, owner, lease, job, att, resuming>>
    BY DEF vars
  <2> QED BY <1>1, <2>1, <2>2 DEF Placed, RowStep, SettleHeld
<1>3. ASSUME NEW j \in Job \ overtaken' PROVE Current(j)'
  <2>1. j \in Job /\ UNCHANGED <<task, owner, lease, job, att, janitor>>
    BY DEF vars
  <2>2. Sound(j)
    BY <1>3, SoundOf DEF vars
  <2>3. Moves(j) /\ Kept(j)
    BY <2>1, <2>2, UnwrittenMoves DEF Kept, Going, Sweeping
  <2>4. OnePerProcess(j)'
    BY <2>1, <2>2 DEF Sound, Current, OnePerProcess, Busy, TasksOf
  <2> QED BY <1>2, <2>1, <2>2, <2>3, <2>4, StepPreserves
<1> QED BY <1>1, <1>2, <1>3 DEF IInv, InFlightIsCurrent, RowStep

LEMMA SafeNext ==
  ASSUME LocalDeps, IInv, [Next]_vars
  PROVE  IInv'
<1>1. CASE UNCHANGED vars
  BY <1>1, UnchangedSafe
<1>2. CASE Next
  <2>1. Typed' /\ TypeOK' /\ Typed /\ Placed
    BY <1>2, TypedNext DEF IInv, Typed, Carried
  <2>2. Placed' /\ RowStep
    BY <1>2, <2>1, PlacedNext
  <2>3. ASSUME NEW j \in Job \ overtaken' PROVE Current(j)'
    <3>1. j \in Job \ overtaken
      BY <1>2, OvertakenGrows
    <3>2. Sound(j)
      BY <3>1, SoundOf
    <3>3. Moves(j) /\ Kept(j)
      BY <1>2, <2>1, <2>2, <3>2, NextMoves
    <3>4. OnePerProcess(j)'
      BY <1>2, <3>2, OnePerNext
    <3> QED BY <2>2, <3>2, <3>3, <3>4, StepPreserves
  <2> QED BY <2>1, <2>2, <2>3 DEF IInv, InFlightIsCurrent, RowStep
<1> QED BY <1>1, <1>2

\* What every attempt and the janitor rely on at their next write is still true
\* when they write: the read-then-blind-write transactions of the dispatcher and
\* of the janitor are safe, without any row being locked across an await, for
\* every job that was neither resumed nor overtaken by a lapsed lease.
THEOREM InFlightHolds ==
  ASSUME LocalDeps
  PROVE  Spec => []InFlightIsCurrent
<1>1. Init => IInv
  BY TypedInit, PlacedInit, SafeInit DEF IInv
<1>2. IInv /\ [Next]_vars => IInv'
  BY SafeNext
<1>3. IInv => InFlightIsCurrent
  BY DEF IInv
<1> QED BY <1>1, <1>2, <1>3, PTL DEF Spec

\* The lease gate gives every task a single owner: of any number of attempts on a
\* task, in any number of workers, one that has passed its ownership check holds
\* the row's lease until it lapses, whatever else happens; and of a job that was not
\* overtaken at most one attempt is there, and the row it overwrites is its own
\* (_owns_live_running_lease, dispatcher.py).
THEOREM SingleOwner ==
  ASSUME LocalDeps
  PROVE  Spec => []SettleIsExclusive
<1>1. Init => IInv
  BY TypedInit, PlacedInit, SafeInit DEF IInv
<1>2. IInv /\ [Next]_vars => IInv'
  BY SafeNext
<1>3. IInv => SettleIsExclusive
  <2> SUFFICES ASSUME IInv, NEW a \in Attempt, att[a].pc = "settle"
               PROVE  /\ ~att[a].late =>
                           \/ task[att[a].task] = "absent"
                           \/ owner[att[a].task] = WorkerOf[a] /\ lease[att[a].task] = "live"
                      /\ JobOf[att[a].task] \notin overtaken =>
                           /\ task[att[a].task] = "running"
                           /\ owner[att[a].task] = WorkerOf[a]
                           /\ SettlesAlone(a)
    BY DEF SettleIsExclusive
  <2> DEFINE t == att[a].task
  <2>1. SettleHeld(a)
    BY DEF IInv, Placed
  <2>2. t \in Task /\ JobOf[t] \in Job /\ t \in TasksOf(JobOf[t])
    BY TopologyAssumption DEF IInv, Typed, Carried, Carries, TasksOf
  <2>3. ASSUME JobOf[t] \notin overtaken
        PROVE  task[t] = "running" /\ owner[t] = WorkerOf[a] /\ SettlesAlone(a)
    <3>1. Sound(JobOf[t])
      BY <2>2, <2>3, SoundOf
    <3>2. ASSUME NEW b \in Attempt \ {a}, att[b].pc = "settle", att[b].task = t
          PROVE  FALSE
      <4>1. owner[t] = WorkerOf[a] /\ owner[t] = WorkerOf[b] /\ Busy(a, t) /\ Busy(b, t)
        BY <2>2, <3>1, <3>2, SettlingOwns DEF Busy, Beating
      <4> QED BY <2>2, <3>1, <3>2, <4>1 DEF Sound, Current, OnePerProcess
    <3> QED BY <2>2, <3>1, <3>2, SettlingOwns DEF SettlesAlone
  <2> QED BY <2>1, <2>3 DEF SettleHeld
<1> QED BY <1>1, <1>2, <1>3, PTL DEF Spec

\* No task of any DAG runs before all its dependencies are satisfied, unless its job
\* was resumed or overtaken (try_acquire_lease after the dependency check).
THEOREM DepsBeforeRun ==
  ASSUME LocalDeps
  PROVE  Spec => [](\A t \in Task : JobOf[t] \notin overtaken => DepsMet(t))
<1>1. InFlightIsCurrent => \A t \in Task : JobOf[t] \notin overtaken => DepsMet(t)
  BY TopologyAssumption DEF InFlightIsCurrent, Current, TasksOf
<1> QED BY <1>1, InFlightHolds, PTL

\* No running row is invisible to the janitor and no pending row is unacquirable,
\* but for those of jobs that were resumed or overtaken.
THEOREM LeaseShapeHolds ==
  ASSUME LocalDeps
  PROVE  Spec => [](\A t \in Task : JobOf[t] \notin overtaken => LeaseShape(t))
<1>1. InFlightIsCurrent => \A t \in Task : JobOf[t] \notin overtaken => LeaseShape(t)
  BY TopologyAssumption DEF InFlightIsCurrent, Current, TasksOf
<1> QED BY <1>1, InFlightHolds, PTL

\* No job is reported terminal before its last task is (finalize_job_if_ready), and
\* a job that was neither resumed nor overtaken stays so.
THEOREM VerdictIsLast ==
  ASSUME LocalDeps
  PROVE  Spec => []NoEarlyVerdict
<1>1. InFlightIsCurrent => NoEarlyVerdict
  BY DEF InFlightIsCurrent, Current, NoEarlyVerdict
<1> QED BY <1>1, InFlightHolds, PTL

\* No committed outcome is turned around by a late attempt, a stale cascade or a
\* reclaimed lease: success is final, and so is failure, until the job is resumed or
\* overtaken.
THEOREM OutcomesStand ==
  ASSUME LocalDeps
  PROVE  Spec => OutcomeIsFinal
<1> DEFINE Stands ==
      \A t \in Task : JobOf[t] \notin overtaken' =>
        /\ task[t] = "succeeded" => task'[t] \in {"succeeded", "absent"}
        /\ task[t] \in Doomed => task'[t] \in Doomed \cup {"absent"}
<1>1. Init => IInv
  BY TypedInit, PlacedInit, SafeInit DEF IInv
<1>2. IInv /\ [Next]_vars => IInv'
  BY SafeNext
<1>3. IInv /\ [Next]_vars => [Stands]_vars
  <2> SUFFICES ASSUME IInv, Next, NEW t \in Task, JobOf[t] \notin overtaken'
               PROVE  /\ task[t] = "succeeded" => task'[t] \in {"succeeded", "absent"}
                      /\ task[t] \in Doomed => task'[t] \in Doomed \cup {"absent"}
    OBVIOUS
  <2>1. TypeOK' /\ RowStep
    BY TypedNext, PlacedNext DEF IInv, Typed, Carried
  <2>2. JobOf[t] \in Job \ overtaken /\ t \in TasksOf(JobOf[t])
    BY OvertakenGrows, TopologyAssumption DEF TasksOf
  <2>3. TaskStep(t)
    BY <2>1, <2>2, SoundOf, NextMoves DEF Moves
  <2> QED BY <2>3, StatusFacts DEF TaskStep
<1> QED BY <1>1, <1>2, <1>3, PTL DEF Spec, OutcomeIsFinal

-----------------------------------------------------------------------------
(* Verdicts, for dependencies without cycles, of the jobs that were neither *)
(* resumed nor overtaken.                                                   *)

\* Some task of any set of tasks depends on none of them.
Acyclic == \A S \in SUBSET Task : S # {} => \E t \in S : Deps[t] \cap S = {}

\* The status v is what the statuses of the tasks of job j add up to.
AddsUp(j, v, status) ==
  /\ v = "failed" <=> \E t \in TasksOf(j) : status[t] = "failed"
  /\ v = "succeeded" <=> \A t \in TasksOf(j) : status[t] = "succeeded"

\* A task of the job failed by itself.  Unlike one that fell with a dependency, which
\* another cascade may mark again, it can never be overwritten.
Root(j, status) ==
  \E t \in TasksOf(j) : status[t] = "failed" /\ dependencies_ready(Deps[t], status)

\* A status that somebody is about to write, or has written, to task t.
Founded(t, out) == out = "failed" => job[JobOf[t]] = "absent" \/ Root(JobOf[t], task)

\* What an attempt is about to tell.
Tells(a) ==
  LET t == att[a].task
  IN  /\ att[a].pc = "doom" => Founded(t, att[a].out)
      /\ att[a].pc = "roll" =>
           task[t] = "absent" \/ (task[t] = att[a].out /\ dependencies_ready(Deps[t], task))
      /\ att[a].pc \in Rolling /\ att[a].out # "none" =>
           job[JobOf[t]] = "absent" \/ AddsUp(JobOf[t], att[a].out, task)
      /\ att[a].pc = "advance" =>
           \A u \in DOMAIN att[a].marks : Founded(u, att[a].marks[u])
SweepTells(j) ==
  janitor.pc = "commit" =>
    \A u \in DOMAIN janitor.marks \cap TasksOf(j) : Founded(u, janitor.marks[u])

VerdictInv(j) ==
  /\ \A t \in TasksOf(j) : Founded(t, task[t])
  /\ \A a \in Attempt : att[a].pc # "idle" /\ att[a].task \in TasksOf(j) => Tells(a)
  /\ SweepTells(j)
  /\ MatchesTasks(j)

\* How a step may change an outcome: only that of a task that fell with a dependency, to
\* "failed" only where some task has failed by itself, and to anything but a
\* cancellation only together with a dependency.
OutcomeStep(t) ==
  /\ task[t] \in Doomed /\ task'[t] \notin {task[t], "absent"} =>
       ~dependencies_ready(Deps[t], task)
  /\ task'[t] = "failed" => task[t] \in {"failed", "running"} \/ Root(JobOf[t], task)
  /\ task[t] \in Doomed \cup {"pending"} /\ task'[t] \in Doomed =>
       \/ task'[t] = task[t]
       \/ task[t] = "pending" /\ task'[t] \in CancelledDep
       \/ \E d \in Deps[t] : task'[d] \in Doomed

Outcomes(j) ==
  /\ \A t \in TasksOf(j) : OutcomeStep(t)
  /\ job'[j] \in JobTerminal /\ job'[j] # job[j] => AddsUp(j, job'[j], task')
Telling(j) ==
  /\ \A a \in Attempt : att'[a].pc # "idle" /\ att'[a].task \in TasksOf(j) =>
       att'[a] = att[a] \/ Tells(a)'
  /\ janitor' = janitor \/ SweepTells(j)'

LEMMA ReadyAfter ==
  ASSUME LocalDeps, NEW j \in Job, Sound(j), RowStep, Moves(j),
         NEW t \in TasksOf(j), dependencies_ready(Deps[t], task),
         task'[t] # "absent", job[j] # "new"
  PROVE  dependencies_ready(Deps[t], task')
BY ReadyStays DEF dependencies_ready

LEMMA RootStays ==
  ASSUME LocalDeps, NEW j \in Job, Sound(j), RowStep, Moves(j), Outcomes(j), Root(j, task)
  PROVE  job'[j] = "absent" \/ Root(j, task')
<1>1. PICK t \in TasksOf(j) : task[t] = "failed" /\ dependencies_ready(Deps[t], task)
  BY DEF Root
<1>2. task[t] \in Doomed /\ task[t] # "absent"
  BY <1>1 DEF Doomed, FailedDep
<1>3. job[j] # "new"
  BY <1>2, DeletedStays DEF Sound
<1>4. OutcomeStep(t)
  BY DEF Outcomes
<1>5. task'[t] \in {"failed", "absent"}
  BY <1>1, <1>2, <1>4 DEF OutcomeStep
<1>6. CASE task'[t] = "absent"
  BY <1>2, <1>6, DeletedStays DEF Sound
<1>7. CASE task'[t] # "absent"
  <2>1. dependencies_ready(Deps[t], task')
    BY <1>1, <1>3, <1>7, ReadyAfter
  <2> QED BY <1>5, <1>7, <2>1 DEF Root
<1> QED BY <1>6, <1>7

LEMMA FoundedStays ==
  ASSUME LocalDeps, NEW j \in Job, Sound(j), RowStep, Moves(j), Outcomes(j),
         NEW t \in TasksOf(j), NEW out, Founded(t, out)
  PROVE  out = "failed" => job'[j] = "absent" \/ Root(j, task')
<1>1. JobOf[t] = j
  BY DEF TasksOf
<1> QED BY <1>1, RootStays, DeletedStays DEF Founded, Sound

LEMMA FailuresFounded ==
  ASSUME LocalDeps, NEW j \in Job, Sound(j), RowStep, VerdictInv(j), Moves(j), Outcomes(j),
         NEW t \in TasksOf(j)
  PROVE  Founded(t, task[t])'
<1>0. JobOf[t] = j
  BY DEF TasksOf
<1> SUFFICES ASSUME task'[t] = "failed", job'[j] # "absent" PROVE Root(j, task')
  BY <1>0 DEF Founded, Root, dependencies_ready, TasksOf
<1>2. OutcomeStep(t) /\ Founded(t, task[t])
  BY DEF Outcomes, VerdictInv
<1>3. CASE task[t] = "running"
  <2>1. dependencies_ready(Deps[t], task)
    BY <1>3 DEF Sound, Current, DepsMet, dependencies_ready
  <2>2. job[j] # "new"
    BY <1>3, DeletedStays DEF Sound
  <2>3. dependencies_ready(Deps[t], task')
    BY <2>1, <2>2, ReadyAfter
  <2> QED BY <2>3 DEF Root
<1>4. CASE task[t] # "running"
  <2>1. job[j] # "absent"
    BY DeletedStays DEF Sound
  <2>2. Root(j, task)
    BY <1>0, <1>2, <1>4, <2>1 DEF OutcomeStep, Founded
  <2> QED BY <2>2, RootStays
<1> QED BY <1>3, <1>4

\* What the tasks of a job add up to does not change once they are all terminal.
LEMMA AddsUpStays ==
  ASSUME LocalDeps, NEW j \in Job, Sound(j), RowStep, VerdictInv(j), Moves(j), Outcomes(j),
         NEW v, AddsUp(j, v, task),
         \A t \in TasksOf(j) : task[t] \in Terminal \cup {"absent"},
         job[j] # "new"
  PROVE  job'[j] = "absent" \/ AddsUp(j, v, task')
<1> SUFFICES ASSUME job'[j] # "absent" PROVE AddsUp(j, v, task')
  OBVIOUS
<1>0. \A t \in TasksOf(j) : t \in Task /\ JobOf[t] = j
  BY DEF TasksOf
<1>1. job[j] # "absent" /\ job'[j] # "new"
  BY DEF RowStep, Lasts
<1>2. ASSUME NEW t \in TasksOf(j)
      PROVE  /\ task[t] \in Terminal
             /\ task[t] = "succeeded" <=> task'[t] = "succeeded"
  <2>1. task[t] # "absent" /\ task'[t] # "absent"
    BY <1>1, DeletedStays DEF Sound
  <2>2. task[t] \in Terminal /\ TaskStep(t)
    BY <2>1 DEF Moves
  <2> QED BY <2>1, <2>2, StatusFacts DEF TaskStep
<1>3. (\E t \in TasksOf(j) : task[t] = "failed") => \E t \in TasksOf(j) : task'[t] = "failed"
  <2> SUFFICES ASSUME NEW t \in TasksOf(j), task[t] = "failed"
               PROVE  \E u \in TasksOf(j) : task'[u] = "failed"
    OBVIOUS
  <2>1. Founded(t, task[t])
    BY DEF VerdictInv
  <2>2. Root(j, task)
    BY <1>0, <1>1, <2>1 DEF Founded
  <2>3. Root(j, task')
    BY <2>2, RootStays
  <2> QED BY <2>3 DEF Root
<1>4. (\E t \in TasksOf(j) : task'[t] = "failed") => \E t \in TasksOf(j) : task[t] = "failed"
  <2> SUFFICES ASSUME NEW t \in TasksOf(j), task'[t] = "failed"
               PROVE  \E u \in TasksOf(j) : task[u] = "failed"
    OBVIOUS
  <2>1. OutcomeStep(t) /\ JobOf[t] = j
    BY <1>0 DEF Outcomes
  <2>2. task[t] # "running"
    BY <1>2, StatusFacts
  <2> QED BY <2>1, <2>2 DEF OutcomeStep, Root
<1> QED BY <1>2, <1>3, <1>4 DEF AddsUp

LEMMA MatchesStays ==
  ASSUME LocalDeps, NEW j \in Job, Sound(j), RowStep, VerdictInv(j), Moves(j), Outcomes(j)
  PROVE  MatchesTasks(j)'
<1>1. VerdictLast(j)'
  BY VerdictLastStays
<1>2. ASSUME job'[j] \in JobTerminal PROVE AddsUp(j, job'[j], task')
  <2>1. CASE job'[j] # job[j]
    BY <1>2, <2>1 DEF Outcomes
  <2>2. CASE job'[j] = job[j]
    <3>1. AddsUp(j, job[j], task) /\ \A t \in TasksOf(j) : task[t] \in Terminal
      BY <1>2, <2>2 DEF VerdictInv, MatchesTasks, AddsUp
    <3>2. job[j] # "new" /\ job'[j] # "absent"
      BY <1>2, <2>2, StatusFacts
    <3> QED BY <2>2, <3>1, <3>2, AddsUpStays
  <2> QED BY <2>1, <2>2
<1> QED BY <1>1, <1>2 DEF MatchesTasks, VerdictLast, AddsUp, TasksOf

LEMMA TellsStays ==
  ASSUME LocalDeps, NEW j \in Job, Sound(j), RowStep, VerdictInv(j), Moves(j), Outcomes(j),
         NEW a \in Attempt, att'[a] = att[a], att[a].pc # "idle", att[a].task \in TasksOf(j)
  PROVE  Tells(a)'
<1> DEFINE t == att[a].task
<1>0. /\ Tells(a) /\ AttemptOK(a) /\ att[a] \in AttemptState /\ Placed
      /\ t \in Task /\ JobOf[t] = j /\ job[j] # "new"
      /\ DOMAIN att[a].marks \subseteq TasksOf(j)
  BY TasksFacts DEF VerdictInv, Sound, Current, Typed, Carried, Carries, TypeOK, Placed
<1>1. att[a].pc = "doom" => (att[a].out = "failed" => job'[j] = "absent" \/ Root(j, task'))
  BY <1>0, FoundedStays DEF Tells
<1>2. ASSUME att[a].pc = "roll", task'[t] # "absent"
      PROVE  task'[t] = att[a].out /\ dependencies_ready(Deps[t], task')
  <2>1. task[t] # "absent"
    BY <1>0, <1>2, DeletedStays
  <2>2. task[t] = att[a].out /\ dependencies_ready(Deps[t], task) /\ task[t] \in Terminal
    BY <1>0, <1>2, <2>1 DEF Tells, AttemptOK
  <2>3. TaskStep(t) /\ OutcomeStep(t)
    BY DEF Moves, Outcomes
  <2>4. task'[t] = task[t]
    BY <1>2, <2>2, <2>3, StatusFacts DEF TaskStep, OutcomeStep
  <2> QED BY <1>0, <1>2, <2>2, <2>4, ReadyAfter
<1>3. ASSUME att[a].pc \in Rolling, att[a].out # "none"
      PROVE  job'[j] = "absent" \/ AddsUp(j, att[a].out, task')
  <2>1. job[j] = "absent" \/ AddsUp(j, att[a].out, task)
    BY <1>0, <1>3 DEF Tells
  <2>2. \A u \in TasksOf(j) : task[u] \in Terminal \cup {"absent"}
    BY <1>0, <1>3 DEF AttemptOK
  <2> QED BY <1>0, <2>1, <2>2, AddsUpStays, DeletedStays
<1>4. ASSUME att[a].pc = "advance", NEW u \in DOMAIN att[a].marks
      PROVE  JobOf[u] = j /\ (att[a].marks[u] = "failed" => job'[j] = "absent" \/ Root(j, task'))
  <2>1. u \in TasksOf(j) /\ JobOf[u] = j
    BY <1>0, <1>4 DEF TasksOf
  <2> QED BY <1>0, <1>4, <2>1, FoundedStays DEF Tells
<1> QED BY <1>0, <1>1, <1>2, <1>3, <1>4
        DEF Tells, Founded, Root, AddsUp, dependencies_ready, TasksOf

LEMMA VerdictPreserved ==
  ASSUME LocalDeps, NEW j \in Job, Sound(j), RowStep, VerdictInv(j), Moves(j), Outcomes(j),
         Telling(j)
  PROVE  VerdictInv(j)'
<1>1. \A t \in TasksOf(j) : Founded(t, task[t])'
  BY FailuresFounded
<1>2. \A a \in Attempt : att'[a].pc # "idle" /\ att'[a].task \in TasksOf(j) => Tells(a)'
  BY TellsStays DEF Telling
<1>3. SweepTells(j)'
  <2> SUFFICES ASSUME janitor' = janitor, janitor.pc = "commit",
                      NEW u \in DOMAIN janitor.marks \cap TasksOf(j)
               PROVE  JobOf[u] = j /\ (janitor.marks[u] = "failed" =>
                                         job'[j] = "absent" \/ Root(j, task'))
    BY DEF Telling, SweepTells, Founded, Root, dependencies_ready, TasksOf
  <2>1. Founded(u, janitor.marks[u]) /\ JobOf[u] = j
    BY DEF VerdictInv, SweepTells, TasksOf
  <2> QED BY <2>1, FoundedStays
<1>4. TasksOf(j)' = TasksOf(j)
  BY DEF TasksOf
<1> QED BY <1>1, <1>2, <1>3, <1>4, MatchesStays DEF VerdictInv

\* The failures that a cascade spreads all come from a task that failed by itself.
LEMMA CascadeFounded ==
  ASSUME LocalDeps, Acyclic, NEW j \in Job, Sound(j), VerdictInv(j),
         NEW scope \in SUBSET Task, TasksOf(j) \subseteq scope,
         NEW status, NEW m \in Cascades(scope, status),
         \A t \in TasksOf(j) : status[t] = task[t]
  PROVE  \A u \in DOMAIN m \cap TasksOf(j) : Founded(u, m[u])
<1> DEFINE S == {u \in DOMAIN m \cap TasksOf(j) : m[u] = "failed"}
<1>1. m \in Marks /\ DOMAIN m \subseteq Task
      /\ \A t \in DOMAIN m : status[t] = "pending" /\ m[t] \in Doomed
  BY CascadesType, MarksFacts
<1>2. SUFFICES ASSUME S # {}, ~Root(j, task) PROVE FALSE
  BY <1>2 DEF Founded, TasksOf
<1>3. PICK u \in S : Deps[u] \cap S = {}
  BY <1>1, <1>2 DEF Acyclic
<1>4. u \in DOMAIN m /\ u \in TasksOf(j) /\ u \in Task /\ m[u] = "failed" /\ task[u] = "pending"
  BY <1>1
<1>5. PICK X \in SUBSET (DOMAIN m \ {u}) :
        m[u] = dependency_state(Deps[u], [d \in Task |-> IF d \in X THEN m[d] ELSE status[d]])
  BY <1>4 DEF Cascades
<1> DEFINE view == [d \in Task |-> IF d \in X THEN m[d] ELSE status[d]]
<1>6. \E d \in Deps[u] : view[d] \in {"failed", "absent"}
  <2>1. dependency_state(Deps[u], view) = "failed"
    BY <1>4, <1>5
  <2> HIDE DEF view
  <2> QED BY <2>1 DEF dependency_state, FailedDep
<1>7. PICK d \in Deps[u] : view[d] \in {"failed", "absent"}
  BY <1>6
<1>8. d \in Task /\ JobOf[d] = j /\ d \in TasksOf(j)
  BY <1>4, TasksFacts
<1>9. job[j] \notin {"new", "absent"} /\ task[d] # "absent"
  BY <1>4, <1>8 DEF Sound, Placed, RowsFollowJob, TasksOf
<1>10. CASE d \in X
  <2>1. m[d] \in Doomed /\ m[d] = view[d] /\ d \in DOMAIN m
    BY <1>1, <1>8, <1>10
  <2>2. m[d] = "failed"
    BY <1>7, <2>1, StatusFacts
  <2> QED BY <1>3, <1>7, <1>8, <2>1, <2>2
<1>11. CASE d \notin X
  <2>1. task[d] = "failed"
    BY <1>7, <1>8, <1>9, <1>11
  <2>2. Founded(d, task[d])
    BY <1>8 DEF VerdictInv
  <2> QED BY <1>2, <1>8, <1>9, <2>1, <2>2 DEF Founded
<1> QED BY <1>10, <1>11

\* Committing a set of founded and condemned marks changes no outcome that counts.
LEMMA MarksAreOutcomes ==
  ASSUME LocalDeps, NEW j \in Job, Sound(j), NEW m \in Marks,
         \A u \in DOMAIN m \cap TasksOf(j) : Condemned(u, m) /\ Founded(u, m[u]),
         \A t \in DOMAIN m : task[t] # "absent", task' = Override(task, m)
  PROVE  \A t \in TasksOf(j) : OutcomeStep(t)
<1>0. \A t \in Task \ DOMAIN m : task'[t] = task[t]
  BY OverrideFacts
<1>1. ASSUME NEW t \in DOMAIN m \cap TasksOf(j) PROVE OutcomeStep(t)
  <2>1. t \in Task /\ JobOf[t] = j /\ m[t] \in Doomed /\ task'[t] = m[t]
    BY MarksFacts, OverrideFacts DEF TasksOf
  <2>2. job[j] # "absent"
    BY <2>1 DEF Sound, Placed, RowsFollowJob
  <2>3. PICK d \in Deps[t] : task[d] \in Doomed \/ d \in DOMAIN m
    BY <2>1, <2>2 DEF Condemned
  <2>4. d \in Task /\ JobOf[d] = j /\ d \in TasksOf(j)
    BY TasksFacts
  <2>5. task[d] \in Doomed \cup {"pending"}
    BY <2>2, <2>3, <2>4 DEF Condemned
  <2>6. ~dependencies_ready(Deps[t], task)
    BY <2>5, StatusFacts DEF dependencies_ready, ReadyDep
  <2>7. task'[d] \in Doomed
    BY <1>0, <2>3, <2>4, MarksFacts, OverrideFacts
  <2>8. task'[t] = "failed" => Root(JobOf[t], task)
    BY <2>1, <2>2 DEF Founded
  <2> QED BY <2>6, <2>7, <2>8 DEF OutcomeStep
<1>2. ASSUME NEW t \in TasksOf(j) \ DOMAIN m PROVE OutcomeStep(t)
  BY <1>0 DEF OutcomeStep, TasksOf
<1> QED BY <1>1, <1>2

\* The verdict on terminal tasks is what they add up to.
LEMMA VerdictAddsUp ==
  ASSUME NEW j \in Job, NEW status, Decided(j, status),
         \A t \in TasksOf(j) : status[t] \in Terminal
  PROVE  AddsUp(j, Verdict(j, status), status)
<1>1. \A t \in TasksOf(j) : status[t] \in {"failed", "succeeded"} \cup CancelledDep
  BY DEF Terminal, Doomed, FailedDep
<1>2. "failed" \notin CancelledDep /\ "succeeded" \notin CancelledDep
  BY DEF CancelledDep
<1> QED BY <1>1, <1>2 DEF AddsUp, Verdict

\* A roll-up of the rows as they are, of a job that is there.
LEMMA RollUpAddsUp ==
  ASSUME Typed, RowsFollowJob, NEW j \in Job, Decided(j, task), job[j] # "absent"
  PROVE  AddsUp(j, Verdict(j, task), task)
<1>1. \A t \in TasksOf(j) : task[t] \notin {"pending", "running"} /\ task[t] \in TaskStatus
  BY DecidedFacts DEF Typed, Carried, TypeOK, TasksOf
<1>2. \E t \in TasksOf(j) : task[t] # "absent"
  BY DecidedFacts
<1>3. \A t \in TasksOf(j) : task[t] # "absent"
  BY <1>2 DEF RowsFollowJob, TasksOf
<1> QED BY <1>1, <1>3, StatusFacts, VerdictAddsUp

\* So a roll-up in the transaction that wrote the rows tells the truth.
LEMMA RollUpTells ==
  ASSUME RowStep, TypeOK', NEW j \in Job, job'[j] = Finalized(j, task'),
         job'[j] \in JobTerminal, job'[j] # job[j]
  PROVE  AddsUp(j, job'[j], task')
<1>1. Decided(j, task') /\ job'[j] = Verdict(j, task')
  BY DEF Finalized
<1>2. \A t \in TasksOf(j) : task'[t] \notin {"pending", "running"}
  BY <1>1, DecidedFacts
<1>3. \A t \in TasksOf(j) : task'[t] \in Terminal
  BY <1>2, StatusFacts DEF RowStep, RowsFollowJob, TasksOf, TypeOK
<1> QED BY <1>1, <1>3, VerdictAddsUp

LEMMA QuietOutcomes ==
  ASSUME NEW j \in Job, Untouched(j)
  PROVE  Outcomes(j)
BY DEF Untouched, RowKept, Outcomes, OutcomeStep

LEMMA UnwrittenOutcomes ==
  ASSUME NEW j \in Job, UNCHANGED <<task, job>>
  PROVE  Outcomes(j)
BY DEF Outcomes, OutcomeStep

\* An attempt with nothing to tell.
LEMMA SilentTells ==
  ASSUME NEW a \in Attempt, att'[a].pc \notin {"doom", "roll", "advance"} \cup Rolling
  PROVE  Tells(a)'
BY DEF Tells

\* The attempt is the only process that moves, with nothing to tell or the truth.
LEMMA TellsMove ==
  ASSUME NEW j \in Job, NEW a \in Attempt, janitor' = janitor, Tells(a)',
         \A b \in Attempt \ {a} : att'[b] = att[b]
  PROVE  Telling(j)
BY DEF Telling

LEMMA OutcomesElsewhere ==
  ASSUME NEW j \in Job, Sound(j), NEW a \in Attempt, att[a].pc # "idle",
         JobOf[att[a].task] # j, Step(a) \/ Heartbeat(a) \/ Raise(a)
  PROVE  Outcomes(j) /\ Telling(j)
<1>1. Untouched(j) /\ janitor' = janitor
  BY ElsewhereUntouched DEF Sound
<1>2. OwnStep(a)
  BY AttemptSteps DEF Sound
<1>3. ASSUME NEW b \in Attempt, att'[b].pc # "idle", att'[b].task \in TasksOf(j)
      PROVE  att'[b] = att[b]
  BY <1>2, <1>3 DEF OwnStep, AttStep, TasksOf
<1> QED BY <1>1, <1>3, QuietOutcomes DEF Telling

LEMMA OutcomesOfPickup ==
  ASSUME LocalDeps, NEW j \in Job, Sound(j), VerdictInv(j), NEW a \in Attempt, NEW t \in Task,
         Pickup(a, t)
  PROVE  Outcomes(j) /\ Telling(j)
<1>1. UNCHANGED <<task, job, janitor>>
  BY DEF Pickup, taskRow
<1>2. ASSUME NEW b \in Attempt, att'[b].pc # "idle", att'[b].task \in TasksOf(j), att'[b] # att[b]
      PROVE  Tells(b)'
  <2>1. /\ b = a /\ att'[a].task = t /\ t \in TasksOf(j) /\ task[t] = "pending"
        /\ att'[a].pc \in {"gate", "doom"}
    BY <1>2, PickupStep DEF Sound
  <2>2. CASE att'[a].pc = "gate"
    BY <2>1, <2>2, SilentTells DEF Rolling
  <2>3. CASE att'[a].pc = "doom"
    <3>1. att'[a].out = dependency_state(Deps[t], task)
      <4>1. att \in [Attempt -> AttemptState]
        BY DEF Sound, Typed, Carried, TypeOK
      <4>2. CASE UNCHANGED att
        BY <1>2, <2>1, <4>2
      <4>3. CASE GoTo(a, "gate", t, "none")
        BY <2>3, <4>1, <4>3, GoToFacts
      <4>4. CASE /\ dependency_state(Deps[t], task) \notin {"ready", "blocked"}
                 /\ GoTo(a, "doom", t, dependency_state(Deps[t], task))
        <5>1. dependency_state(Deps[t], task) \in Terminal
          BY <4>4, DependencyStateType DEF Terminal
        <5> QED BY <4>1, <4>4, <5>1, GoToFacts
      <4> QED BY <4>2, <4>3, <4>4 DEF Pickup
    <3>2. ASSUME att'[a].out = "failed" PROVE Root(j, task)
      <4>1. PICK d \in Deps[t] : task[d] \in {"failed", "absent"}
        BY <3>1, <3>2 DEF dependency_state, FailedDep
      <4>2. d \in Task /\ JobOf[d] = j /\ d \in TasksOf(j)
        BY <2>1, TasksFacts
      <4>3. job[j] # "absent" /\ task[d] # "absent"
        BY <2>1, <4>2, DeletedStays, StatusFacts DEF Sound, Placed, RowsFollowJob, TasksOf
      <4>4. Founded(d, task[d])
        BY <4>2 DEF VerdictInv
      <4> QED BY <4>1, <4>2, <4>3, <4>4 DEF Founded
    <3>3. JobOf[t] = j
      BY <2>1 DEF TasksOf
    <3> QED BY <1>1, <2>1, <2>3, <3>2, <3>3 DEF Tells, Founded, Root, dependencies_ready, TasksOf, Rolling
  <2> QED BY <2>1, <2>2, <2>3
<1> QED BY <1>1, <1>2, UnwrittenOutcomes DEF Telling

\* The steps of an attempt up to its terminal commit.
LEMMA OutcomesOfRun ==
  ASSUME LocalDeps, NEW j \in Job, Sound(j), VerdictInv(j), RowStep, Moves(j), NEW a \in Attempt,
         Doom(a) \/ Acquire(a) \/ HandlerReturns(a) \/ HandlerRaises(a) \/ Settle(a)
  PROVE  Outcomes(j) /\ Telling(j)
<1> DEFINE t == att[a].task
<1>1. att[a].pc # "idle"
  BY DEF Doom, Acquire, HandlerReturns, HandlerRaises, Settle
<1>2. CASE JobOf[t] # j
  BY <1>1, <1>2, OutcomesElsewhere DEF Step
<1> SUFFICES ASSUME JobOf[t] = j PROVE Outcomes(j) /\ Telling(j)
  BY <1>2
<1>0. /\ TypeOK /\ Typed /\ att \in [Attempt -> AttemptState]
      /\ t \in Task /\ t \in TasksOf(j) /\ job[j] # "new"
      /\ RowsFollowJob /\ Placed /\ AttemptOK(a) /\ Tells(a)
      /\ att[a].loaded \in JobStatus \cup {"none"} /\ job[j] \in JobStatus
  BY <1>1 DEF Sound, Typed, Carried, Carries, TypeOK, Placed, Current, TasksOf, VerdictInv,
              AttemptState
\* One row moves, to an outcome that its dependencies do not contradict.
<1>3. ASSUME NEW out, task' = [task EXCEPT ![t] = out],
             task[t] \in {"pending", "running"}, dependencies_ready(Deps[t], task),
             out # "absent", task[t] = "running" \/ out \in CancelledDep \cup {"running"},
             UNCHANGED job
      PROVE  Outcomes(j) /\ dependencies_ready(Deps[t], task') /\ task'[t] = out
  <2>1. task'[t] = out /\ \A u \in Task \ {t} : task'[u] = task[u]
    BY <1>0, <1>3 DEF TypeOK
  <2>2. "failed" \notin CancelledDep \cup {"running"} /\ "running" \notin Doomed
    BY DEF CancelledDep, Doomed, FailedDep
  <2>3. OutcomeStep(t)
    BY <1>3, <2>1, <2>2, StatusFacts DEF OutcomeStep
  <2>4. \A u \in TasksOf(j) : OutcomeStep(u)
    BY <2>1, <2>3 DEF OutcomeStep, TasksOf
  <2>5. dependencies_ready(Deps[t], task')
    BY <1>0, <1>3, <2>1, ReadyAfter
  <2> QED BY <1>3, <2>1, <2>4, <2>5 DEF Outcomes
<1>4. ASSUME att'[a].pc \in {"idle", "mark", "run", "settle"},
             \A b \in Attempt \ {a} : att'[b] = att[b], UNCHANGED janitor
      PROVE  Telling(j)
  <2>1. Tells(a)'
    BY <1>4, SilentTells DEF Rolling
  <2> QED BY <1>4, <2>1, TellsMove
<1>5. CASE Doom(a)
  <2>1. UNCHANGED <<job, janitor>> /\ att[a].pc = "doom"
    BY <1>5 DEF Doom
  <2>2. att'[a].pc \in {"idle", "mark"} /\ \A b \in Attempt \ {a} : att'[b] = att[b]
    BY <1>0, <1>5, ReturnFacts, GoToFacts DEF Doom
  <2>3. Telling(j)
    BY <1>4, <2>1, <2>2
  <2>4. CASE UNCHANGED task
    BY <2>1, <2>3, <2>4, UnwrittenOutcomes
  <2>5. CASE task[t] # "absent" /\ task' = [task EXCEPT ![t] = att[a].out]
    <3>1. job[j] # "absent" /\ att[a].out \in Doomed /\ DOMAIN NoMarks = {}
      BY <1>0, <2>1, <2>5, NoMarksType DEF AttemptOK, RowsFollowJob
    <3>2. PICK d \in Deps[t] : task[d] \in Doomed
      BY <1>0, <2>1, <3>1 DEF AttemptOK, Condemned
    <3>3. d \in Task
      BY <1>0, TasksFacts
    <3>4. task'[t] = att[a].out /\ \A u \in Task \ {t} : task'[u] = task[u]
      BY <1>0, <2>5 DEF TypeOK
    <3>5. ~dependencies_ready(Deps[t], task) /\ task'[d] \in Doomed
      BY <3>1, <3>2, <3>3, <3>4, StatusFacts DEF dependencies_ready, ReadyDep
    <3>6. att[a].out = "failed" => Root(j, task)
      BY <1>0, <2>1, <3>1 DEF Tells, Founded
    <3>7. OutcomeStep(t)
      BY <3>2, <3>4, <3>5, <3>6 DEF OutcomeStep
    <3>8. \A u \in TasksOf(j) : OutcomeStep(u)
      BY <3>4, <3>7 DEF OutcomeStep, TasksOf
    <3> QED BY <2>1, <2>3, <3>8 DEF Outcomes
  <2> QED BY <1>5, <2>4, <2>5 DEF Doom
<1>6. CASE Acquire(a)
  <2>1. UNCHANGED <<job, janitor>> /\ att[a].pc = "gate"
    BY <1>6 DEF Acquire
  <2>2. CASE Return(a) /\ UNCHANGED taskRow
    <3>1. att'[a].pc = "idle" /\ \A b \in Attempt \ {a} : att'[b] = att[b]
      BY <1>0, <2>2, ReturnFacts
    <3> QED BY <1>4, <2>1, <2>2, <3>1, UnwrittenOutcomes DEF taskRow
  <2>3. ASSUME Acquirable(t)
        PROVE  task[t] = "pending" /\ dependencies_ready(Deps[t], task)
    BY <1>0, <2>1, <2>3, StatusFacts DEF Acquirable, AttemptOK
  <2>4. CASE /\ Acquirable(t) /\ task' = [task EXCEPT ![t] = "running"]
             /\ GoTo(a, "run", t, "none")
    <3>1. att'[a].pc = "run" /\ \A b \in Attempt \ {a} : att'[b] = att[b]
      BY <1>0, <2>4, GoToFacts
    <3>2. Outcomes(j)
      BY <1>3, <2>1, <2>3, <2>4
    <3> QED BY <1>4, <2>1, <3>1, <3>2
  <2>5. ASSUME NEW out \in {"cancelled_dirty", "cancelled"}, Acquirable(t),
               task' = [task EXCEPT ![t] = out], Hold(a, "roll", t, out, job[j])
        PROVE  Outcomes(j) /\ Telling(j)
    <3>1. out \in CancelledDep /\ out \in Terminal /\ out # "absent"
      BY <2>5 DEF CancelledDep, Terminal, Doomed
    <3>2. Outcomes(j) /\ dependencies_ready(Deps[t], task') /\ task'[t] = out
      BY <1>3, <2>1, <2>3, <2>5, <3>1
    <3>3. /\ att'[a].pc = "roll" /\ att'[a].task = t /\ att'[a].out = out
          /\ \A b \in Attempt \ {a} : att'[b] = att[b]
      BY <1>0, <2>5, <3>1, HoldFacts
    <3>4. Tells(a)'
      BY <3>2, <3>3 DEF Tells, dependencies_ready, Rolling
    <3> QED BY <2>1, <3>2, <3>3, <3>4, TellsMove
  <2> QED BY <1>6, <2>2, <2>4, <2>5 DEF Acquire
<1>7. CASE HandlerReturns(a) \/ HandlerRaises(a)
  <2>1. UNCHANGED <<task, job, janitor>> /\ att[a].pc \in {"run", "except"}
    BY <1>7 DEF HandlerReturns, HandlerRaises, taskRow
  <2>2. "failed" \in Terminal /\ "cancelled_dirty" \in Terminal /\ "succeeded" \in Terminal
    BY DEF Terminal, Doomed, CancelledDep, FailedDep
  <2>3. att'[a].pc \in {"idle", "settle"} /\ \A b \in Attempt \ {a} : att'[b] = att[b]
    <3>1. CASE Return(a)
      BY <1>0, <3>1, ReturnFacts
    <3>2. CASE \/ GoTo(a, "settle", t, "failed")
               \/ Hold(a, "settle", t, "cancelled_dirty", job[j])
               \/ Hold(a, "settle", t, "succeeded", job[j])
      BY <1>0, <2>2, <3>2, GoToFacts, HoldFacts
    <3> QED BY <1>7, <3>1, <3>2 DEF HandlerReturns, HandlerRaises
  <2> QED BY <1>4, <2>1, <2>3, UnwrittenOutcomes
<1>8. CASE Settle(a)
  <2>1. UNCHANGED <<job, janitor>> /\ att[a].pc = "settle" /\ att[a].out \in Terminal
    BY <1>0, <1>8 DEF Settle, AttemptOK
  <2>2. CASE Return(a) /\ UNCHANGED task
    <3>1. att'[a].pc = "idle" /\ \A b \in Attempt \ {a} : att'[b] = att[b]
      BY <1>0, <2>2, ReturnFacts
    <3> QED BY <1>4, <2>1, <2>2, <3>1, UnwrittenOutcomes
  <2>3. CASE /\ task' = [task EXCEPT ![t] = att[a].out]
             /\ Hold(a, "roll", t, att[a].out, att[a].loaded)
    <3>1. task[t] = "running" /\ DepsMet(t)
      BY <1>0, <2>1 DEF AttemptOK, Owns, Sound, Current
    <3>2. dependencies_ready(Deps[t], task) /\ att[a].out # "absent"
      BY <2>1, <3>1, StatusFacts DEF DepsMet, dependencies_ready
    <3>3. Outcomes(j) /\ dependencies_ready(Deps[t], task') /\ task'[t] = att[a].out
      BY <1>3, <2>1, <2>3, <3>1, <3>2
    <3>4. /\ att'[a].pc = "roll" /\ att'[a].task = t /\ att'[a].out = att[a].out
          /\ \A b \in Attempt \ {a} : att'[b] = att[b]
      BY <1>0, <2>1, <2>3, HoldFacts
    <3>5. Tells(a)'
      BY <3>3, <3>4 DEF Tells, dependencies_ready, Rolling
    <3> QED BY <2>1, <3>3, <3>4, <3>5, TellsMove
  <2> QED BY <1>8, <2>2, <2>3 DEF Settle
<1> QED BY <1>5, <1>6, <1>7, <1>8

\* The steps of an attempt after its terminal commit, its heartbeat and its errors.
LEMMA OutcomesAfter ==
  ASSUME LocalDeps, Acyclic, NEW j \in Job, Sound(j), VerdictInv(j), RowStep, TypeOK',
         NEW a \in Attempt,
         \/ RollUp(a) \/ RollUpJob(a) \/ RollUpCommit(a)
         \/ AdvanceRead(a) \/ AdvanceFlush(a) \/ AdvanceRollUp(a) \/ AdvanceJob(a)
         \/ AdvanceCommit(a) \/ Heartbeat(a) \/ Raise(a)
  PROVE  Outcomes(j) /\ Telling(j)
<1> DEFINE t == att[a].task
<1>1. att[a].pc # "idle"
  BY DEF RollUp, RollUpJob, RollUpCommit, AdvanceRead, AdvanceFlush, AdvanceRollUp, AdvanceJob,
         AdvanceCommit, Heartbeat, Beating, Raise
<1>2. CASE JobOf[t] # j
  BY <1>1, <1>2, OutcomesElsewhere DEF Step
<1> SUFFICES ASSUME JobOf[t] = j PROVE Outcomes(j) /\ Telling(j)
  BY <1>2
<1>0. /\ TypeOK /\ Typed /\ att \in [Attempt -> AttemptState]
      /\ t \in Task /\ t \in TasksOf(j) /\ job[j] # "new"
      /\ RowsFollowJob /\ Placed /\ AttemptOK(a) /\ Carries(a) /\ Tells(a)
  BY <1>1 DEF Sound, Typed, Carried, Carries, TypeOK, Placed, Current, TasksOf, VerdictInv
<1>3. ASSUME att'[a].pc \in {"idle", "mark", "except"},
             \A b \in Attempt \ {a} : att'[b] = att[b], UNCHANGED janitor
      PROVE  Telling(j)
  <2>1. Tells(a)'
    BY <1>3, SilentTells DEF Rolling
  <2> QED BY <1>3, <2>1, TellsMove
\* A verdict that the tasks add up to is carried on.
<1>4. ASSUME UNCHANGED <<task, job, janitor>>, NEW pc \in Rolling, NEW out,
             att'[a].pc = pc, att'[a].task = t, att'[a].out = out,
             \A b \in Attempt \ {a} : att'[b] = att[b],
             out = "none" \/ job[j] = "absent" \/ AddsUp(j, out, task)
      PROVE  Outcomes(j) /\ Telling(j)
  <2>1. Tells(a)'
    BY <1>4 DEF Tells, AddsUp, Rolling, TasksOf
  <2> QED BY <1>4, <2>1, TellsMove, UnwrittenOutcomes
<1>5. CASE RollUp(a)
  <2>1. UNCHANGED <<task, job, janitor>> /\ att[a].pc = "roll"
    BY <1>5 DEF RollUp, Reads, taskRow
  <2>2. CASE GoTo(a, "mark", t, "none")
    <3>1. att'[a].pc = "mark" /\ \A b \in Attempt \ {a} : att'[b] = att[b]
      BY <1>0, <2>2, GoToFacts
    <3> QED BY <1>3, <2>1, <3>1, UnwrittenOutcomes
  <2> DEFINE rows == [task EXCEPT ![t] = IF @ = "absent" THEN @ ELSE att[a].out]
  <2>3. CASE Decided(j, rows) /\ \E pc \in {"rolljob", "rollcommit"} : GoTo(a, pc, t, Verdict(j, rows))
    <3>1. rows = task
      BY <1>0, <2>1 DEF Tells, TypeOK
    <3>2. PICK pc \in {"rolljob", "rollcommit"} : Decided(j, task) /\ GoTo(a, pc, t, Verdict(j, task))
      BY <2>3, <3>1
    <3>3. Verdict(j, task) \in Terminal
      BY <3>2, DecidedFacts
    <3>4. /\ att'[a].pc = pc /\ att'[a].task = t /\ att'[a].out = Verdict(j, task)
          /\ \A b \in Attempt \ {a} : att'[b] = att[b]
      BY <1>0, <3>2, <3>3, GoToFacts
    <3>5. job[j] = "absent" \/ AddsUp(j, Verdict(j, task), task)
      BY <1>0, <3>2, RollUpAddsUp
    <3> QED BY <1>4, <2>1, <3>4, <3>5 DEF Rolling
  <2> QED BY <1>5, <2>2, <2>3 DEF RollUp
<1>6. CASE RollUpJob(a)
  <2>1. UNCHANGED <<task, job, janitor>> /\ att[a].pc = "rolljob"
    BY <1>6 DEF RollUpJob, Reads, taskRow
  <2>2. CASE GoTo(a, "mark", t, "none")
    <3>1. att'[a].pc = "mark" /\ \A b \in Attempt \ {a} : att'[b] = att[b]
      BY <1>0, <2>2, GoToFacts
    <3> QED BY <1>3, <2>1, <3>1, UnwrittenOutcomes
  <2>3. CASE GoTo(a, "rollcommit", t, att[a].out)
    <3>1. att[a].out # "none" /\ att[a].out \in Terminal \cup {"none"}
      BY <1>0, <2>1, StatusFacts DEF Carries, AttemptState
    <3>2. /\ att'[a].pc = "rollcommit" /\ att'[a].task = t /\ att'[a].out = att[a].out
          /\ \A b \in Attempt \ {a} : att'[b] = att[b]
      BY <1>0, <2>3, <3>1, GoToFacts
    <3>3. job[j] = "absent" \/ AddsUp(j, att[a].out, task)
      BY <1>0, <2>1, <3>1 DEF Tells, Rolling
    <3> QED BY <1>4, <2>1, <3>2, <3>3 DEF Rolling
  <2> QED BY <1>6, <2>2, <2>3 DEF RollUpJob
<1>7. CASE RollUpCommit(a) \/ AdvanceCommit(a)
  <2>1. UNCHANGED <<task, janitor>> /\ att[a].pc \in {"rollcommit", "advancecommit"}
    BY <1>7 DEF RollUpCommit, AdvanceCommit, taskRow
  <2>2. att'[a].pc \in {"idle", "mark"} /\ \A b \in Attempt \ {a} : att'[b] = att[b]
    BY <1>0, <1>7, ReturnFacts, GoToFacts DEF RollUpCommit, AdvanceCommit
  <2>3. CASE UNCHANGED job
    BY <1>3, <2>1, <2>2, <2>3, UnwrittenOutcomes
  <2>4. CASE job[j] # "absent" /\ att[a].out # "none" /\ job' = [job EXCEPT ![j] = att[a].out]
    <3>1. job'[j] = att[a].out /\ AddsUp(j, att[a].out, task)
      BY <1>0, <2>1, <2>4 DEF Tells, TypeOK, Rolling
    <3>2. AddsUp(j, job'[j], task')
      BY <2>1, <3>1
    <3> QED BY <1>3, <2>1, <2>2, <3>2 DEF Outcomes, OutcomeStep
  <2>5. att[a].pc = "rollcommit" => att[a].out # "none"
    BY <1>0, StatusFacts DEF Carries
  <2> QED BY <1>7, <2>3, <2>4, <2>5 DEF RollUpCommit, AdvanceCommit
<1>8. CASE AdvanceRead(a)
  <2>1. UNCHANGED <<task, job, janitor>> /\ att[a].pc = "mark"
    BY <1>8 DEF AdvanceRead, Reads, taskRow
  <2> DEFINE rows == JobRows(j)
             ready(m) == Followers(j, Override(rows, m))
  <2>2. PICK m \in Cascades(TasksOf(j), rows) : Mark(a, t, m, ready(m))
    BY <1>8 DEF AdvanceRead
  <2>3. /\ TasksOf(j) \in SUBSET Task
        /\ \A u \in TasksOf(j) : rows[u] = task[u]
    BY DEF TasksOf, JobRows
  <2>4. ready(m) \in SUBSET Task
    BY DEF Followers, TasksOf
  <2> HIDE DEF rows, ready
  <2>5. m \in Marks /\ DOMAIN m \subseteq TasksOf(j)
    BY <2>3, CascadesType
  <2>6. /\ att'[a].pc = "advance" /\ att'[a].task = t /\ att'[a].marks = m
        /\ \A b \in Attempt \ {a} : att'[b] = att[b]
    BY <1>0, <2>2, <2>4, <2>5, MarkFacts
  <2>7. \A u \in DOMAIN m \cap TasksOf(j) : Founded(u, m[u])
    BY <2>2, <2>3, CascadeFounded
  <2>8. Tells(a)'
    BY <2>1, <2>5, <2>6, <2>7 DEF Tells, Founded, Root, dependencies_ready, TasksOf, Rolling
  <2> QED BY <2>1, <2>6, <2>8, TellsMove, UnwrittenOutcomes
<1>9. CASE AdvanceFlush(a)
  <2> DEFINE m == att[a].marks
  <2>1. UNCHANGED janitor /\ att[a].pc = "advance" /\ Return(a) /\ m \in Marks
    BY <1>0, <1>9 DEF AdvanceFlush, AttemptState
  <2>2. att'[a].pc = "idle" /\ \A b \in Attempt \ {a} : att'[b] = att[b]
    BY <1>0, <2>1, ReturnFacts
  <2>3. Telling(j)
    BY <1>3, <2>1, <2>2
  <2>4. CASE UNCHANGED <<task, job>>
    BY <2>3, <2>4, UnwrittenOutcomes
  <2>5. CASE /\ \A u \in DOMAIN m : task[u] # "absent"
             /\ task' = Override(task, m)
             /\ job' = [job EXCEPT ![j] = Finalized(j, task')]
    <3>1. \A u \in DOMAIN m \cap TasksOf(j) : Condemned(u, m) /\ Founded(u, m[u])
      BY <1>0, <2>1 DEF AttemptOK, Tells
    <3> HIDE DEF m
    <3>2. \A u \in TasksOf(j) : OutcomeStep(u)
      BY <2>1, <2>5, <3>1, MarksAreOutcomes
    <3>3. job'[j] = Finalized(j, task')
      BY <1>0, <2>5 DEF TypeOK
    <3>4. job'[j] \in JobTerminal /\ job'[j] # job[j] => AddsUp(j, job'[j], task')
      BY <3>3, RollUpTells
    <3> QED BY <2>3, <3>2, <3>4 DEF Outcomes
  <2> QED BY <1>9, <2>4, <2>5 DEF AdvanceFlush
<1>10. CASE AdvanceRollUp(a) \/ AdvanceJob(a)
  <2>1. UNCHANGED <<task, job, janitor>> /\ att[a].pc \in {"advance", "advancejob"}
    BY <1>10 DEF AdvanceRollUp, AdvanceJob, Reads, taskRow
  <2>2. PICK pc \in {"advancejob", "advancecommit"}, out \in Terminal \cup {"none"} :
          /\ Carry(a, pc, out)
          /\ out = "none" \/ job[j] = "absent" \/ AddsUp(j, out, task)
    <3>1. CASE Carry(a, "advancecommit", "none")
      BY <3>1
    <3>2. CASE Decided(j, task) /\ Carry(a, "advancejob", Verdict(j, task))
      <4>1. Verdict(j, task) \in Terminal
        BY <3>2, DecidedFacts
      <4>2. job[j] = "absent" \/ AddsUp(j, Verdict(j, task), task)
        BY <1>0, <3>2, RollUpAddsUp
      <4> QED BY <3>2, <4>1, <4>2
    <3>3. CASE att[a].pc = "advancejob" /\ Carry(a, "advancecommit", att[a].out)
      <4>1. att[a].out \in Terminal \cup {"none"}
        BY <1>0 DEF AttemptState
      <4>2. att[a].out = "none" \/ job[j] = "absent" \/ AddsUp(j, att[a].out, task)
        BY <1>0, <3>3 DEF Tells, Rolling
      <4> QED BY <3>3, <4>1, <4>2
    <3> QED BY <1>10, <3>1, <3>2, <3>3 DEF AdvanceRollUp, AdvanceJob
  <2>3. /\ att'[a].pc = pc /\ att'[a].out = out /\ att'[a].task = t
        /\ \A b \in Attempt \ {a} : att'[b] = att[b]
    BY <1>0, <2>2, CarryFacts
  <2> QED BY <1>4, <2>1, <2>2, <2>3 DEF Rolling
<1>11. CASE Heartbeat(a)
  <2>1. UNCHANGED <<task, job, att, janitor>>
    BY <1>11 DEF Heartbeat, actors
  <2> QED BY <2>1, UnwrittenOutcomes DEF Telling
<1>12. CASE Raise(a)
  <2>1. UNCHANGED <<task, job, janitor>>
    BY <1>12 DEF Raise, taskRow
  <2>2. att'[a].pc \in {"idle", "except"} /\ \A b \in Attempt \ {a} : att'[b] = att[b]
    BY <1>0, <1>12, ReturnFacts, GoToFacts DEF Raise
  <2> QED BY <1>3, <2>1, <2>2, UnwrittenOutcomes
<1> QED BY <1>5, <1>6, <1>7, <1>8, <1>9, <1>10, <1>11, <1>12

\* The requests of clients, of this job and of others.
LEMMA OutcomesOfRequests ==
  ASSUME NEW j \in Job, Sound(j), TypeOK', RowStep, j \notin overtaken',
         \/ \E i \in Job : \/ Submit(i) \/ SubmitFinalize(i) \/ SubmitCrash(i)
                           \/ \E force \in BOOLEAN : Cancel(i, force)
                           \/ \E r \in Resumer : ResumeRead(r, i)
         \/ \E r \in Resumer : ResumeCommit(r)
  PROVE  Outcomes(j) /\ Telling(j)
<1>0. RowsFollowJob /\ TypeOK /\ Typed /\ Placed
  BY DEF Sound, Typed, Carried, Placed
<1>1. ASSUME NEW i \in Job, Submit(i) PROVE Outcomes(j) /\ Telling(j)
  <2>1. /\ job[i] = "new" /\ job' = [job EXCEPT ![i] = "pending"]
        /\ \A t \in Task : IF t \in TasksOf(i) THEN task'[t] \in {"pending", "succeeded"}
                                              ELSE task'[t] = task[t]
        /\ UNCHANGED <<att, janitor>>
    BY <1>1 DEF Submit, Materialized, TasksOf
  <2>2. ASSUME NEW t \in TasksOf(j) PROVE OutcomeStep(t)
    <3>1. t \in Task /\ (t \in TasksOf(i) => task[t] = "absent")
      BY <1>0, <2>1 DEF RowsFollowJob, TasksOf
    <3> QED BY <2>1, <3>1, StatusFacts DEF OutcomeStep
  <2>3. job'[j] \in JobTerminal => job'[j] = job[j]
    BY <1>0, <2>1, StatusFacts DEF TypeOK
  <2> QED BY <2>1, <2>2, <2>3 DEF Outcomes, Telling
<1>2. ASSUME NEW i \in Job, SubmitFinalize(i) PROVE Outcomes(j) /\ Telling(j)
  <2>1. job' = [job EXCEPT ![i] = Finalized(i, task)] /\ UNCHANGED <<task, att, janitor>>
    BY <1>2 DEF SubmitFinalize, taskRow
  <2>2. ASSUME job'[j] \in JobTerminal, job'[j] # job[j]
        PROVE  AddsUp(j, job'[j], task')
    <3>1. job'[j] = Finalized(j, task')
      BY <1>0, <2>1, <2>2 DEF TypeOK
    <3> QED BY <2>2, <3>1, RollUpTells
  <2> QED BY <2>1, <2>2 DEF Outcomes, Telling, OutcomeStep
<1>3. ASSUME UNCHANGED <<task, job, att, janitor>> PROVE Outcomes(j) /\ Telling(j)
  BY <1>3, UnwrittenOutcomes DEF Telling
<1>4. ASSUME NEW r \in Resumer, ResumeCommit(r) PROVE Outcomes(j) /\ Telling(j)
  <2> DEFINE p == resuming[r]
  <2>1. CASE UNCHANGED <<taskRow, job, att>>
    BY <1>3, <1>4, <2>1 DEF ResumeCommit, taskRow
  <2>2. CASE /\ p # NoResume
             /\ task' = [t \in Task |-> IF t \in p.reset THEN "pending" ELSE task[t]]
             /\ job' = [job EXCEPT ![p.job] = "pending"]
             /\ att' = Lapsed(p.held)
             /\ overtaken' = overtaken \cup {p.job}
    <3>1. p.job \in Job /\ p.reset \subseteq TasksOf(p.job) /\ p.held \subseteq p.reset
          /\ p.job # j /\ janitor' = janitor
      BY <1>0, <1>4, <2>2 DEF Typed, Booked, ResumeCommit
    <3> HIDE DEF p
    <3>2. \A t \in TasksOf(j) : t \in Task /\ t \notin p.reset /\ t \notin p.held
      BY <3>1 DEF TasksOf
    <3>3. job'[j] = job[j] /\ \A t \in TasksOf(j) : task'[t] = task[t]
      BY <1>0, <2>2, <3>1, <3>2 DEF TypeOK
    <3>4. ASSUME NEW b \in Attempt, att'[b].pc # "idle", att'[b].task \in TasksOf(j)
          PROVE  att'[b] = att[b]
      BY <1>0, <2>2, <3>2, <3>4, LapsedFacts DEF TypeOK
    <3> QED BY <3>1, <3>3, <3>4 DEF Outcomes, OutcomeStep, Telling
  <2> QED BY <1>4, <2>1, <2>2 DEF ResumeCommit
<1> QED BY <1>1, <1>2, <1>3, <1>4 DEF SubmitCrash, Cancel, ResumeRead, taskRow, actors

\* The clock and the crashes.
LEMMA OutcomesOfFaults ==
  ASSUME NEW j \in Job, Sound(j), j \notin overtaken',
         (\E t \in Task : Expire(t)) \/ (\E w \in Worker : Crash(w))
  PROVE  Outcomes(j) /\ Telling(j)
<1>0. TypeOK
  BY DEF Sound, Typed, Carried
<1>1. ASSUME NEW t \in Task, Expire(t) PROVE Outcomes(j) /\ Telling(j)
  <2>1. UNCHANGED <<task, job, janitor>> /\ att' = Lapsed({t})
    BY <1>1 DEF Expire
  <2>2. ASSUME NEW a \in Attempt, att[a].pc = "settle", att[a].task \in TasksOf(j)
        PROVE  att[a].task # t
    <3> SUFFICES ASSUME att[a].task = t PROVE FALSE
      OBVIOUS
    <3>1. a \in Keepers(t) /\ JobOf[t] = j
      BY <2>2, SettlingOwns DEF Keepers, Busy, Beating, TasksOf
    <3>2. j \in overtaken'
      BY <1>1, <2>2, <3>1 DEF Expire
    <3> QED BY <3>2
  <2>3. ASSUME NEW b \in Attempt, att'[b].pc # "idle", att'[b].task \in TasksOf(j)
        PROVE  att'[b] = att[b]
    <3>1. att \in [Attempt -> AttemptState] /\ att' = Lapsed({t})
      BY <1>0, <2>1 DEF TypeOK
    <3>2. /\ att'[b].pc = att[b].pc /\ att'[b].task = att[b].task
          /\ att'[b] = att[b] \/ (att[b].pc = "settle" /\ att[b].task \in {t})
      BY <3>1, LapsedFacts
    <3> QED BY <2>2, <2>3, <3>2
  <2> QED BY <2>1, <2>3, UnwrittenOutcomes DEF Telling
<1>2. ASSUME NEW w \in Worker, Crash(w) PROVE Outcomes(j) /\ Telling(j)
  <2>1. UNCHANGED <<task, job, janitor>>
    BY <1>2 DEF Crash, taskRow
  <2>2. \A a \in Attempt : att'[a] = att[a] \/ att'[a].pc = "idle"
    BY <1>2 DEF Crash, Idle
  <2> QED BY <2>1, <2>2, UnwrittenOutcomes DEF Telling
<1> QED BY <1>1, <1>2

\* The janitor.
LEMMA OutcomesOfJanitor ==
  ASSUME LocalDeps, Acyclic, NEW j \in Job, Sound(j), VerdictInv(j), TypeOK', RowStep,
         JanitorStep \/ PhaseFails \/ JanitorCrash
  PROVE  Outcomes(j) /\ Telling(j)
<1>0. /\ RowsFollowJob /\ TypeOK /\ SweepOK(j) /\ SweepTells(j) /\ janitor \in JanitorState
      /\ janitor.marks \in Marks
  BY DEF Sound, Typed, Carried, Placed, Current, TypeOK, JanitorState, VerdictInv
<1>00. att' = att /\ janitor'.pc # "commit" => Telling(j)
  BY DEF Telling, SweepTells
<1>1. CASE Reclaim \/ GcDelete
  <2>1. /\ UNCHANGED att /\ janitor'.pc # "commit"
        /\ job'[j] \in {job[j], "absent"}
        /\ \A t \in Task : \/ task'[t] \in {task[t], "absent"}
                           \/ task[t] = "running" /\ task'[t] = "pending"
    <3>1. CASE Reclaim
      BY <3>1 DEF Reclaim, Sweep
    <3>2. CASE GcDelete
      BY <3>2 DEF GcDelete, Sweep
    <3> QED BY <1>1, <3>1, <3>2
  <2>2. \A t \in TasksOf(j) : OutcomeStep(t)
    BY <2>1, StatusFacts DEF OutcomeStep, TasksOf
  <2> QED BY <1>00, <2>1, <2>2, StatusFacts DEF Outcomes
<1>2. CASE PropagateRead
  <2>1. UNCHANGED <<task, job, att>>
    BY <1>2 DEF PropagateRead, taskRow
  <2>2. PICK m \in Cascades(Task, task) :
          janitor' = [janitor EXCEPT !.pc = IF m = NoMarks THEN "requeue" ELSE "commit",
                                     !.marks = m]
    BY <1>2 DEF PropagateRead
  <2>3. janitor'.marks = m
    BY <1>0, <2>2 DEF JanitorState
  <2>4. \A u \in DOMAIN m \cap TasksOf(j) : Founded(u, m[u])
    <3>1. TasksOf(j) \subseteq Task
      BY DEF TasksOf
    <3> QED BY <3>1, CascadeFounded
  <2>5. SweepTells(j)'
    BY <2>1, <2>3, <2>4 DEF SweepTells, Founded, Root, dependencies_ready, TasksOf
  <2> QED BY <2>1, <2>5, UnwrittenOutcomes DEF Telling
<1>3. CASE PropagateCommit
  <2> DEFINE m == janitor.marks
             affected == {JobOf[t] : t \in DOMAIN m}
  <2>1. UNCHANGED att /\ janitor.pc = "commit" /\ janitor'.pc = "requeue"
    BY <1>0, <1>3 DEF PropagateCommit, JanitorState
  <2>2. CASE UNCHANGED <<task, job>>
    BY <1>00, <2>1, <2>2, UnwrittenOutcomes
  <2>3. CASE /\ \A u \in DOMAIN m : task[u] # "absent"
             /\ task' = Override(task, m)
             /\ job' = [i \in Job |-> IF i \in affected THEN Finalized(i, task') ELSE job[i]]
    <3>1. \A u \in DOMAIN m \cap TasksOf(j) : Condemned(u, m) /\ Founded(u, m[u])
      BY <1>0, <2>1 DEF SweepOK, SweepTells
    <3> HIDE DEF m, affected
    <3>2. m \in Marks
      BY <1>0 DEF m
    <3>3. \A u \in TasksOf(j) : OutcomeStep(u)
      BY <2>3, <3>1, <3>2, MarksAreOutcomes
    <3>4. ASSUME job'[j] \in JobTerminal, job'[j] # job[j] PROVE AddsUp(j, job'[j], task')
      <4>1. job'[j] = Finalized(j, task')
        BY <2>3, <3>4
      <4> QED BY <3>4, <4>1, RollUpTells
    <3> QED BY <1>00, <2>1, <3>3, <3>4 DEF Outcomes
  <2> QED BY <1>3, <2>2, <2>3 DEF PropagateCommit
<1>4. CASE GcRead \/ Requeue \/ PhaseFails \/ JanitorCrash
  <2>1. UNCHANGED <<task, job, att>>
    BY <1>4 DEF GcRead, Requeue, PhaseFails, JanitorCrash, taskRow
  <2>2. janitor'.pc # "commit"
    <3>1. CASE Requeue \/ JanitorCrash
      BY <3>1 DEF Requeue, JanitorCrash, Sweep
    <3>2. CASE PhaseFails
      <4>1. NextPhase(janitor.pc) \in {"reclaim", "propagate", "requeue", "gc"}
        BY DEF NextPhase
      <4>2. janitor'.pc = NextPhase(janitor.pc)
        BY <1>0, <3>2 DEF PhaseFails, JanitorState
      <4> QED BY <4>1, <4>2
    <3>3. CASE GcRead
      <4>1. PICK old \in SUBSET Job :
              janitor' = IF old = {} THEN Sweep ELSE [Sweep EXCEPT !.pc = "delete", !.old = old]
        BY <3>3 DEF GcRead
      <4> QED BY <4>1 DEF Sweep
    <3> QED BY <1>4, <3>1, <3>2, <3>3
  <2> QED BY <1>00, <2>1, <2>2, UnwrittenOutcomes
<1> QED BY <1>1, <1>2, <1>3, <1>4 DEF JanitorStep

LEMMA NextOutcomes ==
  ASSUME LocalDeps, Acyclic, NEW j \in Job, Sound(j), VerdictInv(j), TypeOK', RowStep, Next,
         j \notin overtaken'
  PROVE  Moves(j) /\ Outcomes(j) /\ Telling(j)
<1>1. Moves(j)
  BY NextMoves
<1> QED BY <1>1, OutcomesOfRequests, OutcomesOfPickup, OutcomesOfRun, OutcomesAfter,
           OutcomesOfFaults, OutcomesOfJanitor DEF Next, Step

Verdicts == \A j \in Job \ overtaken : VerdictInv(j)

LEMMA VerdictInit == Init => Verdicts
<1> SUFFICES ASSUME Init, NEW j \in Job PROVE VerdictInv(j)
  BY DEF Verdicts
<1>1. \A a \in Attempt : att[a].pc = "idle"
  BY DEF Init, Idle
<1>2. \A t \in TasksOf(j) : Founded(t, task[t])
  BY DEF Init, Founded, TasksOf
<1>3. SweepTells(j) /\ MatchesTasks(j)
  BY StatusFacts DEF Init, SweepTells, Sweep, MatchesTasks
<1> QED BY <1>1, <1>2, <1>3 DEF VerdictInv

LEMMA VerdictNext ==
  ASSUME LocalDeps, Acyclic, IInv, Verdicts, [Next]_vars
  PROVE  Verdicts'
<1> SUFFICES ASSUME NEW j \in Job, j \notin overtaken' PROVE VerdictInv(j)'
  BY DEF Verdicts
<1>1. CASE UNCHANGED vars
  <2>1. UNCHANGED <<task, owner, lease, job, att, janitor>> /\ j \notin overtaken
    BY <1>1 DEF vars
  <2>2. VerdictInv(j)
    BY <2>1 DEF Verdicts
  <2> QED BY <2>1, <2>2 DEF VerdictInv, Founded, Root, Tells, SweepTells, MatchesTasks, AddsUp,
                           dependencies_ready, TasksOf
<1>2. CASE Next
  <2>1. Typed' /\ TypeOK' /\ Typed /\ Placed
    BY <1>2, TypedNext DEF IInv, Typed, Carried
  <2>2. RowStep
    BY <1>2, <2>1, PlacedNext
  <2>3. j \in Job \ overtaken
    BY <1>2, OvertakenGrows
  <2>4. Sound(j) /\ VerdictInv(j)
    BY <2>3, SoundOf DEF Verdicts
  <2>5. Moves(j) /\ Outcomes(j) /\ Telling(j)
    BY <1>2, <2>1, <2>2, <2>4, NextOutcomes
  <2> QED BY <2>2, <2>4, <2>5, VerdictPreserved
<1> QED BY <1>1, <1>2

\* The status of a terminal job is what its tasks add up to, whatever cascades rewrite
\* the rows: no roll-up that the dispatcher, the janitor or a submission computed from
\* rows it read before is out of date when it is committed (finalize_job_if_ready), for
\* every job that was neither resumed nor overtaken.
THEOREM VerdictsHold ==
  ASSUME LocalDeps, Acyclic
  PROVE  Spec => []VerdictMatches
<1>1. Init => IInv /\ Verdicts
  BY TypedInit, PlacedInit, SafeInit, VerdictInit DEF IInv
<1>2. (IInv /\ Verdicts) /\ [Next]_vars => (IInv /\ Verdicts)'
  BY SafeNext, VerdictNext
<1>3. IInv /\ Verdicts => VerdictMatches
  BY DEF Verdicts, VerdictInv, VerdictMatches
<1> QED BY <1>1, <1>2, <1>3, PTL DEF Spec

LEMMA StepOutcomes ==
  ASSUME LocalDeps, Acyclic, IInv, Verdicts, Next, NEW j \in Job, j \notin overtaken'
  PROVE  Sound(j) /\ VerdictInv(j) /\ RowStep /\ Moves(j) /\ Outcomes(j)
<1>1. Typed' /\ TypeOK' /\ Typed /\ Placed
  BY TypedNext DEF IInv, Typed, Carried
<1>2. RowStep
  BY <1>1, PlacedNext
<1>3. j \in Job \ overtaken
  BY OvertakenGrows
<1>4. Sound(j) /\ VerdictInv(j)
  BY <1>3, SoundOf DEF Verdicts
<1> QED BY <1>1, <1>2, <1>4, NextOutcomes

\* A pending task fails only with a dependency, unless its job was resumed or
\* overtaken.
THEOREM DoomsJustified ==
  ASSUME LocalDeps, Acyclic
  PROVE  Spec => DoomIsJustified
<1> DEFINE Dooms ==
      \A t \in Task :
        \/ Justified(t)
        \/ NarrowView(t)
        \/ \E u \in Deps[t] \cup {t} : Unsettled(u)'
<1>1. Init => IInv /\ Verdicts
  BY TypedInit, PlacedInit, SafeInit, VerdictInit DEF IInv
<1>2. (IInv /\ Verdicts) /\ [Next]_vars => (IInv /\ Verdicts)'
  BY SafeNext, VerdictNext
<1>3. (IInv /\ Verdicts) /\ [Next]_vars => [Dooms]_vars
  <2> SUFFICES ASSUME IInv, Verdicts, Next, NEW t \in Task, ~Unsettled(t)'
               PROVE  Justified(t)
    OBVIOUS
  <2>1. JobOf[t] \in Job /\ JobOf[t] \notin overtaken' /\ t \in TasksOf(JobOf[t])
    BY TopologyAssumption DEF Unsettled, TasksOf
  <2>2. OutcomeStep(t)
    BY <2>1, StepOutcomes DEF Outcomes
  <2>3. "failed" \in Doomed /\ "failed" \notin CancelledDep
    BY DEF Doomed, FailedDep, CancelledDep
  <2> QED BY <2>2, <2>3 DEF OutcomeStep, Justified
<1> QED BY <1>1, <1>2, <1>3, PTL DEF Spec, DoomIsJustified

\* The rows behave as Lifecycle says: the orchestrator implements it.
THEOREM LifecycleImplemented ==
  ASSUME LocalDeps, Acyclic
  PROVE  Spec => ImplementsLifecycle
<1>1. Init => IInv /\ Verdicts /\ L!Init
  BY TypedInit, PlacedInit, SafeInit, VerdictInit DEF IInv, Init, L!Init
<1>2. (IInv /\ Verdicts) /\ [Next]_vars => (IInv /\ Verdicts)'
  BY SafeNext, VerdictNext
<1>3. (IInv /\ Verdicts) /\ [Next]_vars => [L!Next]_<<task, job, overtaken>>
  <2>1. ASSUME UNCHANGED vars PROVE UNCHANGED <<task, job, overtaken>>
    BY <2>1 DEF vars
  <2>2. ASSUME IInv, Verdicts, Next PROVE L!Next
    <3>1. RowStep /\ Placed /\ overtaken \subseteq overtaken'
      <4>1. Typed' /\ TypeOK' /\ Typed /\ Placed
        BY <2>2, TypedNext DEF IInv, Typed, Carried
      <4> QED BY <2>2, <4>1, PlacedNext, OvertakenGrows
    <3>2. ASSUME NEW j \in Job PROVE L!RowsTogether(j)
      BY <3>1 DEF L!RowsTogether, L!Members, RowStep, Lasts, RowsFollowJob
    <3>3. ASSUME NEW j \in Job \ overtaken', NEW t \in L!Members(j) PROVE L!TaskMove(t)
      <4>0. t \in TasksOf(j) /\ JobOf[t] = j
        BY DEF TasksOf, L!Members
      <4>1. TaskStep(t) /\ OutcomeStep(t)
        BY <2>2, <4>0, StepOutcomes DEF Moves, Outcomes
      <4>2. Doomed = L!Bad /\ Terminal = L!Ended
        BY DEF Doomed, Terminal, L!Bad, L!Ended, FailedDep, CancelledDep, L!FailedDep, L!CancelledDep
      <4>3. task[t] # "absent" /\ task'[t] = "absent" => job'[JobOf[t]] = "absent"
        BY <3>1, <4>0, DeletedStays
      <4>4. L!dependencies_ready(Deps[t], task) <=> dependencies_ready(Deps[t], task)
        BY DEF L!dependencies_ready, dependencies_ready, L!ReadyDep, ReadyDep
      <4>5. L!CancelledDep = CancelledDep
        BY DEF L!CancelledDep, CancelledDep
      <4> QED BY <4>1, <4>2, <4>3, <4>4, <4>5, StatusFacts DEF TaskStep, OutcomeStep, L!TaskMove
    <3>4. ASSUME NEW j \in Job \ overtaken' PROVE L!JobMove(j)
      <4>0. /\ Sound(j) /\ VerdictInv(j) /\ RowStep /\ Moves(j) /\ Outcomes(j)
            /\ job[j] \in JobStatus
        BY <2>2, StepOutcomes DEF IInv, Typed, Carried, TypeOK
      <4>1. JobStep(j)
        BY <4>0 DEF Moves
      <4>2. JobTerminal = L!JobEnded /\ Terminal = L!Ended /\ TasksOf(j) = L!Members(j)
        BY DEF JobTerminal, L!JobEnded, Terminal, L!Ended, Doomed, L!Bad, TasksOf, L!Members,
               FailedDep, CancelledDep, L!FailedDep, L!CancelledDep
      <4>3. CASE /\ job'[j] # job[j] /\ job[j] \notin {"new", "absent"} /\ job'[j] \in JobTerminal
                 /\ \A t \in TasksOf(j) : task'[t] \in Terminal
        <5>1. AddsUp(j, job'[j], task')
          BY <4>0, <4>3 DEF Outcomes
        <5>2. job[j] = "pending"
          <6> SUFFICES ASSUME job[j] \in JobTerminal PROVE FALSE
            BY <4>0, <4>3 DEF JobStatus
          <6>1. AddsUp(j, job[j], task) /\ \A t \in TasksOf(j) : task[t] \in Terminal
            BY <4>0 DEF VerdictInv, MatchesTasks, AddsUp
          <6>2. AddsUp(j, job[j], task')
            BY <4>0, <4>3, <6>1, AddsUpStays, StatusFacts
          <6> QED BY <4>3, <5>1, <6>2 DEF AddsUp, JobTerminal
        <5> QED BY <4>2, <4>3, <5>1, <5>2 DEF L!JobMove, AddsUp
      <4>4. CASE ~(/\ job'[j] # job[j] /\ job[j] \notin {"new", "absent"} /\ job'[j] \in JobTerminal
                   /\ \A t \in TasksOf(j) : task'[t] \in Terminal)
        <5>1. job[j] = "absent" /\ job'[j] = "absent" => job'[j] = job[j]
          OBVIOUS
        <5> QED BY <4>1, <4>2, <4>4, <5>1 DEF JobStep, L!JobMove
      <4> QED BY <4>3, <4>4
    <3> QED BY <3>1, <3>2, <3>3, <3>4 DEF L!Next
  <2> QED BY <2>1, <2>2
<1> QED BY <1>1, <1>2, <1>3, PTL DEF Spec, ImplementsLifecycle, L!Spec

-----------------------------------------------------------------------------
(* Cancellation, for every job and whatever happens. *)

\* An attempt that is past its last check and about to report success.
Succeeding(a, t) == att[a].task = t /\ att[a].pc = "settle" /\ att[a].out = "succeeded"

\* A status that turns into success was written by an attempt that was about to.
Earned(t) ==
  task'[t] = "succeeded" =>
    task[t] \in {"succeeded", "absent"} \/ \E a \in Attempt : Succeeding(a, t)

\* How a step may disturb a cancellation: the request goes with the rows or by a resume,
\* and success is written only by an attempt that had found no request at its last check.
Heeds ==
  /\ \A j \in requested : j \in requested' \/ job'[j] = "absent" \/ Resumed(j)
  /\ \A t \in Task : Earned(t)
  /\ \A t \in Task, a \in Attempt : Succeeding(a, t)' =>
       Succeeding(a, t) \/ JobOf[t] \notin requested

\* The attempt is the only process the step moves, and it is not about to succeed.
LEMMA QuietAttempt ==
  ASSUME NEW a \in Attempt, requested' = requested,
         \A b \in Attempt \ {a} : att'[b] = att[b],
         att'[a].pc # "settle" \/ att'[a].out # "succeeded",
         \A t \in Task : Earned(t)
  PROVE  Heeds
BY DEF Heeds, Succeeding

LEMMA UnwrittenEarned == task' = task => \A t \in Task : Earned(t)
BY DEF Earned

LEMMA HeedsPickup ==
  ASSUME Typed, NEW a \in Attempt, NEW t \in Task, Pickup(a, t)
  PROVE  Heeds
<1>1. UNCHANGED <<task, requested>>
  BY DEF Pickup, taskRow, flags
<1>2. /\ \A b \in Attempt \ {a} : att'[b] = att[b]
      /\ att'[a] = att[a] \/ att'[a].pc \in {"gate", "doom"}
  BY PickupStep
<1> QED BY <1>1, <1>2, UnwrittenEarned DEF Heeds, Succeeding

LEMMA HeedsRun ==
  ASSUME Typed, NEW a \in Attempt,
         Doom(a) \/ Acquire(a) \/ HandlerReturns(a) \/ HandlerRaises(a) \/ Settle(a)
  PROVE  Heeds
<1> DEFINE t == att[a].task
<1>0. /\ att \in [Attempt -> AttemptState] /\ task \in [Task -> TaskStatus]
      /\ t \in Task /\ JobOf[t] \in Job /\ job[JobOf[t]] \in JobStatus /\ Carries(a)
  <2>1. att[a].pc # "idle"
    BY DEF Doom, Acquire, HandlerReturns, HandlerRaises, Settle
  <2> QED BY <2>1, TopologyAssumption DEF Typed, Carried, TypeOK, Carries
<1>1. CASE Doom(a)
  <2>1. requested' = requested /\ att[a].out \in Doomed
    BY <1>0, <1>1 DEF Doom, flags, Carries
  <2>2. \A u \in Task : Earned(u)
    BY <1>0, <1>1, <2>1, StatusFacts DEF Doom, Earned
  <2>3. att'[a].pc # "settle" /\ \A b \in Attempt \ {a} : att'[b] = att[b]
    BY <1>0, <1>1, ReturnFacts, GoToFacts DEF Doom
  <2> QED BY <2>1, <2>2, <2>3, QuietAttempt
<1>2. CASE Acquire(a)
  <2>1. requested' = requested
    BY <1>2 DEF Acquire, flags
  <2>2. \A u \in Task : Earned(u)
    BY <1>0, <1>2 DEF Acquire, taskRow, Acquirable, Earned
  <2>3. att'[a].pc # "settle" /\ \A b \in Attempt \ {a} : att'[b] = att[b]
    <3>1. CASE Return(a)
      BY <1>0, <3>1, ReturnFacts
    <3>2. ASSUME NEW out \in Terminal, Hold(a, "roll", t, out, job[JobOf[t]])
          PROVE  att'[a].pc # "settle" /\ \A b \in Attempt \ {a} : att'[b] = att[b]
      BY <1>0, <3>2, HoldFacts
    <3>3. CASE GoTo(a, "run", t, "none")
      BY <1>0, <3>3, GoToFacts
    <3>4. "cancelled_dirty" \in Terminal /\ "cancelled" \in Terminal
      BY DEF Terminal, Doomed, CancelledDep
    <3> QED BY <1>2, <3>1, <3>2, <3>3, <3>4 DEF Acquire
  <2> QED BY <2>1, <2>2, <2>3, QuietAttempt
<1>3. CASE HandlerReturns(a)
  <2>1. UNCHANGED <<task, requested>>
    BY <1>3 DEF HandlerReturns, taskRow, flags
  <2>2. CASE Return(a)
    BY <1>0, <2>1, <2>2, ReturnFacts, QuietAttempt, UnwrittenEarned
  <2>3. ASSUME NEW out \in {"cancelled_dirty", "succeeded"},
               out = (IF JobOf[t] \in requested THEN "cancelled_dirty" ELSE "succeeded"),
               Hold(a, "settle", t, out, job[JobOf[t]])
        PROVE  Heeds
    <3>1. out \in Terminal
      BY DEF Terminal, Doomed, CancelledDep
    <3>2. /\ att'[a].task = t /\ att'[a].out = out
          /\ \A b \in Attempt \ {a} : att'[b] = att[b]
      BY <1>0, <2>3, <3>1, HoldFacts
    <3> QED BY <2>1, <2>3, <3>2, UnwrittenEarned DEF Heeds, Succeeding
  <2> QED BY <1>3, <2>2, <2>3 DEF HandlerReturns
<1>4. CASE HandlerRaises(a)
  <2>1. UNCHANGED <<task, requested>>
    BY <1>4 DEF HandlerRaises, taskRow, flags
  <2>2. CASE Return(a)
    BY <1>0, <2>1, <2>2, ReturnFacts, QuietAttempt, UnwrittenEarned
  <2>3. CASE GoTo(a, "settle", t, "failed")
    <3>1. "failed" \in Terminal
      BY DEF Terminal, Doomed, FailedDep
    <3>2. att'[a].out = "failed" /\ \A b \in Attempt \ {a} : att'[b] = att[b]
      BY <1>0, <2>3, <3>1, GoToFacts
    <3> QED BY <2>1, <3>2, QuietAttempt, UnwrittenEarned
  <2> QED BY <1>4, <2>2, <2>3 DEF HandlerRaises
<1>5. CASE Settle(a)
  <2>1. requested' = requested /\ att[a].pc = "settle" /\ att[a].out \in Terminal
    BY <1>0, <1>5 DEF Settle, flags, Carries
  <2>2. att'[a].pc # "settle" /\ \A b \in Attempt \ {a} : att'[b] = att[b]
    <3>1. CASE Return(a)
      BY <1>0, <3>1, ReturnFacts
    <3>2. CASE Hold(a, "roll", t, att[a].out, att[a].loaded)
      <4>1. att[a].loaded \in JobStatus \cup {"none"}
        BY <1>0 DEF AttemptState
      <4> QED BY <1>0, <2>1, <3>2, <4>1, HoldFacts
    <3> QED BY <1>5, <3>1, <3>2 DEF Settle
  <2>3. task' = task \/ task' = [task EXCEPT ![t] = att[a].out]
    BY <1>5 DEF Settle
  <2>4. \A u \in Task : Earned(u)
    BY <1>0, <2>1, <2>3 DEF Earned, Succeeding
  <2> QED BY <2>1, <2>2, <2>4, QuietAttempt
<1> QED BY <1>1, <1>2, <1>3, <1>4, <1>5

\* The steps of an attempt after its terminal commit, its heartbeat and its errors.
LEMMA HeedsAfter ==
  ASSUME Typed, NEW a \in Attempt,
         \/ RollUp(a) \/ RollUpJob(a) \/ RollUpCommit(a)
         \/ AdvanceRead(a) \/ AdvanceFlush(a) \/ AdvanceRollUp(a) \/ AdvanceJob(a)
         \/ AdvanceCommit(a) \/ Heartbeat(a) \/ Raise(a)
  PROVE  Heeds
<1>1. CASE Heartbeat(a)
  BY <1>1 DEF Heartbeat, flags, actors, Heeds, Succeeding, Earned
<1> SUFFICES ASSUME ~Heartbeat(a) PROVE Heeds
  BY <1>1
<1>2. requested' = requested
  BY DEF RollUp, RollUpJob, RollUpCommit, AdvanceRead, AdvanceFlush, AdvanceRollUp, AdvanceJob,
         AdvanceCommit, Raise, Reads, flags
<1>3. \A t \in Task : Earned(t)
  <2>1. CASE task' = task
    BY <2>1, UnwrittenEarned
  <2>2. CASE AdvanceFlush(a) /\ task' = Override(task, att[a].marks)
    <3>1. att[a].marks \in Marks
      BY DEF Typed, Carried, TypeOK, AttemptState
    <3> QED BY <2>2, <3>1, MarksFacts, OverrideFacts, StatusFacts DEF Earned
  <2> QED BY <2>1, <2>2
      DEF RollUp, RollUpJob, RollUpCommit, AdvanceRead, AdvanceFlush, AdvanceRollUp, AdvanceJob,
          AdvanceCommit, Raise, Reads, taskRow
<1>4. OwnStep(a)
  BY AttemptSteps DEF Step
<1>5. att'[a].pc # "settle" \/ att'[a] = att[a]
  <2>1. att \in [Attempt -> AttemptState] /\ Carries(a)
    BY DEF Typed, Carried, TypeOK
  <2>2. ASSUME NEW pc \in {"except", "mark"}, att[a].pc # "idle", GoTo(a, pc, att[a].task, "none")
        PROVE  att'[a].pc # "settle"
    BY <2>1, <2>2, GoToFacts DEF Carries
  <2>3. CASE Return(a)
    BY <2>1, <2>3, ReturnFacts
  <2>4. CASE Raise(a)
    BY <2>2, <2>3, <2>4 DEF Raise
  <2>5. CASE ~Raise(a)
    <3>1. ~(att'[a].pc = "settle" /\ Owns(a) /\ att[a].pc # "settle")
      <4>1. att[a].pc \in {"roll", "rolljob", "rollcommit", "mark", "advance", "advancejob",
                           "advancecommit"}
        BY <2>5 DEF RollUp, RollUpJob, RollUpCommit, AdvanceRead, AdvanceFlush, AdvanceRollUp,
                    AdvanceJob, AdvanceCommit
      <4>2. att'[a].pc \in Beating => att'[a] = att[a] \/ Acquire(a)
        BY <1>4, <4>1 DEF OwnStep, AttStep, Beating
      <4>3. ~Acquire(a)
        BY <4>1 DEF Acquire
      <4> QED BY <4>1, <4>2, <4>3 DEF Beating
    <3>2. att[a].pc # "settle"
      BY <2>5 DEF RollUp, RollUpJob, RollUpCommit, AdvanceRead, AdvanceFlush, AdvanceRollUp,
                  AdvanceJob, AdvanceCommit
    <3> QED BY <1>4, <3>1, <3>2 DEF OwnStep, AttStep
  <2> QED BY <2>4, <2>5
<1> QED BY <1>2, <1>3, <1>4, <1>5 DEF Heeds, Succeeding, OwnStep

LEMMA HeedsOthers ==
  ASSUME Typed, Placed,
         \/ \E j \in Job : \/ Submit(j) \/ SubmitFinalize(j) \/ SubmitCrash(j)
                           \/ \E force \in BOOLEAN : Cancel(j, force)
                           \/ \E r \in Resumer : ResumeRead(r, j)
         \/ \E t \in Task : Expire(t)
         \/ \E w \in Worker : Crash(w)
         \/ JanitorStep \/ PhaseFails \/ JanitorCrash
  PROVE  Heeds
<1>0. /\ att \in [Attempt -> AttemptState] /\ task \in [Task -> TaskStatus]
      /\ requested \subseteq Job /\ janitor.marks \in Marks /\ RowsFollowJob
  BY DEF Typed, Carried, TypeOK, JanitorState, Placed
<1>1. \A a \in Attempt : \/ att'[a].pc = "idle"
                         \/ /\ att'[a].pc = att[a].pc /\ att'[a].task = att[a].task
                            /\ att'[a].out = att[a].out
  <2>1. CASE att' = att
    BY <2>1
  <2>2. ASSUME NEW t \in Task, Expire(t)
        PROVE  \A a \in Attempt : /\ att'[a].pc = att[a].pc /\ att'[a].task = att[a].task
                                  /\ att'[a].out = att[a].out
    <3>1. att' = Lapsed({t}) /\ att \in [Attempt -> AttemptState]
      BY <1>0, <2>2 DEF Expire
    <3> QED BY <3>1, LapsedFacts
  <2>3. ASSUME NEW w \in Worker, Crash(w)
        PROVE  \A a \in Attempt : att'[a] = att[a] \/ att'[a].pc = "idle"
    BY <2>3 DEF Crash, Idle
  <2> QED BY <2>1, <2>2, <2>3
      DEF Submit, SubmitFinalize, SubmitCrash, Cancel, ResumeRead, JanitorStep, Reclaim,
          PropagateRead, PropagateCommit, Requeue, GcRead, GcDelete, PhaseFails, JanitorCrash,
          actors
<1>2. \A j \in requested : j \in requested' \/ job'[j] = "absent"
  <2>1. CASE GcDelete
    BY <1>0, <2>1 DEF GcDelete
  <2>2. CASE ~GcDelete
    BY <2>2 DEF Submit, SubmitFinalize, SubmitCrash, Cancel, ResumeRead, Expire, Crash,
                JanitorStep, Reclaim, PropagateRead, PropagateCommit, Requeue, GcRead,
                PhaseFails, JanitorCrash, flags
  <2> QED BY <2>1, <2>2
<1>3. \A t \in Task : Earned(t)
  <2>1. ASSUME NEW j \in Job, Submit(j), NEW t \in Task PROVE Earned(t)
    <3>1. JobOf[t] = j => task[t] = "absent"
      BY <1>0, <2>1 DEF Submit, RowsFollowJob
    <3> QED BY <2>1, <3>1 DEF Submit, Materialized, Earned
  <2>2. CASE Reclaim \/ GcDelete
    BY <2>2 DEF Reclaim, GcDelete, Earned
  <2>3. CASE task' = Override(task, janitor.marks)
    BY <1>0, <2>3, MarksFacts, OverrideFacts, StatusFacts DEF Earned
  <2>4. CASE task' = task
    BY <2>4, UnwrittenEarned
  <2> QED BY <2>1, <2>2, <2>3, <2>4
      DEF SubmitFinalize, SubmitCrash, Cancel, ResumeRead, Expire, Crash, JanitorStep,
          PropagateRead, PropagateCommit, Requeue, GcRead, PhaseFails, JanitorCrash, taskRow
<1> QED BY <1>1, <1>2, <1>3 DEF Heeds, Succeeding

LEMMA HeedsResume ==
  ASSUME Typed, NEW r \in Resumer, ResumeCommit(r)
  PROVE  Heeds
<1> DEFINE p == resuming[r]
<1>0. /\ att \in [Attempt -> AttemptState] /\ task \in [Task -> TaskStatus]
      /\ resuming'[r] # resuming[r]
  BY DEF Typed, Carried, TypeOK, ResumeCommit
<1>1. CASE UNCHANGED <<taskRow, flags, att>>
  BY <1>1, UnwrittenEarned DEF Heeds, Succeeding, taskRow, flags
<1>2. CASE /\ task' = [t \in Task |-> IF t \in p.reset THEN "pending" ELSE task[t]]
           /\ requested' = IF p.flagged THEN requested \ {p.job} ELSE requested
           /\ att' = Lapsed(p.held)
  <2>1. \A j \in requested : j \in requested' \/ Resumed(j)
    BY <1>0, <1>2 DEF Resumed
  <2>2. \A a \in Attempt : /\ att'[a].pc = att[a].pc /\ att'[a].task = att[a].task
                           /\ att'[a].out = att[a].out
    <3>1. att \in [Attempt -> AttemptState] /\ att' = Lapsed(p.held)
      BY <1>0, <1>2
    <3> QED BY <3>1, LapsedFacts
  <2>3. \A t \in Task : Earned(t)
    BY <1>2 DEF Earned
  <2> QED BY <2>1, <2>2, <2>3 DEF Heeds, Succeeding
<1> QED BY <1>1, <1>2 DEF ResumeCommit

\* Cancellation sticks: cancel_job, the check at pickup and the check before the success
\* commit together leave no way for a task of a cancelled job to succeed later, whatever
\* lapses, crashes, is delivered twice or was overtaken; a resume alone takes it back.
THEOREM CancellationsStick == Spec => CancelSticks
<1> DEFINE Sticks ==
      \A t \in Task : Stopped(t) => Stopped(t)' \/ task'[t] = "absent" \/ Resumed(JobOf[t])
<1>1. Init => Typed /\ Placed
  BY TypedInit, PlacedInit
<1>2. (Typed /\ Placed) /\ [Next]_vars => (Typed /\ Placed)'
  <2>1. ASSUME Typed, Placed, UNCHANGED vars PROVE Placed'
    BY <2>1 DEF vars, Placed, RowsFollowJob, SettleHeld
  <2> QED BY <2>1, TypedNext, PlacedNext
<1>3. (Typed /\ Placed) /\ [Next]_vars => [Sticks]_vars
  <2> SUFFICES ASSUME Typed, Placed, Next, NEW t \in Task, Stopped(t), task'[t] # "absent",
                      ~Resumed(JobOf[t])
               PROVE  Stopped(t)'
    OBVIOUS
  <2>1. Heeds
    BY HeedsPickup, HeedsRun, HeedsAfter, HeedsOthers, HeedsResume DEF Next, Step
  <2>2. Typed' /\ RowStep
    BY TypedNext, PlacedNext
  <2>3. JobOf[t] \in requested'
    BY <2>1, <2>2 DEF Heeds, Stopped, RowStep, RowsFollowJob
  <2>4. \A a \in Attempt : ~Succeeding(a, t)'
    BY <2>1 DEF Heeds, Stopped, Succeeding
  <2>5. task'[t] \in {"pending", "running"} \cup Doomed
    <3>1. task'[t] # "succeeded"
      BY <2>1, StatusFacts DEF Heeds, Stopped, Succeeding, Earned
    <3> QED BY <2>2, <3>1 DEF Typed, Carried, TypeOK, TaskStatus, Terminal
  <2> QED BY <2>3, <2>4, <2>5 DEF Stopped, Succeeding
<1> QED BY <1>1, <1>2, <1>3, PTL DEF Spec, CancelSticks

=============================================================================
