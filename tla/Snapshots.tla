----------------------------- MODULE Snapshots -----------------------------
(***************************************************************************)
(* Sealed snapshots of one reconstruction: the tasks that write the live   *)
(* sparse/ directory (map) or a directory of their own (georegister,       *)
(* merge_recons, to_cubemap), the sealing protocol of SnapshotStore, the   *)
(* submodel rows recorded from a sealed snapshot, and the octree tiles the *)
(* API generates inside one.                                               *)
(*                                                                         *)
(* The file system is the shared state: the workers' sealing steps are     *)
(* separate system calls, a worker may die between any two of them, and    *)
(* with Overlap two workers seal at once (two jobs on one reconstruction,  *)
(* or a slow worker whose task the janitor has handed to another).         *)
(***************************************************************************)
EXTENDS Integers, FiniteSets

CONSTANTS
  MapTasks,      \* tasks of kind map: they emit into the shared sparse/
  DerivedTasks,  \* georegister, merge_recons, to_cubemap: a directory per task
  Mandatory,     \* files every reconstruction has (cameras, images, points)
  Optional,      \* files emitted only when present (rigs, frames)
  MaxRuns,       \* bound on the executions of tasks
  OverlapRuns,   \* bound on them where two workers may seal at once
  TileSeqs,      \* the snapshots clients ask tiles of
  MaxLevel,      \* deepest octree level a client asks for
  DefaultLevel,  \* DEFAULT_MAX_LEVEL
  Overlaps       \* the deployments considered: may two workers seal at once?

Tasks == MapTasks \cup DerivedTasks
Files == Mandatory \cup Optional
Runs  == 1 .. MaxRuns
Seqs  == 1 .. MaxRuns       \* one run seals at most one sequence number
NoRun == 0

ASSUME SnapshotsAssumption ==
  /\ MapTasks \cap DerivedTasks = {} /\ Tasks # {}
  /\ Mandatory \cap Optional = {}
  /\ MaxRuns \in Nat \ {0} /\ OverlapRuns \in 1 .. MaxRuns
  /\ TileSeqs \subseteq Nat
  /\ DefaultLevel \in Nat /\ MaxLevel \in Nat
  /\ Overlaps \subseteq BOOLEAN

VARIABLES
  overlap,    \* constant of a behaviour: may two workers be sealing at once?
  task,       \* task rows: status and the run that holds the lease
  run,        \* worker executions, by number
  live,       \* sparse/: for each file the run that wrote it last
  out,        \* the per-task output directories of the derived tasks
  tmp,        \* snapshots/.tmp_{seq}
  sealed,     \* snapshots/{seq}
  latest,     \* the `latest` pointer file, 0 when there is none
  latestTmp,  \* .latest.tmp, 0 when there is none
  rows,       \* the SubModel rows: the sequence and the run they came from
  tiles       \* the tiles/ directory of each sealed snapshot

disk == <<live, out, tmp, sealed, latest, latestTmp>>
vars == <<overlap, task, run, disk, rows, tiles>>

NoFiles == [f \in Files |-> NoRun]
Absent  == [there |-> FALSE, files |-> NoFiles, summary |-> NoRun, complete |-> FALSE]
MadeDir == [Absent EXCEPT !.there = TRUE]
NoTiles == [index |-> -1, levels |-> {}]
Unborn  == [pc |-> "unborn", task |-> CHOOSE t \in Tasks : TRUE,
            emits |-> {}, todo |-> {}, seq |-> 0, bad |-> FALSE]

Steps == {"emit", "pick", "check", "mkdir", "copy", "summary", "complete",
          "publish", "pointer", "swap", "report", "fail"}
Active(r) == run[r].pc \in Steps

Init ==
  /\ overlap \in Overlaps
  /\ task = [t \in Tasks |-> [status |-> "pending", owner |-> NoRun]]
  /\ run = [r \in Runs |-> Unborn]
  /\ live = NoFiles
  /\ out = [t \in DerivedTasks |-> NoFiles]
  /\ tmp = [s \in Seqs |-> Absent]
  /\ sealed = [s \in Seqs |-> Absent]
  /\ latest = 0
  /\ latestTmp = 0
  /\ rows = [seq |-> 0, run |-> NoRun]
  /\ tiles = [s \in Seqs |-> NoTiles]

----------------------------------------------------------------------------
(* What the store answers *)

\* list_sealed: the directories that carry the .complete marker.
Listed == {s \in Seqs : sealed[s].there /\ sealed[s].complete}

\* latest: the pointer file, and without one the last listed sequence.
Latest ==
  IF latest # 0 THEN latest
  ELSE IF Listed = {} THEN 0
  ELSE CHOOSE s \in Listed : \A u \in Listed : u <= s

\* The directory a run hands to seal.
Source(r) == IF run[r].task \in MapTasks THEN live ELSE out[run[r].task]

----------------------------------------------------------------------------
(* Task rows: the queue hands a pending task to a worker; the janitor takes *)
(* it back when its lease has expired                                       *)

\* What an execution writes.  map writes the files of the largest reconstruction its
\* backend returned (those of the others go to directories of their own), or nothing
\* when it returned none; into the directory of a derived task the backend writes what
\* it likes.
Emissions(t) == IF t \in MapTasks THEN {{}} \cup {Mandatory \cup o : o \in SUBSET Optional}
                ELSE SUBSET Files

\* The next execution begins.
Start(t, emits) ==
  \E r \in Runs :
    /\ run[r].pc = "unborn" /\ \A q \in Runs : q < r => run[q].pc # "unborn"
    /\ task[t].status = "pending"
    /\ IF overlap THEN r <= OverlapRuns ELSE \A q \in Runs : ~Active(q)
    /\ run' = [run EXCEPT ![r] = [Unborn EXCEPT !.pc = IF emits = {} THEN "pick" ELSE "emit",
                                                !.task = t, !.emits = emits, !.todo = emits]]
    /\ task' = [task EXCEPT ![t] = [status |-> "running", owner |-> r]]
    /\ UNCHANGED <<overlap, disk, rows, tiles>>

\* reclaim_expired_leases: the owner died, or (overlap) is only slow.
Reclaim(t) ==
  /\ task[t].status = "running"
  /\ overlap \/ ~Active(task[t].owner)
  /\ task' = [task EXCEPT ![t] = [status |-> "pending", owner |-> NoRun]]
  /\ UNCHANGED <<overlap, run, disk, rows, tiles>>

\* resume_job: a failed task becomes pending again.
Resume(t) ==
  /\ task[t].status = "failed"
  /\ task' = [task EXCEPT ![t].status = "pending"]
  /\ UNCHANGED <<overlap, run, disk, rows, tiles>>

\* A worker process dies between two system calls.
Crash(r) ==
  /\ Active(r)
  /\ run' = [run EXCEPT ![r].pc = "dead"]
  /\ UNCHANGED <<overlap, task, disk, rows, tiles>>

Goto(r, pc) == run' = [run EXCEPT ![r].pc = pc]

----------------------------------------------------------------------------
(* The task body *)

\* emit_snapshot_files: each file is written to a temporary sibling and
\* renamed; a file the new reconstruction does not have is left as it is.
Emit(r, f) ==
  /\ run[r].pc = "emit" /\ f \in run[r].todo
  /\ IF run[r].task \in MapTasks
       THEN live' = [live EXCEPT ![f] = r] /\ UNCHANGED out
       ELSE out' = [out EXCEPT ![run[r].task][f] = r] /\ UNCHANGED live
  /\ run' = [run EXCEPT ![r].todo = @ \ {f},
                        ![r].pc = IF run[r].todo = {f} THEN "pick" ELSE "emit"]
  /\ UNCHANGED <<overlap, task, tmp, sealed, latest, latestTmp, rows, tiles>>

\* seq = (snapshots.latest() or 0) + 1
PickSeq(r) ==
  /\ run[r].pc = "pick"
  /\ run' = [run EXCEPT ![r].pc = "check", ![r].seq = Latest + 1]
  /\ UNCHANGED <<overlap, task, disk, rows, tiles>>

\* Slip: a leftover temporary is taken for a finished copy.
CheckTargetReuse(r) ==
  /\ run[r].pc = "check"
  /\ LET s == run[r].seq IN
       Goto(r, IF sealed[s].there THEN "fail" ELSE IF tmp[s].there THEN "summary" ELSE "mkdir")
  /\ UNCHANGED <<overlap, task, disk, rows, tiles>>

\* Slip: a target that exists is removed and sealed again.
CheckTargetReseal(r) ==
  /\ run[r].pc = "check"
  /\ Goto(r, "mkdir")
  /\ sealed' = [sealed EXCEPT ![run[r].seq] = Absent]
  /\ tmp' = [tmp EXCEPT ![run[r].seq] = Absent]
  /\ UNCHANGED <<overlap, task, live, out, latest, latestTmp, rows, tiles>>

\* seal refuses a sequence that exists, and removes a leftover .tmp_{seq}.
CheckTarget(r) ==
  /\ run[r].pc = "check"
  /\ LET s == run[r].seq IN
       IF sealed[s].there
         THEN Goto(r, "fail") /\ UNCHANGED tmp
         ELSE Goto(r, "mkdir") /\ tmp' = [tmp EXCEPT ![s] = Absent]
  /\ UNCHANGED <<overlap, task, live, out, sealed, latest, latestTmp, rows, tiles>>

\* copytree creates the directory (an error when it exists) and lists the
\* source.
MakeTmp(r) ==
  /\ run[r].pc = "mkdir"
  /\ LET s == run[r].seq IN
       IF tmp[s].there
         THEN Goto(r, "fail") /\ UNCHANGED tmp
         ELSE /\ tmp' = [tmp EXCEPT ![s] = MadeDir]
              /\ run' = [run EXCEPT ![r].pc = "copy",
                                    ![r].todo = {f \in Files : Source(r)[f] # NoRun}]
  /\ UNCHANGED <<overlap, task, live, out, sealed, latest, latestTmp, rows, tiles>>

\* copytree copies one file; a missing directory is an error it collects.
CopyFile(r, f) ==
  /\ run[r].pc = "copy" /\ f \in run[r].todo
  /\ LET s == run[r].seq IN
       /\ tmp' = IF tmp[s].there
                   THEN [tmp EXCEPT ![s].files[f] = Source(r)[f]] ELSE tmp
       /\ run' = [run EXCEPT ![r].todo = @ \ {f}, ![r].bad = @ \/ ~tmp[s].there]
  /\ UNCHANGED <<overlap, task, live, out, sealed, latest, latestTmp, rows, tiles>>

\* copytree returns, or raises what it collected.
EndCopy(r) ==
  /\ run[r].pc = "copy" /\ run[r].todo = {}
  /\ Goto(r, IF run[r].bad THEN "fail" ELSE "summary")
  /\ UNCHANGED <<overlap, task, disk, rows, tiles>>

\* summary.json, then the .complete marker, into whatever directory now has
\* the temporary's name.
WriteSummary(r) ==
  /\ run[r].pc = "summary"
  /\ LET s == run[r].seq IN
       IF tmp[s].there
         THEN tmp' = [tmp EXCEPT ![s].summary = r] /\ Goto(r, "complete")
         ELSE Goto(r, "fail") /\ UNCHANGED tmp
  /\ UNCHANGED <<overlap, task, live, out, sealed, latest, latestTmp, rows, tiles>>

WriteComplete(r) ==
  /\ run[r].pc = "complete"
  /\ LET s == run[r].seq IN
       IF tmp[s].there
         THEN tmp' = [tmp EXCEPT ![s].complete = TRUE] /\ Goto(r, "publish")
         ELSE Goto(r, "fail") /\ UNCHANGED tmp
  /\ UNCHANGED <<overlap, task, live, out, sealed, latest, latestTmp, rows, tiles>>

\* os.replace of a directory: the source must exist, a non-empty target is
\* an error.
Publish(r) ==
  /\ run[r].pc = "publish"
  /\ LET s == run[r].seq IN
       IF tmp[s].there /\ ~sealed[s].there
         THEN /\ sealed' = [sealed EXCEPT ![s] = tmp[s]]
              /\ tmp' = [tmp EXCEPT ![s] = Absent]
              /\ Goto(r, "pointer")
         ELSE Goto(r, "fail") /\ UNCHANGED <<sealed, tmp>>
  /\ UNCHANGED <<overlap, task, live, out, latest, latestTmp, rows, tiles>>

\* Slip: the pointer holds the next free number instead of the last one used.
WritePointerNext(r) ==
  /\ run[r].pc = "pointer"
  /\ latestTmp' = run[r].seq + 1
  /\ Goto(r, "swap")
  /\ UNCHANGED <<overlap, task, live, out, tmp, sealed, latest, rows, tiles>>

\* _set_latest: write .latest.tmp (one short write), then rename it.
WritePointer(r) ==
  /\ run[r].pc = "pointer"
  /\ latestTmp' = run[r].seq
  /\ Goto(r, "swap")
  /\ UNCHANGED <<overlap, task, live, out, tmp, sealed, latest, rows, tiles>>

SwapPointer(r) ==
  /\ run[r].pc = "swap"
  /\ IF latestTmp # 0
       THEN latest' = latestTmp /\ latestTmp' = 0 /\ Goto(r, "report")
       ELSE Goto(r, "fail") /\ UNCHANGED <<latest, latestTmp>>
  /\ UNCHANGED <<overlap, task, live, out, tmp, sealed, rows, tiles>>

----------------------------------------------------------------------------
(* The terminal commit, which the lease protocol grants to the owner only   *)

\* record_mapping_result replaces the SubModel rows by those of this run.
Report(r) ==
  /\ run[r].pc = "report"
  /\ Goto(r, "done")
  /\ IF task[run[r].task] = [status |-> "running", owner |-> r]
       THEN /\ task' = [task EXCEPT ![run[r].task].status = "succeeded"]
            /\ rows' = IF run[r].task \in MapTasks
                         THEN [seq |-> run[r].seq, run |-> r] ELSE rows
       ELSE UNCHANGED <<task, rows>>
  /\ UNCHANGED <<overlap, disk, tiles>>

\* The exception of a sealing step ends the task.
Fail(r) ==
  /\ run[r].pc = "fail"
  /\ Goto(r, "dead")
  /\ task' = IF task[run[r].task] = [status |-> "running", owner |-> r]
               THEN [task EXCEPT ![run[r].task].status = "failed"] ELSE task
  /\ UNCHANGED <<overlap, disk, rows, tiles>>

----------------------------------------------------------------------------
(* Octree tiles, generated by the web process on the first request *)

\* generate_tiles: every tile of every level, then index.json.
Generated(level) == [index |-> level, levels |-> 0 .. level]

\* ensure_index: an index that exists is served whatever level it has.
EnsureIndex(s, level) ==
  IF tiles[s].index >= 0 THEN tiles[s] ELSE Generated(level)

\* GET tiles/index.json?max_level=, or a tile (default level): both check
\* the marker and make sure that an index exists.
RequestTiles(s, level) ==
  /\ s \in Listed
  /\ tiles' = [tiles EXCEPT ![s] = EnsureIndex(s, level)]
  /\ UNCHANGED <<overlap, task, run, disk, rows>>

\* The web process dies while it writes the tiles of a level.
TilesCrash(s, level) ==
  /\ s \in Listed /\ tiles[s].index < 0
  /\ tiles' = [tiles EXCEPT ![s].levels = @ \cup 0 .. level]
  /\ UNCHANGED <<overlap, task, run, disk, rows>>

----------------------------------------------------------------------------
Sealing(r) ==
  \/ PickSeq(r) \/ CheckTarget(r) \/ MakeTmp(r)
  \/ \E f \in Files : Emit(r, f) \/ CopyFile(r, f)
  \/ EndCopy(r) \/ WriteSummary(r) \/ WriteComplete(r) \/ Publish(r)
  \/ WritePointer(r) \/ SwapPointer(r) \/ Report(r) \/ Fail(r)

Next ==
  \/ \E t \in Tasks : (\E emits \in Emissions(t) : Start(t, emits)) \/ Reclaim(t) \/ Resume(t)
  \/ \E r \in Runs : Sealing(r) \/ Crash(r)
  \/ \E s \in TileSeqs \cap Seqs, level \in 0 .. MaxLevel :
       RequestTiles(s, level) \/ TilesCrash(s, level)

Spec == Init /\ [][Next]_vars

----------------------------------------------------------------------------
(* Properties *)

DirType == [there : BOOLEAN, files : [Files -> Runs \cup {NoRun}],
            summary : Runs \cup {NoRun}, complete : BOOLEAN]

\* Type invariant. A sequence number never runs past the executions there are,
\* although it is computed from a pointer other workers write.
TypeOK ==
  /\ overlap \in Overlaps
  /\ task \in [Tasks -> [status : {"pending", "running", "succeeded", "failed"},
                         owner : Runs \cup {NoRun}]]
  /\ run \in [Runs -> [pc : Steps \cup {"unborn", "done", "dead"}, task : Tasks,
                       emits : SUBSET Files, todo : SUBSET Files, seq : 0 .. MaxRuns, bad : BOOLEAN]]
  /\ live \in [Files -> Runs \cup {NoRun}]
  /\ out \in [DerivedTasks -> [Files -> Runs \cup {NoRun}]]
  /\ tmp \in [Seqs -> DirType] /\ sealed \in [Seqs -> DirType]
  /\ latest \in 0 .. MaxRuns /\ latestTmp \in 0 .. MaxRuns
  /\ rows \in [seq : 0 .. MaxRuns, run : Runs \cup {NoRun}]
  /\ tiles \in [Seqs -> [index : -1 .. MaxLevel, levels : SUBSET (0 .. MaxLevel)]]

\* Nothing the execution whose summary it holds wrote is missing or another's.
Whole(d) ==
  /\ d.complete /\ d.summary # NoRun
  /\ \A f \in run[d.summary].emits : d.files[f] = d.summary

\* While one worker seals at a time, every published directory is whole: it
\* carries its marker and every file that the execution whose summary it holds
\* has written, whatever crashes and leftover temporaries came before
\* (SnapshotStore.seal: rmtree, copytree, summary, marker, rename).  An execution
\* of map whose backend returned no reconstruction has written none and seals what
\* it finds in sparse/: nothing, or the model of an earlier execution.
SealedWhole == ~overlap => \A s \in Seqs : sealed[s].there => Whole(sealed[s])

\* While one worker seals at a time, the `latest` pointer names a sealed
\* snapshot and lags the last one by at most one, so a crash between the rename
\* of the directory and the rename of the pointer hides one snapshot, never two.
PointerLag ==
  ~overlap => /\ latest # 0 => latest \in Listed
              /\ \A s \in Listed : s <= Latest + 1

\* A published snapshot is never changed or replaced, also while other workers
\* seal: the file routes answer with `immutable` cache headers.
SealedImmutable ==
  [][\A s \in Seqs : sealed[s].there => sealed'[s] = sealed[s]]_vars

\* What the module header of storage/snapshots.py says of every deployment, and
\* the code keeps only while one worker seals at a time: a listed snapshot is
\* whole.
ListedIsWhole == \A s \in Listed : Whole(sealed[s])

\* A worker that seals alone always gets a free sequence number. Violated: after
\* a crash between the two renames every later seal of the reconstruction finds
\* its target taken.
SealFindsFreeSeq ==
  ~overlap => \A r \in Runs : run[r].pc = "check" => ~sealed[run[r].seq].there

\* A sealed snapshot holds no file of another execution. Violated: sparse/ keeps
\* rigs.json and frames.json of an earlier mapping that had them, and all of its
\* files when this one returned no reconstruction.
NoStaleFiles ==
  ~overlap => \A s \in Listed, f \in Files : sealed[s].files[f] \in {NoRun, sealed[s].summary}

\* A listed snapshot has the files every reconstruction has. Violated by a map whose
\* backend returned no reconstruction, and by a derived task whose backend wrote none.
ListedHasModel == \A s \in Listed, f \in Mandatory : sealed[s].files[f] # NoRun

\* A tile the default generation would have is on disk once there is an index,
\* so that "not present (empty cell)" is true. Violated: the first request's
\* max_level decides for ever.
EmptyCellIsEmpty ==
  \A s \in Seqs : tiles[s].index >= 0 => DefaultLevel \in tiles[s].levels
=============================================================================
