----------------------------- MODULE FilesProofs -----------------------------
(***************************************************************************)
(* Theorems about the two components that write a file apart and publish   *)
(* it by a rename.                                                         *)
(*                                                                         *)
(* Snapshots, for every deployment: type correctness, whose hard part is   *)
(* that a sequence number never runs past the executions, and that a       *)
(* published directory never changes. While one worker seals at a time:    *)
(* published directories are whole and the pointer lags by one.            *)
(*                                                                         *)
(* Uploads, for any uploads, contents, keys, numbers of concurrent         *)
(* requests, faults and either blob store: a working file is a prefix of   *)
(* what the client sends, a finalized upload is whole, and a key has one   *)
(* upload.                                                                 *)
(***************************************************************************)
EXTENDS Snapshots, Uploads, FiniteSetTheorems, SequenceTheorems, WellFoundedInduction, TLAPS

-----------------------------------------------------------------------------
(* Extrema of sets of numbers, from the well-foundedness of < on Nat. *)

LEMMA LeastNat ==
  ASSUME NEW S \in SUBSET Nat, S # {}
  PROVE  \E x \in S : \A y \in S : x <= y
<1>1. PICK x \in S : \A y \in S : ~(<<y, x>> \in OpToRel(<, Nat))
  BY NatLessThanWellFounded, WFMin
<1>2. OpToRel(<, Nat) = {p \in Nat \X Nat : p[1] < p[2]}
  BY Zenon DEF OpToRel
<1>3. \A y \in S : ~(<<y, x>> \in {p \in Nat \X Nat : p[1] < p[2]})
  BY Zenon, <1>1, <1>2
<1>4. \A y \in S : ~(y < x)
  BY <1>3
<1> QED BY <1>4

LEMMA LargestBelow ==
  ASSUME NEW n \in Nat, NEW S \in SUBSET (0 .. n), S # {}
  PROVE  \E x \in S : \A y \in S : y <= x
<1> DEFINE D == {n - x : x \in S}
<1>1. D \in SUBSET Nat /\ D # {}
  <2>1. PICK e \in S : TRUE
    OBVIOUS
  <2>2. n - e \in D
    OBVIOUS
  <2>3. ASSUME NEW d \in D PROVE d \in Nat
    <3>1. PICK x \in S : d = n - x
      OBVIOUS
    <3> QED BY <3>1
  <2> QED BY <2>2, <2>3
<1>2. PICK d \in D : \A y \in D : d <= y
  BY <1>1, LeastNat
<1>3. PICK x \in S : d = n - x
  OBVIOUS
<1>4. ASSUME NEW y \in S PROVE y <= x
  <2>1. n - x <= n - y
    BY <1>2, <1>3
  <2> QED BY <2>1
<1> QED BY <1>4

-----------------------------------------------------------------------------
(* The inductive invariants. *)

RunType == [pc : Steps \cup {"unborn", "done", "dead"}, task : Tasks,
            emits : SUBSET Files, todo : SUBSET Files, seq : 0 .. MaxRuns, bad : BOOLEAN]

\* The executions that have chosen a sequence number.
Picked == {r \in Runs : run[r].seq # 0}

\* Steps that come after the choice of a sequence number.
Numbered == Steps \ {"emit", "pick", "fail"}

\* A number is chosen once by each execution, as one more than a number some
\* execution chose before: so no number exceeds the count of those executions.
NumbersCounted ==
  LET count == Cardinality(Picked) IN
  /\ \A r \in Runs : /\ run[r].seq <= count
                     /\ run[r].pc \in {"unborn", "emit", "pick"} => run[r].seq = 0
                     /\ run[r].pc \in Numbered => run[r].seq # 0
  /\ latest <= count /\ latestTmp <= count
  /\ \A s \in Seqs : sealed[s].there => s <= count

TypeInv == TypeOK /\ NumbersCounted

\* Of the files that execution r writes, those in directory d are its own but for the
\* ones still to be written.
FilesOf(d, r, todo, emits) == \A f \in emits : f \in todo \/ d[f] = r

\* What the only active execution has achieved at each of its steps.
Progress(r) ==
  LET s == run[r].seq IN
  /\ run[r].pc = "emit" => FilesOf(Source(r), r, run[r].todo, run[r].emits)
  /\ run[r].pc \in {"pick", "check", "mkdir", "copy"} => FilesOf(Source(r), r, {}, run[r].emits)
  /\ run[r].pc = "copy" => tmp[s].there /\ FilesOf(tmp[s].files, r, run[r].todo, run[r].emits)
  /\ run[r].pc \in {"summary", "complete", "publish"} =>
       tmp[s].there /\ FilesOf(tmp[s].files, r, {}, run[r].emits)
  /\ run[r].pc \in {"complete", "publish"} => tmp[s].summary = r
  /\ run[r].pc = "publish" => tmp[s].complete
  /\ run[r].pc \in {"check", "mkdir", "copy", "summary", "complete", "publish"} =>
       s = Latest + 1
  /\ run[r].pc \in {"pointer", "swap"} => s \in Listed /\ \A u \in Listed : u <= s
  /\ run[r].pc = "swap" => latestTmp = s

OneActive == \A q, r \in Runs : Active(q) /\ Active(r) => q = r

\* A directory that is whole, of an execution that has begun.
Genuine(d) == Whole(d) /\ d.summary \in Runs /\ run[d.summary].pc # "unborn"

Alone ==
  /\ OneActive
  /\ \A r \in Runs : Active(r) => Progress(r)
  /\ \A s \in Seqs : sealed[s].there => Genuine(sealed[s])
  /\ latest # 0 => latest \in Listed
  /\ \A s \in Listed : s <= Latest + 1

AloneInv == ~overlap => Alone

-----------------------------------------------------------------------------
(* Facts about the operators. *)

LEMMA ConstantFacts ==
  /\ MaxRuns \in Nat /\ MaxRuns # 0 /\ 0 \notin Runs
  /\ NoFiles \in [Files -> Runs \cup {NoRun}]
  /\ Absent \in DirType /\ ~Absent.there
  /\ MadeDir \in DirType /\ MadeDir.there
  /\ Unborn \in RunType /\ Unborn.seq = 0
  /\ NoTiles \in [index : -1 .. MaxLevel, levels : SUBSET (0 .. MaxLevel)]
<1>1. MaxRuns \in Nat /\ MaxRuns # 0 /\ 0 \notin Runs
  BY SnapshotsAssumption DEF Runs
<1>2. NoFiles \in [Files -> Runs \cup {NoRun}]
  BY DEF NoFiles
<1>3. Absent \in DirType /\ ~Absent.there /\ MadeDir \in DirType /\ MadeDir.there
  BY <1>2 DEF Absent, MadeDir, DirType
<1>4. Unborn \in RunType /\ Unborn.seq = 0
  <2>1. (CHOOSE t \in Tasks : TRUE) \in Tasks
    BY SnapshotsAssumption
  <2> QED BY <1>1, <2>1 DEF Unborn, RunType
<1>5. NoTiles \in [index : -1 .. MaxLevel, levels : SUBSET (0 .. MaxLevel)]
  BY SnapshotsAssumption DEF NoTiles
<1> QED BY <1>1, <1>2, <1>3, <1>4, <1>5

LEMMA TypeFacts ==
  ASSUME TypeOK
  PROVE  /\ run \in [Runs -> RunType]
         /\ \A r \in Runs : Source(r) \in [Files -> Runs \cup {NoRun}]
BY DEF TypeOK, RunType, Source, Tasks

\* Latest is the pointer, or the greatest of the listed numbers.
LEMMA LatestFacts ==
  ASSUME TypeOK
  PROVE  /\ Latest \in 0 .. MaxRuns
         /\ latest # 0 => Latest = latest
         /\ latest = 0 /\ Listed = {} => Latest = 0
         /\ latest = 0 /\ Listed # {} => Latest \in Listed /\ \A u \in Listed : u <= Latest
<1>1. Listed \in SUBSET (0 .. MaxRuns) /\ MaxRuns \in Nat
  BY ConstantFacts DEF Listed, Seqs
<1>2. Listed # {} => \E s \in Listed : \A u \in Listed : u <= s
  BY <1>1, LargestBelow
<1>3. latest \in 0 .. MaxRuns
  BY DEF TypeOK
<1> QED BY <1>1, <1>2, <1>3 DEF Latest

\* There are no more executions with a number than executions.
LEMMA PickedFacts ==
  /\ IsFiniteSet(Picked) /\ Cardinality(Picked) \in 0 .. MaxRuns
  /\ Picked # Runs => Cardinality(Picked) < MaxRuns
<1>1. IsFiniteSet(Runs) /\ Cardinality(Runs) = MaxRuns
  <2>1. MaxRuns \in Int /\ 1 \in Int /\ ~(1 > MaxRuns) /\ MaxRuns - 1 + 1 = MaxRuns
    BY ConstantFacts
  <2> QED BY <2>1, FS_Interval DEF Runs
<1>2. Picked \subseteq Runs
  BY DEF Picked
<1>3. IsFiniteSet(Picked) /\ Cardinality(Picked) <= MaxRuns
      /\ (Picked # Runs => Cardinality(Picked) < MaxRuns)
  BY <1>1, <1>2, FS_Subset, FS_CardinalityType, ConstantFacts
<1> QED BY <1>3, FS_CardinalityType, ConstantFacts

LEMMA PickedSame ==
  ASSUME TypeOK, run' \in [Runs -> RunType], \A r \in Runs : run'[r].seq = run[r].seq
  PROVE  Picked' = Picked
BY DEF Picked

\* A step that leaves the numbers alone, and moves an execution only among steps
\* that need one, keeps the count.
LEMMA NumbersKept ==
  ASSUME TypeInv, run' \in [Runs -> RunType],
         \A r \in Runs : /\ run'[r].seq = run[r].seq
                         /\ \/ run'[r].pc = run[r].pc
                            \/ run'[r].pc \notin Numbered \cup {"unborn", "emit", "pick"}
                            \/ run[r].pc \in Numbered /\ run'[r].pc \in Numbered
                            \/ /\ run[r].pc \in {"unborn", "emit", "pick"}
                               /\ run'[r].pc \in {"unborn", "emit", "pick"},
         \/ latest' = latest
         \/ latest' = latestTmp,
         \/ latestTmp' = latestTmp
         \/ latestTmp' = 0
         \/ \E r \in Runs : latestTmp' = run[r].seq,
         \A s \in Seqs : sealed'[s].there =>
           sealed[s].there \/ \E r \in Runs : s = run[r].seq
  PROVE  NumbersCounted'
<1>1. Cardinality(Picked') = Cardinality(Picked) /\ Cardinality(Picked) \in Nat
  BY PickedSame, PickedFacts DEF TypeInv
<1>2. \A r \in Runs : /\ run'[r].seq <= Cardinality(Picked')
                      /\ run'[r].pc \in {"unborn", "emit", "pick"} => run'[r].seq = 0
                      /\ run'[r].pc \in Numbered => run'[r].seq # 0
  <2> TAKE r \in Runs
  <2>1. run'[r].seq <= Cardinality(Picked')
    BY <1>1 DEF TypeInv, NumbersCounted
  <2>2. run'[r].pc \in {"unborn", "emit", "pick"} => run'[r].seq = 0
    BY DEF TypeInv, NumbersCounted, Numbered, Steps
  <2>3. run'[r].pc \in Numbered => run'[r].seq # 0
    BY DEF TypeInv, NumbersCounted, Numbered, Steps
  <2> QED BY <2>1, <2>2, <2>3
<1>3. latest' <= Cardinality(Picked') /\ latestTmp' <= Cardinality(Picked')
  BY <1>1 DEF TypeInv, NumbersCounted
<1>4. \A s \in Seqs : sealed'[s].there => s <= Cardinality(Picked')
  BY <1>1 DEF TypeInv, NumbersCounted
<1> QED BY <1>2, <1>3, <1>4 DEF NumbersCounted, Numbered, Steps

-----------------------------------------------------------------------------
(* Type correctness, for every deployment. *)

LEMMA TypeInit == Init => TypeInv
<1> SUFFICES ASSUME Init PROVE TypeInv
  OBVIOUS
<1> USE ConstantFacts
<1>1. TypeOK
  BY SnapshotsAssumption DEF Init, TypeOK, RunType, NoRun
<1>2. NumbersCounted
  <2>1. Cardinality(Picked) \in Nat
    BY PickedFacts
  <2>2. \A r \in Runs : run[r].seq = 0 /\ run[r].pc = "unborn"
    BY DEF Init, Unborn
  <2>3. latest = 0 /\ latestTmp = 0 /\ \A s \in Seqs : ~sealed[s].there
    BY DEF Init
  <2> QED BY <2>1, <2>2, <2>3 DEF NumbersCounted, Numbered, Steps
<1> QED BY <1>1, <1>2 DEF TypeInv

\* An execution r moves to step pc and keeps its number.
Moves(r, pc) ==
  /\ run' \in [Runs -> RunType]
  /\ \A q \in Runs : /\ run'[q].seq = run[q].seq
                     /\ run'[q].pc = IF q = r THEN pc ELSE run[q].pc

\* Steps an execution may take from step `from` without choosing a number.
Onward(from) ==
  {"fail", "done", "dead"} \cup IF from \in Numbered THEN Numbered
                                ELSE IF from = "fail" THEN {} ELSE {"emit", "pick"}

LEMMA GotoMoves ==
  ASSUME TypeInv, NEW r \in Runs, NEW pc \in Steps \cup {"done", "dead"}, Goto(r, pc)
  PROVE  Moves(r, pc)
<1>1. run \in [Runs -> RunType]
  BY TypeFacts DEF TypeInv
<1> QED BY <1>1 DEF Goto, Moves, RunType

LEMMA MovesKeepNumbers ==
  ASSUME TypeInv, NEW r \in Runs, run[r].pc \in Steps \cup {"unborn"},
         NEW pc \in Onward(run[r].pc), Moves(r, pc),
         latest' = latest \/ latest' = latestTmp,
         latestTmp' = latestTmp \/ latestTmp' = 0 \/ latestTmp' = run[r].seq,
         \A s \in Seqs : sealed'[s].there => sealed[s].there \/ s = run[r].seq
  PROVE  NumbersCounted'
<1>1. run' \in [Runs -> RunType]
  BY DEF Moves
<1>2. \A q \in Runs :
        /\ run'[q].seq = run[q].seq
        /\ \/ run'[q].pc = run[q].pc
           \/ run'[q].pc \notin Numbered \cup {"unborn", "emit", "pick"}
           \/ run[q].pc \in Numbered /\ run'[q].pc \in Numbered
           \/ /\ run[q].pc \in {"unborn", "emit", "pick"}
              /\ run'[q].pc \in {"unborn", "emit", "pick"}
  BY DEF Moves, Onward, Numbered, Steps
<1>3. \A s \in Seqs : sealed'[s].there =>
         sealed[s].there \/ \E q \in Runs : s = run[q].seq
  OBVIOUS
<1> QED BY <1>1, <1>2, <1>3, NumbersKept

LEMMA TypeStep == TypeInv /\ [Next]_vars => TypeInv'
<1> SUFFICES ASSUME TypeInv, [Next]_vars PROVE TypeInv'
  OBVIOUS
<1>0. TypeOK /\ NumbersCounted /\ run \in [Runs -> RunType]
  BY TypeFacts DEF TypeInv
<1>1. ASSUME NEW t \in Tasks, NEW o \in Emissions(t), Start(t, o) PROVE TypeInv'
  <2> DEFINE pc == IF o = {} THEN "pick" ELSE "emit"
  <2>1. PICK r \in Runs :
          /\ run[r].pc = "unborn"
          /\ run' = [run EXCEPT ![r] = [Unborn EXCEPT !.pc = pc, !.task = t, !.emits = o,
                                                      !.todo = o]]
          /\ task' = [task EXCEPT ![t] = [status |-> "running", owner |-> r]]
          /\ UNCHANGED <<overlap, disk, rows, tiles>>
    BY <1>1 DEF Start
  <2>2. [Unborn EXCEPT !.pc = pc, !.task = t, !.emits = o, !.todo = o] \in RunType
    <3>1. o \in SUBSET Files
      BY DEF Emissions, Files
    <3> QED BY <3>1, ConstantFacts DEF RunType, Steps, Unborn
  <2>3. run' \in [Runs -> RunType]
    BY <1>0, <2>1, <2>2
  <2>4. TypeOK'
    BY <1>0, <2>1, <2>3 DEF TypeOK, RunType, disk
  <2>5. Moves(r, pc)
    BY <1>0, <2>1, <2>3 DEF NumbersCounted, Unborn, RunType, Moves
  <2>6. NumbersCounted'
    <3>1. run[r].pc \in Steps \cup {"unborn"} /\ pc \in Onward(run[r].pc)
      BY <2>1 DEF Onward, Numbered, Steps
    <3> QED BY <2>1, <2>5, <3>1, MovesKeepNumbers DEF disk
  <2> QED BY <2>4, <2>6 DEF TypeInv
<1>2. ASSUME NEW t \in Tasks, Reclaim(t) \/ Resume(t) PROVE TypeInv'
  <2>1. TypeOK'
    BY <1>0, <1>2 DEF TypeOK, Reclaim, Resume, disk
  <2>2. Picked' = Picked /\ UNCHANGED <<run, latest, latestTmp, sealed>>
    BY <1>2 DEF Reclaim, Resume, disk, Picked
  <2> QED BY <1>0, <2>1, <2>2 DEF TypeInv, NumbersCounted
<1>3. ASSUME NEW r \in Runs, Crash(r) PROVE TypeInv'
  <2>1. Moves(r, "dead")
    BY <1>3, GotoMoves DEF Crash, Goto
  <2>2. TypeOK'
    BY <1>0, <1>3, <2>1 DEF TypeOK, Crash, disk, Moves, RunType
  <2>3. NumbersCounted'
    BY <1>3, <2>1, MovesKeepNumbers DEF Crash, Active, disk, Onward
  <2> QED BY <2>2, <2>3 DEF TypeInv
<1>4. ASSUME NEW r \in Runs, NEW f \in Files, Emit(r, f) PROVE TypeInv'
  <2> DEFINE pc == IF run[r].todo = {f} THEN "pick" ELSE "emit"
  <2>1. Moves(r, pc)
    <3>1. [run[r] EXCEPT !.todo = @ \ {f}, !.pc = pc] \in RunType
      BY <1>0 DEF RunType, Steps
    <3>2. run' = [run EXCEPT ![r] = [run[r] EXCEPT !.todo = @ \ {f}, !.pc = pc]]
      BY <1>0, <1>4 DEF Emit, RunType
    <3> QED BY <1>0, <3>1, <3>2 DEF Moves, RunType
  <2>2. TypeOK'
    <3>1. live' \in [Files -> Runs \cup {NoRun}]
      BY <1>0, <1>4 DEF Emit, TypeOK
    <3>2. out' \in [DerivedTasks -> [Files -> Runs \cup {NoRun}]]
      <4>1. run[r].task \notin MapTasks => run[r].task \in DerivedTasks
        BY <1>0 DEF RunType, Tasks
      <4>2. CASE run[r].task \in DerivedTasks
        <5>1. [out[run[r].task] EXCEPT ![f] = r] \in [Files -> Runs \cup {NoRun}]
          BY <1>0, <4>2 DEF TypeOK
        <5>2. out' = out \/ out' = [out EXCEPT ![run[r].task] = [out[run[r].task] EXCEPT ![f] = r]]
          BY <1>0, <1>4 DEF Emit, TypeOK
        <5> QED BY <1>0, <4>2, <5>1, <5>2 DEF TypeOK
      <4>3. CASE run[r].task \in MapTasks
        BY <1>0, <1>4, <4>3 DEF Emit, TypeOK
      <4> QED BY <4>1, <4>2, <4>3
    <3> QED BY <1>0, <1>4, <2>1, <3>1, <3>2 DEF TypeOK, Emit, Moves, RunType
  <2>3. NumbersCounted'
    <3>1. run[r].pc \in Steps /\ pc \in Onward(run[r].pc)
      BY <1>4 DEF Emit, Onward, Numbered, Steps
    <3>2. UNCHANGED <<latest, latestTmp, sealed>>
      BY <1>4 DEF Emit
    <3> QED BY <2>1, <3>1, <3>2, MovesKeepNumbers
  <2> QED BY <2>2, <2>3 DEF TypeInv
<1>5. ASSUME NEW r \in Runs, PickSeq(r) PROVE TypeInv'
  <2>1. run[r].seq = 0 /\ Latest + 1 <= Cardinality(Picked) + 1
        /\ Cardinality(Picked) < MaxRuns
    <3>1. run[r].seq = 0
      BY <1>0, <1>5 DEF PickSeq, NumbersCounted
    <3>2. Latest <= Cardinality(Picked)
      BY <1>0, PickedFacts, LatestFacts DEF NumbersCounted, Listed, Seqs
    <3>3. Picked # Runs
      BY <3>1 DEF Picked
    <3> QED BY <1>0, <3>1, <3>2, <3>3, PickedFacts, LatestFacts, ConstantFacts
  <2>2. Latest + 1 \in 1 .. MaxRuns
    BY <1>0, <2>1, PickedFacts, LatestFacts, ConstantFacts
  <2>3. run' \in [Runs -> RunType]
    <3>1. [run[r] EXCEPT !.pc = "check", !.seq = Latest + 1] \in RunType
      <4>1. Latest + 1 \in 0 .. MaxRuns
        BY <2>2
      <4> QED BY <1>0, <4>1 DEF RunType, Steps
    <3>2. run' = [run EXCEPT ![r] = [run[r] EXCEPT !.pc = "check", !.seq = Latest + 1]]
      BY <1>0, <1>5 DEF PickSeq, RunType
    <3> QED BY <1>0, <3>1, <3>2
  <2>4. TypeOK'
    BY <1>0, <1>5, <2>3 DEF TypeOK, PickSeq, disk, RunType
  <2>5. Cardinality(Picked') = Cardinality(Picked) + 1
    <3>1. Picked' = Picked \cup {r} /\ r \notin Picked
      BY <1>0, <1>5, <2>1, <2>2 DEF PickSeq, Picked, RunType
    <3> QED BY <3>1, PickedFacts, FS_AddElement
  <2>6. NumbersCounted'
    <3>1. \A q \in Runs :
            /\ run'[q].seq <= Cardinality(Picked')
            /\ run'[q].pc \in {"unborn", "emit", "pick"} => run'[q].seq = 0
            /\ run'[q].pc \in Numbered => run'[q].seq # 0
      <4>1. run'[r].pc = "check" /\ run'[r].seq = Latest + 1
        BY <1>0, <1>5 DEF PickSeq, RunType
      <4>2. \A q \in Runs \ {r} : run'[q] = run[q]
        BY <1>0, <1>5 DEF PickSeq
      <4> QED BY <1>0, <2>1, <2>2, <2>5, <4>1, <4>2, PickedFacts DEF NumbersCounted, RunType
    <3>2. UNCHANGED <<latest, latestTmp, sealed>>
      BY <1>5 DEF PickSeq, disk
    <3> QED BY <1>0, <2>5, <3>1, <3>2, PickedFacts DEF NumbersCounted, TypeOK, Seqs
  <2> QED BY <2>4, <2>6 DEF TypeInv
<1>6. ASSUME NEW r \in Runs,
             CheckTarget(r) \/ EndCopy(r) \/ WriteSummary(r) \/ WriteComplete(r)
      PROVE  TypeInv'
  <2>1. PICK pc \in Numbered \cup {"fail"} : Goto(r, pc)
    BY <1>6 DEF CheckTarget, EndCopy, WriteSummary, WriteComplete, Numbered, Steps
  <2>2. Moves(r, pc)
    BY <2>1, GotoMoves DEF Numbered, Steps
  <2>3. tmp' \in [Seqs -> DirType]
    <3>1. tmp \in [Seqs -> DirType]
      BY <1>0 DEF TypeOK
    <3>2. run[r].seq \in Seqs
      BY <1>0, <1>6 DEF CheckTarget, EndCopy, WriteSummary, WriteComplete, NumbersCounted,
                        Numbered, Steps, RunType, Seqs
    <3>3. CASE CheckTarget(r)
      BY <3>1, <3>2, <3>3, ConstantFacts DEF CheckTarget
    <3>4. CASE EndCopy(r)
      BY <3>1, <3>4 DEF EndCopy, disk
    <3>5. CASE WriteSummary(r)
      BY <3>1, <3>2, <3>5 DEF WriteSummary, DirType
    <3>6. CASE WriteComplete(r)
      <4>1. [tmp[run[r].seq] EXCEPT !.complete = TRUE] \in DirType
        BY <3>1, <3>2 DEF DirType
      <4>2. tmp' = tmp \/ tmp' = [tmp EXCEPT ![run[r].seq] = [tmp[run[r].seq] EXCEPT !.complete = TRUE]]
        BY <3>1, <3>6 DEF WriteComplete
      <4> QED BY <3>1, <3>2, <4>1, <4>2
    <3> QED BY <1>6, <3>3, <3>4, <3>5, <3>6
  <2>4. UNCHANGED <<overlap, task, live, out, sealed, latest, latestTmp, rows, tiles>>
    BY <1>6 DEF CheckTarget, EndCopy, WriteSummary, WriteComplete, disk
  <2>5. TypeOK'
    BY <1>0, <2>2, <2>3, <2>4 DEF TypeOK, Moves, RunType
  <2>6. NumbersCounted'
    <3>1. run[r].pc \in Numbered
      BY <1>6 DEF CheckTarget, EndCopy, WriteSummary, WriteComplete, Numbered, Steps
    <3>2. run[r].pc \in Steps /\ pc \in Onward(run[r].pc)
      BY <3>1 DEF Onward, Numbered
    <3> QED BY <2>2, <2>4, <3>2, MovesKeepNumbers
  <2> QED BY <2>5, <2>6 DEF TypeInv
<1>7. ASSUME NEW r \in Runs, MakeTmp(r) PROVE TypeInv'
  <2>1. PICK pc \in {"copy", "fail"} : Moves(r, pc)
    <3>1. CASE tmp[run[r].seq].there
      BY <1>7, <3>1, GotoMoves DEF MakeTmp, Steps
    <3>2. CASE ~tmp[run[r].seq].there
      BY <1>0, <1>7, <3>2 DEF MakeTmp, Moves, RunType, Steps
    <3> QED BY <3>1, <3>2
  <2>2. run[r].seq \in Seqs
    BY <1>0, <1>7 DEF MakeTmp, NumbersCounted, Numbered, Steps, RunType, Seqs
  <2>3. TypeOK'
    <3>1. tmp' \in [Seqs -> DirType]
      BY <1>0, <1>7, <2>2, ConstantFacts DEF TypeOK, MakeTmp
    <3> QED BY <1>0, <1>7, <2>1, <3>1 DEF TypeOK, MakeTmp, Moves, RunType
  <2>4. NumbersCounted'
    <3>1. run[r].pc \in Steps /\ pc \in Onward(run[r].pc)
      BY <1>7 DEF MakeTmp, Onward, Numbered, Steps
    <3> QED BY <1>7, <2>1, <3>1, MovesKeepNumbers DEF MakeTmp
  <2> QED BY <2>3, <2>4 DEF TypeInv
<1>8. ASSUME NEW r \in Runs, NEW f \in Files, CopyFile(r, f) PROVE TypeInv'
  <2>1. Moves(r, "copy")
    <3> DEFINE rec == [run[r] EXCEPT !.todo = @ \ {f}, !.bad = @ \/ ~tmp[run[r].seq].there]
    <3>1. (run[r].bad \/ ~tmp[run[r].seq].there) \in BOOLEAN
      OBVIOUS
    <3>2. rec \in RunType /\ rec.seq = run[r].seq /\ rec.pc = run[r].pc
      BY <1>0, <3>1 DEF RunType
    <3>3. run' = [run EXCEPT ![r] = rec]
      BY <1>0, <1>8 DEF CopyFile, RunType
    <3> QED BY <1>0, <1>8, <3>2, <3>3 DEF Moves, CopyFile
  <2>2. TypeOK'
    <3>1. run[r].seq \in Seqs
      BY <1>0, <1>8 DEF CopyFile, NumbersCounted, Numbered, Steps, RunType, Seqs
    <3>2. tmp' \in [Seqs -> DirType]
      <4> DEFINE d == tmp[run[r].seq]
                 new == [d EXCEPT !.files = [d.files EXCEPT ![f] = Source(r)[f]]]
      <4>1. d \in DirType /\ tmp \in [Seqs -> DirType] /\ Source(r)[f] \in Runs \cup {NoRun}
        BY <1>0, <3>1, TypeFacts DEF TypeOK
      <4>2. new \in DirType
        BY <4>1 DEF DirType
      <4>3. tmp' = tmp \/ tmp' = [tmp EXCEPT ![run[r].seq] = new]
        BY <1>8, <4>1 DEF CopyFile
      <4> QED BY <3>1, <4>1, <4>2, <4>3
    <3> QED BY <1>0, <1>8, <2>1, <3>2 DEF TypeOK, CopyFile, Moves, RunType
  <2>3. NumbersCounted'
    <3>1. run[r].pc \in Steps /\ "copy" \in Onward(run[r].pc)
      BY <1>8 DEF CopyFile, Onward, Numbered, Steps
    <3> QED BY <1>8, <2>1, <3>1, MovesKeepNumbers DEF CopyFile
  <2> QED BY <2>2, <2>3 DEF TypeInv
<1>9. ASSUME NEW r \in Runs, Publish(r) PROVE TypeInv'
  <2>1. PICK pc \in {"pointer", "fail"} : Moves(r, pc)
    BY <1>9, GotoMoves DEF Publish, Steps
  <2>2. run[r].seq \in Seqs
    BY <1>0, <1>9 DEF Publish, NumbersCounted, Numbered, Steps, RunType, Seqs
  <2>3. TypeOK'
    <3>1. tmp' \in [Seqs -> DirType] /\ sealed' \in [Seqs -> DirType]
      <4>1. tmp \in [Seqs -> DirType] /\ sealed \in [Seqs -> DirType]
        BY <1>0 DEF TypeOK
      <4>2. CASE tmp[run[r].seq].there /\ ~sealed[run[r].seq].there
        BY <1>9, <2>2, <4>1, <4>2, ConstantFacts DEF Publish
      <4>3. CASE ~(tmp[run[r].seq].there /\ ~sealed[run[r].seq].there)
        BY <1>9, <4>1, <4>3 DEF Publish
      <4> QED BY <4>2, <4>3
    <3> QED BY <1>0, <1>9, <2>1, <3>1 DEF TypeOK, Publish, Moves, RunType
  <2>4. NumbersCounted'
    <3>1. run[r].pc \in Steps /\ pc \in Onward(run[r].pc)
      BY <1>9 DEF Publish, Onward, Numbered, Steps
    <3>2. \A s \in Seqs : sealed'[s].there => sealed[s].there \/ s = run[r].seq
      BY <1>0, <1>9 DEF Publish, TypeOK
    <3>3. UNCHANGED <<latest, latestTmp>>
      BY <1>9 DEF Publish
    <3> QED BY <2>1, <3>1, <3>2, <3>3, MovesKeepNumbers
  <2> QED BY <2>3, <2>4 DEF TypeInv
<1>10. ASSUME NEW r \in Runs, WritePointer(r) \/ SwapPointer(r) PROVE TypeInv'
  <2>1. PICK pc \in {"swap", "report", "fail"} : Moves(r, pc)
    BY <1>10, GotoMoves DEF WritePointer, SwapPointer, Steps
  <2>2. run[r].seq \in 0 .. MaxRuns
    BY <1>0 DEF RunType
  <2>3. TypeOK'
    <3>1. latest' \in 0 .. MaxRuns /\ latestTmp' \in 0 .. MaxRuns
      BY <1>0, <1>10, <2>2, ConstantFacts DEF TypeOK, WritePointer, SwapPointer
    <3>2. UNCHANGED <<overlap, task, live, out, tmp, sealed, rows, tiles>>
      BY <1>10 DEF WritePointer, SwapPointer
    <3> QED BY <1>0, <2>1, <3>1, <3>2 DEF TypeOK, Moves, RunType
  <2>4. NumbersCounted'
    <3>1. run[r].pc \in Steps /\ pc \in Onward(run[r].pc)
      BY <1>10 DEF WritePointer, SwapPointer, Onward, Numbered, Steps
    <3>2. /\ latest' = latest \/ latest' = latestTmp
          /\ latestTmp' = latestTmp \/ latestTmp' = 0 \/ latestTmp' = run[r].seq
          /\ UNCHANGED sealed
      BY <1>10 DEF WritePointer, SwapPointer
    <3> QED BY <2>1, <3>1, <3>2, MovesKeepNumbers
  <2> QED BY <2>3, <2>4 DEF TypeInv
<1>11. ASSUME NEW r \in Runs, Report(r) \/ Fail(r) PROVE TypeInv'
  <2>1. PICK pc \in {"done", "dead"} : Moves(r, pc)
    BY <1>11, GotoMoves DEF Report, Fail
  <2>2. run[r].task \in Tasks /\ run[r].seq \in 0 .. MaxRuns
    BY <1>0 DEF RunType
  <2>3. TypeOK'
    <3>1. task' \in [Tasks -> [status : {"pending", "running", "succeeded", "failed"},
                               owner : Runs \cup {NoRun}]]
      <4>1. \/ task' = task
            \/ \E st \in {"succeeded", "failed"} :
                 task' = [task EXCEPT ![run[r].task] = [task[run[r].task] EXCEPT !.status = st]]
        BY <1>11 DEF Report, Fail
      <4>2. \A st \in {"succeeded", "failed"} :
              [task[run[r].task] EXCEPT !.status = st]
                \in [status : {"pending", "running", "succeeded", "failed"},
                     owner : Runs \cup {NoRun}]
        <5>1. task[run[r].task] \in [status : {"pending", "running", "succeeded", "failed"},
                                     owner : Runs \cup {NoRun}]
          BY <1>0, <2>2 DEF TypeOK
        <5> QED BY <5>1
      <4>3. task \in [Tasks -> [status : {"pending", "running", "succeeded", "failed"},
                                owner : Runs \cup {NoRun}]]
        BY <1>0 DEF TypeOK
      <4> QED BY <2>2, <4>1, <4>2, <4>3
    <3>2. rows' \in [seq : 0 .. MaxRuns, run : Runs \cup {NoRun}]
      BY <1>0, <1>11, <2>2 DEF TypeOK, Report, Fail
    <3>3. run' \in [Runs -> RunType]
      BY <2>1 DEF Moves
    <3>4. UNCHANGED <<overlap, disk, tiles>>
      BY <1>11 DEF Report, Fail
    <3> QED BY <1>0, <3>1, <3>2, <3>3, <3>4 DEF TypeOK, RunType, disk
  <2>4. NumbersCounted'
    <3>1. run[r].pc \in Steps /\ pc \in Onward(run[r].pc)
      BY <1>11 DEF Report, Fail, Onward, Numbered, Steps
    <3> QED BY <1>11, <2>1, <3>1, MovesKeepNumbers DEF Report, Fail, disk
  <2> QED BY <2>3, <2>4 DEF TypeInv
<1>12. ASSUME NEW s \in TileSeqs \cap Seqs, NEW level \in 0 .. MaxLevel,
              RequestTiles(s, level) \/ TilesCrash(s, level)
       PROVE  TypeInv'
  <2>1. tiles' \in [Seqs -> [index : -1 .. MaxLevel, levels : SUBSET (0 .. MaxLevel)]]
    <3>1. level \in -1 .. MaxLevel /\ 0 .. level \subseteq 0 .. MaxLevel
      BY SnapshotsAssumption
    <3>2. Generated(level) \in [index : -1 .. MaxLevel, levels : SUBSET (0 .. MaxLevel)]
      BY <3>1 DEF Generated
    <3> QED BY <1>0, <1>12, <3>1, <3>2 DEF RequestTiles, TilesCrash, EnsureIndex, TypeOK
  <2>2. UNCHANGED <<overlap, task, run, disk, rows>>
    BY <1>12 DEF RequestTiles, TilesCrash
  <2>3. TypeOK'
    BY <1>0, <2>1, <2>2 DEF TypeOK, disk
  <2>4. NumbersCounted'
    <3>1. Picked' = Picked
      BY <2>2 DEF Picked
    <3> QED BY <1>0, <2>2, <3>1 DEF NumbersCounted, disk
  <2> QED BY <2>3, <2>4 DEF TypeInv
<1>13. ASSUME UNCHANGED vars PROVE TypeInv'
  <2>1. Picked' = Picked
    BY <1>13 DEF vars, Picked
  <2> QED BY <1>0, <1>13, <2>1 DEF TypeInv, TypeOK, NumbersCounted, vars, disk
<1> QED BY <1>1, <1>2, <1>3, <1>4, <1>5, <1>6, <1>7, <1>8, <1>9, <1>10, <1>11, <1>12, <1>13
        DEF Next, Sealing

\* Whatever crashes, leftovers and overlapping workers there are, the state keeps
\* its type; in particular `seq = latest + 1` (PickSeq) never leaves the numbers
\* the executions account for.
THEOREM TypeCorrect == Spec => []TypeOK
<1>1. TypeInv => TypeOK
  BY DEF TypeInv
<1> QED BY <1>1, TypeInit, TypeStep, PTL DEF Spec

-----------------------------------------------------------------------------
(* One worker at a time. *)

LEMMA AloneInit == Init => AloneInv
<1> SUFFICES ASSUME Init PROVE Alone
  BY DEF AloneInv
<1>1. \A r \in Runs : ~Active(r)
  BY DEF Init, Unborn, Active, Steps
<1>2. \A s \in Seqs : ~sealed[s].there
  BY ConstantFacts DEF Init
<1>3. Listed = {} /\ latest = 0
  BY <1>2 DEF Listed, Init
<1> QED BY <1>1, <1>2, <1>3 DEF Alone, OneActive

\* What the store answers depends on the directories and the pointer only.
LEMMA AnswersSame ==
  ASSUME UNCHANGED <<sealed, latest>>
  PROVE  Listed' = Listed /\ Latest' = Latest
BY DEF Listed, Latest

\* Of executions that act alone, only the one that acts is active afterwards.
LEMMA ActsAlone ==
  ASSUME TypeInv, Alone, NEW r \in Runs, Active(r), \A q \in Runs \ {r} : run'[q] = run[q]
  PROVE  OneActive' /\ \A q \in Runs \ {r} : ~Active(q)'
BY DEF Alone, OneActive, Active

\* What is published stays whole while no execution forgets what it writes.
LEMMA GenuineKept ==
  ASSUME Alone, UNCHANGED sealed,
         \A q \in Runs : run[q].pc # "unborn" => run'[q].emits = run[q].emits /\ run'[q].pc # "unborn"
  PROVE  \A s \in Seqs : sealed'[s].there => Genuine(sealed[s])'
BY DEF Alone, Genuine, Whole

\* A step of execution r that leaves published directories and the pointer alone
\* has to preserve the progress of r only.
LEMMA AloneUnpublished ==
  ASSUME TypeInv, Alone, NEW r \in Runs, Active(r), \A q \in Runs \ {r} : run'[q] = run[q],
         run'[r].emits = run[r].emits, run'[r].pc # "unborn",
         UNCHANGED <<sealed, latest>>, Active(r)' => Progress(r)'
  PROVE  Alone'
<1>1. OneActive' /\ \A q \in Runs \ {r} : ~Active(q)'
  BY ActsAlone
<1>2. \A q \in Runs : Active(q)' => Progress(q)'
  BY <1>1
<1>3. \A s \in Seqs : sealed'[s].there => Genuine(sealed[s])'
  BY GenuineKept
<1> QED BY <1>1, <1>2, <1>3, AnswersSame DEF Alone

LEMMA AloneStep == TypeInv /\ AloneInv /\ [Next]_vars => AloneInv'
<1> SUFFICES ASSUME TypeInv, AloneInv, [Next]_vars, ~overlap' PROVE Alone'
  BY DEF AloneInv
<1>a. UNCHANGED overlap
  BY DEF Next, Sealing, Start, Reclaim, Resume, Crash, PickSeq, CheckTarget, MakeTmp, Emit,
         CopyFile, EndCopy, WriteSummary, WriteComplete, Publish, WritePointer, SwapPointer,
         Report, Fail, RequestTiles, TilesCrash, vars
<1>b. Alone /\ ~overlap
  BY <1>a DEF AloneInv
<1>c. TypeOK /\ NumbersCounted /\ run \in [Runs -> RunType]
  BY TypeFacts DEF TypeInv
<1>1. ASSUME NEW t \in Tasks, NEW o \in Emissions(t), Start(t, o) PROVE Alone'
  <2> DEFINE pc == IF o = {} THEN "pick" ELSE "emit"
  <2>1. PICK r \in Runs :
          /\ run[r].pc = "unborn" /\ \A q \in Runs : ~Active(q)
          /\ run' = [run EXCEPT ![r] = [Unborn EXCEPT !.pc = pc, !.task = t, !.emits = o,
                                                      !.todo = o]]
          /\ UNCHANGED disk
    BY <1>1, <1>b DEF Start
  <2>2. \A q \in Runs \ {r} : ~Active(q)'
    BY <1>c, <2>1 DEF Active
  <2>3. Progress(r)'
    BY <1>c, <2>1 DEF Progress, FilesOf, Unborn
  <2>4. OneActive' /\ \A q \in Runs : Active(q)' => Progress(q)'
    BY <2>2, <2>3 DEF OneActive
  <2>5. \A s \in Seqs : sealed'[s].there => Genuine(sealed[s])'
    BY <1>b, <1>c, <2>1, GenuineKept DEF disk
  <2> QED BY <1>b, <2>1, <2>4, <2>5, AnswersSame DEF Alone, disk
<1>2. ASSUME NEW t \in Tasks, Reclaim(t) \/ Resume(t) PROVE Alone'
  <2>1. UNCHANGED <<run, disk>>
    BY <1>2 DEF Reclaim, Resume
  <2>2. Listed' = Listed /\ Latest' = Latest
    BY <2>1, AnswersSame DEF disk
  <2>3. \A s \in Seqs : sealed'[s].there => Genuine(sealed[s])'
    BY <1>b, <2>1, GenuineKept DEF disk
  <2>4. OneActive' /\ \A q \in Runs : Active(q)' => Progress(q)'
    BY <1>b, <2>1, <2>2 DEF Alone, OneActive, Active, Progress, Source, disk
  <2> QED BY <1>b, <2>1, <2>2, <2>3, <2>4 DEF Alone, disk
<1>3. ASSUME NEW r \in Runs, Crash(r) PROVE Alone'
  <2>1. /\ Active(r) /\ ~Active(r)' /\ \A q \in Runs \ {r} : run'[q] = run[q]
        /\ run'[r].emits = run[r].emits /\ run'[r].pc # "unborn"
    BY <1>3, <1>c DEF Crash, Active, Steps, RunType
  <2> QED BY <1>3, <1>b, <2>1, AloneUnpublished DEF Crash, disk
<1>4. ASSUME NEW r \in Runs, NEW f \in Files, Emit(r, f) PROVE Alone'
  <2>1. /\ Active(r) /\ \A q \in Runs \ {r} : run'[q] = run[q]
        /\ run'[r].emits = run[r].emits /\ run'[r].pc # "unborn"
    BY <1>4, <1>c DEF Emit, Active, Steps, RunType
  <2>2. /\ run'[r].task = run[r].task /\ run'[r].todo = run[r].todo \ {f}
        /\ run'[r].pc = IF run[r].todo = {f} THEN "pick" ELSE "emit"
    BY <1>4, <1>c DEF Emit, RunType
  <2>3. Source(r)' = [Source(r) EXCEPT ![f] = r]
    BY <1>4, <1>c, <2>2 DEF Emit, Source, TypeOK, RunType, Tasks
  <2>4. FilesOf(Source(r)', r, run'[r].todo, run[r].emits)
    <3>1. FilesOf(Source(r), r, run[r].todo, run[r].emits)
      BY <1>4, <1>b, <2>1 DEF Alone, Progress, Emit
    <3> QED BY <1>c, <2>2, <2>3, <3>1, TypeFacts DEF FilesOf, Files
  <2>5. run'[r].pc = "pick" => FilesOf(Source(r)', r, {}, run[r].emits)
    BY <2>2, <2>4 DEF FilesOf
  <2>6. Progress(r)'
    BY <2>1, <2>2, <2>4, <2>5 DEF Progress
  <2> QED BY <1>4, <1>b, <2>1, <2>6, AloneUnpublished DEF Emit
<1>5. ASSUME NEW r \in Runs, PickSeq(r) PROVE Alone'
  <2>1. /\ Active(r) /\ \A q \in Runs \ {r} : run'[q] = run[q]
        /\ run'[r].emits = run[r].emits /\ run'[r].pc # "unborn"
    BY <1>5, <1>c DEF PickSeq, Active, Steps, RunType
  <2>2. run'[r].task = run[r].task /\ run'[r].pc = "check" /\ run'[r].seq = Latest + 1
    BY <1>5, <1>c DEF PickSeq, RunType
  <2>3. UNCHANGED disk /\ Source(r)' = Source(r) /\ Latest' = Latest
    BY <1>5, <2>2, AnswersSame DEF PickSeq, disk, Source
  <2>4. FilesOf(Source(r), r, {}, run[r].emits)
    BY <1>5, <1>b, <2>1 DEF Alone, Progress, PickSeq
  <2>5. Progress(r)'
    BY <2>1, <2>2, <2>3, <2>4 DEF Progress
  <2> QED BY <1>b, <2>1, <2>3, <2>5, AloneUnpublished DEF disk
<1>6. ASSUME NEW r \in Runs, CheckTarget(r) PROVE Alone'
  <2>1. /\ Active(r) /\ \A q \in Runs \ {r} : run'[q] = run[q]
        /\ run'[r].emits = run[r].emits /\ run'[r].pc # "unborn"
    BY <1>6, <1>c DEF CheckTarget, Goto, Active, Steps, RunType
  <2>2. /\ run'[r].task = run[r].task /\ run'[r].seq = run[r].seq
        /\ run'[r].pc \in {"fail", "mkdir"}
    BY <1>6, <1>c DEF CheckTarget, Goto, RunType
  <2>3. UNCHANGED <<live, out, sealed, latest>> /\ Source(r)' = Source(r) /\ Latest' = Latest
    BY <1>6, <2>2, AnswersSame DEF CheckTarget, Source
  <2>4. FilesOf(Source(r), r, {}, run[r].emits) /\ run[r].seq = Latest + 1
    BY <1>6, <1>b, <2>1 DEF Alone, Progress, CheckTarget
  <2>5. Progress(r)'
    BY <2>1, <2>2, <2>3, <2>4 DEF Progress
  <2> QED BY <1>b, <2>1, <2>3, <2>5, AloneUnpublished
<1>7. ASSUME NEW r \in Runs, MakeTmp(r) PROVE Alone'
  <2>1. /\ Active(r) /\ \A q \in Runs \ {r} : run'[q] = run[q]
        /\ run'[r].emits = run[r].emits /\ run'[r].pc # "unborn"
    BY <1>7, <1>c DEF MakeTmp, Goto, Active, Steps, RunType
  <2>2. run'[r].task = run[r].task /\ run'[r].seq = run[r].seq
    BY <1>7, <1>c DEF MakeTmp, Goto, RunType
  <2>3. UNCHANGED <<live, out, sealed, latest>> /\ Source(r)' = Source(r) /\ Latest' = Latest
    BY <1>7, <2>2, AnswersSame DEF MakeTmp, Source
  <2>4. FilesOf(Source(r), r, {}, run[r].emits) /\ run[r].seq = Latest + 1
    BY <1>7, <1>b, <2>1 DEF Alone, Progress, MakeTmp
  <2>5. \/ run'[r].pc = "fail"
        \/ /\ run'[r].pc = "copy" /\ tmp'[run[r].seq].there
           /\ run'[r].todo = {f \in Files : Source(r)[f] # NoRun}
    <3>1. run[r].seq \in Seqs
      BY <1>7, <1>c DEF MakeTmp, NumbersCounted, Numbered, Steps, RunType, Seqs
    <3> QED BY <1>7, <1>c, <3>1, ConstantFacts DEF MakeTmp, Goto, RunType, TypeOK
  <2>6. run'[r].pc = "copy" => FilesOf(tmp'[run[r].seq].files, r, run'[r].todo, run[r].emits)
    <3>1. run[r].emits \subseteq Files
      BY <1>c DEF RunType
    <3> QED BY <2>4, <2>5, <3>1, ConstantFacts DEF FilesOf, NoRun
  <2>7. Progress(r)'
    BY <2>1, <2>2, <2>3, <2>4, <2>5, <2>6 DEF Progress
  <2> QED BY <1>b, <2>1, <2>3, <2>7, AloneUnpublished
<1>8. ASSUME NEW r \in Runs, NEW f \in Files, CopyFile(r, f) PROVE Alone'
  <2> DEFINE s == run[r].seq
  <2>1. /\ Active(r) /\ \A q \in Runs \ {r} : run'[q] = run[q]
        /\ run'[r].emits = run[r].emits /\ run'[r].pc # "unborn"
    BY <1>8, <1>c DEF CopyFile, Active, Steps, RunType
  <2>2. /\ run'[r].task = run[r].task /\ run'[r].seq = s
        /\ run'[r].pc = "copy" /\ run'[r].todo = run[r].todo \ {f}
    BY <1>8, <1>c DEF CopyFile, RunType
  <2>3. UNCHANGED <<live, out, sealed, latest>> /\ Source(r)' = Source(r) /\ Latest' = Latest
    BY <1>8, <2>2, AnswersSame DEF CopyFile, Source
  <2>4. /\ FilesOf(Source(r), r, {}, run[r].emits) /\ s = Latest + 1
        /\ tmp[s].there /\ FilesOf(tmp[s].files, r, run[r].todo, run[r].emits)
    BY <1>8, <1>b, <2>1 DEF Alone, Progress, CopyFile
  <2>5. s \in Seqs /\ tmp[s] \in DirType
    BY <1>8, <1>c DEF CopyFile, NumbersCounted, Numbered, Steps, RunType, Seqs, TypeOK
  <2>6. tmp'[s].there /\ tmp'[s].files = [tmp[s].files EXCEPT ![f] = Source(r)[f]]
    BY <1>8, <1>c, <2>4, <2>5 DEF CopyFile, TypeOK, DirType
  <2>7. FilesOf(tmp'[s].files, r, run'[r].todo, run[r].emits)
    BY <2>2, <2>4, <2>5, <2>6 DEF FilesOf, DirType, Files
  <2>8. Progress(r)'
    BY <2>1, <2>2, <2>3, <2>4, <2>6, <2>7 DEF Progress
  <2> QED BY <1>b, <2>1, <2>3, <2>8, AloneUnpublished
<1>9. ASSUME NEW r \in Runs, EndCopy(r) \/ WriteSummary(r) \/ WriteComplete(r) PROVE Alone'
  <2> DEFINE s == run[r].seq
  <2>1. /\ Active(r) /\ \A q \in Runs \ {r} : run'[q] = run[q]
        /\ run'[r].emits = run[r].emits /\ run'[r].pc # "unborn"
    BY <1>9, <1>c DEF EndCopy, WriteSummary, WriteComplete, Goto, Active, Steps, RunType
  <2>2. run'[r].task = run[r].task /\ run'[r].seq = s
    BY <1>9, <1>c DEF EndCopy, WriteSummary, WriteComplete, Goto, RunType
  <2>3. UNCHANGED <<sealed, latest>> /\ Latest' = Latest
    BY <1>9, AnswersSame DEF EndCopy, WriteSummary, WriteComplete, disk
  <2>4. s \in Seqs /\ tmp \in [Seqs -> DirType]
    <3>1. run[r].pc \in Numbered
      BY <1>9 DEF EndCopy, WriteSummary, WriteComplete, Numbered, Steps
    <3> QED BY <1>c, <3>1 DEF NumbersCounted, RunType, Seqs, TypeOK
  <2>5. s = Latest + 1 /\ tmp[s].there /\ FilesOf(tmp[s].files, r, {}, run[r].emits)
    BY <1>9, <1>b, <2>1 DEF Alone, Progress, EndCopy, WriteSummary, WriteComplete, FilesOf
  <2>6. CASE EndCopy(r)
    <3>1. run'[r].pc \in {"fail", "summary"} /\ tmp' = tmp
      BY <1>c, <2>6 DEF EndCopy, Goto, RunType, disk
    <3>2. Progress(r)'
      BY <2>1, <2>2, <2>3, <2>5, <3>1 DEF Progress
    <3> QED BY <1>b, <2>1, <2>3, <3>2, AloneUnpublished
  <2>7. CASE WriteSummary(r)
    <3>1. run'[r].pc = "complete"
      BY <1>c, <2>5, <2>7 DEF WriteSummary, Goto, RunType
    <3>2. tmp'[s].there /\ tmp'[s].files = tmp[s].files /\ tmp'[s].summary = r
      BY <2>4, <2>5, <2>7 DEF WriteSummary, DirType
    <3>3. Progress(r)'
      BY <2>1, <2>2, <2>3, <2>5, <3>1, <3>2 DEF Progress
    <3> QED BY <1>b, <2>1, <2>3, <3>3, AloneUnpublished
  <2>8. CASE WriteComplete(r)
    <3>1. run'[r].pc = "publish"
      BY <1>c, <2>5, <2>8 DEF WriteComplete, Goto, RunType
    <3>2. tmp[s].summary = r
      BY <1>b, <2>1, <2>8 DEF Alone, Progress, WriteComplete
    <3>3. /\ tmp'[s].there /\ tmp'[s].files = tmp[s].files /\ tmp'[s].summary = r
          /\ tmp'[s].complete
      BY <2>4, <2>5, <2>8, <3>2 DEF WriteComplete, DirType
    <3>4. Progress(r)'
      BY <2>1, <2>2, <2>3, <2>5, <3>1, <3>3 DEF Progress
    <3> QED BY <1>b, <2>1, <2>3, <3>4, AloneUnpublished
  <2> QED BY <1>9, <2>6, <2>7, <2>8
<1>10. ASSUME NEW r \in Runs, Publish(r) PROVE Alone'
  <2> DEFINE s == run[r].seq
  <2>1. /\ Active(r) /\ \A q \in Runs \ {r} : run'[q] = run[q]
        /\ run'[r].emits = run[r].emits /\ run'[r].pc # "unborn"
    BY <1>10, <1>c DEF Publish, Goto, Active, Steps, RunType
  <2>2. CASE sealed[s].there
    <3>1. run'[r].pc = "fail" /\ UNCHANGED <<sealed, latest>>
      BY <1>10, <1>c, <2>2 DEF Publish, Goto, RunType
    <3>2. Progress(r)'
      BY <2>1, <3>1 DEF Progress
    <3> QED BY <1>b, <2>1, <3>1, <3>2, AloneUnpublished
  <2>3. CASE ~sealed[s].there
    <3>1. s \in Seqs /\ sealed \in [Seqs -> DirType] /\ tmp[s] \in DirType
      BY <1>10, <1>c DEF Publish, NumbersCounted, Numbered, Steps, RunType, Seqs, TypeOK
    <3>2. tmp[s].there /\ Whole(tmp[s]) /\ tmp[s].summary = r /\ s = Latest + 1
      BY <1>10, <1>b, <2>1, ConstantFacts DEF Alone, Progress, Publish, Whole, FilesOf, NoRun
    <3>3. /\ run'[r].pc = "pointer" /\ run'[r].seq = s /\ UNCHANGED latest
          /\ sealed' = [sealed EXCEPT ![s] = tmp[s]]
      BY <1>10, <1>c, <2>3, <3>2 DEF Publish, Goto, RunType
    <3>4. Listed' = Listed \cup {s}
      BY <3>1, <3>2, <3>3 DEF Listed, Whole
    <3>5. \A u \in Listed' : u <= s
      BY <1>b, <3>2, <3>4 DEF Alone, Listed, Seqs
    <3>6. Latest' = IF latest # 0 THEN Latest ELSE s
      <4>1. CASE latest # 0
        BY <3>3, <4>1 DEF Latest
      <4>2. CASE latest = 0
        <5>1. Latest' = CHOOSE m \in Listed' : \A u \in Listed' : u <= m
          BY <3>3, <3>4, <4>2 DEF Latest
        <5>2. s \in Listed' /\ \A u \in Listed' : u <= s /\ u \in Nat /\ s \in Nat
          BY <3>1, <3>4, <3>5 DEF Listed, Seqs
        <5> QED BY <4>2, <5>1, <5>2
      <4> QED BY <4>1, <4>2
    <3>7. Progress(r)'
      BY <2>1, <3>3, <3>4, <3>5 DEF Progress
    <3>8. OneActive' /\ \A q \in Runs : Active(q)' => Progress(q)'
      BY <1>b, <2>1, <3>7, ActsAlone
    <3>9. \A u \in Seqs : sealed'[u].there => Genuine(sealed[u])'
      <4>1. \A q \in Runs : run[q].pc # "unborn" => run'[q].emits = run[q].emits /\ run'[q].pc # "unborn"
        BY <2>1
      <4> QED BY <1>b, <2>1, <3>1, <3>2, <3>3, <4>1 DEF Alone, Genuine, Whole
    <3>10. latest' # 0 => latest' \in Listed'
      BY <1>b, <3>3, <3>4 DEF Alone
    <3>11. \A u \in Listed' : u <= Latest' + 1
      BY <1>c, <3>1, <3>2, <3>5, <3>6, LatestFacts DEF Seqs, Listed
    <3> QED BY <3>8, <3>9, <3>10, <3>11 DEF Alone
  <2> QED BY <2>2, <2>3
<1>11. ASSUME NEW r \in Runs, WritePointer(r) PROVE Alone'
  <2>1. /\ Active(r) /\ \A q \in Runs \ {r} : run'[q] = run[q]
        /\ run'[r].emits = run[r].emits /\ run'[r].pc # "unborn"
    BY <1>11, <1>c DEF WritePointer, Goto, Active, Steps, RunType
  <2>2. /\ run'[r].pc = "swap" /\ run'[r].seq = run[r].seq /\ latestTmp' = run[r].seq
        /\ UNCHANGED <<sealed, latest>>
    BY <1>11, <1>c DEF WritePointer, Goto, RunType
  <2>3. run[r].seq \in Listed /\ \A u \in Listed : u <= run[r].seq
    BY <1>11, <1>b, <2>1 DEF Alone, Progress, WritePointer
  <2>4. Progress(r)'
    BY <2>1, <2>2, <2>3, AnswersSame DEF Progress
  <2> QED BY <1>b, <2>1, <2>2, <2>4, AloneUnpublished
<1>12. ASSUME NEW r \in Runs, SwapPointer(r) PROVE Alone'
  <2> DEFINE s == run[r].seq
  <2>1. /\ Active(r) /\ \A q \in Runs \ {r} : run'[q] = run[q]
        /\ run'[r].emits = run[r].emits /\ run'[r].pc # "unborn"
    BY <1>12, <1>c DEF SwapPointer, Goto, Active, Steps, RunType
  <2>2. latestTmp = s /\ s \in Listed /\ \A u \in Listed : u <= s
    BY <1>12, <1>b, <2>1 DEF Alone, Progress, SwapPointer
  <2>3. s # 0 /\ latest' = s /\ UNCHANGED sealed /\ run'[r].pc = "report"
    BY <1>12, <1>c, <2>2 DEF SwapPointer, Goto, RunType, Listed, Seqs
  <2>4. Listed' = Listed /\ Latest' = s
    BY <2>3 DEF Listed, Latest
  <2>5. Progress(r)'
    BY <2>1, <2>3 DEF Progress
  <2>6. OneActive' /\ \A q \in Runs : Active(q)' => Progress(q)'
    BY <1>b, <2>1, <2>5, ActsAlone
  <2>8. \A u \in Seqs : sealed'[u].there => Genuine(sealed[u])'
    BY <1>b, <2>1, <2>3, GenuineKept
  <2>7. \A u \in Listed' : u <= Latest' + 1
    BY <2>2, <2>4 DEF Listed, Seqs
  <2> QED BY <1>b, <2>2, <2>3, <2>4, <2>6, <2>7, <2>8 DEF Alone
<1>13. ASSUME NEW r \in Runs, Report(r) \/ Fail(r) PROVE Alone'
  <2>1. /\ Active(r) /\ \A q \in Runs \ {r} : run'[q] = run[q]
        /\ run'[r].emits = run[r].emits /\ run'[r].pc # "unborn"
    BY <1>13, <1>c DEF Report, Fail, Goto, Active, Steps, RunType
  <2>2. ~Active(r)' /\ UNCHANGED disk
    BY <1>13, <1>c DEF Report, Fail, Goto, Active, Steps, RunType
  <2> QED BY <1>b, <2>1, <2>2, AloneUnpublished DEF disk
<1>14. ASSUME \/ UNCHANGED vars
              \/ \E s \in TileSeqs \cap Seqs, level \in 0 .. MaxLevel :
                   RequestTiles(s, level) \/ TilesCrash(s, level)
       PROVE  Alone'
  <2>1. UNCHANGED <<run, disk>>
    BY <1>14 DEF vars, RequestTiles, TilesCrash
  <2>2. Listed' = Listed /\ Latest' = Latest
    BY <2>1, AnswersSame DEF disk
  <2>3. \A s \in Seqs : sealed'[s].there => Genuine(sealed[s])'
    BY <1>b, <2>1, GenuineKept DEF disk
  <2>4. OneActive' /\ \A q \in Runs : Active(q)' => Progress(q)'
    BY <1>b, <2>1, <2>2 DEF Alone, OneActive, Active, Progress, Source, disk
  <2> QED BY <1>b, <2>1, <2>2, <2>3, <2>4 DEF Alone, disk
<1> QED BY <1>1, <1>2, <1>3, <1>4, <1>5, <1>6, <1>7, <1>8, <1>9, <1>10, <1>11, <1>12, <1>13, <1>14
        DEF Next, Sealing

-----------------------------------------------------------------------------
(* The theorems. *)

LEMMA Inductive == Spec => [](TypeInv /\ AloneInv)
BY TypeInit, TypeStep, AloneInit, AloneStep, PTL DEF Spec

\* While one worker seals at a time, every published directory has its marker and each
\* file that the execution of its summary wrote, whatever crashes and leftover
\* temporaries came before: SnapshotStore.seal removes the leftover, copies, writes
\* summary and marker, and renames, in this order.
THEOREM PublishedIsWhole == Spec => []SealedWhole
<1>1. AloneInv => SealedWhole
  BY DEF AloneInv, Alone, SealedWhole, Genuine
<1> QED BY <1>1, Inductive, PTL

\* While one worker seals at a time, `latest` names a listed snapshot and no listed
\* snapshot is more than one ahead of what latest() answers.
THEOREM PointerLagsByOne == Spec => []PointerLag
<1>1. AloneInv => PointerLag
  BY DEF AloneInv, Alone, PointerLag
<1> QED BY <1>1, Inductive, PTL

\* In every deployment, with overlapping workers too, a published directory is
\* never changed or replaced: os.replace does not overwrite a directory.
THEOREM PublishedNeverChanges == Spec => SealedImmutable
<1> DEFINE A == \A s \in Seqs : sealed[s].there => sealed'[s] = sealed[s]
<1>1. TypeInv /\ [Next]_vars => A
  <2> SUFFICES ASSUME TypeInv, [Next]_vars, ~(UNCHANGED sealed) PROVE A
    OBVIOUS
  <2>1. PICK r \in Runs : Publish(r)
    BY DEF Next, Sealing, Start, Reclaim, Resume, Crash, PickSeq, CheckTarget, MakeTmp, Emit,
           CopyFile, EndCopy, WriteSummary, WriteComplete, WritePointer, SwapPointer,
           Report, Fail, RequestTiles, TilesCrash, vars, disk
  <2> QED BY <2>1 DEF Publish, TypeInv, TypeOK
<1>2. TypeInv /\ [Next]_vars => [A]_vars
  BY <1>1
<1>3. Spec => [][A]_vars
  BY <1>2, Inductive, PTL DEF Spec
<1> QED BY <1>3 DEF SealedImmutable

-----------------------------------------------------------------------------
(* Uploads: the inductive invariant. *)

RowType == [state : {"new", "open", "received", "finalized", "gone"},
            received : Nat, blob : Seq(Bytes)]
ReqType == [pc : {"idle", "init", "gc", "append", "patch", "move", "look", "seal"},
            upload : Upload \cup {NoUpload}, offset : Nat, len : Nat, good : BOOLEAN,
            data : Seq(Bytes), known : BOOLEAN, reap : SUBSET Upload]

Shapes ==
  /\ row \in [Upload -> RowType]
  /\ temp \in [Upload -> Seq(Bytes) \cup {NoFile}]
  /\ req \in [Request -> ReqType]
  /\ expired \subseteq Upload
  /\ blobs \subseteq Seq(Bytes) /\ bucket \subseteq Seq(Bytes) /\ blobRows \subseteq Seq(Bytes)
  /\ faults \in 0..MaxFaults

\* A row never counts more bytes than the client announced.
RowsBounded == \A u \in Upload : row[u].received <= Size(u)

\* What a request with record me knows to be true of the rows and the stores,
\* whatever happened since it read them: its upload was created, its chunk fits,
\* and the content it moved into the blob store is what the client sends.
Sound(me, uploads, store, pushed) ==
  /\ me.pc = "init" => me.upload \in Upload \ me.reap
  /\ me.pc \in {"append", "patch", "move", "look", "seal"} =>
       me.upload \in Upload /\ uploads[me.upload].state # "new"
  /\ me.pc \in {"append", "patch"} => me.offset + me.len <= Size(me.upload)
  /\ me.pc \in {"look", "seal"} =>
       /\ me.data = Content[me.upload] /\ me.data \in store
       /\ Backend = "s3" => me.data \in pushed

RequestsSound == \A r \in Request : Sound(req[r], row, blobs, bucket)

UploadInv ==
  /\ Shapes /\ RowsBounded /\ RequestsSound
  /\ TempIsPrefix /\ SealedIsWhole /\ OneUploadPerKey

-----------------------------------------------------------------------------
(* Prefixes and chunks. *)

LEMMA ContentFacts ==
  ASSUME NEW u \in Upload
  PROVE  Content[u] \in Seq(Bytes) /\ Size(u) \in Nat
BY UploadAssumption DEF Size

LEMMA PrefixFacts ==
  ASSUME NEW s \in Seq(Bytes), NEW t \in Seq(Bytes)
  PROVE  /\ IsPrefix(s, t) <=> Len(s) <= Len(t) /\ s = SubSeq(t, 1, Len(s))
         /\ IsPrefix(s, t) /\ Len(s) = Len(t) => s = t
         /\ IsPrefix(<<>>, t)
<1>1. SubSeq(s, 1, Len(s)) = s /\ SubSeq(t, 1, Len(t)) = t
  BY SubSeqFull
<1>2. Len(s) \in Nat /\ Len(t) \in Nat
  OBVIOUS
<1>3. Len(<<>>) = 0 /\ SubSeq(<<>>, 1, 0) = <<>> /\ SubSeq(t, 1, 0) = <<>>
  BY SubSeqEmpty
<1>4. IsPrefix(s, t) <=> Len(s) <= Len(t) /\ s = SubSeq(t, 1, Len(s))
  BY <1>1 DEF IsPrefix
<1>5. IsPrefix(s, t) /\ Len(s) = Len(t) => s = t
  BY <1>1, <1>4
<1>6. IsPrefix(<<>>, t)
  <2>1. Len(<<>>) <= Len(t)
    BY <1>2, <1>3
  <2> QED BY Zenon, <1>3, <2>1 DEF IsPrefix
<1> QED BY <1>4, <1>5, <1>6

\* A chunk that is appended where the file ends extends the prefix.
LEMMA ChunkExtends ==
  ASSUME NEW u \in Upload, NEW s \in Seq(Bytes), IsPrefix(s, Content[u]),
         NEW k \in Nat, Len(s) + k <= Size(u)
  PROVE  /\ s \o Chunk(u, Len(s), k) \in Seq(Bytes)
         /\ IsPrefix(s \o Chunk(u, Len(s), k), Content[u])
<1> DEFINE c == Content[u]
           n == Len(s)
<1>1. c \in Seq(Bytes) /\ n \in Nat /\ Len(c) \in Nat /\ n + k <= Len(c)
  BY ContentFacts DEF Size
<1>2. s = SubSeq(c, 1, n)
  BY <1>1, PrefixFacts
<1>3. s \o Chunk(u, n, k) = SubSeq(c, 1, n + k)
  <2>1. 1 \in 1 .. Len(c) + 1 /\ n \in 1 - 1 .. Len(c) /\ n + k \in n .. Len(c)
    BY <1>1
  <2> QED BY <1>1, <1>2, <2>1, ConcatAdjacentSubSeq DEF Chunk
<1>4. SubSeq(c, 1, n + k) \in Seq(Bytes) /\ Len(SubSeq(c, 1, n + k)) = n + k
  <2>1. \A i \in 1 .. n + k : c[i] \in Bytes
    BY <1>1, ElementOfSeq
  <2> QED BY <1>1, <2>1, SubSeqProperties
<1> QED BY <1>1, <1>3, <1>4, PrefixFacts

LEMMA EmptyChunk ==
  ASSUME NEW u \in Upload, NEW offset \in Nat
  PROVE  Chunk(u, offset, 0) = <<>>
BY SubSeqEmpty DEF Chunk

-----------------------------------------------------------------------------
(* Requests. *)

LEMMA IdleFacts == Idle \in ReqType /\ Idle.pc = "idle"
BY EmptySeq DEF Idle, ReqType

\* A request goes on with record me; the rows of other requests' uploads are not
\* forgotten and nothing leaves the stores: every request stays sound if it does.
LEMMA SoundKept ==
  ASSUME UploadInv, NEW r \in Request, NEW me \in ReqType,
         req' = [req EXCEPT ![r] = me],
         \A u \in Upload : row[u].state # "new" => row'[u].state # "new",
         blobs \subseteq blobs', bucket \subseteq bucket',
         Sound(me, row', blobs', bucket')
  PROVE  RequestsSound' /\ req' \in [Request -> ReqType]
<1>1. req' \in [Request -> ReqType]
  BY DEF UploadInv, Shapes
<1>2. ASSUME NEW q \in Request PROVE Sound(req'[q], row', blobs', bucket')
  <2>1. CASE q = r
    BY <2>1 DEF UploadInv, Shapes
  <2>2. CASE q # r
    BY <2>2 DEF UploadInv, Shapes, RequestsSound, Sound
  <2> QED BY <2>1, <2>2
<1> QED BY <1>1, <1>2 DEF RequestsSound

\* The same when the request is over, or is dropped.
LEMMA SoundReturn ==
  ASSUME UploadInv, NEW r \in Request, Return(r),
         \A u \in Upload : row[u].state # "new" => row'[u].state # "new",
         blobs \subseteq blobs', bucket \subseteq bucket'
  PROVE  RequestsSound' /\ req' \in [Request -> ReqType]
<1>1. Sound(Idle, row', blobs', bucket')
  BY IdleFacts DEF Sound
<1> QED BY <1>1, IdleFacts, SoundKept DEF Return

LEMMA FaultType ==
  ASSUME faults \in 0..MaxFaults, NEW kind, Fault(kind)
  PROVE  faults' \in 0..MaxFaults
BY UploadAssumption DEF Fault

\* Discarding files keeps the others as they are.
LEMMA DiscardedFacts ==
  ASSUME UploadInv, temp' = Discarded
  PROVE  temp' \in [Upload -> Seq(Bytes) \cup {NoFile}] /\ TempIsPrefix'
BY DEF UploadInv, Shapes, Discarded, TempIsPrefix

\* Rows that go and rows that stay: what InitCommit and GcCommit do to the rows a
\* request has chosen to collect.
Kept(reap) ==
  [v \in Upload |-> IF v \in reap THEN [row[v] EXCEPT !.state = "gone"] ELSE row[v]]

LEMMA KeptFacts ==
  ASSUME UploadInv, NEW reap \in SUBSET Upload
  PROVE  /\ Kept(reap) \in [Upload -> RowType]
         /\ \A v \in Upload :
              /\ Kept(reap)[v].received = row[v].received
              /\ Kept(reap)[v].blob = row[v].blob
              /\ Kept(reap)[v].state = IF v \in reap THEN "gone" ELSE row[v].state
BY DEF UploadInv, Shapes, Kept, RowType

\* When the stores only grow, a row that is finalized afterwards and was so before
\* under the same content is still whole.
LEMMA WholeKept ==
  ASSUME UploadInv, blobs \subseteq blobs', bucket \subseteq bucket', blobRows \subseteq blobRows',
         \A u \in Upload : row'[u].state = "finalized" =>
           row[u].state = "finalized" /\ row'[u].blob = row[u].blob
  PROVE  SealedIsWhole'
BY DEF UploadInv, SealedIsWhole

-----------------------------------------------------------------------------
(* The invariant is inductive. *)

LEMMA UploadInit == UploadsInit => UploadInv
<1> SUFFICES ASSUME UploadsInit PROVE UploadInv
  OBVIOUS
<1>1. Shapes
  <2>1. NewUpload \in RowType
    BY EmptySeq DEF NewUpload, RowType
  <2> QED BY <2>1, IdleFacts, UploadAssumption DEF UploadsInit, Shapes
<1>2. RowsBounded
  BY ContentFacts DEF UploadsInit, RowsBounded, NewUpload
<1>3. RequestsSound
  BY IdleFacts DEF UploadsInit, RequestsSound, Sound
<1>4. TempIsPrefix /\ SealedIsWhole /\ OneUploadPerKey
  BY DEF UploadsInit, TempIsPrefix, SealedIsWhole, OneUploadPerKey, NewUpload
<1> QED BY <1>1, <1>2, <1>3, <1>4 DEF UploadInv

\* A request that only reads, or touches working files, and goes on with record me.
LEMMA ReadStep ==
  ASSUME UploadInv, NEW r \in Request, NEW me \in ReqType,
         req' = [req EXCEPT ![r] = me], Sound(me, row, blobs, bucket),
         temp' \in [Upload -> Seq(Bytes) \cup {NoFile}], TempIsPrefix',
         faults' \in 0..MaxFaults, UNCHANGED <<row, expired, blobs, bucket, blobRows>>
  PROVE  UploadInv'
<1>1. RequestsSound' /\ req' \in [Request -> ReqType]
  BY SoundKept
<1>2. Shapes'
  BY <1>1 DEF UploadInv, Shapes
<1>3. RowsBounded' /\ SealedIsWhole' /\ OneUploadPerKey'
  BY DEF UploadInv, RowsBounded, SealedIsWhole, OneUploadPerKey
<1> QED BY <1>1, <1>2, <1>3 DEF UploadInv

LEMMA UploadStep == UploadInv /\ [UploadsNext]_uploadVars => UploadInv'
<1> SUFFICES ASSUME UploadInv, [UploadsNext]_uploadVars PROVE UploadInv'
  OBVIOUS
<1>0. /\ Shapes /\ row \in [Upload -> RowType] /\ req \in [Request -> ReqType]
      /\ temp \in [Upload -> Seq(Bytes) \cup {NoFile}] /\ faults \in 0..MaxFaults
      /\ Reapable \subseteq Upload
  BY DEF UploadInv, Shapes, Reapable
<1>1. ASSUME NEW r \in Request, NEW u \in Upload, InitRead(r, u) PROVE UploadInv'
  <2> DEFINE known == \E v \in Upload \ Reapable :
                        Key[v] = Key[u] /\ row[v].state \notin {"new", "gone"}
             me == [Idle EXCEPT !.pc = "init", !.upload = u, !.reap = Reapable, !.known = known]
  <2>1. known \in BOOLEAN /\ me \in ReqType
    BY <1>0, IdleFacts DEF ReqType, Idle
  <2>2. me.pc = "init" /\ me.upload = u /\ me.reap = Reapable
    BY DEF Idle
  <2>3. Sound(me, row, blobs, bucket)
    BY <1>1, <2>2 DEF Sound, InitRead, Reapable
  <2>4. req' = [req EXCEPT ![r] = me] /\ temp' = Discarded
        /\ UNCHANGED <<row, expired, blobs, bucket, blobRows, faults>>
    BY <1>1 DEF InitRead
  <2> QED BY <1>0, <2>1, <2>3, <2>4, DiscardedFacts, ReadStep
<1>2. ASSUME NEW r \in Request, GcRead(r) PROVE UploadInv'
  <2> DEFINE me == [Idle EXCEPT !.pc = "gc", !.reap = Reapable]
  <2>1. me \in ReqType /\ me.pc = "gc"
    BY <1>0, IdleFacts DEF ReqType, Idle
  <2>2. Sound(me, row, blobs, bucket)
    BY <2>1 DEF Sound
  <2>3. req' = [req EXCEPT ![r] = me] /\ temp' = Discarded
        /\ UNCHANGED <<row, expired, blobs, bucket, blobRows, faults>>
    BY <1>2 DEF GcRead
  <2> QED BY <1>0, <2>1, <2>2, <2>3, DiscardedFacts, ReadStep
<1>3. ASSUME NEW r \in Request, InitCommit(r) PROVE UploadInv'
  <2> DEFINE me == req[r]
             u == me.upload
             kept == Kept(me.reap)
  <2>1. me \in ReqType /\ me.reap \subseteq Upload /\ u \in Upload \ me.reap
    BY <1>0, <1>3 DEF InitCommit, UploadInv, RequestsSound, Sound, ReqType
  <2>2. \/ row' = kept
        \/ row' = row
        \/ /\ row' = [kept EXCEPT ![u].state = "open"]
           /\ \A v \in Upload \ me.reap :
                Key[v] = Key[u] => row[v].state \in {"new", "gone"}
    BY <1>3 DEF InitCommit, Kept
  <2>3. Return(r) /\ UNCHANGED <<expired, temp, blobs, bucket, blobRows, faults>>
    BY <1>3 DEF InitCommit
  <2>4. /\ row' \in [Upload -> RowType]
        /\ \A v \in Upload : row'[v].received = row[v].received /\ row'[v].blob = row[v].blob
        /\ \A v \in Upload : \/ row'[v].state = row[v].state
                             \/ row'[v].state = "gone"
                             \/ row'[v].state = "open" /\ v = u
    <3>1. /\ kept \in [Upload -> RowType]
          /\ \A v \in Upload :
               /\ kept[v].received = row[v].received
               /\ kept[v].blob = row[v].blob
               /\ kept[v].state = IF v \in me.reap THEN "gone" ELSE row[v].state
      BY <2>1, KeptFacts
    <3>2. CASE row' = kept
      BY <3>1, <3>2
    <3>3. CASE row' = row
      BY <1>0, <3>3
    <3>4. CASE row' = [kept EXCEPT ![u].state = "open"]
      BY <2>1, <3>1, <3>4 DEF RowType
    <3> QED BY <2>2, <3>2, <3>3, <3>4
  <2>5. RequestsSound' /\ req' \in [Request -> ReqType]
    BY <2>3, <2>4, SoundReturn
  <2>6. Shapes'
    BY <2>3, <2>4, <2>5 DEF UploadInv, Shapes
  <2>7. RowsBounded' /\ TempIsPrefix' /\ SealedIsWhole'
    BY <2>3, <2>4, WholeKept DEF UploadInv, RowsBounded, TempIsPrefix
  <2>8. OneUploadPerKey'
    <3>1. CASE row' = row \/ row' = kept
      BY <2>1, <3>1, KeptFacts DEF UploadInv, OneUploadPerKey
    <3>2. CASE /\ row' = [kept EXCEPT ![u].state = "open"]
               /\ \A v \in Upload \ me.reap :
                    Key[v] = Key[u] => row[v].state \in {"new", "gone"}
      <4>1. \A v \in Upload \ {u} :
              row'[v].state = IF v \in me.reap THEN "gone" ELSE row[v].state
        BY <2>1, <3>2, KeptFacts
      <4>2. \A v \in Upload \ {u} : Key[v] = Key[u] => row'[v].state \in {"new", "gone"}
        BY <3>2, <4>1
      <4>3. ASSUME NEW v \in Upload, NEW w \in Upload, v # w, Key[v] = Key[w]
            PROVE  row'[v].state \in {"new", "gone"} \/ row'[w].state \in {"new", "gone"}
        <5>1. CASE v = u
          BY <4>2, <4>3, <5>1
        <5>2. CASE w = u
          BY <4>2, <4>3, <5>2
        <5>3. CASE v # u /\ w # u
          BY <4>1, <4>3, <5>3 DEF UploadInv, OneUploadPerKey
        <5> QED BY <5>1, <5>2, <5>3
      <4> QED BY <4>3 DEF OneUploadPerKey
    <3> QED BY <2>2, <3>1, <3>2
  <2> QED BY <2>5, <2>6, <2>7, <2>8 DEF UploadInv
<1>4. ASSUME NEW r \in Request, GcCommit(r) PROVE UploadInv'
  <2> DEFINE reap == req[r].reap
  <2>1. reap \in SUBSET Upload
    BY <1>0 DEF ReqType
  <2>2. /\ row' = Kept(reap) /\ Return(r)
        /\ UNCHANGED <<expired, temp, blobs, bucket, blobRows, faults>>
    BY <1>4 DEF GcCommit, Kept
  <2>3. /\ row' \in [Upload -> RowType]
        /\ \A v \in Upload :
             /\ row'[v].received = row[v].received
             /\ row'[v].blob = row[v].blob
             /\ row'[v].state = IF v \in reap THEN "gone" ELSE row[v].state
    BY <2>1, <2>2, KeptFacts
  <2>4. RequestsSound' /\ req' \in [Request -> ReqType]
    BY <2>2, <2>3, SoundReturn
  <2>5. Shapes'
    BY <2>2, <2>3, <2>4 DEF UploadInv, Shapes
  <2>6. RowsBounded' /\ TempIsPrefix' /\ SealedIsWhole' /\ OneUploadPerKey'
    BY <2>2, <2>3, WholeKept DEF UploadInv, RowsBounded, TempIsPrefix, OneUploadPerKey
  <2> QED BY <2>4, <2>5, <2>6 DEF UploadInv
<1>5. ASSUME NEW u \in Upload, Expire(u) PROVE UploadInv'
  BY <1>5 DEF Expire, UploadInv, Shapes, RowsBounded, RequestsSound, TempIsPrefix,
              SealedIsWhole, OneUploadPerKey
<1>6. ASSUME NEW r \in Request, NEW u \in Upload, NEW offset \in 0..Size(u),
             NEW n \in 1..Size(u), PatchRead(r, u, offset, n)
      PROVE  UploadInv'
  <2> DEFINE me == [Idle EXCEPT !.pc = "append", !.upload = u, !.offset = offset, !.len = n]
  <2>1. offset \in Nat /\ n \in Nat
    BY ContentFacts
  <2>2. me \in ReqType
    BY <2>1, IdleFacts DEF ReqType
  <2>3. me.pc = "append" /\ me.upload = u /\ me.offset = offset /\ me.len = n
    BY DEF Idle
  <2>4. Sound(me, row, blobs, bucket)
    BY <1>6, <2>3 DEF Sound, PatchRead
  <2>5. req' = [req EXCEPT ![r] = me]
        /\ UNCHANGED <<row, expired, temp, blobs, bucket, blobRows, faults>>
    BY <1>6 DEF PatchRead
  <2>6. TempIsPrefix'
    BY <2>5 DEF UploadInv, TempIsPrefix
  <2> QED BY <1>0, <2>2, <2>4, <2>5, <2>6, ReadStep
<1>7. ASSUME NEW r \in Request, req[r].pc = "append", NEW k \in Nat,
             temp' = Written(r, k),
             k = 0 \/ (k <= req[r].len /\ req[r].offset = FileSize(req[r].upload))
      PROVE  temp' \in [Upload -> Seq(Bytes) \cup {NoFile}] /\ TempIsPrefix'
  <2> DEFINE me == req[r]
             u == me.upload
             old == IF temp[u] = NoFile THEN <<>> ELSE temp[u]
             new == old \o Chunk(u, me.offset, k)
  <2>1. /\ me \in ReqType /\ u \in Upload /\ me.offset \in Nat /\ me.len \in Nat
        /\ me.offset + me.len <= Size(u)
    BY <1>0, <1>7 DEF UploadInv, RequestsSound, Sound, ReqType
  <2>2. old \in Seq(Bytes) /\ IsPrefix(old, Content[u]) /\ Len(old) \in Nat
    <3>1. CASE temp[u] = NoFile
      BY <2>1, <3>1, EmptySeq, PrefixFacts, ContentFacts
    <3>2. CASE temp[u] # NoFile
      BY <1>0, <2>1, <3>2 DEF UploadInv, TempIsPrefix
    <3> QED BY <3>1, <3>2
  <2>3. new \in Seq(Bytes) /\ IsPrefix(new, Content[u])
    <3>1. CASE k = 0
      <4>1. Chunk(u, me.offset, 0) = <<>>
        BY <2>1, EmptyChunk
      <4>2. new = old
        BY <2>2, <3>1, <4>1, ConcatEmptySeq
      <4> QED BY <2>2, <4>2
    <3>2. CASE k <= me.len /\ me.offset = FileSize(u)
      <4>1. me.offset = Len(old)
        BY <3>2 DEF FileSize
      <4>2. Len(old) + k <= Size(u)
        BY <2>1, <2>2, <3>2, <4>1, ContentFacts
      <4> QED BY <2>1, <2>2, <4>1, <4>2, ChunkExtends
    <3> QED BY <1>7, <3>1, <3>2
  <2>4. temp' = [temp EXCEPT ![u] = new]
    BY <1>7 DEF Written
  <2>5. temp' \in [Upload -> Seq(Bytes) \cup {NoFile}]
    BY <1>0, <2>1, <2>3, <2>4
  <2>6. TempIsPrefix'
    BY <1>0, <2>1, <2>3, <2>4 DEF UploadInv, TempIsPrefix
  <2> QED BY <2>5, <2>6
<1>8. ASSUME NEW r \in Request, PatchAppend(r) PROVE UploadInv'
  <2> DEFINE me == req[r]
             next == [me EXCEPT !.pc = "patch"]
  <2>1. me.pc = "append" /\ me \in ReqType /\ me.len \in Nat
        /\ UNCHANGED <<row, expired, blobs, bucket, blobRows, faults>>
    BY <1>0, <1>8 DEF PatchAppend, ReqType
  <2>2. CASE temp' = Written(r, 0) /\ Return(r)
    <3>1. temp' \in [Upload -> Seq(Bytes) \cup {NoFile}] /\ TempIsPrefix'
      BY <1>7, <2>1, <2>2
    <3>2. Sound(Idle, row, blobs, bucket)
      BY IdleFacts DEF Sound
    <3> QED BY <1>0, <2>1, <2>2, <3>1, <3>2, IdleFacts, ReadStep DEF Return
  <2>3. CASE /\ me.offset = FileSize(me.upload) /\ temp' = Written(r, me.len)
             /\ req' = [req EXCEPT ![r].pc = "patch"]
    <3>1. temp' \in [Upload -> Seq(Bytes) \cup {NoFile}] /\ TempIsPrefix'
      BY <1>7, <2>1, <2>3
    <3>2. next \in ReqType /\ next.pc = "patch" /\ next.upload = me.upload
          /\ next.offset = me.offset /\ next.len = me.len
      BY <2>1 DEF ReqType
    <3>3. Sound(next, row, blobs, bucket)
      BY <2>1, <3>2 DEF Sound, UploadInv, RequestsSound
    <3>4. req' = [req EXCEPT ![r] = next]
      BY <2>3
    <3> QED BY <1>0, <2>1, <3>1, <3>2, <3>3, <3>4, ReadStep
  <2> QED BY <1>8, <2>2, <2>3 DEF PatchAppend
<1>9. ASSUME NEW r \in Request, PatchWriteFails(r) PROVE UploadInv'
  <2>1. req[r].pc = "append" /\ Return(r) /\ req[r].offset = FileSize(req[r].upload)
        /\ UNCHANGED <<row, expired, blobs, bucket, blobRows>> /\ req[r].len \in Nat
    BY <1>0, <1>9 DEF PatchWriteFails, ReqType
  <2>2. PICK k \in 0..(req[r].len - 1) : temp' = Written(r, k)
    BY <1>9 DEF PatchWriteFails
  <2>3. k \in Nat /\ k <= req[r].len
    BY <2>1
  <2>4. temp' \in [Upload -> Seq(Bytes) \cup {NoFile}] /\ TempIsPrefix'
    BY <1>7, <2>1, <2>2, <2>3
  <2>5. faults' \in 0..MaxFaults
    BY <1>0, <1>9, FaultType DEF PatchWriteFails
  <2>6. Sound(Idle, row, blobs, bucket)
    BY IdleFacts DEF Sound
  <2> QED BY <2>1, <2>4, <2>5, <2>6, IdleFacts, ReadStep DEF Return
<1>10. ASSUME NEW r \in Request, PatchCommit(r) PROVE UploadInv'
  <2> DEFINE me == req[r]
             u == me.upload
             received == me.offset + me.len
  <2>1. /\ me \in ReqType /\ u \in Upload /\ row[u].state # "new"
        /\ received <= Size(u) /\ received \in Nat
    BY <1>0, <1>10 DEF PatchCommit, UploadInv, RequestsSound, Sound, ReqType
  <2>2. Return(r) /\ UNCHANGED <<expired, temp, blobs, bucket, blobRows, faults>>
    BY <1>10 DEF PatchCommit
  <2>3. /\ row' \in [Upload -> RowType]
        /\ \A v \in Upload \ {u} : row'[v] = row[v]
        /\ row'[u].blob = row[u].blob
        /\ row'[u].received \in {row[u].received, received}
        /\ \/ row'[u].state = row[u].state
           \/ row'[u].state = "received" /\ row[u].state # "gone"
    <3>1. CASE row[u].state = "gone"
      BY <1>0, <1>10, <3>1 DEF PatchCommit
    <3>2. CASE row[u].state # "gone"
      <4> DEFINE st == IF received = Size(u) THEN "received" ELSE row[u].state
                 new == [row[u] EXCEPT !.received = received, !.state = st]
      <4>1. row[u] \in RowType /\ row[u].state \in {"new", "open", "received", "finalized", "gone"}
        BY <1>0, <2>1 DEF RowType
      <4>2. /\ new \in RowType /\ new.received = received /\ new.state = st
            /\ new.blob = row[u].blob
        BY <2>1, <4>1 DEF RowType
      <4>3. row' = [row EXCEPT ![u] = new]
        BY <1>0, <1>10, <2>1, <3>2 DEF PatchCommit, RowType
      <4> QED BY <1>0, <2>1, <3>2, <4>2, <4>3
    <3> QED BY <3>1, <3>2
  <2>4. RequestsSound' /\ req' \in [Request -> ReqType]
    BY <2>1, <2>2, <2>3, SoundReturn
  <2>5. Shapes'
    BY <2>2, <2>3, <2>4 DEF UploadInv, Shapes
  <2>6. RowsBounded'
    BY <2>1, <2>3 DEF UploadInv, RowsBounded
  <2>7. TempIsPrefix' /\ SealedIsWhole'
    BY <2>2, <2>3, WholeKept DEF UploadInv, TempIsPrefix
  <2>8. OneUploadPerKey'
    BY <2>1, <2>3 DEF UploadInv, OneUploadPerKey
  <2> QED BY <2>4, <2>5, <2>6, <2>7, <2>8 DEF UploadInv
<1>11. ASSUME NEW r \in Request, NEW u \in Upload, NEW good \in BOOLEAN, FinRead(r, u, good)
       PROVE  UploadInv'
  <2> DEFINE me == [Idle EXCEPT !.pc = "move", !.upload = u, !.good = good]
  <2>1. me \in ReqType
    BY IdleFacts DEF ReqType
  <2>2. me.pc = "move" /\ me.upload = u
    BY DEF Idle
  <2>3. Sound(me, row, blobs, bucket)
    BY <1>11, <2>2 DEF Sound, FinRead
  <2>4. req' = [req EXCEPT ![r] = me] /\ UNCHANGED <<row, expired, temp, blobs, bucket, blobRows>>
    BY <1>11 DEF FinRead
  <2>5. faults' \in 0..MaxFaults
    BY <1>0, <1>11, FaultType DEF FinRead
  <2>6. TempIsPrefix'
    BY <2>4 DEF UploadInv, TempIsPrefix
  <2> QED BY <1>0, <2>1, <2>3, <2>4, <2>5, <2>6, ReadStep
<1>12. ASSUME NEW r \in Request, FinMove(r) PROVE UploadInv'
  <2> DEFINE me == req[r]
             u == me.upload
             next == [me EXCEPT !.pc = "look", !.data = temp[u]]
  <2>1. /\ me \in ReqType /\ u \in Upload /\ row[u].state # "new"
        /\ UNCHANGED <<row, expired, blobRows, faults>>
    BY <1>0, <1>12 DEF FinMove, UploadInv, RequestsSound, Sound, ReqType
  <2>2. CASE temp[u] = NoFile
    <3>1. Return(r) /\ UNCHANGED <<temp, blobs, bucket>>
      BY <1>12, <2>2 DEF FinMove
    <3>2. Sound(Idle, row, blobs, bucket)
      BY IdleFacts DEF Sound
    <3>3. TempIsPrefix'
      BY <3>1 DEF UploadInv, TempIsPrefix
    <3> QED BY <1>0, <2>1, <3>1, <3>2, <3>3, IdleFacts, ReadStep DEF Return
  <2>3. CASE temp[u] # NoFile
    <3>1. temp[u] \in Seq(Bytes) /\ IsPrefix(temp[u], Content[u])
      BY <1>0, <2>1, <2>3 DEF UploadInv, TempIsPrefix
    <3>2. /\ blobs' = blobs \cup {temp[u]}
          /\ bucket' = bucket \/ bucket' = bucket \cup {temp[u]}
          /\ Backend = "s3" => temp[u] \in bucket'
          /\ temp' = [temp EXCEPT ![u] = NoFile]
      BY <1>12, <2>3
         DEF FinMove, finalize_into, put_stream, S3BlobStore, FSBlobStore, Pushed
    <3>3. RequestsSound' /\ req' \in [Request -> ReqType]
      <4>1. CASE Return(r)
        BY <2>1, <3>2, <4>1, SoundReturn
      <4>2. CASE Len(temp[u]) = Size(u) /\ req' = [req EXCEPT ![r] = next]
        <5>1. temp[u] = Content[u]
          BY <2>1, <3>1, <4>2, PrefixFacts, ContentFacts DEF Size
        <5>2. next \in ReqType /\ next.pc = "look" /\ next.upload = u /\ next.data = temp[u]
          BY <2>1, <3>1 DEF ReqType
        <5>3. Sound(next, row', blobs', bucket')
          BY <2>1, <3>2, <5>1, <5>2 DEF Sound
        <5> QED BY <2>1, <3>2, <4>2, <5>2, <5>3, SoundKept
      <4>3. \/ Return(r)
            \/ Len(temp[u]) = Size(u) /\ req' = [req EXCEPT ![r] = next]
        BY <1>0, <1>12, <2>3 DEF FinMove, ReqType
      <4> QED BY <4>1, <4>2, <4>3
    <3>4. Shapes'
      BY <1>0, <2>1, <3>1, <3>2, <3>3 DEF Shapes
    <3>5. RowsBounded' /\ OneUploadPerKey'
      BY <2>1 DEF UploadInv, RowsBounded, OneUploadPerKey
    <3>6. TempIsPrefix'
      BY <1>0, <3>2 DEF UploadInv, TempIsPrefix
    <3>7. SealedIsWhole'
      BY <2>1, <3>2, WholeKept
    <3> QED BY <3>3, <3>4, <3>5, <3>6, <3>7 DEF UploadInv
  <2> QED BY <2>2, <2>3
<1>13. ASSUME NEW r \in Request, FinPushFails(r) PROVE UploadInv'
  <2> DEFINE u == req[r].upload
  <2>1. /\ u \in Upload /\ temp[u] # NoFile /\ Return(r) /\ blobs' = blobs \cup {temp[u]}
        /\ UNCHANGED <<row, expired, temp, bucket, blobRows>>
    BY <1>13 DEF FinPushFails, UploadInv, RequestsSound, Sound
  <2>2. faults' \in 0..MaxFaults
    BY <1>0, <1>13, FaultType DEF FinPushFails
  <2>3. RequestsSound' /\ req' \in [Request -> ReqType]
    BY <2>1, SoundReturn
  <2>4. Shapes'
    BY <1>0, <2>1, <2>2, <2>3 DEF Shapes
  <2>5. RowsBounded' /\ OneUploadPerKey' /\ TempIsPrefix'
    BY <2>1 DEF UploadInv, RowsBounded, OneUploadPerKey, TempIsPrefix
  <2>6. SealedIsWhole'
    BY <2>1, WholeKept
  <2> QED BY <2>3, <2>4, <2>5, <2>6 DEF UploadInv
<1>14. ASSUME NEW r \in Request, FinLook(r) PROVE UploadInv'
  <2> DEFINE me == req[r]
             next == [me EXCEPT !.pc = "seal", !.known = me.data \in blobRows]
  <2>1. me \in ReqType /\ me.pc = "look"
        /\ UNCHANGED <<row, expired, temp, blobs, bucket, blobRows, faults>>
    BY <1>0, <1>14 DEF FinLook
  <2>2. (me.data \in blobRows) \in BOOLEAN
    OBVIOUS
  <2>3. /\ next \in ReqType /\ next.pc = "seal" /\ next.upload = me.upload
        /\ next.data = me.data
    BY <2>1, <2>2 DEF ReqType
  <2>4. req' = [req EXCEPT ![r] = next]
    BY <1>0, <1>14 DEF FinLook, ReqType
  <2>5. Sound(next, row, blobs, bucket)
    BY <2>1, <2>3 DEF Sound, UploadInv, RequestsSound
  <2>6. TempIsPrefix'
    BY <2>1 DEF UploadInv, TempIsPrefix
  <2> QED BY <1>0, <2>1, <2>3, <2>4, <2>5, <2>6, ReadStep
<1>15. ASSUME NEW r \in Request, FinCommit(r) PROVE UploadInv'
  <2> DEFINE me == req[r]
             u == me.upload
  <2>1. /\ me \in ReqType /\ u \in Upload /\ row[u].state # "new"
        /\ me.data \in Seq(Bytes) /\ me.data = Content[u] /\ me.data \in blobs
        /\ Backend = "s3" => me.data \in bucket
    BY <1>0, <1>15 DEF FinCommit, UploadInv, RequestsSound, Sound, ReqType
  <2>2. Return(r) /\ UNCHANGED <<expired, temp, blobs, bucket, faults>>
    BY <1>15 DEF FinCommit
  <2>3. CASE UNCHANGED <<row, blobRows>>
    <3>1. Sound(Idle, row, blobs, bucket)
      BY IdleFacts DEF Sound
    <3>2. TempIsPrefix'
      BY <2>2 DEF UploadInv, TempIsPrefix
    <3> QED BY <1>0, <2>2, <2>3, <3>1, <3>2, IdleFacts, ReadStep DEF Return
  <2>4. CASE /\ row[u].state # "gone" /\ blobRows' = blobRows \cup {me.data}
             /\ row' = [row EXCEPT ![u].state = "finalized", ![u].blob = me.data]
    <3>1. /\ row' \in [Upload -> RowType]
          /\ \A v \in Upload \ {u} : row'[v] = row[v]
          /\ row'[u].state = "finalized" /\ row'[u].blob = me.data
          /\ row'[u].received = row[u].received
      <4> DEFINE new == [row[u] EXCEPT !.state = "finalized", !.blob = me.data]
      <4>1. /\ new \in RowType /\ new.state = "finalized" /\ new.blob = me.data
            /\ new.received = row[u].received
        BY <1>0, <2>1 DEF RowType
      <4>2. row' = [row EXCEPT ![u] = new]
        BY <1>0, <2>1, <2>4 DEF RowType
      <4> QED BY <1>0, <2>1, <4>1, <4>2
    <3>2. RequestsSound' /\ req' \in [Request -> ReqType]
      BY <2>1, <2>2, <3>1, SoundReturn
    <3>3. Shapes'
      BY <1>0, <2>1, <2>2, <2>4, <3>1, <3>2 DEF Shapes
    <3>4. RowsBounded' /\ TempIsPrefix'
      BY <2>2, <3>1 DEF UploadInv, RowsBounded, TempIsPrefix
    <3>5. OneUploadPerKey'
      BY <2>1, <2>4, <3>1 DEF UploadInv, OneUploadPerKey
    <3>6. SealedIsWhole'
      BY <2>1, <2>2, <2>4, <3>1 DEF UploadInv, SealedIsWhole
    <3> QED BY <3>2, <3>3, <3>4, <3>5, <3>6 DEF UploadInv
  <2> QED BY <1>15, <2>3, <2>4 DEF FinCommit
<1>16. ASSUME NEW r \in Request, Abort(r) PROVE UploadInv'
  <2>1. Return(r) /\ UNCHANGED <<row, expired, temp, blobs, bucket, blobRows>>
    BY <1>16 DEF Abort
  <2>2. faults' \in 0..MaxFaults
    BY <1>0, <1>16, FaultType DEF Abort
  <2>3. Sound(Idle, row, blobs, bucket)
    BY IdleFacts DEF Sound
  <2>4. TempIsPrefix'
    BY <2>1 DEF UploadInv, TempIsPrefix
  <2> QED BY <1>0, <2>1, <2>2, <2>3, <2>4, IdleFacts, ReadStep DEF Return
<1>17. ASSUME UNCHANGED uploadVars PROVE UploadInv'
  BY <1>17 DEF uploadVars, UploadInv, Shapes, RowsBounded, RequestsSound, TempIsPrefix,
               SealedIsWhole, OneUploadPerKey
<1> QED BY <1>1, <1>2, <1>3, <1>4, <1>5, <1>6, <1>8, <1>9, <1>10, <1>11, <1>12, <1>13,
           <1>14, <1>15, <1>16, <1>17 DEF UploadsNext

-----------------------------------------------------------------------------
(* The theorems. *)

LEMMA UploadsInductive == UploadsSpec => []UploadInv
BY UploadInit, UploadStep, PTL DEF UploadsSpec

\* The state keeps its type, and a row never counts more bytes than the client
\* announced although its commit writes a sum computed before.
THEOREM UploadsTypeCorrect == UploadsSpec => []UploadsTypeOK
<1>1. UploadInv => UploadsTypeOK
  <2> SUFFICES ASSUME UploadInv PROVE UploadsTypeOK
    OBVIOUS
  <2>1. ASSUME NEW u \in Upload
        PROVE  /\ row[u].state \in {"new", "open", "received", "finalized", "gone"}
               /\ row[u].received \in 0..Size(u)
               /\ row[u].blob \in Seq(Bytes)
               /\ temp[u] \in Seq(Bytes) \cup {NoFile}
    BY ContentFacts DEF UploadInv, Shapes, RowsBounded, RowType
  <2> QED BY <2>1 DEF UploadInv, Shapes, ReqType, UploadsTypeOK
<1> QED BY <1>1, UploadsInductive, PTL

\* Whatever requests race, fail half-way or are repeated, the working file of an
\* upload is a prefix of what its client sends: TempUploadStore.append compares the
\* offset with the size of the file and writes in one synchronous step.
THEOREM WorkingFileIsPrefix == UploadsSpec => []TempIsPrefix
<1>1. UploadInv => TempIsPrefix
  BY DEF UploadInv
<1> QED BY <1>1, UploadsInductive, PTL

\* A finalized upload names the whole of its content, and that content is stored
\* where every host finds it and has its Blob row, for either store and any faults.
THEOREM FinalizedIsWhole == UploadsSpec => []SealedIsWhole
<1>1. UploadInv => SealedIsWhole
  BY DEF UploadInv
<1> QED BY <1>1, UploadsInductive, PTL

\* Two uploads never exist under one Idempotency-Key: the look-up in init_upload is
\* stale by the time of the insert, the unique index decides.
THEOREM OnePerKey == UploadsSpec => []OneUploadPerKey
<1>1. UploadInv => OneUploadPerKey
  BY DEF UploadInv
<1> QED BY <1>1, UploadsInductive, PTL
=============================================================================
