-------------------------- MODULE ArtifactsProofs --------------------------
(***************************************************************************)
(* Theorems about Artifacts, for every vocabulary, every set of backends,  *)
(* contracts, data sets, requests and outputs, and every bound: the rows   *)
(* are the outputs of the tasks, and, given that the planner's plans are   *)
(* paths, a conversion delivers what its submission promised.              *)
(***************************************************************************)
EXTENDS Artifacts, WellFoundedInduction, TLAPS

-----------------------------------------------------------------------------
(* The inductive invariant. *)

Self == OwnOf(Default)

\* A descriptor that the checks have completed and let through. Completing it again,
\* as the cache does, leaves it as it is.
Checked(d) == Described(Self, d) = d /\ Coherent(d.kind, d.format, d.type)
Stored == {d \in Descriptors(Kinds) : Checked(d)}

OutputLists == UNION {[S -> Stored] : S \in SUBSET Ordinals}

Ops == {"none", "import", "stage", "convert"}
Statuses == {"none", "pending", "running", "succeeded", "failed", "purged"}
JobType == [op : Ops, status : Statuses, dataset : Datasets \cup {None},
            input : RowType \cup {None}, role : Roles \cup {None}, plan : Seq(Conversions),
            kind : Kinds \cup {None}, provider : Providers \cup {None},
            targets : SUBSET Formats, said : Seq(Descriptors(Kinds \cup {None})),
            outputs : OutputLists]
RunType == [at : Nat, current : RowType \cup Descriptors(Kinds) \cup {None},
            listed : Seq(Descriptors(Kinds \cup {None}))]

\* What a conversion was accepted with.
Sources(jb) == {None, RowId(jb.input)}
Promise(jb) ==
  jb.op = "convert" =>
    /\ jb.input \in RowType /\ jb.plan # <<>> /\ jb.kind \in Kinds
    /\ To(jb) \in jb.targets /\ Fits(jb.kind, To(jb))

\* An artifact of the kind and in the format asked for, of a type that fits both.
Answer(d, k, f) == d.kind = k /\ d.format = f /\ Coherent(k, f, d.type) /\ d.wellFormed

\* In place i the backend left the field out, or said what was asked for.
Silent(said, i, field, value) == i \in DOMAIN said => said[i][field] \in {None, value}

\* Where a worker is in the plan, and what it holds there.
Progress(jb, work) ==
  /\ work.at \in 0 .. Len(jb.plan) + 1
  /\ work.at > 0 => jb.status = "running"
  /\ work.at = 1 => work.current = jb.input
  /\ work.at > 1 =>
       /\ jb.op = "convert" /\ work.current \in Descriptors(Kinds)
       /\ work.at = Len(jb.plan) + 1 /\ work.listed = <<>> =>
            Answer(work.current, jb.kind, To(jb)) /\ work.current.source \in Sources(jb)

Delivered(jb) ==
  jb.op = "convert" /\ jb.status = "succeeded" =>
    /\ 1 \in DOMAIN jb.outputs
    /\ \A i \in DOMAIN jb.outputs :
         /\ Silent(jb.said, i, "format", To(jb)) => jb.outputs[i].format = To(jb)
         /\ Silent(jb.said, i, "source", None) => jb.outputs[i].source \in Sources(jb)

\* The rows of a job, and nothing else is in the table.
RowsOf(j, jb) ==
  IF jb.status = "succeeded"
    THEN {StageArtifact(j, i, jb.dataset, jb.outputs[i]) : i \in DOMAIN jb.outputs} ELSE {}

RowsExact == rows = UNION {RowsOf(j, job[j]) : j \in JobIds}

Typed == /\ job \in [JobIds -> JobType] /\ run \in [JobIds -> RunType]
         /\ rows \subseteq RowType /\ route \in Providers \cup {None}

Sound == \A j \in JobIds :
           Promise(job[j]) /\ Progress(job[j], run[j]) /\ Delivered(job[j])

ArtifactsInv == Typed /\ RowsExact /\ Sound

-----------------------------------------------------------------------------
(* The vocabulary and the formats of a backend. *)

LEMMA TypeFacts ==
  /\ \A f : datatype_for_format(f) \in Types \cup {None}
  /\ \A k : datatype_for_kind(k) \in Types \cup {None}
<1>1. \A f \in CoreFormats : FormatType[f] \in Types
  BY DEF Types
<1>2. ASSUME NEW f PROVE datatype_for_format(f) \in Types \cup {None}
  BY <1>1 DEF datatype_for_format
<1>3. ASSUME NEW k PROVE datatype_for_kind(k) \in Types \cup {None}
  <2> DEFINE near == {c \in CoreKinds : IF k \in CoreKinds THEN c = k ELSE Space[c] = Space[k]}
  <2>1. CASE near = {}
    BY <2>1 DEF datatype_for_kind
  <2>2. CASE near # {}
    <3>1. (CHOOSE c \in near : TRUE) \in CoreKinds
      BY <2>2
    <3>2. DefaultFormat[CHOOSE c \in near : TRUE] \in CoreFormats
      BY <3>1, VocabularyAssumption
    <3>3. datatype_for_kind(k) = FormatType[DefaultFormat[CHOOSE c \in near : TRUE]]
      BY <2>2 DEF datatype_for_kind
    <3> QED BY <1>1, <3>2, <3>3
  <2> QED BY <2>1, <2>2
<1> QED BY <1>2, <1>3

\* A set of natural numbers has a least one.
LEMMA LeastNat ==
  ASSUME NEW S \in SUBSET Nat, S # {}
  PROVE  \E x \in S : \A y \in S : x <= y
<1>1. PICK x \in S : \A y \in S : ~(<<y, x>> \in OpToRel(<, Nat))
  BY NatLessThanWellFounded, WFMin
<1>2. OpToRel(<, Nat) = {p \in Nat \X Nat : p[1] < p[2]}
  BY Zenon DEF OpToRel
<1>3. \A y \in S : ~(<<y, x>> \in {p \in Nat \X Nat : p[1] < p[2]})
  BY Zenon, <1>1, <1>2
<1>4. \A y \in S : ~(y < x)
  BY <1>3
<1> QED BY <1>4

\* Some member of a set of records comes first, by place.
LEMMA FirstPlace ==
  ASSUME NEW D, D # {}, \A d \in D : d.at \in Nat \X Nat
  PROVE  \E d \in D : \A e \in D : Before(d.at, e.at)
<1> DEFINE Rows == {d.at[1] : d \in D}
<1>1. Rows \in SUBSET Nat /\ Rows # {}
  OBVIOUS
<1>2. PICK a \in Rows : \A y \in Rows : a <= y
  BY <1>1, LeastNat
<1> DEFINE Cols == {d.at[2] : d \in {e \in D : e.at[1] = a}}
<1>3. Cols \in SUBSET Nat /\ Cols # {}
  OBVIOUS
<1>4. PICK b \in Cols : \A y \in Cols : b <= y
  BY <1>3, LeastNat
<1>5. PICK d \in D : d.at[1] = a /\ d.at[2] = b
  OBVIOUS
<1>6. ASSUME NEW e \in D PROVE Before(d.at, e.at)
  <2>1. a <= e.at[1] /\ e.at[1] \in Nat /\ a \in Nat
    BY <1>1, <1>2
  <2>2. CASE e.at[1] = a
    <3>1. e.at[2] \in Cols
      BY <2>2
    <3> QED BY <1>4, <1>5, <2>2, <3>1 DEF Before
  <2>3. CASE a < e.at[1]
    BY <1>5, <2>3 DEF Before
  <2> QED BY <2>1, <2>2, <2>3
<1> QED BY <1>6

\* A backend's own format for a kind is a format.
LEMMA OwnFormatFacts ==
  ASSUME NEW c \in Seq(ContractRows), NEW o \in OwnFormats(c)
  PROVE  o.format \in Formats /\ o.format # None
<1>1. PICK k \in CoreKinds : /\ o = [kind |-> k, format |-> backend_default_format_for_kind(c, k)]
                             /\ o.format # None
  BY DEF OwnFormats
<1> DEFINE mine == {d \in backend_io_formats(c) : d.type = datatype_for_kind(k) /\ k \in d.kinds}
<1>2. mine # {} /\ o.format = (CHOOSE d \in mine : \A e \in mine : Before(d.at, e.at)).format
  BY <1>1 DEF backend_default_format_for_kind
<1>3. ASSUME NEW d \in backend_io_formats(c) PROVE d.at \in Nat \X Nat /\ d.format \in ExtFormats
  <2>0. PICK f \in ExtFormats : \E p \in Places(c, f) : d = IoFormat(c, f, p)
    BY DEF backend_io_formats
  <2>1. PICK p \in Places(c, f) : d = IoFormat(c, f, p)
    BY <2>0
  <2>2. p \in (DOMAIN c) \X (DOMAIN Sides)
    BY DEF Places
  <2>3. DOMAIN c \subseteq Nat /\ DOMAIN Sides \subseteq Nat
    BY DEF Sides
  <2>4. d.at = p /\ d.format = f
    BY <2>1 DEF IoFormat
  <2> QED BY <2>2, <2>3, <2>4
<1>4. \E d \in mine : \A e \in mine : Before(d.at, e.at)
  <2>1. \A d \in mine : d.at \in Nat \X Nat
    BY <1>3
  <2> HIDE DEF mine
  <2> QED BY <1>2, <2>1, FirstPlace
<1>5. (CHOOSE d \in mine : \A e \in mine : Before(d.at, e.at)) \in mine
  BY <1>4
<1>6. o.format \in ExtFormats
  BY <1>2, <1>3, <1>5
<1> QED BY <1>1, <1>6 DEF Formats

LEMMA SelfFacts == \A o \in Self : o.format \in Formats /\ o.format # None
<1>1. [provider |-> Default, formats |-> OwnFormats(Contracts[Default])] \in Own
  BY ArtifactsAssumption DEF Own
<1>2. \E o \in Own : o.provider = Default
  BY <1>1
<1> DEFINE mine == CHOOSE o \in Own : o.provider = Default
<1>3. mine \in Own
  BY <1>2
<1>4. PICK p \in Providers : mine = [provider |-> p, formats |-> OwnFormats(Contracts[p])]
  BY <1>3 DEF Own
<1>5. Self = mine.formats
  BY DEF Self, OwnOf
<1> HIDE DEF mine
<1>6. Self = OwnFormats(Contracts[p])
  BY <1>4, <1>5
<1>7. Contracts[p] \in Seq(ContractRows)
  BY ArtifactsAssumption
<1> QED BY <1>6, <1>7, OwnFormatFacts

\* What validate_artifact_descriptor completes is a descriptor, of the same kind, name and
\* source, and is left as it is when it is completed again.
LEMMA DescribedFacts ==
  ASSUME NEW d \in Descriptors(Kinds)
  PROVE  LET e == Described(Self, d)
         IN  /\ e \in Descriptors(Kinds) /\ Described(Self, e) = e
             /\ e.kind = d.kind /\ e.source = d.source
             /\ d.format # None => e.format = d.format
             /\ d.type # None => e.type = d.type
             /\ d.format # None /\ d.type = None =>
                  e.type = IF datatype_for_format(d.format) # None
                             THEN datatype_for_format(d.format) ELSE datatype_for_kind(d.kind)
<1> DEFINE mine == {o \in Self : o.kind = d.kind}
           own == IF mine # {} THEN (CHOOSE o \in mine : TRUE).format ELSE DefaultFormat[d.kind]
           f == IF d.format # None THEN d.format
                ELSE IF d.meta # None THEN d.meta
                ELSE IF d.kind \notin CoreKinds THEN None ELSE own
           t == IF d.type # None THEN d.type
                ELSE IF datatype_for_format(f) # None THEN datatype_for_format(f)
                ELSE datatype_for_kind(d.kind)
           e == [d EXCEPT !.format = f, !.meta = f, !.type = t]
<1>1. Described(Self, d) = e
  BY DEF Described
<1>2. d.kind \in CoreKinds => own \in Formats /\ own # None
  <2>1. CASE mine # {}
    <3>1. (CHOOSE o \in mine : TRUE) \in mine
      BY <2>1
    <3>2. (CHOOSE o \in mine : TRUE) \in Self
      BY <3>1
    <3> QED BY <2>1, <3>2, SelfFacts
  <2>2. CASE mine = {}
    BY <2>2, VocabularyAssumption DEF Formats
  <2> QED BY <2>1, <2>2
<1> HIDE DEF own
<1>3. f \in Formats \cup {None} /\ (f = None => d.kind \notin CoreKinds)
  BY <1>2 DEF Descriptors
<1>4. t \in Types \cup {None}
  BY TypeFacts DEF Descriptors
<1>5. t = None => datatype_for_format(f) = None /\ datatype_for_kind(d.kind) = None
  OBVIOUS
<1>6. d.format # None => f = d.format
  OBVIOUS
<1>7. d.format # None /\ d.type = None =>
        t = IF datatype_for_format(d.format) # None
              THEN datatype_for_format(d.format) ELSE datatype_for_kind(d.kind)
  OBVIOUS
<1>11. d.type # None => t = d.type
  OBVIOUS
<1> HIDE DEF f, t
<1>8. /\ e \in Descriptors(Kinds) /\ e.kind = d.kind /\ e.source = d.source
      /\ e.format = f /\ e.meta = f /\ e.type = t
  BY <1>3, <1>4 DEF Descriptors
<1> HIDE DEF e
<1>9. Described(Self, e) = [e EXCEPT !.format = f, !.meta = f, !.type = t]
  BY <1>3, <1>5, <1>8 DEF Described
<1>10. [e EXCEPT !.format = f, !.meta = f, !.type = t] = e
  BY <1>8 DEF Descriptors
<1> QED BY <1>1, <1>6, <1>7, <1>8, <1>9, <1>10, <1>11

-----------------------------------------------------------------------------
(* Outputs and rows. *)

\* What normalize_task_outputs makes of a list whose descriptors the checks let through.
LEMMA NormalizedFacts ==
  ASSUME NEW S \in SUBSET Ordinals, NEW list \in [S -> Descriptors(Kinds)],
         \A i \in S : Described(Self, list[i]) \in Stored
  PROVE  /\ Normalized(list) \in OutputLists
         /\ DOMAIN Normalized(list) \subseteq S
         /\ \A i \in DOMAIN Normalized(list) : Normalized(list)[i] = Described(Self, list[i])
         /\ 1 \in S => 1 \in DOMAIN Normalized(list)
<1> DEFINE all == [i \in DOMAIN list |-> Described(OwnOf(Default), list[i])]
           keep == {n \in DOMAIN all : \A e \in DOMAIN all :
                      e < n => all[e].kind # all[n].kind \/ all[e].name # all[n].name}
<1>1. Normalized(list) = [i \in keep |-> all[i]]
  BY DEF Normalized, Unique
<1>2. DOMAIN all = S /\ \A i \in S : all[i] = Described(Self, list[i])
  BY DEF Self
<1>3. keep \subseteq S
  BY <1>2
<1>4. 1 \in S => 1 \in keep
  <2> SUFFICES ASSUME 1 \in S, NEW e \in S, e < 1 PROVE FALSE
    BY <1>2
  <2> QED BY DEF Ordinals
<1> HIDE DEF all, keep
<1>5. [i \in keep |-> all[i]] \in [keep -> Stored]
  BY <1>2, <1>3
<1>6. keep \in SUBSET Ordinals
  BY <1>3
<1>7. Normalized(list) \in OutputLists
  BY <1>1, <1>5, <1>6 DEF OutputLists
<1> QED BY <1>1, <1>2, <1>3, <1>4, <1>7

\* Descriptors that the checks let through are stored.
LEMMA AdmissibleFacts ==
  ASSUME NEW d \in Descriptors(Kinds), Accepted(Self, d)
  PROVE  Described(Self, d) \in Stored
<1>1. Coherent(Described(Self, d).kind, Described(Self, d).format, Described(Self, d).type)
  BY DEF Accepted
<1> QED BY <1>1, DescribedFacts DEF Stored, Checked

\* A list of stored descriptors is one of places.
LEMMA OutputsFacts ==
  ASSUME NEW outs \in OutputLists
  PROVE  /\ DOMAIN outs \in SUBSET Ordinals
         /\ outs \in [DOMAIN outs -> Descriptors(Kinds)]
         /\ \A i \in DOMAIN outs : outs[i] \in Stored /\ Described(Self, outs[i]) = outs[i]
<1>1. PICK S \in SUBSET Ordinals : outs \in [S -> Stored]
  BY DEF OutputLists
<1> QED BY <1>1 DEF Stored, Checked

LEMMA EmptyOutputs == <<>> \in OutputLists
<1>1. <<>> \in [{} -> Stored]
  OBVIOUS
<1> QED BY <1>1 DEF OutputLists

\* The rows of a job.
LEMMA RowFacts ==
  ASSUME NEW j \in JobIds, NEW jb \in JobType, NEW r \in RowsOf(j, jb)
  PROVE  r \in RowType /\ r.job = j
<1>1. PICK i \in DOMAIN jb.outputs : r = StageArtifact(j, i, jb.dataset, jb.outputs[i])
  BY DEF RowsOf
<1>2. i \in Ordinals /\ jb.outputs[i] \in Descriptors(Kinds)
  BY OutputsFacts DEF JobType
<1>3. jb.dataset \in Datasets \cup {None}
  BY DEF JobType
<1> QED BY <1>1, <1>2, <1>3 DEF StageArtifact, RowType, Descriptors

\* Replacing a job and its rows together keeps the table exact.
LEMMA RowsMove ==
  ASSUME Typed, RowsExact, NEW j \in JobIds, NEW jb \in JobType,
         job' = [job EXCEPT ![j] = jb],
         \/ rows' = {r \in rows : r.job # j} \cup RowsOf(j, jb)
         \/ rows' = rows /\ RowsOf(j, jb) = RowsOf(j, job[j])
  PROVE  RowsExact' /\ (rows \subseteq RowType)'
<1>1. \A i \in JobIds : job[i] \in JobType /\ job'[i] = IF i = j THEN jb ELSE job[i]
  BY DEF Typed
<1>2. {r \in rows : r.job # j} = UNION {RowsOf(i, job[i]) : i \in JobIds \ {j}}
  BY <1>1, RowFacts DEF RowsExact
<1>3. rows = {r \in rows : r.job # j} \cup RowsOf(j, job[j])
  BY <1>2 DEF RowsExact
<1>4. rows' = {r \in rows : r.job # j} \cup RowsOf(j, jb)
  BY <1>3
<1>5. UNION {RowsOf(i, job'[i]) : i \in JobIds}
        = (UNION {RowsOf(i, job[i]) : i \in JobIds \ {j}}) \cup RowsOf(j, jb)
  BY <1>1
<1>6. RowsOf(j, jb) \subseteq RowType
  BY RowFacts
<1> QED BY <1>2, <1>4, <1>5, <1>6 DEF RowsExact, Typed

\* One job, its worker and its rows change: what has to be shown of the step.
LEMMA Rewrite ==
  ASSUME ArtifactsInv, NEW j \in JobIds, NEW jb \in JobType, NEW work \in RunType,
         job' = [job EXCEPT ![j] = jb], run' = [run EXCEPT ![j] = work],
         \/ rows' = {r \in rows : r.job # j} \cup RowsOf(j, jb)
         \/ rows' = rows /\ RowsOf(j, jb) = RowsOf(j, job[j]),
         route' \in Providers \cup {None},
         Promise(jb), Progress(jb, work), Delivered(jb)
  PROVE  ArtifactsInv'
<1>1. RowsExact' /\ (rows \subseteq RowType)'
  BY RowsMove DEF ArtifactsInv
<1>2. (job \in [JobIds -> JobType])' /\ (run \in [JobIds -> RunType])'
  BY DEF ArtifactsInv, Typed
<1>3. ASSUME NEW i \in JobIds
      PROVE  Promise(job'[i]) /\ Progress(job'[i], run'[i]) /\ Delivered(job'[i])
  <2>1. /\ job'[i] = IF i = j THEN jb ELSE job[i]
        /\ run'[i] = IF i = j THEN work ELSE run[i]
    BY DEF ArtifactsInv, Typed
  <2> QED BY <2>1 DEF ArtifactsInv, Sound
<1> QED BY <1>1, <1>2, <1>3 DEF ArtifactsInv, Typed, Sound

-----------------------------------------------------------------------------
(* Submissions. *)

LEMMA BlankTyped ==
  NoJob \in JobType /\ NoRun \in RunType /\ \A r \in RowType : RowId(r) \in JobIds \X Nat
<1>1. <<>> \in Seq(Conversions) /\ <<>> \in Seq(Descriptors(Kinds \cup {None}))
  OBVIOUS
<1>2. NoJob \in JobType
  BY <1>1, EmptyOutputs DEF NoJob, JobType, Ops, Statuses
<1>3. NoRun \in RunType
  BY <1>1 DEF NoRun, RunType
<1>4. \A r \in RowType : RowId(r) \in JobIds \X Nat
  BY DEF RowType, RowId, Ordinals
<1> QED BY <1>2, <1>3, <1>4

\* A job that nobody has used has no worker and no rows.
LEMMA FreshFacts ==
  ASSUME ArtifactsInv, Unused # {}
  PROVE  /\ Fresh \in JobIds /\ job[Fresh].status = "none"
         /\ run[Fresh] \in RunType /\ run[Fresh].at = 0 /\ RowsOf(Fresh, job[Fresh]) = {}
<1>1. Unused \in SUBSET Nat
  BY DEF Unused, JobIds
<1>2. \E j \in Unused : \A i \in Unused : j <= i
  BY <1>1, LeastNat
<1>3. Fresh \in Unused
  BY <1>2 DEF Fresh
<1>4. Fresh \in JobIds /\ job[Fresh].status = "none"
  BY <1>3 DEF Unused
<1> HIDE DEF Fresh
<1>5. run[Fresh] \in RunType /\ Progress(job[Fresh], run[Fresh])
  BY <1>4 DEF ArtifactsInv, Typed, Sound
<1>6. run[Fresh].at = 0
  BY <1>4, <1>5 DEF Progress, RunType
<1> QED BY <1>4, <1>5, <1>6 DEF RowsOf

\* A job without a worker is where it should be.
LEMMA NoProgress ==
  ASSUME NEW jb \in JobType, NEW work \in RunType, work.at = 0
  PROVE  Progress(jb, work)
<1>1. Len(jb.plan) \in Nat
  BY DEF JobType
<1> QED BY <1>1 DEF Progress

LEMMA SubmitKeeps ==
  ASSUME ArtifactsInv, NEW jb \in JobType, jb.op # "none", jb.outputs = <<>>,
          Promise(jb), Submit(jb)
  PROVE  ArtifactsInv'
<1> DEFINE j == Fresh
<1>1. /\ j \in JobIds /\ run[j] \in RunType /\ run[j].at = 0 /\ RowsOf(j, job[j]) = {}
      /\ run' = [run EXCEPT ![j] = run[j]] /\ route' \in Providers \cup {None}
  BY FreshFacts DEF Submit, ArtifactsInv, Typed
<1>2. CASE job' = [job EXCEPT ![j] = [jb EXCEPT !.status = "pending"]] /\ UNCHANGED rows
  <2> DEFINE new == [jb EXCEPT !.status = "pending"]
  <2>1. new \in JobType /\ new.status = "pending"
    BY DEF JobType, Statuses
  <2>2. Promise(new)
    BY DEF Promise, To, JobType
  <2> HIDE DEF new, j
  <2>3. Delivered(new) /\ RowsOf(j, new) = {} /\ Progress(new, run[j])
    BY <1>1, <2>1, NoProgress DEF Delivered, RowsOf
  <2>4. job' = [job EXCEPT ![j] = new] /\ rows' = rows
    BY <1>2 DEF new
  <2> QED BY <1>1, <2>1, <2>2, <2>3, <2>4, Rewrite
<1>3. ASSUME NEW i \in JobIds, job[i].status = "succeeded", CacheKey(job[i]) = CacheKey(jb),
             job' = [job EXCEPT ![j] = [jb EXCEPT !.status = "succeeded", !.said = job[i].said,
                                                  !.outputs = Normalized(job[i].outputs)]],
             rows' = Recorded(j, jb, Normalized(job[i].outputs))
      PROVE  ArtifactsInv'
  <2> DEFINE old == job[i].outputs
             outs == Normalized(old)
             new == [jb EXCEPT !.status = "succeeded", !.said = job[i].said, !.outputs = outs]
  <2>1. /\ job[i] \in JobType /\ old \in OutputLists
        /\ job[i].said \in Seq(Descriptors(Kinds \cup {None}))
    BY DEF ArtifactsInv, Typed, JobType
  <2>2. /\ outs \in OutputLists /\ DOMAIN outs \subseteq DOMAIN old
        /\ \A n \in DOMAIN outs : outs[n] = old[n]
        /\ 1 \in DOMAIN old => 1 \in DOMAIN outs
    <3>1. \A n \in DOMAIN old : Described(Self, old[n]) \in Stored
      BY <2>1, OutputsFacts
    <3> QED BY <2>1, <3>1, OutputsFacts, NormalizedFacts
  <2> HIDE DEF outs
  <2>3. /\ new \in JobType /\ new.status = "succeeded" /\ new.outputs = outs
        /\ new.dataset = jb.dataset /\ new.op = jb.op /\ new.plan = jb.plan /\ new.input = jb.input
        /\ new.said = job[i].said
    BY <2>1, <2>2 DEF JobType, Statuses
  <2>4. Promise(new)
    BY DEF Promise, To, JobType
  <2>5. Delivered(new)
    <3> SUFFICES ASSUME jb.op = "convert" PROVE Delivered(new)
      BY <2>3 DEF Delivered
    <3>1. job[i].op = "convert" /\ job[i].plan = jb.plan /\ Delivered(job[i])
      BY <1>3 DEF CacheKey, ArtifactsInv, Sound
    <3>2. Sources(job[i]) \subseteq Sources(jb)
      <4>1. (IF job[i].input = None THEN None ELSE RowId(job[i].input))
              = (IF jb.input = None THEN None ELSE RowId(jb.input))
        BY <1>3 DEF CacheKey
      <4>2. job[i].input \in RowType /\ jb.input \in RowType
        BY <3>1 DEF ArtifactsInv, Sound, Promise
      <4>3. job[i].input # None /\ jb.input # None
        BY <4>2, ArtifactsAssumption
      <4> QED BY <4>1, <4>3 DEF Sources
    <3>3. /\ 1 \in DOMAIN old
          /\ \A n \in DOMAIN old :
               /\ Silent(job[i].said, n, "format", To(job[i])) => old[n].format = To(job[i])
               /\ Silent(job[i].said, n, "source", None) => old[n].source \in Sources(job[i])
      BY <1>3, <3>1 DEF Delivered
    <3>4. To(new) = To(job[i]) /\ Sources(new) = Sources(jb)
      BY <2>3, <3>1 DEF To, Sources
    <3> HIDE DEF new
    <3> QED BY <2>2, <2>3, <3>2, <3>3, <3>4 DEF Delivered
  <2>6. rows' = {r \in rows : r.job # j} \cup RowsOf(j, new)
    <3> HIDE DEF new
    <3> QED BY <1>3, <2>3 DEF Recorded, RowsOf, outs
  <2>7. job' = [job EXCEPT ![j] = new]
    BY <1>3 DEF outs
  <2> HIDE DEF new, j
  <2>8. Progress(new, run[j])
    BY <1>1, <2>3, NoProgress
  <2> QED BY <1>1, <2>3, <2>4, <2>5, <2>6, <2>7, <2>8, Rewrite
<1> QED BY <1>2, <1>3 DEF Submit

LEMMA ImportKeeps ==
  ASSUME ArtifactsInv, NEW d \in Imports, NEW ds \in Datasets \cup {None}, Import(d, ds)
  PROVE  ArtifactsInv'
<1> DEFINE j == Fresh
           outs == Normalized(<<d>>)
           new == [NoJob EXCEPT !.op = "import", !.status = "succeeded", !.dataset = ds,
                                !.outputs = outs]
<1>1. /\ j \in JobIds /\ run[j] \in RunType /\ run[j].at = 0
      /\ run' = [run EXCEPT ![j] = run[j]] /\ route' \in Providers \cup {None}
  BY FreshFacts DEF Import, ArtifactsInv, Typed
<1>2. outs \in OutputLists
  <2>1. d \in Descriptors(Kinds) /\ Accepted(Self, d)
    BY ArtifactsAssumption DEF Import, Admissible, Self
  <2>2. Described(Self, d) \in Stored
    BY <2>1, AdmissibleFacts
  <2>3. <<d>> \in [{1} -> Descriptors(Kinds)] /\ {1} \in SUBSET Ordinals /\ <<d>>[1] = d
    BY <2>1 DEF Ordinals
  <2>4. \A i \in {1} : Described(Self, <<d>>[i]) \in Stored
    BY <2>2, <2>3
  <2> QED BY <2>3, <2>4, NormalizedFacts
<1>3. job' = [job EXCEPT ![j] = new] /\ rows' = Recorded(j, new, new.outputs)
  BY DEF Import
<1> HIDE DEF outs
<1>4. /\ new \in JobType /\ new.status = "succeeded" /\ new.outputs = outs
      /\ new.dataset = ds /\ new.op = "import"
  BY <1>2, BlankTyped DEF JobType, Ops, Statuses, NoJob
<1> HIDE DEF new, j
<1>5. rows' = {r \in rows : r.job # j} \cup RowsOf(j, new)
  BY <1>3, <1>4 DEF Recorded, RowsOf
<1>6. Promise(new) /\ Delivered(new) /\ Progress(new, run[j])
  BY <1>1, <1>4, NoProgress DEF Promise, Delivered
<1> QED BY <1>1, <1>3, <1>4, <1>5, <1>6, Rewrite

LEMMA TargetKind ==
  ASSUME NEW source \in Kinds, NEW f, NEW explicit \in Kinds \cup {None}
  PROVE  target_kind(source, f, explicit) \in Kinds
<1> DEFINE owners == {k \in CoreKinds : DefaultFormat[k] = f}
<1>1. kind_for_default_format(f) # None => kind_for_default_format(f) \in Kinds
  <2> SUFFICES ASSUME owners # {} PROVE (CHOOSE k \in owners : TRUE) \in Kinds
    BY DEF kind_for_default_format
  <2>1. (CHOOSE k \in owners : TRUE) \in owners
    OBVIOUS
  <2> QED BY <2>1 DEF Kinds
<1> QED BY <1>1 DEF target_kind

LEMMA SubmitStageKeeps ==
  ASSUME ArtifactsInv, NEW ds \in Datasets, NEW role \in Roles, NEW r \in rows \cup {None},
         SubmitStage(ds, role, r)
  PROVE  ArtifactsInv'
<1> DEFINE jb == [NoJob EXCEPT !.op = "stage", !.dataset = ds, !.input = r,
                               !.role = IF r = None THEN None ELSE role]
<1>1. r \in RowType \cup {None}
  BY DEF ArtifactsInv, Typed
<1>2. jb \in JobType /\ jb.op = "stage" /\ jb.outputs = <<>>
  BY <1>1, BlankTyped DEF JobType, Ops, NoJob
<1>3. Submit(jb)
  BY DEF SubmitStage
<1> HIDE DEF jb
<1>4. Promise(jb)
  BY <1>2 DEF Promise
<1> QED BY <1>2, <1>3, <1>4, SubmitKeeps

LEMMA SubmitConvertKeeps ==
  ASSUME PlansArePaths, ArtifactsInv, NEW r \in rows, NEW p \in Plans, SubmitConvert(r, p)
  PROVE  ArtifactsInv'
<1> DEFINE steps == p.plan.steps
           to == steps[Len(steps)].to
           kind == target_kind(r.kind, to, p.req.kind)
           provider == IF p.req.provider = None THEN route ELSE p.req.provider
           jb == [NoJob EXCEPT !.op = "convert", !.input = r, !.plan = steps, !.kind = kind,
                               !.provider = provider, !.targets = p.req.targets]
<1>1. /\ p.plan.executable /\ p.plan.required /\ Fits(kind, to) /\ Submit(jb)
  BY DEF SubmitConvert
<1>2. p.req \in Requests
  BY DEF Plans
<1>3. /\ p.req.targets \in SUBSET Formats /\ p.req.provider \in Providers \cup {None}
      /\ p.req.kind \in Kinds \cup {None}
  BY <1>2, ArtifactsAssumption
<1>4. steps \in Seq(Conversions) /\ steps # <<>> /\ to \in p.req.targets
  BY <1>1 DEF PlansArePaths
<1>5. r \in RowType /\ r.kind \in Kinds
  BY DEF ArtifactsInv, Typed, RowType
<1>6. kind \in Kinds
  BY <1>3, <1>5, TargetKind
<1>7. provider \in Providers \cup {None}
  BY <1>3 DEF ArtifactsInv, Typed
<1> HIDE DEF kind, provider, steps
<1>8. /\ jb \in JobType /\ jb.op = "convert" /\ jb.outputs = <<>> /\ jb.input = r
      /\ jb.plan = steps /\ jb.kind = kind /\ jb.targets = p.req.targets
  BY <1>3, <1>4, <1>5, <1>6, <1>7, BlankTyped DEF JobType, Ops, NoJob
<1> HIDE DEF jb
<1>9. Promise(jb)
  BY <1>1, <1>4, <1>5, <1>6, <1>8 DEF Promise, To
<1> QED BY <1>1, <1>8, <1>9, SubmitKeeps

-----------------------------------------------------------------------------
(* Answers. *)

LEMMA FilledFacts ==
  ASSUME NEW d \in Descriptors(Kinds \cup {None}), NEW k \in Kinds, NEW f \in Formats,
         NEW source \in JobIds \X Nat
  PROVE  LET e == Filled(d, k, f, source)
         IN  /\ e \in Descriptors(Kinds)
             /\ d.source = None => e.source = source
             /\ e.format = IF d.format = None THEN f ELSE d.format
             /\ Keeps(d, k, f) => Answer(e, k, f)
BY DEF Filled, Descriptors, Answer, Keeps, WellFormed

\* What answers a request for a fitting kind and format is let through by the checks.
LEMMA AnswerAccepted ==
  ASSUME NEW k \in Kinds, NEW f \in Formats, NEW d \in Descriptors(Kinds),
         Answer(d, k, f), Fits(k, f)
  PROVE  /\ Accepted(Self, d) /\ Described(Self, d).format = f
         /\ Described(Self, d).source = d.source
<1> DEFINE e == Described(Self, d)
<1>1. d.kind = k /\ d.format = f /\ Coherent(k, f, d.type) /\ d.wellFormed /\ f # None
  BY VocabularyAssumption DEF Answer, Formats
<1>2. /\ e.kind = k /\ e.source = d.source /\ e.format = f
      /\ d.type # None => e.type = d.type
      /\ d.type = None => e.type = IF datatype_for_format(f) # None THEN datatype_for_format(f)
                                   ELSE datatype_for_kind(k)
  BY <1>1, DescribedFacts
<1> HIDE DEF e
<1>3. Coherent(e.kind, e.format, e.type)
  BY <1>1, <1>2 DEF Coherent, Fits, is_format_compatible_with_kind
<1> QED BY <1>1, <1>2, <1>3 DEF Accepted, WellFormed, e

\* What a converter returns when it has gone through its plan.
LEMMA ReturnedFacts ==
  ASSUME ArtifactsInv, NEW j \in JobIds, job[j].op = "convert",
         run[j].at = Len(job[j].plan) + 1
  PROVE  /\ DOMAIN Returned(j) \in SUBSET Ordinals /\ 1 \in DOMAIN Returned(j)
         /\ Returned(j) \in [DOMAIN Returned(j) -> Descriptors(Kinds)]
         /\ run[j].listed \in Seq(Descriptors(Kinds \cup {None}))
         /\ \A i \in DOMAIN Returned(j) :
              LET e == Described(Self, Returned(j)[i])
              IN  /\ Silent(run[j].listed, i, "format", To(job[j])) => e.format = To(job[j])
                  /\ Silent(run[j].listed, i, "source", None) => e.source \in Sources(job[j])
         /\ (\A d \in ToSet(run[j].listed) : Keeps(d, job[j].kind, To(job[j])))
              => \A i \in DOMAIN Returned(j) : Accepted(Self, Returned(j)[i])
<1> DEFINE jb == job[j]
           work == run[j]
           list == Returned(j)
           src == RowId(jb.input)
           Faithful(i) ==
             LET e == Described(Self, list[i])
             IN  /\ Silent(work.listed, i, "format", To(jb)) => e.format = To(jb)
                 /\ Silent(work.listed, i, "source", None) => e.source \in Sources(jb)
           Kept == \A d \in ToSet(work.listed) : Keeps(d, jb.kind, To(jb))
<1>1. jb \in JobType /\ work \in RunType /\ Promise(jb) /\ Progress(jb, work)
  BY DEF ArtifactsInv, Typed, Sound
<1>2. /\ jb.plan \in Seq(Conversions) /\ jb.plan # <<>> /\ jb.input \in RowType
      /\ jb.kind \in Kinds /\ To(jb) \in Formats /\ Fits(jb.kind, To(jb)) /\ To(jb) # None
  <2>1. /\ jb.plan \in Seq(Conversions) /\ jb.plan # <<>> /\ jb.input \in RowType
        /\ jb.kind \in Kinds /\ To(jb) \in Formats /\ Fits(jb.kind, To(jb))
    BY <1>1 DEF Promise, JobType
  <2> QED BY <2>1, VocabularyAssumption
<1>3. work.at > 1
  BY <1>2
<1>4. /\ work.current \in Descriptors(Kinds)
      /\ work.listed = <<>> =>
           Answer(work.current, jb.kind, To(jb)) /\ work.current.source \in Sources(jb)
  BY <1>1, <1>3 DEF Progress
<1>5. work.listed \in Seq(Descriptors(Kinds \cup {None}))
  BY <1>1 DEF RunType
<1>6. list = IF work.listed = <<>> THEN <<work.current>>
             ELSE [i \in DOMAIN work.listed |-> Filled(work.listed[i], jb.kind, To(jb), src)]
  BY DEF Returned
<1>7. src \in JobIds \X Nat /\ src \in Sources(jb)
  BY <1>2, BlankTyped DEF Sources
<1>8. CASE work.listed = <<>>
  <2>1. list = <<work.current>> /\ DOMAIN list = {1} /\ list[1] = work.current
    BY <1>6, <1>8
  <2>2. /\ Accepted(Self, work.current) /\ Described(Self, work.current).format = To(jb)
        /\ Described(Self, work.current).source \in Sources(jb)
    BY <1>2, <1>4, <1>8, AnswerAccepted
  <2>3. \A i \in DOMAIN list : Faithful(i) /\ Accepted(Self, list[i])
    BY <2>1, <2>2
  <2>4. DOMAIN list \in SUBSET Ordinals /\ 1 \in DOMAIN list
    BY <2>1 DEF Ordinals
  <2>5. list \in [DOMAIN list -> Descriptors(Kinds)]
    BY <1>4, <2>1
  <2> HIDE DEF list
  <2> QED BY <1>5, <2>3, <2>4, <2>5 DEF list
<1>9. CASE work.listed # <<>>
  <2>1. DOMAIN work.listed \in SUBSET Ordinals /\ 1 \in DOMAIN work.listed
    BY <1>5, <1>9 DEF Ordinals
  <2>2. list = [i \in DOMAIN work.listed |-> Filled(work.listed[i], jb.kind, To(jb), src)]
    BY <1>6, <1>9
  <2>3. ASSUME NEW i \in DOMAIN work.listed
        PROVE  /\ list[i] \in Descriptors(Kinds) /\ Faithful(i)
               /\ Kept => Accepted(Self, list[i])
    <3> DEFINE d == work.listed[i]
               e == Filled(d, jb.kind, To(jb), src)
    <3>1. d \in Descriptors(Kinds \cup {None})
      BY <1>5
    <3>2. list[i] = e
      BY <2>2
    <3>3. Kept => Keeps(d, jb.kind, To(jb))
      BY DEF ToSet
    <3> HIDE DEF d
    <3>4. /\ e \in Descriptors(Kinds)
          /\ d.source = None => e.source = src
          /\ e.format = IF d.format = None THEN To(jb) ELSE d.format
          /\ Keeps(d, jb.kind, To(jb)) => Answer(e, jb.kind, To(jb))
      <4> HIDE DEF jb, src
      <4> QED BY <1>2, <1>7, <3>1, FilledFacts, Zenon
    <3> HIDE DEF e, list, Kept
    <3>5. Kept => Accepted(Self, e)
      BY <1>2, <3>3, <3>4, AnswerAccepted
    <3>6. Described(Self, e).source = e.source /\ (e.format # None => Described(Self, e).format = e.format)
      BY <3>4, DescribedFacts
    <3>7. Silent(work.listed, i, "format", To(jb)) => Described(Self, e).format = To(jb)
      BY <1>2, <3>4, <3>6 DEF Silent, d
    <3>8. Silent(work.listed, i, "source", None) => Described(Self, e).source \in Sources(jb)
      BY <1>7, <3>4, <3>6 DEF Silent, d
    <3> QED BY <3>2, <3>4, <3>5, <3>7, <3>8
  <2>4. DOMAIN list = DOMAIN work.listed
    BY <2>2
  <2>5. list \in [DOMAIN list -> Descriptors(Kinds)]
    <3>1. list = [i \in DOMAIN list |-> list[i]]
      BY <2>2
    <3> HIDE DEF list
    <3> QED BY <2>3, <2>4, <3>1
  <2> HIDE DEF list, Faithful, Kept
  <2>6. /\ DOMAIN list \in SUBSET Ordinals /\ 1 \in DOMAIN list
        /\ \A i \in DOMAIN list : Faithful(i)
        /\ Kept => \A i \in DOMAIN list : Accepted(Self, list[i])
    BY <2>1, <2>3, <2>4
  <2> QED BY <1>5, <2>5, <2>6 DEF list, Faithful, Kept
<1> QED BY <1>8, <1>9

-----------------------------------------------------------------------------
(* The steps of a worker. *)

\* The terminal commit: status, outputs and rows together.
LEMMA CommitKeeps ==
  ASSUME ArtifactsInv, NEW j \in JobIds, job[j].status = "running",
         NEW S \in SUBSET Ordinals, NEW list \in [S -> Descriptors(Kinds)],
         NEW said \in Seq(Descriptors(Kinds \cup {None})),
         job[j].op = "convert" =>
           /\ 1 \in S
           /\ \A i \in S :
                LET e == Described(Self, list[i])
                IN  /\ Silent(said, i, "format", To(job[j])) => e.format = To(job[j])
                    /\ Silent(said, i, "source", None) => e.source \in Sources(job[j]),
         Commit(j, list, said), run' = [run EXCEPT ![j] = NoRun], route' = route
  PROVE  ArtifactsInv'
<1>1. /\ job[j] \in JobType /\ job \in [JobIds -> JobType] /\ Promise(job[j])
      /\ NoRun \in RunType /\ NoRun.at = 0 /\ route' \in Providers \cup {None}
      /\ RowsOf(j, job[j]) = {}
  BY BlankTyped DEF ArtifactsInv, Typed, Sound, NoRun, RowsOf
<1>2. CASE Admissible(list)
  <2> DEFINE outs == Normalized(list)
             new == [job[j] EXCEPT !.status = "succeeded", !.said = said, !.outputs = outs]
  <2>1. \A i \in S : Described(Self, list[i]) \in Stored
    <3> SUFFICES ASSUME NEW i \in S PROVE Described(Self, list[i]) \in Stored
      OBVIOUS
    <3>1. list[i] \in Descriptors(Kinds) /\ Accepted(Self, list[i])
      BY <1>2 DEF Admissible, Self
    <3> QED BY <3>1, AdmissibleFacts
  <2>2. /\ outs \in OutputLists /\ DOMAIN outs \subseteq S
        /\ \A i \in DOMAIN outs : outs[i] = Described(Self, list[i])
        /\ 1 \in S => 1 \in DOMAIN outs
    BY <2>1, NormalizedFacts
  <2>3. /\ job' = [job EXCEPT ![j].status = "succeeded", ![j].said = said, ![j].outputs = outs]
        /\ rows' = Recorded(j, job[j], outs)
    BY <1>2 DEF Commit
  <2> HIDE DEF outs
  <2>4. job' = [job EXCEPT ![j] = new]
    BY <1>1, <2>3
  <2>5. /\ new \in JobType /\ new.status = "succeeded" /\ new.outputs = outs /\ new.said = said
        /\ new.dataset = job[j].dataset /\ new.op = job[j].op /\ new.plan = job[j].plan
        /\ new.input = job[j].input /\ new.kind = job[j].kind /\ new.targets = job[j].targets
    BY <1>1, <2>2 DEF JobType, Statuses
  <2> HIDE DEF new
  <2>6. Promise(new) /\ To(new) = To(job[j]) /\ Sources(new) = Sources(job[j])
    BY <1>1, <2>5 DEF Promise, To, Sources
  <2>7. Delivered(new)
    BY <2>2, <2>5, <2>6 DEF Delivered
  <2>8. rows' = {r \in rows : r.job # j} \cup RowsOf(j, new)
    BY <2>3, <2>5 DEF Recorded, RowsOf
  <2> QED BY <1>1, <2>4, <2>5, <2>6, <2>7, <2>8, NoProgress, Rewrite
<1>3. CASE ~Admissible(list)
  <2> DEFINE new == [job[j] EXCEPT !.status = "failed"]
  <2>1. job' = [job EXCEPT ![j] = new] /\ rows' = rows
    BY <1>1, <1>3 DEF Commit
  <2>2. /\ new \in JobType /\ new.status = "failed" /\ Promise(new)
    BY <1>1 DEF JobType, Statuses, Promise, To
  <2> HIDE DEF new
  <2>3. Delivered(new) /\ RowsOf(j, new) = {}
    BY <2>2 DEF Delivered, RowsOf
  <2> QED BY <1>1, <2>1, <2>2, <2>3, NoProgress, Rewrite
<1> QED BY <1>2, <1>3

\* A step that only moves a job between the statuses in which it has no rows.
LEMMA StatusKeeps ==
  ASSUME ArtifactsInv, NEW j \in JobIds, NEW s \in {"pending", "running", "failed"},
         job[j].status \in {"pending", "running"}, job' = [job EXCEPT ![j].status = s],
         NEW work \in RunType, run' = [run EXCEPT ![j] = work], UNCHANGED <<rows, route>>,
         \/ work.at = 0
         \/ s = "running" /\ work.at = 1 /\ work.current = job[j].input
  PROVE  ArtifactsInv'
<1> DEFINE new == [job[j] EXCEPT !.status = s]
<1>1. /\ job[j] \in JobType /\ job \in [JobIds -> JobType] /\ Promise(job[j])
      /\ route' \in Providers \cup {None} /\ RowsOf(j, job[j]) = {}
  BY DEF ArtifactsInv, Typed, Sound, RowsOf
<1>2. job' = [job EXCEPT ![j] = new] /\ rows' = rows
  BY <1>1
<1>3. /\ new \in JobType /\ new.status = s /\ new.plan = job[j].plan /\ new.input = job[j].input
      /\ Promise(new)
  BY <1>1 DEF JobType, Statuses, Promise, To
<1> HIDE DEF new
<1>4. Delivered(new) /\ RowsOf(j, new) = {}
  BY <1>3 DEF Delivered, RowsOf
<1>5. Progress(new, work)
  <2>1. Len(new.plan) \in Nat
    BY <1>3 DEF JobType
  <2> QED BY <1>3, <2>1, NoProgress DEF Progress
<1> QED BY <1>1, <1>2, <1>3, <1>4, <1>5, Rewrite

LEMMA ConvertStepKeeps ==
  ASSUME ArtifactsInv, NEW j \in JobIds, Converting(j), NEW answer \in Answers,
         ConvertStep(j, answer)
  PROVE  ArtifactsInv'
<1> DEFINE jb == job[j]
           old == run[j]
           step == jb.plan[old.at]
           k == StepKind(j, step)
           src == RowId(jb.input)
           next == IF answer = <<>> THEN Synthesized(j, k, step.to)
                   ELSE Filled(answer[1], k, step.to, src)
           work == [at |-> old.at + 1, current |-> next, listed |-> answer]
<1>1. /\ jb \in JobType /\ old \in RunType /\ Promise(jb) /\ Progress(jb, old) /\ Delivered(jb)
      /\ job \in [JobIds -> JobType] /\ route \in Providers \cup {None}
  BY DEF ArtifactsInv, Typed, Sound
<1>2. /\ run' = [run EXCEPT ![j] = work]
      /\ UNCHANGED <<job, rows, route>>
  BY DEF ConvertStep
<1>3. /\ jb.op = "convert" /\ jb.status = "running" /\ old.at \in 1 .. Len(jb.plan)
      /\ jb.plan \in Seq(Conversions) /\ jb.input \in RowType /\ jb.kind \in Kinds
  BY <1>1 DEF Converting, Promise, JobType
<1>4. step.to \in Formats
  <2>1. step \in Conversions
    BY <1>3
  <2> QED BY <2>1 DEF Conversions
<1>5. old.current.kind \in Kinds
  BY <1>1, <1>3 DEF Progress, RowType, Descriptors
<1>6. k \in Kinds /\ (old.at = Len(jb.plan) => k = jb.kind /\ step.to = To(jb))
  BY <1>3, <1>5, TargetKind DEF StepKind, To
<1>7. src \in JobIds \X Nat /\ src \in Sources(jb)
  BY <1>3, BlankTyped DEF Sources
<1> HIDE DEF k, step, src
<1>8. answer \in Seq(Descriptors(Kinds \cup {None}))
  BY ArtifactsAssumption
<1>9. /\ next \in Descriptors(Kinds)
      /\ answer = <<>> => next.source \in Sources(jb)
      /\ answer = <<>> /\ Fits(k, step.to) => Answer(next, k, step.to)
  <2>1. CASE answer = <<>>
    <3> DEFINE made == Synthesized(j, k, step.to)
    <3>1. /\ made \in Descriptors(Kinds) /\ made.kind = k /\ made.format = step.to
          /\ made.type = None /\ made.wellFormed
      BY <1>4, <1>6, <1>7, ArtifactsAssumption DEF Synthesized, Descriptors, src
    <3>2. made.source \in Sources(jb)
      BY DEF Synthesized, Sources
    <3> HIDE DEF made
    <3>3. Fits(k, step.to) => Answer(made, k, step.to)
      BY <3>1 DEF Fits, Answer, Coherent
    <3>4. next = made
      BY <2>1 DEF made
    <3> QED BY <3>1, <3>2, <3>3, <3>4
  <2>2. CASE answer # <<>>
    <3>1. 1 \in DOMAIN answer /\ answer[1] \in Descriptors(Kinds \cup {None})
      BY <1>8, <2>2
    <3>2. next = Filled(answer[1], k, step.to, src)
      BY <2>2
    <3> HIDE DEF next
    <3> QED BY <1>4, <1>6, <1>7, <2>2, <3>1, <3>2, FilledFacts
  <2> QED BY <2>1, <2>2
<1> HIDE DEF next
<1>10. /\ work \in RunType /\ work.at = old.at + 1 /\ work.current = next
       /\ work.listed = answer
  BY <1>3, <1>8, <1>9 DEF RunType
<1> HIDE DEF work
<1>11. Progress(jb, work)
  <2>1. work.at \in 2 .. Len(jb.plan) + 1 /\ (work.at = Len(jb.plan) + 1 => old.at = Len(jb.plan))
    <3>1. Len(jb.plan) \in Nat
      BY <1>3
    <3>2. old.at \in 1 .. Len(jb.plan) /\ work.at = old.at + 1
      BY <1>3, <1>10
    <3> QED BY <3>1, <3>2
  <2>2. work.at = Len(jb.plan) + 1 /\ work.listed = <<>> =>
          Answer(work.current, jb.kind, To(jb)) /\ work.current.source \in Sources(jb)
    <3>1. Fits(jb.kind, To(jb))
      BY <1>1, <1>3 DEF Promise
    <3> QED BY <1>6, <1>9, <1>10, <2>1, <3>1
  <2>3. Len(jb.plan) \in Nat
    BY <1>3
  <2>4. /\ work.at \in 0 .. Len(jb.plan) + 1 /\ work.at > 0 /\ work.at > 1 /\ work.at # 1
    BY <2>1, <2>3
  <2> QED BY <1>3, <1>9, <1>10, <2>2, <2>4 DEF Progress
<1>12. job' = [job EXCEPT ![j] = jb] /\ rows' = rows /\ route' \in Providers \cup {None}
  BY <1>1, <1>2
<1> QED BY <1>1, <1>2, <1>10, <1>11, <1>12, Rewrite

-----------------------------------------------------------------------------
(* The theorems. *)

LEMMA WorkerKeeps ==
  ASSUME ArtifactsInv, NEW j \in JobIds, Worker(j)
  PROVE  ArtifactsInv'
<1>1. /\ job[j] \in JobType /\ run[j] \in RunType /\ Progress(job[j], run[j])
      /\ run \in [JobIds -> RunType] /\ NoRun \in RunType /\ NoRun.at = 0
  BY BlankTyped DEF ArtifactsInv, Typed, Sound, NoRun
<1>2. ASSUME Start(j) PROVE ArtifactsInv'
  <2> DEFINE work == [NoRun EXCEPT !.at = 1, !.current = job[j].input]
  <2>1. /\ job[j].status = "pending" /\ job' = [job EXCEPT ![j].status = "running"]
        /\ run' = [run EXCEPT ![j] = work] /\ UNCHANGED <<rows, route>>
    BY <1>2 DEF Start
  <2>2. work \in RunType /\ work.at = 1 /\ work.current = job[j].input
    BY <1>1 DEF RunType, JobType
  <2> HIDE DEF work
  <2> QED BY <2>1, <2>2, StatusKeeps
<1>3. ASSUME NEW list \in Outputs, FinishStage(j, list) PROVE ArtifactsInv'
  <2>1. /\ job[j].op = "stage" /\ job[j].status = "running" /\ Commit(j, list, <<>>)
        /\ run' = [run EXCEPT ![j] = NoRun] /\ route' = route
    BY <1>3 DEF FinishStage
  <2>2. list \in Seq(Descriptors(Kinds))
    BY ArtifactsAssumption
  <2>3. 1 .. Len(list) \in SUBSET Ordinals /\ list \in [1 .. Len(list) -> Descriptors(Kinds)]
    BY <2>2 DEF Ordinals
  <2>4. <<>> \in Seq(Descriptors(Kinds \cup {None}))
    OBVIOUS
  <2> QED BY <2>1, <2>3, <2>4, CommitKeeps
<1>4. ASSUME FinishConvert(j) PROVE ArtifactsInv'
  <2>1. /\ job[j].op = "convert" /\ job[j].status = "running" /\ Commit(j, Returned(j), run[j].listed)
        /\ run[j].at = Len(job[j].plan) + 1
        /\ run' = [run EXCEPT ![j] = NoRun] /\ route' = route
    BY <1>4 DEF FinishConvert
  <2>2. /\ DOMAIN Returned(j) \in SUBSET Ordinals /\ 1 \in DOMAIN Returned(j)
        /\ Returned(j) \in [DOMAIN Returned(j) -> Descriptors(Kinds)]
        /\ run[j].listed \in Seq(Descriptors(Kinds \cup {None}))
        /\ \A i \in DOMAIN Returned(j) :
             LET e == Described(Self, Returned(j)[i])
             IN  /\ Silent(run[j].listed, i, "format", To(job[j])) => e.format = To(job[j])
                 /\ Silent(run[j].listed, i, "source", None) => e.source \in Sources(job[j])
    BY <2>1, ReturnedFacts
  <2> QED BY <2>1, <2>2, CommitKeeps
<1>5. ASSUME ConvertRaises(j) PROVE ArtifactsInv'
  <2>1. /\ job[j].status = "running" /\ job' = [job EXCEPT ![j].status = "failed"]
        /\ run' = [run EXCEPT ![j] = NoRun] /\ UNCHANGED <<rows, route>>
    BY <1>5 DEF ConvertRaises, Converting
  <2> QED BY <1>1, <2>1, StatusKeeps
<1>6. ASSUME Reclaim(j) PROVE ArtifactsInv'
  <2>1. /\ job[j].status = "running" /\ job' = [job EXCEPT ![j].status = "pending"]
        /\ run' = [run EXCEPT ![j] = run[j]] /\ UNCHANGED <<rows, route>> /\ run[j].at = 0
    BY <1>1, <1>6 DEF Reclaim
  <2> QED BY <1>1, <2>1, StatusKeeps
<1>7. ASSUME Converting(j), NEW answer \in Answers, ConvertStep(j, answer) PROVE ArtifactsInv'
  BY <1>7, ConvertStepKeeps
<1> QED BY <1>2, <1>3, <1>4, <1>5, <1>6, <1>7 DEF Worker

LEMMA FaultsKeep ==
  ASSUME ArtifactsInv, NEW j \in JobIds, Crash(j) \/ Purge(j)
  PROVE  ArtifactsInv'
<1>1. /\ job[j] \in JobType /\ run[j] \in RunType /\ Promise(job[j]) /\ Delivered(job[j])
      /\ Progress(job[j], run[j])
      /\ job \in [JobIds -> JobType] /\ run \in [JobIds -> RunType]
      /\ NoRun \in RunType /\ NoRun.at = 0 /\ route \in Providers \cup {None}
  BY BlankTyped DEF ArtifactsInv, Typed, Sound, NoRun
<1>2. CASE Crash(j)
  <2>1. /\ job' = [job EXCEPT ![j] = job[j]] /\ run' = [run EXCEPT ![j] = NoRun]
        /\ rows' = rows /\ route' = route
    BY <1>1, <1>2 DEF Crash
  <2> QED BY <1>1, <2>1, NoProgress, Rewrite
<1>3. CASE Purge(j)
  <2> DEFINE new == [NoJob EXCEPT !.status = "purged"]
  <2>1. /\ job' = [job EXCEPT ![j] = new] /\ rows' = {r \in rows : r.job # j}
        /\ run' = [run EXCEPT ![j] = run[j]] /\ route' = route
        /\ job[j].status \in {"succeeded", "failed"}
    BY <1>1, <1>3 DEF Purge, Terminal
  <2>2. new \in JobType /\ new.status = "purged" /\ new.op = "none"
    BY BlankTyped DEF JobType, Statuses, NoJob
  <2>3. run[j].at = 0
    BY <1>1, <2>1 DEF Progress, RunType
  <2> HIDE DEF new
  <2>4. Promise(new) /\ Delivered(new) /\ RowsOf(j, new) = {} /\ Progress(new, run[j])
    BY <1>1, <2>2, <2>3, NoProgress DEF Promise, Delivered, RowsOf
  <2>5. rows' = {r \in rows : r.job # j} \cup RowsOf(j, new)
    BY <2>1, <2>4
  <2> QED BY <1>1, <2>1, <2>2, <2>4, <2>5, Rewrite
<1> QED BY <1>2, <1>3

LEMMA InvariantInit == Init => ArtifactsInv
<1> SUFFICES ASSUME Init PROVE ArtifactsInv
  OBVIOUS
<1>1. \A j \in JobIds : job[j] = NoJob /\ run[j] = NoRun
  BY DEF Init
<1>2. Typed
  BY BlankTyped DEF Typed, Init
<1>3. NoJob.status = "none" /\ NoJob.op = "none" /\ NoRun.at = 0
  BY DEF NoJob, NoRun
<1>4. RowsExact
  BY <1>1, <1>3 DEF RowsExact, RowsOf, Init
<1>5. Promise(NoJob) /\ Delivered(NoJob) /\ Progress(NoJob, NoRun)
  BY <1>3, BlankTyped, NoProgress DEF Promise, Delivered
<1> QED BY <1>1, <1>2, <1>4, <1>5 DEF ArtifactsInv, Sound

LEMMA InvariantStep ==
  ASSUME PlansArePaths, ArtifactsInv, [Next]_vars
  PROVE  ArtifactsInv'
<1>1. CASE UNCHANGED vars
  BY <1>1 DEF ArtifactsInv, Typed, RowsExact, Sound, vars
<1>2. ASSUME NEW p \in Providers, SetRoute(p) PROVE ArtifactsInv'
  BY <1>2 DEF ArtifactsInv, Typed, RowsExact, Sound, SetRoute
<1> QED BY <1>1, <1>2, ImportKeeps, SubmitStageKeeps, SubmitConvertKeeps, WorkerKeeps,
           FaultsKeep DEF Next

LEMMA Inductive == ASSUME PlansArePaths PROVE Spec => []ArtifactsInv
<1>1. ArtifactsInv /\ [Next]_vars => ArtifactsInv'
  BY InvariantStep
<1> QED BY <1>1, InvariantInit, PTL DEF Spec

\* Whatever crashes, re-routes and purges there are, statuses, plans and rows keep their
\* types, no worker is beyond its plan, and only a running job has one.
THEOREM TypeCorrect == ASSUME PlansArePaths PROVE Spec => []TypeOK
<1>1. ArtifactsInv => TypeOK
  <2> SUFFICES ASSUME ArtifactsInv, NEW j \in JobIds
               PROVE  /\ job[j].op \in Ops /\ job[j].status \in Statuses
                      /\ job[j].dataset \in Datasets \cup {None}
                      /\ job[j].kind \in Kinds \cup {None}
                      /\ job[j].provider \in Providers \cup {None}
                      /\ run[j].at \in 0 .. Len(job[j].plan) + 1
                      /\ run[j].at > 0 => job[j].status = "running"
    BY DEF TypeOK, ArtifactsInv, Typed, Ops, Statuses
  <2>1. job[j] \in JobType /\ Progress(job[j], run[j])
    BY DEF ArtifactsInv, Typed, Sound
  <2> QED BY <2>1 DEF JobType, Progress
<1> QED BY <1>1, Inductive, PTL

\* The artifacts a client lists for a job are the outputs its task reports, through any
\* crashes, repetitions, cache hits and purges, and the validation endpoint rejects none
\* of them: the rows are written in the transaction of the status, and every descriptor
\* was completed and checked before.
THEOREM RowsAreOutputs == ASSUME PlansArePaths PROVE Spec => []RowsMatchOutputs
<1>1. ASSUME NEW r, Coherent(r.kind, r.format, r.type)
      PROVE  validate_artifact(r, "file", {"intact"}).valid
  <2>1. FileIssues("file", {"intact"}) = {}
    BY DEF FileIssues
  <2>2. managed_path("file")
    BY DEF managed_path
  <2>3. ~datatype_conflict(r)
    BY <1>1 DEF datatype_conflict, Coherent
  <2>4. r.format # None => is_format_compatible_with_kind(r.kind, r.format)
    BY <1>1 DEF Coherent
  <2> QED BY <2>1, <2>2, <2>3, <2>4 DEF validate_artifact
<1>2. ArtifactsInv => RowsMatchOutputs
  <2> SUFFICES ASSUME ArtifactsInv, NEW j \in JobIds
               PROVE  LET mine == list_job_artifacts(j)
                          outs == IF job[j].status = "succeeded" THEN job[j].outputs ELSE <<>>
                      IN  /\ {r.n : r \in mine} = DOMAIN outs
                          /\ \A r \in mine : \A field \in DOMAIN outs[r.n] :
                               r[field] = outs[r.n][field]
                          /\ \A r \in mine : validate_artifact(r, "file", {"intact"}).valid
    BY DEF RowsMatchOutputs
  <2> DEFINE mine == list_job_artifacts(j)
             outs == IF job[j].status = "succeeded" THEN job[j].outputs ELSE <<>>
  <2>1. \A i \in JobIds : job[i] \in JobType
    BY DEF ArtifactsInv, Typed
  <2>2. mine = RowsOf(j, job[j])
    <3>1. \A i \in JobIds : \A r \in RowsOf(i, job[i]) : r.job = i
      BY <2>1, RowFacts
    <3> QED BY <3>1 DEF list_job_artifacts, ArtifactsInv, RowsExact
  <2>3. mine = {StageArtifact(j, i, job[j].dataset, outs[i]) : i \in DOMAIN outs}
    BY <2>2 DEF RowsOf
  <2>4. outs \in OutputLists
    BY <2>1, EmptyOutputs DEF JobType
  <2> HIDE DEF mine, outs
  <2>5. ASSUME NEW i \in DOMAIN outs
        PROVE  LET r == StageArtifact(j, i, job[j].dataset, outs[i])
               IN  /\ r.n = i /\ \A field \in DOMAIN outs[i] : r[field] = outs[i][field]
                   /\ validate_artifact(r, "file", {"intact"}).valid
    <3> DEFINE r == StageArtifact(j, i, job[j].dataset, outs[i])
    <3>1. outs[i] \in Descriptors(Kinds) /\ Coherent(outs[i].kind, outs[i].format, outs[i].type)
      BY <2>4, OutputsFacts DEF Stored, Checked
    <3>2. /\ r.n = i /\ r.name = outs[i].name /\ r.kind = outs[i].kind
          /\ r.format = outs[i].format /\ r.meta = outs[i].meta /\ r.type = outs[i].type
          /\ r.source = outs[i].source /\ r.wellFormed = outs[i].wellFormed
      BY DEF StageArtifact
    <3> HIDE DEF r
    <3>3. DOMAIN outs[i] = {"name", "kind", "format", "meta", "type", "source", "wellFormed"}
      BY <3>1 DEF Descriptors
    <3>4. \A field \in DOMAIN outs[i] : r[field] = outs[i][field]
      BY <3>2, <3>3
    <3>5. validate_artifact(r, "file", {"intact"}).valid
      BY <1>1, <3>1, <3>2
    <3> QED BY <3>2, <3>4, <3>5 DEF r
  <2>6. \A r \in mine : \E i \in DOMAIN outs : r = StageArtifact(j, i, job[j].dataset, outs[i])
    BY <2>3
  <2>7. {r.n : r \in mine} = DOMAIN outs
    <3>1. ASSUME NEW r \in mine PROVE r.n \in DOMAIN outs
      BY <2>5, <2>6
    <3>2. ASSUME NEW i \in DOMAIN outs PROVE \E r \in mine : r.n = i
      <4>1. StageArtifact(j, i, job[j].dataset, outs[i]) \in mine
        BY <2>3
      <4> QED BY <2>5, <4>1
    <3> QED BY <3>1, <3>2
  <2>8. ASSUME NEW r \in mine
        PROVE  /\ \A field \in DOMAIN outs[r.n] : r[field] = outs[r.n][field]
               /\ validate_artifact(r, "file", {"intact"}).valid
    <3>1. PICK i \in DOMAIN outs : r = StageArtifact(j, i, job[j].dataset, outs[i])
      BY <2>6
    <3>2. r.n = i
      BY <2>5, <3>1
    <3> QED BY <2>5, <3>1, <3>2
  <2> QED BY <2>7, <2>8 DEF mine, outs
<1> QED BY <1>2, Inductive, PTL

\* A conversion that was accepted delivers, for any contracts whose plans are paths and any
\* answers of the backends: if the last answer keeps to what its step asked for, the checks
\* at the end refuse nothing; an artifact that names no other format is in one the request
\* accepts, and one that names no source gets no other than the input.
THEOREM ConversionsDeliver == ASSUME PlansArePaths PROVE Spec => []ConversionDelivers
<1>1. ArtifactsInv => ConversionDelivers
  <2> SUFFICES ASSUME ArtifactsInv, NEW j \in JobIds, job[j].op = "convert"
               PROVE  /\ run[j].at = Len(job[j].plan) + 1 /\
                         (\A d \in ToSet(run[j].listed) : Keeps(d, job[j].kind, To(job[j])))
                           => Admissible(Returned(j))
                      /\ job[j].status = "succeeded" =>
                           /\ job[j].outputs # <<>>
                           /\ \A i \in DOMAIN job[j].outputs :
                                /\ Silent(job[j].said, i, "format", To(job[j])) =>
                                     job[j].outputs[i].format \in job[j].targets
                                /\ Silent(job[j].said, i, "source", None) =>
                                     job[j].outputs[i].source \in {None, RowId(job[j].input)}
    BY DEF ConversionDelivers, Silent
  <2>1. ASSUME run[j].at = Len(job[j].plan) + 1,
               \A d \in ToSet(run[j].listed) : Keeps(d, job[j].kind, To(job[j]))
        PROVE  Admissible(Returned(j))
    BY <2>1, ReturnedFacts DEF Admissible, Self
  <2>2. Promise(job[j]) /\ Delivered(job[j])
    BY DEF ArtifactsInv, Sound
  <2>3. ASSUME job[j].status = "succeeded"
        PROVE  /\ job[j].outputs # <<>>
               /\ \A i \in DOMAIN job[j].outputs :
                    /\ Silent(job[j].said, i, "format", To(job[j])) =>
                         job[j].outputs[i].format \in job[j].targets
                    /\ Silent(job[j].said, i, "source", None) =>
                         job[j].outputs[i].source \in {None, RowId(job[j].input)}
    <3>1. To(job[j]) \in job[j].targets
      BY <2>2 DEF Promise
    <3>2. 1 \in DOMAIN job[j].outputs
      BY <2>2, <2>3 DEF Delivered
    <3> QED BY <2>2, <2>3, <3>1, <3>2 DEF Delivered, Sources
  <2> QED BY <2>1, <2>3
<1> QED BY <1>1, Inductive, PTL
=============================================================================
