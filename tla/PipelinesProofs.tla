---------------------------- MODULE PipelinesProofs ----------------------------
(***************************************************************************)
(* Proofs about the stages, their recipes and plans (Stages), and about    *)
(* the typed pipelines that compose them (Dataflow): what the cache of a   *)
(* stage means, that the two checkers of a pipeline agree, that inferred   *)
(* dependencies are complete and that plugins do not interfere.            *)
(***************************************************************************)
EXTENDS Stages, Dataflow, FiniteSetTheorems, SequenceTheorems, WellFoundedInduction, TLAPS


-----------------------------------------------------------------------------
(* The inductive invariant. *)

IsFunction(f) == f = [x \in DOMAIN f |-> f[x]]

\* f holds some of the files of g, with the same contents.
Part(f, g) == IsFunction(f) /\ DOMAIN f \subseteq DOMAIN g /\ \A x \in DOMAIN f : f[x] = g[x]

Fields == {"job", "kind", "inputs", "spec", "dep", "status", "seen", "result", "want", "read"}
InputFields == DOMAIN NoInputs
IsTask(t) ==
  /\ IsFunction(t) /\ DOMAIN t = Fields
  /\ IsFunction(t.inputs) /\ DOMAIN t.inputs = InputFields

IsStore(s) ==
  /\ IsFunction(s) /\ DOMAIN s = DOMAIN EmptyStore
  /\ IsFunction(s.feat) /\ IsFunction(s.raw) /\ IsFunction(s.ver)

Rows == 1..Len(tasks)
Recipes == {i \in Rows : tasks[i].dep = 3}

\* A reconstruction that no recipe belongs to: the unnamed one, or one of the features
\* endpoint.
Foreign(r) == r.spec.provider \notin Providers \/ r.spec.of \in FeatureSettings

\* What a recipe asks for, stage by stage. j is the row of its map task.
FeatOf(j) == FeatureFiles(tasks[j].inputs.mat, tasks[j - 3].spec)
RawOf(j) ==
  [p \in Selected(FeatOf(j), tasks[j - 2].spec.pairs.of) |->
     match_pair(FeatOf(j), p, tasks[j - 2].spec.matcher)]
VerOf(j) == [p \in DOMAIN RawOf(j) |-> [of |-> RawOf(j)[p], spec |-> tasks[j - 1].spec]]
GraphOf(j) == [feat |-> FeatOf(j), pairs |-> VerOf(j)]

StoreOf(j) == StoreAt(<<tasks[j].inputs.recon, 0>>)

\* The four rows of a recipe, as build_recipe_dag makes them.
RecipeAt(j) ==
  LET t == tasks[j]
      r == t.inputs.recon
  IN  /\ j > 3
      /\ tasks[j - 3].kind = "extract" /\ tasks[j - 2].kind = "match"
      /\ tasks[j - 1].kind = "verify" /\ t.kind = "map"
      /\ tasks[j - 3].dep = 0 /\ tasks[j - 2].dep = 1 /\ tasks[j - 1].dep = 2
      /\ \A k \in 0..3 : tasks[j - k].inputs.recon = r
      /\ tasks[j - 3].inputs.mat = t.inputs.mat /\ t.inputs.mat # {}
      /\ t.spec = r.spec /\ t.spec.of \in RecipeSettings /\ t.spec.provider \in Providers
      /\ t.read = r.of
      /\ t.want = Model(GraphOf(j), t.inputs.priors, t.inputs.mat, t.spec)

\* The row of a feed-forward mapping.
Fast(t) ==
  /\ t.spec.of \in FastSettings
  /\ t.read = t.inputs.recon.of
  /\ t.want = Model(None, t.inputs.priors, t.inputs.mat, t.spec)

\* The row of the recipe that a task before mapping belongs to.
MapRow(i) == i + (3 - tasks[i].dep)
Chained(i) ==
  /\ MapRow(i) \in Recipes
  /\ tasks[i].dep = (CASE tasks[i].kind = "extract" -> 0 [] tasks[i].kind = "match" -> 1 [] OTHER -> 2)

Writers == {"extract", "match", "verify"}

ShapeAt(i) ==
  LET t == tasks[i]
  IN  /\ IsTask(t)
      /\ t.dep \in 0..3
      /\ t.dep = 3 => RecipeAt(i)
      /\ t.kind = "map" => t.dep = 3 \/ (t.dep = 0 /\ Fast(t))
      /\ t.kind \in Writers => Chained(i) \/ Foreign(t.inputs.recon)
      /\ t.kind \notin Writers \cup {"map"} => t.dep = 0

Shape ==
  /\ tasks \in Seq({tasks[i] : i \in Rows})
  /\ \A i \in Rows : ShapeAt(i)

\* Every correspondence store was left by a task; the routing profile and the request.
StoresOk ==
  /\ IsFunction(stores)
  /\ \A a \in DOMAIN stores :
       IsStore(stores[a]) /\ \E i \in Rows : tasks[i].kind \in Writers /\ tasks[i].inputs.db = a

PendingOk ==
  /\ provider \in [Parts -> Providers]
  /\ pending # None => pending.body \in Bodies

\* While the recipes of a reconstruction agree, its store holds nothing but what they
\* ask for, all of it once a stage has succeeded, and a running stage has loaded all
\* that it needs.
Held(j) ==
  LET st == StoreOf(j)
  IN  /\ Part(st.feat, FeatOf(j)) /\ Part(st.raw, RawOf(j)) /\ Part(st.ver, VerOf(j))
      /\ tasks[j - 3].status = "succeeded" => st.feat = FeatOf(j)
      /\ tasks[j - 2].status \in {"running", "succeeded"} => st.feat = FeatOf(j)
      /\ tasks[j - 2].status = "running" => tasks[j - 2].seen = FeatOf(j)
      /\ tasks[j - 2].status = "succeeded" => st.raw = RawOf(j)
      /\ tasks[j - 1].status \in {"running", "succeeded"} => st.feat = FeatOf(j) /\ st.raw = RawOf(j)
      /\ tasks[j - 1].status = "running" => tasks[j - 1].seen = RawOf(j)
      /\ tasks[j - 1].status = "succeeded" => st.ver = VerOf(j)
      /\ tasks[j].status = "running" => tasks[j].seen = GraphOf(j)
      /\ tasks[j].status = "succeeded" => tasks[j].result = tasks[j].want

Agreed == \A j \in Recipes : Uniform(tasks[j].inputs.recon) => Held(j)

\* A feed-forward mapping loads no graph.
FastHeld ==
  \A j \in Rows : tasks[j].kind = "map" /\ tasks[j].dep = 0 =>
    /\ tasks[j].status = "running" => tasks[j].seen = None
    /\ tasks[j].status = "succeeded" => tasks[j].result = tasks[j].want

StagesInv == Shape /\ StoresOk /\ PendingOk /\ Agreed /\ FastHeld

-----------------------------------------------------------------------------
(* Files and rows. *)

LEMMA OverFacts ==
  ASSUME NEW f, NEW g
  PROVE  /\ DOMAIN Over(f, g) = DOMAIN f \cup DOMAIN g
         /\ IsFunction(Over(f, g))
         /\ \A x \in DOMAIN f : Over(f, g)[x] = f[x]
         /\ \A x \in DOMAIN g \ DOMAIN f : Over(f, g)[x] = g[x]
BY DEF Over, IsFunction

LEMMA PartFull ==
  ASSUME NEW f, NEW g, Part(f, g), IsFunction(g)
  PROVE  Over(g, f) = g
<1>1. /\ DOMAIN Over(g, f) = DOMAIN g
      /\ IsFunction(Over(g, f))
      /\ \A x \in DOMAIN g : Over(g, f)[x] = g[x]
  BY OverFacts DEF Part
<1> DEFINE h == Over(g, f)
<1> HIDE DEF h
<1> QED BY <1>1 DEF IsFunction, h

LEMMA PartSome ==
  ASSUME NEW f, NEW g, NEW some \in SUBSET DOMAIN g, Part(f, g), IsFunction(g)
  PROVE  /\ Part(Over([x \in some |-> g[x]], f), g)
         /\ f = g => Over([x \in some |-> g[x]], f) = g
<1> DEFINE e == [x \in some |-> g[x]]
           h == Over(e, f)
<1>1. DOMAIN e = some /\ \A x \in some : e[x] = g[x]
  OBVIOUS
<1> HIDE DEF e
<1>2. /\ DOMAIN h = some \cup DOMAIN f
      /\ IsFunction(h)
      /\ \A x \in some : h[x] = g[x]
      /\ \A x \in DOMAIN f \ some : h[x] = f[x]
  BY <1>1, OverFacts
<1> HIDE DEF h
<1>3. Part(h, g) /\ (f = g => h = g)
  BY <1>2 DEF Part, IsFunction
<1> QED BY <1>3 DEF e, h

LEMMA Whole ==
  ASSUME NEW S, NEW g
  PROVE  IsFunction([x \in S |-> g[x]])
BY DEF IsFunction

LEMMA EmptyPart ==
  ASSUME NEW g
  PROVE  Part(NoFiles, g) /\ IsFunction(NoFiles)
BY DEF Part, NoFiles, IsFunction

LEMMA EmptyStoreFacts ==
  /\ IsStore(EmptyStore)
  /\ EmptyStore.feat = NoFiles /\ EmptyStore.raw = NoFiles /\ EmptyStore.ver = NoFiles
BY EmptyPart DEF IsStore, EmptyStore, IsFunction

\* A directory of a store is replaced and the others stay.
LEMMA StoreExcept ==
  ASSUME NEW s, IsStore(s), NEW f
  PROVE  /\ s = [feat |-> s.feat, raw |-> s.raw, ver |-> s.ver]
         /\ [s EXCEPT !.feat = f] = [feat |-> f, raw |-> s.raw, ver |-> s.ver]
         /\ [s EXCEPT !.raw = f] = [feat |-> s.feat, raw |-> f, ver |-> s.ver]
         /\ [s EXCEPT !.ver = f] = [feat |-> s.feat, raw |-> s.raw, ver |-> f]
BY DEF IsStore, EmptyStore, IsFunction

LEMMA StoreMade ==
  ASSUME NEW f, NEW g, NEW h, IsFunction(f), IsFunction(g), IsFunction(h)
  PROVE  IsStore([feat |-> f, raw |-> g, ver |-> h])
BY DEF IsStore, EmptyStore, IsFunction

Static(t, u) ==
  /\ u.kind = t.kind /\ u.inputs = t.inputs /\ u.spec = t.spec /\ u.dep = t.dep
  /\ u.want = t.want /\ u.read = t.read

\* u is row t with another status.
Moved(t, u, st) == IsTask(u) /\ Static(t, u) /\ u.status = st

\* A row answered by the cache, begun, given up, ended, resumed.
Cached(t, rs) == [t EXCEPT !.status = "succeeded", !.result = rs]
Begun(t, sn) == [t EXCEPT !.status = "running", !.seen = sn]
Refused(t) == [t EXCEPT !.status = "failed"]
Stopped(t) == [t EXCEPT !.status = "failed", !.seen = None]
Ended(t, rs) == [t EXCEPT !.status = "succeeded", !.seen = None, !.result = rs]
Again(t) == [t EXCEPT !.status = "pending"]

LEMMA TaskExcept ==
  ASSUME NEW t, IsTask(t), NEW x
  PROVE  /\ Moved(t, Cached(t, x), "succeeded") /\ Cached(t, x).result = x
         /\ Moved(t, Begun(t, x), "running") /\ Begun(t, x).seen = x
         /\ Moved(t, Refused(t), "failed") /\ Moved(t, Stopped(t), "failed")
         /\ Moved(t, Ended(t, x), "succeeded") /\ Ended(t, x).result = x
         /\ Moved(t, Again(t), "pending")
<1>1. DOMAIN t = Fields /\ IsFunction(t)
  BY DEF IsTask
<1>2. ASSUME NEW st,
             NEW u \in {[t EXCEPT !.status = st], [t EXCEPT !.status = st, !.seen = x],
                        [t EXCEPT !.status = st, !.seen = None],
                        [t EXCEPT !.status = st, !.result = x],
                        [t EXCEPT !.status = st, !.seen = None, !.result = x]}
      PROVE  Moved(t, u, st)
  <2>1. DOMAIN u = Fields /\ IsFunction(u) /\ Static(t, u) /\ u.status = st
    BY <1>1 DEF Static, IsFunction, Fields
  <2> QED BY <2>1 DEF IsTask, Static, Moved
<1>3. Cached(t, x).result = x /\ Begun(t, x).seen = x /\ Ended(t, x).result = x
  BY <1>1 DEF Fields, Cached, Begun, Ended
<1>4. Moved(t, Cached(t, x), "succeeded") /\ Moved(t, Begun(t, x), "running")
  BY <1>2, Zenon DEF Cached, Begun
<1>5. Moved(t, Refused(t), "failed") /\ Moved(t, Stopped(t), "failed")
  BY <1>2, Zenon DEF Refused, Stopped
<1>6. Moved(t, Ended(t, x), "succeeded") /\ Moved(t, Again(t), "pending")
  BY <1>2, Zenon DEF Ended, Again
<1> QED BY <1>3, <1>4, <1>5, <1>6

LEMMA LoadedGraph ==
  ASSUME NEW st, NEW f, NEW raw, NEW ver, st.feat = f, st.raw = raw, st.ver = ver,
         DOMAIN f # {}, DOMAIN ver = DOMAIN raw, IsFunction(ver)
  PROVE  load_correspondence_graph(st) = [feat |-> f, pairs |-> ver]
<1>1. Over(ver, raw) = ver
  BY DEF Over, IsFunction
<1> QED BY <1>1 DEF load_correspondence_graph, load_pair_correspondences

\* The graph of four settings, as a recipe's stages leave it.
GraphBy(names, fs, pairs, matcher, vs) ==
  LET f == FeatureFiles(names, fs)
      raw == [p \in Selected(f, pairs) |-> match_pair(f, p, matcher)]
  IN  [feat |-> f, pairs |-> [p \in DOMAIN raw |-> [of |-> raw[p], spec |-> vs]]]

LEMMA GraphFacts ==
  ASSUME NEW names, names # {}, NEW fs, NEW pairs, NEW matcher, NEW vs
  PROVE  Graph(names, fs, pairs, matcher, vs) = GraphBy(names, fs, pairs, matcher, vs)
<1> DEFINE f == FeatureFiles(names, fs)
           raw == [p \in Selected(f, pairs) |-> match_pair(f, p, matcher)]
           ver == [p \in DOMAIN raw |-> [of |-> raw[p], spec |-> vs]]
           s0 == run_io_extract(EmptyStore, names, fs)
           s1 == run_io_match(s0, s0.feat, pairs, matcher)
           s2 == run_io_verify(s1, s1.raw, vs)
<1>1. IsFunction(f) /\ DOMAIN f = names
  BY DEF FeatureFiles, IsFunction
<1>2. IsFunction(raw) /\ IsFunction(ver) /\ DOMAIN ver = DOMAIN raw
  BY DEF IsFunction
<1>3. IsStore(s0) /\ s0.feat = f /\ s0.raw = NoFiles /\ s0.ver = NoFiles
  <2>1. s0 = [EmptyStore EXCEPT !.feat = Over(f, EmptyStore.feat)]
    BY DEF run_io_extract, FeatureFiles
  <2>2. Over(f, EmptyStore.feat) = f
    BY <1>1, EmptyPart, EmptyStoreFacts, PartFull
  <2> HIDE DEF s0, f
  <2>3. s0 = [feat |-> f, raw |-> NoFiles, ver |-> NoFiles]
    BY <2>1, <2>2, EmptyStoreFacts, StoreExcept, Zenon
  <2> QED BY <1>1, <2>3, EmptyPart, StoreMade
<1>4. IsStore(s1) /\ s1.feat = f /\ s1.raw = raw /\ s1.ver = NoFiles
  <2>1. s1 = [s0 EXCEPT !.raw = Over(raw, s0.raw)]
    BY <1>3 DEF run_io_match
  <2> HIDE DEF s0, s1, raw, f
  <2>2. Over(raw, s0.raw) = raw
    BY <1>2, <1>3, EmptyPart, PartFull
  <2>3. s1 = [feat |-> f, raw |-> raw, ver |-> NoFiles]
    BY <1>3, <2>1, <2>2, StoreExcept, Zenon
  <2> QED BY <1>1, <1>2, <2>3, EmptyPart, StoreMade
<1>5. IsStore(s2) /\ s2.feat = f /\ s2.raw = raw /\ s2.ver = ver
  <2>1. s2 = [s1 EXCEPT !.ver = Over(ver, s1.ver)]
    BY <1>4 DEF run_io_verify
  <2> HIDE DEF s1, s2, raw, f, ver
  <2>2. Over(ver, s1.ver) = ver
    BY <1>2, <1>4, EmptyPart, PartFull
  <2>3. s2 = [feat |-> f, raw |-> raw, ver |-> ver]
    BY <1>4, <2>1, <2>2, StoreExcept, Zenon
  <2> QED BY <1>1, <1>2, <2>3, StoreMade
<1>6. load_correspondence_graph(s2) = [feat |-> f, pairs |-> ver]
  <2> HIDE DEF s2, raw, f, ver
  <2> QED BY <1>1, <1>2, <1>5, LoadedGraph
<1>7. Graph(names, fs, pairs, matcher, vs) = load_correspondence_graph(s2)
  BY Zenon DEF Graph
<1> QED BY <1>6, <1>7, Zenon DEF GraphBy

-----------------------------------------------------------------------------
(* What never changes of a row. *)

Longer == Len(tasks') >= Len(tasks) /\ \A i \in Rows : Static(tasks[i], tasks'[i])

LEMMA RecipeRows ==
  ASSUME Shape, NEW j \in Recipes
  PROVE  /\ RecipeAt(j) /\ j \in Rows /\ j > 3 /\ j - 3 \in Rows /\ j - 2 \in Rows /\ j - 1 \in Rows
         /\ Len(tasks) \in Nat
         /\ IsFunction(FeatOf(j)) /\ IsFunction(RawOf(j)) /\ IsFunction(VerOf(j))
         /\ DOMAIN FeatOf(j) # {} /\ DOMAIN VerOf(j) = DOMAIN RawOf(j)
<1>1. Len(tasks) \in Nat /\ j \in Rows /\ RecipeAt(j)
  BY DEF Shape, ShapeAt, Recipes, Rows
<1>2. j > 3 /\ j - 3 \in Rows /\ j - 2 \in Rows /\ j - 1 \in Rows /\ tasks[j].inputs.mat # {}
  BY <1>1 DEF RecipeAt, Rows
<1>3. IsFunction(FeatOf(j)) /\ IsFunction(RawOf(j)) /\ IsFunction(VerOf(j))
  BY DEF FeatOf, RawOf, VerOf, FeatureFiles, IsFunction
<1>4. DOMAIN FeatOf(j) # {} /\ DOMAIN VerOf(j) = DOMAIN RawOf(j)
  BY <1>2 DEF FeatOf, VerOf, FeatureFiles
<1> QED BY <1>1, <1>2, <1>3, <1>4

LEMMA RecipeStays ==
  ASSUME Shape, Longer, Len(tasks') \in Nat, NEW j \in Recipes
  PROVE  /\ j \in Recipes' /\ RecipeAt(j)'
         /\ FeatOf(j)' = FeatOf(j) /\ RawOf(j)' = RawOf(j)
         /\ VerOf(j)' = VerOf(j) /\ GraphOf(j)' = GraphOf(j)
<1>1. /\ RecipeAt(j) /\ j \in Rows /\ j > 3 /\ j - 3 \in Rows /\ j - 2 \in Rows /\ j - 1 \in Rows
  BY RecipeRows
<1>2. \A k \in {j - 3, j - 2, j - 1, j} : Static(tasks[k], tasks'[k])
  BY <1>1 DEF Longer
<1>3. FeatOf(j)' = FeatOf(j)
  BY <1>2 DEF FeatOf, Static
<1>4. RawOf(j)' = RawOf(j)
  BY <1>2, <1>3 DEF RawOf, Static
<1>5. VerOf(j)' = VerOf(j)
  BY <1>2, <1>4 DEF VerOf, Static
<1>6. GraphOf(j)' = GraphOf(j)
  BY <1>3, <1>5 DEF GraphOf
<1>7. Len(tasks) \in Nat /\ j \in Recipes'
  BY <1>1, <1>2, RecipeRows DEF Recipes, Rows, Longer, Static
<1>8. \A k \in 0..3 : Static(tasks[j - k], tasks'[j - k])
  BY <1>1, <1>7 DEF Rows, Longer
<1>9. RecipeAt(j)'
  BY <1>1, <1>2, <1>6, <1>8 DEF RecipeAt, Static
<1> QED BY <1>3, <1>4, <1>5, <1>6, <1>7, <1>9

LEMMA UniformBefore ==
  ASSUME Shape, Longer, Len(tasks') \in Nat, NEW r, Uniform(r)'
  PROVE  Uniform(r)
<1>1. Len(tasks) \in Nat /\ Rows \subseteq Rows'
  BY DEF Shape, Longer, Rows
<1>2. MapsOf(r) \subseteq MapsOf(r)' /\ MapsOf(r) \subseteq Rows
  BY <1>1 DEF MapsOf, Longer, Static, Rows
<1>3. MapsOf(r) \cap {i \in Rows : tasks[i].dep = 3} \subseteq Recipes
  BY DEF Recipes
<1>4. ASSUME NEW i \in MapsOf(r), NEW j \in MapsOf(r), tasks[i].dep = 3, tasks[j].dep = 3,
             i < j, NEW k \in 1..3
      PROVE  tasks[i - k].spec = tasks[j - k].spec
  <2>1. i \in Recipes /\ j \in Recipes
    BY <1>2, <1>3, <1>4
  <2>2. i - k \in Rows /\ j - k \in Rows
    <3>1. i > 3 /\ j > 3 /\ i \in Rows /\ j \in Rows
      BY <2>1, RecipeRows
    <3> QED BY <1>1, <3>1 DEF Rows
  <2>3. tasks'[i].dep = 3 /\ tasks'[j].dep = 3
    BY <1>2, <1>4 DEF Longer, Static
  <2>4. tasks'[i - k].spec = tasks'[j - k].spec
    BY <1>2, <1>4, <2>3 DEF Uniform, Agreeing
  <2> QED BY <2>2, <2>4 DEF Longer, Static
<1>5. \A i \in MapsOf(r) : tasks[i].inputs.mat = tasks[i].read
  BY <1>2 DEF Uniform, Agreeing, Longer, Static
<1>6. ASSUME NEW i \in MapsOf(r), NEW k \in 0..tasks[i].dep
      PROVE  tasks[i - k].inputs.db = reconstruction_database_path(r)
  <2>1. i \in Rows /\ i \in MapsOf(r)' /\ tasks'[i].dep = tasks[i].dep
    BY <1>2 DEF Longer, Static
  <2>2. i - k \in Rows
    <3>1. tasks[i].dep = 3 \/ tasks[i].dep = 0
      BY <2>1 DEF MapsOf, Shape, ShapeAt
    <3>2. CASE tasks[i].dep = 3
      <4>1. i > 3
        BY <2>1, <3>2, RecipeRows DEF Recipes
      <4> QED BY <1>1, <2>1, <3>2, <4>1 DEF Rows
    <3>3. CASE tasks[i].dep = 0
      BY <1>1, <2>1, <3>3 DEF Rows
    <3> QED BY <3>1, <3>2, <3>3
  <2>3. tasks'[i - k].inputs.db = reconstruction_database_path(r)
    <3>1. \A m \in 0..tasks'[i].dep : tasks'[i - m].inputs.db = reconstruction_database_path(r)
      BY <2>1 DEF Uniform, Undisturbed, reconstruction_database_path
    <3> QED BY <2>1, <3>1
  <2> QED BY <2>2, <2>3 DEF Longer, Static
<1>7. ASSUME NEW i \in 1..Len(tasks), tasks[i].kind \in {"extract", "match", "verify"},
             tasks[i].inputs.db = reconstruction_database_path(r)
      PROVE  tasks[i].inputs.recon = r
  <2>1. i \in Rows /\ i \in Rows' /\ Static(tasks[i], tasks'[i])
    BY <1>1 DEF Rows, Longer
  <2>2. tasks'[i].inputs.recon = r
    BY <1>7, <2>1 DEF Uniform, Undisturbed, reconstruction_database_path, Static, Rows
  <2> QED BY <2>1, <2>2 DEF Static
<1>8. Agreeing(r)
  BY <1>4, <1>5 DEF Agreeing
<1>9. Undisturbed(r)
  BY <1>6, <1>7 DEF Undisturbed
<1> QED BY <1>8, <1>9 DEF Uniform

\* The stages of a recipe that agrees with the others of its reconstruction work in its store.
LEMMA OwnStore ==
  ASSUME Shape, NEW j \in Recipes, Uniform(tasks[j].inputs.recon)
  PROVE  \A i \in {j - 3, j - 2, j - 1, j} : tasks[i].inputs.db = <<tasks[j].inputs.recon, 0>>
<1> DEFINE r == tasks[j].inputs.recon
<1>1. RecipeAt(j) /\ j \in Rows /\ tasks[j].dep = 3 /\ j \in Nat
  BY RecipeRows DEF Recipes, Rows
<1>2. j \in MapsOf(r)
  BY <1>1 DEF MapsOf, RecipeAt, Rows
<1>3. \A k \in 0..3 : tasks[j - k].inputs.db = <<r, 0>>
  BY <1>1, <1>2 DEF Uniform, Undisturbed, reconstruction_database_path
<1>4. 3 \in 0..3 /\ 2 \in 0..3 /\ 1 \in 0..3 /\ 0 \in 0..3 /\ j - 0 = j
  BY <1>1
<1> QED BY <1>3, <1>4

\* The recipes of a reconstruction that agree ask for the same.
LEMMA SameRecipe ==
  ASSUME Shape, NEW i \in Recipes, NEW j \in Recipes,
         tasks[i].inputs.recon = tasks[j].inputs.recon, Uniform(tasks[j].inputs.recon)
  PROVE  FeatOf(i) = FeatOf(j) /\ RawOf(i) = RawOf(j) /\ VerOf(i) = VerOf(j) /\ GraphOf(i) = GraphOf(j)
<1> DEFINE r == tasks[j].inputs.recon
<1>1. RecipeAt(i) /\ RecipeAt(j) /\ i \in Rows /\ j \in Rows /\ Len(tasks) \in Nat
  BY RecipeRows
<1>2. i \in MapsOf(r) /\ j \in MapsOf(r)
  BY <1>1 DEF MapsOf, RecipeAt, Rows
<1>3. tasks[i].inputs.mat = tasks[j].inputs.mat
  BY <1>1, <1>2 DEF Uniform, Agreeing, RecipeAt
<1>4. tasks[i].dep = 3 /\ tasks[j].dep = 3
  BY DEF Recipes
<1>5. \A k \in 1..3 : tasks[i - k].spec = tasks[j - k].spec
  <2>1. i \in Nat /\ j \in Nat /\ (i < j \/ j < i \/ i = j)
    BY <1>1 DEF Rows
  <2>2. /\ i < j => \A k \in 1..3 : tasks[i - k].spec = tasks[j - k].spec
        /\ j < i => \A k \in 1..3 : tasks[j - k].spec = tasks[i - k].spec
    BY <1>2, <1>4 DEF Uniform, Agreeing
  <2> QED BY <2>1, <2>2
<1>6. /\ tasks[i - 3].spec = tasks[j - 3].spec /\ tasks[i - 2].spec = tasks[j - 2].spec
      /\ tasks[i - 1].spec = tasks[j - 1].spec
  BY <1>5
<1>7. FeatOf(i) = FeatOf(j)
  BY <1>3, <1>6 DEF FeatOf
<1>8. RawOf(i) = RawOf(j)
  BY <1>6, <1>7 DEF RawOf
<1>9. VerOf(i) = VerOf(j)
  BY <1>6, <1>8 DEF VerOf
<1> QED BY <1>7, <1>8, <1>9 DEF GraphOf

-----------------------------------------------------------------------------
(* Rows are appended by a submission, and changed in place by a worker. *)

\* What a row starts from.
IsNode(n) == IsTask(n) /\ n.status = "pending" /\ n.seen = None

SameKey(n, t) == t.kind = n.kind /\ t.inputs = n.inputs /\ t.spec = n.spec

\* The row t made of node n: new, or answered by a succeeded row with its key.
MadeOf(n, t) ==
  /\ IsTask(t) /\ Static(n, t)
  /\ \/ t.status = "pending" /\ \A h \in Done : ~SameKey(n, tasks[h])
     \/ t.status = "succeeded" /\ \E h \in Done : SameKey(n, tasks[h]) /\ t.result = tasks[h].result

\* The rows there were are as they were, and the nodes follow.
Grown(nodes) ==
  /\ tasks' \in Seq({tasks'[i] : i \in Rows'})
  /\ Len(tasks') = Len(tasks) + Len(nodes)
  /\ \A i \in Rows : tasks'[i] = tasks[i]
  /\ \A k \in 1..Len(nodes) : MadeOf(nodes[k], tasks'[Len(tasks) + k])

LEMMA ListFacts ==
  ASSUME NEW S, NEW s \in Seq(S)
  PROVE  /\ \A T : S \subseteq T => s \in Seq(T)
         /\ s \in Seq({s[i] : i \in 1..Len(s)})
OBVIOUS

LEMMA ListIndex ==
  ASSUME NEW S, NEW s \in Seq(S), NEW t \in Seq(S)
  PROVE  /\ Len(s \o t) = Len(s) + Len(t) /\ s \o t \in Seq(S)
         /\ \A i \in 1..Len(s) : (s \o t)[i] = s[i]
         /\ \A k \in 1..Len(t) : (s \o t)[Len(s) + k] = t[k]
OBVIOUS

LEMMA Submitted ==
  ASSUME Shape, NEW nodes, Len(nodes) \in Nat, submit_job_dag(nodes),
         \A k \in 1..Len(nodes) : IsNode(nodes[k])
  PROVE  Grown(nodes)
<1> DEFINE n == Len(nodes)
           found == [k \in 1..n |-> lookup_cached_task(nodes[k])]
<1>1. PICK got \in [1..n -> UNION {found[k] : k \in 1..n}] :
           /\ \A k \in 1..n : got[k] \in found[k]
           /\ tasks' = tasks \o [k \in 1..n |->
                         IF got[k] = 0 THEN nodes[k]
                         ELSE [nodes[k] EXCEPT !.status = "succeeded", !.result = tasks[got[k]].result]]
  BY Zenon DEF submit_job_dag
<1> DEFINE row(k) == IF got[k] = 0 THEN nodes[k]
                     ELSE [nodes[k] EXCEPT !.status = "succeeded", !.result = tasks[got[k]].result]
           rows == [k \in 1..n |-> row(k)]
<1>2. ASSUME NEW k \in 1..n
      PROVE  MadeOf(nodes[k], row(k))
  <2> DEFINE hit == {i \in 1..Len(tasks) : /\ tasks[i].kind = nodes[k].kind /\ tasks[i].status = "succeeded"
                                           /\ cache_key(tasks[i]) = cache_key(nodes[k])}
  <2>1. hit = {h \in Done : SameKey(nodes[k], tasks[h])}
    BY DEF Done, SameKey, cache_key
  <2>2. IF hit = {} THEN got[k] = 0 ELSE got[k] \in hit
    <3>1. got[k] \in lookup_cached_task(nodes[k])
      BY <1>1
    <3> QED BY <3>1 DEF lookup_cached_task
  <2>3. Len(tasks) \in Nat /\ IsTask(nodes[k]) /\ nodes[k].status = "pending"
    BY DEF Shape, IsNode
  <2>4. hit # {} => got[k] # 0
    BY <2>2, <2>3
  <2> HIDE DEF hit
  <2>5. CASE hit = {}
    <3>1. row(k) = nodes[k]
      BY <2>2, <2>5
    <3>2. Static(nodes[k], nodes[k])
      BY DEF Static
    <3> HIDE DEF row
    <3> QED BY <2>1, <2>3, <2>5, <3>1, <3>2 DEF MadeOf
  <2>6. CASE hit # {}
    <3> DEFINE u == Cached(nodes[k], tasks[got[k]].result)
    <3>1. row(k) = u
      BY <2>4, <2>6 DEF Cached
    <3>2. Moved(nodes[k], u, "succeeded") /\ u.result = tasks[got[k]].result
      BY <2>3, TaskExcept
    <3> HIDE DEF row, u
    <3> QED BY <2>1, <2>2, <2>6, <3>1, <3>2 DEF MadeOf, Moved
  <2> QED BY <2>5, <2>6
<1> HIDE DEF row
<1> DEFINE S == {tasks[i] : i \in Rows} \cup {rows[k] : k \in 1..n}
<1>3. tasks \in Seq(S) /\ rows \in Seq(S) /\ Len(rows) = n
  <2>1. tasks \in Seq({tasks[i] : i \in Rows})
    BY DEF Shape
  <2>2. rows \in Seq(S) /\ Len(rows) = n
    OBVIOUS
  <2>3. tasks \in Seq(S)
    BY <2>1, ListFacts
  <2> QED BY <2>2, <2>3
<1>4. tasks' = tasks \o rows
  BY <1>1 DEF row
<1>5. /\ Len(tasks') = Len(tasks) + n /\ tasks' \in Seq(S)
      /\ \A i \in 1..Len(tasks) : tasks'[i] = tasks[i]
      /\ \A k \in 1..n : tasks'[Len(tasks) + k] = row(k)
  <2> HIDE DEF S
  <2>1. \A k \in 1..n : rows[k] = row(k)
    OBVIOUS
  <2> HIDE DEF rows
  <2>2. /\ Len(tasks \o rows) = Len(tasks) + Len(rows) /\ tasks \o rows \in Seq(S)
        /\ \A i \in 1..Len(tasks) : (tasks \o rows)[i] = tasks[i]
        /\ \A k \in 1..Len(rows) : (tasks \o rows)[Len(tasks) + k] = rows[k]
    <3>1. tasks \in Seq(S) /\ rows \in Seq(S)
      BY <1>3
    <3> HIDE DEF n, found
    <3> QED BY ONLY <3>1, ListIndex
  <2> QED BY <1>3, <1>4, <2>1, <2>2
<1>6. tasks' \in Seq({tasks'[i] : i \in Rows'})
  BY <1>5, ListFacts DEF Rows
<1> QED BY <1>2, <1>5, <1>6 DEF Grown, Rows

LEMMA ShapeStays ==
  ASSUME Shape, Longer, Len(tasks') \in Nat, NEW i \in Rows, IsTask(tasks'[i])
  PROVE  ShapeAt(i)'
<1>1. ShapeAt(i) /\ Static(tasks[i], tasks'[i])
  BY DEF Shape, Longer
<1>2. tasks[i].dep = 3 => RecipeAt(i)'
  BY RecipeStays DEF Recipes
<1>3. Fast(tasks[i]) => Fast(tasks'[i])
  BY <1>1 DEF Fast, Static
<1>4. Chained(i) => Chained(i)'
  BY <1>1, RecipeStays DEF Chained, MapRow, Static
<1>5. Foreign(tasks[i].inputs.recon)' = Foreign(tasks[i].inputs.recon)
  BY <1>1 DEF Foreign, Static
<1> QED BY <1>1, <1>2, <1>3, <1>4, <1>5 DEF ShapeAt, Static

LEMMA HeldStays ==
  ASSUME Shape, Longer, Len(tasks') \in Nat, NEW j \in Recipes, Held(j), StoreOf(j)' = StoreOf(j),
         \A k \in {j - 3, j - 2, j - 1, j} : tasks'[k] = tasks[k]
  PROVE  Held(j)'
<1>1. /\ FeatOf(j)' = FeatOf(j) /\ RawOf(j)' = RawOf(j)
      /\ VerOf(j)' = VerOf(j) /\ GraphOf(j)' = GraphOf(j)
  BY RecipeStays
<1>2. /\ tasks'[j - 3] = tasks[j - 3] /\ tasks'[j - 2] = tasks[j - 2]
      /\ tasks'[j - 1] = tasks[j - 1] /\ tasks'[j] = tasks[j]
  OBVIOUS
<1> QED BY <1>1, <1>2 DEF Held

LEMMA GrownFacts ==
  ASSUME Shape, NEW nodes, Len(nodes) \in Nat, Grown(nodes)
  PROVE  /\ Longer /\ Len(tasks) \in Nat /\ Len(tasks') \in Nat
         /\ \A i \in Rows' : i \in Rows \/ \E k \in 1..Len(nodes) : i = Len(tasks) + k
<1>1. Len(tasks) \in Nat
  BY DEF Shape
<1>2. \A i \in Rows : Static(tasks[i], tasks'[i])
  BY DEF Grown, Static
<1>3. Len(tasks') = Len(tasks) + Len(nodes)
  BY DEF Grown
<1>4. \A i \in Rows' : i \in Rows \/ (i - Len(tasks) \in 1..Len(nodes) /\ i = Len(tasks) + (i - Len(tasks)))
  BY <1>1, <1>3 DEF Rows
<1> QED BY <1>1, <1>2, <1>3, <1>4 DEF Longer

\* Appending rows that fit keeps the invariant.
Fits(i) ==
  /\ ShapeAt(i)
  /\ i \in Recipes => (Uniform(tasks[i].inputs.recon) => Held(i))
  /\ tasks[i].kind = "map" /\ tasks[i].dep = 0 =>
       /\ tasks[i].status # "running"
       /\ tasks[i].status = "succeeded" => tasks[i].result = tasks[i].want

LEMMA GrownKeeps ==
  ASSUME StagesInv, NEW nodes, Len(nodes) \in Nat, Grown(nodes), stores' = stores,
         \A i \in Rows' \ Rows : Fits(i)'
  PROVE  Shape' /\ StoresOk' /\ Agreed' /\ FastHeld'
<1>1. Shape /\ StoresOk /\ Agreed /\ FastHeld
  BY DEF StagesInv
<1>2. /\ Longer /\ Len(tasks) \in Nat /\ Len(tasks') \in Nat
      /\ \A i \in Rows' : i \in Rows \/ \E k \in 1..Len(nodes) : i = Len(tasks) + k
  BY <1>1, GrownFacts
<1>3. \A i \in Rows : tasks'[i] = tasks[i]
  BY DEF Grown
<1>4. ASSUME NEW i \in Rows'
      PROVE  ShapeAt(i)'
  <2>1. CASE i \in Rows
    <3>1. IsTask(tasks'[i])
      BY <1>1, <1>3, <2>1 DEF Shape, ShapeAt
    <3> QED BY <1>1, <1>2, <2>1, <3>1, ShapeStays
  <2>2. CASE i \notin Rows
    BY <2>2 DEF Fits
  <2> QED BY <2>1, <2>2
<1>5. Shape'
  BY <1>4 DEF Shape, Grown
<1>6. \A j \in Recipes : j \in Recipes' /\ tasks'[j] = tasks[j]
  BY <1>1, <1>2, <1>3, RecipeStays DEF Recipes
<1>7. StoresOk'
  <2>1. Rows \subseteq Rows'
    BY <1>2 DEF Longer, Rows
  <2>2. ASSUME NEW a \in DOMAIN stores
        PROVE  \E i \in Rows' : tasks'[i].kind \in Writers /\ tasks'[i].inputs.db = a
    BY <1>1, <1>3, <2>1 DEF StoresOk
  <2> QED BY <1>1, <2>2 DEF StoresOk
<1>8. ASSUME NEW j \in Recipes', Uniform(tasks[j].inputs.recon)'
      PROVE  Held(j)'
  <2>1. CASE j \in Rows
    <3>1. j \in Recipes
      BY <1>3, <2>1 DEF Recipes
    <3>2. j - 3 \in Rows /\ j - 2 \in Rows /\ j - 1 \in Rows
      BY <1>1, <3>1, RecipeRows
    <3>3. \A k \in {j - 3, j - 2, j - 1, j} : tasks'[k] = tasks[k]
      BY <1>3, <2>1, <3>2
    <3>4. StoreOf(j)' = StoreOf(j)
      BY <1>3, <2>1 DEF StoreOf, StoreAt
    <3>5. Uniform(tasks[j].inputs.recon)
      <4>1. PICK r : r = tasks[j].inputs.recon
        OBVIOUS
      <4>2. Uniform(r)'
        BY <1>3, <1>8, <2>1, <4>1 DEF Uniform, Agreeing, Undisturbed, MapsOf, reconstruction_database_path
      <4> QED BY <1>1, <1>2, <4>1, <4>2, UniformBefore
    <3>6. Held(j)
      BY <1>1, <3>1, <3>5 DEF Agreed
    <3> QED BY <1>1, <1>2, <3>1, <3>3, <3>4, <3>6, HeldStays
  <2>2. CASE j \notin Rows
    <3>1. j \in Rows'
      BY DEF Recipes
    <3> QED BY <1>8, <2>2, <3>1 DEF Fits
  <2> QED BY <2>1, <2>2
<1>9. FastHeld'
  <2>1. ASSUME NEW j \in Rows', tasks'[j].kind = "map", tasks'[j].dep = 0
        PROVE  /\ tasks'[j].status = "running" => tasks'[j].seen = None
               /\ tasks'[j].status = "succeeded" => tasks'[j].result = tasks'[j].want
    <3>1. CASE j \in Rows
      BY <1>1, <1>3, <2>1, <3>1 DEF FastHeld
    <3>2. CASE j \notin Rows
      BY <2>1, <3>2 DEF Fits
    <3> QED BY <3>1, <3>2
  <2> QED BY <2>1 DEF FastHeld
<1> QED BY <1>5, <1>7, <1>8, <1>9 DEF Agreed

-----------------------------------------------------------------------------
(* The submissions of one task. *)

LEMMA OneRow ==
  ASSUME StagesInv, NEW n, IsNode(n), submit_job_dag(<<n>>)
  PROVE  /\ Grown(<<n>>) /\ Len(<<n>>) = 1 /\ Len(tasks) \in Nat
         /\ Rows' \ Rows = {Len(tasks) + 1} /\ MadeOf(n, tasks'[Len(tasks) + 1])
<1>1. Len(<<n>>) = 1 /\ <<n>>[1] = n /\ \A k \in 1..1 : k = 1
  OBVIOUS
<1>2. Shape /\ Len(tasks) \in Nat
  BY DEF StagesInv, Shape
<1>3. Grown(<<n>>)
  BY <1>1, <1>2, Submitted
<1>4. MadeOf(n, tasks'[Len(tasks) + 1])
  BY <1>1, <1>3 DEF Grown
<1>5. Rows' \ Rows = {Len(tasks) + 1}
  BY <1>1, <1>2, <1>3 DEF Grown, Rows
<1> QED BY <1>1, <1>2, <1>3, <1>4, <1>5

\* A stage that writes no store and makes no model.
LEMMA AsideKeeps ==
  ASSUME StagesInv, NEW n, IsNode(n), submit_job_dag(<<n>>), stores' = stores,
         n.kind \notin Writers \cup {"map"}, n.dep = 0
  PROVE  Shape' /\ StoresOk' /\ Agreed' /\ FastHeld'
<1>1. /\ Grown(<<n>>) /\ Len(<<n>>) = 1 /\ Len(tasks) \in Nat
      /\ Rows' \ Rows = {Len(tasks) + 1} /\ MadeOf(n, tasks'[Len(tasks) + 1])
  BY OneRow
<1>2. ASSUME NEW i \in Rows' \ Rows
      PROVE  Fits(i)'
  <2>1. IsTask(tasks'[i]) /\ Static(n, tasks'[i])
    BY <1>1 DEF MadeOf
  <2> QED BY <2>1 DEF Fits, ShapeAt, Static, Recipes, Writers
<1> QED BY <1>1, <1>2, GrownKeeps

\* A stage that writes a store, of a reconstruction that no recipe belongs to.
LEMMA ForeignKeeps ==
  ASSUME StagesInv, NEW n, IsNode(n), submit_job_dag(<<n>>), stores' = stores,
         n.kind \in Writers, n.dep = 0, Foreign(n.inputs.recon)
  PROVE  Shape' /\ StoresOk' /\ Agreed' /\ FastHeld'
<1>1. /\ Grown(<<n>>) /\ Len(<<n>>) = 1 /\ Len(tasks) \in Nat
      /\ Rows' \ Rows = {Len(tasks) + 1} /\ MadeOf(n, tasks'[Len(tasks) + 1])
  BY OneRow
<1>2. ASSUME NEW i \in Rows' \ Rows
      PROVE  Fits(i)'
  <2>1. IsTask(tasks'[i]) /\ Static(n, tasks'[i])
    BY <1>1 DEF MadeOf
  <2>2. Foreign(tasks[i].inputs.recon)'
    BY <2>1 DEF Static, Foreign
  <2> QED BY <2>1, <2>2 DEF Fits, ShapeAt, Static, Recipes, Writers
<1> QED BY <1>1, <1>2, GrownKeeps

LEMMA FastKeeps ==
  ASSUME StagesInv, NEW n, IsNode(n), submit_job_dag(<<n>>), stores' = stores,
         n.kind = "map", n.dep = 0, Fast(n)
  PROVE  Shape' /\ StoresOk' /\ Agreed' /\ FastHeld'
<1>1. /\ Grown(<<n>>) /\ Len(<<n>>) = 1 /\ Len(tasks) \in Nat
      /\ Rows' \ Rows = {Len(tasks) + 1} /\ MadeOf(n, tasks'[Len(tasks) + 1])
  BY OneRow
<1>2. ASSUME NEW h \in Done, SameKey(n, tasks[h])
      PROVE  tasks[h].result = n.want
  <2>1. h \in Rows /\ ShapeAt(h) /\ tasks[h].status = "succeeded"
    BY DEF Done, Rows, StagesInv, Shape
  <2>2. tasks[h].kind = "map" /\ tasks[h].spec.of \in FastSettings
    BY <1>2 DEF SameKey, Fast
  <2>3. tasks[h].dep # 3
    BY <2>1, <2>2, SettingsAssumption DEF ShapeAt, RecipeAt
  <2>4. tasks[h].dep = 0 /\ Fast(tasks[h])
    BY <2>1, <2>2, <2>3 DEF ShapeAt
  <2>5. tasks[h].result = tasks[h].want
    BY <2>1, <2>2, <2>4 DEF StagesInv, FastHeld
  <2> QED BY <1>2, <2>4, <2>5 DEF SameKey, Fast
<1>3. ASSUME NEW i \in Rows' \ Rows
      PROVE  Fits(i)'
  <2>1. MadeOf(n, tasks'[i])
    BY <1>1
  <2>2. IsTask(tasks'[i]) /\ Static(n, tasks'[i]) /\ Fast(tasks'[i])
    BY <2>1 DEF MadeOf, Static, Fast
  <2>3. tasks'[i].status # "running"
    BY <2>1 DEF MadeOf
  <2>4. tasks'[i].status = "succeeded" => tasks'[i].result = tasks'[i].want
    BY <1>2, <2>1, <2>2 DEF MadeOf, Static
  <2> QED BY <2>2, <2>3, <2>4 DEF Fits, ShapeAt, Static, Recipes, Writers
<1> QED BY <1>1, <1>3, GrownKeeps

-----------------------------------------------------------------------------
(* The submission of a recipe. *)

FeatBy(a, d) == FeatureFiles(d.inputs.mat, a.spec)
RawBy(a, b, d) ==
  [p \in Selected(FeatBy(a, d), b.spec.pairs.of) |-> match_pair(FeatBy(a, d), p, b.spec.matcher)]
VerBy(a, b, c, d) == [p \in DOMAIN RawBy(a, b, d) |-> [of |-> RawBy(a, b, d)[p], spec |-> c.spec]]

RecipeNodes(a, b, c, d) ==
  LET r == d.inputs.recon
  IN  /\ a.kind = "extract" /\ b.kind = "match" /\ c.kind = "verify" /\ d.kind = "map"
      /\ a.dep = 0 /\ b.dep = 1 /\ c.dep = 2 /\ d.dep = 3
      /\ a.inputs.recon = r /\ b.inputs.recon = r /\ c.inputs.recon = r
      /\ a.inputs.mat = d.inputs.mat /\ d.inputs.mat # {}
      /\ d.spec = r.spec /\ d.spec.of \in RecipeSettings /\ d.spec.provider \in Providers
      /\ d.read = r.of
      /\ d.want = Model([feat |-> FeatBy(a, d), pairs |-> VerBy(a, b, c, d)],
                        d.inputs.priors, d.inputs.mat, d.spec)

LEMMA FourRows ==
  ASSUME StagesInv, NEW a, NEW b, NEW c, NEW d, IsNode(a), IsNode(b), IsNode(c), IsNode(d),
         submit_job_dag(<<a, b, c, d>>)
  PROVE  /\ Grown(<<a, b, c, d>>) /\ Len(<<a, b, c, d>>) = 4 /\ Len(tasks) \in Nat
         /\ Len(tasks') = Len(tasks) + 4
         /\ \A i \in Rows' \ Rows : i = Len(tasks) + 1 \/ i = Len(tasks) + 2 \/ i = Len(tasks) + 3
                                      \/ i = Len(tasks) + 4
         /\ MadeOf(a, tasks'[Len(tasks) + 1]) /\ MadeOf(b, tasks'[Len(tasks) + 2])
         /\ MadeOf(c, tasks'[Len(tasks) + 3]) /\ MadeOf(d, tasks'[Len(tasks) + 4])
<1> DEFINE nodes == <<a, b, c, d>>
<1>1. Len(nodes) = 4 /\ nodes[1] = a /\ nodes[2] = b /\ nodes[3] = c /\ nodes[4] = d
  OBVIOUS
<1> HIDE DEF nodes
<1>2. Shape /\ Len(tasks) \in Nat
  BY DEF StagesInv, Shape
<1>3. \A k \in 1..Len(nodes) : IsNode(nodes[k])
  <2>1. \A k \in 1..4 : k = 1 \/ k = 2 \/ k = 3 \/ k = 4
    OBVIOUS
  <2> QED BY <1>1, <2>1
<1>4. Grown(nodes)
  BY <1>1, <1>2, <1>3, Submitted DEF nodes
<1>5. 1 \in 1..4 /\ 2 \in 1..4 /\ 3 \in 1..4 /\ 4 \in 1..4
  OBVIOUS
<1>6. /\ MadeOf(a, tasks'[Len(tasks) + 1]) /\ MadeOf(b, tasks'[Len(tasks) + 2])
      /\ MadeOf(c, tasks'[Len(tasks) + 3]) /\ MadeOf(d, tasks'[Len(tasks) + 4])
  BY <1>1, <1>4, <1>5 DEF Grown
<1>7. Len(tasks') = Len(tasks) + 4
  BY <1>1, <1>4 DEF Grown
<1>8. \A i \in Rows' \ Rows : i = Len(tasks) + 1 \/ i = Len(tasks) + 2 \/ i = Len(tasks) + 3
                                \/ i = Len(tasks) + 4
  BY <1>2, <1>7 DEF Rows
<1> QED BY <1>1, <1>2, <1>4, <1>6, <1>7, <1>8 DEF nodes

\* A writer that belongs to a recipe's reconstruction is part of a recipe of it.
LEMMA WriterOfRecipe ==
  ASSUME Shape, NEW r, r.spec.of \in RecipeSettings, r.spec.provider \in Providers,
         NEW h \in Rows, tasks[h].kind \in Writers, tasks[h].inputs.recon = r
  PROVE  /\ MapRow(h) \in Recipes /\ tasks[MapRow(h)].inputs.recon = r
         /\ tasks[h].kind = "extract" => h = MapRow(h) - 3
         /\ tasks[h].kind = "match" => h = MapRow(h) - 2
         /\ tasks[h].kind = "verify" => h = MapRow(h) - 1
<1>1. ShapeAt(h) /\ Len(tasks) \in Nat /\ h \in Nat
  BY DEF Shape, Rows
<1>2. ~Foreign(r)
  BY SettingsAssumption DEF Foreign
<1>3. Chained(h) /\ tasks[h].dep \in 0..3
  BY <1>1, <1>2 DEF ShapeAt
<1>4. /\ tasks[h].kind = "extract" => tasks[h].dep = 0
      /\ tasks[h].kind = "match" => tasks[h].dep = 1
      /\ tasks[h].kind = "verify" => tasks[h].dep = 2
  BY <1>3 DEF Chained
<1>5. MapRow(h) \in Recipes
  BY <1>3 DEF Chained
<1>6. /\ tasks[h].kind = "extract" => h = MapRow(h) - 3
      /\ tasks[h].kind = "match" => h = MapRow(h) - 2
      /\ tasks[h].kind = "verify" => h = MapRow(h) - 1
  BY <1>1, <1>4 DEF MapRow
<1>7. RecipeAt(MapRow(h))
  BY <1>5, RecipeRows
<1>8. tasks[h].inputs.recon = tasks[MapRow(h)].inputs.recon
  <2>1. \E k \in 0..3 : h = MapRow(h) - k
    BY <1>6 DEF Writers
  <2> QED BY <1>7, <2>1 DEF RecipeAt
<1> QED BY <1>5, <1>6, <1>8

LEMMA RecipeKeeps ==
  ASSUME StagesInv, NEW a, NEW b, NEW c, NEW d, IsNode(a), IsNode(b), IsNode(c), IsNode(d),
         submit_job_dag(<<a, b, c, d>>), RecipeNodes(a, b, c, d), stores' = stores
  PROVE  Shape' /\ StoresOk' /\ Agreed' /\ FastHeld'
<1> DEFINE L == Len(tasks)
           r == d.inputs.recon
           f == FeatBy(a, d)
           raw == RawBy(a, b, d)
           ver == VerBy(a, b, c, d)
           st == StoreAt(<<r, 0>>)
<1>1. /\ Grown(<<a, b, c, d>>) /\ Len(<<a, b, c, d>>) = 4 /\ L \in Nat /\ Len(tasks') = L + 4
      /\ \A i \in Rows' \ Rows : i = L + 1 \/ i = L + 2 \/ i = L + 3 \/ i = L + 4
      /\ MadeOf(a, tasks'[L + 1]) /\ MadeOf(b, tasks'[L + 2])
      /\ MadeOf(c, tasks'[L + 3]) /\ MadeOf(d, tasks'[L + 4])
  BY FourRows
<1>2. PICK j : j = L + 4
  OBVIOUS
<1>3. j \in Nat /\ j - 3 = L + 1 /\ j - 2 = L + 2 /\ j - 1 = L + 3 /\ j > 3 /\ j \in Rows'
  BY <1>1, <1>2 DEF Rows
<1>4. /\ IsTask(tasks'[j - 3]) /\ IsTask(tasks'[j - 2]) /\ IsTask(tasks'[j - 1]) /\ IsTask(tasks'[j])
      /\ Static(a, tasks'[j - 3]) /\ Static(b, tasks'[j - 2])
      /\ Static(c, tasks'[j - 1]) /\ Static(d, tasks'[j])
  BY <1>1, <1>2, <1>3 DEF MadeOf
<1>5. FeatOf(j)' = f /\ RawOf(j)' = raw /\ VerOf(j)' = ver
  <2>1. FeatOf(j)' = f
    BY <1>4 DEF FeatOf, FeatBy, Static
  <2>2. RawOf(j)' = raw
    BY <1>4, <2>1 DEF RawOf, RawBy, Static
  <2>3. VerOf(j)' = ver
    BY <1>4, <2>2 DEF VerOf, VerBy, Static
  <2> QED BY <2>1, <2>2, <2>3
<1>6. GraphOf(j)' = [feat |-> f, pairs |-> ver]
  BY <1>5 DEF GraphOf
<1> HIDE DEF f, raw, ver, st
<1>7. RecipeAt(j)' /\ j \in Recipes'
  <2>1. \A k \in 0..3 : tasks'[j - k].inputs.recon = r
    <3>1. \A k \in 0..3 : k = 0 \/ k = 1 \/ k = 2 \/ k = 3
      OBVIOUS
    <3>2. j - 0 = j
      BY <1>3
    <3> QED BY <1>4, <3>1, <3>2 DEF RecipeNodes, Static
  <2>2. tasks'[j].want = Model(GraphOf(j)', tasks'[j].inputs.priors, tasks'[j].inputs.mat, tasks'[j].spec)
    BY <1>4, <1>6 DEF RecipeNodes, Static, f, ver
  <2> QED BY <1>3, <1>4, <2>1, <2>2 DEF RecipeAt, RecipeNodes, Static, Recipes
<1>8. ASSUME NEW i \in Rows' \ Rows
      PROVE  ShapeAt(i)'
  <2>1. CASE i = j
    BY <1>4, <1>7, <2>1 DEF ShapeAt, RecipeNodes, Static, Writers
  <2>2. CASE i = j - 3
    <3>1. Chained(i)'
      BY <1>3, <1>4, <1>7, <2>2 DEF Chained, MapRow, RecipeNodes, Static
    <3> QED BY <1>4, <2>2, <3>1 DEF ShapeAt, RecipeNodes, Static, Writers
  <2>3. CASE i = j - 2
    <3>1. Chained(i)'
      BY <1>3, <1>4, <1>7, <2>3 DEF Chained, MapRow, RecipeNodes, Static
    <3> QED BY <1>4, <2>3, <3>1 DEF ShapeAt, RecipeNodes, Static, Writers
  <2>4. CASE i = j - 1
    <3>0. tasks'[i].dep = 2 /\ tasks'[i].kind = "verify" /\ i \in Nat /\ i + (3 - 2) = j
      BY <1>1, <1>3, <1>4, <2>4 DEF RecipeNodes, Static
    <3>1. Chained(i)'
      BY <1>7, <3>0 DEF Chained, MapRow
    <3> QED BY <1>4, <2>4, <3>1 DEF ShapeAt, RecipeNodes, Static, Writers
  <2> QED BY <1>1, <1>2, <1>3, <2>1, <2>2, <2>3, <2>4

<1>9. Shape /\ StoresOk /\ Agreed /\ Longer /\ Len(tasks') \in Nat /\ \A i \in Rows : tasks'[i] = tasks[i]
  BY <1>1, GrownFacts DEF StagesInv, Grown
<1>10. ASSUME Uniform(r)', NEW i \in Recipes, tasks[i].inputs.recon = r
       PROVE  Held(i) /\ FeatOf(i) = f /\ RawOf(i) = raw /\ VerOf(i) = ver
  <2>1. Uniform(r)
    BY <1>9, <1>10, UniformBefore
  <2>2. Held(i)
    BY <1>9, <1>10, <2>1 DEF Agreed
  <2>3. RecipeAt(i) /\ i \in Rows /\ i > 3 /\ i - 3 \in Rows /\ i - 2 \in Rows /\ i - 1 \in Rows
    BY <1>9, RecipeRows
  <2>4. RecipeAt(i)' /\ i \in Recipes'
    BY <1>9, RecipeStays
  <2>5. i \in MapsOf(r)' /\ j \in MapsOf(r)' /\ i < j /\ tasks'[i].dep = 3 /\ tasks'[j].dep = 3
    BY <1>1, <1>2, <1>4, <1>7, <1>9, <1>10, <2>3, <2>4
    DEF MapsOf, Recipes, Rows, RecipeAt, RecipeNodes, Static
  <2>6. \A k \in 1..3 : tasks'[i - k].spec = tasks'[j - k].spec
    BY <1>10, <2>5 DEF Uniform, Agreeing
  <2>7. tasks'[i].inputs.mat = tasks'[j].inputs.mat
    <3>1. tasks'[i].read = r.of /\ tasks'[j].read = r.of
      BY <1>4, <1>9, <1>10, <2>3 DEF RecipeAt, RecipeNodes, Static
    <3> QED BY <1>10, <2>5, <3>1 DEF Uniform, Agreeing
  <2>8. /\ tasks[i - 3].spec = a.spec /\ tasks[i - 2].spec = b.spec /\ tasks[i - 1].spec = c.spec
        /\ tasks[i].inputs.mat = d.inputs.mat
    <3>1. /\ tasks'[i - 3] = tasks[i - 3] /\ tasks'[i - 2] = tasks[i - 2]
          /\ tasks'[i - 1] = tasks[i - 1] /\ tasks'[i] = tasks[i]
      BY <1>9, <2>3
    <3>2. /\ tasks'[i - 3].spec = tasks'[j - 3].spec /\ tasks'[i - 2].spec = tasks'[j - 2].spec
          /\ tasks'[i - 1].spec = tasks'[j - 1].spec
      BY <2>6
    <3>3. /\ tasks'[j - 3].spec = a.spec /\ tasks'[j - 2].spec = b.spec
          /\ tasks'[j - 1].spec = c.spec /\ tasks'[j].inputs = d.inputs
      BY <1>4 DEF Static
    <3> QED BY <2>7, <3>1, <3>2, <3>3
  <2>9. FeatOf(i) = f
    BY <2>8 DEF FeatOf, f, FeatBy
  <2>10. RawOf(i) = raw
    BY <2>8, <2>9 DEF RawOf, raw, RawBy, f
  <2>11. VerOf(i) = ver
    BY <2>8, <2>10 DEF VerOf, ver, VerBy, raw
  <2> QED BY <2>2, <2>9, <2>10, <2>11
<1>11. r.spec.of \in RecipeSettings /\ r.spec.provider \in Providers
  BY DEF RecipeNodes
<1>12. ASSUME NEW i \in Recipes, tasks[i].inputs.recon = r
       PROVE  StoreOf(i) = st
  BY <1>12 DEF StoreOf, st
<1>13. ASSUME NEW n, NEW t, n \in {a, b, c}, MadeOf(n, t), t.status = "succeeded"
       PROVE  \E i \in Recipes : /\ tasks[i].inputs.recon = r
                                 /\ n.kind = "extract" => tasks[i - 3].status = "succeeded"
                                 /\ n.kind = "match" => tasks[i - 2].status = "succeeded"
                                 /\ n.kind = "verify" => tasks[i - 1].status = "succeeded"
  <2>1. PICK h \in Done : SameKey(n, tasks[h])
    BY <1>13 DEF MadeOf
  <2>2. h \in Rows /\ tasks[h].kind = n.kind /\ tasks[h].inputs.recon = r /\ n.kind \in Writers
    BY <1>13, <2>1 DEF Done, Rows, SameKey, RecipeNodes, Writers
  <2>3. /\ MapRow(h) \in Recipes /\ tasks[MapRow(h)].inputs.recon = r
        /\ tasks[h].kind = "extract" => h = MapRow(h) - 3
        /\ tasks[h].kind = "match" => h = MapRow(h) - 2
        /\ tasks[h].kind = "verify" => h = MapRow(h) - 1
    BY <1>9, <1>11, <2>2, WriterOfRecipe
  <2>4. tasks[h].status = "succeeded"
    BY DEF Done
  <2>5. PICK i : i = MapRow(h)
    OBVIOUS
  <2> QED BY <2>2, <2>3, <2>4, <2>5
<1>14. ASSUME Uniform(r)'
       PROVE  Part(st.feat, f) /\ Part(st.raw, raw) /\ Part(st.ver, ver)
  <2>1. CASE <<r, 0>> \notin DOMAIN stores
    <3>1. st = EmptyStore
      BY <2>1 DEF st, StoreAt
    <3> QED BY <3>1, EmptyStoreFacts, EmptyPart
  <2>2. CASE <<r, 0>> \in DOMAIN stores
    <3>1. PICK h \in Rows : tasks[h].kind \in Writers /\ tasks[h].inputs.db = <<r, 0>>
      BY <1>9, <2>2 DEF StoresOk
    <3>2. Uniform(r)
      BY <1>9, <1>14, UniformBefore
    <3>3. tasks[h].inputs.recon = r
      BY <3>1, <3>2 DEF Uniform, Undisturbed, reconstruction_database_path, Rows, Writers
    <3>4. PICK i : i = MapRow(h)
      OBVIOUS
    <3>5. i \in Recipes /\ tasks[i].inputs.recon = r
      BY <1>9, <1>11, <3>1, <3>3, <3>4, WriterOfRecipe
    <3> QED BY <1>10, <1>12, <1>14, <3>5 DEF Held
  <2> QED BY <2>1, <2>2
<1>15. ASSUME Uniform(r)'
       PROVE  /\ tasks'[j - 3].status = "succeeded" => st.feat = f
              /\ tasks'[j - 2].status = "succeeded" => st.feat = f /\ st.raw = raw
              /\ tasks'[j - 1].status = "succeeded" => st.feat = f /\ st.raw = raw /\ st.ver = ver
  <2>1. a.kind = "extract" /\ b.kind = "match" /\ c.kind = "verify"
    BY DEF RecipeNodes
  <2>2. ASSUME tasks'[j - 3].status = "succeeded" PROVE st.feat = f
    <3>1. PICK i \in Recipes : tasks[i].inputs.recon = r /\ tasks[i - 3].status = "succeeded"
      BY <1>1, <1>3, <1>13, <2>1, <2>2
    <3> QED BY <1>10, <1>12, <1>15, <3>1 DEF Held
  <2>3. ASSUME tasks'[j - 2].status = "succeeded" PROVE st.feat = f /\ st.raw = raw
    <3>1. PICK i \in Recipes : tasks[i].inputs.recon = r /\ tasks[i - 2].status = "succeeded"
      BY <1>1, <1>3, <1>13, <2>1, <2>3
    <3> QED BY <1>10, <1>12, <1>15, <3>1 DEF Held
  <2>4. ASSUME tasks'[j - 1].status = "succeeded" PROVE st.feat = f /\ st.raw = raw /\ st.ver = ver
    <3>1. PICK i \in Recipes : tasks[i].inputs.recon = r /\ tasks[i - 1].status = "succeeded"
      BY <1>1, <1>3, <1>13, <2>1, <2>4
    <3> QED BY <1>10, <1>12, <1>15, <3>1 DEF Held
  <2> QED BY <2>2, <2>3, <2>4
<1>16. ASSUME Uniform(r)', tasks'[j].status = "succeeded"
       PROVE  tasks'[j].result = tasks'[j].want
  <2>1. PICK h \in Done : SameKey(d, tasks[h]) /\ tasks'[j].result = tasks[h].result
    BY <1>1, <1>2, <1>16 DEF MadeOf
  <2>2. h \in Rows /\ ShapeAt(h) /\ tasks[h].status = "succeeded"
    BY <1>9 DEF Done, Rows, Shape
  <2>3. tasks[h].kind = "map" /\ tasks[h].spec.of \in RecipeSettings /\ tasks[h].inputs = d.inputs
        /\ tasks[h].spec = d.spec
    BY <2>1 DEF SameKey, RecipeNodes
  <2>4. h \in Recipes /\ RecipeAt(h)
    BY <2>2, <2>3, SettingsAssumption DEF ShapeAt, Fast, Recipes
  <2>5. Held(h) /\ FeatOf(h) = f /\ VerOf(h) = ver
    BY <1>10, <1>16, <2>3, <2>4
  <2>6. tasks[h].want = d.want
    BY <2>3, <2>4, <2>5 DEF RecipeAt, RecipeNodes, GraphOf, f, ver
  <2> QED BY <1>4, <2>1, <2>2, <2>5, <2>6 DEF Held, Static
<1>17. ASSUME Uniform(r)'
       PROVE  Held(j)'
  <2>1. StoreOf(j)' = st
    BY <1>4 DEF StoreOf, StoreAt, st, Static
  <2>2. /\ tasks'[j - 3].status # "running" /\ tasks'[j - 2].status # "running"
        /\ tasks'[j - 1].status # "running" /\ tasks'[j].status # "running"
    BY <1>1, <1>2, <1>3 DEF MadeOf
  <2> QED BY <1>5, <1>14, <1>15, <1>16, <1>17, <2>1, <2>2 DEF Held
<1>18. ASSUME NEW i \in Rows' \ Rows
       PROVE  Fits(i)'
  <2>1. tasks'[i].kind = "map" \/ i \in Recipes' => i = j
    <3>1. i = j - 3 \/ i = j - 2 \/ i = j - 1 \/ i = j
      BY <1>1, <1>2, <1>3
    <3>2. \A k \in {j - 3, j - 2, j - 1} : tasks'[k].kind # "map" /\ tasks'[k].dep # 3
      BY <1>4 DEF RecipeNodes, Static
    <3> QED BY <3>1, <3>2 DEF Recipes
  <2>2. tasks'[j].dep = 3
    BY <1>4 DEF RecipeNodes, Static
  <2>3. Uniform(tasks[j].inputs.recon)' => Held(j)'
    <3>1. tasks'[j].inputs.recon = r
      BY <1>4 DEF Static
    <3>2. Uniform(tasks[j].inputs.recon)' => Uniform(r)'
      BY <3>1 DEF Uniform, Agreeing, Undisturbed, MapsOf, reconstruction_database_path
    <3> QED BY <1>17, <3>2
  <2> QED BY <1>8, <2>1, <2>2, <2>3 DEF Fits
<1> QED BY <1>1, <1>18, GrownKeeps

-----------------------------------------------------------------------------
(* A worker changes one row. *)

\* Row i alone changes, to u, in its status and in what it holds.
Work(i, u, st) ==
  /\ i \in Rows /\ Moved(tasks[i], u, st)
  /\ tasks' \in Seq({tasks'[k] : k \in Rows'})
  /\ Len(tasks') = Len(tasks) /\ Rows' = Rows
  /\ tasks'[i] = u
  /\ \A k \in Rows : k # i => tasks'[k] = tasks[k]

LEMMA ListExcept ==
  ASSUME NEW S, NEW s \in Seq(S), NEW i \in 1..Len(s), NEW u
  PROVE  /\ [s EXCEPT ![i] = u] \in Seq(S \cup {u}) /\ Len([s EXCEPT ![i] = u]) = Len(s)
         /\ [s EXCEPT ![i] = u][i] = u
         /\ \A k \in 1..Len(s) : k # i => [s EXCEPT ![i] = u][k] = s[k]
<1>1. s \in Seq(S \cup {u})
  BY ListFacts
<1> QED BY <1>1

LEMMA Worked ==
  ASSUME Shape, NEW i \in Rows, NEW u, NEW st, Moved(tasks[i], u, st), tasks' = [tasks EXCEPT ![i] = u]
  PROVE  Work(i, u, st)
<1> DEFINE S == {tasks[k] : k \in Rows}
<1>1. tasks \in Seq(S) /\ i \in 1..Len(tasks)
  BY DEF Shape, Rows
<1> HIDE DEF S
<1>2. /\ tasks' \in Seq(S \cup {u}) /\ Len(tasks') = Len(tasks) /\ tasks'[i] = u
      /\ \A k \in 1..Len(tasks) : k # i => tasks'[k] = tasks[k]
  <2> DEFINE e == [tasks EXCEPT ![i] = u]
  <2>1. /\ e \in Seq(S \cup {u}) /\ Len(e) = Len(tasks) /\ e[i] = u
        /\ \A k \in 1..Len(tasks) : k # i => e[k] = tasks[k]
    BY ONLY <1>1, ListExcept
  <2>2. tasks' = e
    OBVIOUS
  <2> HIDE DEF e
  <2> QED BY <2>1, <2>2
<1>3. tasks' \in Seq({tasks'[k] : k \in Rows'})
  <2>1. PICK l : l = tasks'
    OBVIOUS
  <2>2. l \in Seq(S \cup {u})
    BY <1>2, <2>1
  <2>3. l \in Seq({l[k] : k \in 1..Len(l)})
    BY ONLY <2>2, ListFacts
  <2> QED BY <2>1, <2>3 DEF Rows
<1> QED BY <1>2, <1>3 DEF Work, Rows

LEMMA WorkFacts ==
  ASSUME Shape, NEW i, NEW u, NEW st, Work(i, u, st)
  PROVE  /\ Longer /\ Len(tasks') \in Nat /\ Shape' /\ Recipes' = Recipes
         /\ \A k \in Rows : Static(tasks[k], tasks'[k])
         /\ \A r : Uniform(r)' => Uniform(r)
<1>1. Len(tasks) \in Nat /\ Len(tasks') \in Nat
  BY DEF Shape, Work
<1>2. \A k \in Rows : Static(tasks[k], tasks'[k])
  BY DEF Work, Moved, Static
<1>3. Longer
  BY <1>1, <1>2 DEF Longer, Work
<1>4. Recipes' = Recipes
  BY <1>2 DEF Recipes, Work, Static
<1>5. ASSUME NEW k \in Rows
      PROVE  ShapeAt(k)'
  <2>1. IsTask(tasks'[k])
    BY DEF Work, Moved, Shape, ShapeAt
  <2> QED BY <1>1, <1>3, <2>1, ShapeStays
<1>6. Shape'
  BY <1>5 DEF Shape, Work
<1>7. ASSUME NEW r, Uniform(r)' PROVE Uniform(r)
  BY <1>1, <1>3, <1>7, UniformBefore
<1> QED BY <1>1, <1>2, <1>3, <1>4, <1>6, <1>7

\* The store of a recipe that agrees gained some of the files it asks for.
Advanced(j) ==
  LET st == StoreOf(j)
      sp == StoreOf(j)'
  IN  /\ Part(sp.feat, FeatOf(j)) /\ Part(sp.raw, RawOf(j)) /\ Part(sp.ver, VerOf(j))
      /\ st.feat = FeatOf(j) => sp.feat = FeatOf(j)
      /\ st.raw = RawOf(j) => sp.raw = RawOf(j)
      /\ st.ver = VerOf(j) => sp.ver = VerOf(j)

\* What the changed row must show when it is row i of recipe j.
RowOk(i, j) ==
  LET sp == StoreOf(j)'
      t == tasks'[i]
      busy == t.status \in {"running", "succeeded"}
  IN  /\ i = j - 3 /\ t.status = "succeeded" => sp.feat = FeatOf(j)
      /\ i = j - 2 /\ busy => sp.feat = FeatOf(j)
      /\ i = j - 2 /\ t.status = "running" => t.seen = FeatOf(j)
      /\ i = j - 2 /\ t.status = "succeeded" => sp.raw = RawOf(j)
      /\ i = j - 1 /\ busy => sp.feat = FeatOf(j) /\ sp.raw = RawOf(j)
      /\ i = j - 1 /\ t.status = "running" => t.seen = RawOf(j)
      /\ i = j - 1 /\ t.status = "succeeded" => sp.ver = VerOf(j)
      /\ i = j /\ t.status = "running" => t.seen = GraphOf(j)
      /\ i = j /\ t.status = "succeeded" => t.result = t.want

LEMMA HeldAdvances ==
  ASSUME Shape, NEW i, NEW u, NEW st, Work(i, u, st), NEW j \in Recipes, Held(j), Advanced(j), RowOk(i, j)
  PROVE  Held(j)'
<1>1. /\ FeatOf(j)' = FeatOf(j) /\ RawOf(j)' = RawOf(j)
      /\ VerOf(j)' = VerOf(j) /\ GraphOf(j)' = GraphOf(j)
  BY WorkFacts, RecipeStays
<1>2. j \in Rows /\ j > 3 /\ j - 3 \in Rows /\ j - 2 \in Rows /\ j - 1 \in Rows
  BY RecipeRows
<1>3. \A k \in {j - 3, j - 2, j - 1, j} : k = i \/ tasks'[k] = tasks[k]
  BY <1>2 DEF Work
<1> DEFINE sp == StoreOf(j)'
<1>4. Part(sp.feat, FeatOf(j)) /\ Part(sp.raw, RawOf(j)) /\ Part(sp.ver, VerOf(j))
  BY DEF Advanced
<1>5. /\ tasks'[j - 3].status = "succeeded" => sp.feat = FeatOf(j)
      /\ tasks'[j - 2].status \in {"running", "succeeded"} => sp.feat = FeatOf(j)
      /\ tasks'[j - 2].status = "running" => tasks'[j - 2].seen = FeatOf(j)
      /\ tasks'[j - 2].status = "succeeded" => sp.raw = RawOf(j)
  BY <1>3 DEF Held, Advanced, RowOk
<1>6. /\ tasks'[j - 1].status \in {"running", "succeeded"} => sp.feat = FeatOf(j) /\ sp.raw = RawOf(j)
      /\ tasks'[j - 1].status = "running" => tasks'[j - 1].seen = RawOf(j)
      /\ tasks'[j - 1].status = "succeeded" => sp.ver = VerOf(j)
      /\ tasks'[j].status = "running" => tasks'[j].seen = GraphOf(j)
      /\ tasks'[j].status = "succeeded" => tasks'[j].result = tasks'[j].want
  BY <1>3 DEF Held, Advanced, RowOk
<1> QED BY <1>1, <1>4, <1>5, <1>6 DEF Held

LEMMA WorkKeeps ==
  ASSUME StagesInv, NEW i, NEW u, NEW st, Work(i, u, st), StoresOk', PendingOk',
         \A j \in Recipes : Uniform(tasks[j].inputs.recon) => Advanced(j) /\ RowOk(i, j),
         u.kind = "map" /\ u.dep = 0 =>
           /\ u.status = "running" => u.seen = None
           /\ u.status = "succeeded" => u.result = u.want
  PROVE  StagesInv'
<1>1. Shape /\ Agreed /\ FastHeld
  BY DEF StagesInv
<1>2. /\ Longer /\ Len(tasks') \in Nat /\ Shape' /\ Recipes' = Recipes
      /\ \A k \in Rows : Static(tasks[k], tasks'[k])
      /\ \A r : Uniform(r)' => Uniform(r)
  BY <1>1, WorkFacts
<1>3. ASSUME NEW j \in Recipes', Uniform(tasks[j].inputs.recon)'
      PROVE  Held(j)'
  <2>1. j \in Recipes /\ j \in Rows
    BY <1>2 DEF Recipes
  <2>2. PICK r : r = tasks[j].inputs.recon
    OBVIOUS
  <2>3. tasks'[j].inputs.recon = r
    BY <1>2, <2>1, <2>2 DEF Static
  <2>4. Uniform(r)'
    BY <1>3, <2>3 DEF Uniform, Agreeing, Undisturbed, MapsOf, reconstruction_database_path
  <2>5. Uniform(tasks[j].inputs.recon)
    BY <1>2, <2>2, <2>4
  <2>6. Held(j) /\ Advanced(j) /\ RowOk(i, j)
    BY <1>1, <2>1, <2>5 DEF Agreed
  <2> QED BY <1>1, <2>1, <2>6, HeldAdvances
<1>4. FastHeld'
  BY <1>1, <1>2 DEF FastHeld, Work
<1> QED BY <1>2, <1>3, <1>4 DEF StagesInv, Agreed

\* Stores that stay.
LEMMA SameStores ==
  ASSUME StagesInv, NEW i, NEW u, NEW st, Work(i, u, st), stores' = stores
  PROVE  /\ StoresOk'
         /\ \A j \in Recipes : StoreOf(j)' = StoreOf(j) /\ (Uniform(tasks[j].inputs.recon) => Advanced(j))
<1>1. Shape /\ StoresOk /\ Agreed
  BY DEF StagesInv
<1>2. Recipes' = Recipes /\ \A k \in Rows : Static(tasks[k], tasks'[k])
  BY <1>1, WorkFacts
<1>3. \A j \in Recipes : tasks'[j].inputs.recon = tasks[j].inputs.recon
  BY <1>2 DEF Recipes, Static
<1>4. Rows' = Rows
  BY DEF Work
<1>5. StoresOk'
  BY <1>1, <1>2, <1>4 DEF StoresOk, Static
<1>6. ASSUME NEW j \in Recipes
      PROVE  StoreOf(j)' = StoreOf(j)
  BY <1>3 DEF StoreOf, StoreAt
<1>7. ASSUME NEW j \in Recipes, Uniform(tasks[j].inputs.recon)
      PROVE  Advanced(j)
  <2>1. Held(j)
    BY <1>1, <1>7 DEF Agreed
  <2> QED BY <1>6, <2>1 DEF Advanced, Held
<1> QED BY <1>5, <1>6, <1>7

\* A row of a recipe, told by its kind.
LEMMA RowsApart ==
  ASSUME Shape, NEW i \in Rows, NEW j \in Recipes
  PROVE  /\ i = j - 3 => tasks[i].kind = "extract"
         /\ i = j - 2 => tasks[i].kind = "match"
         /\ i = j - 1 => tasks[i].kind = "verify"
         /\ i = j => tasks[i].kind = "map" /\ tasks[i].dep = 3
         /\ i = j - 2 => tasks[i].dep = 1 /\ i - 1 = j - 3
         /\ i = j - 1 => tasks[i].dep = 2 /\ i - 1 = j - 2
         /\ i = j => i - 1 = j - 1
<1>1. RecipeAt(j) /\ j \in Nat /\ j > 3 /\ i \in Nat
  BY RecipeRows DEF Rows
<1>2. tasks[j].dep = 3
  BY DEF Recipes
<1> QED BY <1>1, <1>2 DEF RecipeAt

LEMMA RestKeeps ==
  ASSUME StagesInv, NEW i, NEW u, NEW st \in {"failed", "pending"}, Work(i, u, st), stores' = stores, PendingOk'
  PROVE  StagesInv'
<1>1. /\ StoresOk'
      /\ \A j \in Recipes : StoreOf(j)' = StoreOf(j) /\ (Uniform(tasks[j].inputs.recon) => Advanced(j))
  BY SameStores
<1>2. u.status = st /\ tasks'[i] = u
  BY DEF Work, Moved
<1>3. \A j \in Recipes : RowOk(i, j)
  BY <1>2 DEF RowOk
<1> QED BY <1>1, <1>2, <1>3, WorkKeeps

\* What a task that begins has loaded.
LEMMA Loads ==
  ASSUME NEW t
  PROVE  /\ t.kind = "match" => Load(t) = StoreAt(t.inputs.db).feat
         /\ t.kind = "verify" => Load(t) = StoreAt(t.inputs.db).raw
         /\ t.kind = "map" /\ t.spec.of \in RecipeSettings =>
              Load(t) = load_correspondence_graph(StoreAt(t.inputs.db))
         /\ t.kind = "map" /\ t.spec.of \notin RecipeSettings => Load(t) = None
<1>1. t.kind = "match" => Load(t) = MatchLoads(t)
  BY DEF Load, OfSparse, _RECON_STAGES, _DATASET_DB_STAGES
<1>2. t.kind = "verify" => Load(t) = VerifyLoads(t)
  BY DEF Load, OfSparse, _RECON_STAGES, _DATASET_DB_STAGES
<1>3. t.kind = "map" => Load(t) = MapLoads(t)
  BY DEF Load, OfSparse, _RECON_STAGES, _DATASET_DB_STAGES
<1> QED BY <1>1, <1>2, <1>3 DEF MatchLoads, VerifyLoads, MapLoads, Classical

LEMMA BeginKeeps ==
  ASSUME StagesInv, NEW i, NEW u, Work(i, u, "running"), DepsDone(i), u.seen = Load(tasks[i]),
         stores' = stores, PendingOk'
  PROVE  StagesInv'
<1>1. Shape /\ Agreed /\ i \in Rows /\ ShapeAt(i)
  BY DEF StagesInv, Work, Shape
<1>2. /\ StoresOk'
      /\ \A j \in Recipes : StoreOf(j)' = StoreOf(j) /\ (Uniform(tasks[j].inputs.recon) => Advanced(j))
  BY SameStores
<1>3. u.status = "running" /\ tasks'[i] = u /\ u.kind = tasks[i].kind /\ u.dep = tasks[i].dep
  BY DEF Work, Moved, Static
<1>4. tasks[i].dep # 0 => tasks[i - 1].status = "succeeded"
  BY DEF DepsDone
<1>5. ASSUME NEW j \in Recipes, Uniform(tasks[j].inputs.recon)
      PROVE  RowOk(i, j)
  <2>1. Held(j)
    BY <1>1, <1>5 DEF Agreed
  <2>2. StoreOf(j)' = StoreOf(j)
    BY <1>2
  <2>3. /\ i = j - 3 => tasks[i].kind = "extract"
        /\ i = j - 2 => tasks[i].kind = "match"
        /\ i = j - 1 => tasks[i].kind = "verify"
        /\ i = j => tasks[i].kind = "map" /\ tasks[i].dep = 3
        /\ i = j - 2 => tasks[i].dep = 1 /\ i - 1 = j - 3
        /\ i = j - 1 => tasks[i].dep = 2 /\ i - 1 = j - 2
        /\ i = j => i - 1 = j - 1
    BY <1>1, RowsApart
  <2>4. i \in {j - 3, j - 2, j - 1, j} => StoreAt(tasks[i].inputs.db) = StoreOf(j)
    BY <1>1, <1>5, OwnStore DEF StoreOf
  <2>5. i = j - 2 => StoreOf(j).feat = FeatOf(j) /\ u.seen = FeatOf(j)
    BY <1>4, <2>1, <2>3, <2>4, Loads DEF Held
  <2>6. i = j - 1 => StoreOf(j).feat = FeatOf(j) /\ StoreOf(j).raw = RawOf(j) /\ u.seen = RawOf(j)
    BY <1>4, <2>1, <2>3, <2>4, Loads DEF Held
  <2>7. i = j => u.seen = GraphOf(j)
    <3>1. SUFFICES ASSUME i = j PROVE u.seen = GraphOf(j)
      OBVIOUS
    <3>2. StoreOf(j).feat = FeatOf(j) /\ StoreOf(j).raw = RawOf(j) /\ StoreOf(j).ver = VerOf(j)
      BY <1>4, <2>1, <2>3, <3>1 DEF Held
    <3>3. /\ RecipeAt(j) /\ IsFunction(VerOf(j)) /\ DOMAIN FeatOf(j) # {} /\ DOMAIN VerOf(j) = DOMAIN RawOf(j)
      BY <1>1, RecipeRows
    <3>4. u.seen = load_correspondence_graph(StoreOf(j))
      BY <2>3, <2>4, <3>1, <3>3, Loads DEF RecipeAt
    <3>5. load_correspondence_graph(StoreOf(j)) = [feat |-> FeatOf(j), pairs |-> VerOf(j)]
      BY <3>2, <3>3, LoadedGraph
    <3> QED BY <3>4, <3>5 DEF GraphOf
  <2>8. u.status # "succeeded"
    BY <1>3
  <2>9. PICK sp : sp = StoreOf(j)
    OBVIOUS
  <2> QED BY <1>3, <2>2, <2>5, <2>6, <2>7, <2>8, <2>9 DEF RowOk
<1>6. u.kind = "map" /\ u.dep = 0 => u.seen = None
  <2>1. tasks[i].kind = "map" /\ tasks[i].dep = 0 => tasks[i].spec.of \notin RecipeSettings
    BY <1>1, SettingsAssumption DEF ShapeAt, Fast
  <2> QED BY <1>3, <2>1, Loads
<1> QED BY <1>2, <1>3, <1>5, <1>6, WorkKeeps

LEMMA StartKeeps ==
  ASSUME StagesInv, NEW i \in Rows, Start(i)
  PROVE  StagesInv'
<1>1. Shape /\ PendingOk /\ IsTask(tasks[i])
  BY DEF StagesInv, Shape, ShapeAt
<1>2. stores' = stores /\ PendingOk' /\ DepsDone(i)
  BY <1>1 DEF Start, PendingOk
<1>3. CASE CanRun(tasks[i])
  <2>1. PICK u : u = Begun(tasks[i], Load(tasks[i]))
    OBVIOUS
  <2>2. Moved(tasks[i], u, "running") /\ u.seen = Load(tasks[i])
    BY <1>1, <2>1, TaskExcept
  <2>3. tasks' = [tasks EXCEPT ![i] = u]
    BY <1>3, <2>1 DEF Start, Begun
  <2>4. Work(i, u, "running")
    BY <1>1, <2>2, <2>3, Worked
  <2> QED BY <1>2, <2>2, <2>4, BeginKeeps
<1>4. CASE ~CanRun(tasks[i])
  <2>1. PICK u : u = Refused(tasks[i])
    OBVIOUS
  <2>2. Moved(tasks[i], u, "failed")
    BY <1>1, <2>1, TaskExcept
  <2>3. tasks' = [tasks EXCEPT ![i] = u]
    BY <1>4, <2>1 DEF Start, Refused
  <2>4. Work(i, u, "failed")
    BY <1>1, <2>2, <2>3, Worked
  <2> QED BY <1>2, <2>4, RestKeeps
<1> QED BY <1>3, <1>4

LEMMA ResumeKeeps ==
  ASSUME StagesInv, NEW i \in Rows, Resume(i)
  PROVE  StagesInv'
<1>1. Shape /\ PendingOk /\ IsTask(tasks[i])
  BY DEF StagesInv, Shape, ShapeAt
<1>2. stores' = stores /\ PendingOk'
  BY <1>1 DEF Resume, PendingOk
<1>3. PICK u : u = Again(tasks[i])
  OBVIOUS
<1>4. Moved(tasks[i], u, "pending")
  BY <1>1, <1>3, TaskExcept
<1>5. tasks' = [tasks EXCEPT ![i] = u]
  BY <1>3 DEF Resume, Again
<1>6. Work(i, u, "pending")
  BY <1>1, <1>4, <1>5, Worked
<1> QED BY <1>2, <1>6, RestKeeps

-----------------------------------------------------------------------------
(* A worker writes a store. *)

LEMMA StoreIs ==
  ASSUME StoresOk, NEW a
  PROVE  IsStore(StoreAt(a))
BY EmptyStoreFacts DEF StoresOk, StoreAt

LEMMA StoredFacts ==
  ASSUME NEW a, NEW s, Stored(a, s)
  PROVE  /\ DOMAIN stores' = DOMAIN stores \cup {a} /\ IsFunction(stores')
         /\ stores'[a] = s /\ StoreAt(a)' = s
         /\ \A x : x # a => StoreAt(x)' = StoreAt(x)
         /\ \A x \in DOMAIN stores : x # a => stores'[x] = stores[x]
<1> DEFINE g == [x \in {a} |-> s]
<1>1. DOMAIN g = {a} /\ g[a] = s /\ stores' = Over(g, stores)
  BY DEF Stored
<1> HIDE DEF g
<1>2. /\ DOMAIN stores' = DOMAIN stores \cup {a} /\ IsFunction(stores')
      /\ stores'[a] = s /\ \A x \in DOMAIN stores : x # a => stores'[x] = stores[x]
  <2> DEFINE h == Over(g, stores)
  <2>1. /\ DOMAIN h = DOMAIN g \cup DOMAIN stores /\ IsFunction(h)
        /\ \A x \in DOMAIN g : h[x] = g[x]
        /\ \A x \in DOMAIN stores \ DOMAIN g : h[x] = stores[x]
    BY ONLY OverFacts
  <2>2. stores' = h
    BY <1>1
  <2> HIDE DEF h
  <2>3. IsFunction(stores')
    BY <2>1, <2>2 DEF IsFunction
  <2> QED BY <1>1, <2>1, <2>2, <2>3
<1>3. StoreAt(a)' = s
  BY <1>2 DEF StoreAt
<1>4. ASSUME NEW x, x # a
      PROVE  StoreAt(x)' = StoreAt(x)
  BY <1>2, <1>4 DEF StoreAt
<1> QED BY <1>2, <1>3, <1>4

\* Row i belongs to a recipe j0 of the reconstruction of j, or it writes elsewhere.
LEMMA WriterPlace ==
  ASSUME Shape, NEW i \in Rows, tasks[i].kind \in Writers, NEW j \in Recipes, Uniform(tasks[j].inputs.recon)
  PROVE  \/ tasks[i].inputs.db # <<tasks[j].inputs.recon, 0>>
         \/ \E j0 \in Recipes :
              /\ tasks[j0].inputs.recon = tasks[j].inputs.recon
              /\ tasks[i].kind = "extract" => i = j0 - 3
              /\ tasks[i].kind = "match" => i = j0 - 2
              /\ tasks[i].kind = "verify" => i = j0 - 1
<1>1. RecipeAt(j)
  BY RecipeRows
<1>2. PICK r : r = tasks[j].inputs.recon
  OBVIOUS
<1>3. r.spec.of \in RecipeSettings /\ r.spec.provider \in Providers
  BY <1>1, <1>2 DEF RecipeAt
<1>4. CASE tasks[i].inputs.db = <<r, 0>>
  <2>1. tasks[i].inputs.recon = r
    BY <1>2, <1>4 DEF Uniform, Undisturbed, reconstruction_database_path, Rows, Writers
  <2> QED BY <1>2, <1>3, <2>1, WriterOfRecipe
<1> QED BY <1>2, <1>4

\* Files of the recipe written over what is there: all of one directory, or some of it.
Filled(s, s2, dir, full) ==
  /\ s2.feat = (IF dir = "feat" THEN full ELSE s.feat)
  /\ s2.raw = (IF dir = "raw" THEN full ELSE s.raw)
  /\ s2.ver = (IF dir = "ver" THEN full ELSE s.ver)

DirOf(kind) == CASE kind = "extract" -> "feat" [] kind = "match" -> "raw" [] OTHER -> "ver"
FullOf(kind, j) == CASE kind = "extract" -> FeatOf(j) [] kind = "match" -> RawOf(j) [] OTHER -> VerOf(j)

LEMMA OverInto ==
  ASSUME NEW s, IsStore(s), NEW full, IsFunction(full)
  PROVE  /\ IsStore([s EXCEPT !.feat = full]) /\ Filled(s, [s EXCEPT !.feat = full], "feat", full)
         /\ IsStore([s EXCEPT !.raw = full]) /\ Filled(s, [s EXCEPT !.raw = full], "raw", full)
         /\ IsStore([s EXCEPT !.ver = full]) /\ Filled(s, [s EXCEPT !.ver = full], "ver", full)
<1>1. IsFunction(s.feat) /\ IsFunction(s.raw) /\ IsFunction(s.ver)
  BY DEF IsStore
<1>2. [s EXCEPT !.feat = full] = [feat |-> full, raw |-> s.raw, ver |-> s.ver]
  BY StoreExcept, Zenon
<1>3. [s EXCEPT !.raw = full] = [feat |-> s.feat, raw |-> full, ver |-> s.ver]
  BY StoreExcept, Zenon
<1>4. [s EXCEPT !.ver = full] = [feat |-> s.feat, raw |-> s.raw, ver |-> full]
  BY StoreExcept, Zenon
<1>5. IsStore([feat |-> full, raw |-> s.raw, ver |-> s.ver]) /\ IsStore([feat |-> s.feat, raw |-> full, ver |-> s.ver])
      /\ IsStore([feat |-> s.feat, raw |-> s.raw, ver |-> full])
  BY <1>1, StoreMade
<1>6. /\ Filled(s, [feat |-> full, raw |-> s.raw, ver |-> s.ver], "feat", full)
      /\ Filled(s, [feat |-> s.feat, raw |-> full, ver |-> s.ver], "raw", full)
      /\ Filled(s, [feat |-> s.feat, raw |-> s.raw, ver |-> full], "ver", full)
  BY DEF Filled
<1> QED BY <1>2, <1>3, <1>4, <1>5, <1>6

LEMMA KindFacts ==
  ASSUME NEW j
  PROVE  /\ DirOf("extract") = "feat" /\ DirOf("match") = "raw" /\ DirOf("verify") = "ver"
         /\ FullOf("extract", j) = FeatOf(j) /\ FullOf("match", j) = RawOf(j) /\ FullOf("verify", j) = VerOf(j)
BY DEF DirOf, FullOf

\* Row i is the row of its kind in recipe j.
Place(i, j) ==
  /\ tasks[i].kind = "extract" => i = j - 3
  /\ tasks[i].kind = "match" => i = j - 2
  /\ tasks[i].kind = "verify" => i = j - 1

LEMMA WrittenIs ==
  ASSUME StagesInv, NEW i \in Rows, tasks[i].kind \in Writers, tasks[i].status = "running"
  PROVE  /\ IsStore(Written(tasks[i]))
         /\ \A j \in Recipes : Place(i, j) /\ Uniform(tasks[j].inputs.recon) =>
              Filled(StoreOf(j), Written(tasks[i]), DirOf(tasks[i].kind), FullOf(tasks[i].kind, j))
<1> DEFINE t == tasks[i]
           s == StoreAt(t.inputs.db)
           ef == [k \in t.inputs.mat |-> t.spec]
           mf == [p \in Selected(t.seen, t.spec.pairs.of) |-> match_pair(t.seen, p, t.spec.matcher)]
           vf == [p \in DOMAIN t.seen |-> [of |-> t.seen[p], spec |-> t.spec]]
<1>1. Shape /\ StoresOk /\ Agreed /\ IsStore(s)
  BY StoreIs DEF StagesInv
<1>2. /\ t.kind = "extract" => Written(t) = [s EXCEPT !.feat = Over(ef, s.feat)]
      /\ t.kind = "match" => Written(t) = [s EXCEPT !.raw = Over(mf, s.raw)]
      /\ t.kind = "verify" => Written(t) = [s EXCEPT !.ver = Over(vf, s.ver)]
  BY DEF Written, run_io_extract, run_io_match, run_io_verify
<1>3. ASSUME NEW j \in Recipes, Place(i, j), Uniform(tasks[j].inputs.recon)
      PROVE  /\ t.kind = "extract" => ef = FeatOf(j)
             /\ t.kind = "match" => mf = RawOf(j)
             /\ t.kind = "verify" => vf = VerOf(j)
             /\ s = StoreOf(j) /\ Held(j)
  <2>1. Held(j) /\ RecipeAt(j)
    BY <1>1, <1>3, RecipeRows DEF Agreed
  <2>2. s = StoreOf(j)
    <3>1. i \in {j - 3, j - 2, j - 1, j}
      BY <1>3 DEF Place, Writers
    <3>2. t.inputs.db = <<tasks[j].inputs.recon, 0>>
      BY <1>1, <1>3, <3>1, OwnStore
    <3> QED BY <3>2 DEF StoreOf
  <2>3. t.kind = "extract" => ef = FeatOf(j)
    BY <1>3, <2>1 DEF Place, RecipeAt, FeatOf, FeatureFiles
  <2>4. t.kind = "match" => mf = RawOf(j)
    <3>1. SUFFICES ASSUME t.kind = "match" PROVE mf = RawOf(j)
      OBVIOUS
    <3>2. i = j - 2 /\ t.seen = FeatOf(j)
      BY <1>3, <2>1, <3>1 DEF Place, Held
    <3> QED BY <3>2 DEF RawOf
  <2>5. t.kind = "verify" => vf = VerOf(j)
    <3>1. SUFFICES ASSUME t.kind = "verify" PROVE vf = VerOf(j)
      OBVIOUS
    <3>2. i = j - 1 /\ t.seen = RawOf(j)
      BY <1>3, <2>1, <3>1 DEF Place, Held
    <3> QED BY <3>2 DEF VerOf
  <2> QED BY <2>1, <2>2, <2>3, <2>4, <2>5
<1> HIDE DEF ef, mf, vf, s
<1>4. IsFunction(Over(ef, s.feat)) /\ IsFunction(Over(mf, s.raw)) /\ IsFunction(Over(vf, s.ver))
  BY OverFacts
<1>5. /\ IsStore([s EXCEPT !.feat = Over(ef, s.feat)]) /\ IsStore([s EXCEPT !.raw = Over(mf, s.raw)])
      /\ IsStore([s EXCEPT !.ver = Over(vf, s.ver)])
      /\ Filled(s, [s EXCEPT !.feat = Over(ef, s.feat)], "feat", Over(ef, s.feat))
      /\ Filled(s, [s EXCEPT !.raw = Over(mf, s.raw)], "raw", Over(mf, s.raw))
      /\ Filled(s, [s EXCEPT !.ver = Over(vf, s.ver)], "ver", Over(vf, s.ver))
  BY <1>1, <1>4, OverInto, Zenon
<1>6. t.kind = "extract" \/ t.kind = "match" \/ t.kind = "verify"
  BY DEF Writers
<1>7. IsStore(Written(t))
  BY <1>2, <1>5, <1>6, Zenon
<1>8. ASSUME NEW j \in Recipes, Place(i, j), Uniform(tasks[j].inputs.recon)
      PROVE  Filled(StoreOf(j), Written(t), DirOf(t.kind), FullOf(t.kind, j))
  <2>1. /\ t.kind = "extract" => ef = FeatOf(j)
        /\ t.kind = "match" => mf = RawOf(j)
        /\ t.kind = "verify" => vf = VerOf(j)
        /\ s = StoreOf(j) /\ Held(j)
    BY <1>3, <1>8
  <2>2. Part(s.feat, FeatOf(j)) /\ Part(s.raw, RawOf(j)) /\ Part(s.ver, VerOf(j))
    BY <2>1 DEF Held
  <2>3. IsFunction(FeatOf(j)) /\ IsFunction(RawOf(j)) /\ IsFunction(VerOf(j))
    BY <1>1, RecipeRows
  <2>4. Over(FeatOf(j), s.feat) = FeatOf(j) /\ Over(RawOf(j), s.raw) = RawOf(j) /\ Over(VerOf(j), s.ver) = VerOf(j)
    BY <2>2, <2>3, PartFull, Zenon
  <2>5. CASE t.kind = "extract"
    <3>1. Over(ef, s.feat) = FeatOf(j)
      BY <2>1, <2>4, <2>5
    <3>2. Filled(s, Written(t), "feat", FeatOf(j))
      BY <1>2, <1>5, <2>5, <3>1, Zenon
    <3> QED BY <2>1, <2>5, <3>2, KindFacts, Zenon
  <2>6. CASE t.kind = "match"
    <3>1. Over(mf, s.raw) = RawOf(j)
      BY <2>1, <2>4, <2>6
    <3>2. Filled(s, Written(t), "raw", RawOf(j))
      BY <1>2, <1>5, <2>6, <3>1, Zenon
    <3> QED BY <2>1, <2>6, <3>2, KindFacts, Zenon
  <2>7. CASE t.kind = "verify"
    <3>1. Over(vf, s.ver) = VerOf(j)
      BY <2>1, <2>4, <2>7
    <3>2. Filled(s, Written(t), "ver", VerOf(j))
      BY <1>2, <1>5, <2>7, <3>1, Zenon
    <3> QED BY <2>1, <2>7, <3>2, KindFacts, Zenon
  <2> QED BY <1>6, <2>5, <2>6, <2>7
<1> QED BY <1>7, <1>8

\* The directory a writer of the given kind fills, as store s has it.
Dir(s, kind) == CASE kind = "extract" -> s.feat [] kind = "match" -> s.raw [] OTHER -> s.ver

\* Store s2 is what a writer of recipe j leaves: some of its files, or all of them.
Gained(s2, kind, j, all) ==
  \E f : /\ Filled(StoreOf(j), s2, DirOf(kind), f)
         /\ Part(f, FullOf(kind, j))
         /\ all \/ Dir(StoreOf(j), kind) = FullOf(kind, j) => f = FullOf(kind, j)

LEMMA GainedAdvances ==
  ASSUME Shape, NEW i, NEW u, NEW st \in {"failed", "succeeded"}, Work(i, u, st), NEW j \in Recipes, NEW j0 \in Recipes,
         tasks[i].kind \in Writers, Place(i, j0), tasks[i].status = "running",
         tasks[j0].inputs.recon = tasks[j].inputs.recon, Uniform(tasks[j].inputs.recon), Held(j),
         Gained(StoreOf(j)', tasks[i].kind, j0, st = "succeeded")
  PROVE  Advanced(j) /\ RowOk(i, j)
<1> DEFINE k == tasks[i].kind
           all == st = "succeeded"
           s == StoreOf(j)
           s2 == StoreOf(j)'
<1>1. FeatOf(j0) = FeatOf(j) /\ RawOf(j0) = RawOf(j) /\ VerOf(j0) = VerOf(j) /\ StoreOf(j0) = s
  BY SameRecipe DEF StoreOf
<1>2. PICK f : /\ Filled(StoreOf(j0), s2, DirOf(k), f)
               /\ Part(f, FullOf(k, j0))
               /\ all \/ Dir(StoreOf(j0), k) = FullOf(k, j0) => f = FullOf(k, j0)
  BY Zenon DEF Gained
<1>3. i \in Rows /\ tasks'[i] = u /\ u.status = st
  BY DEF Work, Moved
<1>4. /\ i = j - 3 => k = "extract"
      /\ i = j - 2 => k = "match"
      /\ i = j - 1 => k = "verify"
      /\ i = j => k = "map"
  BY <1>3, RowsApart
<1> HIDE DEF s, s2
<1>5. k # "map" /\ (k = "extract" \/ k = "match" \/ k = "verify")
  BY DEF Writers
<1>6. Part(s.feat, FeatOf(j)) /\ Part(s.raw, RawOf(j)) /\ Part(s.ver, VerOf(j))
  BY DEF Held, s
<1>7. /\ i = j - 2 => s.feat = FeatOf(j)
      /\ i = j - 1 => s.feat = FeatOf(j) /\ s.raw = RawOf(j)
  BY DEF Held, s
<1>8. /\ k = "extract" => /\ s2.feat = f /\ s2.raw = s.raw /\ s2.ver = s.ver /\ Part(f, FeatOf(j))
                          /\ all \/ s.feat = FeatOf(j) => f = FeatOf(j)
      /\ k = "match" => /\ s2.raw = f /\ s2.feat = s.feat /\ s2.ver = s.ver /\ Part(f, RawOf(j))
                        /\ all \/ s.raw = RawOf(j) => f = RawOf(j)
      /\ k = "verify" => /\ s2.ver = f /\ s2.feat = s.feat /\ s2.raw = s.raw /\ Part(f, VerOf(j))
                         /\ all \/ s.ver = VerOf(j) => f = VerOf(j)
  BY <1>1, <1>2, KindFacts DEF Filled, Dir
<1>9. Advanced(j)
  BY <1>5, <1>6, <1>8 DEF Advanced, s, s2
<1>10. RowOk(i, j)
  BY <1>3, <1>4, <1>5, <1>7, <1>8 DEF RowOk, s2
<1> QED BY <1>9, <1>10

LEMMA WriteKeeps ==
  ASSUME StagesInv, NEW i, NEW u, NEW st \in {"failed", "succeeded"}, Work(i, u, st), PendingOk',
         tasks[i].kind \in Writers, tasks[i].status = "running",
         NEW s2, IsStore(s2), Stored(tasks[i].inputs.db, s2),
         \A j \in Recipes : Place(i, j) /\ Uniform(tasks[j].inputs.recon) =>
           Gained(s2, tasks[i].kind, j, st = "succeeded")
  PROVE  StagesInv'
<1>1. Shape /\ StoresOk /\ Agreed /\ i \in Rows /\ ShapeAt(i)
  BY DEF StagesInv, Work, Shape
<1>2. PICK db : db = tasks[i].inputs.db
  OBVIOUS
<1>3. /\ DOMAIN stores' = DOMAIN stores \cup {db} /\ IsFunction(stores')
      /\ stores'[db] = s2 /\ StoreAt(db)' = s2
      /\ \A x : x # db => StoreAt(x)' = StoreAt(x)
      /\ \A x \in DOMAIN stores : x # db => stores'[x] = stores[x]
  <2>1. Stored(db, s2)
    BY <1>2 DEF Stored
  <2> QED BY ONLY <2>1, StoredFacts
<1>4. Recipes' = Recipes /\ \A k \in Rows : Static(tasks[k], tasks'[k])
  BY <1>1, WorkFacts
<1>5. \A j \in Recipes : tasks'[j].inputs.recon = tasks[j].inputs.recon
  BY <1>4 DEF Recipes, Static
<1>6. Rows' = Rows
  BY DEF Work
<1>7. StoresOk'
  <2>1. ASSUME NEW a \in DOMAIN stores'
        PROVE  IsStore(stores'[a]) /\ \E k \in Rows : tasks'[k].kind \in Writers /\ tasks'[k].inputs.db = a
    <3>1. CASE a = db
      BY <1>1, <1>2, <1>3, <1>4, <3>1 DEF Static
    <3>2. CASE a # db
      BY <1>1, <1>3, <1>4, <3>2 DEF StoresOk, Static
    <3> QED BY <3>1, <3>2
  <2> QED BY <1>3, <1>6, <2>1 DEF StoresOk
<1>8. ASSUME NEW j \in Recipes, Uniform(tasks[j].inputs.recon)
      PROVE  Advanced(j) /\ RowOk(i, j)
  <2>1. Held(j)
    BY <1>1, <1>8 DEF Agreed
  <2>2. CASE db # <<tasks[j].inputs.recon, 0>>
    <3>1. StoreOf(j)' = StoreOf(j)
      BY <1>3, <1>5, <2>2 DEF StoreOf
    <3>2. i \notin {j - 3, j - 2, j - 1, j}
      BY <1>1, <1>2, <1>8, <2>2, OwnStore
    <3>3. Advanced(j)
      BY <2>1, <3>1 DEF Advanced, Held
    <3> QED BY <3>2, <3>3 DEF RowOk
  <2>3. CASE db = <<tasks[j].inputs.recon, 0>>
    <3>1. PICK j0 \in Recipes : tasks[j0].inputs.recon = tasks[j].inputs.recon /\ Place(i, j0)
      BY <1>1, <1>2, <1>8, <2>3, WriterPlace DEF Place
    <3>2. Gained(s2, tasks[i].kind, j0, st = "succeeded")
      BY <1>8, <3>1
    <3>3. StoreOf(j)' = s2
      BY <1>3, <1>5, <2>3 DEF StoreOf
    <3>4. Gained(StoreOf(j)', tasks[i].kind, j0, st = "succeeded")
      BY <3>2, <3>3
    <3> QED BY <1>1, <1>8, <2>1, <3>1, <3>4, GainedAdvances
  <2> QED BY <2>2, <2>3
<1>9. u.kind # "map"
  BY DEF Work, Moved, Static, Writers
<1> QED BY <1>7, <1>8, <1>9, WorkKeeps

\* What a task that succeeds keeps.
LEMMA Results ==
  ASSUME NEW t, t.kind = "map"
  PROVE  Result(t) = Model(t.seen, t.inputs.priors, t.inputs.mat, t.spec)
BY DEF Result, reconstruction_from_result, _RECON_STAGES

LEMMA EndKeeps ==
  ASSUME StagesInv, NEW i, NEW u, Work(i, u, "succeeded"), tasks[i].status = "running",
         tasks[i].kind \notin Writers, u.result = Result(tasks[i]), stores' = stores, PendingOk'
  PROVE  StagesInv'
<1>1. Shape /\ Agreed /\ FastHeld /\ i \in Rows /\ ShapeAt(i)
  BY DEF StagesInv, Work, Shape
<1>2. /\ StoresOk'
      /\ \A j \in Recipes : StoreOf(j)' = StoreOf(j) /\ (Uniform(tasks[j].inputs.recon) => Advanced(j))
  BY SameStores
<1>3. /\ u.status = "succeeded" /\ tasks'[i] = u /\ u.kind = tasks[i].kind /\ u.dep = tasks[i].dep
      /\ u.want = tasks[i].want
  BY DEF Work, Moved, Static
<1>4. ASSUME NEW j \in Recipes, Uniform(tasks[j].inputs.recon)
      PROVE  RowOk(i, j)
  <2>1. Held(j) /\ RecipeAt(j)
    BY <1>1, <1>4, RecipeRows DEF Agreed
  <2>2. /\ i = j - 3 => tasks[i].kind = "extract"
        /\ i = j - 2 => tasks[i].kind = "match"
        /\ i = j - 1 => tasks[i].kind = "verify"
        /\ i = j => tasks[i].kind = "map"
    BY <1>1, RowsApart
  <2>3. i # j - 3 /\ i # j - 2 /\ i # j - 1
    BY <2>2 DEF Writers
  <2>4. i = j => u.result = u.want
    <3>1. SUFFICES ASSUME i = j PROVE u.result = u.want
      OBVIOUS
    <3>2. tasks[i].seen = GraphOf(j)
      BY <2>1, <3>1 DEF Held
    <3>3. Result(tasks[i]) = Model(GraphOf(j), tasks[i].inputs.priors, tasks[i].inputs.mat, tasks[i].spec)
      BY <2>2, <3>1, <3>2, Results
    <3> QED BY <1>3, <2>1, <3>1, <3>3 DEF RecipeAt
  <2> QED BY <1>3, <2>3, <2>4 DEF RowOk
<1>5. u.kind = "map" /\ u.dep = 0 => u.result = u.want
  <2>1. SUFFICES ASSUME u.kind = "map", u.dep = 0 PROVE u.result = u.want
    OBVIOUS
  <2>2. Fast(tasks[i]) /\ tasks[i].seen = None
    <3>1. tasks[i].kind = "map" /\ tasks[i].dep = 0 /\ tasks[i].dep # 3
      BY <1>3, <2>1
    <3>2. Fast(tasks[i])
      BY <1>1, <3>1 DEF ShapeAt
    <3>3. tasks[i].seen = None
      BY <1>1, <3>1 DEF FastHeld
    <3> QED BY <3>2, <3>3
  <2> QED BY <1>3, <2>1, <2>2, Results DEF Fast
<1> QED BY <1>2, <1>3, <1>4, <1>5, WorkKeeps

LEMMA FinishKeeps ==
  ASSUME StagesInv, NEW i \in Rows, Finish(i)
  PROVE  StagesInv'
<1>1. Shape /\ PendingOk /\ StoresOk /\ IsTask(tasks[i]) /\ tasks[i].status = "running"
  BY DEF StagesInv, Shape, ShapeAt, Finish
<1>2. PendingOk'
  BY <1>1 DEF Finish, PendingOk
<1>3. PICK u : u = Ended(tasks[i], Result(tasks[i]))
  OBVIOUS
<1>4. Moved(tasks[i], u, "succeeded") /\ u.result = Result(tasks[i])
  BY <1>1, <1>3, TaskExcept
<1>5. tasks' = [tasks EXCEPT ![i] = u]
  BY <1>3 DEF Finish, Ended
<1>6. Work(i, u, "succeeded")
  BY <1>1, <1>4, <1>5, Worked
<1>7. CASE tasks[i].kind \notin Writers
  <2>1. stores' = stores
    BY <1>7 DEF Finish, Writers
  <2> QED BY <1>1, <1>2, <1>4, <1>6, <1>7, <2>1, EndKeeps
<1>8. CASE tasks[i].kind \in Writers
  <2>1. PICK s2 : s2 = Written(tasks[i])
    OBVIOUS
  <2>2. Stored(tasks[i].inputs.db, s2)
    BY <1>8, <2>1 DEF Finish, Writers, Stored
  <2>3. /\ IsStore(s2)
        /\ \A j \in Recipes : Place(i, j) /\ Uniform(tasks[j].inputs.recon) =>
             Filled(StoreOf(j), s2, DirOf(tasks[i].kind), FullOf(tasks[i].kind, j))
    BY <1>1, <1>8, <2>1, WrittenIs
  <2>4. ASSUME NEW j \in Recipes, Place(i, j), Uniform(tasks[j].inputs.recon)
        PROVE  Gained(s2, tasks[i].kind, j, TRUE)
    <3>1. Part(FullOf(tasks[i].kind, j), FullOf(tasks[i].kind, j))
      <4>1. IsFunction(FeatOf(j)) /\ IsFunction(RawOf(j)) /\ IsFunction(VerOf(j))
        BY <1>1, RecipeRows
      <4> QED BY <1>8, <4>1, KindFacts DEF Part, Writers
    <3> QED BY <2>3, <2>4, <3>1, Zenon DEF Gained
  <2>5. \A j \in Recipes : Place(i, j) /\ Uniform(tasks[j].inputs.recon) =>
          Gained(s2, tasks[i].kind, j, "succeeded" = "succeeded")
    BY <2>4
  <2> QED BY <1>1, <1>2, <1>6, <1>8, <2>2, <2>3, <2>5, WriteKeeps
<1> QED BY <1>7, <1>8

LEMMA FailKeeps ==
  ASSUME StagesInv, NEW i \in Rows, Fail(i)
  PROVE  StagesInv'
<1>1. Shape /\ PendingOk /\ StoresOk /\ Agreed /\ IsTask(tasks[i]) /\ tasks[i].status = "running"
  BY DEF StagesInv, Shape, ShapeAt, Fail
<1>2. PendingOk'
  BY <1>1 DEF Fail, PendingOk
<1>3. PICK u : u = Stopped(tasks[i])
  OBVIOUS
<1>4. Moved(tasks[i], u, "failed")
  BY <1>1, <1>3, TaskExcept
<1>5. tasks' = [tasks EXCEPT ![i] = u]
  BY <1>3 DEF Fail, Stopped
<1>6. Work(i, u, "failed")
  BY <1>1, <1>4, <1>5, Worked
<1>7. CASE stores' = stores
  BY <1>2, <1>6, <1>7, RestKeeps
<1>8. CASE stores' # stores
  <2> DEFINE old == StoreAt(tasks[i].inputs.db)
             new == Written(tasks[i])
             kind == tasks[i].kind
  <2>1. kind \in Writers
    BY <1>8 DEF Fail, Writers
  <2>2. PICK dir, some : /\ dir = DirOf(kind) /\ some \in SUBSET DOMAIN new[dir]
                         /\ Stored(tasks[i].inputs.db, [old EXCEPT ![dir] = Over([x \in some |-> new[dir][x]], @)])
    BY <1>8, Zenon DEF Fail, DirOf
  <2> DEFINE part == Over([x \in some |-> new[dir][x]], old[dir])
  <2>3. PICK s2 : s2 = [old EXCEPT ![dir] = part]
    OBVIOUS
  <2>4. Stored(tasks[i].inputs.db, s2)
    BY <2>2, <2>3 DEF Stored
  <2>5. IsStore(old) /\ IsFunction(part)
    BY <1>1, StoreIs, OverFacts
  <2>6. kind = "extract" \/ kind = "match" \/ kind = "verify"
    BY <2>1 DEF Writers
  <2>7. /\ kind = "extract" => dir = "feat"
        /\ kind = "match" => dir = "raw"
        /\ kind = "verify" => dir = "ver"
    BY <2>2, KindFacts
  <2>8. IsStore(s2) /\ Filled(old, s2, dir, part)
    <3> HIDE DEF old, part, kind
    <3> QED BY <2>3, <2>5, <2>6, <2>7, OverInto, Zenon
  <2>9. ASSUME NEW j \in Recipes, Place(i, j), Uniform(tasks[j].inputs.recon)
        PROVE  Gained(s2, kind, j, FALSE)
    <3>1. Filled(StoreOf(j), new, dir, FullOf(kind, j))
      BY <1>1, <2>1, <2>2, <2>9, WrittenIs
    <3>2. Held(j)
      BY <1>1, <2>9 DEF Agreed
    <3>3. old = StoreOf(j)
      <4>1. i \in {j - 3, j - 2, j - 1, j}
        BY <2>1, <2>9 DEF Place, Writers
      <4>2. tasks[i].inputs.db = <<tasks[j].inputs.recon, 0>>
        BY <1>1, <2>9, <4>1, OwnStore
      <4> QED BY <4>2 DEF StoreOf
    <3>4. IsFunction(FeatOf(j)) /\ IsFunction(RawOf(j)) /\ IsFunction(VerOf(j))
      BY <1>1, RecipeRows
    <3> HIDE DEF old, new, kind
    <3>5. /\ new[dir] = FullOf(kind, j) /\ IsFunction(FullOf(kind, j))
          /\ Part(old[dir], FullOf(kind, j)) /\ Dir(old, kind) = old[dir]
      BY <2>6, <2>7, <3>1, <3>2, <3>3, <3>4, KindFacts DEF Filled, Held, Dir
    <3>6. Part(part, FullOf(kind, j)) /\ (old[dir] = FullOf(kind, j) => part = FullOf(kind, j))
      <4> DEFINE g == FullOf(kind, j)
                 o == old[dir]
      <4>1. part = Over([x \in some |-> g[x]], o) /\ some \in SUBSET DOMAIN g
        BY <2>2, <3>5 DEF new, kind
      <4>2. Part(o, g) /\ IsFunction(g)
        BY <3>5
      <4> HIDE DEF g, o, part
      <4>3. Part(part, g) /\ (o = g => part = g)
        BY <4>1, <4>2, PartSome
      <4> QED BY <4>3 DEF g, o
    <3> HIDE DEF part
    <3>7. Filled(StoreOf(j), s2, DirOf(kind), part)
      BY <2>2, <2>8, <3>3 DEF kind
    <3> QED BY <3>3, <3>5, <3>6, <3>7, Zenon DEF Gained
  <2>10. \A j \in Recipes : Place(i, j) /\ Uniform(tasks[j].inputs.recon) =>
           Gained(s2, tasks[i].kind, j, "failed" = "succeeded")
    BY <2>9
  <2> QED BY <1>1, <1>2, <1>6, <2>1, <2>4, <2>8, <2>10, WriteKeeps
<1> QED BY <1>7, <1>8

-----------------------------------------------------------------------------
(* The requests. *)

IsInputs(x) == IsFunction(x) /\ DOMAIN x = InputFields

LEMMA NodeIs ==
  ASSUME NEW kind, NEW taken, NEW spec, NEW dep, NEW want, IsInputs(taken)
  PROVE  LET n == _stage_node(kind, taken, spec, dep, want)
         IN  /\ IsNode(n) /\ n.kind = kind /\ n.inputs = taken /\ n.spec = spec /\ n.dep = dep /\ n.want = want
             /\ pending # None => n.read = pending.hash
<1> DEFINE n == _stage_node(kind, taken, spec, dep, want)
<1>1. /\ n.kind = kind /\ n.inputs = taken /\ n.spec = spec /\ n.dep = dep /\ n.want = want
      /\ n.status = "pending" /\ n.seen = None /\ (pending # None => n.read = pending.hash)
  BY DEF _stage_node
<1>2. DOMAIN n = Fields /\ IsFunction(n)
  BY DEF _stage_node, Fields, IsFunction
<1> HIDE DEF n
<1>3. IsNode(n)
  BY <1>1, <1>2 DEF IsNode, IsTask, IsInputs
<1> QED BY <1>1, <1>3 DEF n

LEMMA InputsAre ==
  /\ IsInputs(NoInputs)
  /\ \A x, f, v : IsInputs(x) => IsInputs([x EXCEPT ![f] = v])
<1>1. IsInputs(NoInputs)
  BY DEF IsInputs, InputFields, NoInputs, IsFunction
<1>2. \A x, f, v : IsInputs(x) => IsInputs([x EXCEPT ![f] = v])
  BY DEF IsInputs, IsFunction
<1> QED BY <1>1, <1>2

\* The inputs the requests build.
LEMMA NamedInputs ==
  ASSUME NEW r, NEW x, NEW y, NEW z, NEW w
  PROVE  /\ IsInputs([NoInputs EXCEPT !.recon = r]) /\ IsInputs([NoInputs EXCEPT !.extra = r])
         /\ IsInputs([NoInputs EXCEPT !.mat = r])
         /\ IsInputs([NoInputs EXCEPT !.recon = r, !.extra = x])
         /\ IsInputs([NoInputs EXCEPT !.recon = r, !.db = x])
         /\ IsInputs([NoInputs EXCEPT !.mat = r, !.hash = x])
         /\ IsInputs([NoInputs EXCEPT !.recon = r, !.db = x, !.extra = y])
         /\ IsInputs([NoInputs EXCEPT !.recon = r, !.hash = x, !.mat = y, !.db = z, !.extra = w])
         /\ IsInputs([NoInputs EXCEPT !.recon = r, !.hash = x, !.extra = y, !.db = z])
         /\ IsInputs([NoInputs EXCEPT !.recon = r, !.mat = x, !.db = y, !.priors = z, !.extra = w])
<1>1. /\ IsInputs([NoInputs EXCEPT !.recon = r]) /\ IsInputs([NoInputs EXCEPT !.extra = r])
      /\ IsInputs([NoInputs EXCEPT !.mat = r])
  BY InputsAre, Zenon
<1>2. IsInputs([NoInputs EXCEPT !.recon = r, !.extra = x])
  BY DEF IsInputs, InputFields, NoInputs, IsFunction
<1>3. IsInputs([NoInputs EXCEPT !.recon = r, !.db = x])
  BY DEF IsInputs, InputFields, NoInputs, IsFunction
<1>4. IsInputs([NoInputs EXCEPT !.mat = r, !.hash = x])
  BY DEF IsInputs, InputFields, NoInputs, IsFunction
<1>5. IsInputs([NoInputs EXCEPT !.recon = r, !.hash = x, !.mat = y, !.db = z, !.extra = w])
  BY DEF IsInputs, InputFields, NoInputs, IsFunction
<1>6. IsInputs([NoInputs EXCEPT !.recon = r, !.hash = x, !.extra = y, !.db = z])
  BY DEF IsInputs, InputFields, NoInputs, IsFunction
<1>7. IsInputs([NoInputs EXCEPT !.recon = r, !.mat = x, !.db = y, !.priors = z, !.extra = w])
  BY DEF IsInputs, InputFields, NoInputs, IsFunction
<1>8. IsInputs([NoInputs EXCEPT !.recon = r, !.db = x, !.extra = y])
  BY DEF IsInputs, InputFields, NoInputs, IsFunction
<1> QED BY <1>1, <1>2, <1>3, <1>4, <1>5, <1>6, <1>7, <1>8

\* Nothing that the invariant reads of the rows and the stores changes.
LEMMA QuietKeeps ==
  ASSUME StagesInv, tasks' = tasks, stores' = stores, PendingOk'
  PROVE  StagesInv'
<1>1. Shape /\ StoresOk /\ Agreed /\ FastHeld /\ Rows' = Rows /\ Recipes' = Recipes
  BY DEF StagesInv, Rows, Recipes
<1>2. Longer /\ Len(tasks') \in Nat
  BY <1>1 DEF Longer, Shape, Static
<1>3. Shape'
  <2>1. ASSUME NEW i \in Rows PROVE ShapeAt(i)'
    <3>1. IsTask(tasks'[i])
      BY <1>1 DEF Shape, ShapeAt
    <3> QED BY <1>1, <1>2, <3>1, ShapeStays
  <2>2. tasks' \in Seq({tasks'[i] : i \in Rows'})
    BY <1>1 DEF Shape
  <2> QED BY <1>1, <2>1, <2>2 DEF Shape
<1>4. StoresOk'
  BY <1>1 DEF StoresOk
<1>5. FastHeld'
  BY <1>1 DEF FastHeld
<1>6. ASSUME NEW j \in Recipes, Uniform(tasks[j].inputs.recon)'
      PROVE  Held(j)'
  <2>1. PICK r : r = tasks[j].inputs.recon
    OBVIOUS
  <2>2. Uniform(r)'
    BY <1>6, <2>1 DEF Uniform, Agreeing, Undisturbed, MapsOf, reconstruction_database_path
  <2>3. Held(j)
    BY <1>1, <1>2, <2>1, <2>2, UniformBefore DEF Agreed
  <2>4. StoreOf(j)' = StoreOf(j)
    BY DEF StoreOf, StoreAt
  <2> QED BY <1>1, <1>2, <2>3, <2>4, HeldStays
<1>7. Agreed'
  BY <1>1, <1>6 DEF Agreed
<1> QED BY <1>3, <1>4, <1>5, <1>7 DEF StagesInv

\* One node of a stage that writes no store and makes no model.
Aside(nodes) == \E n : nodes = <<n>> /\ IsNode(n) /\ n.kind \notin Writers \cup {"map"} /\ n.dep = 0

LEMMA AsideNode ==
  ASSUME NEW kind, kind \notin Writers \cup {"map"}, NEW taken, IsInputs(taken), NEW spec, NEW want
  PROVE  Aside(<<_stage_node(kind, taken, spec, 0, want)>>)
BY NodeIs DEF Aside

LEMMA AsideSubmit ==
  ASSUME StagesInv, NEW nodes, Aside(nodes), submit_job_dag(nodes), stores' = stores, PendingOk'
  PROVE  StagesInv'
<1>1. PICK n : nodes = <<n>> /\ IsNode(n) /\ n.kind \notin Writers \cup {"map"} /\ n.dep = 0
  BY DEF Aside
<1>2. submit_job_dag(<<n>>)
  BY <1>1
<1>3. Shape' /\ StoresOk' /\ Agreed' /\ FastHeld'
  BY <1>1, <1>2, AsideKeeps
<1> QED BY <1>3 DEF StagesInv

LEMMA SingleKeeps ==
  ASSUME StagesInv, NEW op, NEW nodes, Aside(nodes), _submit_single_stage(op, nodes)
  PROVE  StagesInv'
<1>1. submit_job_dag(nodes) /\ stores' = stores /\ PendingOk'
  BY DEF _submit_single_stage, StagesInv, PendingOk
<1> QED BY <1>1, AsideSubmit

LEMMA ReconStageKeeps ==
  ASSUME StagesInv, NEW op \in DOMAIN _RECON_STAGES, NEW r, _submit_recon_stage(op, r)
  PROVE  StagesInv'
<1> DEFINE nodes == <<_stage_node(op, _recon_stage_base(op, r), apply_provider_resolution("other", op), 0,
                        recons[r].sparse)>>
<1>1. IsInputs(_recon_stage_base(op, r))
  BY NamedInputs, Zenon DEF _recon_stage_base
<1>2. op \notin Writers \cup {"map"}
  BY DEF _RECON_STAGES, Writers
<1>3. Aside(nodes)
  BY <1>1, <1>2, AsideNode
<1>4. _submit_single_stage(op, nodes)
  BY Zenon DEF _submit_recon_stage
<1> HIDE DEF nodes
<1> QED BY <1>3, <1>4, SingleKeeps

LEMMA ReconOpsKeep ==
  ASSUME StagesInv, NEW r,
         \/ bundle_adjust(r) \/ triangulate(r) \/ pose_graph_optimize(r)
         \/ export(r) \/ relocalize(r) \/ undistort(r)
  PROVE  StagesInv'
<1>1. {"bundle_adjust", "triangulate", "pose_graph_optimize", "export", "relocalize", "undistort"}
        \subseteq DOMAIN _RECON_STAGES
  BY DEF _RECON_STAGES
<1>2. PICK op \in DOMAIN _RECON_STAGES : _submit_recon_stage(op, r)
  BY <1>1 DEF bundle_adjust, triangulate, pose_graph_optimize, export, relocalize, undistort
<1> QED BY <1>2, ReconStageKeeps

LEMMA ModelOpsKeep ==
  ASSUME StagesInv, NEW r, NEW q,
         localize(r) \/ georegister(r) \/ to_cubemap(r) \/ merge_recons_endpoint(r, q)
  PROVE  StagesInv'
<1>1. Aside(submit_localize(r))
  BY NamedInputs, AsideNode, Zenon DEF submit_localize, Writers
<1>2. Aside(submit_georegister(r))
  BY NamedInputs, AsideNode, Zenon DEF submit_georegister, Writers
<1>3. Aside(submit_to_cubemap(r))
  BY NamedInputs, AsideNode, Zenon DEF submit_to_cubemap, Writers
<1>4. Aside(submit_merge_recons(r, q))
  BY NamedInputs, AsideNode, Zenon DEF submit_merge_recons, Writers
<1>5. PICK op, nodes : Aside(nodes) /\ _submit_single_stage(op, nodes)
  BY <1>1, <1>2, <1>3, <1>4 DEF localize, georegister, to_cubemap, merge_recons_endpoint
<1> QED BY <1>5, SingleKeeps

LEMMA DatasetOpsKeep ==
  ASSUME StagesInv,
         project_images \/ render_cubemap \/ build_vlad \/ from_video \/ from_archive \/ import_kapture
  PROVE  StagesInv'
<1>1. \A op : Aside(submit_project_images(op))
  BY NamedInputs, AsideNode, Zenon DEF submit_project_images, Writers
<1>2. Aside(submit_vlad_index)
  BY NamedInputs, AsideNode, Zenon DEF submit_vlad_index, Writers
<1>3. Aside(submit_video_frames)
  BY NamedInputs, AsideNode, Zenon DEF submit_video_frames, Writers
<1>4. Aside(submit_dataset_from_archive)
  BY NamedInputs, AsideNode, Zenon DEF submit_dataset_from_archive, Writers
<1>5. Aside(submit_kapture_import)
  BY NamedInputs, AsideNode, Zenon DEF submit_kapture_import, Writers
<1>6. PICK op, nodes : Aside(nodes) /\ _submit_single_stage(op, nodes)
  BY <1>1, <1>2, <1>3, <1>4, <1>5 DEF project_images, render_cubemap, build_vlad, from_video, from_archive, import_kapture
<1> QED BY <1>6, SingleKeeps

LEMMA DatabaseOpsKeep ==
  ASSUME StagesInv, build_vocab_tree \/ configure_rig \/ estimate_two_view
  PROVE  StagesInv'
<1>1. PICK op \in _DATASET_DB_STAGES : _submit_dataset_db_stage(op)
  BY DEF build_vocab_tree, configure_rig, estimate_two_view, _submit_dataset_db_stage
<1> DEFINE r == _resolve_database_path(images)
           nodes == <<_stage_node(op, [NoInputs EXCEPT !.recon = r, !.db = reconstruction_database_path(r)],
                        apply_provider_resolution("other", op), 0, None)>>
<1>2. submit_job_dag(nodes) /\ stores' = stores /\ provider' = provider /\ pending' = pending
  BY <1>1, Zenon DEF _submit_dataset_db_stage
<1>3. op \notin Writers \cup {"map"}
  BY <1>1 DEF _DATASET_DB_STAGES, Writers
<1>4. Aside(nodes)
  BY <1>3, NamedInputs, AsideNode, Zenon
<1>5. PendingOk'
  BY <1>2 DEF StagesInv, PendingOk
<1> HIDE DEF nodes
<1> QED BY <1>2, <1>4, <1>5, AsideSubmit

LEMMA Answered ==
  ASSUME StagesInv, NEW op, NEW valid \in BOOLEAN, NEW nodes, Respond(op, valid, nodes)
  PROVE  /\ pending # None /\ pending.body \in Bodies /\ pending.body.op = op
         /\ PendingOk' /\ stores' = stores
         /\ (valid /\ submit_job_dag(nodes)) \/ tasks' = tasks
BY DEF Respond, StagesInv, PendingOk

\* One node of a stage that writes a store, of a reconstruction that no recipe belongs to.
Apart(nodes) ==
  \E n : /\ nodes = <<n>> /\ IsNode(n) /\ n.kind \in Writers /\ n.dep = 0
         /\ Foreign(n.inputs.recon)

LEMMA ApartKeeps ==
  ASSUME StagesInv, NEW op, NEW valid \in BOOLEAN, NEW nodes, Respond(op, valid, nodes), Apart(nodes)
  PROVE  StagesInv'
<1>1. PendingOk' /\ stores' = stores /\ (submit_job_dag(nodes) \/ tasks' = tasks)
  BY Answered
<1>2. CASE tasks' = tasks
  BY <1>1, <1>2, QuietKeeps
<1>3. CASE submit_job_dag(nodes)
  <2>1. PICK n : /\ nodes = <<n>> /\ IsNode(n) /\ n.kind \in Writers /\ n.dep = 0
                 /\ Foreign(n.inputs.recon)
    BY DEF Apart
  <2>2. submit_job_dag(<<n>>)
    BY <1>3, <2>1
  <2>3. Shape' /\ StoresOk' /\ Agreed' /\ FastHeld'
    BY <1>1, <2>1, <2>2, ForeignKeeps
  <2> QED BY <1>1, <2>3 DEF StagesInv
<1> QED BY <1>1, <1>2, <1>3

LEMMA FeaturesKeeps ==
  ASSUME StagesInv, features
  PROVE  StagesInv'
<1> DEFINE b == pending.body
           hash == pending.hash
           spec == apply_provider_resolution("features", b.features)
           r == ensure_reconstruction(hash, spec)
           db == reconstruction_database_path(r)
           taken == [NoInputs EXCEPT !.recon = r, !.hash = hash, !.mat = images, !.db = db,
                                     !.extra = Attached(pending.art)]
           n == _stage_node("extract", taken, spec, 0, FeatureFiles(images, spec))
           nodes == FeaturesNodes(hash, b, pending.art)
           valid == derive_materialization
<1>1. Respond("features", valid, nodes) /\ valid \in BOOLEAN
  BY DEF features, derive_materialization
<1>2. nodes = <<n>>
  BY Zenon DEF FeaturesNodes
<1> HIDE DEF nodes, valid
<1>3. b \in Bodies /\ b.op = "features"
  BY <1>1, Answered
<1>4. r.spec = spec /\ spec.of = b.features
  BY DEF ensure_reconstruction, apply_provider_resolution
<1>5. b.features \in FeatureSettings
  BY <1>3 DEF FeatureSettings
<1> HIDE DEF spec, r, db
<1>6. Foreign(r)
  BY <1>4, <1>5 DEF Foreign
<1>7. taken.recon = r
  BY DEF NoInputs
<1>8. IsInputs(taken)
  BY NamedInputs, Zenon
<1> HIDE DEF taken
<1>9. IsNode(n) /\ n.kind = "extract" /\ n.inputs = taken /\ n.dep = 0
  BY <1>8, NodeIs
<1> HIDE DEF n
<1>10. Apart(nodes)
  BY <1>2, <1>6, <1>7, <1>9 DEF Apart, Writers
<1> QED BY <1>1, <1>10, ApartKeeps

LEMMA UnnamedApart ==
  ASSUME NEW hash, NEW art, NEW role
  PROVE  LET x == UnnamedInputs(hash, art, role)
         IN  IsInputs(x) /\ Foreign(x.recon)
<1> DEFINE r == _resolve_database_path(hash)
           db == database_path_from_input_artifacts(r, art, role)
           x == [NoInputs EXCEPT !.recon = r, !.hash = hash, !.extra = Attached(art), !.db = db]
<1>1. UnnamedInputs(hash, art, role) = x
  BY Zenon DEF UnnamedInputs
<1>2. r.spec.provider = None
  BY DEF _resolve_database_path, ensure_reconstruction, EmptySpec
<1> HIDE DEF r, db
<1>3. Foreign(r)
  BY <1>2, SettingsAssumption DEF Foreign
<1>4. x.recon = r
  BY DEF NoInputs
<1>5. IsInputs(x)
  BY NamedInputs, Zenon
<1> HIDE DEF x
<1> QED BY <1>1, <1>3, <1>4, <1>5

LEMMA MatchVerifyKeeps ==
  ASSUME StagesInv, matches \/ verify
  PROVE  StagesInv'
<1> DEFINE b == pending.body
           hash == pending.hash
           art == pending.art
           x == UnnamedInputs(hash, art, "features")
           y == UnnamedInputs(hash, art, "matches")
<1>1. Apart(MatchesNodes(hash, b, art)) /\ Apart(VerifyNodes(hash, b, art))
  <2>1. IsInputs(x) /\ Foreign(x.recon) /\ IsInputs(y) /\ Foreign(y.recon)
    BY UnnamedApart
  <2> DEFINE ms == MatchSpec(b, FALSE)
             n == _stage_node("match", x, ms, 0, None)
             m == _stage_node("verify", y, apply_provider_resolution("verify", b.verify), 0, None)
  <2>2. MatchesNodes(hash, b, art) = <<n>> /\ VerifyNodes(hash, b, art) = <<m>>
    BY DEF MatchesNodes, VerifyNodes
  <2> HIDE DEF x, y, ms
  <2>3. IsNode(n) /\ n.kind = "match" /\ n.inputs = x /\ n.dep = 0
    BY <2>1, NodeIs
  <2>4. IsNode(m) /\ m.kind = "verify" /\ m.inputs = y /\ m.dep = 0
    BY <2>1, NodeIs
  <2> HIDE DEF n, m
  <2>5. Apart(<<n>>)
    BY <2>1, <2>3 DEF Apart, Writers
  <2>6. Apart(<<m>>)
    BY <2>1, <2>4 DEF Apart, Writers
  <2> QED BY <2>2, <2>5, <2>6
<1>2. CASE matches
  <2> DEFINE valid == _validate_explicit_pairs(b)
             nodes == MatchesNodes(hash, b, art)
  <2>1. Respond("matches", valid, nodes) /\ valid \in BOOLEAN
    <3>1. valid \in BOOLEAN
      BY Zenon DEF _validate_explicit_pairs
    <3>2. Respond("matches", valid, nodes)
      BY <1>2 DEF matches
    <3> QED BY <3>1, <3>2
  <2> HIDE DEF valid, nodes
  <2>2. Apart(nodes)
    BY <1>1 DEF nodes
  <2> QED BY <2>1, <2>2, ApartKeeps
<1>3. CASE verify
  <2> DEFINE nodes == VerifyNodes(hash, b, art)
  <2>1. Respond("verify", TRUE, nodes) /\ TRUE \in BOOLEAN
    BY <1>3 DEF verify
  <2> HIDE DEF nodes
  <2>2. Apart(nodes)
    BY <1>1 DEF nodes
  <2> QED BY <2>1, <2>2, ApartKeeps
<1> QED BY <1>2, <1>3

LEMMA FeedForwardKeeps ==
  ASSUME StagesInv, run_feed_forward
  PROVE  StagesInv'
<1> DEFINE b == pending.body
           hash == pending.hash
           ms == apply_provider_resolution("map", b.map)
           r == ensure_reconstruction(hash, ms)
           taken == map_inputs(r, images, reconstruction_database_path(r), pending.art)
           n == _stage_node("map", taken, ms, 0, Model(None, priors, images, ms))
           nodes == build_feed_forward_dag(hash, b, pending.art)
           valid == derive_materialization
<1>1. Respond("feed_forward", valid, nodes) /\ valid \in BOOLEAN
  BY DEF run_feed_forward, derive_materialization
<1>2. nodes = <<n>>
  BY Zenon DEF build_feed_forward_dag
<1> HIDE DEF nodes, valid
<1>3. /\ pending # None /\ b \in Bodies /\ b.op = "feed_forward"
      /\ PendingOk' /\ stores' = stores /\ (submit_job_dag(nodes) \/ tasks' = tasks)
  BY <1>1, Answered
<1>4. r.of = hash /\ ms.of = b.map
  BY DEF ensure_reconstruction, apply_provider_resolution
<1>5. b.map \in FastSettings
  BY <1>3 DEF FastSettings
<1> HIDE DEF ms, r
<1>6. IsInputs(taken)
  BY NamedInputs, Zenon DEF map_inputs
<1>7. taken.recon = r /\ taken.mat = images /\ taken.priors = priors
  BY DEF map_inputs, NoInputs
<1> HIDE DEF taken
<1>8. /\ IsNode(n) /\ n.kind = "map" /\ n.inputs = taken /\ n.spec = ms /\ n.dep = 0
      /\ n.want = Model(None, priors, images, ms) /\ n.read = hash
  BY <1>3, <1>6, NodeIs
<1> HIDE DEF n
<1>9. Fast(n)
  BY <1>4, <1>5, <1>7, <1>8 DEF Fast
<1>10. CASE tasks' = tasks
  BY <1>3, <1>10, QuietKeeps
<1>11. CASE submit_job_dag(nodes)
  <2>1. submit_job_dag(<<n>>)
    BY <1>2, <1>11
  <2>2. Shape' /\ StoresOk' /\ Agreed' /\ FastHeld'
    BY <1>3, <1>8, <1>9, <2>1, FastKeeps
  <2> QED BY <1>3, <2>2 DEF StagesInv
<1> QED BY <1>3, <1>10, <1>11

LEMMA RecipeRequestKeeps ==
  ASSUME StagesInv, run_recipe \/ run_legacy_sfm
  PROVE  StagesInv'
<1> DEFINE body == pending.body
           art == pending.art
           hash == pending.hash
           fs == apply_provider_resolution("features", body.features)
           vs == apply_provider_resolution("verify", body.verify)
           gs == apply_provider_resolution("map", body.map)
           matcher == apply_provider_resolution("matcher", body.matcher)
           ms == MatchSpec(body, TRUE)
           r == ensure_reconstruction(hash, gs)
           common == [NoInputs EXCEPT !.recon = r, !.db = reconstruction_database_path(r), !.extra = Attached(art)]
           first == [common EXCEPT !.mat = images]
           second == [common EXCEPT !.db = database_path_from_input_artifacts(r, art, "features")]
           third == [common EXCEPT !.db = database_path_from_input_artifacts(r, art, "matches")]
           last == map_inputs(r, images, database_path_from_input_artifacts(r, art, "verified_matches"), art)
           graph == Graph(images, fs, body.pairs, matcher, vs)
           ff == FeatureFiles(images, fs)
           want == Model(graph, priors, images, gs)
           a == _stage_node("extract", first, fs, 0, ff)
           b == _stage_node("match", second, ms, 1, None)
           c == _stage_node("verify", third, vs, 2, None)
           d == _stage_node("map", last, gs, 3, want)
           nodes == build_recipe_dag(hash, body, art)
           valid == derive_materialization
<1>1. Respond("incremental", valid, nodes) /\ valid \in BOOLEAN
  BY DEF run_recipe, run_legacy_sfm, derive_materialization
<1>2. nodes = <<a, b, c, d>>
  BY Zenon DEF build_recipe_dag
<1> HIDE DEF nodes
<1>3. /\ pending # None /\ body \in Bodies /\ body.op = "incremental"
      /\ PendingOk' /\ stores' = stores /\ ((valid /\ submit_job_dag(nodes)) \/ tasks' = tasks)
  BY <1>1, Answered
<1>4. r.of = hash /\ r.spec = gs /\ gs.of = body.map
  BY DEF ensure_reconstruction, apply_provider_resolution
<1>5. gs.provider \in Providers
  BY DEF apply_provider_resolution, StagesInv, PendingOk, Parts
<1>6. body.map \in RecipeSettings
  BY <1>3 DEF RecipeSettings
<1>7. ms.pairs.of = body.pairs /\ ms.matcher = matcher
  BY DEF MatchSpec, apply_provider_resolution
<1> HIDE DEF r, fs, vs, gs, matcher, ms
<1>8. IsInputs(common) /\ common.recon = r
  <2>1. IsInputs(common)
    BY NamedInputs, Zenon
  <2>2. common.recon = r
    BY DEF NoInputs
  <2> QED BY <2>1, <2>2
<1>9. IsInputs(last) /\ last.recon = r /\ last.mat = images /\ last.priors = priors
  <2>1. IsInputs(last)
    BY NamedInputs, Zenon DEF map_inputs
  <2>2. last.recon = r /\ last.mat = images /\ last.priors = priors
    BY DEF map_inputs, NoInputs
  <2> QED BY <2>1, <2>2
<1>10. /\ IsInputs(first) /\ first.recon = r /\ first.mat = images
       /\ IsInputs(second) /\ second.recon = r /\ IsInputs(third) /\ third.recon = r
  <2>1. DOMAIN common = InputFields /\ IsFunction(common)
    BY <1>8 DEF IsInputs
  <2>2. {"recon", "db", "mat"} \subseteq InputFields
    BY DEF InputFields, NoInputs
  <2> HIDE DEF common
  <2>3. /\ first.recon = common.recon /\ first.mat = images
        /\ second.recon = common.recon /\ third.recon = common.recon
    BY <2>1, <2>2
  <2>4. IsInputs(first) /\ IsInputs(second) /\ IsInputs(third)
    BY <1>8, InputsAre, Zenon
  <2> QED BY <1>8, <2>3, <2>4
<1> HIDE DEF common, first, second, third, last, ff, want
<1>11. IsNode(a) /\ a.kind = "extract" /\ a.inputs = first /\ a.spec = fs /\ a.dep = 0
  BY <1>10, NodeIs
<1>12. IsNode(b) /\ b.kind = "match" /\ b.inputs = second /\ b.spec = ms /\ b.dep = 1
  BY <1>10, NodeIs
<1>13. IsNode(c) /\ c.kind = "verify" /\ c.inputs = third /\ c.spec = vs /\ c.dep = 2
  BY <1>10, NodeIs
<1>14. IsNode(d) /\ d.kind = "map" /\ d.inputs = last /\ d.spec = gs /\ d.dep = 3 /\ d.want = want /\ d.read = hash
  BY <1>3, <1>9, NodeIs
<1> HIDE DEF a, b, c, d
<1>15. CASE tasks' = tasks
  BY <1>3, <1>15, QuietKeeps
<1>16. CASE valid /\ submit_job_dag(nodes)
  <2>1. images # {}
    BY <1>16 DEF derive_materialization
  <2>2. FeatBy(a, d) = ff
    BY <1>9, <1>11, <1>14 DEF FeatBy, ff
  <2>3. RawBy(a, b, d) = [p \in Selected(ff, body.pairs) |-> match_pair(ff, p, matcher)]
    BY <1>7, <1>12, <2>2 DEF RawBy
  <2>4. VerBy(a, b, c, d) = [p \in DOMAIN RawBy(a, b, d) |-> [of |-> RawBy(a, b, d)[p], spec |-> vs]]
    BY <1>13 DEF VerBy
  <2>5. graph = [feat |-> ff, pairs |-> VerBy(a, b, c, d)]
    <3> DEFINE raw == [p \in Selected(ff, body.pairs) |-> match_pair(ff, p, matcher)]
    <3>1. graph = GraphBy(images, fs, body.pairs, matcher, vs)
      BY <2>1, GraphFacts
    <3>2. GraphBy(images, fs, body.pairs, matcher, vs)
            = [feat |-> ff, pairs |-> [p \in DOMAIN raw |-> [of |-> raw[p], spec |-> vs]]]
      BY Zenon DEF GraphBy, ff
    <3>3. RawBy(a, b, d) = raw
      BY <2>3
    <3> HIDE DEF graph, raw
    <3> QED BY <2>4, <3>1, <3>2, <3>3
  <2> HIDE DEF graph
  <2>6. RecipeNodes(a, b, c, d)
    <3>1. d.want = Model([feat |-> FeatBy(a, d), pairs |-> VerBy(a, b, c, d)], d.inputs.priors, d.inputs.mat, d.spec)
      BY <1>9, <1>14, <2>2, <2>5 DEF want
    <3> QED BY <1>4, <1>5, <1>6, <1>9, <1>10, <1>11, <1>12, <1>13, <1>14, <2>1, <3>1 DEF RecipeNodes
  <2>7. submit_job_dag(<<a, b, c, d>>)
    BY <1>2, <1>16
  <2>8. Shape' /\ StoresOk' /\ Agreed' /\ FastHeld'
    BY <1>3, <1>11, <1>12, <1>13, <1>14, <2>6, <2>7, RecipeKeeps
  <2> QED BY <1>3, <2>8 DEF StagesInv
<1> QED BY <1>3, <1>15, <1>16

-----------------------------------------------------------------------------
(* The invariant holds. *)

LEMMA GetDatasetKeeps ==
  ASSUME StagesInv, NEW b \in Bodies, get_dataset(b)
  PROVE  StagesInv'
<1>1. Shape /\ PendingOk
  BY DEF StagesInv
<1>2. tasks' = tasks /\ stores' = stores /\ provider' = provider
  BY DEF get_dataset
<1>3. pending' # None => pending'.body = b
  BY DEF get_dataset
<1>4. PendingOk'
  BY <1>1, <1>2, <1>3 DEF PendingOk
<1> QED BY <1>2, <1>4, QuietKeeps

LEMMA ChangeKeeps ==
  ASSUME StagesInv, Edit \/ Switch
  PROVE  StagesInv'
<1>1. tasks' = tasks /\ stores' = stores /\ pending' = pending
  BY DEF Edit, Switch
<1>2. provider \in [Parts -> Providers]
  BY DEF StagesInv, PendingOk
<1>3. provider' \in [Parts -> Providers]
  BY <1>2 DEF Edit, Switch
<1>4. PendingOk'
  BY <1>1, <1>3 DEF StagesInv, PendingOk
<1> QED BY <1>1, <1>4, QuietKeeps

LEMMA StagesStart ==
  ASSUME Init
  PROVE  StagesInv
<1>1. tasks = <<>> /\ Len(tasks) = 0 /\ Rows = {} /\ Recipes = {}
  BY DEF Init, Rows, Recipes
<1>2. Shape /\ Agreed /\ FastHeld
  BY <1>1 DEF Shape, Agreed, FastHeld
<1>3. DOMAIN stores = {} /\ IsFunction(stores)
  BY EmptyPart DEF Init, NoFiles
<1>4. StoresOk
  BY <1>3 DEF StoresOk
<1>5. PendingOk
  BY DEF Init, PendingOk
<1> QED BY <1>2, <1>4, <1>5 DEF StagesInv

LEMMA StagesStep ==
  ASSUME StagesInv, [Next]_vars
  PROVE  StagesInv'
<1>1. CASE Submit
  <2>1. ASSUME NEW b \in Bodies, get_dataset(b) PROVE StagesInv'
    BY <2>1, GetDatasetKeeps
  <2>2. CASE features
    BY <2>2, FeaturesKeeps
  <2>3. CASE matches \/ verify
    BY <2>3, MatchVerifyKeeps
  <2>4. CASE run_recipe \/ run_legacy_sfm
    BY <2>4, RecipeRequestKeeps
  <2>5. CASE run_feed_forward
    BY <2>5, FeedForwardKeeps
  <2>6. ASSUME NEW r, \/ bundle_adjust(r) \/ triangulate(r) \/ pose_graph_optimize(r)
                      \/ export(r) \/ relocalize(r) \/ undistort(r)
        PROVE  StagesInv'
    BY <2>6, ReconOpsKeep
  <2>7. ASSUME NEW r, NEW q, localize(r) \/ georegister(r) \/ to_cubemap(r) \/ merge_recons_endpoint(r, q)
        PROVE  StagesInv'
    BY <2>7, ModelOpsKeep
  <2>8. CASE build_vocab_tree \/ configure_rig \/ estimate_two_view
    BY <2>8, DatabaseOpsKeep
  <2>9. CASE project_images \/ render_cubemap \/ build_vlad \/ from_video \/ from_archive \/ import_kapture
    BY <2>9, DatasetOpsKeep
  <2> QED BY <1>1, <2>1, <2>2, <2>3, <2>4, <2>5, <2>6, <2>7, <2>8, <2>9 DEF Submit
<1>2. ASSUME NEW i \in 1..Len(tasks), Start(i) \/ Finish(i) \/ Fail(i) \/ Resume(i)
      PROVE  StagesInv'
  BY <1>2, StartKeeps, FinishKeeps, FailKeeps, ResumeKeeps DEF Rows
<1>3. CASE Edit \/ Switch
  BY <1>3, ChangeKeeps
<1>4. CASE UNCHANGED vars
  <2>1. tasks' = tasks /\ stores' = stores /\ PendingOk'
    BY <1>4 DEF vars, StagesInv, PendingOk
  <2> QED BY <2>1, QuietKeeps
<1> QED BY <1>1, <1>2, <1>3, <1>4 DEF Next

\* The stages, the store they share and the cache keep StagesInv.
THEOREM StagesInvariant == Spec => []StagesInv
<1>1. Init => StagesInv
  BY StagesStart
<1>2. StagesInv /\ [Next]_vars => StagesInv'
  BY StagesStep
<1> QED BY <1>1, <1>2, PTL DEF Spec

LEMMA AgreedIsSound ==
  ASSUME StagesInv
  PROVE  UniformSound
<1>1. SUFFICES ASSUME NEW i \in Done, tasks[i].kind = "map", Uniform(tasks[i].inputs.recon)
               PROVE  tasks[i].result = tasks[i].want
  BY DEF UniformSound
<1>2. i \in Rows /\ tasks[i].status = "succeeded" /\ ShapeAt(i)
  BY DEF Done, Rows, StagesInv, Shape
<1>3. CASE tasks[i].dep = 3
  <2>1. i \in Recipes
    BY <1>2, <1>3 DEF Recipes
  <2>2. Held(i)
    BY <1>1, <2>1 DEF StagesInv, Agreed
  <2> QED BY <1>2, <2>2 DEF Held
<1>4. CASE tasks[i].dep # 3
  <2>1. tasks[i].dep = 0
    BY <1>1, <1>2, <1>4 DEF ShapeAt
  <2> QED BY <1>1, <1>2, <2>1 DEF StagesInv, FastHeld
<1> QED BY <1>3, <1>4

\* Where the recipes of a reconstruction agree up to mapping, every model a map task
\* left is the one its request asks for, whatever ran, failed or was answered by the
\* cache in between.
THEOREM AgreeingRecipesAreSound == Spec => []UniformSound
<1>1. StagesInv => UniformSound
  BY AgreedIsSound
<1> QED BY <1>1, StagesInvariant, PTL

-----------------------------------------------------------------------------
(* A recipe that is repeated runs nothing. *)

\* A row is appended by submit_job_dag alone.
Appends == Len(tasks') = Len(tasks) \/ \E nodes : Len(nodes) \in Nat /\ submit_job_dag(nodes)

LEMMA SubmitAppends ==
  ASSUME Submit
  PROVE  Appends
<1>1. \A n : Len(<<n>>) \in Nat
  OBVIOUS
<1>2. \A a, b, c, d : Len(<<a, b, c, d>>) \in Nat
  OBVIOUS
<1>3. ASSUME NEW op, NEW nodes, _submit_single_stage(op, nodes), Len(nodes) \in Nat
      PROVE  Appends
  BY <1>3 DEF _submit_single_stage, Appends
<1>4. ASSUME NEW op, NEW valid \in BOOLEAN, NEW nodes, Respond(op, valid, nodes), Len(nodes) \in Nat
      PROVE  Appends
  BY <1>4 DEF Respond, Appends
<1>5. ASSUME NEW b \in Bodies, get_dataset(b) PROVE Appends
  BY <1>5 DEF get_dataset, Appends
<1>6. ASSUME features PROVE Appends
  <2> DEFINE nodes == FeaturesNodes(pending.hash, pending.body, pending.art)
  <2>1. Len(nodes) \in Nat
    BY <1>1 DEF FeaturesNodes
  <2>2. Respond("features", derive_materialization, nodes) /\ derive_materialization \in BOOLEAN
    BY <1>6 DEF features, derive_materialization
  <2> HIDE DEF nodes
  <2> QED BY <1>4, <2>1, <2>2
<1>7. ASSUME matches PROVE Appends
  <2> DEFINE nodes == MatchesNodes(pending.hash, pending.body, pending.art)
             valid == _validate_explicit_pairs(pending.body)
  <2>1. Len(nodes) \in Nat
    BY <1>1 DEF MatchesNodes
  <2>2. valid \in BOOLEAN
    BY Zenon DEF _validate_explicit_pairs
  <2>3. Respond("matches", valid, nodes)
    BY <1>7 DEF matches
  <2> HIDE DEF nodes, valid
  <2> QED BY <1>4, <2>1, <2>2, <2>3
<1>8. ASSUME verify PROVE Appends
  <2> DEFINE nodes == VerifyNodes(pending.hash, pending.body, pending.art)
  <2>1. Len(nodes) \in Nat
    BY <1>1 DEF VerifyNodes
  <2>2. Respond("verify", TRUE, nodes)
    BY <1>8 DEF verify
  <2> HIDE DEF nodes
  <2> QED BY <1>4, <2>1, <2>2
<1>9. ASSUME run_recipe \/ run_legacy_sfm PROVE Appends
  <2> DEFINE nodes == build_recipe_dag(pending.hash, pending.body, pending.art)
  <2>1. Len(nodes) \in Nat
    BY <1>2 DEF build_recipe_dag
  <2>2. Respond("incremental", derive_materialization, nodes) /\ derive_materialization \in BOOLEAN
    BY <1>9 DEF run_recipe, run_legacy_sfm, derive_materialization
  <2> HIDE DEF nodes
  <2> QED BY <1>4, <2>1, <2>2
<1>10. ASSUME run_feed_forward PROVE Appends
  <2> DEFINE nodes == build_feed_forward_dag(pending.hash, pending.body, pending.art)
  <2>1. Len(nodes) \in Nat
    BY <1>1 DEF build_feed_forward_dag
  <2>2. Respond("feed_forward", derive_materialization, nodes) /\ derive_materialization \in BOOLEAN
    BY <1>10 DEF run_feed_forward, derive_materialization
  <2> HIDE DEF nodes
  <2> QED BY <1>4, <2>1, <2>2
<1>11. ASSUME NEW op, NEW r, _submit_recon_stage(op, r) PROVE Appends
  <2>1. PICK n : _submit_single_stage(op, <<n>>)
    BY <1>11 DEF _submit_recon_stage
  <2> QED BY <1>1, <1>3, <2>1
<1>12. ASSUME NEW r, \/ bundle_adjust(r) \/ triangulate(r) \/ pose_graph_optimize(r)
                     \/ export(r) \/ relocalize(r) \/ undistort(r)
       PROVE  Appends
  BY <1>11, <1>12 DEF bundle_adjust, triangulate, pose_graph_optimize, export, relocalize, undistort
<1>13. ASSUME NEW r, NEW q, localize(r) \/ georegister(r) \/ to_cubemap(r) \/ merge_recons_endpoint(r, q)
       PROVE  Appends
  <2>1. PICK op, n : _submit_single_stage(op, <<n>>)
    BY <1>13 DEF localize, georegister, to_cubemap, merge_recons_endpoint, submit_localize, submit_georegister,
       submit_to_cubemap, submit_merge_recons
  <2> QED BY <1>1, <1>3, <2>1
<1>14. ASSUME build_vocab_tree \/ configure_rig \/ estimate_two_view PROVE Appends
  <2>1. PICK n : submit_job_dag(<<n>>)
    BY <1>14, Zenon DEF build_vocab_tree, configure_rig, estimate_two_view, _submit_dataset_db_stage
  <2> QED BY <1>1, <2>1 DEF Appends
<1>15. ASSUME project_images \/ render_cubemap \/ build_vlad \/ from_video \/ from_archive \/ import_kapture
       PROVE  Appends
  <2>1. PICK op, n : _submit_single_stage(op, <<n>>)
    BY <1>15 DEF project_images, render_cubemap, build_vlad, from_video, from_archive, import_kapture,
       submit_project_images, submit_vlad_index, submit_video_frames, submit_dataset_from_archive, submit_kapture_import
  <2> QED BY <1>1, <1>3, <2>1
<1> QED BY <1>5, <1>6, <1>7, <1>8, <1>9, <1>10, <1>12, <1>13, <1>14, <1>15 DEF Submit

LEMMA NextAppends ==
  ASSUME StagesInv, [Next]_vars
  PROVE  Appends
<1>1. CASE Submit
  BY <1>1, SubmitAppends
<1>2. ASSUME NEW i \in 1..Len(tasks), Start(i) \/ Finish(i) \/ Fail(i) \/ Resume(i)
      PROVE  Appends
  <2>1. PICK u : tasks' = [tasks EXCEPT ![i] = u]
    BY <1>2, Zenon DEF Start, Finish, Fail, Resume
  <2>2. PICK S : tasks \in Seq(S)
    BY DEF StagesInv, Shape
  <2>3. Len([tasks EXCEPT ![i] = u]) = Len(tasks)
    BY ONLY <2>2, i \in 1..Len(tasks), ListExcept
  <2> QED BY <2>1, <2>3 DEF Appends
<1>3. CASE Edit \/ Switch
  BY <1>3 DEF Edit, Switch, Appends
<1>4. CASE UNCHANGED vars
  BY <1>4 DEF vars, Appends
<1> QED BY <1>1, <1>2, <1>3, <1>4 DEF Next

\* A new row with the key of a succeeded one has succeeded.
LEMMA Hits ==
  ASSUME Shape, Shape', NEW nodes, Len(nodes) \in Nat, submit_job_dag(nodes),
         NEW i \in Rows' \ Rows, NEW h \in Done, SameKey(tasks'[i], tasks[h])
  PROVE  tasks'[i].status = "succeeded"
<1> DEFINE n == Len(nodes)
           found == [k \in 1..n |-> lookup_cached_task(nodes[k])]
<1>1. PICK got \in [1..n -> UNION {found[k] : k \in 1..n}] :
           /\ \A k \in 1..n : got[k] \in found[k]
           /\ tasks' = tasks \o [k \in 1..n |->
                         IF got[k] = 0 THEN nodes[k]
                         ELSE [nodes[k] EXCEPT !.status = "succeeded", !.result = tasks[got[k]].result]]
  BY Zenon DEF submit_job_dag
<1> DEFINE row(k) == IF got[k] = 0 THEN nodes[k]
                     ELSE [nodes[k] EXCEPT !.status = "succeeded", !.result = tasks[got[k]].result]
           rows == [k \in 1..n |-> row(k)]
           S == {tasks[k] : k \in Rows} \cup {rows[k] : k \in 1..n}
<1>2. tasks \in Seq(S) /\ rows \in Seq(S) /\ Len(rows) = n /\ \A k \in 1..n : rows[k] = row(k)
  <2> HIDE DEF row
  <2>1. tasks \in Seq({tasks[k] : k \in Rows})
    BY DEF Shape
  <2>2. rows \in Seq(S) /\ Len(rows) = n /\ \A k \in 1..n : rows[k] = row(k)
    OBVIOUS
  <2>3. tasks \in Seq(S)
    BY <2>1, ListFacts
  <2> QED BY <2>2, <2>3
<1>3. tasks' = tasks \o rows
  BY <1>1
<1> HIDE DEF row, rows, S
<1>4. /\ Len(tasks \o rows) = Len(tasks) + Len(rows)
      /\ \A k \in 1..Len(rows) : (tasks \o rows)[Len(tasks) + k] = rows[k]
  <2>1. tasks \in Seq(S) /\ rows \in Seq(S)
    BY <1>2
  <2> HIDE DEF n, found
  <2> QED BY ONLY <2>1, ListIndex
<1>5. PICK k \in 1..n : tasks'[i] = row(k)
  <2>1. Len(tasks) \in Nat /\ Len(tasks') = Len(tasks) + n
    BY <1>2, <1>3, <1>4 DEF Shape
  <2>2. i - Len(tasks) \in 1..n /\ i = Len(tasks) + (i - Len(tasks))
    BY <2>1 DEF Rows
  <2> QED BY <1>2, <1>3, <1>4, <2>2
<1>6. CASE got[k] # 0
  <2>1. DOMAIN tasks'[i] = Fields
    BY DEF Shape, ShapeAt, IsTask
  <2> DEFINE e == [nodes[k] EXCEPT !.status = "succeeded", !.result = tasks[got[k]].result]
  <2>2. tasks'[i] = e
    BY <1>5, <1>6 DEF row
  <2>3. DOMAIN e = DOMAIN nodes[k] /\ ("status" \in DOMAIN nodes[k] => e.status = "succeeded")
    OBVIOUS
  <2> HIDE DEF e
  <2> QED BY <2>1, <2>2, <2>3 DEF Fields
<1>7. CASE got[k] = 0
  <2>1. tasks'[i] = nodes[k]
    BY <1>5, <1>7 DEF row
  <2> DEFINE hit == {x \in 1..Len(tasks) : /\ tasks[x].kind = nodes[k].kind /\ tasks[x].status = "succeeded"
                                           /\ cache_key(tasks[x]) = cache_key(nodes[k])}
  <2>2. h \in hit
    BY <2>1 DEF Done, SameKey, cache_key
  <2>3. got[k] \in lookup_cached_task(nodes[k])
    BY <1>1
  <2>4. got[k] \in hit
    BY <2>2, <2>3 DEF lookup_cached_task
  <2>5. Len(tasks) \in Nat
    BY DEF Shape
  <2> QED BY <1>7, <2>4, <2>5
<1> QED BY <1>6, <1>7

LEMMA KeepsRows ==
  ASSUME Shape, NEW nodes, Len(nodes) \in Nat, submit_job_dag(nodes), NEW i \in Rows
  PROVE  tasks'[i] = tasks[i]
<1>1. PICK got :
           tasks' = tasks \o [k \in 1..Len(nodes) |->
                         IF got[k] = 0 THEN nodes[k]
                         ELSE [nodes[k] EXCEPT !.status = "succeeded", !.result = tasks[got[k]].result]]
  BY Zenon DEF submit_job_dag
<1> DEFINE row(k) == IF got[k] = 0 THEN nodes[k]
                     ELSE [nodes[k] EXCEPT !.status = "succeeded", !.result = tasks[got[k]].result]
           rows == [k \in 1..Len(nodes) |-> row(k)]
           S == {tasks[k] : k \in Rows} \cup {rows[k] : k \in 1..Len(nodes)}
<1>2. tasks \in Seq(S) /\ rows \in Seq(S)
  <2> HIDE DEF row
  <2>1. tasks \in Seq({tasks[k] : k \in Rows})
    BY DEF Shape
  <2>2. rows \in Seq(S)
    OBVIOUS
  <2>3. tasks \in Seq(S)
    BY <2>1, ListFacts
  <2> QED BY <2>2, <2>3
<1>3. tasks' = tasks \o rows
  BY <1>1, Zenon
<1> HIDE DEF row, rows, S
<1>4. \A k \in 1..Len(tasks) : (tasks \o rows)[k] = tasks[k]
  BY ONLY <1>2, ListIndex
<1> QED BY <1>3, <1>4 DEF Rows

LEMMA RerunStep ==
  ASSUME StagesInv, StagesInv', Appends, NEW i \in Done, NEW j \in (Len(tasks) + 1)..Len(tasks'),
         tasks[i].dep = 3, tasks'[j].dep = 3,
         \A k \in 0..3 : /\ i - k \in Done /\ tasks[i - k].spec = tasks'[j - k].spec
                         /\ tasks[i - k].inputs = tasks'[j - k].inputs,
         NEW k \in 0..3
  PROVE  tasks'[j - k].status = "succeeded"
<1>1. Shape /\ Shape' /\ Len(tasks) \in Nat /\ Len(tasks') \in Nat
  <2>1. Shape /\ Shape'
    BY ONLY StagesInv, StagesInv' DEF StagesInv
  <2>2. Len(tasks) \in Nat
    BY ONLY <2>1 DEF Shape
  <2>3. Len(tasks') \in Nat
    BY ONLY <2>1 DEF Shape
  <2> QED BY <2>1, <2>2, <2>3
<1>2. i \in Recipes /\ RecipeAt(i) /\ i \in Nat
  <2>1. i \in Recipes
    BY DEF Done, Recipes, Rows
  <2> QED BY <1>1, <2>1, RecipeRows DEF Rows
<1>3. j \in Nat /\ j \in Rows' /\ j \notin Rows /\ RecipeAt(j)'
  <2>1. j \in Nat /\ j \in Rows' /\ j \notin Rows
    <3>1. PICK m \in Nat, n \in Nat : m = Len(tasks) /\ n = Len(tasks')
      BY <1>1
    <3>2. j \in (m + 1)..n
      BY <3>1
    <3>3. j \in Nat /\ j \in 1..n /\ j \notin 1..m
      BY ONLY <3>2, m \in Nat, n \in Nat
    <3> QED BY <3>1, <3>3 DEF Rows
  <2>2. ShapeAt(j)'
    BY <1>1, <2>1 DEF Shape
  <2> QED BY <2>1, <2>2 DEF ShapeAt
<1>4. PICK nodes : Len(nodes) \in Nat /\ submit_job_dag(nodes)
  BY <1>1, <1>3 DEF Appends, Rows
<1>5. PICK r : r = tasks'[j].inputs.recon
  OBVIOUS
<1>6. /\ tasks'[j - 3].kind = "extract" /\ tasks'[j - 2].kind = "match"
      /\ tasks'[j - 1].kind = "verify" /\ tasks'[j].kind = "map" /\ j > 3
      /\ \A m \in 0..3 : tasks'[j - m].inputs.recon = r
      /\ r.spec.of \in RecipeSettings /\ r.spec.provider \in Providers
  BY <1>3, <1>5 DEF RecipeAt
<1>7. /\ tasks[i - 3].kind = "extract" /\ tasks[i - 2].kind = "match"
      /\ tasks[i - 1].kind = "verify" /\ tasks[i].kind = "map"
  BY <1>2 DEF RecipeAt
<1>8. k = 0 \/ k = 1 \/ k = 2 \/ k = 3
  OBVIOUS
<1>9. tasks[i - k].kind = tasks'[j - k].kind
  <2>1. i - 0 = i /\ j - 0 = j
    BY <1>2, <1>3
  <2> QED BY <1>6, <1>7, <1>8, <2>1
<1>10. SameKey(tasks'[j - k], tasks[i - k]) /\ i - k \in Done
  BY <1>9 DEF SameKey
<1>11. tasks'[j - k].dep = 3 - k
  <2>1. tasks'[j - 3].dep = 0 /\ tasks'[j - 2].dep = 1 /\ tasks'[j - 1].dep = 2
    BY <1>3 DEF RecipeAt
  <2>2. j - 0 = j
    BY <1>3
  <2>3. CASE k = 0
    BY <2>2, <2>3
  <2>4. CASE k = 1
    BY <2>1, <2>4
  <2>5. CASE k = 2
    BY <2>1, <2>5
  <2>6. CASE k = 3
    BY <2>1, <2>6
  <2> QED BY <1>8, <2>3, <2>4, <2>5, <2>6
<1>12. j - k \in Rows' /\ j - k \notin Rows
  <2>1. j - k \in Rows'
    BY <1>1, <1>3, <1>6 DEF Rows
  <2>2. ASSUME j - k \in Rows PROVE FALSE
    <3>1. tasks'[j - k] = tasks[j - k]
      BY <1>1, <1>4, <2>2, KeepsRows
    <3>2. k # 0
      BY <1>3, <2>2
    <3>3. tasks[j - k].kind \in Writers /\ tasks[j - k].inputs.recon = r
      BY <1>6, <1>8, <3>1, <3>2 DEF Writers
    <3>4. MapRow(j - k) \in Recipes
      BY <1>1, <1>6, <2>2, <3>3, WriterOfRecipe
    <3>5. MapRow(j - k) = j
      <4>1. MapRow(j - k) = (j - k) + (3 - (3 - k))
        BY <1>11, <3>1 DEF MapRow
      <4>2. k \in Nat /\ k <= 3
        OBVIOUS
      <4> QED BY <1>3, <4>1, <4>2
    <3> QED BY <1>3, <3>4, <3>5 DEF Recipes
  <2> QED BY <2>1, <2>2
<1> QED BY <1>1, <1>4, <1>10, <1>12, Hits

\* A recipe with the settings, providers, images and priors of one that succeeded
\* is answered by the cache, all four tasks of it, whatever ran in between.
THEOREM RepeatedRecipeRunsNothing == Spec => RerunHits
<1> DEFINE A == \A i \in Done, j \in (Len(tasks) + 1)..Len(tasks') :
                  (/\ tasks[i].dep = 3 /\ tasks'[j].dep = 3
                   /\ \A k \in 0..3 : /\ i - k \in Done /\ tasks[i - k].spec = tasks'[j - k].spec
                                       /\ tasks[i - k].inputs = tasks'[j - k].inputs)
                     => \A k \in 0..3 : tasks'[j - k].status = "succeeded"
<1>1. StagesInv /\ StagesInv' /\ [Next]_vars => [A]_vars
  <2>1. SUFFICES ASSUME StagesInv, StagesInv', [Next]_vars PROVE A
    OBVIOUS
  <2>2. Appends
    BY <2>1, NextAppends
  <2> QED BY <2>1, <2>2, RerunStep
<1>2. Spec => [][A]_vars
  <2> HIDE DEF A
  <2> QED BY <1>1, StagesInvariant, PTL DEF Spec
<1> QED BY <1>2 DEF RerunHits


-----------------------------------------------------------------------------
(* Dataflow: identifiers. *)

LEMMA ListFrom ==
  ASSUME NEW S, NEW s \in Seq(S)
  PROVE  IsList(s) /\ Range(s) \subseteq S
<1>1. DOMAIN s = 1 .. Len(s) /\ Len(s) \in Nat /\ s \in [1 .. Len(s) -> S]
  BY LenProperties
<1>2. Range(s) = {s[k] : k \in 1 .. Len(s)}
  BY <1>1 DEF Range
<1>3. s \in [1 .. Len(s) -> Range(s)]
  BY <1>1, <1>2
<1>4. s \in Seq(Range(s))
  BY <1>1, <1>3, SeqDef
<1> QED BY <1>1, <1>2, <1>4 DEF IsList

LEMMA ListDomain ==
  ASSUME NEW s, IsList(s)
  PROVE  DOMAIN s = 1 .. Len(s) /\ Len(s) \in Nat /\ s \in Seq(Range(s))
BY LenProperties DEF IsList

LEMMA IdFacts ==
  ASSUME NEW x, IsId(x)
  PROVE  IsList(x) /\ Len(x) \in Nat /\ Len(x) >= 1 /\ DOMAIN x = 1 .. Len(x)
<1>1. x \in Seq(Range(x)) /\ x # <<>> /\ DOMAIN x = 1 .. Len(x)
  BY ListDomain DEF IsId, IsList
<1> QED BY <1>1, EmptySeq DEF IsId

\* Both as sequences over one set.
LEMMA CommonSet ==
  ASSUME NEW x, NEW y, IsList(x), IsList(y)
  PROVE  \E S : x \in Seq(S) /\ y \in Seq(S)
<1>1. x \in Seq(Range(x) \cup Range(y)) /\ y \in Seq(Range(x) \cup Range(y))
  BY SeqMonotonic DEF IsList
<1> QED BY <1>1

LEMMA SameList ==
  ASSUME NEW x, NEW y, IsList(x), IsList(y), Len(x) = Len(y), \A k \in 1 .. Len(x) : x[k] = y[k]
  PROVE  x = y
<1>1. PICK S : x \in Seq(S) /\ y \in Seq(S)
  BY CommonSet
<1> QED BY <1>1, SeqEqual

LEMMA Concatenation ==
  ASSUME NEW a, NEW x, IsId(a), IsId(x), Len(x) = 1
  PROVE  /\ IsId(a \o x) /\ Len(a \o x) = Len(a) + 1
         /\ \A k \in 1 .. Len(a) : (a \o x)[k] = a[k]
         /\ (a \o x)[Len(a) + 1] = x[1]
<1>1. IsList(a) /\ IsList(x) /\ Len(a) \in Nat /\ Len(a) >= 1
  BY IdFacts
<1>2. PICK S : a \in Seq(S) /\ x \in Seq(S)
  BY <1>1, CommonSet
<1>3. /\ a \o x \in Seq(S) /\ Len(a \o x) = Len(a) + Len(x)
      /\ \A k \in 1 .. Len(a) + Len(x) : (a \o x)[k] = IF k <= Len(a) THEN a[k] ELSE x[k - Len(a)]
  BY <1>2, ConcatProperties, Zenon
<1>4. a \o x # <<>>
  BY <1>1, <1>3, EmptySeq
<1>5. IsId(a \o x)
  BY <1>3, <1>4, ListFrom DEF IsId
<1> QED BY <1>1, <1>3, <1>5

\* Two ids made of a plugin's id and a local one are equal only if both parts are.
LEMMA Qualified ==
  ASSUME NEW a, NEW b, NEW x, NEW y, IsId(a), IsId(b), IsId(x), IsId(y), Len(x) = 1, Len(y) = 1,
         a \o x = b \o y
  PROVE  a = b /\ x = y
<1>1. /\ IsList(a) /\ IsList(x) /\ IsList(b) /\ IsList(y)
      /\ Len(a) \in Nat /\ Len(b) \in Nat
  BY IdFacts
<1>2. /\ Len(a \o x) = Len(a) + 1 /\ \A k \in 1 .. Len(a) : (a \o x)[k] = a[k]
      /\ (a \o x)[Len(a) + 1] = x[1]
      /\ Len(b \o y) = Len(b) + 1 /\ \A k \in 1 .. Len(b) : (b \o y)[k] = b[k]
      /\ (b \o y)[Len(b) + 1] = y[1]
  BY Concatenation
<1>3. Len(a) = Len(b)
  BY <1>1, <1>2
<1>4. (\A k \in 1 .. Len(a) : a[k] = b[k]) /\ x[1] = y[1]
  BY <1>2, <1>3
<1>5. a = b
  BY <1>1, <1>3, <1>4, SameList
<1>6. x = y
  BY <1>1, <1>4, SameList
<1> QED BY <1>5, <1>6

LEMMA Singles ==
  ASSUME NEW s
  PROVE  IsId(<<s>>) /\ Len(<<s>>) = 1
<1>1. <<s>> \in Seq({s})
  OBVIOUS
<1> QED BY <1>1, ListFrom DEF IsId

\* Prefixes, element by element.
LEMMA PrefixOf ==
  ASSUME NEW a, NEW x, IsId(a), IsId(x)
  PROVE  IsPrefix(a, x) <=> Len(a) <= Len(x) /\ \A k \in 1 .. Len(a) : a[k] = x[k]
<1>1. IsList(a) /\ IsList(x) /\ Len(a) \in Nat
  BY IdFacts
<1>2. PICK S : a \in Seq(S) /\ x \in Seq(S)
  BY <1>1, CommonSet
<1>3. ASSUME Len(a) <= Len(x)
      PROVE  SubSeq(a, 1, Len(a)) = SubSeq(x, 1, Len(a)) <=> \A k \in 1 .. Len(a) : a[k] = x[k]
  <2>1. /\ SubSeq(a, 1, Len(a)) \in Seq(S) /\ Len(SubSeq(a, 1, Len(a))) = Len(a)
        /\ SubSeq(x, 1, Len(a)) \in Seq(S) /\ Len(SubSeq(x, 1, Len(a))) = Len(a)
        /\ \A k \in 1 .. Len(a) : SubSeq(a, 1, Len(a))[k] = a[k] /\ SubSeq(x, 1, Len(a))[k] = x[k]
    BY <1>2, <1>3
  <2> QED BY <2>1
<1> QED BY <1>3 DEF IsPrefix

LEMMA PrefixesMeet ==
  ASSUME NEW a, NEW b, NEW x, IsId(a), IsId(b), IsId(x), IsPrefix(a, x), IsPrefix(b, x)
  PROVE  IsPrefix(a, b) \/ IsPrefix(b, a)
<1>1. /\ Len(a) <= Len(x) /\ \A k \in 1 .. Len(a) : a[k] = x[k]
      /\ Len(b) <= Len(x) /\ \A k \in 1 .. Len(b) : b[k] = x[k]
  BY PrefixOf
<1>2. Len(a) \in Nat /\ Len(b) \in Nat
  BY IdFacts
<1> QED BY <1>1, <1>2, PrefixOf

LEMMA StrictPrefixLong ==
  ASSUME NEW a, NEW x, IsId(a), IsId(x), IsStrictPrefix(a, x)
  PROVE  Len(x) > 1
<1>1. /\ Len(a) <= Len(x) /\ \A k \in 1 .. Len(a) : a[k] = x[k]
  BY PrefixOf DEF IsStrictPrefix
<1>2. IsList(a) /\ IsList(x) /\ Len(a) \in Nat /\ Len(x) \in Nat /\ Len(a) >= 1 /\ a # x
  BY IdFacts DEF IsStrictPrefix
<1>3. Len(a) # Len(x)
  BY <1>1, <1>2, SameList
<1> QED BY <1>1, <1>2, <1>3

\* A qualified name starts with the id of its plugin.
LEMMA QualifiedPrefix ==
  ASSUME NEW a, NEW x, IsId(a), IsId(x), Len(x) = 1
  PROVE  IsPrefix(a, a \o x)
<1>1. /\ IsId(a \o x) /\ Len(a \o x) = Len(a) + 1 /\ \A k \in 1 .. Len(a) : (a \o x)[k] = a[k]
      /\ Len(a) \in Nat
  BY IdFacts, Concatenation
<1>2. IsPrefix(a, a \o x) <=> Len(a) <= Len(a \o x) /\ \A k \in 1 .. Len(a) : a[k] = (a \o x)[k]
  BY <1>1, PrefixOf
<1> QED BY <1>1, <1>2

-----------------------------------------------------------------------------
(* Dataflow: the core vocabulary. *)

LEMMA CoreTypes ==
  ASSUME NEW d \in CORE_DATA_TYPES
  PROVE  IsId(d) /\ Len(d) = 1
BY Singles DEF CORE_DATA_TYPES

LEMMA PortFacts ==
  ASSUME NEW r, NEW d, NEW many \in BOOLEAN
  PROVE  LET p == PortSpec(<<r>>, <<d>>, TRUE, many)
         IN  IsPort(p) /\ p.role = <<r>> /\ p.datatype = <<d>> /\ p.multiple = many /\ Len(p.role) = 1
BY Singles DEF PortSpec, IsPort

LEMMA OnePort ==
  ASSUME NEW p, IsPort(p)
  PROVE  IsDict({p})
BY FS_Singleton DEF IsDict

LEMMA TwoPorts ==
  ASSUME NEW p, NEW q, IsPort(p), IsPort(q), p.role # q.role
  PROVE  IsDict({p, q})
<1>1. IsFiniteSet({p, q})
  <2>1. {p, q} = {p} \cup {q} /\ IsFiniteSet({p})
    BY FS_Singleton
  <2> QED BY <2>1, FS_AddElement
<1> QED BY <1>1 DEF IsDict

\* What the checkers rely on in the core's own table.
CoreShape(p) ==
  /\ IsProcessor(p) /\ Len(p.id) = 1
  /\ PortTypes(p.consumer \cup p.supplier) \subseteq CORE_DATA_TYPES
  /\ p.special_inputs = {} /\ p.special_attributes = {}
  /\ \A port \in p.consumer : _requires_verified_match_graph(p.id, port.role) => ~port.multiple

LEMMA CoreProcessors ==
  ASSUME NEW p \in CORE_PROCESSORS
  PROVE  CoreShape(p)
<1> USE DEF CoreShape
<1>1. \A r, d : /\ IsPort(_port(r, d)) /\ _port(r, d).role = <<r>> /\ _port(r, d).datatype = <<d>>
                /\ _port(r, d).multiple = FALSE /\ Len(_port(r, d).role) = 1
  BY PortFacts DEF _port
<1>2. ASSUME NEW id, NEW r, NEW d, NEW s, NEW e, <<d>> \in CORE_DATA_TYPES, <<e>> \in CORE_DATA_TYPES
      PROVE  CoreShape(Processor(id, {_port(r, d)}, {_port(s, e)}))
  <2> DEFINE c == {_port(r, d)}
             u == {_port(s, e)}
             q == Processor(id, c, u)
  <2>1. q.id = <<id>> /\ q.consumer = c /\ q.supplier = u /\ q.special_inputs = {} /\ q.special_attributes = {}
    BY DEF Processor
  <2>2. IsDict(c) /\ IsDict(u) /\ IsId(<<id>>) /\ Len(<<id>>) = 1
    BY <1>1, OnePort, Singles
  <2>3. \A port \in c \cup u : Len(port.role) = 1 /\ port.multiple = FALSE /\ port.datatype \in CORE_DATA_TYPES
    BY <1>1, <1>2
  <2> HIDE DEF c, u, q
  <2>4. IsProcessor(q)
    BY <2>1, <2>2, <2>3 DEF IsProcessor
  <2>5. PortTypes(c \cup u) \subseteq CORE_DATA_TYPES
    BY <2>3 DEF PortTypes
  <2>6. CoreShape(q)
    BY <2>1, <2>2, <2>3, <2>4, <2>5
  <2> QED BY <2>6 DEF q, c, u
<1>3. ASSUME NEW id, NEW r, NEW d, NEW r2, NEW d2, NEW s, NEW e, <<r>> # <<r2>>,
             <<d>> \in CORE_DATA_TYPES, <<d2>> \in CORE_DATA_TYPES, <<e>> \in CORE_DATA_TYPES
      PROVE  CoreShape(Processor(id, {_port(r, d), _port(r2, d2)}, {_port(s, e)}))
  <2> DEFINE c == {_port(r, d), _port(r2, d2)}
             u == {_port(s, e)}
             q == Processor(id, c, u)
  <2>1. q.id = <<id>> /\ q.consumer = c /\ q.supplier = u /\ q.special_inputs = {} /\ q.special_attributes = {}
    BY DEF Processor
  <2>2. IsDict(c) /\ IsDict(u) /\ IsId(<<id>>) /\ Len(<<id>>) = 1
    <3>1. _port(r, d).role # _port(r2, d2).role
      BY <1>1, <1>3
    <3>2. IsDict(c)
      BY <1>1, <3>1, TwoPorts
    <3> QED BY <3>2, <1>1, OnePort, Singles
  <2>3. \A port \in c \cup u : Len(port.role) = 1 /\ port.multiple = FALSE /\ port.datatype \in CORE_DATA_TYPES
    BY <1>1, <1>3
  <2> HIDE DEF c, u, q
  <2>4. IsProcessor(q)
    BY <2>1, <2>2, <2>3 DEF IsProcessor
  <2>5. PortTypes(c \cup u) \subseteq CORE_DATA_TYPES
    BY <2>3 DEF PortTypes
  <2>6. CoreShape(q)
    BY <2>1, <2>2, <2>3, <2>4, <2>5
  <2> QED BY <2>6 DEF q, c, u
<1>4. CoreShape(Processor("merge", {PortSpec(<<"model">>, <<"sparse_model">>, TRUE, TRUE)},
                          {_port("model", "sparse_model")}))
  <2> DEFINE x == PortSpec(<<"model">>, <<"sparse_model">>, TRUE, TRUE)
             c == {x}
             u == {_port("model", "sparse_model")}
             q == Processor("merge", c, u)
  <2>1. q.id = <<"merge">> /\ q.consumer = c /\ q.supplier = u /\ q.special_inputs = {} /\ q.special_attributes = {}
    BY DEF Processor
  <2>2. IsPort(x) /\ Len(x.role) = 1 /\ x.datatype = <<"sparse_model">>
    BY PortFacts
  <2> HIDE DEF x
  <2>3. IsDict(c) /\ IsDict(u) /\ IsId(<<"merge">>) /\ Len(<<"merge">>) = 1
    BY <1>1, <2>2, OnePort, Singles
  <2>4. \A port \in c \cup u : Len(port.role) = 1 /\ port.datatype \in CORE_DATA_TYPES
    BY <1>1, <2>2 DEF CORE_DATA_TYPES
  <2> HIDE DEF c, u, q
  <2>5. IsProcessor(q)
    BY <2>1, <2>3, <2>4 DEF IsProcessor
  <2>6. PortTypes(c \cup u) \subseteq CORE_DATA_TYPES
    BY <2>4 DEF PortTypes
  <2>7. \A role : ~_requires_verified_match_graph(<<"merge">>, role)
    BY DEF _requires_verified_match_graph
  <2>8. CoreShape(q)
    BY <2>1, <2>3, <2>5, <2>6, <2>7
  <2> QED BY <2>8 DEF q, c, u, x
<1>5. /\ <<"image_sequence">> \in CORE_DATA_TYPES /\ <<"feature_set">> \in CORE_DATA_TYPES
      /\ <<"pair_set">> \in CORE_DATA_TYPES /\ <<"match_graph">> \in CORE_DATA_TYPES
      /\ <<"sparse_model">> \in CORE_DATA_TYPES /\ <<"projection">> \in CORE_DATA_TYPES
      /\ <<"features">> # <<"pairs">> /\ <<"features">> # <<"matches">> /\ <<"model">> # <<"matches">>
  BY DEF CORE_DATA_TYPES
<1> HIDE DEF CoreShape
<1>6. \A id : CoreShape(OnModel(id))
  BY <1>2, <1>5 DEF OnModel
<1> QED BY <1>2, <1>3, <1>4, <1>5, <1>6 DEF CORE_PROCESSORS

LEMMA CoreUnique ==
  ASSUME NEW p \in CORE_PROCESSORS, NEW q \in CORE_PROCESSORS, p.id = q.id
  PROVE  p = q
<1>1. \A id, c, u : Processor(id, c, u).id = <<id>>
  BY DEF Processor
<1>2. \A a, b : <<a>> = <<b>> => a = b
  OBVIOUS
<1> DEFINE rest == {OnModel(id) : id \in {"refine", "optimize_poses", "relocalize", "georegister", "undistort"}}
<1>3. \A x, y \in rest : x.id = y.id => x = y
  BY <1>1, <1>2 DEF OnModel
<1>4. \A x \in rest : \E id \in {"refine", "optimize_poses", "relocalize", "georegister", "undistort"} : x.id = <<id>>
  BY <1>1 DEF OnModel
<1> HIDE DEF rest
<1>5. \A x \in CORE_PROCESSORS \ rest, y \in rest : x.id # y.id
  BY <1>1, <1>2, <1>4 DEF CORE_PROCESSORS, rest
<1>6. \A x, y \in CORE_PROCESSORS \ rest : x.id = y.id => x = y
  BY <1>1, <1>2 DEF CORE_PROCESSORS, rest
<1> QED BY <1>3, <1>5, <1>6

-----------------------------------------------------------------------------
(* Dataflow: the inductive invariant. *)

\* The registry holds manifests the hub accepted, and the request is one the
\* schemas admit.
DataflowInv ==
  /\ DataflowTypeOK
  /\ IsFiniteSet(active)
  /\ \A m \in active : HubAccepts(m)
  /\ IsList(steps) /\ \A i \in DOMAIN steps : IsStep(steps[i])

LEMMA Appended ==
  ASSUME NEW s, NEW x, IsList(s)
  PROVE  /\ IsList(Append(s, x)) /\ Append(s, x) # <<>> /\ Len(Append(s, x)) = Len(s) + 1
         /\ \A i \in DOMAIN Append(s, x) : Append(s, x)[i] = x \/ (i \in DOMAIN s /\ Append(s, x)[i] = s[i])
<1> DEFINE S == Range(s) \cup {x}
<1>1. s \in Seq(S) /\ x \in S
  BY SeqMonotonic DEF IsList
<1> HIDE DEF S
<1>2. Append(s, x) \in Seq(S) /\ Len(Append(s, x)) = Len(s) + 1
  BY <1>1
<1>3. \A i \in 1 .. Len(s) + 1 : Append(s, x)[i] = IF i = Len(s) + 1 THEN x ELSE s[i]
  BY <1>1
<1>4. DOMAIN s = 1 .. Len(s) /\ Len(s) \in Nat /\ DOMAIN Append(s, x) = 1 .. Len(s) + 1
  BY <1>1, <1>2, LenProperties
<1>5. Append(s, x) # <<>>
  BY <1>2, <1>4, EmptySeq
<1>6. IsList(Append(s, x))
  BY <1>2, ListFrom
<1>7. \A i \in 1 .. Len(s) + 1 : i = Len(s) + 1 \/ i \in 1 .. Len(s)
  BY <1>4
<1> QED BY <1>2, <1>3, <1>4, <1>5, <1>6, <1>7

LEMMA AnswersGiven ==
  /\ Verdict(active, inputs, steps) \in Answers
  /\ RunOutcome(active, inputs, steps) \in Answers
BY DEF Verdict, RunOutcome, Answers

LEMMA DataflowInductive == DataflowSpec => []DataflowInv
<1>1. DataflowInit => DataflowInv
  <2> SUFFICES ASSUME DataflowInit PROVE DataflowInv
    OBVIOUS
  <2>1. steps \in Seq({}) /\ Len(steps) = 0 /\ DOMAIN steps = {} /\ active = {}
    BY DEF DataflowInit
  <2>2. IsList(steps) /\ IsFiniteSet(active)
    BY <2>1, ListFrom, FS_EmptySet
  <2> QED BY <2>1, <2>2, DataflowAssumption DEF DataflowInit, DataflowInv, DataflowTypeOK, Answers
<1>2. DataflowInv /\ [DataflowNext]_dataflowVars => DataflowInv'
  <2> SUFFICES ASSUME DataflowInv, [DataflowNext]_dataflowVars PROVE DataflowInv'
    OBVIOUS
  <2>1. CASE \E m \in Manifests : Toggle(m)
    <3>1. PICK m \in Manifests : Toggle(m)
      BY <2>1
    <3>2. IsFiniteSet(active \cup {m}) /\ IsFiniteSet(active \ {m})
      BY FS_AddElement, FS_RemoveElement DEF DataflowInv
    <3> QED BY <3>1, <3>2 DEF Toggle, DataflowInv, DataflowTypeOK, Answers
  <2>2. CASE AddStep
    <3>1. PICK s \in StepChoices(inputs, steps) : IsStep(s) /\ steps' = Append(steps, s)
      BY <2>2 DEF AddStep
    <3>2. IsList(steps) /\ Len(steps) < MaxSteps /\ Len(steps) \in Nat /\ MaxSteps \in Nat
      BY <2>2, ListDomain, DataflowAssumption DEF DataflowInv, AddStep
    <3>3. IsList(steps') /\ Len(steps') <= MaxSteps /\ \A i \in DOMAIN steps' : IsStep(steps'[i])
      BY <3>1, <3>2, Appended DEF DataflowInv
    <3> QED BY <3>3, <2>2 DEF AddStep, DataflowInv, DataflowTypeOK, Answers
  <2>3. CASE validate_pipeline
    <3>1. answer' \in Answers /\ steps # <<>> /\ UNCHANGED <<active, inputs, steps>>
      BY <2>3, AnswersGiven DEF validate_pipeline
    <3> QED BY <3>1 DEF DataflowInv, DataflowTypeOK
  <2>4. CASE run_pipeline
    <3>1. answer' \in Answers /\ steps # <<>> /\ UNCHANGED <<active, inputs, steps>>
      BY <2>4, AnswersGiven DEF run_pipeline
    <3> QED BY <3>1 DEF DataflowInv, DataflowTypeOK
  <2>5. CASE UNCHANGED dataflowVars
    BY <2>5 DEF dataflowVars, DataflowInv, DataflowTypeOK
  <2> QED BY <2>1, <2>2, <2>3, <2>4, <2>5 DEF DataflowNext
<1> QED BY <1>1, <1>2, PTL DEF DataflowSpec

\* The draft stays within its bound and an answer is kept only while there is a
\* draft it is about: AddStep, Toggle and the two endpoints.
THEOREM DataflowTypeCorrect == DataflowSpec => []DataflowTypeOK
BY DataflowInductive, PTL DEF DataflowInv

-----------------------------------------------------------------------------
(* Dataflow: the registry of a set of manifests. *)

\* A manifest whose declarations the hub accepts, whatever its pipelines do.
Declares(m) ==
  /\ IsManifest(m) /\ _validate_plugin_owned_declaration_ids(m)
  /\ DeclarationsOk(m) /\ ExtensionsOk(m)
  /\ ~Twins(m.pipelines) /\ Ids(m.pipelines) \cap CANONICAL_PIPELINES = {}

Vetted(ms) ==
  /\ \A m \in ms : Declares(m)
  /\ \A m, n \in ms : m.plugin_id = n.plugin_id => m = n

LEMMA OwnType ==
  ASSUME NEW m, Declares(m), NEW d \in m.datatypes
  PROVE  /\ IsId(d) /\ Len(d) = 1 /\ d \notin CORE_DATA_TYPES
         /\ TypeMap(m, d) = m.plugin_id \o d /\ IsId(TypeMap(m, d)) /\ Len(TypeMap(m, d)) > 1
<1>1. IsId(d) /\ IsId(m.plugin_id)
  BY DEF Declares, IsManifest
<1>2. Len(d) = 1 /\ d \notin CORE_DATA_TYPES
  BY DEF Declares, _validate_plugin_owned_declaration_ids, DeclarationsOk
<1>3. TypeMap(m, d) = m.plugin_id \o d
  BY <1>2 DEF TypeMap, _plugin_owned_id
<1>4. IsId(m.plugin_id \o d) /\ Len(m.plugin_id \o d) = Len(m.plugin_id) + 1
  BY <1>1, <1>2, Concatenation
<1>5. Len(m.plugin_id) \in Nat /\ Len(m.plugin_id) >= 1
  BY <1>1, IdFacts
<1> QED BY <1>1, <1>2, <1>3, <1>4, <1>5

LEMMA OwnProcessor ==
  ASSUME NEW m, Declares(m), NEW p \in m.processors
  PROVE  /\ IsProcessor(p) /\ IsId(p.id) /\ Len(p.id) = 1 /\ p.id \notin Ids(CORE_PROCESSORS)
         /\ ProcessorMap(m, p.id) = m.plugin_id \o p.id
         /\ IsId(ProcessorMap(m, p.id)) /\ Len(ProcessorMap(m, p.id)) > 1
<1>1. IsProcessor(p) /\ IsId(p.id) /\ IsId(m.plugin_id)
  BY DEF Declares, IsManifest, IsProcessor
<1>2. p.id \in Ids(m.processors)
  BY DEF Ids
<1>3. Len(p.id) = 1 /\ p.id \notin Ids(CORE_PROCESSORS)
  BY <1>2 DEF Declares, _validate_plugin_owned_declaration_ids, DeclarationsOk
<1>4. ProcessorMap(m, p.id) = m.plugin_id \o p.id
  BY <1>2, <1>3 DEF ProcessorMap, _plugin_owned_id
<1>5. IsId(m.plugin_id \o p.id) /\ Len(m.plugin_id \o p.id) = Len(m.plugin_id) + 1
  BY <1>1, <1>3, Concatenation
<1>6. Len(m.plugin_id) \in Nat /\ Len(m.plugin_id) >= 1
  BY <1>1, IdFacts
<1> QED BY <1>1, <1>3, <1>4, <1>5, <1>6

LEMMA PublishedFields ==
  ASSUME NEW m, NEW p
  PROVE  /\ PublishedProcessor(m, p).id = ProcessorMap(m, p.id)
         /\ PublishedProcessor(m, p).consumer = Published(m, p.consumer)
         /\ PublishedProcessor(m, p).supplier = Published(m, p.supplier)
BY DEF PublishedProcessor

LEMMA DeclaredCases ==
  ASSUME NEW ms, NEW p \in DeclaredProcessors(ms)
  PROVE  p \in CORE_PROCESSORS \/ \E m \in ms : \E q \in m.processors : p = PublishedProcessor(m, q)
BY DEF DeclaredProcessors, OwnProcessors

LEMMA PublishedDeclared ==
  ASSUME NEW ms, NEW m \in ms, NEW q \in m.processors
  PROVE  PublishedProcessor(m, q) \in DeclaredProcessors(ms)
BY DEF DeclaredProcessors, OwnProcessors

LEMMA PublishedId ==
  ASSUME NEW m, Declares(m), NEW x \in m.processors
  PROVE  /\ PublishedProcessor(m, x).id = m.plugin_id \o x.id
         /\ IsId(PublishedProcessor(m, x).id) /\ Len(PublishedProcessor(m, x).id) > 1
         /\ IsId(m.plugin_id) /\ IsId(x.id) /\ Len(x.id) = 1
<1>1. PublishedProcessor(m, x).id = ProcessorMap(m, x.id)
  BY PublishedFields
<1>2. IsId(m.plugin_id)
  BY DEF Declares, IsManifest
<1> QED BY <1>1, <1>2, OwnProcessor

\* No two processors of the registry have the same id.
LEMMA DeclaredUnique ==
  ASSUME NEW ms, Vetted(ms), NEW p \in DeclaredProcessors(ms), NEW q \in DeclaredProcessors(ms), p.id = q.id
  PROVE  p = q
<1>1. \A c \in CORE_PROCESSORS : Len(c.id) = 1
  BY CoreProcessors DEF CoreShape
<1>2. \A m \in ms : Declares(m)
  BY DEF Vetted
<1>3. CASE p \in CORE_PROCESSORS /\ q \in CORE_PROCESSORS
  BY <1>3, CoreUnique
<1>4. ASSUME NEW c \in CORE_PROCESSORS, NEW d \in DeclaredProcessors(ms), d \notin CORE_PROCESSORS, c.id = d.id
      PROVE  FALSE
  <2>1. PICK m \in ms : \E x \in m.processors : d = PublishedProcessor(m, x)
    BY <1>4, DeclaredCases
  <2>2. PICK x \in m.processors : d = PublishedProcessor(m, x)
    BY <2>1
  <2>3. Len(d.id) > 1
    BY <1>2, <2>2, PublishedId
  <2>4. 1 > 1
    BY <1>1, <1>4, <2>3, Zenon
  <2> QED BY ONLY <2>4
<1>5. CASE p \notin CORE_PROCESSORS /\ q \notin CORE_PROCESSORS
  <2>1. PICK m \in ms : \E x \in m.processors : p = PublishedProcessor(m, x)
    BY <1>5, DeclaredCases
  <2>2. PICK x \in m.processors : p = PublishedProcessor(m, x)
    BY <2>1
  <2>3. PICK n \in ms : \E y \in n.processors : q = PublishedProcessor(n, y)
    BY <1>5, DeclaredCases
  <2>4. PICK y \in n.processors : q = PublishedProcessor(n, y)
    BY <2>3
  <2>5. p.id = m.plugin_id \o x.id /\ IsId(m.plugin_id) /\ IsId(x.id) /\ Len(x.id) = 1
    BY <1>2, <2>2, PublishedId
  <2>6. q.id = n.plugin_id \o y.id /\ IsId(n.plugin_id) /\ IsId(y.id) /\ Len(y.id) = 1
    BY <1>2, <2>4, PublishedId
  <2>a. m.plugin_id \o x.id = n.plugin_id \o y.id
    BY <2>5, <2>6, Zenon
  <2>7. m.plugin_id = n.plugin_id /\ x.id = y.id
    <3> DEFINE a == m.plugin_id
    <3> DEFINE b == n.plugin_id
    <3> DEFINE s == x.id
    <3> DEFINE t == y.id
    <3>1. IsId(a) /\ IsId(s) /\ Len(s) = 1 /\ IsId(b) /\ IsId(t) /\ Len(t) = 1 /\ a \o s = b \o t
      BY <2>5, <2>6, <2>a, Zenon
    <3> HIDE DEF a, b, s, t
    <3>2. a = b /\ s = t
      BY ONLY <3>1, Qualified
    <3> QED BY <3>2 DEF a, b, s, t
  <2>8. m = n
    BY <2>7 DEF Vetted
  <2>9. ~Twins(m.processors)
    BY <1>2 DEF Declares, DeclarationsOk
  <2>10. x = y
    BY <2>7, <2>8, <2>9 DEF Twins
  <2> QED BY <2>2, <2>4, <2>8, <2>10
<1> QED BY <1>3, <1>4, <1>5

LEMMA FiniteImage ==
  ASSUME NEW S, IsFiniteSet(S), NEW f, DOMAIN f = S
  PROVE  IsFiniteSet({f[x] : x \in S})
<1> DEFINE T == {f[x] : x \in S}
           g == [x \in S |-> f[x]]
<1>1. g \in Surjection(S, T)
  BY DEF Surjection
<1> HIDE DEF T, g
<1>2. IsFiniteSet(T)
  BY <1>1, FS_Surjection
<1> QED BY <1>2 DEF T

LEMMA PublishedPorts ==
  ASSUME NEW m, NEW ports, IsDict(ports)
  PROVE  IsFiniteSet(Published(m, ports))
<1> DEFINE f == [p \in ports |-> _port_from_manifest(m, p)]
<1>1. IsFiniteSet(ports) /\ DOMAIN f = ports
  BY DEF IsDict
<1>2. {f[p] : p \in ports} = Published(m, ports)
  BY DEF Published
<1> HIDE DEF f
<1>3. IsFiniteSet({f[p] : p \in ports})
  BY <1>1, FiniteImage
<1> QED BY <1>2, <1>3

LEMMA SuppliersFinite ==
  ASSUME NEW ms, Vetted(ms), NEW p \in DeclaredProcessors(ms)
  PROVE  IsFiniteSet(p.supplier)
<1>1. CASE p \in CORE_PROCESSORS
  BY <1>1, CoreProcessors DEF CoreShape, IsProcessor, IsDict
<1>2. CASE \E m \in ms : \E q \in m.processors : p = PublishedProcessor(m, q)
  <2>1. PICK m \in ms : \E q \in m.processors : p = PublishedProcessor(m, q)
    BY <1>2
  <2>2. PICK q \in m.processors : p = PublishedProcessor(m, q)
    BY <2>1
  <2>3. IsDict(q.supplier)
    BY <2>2, OwnProcessor DEF Vetted, IsProcessor
  <2> QED BY <2>2, <2>3, PublishedFields, PublishedPorts
<1> QED BY <1>1, <1>2, DeclaredCases

\* What a registry's processors bring to a step: at most one processor for an id,
\* with finitely many outputs, and special inputs that carry their plugin's name.
LEMMA ExtendedFields ==
  ASSUME NEW ms, NEW p
  PROVE  /\ Extended(ms, p).id = p.id /\ Extended(ms, p).consumer = p.consumer
         /\ Extended(ms, p).supplier = p.supplier
         /\ Extended(ms, p).special_inputs
              = UNION {Published(x[1], x[2].special_inputs) : x \in Extending(ms, p.id)}
         /\ Extended(ms, p).special_attributes = UNION {x[2].special_attributes : x \in Extending(ms, p.id)}
BY DEF Extended, WithSpecials

LEMMA PublishedPort ==
  ASSUME NEW m, NEW ports, NEW q \in Published(m, ports)
  PROVE  \E p \in ports : q.role = p.role /\ q.datatype = TypeMap(m, p.datatype)
                          /\ q.required = p.required /\ q.multiple = p.multiple
BY DEF Published, _port_from_manifest, PortSpec

LEMMA PortPublished ==
  ASSUME NEW m, NEW ports, NEW p \in ports
  PROVE  LET q == _port_from_manifest(m, p)
         IN  q \in Published(m, ports) /\ q.role = p.role /\ q.datatype = TypeMap(m, p.datatype)
             /\ q.required = p.required /\ q.multiple = p.multiple
BY DEF Published, _port_from_manifest, PortSpec

LEMMA ExtensionPort ==
  ASSUME NEW m, Declares(m), NEW e \in m.extensions, NEW port \in e.special_inputs
  PROVE  /\ IsPort(port) /\ IsId(port.role) /\ IsStrictPrefix(m.plugin_id, port.role) /\ Len(port.role) > 1
         /\ port.required = FALSE /\ port.datatype \in KnownTypes(m)
<1>1. IsPort(port) /\ IsId(port.role) /\ IsId(m.plugin_id) /\ port.required \in BOOLEAN
  BY DEF Declares, IsManifest, IsDict, IsPort
<1>2. ~port.required /\ port.datatype \in KnownTypes(m) /\ IsStrictPrefix(m.plugin_id, port.role)
  BY DEF Declares, ExtensionsOk, Roles
<1>3. Len(port.role) > 1
  BY <1>1, <1>2, StrictPrefixLong
<1> QED BY <1>1, <1>2, <1>3

LEMMA SpecialInput ==
  ASSUME NEW ms, Vetted(ms), NEW p, NEW port \in Extended(ms, p).special_inputs
  PROVE  /\ port.required = FALSE /\ Len(port.role) > 1
         /\ \E m \in ms : \E e \in m.extensions : ProcessorMap(m, e.id) = p.id
               /\ port \in Published(m, e.special_inputs)
<1>1. PICK x \in Extending(ms, p.id) : port \in Published(x[1], x[2].special_inputs)
  BY ExtendedFields
<1>2. PICK m \in ms : x \in {<<m, e>> : e \in {y \in m.extensions : ProcessorMap(m, y.id) = p.id}}
  BY <1>1 DEF Extending
<1>3. PICK e \in m.extensions : x = <<m, e>> /\ ProcessorMap(m, e.id) = p.id
  BY <1>2
<1>4. port \in Published(m, e.special_inputs)
  BY <1>1, <1>3
<1>5. PICK q \in e.special_inputs : port.role = q.role /\ port.required = q.required
  BY <1>4, PublishedPort
<1>6. q.required = FALSE /\ Len(q.role) > 1
  BY ExtensionPort DEF Vetted
<1>7. port.required = FALSE /\ Len(port.role) > 1
  BY <1>5, <1>6, Zenon
<1> QED BY <1>3, <1>4, <1>7

-----------------------------------------------------------------------------
(* Dataflow: what a step can draw on. *)

LEMMA InputSupplyFields ==
  ASSUME NEW d
  PROVE  LET s == _input_supply(d)
         IN  s.at = 0 /\ s.ref = "inputs" /\ s.port = d /\ s.datatype = d /\ s.verified = FALSE
BY DEF _input_supply, _Supply

LEMMA StepSupplyFields ==
  ASSUME NEW j, NEW step, NEW port
  PROVE  LET s == _step_supply(j, step, port)
         IN  /\ s.at = j /\ s.ref = step.ref /\ s.port = port.role /\ s.datatype = port.datatype
             /\ s.verified = (step.processor = <<"verify">> /\ port.role = <<"matches">>
                                /\ port.datatype = <<"match_graph">>)
BY DEF _step_supply, _Supply

LEMMA AvailableCases ==
  ASSUME NEW ins, NEW ss, NEW i, NEW used, NEW s \in Available(ins, ss, i, used)
  PROVE  \/ \E d \in Range(ins) : s = _input_supply(d)
         \/ \E j \in 1 .. i - 1 : \E p \in used[j] : \E port \in p.supplier : s = _step_supply(j, ss[j], port)
<1>1. CASE s \in Initially(ins)
  BY <1>1 DEF Initially
<1>2. CASE s \notin Initially(ins)
  <2>1. PICK j \in 1 .. i - 1 : s \in SuppliesOf(j, ss, used)
    BY <1>2 DEF Available
  <2>2. PICK p \in used[j] : s \in Outputs(j, ss[j], p)
    BY <2>1 DEF SuppliesOf
  <2>3. \E port \in p.supplier : s = _step_supply(j, ss[j], port)
    BY <2>2 DEF Outputs
  <2> QED BY <2>2, <2>3, Zenon
<1> QED BY <1>1, <1>2

LEMMA AvailableInput ==
  ASSUME NEW ins, NEW ss, NEW i, NEW used, NEW d \in Range(ins)
  PROVE  _input_supply(d) \in Available(ins, ss, i, used)
BY DEF Available, Initially

LEMMA AvailableOutput ==
  ASSUME NEW ins, NEW ss, NEW i, NEW used, NEW j \in 1 .. i - 1, NEW p \in used[j], NEW port \in p.supplier
  PROVE  _step_supply(j, ss[j], port) \in Available(ins, ss, i, used)
<1>1. _step_supply(j, ss[j], port) \in Outputs(j, ss[j], p)
  BY DEF Outputs
<1>2. _step_supply(j, ss[j], port) \in SuppliesOf(j, ss, used)
  BY <1>1 DEF SuppliesOf
<1> QED BY <1>2 DEF Available

\* Where a supply comes from: a position, and the inputs' or an earlier step's ref.
LEMMA SupplyOrigin ==
  ASSUME NEW ins, NEW ss, NEW i \in Nat, NEW used, NEW s \in Available(ins, ss, i, used)
  PROVE  s.at \in Nat /\ (s.ref = "inputs" \/ \E j \in 1 .. i - 1 : s.ref = ss[j].ref)
<1>1. ASSUME NEW d \in Range(ins), s = _input_supply(d)
      PROVE  s.at = 0 /\ s.ref = "inputs"
  BY <1>1, InputSupplyFields
<1>2. ASSUME NEW j \in 1 .. i - 1, NEW p \in used[j], NEW port \in p.supplier, s = _step_supply(j, ss[j], port)
      PROVE  s.at = j /\ s.ref = ss[j].ref
  <2>1. _step_supply(j, ss[j], port).at = j /\ _step_supply(j, ss[j], port).ref = ss[j].ref
    BY DEF _step_supply, _Supply
  <2> QED BY <1>2, <2>1, Zenon
<1>3. CASE \E d \in Range(ins) : s = _input_supply(d)
  BY <1>1, <1>3
<1>4. CASE \E j \in 1 .. i - 1 : \E p \in used[j] : \E port \in p.supplier : s = _step_supply(j, ss[j], port)
  <2>1. PICK j \in 1 .. i - 1 : s.at = j /\ s.ref = ss[j].ref
    BY <1>2, <1>4
  <2> QED BY <2>1
<1>5. \/ \E d \in Range(ins) : s = _input_supply(d)
      \/ \E j \in 1 .. i - 1 : \E p \in used[j] : \E port \in p.supplier : s = _step_supply(j, ss[j], port)
  BY AvailableCases
<1> QED BY <1>3, <1>4, <1>5

LEMMA FiniteRange ==
  ASSUME NEW s, IsList(s)
  PROVE  IsFiniteSet(Range(s))
<1>1. DOMAIN s = 1 .. Len(s) /\ Len(s) \in Nat
  BY ListDomain
<1>2. IsFiniteSet(DOMAIN s)
  BY <1>1, FS_Interval
<1>3. IsFiniteSet({s[x] : x \in DOMAIN s})
  BY <1>2, FiniteImage
<1> QED BY <1>3 DEF Range

LEMMA FiniteOutputs ==
  ASSUME NEW j, NEW step, NEW p, IsFiniteSet(p.supplier)
  PROVE  IsFiniteSet(Outputs(j, step, p))
<1> DEFINE S == p.supplier
           f == [port \in S |-> _step_supply(j, step, port)]
<1>1. DOMAIN f = S /\ IsFiniteSet(S) /\ Outputs(j, step, p) = {f[x] : x \in S}
  BY DEF Outputs
<1> HIDE DEF f, S
<1>2. IsFiniteSet({f[x] : x \in S})
  BY <1>1, FiniteImage
<1> QED BY <1>1, <1>2

LEMMA FiniteSupplies ==
  ASSUME NEW j, NEW ss, NEW used, IsFiniteSet(used[j]), \A p \in used[j] : IsFiniteSet(p.supplier)
  PROVE  IsFiniteSet(SuppliesOf(j, ss, used))
<1> DEFINE S == used[j]
           f == [p \in S |-> Outputs(j, ss[j], p)]
           T == {f[x] : x \in S}
<1>1. DOMAIN f = S /\ IsFiniteSet(S) /\ SuppliesOf(j, ss, used) = UNION T
  BY DEF SuppliesOf
<1>2. \A x \in T : IsFiniteSet(x)
  BY FiniteOutputs
<1> HIDE DEF f, S
<1>3. IsFiniteSet(T)
  BY <1>1, FiniteImage
<1> HIDE DEF T
<1>4. IsFiniteSet(UNION T)
  BY <1>2, <1>3, FS_UNION
<1> QED BY <1>1, <1>4

LEMMA AvailableFinite ==
  ASSUME NEW ins, NEW ss, NEW i \in Nat, NEW used, IsList(ins),
         \A j \in 1 .. i - 1 : IsFiniteSet(used[j]) /\ \A p \in used[j] : IsFiniteSet(p.supplier)
  PROVE  IsFiniteSet(Available(ins, ss, i, used))
<1>1. IsFiniteSet(Initially(ins))
  <2> DEFINE S == Range(ins)
             f == [d \in S |-> _input_supply(d)]
  <2>1. DOMAIN f = S /\ Initially(ins) = {f[x] : x \in S} /\ IsFiniteSet(S)
    BY FiniteRange DEF Initially
  <2> HIDE DEF f, S
  <2>2. IsFiniteSet({f[x] : x \in S})
    BY <2>1, FiniteImage
  <2> QED BY <2>1, <2>2
<1>2. IsFiniteSet(UNION {SuppliesOf(j, ss, used) : j \in 1 .. i - 1})
  <2> DEFINE S == 1 .. i - 1
             f == [j \in S |-> SuppliesOf(j, ss, used)]
             T == {f[x] : x \in S}
  <2>1. DOMAIN f = S /\ IsFiniteSet(S) /\ UNION {SuppliesOf(j, ss, used) : j \in 1 .. i - 1} = UNION T
    BY FS_Interval
  <2>2. \A x \in T : IsFiniteSet(x)
    BY FiniteSupplies
  <2> HIDE DEF f, S
  <2>3. IsFiniteSet(T)
    BY <2>1, FiniteImage
  <2> HIDE DEF T
  <2>4. IsFiniteSet(UNION T)
    BY <2>2, <2>3, FS_UNION
  <2> QED BY <2>1, <2>4
<1>3. IsFiniteSet(Initially(ins) \cup UNION {SuppliesOf(j, ss, used) : j \in 1 .. i - 1})
  BY <1>1, <1>2, FS_Union
<1> QED BY <1>3 DEF Available

-----------------------------------------------------------------------------
(* Dataflow: the dependencies of a step. *)

LEMMA DepsAvailable ==
  ASSUME NEW step, NEW port, NEW available
  PROVE  PortDeps(step, port, available) \subseteq available
BY DEF PortDeps, _parse_wire_ref

LEMMA DepOrigin ==
  ASSUME NEW ss, NEW ins, NEW i, NEW used, NEW r \in inferred_step_dependencies(ss, ins, i, used)
  PROVE  r # "inputs" /\ \E s \in Available(ins, ss, i, used) : r = s.ref
<1>1. PICK s \in UNION {StepDeps(ss[i], p, Available(ins, ss, i, used)) : p \in used[i]} : r = s.ref
  BY DEF inferred_step_dependencies
<1>2. PICK p \in used[i] : s \in StepDeps(ss[i], p, Available(ins, ss, i, used))
  BY <1>1
<1>3. PICK port \in _processor_consumer(p) : s \in PortDeps(ss[i], port, Available(ins, ss, i, used))
  BY <1>2 DEF StepDeps
<1>4. s \in Available(ins, ss, i, used)
  BY <1>3, DepsAvailable
<1> QED BY <1>1, <1>4 DEF inferred_step_dependencies

LEMMA DepKept ==
  ASSUME NEW ss, NEW ins, NEW i, NEW used, NEW p \in used[i], NEW port \in _processor_consumer(p),
         NEW s \in PortDeps(ss[i], port, Available(ins, ss, i, used))
  PROVE  s.ref \in inferred_step_dependencies(ss, ins, i, used) \cup {"inputs"}
<1>1. s \in StepDeps(ss[i], p, Available(ins, ss, i, used))
  BY DEF StepDeps
<1>2. s \in UNION {StepDeps(ss[i], q, Available(ins, ss, i, used)) : q \in used[i]}
  BY <1>1
<1> QED BY <1>2 DEF inferred_step_dependencies

LEMMA LeastAt ==
  ASSUME NEW S, S # {}, \A s \in S : s.at \in Nat
  PROVE  \E s \in S : \A t \in S : s.at <= t.at
<1> DEFINE T == {s.at : s \in S}
<1>1. T \in SUBSET Nat /\ T # {}
  OBVIOUS
<1> HIDE DEF T
<1>2. PICK n \in T : \A k \in T : ~(<<k, n>> \in OpToRel(<, Nat))
  BY <1>1, NatLessThanWellFounded, WFMin
<1>3. OpToRel(<, Nat) = {p \in Nat \X Nat : p[1] < p[2]}
  BY Zenon DEF OpToRel
<1>4. \A k \in T : ~(<<k, n>> \in {p \in Nat \X Nat : p[1] < p[2]})
  BY <1>2, <1>3, Zenon
<1>5. \A k \in T : ~(k < n)
  BY <1>1, <1>4
<1>6. \A k \in T : n <= k
  BY <1>1, <1>5
<1> QED BY <1>2, <1>6 DEF T

LEMMA TwoElements ==
  ASSUME NEW S, IsFiniteSet(S)
  PROVE  Cardinality(S) > 1 <=> \E x, y \in S : x # y
<1>1. Cardinality(S) \in Nat
  BY FS_CardinalityType
<1>2. ASSUME NEW x \in S, NEW y \in S, x # y
      PROVE  Cardinality(S) > 1
  <2>1. IsFiniteSet({x}) /\ Cardinality({x}) = 1
    BY FS_Singleton
  <2>2. IsFiniteSet({x} \cup {y}) /\ Cardinality({x} \cup {y}) = 2
    <3>1. y \notin {x} /\ IsFiniteSet({x})
      BY <1>2, <2>1
    <3>2. Cardinality({x} \cup {y}) = Cardinality({x}) + 1 /\ IsFiniteSet({x} \cup {y})
      BY <3>1, FS_AddElement, Zenon
    <3> QED BY <2>1, <3>2
  <2>3. {x} \cup {y} \in SUBSET S
    BY <1>2
  <2>4. Cardinality({x} \cup {y}) <= Cardinality(S)
    BY <2>3, FS_Subset
  <2> QED BY <1>1, <2>2, <2>4
<1>3. ASSUME \A x, y \in S : x = y
      PROVE  ~(Cardinality(S) > 1)
  <2>1. CASE S = {}
    BY <2>1, FS_EmptySet
  <2>2. CASE S # {}
    <3>1. PICK x \in S : TRUE
      BY <2>2
    <3>2. S = {x}
      BY <1>3, <3>1
    <3> QED BY <3>2, FS_Singleton
  <2> QED BY <2>1, <2>2
<1> QED BY <1>2, <1>3

\* The supplies among a port's dependencies that the port can use.
Usable(step, port, available) ==
  {s \in PortDeps(step, port, available) :
     /\ s.datatype = port.datatype
     /\ _requires_verified_match_graph(step.processor, port.role) => s.verified}

LEMMA WiredSupplied ==
  ASSUME NEW step, NEW port, NEW available, port.role \in DOMAIN step.wires,
         WiredOk(step, port, available)
  PROVE  \A k \in DOMAIN step.wires[port.role].refs : \E s \in Usable(step, port, available) :
           s.ref = step.wires[port.role].refs[k].ref /\ s.port = step.wires[port.role].refs[k].port
<1> DEFINE refs == step.wires[port.role].refs
<1> SUFFICES ASSUME NEW k \in DOMAIN refs
             PROVE  \E s \in Usable(step, port, available) : s.ref = refs[k].ref /\ s.port = refs[k].port
  OBVIOUS
<1>1. PICK s \in _parse_wire_ref(refs[k], available) :
        /\ s.datatype = port.datatype
        /\ _requires_verified_match_graph(step.processor, port.role) => s.verified
  BY DEF WiredOk
<1>2. refs[k] \in Range(refs)
  BY DEF Range
<1>3. PortDeps(step, port, available) = UNION {_parse_wire_ref(w, available) : w \in Range(refs)}
  BY DEF PortDeps
<1>4. s \in PortDeps(step, port, available)
  BY <1>1, <1>2, <1>3
<1>5. s.ref = refs[k].ref /\ s.port = refs[k].port
  BY <1>1 DEF _parse_wire_ref
<1> QED BY <1>1, <1>4, <1>5 DEF Usable

\* The wires of one port are a list of references.
PlainWire(raw) ==
  IsList(raw.refs) /\ \A k \in DOMAIN raw.refs : raw.refs[k] = [ref |-> raw.refs[k].ref, port |-> raw.refs[k].port]

LEMMA WiredTwice ==
  ASSUME NEW step, NEW port, NEW available, port.role \in DOMAIN step.wires, PlainWire(step.wires[port.role]),
         WiredOk(step, port, available)
  PROVE  /\ port.required => Usable(step, port, available) # {}
         /\ port.required /\ port.multiple => \E s, t \in Usable(step, port, available) : s # t
<1> DEFINE refs == step.wires[port.role].refs
<1>1. /\ port.required => refs # <<>>
      /\ port.required /\ port.multiple => Len(refs) # 1 /\ ~Repeated(refs)
  BY DEF WiredOk
<1>2. IsList(refs) /\ \A k \in DOMAIN refs : refs[k] = [ref |-> refs[k].ref, port |-> refs[k].port]
  BY DEF PlainWire
<1>3. \A k \in DOMAIN refs : \E s \in Usable(step, port, available) : s.ref = refs[k].ref /\ s.port = refs[k].port
  BY WiredSupplied
<1> HIDE DEF refs
<1>4. refs \in Seq(Range(refs)) /\ DOMAIN refs = 1 .. Len(refs) /\ Len(refs) \in Nat
  BY <1>2, ListDomain
<1>5. refs # <<>> => Len(refs) # 0
  BY <1>4, EmptySeq
<1>6. ASSUME port.required
      PROVE  Usable(step, port, available) # {}
  <2>1. 1 \in DOMAIN refs
    BY <1>1, <1>4, <1>5, <1>6
  <2> QED BY <1>3, <2>1
<1>7. ASSUME port.required, port.multiple
      PROVE  \E s, t \in Usable(step, port, available) : s # t
  <2>1. 1 \in DOMAIN refs /\ 2 \in DOMAIN refs /\ 1 < 2
    BY <1>1, <1>4, <1>5, <1>7
  <2>2. refs[1] # refs[2]
    BY <1>1, <1>7, <2>1 DEF Repeated
  <2>3. refs[1].ref # refs[2].ref \/ refs[1].port # refs[2].port
    BY <1>2, <2>1, <2>2, Zenon
  <2>4. PICK s \in Usable(step, port, available) : s.ref = refs[1].ref /\ s.port = refs[1].port
    BY <1>3, <2>1
  <2>5. PICK t \in Usable(step, port, available) : t.ref = refs[2].ref /\ t.port = refs[2].port
    BY <1>3, <2>1
  <2> QED BY <2>3, <2>4, <2>5
<1> QED BY <1>6, <1>7

LEMMA InferredSupplied ==
  ASSUME NEW step, NEW port, NEW available, IsFiniteSet(available), \A s \in available : s.at \in Nat,
         port.role \notin DOMAIN step.wires, port.required,
         _requires_verified_match_graph(step.processor, port.role) => ~port.multiple,
         InferredOk(step, port, available)
  PROVE  /\ Usable(step, port, available) # {}
         /\ port.multiple => \E s, t \in Usable(step, port, available) : s # t
<1> DEFINE candidates == {s \in available : s.datatype = port.datatype}
           needs == _requires_verified_match_graph(step.processor, port.role)
           fitting == {s \in available : s.datatype = port.datatype /\ (needs => s.verified)}
           first == {s \in fitting : \A t \in fitting : s.at <= t.at}
<1>1. /\ candidates # {} /\ (port.multiple => Cardinality(candidates) > 1)
      /\ needs => \E s \in candidates : s.verified
  BY DEF InferredOk
<1>2. PortDeps(step, port, available) = IF port.multiple THEN fitting ELSE first
  BY DEF PortDeps
<1>3. Usable(step, port, available) = PortDeps(step, port, available)
  BY <1>2 DEF Usable
<1>4. fitting # {} /\ \A s \in fitting : s.at \in Nat
  BY <1>1
<1>5. port.multiple => fitting = candidates
  OBVIOUS
<1>6. IsFiniteSet(candidates)
  BY FS_Subset
<1> HIDE DEF fitting, candidates
<1>7. first # {}
  BY <1>4, LeastAt
<1> HIDE DEF first
<1>8. port.multiple => \E s, t \in candidates : s # t
  BY <1>1, <1>6, TwoElements
<1> QED BY <1>2, <1>3, <1>4, <1>5, <1>7, <1>8

-----------------------------------------------------------------------------
(* Dataflow: the request in the registry of the active plugins. *)

LEMMA Listed ==
  ASSUME NEW n \in Nat, NEW f, f = [k \in 1 .. n |-> f[k]]
  PROVE  IsList(f) /\ Len(f) = n /\ DOMAIN f = 1 .. n
<1>1. Range(f) = {f[k] : k \in 1 .. n} /\ DOMAIN f = 1 .. n
  BY DEF Range
<1>2. f \in [1 .. n -> Range(f)]
  BY <1>1
<1>3. f \in Seq(Range(f))
  BY <1>2, SeqDef
<1>4. DOMAIN f = 1 .. Len(f) /\ Len(f) \in Nat
  BY <1>3, LenProperties
<1>5. Len(f) = n
  BY <1>1, <1>4, SeqDef, <1>2, <1>3
<1> QED BY <1>1, <1>3, <1>5 DEF IsList

LEMMA ActiveVetted ==
  ASSUME DataflowInv
  PROVE  Vetted(active)
<1>1. \A m \in active : m \in Manifests /\ HubAccepts(m)
  BY DEF DataflowInv, DataflowTypeOK
<1>2. \A m \in active : Declares(m)
  BY <1>1, DataflowAssumption DEF Declares, HubAccepts, _validate_typed_extension_graph, PipelinesOk
<1>3. \A m, n \in active : m.plugin_id = n.plugin_id => m = n
  BY <1>1, DataflowAssumption
<1> QED BY <1>2, <1>3 DEF Vetted

LEMMA CoreDeclared ==
  ASSUME NEW ms
  PROVE  CORE_PROCESSORS \subseteq DeclaredProcessors(ms) /\ Ids(CORE_PROCESSORS) \subseteq Ids(DeclaredProcessors(ms))
BY DEF DeclaredProcessors, Ids

\* At most one processor answers to a name.
LEMMA NamedOnce ==
  ASSUME NEW ms, Vetted(ms), NEW id
  PROVE  /\ IsFiniteSet(ProcessorsNamed(DeclaredProcessors(ms), id))
         /\ \A p, q \in ProcessorsNamed(DeclaredProcessors(ms), id) : p = q
<1> DEFINE S == ProcessorsNamed(DeclaredProcessors(ms), id)
<1>1. \A p, q \in S : p = q
  BY DeclaredUnique DEF ProcessorsNamed
<1> HIDE DEF S
<1>2. IsFiniteSet(S)
  <2>1. CASE S = {}
    BY <2>1, FS_EmptySet
  <2>2. CASE S # {}
    <3>1. PICK x \in S : TRUE
      BY <2>2
    <3>2. S = {x}
      BY <1>1, <3>1
    <3> QED BY <3>2, FS_Singleton
  <2> QED BY <2>1, <2>2
<1> QED BY <1>1, <1>2 DEF S

LEMMA UsedIs ==
  ASSUME NEW ms, NEW ss, NEW i \in DOMAIN ss
  PROVE  Used(ms, ss)[i] = {Extended(ms, p) : p \in ProcessorsNamed(DeclaredProcessors(ms), canonical_processor(ms, ss[i].processor))}
BY DEF Used, processor_for

LEMMA UsedFinite ==
  ASSUME NEW ms, Vetted(ms), NEW ss, NEW i \in DOMAIN ss
  PROVE  IsFiniteSet(Used(ms, ss)[i]) /\ \A p \in Used(ms, ss)[i] : IsFiniteSet(p.supplier)
<1> DEFINE S == ProcessorsNamed(DeclaredProcessors(ms), canonical_processor(ms, ss[i].processor))
           f == [p \in S |-> Extended(ms, p)]
<1>1. DOMAIN f = S /\ IsFiniteSet(S) /\ Used(ms, ss)[i] = {f[x] : x \in S}
  BY NamedOnce, UsedIs
<1>2. ASSUME NEW p \in S
      PROVE  IsFiniteSet(Extended(ms, p).supplier)
  <2>1. p \in DeclaredProcessors(ms)
    BY DEF ProcessorsNamed
  <2> QED BY <2>1, SuppliersFinite, ExtendedFields
<1>3. \A p \in Used(ms, ss)[i] : IsFiniteSet(p.supplier)
  BY <1>2, UsedIs
<1> HIDE DEF S, f
<1>4. IsFiniteSet({f[x] : x \in S})
  BY <1>1, FiniteImage
<1> QED BY <1>1, <1>3, <1>4

\* The port of map and triangulate that needs a verified match graph takes one wire.
LEMMA VerifiedIsSingle ==
  ASSUME NEW ms, Vetted(ms), NEW ss, NEW i \in DOMAIN ss, NEW p \in Used(ms, ss)[i],
         NEW port \in _processor_consumer(p), _requires_verified_match_graph(ss[i].processor, port.role)
  PROVE  ~port.multiple
<1> DEFINE id == ss[i].processor
<1>1. id \in {<<"map">>, <<"triangulate">>} /\ port.role = <<"matches">>
  BY DEF _requires_verified_match_graph
<1>2. id \in Ids(CORE_PROCESSORS)
  <2>1. Processor("map", {_port("features", "feature_set"), _port("matches", "match_graph")},
                  {_port("model", "sparse_model")}) \in CORE_PROCESSORS
    BY DEF CORE_PROCESSORS
  <2>2. Processor("triangulate", {_port("model", "sparse_model"), _port("matches", "match_graph")},
                  {_port("model", "sparse_model")}) \in CORE_PROCESSORS
    BY DEF CORE_PROCESSORS
  <2>3. \A x, c, u : Processor(x, c, u).id = <<x>>
    BY DEF Processor
  <2> QED BY <1>1, <2>1, <2>2, <2>3 DEF Ids
<1>3. canonical_processor(ms, id) = id
  BY <1>2 DEF canonical_processor, Resolve
<1>4. PICK q \in ProcessorsNamed(DeclaredProcessors(ms), id) : p = Extended(ms, q)
  BY <1>3, UsedIs
<1>5. PICK c \in CORE_PROCESSORS : c.id = id
  BY <1>2 DEF Ids
<1>6. q = c
  BY <1>4, <1>5, DeclaredUnique, CoreDeclared DEF ProcessorsNamed
<1>7. Len(port.role) = 1
  BY <1>1, Singles
<1>8. port \notin p.special_inputs
  <2> SUFFICES ASSUME port \in p.special_inputs PROVE FALSE
    OBVIOUS
  <2>1. port \in Extended(ms, q).special_inputs
    BY <1>4, Zenon
  <2>2. Len(port.role) > 1
    BY <2>1, SpecialInput
  <2> QED BY <1>7, <2>2
<1>9. port \in c.consumer
  BY <1>4, <1>6, <1>8, ExtendedFields DEF _processor_consumer
<1>10. _requires_verified_match_graph(c.id, port.role)
  BY <1>5
<1> QED BY <1>9, <1>10, CoreProcessors DEF CoreShape

LEMMA CanonicalStep ==
  ASSUME NEW ms, NEW ss, NEW i \in DOMAIN ss
  PROVE  LET c == _canonicalize_initial_input_wires(ms, ss)[i]
         IN  /\ c.ref = ss[i].ref /\ c.attr = ss[i].attr /\ c.processor = ss[i].processor
             /\ DOMAIN c.wires = DOMAIN ss[i].wires
             /\ \A r \in DOMAIN ss[i].wires :
                  /\ c.wires[r].list = ss[i].wires[r].list
                  /\ c.wires[r].refs = [k \in DOMAIN ss[i].wires[r].refs |->
                       IF ss[i].wires[r].refs[k].ref = "inputs"
                       THEN [ref |-> ss[i].wires[r].refs[k].ref,
                             port |-> canonical_datatype(ms, ss[i].wires[r].refs[k].port)]
                       ELSE ss[i].wires[r].refs[k]]
BY DEF _canonicalize_initial_input_wires

LEMMA CanonicalPlain ==
  ASSUME NEW ms, NEW ss, NEW i \in DOMAIN ss, IsStep(ss[i]), NEW r \in DOMAIN ss[i].wires
  PROVE  PlainWire(_canonicalize_initial_input_wires(ms, ss)[i].wires[r])
<1> DEFINE old == ss[i].wires[r].refs
           new == _canonicalize_initial_input_wires(ms, ss)[i].wires[r].refs
<1>1. new = [k \in DOMAIN old |-> IF old[k].ref = "inputs"
                                  THEN [ref |-> old[k].ref, port |-> canonical_datatype(ms, old[k].port)]
                                  ELSE old[k]]
  BY CanonicalStep
<1>2. IsList(old) /\ \A k \in DOMAIN old : old[k] = [ref |-> old[k].ref, port |-> old[k].port]
  BY DEF IsStep, IsWire, IsWireRef
<1> HIDE DEF old, new
<1>3. DOMAIN old = 1 .. Len(old) /\ Len(old) \in Nat
  BY <1>2, ListDomain
<1>4. new = [k \in 1 .. Len(old) |-> new[k]] /\ DOMAIN new = DOMAIN old
  BY <1>1, <1>3
<1>5. IsList(new)
  BY <1>3, <1>4, Listed
<1>6. \A k \in DOMAIN new : new[k] = [ref |-> new[k].ref, port |-> new[k].port]
  BY <1>1, <1>2, <1>4
<1> QED BY <1>5, <1>6 DEF new, PlainWire

\* A composed request, as the strict checker and the planner see it.
LEMMA DependenciesHold ==
  ASSUME DataflowInv, _strict_validate_pipeline(NativeSteps, NativeInputs, Used(active, NativeSteps)),
         NEW i \in DOMAIN NativeSteps
  PROVE  /\ IsFiniteSet(Available(NativeInputs, NativeSteps, i, Used(active, NativeSteps)))
         /\ \A p \in Used(active, NativeSteps)[i] : \A port \in _processor_consumer(p) :
              LET used == Usable(NativeSteps[i], port, Available(NativeInputs, NativeSteps, i, Used(active, NativeSteps)))
              IN  /\ port.required => used # {}
                  /\ port.required /\ port.multiple => \E s, t \in used : s # t
                  /\ port.role \in DOMAIN NativeSteps[i].wires =>
                       \A k \in DOMAIN NativeSteps[i].wires[port.role].refs :
                         \E s \in used : /\ s.ref = NativeSteps[i].wires[port.role].refs[k].ref
                                         /\ s.port = NativeSteps[i].wires[port.role].refs[k].port
<1> DEFINE ss == NativeSteps
           ins == NativeInputs
           procs == Used(active, ss)
           before == Available(ins, ss, i, procs)
<1>1. Vetted(active)
  BY ActiveVetted
<1>2. DOMAIN steps = 1 .. Len(steps) /\ Len(steps) \in Nat /\ DOMAIN ss = DOMAIN steps
  BY ListDomain DEF DataflowInv, NativeSteps, _canonicalize_initial_input_wires
<1>3. IsList(ins)
  <2>1. IsList(inputs)
    BY DataflowAssumption DEF DataflowInv, DataflowTypeOK
  <2>2. DOMAIN inputs = 1 .. Len(inputs) /\ Len(inputs) \in Nat
    BY <2>1, ListDomain
  <2>3. ins = [k \in 1 .. Len(inputs) |-> ins[k]]
    BY <2>2 DEF NativeInputs
  <2> HIDE DEF ins
  <2> QED BY <2>2, <2>3, Listed
<1>4. i \in Nat /\ i \in DOMAIN steps /\ \A j \in 1 .. i - 1 : j \in DOMAIN ss
  BY <1>2
<1>5. \A r \in DOMAIN ss[i].wires : PlainWire(ss[i].wires[r])
  <2>1. IsStep(steps[i]) /\ DOMAIN ss[i].wires = DOMAIN steps[i].wires
    BY <1>4, CanonicalStep DEF DataflowInv, NativeSteps
  <2> QED BY <1>4, <2>1, CanonicalPlain DEF NativeSteps
<1>6. \A p \in procs[i] : \A port \in _processor_consumer(p) :
        _requires_verified_match_graph(ss[i].processor, port.role) => ~port.multiple
  BY <1>1, VerifiedIsSingle
<1>7. \A j \in 1 .. i - 1 : IsFiniteSet(procs[j]) /\ \A p \in procs[j] : IsFiniteSet(p.supplier)
  BY <1>1, <1>4, UsedFinite
<1>8. \A p \in procs[i] : \A port \in _processor_consumer(p) :
        IF port.role \in DOMAIN ss[i].wires THEN WiredOk(ss[i], port, before) ELSE InferredOk(ss[i], port, before)
  BY DEF _strict_validate_pipeline
<1> HIDE DEF ss, ins, procs
<1>9. IsFiniteSet(before)
  BY <1>3, <1>4, <1>7, AvailableFinite
<1>10. \A s \in before : s.at \in Nat
  BY <1>4, SupplyOrigin
<1> HIDE DEF before
<1>11. ASSUME NEW p \in procs[i], NEW port \in _processor_consumer(p)
       PROVE  LET used == Usable(ss[i], port, before)
              IN  /\ port.required => used # {}
                  /\ port.required /\ port.multiple => \E s, t \in used : s # t
                  /\ port.role \in DOMAIN ss[i].wires =>
                       \A k \in DOMAIN ss[i].wires[port.role].refs :
                         \E s \in used : /\ s.ref = ss[i].wires[port.role].refs[k].ref
                                         /\ s.port = ss[i].wires[port.role].refs[k].port
  <2>1. CASE port.role \in DOMAIN ss[i].wires
    <3>1. WiredOk(ss[i], port, before) /\ PlainWire(ss[i].wires[port.role])
      BY <1>5, <1>8, <1>11, <2>1
    <3>2. /\ port.required => Usable(ss[i], port, before) # {}
          /\ port.required /\ port.multiple => \E s, t \in Usable(ss[i], port, before) : s # t
      BY <2>1, <3>1, WiredTwice
    <3>3. \A k \in DOMAIN ss[i].wires[port.role].refs : \E s \in Usable(ss[i], port, before) :
            s.ref = ss[i].wires[port.role].refs[k].ref /\ s.port = ss[i].wires[port.role].refs[k].port
      BY <2>1, <3>1, WiredSupplied
    <3> QED BY <3>2, <3>3
  <2>2. CASE port.role \notin DOMAIN ss[i].wires
    <3>1. InferredOk(ss[i], port, before)
      BY <1>8, <1>11, <2>2
    <3>2. _requires_verified_match_graph(ss[i].processor, port.role) => ~port.multiple
      BY <1>6, <1>11
    <3>3. port.required => /\ Usable(ss[i], port, before) # {}
                           /\ port.multiple => \E s, t \in Usable(ss[i], port, before) : s # t
      BY <1>9, <1>10, <2>2, <3>1, <3>2, InferredSupplied
    <3> QED BY <2>2, <3>3
  <2> QED BY <2>1, <2>2
<1> QED BY <1>9, <1>11 DEF ss, ins, procs, before

LEMMA DepsCompleteHolds ==
  ASSUME DataflowInv
  PROVE  DepsComplete
<1> DEFINE ss == NativeSteps
           ins == NativeInputs
           procs == Used(active, ss)
           deps(i) == inferred_step_dependencies(ss, ins, i, procs)
           before(i) == Available(ins, ss, i, procs)
           used(i, port) ==
             {s \in before(i) :
                /\ s.ref \in deps(i) \cup {"inputs"}
                /\ s.datatype = port.datatype
                /\ _requires_verified_match_graph(ss[i].processor, port.role) => s.verified}
<1> SUFFICES ASSUME _strict_validate_pipeline(ss, ins, procs), NEW i \in DOMAIN ss
             PROVE  /\ deps(i) \subseteq {ss[j].ref : j \in 1 .. i - 1}
                    /\ \A p \in procs[i] : \A port \in _processor_consumer(p) :
                         /\ port.required => used(i, port) # {}
                         /\ port.required /\ port.multiple => Cardinality(used(i, port)) > 1
                         /\ port.role \in DOMAIN ss[i].wires =>
                              \A w \in Range(ss[i].wires[port.role].refs) :
                                \E s \in used(i, port) : s.ref = w.ref /\ s.port = w.port
  BY DEF DepsComplete
<1>1. IsFiniteSet(before(i))
  BY DependenciesHold
<1>2. i \in Nat
  <2>1. DOMAIN ss = DOMAIN steps /\ DOMAIN steps = 1 .. Len(steps) /\ Len(steps) \in Nat
    BY ListDomain DEF DataflowInv, NativeSteps, _canonicalize_initial_input_wires
  <2> QED BY <2>1
<1>3. ASSUME NEW p \in procs[i], NEW port \in _processor_consumer(p)
      PROVE  /\ port.required => Usable(ss[i], port, before(i)) # {}
             /\ port.required /\ port.multiple => \E s, t \in Usable(ss[i], port, before(i)) : s # t
             /\ port.role \in DOMAIN ss[i].wires =>
                  \A k \in DOMAIN ss[i].wires[port.role].refs :
                    \E s \in Usable(ss[i], port, before(i)) :
                       /\ s.ref = ss[i].wires[port.role].refs[k].ref
                       /\ s.port = ss[i].wires[port.role].refs[k].port
  BY DependenciesHold
<1> HIDE DEF ss, ins, procs
<1>4. deps(i) \subseteq {ss[j].ref : j \in 1 .. i - 1}
  <2> SUFFICES ASSUME NEW r \in deps(i) PROVE r \in {ss[j].ref : j \in 1 .. i - 1}
    OBVIOUS
  <2>1. r # "inputs" /\ \E s \in before(i) : r = s.ref
    BY DepOrigin
  <2>2. PICK s \in before(i) : r = s.ref
    BY <2>1
  <2>3. s.ref = "inputs" \/ \E j \in 1 .. i - 1 : s.ref = ss[j].ref
    BY <1>2, SupplyOrigin
  <2> QED BY <2>1, <2>2, <2>3
<1>5. ASSUME NEW p \in procs[i], NEW port \in _processor_consumer(p)
      PROVE  Usable(ss[i], port, before(i)) \subseteq used(i, port)
  <2> SUFFICES ASSUME NEW s \in Usable(ss[i], port, before(i)) PROVE s \in used(i, port)
    OBVIOUS
  <2>1. /\ s \in PortDeps(ss[i], port, before(i)) /\ s.datatype = port.datatype
        /\ _requires_verified_match_graph(ss[i].processor, port.role) => s.verified
    BY DEF Usable
  <2>2. s \in before(i)
    BY <2>1, DepsAvailable
  <2>3. s.ref \in deps(i) \cup {"inputs"}
    BY <2>1, <1>5, DepKept
  <2> QED BY <2>1, <2>2, <2>3
<1>6. ASSUME NEW p \in procs[i], NEW port \in _processor_consumer(p)
      PROVE  /\ port.required => used(i, port) # {}
             /\ port.required /\ port.multiple => Cardinality(used(i, port)) > 1
             /\ port.role \in DOMAIN ss[i].wires =>
                  \A w \in Range(ss[i].wires[port.role].refs) :
                    \E s \in used(i, port) : s.ref = w.ref /\ s.port = w.port
  <2>1. IsFiniteSet(used(i, port))
    BY <1>1, FS_Subset
  <2>2. Usable(ss[i], port, before(i)) \subseteq used(i, port)
    BY <1>5, <1>6
  <2> HIDE DEF used, before
  <2>3. port.required => used(i, port) # {}
    BY <1>3, <1>6, <2>2
  <2>4. port.required /\ port.multiple => \E s, t \in used(i, port) : s # t
    BY <1>3, <1>6, <2>2
  <2>5. port.required /\ port.multiple => Cardinality(used(i, port)) > 1
    BY <2>1, <2>4, TwoElements
  <2>6. ASSUME port.role \in DOMAIN ss[i].wires, NEW w \in Range(ss[i].wires[port.role].refs)
        PROVE  \E s \in used(i, port) : s.ref = w.ref /\ s.port = w.port
    <3>1. PICK k \in DOMAIN ss[i].wires[port.role].refs : w = ss[i].wires[port.role].refs[k]
      BY <2>6 DEF Range
    <3>2. PICK s \in Usable(ss[i], port, before(i)) :
             /\ s.ref = ss[i].wires[port.role].refs[k].ref
             /\ s.port = ss[i].wires[port.role].refs[k].port
      BY <1>3, <1>6, <2>6
    <3> QED BY <2>2, <3>1, <3>2
  <2> QED BY <2>3, <2>5, <2>6
<1> QED BY <1>4, <1>6

\* Once a pipeline composes, the task graph the planner infers feeds every port of
\* every step: the dependencies name earlier steps, and among them or the inputs is a
\* producer of what the port needs, verified for map and triangulate, two for a port
\* that takes many, and the one each wire names.
THEOREM DependenciesAreComplete == DataflowSpec => []DepsComplete
BY DataflowInductive, DepsCompleteHolds, PTL

-----------------------------------------------------------------------------
(* Dataflow: local names and canonical names. *)

Local(x) == IsId(x) /\ Len(x) = 1

LEMMA NotOne ==
  ASSUME NEW n, n > 1
  PROVE  n # 1
<1> SUFFICES ASSUME n = 1 PROVE FALSE
  OBVIOUS
<1>1. 1 > 1
  BY Zenon
<1> QED BY ONLY <1>1

LEMMA KnownLocal ==
  ASSUME NEW m, Declares(m), NEW d \in KnownTypes(m)
  PROVE  Local(d)
<1>1. CASE d \in CORE_DATA_TYPES
  BY <1>1, CoreTypes DEF Local
<1>2. CASE d \in m.datatypes
  BY <1>2, OwnType DEF Local
<1> QED BY <1>1, <1>2 DEF KnownTypes

LEMMA CoreTypeKept ==
  ASSUME NEW m, Declares(m), NEW d, d \notin m.datatypes
  PROVE  TypeMap(m, d) = d
BY DEF TypeMap

LEMMA CoreNotOwn ==
  ASSUME NEW m, Declares(m), NEW d \in CORE_DATA_TYPES
  PROVE  d \notin m.datatypes /\ TypeMap(m, d) = d
BY OwnType, CoreTypeKept

\* Canonical names of different local names differ.
LEMMA TypeInjective ==
  ASSUME NEW m, Declares(m), NEW x, NEW y, Local(x), Local(y), TypeMap(m, x) = TypeMap(m, y)
  PROVE  x = y
<1>1. IsId(m.plugin_id)
  BY DEF Declares, IsManifest
<1>2. ASSUME NEW z, z \in m.datatypes, Local(z)
      PROVE  TypeMap(m, z) = m.plugin_id \o z /\ Len(TypeMap(m, z)) # 1
  BY <1>2, OwnType
<1>3. ASSUME NEW z, z \notin m.datatypes, Local(z)
      PROVE  TypeMap(m, z) = z /\ Len(TypeMap(m, z)) = 1
  BY <1>3, CoreTypeKept DEF Local
<1>4. CASE x \in m.datatypes /\ y \in m.datatypes
  <2> DEFINE a == m.plugin_id
  <2>1. IsId(a) /\ Local(x) /\ Local(y) /\ a \o x = a \o y
    BY <1>1, <1>2, <1>4
  <2> HIDE DEF a
  <2> QED BY ONLY <2>1, Qualified DEF Local
<1>5. CASE x \notin m.datatypes /\ y \notin m.datatypes
  BY <1>3, <1>5
<1>6. CASE x \in m.datatypes /\ y \notin m.datatypes
  BY <1>2, <1>3, <1>6, Zenon
<1>7. CASE x \notin m.datatypes /\ y \in m.datatypes
  BY <1>2, <1>3, <1>7, Zenon
<1> QED BY <1>4, <1>5, <1>6, <1>7

LEMMA CoreLocal ==
  ASSUME NEW id \in Ids(CORE_PROCESSORS)
  PROVE  Local(id)
<1>1. PICK p \in CORE_PROCESSORS : id = p.id
  BY DEF Ids
<1>2. IsId(p.id) /\ Len(p.id) = 1
  BY CoreProcessors DEF CoreShape, IsProcessor
<1> QED BY <1>1, <1>2, Zenon DEF Local

LEMMA OwnIdOf ==
  ASSUME NEW m, Declares(m), NEW id \in Ids(m.processors)
  PROVE  /\ Local(id) /\ id \notin Ids(CORE_PROCESSORS) /\ ProcessorMap(m, id) = m.plugin_id \o id
         /\ Len(ProcessorMap(m, id)) # 1
<1>1. PICK p \in m.processors : id = p.id
  BY DEF Ids
<1>2. /\ IsId(p.id) /\ Len(p.id) = 1 /\ p.id \notin Ids(CORE_PROCESSORS)
      /\ ProcessorMap(m, p.id) = m.plugin_id \o p.id /\ Len(ProcessorMap(m, p.id)) > 1
  BY OwnProcessor
<1>3. Len(ProcessorMap(m, p.id)) # 1
  BY <1>2, NotOne, Zenon
<1> QED BY <1>1, <1>2, <1>3, Zenon DEF Local

LEMMA ProcessorKept ==
  ASSUME NEW m, NEW id, id \notin Ids(m.processors)
  PROVE  ProcessorMap(m, id) = id
BY DEF ProcessorMap

LEMMA ProcessorInjective ==
  ASSUME NEW m, Declares(m), NEW x, NEW y, Local(x), Local(y), ProcessorMap(m, x) = ProcessorMap(m, y)
  PROVE  x = y
<1>1. IsId(m.plugin_id)
  BY DEF Declares, IsManifest
<1>2. ASSUME NEW z, z \in Ids(m.processors), Local(z)
      PROVE  ProcessorMap(m, z) = m.plugin_id \o z /\ Len(ProcessorMap(m, z)) # 1
  BY <1>2, OwnIdOf
<1>3. ASSUME NEW z, z \notin Ids(m.processors), Local(z)
      PROVE  ProcessorMap(m, z) = z /\ Len(ProcessorMap(m, z)) = 1
  BY <1>3, ProcessorKept, Zenon DEF Local
<1>4. CASE x \in Ids(m.processors) /\ y \in Ids(m.processors)
  <2> DEFINE a == m.plugin_id
  <2>1. IsId(a) /\ Local(x) /\ Local(y) /\ a \o x = a \o y
    BY <1>1, <1>2, <1>4
  <2> HIDE DEF a
  <2> QED BY ONLY <2>1, Qualified DEF Local
<1>5. CASE x \notin Ids(m.processors) /\ y \notin Ids(m.processors)
  BY <1>3, <1>5
<1>6. CASE x \in Ids(m.processors) /\ y \notin Ids(m.processors)
  BY <1>2, <1>3, <1>6, Zenon
<1>7. CASE x \notin Ids(m.processors) /\ y \in Ids(m.processors)
  BY <1>2, <1>3, <1>7, Zenon
<1> QED BY <1>4, <1>5, <1>6, <1>7

\* A core id is the canonical name of itself only.
LEMMA CoreProcessorKept ==
  ASSUME NEW m, Declares(m), NEW id \in Ids(CORE_PROCESSORS), NEW x, Local(x)
  PROVE  ProcessorMap(m, id) = id /\ (ProcessorMap(m, x) = id <=> x = id)
<1>1. id \notin Ids(m.processors) /\ Local(id)
  BY OwnIdOf, CoreLocal
<1>2. ProcessorMap(m, id) = id
  BY <1>1, ProcessorKept
<1> QED BY <1>1, <1>2, ProcessorInjective

LEMMA CoreTypeOnly ==
  ASSUME NEW m, Declares(m), NEW d \in CORE_DATA_TYPES, NEW x, Local(x)
  PROVE  TypeMap(m, x) = d <=> x = d
<1>1. TypeMap(m, d) = d /\ Local(d)
  BY CoreNotOwn, CoreTypes DEF Local
<1> QED BY <1>1, TypeInjective

-----------------------------------------------------------------------------
(* Dataflow: names under one plugin's prefix. *)

\* No plugin's id is a dotted extension of another's.
Plain(ms) == \A m, n \in ms : IsPrefix(m.plugin_id, n.plugin_id) => m = n

\* A name that is neither local nor under m's prefix.
Outside(m, x) == Len(x) # 1 /\ ~IsStrictPrefix(m.plugin_id, x)

LEMMA ForeignName ==
  ASSUME NEW ms, Vetted(ms), Plain(ms), NEW m \in ms, NEW n \in ms, m # n,
         NEW x, IsId(x), IsStrictPrefix(n.plugin_id, x)
  PROVE  Outside(m, x)
<1>1. IsId(m.plugin_id) /\ IsId(n.plugin_id)
  BY DEF Vetted, Declares, IsManifest
<1>2. Len(x) > 1
  BY <1>1, StrictPrefixLong
<1>3. ASSUME IsStrictPrefix(m.plugin_id, x)
      PROVE  FALSE
  <2>1. IsPrefix(m.plugin_id, x) /\ IsPrefix(n.plugin_id, x)
    BY <1>3 DEF IsStrictPrefix
  <2>2. IsPrefix(m.plugin_id, n.plugin_id) \/ IsPrefix(n.plugin_id, m.plugin_id)
    BY <1>1, <2>1, PrefixesMeet
  <2> QED BY <2>2 DEF Plain
<1>4. Len(x) # 1
  BY <1>2, NotOne, Zenon
<1> QED BY <1>3, <1>4 DEF Outside

LEMMA ExtensionNames ==
  ASSUME NEW m, Declares(m), NEW e \in m.extensions
  PROVE  /\ IsId(m.plugin_id) /\ Local(e.id) /\ e.id \in Ids(KnownProcessors(m))
         /\ \A port \in e.special_inputs : IsPort(port) /\ IsId(port.role) /\ IsStrictPrefix(m.plugin_id, port.role)
                /\ Len(port.role) # 1 /\ port.required = FALSE /\ port.datatype \in KnownTypes(m)
         /\ \A a \in e.special_attributes : IsId(a) /\ IsStrictPrefix(m.plugin_id, a) /\ Len(a) # 1
<1>1. IsId(m.plugin_id) /\ e.id \in Ids(KnownProcessors(m))
  BY DEF Declares, IsManifest, ExtensionsOk
<1>2. Local(e.id)
  <2>1. e.id \in Ids(CORE_PROCESSORS) \/ e.id \in Ids(m.processors)
    BY <1>1 DEF KnownProcessors, Ids
  <2> QED BY <2>1, CoreLocal, OwnIdOf
<1>3. ASSUME NEW port \in e.special_inputs
      PROVE  IsPort(port) /\ IsId(port.role) /\ IsStrictPrefix(m.plugin_id, port.role)
                /\ Len(port.role) # 1 /\ port.required = FALSE /\ port.datatype \in KnownTypes(m)
  <2>1. Len(port.role) > 1
    BY ExtensionPort
  <2>2. Len(port.role) # 1
    BY <2>1, NotOne, Zenon
  <2> QED BY <2>2, ExtensionPort
<1>4. ASSUME NEW a \in e.special_attributes
      PROVE  IsId(a) /\ IsStrictPrefix(m.plugin_id, a) /\ Len(a) # 1
  <2>1. IsId(a)
    BY DEF Declares, IsManifest
  <2>2. IsStrictPrefix(m.plugin_id, a)
    BY DEF Declares, ExtensionsOk
  <2>3. Len(a) > 1
    BY <1>1, <2>1, <2>2, StrictPrefixLong
  <2>4. Len(a) # 1
    BY <2>3, NotOne, Zenon
  <2> QED BY <2>1, <2>2, <2>4
<1> QED BY <1>1, <1>2, <1>3, <1>4

-----------------------------------------------------------------------------
(* Dataflow: a processor as the hub knows it and as the registry publishes it. *)

LEMMA HubFields ==
  ASSUME NEW m, NEW p
  PROVE  /\ HubExtended(m, p).id = p.id /\ HubExtended(m, p).consumer = p.consumer
         /\ HubExtended(m, p).supplier = p.supplier
         /\ \A q : q \in HubExtended(m, p).special_inputs
                     <=> \E e \in m.extensions : e.id = p.id /\ q \in e.special_inputs
         /\ \A a : a \in HubExtended(m, p).special_attributes
                     <=> \E e \in m.extensions : e.id = p.id /\ a \in e.special_attributes
BY DEF HubExtended, WithSpecials

LEMMA ExtendingIs ==
  ASSUME NEW ms, NEW id, NEW x
  PROVE  x \in Extending(ms, id) <=> \E m \in ms : \E e \in m.extensions : x = <<m, e>> /\ ProcessorMap(m, e.id) = id
BY DEF Extending

LEMMA SpecialsOf ==
  ASSUME NEW ms, NEW p
  PROVE  /\ \A q : q \in Extended(ms, p).special_inputs
                     <=> \E m \in ms : \E e \in m.extensions :
                           ProcessorMap(m, e.id) = p.id /\ q \in Published(m, e.special_inputs)
         /\ \A a : a \in Extended(ms, p).special_attributes
                     <=> \E m \in ms : \E e \in m.extensions :
                           ProcessorMap(m, e.id) = p.id /\ a \in e.special_attributes
<1> DEFINE X == Extending(ms, p.id)
<1>1. \A x : x \in X <=> \E m \in ms : \E e \in m.extensions : x = <<m, e>> /\ ProcessorMap(m, e.id) = p.id
  BY ExtendingIs
<1>2. /\ Extended(ms, p).special_inputs = UNION {Published(x[1], x[2].special_inputs) : x \in X}
      /\ Extended(ms, p).special_attributes = UNION {x[2].special_attributes : x \in X}
  BY ExtendedFields
<1> HIDE DEF X
<1>3. ASSUME NEW q \in Extended(ms, p).special_inputs
      PROVE  \E m \in ms : \E e \in m.extensions : ProcessorMap(m, e.id) = p.id /\ q \in Published(m, e.special_inputs)
  <2>1. PICK x \in X : q \in Published(x[1], x[2].special_inputs)
    BY <1>2
  <2>2. PICK m \in ms : \E e \in m.extensions : x = <<m, e>> /\ ProcessorMap(m, e.id) = p.id
    BY <1>1
  <2>3. PICK e \in m.extensions : x = <<m, e>> /\ ProcessorMap(m, e.id) = p.id
    BY <2>2
  <2>4. q \in Published(m, e.special_inputs)
    BY <2>1, <2>3
  <2> QED BY <2>3, <2>4
<1>4. ASSUME NEW a \in Extended(ms, p).special_attributes
      PROVE  \E m \in ms : \E e \in m.extensions : ProcessorMap(m, e.id) = p.id /\ a \in e.special_attributes
  <2>1. PICK x \in X : a \in x[2].special_attributes
    BY <1>2
  <2>2. PICK m \in ms : \E e \in m.extensions : x = <<m, e>> /\ ProcessorMap(m, e.id) = p.id
    BY <1>1
  <2>3. PICK e \in m.extensions : x = <<m, e>> /\ ProcessorMap(m, e.id) = p.id
    BY <2>2
  <2>4. a \in e.special_attributes
    BY <2>1, <2>3
  <2> QED BY <2>3, <2>4
<1>5. ASSUME NEW m \in ms, NEW e \in m.extensions, ProcessorMap(m, e.id) = p.id
      PROVE  /\ \A q \in Published(m, e.special_inputs) : q \in Extended(ms, p).special_inputs
             /\ \A a \in e.special_attributes : a \in Extended(ms, p).special_attributes
  <2>1. <<m, e>> \in X
    BY <1>1, <1>5
  <2>2. <<m, e>>[1] = m /\ <<m, e>>[2] = e
    OBVIOUS
  <2>3. Published(<<m, e>>[1], <<m, e>>[2].special_inputs) = Published(m, e.special_inputs)
    BY <2>2
  <2> QED BY <1>2, <2>1, <2>2, <2>3
<1> QED BY <1>3, <1>4, <1>5

LEMMA KnownUnique ==
  ASSUME NEW m, Declares(m), NEW p \in KnownProcessors(m), NEW q \in KnownProcessors(m), p.id = q.id
  PROVE  p = q
<1>1. CASE p \in CORE_PROCESSORS /\ q \in CORE_PROCESSORS
  BY <1>1, CoreUnique
<1>2. CASE p \in m.processors /\ q \in m.processors
  BY <1>2 DEF Declares, DeclarationsOk, Twins
<1>3. CASE p \in CORE_PROCESSORS /\ q \in m.processors
  BY <1>3 DEF Declares, DeclarationsOk, Ids
<1>4. CASE p \in m.processors /\ q \in CORE_PROCESSORS
  BY <1>4 DEF Declares, DeclarationsOk, Ids
<1> QED BY <1>1, <1>2, <1>3, <1>4 DEF KnownProcessors

\* What the registry makes of a processor m knows.
Canonical(m, p) == IF p \in CORE_PROCESSORS THEN p ELSE PublishedProcessor(m, p)

LEMMA KnownShape ==
  ASSUME NEW m, Declares(m), NEW p \in KnownProcessors(m)
  PROVE  /\ IsProcessor(p) /\ Local(p.id)
         /\ PortTypes(p.consumer \cup p.supplier) \subseteq KnownTypes(m)
         /\ Canonical(m, p).id = ProcessorMap(m, p.id)
         /\ Canonical(m, p).consumer = Published(m, p.consumer)
         /\ Canonical(m, p).supplier = Published(m, p.supplier)
<1>1. CASE p \in CORE_PROCESSORS
  <2>1. CoreShape(p) /\ p.id \in Ids(CORE_PROCESSORS)
    BY <1>1, CoreProcessors DEF Ids
  <2>2. Local(p.id) /\ ProcessorMap(m, p.id) = p.id
    BY <2>1, CoreProcessorKept, CoreLocal
  <2>3. ASSUME NEW port \in p.consumer \cup p.supplier
        PROVE  _port_from_manifest(m, port) = port
    <3>1. IsPort(port) /\ port.datatype \in CORE_DATA_TYPES
      BY <2>1 DEF CoreShape, IsProcessor, IsDict, PortTypes
    <3>2. TypeMap(m, port.datatype) = port.datatype
      BY <3>1, CoreNotOwn
    <3> QED BY <3>1, <3>2 DEF _port_from_manifest, PortSpec, IsPort
  <2>4. Published(m, p.consumer) = p.consumer /\ Published(m, p.supplier) = p.supplier
    BY <2>3 DEF Published
  <2>5. PortTypes(p.consumer \cup p.supplier) \subseteq KnownTypes(m)
    BY <2>1 DEF CoreShape, KnownTypes
  <2> QED BY <1>1, <2>1, <2>2, <2>4, <2>5 DEF Canonical, CoreShape
<1>2. CASE p \notin CORE_PROCESSORS
  <2>1. p \in m.processors
    BY <1>2 DEF KnownProcessors
  <2>2. IsProcessor(p) /\ Local(p.id)
    BY <2>1, OwnProcessor DEF Local
  <2>3. PortTypes(p.consumer \cup p.supplier) \subseteq KnownTypes(m)
    BY <2>1 DEF Declares, DeclarationsOk
  <2> QED BY <1>2, <2>2, <2>3, PublishedFields DEF Canonical
<1> QED BY <1>1, <1>2

LEMMA CanonicalDeclared ==
  ASSUME NEW ms, NEW m \in ms, NEW p \in KnownProcessors(m)
  PROVE  Canonical(m, p) \in DeclaredProcessors(ms)
<1>1. CASE p \in CORE_PROCESSORS
  BY <1>1, CoreDeclared DEF Canonical
<1>2. CASE p \notin CORE_PROCESSORS
  BY <1>2, PublishedDeclared DEF Canonical, KnownProcessors
<1> QED BY <1>1, <1>2

\* The hub's view and the registry's of a processor known to m are one each.
LEMMA OneEach ==
  ASSUME NEW ms, Vetted(ms), NEW m \in ms, NEW p \in KnownProcessors(m)
  PROVE  /\ HubLookup(m, p.id) = {HubExtended(m, p)}
         /\ ProcessorsNamed(RegistryProcessors(ms), ProcessorMap(m, p.id)) = {Extended(ms, Canonical(m, p))}
<1>1. Declares(m)
  BY DEF Vetted
<1>2. ProcessorsNamed(KnownProcessors(m), p.id) = {p}
  BY <1>1, KnownUnique DEF ProcessorsNamed
<1>3. HubLookup(m, p.id) = {HubExtended(m, p)}
  BY <1>2 DEF HubLookup
<1> DEFINE c == Canonical(m, p)
<1>4. c \in DeclaredProcessors(ms) /\ c.id = ProcessorMap(m, p.id)
  BY <1>1, CanonicalDeclared, KnownShape
<1> HIDE DEF c
<1>5. ASSUME NEW x \in DeclaredProcessors(ms), Extended(ms, x).id = ProcessorMap(m, p.id)
      PROVE  x = c
  <2>1. x.id = c.id
    BY <1>4, <1>5, ExtendedFields
  <2> QED BY <1>4, <2>1, DeclaredUnique
<1>6. Extended(ms, c).id = ProcessorMap(m, p.id)
  BY <1>4, ExtendedFields
<1>7. ProcessorsNamed(RegistryProcessors(ms), ProcessorMap(m, p.id)) = {Extended(ms, c)}
  BY <1>4, <1>5, <1>6 DEF ProcessorsNamed, RegistryProcessors
<1> QED BY <1>3, <1>7 DEF c

\* A local name the registry knows is one the hub knows.
LEMMA KnownToBoth ==
  ASSUME NEW ms, Vetted(ms), NEW m \in ms, NEW id, Local(id),
         ProcessorsNamed(RegistryProcessors(ms), ProcessorMap(m, id)) # {}
  PROVE  id \in Ids(KnownProcessors(m))
<1>1. CASE id \in Ids(m.processors)
  BY <1>1 DEF Ids, KnownProcessors
<1>2. CASE id \notin Ids(m.processors)
  <2>1. PICK x \in DeclaredProcessors(ms) : Extended(ms, x).id = id
    BY <1>2, ProcessorKept DEF ProcessorsNamed, RegistryProcessors
  <2>2. x.id = id
    BY <2>1, ExtendedFields
  <2>3. x \in CORE_PROCESSORS
    <3> SUFFICES ASSUME x \notin CORE_PROCESSORS PROVE FALSE
      OBVIOUS
    <3>1. PICK n \in ms : \E q \in n.processors : x = PublishedProcessor(n, q)
      BY DeclaredCases
    <3>2. PICK q \in n.processors : x = PublishedProcessor(n, q)
      BY <3>1
    <3>3. Len(PublishedProcessor(n, q).id) > 1
      BY PublishedId DEF Vetted
    <3>4. 1 > 1
      BY <2>2, <3>2, <3>3, Zenon DEF Local
    <3> QED BY ONLY <3>4
  <2> QED BY <2>2, <2>3 DEF Ids, KnownProcessors
<1> QED BY <1>1, <1>2

\* The ports and attributes of the two views: the same ones under canonical data
\* types, and others' optional inputs and attributes beside them.
Agree(m, h, c) ==
  /\ \A x \in _processor_consumer(h) :
       /\ IsPort(x) /\ x.datatype \in KnownTypes(m) /\ ~Outside(m, x.role)
       /\ _port_from_manifest(m, x) \in _processor_consumer(c)
  /\ \A x, y \in _processor_consumer(h) : x.role = y.role => x = y
  /\ \A z \in _processor_consumer(c) :
       \/ \E x \in _processor_consumer(h) : z = _port_from_manifest(m, x)
       \/ z.required = FALSE /\ Outside(m, z.role)
  /\ h.special_attributes \subseteq c.special_attributes
  /\ \A a \in c.special_attributes : a \in h.special_attributes \/ Outside(m, a)
  /\ IsDict(h.supplier) /\ PortTypes(h.supplier) \subseteq KnownTypes(m)
  /\ c.supplier = Published(m, h.supplier) /\ IsFiniteSet(c.supplier)

LEMMA ViewsAgree ==
  ASSUME NEW ms, Vetted(ms), Plain(ms), NEW m \in ms, NEW p \in KnownProcessors(m)
  PROVE  Agree(m, HubExtended(m, p), Extended(ms, Canonical(m, p)))
<1> DEFINE h == HubExtended(m, p)
           q == Canonical(m, p)
           c == Extended(ms, q)
<1>1. Declares(m) /\ \A n \in ms : Declares(n)
  BY DEF Vetted
<1>2. /\ IsProcessor(p) /\ Local(p.id) /\ PortTypes(p.consumer \cup p.supplier) \subseteq KnownTypes(m)
      /\ q.id = ProcessorMap(m, p.id) /\ q.consumer = Published(m, p.consumer)
      /\ q.supplier = Published(m, p.supplier)
  BY <1>1, KnownShape
<1>3. /\ h.consumer = p.consumer /\ h.supplier = p.supplier
      /\ \A x : x \in h.special_inputs <=> \E e \in m.extensions : e.id = p.id /\ x \in e.special_inputs
      /\ \A a : a \in h.special_attributes <=> \E e \in m.extensions : e.id = p.id /\ a \in e.special_attributes
  BY HubFields
<1>4. /\ c.consumer = Published(m, p.consumer) /\ c.supplier = Published(m, p.supplier)
      /\ \A x : x \in c.special_inputs
                  <=> \E n \in ms : \E e \in n.extensions :
                        ProcessorMap(n, e.id) = q.id /\ x \in Published(n, e.special_inputs)
      /\ \A a : a \in c.special_attributes
                  <=> \E n \in ms : \E e \in n.extensions :
                        ProcessorMap(n, e.id) = q.id /\ a \in e.special_attributes
  BY <1>2, ExtendedFields, SpecialsOf
<1>5. q \in DeclaredProcessors(ms)
  BY CanonicalDeclared
<1>6. IsFiniteSet(c.supplier)
  BY <1>5, ExtendedFields, SuppliersFinite
<1> HIDE DEF h, q, c
<1>7. ASSUME NEW e \in m.extensions
      PROVE  ProcessorMap(m, e.id) = q.id <=> e.id = p.id
  <2>1. Local(e.id)
    BY <1>1, ExtensionNames
  <2> QED BY <1>1, <1>2, <2>1, ProcessorInjective
<1>8. \A e \in m.extensions : \A x \in e.special_inputs :
         IsPort(x) /\ IsStrictPrefix(m.plugin_id, x.role) /\ Len(x.role) # 1 /\ x.datatype \in KnownTypes(m)
  BY <1>1, ExtensionNames
<1>9. \A x \in p.consumer : IsPort(x) /\ Len(x.role) = 1 /\ x.datatype \in KnownTypes(m)
  BY <1>2 DEF IsProcessor, IsDict, PortTypes
<1>10. ASSUME NEW x \in _processor_consumer(h)
       PROVE  /\ IsPort(x) /\ x.datatype \in KnownTypes(m) /\ ~Outside(m, x.role)
              /\ _port_from_manifest(m, x) \in _processor_consumer(c)
  <2>1. CASE x \in p.consumer
    <3>1. _port_from_manifest(m, x) \in Published(m, p.consumer)
      BY <2>1 DEF Published
    <3> QED BY <1>4, <1>9, <2>1, <3>1 DEF Outside, _processor_consumer
  <2>2. CASE x \notin p.consumer
    <3>1. PICK e \in m.extensions : e.id = p.id /\ x \in e.special_inputs
      BY <1>3, <2>2 DEF _processor_consumer
    <3>2. _port_from_manifest(m, x) \in Published(m, e.special_inputs)
      BY <3>1 DEF Published
    <3>3. _port_from_manifest(m, x) \in c.special_inputs
      BY <1>4, <1>7, <3>1, <3>2
    <3> QED BY <1>8, <3>1, <3>3 DEF Outside, _processor_consumer
  <2> QED BY <2>1, <2>2
<1>11. ASSUME NEW x \in _processor_consumer(h), NEW y \in _processor_consumer(h), x.role = y.role
       PROVE  x = y
  <2>1. x \in p.consumer <=> y \in p.consumer
    <3>1. \A z \in _processor_consumer(h) : z \in p.consumer <=> Len(z.role) = 1
      BY <1>3, <1>8, <1>9 DEF _processor_consumer
    <3> QED BY <1>11, <3>1
  <2>2. CASE x \in p.consumer
    BY <1>2, <1>11, <2>1, <2>2 DEF IsProcessor, IsDict
  <2>3. CASE x \notin p.consumer
    <3>1. x \in h.special_inputs /\ y \in h.special_inputs
      BY <1>3, <2>1, <2>3 DEF _processor_consumer
    <3>2. PICK e \in m.extensions : e.id = p.id /\ x \in e.special_inputs
      BY <1>3, <3>1
    <3>3. PICK f \in m.extensions : f.id = p.id /\ y \in f.special_inputs
      BY <1>3, <3>1
    <3>4. e = f
      BY <1>1, <3>2, <3>3 DEF Declares, ExtensionsOk, Twins
    <3>5. IsDict(e.special_inputs)
      BY <1>1 DEF Declares, IsManifest
    <3> QED BY <1>11, <3>2, <3>3, <3>4, <3>5 DEF IsDict
  <2> QED BY <2>2, <2>3
<1>12. ASSUME NEW n \in ms, n # m, NEW e \in n.extensions
       PROVE  /\ \A x \in e.special_inputs : x.required = FALSE /\ Outside(m, x.role)
              /\ \A a \in e.special_attributes : Outside(m, a)
  <2>1. /\ \A x \in e.special_inputs : IsId(x.role) /\ IsStrictPrefix(n.plugin_id, x.role) /\ x.required = FALSE
        /\ \A a \in e.special_attributes : IsId(a) /\ IsStrictPrefix(n.plugin_id, a)
    BY <1>1, ExtensionNames
  <2> QED BY <1>12, <2>1, ForeignName
<1>13. ASSUME NEW z \in _processor_consumer(c)
       PROVE  \/ \E x \in _processor_consumer(h) : z = _port_from_manifest(m, x)
              \/ z.required = FALSE /\ Outside(m, z.role)
  <2>1. CASE z \in c.consumer
    BY <1>3, <1>4, <2>1 DEF Published, _processor_consumer
  <2>2. CASE z \notin c.consumer
    <3>1. PICK n \in ms : \E e \in n.extensions : ProcessorMap(n, e.id) = q.id /\ z \in Published(n, e.special_inputs)
      BY <1>4, <2>2 DEF _processor_consumer
    <3>2. PICK e \in n.extensions : ProcessorMap(n, e.id) = q.id /\ z \in Published(n, e.special_inputs)
      BY <3>1
    <3>3. CASE n = m
      <4>1. PICK x \in e.special_inputs : z = _port_from_manifest(m, x)
        BY <3>2, <3>3 DEF Published
      <4>2. x \in h.special_inputs
        BY <1>3, <1>7, <3>2, <3>3, <4>1
      <4> QED BY <4>1, <4>2 DEF _processor_consumer
    <3>4. CASE n # m
      <4>1. PICK x \in e.special_inputs : z.role = x.role /\ z.required = x.required
        BY <3>2, PublishedPort
      <4>2. x.required = FALSE /\ Outside(m, x.role)
        BY <1>12, <3>4
      <4> QED BY <4>1, <4>2, Zenon
    <3> QED BY <3>3, <3>4
  <2> QED BY <2>1, <2>2
<1>14. h.special_attributes \subseteq c.special_attributes
  BY <1>3, <1>4, <1>7
<1>15. ASSUME NEW a \in c.special_attributes
       PROVE  a \in h.special_attributes \/ Outside(m, a)
  <2>1. PICK n \in ms : \E e \in n.extensions : ProcessorMap(n, e.id) = q.id /\ a \in e.special_attributes
    BY <1>4
  <2>2. PICK e \in n.extensions : ProcessorMap(n, e.id) = q.id /\ a \in e.special_attributes
    BY <2>1
  <2>3. CASE n = m
    BY <1>3, <1>7, <2>2, <2>3
  <2>4. CASE n # m
    BY <1>12, <2>2, <2>4
  <2> QED BY <2>3, <2>4
<1>16. /\ IsDict(h.supplier) /\ PortTypes(h.supplier) \subseteq KnownTypes(m)
       /\ c.supplier = Published(m, h.supplier)
  BY <1>2, <1>3, <1>4 DEF IsProcessor, PortTypes
<1>17. Agree(m, h, c)
  BY <1>6, <1>10, <1>11, <1>13, <1>14, <1>15, <1>16 DEF Agree
<1> QED BY <1>17 DEF h, q, c

-----------------------------------------------------------------------------
(* Dataflow: what a step can draw on, before and after the names are made canonical. *)

SupplyShape(s) ==
  s = [at |-> s.at, ref |-> s.ref, port |-> s.port, datatype |-> s.datatype, verified |-> s.verified]

Mapped(m, s, t) ==
  /\ t.at = s.at /\ t.ref = s.ref /\ t.datatype = TypeMap(m, s.datatype) /\ t.verified = s.verified
  /\ t.port = IF s.ref = "inputs" THEN TypeMap(m, s.port) ELSE s.port

\* B is A with canonical data types.
Mirrored(m, A, B) ==
  /\ IsFiniteSet(A) /\ IsFiniteSet(B)
  /\ \A s \in A : SupplyShape(s) /\ s.datatype \in KnownTypes(m) /\ (s.ref = "inputs" => s.port = s.datatype)
  /\ \A t \in B : SupplyShape(t)
  /\ \A s \in A : \E t \in B : Mapped(m, s, t)
  /\ \A t \in B : \E s \in A : Mapped(m, s, t)

Fitting(S, d) == {s \in S : s.datatype = d}

LEMMA MappedOnce ==
  ASSUME NEW m, Declares(m), NEW A, NEW B, Mirrored(m, A, B),
         NEW s \in A, NEW u \in A, NEW t \in B, NEW v \in B, Mapped(m, s, t), Mapped(m, u, v)
  PROVE  s = u <=> t = v
<1>1. ASSUME s = u
      PROVE  t = v
  <2>1. t.at = v.at /\ t.ref = v.ref /\ t.datatype = v.datatype /\ t.verified = v.verified /\ t.port = v.port
    BY <1>1 DEF Mapped
  <2>2. SupplyShape(t) /\ SupplyShape(v)
    BY DEF Mirrored
  <2> QED BY <2>1, <2>2, Zenon DEF SupplyShape
<1>2. ASSUME t = v
      PROVE  s = u
  <2>1. /\ s.at = u.at /\ s.ref = u.ref /\ s.verified = u.verified
        /\ TypeMap(m, s.datatype) = TypeMap(m, u.datatype)
        /\ s.ref # "inputs" => s.port = u.port
    BY <1>2 DEF Mapped
  <2>2. Local(s.datatype) /\ Local(u.datatype)
    BY KnownLocal DEF Mirrored
  <2>3. s.datatype = u.datatype
    BY <2>1, <2>2, TypeInjective
  <2>4. s.ref = "inputs" => s.port = s.datatype /\ u.port = u.datatype
    BY <2>1 DEF Mirrored
  <2>5. s.port = u.port
    BY <2>1, <2>3, <2>4
  <2>6. SupplyShape(s) /\ SupplyShape(u)
    BY DEF Mirrored
  <2> QED BY <2>1, <2>3, <2>5, <2>6, Zenon DEF SupplyShape
<1> QED BY <1>1, <1>2

\* Each element of either set is mapped to one of the other.
Paired(m, S, T) ==
  /\ IsFiniteSet(S) /\ IsFiniteSet(T)
  /\ \A s \in S : \E t \in T : Mapped(m, s, t)
  /\ \A t \in T : \E s \in S : Mapped(m, s, t)
  /\ \A s, u \in S : \A t, v \in T : Mapped(m, s, t) /\ Mapped(m, u, v) => (s = u <=> t = v)

LEMMA SameSize ==
  ASSUME NEW m, NEW S, NEW T, Paired(m, S, T)
  PROVE  Cardinality(S) > 1 <=> Cardinality(T) > 1
<1> USE DEF Paired
<1>1. ASSUME NEW x \in S, NEW y \in S, x # y
      PROVE  \E t, v \in T : t # v
  <2>1. PICK t \in T : Mapped(m, x, t)
    OBVIOUS
  <2>2. PICK v \in T : Mapped(m, y, v)
    OBVIOUS
  <2>3. t # v
    BY <1>1, <2>1, <2>2
  <2> QED BY <2>3
<1>2. ASSUME NEW t \in T, NEW v \in T, t # v
      PROVE  \E x, y \in S : x # y
  <2>1. PICK x \in S : Mapped(m, x, t)
    OBVIOUS
  <2>2. PICK y \in S : Mapped(m, y, v)
    OBVIOUS
  <2>3. x # y
    BY <1>2, <2>1, <2>2
  <2> QED BY <2>3
<1>3. Cardinality(S) > 1 <=> \E x, y \in S : x # y
  BY TwoElements
<1>4. Cardinality(T) > 1 <=> \E x, y \in T : x # y
  BY TwoElements
<1> QED BY <1>1, <1>2, <1>3, <1>4

LEMMA FittingMirrored ==
  ASSUME NEW m, Declares(m), NEW A, NEW B, Mirrored(m, A, B), NEW d, Local(d)
  PROVE  LET fit == Fitting(A, d)
             twin  == Fitting(B, TypeMap(m, d))
         IN  /\ fit # {} <=> twin # {}
             /\ Cardinality(fit) > 1 <=> Cardinality(twin) > 1
             /\ (\E s \in fit : s.verified) <=> (\E t \in twin : t.verified)
             /\ IsFiniteSet(fit)
<1> DEFINE fit == Fitting(A, d)
           twin == Fitting(B, TypeMap(m, d))
<1>1. IsFiniteSet(fit) /\ IsFiniteSet(twin)
  BY FS_Subset DEF Fitting, Mirrored
<1>2. ASSUME NEW s \in fit
      PROVE  \E t \in twin : Mapped(m, s, t)
  BY DEF Fitting, Mirrored, Mapped
<1>3. ASSUME NEW t \in twin
      PROVE  \E s \in fit : Mapped(m, s, t)
  <2>1. PICK s \in A : Mapped(m, s, t)
    BY DEF Fitting, Mirrored
  <2>2. TypeMap(m, s.datatype) = TypeMap(m, d)
    BY <2>1 DEF Mapped, Fitting
  <2>3. Local(s.datatype)
    BY KnownLocal DEF Mirrored
  <2>4. s.datatype = d
    BY <2>2, <2>3, TypeInjective
  <2> QED BY <2>1, <2>4 DEF Fitting
<1>4. \A s, u \in fit : \A t, v \in twin : Mapped(m, s, t) /\ Mapped(m, u, v) => (s = u <=> t = v)
  BY MappedOnce DEF Fitting
<1>5. \A s, t : Mapped(m, s, t) => t.verified = s.verified
  BY DEF Mapped
<1> HIDE DEF fit, twin
<1>7. Cardinality(fit) > 1 <=> Cardinality(twin) > 1
  <2>1. Paired(m, fit, twin)
    BY <1>1, <1>2, <1>3, <1>4 DEF Paired
  <2> QED BY <2>1, SameSize
<1>8. fit # {} <=> twin # {}
  BY <1>2, <1>3
<1>9. (\E s \in fit : s.verified) <=> (\E t \in twin : t.verified)
  BY <1>2, <1>3, <1>5
<1> QED BY <1>1, <1>7, <1>8, <1>9 DEF fit, twin

LEMMA MapFields ==
  ASSUME NEW m, NEW x
  PROVE  LET y == _port_from_manifest(m, x)
         IN  y.role = x.role /\ y.datatype = TypeMap(m, x.datatype) /\ y.required = x.required /\ y.multiple = x.multiple
BY DEF _port_from_manifest, PortSpec

\* A port nobody wired.
LEMMA UnwiredSame ==
  ASSUME NEW m, Declares(m), NEW A, NEW B, Mirrored(m, A, B), NEW step, NEW canon, NEW x,
         x.datatype \in KnownTypes(m), x.role \notin DOMAIN step.wires,
         _requires_verified_match_graph(step.processor, x.role)
           <=> _requires_verified_match_graph(canon.processor, x.role)
  PROVE  HubPortOk(step, x, A) <=> InferredOk(canon, _port_from_manifest(m, x), B)
<1> DEFINE fit == Fitting(A, x.datatype)
           image == Fitting(B, TypeMap(m, x.datatype))
           y == _port_from_manifest(m, x)
           needs == _requires_verified_match_graph(canon.processor, x.role)
<1>1. Local(x.datatype)
  BY KnownLocal
<1>2. /\ fit # {} <=> image # {}
      /\ Cardinality(fit) > 1 <=> Cardinality(image) > 1
      /\ (\E s \in fit : s.verified) <=> (\E t \in image : t.verified)
      /\ IsFiniteSet(fit)
  BY <1>1, FittingMirrored
<1>3. y.role = x.role /\ y.datatype = TypeMap(m, x.datatype) /\ y.required = x.required /\ y.multiple = x.multiple
  BY MapFields
<1>4. HubPortOk(step, x, A) <=>
        \/ ~x.required
        \/ /\ fit # {} /\ (x.multiple => Cardinality(fit) # 1) /\ (Cardinality(fit) > 1 => x.multiple)
           /\ needs => \E s \in fit : s.verified
  BY DEF HubPortOk, Fitting
<1> HIDE DEF y
<1>5. InferredOk(canon, y, B) <=>
        (x.required => /\ image # {} /\ (x.multiple <=> Cardinality(image) > 1)
                       /\ needs => \E s \in image : s.verified)
  BY <1>3 DEF InferredOk, Fitting
<1> HIDE DEF fit, image, needs
<1>6. fit # {} => (Cardinality(fit) # 1 <=> Cardinality(fit) > 1)
  BY <1>2, FS_EmptySet, FS_CardinalityType
<1> QED BY <1>2, <1>4, <1>5, <1>6 DEF y

-----------------------------------------------------------------------------
(* Dataflow: a wired port. *)

LEMMA WireFields ==
  ASSUME NEW m, NEW w, IsWireRef(w)
  PROVE  /\ InputWire(m, w) = [ref |-> InputWire(m, w).ref, port |-> InputWire(m, w).port]
         /\ InputWire(m, w).ref = w.ref
         /\ InputWire(m, w).port = IF w.ref = "inputs" THEN TypeMap(m, w.port) ELSE w.port
BY DEF InputWire, IsWireRef

LEMMA InputPorts ==
  ASSUME NEW m, Declares(m), NEW A, NEW B, Mirrored(m, A, B), NEW s \in A, s.ref = "inputs"
  PROVE  Local(s.port)
BY KnownLocal DEF Mirrored

\* Two wires that name supplies, or local ports, stay different.
LEMMA WiresInjective ==
  ASSUME NEW m, Declares(m), NEW v, NEW w, IsWireRef(v), IsWireRef(w),
         v.ref = "inputs" => Local(v.port), w.ref = "inputs" => Local(w.port),
         InputWire(m, v) = InputWire(m, w)
  PROVE  v = w
<1>1. v.ref = w.ref
  BY WireFields
<1>2. v.port = w.port
  <2>1. CASE v.ref = "inputs"
    <3>1. TypeMap(m, v.port) = TypeMap(m, w.port)
      BY <1>1, <2>1, WireFields
    <3> QED BY <1>1, <2>1, <3>1, TypeInjective
  <2>2. CASE v.ref # "inputs"
    BY <1>1, <2>2, WireFields
  <2> QED BY <2>1, <2>2
<1> QED BY <1>1, <1>2, Zenon DEF IsWireRef

LEMMA ParseMapped ==
  ASSUME NEW m, Declares(m), NEW A, NEW B, Mirrored(m, A, B), NEW w, IsWireRef(w), NEW s \in A, NEW t \in B,
         Mapped(m, s, t)
  PROVE  /\ s \in _parse_wire_ref(w, A) => t \in _parse_wire_ref(InputWire(m, w), B)
         /\ (w.ref = "inputs" => Local(w.port)) /\ t \in _parse_wire_ref(InputWire(m, w), B)
              => s \in _parse_wire_ref(w, A)
<1>1. ASSUME s \in _parse_wire_ref(w, A)
      PROVE  t \in _parse_wire_ref(InputWire(m, w), B)
  <2>1. s.ref = w.ref /\ s.port = w.port
    BY <1>1 DEF _parse_wire_ref
  <2>2. t.ref = s.ref /\ t.port = IF s.ref = "inputs" THEN TypeMap(m, s.port) ELSE s.port
    BY DEF Mapped
  <2>3. t.ref = InputWire(m, w).ref /\ t.port = InputWire(m, w).port
    BY <2>1, <2>2, WireFields
  <2> QED BY <2>3 DEF _parse_wire_ref
<1>2. ASSUME w.ref = "inputs" => Local(w.port), t \in _parse_wire_ref(InputWire(m, w), B)
      PROVE  s \in _parse_wire_ref(w, A)
  <2>1. t.ref = InputWire(m, w).ref /\ t.port = InputWire(m, w).port
    BY <1>2 DEF _parse_wire_ref
  <2>2. t.ref = s.ref /\ t.port = IF s.ref = "inputs" THEN TypeMap(m, s.port) ELSE s.port
    BY DEF Mapped
  <2>3. s.ref = w.ref
    BY <2>1, <2>2, WireFields
  <2>4. s.port = w.port
    <3>1. CASE s.ref = "inputs"
      <4>1. TypeMap(m, s.port) = TypeMap(m, w.port)
        BY <2>1, <2>2, <2>3, <3>1, WireFields
      <4>2. Local(s.port) /\ Local(w.port)
        BY <1>2, <2>3, <3>1, InputPorts
      <4> QED BY <4>1, <4>2, TypeInjective
    <3>2. CASE s.ref # "inputs"
      BY <2>1, <2>2, <2>3, <3>2, WireFields
    <3> QED BY <3>1, <3>2
  <2> QED BY <2>3, <2>4 DEF _parse_wire_ref
<1> QED BY <1>1, <1>2

\* What the two checkers ask of one wire of a port with data type d.
HubWire(w, A, d, needs) ==
  /\ _parse_wire_ref(w, A) # {}
  /\ \A s \in _parse_wire_ref(w, A) : s.datatype = d /\ (needs = TRUE => s.verified)

ServerWire(w, B, d, needs) ==
  \E t \in _parse_wire_ref(w, B) : t.datatype = d /\ (needs = TRUE => t.verified)

LEMMA WireToServer ==
  ASSUME NEW m, Declares(m), NEW A, NEW B, Mirrored(m, A, B), NEW w, IsWireRef(w), NEW d, NEW needs,
         HubWire(w, A, d, needs)
  PROVE  /\ ServerWire(InputWire(m, w), B, TypeMap(m, d), needs)
         /\ w.ref = "inputs" => Local(w.port)
<1>1. PICK s \in _parse_wire_ref(w, A) : s.datatype = d /\ (needs = TRUE => s.verified)
  BY DEF HubWire
<1>2. s \in A /\ s.ref = w.ref /\ s.port = w.port
  BY DEF _parse_wire_ref
<1>3. PICK t \in B : Mapped(m, s, t)
  BY <1>2 DEF Mirrored
<1>4. t \in _parse_wire_ref(InputWire(m, w), B)
  BY <1>2, <1>3, ParseMapped
<1>5. t.datatype = TypeMap(m, d) /\ (needs = TRUE => t.verified)
  BY <1>1, <1>3 DEF Mapped
<1>6. w.ref = "inputs" => Local(w.port)
  BY <1>2, InputPorts
<1> QED BY <1>4, <1>5, <1>6 DEF ServerWire

LEMMA WireToHub ==
  ASSUME NEW m, Declares(m), NEW A, NEW B, Mirrored(m, A, B), NEW w, IsWireRef(w), Local(w.port), NEW d, Local(d),
         NEW needs, \A s, u \in A : s.ref = u.ref /\ s.port = u.port => s = u,
         ServerWire(InputWire(m, w), B, TypeMap(m, d), needs)
  PROVE  HubWire(w, A, d, needs)
<1>1. PICK t \in _parse_wire_ref(InputWire(m, w), B) : t.datatype = TypeMap(m, d) /\ (needs = TRUE => t.verified)
  BY DEF ServerWire
<1>2. t \in B
  BY DEF _parse_wire_ref
<1>3. PICK s \in A : Mapped(m, s, t)
  BY <1>2 DEF Mirrored
<1>4. s \in _parse_wire_ref(w, A)
  BY <1>1, <1>2, <1>3, ParseMapped
<1>5. s.datatype = d
  <2>1. TypeMap(m, s.datatype) = TypeMap(m, d)
    BY <1>1, <1>3 DEF Mapped
  <2>2. Local(s.datatype)
    BY KnownLocal DEF Mirrored
  <2> QED BY <2>1, <2>2, TypeInjective
<1>6. needs = TRUE => s.verified
  BY <1>1, <1>3 DEF Mapped
<1>7. \A u \in _parse_wire_ref(w, A) : u = s
  BY <1>4 DEF _parse_wire_ref
<1> QED BY <1>4, <1>5, <1>6, <1>7 DEF HubWire

LEMMA TwoWires ==
  ASSUME NEW refs, IsList(refs), refs # <<>>, ~Repeated(refs)
  PROVE  Cardinality(Range(refs)) >= 2 <=> Len(refs) # 1
<1>1. DOMAIN refs = 1 .. Len(refs) /\ Len(refs) \in Nat /\ refs \in Seq(Range(refs))
  BY ListDomain
<1>2. Len(refs) # 0
  BY <1>1, EmptySeq
<1>3. IsFiniteSet(Range(refs)) /\ Range(refs) = {refs[k] : k \in DOMAIN refs}
  BY FiniteRange DEF Range
<1>4. Cardinality(Range(refs)) \in Nat
  BY <1>3, FS_CardinalityType
<1>5. Cardinality(Range(refs)) > 1 <=> \E x, y \in Range(refs) : x # y
  BY <1>3, TwoElements
<1>6. ASSUME Len(refs) # 1
      PROVE  \E x, y \in Range(refs) : x # y
  <2>1. 1 \in DOMAIN refs /\ 2 \in DOMAIN refs /\ 1 < 2
    BY <1>1, <1>2, <1>6
  <2>2. refs[1] # refs[2]
    BY <2>1 DEF Repeated
  <2> QED BY <1>3, <2>1, <2>2
<1>7. ASSUME Len(refs) = 1
      PROVE  \A x, y \in Range(refs) : x = y
  <2>1. DOMAIN refs = {1}
    BY <1>1, <1>7
  <2> QED BY <1>3, <2>1
<1> QED BY <1>4, <1>5, <1>6, <1>7

\* The wires of a port x before and after: the inputs' ports are made canonical, and
\* a single wire becomes a list only if the port takes many.
WireFrom(m, x, raw, new) ==
  /\ IsWire(raw)
  /\ new.refs = [k \in DOMAIN raw.refs |-> InputWire(m, raw.refs[k])]
  /\ (new.list => x.multiple) <=> (raw.list => x.multiple)

LEMMA WireLists ==
  ASSUME NEW m, NEW x, NEW raw, NEW new, WireFrom(m, x, raw, new)
  PROVE  /\ IsList(raw.refs) /\ \A k \in DOMAIN raw.refs : IsWireRef(raw.refs[k])
         /\ DOMAIN new.refs = DOMAIN raw.refs /\ Len(new.refs) = Len(raw.refs)
         /\ raw.refs = <<>> <=> new.refs = <<>>
         /\ \A k \in DOMAIN raw.refs : new.refs[k] = InputWire(m, raw.refs[k])
<1> DEFINE old == raw.refs
           img == new.refs
<1>1. IsList(old) /\ (\A k \in DOMAIN old : IsWireRef(old[k])) /\ img = [k \in DOMAIN old |-> InputWire(m, old[k])]
  BY DEF WireFrom, IsWire
<1> HIDE DEF old, img
<1>2. DOMAIN old = 1 .. Len(old) /\ Len(old) \in Nat /\ old \in Seq(Range(old))
  BY <1>1, ListDomain
<1>3. img = [k \in 1 .. Len(old) |-> img[k]] /\ DOMAIN img = DOMAIN old /\ \A k \in DOMAIN old : img[k] = InputWire(m, old[k])
  BY <1>1, <1>2
<1>4. IsList(img) /\ Len(img) = Len(old)
  BY <1>2, <1>3, Listed
<1>5. img \in Seq(Range(img))
  BY <1>4 DEF IsList
<1>6. old = <<>> <=> Len(old) = 0
  BY <1>2, EmptySeq
<1>7. img = <<>> <=> Len(img) = 0
  BY <1>5, EmptySeq
<1> QED BY <1>1, <1>3, <1>4, <1>6, <1>7 DEF old, img

\* What the hub asks of a wired port, and what the server asks.
HubWires(x, raw, A, needs) ==
  /\ raw.list => x.multiple
  /\ x.required => raw.refs # <<>>
  /\ \A k \in DOMAIN raw.refs : HubWire(raw.refs[k], A, x.datatype, needs)
  /\ x.multiple => ~Repeated(raw.refs)
  /\ x.multiple /\ x.required => Cardinality(Range(raw.refs)) >= 2

ServerWires(y, new, B, needs) ==
  /\ new.list => y.multiple
  /\ y.required => new.refs # <<>>
  /\ y.multiple /\ y.required => Len(new.refs) # 1
  /\ \A k \in DOMAIN new.refs : ServerWire(new.refs[k], B, y.datatype, needs)
  /\ y.multiple => ~Repeated(new.refs)

LEMMA WiresToServer ==
  ASSUME NEW m, Declares(m), NEW A, NEW B, Mirrored(m, A, B), NEW x, NEW raw, NEW new, NEW needs,
         WireFrom(m, x, raw, new), HubWires(x, raw, A, needs)
  PROVE  ServerWires(_port_from_manifest(m, x), new, B, needs)
<1> DEFINE y == _port_from_manifest(m, x)
<1>1. y.datatype = TypeMap(m, x.datatype) /\ y.required = x.required /\ y.multiple = x.multiple
  BY MapFields
<1> HIDE DEF y
<1>2. /\ IsList(raw.refs) /\ \A k \in DOMAIN raw.refs : IsWireRef(raw.refs[k])
      /\ DOMAIN new.refs = DOMAIN raw.refs /\ Len(new.refs) = Len(raw.refs)
      /\ raw.refs = <<>> <=> new.refs = <<>>
      /\ \A k \in DOMAIN raw.refs : new.refs[k] = InputWire(m, raw.refs[k])
  BY WireLists
<1>3. ASSUME NEW k \in DOMAIN raw.refs
      PROVE  /\ ServerWire(InputWire(m, raw.refs[k]), B, TypeMap(m, x.datatype), needs)
             /\ raw.refs[k].ref = "inputs" => Local(raw.refs[k].port)
  <2>1. HubWire(raw.refs[k], A, x.datatype, needs) /\ IsWireRef(raw.refs[k])
    BY <1>2 DEF HubWires
  <2> QED BY <2>1, WireToServer
<1>4. new.list => y.multiple
  BY <1>1 DEF HubWires, WireFrom
<1>5. y.required => new.refs # <<>>
  BY <1>1, <1>2 DEF HubWires
<1>6. y.multiple /\ y.required => Len(new.refs) # 1
  <2>1. x.multiple /\ x.required => /\ raw.refs # <<>> /\ ~Repeated(raw.refs)
                                    /\ Cardinality(Range(raw.refs)) >= 2
    BY DEF HubWires
  <2>2. x.multiple /\ x.required => Len(raw.refs) # 1
    BY <1>2, <2>1, TwoWires
  <2> QED BY <1>1, <1>2, <2>2
<1>7. \A k \in DOMAIN new.refs : ServerWire(new.refs[k], B, y.datatype, needs)
  BY <1>1, <1>2, <1>3
<1>8. y.multiple => ~Repeated(new.refs)
  <2> SUFFICES ASSUME x.multiple, NEW i \in DOMAIN raw.refs, NEW j \in DOMAIN raw.refs, i < j,
                      new.refs[i] = new.refs[j]
               PROVE  FALSE
    BY <1>1, <1>2 DEF Repeated
  <2>1. InputWire(m, raw.refs[i]) = InputWire(m, raw.refs[j])
    BY <1>2
  <2>2. raw.refs[i] = raw.refs[j]
    BY <1>2, <1>3, <2>1, WiresInjective
  <2> QED BY <2>2 DEF HubWires, Repeated
<1> QED BY <1>4, <1>5, <1>6, <1>7, <1>8 DEF ServerWires, y

LEMMA WiresToHub ==
  ASSUME NEW m, Declares(m), NEW A, NEW B, Mirrored(m, A, B), NEW x, x.datatype \in KnownTypes(m),
         NEW raw, NEW new, NEW needs,
         WireFrom(m, x, raw, new), \A k \in DOMAIN raw.refs : Local(raw.refs[k].port),
         \A s, u \in A : s.ref = u.ref /\ s.port = u.port => s = u,
         ServerWires(_port_from_manifest(m, x), new, B, needs)
  PROVE  HubWires(x, raw, A, needs)
<1> DEFINE y == _port_from_manifest(m, x)
<1>1. y.datatype = TypeMap(m, x.datatype) /\ y.required = x.required /\ y.multiple = x.multiple
  BY MapFields
<1>a. ServerWires(y, new, B, needs)
  OBVIOUS
<1> HIDE DEF y
<1>2. /\ IsList(raw.refs) /\ \A k \in DOMAIN raw.refs : IsWireRef(raw.refs[k])
      /\ DOMAIN new.refs = DOMAIN raw.refs /\ Len(new.refs) = Len(raw.refs)
      /\ raw.refs = <<>> <=> new.refs = <<>>
      /\ \A k \in DOMAIN raw.refs : new.refs[k] = InputWire(m, raw.refs[k])
  BY WireLists
<1>3. ASSUME NEW k \in DOMAIN raw.refs
      PROVE  HubWire(raw.refs[k], A, x.datatype, needs)
  <2>1. ServerWire(InputWire(m, raw.refs[k]), B, TypeMap(m, x.datatype), needs)
    BY <1>1, <1>2, <1>a DEF ServerWires
  <2>2. Local(raw.refs[k].port) /\ IsWireRef(raw.refs[k]) /\ Local(x.datatype)
    BY <1>2, KnownLocal
  <2> QED BY <2>1, <2>2, WireToHub
<1>4. raw.list => x.multiple
  BY <1>1, <1>a DEF ServerWires, WireFrom
<1>5. x.required => raw.refs # <<>>
  BY <1>1, <1>2, <1>a DEF ServerWires
<1>6. x.multiple => ~Repeated(raw.refs)
  <2> SUFFICES ASSUME x.multiple, NEW i \in DOMAIN raw.refs, NEW j \in DOMAIN raw.refs, i < j,
                      raw.refs[i] = raw.refs[j]
               PROVE  FALSE
    BY DEF Repeated
  <2>1. new.refs[i] = new.refs[j] /\ i \in DOMAIN new.refs /\ j \in DOMAIN new.refs
    BY <1>2
  <2> QED BY <1>1, <1>a, <2>1 DEF ServerWires, Repeated
<1>7. x.multiple /\ x.required => Cardinality(Range(raw.refs)) >= 2
  <2>1. x.multiple /\ x.required => Len(raw.refs) # 1
    BY <1>1, <1>2, <1>a DEF ServerWires
  <2> QED BY <1>2, <1>5, <1>6, <2>1, TwoWires
<1> QED BY <1>3, <1>4, <1>5, <1>6, <1>7 DEF HubWires

\* The two checkers on a wired port, in these terms.
LEMMA HubWired ==
  ASSUME NEW step, NEW x, NEW A, x.role \in DOMAIN step.wires, NEW needs,
         needs = TRUE <=> _requires_verified_match_graph(step.processor, x.role)
  PROVE  HubPortOk(step, x, A) <=> HubWires(x, step.wires[x.role], A, needs)
<1>1. \A k \in DOMAIN step.wires[x.role].refs :
        HubWire(step.wires[x.role].refs[k], A, x.datatype, needs) <=>
          /\ _parse_wire_ref(step.wires[x.role].refs[k], A) # {}
          /\ \A s \in _parse_wire_ref(step.wires[x.role].refs[k], A) :
               /\ s \in {t \in A : t.datatype = x.datatype}
               /\ _requires_verified_match_graph(step.processor, x.role) => s.verified
  <2>1. \A w : \A s \in _parse_wire_ref(w, A) : s \in A
    BY DEF _parse_wire_ref
  <2> QED BY <2>1 DEF HubWire
<1> QED BY <1>1 DEF HubPortOk, HubWires

LEMMA ServerWired ==
  ASSUME NEW step, NEW y, NEW B, y.role \in DOMAIN step.wires, NEW needs,
         needs = TRUE <=> _requires_verified_match_graph(step.processor, y.role)
  PROVE  WiredOk(step, y, B) <=> ServerWires(y, step.wires[y.role], B, needs)
BY DEF WiredOk, ServerWires, ServerWire

-----------------------------------------------------------------------------
(* Dataflow: a declared pipeline and its canonical form. *)

\* A pipeline over names that m knows.
KnownPipeline(m, pl) ==
  /\ IsPipeline(pl)
  /\ Range(pl.inputs) \subseteq KnownTypes(m)
  /\ \A i \in DOMAIN pl.steps : pl.steps[i].processor \in Ids(KnownProcessors(m))

HubUsed(m, pl) == [i \in DOMAIN pl.steps |-> HubLookup(m, pl.steps[i].processor)]
ServerUsed(ms, c) == [i \in DOMAIN c.steps |-> ProcessorsNamed(RegistryProcessors(ms), c.steps[i].processor)]
CanonicalPipeline(ms, m, pl) == _pipeline_from_manifest(m, RegistryProcessors(ms), pl)

LEMMA PipelineFields ==
  ASSUME NEW ms, NEW m, NEW pl
  PROVE  /\ CanonicalPipeline(ms, m, pl).inputs = [k \in DOMAIN pl.inputs |-> TypeMap(m, pl.inputs[k])]
         /\ DOMAIN CanonicalPipeline(ms, m, pl).steps = DOMAIN pl.steps
BY DEF CanonicalPipeline, _pipeline_from_manifest

LEMMA StepsKept ==
  ASSUME NEW ms, NEW m, NEW pl
  PROVE  DOMAIN CanonicalPipeline(ms, m, pl).steps = DOMAIN pl.steps
BY DEF CanonicalPipeline, _pipeline_from_manifest

LEMMA StepFields ==
  ASSUME NEW ms, NEW m, NEW pl, NEW i \in DOMAIN pl.steps
  PROVE  /\ CanonicalPipeline(ms, m, pl).steps[i].ref = pl.steps[i].ref
         /\ CanonicalPipeline(ms, m, pl).steps[i].attr = pl.steps[i].attr
         /\ CanonicalPipeline(ms, m, pl).steps[i].types = {TypeMap(m, d) : d \in pl.steps[i].types}
         /\ CanonicalPipeline(ms, m, pl).steps[i].processor = ProcessorMap(m, pl.steps[i].processor)
         /\ CanonicalPipeline(ms, m, pl).steps[i].wires = CanonicalWires(m, RegistryProcessors(ms), pl.steps[i])
BY DEF CanonicalPipeline, _pipeline_from_manifest

LEMMA VerifyKept ==
  ASSUME NEW m, Declares(m), NEW id, Local(id)
  PROVE  /\ ProcessorMap(m, id) = <<"verify">> <=> id = <<"verify">>
         /\ \A role : _requires_verified_match_graph(ProcessorMap(m, id), role)
                        <=> _requires_verified_match_graph(id, role)
         /\ \A d : Local(d) => (TypeMap(m, d) = <<"match_graph">> <=> d = <<"match_graph">>)
<1>1. \A x, c, u : Processor(x, c, u).id = <<x>>
  BY DEF Processor
<1>2. /\ Processor("verify", {_port("matches", "match_graph")}, {_port("matches", "match_graph")}) \in CORE_PROCESSORS
      /\ Processor("map", {_port("features", "feature_set"), _port("matches", "match_graph")},
                   {_port("model", "sparse_model")}) \in CORE_PROCESSORS
      /\ Processor("triangulate", {_port("model", "sparse_model"), _port("matches", "match_graph")},
                   {_port("model", "sparse_model")}) \in CORE_PROCESSORS
  BY DEF CORE_PROCESSORS
<1>3. <<"verify">> \in Ids(CORE_PROCESSORS) /\ <<"map">> \in Ids(CORE_PROCESSORS) /\ <<"triangulate">> \in Ids(CORE_PROCESSORS)
  BY <1>1, <1>2 DEF Ids
<1>4. \A c \in Ids(CORE_PROCESSORS) : ProcessorMap(m, id) = c <=> id = c
  BY CoreProcessorKept
<1>5. <<"match_graph">> \in CORE_DATA_TYPES
  BY DEF CORE_DATA_TYPES
<1>6. \A d : Local(d) => (TypeMap(m, d) = <<"match_graph">> <=> d = <<"match_graph">>)
  BY <1>5, CoreTypeOnly
<1>7. \A role : _requires_verified_match_graph(ProcessorMap(m, id), role)
                  <=> _requires_verified_match_graph(id, role)
  <2>1. /\ ProcessorMap(m, id) = <<"map">> <=> id = <<"map">>
        /\ ProcessorMap(m, id) = <<"triangulate">> <=> id = <<"triangulate">>
    BY <1>3, <1>4
  <2> QED BY <2>1, Zenon DEF _requires_verified_match_graph
<1> QED BY <1>3, <1>4, <1>6, <1>7

\* The processors of one step, in the two views.
LEMMA StepViews ==
  ASSUME NEW ms, Vetted(ms), Plain(ms), NEW m \in ms, NEW pl, KnownPipeline(m, pl), NEW i \in DOMAIN pl.steps
  PROVE  \E h, c : /\ HubUsed(m, pl)[i] = {h}
                   /\ ServerUsed(ms, CanonicalPipeline(ms, m, pl))[i] = {c}
                   /\ Agree(m, h, c)
<1>1. PICK p \in KnownProcessors(m) : p.id = pl.steps[i].processor
  BY DEF KnownPipeline, Ids
<1>2. /\ HubLookup(m, p.id) = {HubExtended(m, p)}
      /\ ProcessorsNamed(RegistryProcessors(ms), ProcessorMap(m, p.id)) = {Extended(ms, Canonical(m, p))}
      /\ Agree(m, HubExtended(m, p), Extended(ms, Canonical(m, p)))
  BY OneEach, ViewsAgree
<1>3. DOMAIN CanonicalPipeline(ms, m, pl).steps = DOMAIN pl.steps
  BY StepsKept
<1>6. CanonicalPipeline(ms, m, pl).steps[i].processor = ProcessorMap(m, pl.steps[i].processor)
  BY StepFields
<1>4. HubUsed(m, pl)[i] = HubLookup(m, p.id)
  BY <1>1 DEF HubUsed
<1>5. ServerUsed(ms, CanonicalPipeline(ms, m, pl))[i] = ProcessorsNamed(RegistryProcessors(ms), ProcessorMap(m, p.id))
  BY <1>1, <1>3, <1>6 DEF ServerUsed
<1> QED BY <1>2, <1>4, <1>5

LEMMA InputShape ==
  ASSUME NEW d
  PROVE  SupplyShape(_input_supply(d))
BY DEF SupplyShape, _input_supply, _Supply

LEMMA OutputShape ==
  ASSUME NEW j, NEW step, NEW port
  PROVE  SupplyShape(_step_supply(j, step, port))
BY DEF SupplyShape, _step_supply, _Supply

LEMMA InputMapped ==
  ASSUME NEW m, NEW d
  PROVE  Mapped(m, _input_supply(d), _input_supply(TypeMap(m, d)))
<1> DEFINE s == _input_supply(d)
           t == _input_supply(TypeMap(m, d))
<1>1. s.at = 0 /\ s.ref = "inputs" /\ s.port = d /\ s.datatype = d /\ s.verified = FALSE
  BY InputSupplyFields
<1>2. t.at = 0 /\ t.ref = "inputs" /\ t.port = TypeMap(m, d) /\ t.datatype = TypeMap(m, d) /\ t.verified = FALSE
  BY InputSupplyFields
<1> HIDE DEF s, t
<1>3. Mapped(m, s, t)
  BY <1>1, <1>2 DEF Mapped
<1> QED BY <1>3 DEF s, t

LEMMA OutputMapped ==
  ASSUME NEW m, Declares(m), NEW j, NEW step, NEW canon, NEW port,
         step.ref # "inputs", canon.ref = step.ref, canon.processor = ProcessorMap(m, step.processor),
         Local(step.processor), Local(port.datatype)
  PROVE  Mapped(m, _step_supply(j, step, port), _step_supply(j, canon, _port_from_manifest(m, port)))
<1> DEFINE y == _port_from_manifest(m, port)
           s == _step_supply(j, step, port)
           t == _step_supply(j, canon, y)
<1>1. y.role = port.role /\ y.datatype = TypeMap(m, port.datatype)
  BY MapFields
<1>2. /\ canon.processor = <<"verify">> <=> step.processor = <<"verify">>
      /\ y.datatype = <<"match_graph">> <=> port.datatype = <<"match_graph">>
  BY <1>1, VerifyKept
<1> HIDE DEF y
<1>3. /\ s.at = j /\ s.ref = step.ref /\ s.port = port.role /\ s.datatype = port.datatype
      /\ s.verified = (step.processor = <<"verify">> /\ port.role = <<"matches">>
                                /\ port.datatype = <<"match_graph">>)
  BY StepSupplyFields
<1>4. /\ t.at = j /\ t.ref = canon.ref /\ t.port = y.role /\ t.datatype = y.datatype
      /\ t.verified = (canon.processor = <<"verify">> /\ y.role = <<"matches">>
                                /\ y.datatype = <<"match_graph">>)
  BY DEF _step_supply, _Supply
<1> HIDE DEF s, t
<1>5. t.verified = s.verified
  BY <1>1, <1>2, <1>3, <1>4
<1>6. Mapped(m, s, t)
  BY <1>1, <1>3, <1>4, <1>5 DEF Mapped
<1> QED BY <1>6 DEF s, t, y


\* A step, its canonical form and the processors the two views find for it.
StepMatch(m, s, c, U, V) ==
  /\ s.ref # "inputs" /\ c.ref = s.ref
  /\ Local(s.processor) /\ c.processor = ProcessorMap(m, s.processor)
  /\ \E h, k : /\ U = {h} /\ V = {k} /\ IsDict(h.supplier) /\ PortTypes(h.supplier) \subseteq KnownTypes(m)
               /\ k.supplier = Published(m, h.supplier) /\ IsFiniteSet(k.supplier)

InputMatch(m, ins, inc) ==
  /\ IsList(ins) /\ IsList(inc) /\ Range(ins) \subseteq KnownTypes(m)
  /\ \A d \in Range(ins) : TypeMap(m, d) \in Range(inc)
  /\ \A d \in Range(inc) : \E e \in Range(ins) : d = TypeMap(m, e)

LEMMA MatchedOutputs ==
  ASSUME NEW m, Declares(m), NEW s, NEW c, NEW U, NEW V, StepMatch(m, s, c, U, V), NEW j
  PROVE  /\ IsFiniteSet(U) /\ (\A p \in U : IsFiniteSet(p.supplier))
         /\ IsFiniteSet(V) /\ (\A p \in V : IsFiniteSet(p.supplier))
         /\ \A p \in U : \A port \in p.supplier :
              /\ port.datatype \in KnownTypes(m)
              /\ \E q \in V : \E y \in q.supplier : Mapped(m, _step_supply(j, s, port), _step_supply(j, c, y))
         /\ \A q \in V : \A y \in q.supplier : \E p \in U : \E port \in p.supplier :
              Mapped(m, _step_supply(j, s, port), _step_supply(j, c, y))
<1>1. PICK h, k : /\ U = {h} /\ V = {k} /\ IsDict(h.supplier) /\ PortTypes(h.supplier) \subseteq KnownTypes(m)
                  /\ k.supplier = Published(m, h.supplier) /\ IsFiniteSet(k.supplier)
  BY DEF StepMatch
<1>2. ASSUME NEW port \in h.supplier
      PROVE  /\ port.datatype \in KnownTypes(m)
             /\ _port_from_manifest(m, port) \in k.supplier
             /\ Mapped(m, _step_supply(j, s, port), _step_supply(j, c, _port_from_manifest(m, port)))
  <2>1. port.datatype \in KnownTypes(m) /\ Local(port.datatype)
    BY <1>1, KnownLocal DEF PortTypes
  <2>2. _port_from_manifest(m, port) \in k.supplier
    BY <1>1 DEF Published
  <2>3. Mapped(m, _step_supply(j, s, port), _step_supply(j, c, _port_from_manifest(m, port)))
    BY <2>1, OutputMapped DEF StepMatch
  <2> QED BY <2>1, <2>2, <2>3
<1>3. \A y \in k.supplier : \E port \in h.supplier : y = _port_from_manifest(m, port)
  BY <1>1 DEF Published
<1>4. IsFiniteSet(U) /\ IsFiniteSet(V) /\ IsFiniteSet(h.supplier) /\ IsFiniteSet(k.supplier)
  BY <1>1, FS_Singleton DEF IsDict
<1>5. \A y \in k.supplier : \E port \in h.supplier : Mapped(m, _step_supply(j, s, port), _step_supply(j, c, y))
  BY <1>2, <1>3
<1>6. \A port \in h.supplier : port.datatype \in KnownTypes(m)
             /\ \E y \in k.supplier : Mapped(m, _step_supply(j, s, port), _step_supply(j, c, y))
  BY <1>2
<1> QED BY <1>1, <1>4, <1>5, <1>6

LEMMA SuppliesMirrored ==
  ASSUME NEW m, Declares(m), NEW ins, NEW inc, InputMatch(m, ins, inc), NEW ss, NEW cs, NEW i \in Nat,
         NEW us, NEW uc, \A j \in 1 .. i - 1 : StepMatch(m, ss[j], cs[j], us[j], uc[j])
  PROVE  Mirrored(m, Available(ins, ss, i, us), Available(inc, cs, i, uc))
<1> DEFINE A == Available(ins, ss, i, us)
           B == Available(inc, cs, i, uc)
<1>1. IsFiniteSet(A) /\ IsFiniteSet(B)
  BY AvailableFinite, MatchedOutputs DEF InputMatch
<1>2. ASSUME NEW d \in Range(ins)
      PROVE  /\ SupplyShape(_input_supply(d)) /\ _input_supply(d).datatype \in KnownTypes(m)
             /\ _input_supply(d).port = _input_supply(d).datatype
             /\ \E t \in B : Mapped(m, _input_supply(d), t)
  <2>1. _input_supply(TypeMap(m, d)) \in B
    BY AvailableInput DEF InputMatch
  <2>2. Mapped(m, _input_supply(d), _input_supply(TypeMap(m, d)))
    BY InputMapped
  <2>3. _input_supply(d).datatype = d /\ _input_supply(d).port = d
    BY InputSupplyFields
  <2> QED BY <2>1, <2>2, <2>3, InputShape DEF InputMatch
<1>3. ASSUME NEW j \in 1 .. i - 1, NEW p \in us[j], NEW port \in p.supplier
      PROVE  /\ SupplyShape(_step_supply(j, ss[j], port)) /\ _step_supply(j, ss[j], port).datatype \in KnownTypes(m)
             /\ _step_supply(j, ss[j], port).ref # "inputs"
             /\ \E t \in B : Mapped(m, _step_supply(j, ss[j], port), t)
  <2>1. /\ port.datatype \in KnownTypes(m)
        /\ \E q \in uc[j] : \E y \in q.supplier : Mapped(m, _step_supply(j, ss[j], port), _step_supply(j, cs[j], y))
    BY MatchedOutputs
  <2>2. PICK q \in uc[j] : \E y \in q.supplier : Mapped(m, _step_supply(j, ss[j], port), _step_supply(j, cs[j], y))
    BY <2>1
  <2>3. PICK y \in q.supplier : Mapped(m, _step_supply(j, ss[j], port), _step_supply(j, cs[j], y))
    BY <2>2
  <2>4. _step_supply(j, cs[j], y) \in B
    BY AvailableOutput
  <2>5. _step_supply(j, ss[j], port).datatype = port.datatype /\ _step_supply(j, ss[j], port).ref = ss[j].ref
    BY StepSupplyFields
  <2>6. ss[j].ref # "inputs"
    BY DEF StepMatch
  <2> HIDE DEF B
  <2> QED BY <2>1, <2>3, <2>4, <2>5, <2>6, OutputShape
<1>4. ASSUME NEW t \in B
      PROVE  SupplyShape(t) /\ \E s \in A : Mapped(m, s, t)
  <2>1. CASE \E d \in Range(inc) : t = _input_supply(d)
    <3>1. PICK d \in Range(inc) : t = _input_supply(d)
      BY <2>1
    <3>2. PICK e \in Range(ins) : d = TypeMap(m, e)
      BY DEF InputMatch
    <3>3. _input_supply(e) \in A
      BY AvailableInput
    <3> HIDE DEF A
    <3> QED BY <3>1, <3>2, <3>3, InputMapped, InputShape
  <2>2. CASE \E j \in 1 .. i - 1 : \E q \in uc[j] : \E y \in q.supplier : t = _step_supply(j, cs[j], y)
    <3>1. PICK j \in 1 .. i - 1 : \E q \in uc[j] : \E y \in q.supplier : t = _step_supply(j, cs[j], y)
      BY <2>2
    <3>2. PICK q \in uc[j] : \E y \in q.supplier : t = _step_supply(j, cs[j], y)
      BY <3>1
    <3>3. PICK y \in q.supplier : t = _step_supply(j, cs[j], y)
      BY <3>2
    <3>4. \E p \in us[j] : \E port \in p.supplier : Mapped(m, _step_supply(j, ss[j], port), _step_supply(j, cs[j], y))
      BY MatchedOutputs
    <3>5. PICK p \in us[j] : \E port \in p.supplier : Mapped(m, _step_supply(j, ss[j], port), _step_supply(j, cs[j], y))
      BY <3>4
    <3>6. PICK port \in p.supplier : Mapped(m, _step_supply(j, ss[j], port), _step_supply(j, cs[j], y))
      BY <3>5
    <3>7. _step_supply(j, ss[j], port) \in A
      BY AvailableOutput
    <3> HIDE DEF A
    <3> QED BY <3>3, <3>6, <3>7, OutputShape
  <2> QED BY <2>1, <2>2, AvailableCases
<1>5. ASSUME NEW s \in A
      PROVE  /\ SupplyShape(s) /\ s.datatype \in KnownTypes(m) /\ (s.ref = "inputs" => s.port = s.datatype)
             /\ \E t \in B : Mapped(m, s, t)
  <2>1. CASE \E d \in Range(ins) : s = _input_supply(d)
    BY <1>2, <2>1
  <2>2. CASE \E j \in 1 .. i - 1 : \E p \in us[j] : \E port \in p.supplier : s = _step_supply(j, ss[j], port)
    BY <1>3, <2>2
  <2> QED BY <2>1, <2>2, AvailableCases
<1> HIDE DEF A, B
<1>6. Mirrored(m, A, B)
  BY <1>1, <1>4, <1>5 DEF Mirrored
<1> QED BY <1>6 DEF A, B

AllMatched(m, ss, cs, i, us, uc) == \A j \in 1 .. i - 1 : StepMatch(m, ss[j], cs[j], us[j], uc[j])
RefsDiffer(ss, i) == \A j, k \in 1 .. i - 1 : ss[j].ref = ss[k].ref => j = k

\* While the steps' refs differ, a ref and a port name one supply.
LEMMA SuppliesUnique ==
  ASSUME NEW m, NEW ins, NEW ss, NEW cs, NEW i \in Nat, NEW us, NEW uc,
         AllMatched(m, ss, cs, i, us, uc), RefsDiffer(ss, i),
         NEW s \in Available(ins, ss, i, us), NEW u \in Available(ins, ss, i, us), s.ref = u.ref, s.port = u.port
  PROVE  s = u
<1> USE DEF AllMatched, RefsDiffer
<1>1. ASSUME NEW d, s = _input_supply(d)
      PROVE  s.ref = "inputs" /\ s.port = d
  BY <1>1, InputSupplyFields
<1>2. ASSUME NEW d, u = _input_supply(d)
      PROVE  u.ref = "inputs" /\ u.port = d
  BY <1>2, InputSupplyFields
<1>3. ASSUME NEW j \in 1 .. i - 1, NEW port, s = _step_supply(j, ss[j], port)
      PROVE  s.ref = ss[j].ref /\ s.port = port.role /\ ss[j].ref # "inputs"
  BY <1>3, StepSupplyFields DEF StepMatch
<1>4. ASSUME NEW j \in 1 .. i - 1, NEW port, u = _step_supply(j, ss[j], port)
      PROVE  u.ref = ss[j].ref /\ u.port = port.role /\ ss[j].ref # "inputs"
  BY <1>4, StepSupplyFields DEF StepMatch
<1>5. CASE \E d \in Range(ins) : s = _input_supply(d)
  <2>1. PICK d \in Range(ins) : s = _input_supply(d)
    BY <1>5
  <2>2. \E e \in Range(ins) : u = _input_supply(e)
    <3>1. ASSUME NEW j \in 1 .. i - 1, NEW p \in us[j], NEW port \in p.supplier, u = _step_supply(j, ss[j], port)
          PROVE  FALSE
      BY <1>1, <1>4, <2>1, <3>1
    <3> QED BY <3>1, AvailableCases
  <2>3. PICK e \in Range(ins) : u = _input_supply(e)
    BY <2>2
  <2>4. d = e
    BY <1>1, <1>2, <2>1, <2>3
  <2> QED BY <2>1, <2>3, <2>4
<1>6. CASE \E j \in 1 .. i - 1 : \E p \in us[j] : \E port \in p.supplier : s = _step_supply(j, ss[j], port)
  <2>1. PICK j \in 1 .. i - 1 : \E p \in us[j] : \E port \in p.supplier : s = _step_supply(j, ss[j], port)
    BY <1>6
  <2>2. PICK p \in us[j] : \E port \in p.supplier : s = _step_supply(j, ss[j], port)
    BY <2>1
  <2>3. PICK port \in p.supplier : s = _step_supply(j, ss[j], port)
    BY <2>2
  <2>4. \E k \in 1 .. i - 1 : \E q \in us[k] : \E y \in q.supplier : u = _step_supply(k, ss[k], y)
    <3>1. ASSUME NEW e \in Range(ins), u = _input_supply(e)
          PROVE  FALSE
      BY <1>2, <1>3, <2>3, <3>1
    <3> QED BY <3>1, AvailableCases
  <2>5. PICK k \in 1 .. i - 1 : \E q \in us[k] : \E y \in q.supplier : u = _step_supply(k, ss[k], y)
    BY <2>4
  <2>6. PICK q \in us[k] : \E y \in q.supplier : u = _step_supply(k, ss[k], y)
    BY <2>5
  <2>7. PICK y \in q.supplier : u = _step_supply(k, ss[k], y)
    BY <2>6
  <2>8. /\ s.ref = ss[j].ref /\ s.port = port.role
        /\ u.ref = ss[k].ref /\ u.port = y.role
    BY <1>3, <1>4, <2>3, <2>7
  <2>9. j = k
    BY <2>8
  <2>10. PICK h : us[j] = {h} /\ IsDict(h.supplier)
    BY DEF StepMatch
  <2>13. p = h /\ q = h
    BY <2>9, <2>10
  <2>14. port.role = y.role
    BY <2>8, Zenon
  <2>11. port \in h.supplier /\ y \in h.supplier /\ port.role = y.role
    BY <2>13, <2>14
  <2>12. port = y
    BY <2>10, <2>11 DEF IsDict
  <2> QED BY <2>3, <2>7, <2>9, <2>12
<1> QED BY <1>5, <1>6, AvailableCases

LEMMA InputsMatched ==
  ASSUME NEW ms, NEW m, NEW pl, KnownPipeline(m, pl)
  PROVE  /\ InputMatch(m, pl.inputs, CanonicalPipeline(ms, m, pl).inputs)
         /\ DOMAIN CanonicalPipeline(ms, m, pl).inputs = DOMAIN pl.inputs
         /\ \A k \in DOMAIN pl.inputs : CanonicalPipeline(ms, m, pl).inputs[k] = TypeMap(m, pl.inputs[k])
<1> DEFINE old == pl.inputs
           new == CanonicalPipeline(ms, m, pl).inputs
<1>1. new = [k \in DOMAIN old |-> TypeMap(m, old[k])]
  BY PipelineFields
<1>2. IsList(old) /\ Range(old) \subseteq KnownTypes(m)
  BY DEF KnownPipeline, IsPipeline
<1> HIDE DEF old, new
<1>3. DOMAIN old = 1 .. Len(old) /\ Len(old) \in Nat
  BY <1>2, ListDomain
<1>4. new = [k \in 1 .. Len(old) |-> new[k]] /\ DOMAIN new = DOMAIN old /\ \A k \in DOMAIN old : new[k] = TypeMap(m, old[k])
  BY <1>1, <1>3
<1>5. IsList(new)
  BY <1>3, <1>4, Listed
<1>6. \A d \in Range(old) : TypeMap(m, d) \in Range(new)
  BY <1>4 DEF Range
<1>7. \A d \in Range(new) : \E e \in Range(old) : d = TypeMap(m, e)
  BY <1>4 DEF Range
<1>8. InputMatch(m, old, new)
  BY <1>2, <1>5, <1>6, <1>7 DEF InputMatch
<1> QED BY <1>4, <1>8 DEF old, new

\* Every step of a pipeline over known names, in the two views.
LEMMA StepsMatched ==
  ASSUME NEW ms, Vetted(ms), Plain(ms), NEW m \in ms, NEW pl, KnownPipeline(m, pl), NEW i \in DOMAIN pl.steps
  PROVE  StepMatch(m, pl.steps[i], CanonicalPipeline(ms, m, pl).steps[i], HubUsed(m, pl)[i],
                   ServerUsed(ms, CanonicalPipeline(ms, m, pl))[i])
<1> DEFINE s == pl.steps[i]
           c == CanonicalPipeline(ms, m, pl).steps[i]
           U == HubUsed(m, pl)[i]
           V == ServerUsed(ms, CanonicalPipeline(ms, m, pl))[i]
<1>1. s.ref # "inputs" /\ s.processor \in Ids(KnownProcessors(m))
  BY DEF KnownPipeline, IsPipeline, IsStep
<1>2. c.ref = s.ref /\ c.processor = ProcessorMap(m, s.processor)
  BY StepFields
<1>3. PICK h, k : U = {h} /\ V = {k} /\ Agree(m, h, k)
  BY StepViews
<1>4. Local(s.processor)
  <2>1. PICK p \in KnownProcessors(m) : p.id = s.processor
    BY <1>1 DEF Ids
  <2>2. Local(p.id)
    BY KnownShape DEF Vetted
  <2> QED BY <2>1, <2>2
<1> HIDE DEF s, c, U, V
<1>5. StepMatch(m, s, c, U, V)
  BY <1>1, <1>2, <1>3, <1>4 DEF StepMatch, Agree
<1> QED BY <1>5 DEF s, c, U, V

-----------------------------------------------------------------------------
(* Dataflow: one step in the two checkers. *)

\* The registry's port for one of m's own: no other port has its role.
LEMMA OwnRole ==
  ASSUME NEW m, NEW h, NEW c, Agree(m, h, c), NEW x \in _processor_consumer(h), NEW z \in _processor_consumer(c),
         z.role = x.role
  PROVE  z = _port_from_manifest(m, x)
<1>1. ~Outside(m, x.role)
  BY DEF Agree
<1>2. ~Outside(m, z.role)
  BY <1>1
<1>3. PICK y \in _processor_consumer(h) : z = _port_from_manifest(m, y)
  BY <1>2 DEF Agree
<1>4. y.role = x.role
  BY <1>3, MapFields
<1>5. y = x
  BY <1>4 DEF Agree
<1> QED BY <1>3, <1>5

LEMMA WiresCanonical ==
  ASSUME NEW m, NEW ps, NEW step, NEW h, NEW c, Agree(m, h, c),
         ProcessorsNamed(ps, ProcessorMap(m, step.processor)) = {c},
         NEW x \in _processor_consumer(h), x.role \in DOMAIN step.wires, IsWire(step.wires[x.role])
  PROVE  WireFrom(m, x, step.wires[x.role], CanonicalWires(m, ps, step)[x.role])
<1> DEFINE many == {port.role : port \in {q \in _processor_consumer(c) : q.multiple}}
           raw == step.wires[x.role]
           new == CanonicalWires(m, ps, step)[x.role]
<1>1. UNION {_processor_consumer(p) : p \in ProcessorsNamed(ps, ProcessorMap(m, step.processor))}
        = _processor_consumer(c)
  OBVIOUS
<1>2. new = [list |-> raw.list \/ x.role \in many,
             refs |-> [k \in DOMAIN raw.refs |-> InputWire(m, raw.refs[k])]]
  BY <1>1 DEF CanonicalWires
<1>3. x.role \in many => x.multiple
  <2> SUFFICES ASSUME NEW z \in _processor_consumer(c), z.multiple, z.role = x.role
               PROVE  x.multiple
    OBVIOUS
  <2>1. z = _port_from_manifest(m, x)
    BY OwnRole
  <2> QED BY <2>1, MapFields
<1> HIDE DEF many
<1>4. /\ new.refs = [k \in DOMAIN raw.refs |-> InputWire(m, raw.refs[k])]
      /\ new.list = (raw.list \/ x.role \in many)
  BY <1>2
<1> HIDE DEF new
<1>5. (new.list => x.multiple) <=> (raw.list => x.multiple)
  BY <1>3, <1>4
<1>6. IsWire(raw)
  OBVIOUS
<1> HIDE DEF raw
<1>7. WireFrom(m, x, raw, new)
  BY <1>4, <1>5, <1>6 DEF WireFrom
<1> QED BY <1>7 DEF raw, new

\* A step and its canonical form, with what each view finds for it.
StepPair(m, ps, s, c, h, k) ==
  /\ IsStep(s) /\ Local(s.processor)
  /\ c.ref = s.ref /\ c.attr = s.attr /\ c.processor = ProcessorMap(m, s.processor)
  /\ c.wires = CanonicalWires(m, ps, s)
  /\ ProcessorsNamed(ps, ProcessorMap(m, s.processor)) = {k}
  /\ Agree(m, h, k)

LEMMA SameDomain ==
  ASSUME NEW m, NEW ps, NEW s, NEW c, NEW h, NEW k, StepPair(m, ps, s, c, h, k)
  PROVE  DOMAIN c.wires = DOMAIN s.wires
BY DEF StepPair, CanonicalWires

\* One of m's own ports in the two checkers.
LEMMA OwnPortToServer ==
  ASSUME NEW m, Declares(m), NEW ps, NEW s, NEW c, NEW h, NEW k, StepPair(m, ps, s, c, h, k),
         NEW A, NEW B, Mirrored(m, A, B), NEW x \in _processor_consumer(h), HubPortOk(s, x, A)
  PROVE  LET y == _port_from_manifest(m, x)
         IN  IF y.role \in DOMAIN c.wires THEN WiredOk(c, y, B) ELSE InferredOk(c, y, B)
<1> DEFINE y == _port_from_manifest(m, x)
           needs == IF _requires_verified_match_graph(s.processor, x.role) THEN TRUE ELSE FALSE
<1>1. y.role = x.role
  BY MapFields
<1>2. x.datatype \in KnownTypes(m)
  BY DEF StepPair, Agree
<1>3. /\ _requires_verified_match_graph(s.processor, x.role)
           <=> _requires_verified_match_graph(c.processor, x.role)
      /\ DOMAIN c.wires = DOMAIN s.wires
  <2>1. Local(s.processor) /\ c.processor = ProcessorMap(m, s.processor)
    BY DEF StepPair
  <2> QED BY <2>1, VerifyKept, SameDomain
<1>4. CASE x.role \notin DOMAIN s.wires
  <2>1. InferredOk(c, y, B)
    BY <1>2, <1>3, <1>4, UnwiredSame
  <2> QED BY <1>1, <1>3, <1>4, <2>1
<1>5. CASE x.role \in DOMAIN s.wires
  <2>1. WireFrom(m, x, s.wires[x.role], c.wires[x.role])
    BY <1>5, WiresCanonical DEF StepPair, IsStep
  <2>2. PICK nd : nd = TRUE <=> _requires_verified_match_graph(s.processor, x.role)
    <3>1. needs = TRUE <=> _requires_verified_match_graph(s.processor, x.role)
      OBVIOUS
    <3> QED BY <3>1
  <2>3. HubWires(x, s.wires[x.role], A, nd)
    BY <1>5, <2>2, HubWired
  <2>4. ServerWires(y, c.wires[x.role], B, nd)
    BY <2>1, <2>3, WiresToServer
  <2> HIDE DEF y
  <2>5. nd = TRUE <=> _requires_verified_match_graph(c.processor, y.role)
    BY <1>1, <1>3, <2>2
  <2>6. WiredOk(c, y, B)
    BY <1>1, <1>3, <1>5, <2>4, <2>5, ServerWired
  <2> QED BY <1>1, <1>3, <1>5, <2>6 DEF y
<1> QED BY <1>4, <1>5

LEMMA OwnPortToHub ==
  ASSUME NEW m, Declares(m), NEW ps, NEW s, NEW c, NEW h, NEW k, StepPair(m, ps, s, c, h, k),
         NEW A, NEW B, Mirrored(m, A, B), NEW x \in _processor_consumer(h),
         \A r \in DOMAIN s.wires : \A i \in DOMAIN s.wires[r].refs : Local(s.wires[r].refs[i].port),
         \A t, u \in A : t.ref = u.ref /\ t.port = u.port => t = u,
         LET y == _port_from_manifest(m, x)
         IN  IF y.role \in DOMAIN c.wires THEN WiredOk(c, y, B) ELSE InferredOk(c, y, B)
  PROVE  HubPortOk(s, x, A)
<1> DEFINE y == _port_from_manifest(m, x)
           needs == IF _requires_verified_match_graph(s.processor, x.role) THEN TRUE ELSE FALSE
<1>1. y.role = x.role
  BY MapFields
<1>2. x.datatype \in KnownTypes(m)
  BY DEF StepPair, Agree
<1>3. /\ _requires_verified_match_graph(s.processor, x.role)
           <=> _requires_verified_match_graph(c.processor, x.role)
      /\ DOMAIN c.wires = DOMAIN s.wires
  <2>1. Local(s.processor) /\ c.processor = ProcessorMap(m, s.processor)
    BY DEF StepPair
  <2> QED BY <2>1, VerifyKept, SameDomain
<1>4. CASE x.role \notin DOMAIN s.wires
  <2>1. InferredOk(c, y, B)
    BY <1>1, <1>3, <1>4
  <2> QED BY <1>2, <1>3, <1>4, <2>1, UnwiredSame
<1>5. CASE x.role \in DOMAIN s.wires
  <2>1. WireFrom(m, x, s.wires[x.role], c.wires[x.role])
    BY <1>5, WiresCanonical DEF StepPair, IsStep
  <2>2. PICK nd : nd = TRUE <=> _requires_verified_match_graph(s.processor, x.role)
    <3>1. needs = TRUE <=> _requires_verified_match_graph(s.processor, x.role)
      OBVIOUS
    <3> QED BY <3>1
  <2>3. WiredOk(c, y, B)
    BY <1>1, <1>3, <1>5
  <2>4. ServerWires(y, c.wires[x.role], B, nd)
    <3> HIDE DEF y
    <3>1. nd = TRUE <=> _requires_verified_match_graph(c.processor, y.role)
      BY <1>1, <1>3, <2>2
    <3>2. ServerWires(y, c.wires[y.role], B, nd)
      BY <1>1, <1>3, <1>5, <2>3, <3>1, ServerWired
    <3> QED BY <1>1, <3>2
  <2>5. HubWires(x, s.wires[x.role], A, nd)
    BY <1>2, <1>5, <2>1, <2>4, WiresToHub
  <2> QED BY <1>5, <2>2, <2>5, HubWired
<1> QED BY <1>4, <1>5

HubStepOk(s, h, A) ==
  /\ _validate_step_attributes(h, s)
  /\ DOMAIN s.wires \subseteq Roles(_processor_consumer(h))
  /\ \A x \in _processor_consumer(h) : HubPortOk(s, x, A)

ServerPortOk(c, y, B) == IF y.role \in DOMAIN c.wires THEN WiredOk(c, y, B) ELSE InferredOk(c, y, B)

ServerStepOk(c, k, B) ==
  /\ validate_attributes(k, c.attr)
  /\ DOMAIN c.wires \subseteq Roles(_processor_consumer(k))
  /\ \A y \in _processor_consumer(k) : ServerPortOk(c, y, B)

LEMMA StepToServer ==
  ASSUME NEW m, Declares(m), NEW ps, NEW s, NEW c, NEW h, NEW k, StepPair(m, ps, s, c, h, k),
         NEW A, NEW B, Mirrored(m, A, B), HubStepOk(s, h, A)
  PROVE  ServerStepOk(c, k, B)
<1>1. c.attr = s.attr /\ Agree(m, h, k) /\ DOMAIN c.wires = DOMAIN s.wires
  BY SameDomain DEF StepPair
<1>2. validate_attributes(k, c.attr)
  BY <1>1 DEF HubStepOk, _validate_step_attributes, validate_attributes, Agree
<1>3. ASSUME NEW r \in DOMAIN c.wires
      PROVE  r \in Roles(_processor_consumer(k)) /\ ~Outside(m, r)
  <2>1. PICK x \in _processor_consumer(h) : r = x.role
    BY <1>1 DEF HubStepOk, Roles
  <2>2. _port_from_manifest(m, x) \in _processor_consumer(k) /\ ~Outside(m, x.role)
    BY <1>1 DEF Agree
  <2>3. _port_from_manifest(m, x).role = r
    BY <2>1, MapFields
  <2> QED BY <2>1, <2>2, <2>3 DEF Roles
<1>4. ASSUME NEW y \in _processor_consumer(k)
      PROVE  ServerPortOk(c, y, B)
  <2>1. CASE \E x \in _processor_consumer(h) : y = _port_from_manifest(m, x)
    <3>1. PICK x \in _processor_consumer(h) : y = _port_from_manifest(m, x)
      BY <2>1
    <3>2. HubPortOk(s, x, A)
      BY DEF HubStepOk
    <3>3. ServerPortOk(c, _port_from_manifest(m, x), B)
      BY <3>2, OwnPortToServer DEF ServerPortOk
    <3> QED BY <3>1, <3>3
  <2>2. CASE y.required = FALSE /\ Outside(m, y.role)
    <3>1. y.role \notin DOMAIN c.wires
      BY <1>3, <2>2
    <3>2. InferredOk(c, y, B)
      BY <2>2 DEF InferredOk
    <3> QED BY <3>1, <3>2 DEF ServerPortOk
  <2> QED BY <1>1, <2>1, <2>2 DEF Agree
<1> QED BY <1>2, <1>3, <1>4 DEF ServerStepOk

\* The other way, for a step that names nothing of another plugin.
LEMMA StepToHub ==
  ASSUME NEW m, Declares(m), NEW ps, NEW s, NEW c, NEW h, NEW k, StepPair(m, ps, s, c, h, k),
         NEW A, NEW B, Mirrored(m, A, B), \A t, u \in A : t.ref = u.ref /\ t.port = u.port => t = u,
         \A r \in DOMAIN s.wires : \A i \in DOMAIN s.wires[r].refs : Local(s.wires[r].refs[i].port),
         \A name \in DOMAIN s.wires \cup {s.attr} : ~Outside(m, name),
         ServerStepOk(c, k, B)
  PROVE  HubStepOk(s, h, A)
<1>1. c.attr = s.attr /\ Agree(m, h, k) /\ DOMAIN c.wires = DOMAIN s.wires
  BY SameDomain DEF StepPair
<1>2. _validate_step_attributes(h, s)
  BY <1>1 DEF ServerStepOk, _validate_step_attributes, validate_attributes, Agree
<1>3. ASSUME NEW r \in DOMAIN s.wires
      PROVE  r \in Roles(_processor_consumer(h))
  <2>1. PICK y \in _processor_consumer(k) : r = y.role
    BY <1>1 DEF ServerStepOk, Roles
  <2>2. PICK x \in _processor_consumer(h) : y = _port_from_manifest(m, x)
    BY <1>1, <2>1 DEF Agree
  <2>3. x.role = r
    BY <2>1, <2>2, MapFields
  <2> QED BY <2>3 DEF Roles
<1>4. ASSUME NEW x \in _processor_consumer(h)
      PROVE  HubPortOk(s, x, A)
  <2>1. ServerPortOk(c, _port_from_manifest(m, x), B)
    BY <1>1 DEF ServerStepOk, Agree
  <2> QED BY <2>1, OwnPortToHub DEF ServerPortOk
<1> QED BY <1>2, <1>3, <1>4 DEF HubStepOk

-----------------------------------------------------------------------------
(* Dataflow: a declared pipeline in the two checkers. *)

HubSupplies(m, pl, i) == Available(pl.inputs, pl.steps, i, HubUsed(m, pl))
ServerSupplies(ms, c, i) == Available(c.inputs, c.steps, i, ServerUsed(ms, c))

LEMMA HubVerdict ==
  ASSUME NEW m, NEW pl
  PROVE  _validate_pipeline_graph(m, pl) <=>
           \A i \in DOMAIN pl.steps : \A p \in HubUsed(m, pl)[i] : HubStepOk(pl.steps[i], p, HubSupplies(m, pl, i))
<1> DEFINE used == [i \in DOMAIN pl.steps |-> HubLookup(m, pl.steps[i].processor)]
<1>1. used = HubUsed(m, pl)
  BY DEF HubUsed
<1>2. _validate_pipeline_graph(m, pl) <=>
        \A i \in DOMAIN pl.steps : \A p \in used[i] : HubStepOk(pl.steps[i], p, Available(pl.inputs, pl.steps, i, used))
  BY DEF _validate_pipeline_graph, HubStepOk
<1> HIDE DEF used
<1> QED BY <1>1, <1>2 DEF HubSupplies

LEMMA ServerVerdict ==
  ASSUME NEW ms, NEW m, NEW pl
  PROVE  LET c == CanonicalPipeline(ms, m, pl)
         IN  ServerAccepts(ms, m, pl) <=>
               /\ _type_ok(ms, c.steps)
               /\ ~Repeated(c.inputs)
               /\ \A i \in DOMAIN c.steps :
                    /\ c.steps[i].ref # "inputs" /\ \A j \in 1 .. i - 1 : c.steps[j].ref # c.steps[i].ref
                    /\ ServerUsed(ms, c)[i] # {}
                    /\ \A p \in ServerUsed(ms, c)[i] : ServerStepOk(c.steps[i], p, ServerSupplies(ms, c, i))
<1> DEFINE c == CanonicalPipeline(ms, m, pl)
           used == [i \in DOMAIN c.steps |-> ProcessorsNamed(RegistryProcessors(ms), c.steps[i].processor)]
<1>1. used = ServerUsed(ms, c)
  BY DEF ServerUsed
<1>2. ServerAccepts(ms, m, pl) <=> _type_ok(ms, c.steps) /\ _strict_validate_pipeline(c.steps, c.inputs, used)
  BY DEF ServerAccepts, CanonicalPipeline
<1> HIDE DEF used, c
<1>3. _strict_validate_pipeline(c.steps, c.inputs, used) <=>
        /\ ~Repeated(c.inputs)
        /\ \A i \in DOMAIN c.steps :
             /\ c.steps[i].ref # "inputs" /\ \A j \in 1 .. i - 1 : c.steps[j].ref # c.steps[i].ref
             /\ used[i] # {}
             /\ \A p \in used[i] : ServerStepOk(c.steps[i], p, Available(c.inputs, c.steps, i, used))
  BY DEF _strict_validate_pipeline, ServerStepOk, ServerPortOk, NoProcessor
<1> QED BY <1>1, <1>2, <1>3 DEF ServerSupplies, c

LEMMA StepPairs ==
  ASSUME NEW ms, Vetted(ms), Plain(ms), NEW m \in ms, NEW pl, KnownPipeline(m, pl), NEW i \in DOMAIN pl.steps
  PROVE  \E h, k : /\ HubUsed(m, pl)[i] = {h}
                   /\ ServerUsed(ms, CanonicalPipeline(ms, m, pl))[i] = {k}
                   /\ StepPair(m, RegistryProcessors(ms), pl.steps[i], CanonicalPipeline(ms, m, pl).steps[i], h, k)
<1> DEFINE s == pl.steps[i]
           c == CanonicalPipeline(ms, m, pl)
           R == RegistryProcessors(ms)
<1>1. PICK h, k : HubUsed(m, pl)[i] = {h} /\ ServerUsed(ms, c)[i] = {k} /\ Agree(m, h, k)
  BY StepViews
<1>2. /\ c.steps[i].ref = s.ref /\ c.steps[i].attr = s.attr
      /\ c.steps[i].processor = ProcessorMap(m, s.processor) /\ c.steps[i].wires = CanonicalWires(m, R, s)
  BY StepFields
<1>3. DOMAIN c.steps = DOMAIN pl.steps
  BY StepsKept
<1>4. IsStep(s)
  BY DEF KnownPipeline, IsPipeline
<1>5. Local(s.processor)
  BY StepsMatched DEF StepMatch
<1>6. i \in DOMAIN c.steps
  BY <1>3
<1> HIDE DEF c, s
<1>7. ServerUsed(ms, c)[i] = ProcessorsNamed(R, c.steps[i].processor)
  BY <1>6 DEF ServerUsed
<1>8. StepPair(m, R, s, c.steps[i], h, k)
  BY <1>1, <1>2, <1>4, <1>5, <1>7 DEF StepPair
<1> QED BY <1>1, <1>8 DEF c, s

LEMMA SuppliesBefore ==
  ASSUME NEW ms, Vetted(ms), Plain(ms), NEW m \in ms, NEW pl, KnownPipeline(m, pl), NEW i \in DOMAIN pl.steps
  PROVE  /\ i \in Nat /\ \A j \in 1 .. i - 1 : j \in DOMAIN pl.steps /\ j < i
         /\ Mirrored(m, HubSupplies(m, pl, i), ServerSupplies(ms, CanonicalPipeline(ms, m, pl), i))
         /\ (\A j, k \in 1 .. i - 1 : pl.steps[j].ref = pl.steps[k].ref => j = k) =>
              \A t, u \in HubSupplies(m, pl, i) : t.ref = u.ref /\ t.port = u.port => t = u
<1> DEFINE c == CanonicalPipeline(ms, m, pl)
           ss == pl.steps
           us == HubUsed(m, pl)
           uc == ServerUsed(ms, c)
<1>1. IsList(ss)
  BY DEF KnownPipeline, IsPipeline
<1> HIDE DEF ss
<1>2. DOMAIN ss = 1 .. Len(ss) /\ Len(ss) \in Nat /\ i \in DOMAIN ss
  BY <1>1, ListDomain DEF ss
<1>3. i \in Nat /\ \A j \in 1 .. i - 1 : j \in DOMAIN ss /\ j < i
  BY <1>2
<1>4. \A j \in 1 .. i - 1 : StepMatch(m, ss[j], c.steps[j], us[j], uc[j])
  BY <1>3, StepsMatched DEF ss
<1>5. InputMatch(m, pl.inputs, c.inputs) /\ Declares(m)
  BY InputsMatched DEF Vetted
<1> HIDE DEF us, uc, c
<1>6. Mirrored(m, Available(pl.inputs, ss, i, us), Available(c.inputs, c.steps, i, uc))
  BY <1>3, <1>4, <1>5, SuppliesMirrored
<1>7. (\A j, k \in 1 .. i - 1 : ss[j].ref = ss[k].ref => j = k) =>
         \A t, u \in Available(pl.inputs, ss, i, us) : t.ref = u.ref /\ t.port = u.port => t = u
  <2> SUFFICES ASSUME \A j, k \in 1 .. i - 1 : ss[j].ref = ss[k].ref => j = k,
                      NEW t \in Available(pl.inputs, ss, i, us), NEW u \in Available(pl.inputs, ss, i, us),
                      t.ref = u.ref, t.port = u.port
               PROVE  t = u
    OBVIOUS
  <2> DEFINE cs == c.steps
  <2>1. i \in Nat /\ AllMatched(m, ss, cs, i, us, uc) /\ RefsDiffer(ss, i)
    BY <1>3, <1>4 DEF AllMatched, RefsDiffer
  <2> HIDE DEF cs
  <2> QED BY <2>1, SuppliesUnique
<1> QED BY <1>3, <1>6, <1>7 DEF HubSupplies, ServerSupplies, us, uc, c, ss

LEMMA RepeatedRefs ==
  ASSUME NEW ss, IsList(ss)
  PROVE  ~Repeated([i \in DOMAIN ss |-> ss[i].ref])
           <=> \A i \in DOMAIN ss : \A j \in 1 .. i - 1 : ss[j].ref # ss[i].ref
<1> DEFINE rs == [i \in DOMAIN ss |-> ss[i].ref]
<1>1. DOMAIN rs = DOMAIN ss /\ \A i \in DOMAIN ss : rs[i] = ss[i].ref
  OBVIOUS
<1> HIDE DEF rs
<1>2. DOMAIN ss = 1 .. Len(ss) /\ Len(ss) \in Nat
  BY ListDomain
<1>3. ~Repeated(rs) <=> \A i, j \in DOMAIN ss : i < j => ss[i].ref # ss[j].ref
  BY <1>1 DEF Repeated
<1>4. (\A i, j \in DOMAIN ss : i < j => ss[i].ref # ss[j].ref)
        <=> \A i \in DOMAIN ss : \A j \in 1 .. i - 1 : ss[j].ref # ss[i].ref
  BY <1>2
<1> QED BY <1>3, <1>4 DEF rs

LEMMA RepeatedInputs ==
  ASSUME NEW ms, NEW m, Declares(m), NEW pl, KnownPipeline(m, pl)
  PROVE  Repeated(CanonicalPipeline(ms, m, pl).inputs) <=> Repeated(pl.inputs)
<1> DEFINE old == pl.inputs
           new == CanonicalPipeline(ms, m, pl).inputs
<1>1. DOMAIN new = DOMAIN old /\ \A k \in DOMAIN old : new[k] = TypeMap(m, old[k])
  BY InputsMatched
<1>2. \A k \in DOMAIN old : Local(old[k])
  <2> SUFFICES ASSUME NEW k \in DOMAIN old PROVE old[k] \in KnownTypes(m)
    BY KnownLocal
  <2>1. Range(old) \subseteq KnownTypes(m)
    BY DEF KnownPipeline
  <2> HIDE DEF old
  <2> QED BY <2>1 DEF Range
<1> HIDE DEF old, new
<1>3. \A i, j \in DOMAIN old : new[i] = new[j] <=> old[i] = old[j]
  BY <1>1, <1>2, TypeInjective
<1>4. Repeated(new) <=> Repeated(old)
  BY <1>1, <1>3 DEF Repeated
<1> QED BY <1>4 DEF old, new

\* A name no active plugin declares stands for itself.
LEMMA Unclaimed ==
  ASSUME NEW ms, NEW d, \A n \in ms : d \notin n.datatypes
  PROVE  canonical_datatype(ms, d) = d
<1> DEFINE T == AliasTargets(d, [n \in ms |-> n.datatypes], ms)
<1>1. T = {}
  BY DEF AliasTargets
<1>2. Cardinality(T) = 0
  BY <1>1, FS_EmptySet
<1> HIDE DEF T
<1>3. Resolve(d, T, CORE_DATA_TYPES) = d
  BY <1>2 DEF Resolve
<1> QED BY <1>3 DEF canonical_datatype, T

\* A type the manifest knows is, once canonical, a type of the registry.
LEMMA TypeServed ==
  ASSUME NEW ms, Vetted(ms), NEW m \in ms, NEW d \in KnownTypes(m)
  PROVE  has_datatype(ms, TypeMap(m, d))
<1>1. Declares(m)
  BY DEF Vetted
<1>2. CASE d \in CORE_DATA_TYPES
  <2>1. TypeMap(m, d) = d
    BY <1>1, <1>2, OwnType DEF TypeMap
  <2>2. canonical_datatype(ms, d) = d
    BY <1>2 DEF canonical_datatype, Resolve
  <2> QED BY <1>2, <2>1, <2>2 DEF has_datatype, RegistryTypes
<1>3. CASE d \in m.datatypes
  <2> DEFINE x == TypeMap(m, d)
  <2>1. Len(x) # 1 /\ x \in OwnTypes(m)
    BY <1>1, <1>3, OwnType, NotOne DEF OwnTypes
  <2> HIDE DEF x
  <2>2. \A n \in ms : x \notin n.datatypes
    <3> TAKE n \in ms
    <3>1. Declares(n)
      BY DEF Vetted
    <3>2. \A y \in n.datatypes : Len(y) = 1
      BY <3>1, OwnType
    <3> QED BY <2>1, <3>2
  <2>3. canonical_datatype(ms, x) = x
    BY <2>2, Unclaimed
  <2>4. x \in RegistryTypes(ms)
    BY <2>1 DEF RegistryTypes
  <2> QED BY <2>3, <2>4 DEF has_datatype, x
<1> QED BY <1>2, <1>3 DEF KnownTypes

\* The server resolves a local name the manifest does not know only through another's declaration.
LEMMA TypeUnserved ==
  ASSUME NEW ms, Vetted(ms), NEW m \in ms, NEW d, Len(d) = 1, \A n \in ms : d \notin n.datatypes,
         has_datatype(ms, TypeMap(m, d))
  PROVE  d \in KnownTypes(m)
<1>1. TypeMap(m, d) = d
  BY DEF TypeMap
<1>2. canonical_datatype(ms, d) = d
  BY Unclaimed
<1>3. d \in RegistryTypes(ms)
  BY <1>1, <1>2 DEF has_datatype
<1>4. ASSUME NEW n \in ms
      PROVE  d \notin OwnTypes(n)
  <2>1. Declares(n)
    BY DEF Vetted
  <2>2. \A y \in n.datatypes : Len(TypeMap(n, y)) # 1
    BY <2>1, OwnType, NotOne
  <2> QED BY <2>2 DEF OwnTypes
<1> QED BY <1>3, <1>4 DEF RegistryTypes, KnownTypes

\* What the hub accepts, the server accepts.
LEMMA PipelineToServer ==
  ASSUME NEW ms, Vetted(ms), Plain(ms), NEW m \in ms, NEW pl, IsPipeline(pl), PipelineOk(m, pl)
  PROVE  ServerAccepts(ms, m, pl)
<1> DEFINE c == CanonicalPipeline(ms, m, pl)
<1>1. KnownPipeline(m, pl) /\ PipelineShapeOk(pl) /\ _validate_pipeline_graph(m, pl) /\ Declares(m)
  BY DEF PipelineOk, KnownPipeline, Vetted
<1>6. _type_ok(ms, c.steps)
  <2> SUFFICES ASSUME NEW i \in DOMAIN pl.steps, NEW d \in pl.steps[i].types
               PROVE  has_datatype(ms, TypeMap(m, d))
    BY StepsKept, StepFields DEF _type_ok
  <2>1. d \in KnownTypes(m)
    BY DEF PipelineOk, _value_matches_attribute
  <2> QED BY <2>1, TypeServed
<1>2. ~Repeated(c.inputs)
  BY <1>1, RepeatedInputs DEF PipelineShapeOk
<1>3. DOMAIN c.steps = DOMAIN pl.steps
  BY StepsKept
<1>4. \A i \in DOMAIN pl.steps : \A j \in 1 .. i - 1 : pl.steps[j].ref # pl.steps[i].ref
  BY <1>1, RepeatedRefs DEF PipelineShapeOk, IsPipeline
<1> HIDE DEF c
<1>5. ASSUME NEW i \in DOMAIN pl.steps
      PROVE  /\ c.steps[i].ref # "inputs" /\ \A j \in 1 .. i - 1 : c.steps[j].ref # c.steps[i].ref
             /\ ServerUsed(ms, c)[i] # {}
             /\ \A p \in ServerUsed(ms, c)[i] : ServerStepOk(c.steps[i], p, ServerSupplies(ms, c, i))
  <2>1. PICK h, k : /\ HubUsed(m, pl)[i] = {h} /\ ServerUsed(ms, c)[i] = {k}
                    /\ StepPair(m, RegistryProcessors(ms), pl.steps[i], c.steps[i], h, k)
    BY <1>1, StepPairs DEF c
  <2>2. /\ \A j \in 1 .. i - 1 : j \in DOMAIN pl.steps
        /\ Mirrored(m, HubSupplies(m, pl, i), ServerSupplies(ms, c, i))
    BY <1>1, SuppliesBefore DEF c
  <2>3. \A j \in DOMAIN pl.steps : c.steps[j].ref = pl.steps[j].ref
    BY StepFields DEF c
  <2>4. c.steps[i].ref # "inputs" /\ \A j \in 1 .. i - 1 : c.steps[j].ref # c.steps[i].ref
    <3>1. pl.steps[i].ref # "inputs"
      BY DEF IsPipeline, IsStep
    <3> QED BY <1>4, <2>2, <2>3, <3>1
  <2>5. HubStepOk(pl.steps[i], h, HubSupplies(m, pl, i))
    BY <1>1, <2>1, HubVerdict
  <2>6. ServerStepOk(c.steps[i], k, ServerSupplies(ms, c, i))
    BY <1>1, <2>1, <2>2, <2>5, StepToServer
  <2> QED BY <2>1, <2>4, <2>6
<1> QED BY <1>2, <1>3, <1>5, <1>6, ServerVerdict DEF c

\* A pipeline that names nothing of another plugin.
OwnNames(m, pl) ==
  /\ pl.inputs # <<>> /\ pl.steps # <<>> /\ Range(pl.inputs) \subseteq KnownTypes(m)
  /\ \A i \in DOMAIN pl.steps :
       /\ Local(pl.steps[i].processor)
       /\ \A name \in DOMAIN pl.steps[i].wires \cup {pl.steps[i].attr} : ~Outside(m, name)
       /\ \A r \in DOMAIN pl.steps[i].wires : \A k \in DOMAIN pl.steps[i].wires[r].refs :
            Local(pl.steps[i].wires[r].refs[k].port)

\* Whose datatype-ref values mean nothing to another plugin of ms alone.
OwnValues(ms, m, pl) ==
  \A i \in DOMAIN pl.steps : \A d \in pl.steps[i].types :
    d \in KnownTypes(m) \/ (Len(d) = 1 /\ \A n \in ms : d \notin n.datatypes)

LEMMA OwnPipelineKnown ==
  ASSUME NEW ms, Vetted(ms), NEW m \in ms, NEW pl, IsPipeline(pl), OwnNames(m, pl), ServerAccepts(ms, m, pl)
  PROVE  KnownPipeline(m, pl)
<1> DEFINE c == CanonicalPipeline(ms, m, pl)
<1>1. DOMAIN c.steps = DOMAIN pl.steps
  BY StepsKept
<1>2. \A i \in DOMAIN pl.steps : c.steps[i].processor = ProcessorMap(m, pl.steps[i].processor)
  BY StepFields
<1>3. \A i \in DOMAIN c.steps : ServerUsed(ms, c)[i] # {}
  BY ServerVerdict
<1> HIDE DEF c
<1>4. ASSUME NEW i \in DOMAIN pl.steps
      PROVE  pl.steps[i].processor \in Ids(KnownProcessors(m))
  <2>1. ProcessorsNamed(RegistryProcessors(ms), ProcessorMap(m, pl.steps[i].processor)) # {}
    BY <1>1, <1>2, <1>3 DEF ServerUsed
  <2> QED BY <2>1, KnownToBoth DEF OwnNames
<1> QED BY <1>4 DEF KnownPipeline, OwnNames

\* What the server accepts of such a pipeline, the hub accepts.
LEMMA PipelineToHub ==
  ASSUME NEW ms, Vetted(ms), Plain(ms), NEW m \in ms, NEW pl, IsPipeline(pl), OwnNames(m, pl),
         OwnValues(ms, m, pl), ServerAccepts(ms, m, pl)
  PROVE  PipelineOk(m, pl)
<1> DEFINE c == CanonicalPipeline(ms, m, pl)
<1>1. KnownPipeline(m, pl) /\ Declares(m)
  BY OwnPipelineKnown DEF Vetted
<1>2. /\ ~Repeated(c.inputs)
      /\ \A i \in DOMAIN c.steps :
           /\ c.steps[i].ref # "inputs" /\ \A j \in 1 .. i - 1 : c.steps[j].ref # c.steps[i].ref
           /\ ServerUsed(ms, c)[i] # {}
           /\ \A p \in ServerUsed(ms, c)[i] : ServerStepOk(c.steps[i], p, ServerSupplies(ms, c, i))
  BY ServerVerdict
<1>3. DOMAIN c.steps = DOMAIN pl.steps
  BY StepsKept
<1>4. ~Repeated(pl.inputs)
  BY <1>1, <1>2, RepeatedInputs
<1> HIDE DEF c
<1>5. \A j \in DOMAIN pl.steps : c.steps[j].ref = pl.steps[j].ref
  BY StepFields DEF c
<1>6. \A i \in DOMAIN pl.steps : \A j \in 1 .. i - 1 : j \in DOMAIN pl.steps /\ j < i /\ j \in Nat /\ i \in Nat
  BY <1>1, SuppliesBefore
<1>7. \A i \in DOMAIN pl.steps : \A j \in 1 .. i - 1 : pl.steps[j].ref # pl.steps[i].ref
  BY <1>2, <1>3, <1>5, <1>6
<1>8. ASSUME NEW i \in DOMAIN pl.steps
      PROVE  \A p \in HubUsed(m, pl)[i] : HubStepOk(pl.steps[i], p, HubSupplies(m, pl, i))
  <2>1. PICK h, k : /\ HubUsed(m, pl)[i] = {h} /\ ServerUsed(ms, c)[i] = {k}
                    /\ StepPair(m, RegistryProcessors(ms), pl.steps[i], c.steps[i], h, k)
    BY <1>1, StepPairs DEF c
  <2>2. \A j, n \in 1 .. i - 1 : pl.steps[j].ref = pl.steps[n].ref => j = n
    <3> SUFFICES ASSUME NEW j \in 1 .. i - 1, NEW n \in 1 .. i - 1, j # n
                 PROVE  pl.steps[j].ref # pl.steps[n].ref
      OBVIOUS
    <3>1. j \in DOMAIN pl.steps /\ n \in DOMAIN pl.steps /\ j \in Nat /\ n \in Nat
      BY <1>6
    <3>2. j \in 1 .. n - 1 \/ n \in 1 .. j - 1
      BY <3>1
    <3> QED BY <1>7, <3>1, <3>2
  <2>3. /\ Mirrored(m, HubSupplies(m, pl, i), ServerSupplies(ms, c, i))
        /\ \A t, u \in HubSupplies(m, pl, i) : t.ref = u.ref /\ t.port = u.port => t = u
    BY <1>1, <2>2, SuppliesBefore DEF c
  <2>4. ServerStepOk(c.steps[i], k, ServerSupplies(ms, c, i))
    BY <1>2, <1>3, <2>1
  <2>5. /\ \A r \in DOMAIN pl.steps[i].wires : \A n \in DOMAIN pl.steps[i].wires[r].refs :
             Local(pl.steps[i].wires[r].refs[n].port)
        /\ \A name \in DOMAIN pl.steps[i].wires \cup {pl.steps[i].attr} : ~Outside(m, name)
    BY DEF OwnNames
  <2> DEFINE s == pl.steps[i]
             A == HubSupplies(m, pl, i)
             B == ServerSupplies(ms, c, i)
  <2> HIDE DEF s, A, B
  <2>6. HubStepOk(s, h, A)
    BY <1>1, <2>1, <2>3, <2>4, <2>5, StepToHub DEF s, A, B
  <2> QED BY <2>1, <2>6 DEF s, A
<1>9. ASSUME NEW i \in DOMAIN pl.steps, NEW r \in DOMAIN pl.steps[i].wires, pl.steps[i].wires[r].list
      PROVE  ~Repeated(pl.steps[i].wires[r].refs)
  <2>1. PICK h, k : /\ HubUsed(m, pl)[i] = {h} /\ ServerUsed(ms, c)[i] = {k}
                    /\ StepPair(m, RegistryProcessors(ms), pl.steps[i], c.steps[i], h, k)
    BY <1>1, StepPairs DEF c
  <2>2. HubStepOk(pl.steps[i], h, HubSupplies(m, pl, i))
    BY <1>8, <2>1
  <2>3. PICK x \in _processor_consumer(h) : r = x.role
    BY <2>2 DEF HubStepOk, Roles
  <2>4. HubPortOk(pl.steps[i], x, HubSupplies(m, pl, i))
    BY <2>2 DEF HubStepOk
  <2> QED BY <1>9, <2>3, <2>4 DEF HubPortOk
<1>10. PipelineShapeOk(pl)
  <2>1. ~Repeated([i \in DOMAIN pl.steps |-> pl.steps[i].ref])
    BY <1>7, RepeatedRefs DEF IsPipeline
  <2> QED BY <1>4, <1>9, <2>1 DEF PipelineShapeOk, OwnNames
<1>11. _validate_pipeline_graph(m, pl)
  BY <1>8, HubVerdict
<1>12. ASSUME NEW i \in DOMAIN pl.steps
       PROVE  _value_matches_attribute(m, pl.steps[i])
  <2> SUFFICES ASSUME NEW d \in pl.steps[i].types PROVE d \in KnownTypes(m)
    BY DEF _value_matches_attribute
  <2>1. c.steps[i].types = {TypeMap(m, x) : x \in pl.steps[i].types}
    BY StepFields DEF c
  <2>2. _type_ok(ms, c.steps)
    BY ServerVerdict DEF c
  <2>3. has_datatype(ms, TypeMap(m, d))
    BY <1>3, <2>1, <2>2 DEF _type_ok
  <2> QED BY <2>3, TypeUnserved DEF OwnValues
<1> QED BY <1>1, <1>10, <1>11, <1>12 DEF PipelineOk, KnownPipeline

-----------------------------------------------------------------------------
(* Dataflow: declarations of vetted manifests never meet. *)

\* An id under plugin id a.
Under(a, x) == IsId(a) /\ \E l : Local(l) /\ x = a \o l

LEMMA UnderOne ==
  ASSUME NEW a, NEW b, NEW x, Under(a, x), Under(b, x)
  PROVE  a = b
<1>1. PICK l : Local(l) /\ x = a \o l
  BY DEF Under
<1>2. PICK k : Local(k) /\ x = b \o k
  BY DEF Under
<1>3. IsId(a) /\ IsId(b) /\ IsId(l) /\ IsId(k) /\ Len(l) = 1 /\ Len(k) = 1 /\ a \o l = b \o k
  BY <1>1, <1>2 DEF Under, Local
<1> QED BY ONLY <1>3, Qualified

LEMMA UnderLong ==
  ASSUME NEW a, NEW x, Under(a, x)
  PROVE  Len(x) # 1
<1>1. PICK l : Local(l) /\ x = a \o l
  BY DEF Under
<1>2. IsId(a) /\ IsId(l) /\ Len(l) = 1
  BY <1>1 DEF Under, Local
<1>3. Len(a \o l) = Len(a) + 1 /\ Len(a) \in Nat /\ Len(a) >= 1
  BY <1>2, Concatenation, IdFacts
<1>4. Len(a \o l) # 1
  BY <1>3
<1> QED BY <1>1, <1>4, Zenon

OwnPipelines(m) == {PipelineMap(m, pl.id) : pl \in m.pipelines}

LEMMA OwnUnder ==
  ASSUME NEW m, Declares(m)
  PROVE  /\ \A x \in OwnTypes(m) : Under(m.plugin_id, x)
         /\ \A x \in Ids(OwnProcessors(m)) : Under(m.plugin_id, x)
         /\ \A x \in OwnPipelines(m) : Under(m.plugin_id, x)
<1>1. IsId(m.plugin_id)
  BY DEF Declares, IsManifest
<1>2. ASSUME NEW x \in OwnTypes(m)
      PROVE  Under(m.plugin_id, x)
  <2>1. PICK d \in m.datatypes : x = TypeMap(m, d)
    BY DEF OwnTypes
  <2> QED BY <1>1, <2>1, OwnType DEF Under, Local
<1>3. ASSUME NEW x \in Ids(OwnProcessors(m))
      PROVE  Under(m.plugin_id, x)
  <2>1. PICK p \in m.processors : x = PublishedProcessor(m, p).id
    BY DEF Ids, OwnProcessors
  <2>2. x = m.plugin_id \o p.id /\ IsId(p.id) /\ Len(p.id) = 1
    BY <2>1, PublishedId
  <2>3. Local(p.id)
    BY <2>2 DEF Local
  <2> QED BY <1>1, <2>2, <2>3 DEF Under
<1>4. ASSUME NEW x \in OwnPipelines(m)
      PROVE  Under(m.plugin_id, x)
  <2>1. PICK pl \in m.pipelines : x = PipelineMap(m, pl.id)
    BY DEF OwnPipelines
  <2>2. pl.id \in Ids(m.pipelines) /\ IsId(pl.id)
    BY DEF Ids, Declares, IsManifest, IsPipeline
  <2>3. Len(pl.id) = 1 /\ pl.id \notin CANONICAL_PIPELINES
    BY <2>2 DEF Declares, _validate_plugin_owned_declaration_ids
  <2>4. x = m.plugin_id \o pl.id
    BY <2>1, <2>3 DEF PipelineMap, _plugin_owned_id
  <2>5. Local(pl.id)
    BY <2>2, <2>3 DEF Local
  <2> QED BY <1>1, <2>4, <2>5 DEF Under
<1> QED BY <1>2, <1>3, <1>4

LEMMA CoreNotUnder ==
  ASSUME NEW a, NEW x, Under(a, x)
  PROVE  x \notin CORE_DATA_TYPES /\ x \notin Ids(CORE_PROCESSORS) /\ x \notin CANONICAL_PIPELINES
<1>1. Len(x) # 1
  BY UnderLong
<1>2. \A y \in CORE_DATA_TYPES : Len(y) = 1
  BY CoreTypes
<1>3. \A y \in Ids(CORE_PROCESSORS) : Len(y) = 1
  BY CoreLocal DEF Local
<1>4. \A y \in CANONICAL_PIPELINES : Len(y) = 1
  BY Singles DEF CANONICAL_PIPELINES
<1> QED BY <1>1, <1>2, <1>3, <1>4, Zenon

LEMMA NoDeclarationsMeet ==
  ASSUME NEW ms, Vetted(ms)
  PROVE  ~DeclarationsMeet(ms)
<1>1. ASSUME NEW m \in ms
      PROVE  /\ ~Twins(m.processors) /\ ~Twins(m.pipelines)
             /\ OwnTypes(m) \cap CORE_DATA_TYPES = {} /\ Ids(OwnProcessors(m)) \cap Ids(CORE_PROCESSORS) = {}
             /\ OwnPipelines(m) \cap CANONICAL_PIPELINES = {}
  <2>1. Declares(m)
    BY DEF Vetted
  <2>2. ~Twins(m.processors) /\ ~Twins(m.pipelines)
    BY <2>1 DEF Declares, DeclarationsOk
  <2>3. /\ \A x \in OwnTypes(m) : x \notin CORE_DATA_TYPES
        /\ \A x \in Ids(OwnProcessors(m)) : x \notin Ids(CORE_PROCESSORS)
        /\ \A x \in OwnPipelines(m) : x \notin CANONICAL_PIPELINES
    BY <2>1, OwnUnder, CoreNotUnder
  <2> QED BY <2>2, <2>3
<1>2. ASSUME NEW m \in ms, NEW n \in ms, m # n
      PROVE  /\ m.plugin_id # n.plugin_id
             /\ OwnTypes(m) \cap OwnTypes(n) = {} /\ Ids(OwnProcessors(m)) \cap Ids(OwnProcessors(n)) = {}
             /\ OwnPipelines(m) \cap OwnPipelines(n) = {}
  <2>1. Declares(m) /\ Declares(n) /\ m.plugin_id # n.plugin_id
    BY <1>2 DEF Vetted
  <2>2. \A x : ~(Under(m.plugin_id, x) /\ Under(n.plugin_id, x))
    BY <2>1, UnderOne
  <2>3. /\ \A x \in OwnTypes(m) : Under(m.plugin_id, x)
        /\ \A x \in Ids(OwnProcessors(m)) : Under(m.plugin_id, x)
        /\ \A x \in OwnPipelines(m) : Under(m.plugin_id, x)
        /\ \A x \in OwnTypes(n) : Under(n.plugin_id, x)
        /\ \A x \in Ids(OwnProcessors(n)) : Under(n.plugin_id, x)
        /\ \A x \in OwnPipelines(n) : Under(n.plugin_id, x)
    BY <2>1, OwnUnder
  <2> QED BY <2>1, <2>2, <2>3
<1> QED BY <1>1, <1>2 DEF DeclarationsMeet, OwnPipelines

LEMMA NoExtensionsMeet ==
  ASSUME NEW ms, Vetted(ms), Plain(ms)
  PROVE  ~ExtensionsMeet(ms)
<1>1. \A m \in ms : Declares(m)
  BY DEF Vetted
<1>2. ASSUME NEW p \in DeclaredProcessors(ms), NEW port \in p.consumer
      PROVE  Len(port.role) = 1
  <2>1. CASE p \in CORE_PROCESSORS
    BY <2>1, CoreProcessors DEF CoreShape, IsProcessor
  <2>2. CASE \E m \in ms : \E q \in m.processors : p = PublishedProcessor(m, q)
    <3>1. PICK m \in ms : \E q \in m.processors : p = PublishedProcessor(m, q)
      BY <2>2
    <3>2. PICK q \in m.processors : p = PublishedProcessor(m, q)
      BY <3>1
    <3>3. port \in Published(m, q.consumer)
      BY <3>2, PublishedFields
    <3>4. PICK x \in q.consumer : port.role = x.role
      BY <3>3, PublishedPort
    <3>5. Len(x.role) = 1
      BY <1>1, OwnProcessor DEF IsProcessor
    <3> QED BY <3>4, <3>5, Zenon
  <2> QED BY <2>1, <2>2, DeclaredCases
<1>3. ASSUME NEW m \in ms, NEW e \in m.extensions
      PROVE  /\ \A r \in Roles(e.special_inputs) : IsId(r) /\ IsStrictPrefix(m.plugin_id, r) /\ Len(r) # 1
             /\ \A a \in e.special_attributes : IsId(a) /\ IsStrictPrefix(m.plugin_id, a)
             /\ ProcessorMap(m, e.id) \in Ids(DeclaredProcessors(ms)) /\ Local(e.id)
  <2>1. /\ Local(e.id) /\ e.id \in Ids(KnownProcessors(m))
        /\ \A port \in e.special_inputs : IsId(port.role) /\ IsStrictPrefix(m.plugin_id, port.role) /\ Len(port.role) # 1
        /\ \A a \in e.special_attributes : IsId(a) /\ IsStrictPrefix(m.plugin_id, a)
    BY <1>1, ExtensionNames
  <2>2. PICK p \in KnownProcessors(m) : p.id = e.id
    BY <2>1 DEF Ids
  <2>3. Canonical(m, p).id = ProcessorMap(m, p.id) /\ Canonical(m, p) \in DeclaredProcessors(ms)
    BY <1>1, KnownShape, CanonicalDeclared
  <2>4. ProcessorMap(m, e.id) \in Ids(DeclaredProcessors(ms))
    BY <2>2, <2>3 DEF Ids
  <2>5. \A r \in Roles(e.special_inputs) : IsId(r) /\ IsStrictPrefix(m.plugin_id, r) /\ Len(r) # 1
    <3> TAKE r \in Roles(e.special_inputs)
    <3>1. PICK port \in e.special_inputs : r = port.role
      BY DEF Roles
    <3>2. IsId(port.role) /\ IsStrictPrefix(m.plugin_id, port.role) /\ Len(port.role) # 1
      BY <2>1
    <3> QED BY <3>1, <3>2, Zenon
  <2> QED BY <2>1, <2>4, <2>5
<1>4. ASSUME NEW m \in ms, NEW n \in ms, NEW x, IsId(x), IsStrictPrefix(m.plugin_id, x), IsStrictPrefix(n.plugin_id, x)
      PROVE  m = n
  BY <1>4, ForeignName DEF Outside
<1>5. ASSUME NEW p \in DeclaredProcessors(ms), NEW x \in Extending(ms, p.id), NEW y \in Extending(ms, p.id)
      PROVE  /\ Roles(x[2].special_inputs) \cap Roles(p.consumer) = {}
             /\ x # y => /\ Roles(x[2].special_inputs) \cap Roles(y[2].special_inputs) = {}
                         /\ x[2].special_attributes \cap y[2].special_attributes = {}
  <2>1. PICK m \in ms : \E e \in m.extensions : x = <<m, e>> /\ ProcessorMap(m, e.id) = p.id
    BY ExtendingIs
  <2>2. PICK e \in m.extensions : x = <<m, e>> /\ ProcessorMap(m, e.id) = p.id
    BY <2>1
  <2>3. PICK n \in ms : \E f \in n.extensions : y = <<n, f>> /\ ProcessorMap(n, f.id) = p.id
    BY ExtendingIs
  <2>4. PICK f \in n.extensions : y = <<n, f>> /\ ProcessorMap(n, f.id) = p.id
    BY <2>3
  <2>5. x[2] = e /\ y[2] = f
    BY <2>2, <2>4
  <2>6. ASSUME NEW r \in Roles(e.special_inputs), r \in Roles(p.consumer)
        PROVE  FALSE
    <3>1. PICK port \in p.consumer : r = port.role
      BY <2>6 DEF Roles
    <3>2. Len(port.role) = 1 /\ Len(r) # 1
      BY <1>2, <1>3
    <3> QED BY <3>1, <3>2, Zenon
  <2>7. ASSUME x # y, m = n
        PROVE  FALSE
    <3>1. e.id = f.id
      BY <1>1, <1>3, <2>2, <2>4, <2>7, ProcessorInjective
    <3>2. e = f
      BY <1>1, <2>7, <3>1 DEF Declares, ExtensionsOk, Twins
    <3> QED BY <2>2, <2>4, <2>7, <3>2
  <2>8. ASSUME x # y, NEW r, r \in Roles(e.special_inputs) \cap Roles(f.special_inputs)
                               \/ r \in e.special_attributes \cap f.special_attributes
        PROVE  FALSE
    <3>1. IsId(r) /\ IsStrictPrefix(m.plugin_id, r) /\ IsStrictPrefix(n.plugin_id, r)
      BY <1>3, <2>8
    <3> QED BY <1>4, <2>7, <2>8, <3>1
  <2> QED BY <2>5, <2>6, <2>8
<1>6. \A m \in ms : \A e \in m.extensions : ProcessorMap(m, e.id) \in Ids(DeclaredProcessors(ms))
  BY <1>3
<1> QED BY <1>5, <1>6 DEF ExtensionsMeet

\* So the registry goes down only for a pipeline that does not compose.
LEMMA OnlyPipelinesRaise ==
  ASSUME NEW ms, Vetted(ms), Plain(ms)
  PROVE  RegistryRaises(ms) <=> \E m \in ms : \E pl \in m.pipelines : ~ServerAccepts(ms, m, pl)
BY NoDeclarationsMeet, NoExtensionsMeet DEF RegistryRaises

-----------------------------------------------------------------------------
(* Dataflow: the hub's checker and the server's agree. *)

\* No plugin's id is a dotted extension of another's.
PlainIds == Plain(Manifests)

Draft == [id |-> <<"draft">>, inputs |-> inputs, steps |-> steps]

LEMMA DraftPipeline ==
  ASSUME DataflowInv
  PROVE  /\ IsPipeline(Draft) /\ Draft.id = <<"draft">> /\ Draft.inputs = inputs /\ Draft.steps = steps
         /\ Local(Draft.id) /\ Draft.id \notin CANONICAL_PIPELINES
<1>1. Draft.id = <<"draft">> /\ Draft.inputs = inputs /\ Draft.steps = steps
  BY DEF Draft
<1>2. Local(<<"draft">>)
  BY Singles DEF Local
<1>3. IsList(inputs) /\ \A k \in DOMAIN inputs : IsId(inputs[k])
  BY DataflowAssumption DEF DataflowInv, DataflowTypeOK
<1>4. IsList(steps) /\ \A i \in DOMAIN steps : IsStep(steps[i])
  BY DEF DataflowInv
<1>5. <<"draft">> \notin CANONICAL_PIPELINES
  BY DEF CANONICAL_PIPELINES
<1>6. IsPipeline(Draft)
  BY <1>1, <1>2, <1>3, <1>4 DEF IsPipeline, Local
<1> QED BY <1>1, <1>2, <1>5, <1>6

LEMMA OfferedFields ==
  ASSUME NEW m
  PROVE  /\ Offered(m).plugin_id = m.plugin_id /\ Offered(m).datatypes = m.datatypes
         /\ Offered(m).processors = m.processors /\ Offered(m).extensions = m.extensions
         /\ Offered(m).pipelines = {Draft}
BY DEF Offered, Draft

LEMMA SameDeclarations ==
  ASSUME NEW m, Declares(m), NEW o, DataflowInv,
         o.plugin_id = m.plugin_id, o.datatypes = m.datatypes, o.processors = m.processors,
         o.extensions = m.extensions, o.pipelines = {Draft}
  PROVE  Declares(o)
<1>1. KnownTypes(o) = KnownTypes(m) /\ KnownProcessors(o) = KnownProcessors(m)
  BY DEF KnownTypes, KnownProcessors
<1>2. DeclarationsOk(o)
  BY <1>1 DEF Declares, DeclarationsOk
<1>3. ExtensionsOk(o)
  BY <1>1 DEF Declares, ExtensionsOk
<1>4. IsManifest(o)
  BY DraftPipeline DEF Declares, IsManifest
<1>5. Ids(o.pipelines) = {Draft.id}
  BY DEF Ids
<1>6. _validate_plugin_owned_declaration_ids(o)
  <2>1. \A x \in m.datatypes \cup Ids(m.processors) : Len(x) = 1
    BY DEF Declares, _validate_plugin_owned_declaration_ids
  <2>2. Len(Draft.id) = 1
    BY DraftPipeline DEF Local
  <2> QED BY <1>5, <2>1, <2>2 DEF _validate_plugin_owned_declaration_ids
<1>7. ~Twins(o.pipelines) /\ Ids(o.pipelines) \cap CANONICAL_PIPELINES = {}
  BY <1>5, DraftPipeline DEF Twins
<1> QED BY <1>2, <1>3, <1>4, <1>6, <1>7 DEF Declares

\* The registry is up while the hub accepts every active manifest.
LEMMA RegistryUp ==
  ASSUME NEW ms, Vetted(ms), Plain(ms), \A m \in ms : \A pl \in m.pipelines : PipelineOk(m, pl)
  PROVE  ~RegistryRaises(ms)
<1>1. ASSUME NEW m \in ms, NEW pl \in m.pipelines
      PROVE  ServerAccepts(ms, m, pl)
  <2>1. IsPipeline(pl)
    BY DEF Vetted, Declares, IsManifest
  <2> QED BY <2>1, PipelineToServer
<1> QED BY <1>1, OnlyPipelinesRaise

LEMMA ManifestsVetted ==
  ASSUME PlainIds, NEW m \in Manifests, HubAccepts(m), DataflowInv, NEW o, Declares(o), o.plugin_id = m.plugin_id
  PROVE  Vetted((active \ {m}) \cup {o}) /\ Plain((active \ {m}) \cup {o})
<1>1. active \subseteq Manifests /\ Vetted(active)
  BY ActiveVetted DEF DataflowInv, DataflowTypeOK
<1>2. ASSUME NEW n \in active, n # m
      PROVE  n.plugin_id # o.plugin_id /\ ~IsPrefix(n.plugin_id, o.plugin_id) /\ ~IsPrefix(o.plugin_id, n.plugin_id)
  BY <1>1, <1>2, DataflowAssumption DEF PlainIds, Plain
<1>3. Vetted((active \ {m}) \cup {o})
  BY <1>1, <1>2 DEF Vetted
<1>4. \A n, k \in active : IsPrefix(n.plugin_id, k.plugin_id) => n = k
  BY <1>1 DEF PlainIds, Plain
<1>5. Plain((active \ {m}) \cup {o})
  BY <1>2, <1>4 DEF Plain
<1> QED BY <1>3, <1>5

LEMMA DraftOwnNames ==
  ASSUME NEW m, LocallyNamed(m), DataflowInv, NEW o, o.plugin_id = m.plugin_id, o.datatypes = m.datatypes
  PROVE  OwnNames(o, Draft)
<1>1. Draft.inputs = inputs /\ Draft.steps = steps
  BY DraftPipeline
<1>2. inputs # <<>> /\ steps # <<>> /\ Range(inputs) \subseteq KnownTypes(o)
  BY DEF LocallyNamed, KnownTypes
<1>3. ASSUME NEW i \in DOMAIN steps
      PROVE  /\ Local(steps[i].processor)
             /\ \A name \in DOMAIN steps[i].wires \cup {steps[i].attr} : ~Outside(o, name)
             /\ \A r \in DOMAIN steps[i].wires : \A k \in DOMAIN steps[i].wires[r].refs :
                  Local(steps[i].wires[r].refs[k].port)
  <2>1. IsStep(steps[i])
    BY DEF DataflowInv
  <2>2. Local(steps[i].processor)
    BY <2>1 DEF IsStep, LocallyNamed, Local
  <2>3. \A name \in DOMAIN steps[i].wires \cup {steps[i].attr} : ~Outside(o, name)
    BY DEF LocallyNamed, Outside
  <2>4. ASSUME NEW r \in DOMAIN steps[i].wires, NEW k \in DOMAIN steps[i].wires[r].refs
        PROVE  Local(steps[i].wires[r].refs[k].port)
    <3> DEFINE refs == steps[i].wires[r].refs
    <3>1. IsWireRef(refs[k])
      BY <2>1 DEF IsStep, IsWire
    <3>2. \A w \in Range(refs) : Len(w.port) = 1
      BY DEF LocallyNamed
    <3> HIDE DEF refs
    <3>3. k \in DOMAIN refs
      BY DEF refs
    <3>4. refs[k] \in Range(refs)
      BY <3>3 DEF Range
    <3>5. Local(refs[k].port)
      BY <3>1, <3>2, <3>4 DEF IsWireRef, Local
    <3> QED BY <3>5 DEF refs
  <2> QED BY <2>2, <2>3, <2>4
<1> QED BY <1>1, <1>2, <1>3 DEF OwnNames

LEMMA DraftOwnValues ==
  ASSUME NEW m, LocallyNamed(m), DataflowInv, NEW o, o.datatypes = m.datatypes
  PROVE  OwnValues((active \ {m}) \cup {o}, o, Draft)
<1> DEFINE ms == (active \ {m}) \cup {o}
<1>1. KnownTypes(o) = KnownTypes(m)
  BY DEF KnownTypes
<1>2. ASSUME NEW i \in DOMAIN steps, NEW d \in steps[i].types, d \notin KnownTypes(o)
      PROVE  Len(d) = 1 /\ \A n \in ms : d \notin n.datatypes
  <2>1. Len(d) = 1 /\ \A n \in active : d \notin n.datatypes
    BY <1>1, <1>2 DEF LocallyNamed
  <2>2. d \notin o.datatypes
    BY <1>2 DEF KnownTypes
  <2> QED BY <2>1, <2>2
<1>3. Draft.steps = steps
  BY DraftPipeline
<1> HIDE DEF ms
<1> QED BY <1>2, <1>3 DEF OwnValues, ms

LEMMA DraftAgrees ==
  ASSUME PlainIds, NEW m \in Manifests, HubAccepts(m), DataflowInv
  PROVE  /\ HubAccepts(Offered(m)) => ~RegistryRaises(WithOffered(m))
         /\ LocallyNamed(m) /\ ~RegistryRaises(WithOffered(m)) => HubAccepts(Offered(m))
<1> DEFINE o == Offered(m)
           ms == (active \ {m}) \cup {o}
<1>1. /\ o.plugin_id = m.plugin_id /\ o.datatypes = m.datatypes /\ o.processors = m.processors
      /\ o.extensions = m.extensions /\ o.pipelines = {Draft}
  BY OfferedFields
<1> HIDE DEF o
<1>2. Declares(m)
  BY DataflowAssumption DEF Declares, HubAccepts, _validate_typed_extension_graph, PipelinesOk
<1>3. Declares(o)
  BY <1>1, <1>2, SameDeclarations
<1>4. Vetted(ms) /\ Plain(ms) /\ o \in ms
  BY <1>1, <1>3, ManifestsVetted
<1>5. IsPipeline(Draft)
  BY DraftPipeline
<1>6. HubAccepts(o) <=> PipelineOk(o, Draft)
  BY <1>1, <1>3 DEF Declares, HubAccepts, _validate_typed_extension_graph, PipelinesOk
<1>7. ASSUME PipelineOk(o, Draft)
      PROVE  ~RegistryRaises(ms)
  <2>1. \A n \in active : \A pl \in n.pipelines : PipelineOk(n, pl)
    BY DEF DataflowInv, HubAccepts, _validate_typed_extension_graph, PipelinesOk
  <2>2. \A n \in ms : \A pl \in n.pipelines : PipelineOk(n, pl)
    BY <1>1, <1>7, <2>1
  <2> HIDE DEF ms
  <2> QED BY <1>4, <2>2, RegistryUp
<1>8. ASSUME LocallyNamed(m), ~RegistryRaises(ms)
      PROVE  PipelineOk(o, Draft)
  <2>1. OwnNames(o, Draft) /\ Draft \in o.pipelines
    BY <1>1, <1>8, DraftOwnNames
  <2>2. OwnValues(ms, o, Draft)
    BY <1>1, <1>8, DraftOwnValues
  <2> HIDE DEF ms
  <2>3. ServerAccepts(ms, o, Draft)
    BY <1>4, <1>8, <2>1, OnlyPipelinesRaise
  <2> QED BY <1>4, <1>5, <2>1, <2>2, <2>3, PipelineToHub
<1>9. ms = WithOffered(m)
  BY DEF WithOffered, o
<1> HIDE DEF ms
<1> QED BY <1>6, <1>7, <1>8, <1>9 DEF o

LEMMA CheckersAgreeHolds ==
  ASSUME PlainIds, DataflowInv
  PROVE  CheckersAgree
<1>1. \A m \in active : \A pl \in m.pipelines : PipelineOk(m, pl)
  BY DEF DataflowInv, HubAccepts, _validate_typed_extension_graph, PipelinesOk
<1>2. Plain(active)
  BY DEF PlainIds, Plain, DataflowInv, DataflowTypeOK
<1>3. ~RegistryRaises(active)
  BY <1>1, <1>2, ActiveVetted, RegistryUp
<1> QED BY <1>3, DraftAgrees DEF CheckersAgree

\* While no plugin's id is a dotted extension of another's: a manifest the hub accepts,
\* whatever names its pipelines use, never takes the registry of whatever else is enabled
\* down; and a pipeline the registry takes that names its things locally, the hub takes.
THEOREM TheCheckersAgree ==
  ASSUME PlainIds
  PROVE  DataflowSpec => []CheckersAgree
<1>1. DataflowInv => CheckersAgree
  BY CheckersAgreeHolds
<1> QED BY <1>1, DataflowInductive, PTL

-----------------------------------------------------------------------------
(* Dataflow: bare names as plugins come and go. *)

\* The canonical names a bare data type, or processor, may stand for.
TypeTargets(ms, name) == AliasTargets(name, [m \in ms |-> m.datatypes], ms)
ProcessorTargets(ms, name) == AliasTargets(name, [m \in ms |-> Ids(m.processors)], ms)

LEMMA TargetsAre ==
  ASSUME NEW ms, NEW name
  PROVE  /\ \A x : x \in TypeTargets(ms, name) <=> \E n \in ms : name \in n.datatypes /\ x = n.plugin_id \o name
         /\ \A x : x \in ProcessorTargets(ms, name)
                      <=> \E n \in ms : name \in Ids(n.processors) /\ x = n.plugin_id \o name
         /\ canonical_datatype(ms, name) = Resolve(name, TypeTargets(ms, name), CORE_DATA_TYPES)
         /\ canonical_processor(ms, name) = Resolve(name, ProcessorTargets(ms, name), Ids(CORE_PROCESSORS))
BY DEF TypeTargets, ProcessorTargets, AliasTargets, canonical_datatype, canonical_processor

LEMMA AliasTargetsFinite ==
  ASSUME NEW local, NEW declared, NEW ms, IsFiniteSet(ms)
  PROVE  IsFiniteSet(AliasTargets(local, declared, ms))
<1> DEFINE S == {x \in ms : local \in declared[x]}
           f == [m \in S |-> m.plugin_id \o local]
<1>1. DOMAIN f = S /\ AliasTargets(local, declared, ms) = {f[x] : x \in S}
  BY DEF AliasTargets
<1>2. IsFiniteSet(S)
  BY FS_Subset
<1> HIDE DEF f, S
<1>3. IsFiniteSet({f[x] : x \in S})
  BY <1>1, <1>2, FiniteImage
<1> QED BY <1>1, <1>3

LEMMA Resolved ==
  ASSUME NEW local, NEW targets, IsFiniteSet(targets), NEW core
  PROVE  \/ Resolve(local, targets, core) = local
         \/ local \notin core /\ targets = {Resolve(local, targets, core)}
<1>1. CASE local \notin core /\ Cardinality(targets) = 1
  <2>1. PICK x : targets = {x}
    BY <1>1, FS_Singleton
  <2>2. Resolve(local, targets, core) = CHOOSE t \in targets : TRUE
    BY <1>1 DEF Resolve
  <2>3. (CHOOSE t \in targets : TRUE) \in targets
    BY <2>1
  <2> QED BY <1>1, <2>1, <2>2, <2>3
<1>2. CASE ~(local \notin core /\ Cardinality(targets) = 1)
  BY <1>2 DEF Resolve
<1> QED BY <1>1, <1>2

\* A name that one more plugin declares may become ambiguous or be resolved, but it
\* never changes its meaning.
LEMMA ResolvedTwice ==
  ASSUME NEW local, NEW few, NEW many, IsFiniteSet(few), IsFiniteSet(many), few \subseteq many, NEW core
  PROVE  \/ Resolve(local, few, core) = local
         \/ Resolve(local, many, core) = local
         \/ Resolve(local, few, core) = Resolve(local, many, core)
<1>1. /\ \/ Resolve(local, few, core) = local
         \/ few = {Resolve(local, few, core)}
      /\ \/ Resolve(local, many, core) = local
         \/ many = {Resolve(local, many, core)}
  BY Resolved
<1> QED BY <1>1

LEMMA MeaningKept ==
  ASSUME NEW few, NEW many, few \subseteq many, IsFiniteSet(many), NEW id
  PROVE  \/ canonical_processor(few, id) = id
         \/ canonical_processor(many, id) = id
         \/ canonical_processor(few, id) = canonical_processor(many, id)
<1> DEFINE S == ProcessorTargets(few, id)
           T == ProcessorTargets(many, id)
<1>1. IsFiniteSet(few)
  BY FS_Subset
<1>2. IsFiniteSet(S) /\ IsFiniteSet(T)
  BY <1>1, AliasTargetsFinite DEF ProcessorTargets
<1>3. ASSUME NEW x \in S
      PROVE  x \in T
  BY TargetsAre
<1> HIDE DEF S, T
<1>4. \/ Resolve(id, S, Ids(CORE_PROCESSORS)) = id
      \/ Resolve(id, T, Ids(CORE_PROCESSORS)) = id
      \/ Resolve(id, S, Ids(CORE_PROCESSORS)) = Resolve(id, T, Ids(CORE_PROCESSORS))
  <2>1. S \subseteq T
    BY <1>3
  <2> QED BY <1>2, <2>1, ResolvedTwice
<1>5. /\ canonical_processor(few, id) = Resolve(id, S, Ids(CORE_PROCESSORS))
      /\ canonical_processor(many, id) = Resolve(id, T, Ids(CORE_PROCESSORS))
  BY TargetsAre DEF S, T
<1> QED BY <1>4, <1>5

\* Without m, a name m does not declare resolves as with it, and never to m's.
LEMMA ResolvedWithout ==
  ASSUME NEW T, Vetted(T), IsFiniteSet(T), NEW m \in T, NEW name, IsId(name), ~IsPrefix(m.plugin_id, name)
  PROVE  /\ name \notin m.datatypes =>
              /\ canonical_datatype(T \ {m}, name) = canonical_datatype(T, name)
              /\ canonical_datatype(T, name) \notin OwnTypes(m)
         /\ name \notin Ids(m.processors) =>
              /\ canonical_processor(T \ {m}, name) = canonical_processor(T, name)
              /\ canonical_processor(T, name) \notin Ids(OwnProcessors(m))
<1> DEFINE S == T \ {m}
           dS == TypeTargets(S, name)
           dT == TypeTargets(T, name)
           pS == ProcessorTargets(S, name)
           pT == ProcessorTargets(T, name)
<1>1. \A n \in T : Declares(n) /\ IsId(n.plugin_id) /\ (n.plugin_id = m.plugin_id => n = m)
  BY DEF Vetted, Declares, IsManifest
<1>0. \A n : n \in S <=> n \in T /\ n # m
  OBVIOUS
<1> HIDE DEF S
<1>2. /\ \A x : x \in dS <=> \E n \in S : name \in n.datatypes /\ x = n.plugin_id \o name
      /\ \A x : x \in dT <=> \E n \in T : name \in n.datatypes /\ x = n.plugin_id \o name
  <2>1. \A x : x \in dS <=> \E n \in S : name \in n.datatypes /\ x = n.plugin_id \o name
    BY TargetsAre
  <2>2. \A x : x \in dT <=> \E n \in T : name \in n.datatypes /\ x = n.plugin_id \o name
    BY TargetsAre
  <2> QED BY <2>1, <2>2
<1>3. /\ \A x : x \in pS <=> \E n \in S : name \in Ids(n.processors) /\ x = n.plugin_id \o name
      /\ \A x : x \in pT <=> \E n \in T : name \in Ids(n.processors) /\ x = n.plugin_id \o name
  <2>1. \A x : x \in pS <=> \E n \in S : name \in Ids(n.processors) /\ x = n.plugin_id \o name
    BY TargetsAre
  <2>2. \A x : x \in pT <=> \E n \in T : name \in Ids(n.processors) /\ x = n.plugin_id \o name
    BY TargetsAre
  <2> QED BY <2>1, <2>2
<1>4. IsFiniteSet(dT) /\ IsFiniteSet(pT)
  BY AliasTargetsFinite DEF TypeTargets, ProcessorTargets
<1>5. /\ canonical_datatype(S, name) = Resolve(name, dS, CORE_DATA_TYPES)
      /\ canonical_datatype(T, name) = Resolve(name, dT, CORE_DATA_TYPES)
      /\ canonical_processor(S, name) = Resolve(name, pS, Ids(CORE_PROCESSORS))
      /\ canonical_processor(T, name) = Resolve(name, pT, Ids(CORE_PROCESSORS))
  BY TargetsAre
<1> HIDE DEF dS, dT, pS, pT
<1>6. name \notin m.datatypes => dS = dT
  BY <1>0, <1>2
<1>7. name \notin Ids(m.processors) => pS = pT
  BY <1>0, <1>3
<1>8. ~Under(m.plugin_id, name)
  <2> SUFFICES ASSUME NEW l, Local(l), name = m.plugin_id \o l PROVE FALSE
    BY DEF Under
  <2>1. IsPrefix(m.plugin_id, m.plugin_id \o l)
    BY <1>1, QualifiedPrefix DEF Local
  <2> QED BY <2>1
<1>9. ASSUME NEW n \in T, n # m, Local(name)
      PROVE  ~Under(m.plugin_id, n.plugin_id \o name)
  <2>1. Under(n.plugin_id, n.plugin_id \o name)
    BY <1>1, <1>9 DEF Under
  <2> QED BY <1>1, <1>9, <2>1, UnderOne
<1>10. ASSUME name \notin m.datatypes
       PROVE  canonical_datatype(T, name) \notin OwnTypes(m)
  <2>1. \A x \in dT : ~Under(m.plugin_id, x)
    <3> TAKE x \in dT
    <3>1. PICK n \in T : name \in n.datatypes /\ x = n.plugin_id \o name
      BY <1>2
    <3>2. Local(name) /\ n # m
      BY <1>1, <1>10, <3>1, OwnType DEF Local
    <3> QED BY <1>9, <3>1, <3>2
  <2>2. canonical_datatype(T, name) = name \/ canonical_datatype(T, name) \in dT
    BY <1>4, <1>5, Resolved
  <2>3. \A x \in OwnTypes(m) : Under(m.plugin_id, x)
    BY <1>1, OwnUnder
  <2> QED BY <1>8, <2>1, <2>2, <2>3
<1>11. ASSUME name \notin Ids(m.processors)
       PROVE  canonical_processor(T, name) \notin Ids(OwnProcessors(m))
  <2>1. \A x \in pT : ~Under(m.plugin_id, x)
    <3> TAKE x \in pT
    <3>1. PICK n \in T : name \in Ids(n.processors) /\ x = n.plugin_id \o name
      BY <1>3
    <3>2. Local(name) /\ n # m
      BY <1>1, <1>11, <3>1, OwnIdOf
    <3> QED BY <1>9, <3>1, <3>2
  <2>2. canonical_processor(T, name) = name \/ canonical_processor(T, name) \in pT
    BY <1>4, <1>5, Resolved
  <2>3. \A x \in Ids(OwnProcessors(m)) : Under(m.plugin_id, x)
    BY <1>1, OwnUnder
  <2> QED BY <1>8, <2>1, <2>2, <2>3
<1> QED BY <1>5, <1>6, <1>7, <1>10, <1>11 DEF S

-----------------------------------------------------------------------------
(* Dataflow: a request that names nothing of plugin m, with and without m. *)

\* q is p with optional inputs and attributes of m's added.
Widened(m, p, q) ==
  /\ q.consumer = p.consumer /\ q.supplier = p.supplier
  /\ _processor_consumer(p) \subseteq _processor_consumer(q)
  /\ \A z \in _processor_consumer(q) :
       z \in _processor_consumer(p) \/ (z.required = FALSE /\ IsPrefix(m.plugin_id, z.role))
  /\ p.special_attributes \subseteq q.special_attributes
  /\ \A a \in q.special_attributes : a \in p.special_attributes \/ IsPrefix(m.plugin_id, a)

LEMMA ExtendedWidened ==
  ASSUME NEW T, Vetted(T), NEW m \in T, NEW S, \A n : n \in S <=> n \in T /\ n # m, NEW p
  PROVE  Widened(m, Extended(S, p), Extended(T, p))
<1> DEFINE a == Extended(S, p)
           b == Extended(T, p)
<1>1. b.consumer = a.consumer /\ b.supplier = a.supplier
  BY ExtendedFields
<1>2. /\ \A q : q \in a.special_inputs
                  <=> \E n \in S : \E e \in n.extensions : ProcessorMap(n, e.id) = p.id /\ q \in Published(n, e.special_inputs)
      /\ \A x : x \in a.special_attributes
                  <=> \E n \in S : \E e \in n.extensions : ProcessorMap(n, e.id) = p.id /\ x \in e.special_attributes
  BY SpecialsOf
<1>3. /\ \A q : q \in b.special_inputs
                  <=> \E n \in T : \E e \in n.extensions : ProcessorMap(n, e.id) = p.id /\ q \in Published(n, e.special_inputs)
      /\ \A x : x \in b.special_attributes
                  <=> \E n \in T : \E e \in n.extensions : ProcessorMap(n, e.id) = p.id /\ x \in e.special_attributes
  BY SpecialsOf
<1> HIDE DEF a, b
<1>4. Declares(m)
  BY DEF Vetted
<1>5. ASSUME NEW e \in m.extensions
      PROVE  /\ \A q \in Published(m, e.special_inputs) : q.required = FALSE /\ IsPrefix(m.plugin_id, q.role)
             /\ \A x \in e.special_attributes : IsPrefix(m.plugin_id, x)
  <2>1. /\ \A port \in e.special_inputs : IsStrictPrefix(m.plugin_id, port.role) /\ port.required = FALSE
        /\ \A x \in e.special_attributes : IsStrictPrefix(m.plugin_id, x)
    BY <1>4, ExtensionNames
  <2>2. \A q \in Published(m, e.special_inputs) : q.required = FALSE /\ IsPrefix(m.plugin_id, q.role)
    <3> TAKE q \in Published(m, e.special_inputs)
    <3>1. PICK port \in e.special_inputs : q.role = port.role /\ q.required = port.required
      BY PublishedPort
    <3>2. IsPrefix(m.plugin_id, port.role) /\ port.required = FALSE
      BY <2>1 DEF IsStrictPrefix
    <3> QED BY <3>1, <3>2, Zenon
  <2> QED BY <2>1, <2>2 DEF IsStrictPrefix
<1>6. a.special_inputs \subseteq b.special_inputs /\ a.special_attributes \subseteq b.special_attributes
  BY <1>2, <1>3
<1>7. \A z \in b.special_inputs : z \in a.special_inputs \/ (z.required = FALSE /\ IsPrefix(m.plugin_id, z.role))
  <2> TAKE z \in b.special_inputs
  <2>1. PICK n \in T : \E e \in n.extensions : ProcessorMap(n, e.id) = p.id /\ z \in Published(n, e.special_inputs)
    BY <1>3
  <2>2. PICK e \in n.extensions : ProcessorMap(n, e.id) = p.id /\ z \in Published(n, e.special_inputs)
    BY <2>1
  <2>3. CASE n = m
    <3>1. e \in m.extensions /\ z \in Published(m, e.special_inputs)
      BY <2>2, <2>3, Zenon
    <3> QED BY <1>5, <3>1
  <2>4. CASE n # m
    BY <1>2, <2>2, <2>4
  <2> QED BY <2>3, <2>4
<1>8. \A x \in b.special_attributes : x \in a.special_attributes \/ IsPrefix(m.plugin_id, x)
  <2> TAKE x \in b.special_attributes
  <2>1. PICK n \in T : \E e \in n.extensions : ProcessorMap(n, e.id) = p.id /\ x \in e.special_attributes
    BY <1>3
  <2>2. PICK e \in n.extensions : ProcessorMap(n, e.id) = p.id /\ x \in e.special_attributes
    BY <2>1
  <2>3. CASE n = m
    BY <1>5, <2>2, <2>3
  <2>4. CASE n # m
    BY <1>2, <2>2, <2>4
  <2> QED BY <2>3, <2>4
<1>9. Widened(m, a, b)
  BY <1>1, <1>6, <1>7, <1>8 DEF Widened, _processor_consumer
<1> QED BY <1>9 DEF a, b

\* The processors of one step without and with m.
Alike(m, U, V) ==
  /\ \A p \in U : \E q \in V : Widened(m, p, q)
  /\ \A q \in V : \E p \in U : Widened(m, p, q)

LEMMA UsedAlike ==
  ASSUME NEW T, Vetted(T), IsFiniteSet(T), NEW m \in T, NEW ss, NEW i \in DOMAIN ss,
         IsId(ss[i].processor), ~IsPrefix(m.plugin_id, ss[i].processor), ss[i].processor \notin Ids(m.processors)
  PROVE  Alike(m, Used(T \ {m}, ss)[i], Used(T, ss)[i])
<1> DEFINE S == T \ {m}
           id == canonical_processor(T, ss[i].processor)
           N == ProcessorsNamed(DeclaredProcessors(T), id)
<1>1. \A n : n \in S <=> n \in T /\ n # m
  OBVIOUS
<1>2. canonical_processor(S, ss[i].processor) = id /\ id \notin Ids(OwnProcessors(m))
  BY ResolvedWithout
<1> HIDE DEF id, S
<1>3. \A p : p \in DeclaredProcessors(T) <=> p \in DeclaredProcessors(S) \/ p \in OwnProcessors(m)
  BY <1>1 DEF DeclaredProcessors
<1>4. ProcessorsNamed(DeclaredProcessors(S), id) = N
  BY <1>2, <1>3 DEF ProcessorsNamed, Ids
<1>5. Used(S, ss)[i] = {Extended(S, p) : p \in N} /\ Used(T, ss)[i] = {Extended(T, p) : p \in N}
  BY <1>2, <1>4, UsedIs DEF id
<1> HIDE DEF N
<1>6. \A p \in N : Widened(m, Extended(S, p), Extended(T, p))
  BY <1>1, ExtendedWidened
<1>7. Alike(m, Used(S, ss)[i], Used(T, ss)[i])
  BY <1>5, <1>6 DEF Alike
<1> QED BY <1>7 DEF S

\* Without and with m, up to step n.
AllAlike(m, n, U, V) == \A i \in 1 .. n : Alike(m, U[i], V[i])

LEMMA AvailableAlike ==
  ASSUME NEW m, NEW ins, NEW ss, NEW i \in Nat, NEW U, NEW V, AllAlike(m, i - 1, U, V)
  PROVE  Available(ins, ss, i, U) = Available(ins, ss, i, V)
<1>1. ASSUME NEW j \in 1 .. i - 1
      PROVE  SuppliesOf(j, ss, U) = SuppliesOf(j, ss, V)
  <2>1. \A p \in U[j] : \E q \in V[j] : q.supplier = p.supplier
    BY DEF AllAlike, Alike, Widened
  <2>2. \A q \in V[j] : \E p \in U[j] : q.supplier = p.supplier
    BY DEF AllAlike, Alike, Widened
  <2>3. \A p, q : q.supplier = p.supplier => Outputs(j, ss[j], p) = Outputs(j, ss[j], q)
    BY DEF Outputs
  <2> QED BY <2>1, <2>2, <2>3 DEF SuppliesOf
<1> QED BY <1>1 DEF Available

LEMMA StepAlike ==
  ASSUME NEW m, NEW p, NEW q, Widened(m, p, q), NEW c, NEW A,
         \A name \in DOMAIN c.wires \cup {c.attr} : ~IsPrefix(m.plugin_id, name)
  PROVE  ServerStepOk(c, p, A) <=> ServerStepOk(c, q, A)
<1>1. validate_attributes(p, c.attr) <=> validate_attributes(q, c.attr)
  BY DEF Widened, validate_attributes
<1>2. \A r \in DOMAIN c.wires : r \in Roles(_processor_consumer(p)) <=> r \in Roles(_processor_consumer(q))
  <2> TAKE r \in DOMAIN c.wires
  <2>1. ASSUME NEW z \in _processor_consumer(q), r = z.role
        PROVE  z \in _processor_consumer(p)
    <3>1. ~IsPrefix(m.plugin_id, z.role)
      BY <2>1
    <3> QED BY <3>1 DEF Widened
  <2>2. \A z \in _processor_consumer(p) : z \in _processor_consumer(q)
    BY DEF Widened
  <2> QED BY <2>1, <2>2 DEF Roles
<1>3. ASSUME NEW z \in _processor_consumer(q), z \notin _processor_consumer(p)
      PROVE  ServerPortOk(c, z, A)
  <2>1. z.required = FALSE /\ IsPrefix(m.plugin_id, z.role)
    BY <1>3 DEF Widened
  <2>2. z.role \notin DOMAIN c.wires
    BY <2>1
  <2>3. InferredOk(c, z, A)
    BY <2>1 DEF InferredOk
  <2> QED BY <2>2, <2>3 DEF ServerPortOk
<1>4. _processor_consumer(p) \subseteq _processor_consumer(q)
  BY DEF Widened
<1> QED BY <1>1, <1>2, <1>3, <1>4 DEF ServerStepOk

\* The request's wires, canonicalised one by one.
WireFor(ms, w) ==
  IF w.ref = "inputs" THEN [ref |-> w.ref, port |-> canonical_datatype(ms, w.port)] ELSE w
RefsFor(ms, refs) == [k \in DOMAIN refs |-> WireFor(ms, refs[k])]
RawFor(ms, raw) == [list |-> raw.list, refs |-> RefsFor(ms, raw.refs)]
WiresFor(ms, wires) == [r \in DOMAIN wires |-> RawFor(ms, wires[r])]
StepFor(ms, s) ==
  [ref |-> s.ref, attr |-> s.attr, types |-> s.types, processor |-> s.processor, wires |-> WiresFor(ms, s.wires)]

LEMMA CanonicalSteps ==
  ASSUME NEW ms, NEW ss
  PROVE  _canonicalize_initial_input_wires(ms, ss) = [i \in DOMAIN ss |-> StepFor(ms, ss[i])]
BY DEF _canonicalize_initial_input_wires, StepFor, WiresFor, RawFor, RefsFor, WireFor

\* Two registries read a step's wires the same way if they read its ports so.
LEMMA StepForSame ==
  ASSUME NEW S, NEW T, NEW s,
         \A r \in DOMAIN s.wires : \A w \in Range(s.wires[r].refs) :
            canonical_datatype(S, w.port) = canonical_datatype(T, w.port)
  PROVE  StepFor(S, s) = StepFor(T, s)
<1>1. ASSUME NEW refs, \A w \in Range(refs) : canonical_datatype(S, w.port) = canonical_datatype(T, w.port)
      PROVE  RefsFor(S, refs) = RefsFor(T, refs)
  <2>1. \A k \in DOMAIN refs : WireFor(S, refs[k]) = WireFor(T, refs[k])
    BY <1>1 DEF WireFor, Range
  <2> QED BY <2>1 DEF RefsFor
<1>2. \A r \in DOMAIN s.wires : RawFor(S, s.wires[r]) = RawFor(T, s.wires[r])
  BY <1>1 DEF RawFor
<1>3. WiresFor(S, s.wires) = WiresFor(T, s.wires)
  BY <1>2 DEF WiresFor
<1> QED BY <1>3 DEF StepFor

\* A request m does not read: no name of it is m's.
Unmentioned(m, ins, ss) ==
  /\ \A k \in DOMAIN ins : IsId(ins[k]) /\ ~IsPrefix(m.plugin_id, ins[k]) /\ ins[k] \notin m.datatypes
  /\ IsList(ss)
  /\ \A i \in DOMAIN ss :
       /\ IsId(ss[i].processor) /\ ~IsPrefix(m.plugin_id, ss[i].processor)
       /\ ss[i].processor \notin Ids(m.processors)
       /\ \A name \in DOMAIN ss[i].wires \cup {ss[i].attr} : ~IsPrefix(m.plugin_id, name)
       /\ \A r \in DOMAIN ss[i].wires : \A w \in Range(ss[i].wires[r].refs) :
            IsId(w.port) /\ ~IsPrefix(m.plugin_id, w.port) /\ w.port \notin m.datatypes
       /\ \A d \in ss[i].types : IsId(d) /\ ~IsPrefix(m.plugin_id, d) /\ d \notin m.datatypes

\* And no datatype-ref value of it.
LEMMA TypesSame ==
  ASSUME NEW T, Vetted(T), IsFiniteSet(T), NEW m \in T, NEW ins, NEW ss, Unmentioned(m, ins, ss)
  PROVE  _type_ok(T \ {m}, ss) <=> _type_ok(T, ss)
<1> DEFINE S == T \ {m}
<1>1. ASSUME NEW d, IsId(d), ~IsPrefix(m.plugin_id, d), d \notin m.datatypes
      PROVE  canonical_datatype(S, d) = canonical_datatype(T, d) /\ canonical_datatype(T, d) \notin OwnTypes(m)
  BY <1>1, ResolvedWithout
<1>2. \A x : x \in RegistryTypes(T) <=> x \in RegistryTypes(S) \/ x \in OwnTypes(m)
  BY DEF RegistryTypes
<1> HIDE DEF S
<1>3. \A i \in DOMAIN ss : \A d \in ss[i].types : has_datatype(S, d) <=> has_datatype(T, d)
  BY <1>1, <1>2 DEF Unmentioned, has_datatype
<1>4. _type_ok(S, ss) <=> _type_ok(T, ss)
  BY <1>3 DEF _type_ok
<1> QED BY <1>4 DEF S

LEMMA RequestSame ==
  ASSUME NEW T, Vetted(T), IsFiniteSet(T), NEW m \in T, NEW ins, NEW ss, Unmentioned(m, ins, ss)
  PROVE  /\ [k \in DOMAIN ins |-> canonical_datatype(T \ {m}, ins[k])]
              = [k \in DOMAIN ins |-> canonical_datatype(T, ins[k])]
         /\ \A k \in DOMAIN ins : canonical_datatype(T, ins[k]) \notin OwnTypes(m)
         /\ _canonicalize_initial_input_wires(T \ {m}, ss) = _canonicalize_initial_input_wires(T, ss)
<1> DEFINE S == T \ {m}
<1>1. ASSUME NEW d, IsId(d), ~IsPrefix(m.plugin_id, d), d \notin m.datatypes
      PROVE  canonical_datatype(S, d) = canonical_datatype(T, d) /\ canonical_datatype(T, d) \notin OwnTypes(m)
  BY <1>1, ResolvedWithout
<1> HIDE DEF S
<1>2. \A k \in DOMAIN ins : /\ canonical_datatype(S, ins[k]) = canonical_datatype(T, ins[k])
                            /\ canonical_datatype(T, ins[k]) \notin OwnTypes(m)
  BY <1>1 DEF Unmentioned
<1>3. [k \in DOMAIN ins |-> canonical_datatype(S, ins[k])] = [k \in DOMAIN ins |-> canonical_datatype(T, ins[k])]
  BY <1>2
<1>4. \A i \in DOMAIN ss : StepFor(S, ss[i]) = StepFor(T, ss[i])
  <2> TAKE i \in DOMAIN ss
  <2>1. \A r \in DOMAIN ss[i].wires : \A w \in Range(ss[i].wires[r].refs) :
           canonical_datatype(S, w.port) = canonical_datatype(T, w.port)
    BY <1>1 DEF Unmentioned
  <2> QED BY <2>1, StepForSame
<1>5. _canonicalize_initial_input_wires(S, ss) = _canonicalize_initial_input_wires(T, ss)
  BY <1>4, CanonicalSteps
<1> QED BY <1>2, <1>3, <1>5 DEF S

LEMMA StrictUnfolded ==
  ASSUME NEW ss, NEW ins, NEW used
  PROVE  _strict_validate_pipeline(ss, ins, used) <=>
           /\ ~Repeated(ins)
           /\ \A i \in DOMAIN ss :
                /\ ss[i].ref # "inputs" /\ \A j \in 1 .. i - 1 : ss[j].ref # ss[i].ref
                /\ used[i] # {}
                /\ \A p \in used[i] : ServerStepOk(ss[i], p, Available(ins, ss, i, used))
BY DEF _strict_validate_pipeline, ServerStepOk, ServerPortOk, NoProcessor

LEMMA StrictSame ==
  ASSUME NEW m, NEW ins, NEW ss, NEW n \in Nat, DOMAIN ss = 1 .. n, NEW U, NEW V, AllAlike(m, n, U, V),
         \A i \in DOMAIN ss : \A name \in DOMAIN ss[i].wires \cup {ss[i].attr} : ~IsPrefix(m.plugin_id, name)
  PROVE  _strict_validate_pipeline(ss, ins, U) <=> _strict_validate_pipeline(ss, ins, V)
<1>1. ASSUME NEW i \in DOMAIN ss
      PROVE  /\ U[i] = {} <=> V[i] = {}
             /\ (\A p \in U[i] : ServerStepOk(ss[i], p, Available(ins, ss, i, U)))
                  <=> (\A p \in V[i] : ServerStepOk(ss[i], p, Available(ins, ss, i, V)))
  <2>0. i \in Nat /\ i <= n
    OBVIOUS
  <2>1. Alike(m, U[i], V[i]) /\ AllAlike(m, i - 1, U, V)
    BY <2>0 DEF AllAlike
  <2>2. Available(ins, ss, i, U) = Available(ins, ss, i, V)
    BY <2>0, <2>1, AvailableAlike
  <2> DEFINE A == Available(ins, ss, i, V)
             c == ss[i]
  <2>3. \A name \in DOMAIN c.wires \cup {c.attr} : ~IsPrefix(m.plugin_id, name)
    OBVIOUS
  <2> HIDE DEF A, c
  <2>4. \A p, q : Widened(m, p, q) => (ServerStepOk(c, p, A) <=> ServerStepOk(c, q, A))
    BY <2>3, StepAlike
  <2>5. (\A p \in U[i] : ServerStepOk(c, p, A)) <=> (\A p \in V[i] : ServerStepOk(c, p, A))
    BY <2>1, <2>4 DEF Alike
  <2>6. U[i] = {} <=> V[i] = {}
    BY <2>1 DEF Alike
  <2> QED BY <2>2, <2>5, <2>6 DEF A, c
<1> QED BY <1>1, StrictUnfolded

LEMMA LegacySame ==
  ASSUME NEW m, NEW ins, NEW ss, NEW n \in Nat, DOMAIN ss = 1 .. n, NEW U, NEW V, AllAlike(m, n, U, V),
         \A i \in DOMAIN ss : ~IsPrefix(m.plugin_id, ss[i].attr)
  PROVE  /\ _legacy_validate_pipeline(ss, ins, U) <=> _legacy_validate_pipeline(ss, ins, V)
         /\ validate_step_attributes(ss, U) <=> validate_step_attributes(ss, V)
<1>1. \A i \in DOMAIN ss : /\ Alike(m, U[i], V[i]) /\ i \in Nat
                           /\ \A j \in 1 .. i - 1 : j \in DOMAIN ss
  BY DEF AllAlike
<1>2. \A i \in DOMAIN ss : UNION {p.supplier : p \in U[i]} = UNION {p.supplier : p \in V[i]}
  <2> TAKE i \in DOMAIN ss
  <2>1. /\ \A p \in U[i] : \E q \in V[i] : q.supplier = p.supplier
        /\ \A q \in V[i] : \E p \in U[i] : q.supplier = p.supplier
    BY <1>1 DEF Alike, Widened
  <2> DEFINE A == U[i]
             B == V[i]
  <2> HIDE DEF A, B
  <2>2. \A x : x \in UNION {p.supplier : p \in A} <=> x \in UNION {p.supplier : p \in B}
    BY <2>1 DEF A, B
  <2>3. UNION {p.supplier : p \in A} = UNION {p.supplier : p \in B}
    BY <2>2
  <2> QED BY <2>3 DEF A, B
<1>3. ASSUME NEW i \in DOMAIN ss, NEW d
      PROVE  Counted(ins, i, d, U) = Counted(ins, i, d, V)
  <2> DEFINE Made(W, j) == {port \in UNION {p.supplier : p \in W[j]} : port.datatype = d}
             f == [j \in 1 .. i - 1 |-> Made(U, j)]
             g == [j \in 1 .. i - 1 |-> Made(V, j)]
  <2>1. \A j \in 1 .. i - 1 : Made(U, j) = Made(V, j)
    BY <1>1, <1>2
  <2>2. f = g
    <3> HIDE DEF Made
    <3> QED BY <2>1
  <2>3. /\ Counted(ins, i, d, U)
             = Cardinality({k \in DOMAIN ins : ins[k] = d}) + SumFunction([j \in 1 .. i - 1 |-> Cardinality(f[j])])
        /\ Counted(ins, i, d, V)
             = Cardinality({k \in DOMAIN ins : ins[k] = d}) + SumFunction([j \in 1 .. i - 1 |-> Cardinality(g[j])])
    BY DEF Counted
  <2> HIDE DEF f, g
  <2> QED BY <2>2, <2>3
<1>4. \A i \in DOMAIN ss : U[i] = {} <=> V[i] = {}
  BY <1>1 DEF Alike
<1>5. ASSUME NEW i \in DOMAIN ss
      PROVE  /\ \A p \in U[i] : \E q \in V[i] : q.consumer = p.consumer
             /\ \A q \in V[i] : \E p \in U[i] : q.consumer = p.consumer
  BY <1>1 DEF Alike, Widened
<1>6. _legacy_validate_pipeline(ss, ins, U) <=> _legacy_validate_pipeline(ss, ins, V)
  <2> DEFINE Fed(i, port, k) == /\ k > 0 /\ (port.multiple /\ port.required => k # 1)
                                /\ _requires_verified_match_graph(ss[i].processor, port.role) => VerifiedBefore(ss, i)
  <2>1. ASSUME NEW W
        PROVE  _legacy_validate_pipeline(ss, ins, W) <=>
                 \A i \in DOMAIN ss :
                   W[i] # {} /\ \A p \in W[i] : \A port \in p.consumer : Fed(i, port, Counted(ins, i, port.datatype, W))
    BY DEF _legacy_validate_pipeline, NoProcessor
  <2> HIDE DEF Fed
  <2>2. ASSUME NEW i \in DOMAIN ss
        PROVE  (\A p \in U[i] : \A port \in p.consumer : Fed(i, port, Counted(ins, i, port.datatype, U)))
                 <=> (\A p \in V[i] : \A port \in p.consumer : Fed(i, port, Counted(ins, i, port.datatype, V)))
    BY <1>3, <1>5
  <2> QED BY <1>4, <2>1, <2>2
<1>7. validate_step_attributes(ss, U) <=> validate_step_attributes(ss, V)
  <2>1. \A i \in DOMAIN ss : \A p, q : Widened(m, p, q) =>
           (validate_attributes(p, ss[i].attr) <=> validate_attributes(q, ss[i].attr))
    BY DEF Widened, validate_attributes
  <2> QED BY <1>1, <2>1 DEF Alike, validate_step_attributes
<1> QED BY <1>6, <1>7

LEMMA UsedAllAlike ==
  ASSUME NEW T, Vetted(T), IsFiniteSet(T), NEW m \in T, NEW ins, NEW ss, Unmentioned(m, ins, ss)
  PROVE  AllAlike(m, Len(ss), Used(T \ {m}, ss), Used(T, ss))
<1>1. DOMAIN ss = 1 .. Len(ss)
  BY ListDomain DEF Unmentioned
<1>2. ASSUME NEW i \in DOMAIN ss
      PROVE  Alike(m, Used(T \ {m}, ss)[i], Used(T, ss)[i])
  BY UsedAlike DEF Unmentioned
<1> QED BY <1>1, <1>2 DEF AllAlike

LEMMA NativeSame ==
  ASSUME NEW T, Vetted(T), IsFiniteSet(T), NEW m \in T, NEW ins, NEW ss, Unmentioned(m, ins, ss), NEW given
  PROVE  NativeErrors(T \ {m}, given, ss) <=> NativeErrors(T, given, ss)
<1> DEFINE cs == _canonicalize_initial_input_wires(T, ss)
           U  == Used(T \ {m}, ss)
           V  == Used(T, ss)
<1>1. _canonicalize_initial_input_wires(T \ {m}, ss) = cs
  BY RequestSame
<1>2. Len(ss) \in Nat /\ DOMAIN ss = 1 .. Len(ss)
  BY ListDomain DEF Unmentioned
<1>3. AllAlike(m, Len(ss), U, V)
  BY UsedAllAlike
<1>4. DOMAIN cs = DOMAIN ss /\ \A i \in DOMAIN ss : cs[i] = StepFor(T, ss[i])
  BY CanonicalSteps
<1> HIDE DEF U, V, cs
<1>5. ASSUME NEW i \in DOMAIN cs
      PROVE  \A name \in DOMAIN cs[i].wires \cup {cs[i].attr} : ~IsPrefix(m.plugin_id, name)
  <2>1. cs[i] = StepFor(T, ss[i])
    BY <1>4
  <2>2. cs[i].attr = ss[i].attr /\ DOMAIN cs[i].wires = DOMAIN ss[i].wires
    BY <2>1 DEF StepFor, WiresFor
  <2>3. \A name \in DOMAIN ss[i].wires \cup {ss[i].attr} : ~IsPrefix(m.plugin_id, name)
    BY <1>4 DEF Unmentioned
  <2> QED BY <2>2, <2>3
<1>6. _strict_validate_pipeline(cs, given, U) <=> _strict_validate_pipeline(cs, given, V)
  BY <1>2, <1>3, <1>4, <1>5, StrictSame
<1>7. _type_ok(T \ {m}, ss) <=> _type_ok(T, ss)
  BY TypesSame
<1> QED BY <1>1, <1>6, <1>7 DEF NativeErrors, U, V, cs

LEMMA FlatSame ==
  ASSUME NEW T, Vetted(T), IsFiniteSet(T), NEW m \in T, NEW ins, NEW ss, Unmentioned(m, ins, ss), NEW given
  PROVE  FlatErrors(T \ {m}, given, ss, TRUE) <=> FlatErrors(T, given, ss, TRUE)
<1> DEFINE U  == Used(T \ {m}, ss)
           V  == Used(T, ss)
<1>1. Len(ss) \in Nat /\ DOMAIN ss = 1 .. Len(ss)
  BY ListDomain DEF Unmentioned
<1>2. AllAlike(m, Len(ss), U, V)
  BY UsedAllAlike
<1>3. \A i \in DOMAIN ss : ~IsPrefix(m.plugin_id, ss[i].attr)
  BY DEF Unmentioned
<1> HIDE DEF U, V
<1>4. /\ _legacy_validate_pipeline(ss, given, U) <=> _legacy_validate_pipeline(ss, given, V)
      /\ validate_step_attributes(ss, U) <=> validate_step_attributes(ss, V)
  BY <1>1, <1>2, <1>3, LegacySame
<1>5. _type_ok(T \ {m}, ss) <=> _type_ok(T, ss)
  BY TypesSame
<1> QED BY <1>4, <1>5 DEF FlatErrors, U, V

\* While both registries build, a request that names nothing of m's has one verdict.
LEMMA SameVerdict ==
  ASSUME NEW T, Vetted(T), IsFiniteSet(T), NEW m \in T, NEW ins, NEW ss, Unmentioned(m, ins, ss),
         ~RegistryRaises(T), ~RegistryRaises(T \ {m})
  PROVE  Verdict(T \ {m}, ins, ss) = Verdict(T, ins, ss)
<1> DEFINE S == T \ {m}
           given == [k \in DOMAIN ins |-> canonical_datatype(T, ins[k])]
<1>1. [k \in DOMAIN ins |-> canonical_datatype(S, ins[k])] = given
  BY RequestSame
<1>2. \A k \in DOMAIN ins : canonical_datatype(T, ins[k]) \notin OwnTypes(m)
  BY RequestSame
<1>3. \A d \in Range(given) : d \notin OwnTypes(m)
  BY <1>2 DEF Range
<1>4. NativeErrors(S, given, ss) <=> NativeErrors(T, given, ss)
  BY NativeSame
<1>5. FlatErrors(S, given, ss, TRUE) <=> FlatErrors(T, given, ss, TRUE)
  BY FlatSame
<1>6. \A d : d \in RegistryTypes(T) <=> d \in RegistryTypes(S) \/ d \in OwnTypes(m)
  BY DEF RegistryTypes
<1> DEFINE R == Range(given)
<1> HIDE DEF S, given, R
<1>7. _initial_input_errors(S, given) <=> _initial_input_errors(T, given)
  <2>1. R \subseteq RegistryTypes(S) <=> R \subseteq RegistryTypes(T)
    BY <1>3, <1>6 DEF R
  <2> QED BY <2>1 DEF _initial_input_errors, R
<1>8. TypeErrors(S, ins, ss, TRUE) <=> TypeErrors(T, ins, ss, TRUE)
  <2>1. TypeErrors(S, ins, ss, TRUE) <=>
           \/ _initial_input_errors(S, given)
           \/ IF should_use_legacy_validation(ss) THEN FlatErrors(S, given, ss, TRUE) ELSE NativeErrors(S, given, ss)
    BY <1>1 DEF TypeErrors
  <2>2. TypeErrors(T, ins, ss, TRUE) <=>
           \/ _initial_input_errors(T, given)
           \/ IF should_use_legacy_validation(ss) THEN FlatErrors(T, given, ss, TRUE) ELSE NativeErrors(T, given, ss)
    BY DEF TypeErrors, given
  <2> QED BY <1>4, <1>5, <1>7, <2>1, <2>2
<1>9. ~RegistryRaises(S)
  BY DEF S
<1> QED BY <1>8, <1>9, Zenon DEF Verdict, S

LEMMA AcceptedUp ==
  ASSUME PlainIds, NEW ms, ms \subseteq Manifests, \A m \in ms : HubAccepts(m)
  PROVE  Vetted(ms) /\ ~RegistryRaises(ms)
<1>1. \A m \in ms : Declares(m) /\ \A pl \in m.pipelines : PipelineOk(m, pl)
  BY DataflowAssumption DEF Declares, HubAccepts, _validate_typed_extension_graph, PipelinesOk
<1>2. Vetted(ms)
  BY <1>1, DataflowAssumption DEF Vetted
<1>3. Plain(ms)
  BY DEF PlainIds, Plain
<1> QED BY <1>1, <1>2, <1>3, RegistryUp

LEMMA NamesOf ==
  /\ \A k \in DOMAIN inputs : inputs[k] \in Names
  /\ \A i \in DOMAIN steps :
       /\ steps[i].processor \in Names /\ steps[i].attr \in Names /\ steps[i].types \subseteq Names
       /\ \A r \in DOMAIN steps[i].wires :
            r \in Names /\ \A w \in Range(steps[i].wires[r].refs) : w.port \in Names
<1> DEFINE Ports(i, r) == {w.port : w \in Range(steps[i].wires[r].refs)}
           Wired(i) == UNION {Ports(i, r) : r \in DOMAIN steps[i].wires}
           StepNames(i) == {steps[i].processor, steps[i].attr} \cup steps[i].types \cup DOMAIN steps[i].wires \cup Wired(i)
<1>1. Names = Range(inputs) \cup UNION {StepNames(i) : i \in DOMAIN steps}
  BY DEF Names
<1>2. \A i \in DOMAIN steps : \A r \in DOMAIN steps[i].wires : \A w \in Range(steps[i].wires[r].refs) : w.port \in Wired(i)
  OBVIOUS
<1> HIDE DEF Wired
<1>3. \A i \in DOMAIN steps : /\ steps[i].processor \in StepNames(i) /\ steps[i].attr \in StepNames(i)
                              /\ DOMAIN steps[i].wires \subseteq StepNames(i) /\ Wired(i) \subseteq StepNames(i)
                              /\ steps[i].types \subseteq StepNames(i)
  OBVIOUS
<1> HIDE DEF StepNames
<1>4. \A i \in DOMAIN steps : StepNames(i) \subseteq Names
  BY <1>1
<1>5. \A k \in DOMAIN inputs : inputs[k] \in Names
  BY <1>1 DEF Range
<1> QED BY <1>2, <1>3, <1>4, <1>5

LEMMA NotMentioned ==
  ASSUME DataflowInv, NEW m, ~Mentions(m)
  PROVE  Unmentioned(m, inputs, steps)
<1>1. \A n \in Names : n \notin m.datatypes /\ n \notin Ids(m.processors) /\ ~IsPrefix(m.plugin_id, n)
  BY DEF Mentions
<1>2. \A k \in DOMAIN inputs : IsId(inputs[k])
  BY DataflowAssumption DEF DataflowInv, DataflowTypeOK
<1>3. IsList(steps) /\ \A i \in DOMAIN steps : IsStep(steps[i])
  BY DEF DataflowInv
<1>4. ASSUME NEW i \in DOMAIN steps
      PROVE  /\ IsId(steps[i].processor)
             /\ \A r \in DOMAIN steps[i].wires : \A w \in Range(steps[i].wires[r].refs) : IsId(w.port)
             /\ \A d \in steps[i].types : IsId(d)
  <2>1. IsStep(steps[i])
    BY <1>3
  <2>2. ASSUME NEW r \in DOMAIN steps[i].wires, NEW w \in Range(steps[i].wires[r].refs)
        PROVE  IsId(w.port)
    <3>1. IsWire(steps[i].wires[r])
      BY <2>1 DEF IsStep
    <3>2. \A k \in DOMAIN steps[i].wires[r].refs : IsWireRef(steps[i].wires[r].refs[k])
      BY <3>1 DEF IsWire
    <3>3. IsWireRef(w)
      BY <3>2 DEF Range
    <3> QED BY <3>3 DEF IsWireRef
  <2> QED BY <2>1, <2>2 DEF IsStep
<1> HIDE DEF Names
<1>5. \A i \in DOMAIN steps :
        /\ ~IsPrefix(m.plugin_id, steps[i].processor) /\ steps[i].processor \notin Ids(m.processors)
        /\ \A name \in DOMAIN steps[i].wires \cup {steps[i].attr} : ~IsPrefix(m.plugin_id, name)
        /\ \A r \in DOMAIN steps[i].wires : \A w \in Range(steps[i].wires[r].refs) :
             ~IsPrefix(m.plugin_id, w.port) /\ w.port \notin m.datatypes
        /\ \A d \in steps[i].types : ~IsPrefix(m.plugin_id, d) /\ d \notin m.datatypes
  BY <1>1, NamesOf
<1>6. \A k \in DOMAIN inputs : ~IsPrefix(m.plugin_id, inputs[k]) /\ inputs[k] \notin m.datatypes
  BY <1>1, NamesOf
<1> QED BY <1>2, <1>3, <1>4, <1>5, <1>6 DEF Unmentioned

\* Enabling or disabling one plugin, and nothing else.
LEMMA Toggled ==
  ASSUME DataflowInv, [DataflowNext]_dataflowVars
  PROVE  \/ active' = active
         \/ \E m \in Manifests : /\ HubAccepts(m) /\ UNCHANGED <<inputs, steps>>
                                 /\ \/ m \in active /\ active' = active \ {m}
                                    \/ m \in active' /\ active = active' \ {m}
<1>1. CASE \E m \in Manifests : Toggle(m)
  <2>1. PICK m \in Manifests : Toggle(m)
    BY <1>1
  <2>2. CASE m \in active
    BY <2>1, <2>2 DEF Toggle
  <2>3. CASE m \notin active
    <3>1. active' = active \cup {m}
      BY <2>1, <2>3 DEF Toggle
    <3>2. m \in active' /\ active = active' \ {m}
      BY <2>3, <3>1
    <3> QED BY <2>1, <3>2 DEF Toggle
  <2> QED BY <2>2, <2>3
<1>2. CASE AddStep \/ validate_pipeline \/ run_pipeline \/ UNCHANGED dataflowVars
  BY <1>2 DEF AddStep, validate_pipeline, run_pipeline, dataflowVars
<1> QED BY <1>1, <1>2 DEF DataflowNext

LEMMA IsolatedStep ==
  ASSUME PlainIds, DataflowInv, DataflowInv', [DataflowNext]_dataflowVars
  PROVE  /\ \A m \in Manifests : \A id \in Ids(m.processors) :
              \/ canonical_processor(active, id) = id
              \/ canonical_processor(active', id) \in {id, canonical_processor(active, id)}
         /\ \A m \in Manifests :
              (m \in active) # (m \in active') /\ ~Mentions(m) /\ steps # <<>>
                => Verdict(active', inputs, steps) = Verdict(active, inputs, steps)
<1> DEFINE old == active
           new == active'
<1>1. Vetted(old) /\ ~RegistryRaises(old) /\ IsFiniteSet(old)
  BY AcceptedUp DEF DataflowInv, DataflowTypeOK
<1>2. new \subseteq Manifests /\ IsFiniteSet(new) /\ \A m \in new : HubAccepts(m)
  BY DEF DataflowInv, DataflowTypeOK
<1>3. Vetted(new) /\ ~RegistryRaises(new)
  BY <1>2, AcceptedUp
<1>4. \/ new = old
      \/ \E m \in Manifests : \/ m \in old /\ new = old \ {m}
                              \/ m \in new /\ old = new \ {m}
  BY Toggled
<1>5. \A m \in Manifests : ~Mentions(m) => Unmentioned(m, inputs, steps)
  BY NotMentioned
<1> HIDE DEF old, new
<1>6. new \subseteq old \/ old \subseteq new
  BY <1>4
<1>7. ASSUME NEW id
      PROVE  canonical_processor(old, id) = id \/ canonical_processor(new, id) \in {id, canonical_processor(old, id)}
  BY <1>1, <1>2, <1>6, MeaningKept
<1>8. ASSUME NEW m \in Manifests, (m \in old) # (m \in new), ~Mentions(m)
      PROVE  Verdict(new, inputs, steps) = Verdict(old, inputs, steps)
  <2>1. Unmentioned(m, inputs, steps)
    BY <1>5, <1>8
  <2>2. (m \in old /\ new = old \ {m}) \/ (m \in new /\ old = new \ {m})
    BY <1>4, <1>8
  <2>3. CASE m \in old /\ new = old \ {m}
    BY <1>1, <1>3, <2>1, <2>3, SameVerdict
  <2>4. CASE m \in new /\ old = new \ {m}
    BY <1>1, <1>2, <1>3, <2>1, <2>4, SameVerdict
  <2> QED BY <2>2, <2>3, <2>4
<1>9. \A m \in Manifests : (m \in old) # (m \in new) /\ ~Mentions(m) /\ steps # <<>>
        => Verdict(new, inputs, steps) = Verdict(old, inputs, steps)
  BY <1>8
<1> QED BY <1>7, <1>9 DEF old, new

\* While no plugin's id is a dotted extension of another's, enabling or disabling a plugin
\* never changes which processor a bare name means, only whether it has a meaning, and a
\* request that names nothing of the plugin keeps its verdict: aliases that two plugins
\* share, and the plugin's own types, processors and extensions, do not reach it.
THEOREM PluginsDoNotInterfere ==
  ASSUME PlainIds
  PROVE  DataflowSpec => PluginsAreIsolated
<1> DEFINE Kept == /\ \A m \in Manifests : \A id \in Ids(m.processors) :
                        \/ canonical_processor(active, id) = id
                        \/ canonical_processor(active', id) \in {id, canonical_processor(active, id)}
                   /\ \A m \in Manifests :
                        (m \in active) # (m \in active') /\ ~Mentions(m) /\ steps # <<>>
                          => Verdict(active', inputs, steps) = Verdict(active, inputs, steps)
<1>1. DataflowInv /\ DataflowInv' /\ [DataflowNext]_dataflowVars => [Kept]_dataflowVars
  BY IsolatedStep
<1> HIDE DEF Kept
<1>2. DataflowSpec => [][Kept]_dataflowVars
  BY <1>1, DataflowInductive, PTL DEF DataflowSpec
<1> QED BY <1>2 DEF PluginsAreIsolated, Kept

=============================================================================
