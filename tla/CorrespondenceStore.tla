------------------------ MODULE CorrespondenceStore ------------------------
(***************************************************************************)
(* The on-disk correspondence store that the extract, match, verify and    *)
(* map stages of one reconstruction share (workers/_io_match.py).          *)
(*                                                                         *)
(* A store is three directories of files: one file per image with its      *)
(* features, one per matched pair, one per verified pair. A directory is a *)
(* function from names to contents; a name always leads to the same file,  *)
(* so a write replaces. Nothing deletes a file. Images are numbers in the  *)
(* order of their names; keypoints, descriptors and inliers stand for the  *)
(* settings they were computed with.                                       *)
(***************************************************************************)
EXTENDS Naturals, FiniteSets

CONSTANT None

NoFiles == [x \in {} |-> None]

\* The files of `new` written over those of `old`.
Over(new, old) ==
  [x \in DOMAIN new \cup DOMAIN old |-> IF x \in DOMAIN new THEN new[x] ELSE old[x]]

EmptyStore == [feat |-> NoFiles, raw |-> NoFiles, ver |-> NoFiles]

----------------------------------------------------------------------------
(* Pair selection *)

Combinations(names) == {p \in names \X names : p[1] < p[2]}

\* The pairs a list in the request names. A list that comes as an uploaded file
\* or as an artifact is not read here: it counts as empty.
_explicit_pairs(pairs) ==
  IF pairs.inline = None THEN {} ELSE {p \in pairs.inline : p[1] # p[2]}

\* enumerate_pairs: an unknown strategy selects every pair.
enumerate_pairs(pairs, names) ==
  CASE pairs.strategy = "sequential" ->
         {p \in Combinations(names) : Cardinality({i \in names : p[1] < i /\ i <= p[2]}) <= pairs.overlap}
    [] pairs.strategy = "explicit" -> _explicit_pairs(pairs)
    [] OTHER -> Combinations(names)

----------------------------------------------------------------------------
(* The stages on a store *)

\* write_feature_set for every image of the list.
run_io_extract(store, names, spec) ==
  [store EXCEPT !.feat = Over([i \in names |-> spec], @)]

\* The pairs the matcher is called for: a pair with an image that has no
\* features is skipped.
Selected(feat, pairs) ==
  {p \in enumerate_pairs(pairs, DOMAIN feat) : p[1] \in DOMAIN feat /\ p[2] \in DOMAIN feat}

\* What a detector based matcher finds between two feature files.
match_pair(feat, p, spec) ==
  [a |-> IF p[1] \in DOMAIN feat THEN feat[p[1]] ELSE None,
   b |-> IF p[2] \in DOMAIN feat THEN feat[p[2]] ELSE None, spec |-> spec]

\* run_io_match: the features were loaded when the task began.
run_io_match(store, feat, pairs, spec) ==
  [store EXCEPT !.raw = Over([p \in Selected(feat, pairs) |-> match_pair(feat, p, spec)], @)]

\* run_io_verify: every pair file there is, whoever wrote it.
run_io_verify(store, raw, spec) ==
  [store EXCEPT !.ver = Over([p \in DOMAIN raw |-> [of |-> raw[p], spec |-> spec]], @)]

\* load_pair_correspondences: the verified file of a pair wins.
load_pair_correspondences(store) == Over(store.ver, store.raw)

\* load_correspondence_graph: nothing at all is reported as no graph.
load_correspondence_graph(store) ==
  IF DOMAIN store.feat = {} /\ DOMAIN store.raw \cup DOMAIN store.ver = {} THEN None
  ELSE [feat |-> store.feat, pairs |-> load_pair_correspondences(store)]

----------------------------------------------------------------------------
(* The graph that the four settings ask for, whatever was on disk. *)

Graph(names, features, pairs, matcher, verify) ==
  LET s0 == run_io_extract(EmptyStore, names, features)
      s1 == run_io_match(s0, s0.feat, pairs, matcher)
  IN  load_correspondence_graph(run_io_verify(s1, s1.raw, verify))
=============================================================================
