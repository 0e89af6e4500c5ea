------------------------------ MODULE MCStages ------------------------------
(* Small instances of Stages: two images, two providers, requests that differ *)
(* in one setting each.                                                       *)
EXTENDS Stages, TLC

Exhaustive == [strategy |-> "exhaustive", overlap |-> 0, inline |-> None]

\* A list that names an image the dataset may not have.
Listed == [strategy |-> "explicit", overlap |-> 0, inline |-> {<<1, 2>>, <<1, 3>>}]

Body(op, f, p, g, roles) ==
  [op |-> op, features |-> f, pairs |-> p, matcher |-> "m1", verify |-> "v1", map |-> g, roles |-> roles]

MixedBodies ==
  {Body("incremental", "f1", Exhaustive, "g1", {}), Body("incremental", "f2", Listed, "g1", {}),
   Body("incremental", "f1", Exhaustive, "g1", {"features", "verified_matches"}),
   Body("feed_forward", None, None, "ff", {}), Body("features", "f1", None, None, {}),
   Body("matches", None, Exhaustive, None, {}), Body("matches", None, Listed, None, {"features"}),
   Body("verify", None, None, None, {}), Body("verify", None, None, None, {"matches"})}

RecipeBodies ==
  {Body("incremental", "f1", Exhaustive, "g1", {}), Body("incremental", "f2", Exhaustive, "g1", {})}

FastBodies == {Body("feed_forward", None, None, "ff", {})}

AllOps == {"bundle_adjust", "triangulate", "pose_graph_optimize", "export", "relocalize", "undistort",
           "localize", "georegister", "to_cubemap", "merge_recons", "vocab_tree", "configure_rig", "two_view",
           "project_images", "render_cubemap", "vlad_index", "video_frames", "import_archive", "kapture_import"}

Swap == Permutations(Providers)
=============================================================================
