---------------------------- MODULE MCEventStream ----------------------------
(***************************************************************************)
(* Two writers and one or two streams on the watched job, or one writer on *)
(* each of two jobs.                                                       *)
(***************************************************************************)
EXTENDS EventStream, TLC

CONSTANTS j1, j2, e1, e2, e3, s1, s2

MCEmits == [w \in {e1, e2} |-> j1]
MCEmitsTwo == (e1 :> j1) @@ (e2 :> j1) @@ (e3 :> j2)
MCWatches == [s \in {s1, s2} |-> j1]
MCKind == (s1 :> "sse") @@ (s2 :> "ws")
MCWatchesOne == [s \in {s1} |-> j1]
MCSse == [s \in {s1} |-> "sse"]

=============================================================================
