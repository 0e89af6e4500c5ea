-------------------------------- MODULE MCJobs --------------------------------
(***************************************************************************)
(* Two jobs.  The second is a chain of two tasks whose head depends on the *)
(* first job's task and which have its cache key: submitted late, it is    *)
(* answered from the cache.  Or the second job has an independent task     *)
(* beside one that depends on the first job's, each with its own key.      *)
(***************************************************************************)
EXTENDS Orchestrator, TLC

CONSTANTS j1, j2, t1, t2, t3, a1, a2, w1, w2

MCTask == {t1, t2, t3}
MCJobOf == (t1 :> j1) @@ (t2 :> j2) @@ (t3 :> j2)
MCDeps == (t1 :> {}) @@ (t2 :> {t1}) @@ (t3 :> {t2})
MCKey == [t \in MCTask |-> 1]

MCSiblingDeps == (t1 :> {}) @@ (t2 :> {}) @@ (t3 :> {t1})
MCOwnKeys == (t1 :> 1) @@ (t2 :> 2) @@ (t3 :> 3)

MCAttempt == {a1, a2}
MCWorkerOf == (a1 :> w1) @@ (a2 :> w2)

\* The two attempts are interchangeable, each with its worker.
MCSymmetry ==
  {p \in Permutations(MCAttempt \cup {w1, w2}) :
     \A a \in MCAttempt : p[a] \in MCAttempt /\ p[MCWorkerOf[a]] = MCWorkerOf[p[a]]}

=============================================================================
