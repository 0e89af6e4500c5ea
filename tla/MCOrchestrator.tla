--------------------------- MODULE MCOrchestrator ---------------------------
(***************************************************************************)
(* One job of two tasks in a chain (extract, then map: the second kind has *)
(* hooks), and two attempts: in two worker processes, or in one.           *)
(***************************************************************************)
EXTENDS Orchestrator, TLC

CONSTANTS j1, t1, t2, a1, a2, w1, w2

MCJob == {j1}
MCTask == {t1, t2}
MCJobOf == [t \in MCTask |-> j1]
MCDeps == (t1 :> {}) @@ (t2 :> {t1})
MCKey == (t1 :> 1) @@ (t2 :> 2)
MCAttempt == {a1, a2}
MCWorkerOf == (a1 :> w1) @@ (a2 :> w2)
MCOneWorker == (a1 :> w1) @@ (a2 :> w1)

=============================================================================
