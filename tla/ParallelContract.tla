-------------------------- MODULE ParallelContract --------------------------
(***************************************************************************)
(* Each partition of a parallel run implements RunContract.                 *)
(***************************************************************************)
EXTENDS ParallelRun

(* What an observer sees of a partition: its loop has not started, has      *)
(* called back, without error or with one (or after an abort), or goes on.  *)
Stage(p) ==
    CASE loop[p] = "off" -> "idle"
      [] loop[p] = "done" -> "complete"
      [] loop[p] = "broken" -> "broken"
      [] loop[p] \notin {"off", "done", "broken"} -> "running"

(* Each partition on its own keeps the contract of a run: its iterations    *)
(* and items nest, and once its loop has called back nothing more of it is  *)
(* seen.                                                                    *)
Contract(p) == INSTANCE RunContract WITH
    stage <- Stage(p),
    iterations <- Len(opened[p]),
    inIteration <- Len(opened[p]) > Len(closed[p]),
    inItem <- item[p].open

KeepsContracts ==
    /\ \A p \in Index : Contract(p)!Init
    /\ [][\A p \in Index : [Contract(p)!Next]_(Contract(p)!vars)]_vars
=============================================================================
