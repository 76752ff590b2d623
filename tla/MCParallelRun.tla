---------------------------- MODULE MCParallelRun ----------------------------
(***************************************************************************)
(* Values for the constants of ParallelRun that a .cfg cannot write.        *)
(***************************************************************************)
EXTENDS ParallelContract

\* scripts that never redirect the run
MCNoRequests == {NoRequest}
\* scripts that may end the iteration or go to any item
MCAnyRequest == {NoRequest, StopRequest} \cup {GoTo(p) : p \in 0 .. Length - 1}
=============================================================================
