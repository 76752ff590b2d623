--------------------------- MODULE MCSequentialRun ---------------------------
(***************************************************************************)
(* Values for the constants of SequentialRun that a .cfg cannot write.      *)
(***************************************************************************)
EXTENDS SequentialRun

\* scripts that never redirect the run
MCNoRequests == {NoRequest}
\* scripts that may end the iteration
MCStopRequests == {NoRequest, StopRequest}
\* scripts that may end the iteration or go to any item
MCAnyRequest == {NoRequest, StopRequest} \cup {GoTo(p) : p \in 0 .. Length - 1}
=============================================================================
