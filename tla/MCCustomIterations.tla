------------------------- MODULE MCCustomIterations -------------------------
(***************************************************************************)
(* Values for the constants of CustomIterations that a .cfg cannot write.   *)
(***************************************************************************)
EXTENDS CustomIterations

\* scripts that never redirect the run
MCNoRequests == {NoRequest}
=============================================================================
