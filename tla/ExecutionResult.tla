--------------------------- MODULE ExecutionResult ---------------------------
(***************************************************************************)
(* The set-next-request ("SNR") logic of lib/runner/util.js: what the       *)
(* scripts of an item asked for, and where the run goes after the item.     *)
(*                                                                          *)
(* A script's request is abstracted to [defined, position]: `defined` when  *)
(* the script called setNextRequest, `position` the place in the run the    *)
(* lookup hash gives for the value it passed, or NoPosition when the value  *)
(* is null or names no item of the run.                                     *)
(***************************************************************************)
LOCAL INSTANCE Integers

NoPosition == -1
NoRequest == [defined |-> FALSE, position |-> NoPosition]
StopRequest == [defined |-> TRUE, position |-> NoPosition]
GoTo(position) == [defined |-> TRUE, position |-> position]

Snrs == [defined : BOOLEAN, position : Int]

(* extractSNR: the last script that asked wins.  It is applied to the       *)
(* pre-request scripts and then, with that as `previous`, to the tests.     *)
Override(previous, snr) == IF snr.defined THEN snr ELSE previous

(* Mutant: only a script's request ends the iteration, not an error.        *)
EndsOnRequestOnly(failed, snr) == snr.defined

(* Where the scripts ask for no item of the run, is the iteration over?     *)
EndsIteration(failed, snr) == failed \/ snr.defined

(* processExecutionResult for an item at `at` of a run of `length` items.   *)
(* `failed` is executionError: the scripts' requests are then not looked    *)
(* at.  A valid request seeks one short of its target, so that whatnext     *)
(* lands on it; the first item is reached by seeking to it (seekingToStart).*)
(* Anything else that stops the item seeks the end of the iteration.        *)
ProcessExecutionResult(at, snr, failed, length, disableSNR, stopOnFailure) ==
    LET valid    == ~failed /\ ~disableSNR /\ snr.defined /\ snr.position # NoPosition
        position == IF valid THEN snr.position - 1
                    ELSE IF EndsIteration(failed, snr) THEN length - 1
                    ELSE at.position
    IN  [ position       |-> IF position = -1 THEN 0 ELSE position,
          seekingToStart |-> position = -1,
          stopRunNow     |-> ~valid /\ stopOnFailure /\ failed ]
=============================================================================
