---------------------------- MODULE RunContract ----------------------------
(***************************************************************************)
(* What a run promises the host that started it, in terms of the callbacks  *)
(* of README.md ("Callbacks"): start; then beforeIteration and iteration in *)
(* pairs, with beforeItem and item in pairs between them; then done, and    *)
(* nothing after it.  A run may break off anywhere, by an error or an       *)
(* abort; one that does not has closed what it opened.                      *)
(***************************************************************************)
EXTENDS Naturals

VARIABLES
    stage,        \* "idle", "running", "complete" or "broken"
    iterations,   \* number of beforeIteration callbacks so far
    inIteration,  \* a beforeIteration has had no iteration yet
    inItem        \* a beforeItem has had no item yet

vars == <<stage, iterations, inIteration, inItem>>

Init == stage = "idle" /\ iterations = 0 /\ inIteration = FALSE /\ inItem = FALSE

Start == stage = "idle" /\ stage' = "running" /\ UNCHANGED <<iterations, inIteration, inItem>>

\* iteration (when one is open) and beforeIteration
OpenIteration ==
    /\ stage = "running" /\ ~inItem
    /\ iterations' = iterations + 1 /\ inIteration' = TRUE
    /\ UNCHANGED <<stage, inItem>>

CloseIteration ==
    /\ stage = "running" /\ inIteration /\ ~inItem
    /\ inIteration' = FALSE
    /\ UNCHANGED <<stage, iterations, inItem>>

BeginItem ==
    /\ stage = "running" /\ inIteration /\ ~inItem
    /\ inItem' = TRUE
    /\ UNCHANGED <<stage, iterations, inIteration>>

FinishItem ==
    /\ stage = "running" /\ inItem
    /\ inItem' = FALSE
    /\ UNCHANGED <<stage, iterations, inIteration>>

Complete ==
    /\ stage = "running" /\ ~inIteration /\ ~inItem
    /\ stage' = "complete"
    /\ UNCHANGED <<iterations, inIteration, inItem>>

BreakOff == stage = "running" /\ stage' = "broken" /\ UNCHANGED <<iterations, inIteration, inItem>>

Next == Start \/ OpenIteration \/ CloseIteration \/ BeginItem \/ FinishItem \/ Complete \/ BreakOff

Spec == Init /\ [][Next]_vars
=============================================================================
