-------------------------- MODULE CustomIterations --------------------------
(***************************************************************************)
(* A run with customParallelIterations: lib/runner/partition-manager.js     *)
(* makes no partitions by itself, and the host starts and stops iterations  *)
(* one by one (startParallelIteration, stopParallelIteration), each in a    *)
(* partition of its own and with a loop of its own.  The run has no end but *)
(* abort(), and abort instructions go through the priority queue, which the *)
(* loops look at between commands as in ParallelRun.                        *)
(*                                                                          *)
(* A step is one task, or a part of one: while a loop is "ready" the task   *)
(* that is running has yet to move it.  The events and the request of an    *)
(* item are one command, "script".                                          *)
(***************************************************************************)
EXTENDS Integers, Sequences, FiniteSets, Cursor, ExecutionResult

CONSTANTS
    Length,         \* number of items
    StopOnFailure, GlobalTimeout,
    NextRequests,   \* the setNextRequest outcomes a script may leave
    Failures,       \* subset of BOOLEAN: may an item end with an execution error
    Errors,         \* subset of BOOLEAN: may a command end its loop with an error
    CallbackThrows, \* subset of BOOLEAN: may the callback of abort() throw
    TrustsStop,     \* does the host start an iteration again as soon as its stop
                    \* has called back, or wait for the start's own callback
    \* bounds: the partitions, and the calls of the host
    MaxPartitions, MaxStarts, MaxStops, MaxAborts

ASSUME SizeAssumption == Length \in Nat /\ MaxPartitions \in Nat
ASSUME OptionsAssumption == {StopOnFailure, GlobalTimeout, TrustsStop} \subseteq BOOLEAN

VARIABLES
    phase,     \* "idle", "initialising" or "live"
    queue,     \* of each partition, in the order they were created
    loops,     \* one for each iteration started: its partition; whether it is
               \* "ready", "running", "ended", "failed", "polling", "lent" or,
               \* once the host's callback was called, "over"; and the place of
               \* the item it executes
    controls,  \* the number of abort instructions in the priority queue
    control,   \* the loop of the priority queue: "off", "ready", "ended", "failed"
    owner,     \* the loop on whose behalf it runs
    aborted, stopActionTriggered, globalTimer, dones,
    begun,     \* per partition: the number of items begun
    stopped,   \* partitions whose stop has called back, not started since
    stops, aborts

runVars == <<aborted, stopActionTriggered, globalTimer, dones>>
controlVars == <<controls, control, owner>>
vars == <<phase, queue, loops, controlVars, runVars, begun, stopped, stops, aborts>>

Starter == 0
Partitions == DOMAIN queue
Loops == DOMAIN loops

(* A parallel instruction picks its place by its mode.                      *)
Instruction(cmd, position, mode) == [cmd |-> cmd, position |-> position, mode |-> mode]

Init ==
    /\ phase = "idle"
    /\ queue = <<>> /\ loops = <<>>
    /\ controls = 0 /\ control = "off" /\ owner = Starter
    /\ aborted = FALSE /\ stopActionTriggered = FALSE /\ globalTimer = "off" /\ dones = 0
    /\ begun = <<>> /\ stopped = {}
    /\ stops = 0 /\ aborts = 0

priorityLock == control # "off"
OtherTask == control # "ready" /\ \A l \in Loops : loops[l].state # "ready"

Move(l, state) == loops' = [loops EXCEPT ![l].state = state]

(* triggerStopAction calls the callback given to start(), not the one with  *)
(* the global timeout around it, whose timer goes on.                       *)
TriggerStopAction ==
    /\ stopActionTriggered' = TRUE
    /\ dones' = IF stopActionTriggered THEN dones ELSE dones + 1
    /\ UNCHANGED globalTimer

(* Run.start: one iteration, concurrency one.                               *)
Start ==
    /\ phase = "idle"
    /\ phase' = "initialising"
    /\ globalTimer' = IF GlobalTimeout THEN "armed" ELSE "off"
    /\ UNCHANGED <<queue, loops, controlVars, aborted, stopActionTriggered, dones, begun, stopped,
                   stops, aborts>>

(* The initialisers are done.  process() runs the priority queue if there   *)
(* is something in it, and nothing else.                                    *)
Initialised ==
    /\ phase = "initialising"
    /\ phase' = "live"
    /\ control' = IF controls > 0 THEN "ready" ELSE "off"
    /\ owner' = Starter
    /\ UNCHANGED <<queue, loops, controls, runVars, begun, stopped, stops, aborts>>

(***************************************************************************)
(* The host                                                                *)
(***************************************************************************)
Outstanding(p) == \E l \in Loops : loops[l].partition = p /\ loops[l].state # "over"

(* startParallelIteration on a partition that is not executing as far as    *)
(* the host has been told, or on the one after the last.  One that has      *)
(* instructions is left alone, and the call is answered at once.            *)
StartIteration(p) ==
    /\ phase = "live" /\ OtherTask
    /\ Len(loops) < MaxStarts
    /\ p \in Partitions => (~Outstanding(p) \/ (TrustsStop /\ p \in stopped))
    /\ p <= MaxPartitions
    /\ LET has == p \in Partitions /\ queue[p] # <<>>
           first == <<Instruction("parallel", 0, "start")>>
       IN  /\ loops' = Append(loops, [ partition |-> p, position |-> 0,
                                       state |-> IF has THEN "over" ELSE "ready" ])
           /\ queue' = IF has THEN queue
                       ELSE IF p \in Partitions THEN [queue EXCEPT ![p] = first]
                       ELSE Append(queue, first)
           /\ begun' = IF has THEN begun
                       ELSE IF p \in Partitions THEN [begun EXCEPT ![p] = 0]
                       ELSE Append(begun, 0)
    /\ stopped' = stopped \ {p}
    /\ UNCHANGED <<phase, controlVars, runVars, stops, aborts>>

(* stopParallelIteration empties the queue and calls back; what the         *)
(* partition is executing goes on.                                          *)
StopIteration(p) ==
    /\ phase = "live" /\ OtherTask /\ stops < MaxStops /\ Outstanding(p)
    /\ stops' = stops + 1
    /\ queue' = [queue EXCEPT ![p] = <<>>]
    /\ stopped' = stopped \union {p}
    /\ UNCHANGED <<phase, loops, controlVars, runVars, begun, aborts>>

(* schedule("abort"): the run is over at once if no queue has instructions, *)
(* which is also so while every partition is executing one.                 *)
Abort ==
    /\ phase # "idle" /\ OtherTask /\ aborts < MaxAborts
    /\ aborts' = aborts + 1
    /\ controls' = controls + 1
    /\ IF phase = "live" /\ \A p \in Partitions : queue[p] = <<>>
       THEN TriggerStopAction
       ELSE UNCHANGED <<stopActionTriggered, dones, globalTimer>>
    /\ UNCHANGED <<phase, queue, loops, control, owner, aborted, begun, stopped, stops>>

GlobalTimeoutFires ==
    /\ OtherTask /\ globalTimer = "armed"
    /\ globalTimer' = "fired"
    /\ dones' = dones + 1
    /\ UNCHANGED <<phase, queue, loops, controlVars, aborted, stopActionTriggered, begun,
                   stopped, stops, aborts>>

(***************************************************************************)
(* _processPartition for a loop l                                          *)
(***************************************************************************)
HasTurn(l) ==
    \/ loops[l].state = "ready"
    \/ loops[l].state \in {"ended", "polling"} /\ OtherTask

Poll(l) ==
    /\ HasTurn(l) /\ priorityLock
    /\ Move(l, "polling")
    /\ UNCHANGED <<phase, queue, controlVars, runVars, begun, stopped, stops, aborts>>

TakeControl(l) ==
    /\ HasTurn(l) /\ ~priorityLock /\ controls > 0
    /\ Move(l, "lent")
    /\ control' = "ready" /\ owner' = l
    /\ UNCHANGED <<phase, queue, controls, runVars, begun, stopped, stops, aborts>>

ProcessesOwn(l) == HasTurn(l) /\ ~priorityLock /\ controls = 0

(* There is nothing left: the host's callback is called.                    *)
Finish(l) ==
    /\ ProcessesOwn(l) /\ queue[loops[l].partition] = <<>>
    /\ Move(l, "over")
    /\ UNCHANGED <<phase, queue, controlVars, runVars, begun, stopped, stops, aborts>>

Fail(l) ==
    /\ loops[l].state = "failed" /\ OtherTask
    /\ Move(l, "over")
    /\ UNCHANGED <<phase, queue, controlVars, runVars, begun, stopped, stops, aborts>>

(* The loop takes the instruction at the head of the queue.                 *)
Executes(l, cmd) ==
    /\ ProcessesOwn(l)
    /\ queue[loops[l].partition] # <<>> /\ Head(queue[loops[l].partition]).cmd = cmd

Then(l, instructions) ==
    LET p == loops[l].partition
    IN  queue' = [queue EXCEPT ![p] = Tail(@) \o instructions]

(* There is one iteration, so whatnext() goes to an item or to the end.     *)
(* A partition has the iterations from 0 to partitionCycles, 1.             *)
ExecuteParallel(l) ==
    /\ Executes(l, "parallel")
    /\ LET h == Head(queue[loops[l].partition])
           cursor == NewCursor(Length, 1, 0, 0, loops[l].partition - 1, 1)
           at == [position |-> h.position, iteration |-> 0]
           coords == IF h.mode \in {"start", "static"}
                     THEN Coords(h.position, 0, Length = 0, FALSE, FALSE)
                     ELSE WhatNext(cursor, at)
           ends == coords.iteration = cursor.partitionCycles \/ coords.eof
       IN  Then(l, IF coords.empty \/ h.mode = "stop" \/ ends THEN <<>>
                   ELSE <<Instruction("item", coords.position, "next")>>)
    /\ Move(l, "ended")
    /\ UNCHANGED <<phase, controlVars, runVars, begun, stopped, stops, aborts>>

ExecuteItem(l) ==
    /\ Executes(l, "item")
    /\ Then(l, <<[Head(queue[loops[l].partition]) EXCEPT !.cmd = "script"]>>)
    /\ begun' = [begun EXCEPT ![loops[l].partition] = @ + 1]
    /\ Move(l, "ended")
    /\ UNCHANGED <<phase, controlVars, runVars, stopped, stops, aborts>>

ExecuteScript(l) ==
    /\ Executes(l, "script")
    /\ Then(l, <<>>)
    /\ loops' = [loops EXCEPT ![l].state = "running",
                              ![l].position = Head(queue[loops[l].partition]).position]
    /\ UNCHANGED <<phase, controlVars, runVars, begun, stopped, stops, aborts>>

ScriptEnds(l) ==
    /\ loops[l].state = "running" /\ OtherTask
    /\ \E err \in Failures, snr \in NextRequests :
          LET at == [position |-> loops[l].position, iteration |-> 0]
              next == ProcessExecutionResult(at, snr, err, Length, FALSE, StopOnFailure)
              mode == IF next.seekingToStart THEN "static"
                      ELSE IF next.stopRunNow THEN "stop" ELSE "next"
          IN  queue' = [queue EXCEPT ![loops[l].partition] =
                            Append(@, Instruction("parallel", next.position, mode))]
    /\ Move(l, "ended")
    /\ UNCHANGED <<phase, controlVars, runVars, begun, stopped, stops, aborts>>

(* An error that an option turns into the end of the run ends the loop.     *)
ScriptAborts(l) ==
    /\ loops[l].state = "running" /\ OtherTask /\ TRUE \in Errors
    /\ Move(l, "failed")
    /\ UNCHANGED <<phase, queue, controlVars, runVars, begun, stopped, stops, aborts>>

(***************************************************************************)
(* The priority queue                                                      *)
(***************************************************************************)
ControlHasTurn == control = "ready" \/ (control = "ended" /\ OtherTask)

(* Mutant: the queues of the partitions are kept.                           *)
AbortKeepsQueues ==
    /\ ControlHasTurn /\ controls > 0
    /\ controls' = controls - 1
    /\ aborted' = TRUE
    /\ TriggerStopAction
    /\ \E throws \in CallbackThrows : control' = IF throws /\ ~aborted THEN "failed" ELSE "ended"
    /\ UNCHANGED <<phase, queue, loops, owner, begun, stopped, stops, aborts>>

ExecuteAbort ==
    /\ ControlHasTurn /\ controls > 0
    /\ controls' = controls - 1
    /\ queue' = [p \in Partitions |-> <<>>]
    /\ aborted' = TRUE
    /\ TriggerStopAction
    /\ \E throws \in CallbackThrows : control' = IF throws /\ ~aborted THEN "failed" ELSE "ended"
    /\ UNCHANGED <<phase, loops, owner, begun, stopped, stops, aborts>>

(* The lock is released, and the loop that ran the queue goes on.           *)
ControlEnds ==
    /\ ControlHasTurn /\ controls = 0
    /\ control' = "off"
    /\ IF owner = Starter THEN UNCHANGED loops ELSE Move(owner, "ready")
    /\ UNCHANGED <<phase, queue, controls, owner, runVars, begun, stopped, stops, aborts>>

(* Mutant: the lock is kept after an error.                                 *)
ControlFailsLocked ==
    /\ control = "failed" /\ OtherTask
    /\ control' = "kept"
    /\ IF owner = Starter THEN UNCHANGED loops ELSE Move(owner, "over")
    /\ UNCHANGED <<phase, queue, controls, owner, runVars, begun, stopped, stops, aborts>>

(* The error goes to the callback of the run, with the global timeout       *)
(* around it, or of the iteration whose loop it was.                        *)
ControlFails ==
    /\ control = "failed" /\ OtherTask
    /\ control' = "off"
    /\ IF owner = Starter
       THEN /\ globalTimer' = IF globalTimer = "armed" THEN "cleared" ELSE globalTimer
            /\ dones' = IF globalTimer = "fired" THEN dones ELSE dones + 1
            /\ UNCHANGED loops
       ELSE Move(owner, "over") /\ UNCHANGED <<globalTimer, dones>>
    /\ UNCHANGED <<phase, queue, controls, owner, aborted, stopActionTriggered, begun, stopped,
                   stops, aborts>>
-----------------------------------------------------------------------------
Loop(l) ==
    \/ Poll(l) \/ TakeControl(l) \/ Finish(l) \/ Fail(l)
    \/ ExecuteParallel(l) \/ ExecuteItem(l) \/ ExecuteScript(l)

Answer(l) == ScriptEnds(l) \/ ScriptAborts(l)

ControlLoop == ExecuteAbort \/ ControlEnds \/ ControlFails

Next ==
    \/ Start \/ Initialised \/ ControlLoop \/ GlobalTimeoutFires \/ Abort
    \/ \E p \in 1 .. Len(queue) + 1 : StartIteration(p)
    \/ \E p \in Partitions : StopIteration(p)
    \/ \E l \in Loops : Loop(l) \/ Answer(l)

Spec == Init /\ [][Next]_vars

(* The event loop serves every timer, and every command is answered.        *)
Fairness ==
    /\ WF_vars(Initialised) /\ WF_vars(ControlLoop)
    /\ \A l \in 1 .. MaxStarts : WF_vars(l \in Loops /\ Loop(l)) /\ WF_vars(l \in Loops /\ Answer(l))

FairSpec == Spec /\ Fairness
-----------------------------------------------------------------------------
(* What is left to do in a partition.                                       *)
Work(p) ==
    Len(queue[p]) + Cardinality({l \in Loops : /\ loops[l].partition = p
                                               /\ loops[l].state = "running"})

(* A partition does one thing at a time, and one whose iteration the host   *)
(* has been called back about does nothing, also after a stop and after an  *)
(* abort whose callback threw: starting it again starts one iteration.      *)
AnsweredIsIdle ==
    \A p \in Partitions : Work(p) <= 1 /\ (~Outstanding(p) => Work(p) = 0)

(* The host hears the end of every iteration it started, and after abort()  *)
(* the end of the run, whether or not a loop is there to execute the abort. *)
HostHears ==
    /\ \A l \in 1 .. MaxStarts :
          (l \in Loops) ~> (l \in Loops /\ loops[l].state = "over")
    /\ aborts > 0 ~> dones > 0

(* The callback of a stop is the one "to call when the iteration is         *)
(* complete": no item begins in the partition after it.                     *)
StoppedIsComplete ==
    [][\A p \in stopped : p \in stopped' => begun'[p] = begun[p]]_vars
=============================================================================
