----------------------------- MODULE ParallelRun -----------------------------
(***************************************************************************)
(* One run of a collection whose iterations are divided into partitions     *)
(* that execute concurrently: lib/runner/partition-manager.js, partition.js,*)
(* the parallel command, and the calls the host makes on the run.  Each     *)
(* partition has a queue, a cursor and a loop of its own; pause and abort   *)
(* go through a priority queue which the loops look at between commands.    *)
(*                                                                          *)
(* A step is one task of JavaScript.  A task in which several loops move    *)
(* (the start of the run; a loop that runs the priority queue and then      *)
(* continues) is several steps, and a "ready" loop disables everything else *)
(* until the task is over.                                                  *)
(*                                                                          *)
(* The events and the request of an item, whose chain SequentialRun models  *)
(* command by command, are one command here, "script".                      *)
(***************************************************************************)
EXTENDS Integers, Sequences, FiniteSets, Cursor, ExecutionResult, Partitions

CONSTANTS
    \* number of items, and the options iterationCount and maxConcurrency
    Length, Cycles, MaxConcurrency,
    Rows,           \* of the data file
    StopOnFailure, DisableSNR, IterationDelay, GlobalTimeout,
    \* what the host and the scripts may do
    NextRequests,   \* the setNextRequest outcomes a script may leave
    Failures,       \* subset of BOOLEAN: may an item end with an execution error
    Errors,         \* subset of BOOLEAN: may a command end the run with an error
    CallbackThrows, \* subset of BOOLEAN: may a callback given to pause() or abort() throw
    \* bounds
    MaxPauses, MaxAborts

ASSUME SizeAssumption ==
    /\ Length \in Nat
    /\ Cycles \in Nat \ {0} /\ MaxConcurrency \in Nat \ {0, 1} /\ Rows \in Nat \ {0}
ASSUME OptionsAssumption ==
    {StopOnFailure, DisableSNR, IterationDelay, GlobalTimeout} \subseteq BOOLEAN
ASSUME OutcomesAssumption ==
    /\ NextRequests \subseteq {r \in Snrs : r.position < Length}
    /\ Failures \subseteq BOOLEAN /\ Errors \subseteq BOOLEAN /\ CallbackThrows \subseteq BOOLEAN
ASSUME BoundsAssumption == MaxPauses \in Nat /\ MaxAborts \in Nat

Index == 0 .. Concurrency(Cycles, MaxConcurrency) - 1
First(p) == StartIndex(Cycles, MaxConcurrency, p)  \* partition.startIndex
PartitionCycles(p) == Size(Cycles, MaxConcurrency, p)

Modes == {"start", "next", "static", "stop"}
Instructions ==
    [ cmd : {"parallel", "delay", "item", "script"}, position : Int, iteration : Int,
      mode : Modes,  \* of a parallel instruction: how it picks its coords
      data : Int ]   \* of an item: the row of the data file it is given

Parallel(position, iteration, mode) ==
    [ cmd |-> "parallel", position |-> position, iteration |-> iteration,
      mode |-> mode, data |-> 0 ]
Nothing == [Parallel(0, 0, "next") EXCEPT !.cmd = "none"]
Then(instruction, cmd) == [instruction EXCEPT !.cmd = cmd]

(* Who runs the priority queue: the start of the run, or a partition's loop *)
Starter == -1

VARIABLES
    phase,     \* "idle", "initialising" or "live"
    \* the partitions
    queue, cursor,
    loop,      \* "off", "ready", "running", "ended", "failed", "polling", "lent",
               \* or, once its callback was called, "done" or "broken"
    current,   \* the instruction whose processor has not called next() yet
    \* the priority partition
    controls,  \* its queue, of "pause" and "abort"
    control,   \* its loop: "off", "ready", "pausing", "ended" or "failed"
    owner,     \* on whose behalf the loop runs
    \* the Run object
    paused, aborted, stored,
    resumes,   \* timers set by resume() that have not fired
    completed, remainingPools,  \* of process()
    globalTimer, host,
    \* what an observer has seen (history)
    opened, closed,  \* per partition: iterations passed to beforeIteration, iteration
    item,      \* per partition: the last item begun, and whether it is over
    dones,
    \* bounds
    pauses, aborts

partitionVars == <<queue, cursor, loop, current>>
controlVars == <<controls, control, owner>>
hostVars == <<paused, aborted, stored, resumes>>
poolVars == <<completed, remainingPools, globalTimer, host, dones>>
seenVars == <<opened, closed, item>>
boundVars == <<pauses, aborts>>
vars == <<phase, partitionVars, controlVars, hostVars, poolVars, seenVars, boundVars>>
-----------------------------------------------------------------------------
Init ==
    /\ phase = "idle"
    /\ queue = [p \in Index |-> <<>>]
    /\ cursor = [p \in Index |-> NewCursor(Length, Cycles, 0, First(p), p, PartitionCycles(p))]
    /\ loop = [p \in Index |-> "off"]
    /\ current = [p \in Index |-> Nothing]
    /\ controls = <<>> /\ control = "off" /\ owner = Starter
    /\ paused = FALSE /\ aborted = FALSE /\ stored = FALSE /\ resumes = 0
    /\ completed = FALSE /\ remainingPools = Cardinality(Index)
    /\ globalTimer = "off" /\ host = "none" /\ dones = 0
    /\ opened = [p \in Index |-> <<>>] /\ closed = [p \in Index |-> <<>>]
    /\ item = [p \in Index |-> [position |-> -1, iteration |-> 0, open |-> FALSE]]
    /\ pauses = 0 /\ aborts = 0

(* Mutant: nobody waits.                                                    *)
NoLock == FALSE

(* The priority queue is being processed: the loops of the partitions wait. *)
priorityLock == control # "off"

(* The task that is running has moved every loop it will move.              *)
OtherTask == control # "ready" /\ \A p \in Index : loop[p] # "ready"

(* The callback of the run, through timeback.                               *)
Done ==
    IF globalTimer = "fired"
    THEN UNCHANGED <<globalTimer, dones>>
    ELSE /\ globalTimer' = IF globalTimer = "armed" THEN "cleared" ELSE globalTimer
         /\ dones' = dones + 1

(* Mutants: a pool that finishes late calls back again; the last pool but   *)
(* one ends the run.                                                        *)
PoolFinishedUnsealed(err) ==
    /\ completed' = TRUE
    /\ remainingPools' = remainingPools - 1
    /\ IF remainingPools <= 1 \/ err \/ aborted
       THEN host' = "disposed" /\ Done
       ELSE UNCHANGED <<host, globalTimer, dones>>

PoolFinishedEarly(err) ==
    LET ends == ~completed /\ (aborted \/ err \/ remainingPools <= 2)
    IN  /\ completed' = (completed \/ ends)
        /\ remainingPools' = IF completed \/ aborted \/ err THEN remainingPools
                             ELSE remainingPools - 1
        /\ host' = IF ends /\ (aborted \/ ~err) THEN "disposed" ELSE host
        /\ IF ends THEN Done ELSE UNCHANGED <<globalTimer, dones>>

(* A partition's loop calls back: the run is over when all have, or when    *)
(* the first has that found an error or the abort.                          *)
PoolFinished(err) ==
    LET ends == ~completed /\ (aborted \/ err \/ remainingPools = 1)
    IN  /\ completed' = (completed \/ ends)
        /\ remainingPools' = IF completed \/ aborted \/ err THEN remainingPools
                             ELSE remainingPools - 1
        /\ host' = IF ends /\ (aborted \/ ~err) THEN "disposed" ELSE host
        /\ IF ends THEN Done ELSE UNCHANGED <<globalTimer, dones>>

(* A partition's instruction calls next(), or will call it later.           *)
End(p, err) ==
    /\ loop' = [loop EXCEPT ![p] = IF err THEN "failed" ELSE "ended"]
    /\ current' = [current EXCEPT ![p] = Nothing]

Wait(p) ==
    /\ loop' = [loop EXCEPT ![p] = "running"]
    /\ current' = [current EXCEPT ![p] = Head(queue[p])]

Queue(p, instructions) == queue' = [queue EXCEPT ![p] = instructions]

(***************************************************************************)
(* start() and process()                                                   *)
(***************************************************************************)
Start ==
    /\ phase = "idle"
    /\ phase' = "initialising"
    /\ globalTimer' = IF GlobalTimeout THEN "armed" ELSE "off"
    /\ UNCHANGED <<partitionVars, controlVars, hostVars, completed, remainingPools, host,
                   dones, seenVars, boundVars>>

(* The initialisers have run: each partition has a first instruction.  The  *)
(* loops start, after the priority queue if there is something in it.       *)
Initialised ==
    /\ phase = "initialising"
    /\ phase' = "live"
    /\ host' = "ready"
    /\ queue' = [p \in Index |-> <<Parallel(0, First(p), "start")>>]
    /\ IF controls # <<>>
       THEN control' = "ready" /\ UNCHANGED loop
       ELSE loop' = [p \in Index |-> "ready"] /\ UNCHANGED control
    /\ UNCHANGED <<cursor, current, controls, owner, hostVars, completed, remainingPools,
                   globalTimer, dones, seenVars, boundVars>>

(***************************************************************************)
(* The loop of a partition: _processPartition()                            *)
(***************************************************************************)
(* It is the loop's turn: it continues in the task that is running, or a    *)
(* timer has fired (0 ms after an instruction, 10 ms after a poll).         *)
HasTurn(p) ==
    \/ loop[p] = "ready" /\ control # "ready" /\ \A q \in Index : q < p => loop[q] # "ready"
    \/ loop[p] \in {"ended", "polling"} /\ OtherTask

Poll(p) ==
    /\ HasTurn(p) /\ priorityLock
    /\ loop' = [loop EXCEPT ![p] = "polling"]
    /\ UNCHANGED <<phase, queue, cursor, current, controlVars, hostVars, poolVars, seenVars,
                   boundVars>>

(* There is something in the priority queue: this loop sees to it first.    *)
TakeControl(p) ==
    /\ HasTurn(p) /\ ~priorityLock /\ controls # <<>>
    /\ loop' = [loop EXCEPT ![p] = "lent"]
    /\ control' = "ready" /\ owner' = p
    /\ UNCHANGED <<phase, queue, cursor, current, controls, hostVars, poolVars, seenVars,
                   boundVars>>

ProcessesOwn(p) == HasTurn(p) /\ ~priorityLock /\ controls = <<>>

(* Nothing is left in the partition's queue.                                *)
Finish(p) ==
    /\ ProcessesOwn(p) /\ queue[p] = <<>>
    /\ loop' = [loop EXCEPT ![p] = IF aborted THEN "broken" ELSE "done"]
    /\ PoolFinished(FALSE)
    /\ UNCHANGED <<phase, queue, cursor, current, controlVars, hostVars, seenVars, boundVars>>

(* Mutant: the error is not passed on.                                      *)
FailSwallowed(p) ==
    /\ loop[p] = "failed" /\ OtherTask
    /\ loop' = [loop EXCEPT ![p] = "done"]
    /\ PoolFinished(FALSE)
    /\ UNCHANGED <<phase, queue, cursor, current, controlVars, hostVars, seenVars, boundVars>>

(* An instruction passed an error to next().                                *)
Fail(p) ==
    /\ loop[p] = "failed" /\ OtherTask
    /\ loop' = [loop EXCEPT ![p] = "broken"]
    /\ PoolFinished(TRUE)
    /\ UNCHANGED <<phase, queue, cursor, current, controlVars, hostVars, seenVars, boundVars>>

Executes(p, cmd) == ProcessesOwn(p) /\ queue[p] # <<>> /\ Head(queue[p]).cmd = cmd

(***************************************************************************)
(* parallel                                                                *)
(***************************************************************************)
Target(p, instruction) ==
    IF instruction.mode \in {"start", "static"}
    THEN Current(Seek(cursor[p], instruction.position, instruction.iteration))
    ELSE WhatNext(cursor[p], instruction)

(* Mutant: a partition ends where the run does.                             *)
EndsWithRun(p, coords) == FALSE

(* Has the partition run all its iterations?  Its cursor counts those of    *)
(* the whole run, so this is not eof for any partition but the last.        *)
EndsPartition(p, coords) == coords.iteration = First(p) + PartitionCycles(p)

(* The row of an item's data, the last one when there are not that many.    *)
Row(n) == Lesser(n, Rows - 1)
DataRow(p, coords) == Row(coords.iteration + First(p))

QueueItem(p, coords) ==
    LET next == [Parallel(coords.position, coords.iteration, "next")
                    EXCEPT !.cmd = IF coords.cr /\ IterationDelay THEN "delay" ELSE "item",
                           !.data = DataRow(p, coords)]
    IN  Queue(p, Append(Tail(queue[p]), next))

Opens(p, iteration) == opened' = [opened EXCEPT ![p] = Append(@, iteration)]
Closes(p, iteration) == closed' = [closed EXCEPT ![p] = Append(@, iteration)]

(* As waterfall does, except that a partition may end before the run does,  *)
(* and that stopRunNow closes the iteration that would come next.           *)
ExecuteParallel(p) ==
    /\ Executes(p, "parallel")
    /\ LET h == Head(queue[p])
           coords == Target(p, h)
       IN  CASE coords.empty ->
                    /\ Queue(p, Tail(queue[p]))
                    /\ UNCHANGED <<opened, closed>>
             [] ~coords.empty /\ h.mode = "stop" ->
                    /\ Closes(p, coords.iteration)
                    /\ Queue(p, Tail(queue[p]))
                    /\ UNCHANGED opened
             [] ~coords.empty /\ h.mode = "start" ->
                    /\ Opens(p, coords.iteration)
                    /\ QueueItem(p, coords)
                    /\ UNCHANGED closed
             [] ~coords.empty /\ h.mode \in {"next", "static"} /\ EndsPartition(p, coords) ->
                    /\ Closes(p, h.iteration)
                    /\ Queue(p, Tail(queue[p]))
                    /\ UNCHANGED opened
             [] ~coords.empty /\ h.mode \in {"next", "static"} /\ ~EndsPartition(p, coords)
                /\ coords.cr ->
                    /\ Closes(p, h.iteration)
                    /\ Opens(p, coords.iteration)
                    /\ QueueItem(p, coords)
             [] ~coords.empty /\ h.mode \in {"next", "static"} /\ ~EndsPartition(p, coords)
                /\ ~coords.cr /\ coords.eof ->
                    /\ Closes(p, coords.iteration)
                    /\ Queue(p, Tail(queue[p]))
                    /\ UNCHANGED opened
             [] OTHER ->
                    /\ QueueItem(p, coords)
                    /\ UNCHANGED <<opened, closed>>
    /\ End(p, FALSE)
    /\ UNCHANGED <<phase, cursor, controlVars, hostVars, poolVars, item, boundVars>>

ExecuteDelay(p) ==
    /\ Executes(p, "delay")
    /\ Wait(p)
    /\ Queue(p, Tail(queue[p]))
    /\ UNCHANGED <<phase, cursor, controlVars, hostVars, poolVars, seenVars, boundVars>>

DelayElapses(p) ==
    /\ loop[p] = "running" /\ current[p].cmd = "delay" /\ OtherTask
    /\ Queue(p, Append(queue[p], Then(current[p], "item")))
    /\ End(p, FALSE)
    /\ UNCHANGED <<phase, cursor, controlVars, hostVars, poolVars, seenVars, boundVars>>

ExecuteItem(p) ==
    /\ Executes(p, "item")
    /\ LET h == Head(queue[p])
       IN  /\ item' = [item EXCEPT ![p] = [ position |-> h.position, iteration |-> h.iteration,
                                            open |-> TRUE ]]
           /\ Queue(p, Append(Tail(queue[p]), Then(h, "script")))
    /\ End(p, FALSE)
    /\ UNCHANGED <<phase, cursor, controlVars, hostVars, poolVars, opened, closed, boundVars>>

ExecuteScript(p) ==
    /\ Executes(p, "script")
    /\ Wait(p)
    /\ Queue(p, Tail(queue[p]))
    /\ UNCHANGED <<phase, cursor, controlVars, hostVars, poolVars, seenVars, boundVars>>

ModeAfter(result) ==
    IF result.seekingToStart THEN "static" ELSE IF result.stopRunNow THEN "stop" ELSE "next"

(* The item is over, and its callback queues the next parallel instruction  *)
(* wherever the scripts send the partition.                                 *)
ScriptEnds(p) ==
    /\ loop[p] = "running" /\ current[p].cmd = "script" /\ OtherTask
    /\ \E err \in Failures, snr \in NextRequests :
          LET at == current[p]
              next == ProcessExecutionResult(at, snr, err, Length, DisableSNR, StopOnFailure)
          IN  /\ cursor' = [cursor EXCEPT ![p] = Seek(@, next.position, at.iteration)]
              /\ Queue(p, Append(queue[p], Parallel(next.position, at.iteration, ModeAfter(next))))
    /\ item' = [item EXCEPT ![p].open = FALSE]
    /\ End(p, FALSE)
    /\ UNCHANGED <<phase, controlVars, hostVars, poolVars, opened, closed, boundVars>>

(* An error that an option turns into the end of the run.                   *)
ScriptAborts(p) ==
    /\ loop[p] = "running" /\ current[p].cmd = "script" /\ OtherTask
    /\ TRUE \in Errors
    /\ End(p, TRUE)
    /\ UNCHANGED <<phase, queue, cursor, controlVars, hostVars, poolVars, seenVars, boundVars>>

(***************************************************************************)
(* The loop of the priority partition, and what it executes                *)
(***************************************************************************)
ControlHasTurn == control = "ready" \/ (control = "ended" /\ OtherTask)

ExecutesControl(cmd) == ControlHasTurn /\ controls # <<>> /\ Head(controls) = cmd

ExecutePause ==
    /\ ExecutesControl("pause")
    /\ controls' = Tail(controls)
    /\ stored' = TRUE
    /\ \E throws \in CallbackThrows : control' = IF throws THEN "failed" ELSE "pausing"
    /\ UNCHANGED <<phase, partitionVars, owner, paused, aborted, resumes, poolVars, seenVars,
                   boundVars>>

(* The queues of the partitions are emptied; their running commands go on.  *)
ExecuteAbort ==
    /\ ExecutesControl("abort")
    /\ controls' = Tail(controls)
    /\ queue' = [p \in Index |-> <<>>]
    /\ aborted' = TRUE
    /\ \E throws \in CallbackThrows :
          control' = IF throws /\ ~aborted THEN "failed" ELSE "ended"
    /\ UNCHANGED <<phase, cursor, loop, current, owner, paused, stored, resumes, poolVars,
                   seenVars, boundVars>>

(* Mutant: the loop that ran the priority queue does not continue.          *)
ControlEndsLocked ==
    /\ ControlHasTurn /\ controls = <<>>
    /\ control' = "off"
    /\ loop' = IF owner = Starter THEN [p \in Index |-> "ready"] ELSE loop
    /\ UNCHANGED <<phase, queue, cursor, current, controls, owner, hostVars, poolVars,
                   seenVars, boundVars>>

(* The priority queue is empty: whoever ran it continues.                   *)
ControlEnds ==
    /\ ControlHasTurn /\ controls = <<>>
    /\ control' = "off" /\ owner' = Starter
    /\ loop' = IF owner = Starter THEN [p \in Index |-> "ready"]
               ELSE [loop EXCEPT ![owner] = "ready"]
    /\ UNCHANGED <<phase, queue, cursor, current, controls, hostVars, poolVars, seenVars,
                   boundVars>>

(* The error of a control instruction is that of the partition whose loop   *)
(* executed it, or, before the partitions have started, of the run.         *)
ControlFails ==
    /\ control = "failed" /\ OtherTask
    /\ control' = "off" /\ owner' = Starter
    /\ IF owner = Starter
       THEN Done /\ UNCHANGED <<loop, completed, remainingPools, host>>
       ELSE loop' = [loop EXCEPT ![owner] = "broken"] /\ PoolFinished(TRUE)
    /\ UNCHANGED <<phase, queue, cursor, current, controls, hostVars, seenVars, boundVars>>

(***************************************************************************)
(* pause, resume and abort                                                 *)
(***************************************************************************)
Pause ==
    /\ OtherTask /\ phase # "idle" /\ pauses < MaxPauses /\ ~paused
    /\ paused' = TRUE
    /\ controls' = Append(controls, "pause")
    /\ pauses' = pauses + 1
    /\ UNCHANGED <<phase, partitionVars, control, owner, aborted, stored, resumes, poolVars,
                   seenVars, aborts>>

(* The host resumes the run once the callback it gave to pause() was called.*)
Resume ==
    /\ OtherTask /\ paused /\ stored
    /\ paused' = FALSE
    /\ resumes' = resumes + 1
    /\ UNCHANGED <<phase, partitionVars, controlVars, aborted, stored, poolVars, seenVars,
                   boundVars>>

AbortResumes == stored /\ paused

Abort ==
    /\ OtherTask /\ phase # "idle" /\ aborts < MaxAborts
    /\ controls' = Append(controls, "abort")
    /\ aborts' = aborts + 1
    /\ IF AbortResumes
       THEN paused' = FALSE /\ resumes' = resumes + 1
       ELSE UNCHANGED <<paused, resumes>>
    /\ UNCHANGED <<phase, partitionVars, control, owner, aborted, stored, poolVars, seenVars,
                   pauses>>

(* Mutant: the stored callback is dropped instead of called.                *)
ResumeForgets ==
    /\ OtherTask /\ resumes > 0
    /\ resumes' = resumes - 1
    /\ stored' = FALSE
    /\ UNCHANGED <<phase, partitionVars, controlVars, paused, aborted, poolVars, seenVars,
                   boundVars>>

(* The timer of resume() fires and calls the next() of the pause            *)
(* instruction, which does nothing when that has ended.                     *)
ResumeFires ==
    /\ OtherTask /\ resumes > 0
    /\ resumes' = resumes - 1
    /\ stored' = FALSE
    /\ control' = IF stored /\ control = "pausing" THEN "ended" ELSE control
    /\ UNCHANGED <<phase, partitionVars, controls, owner, paused, aborted, poolVars, seenVars,
                   boundVars>>

(* The timer of timeback fires.  What it empties is the queue of a run that *)
(* is not parallelised.                                                     *)
GlobalTimeoutFires ==
    /\ OtherTask /\ globalTimer = "armed"
    /\ globalTimer' = "fired"
    /\ dones' = dones + 1
    /\ UNCHANGED <<phase, partitionVars, controlVars, hostVars, completed, remainingPools,
                   host, seenVars, boundVars>>
-----------------------------------------------------------------------------
PartitionLoop(p) ==
    \/ Poll(p) \/ TakeControl(p) \/ Finish(p) \/ Fail(p)
    \/ ExecuteParallel(p) \/ ExecuteDelay(p) \/ ExecuteItem(p) \/ ExecuteScript(p)

Answer(p) == DelayElapses(p) \/ ScriptEnds(p) \/ ScriptAborts(p)

ControlLoop == ExecutePause \/ ExecuteAbort \/ ControlEnds \/ ControlFails

Host == Start \/ Pause \/ Resume \/ Abort

Next ==
    \/ Initialised \/ ControlLoop \/ ResumeFires \/ GlobalTimeoutFires \/ Host
    \/ \E p \in Index : PartitionLoop(p) \/ Answer(p)

Spec == Init /\ [][Next]_vars

(* The event loop serves every timer, and every command is answered.        *)
Fairness ==
    /\ WF_vars(Initialised) /\ WF_vars(ControlLoop) /\ WF_vars(ResumeFires)
    /\ \A p \in Index : WF_vars(PartitionLoop(p)) /\ WF_vars(Answer(p))

FairSpec == Spec /\ Fairness
-----------------------------------------------------------------------------
(***************************************************************************)
(* Properties                                                              *)
(***************************************************************************)
TypeOK ==
    /\ phase \in {"idle", "initialising", "live"}
    /\ queue \in [Index -> Seq(Instructions)]
    /\ cursor \in [Index -> [ length : {Length}, cycles : {Cycles}, position : Nat,
                              iteration : Nat, partitionIndex : Nat, partitionCycles : Nat ]]
    /\ loop \in [Index -> { "off", "ready", "running", "ended", "failed", "polling", "lent",
                            "done", "broken" }]
    /\ current \in [Index -> Instructions \cup {Nothing}]
    /\ controls \in Seq({"pause", "abort"})
    /\ control \in {"off", "ready", "pausing", "ended", "failed"}
    /\ owner \in Index \cup {Starter}
    /\ paused \in BOOLEAN /\ aborted \in BOOLEAN /\ stored \in BOOLEAN /\ resumes \in Nat
    /\ completed \in BOOLEAN /\ remainingPools \in Int
    /\ globalTimer \in {"off", "armed", "fired", "cleared"}
    /\ host \in {"none", "ready", "disposed"}
    /\ opened \in [Index -> Seq(Int)] /\ closed \in [Index -> Seq(Int)]
    /\ item \in [Index -> [position : Int, iteration : Int, open : BOOLEAN]]
    /\ dones \in Nat
    /\ pauses \in Nat /\ aborts \in Nat

(* The priority queue is run on behalf of exactly one loop, which waits for *)
(* it: control instructions are neither executed twice at once nor does the *)
(* loop that found them go on without them.                                 *)
OneController ==
    \A p \in Index : loop[p] = "lent" <=> (priorityLock /\ owner = p)

Busy(p) == loop[p] = "running"

(* While the run is held by a pause no partition starts a command: what was *)
(* running when it was paused may end, and that is all.                     *)
PausedIsPaused ==
    [][control = "pausing" /\ control' = "pausing" =>
          /\ \A p \in Index : Busy(p)' => Busy(p)
          /\ opened' = opened
          /\ \A p \in Index : item'[p].open => item[p].open]_vars

(* A partition opens its own iterations, in order and no other's, wherever  *)
(* scripts send it: no iteration of the run is executed by two partitions.  *)
OwnIterations ==
    \A p \in Index :
        /\ \A k \in DOMAIN opened[p] : opened[p][k] = First(p) + k - 1
        /\ Len(opened[p]) <= PartitionCycles(p)

(* done is called once, by whichever partition is last, or first to fail or *)
(* to notice the abort.                                                     *)
DoneOnce == dones <= 1

(* A run that is complete, and was neither aborted nor broken off by an     *)
(* error nor stopped by a failure, has run all iterations: each was opened  *)
(* by one partition and closed, and no partition has anything left to do.   *)
CompleteRun ==
    completed /\ ~aborted /\ (\A p \in Index : loop[p] # "broken") /\ ~StopOnFailure =>
        /\ \A p \in Index : loop[p] = "done" /\ ~item[p].open /\ Len(opened[p]) = Len(closed[p])
        /\ Length > 0 =>
              \A n \in 0 .. Cycles - 1 :
                  Cardinality({o \in Index \X (1 .. Cycles) :
                                  o[2] \in DOMAIN opened[o[1]] /\ opened[o[1]][o[2]] = n}) = 1

(* "there will be nothing next to execute" (control.command.js): once abort *)
(* has been processed no partition begins another item.                     *)
AbortIsFinal ==
    [][aborted => \A p \in Index : item'[p].open => item[p].open]_vars

(* An item is given the row of its iteration.                               *)
OwnData ==
    \A p \in Index : \A k \in DOMAIN queue[p] :
        queue[p][k].cmd = "item" => queue[p][k].data = Row(queue[p][k].iteration)

(* A script sends its partition back, to an item of the present iteration   *)
(* that has been executed.                                                  *)
GoesBack(p) ==
    /\ ~item[p].open /\ item'[p].open
    /\ item'[p].iteration = item[p].iteration
    /\ item'[p].position <= item[p].position

(* The pause instruction holds the run and the host has not resumed it.     *)
AwaitsResume == control = "pausing" /\ paused

(* Every run that is started calls back, from whatever state it is in: a    *)
(* loop that waits for another to run the priority queue, or that lent its  *)
(* place to it, goes on.  The exceptions are a host that leaves the run     *)
(* paused for ever and scripts that go back for ever; to have been paused   *)
(* once excuses nothing after resume().                                     *)
RunEnds ==
    <>[][\A p \in Index : ~GoesBack(p)]_vars /\ ~<>[]AwaitsResume
        => (phase # "idle" /\ dones = 0 ~> dones > 0)
=============================================================================
