---------------------------- MODULE SequentialRun ----------------------------
(***************************************************************************)
(* One run of a collection whose iterations are not parallelised: the       *)
(* instruction queue of run.js and instruction.js, the commands of          *)
(* lib/runner/extensions that are queued on it (waterfall, delay, item,     *)
(* event, request, pause, abort), and the calls the host makes on the run   *)
(* (start, pause, resume, abort) while it executes.                         *)
(*                                                                          *)
(* JavaScript runs one task at a time.  A step of this module is one task,  *)
(* with one exception: a task that ends in _process() and thereby starts    *)
(* the next command is two steps, and phase "next" between them disables    *)
(* everything but the loop, so that nothing can run in between.             *)
(*                                                                          *)
(* What the program hands from one command to the next in closures (the     *)
(* place in the run, the pre-request scripts' request for a next item, the  *)
(* clone of the item's request) travels in the instruction.                 *)
(***************************************************************************)
EXTENDS Integers, Sequences, Cursor, ExecutionResult

CONSTANTS
    \* the collection: number of items, and iterationCount
    Length, Cycles,
    \* run options
    StopOnError, StopOnFailure, AbortOnError, AbortOnFailure, DisableSNR,
    ItemDelay, IterationDelay,  \* delay.item > 0, delay.iteration > 0
    GlobalTimeout,              \* timeout.global is finite
    SecretResolver,             \* "none", or it calls back "sync" or "async"
    \* what the host, the scripts and the network may do
    ScriptResults,  \* subset of {"ok", "throws", "fails"}: fails = an assertion did
    NextRequests,   \* the setNextRequest outcomes a script may leave
    Mutations,      \* subset of BOOLEAN: may a script mutate pm.request
    Skips,          \* subset of BOOLEAN: may a script call skipRequest
    Failures,       \* subset of BOOLEAN: may a request, or a secret resolution, fail
    InitFails,      \* subset of BOOLEAN: may creating the sandbox context fail
    CallbackThrows, \* subset of BOOLEAN: may a callback given to pause() or abort() throw
    ResumesEarly,   \* the host may call resume() before the run has paused
    PausesAborted,  \* the host may call pause() after it called abort()
    \* bounds
    MaxPauses, MaxAborts

Options == { StopOnError, StopOnFailure, AbortOnError, AbortOnFailure, DisableSNR,
             ItemDelay, IterationDelay, GlobalTimeout, ResumesEarly, PausesAborted }

ASSUME SizeAssumption == Length \in Nat /\ Cycles \in Nat \ {0}
ASSUME OptionsAssumption == Options \subseteq BOOLEAN
ASSUME ResolverAssumption == SecretResolver \in {"none", "sync", "async"}
ASSUME OutcomesAssumption ==
    /\ ScriptResults \subseteq {"ok", "throws", "fails"}
    /\ NextRequests \subseteq {r \in Snrs : r.position \in NoPosition .. Length - 1}
    /\ Mutations \subseteq BOOLEAN
    /\ Skips \subseteq BOOLEAN
    /\ Failures \subseteq BOOLEAN
    /\ InitFails \subseteq BOOLEAN
    /\ CallbackThrows \subseteq BOOLEAN
ASSUME BoundsAssumption == MaxPauses \in Nat /\ MaxAborts \in Nat

(***************************************************************************)
(* Instructions                                                            *)
(***************************************************************************)
ItemCommands == {"item", "item delay", "prerequest", "request", "test"}
FlowCommands == {"waterfall", "iteration delay"} \cup ItemCommands
ControlCommands == {"pause", "abort"}

(* How a waterfall instruction picks its coords: at the start of the run,   *)
(* one past its payload, its payload itself (static), or not (stopRunNow).  *)
Modes == {"start", "next", "static", "stop"}

Instructions ==
    [ cmd : FlowCommands \cup ControlCommands, position : Int, iteration : Int,
      mode : Modes,          \* of a waterfall
      snr : Snrs,            \* of a test, or of a request: what prerequest asked
      mutated : BOOLEAN ]    \* was the request already mutated when cloned?

Waterfall(position, iteration, mode) ==
    [ cmd |-> "waterfall", position |-> position, iteration |-> iteration,
      mode |-> mode, snr |-> NoRequest, mutated |-> FALSE ]

(* Mutant: the item instruction is queued without the rest of its payload.  *)
ItemWithoutPayload(position, iteration) ==
    [cmd |-> "item", position |-> position, iteration |-> iteration]

Item(position, iteration) == [Waterfall(position, iteration, "next") EXCEPT !.cmd = "item"]

Control(cmd) == [Waterfall(0, 0, "next") EXCEPT !.cmd = cmd]

(* The same flow, one command further. *)
Then(instruction, cmd) == [instruction EXCEPT !.cmd = cmd]

Nothing == [Waterfall(0, 0, "next") EXCEPT !.cmd = "none"]

VARIABLES
    \* the loop of _process()
    phase,     \* "idle", "initialising", "next", "running", "ended" or "over"
    pool,      \* the instruction queue
    current,   \* the instruction whose processor has not called next() yet
    failed,    \* did the instruction that ended last pass an error to next()?
    late,      \* the flow waiting for a secret resolution outside the queue
    ticks,     \* pending 0 ms timers, oldest first: "proceed" and "resume"
    \* the Run object
    cursor, paused, aborted,
    stored,    \* is __resume a function?
    globalTimer, \* of timeback: "off", "armed", "fired" or "cleared"
    host,      \* the sandbox: "none", "ready" or "disposed"
    mutated,   \* the items whose request is not the one the run was given
    \* what an observer has seen (history)
    opened,    \* iterations passed to beforeIteration, in order
    closed,    \* iterations passed to iteration, in order
    item,      \* the last item passed to beforeItem; open until passed to item
    stopped,   \* iterations that an item's execution error has ended
    dones,     \* calls of done
    thrown,    \* "resume" or "seek": an exception no one catches; else "no"
    \* bounds
    pauses, aborts

loopVars == <<phase, pool, current, failed, late, ticks>>
controlVars == <<paused, aborted, stored>>
iterationVars == <<opened, closed>>
itemVars == <<cursor, mutated, item, stopped>>
endVars == <<globalTimer, host, dones>>
boundVars == <<pauses, aborts>>
vars == <<loopVars, controlVars, iterationVars, itemVars, endVars, thrown, boundVars>>
-----------------------------------------------------------------------------
Init ==
    /\ phase = "idle"
    /\ pool = <<>> /\ current = Nothing /\ failed = FALSE /\ late = Nothing
    /\ ticks = <<>>
    /\ cursor = NewCursor(Length, Cycles, 0, 0, 0, 0)
    /\ paused = FALSE /\ aborted = FALSE /\ stored = FALSE
    /\ globalTimer = "off" /\ host = "none" /\ mutated = {}
    /\ opened = <<>> /\ closed = <<>>
    /\ item = [position |-> -1, iteration |-> 0, open |-> FALSE]
    /\ stopped = {} /\ dones = 0 /\ thrown = "no"
    /\ pauses = 0 /\ aborts = 0

(* An instruction calls next(): instruction.execute seals it and sets a     *)
(* 0 ms timer for the loop's callback.                                      *)
End(err) ==
    /\ phase' = "ended"
    /\ current' = Nothing
    /\ failed' = err
    /\ ticks' = Append(ticks, "proceed")

(* A processor that has started something and will call next() later.       *)
Wait(instruction) ==
    /\ phase' = "running"
    /\ current' = instruction
    /\ UNCHANGED <<failed, ticks>>

(* Mutant: the call is not dropped after the timeout.                       *)
DoneUnsealed ==
    /\ phase' = "over"
    /\ globalTimer' = globalTimer
    /\ dones' = dones + 1

(* The loop calls back: timeback drops the call once it has timed out.      *)
Done ==
    /\ phase' = "over"
    /\ IF globalTimer = "fired"
       THEN UNCHANGED <<globalTimer, dones>>
       ELSE /\ globalTimer' = IF globalTimer = "armed" THEN "cleared" ELSE globalTimer
            /\ dones' = dones + 1

(* No task but the loop's own runs while the loop is between two commands.  *)
OtherTask == phase # "next"

(* The delay of queueDelay: with no time it calls its function at once.     *)
QueueDelay(delay, source, instruction) ==
    IF delay THEN Then(instruction, source) ELSE instruction

(***************************************************************************)
(* start()                                                                 *)
(***************************************************************************)
Start ==
    /\ phase = "idle"
    /\ phase' = "initialising"
    /\ globalTimer' = IF GlobalTimeout THEN "armed" ELSE "off"
    /\ UNCHANGED <<pool, current, failed, late, ticks, controlVars, iterationVars,
                   itemVars, host, dones, thrown, boundVars>>

(* The initialisers have run: the host exists and a waterfall is queued.    *)
Initialised ==
    /\ phase = "initialising"
    /\ host' = "ready"
    /\ pool' = Append(pool, Waterfall(cursor.position, cursor.iteration, "start"))
    /\ phase' = "next"
    /\ UNCHANGED <<current, failed, late, ticks, controlVars, iterationVars, itemVars,
                   globalTimer, dones, thrown, boundVars>>

(* An initialiser failed: the callback is called past timeback.             *)
InitialiserFailed ==
    /\ phase = "initialising"
    /\ TRUE \in InitFails
    /\ phase' = "over"
    /\ dones' = dones + 1
    /\ UNCHANGED <<pool, current, failed, late, ticks, controlVars, iterationVars,
                   itemVars, globalTimer, host, thrown, boundVars>>
(***************************************************************************)
(* The loop: _process()                                                    *)
(***************************************************************************)
(* The timer set by the instruction that ended fires.                       *)
Proceed ==
    /\ OtherTask
    /\ ticks # <<>> /\ Head(ticks) = "proceed"
    /\ ticks' = Tail(ticks)
    /\ phase' = "next"
    /\ UNCHANGED <<pool, current, failed, late, controlVars, iterationVars, itemVars,
                   endVars, thrown, boundVars>>

(* Mutant: after an error the loop calls back and goes on.                  *)
LoopFailsAndGoesOn ==
    /\ phase = "next" /\ failed
    /\ failed' = FALSE
    /\ dones' = dones + 1
    /\ UNCHANGED <<phase, pool, current, late, ticks, controlVars, iterationVars,
                   itemVars, globalTimer, host, thrown, boundVars>>

(* The instruction passed an error: it is the result of the run.            *)
LoopFails ==
    /\ phase = "next" /\ failed
    /\ Done
    /\ UNCHANGED <<pool, current, failed, late, ticks, controlVars, iterationVars,
                   itemVars, host, thrown, boundVars>>

(* The queue is empty: the run is complete.                                 *)
LoopEnds ==
    /\ phase = "next" /\ ~failed /\ pool = <<>>
    /\ host' = IF host = "ready" THEN "disposed" ELSE host
    /\ Done
    /\ UNCHANGED <<pool, current, failed, late, ticks, controlVars, iterationVars,
                   itemVars, thrown, boundVars>>

(* The next instruction is `cmd`: its action starts with this guard.        *)
Executes(cmd) == phase = "next" /\ ~failed /\ pool # <<>> /\ Head(pool).cmd = cmd

(***************************************************************************)
(* waterfall                                                               *)
(***************************************************************************)
(* The coords a waterfall instruction goes to.  A static payload is what    *)
(* cursor.current() returned when the instruction was queued.               *)
Target(instruction) ==
    IF instruction.mode \in {"start", "static"}
    THEN Current(Seek(cursor, instruction.position, instruction.iteration))
    ELSE WhatNext(cursor, instruction)

(* beforeIteration at the start of the run, and between two iterations the  *)
(* end of one and the beginning of the next, after which iteration delay    *)
(* applies; then the item is queued, unless the run is at its end.          *)
ExecuteWaterfall ==
    /\ Executes("waterfall")
    /\ LET h == Head(pool)
           coords == Target(h)
           next == QueueDelay(coords.cr /\ IterationDelay, "iteration delay",
                              Item(coords.position, coords.iteration))
       IN  CASE coords.empty ->
                    /\ pool' = Tail(pool)
                    /\ UNCHANGED iterationVars
             [] ~coords.empty /\ h.mode = "stop" ->
                    /\ closed' = Append(closed, h.iteration)
                    /\ pool' = Tail(pool)
                    /\ UNCHANGED opened
             [] ~coords.empty /\ h.mode = "start" ->
                    /\ opened' = Append(opened, coords.iteration)
                    /\ pool' = Append(Tail(pool), next)
                    /\ UNCHANGED closed
             [] ~coords.empty /\ h.mode \in {"next", "static"} /\ coords.cr ->
                    /\ closed' = Append(closed, h.iteration)
                    /\ opened' = Append(opened, coords.iteration)
                    /\ pool' = Append(Tail(pool), next)
             [] ~coords.empty /\ h.mode \in {"next", "static"} /\ coords.eof ->
                    /\ closed' = Append(closed, coords.iteration)
                    /\ pool' = Tail(pool)
                    /\ UNCHANGED opened
             [] ~coords.empty /\ h.mode \in {"next", "static"} /\ ~coords.cr /\ ~coords.eof ->
                    /\ pool' = Append(Tail(pool), next)
                    /\ UNCHANGED iterationVars
    /\ End(FALSE)
    /\ UNCHANGED <<late, controlVars, itemVars, endVars, thrown, boundVars>>

(* The item of a flow, passed to beforeItem and (or not yet) to item.       *)
Seen(flow, open) ==
    [position |-> flow.position, iteration |-> flow.iteration, open |-> open]

(* Mutant: going back to the first item restarts the iteration.             *)
RestartingModeAfter(result) ==
    IF result.seekingToStart THEN "start" ELSE IF result.stopRunNow THEN "stop" ELSE "next"

(* How the waterfall queued after an item picks its coords.                 *)
ModeAfter(result) ==
    IF result.seekingToStart THEN "static" ELSE IF result.stopRunNow THEN "stop" ELSE "next"

(* The callback waterfall gave to the item instruction: work out where the  *)
(* run goes, move the cursor and queue the next waterfall.  A refused seek  *)
(* is thrown.                                                               *)
ItemReturns(flow, err, snr, queue) ==
    LET next == ProcessExecutionResult(flow, snr, err, Length, DisableSNR, StopOnFailure)
    IN  /\ item' = Seen(flow, FALSE)
        /\ stopped' = IF err THEN stopped \cup {flow.iteration} ELSE stopped
        /\ cursor' = Seek(cursor, next.position, flow.iteration)
        /\ IF OutOfBounds(cursor, next.position, flow.iteration)
           THEN thrown' = "seek" /\ pool' = queue
           ELSE /\ pool' = Append(queue, Waterfall(next.position, flow.iteration, ModeAfter(next)))
                /\ UNCHANGED thrown

(***************************************************************************)
(* delay                                                                   *)
(***************************************************************************)
ExecuteDelay ==
    /\ Executes("iteration delay") \/ Executes("item delay")
    /\ Wait(Head(pool))
    /\ pool' = Tail(pool)
    /\ UNCHANGED <<late, controlVars, iterationVars, itemVars, endVars, thrown, boundVars>>

(* The function queueDelay was given queues the item, or its first event.   *)
DelayElapses ==
    /\ phase = "running" /\ current.cmd \in {"iteration delay", "item delay"}
    /\ pool' = Append(pool, Then(current, IF current.cmd = "item delay"
                                          THEN "prerequest" ELSE "item"))
    /\ End(FALSE)
    /\ UNCHANGED <<late, controlVars, iterationVars, itemVars, endVars, thrown, boundVars>>

(***************************************************************************)
(* item                                                                    *)
(***************************************************************************)
(* executeItemFlow, or after a fatal error of the secret resolver the       *)
(* item's end; either way the item instruction is complete.                 *)
ItemFlow(flow, queue, fatal) ==
    /\ IF fatal
       THEN ItemReturns(flow, TRUE, NoRequest, queue)
       ELSE /\ pool' = Append(queue, QueueDelay(ItemDelay, "item delay",
                                                Then(flow, "prerequest")))
            /\ item' = Seen(flow, TRUE)
            /\ UNCHANGED <<cursor, stopped, thrown>>
    /\ End(FALSE)

(* The item's request is cloned and beforeItem triggered; secrets are then  *)
(* resolved: at once when there are none or the resolver is synchronous, or *)
(* in a task of their own.                                                  *)
ExecuteItem ==
    /\ Executes("item")
    /\ LET flow == [Head(pool) EXCEPT !.mutated = Head(pool).position \in mutated]
       IN  \/ /\ SecretResolver = "async"
              /\ Wait(flow)
              /\ item' = Seen(flow, TRUE)
              /\ pool' = Tail(pool)
              /\ UNCHANGED <<cursor, stopped, thrown>>
           \/ ItemFlow(flow, Tail(pool), FALSE)
           \/ /\ SecretResolver = "sync" /\ TRUE \in Failures
              /\ ItemFlow(flow, Tail(pool), TRUE)
    /\ UNCHANGED <<late, controlVars, iterationVars, mutated, endVars, boundVars>>

SecretsResolve ==
    /\ phase = "running" /\ current.cmd = "item"
    /\ \E fatal \in Failures : ItemFlow(current, pool, fatal)
    /\ UNCHANGED <<late, controlVars, iterationVars, mutated, endVars, boundVars>>

(***************************************************************************)
(* event                                                                   *)
(***************************************************************************)
(* The scripts of one event, as far as the run can tell: their result, the  *)
(* request for a next item they leave, whether one called skipRequest and   *)
(* whether one changed pm.request (and with it the URL).                    *)
Outcomes == [ result : ScriptResults, snr : NextRequests, skips : Skips,
              mutates : Mutations ]

(* abortOnFailure is given to the test event only, and implies abortOnError.*)
AbortsOnError(name) == AbortOnError \/ (name = "test" /\ AbortOnFailure)
AssertionsCount(name) == StopOnFailure \/ (name = "test" /\ AbortOnFailure)

(* The error of the event: scripts that throw, and failed assertions where  *)
(* an option makes them count; the scripts' errors otherwise stay theirs.   *)
EventError(name, outcome) ==
    /\ \/ outcome.result = "throws"
       \/ outcome.result = "fails" /\ AssertionsCount(name)
    /\ StopOnError \/ StopOnFailure \/ AbortsOnError(name)

ExecuteEvent ==
    /\ Executes("prerequest") \/ Executes("test")
    /\ Wait(Head(pool))
    /\ pool' = Tail(pool)
    /\ UNCHANGED <<late, controlVars, iterationVars, itemVars, endVars, thrown, boundVars>>

(* Mutant: the error of the scripts is not passed on.                       *)
EventSwallowsError ==
    /\ phase = "running" /\ current.cmd \in {"prerequest", "test"}
    /\ \E outcome \in Outcomes : EventError(current.cmd, outcome)
    /\ AbortsOnError(current.cmd)
    /\ End(FALSE)
    /\ UNCHANGED <<pool, late, controlVars, iterationVars, itemVars, endVars, thrown,
                   boundVars>>

(* The error goes to next() and ends the run: nothing more is queued.       *)
EventAborts ==
    /\ phase = "running" /\ current.cmd \in {"prerequest", "test"}
    /\ \E outcome \in Outcomes : EventError(current.cmd, outcome)
    /\ AbortsOnError(current.cmd)
    /\ End(TRUE)
    /\ UNCHANGED <<pool, late, controlVars, iterationVars, itemVars, endVars, thrown,
                   boundVars>>

(* Mutant: the request is queued without waiting for the late secrets.      *)
ProceedWithoutSecrets(flow, urlChanged) ==
    /\ late' = IF urlChanged /\ SecretResolver = "async" THEN flow ELSE late
    /\ pool' = Append(pool, flow)
    /\ UNCHANGED <<cursor, item, stopped, thrown>>

(* proceedWithRequest, after the secrets of a changed URL have been         *)
(* resolved (at once when there are none).  The prerequest instruction is   *)
(* ending: a resolver that calls back later leaves the flow outside the     *)
(* queue.                                                                   *)
ProceedWithRequest(flow, urlChanged) ==
    \/ /\ urlChanged /\ SecretResolver = "async"
       /\ late' = flow
       /\ UNCHANGED <<pool, cursor, item, stopped, thrown>>
    \/ /\ urlChanged /\ SecretResolver = "sync" /\ TRUE \in Failures
       /\ ItemReturns(flow, TRUE, NoRequest, pool)
       /\ UNCHANGED late
    \/ /\ pool' = Append(pool, flow)
       /\ UNCHANGED <<cursor, item, stopped, thrown, late>>

(* The resolver calls back, whatever the loop is doing by then.             *)
LateSecretsResolve ==
    /\ OtherTask
    /\ late # Nothing
    /\ late' = Nothing
    /\ \E fatal \in Failures :
          IF fatal
          THEN ItemReturns(late, TRUE, NoRequest, pool)
          ELSE /\ pool' = Append(pool, late)
               /\ UNCHANGED <<cursor, item, stopped, thrown>>
    /\ UNCHANGED <<phase, current, failed, ticks, controlVars, iterationVars, mutated,
                   endVars, boundVars>>

(* The done handler of the prerequest event: bail out on an error or a      *)
(* skip, otherwise apply the mutations and go on to the request.            *)
PrerequestEnds ==
    /\ phase = "running" /\ current.cmd = "prerequest"
    /\ \E outcome \in Outcomes :
          LET err == EventError("prerequest", outcome)
          IN  /\ ~(err /\ AbortsOnError("prerequest"))
              /\ IF err \/ outcome.skips
                 THEN /\ ItemReturns(current, err, outcome.snr, pool)
                      /\ UNCHANGED <<mutated, late>>
                 ELSE /\ mutated' = IF outcome.mutates
                                    THEN mutated \cup {current.position} ELSE mutated
                      /\ ProceedWithRequest([current EXCEPT !.cmd = "request",
                                                            !.snr = outcome.snr],
                                            outcome.mutates)
    /\ End(FALSE)
    /\ UNCHANGED <<controlVars, iterationVars, endVars, boundVars>>

(* Mutant: the request stays as the scripts left it.                        *)
StillMutatedAfter(flow) == mutated

(* item.request = originalRequest, the clone made when the item started.    *)
MutatedAfter(flow) ==
    IF flow.mutated THEN mutated \cup {flow.position} ELSE mutated \ {flow.position}

(* The done handler of the test event: the item is over, and its request    *)
(* the one it was cloned from again.                                        *)
TestEnds ==
    /\ phase = "running" /\ current.cmd = "test"
    /\ \E outcome \in Outcomes :
          LET err == EventError("test", outcome)
          IN  /\ ~(err /\ AbortsOnError("test"))
              /\ ItemReturns(current, err, Override(current.snr, outcome.snr), pool)
    /\ mutated' = MutatedAfter(current)
    /\ End(FALSE)
    /\ UNCHANGED <<late, controlVars, iterationVars, endVars, boundVars>>

(***************************************************************************)
(* request                                                                 *)
(***************************************************************************)
(* The request command runs httprequest at once, outside the queue, and is  *)
(* complete when that is.                                                   *)
ExecuteRequest ==
    /\ Executes("request")
    /\ Wait(Head(pool))
    /\ pool' = Tail(pool)
    /\ UNCHANGED <<late, controlVars, iterationVars, itemVars, endVars, thrown, boundVars>>

RequestAborts ==
    /\ phase = "running" /\ current.cmd = "request"
    /\ TRUE \in Failures /\ AbortOnError
    /\ End(TRUE)
    /\ UNCHANGED <<pool, late, controlVars, iterationVars, itemVars, endVars, thrown,
                   boundVars>>

(* The done handler of the request: a failed request ends the item when an  *)
(* option says so, else the test scripts run.                               *)
RequestEnds ==
    /\ phase = "running" /\ current.cmd = "request"
    /\ \E fails \in Failures :
          /\ ~(fails /\ AbortOnError)
          /\ IF fails /\ (StopOnError \/ StopOnFailure)
             THEN ItemReturns(current, TRUE, NoRequest, pool)
             ELSE /\ pool' = Append(pool, Then(current, "test"))
                  /\ UNCHANGED <<cursor, item, stopped, thrown>>
    /\ End(FALSE)
    /\ UNCHANGED <<late, controlVars, iterationVars, mutated, endVars, boundVars>>

(***************************************************************************)
(* pause, resume and abort                                                 *)
(***************************************************************************)
(* The host pauses a run that is not paused.                                *)
Pause ==
    /\ OtherTask /\ pauses < MaxPauses /\ ~paused
    /\ PausesAborted \/ aborts = 0
    /\ paused' = TRUE
    /\ pool' = <<Control("pause")>> \o pool
    /\ pauses' = pauses + 1
    /\ UNCHANGED <<phase, current, failed, late, ticks, aborted, stored, iterationVars,
                   itemVars, endVars, thrown, aborts>>

(* The host resumes a paused run: the stored callback is called by a timer. *)
(* A careful host waits for the callback it gave to pause().                *)
Resume ==
    /\ OtherTask /\ paused
    /\ ResumesEarly \/ (stored /\ \A i \in DOMAIN ticks : ticks[i] # "resume")
    /\ paused' = FALSE
    /\ ticks' = Append(ticks, "resume")
    /\ UNCHANGED <<phase, pool, current, failed, late, aborted, stored, iterationVars,
                   itemVars, endVars, thrown, boundVars>>

(* Mutants: abort() looks only at the stored callback; abort() leaves a     *)
(* paused run paused.                                                       *)
AbortResumesStored == stored
AbortNeverResumes == FALSE

AbortResumes == stored /\ paused

(* The host aborts the run, which resumes it if it is paused by then.       *)
Abort ==
    /\ OtherTask /\ aborts < MaxAborts
    /\ pool' = <<Control("abort")>> \o pool
    /\ aborts' = aborts + 1
    /\ IF AbortResumes
       THEN paused' = FALSE /\ ticks' = Append(ticks, "resume")
       ELSE UNCHANGED <<paused, ticks>>
    /\ UNCHANGED <<phase, current, failed, late, aborted, stored, iterationVars, itemVars,
                   endVars, thrown, pauses>>

(* Mutant: the stored callback is dropped instead of called.                *)
ResumeForgets ==
    /\ OtherTask
    /\ ticks # <<>> /\ Head(ticks) = "resume"
    /\ ticks' = Tail(ticks)
    /\ stored' = FALSE
    /\ thrown' = IF stored THEN thrown ELSE "resume"
    /\ UNCHANGED <<phase, pool, current, failed, late, paused, aborted, iterationVars,
                   itemVars, endVars, boundVars>>

(* The timer of resume() fires.  The stored callback is the pause           *)
(* instruction's next(), which is sealed once that has ended.  When nothing *)
(* is stored the call throws and the rest of the timer is skipped.          *)
ResumeFires ==
    /\ OtherTask
    /\ ticks # <<>> /\ Head(ticks) = "resume"
    /\ IF stored /\ phase = "running" /\ current.cmd = "pause"
       THEN /\ phase' = "ended" /\ current' = Nothing /\ failed' = FALSE
            /\ ticks' = Append(Tail(ticks), "proceed")
       ELSE /\ ticks' = Tail(ticks)
            /\ UNCHANGED <<phase, current, failed>>
    /\ stored' = FALSE
    /\ thrown' = IF stored THEN thrown ELSE "resume"
    /\ UNCHANGED <<pool, late, paused, aborted, iterationVars, itemVars, endVars, boundVars>>

(* next() is tucked away, then the host's callback is called; if that       *)
(* throws, the error ends the run.                                          *)
ExecutePause ==
    /\ Executes("pause")
    /\ pool' = Tail(pool)
    /\ stored' = TRUE
    /\ \E throws \in CallbackThrows : IF throws THEN End(TRUE) ELSE Wait(Head(pool))
    /\ UNCHANGED <<late, paused, aborted, iterationVars, itemVars, endVars, thrown, boundVars>>

(* Mutant: the queue is not emptied.                                        *)
AbortKeepsQueue ==
    /\ Executes("abort")
    /\ pool' = Tail(pool)
    /\ aborted' = TRUE
    /\ End(FALSE)
    /\ UNCHANGED <<late, paused, stored, iterationVars, itemVars, endVars, thrown, boundVars>>

(* Everything queued is dropped; the first time, abort is triggered and the *)
(* host's callback called, whose error is the instruction's.                *)
ExecuteAbort ==
    /\ Executes("abort")
    /\ pool' = <<>>
    /\ aborted' = TRUE
    /\ \E throws \in CallbackThrows : End(throws /\ ~aborted)
    /\ UNCHANGED <<late, paused, stored, iterationVars, itemVars, endVars, thrown, boundVars>>

(* The timer of timeback fires: everything queued is dropped and done is    *)
(* called with the timeout error.  The command that is running goes on.     *)
GlobalTimeoutFires ==
    /\ OtherTask
    /\ globalTimer = "armed"
    /\ globalTimer' = "fired"
    /\ pool' = <<>>
    /\ dones' = dones + 1
    /\ UNCHANGED <<phase, current, failed, late, ticks, controlVars, iterationVars,
                   itemVars, host, thrown, boundVars>>
-----------------------------------------------------------------------------
Loop ==
    \/ Initialised \/ InitialiserFailed
    \/ Proceed \/ LoopFails \/ LoopEnds
    \/ ExecuteWaterfall \/ ExecuteDelay \/ ExecuteItem \/ ExecuteEvent \/ ExecuteRequest
    \/ ExecutePause \/ ExecuteAbort

(* What the running command waits for: a timer, the sandbox, the network,   *)
(* the secret resolver.                                                     *)
Answer ==
    \/ DelayElapses
    \/ SecretsResolve
    \/ EventAborts \/ PrerequestEnds \/ TestEnds
    \/ RequestAborts \/ RequestEnds

Host == Start \/ Pause \/ Resume \/ Abort

Next ==
    Loop \/ Answer \/ LateSecretsResolve \/ ResumeFires \/ GlobalTimeoutFires \/ Host

Spec == Init /\ [][Next]_vars

(* The event loop serves every timer, and every answer comes: scripts,      *)
(* requests and the resolver all call back, in the end by their timeouts.   *)
(* The host may leave the run paused for ever.                              *)
Fairness == /\ WF_vars(Loop) /\ WF_vars(Answer)
            /\ WF_vars(LateSecretsResolve) /\ WF_vars(ResumeFires)

FairSpec == Spec /\ Fairness
-----------------------------------------------------------------------------
(***************************************************************************)
(* Properties                                                              *)
(***************************************************************************)
TypeOK ==
    /\ phase \in {"idle", "initialising", "next", "running", "ended", "over"}
    /\ pool \in Seq(Instructions)
    /\ current \in Instructions \cup {Nothing}
    /\ failed \in BOOLEAN
    /\ late \in Instructions \cup {Nothing}
    /\ ticks \in Seq({"proceed", "resume"})
    /\ cursor \in [ length : {Length}, cycles : {Cycles}, position : Nat, iteration : Nat,
                    partitionIndex : Nat, partitionCycles : Nat ]
    /\ paused \in BOOLEAN /\ aborted \in BOOLEAN /\ stored \in BOOLEAN
    /\ globalTimer \in {"off", "armed", "fired", "cleared"}
    /\ host \in {"none", "ready", "disposed"}
    /\ mutated \subseteq Int
    /\ opened \in Seq(Int) /\ closed \in Seq(Int)
    /\ item \in [position : Int, iteration : Int, open : BOOLEAN]
    /\ stopped \subseteq Int
    /\ dones \in Nat
    /\ thrown \in {"no", "resume", "seek"}
    /\ pauses \in Nat /\ aborts \in Nat

IsFlow(instruction) == instruction.cmd \in FlowCommands
NoFlowIn(queue) == \A i \in DOMAIN queue : ~IsFlow(queue[i])
OneFlowIn(queue) == \A i, j \in DOMAIN queue : IsFlow(queue[i]) /\ IsFlow(queue[j]) => i = j

(* What is left to do: the flow of the run is in the queue, running, or     *)
(* waiting for secrets.                                                     *)
Pending == {pool[i] : i \in DOMAIN pool} \cup {current, late}
NoFlow == NoFlowIn(pool) /\ ~IsFlow(current) /\ ~IsFlow(late)

(* "At any time, only one command may be running" (docs/architecture.md):   *)
(* the flow of the run is in one place only.  Were a command to queue its   *)
(* successor twice, or the loop to pick one up while another runs, items    *)
(* would interleave over the same variables.                                *)
OneFlow ==
    /\ OneFlowIn(pool)
    /\ IsFlow(current) \/ IsFlow(late) => NoFlowIn(pool)
    /\ ~(IsFlow(current) /\ IsFlow(late))

(* Once abort has been processed there is nothing left of the run that      *)
(* could execute: "there will be nothing next to execute" (the comment in   *)
(* the abort command).                                                      *)
AbortIsFinal == aborted => NoFlow

(* done is called once, whichever of the end of the queue, an error, the    *)
(* global timeout comes first.                                              *)
DoneOnce == dones <= 1

(* After done has been called no script and no request starts: done is      *)
(* "called at the end of a run" (README.md).                                *)
NothingStartsAfterDone ==
    [][dones > 0 /\ current' # current =>
          current'.cmd \notin {"prerequest", "request", "test"}]_vars

(* beforeIteration and iteration are triggered for 0, 1, 2... in turn, an   *)
(* iteration being closed before the next is opened, wherever scripts and   *)
(* errors send the run.                                                     *)
IterationsInOrder ==
    /\ \A i \in DOMAIN opened : opened[i] = i - 1
    /\ \A i \in DOMAIN closed : closed[i] = i - 1
    /\ Len(closed) <= Len(opened) /\ Len(opened) <= Len(closed) + 1

(* An iteration that an item's error has ended executes nothing more, and   *)
(* with stopOnFailure nor does any other.                                   *)
StoppedIsStopped ==
    \A instruction \in Pending :
        instruction.cmd \in ItemCommands \cup {"iteration delay"} =>
            /\ instruction.iteration \notin stopped
            /\ StopOnFailure => stopped = {}

(* "request mutations are not persisted across iterations"                  *)
(* (item.command.js): an item starts with the request it has in the run's   *)
(* collection, whatever its scripts did to it before.                       *)
RequestsRestored ==
    \A i \in DOMAIN pool : pool[i].cmd = "item" => pool[i].position \notin mutated

(* A run whose loop came to the end of the queue, unaborted and in time,    *)
(* has closed every iteration it opened and every item, has nothing left    *)
(* to do, and unless a failure stopped it, ran all its iterations.          *)
CompleteRun ==
    phase = "over" /\ host = "disposed" /\ ~aborted /\ globalTimer # "fired" =>
        /\ NoFlow
        /\ ~item.open
        /\ Len(closed) = Len(opened)
        /\ Length > 0 /\ ~(StopOnFailure /\ stopped # {}) => Len(opened) = Cycles

(* No exception leaves a timer or a callback: resume() finds the callback   *)
(* that the pause command stored, and the seek after an item is inside the  *)
(* run ("this condition should never arise").                               *)
NothingThrown == thrown = "no"

ItemStarts ==
    \/ item'.open /\ ~item.open
    \/ item'.position # item.position
    \/ item'.iteration # item.iteration

(* Where no script can redirect the run, an item starts only when its       *)
(* predecessor in the collection is over, or when it is the first of an     *)
(* iteration and the previous iteration was stopped.                        *)
ItemsInOrder ==
    [][ItemStarts =>
          /\ ~item.open
          /\ LET last == IF item.iteration \in stopped
                         THEN [item EXCEPT !.position = Length - 1] ELSE item
                 next == WhatNext(cursor, last)
             IN  /\ ~next.eof
                 /\ item'.position = next.position
                 /\ item'.iteration = next.iteration]_vars

(* The pause instruction holds the run and the host has not resumed it.     *)
AwaitsResume == phase = "running" /\ current.cmd = "pause" /\ paused

(* Every run that is started ends, from whatever state it is in, unless its *)
(* host leaves it paused for ever: to have been paused once excuses nothing *)
(* that happens, or fails to, after resume().                               *)
RunEnds ==
    <>[]AwaitsResume \/ (phase \notin {"idle", "over"} ~> phase = "over")

(* An aborted run ends, whatever it was doing, paused or not, and without   *)
(* the host doing anything more.                                            *)
AbortEnds == aborts > 0 /\ phase # "idle" ~> phase = "over"

(* What the host sees of the run: it is complete when the loop came to the  *)
(* end of the queue and disposed of the sandbox, and no abort emptied the   *)
(* queue.                                                                   *)
Stage ==
    CASE phase = "idle" -> "idle"
      [] phase = "over" /\ host = "disposed" /\ ~aborted -> "complete"
      [] phase = "over" /\ (host # "disposed" \/ aborted) -> "broken"
      [] phase \notin {"idle", "over"} -> "running"

(* The run keeps its contract with the host.                                *)
Contract == INSTANCE RunContract WITH
    stage <- Stage,
    iterations <- Len(opened),
    inIteration <- Len(opened) > Len(closed),
    inItem <- item.open

KeepsContract == Contract!Spec
=============================================================================
