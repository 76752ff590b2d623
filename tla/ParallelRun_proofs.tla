------------------------- MODULE ParallelRun_proofs -------------------------
(***************************************************************************)
(* Proofs about ParallelRun, for every value of its constants: types, what  *)
(* the partitions execute, and that the run calls back once; then who runs  *)
(* the priority queue, that a pause holds the run, that each partition      *)
(* keeps the contract of a run, and that a run that is complete has run     *)
(* every iteration once.                                                    *)
(***************************************************************************)
EXTENDS ParallelRun, ParallelContract, Partitions_proofs, SequenceTheorems, FiniteSetTheorems

LoopStates == { "off", "ready", "running", "ended", "failed", "polling", "lent", "done", "broken" }

CursorType == [ length : {Length}, cycles : {Cycles}, position : Nat, iteration : Nat,
                partitionIndex : Nat, partitionCycles : Nat ]

(* TypeOK in two parts: what the partitions own, and what they share.       *)
PartitionTypes ==
    /\ queue \in [Index -> Seq(Instructions)]
    /\ cursor \in [Index -> CursorType]
    /\ loop \in [Index -> LoopStates]
    /\ current \in [Index -> Instructions \cup {Nothing}]
    /\ opened \in [Index -> Seq(Int)] /\ closed \in [Index -> Seq(Int)]
    /\ item \in [Index -> [position : Int, iteration : Int, open : BOOLEAN]]

PoolTypes ==
    /\ completed \in BOOLEAN /\ remainingPools \in Int
    /\ globalTimer \in {"off", "armed", "fired", "cleared"}
    /\ host \in {"none", "ready", "disposed"}
    /\ dones \in Nat

HostTypes ==
    /\ phase \in {"idle", "initialising", "live"}
    /\ controls \in Seq({"pause", "abort"})
    /\ control \in {"off", "ready", "pausing", "ended", "failed"}
    /\ owner \in Index \cup {Starter}
    /\ paused \in BOOLEAN /\ aborted \in BOOLEAN /\ stored \in BOOLEAN /\ resumes \in Nat
    /\ pauses \in Nat /\ aborts \in Nat

LEMMA Types == TypeOK <=> PartitionTypes /\ PoolTypes /\ HostTypes
BY DEF TypeOK, PartitionTypes, PoolTypes, HostTypes, LoopStates, CursorType

LEMMA TypesNext == PartitionTypes' /\ PoolTypes' /\ HostTypes' => TypeOK'
BY DEF TypeOK, PartitionTypes, PoolTypes, HostTypes, LoopStates, CursorType

LEMMA IndexFacts ==
    ASSUME NEW p \in Index
    PROVE  /\ p \in Nat
           /\ First(p) \in Nat
           /\ PartitionCycles(p) \in Nat \ {0}
           /\ First(p) + PartitionCycles(p) <= Cycles
<1>1. p \in Nat /\ p < Concurrency(Cycles, MaxConcurrency)
    BY SizeAssumption DEF Index, Concurrency, Lesser
<1>2. Cycles \in Nat /\ MaxConcurrency \in Nat \ {0}
    BY SizeAssumption
<1>3. First(p) \in Nat
    BY <1>1, <1>2, StartFollows DEF First
<1>4. PartitionCycles(p) \in Nat \ {0}
    BY <1>1, <1>2, SizePositive DEF PartitionCycles
<1>5. First(p) + PartitionCycles(p) <= Cycles
    BY <1>1, <1>2, PartitionsAreInRun DEF First, PartitionCycles
<1> QED
    BY <1>1, <1>3, <1>4, <1>5

LEMMA StarterIsNoIndex == Starter \notin Index
BY SizeAssumption DEF Starter, Index

(***************************************************************************)
(* Types of the operators the actions are built from                       *)
(***************************************************************************)
LEMMA ParallelType ==
    ASSUME NEW position \in Int, NEW iteration \in Int, NEW mode \in Modes
    PROVE  Parallel(position, iteration, mode) \in Instructions
BY DEF Parallel, Instructions

LEMMA ThenType ==
    ASSUME NEW instruction \in Instructions, NEW cmd \in {"parallel", "delay", "item", "script"}
    PROVE  /\ Then(instruction, cmd) \in Instructions
           /\ Then(instruction, cmd).cmd = cmd
           /\ Then(instruction, cmd).iteration = instruction.iteration
           /\ Then(instruction, cmd).mode = instruction.mode
BY DEF Then, Instructions

LEMMA InstructionFields ==
    ASSUME NEW instruction \in Instructions
    PROVE  /\ instruction.cmd \in {"parallel", "delay", "item", "script"}
           /\ instruction.position \in Int /\ instruction.iteration \in Int
           /\ instruction.mode \in Modes
BY DEF Instructions

(* A command is only ever that of an instruction.                           *)
LEMMA CommandOfInstruction ==
    ASSUME NEW x \in Instructions \cup {Nothing}, x.cmd \in {"parallel", "delay", "item", "script"}
    PROVE  x \in Instructions
BY DEF Nothing, Parallel

LEMMA QueueHead ==
    ASSUME NEW S, NEW q \in Seq(S), q # <<>>
    PROVE  Head(q) \in S /\ Tail(q) \in Seq(S)
BY HeadTailProperties

LEMMA Appended ==
    ASSUME NEW S, NEW q \in Seq(S), NEW x \in S
    PROVE  Append(q, x) \in Seq(S)
OBVIOUS

LEMMA Updated ==
    ASSUME NEW S, NEW T, NEW f \in [S -> T], NEW p \in S, NEW x \in T
    PROVE  [f EXCEPT ![p] = x] \in [S -> T]
OBVIOUS

LEMMA SeekType ==
    ASSUME NEW c \in CursorType, NEW position \in Int, NEW iteration \in Int
    PROVE  Seek(c, position, iteration) \in CursorType
<1>1. CASE OutOfBounds(c, position, iteration)
    BY <1>1 DEF Seek
<1>2. CASE ~OutOfBounds(c, position, iteration)
    <2>1. position \in Nat /\ iteration \in Nat
        BY <1>2 DEF OutOfBounds
    <2> QED
        BY <1>2, <2>1 DEF Seek, CursorType
<1> QED
    BY <1>1, <1>2

LEMMA TargetType ==
    ASSUME PartitionTypes, NEW p \in Index, NEW h \in Instructions
    PROVE  Target(p, h).position \in Int /\ Target(p, h).iteration \in Int
<1>1. cursor[p] \in CursorType /\ h.position \in Int /\ h.iteration \in Int
    BY InstructionFields DEF PartitionTypes
<1>2. CASE h.mode \in {"start", "static"}
    <2>1. Seek(cursor[p], h.position, h.iteration) \in CursorType
        BY <1>1, SeekType
    <2> QED
        BY <1>2, <2>1 DEF Target, Current, Coords, CursorType
<1>3. CASE h.mode \notin {"start", "static"}
    <2>1. cursor[p].length \in Nat /\ cursor[p].cycles \in Nat
        BY <1>1, SizeAssumption DEF CursorType
    <2> QED
        BY <1>1, <1>3, <2>1 DEF Target, WhatNext, InLastIteration, Coords
<1> QED
    BY <1>2, <1>3

LEMMA ResultType ==
    ASSUME NEW at \in Instructions, NEW snr \in Snrs, NEW err, NEW disable, NEW stop,
           NEW length \in Int
    PROVE  ProcessExecutionResult(at, snr, err, length, disable, stop).position \in Int
BY InstructionFields DEF ProcessExecutionResult, Snrs

(* The instruction that QueueItem queues.                                   *)
NextItem(p, coords) ==
    [Parallel(coords.position, coords.iteration, "next")
        EXCEPT !.cmd = IF coords.cr /\ IterationDelay THEN "delay" ELSE "item",
               !.data = DataRow(p, coords)]

LEMMA NextItemType ==
    ASSUME NEW p \in Index, NEW coords, coords.position \in Int, coords.iteration \in Int
    PROVE  /\ NextItem(p, coords) \in Instructions
           /\ NextItem(p, coords).cmd # "parallel"
           /\ NextItem(p, coords).iteration = coords.iteration
           /\ NextItem(p, coords).mode = "next"
<1>1. DataRow(p, coords) \in Int
    BY IndexFacts, SizeAssumption DEF DataRow, Row, Lesser
<1> QED
    BY <1>1 DEF NextItem, Parallel, Instructions, Modes

LEMMA EndType ==
    ASSUME PartitionTypes, NEW p \in Index, NEW err, End(p, err)
    PROVE  loop' \in [Index -> LoopStates] /\ current' \in [Index -> Instructions \cup {Nothing}]
BY DEF PartitionTypes, End, LoopStates

LEMMA WaitType ==
    ASSUME PartitionTypes, NEW p \in Index, queue[p] # <<>>, Wait(p)
    PROVE  loop' \in [Index -> LoopStates] /\ current' \in [Index -> Instructions \cup {Nothing}]
<1>1. Head(queue[p]) \in Instructions
    BY QueueHead DEF PartitionTypes
<1> QED
    BY <1>1 DEF PartitionTypes, Wait, LoopStates

LEMMA DoneType ==
    ASSUME PoolTypes, Done
    PROVE  globalTimer' \in {"off", "armed", "fired", "cleared"} /\ dones' \in Nat
BY DEF PoolTypes, Done

LEMMA PoolFinishedType ==
    ASSUME PoolTypes, NEW err \in BOOLEAN, PoolFinished(err)
    PROVE  PoolTypes'
<1> DEFINE ends == ~completed /\ (aborted \/ err \/ remainingPools = 1)
<1>1. /\ completed' = (completed \/ ends)
      /\ remainingPools' \in {remainingPools, remainingPools - 1}
      /\ host' \in {"disposed", host}
      /\ Done \/ UNCHANGED <<globalTimer, dones>>
    BY DEF PoolFinished
<1>2. completed' \in BOOLEAN
    BY <1>1 DEF PoolTypes
<1>3. globalTimer' \in {"off", "armed", "fired", "cleared"} /\ dones' \in Nat
    BY <1>1, DoneType DEF PoolTypes
<1>4. remainingPools' \in Int /\ host' \in {"none", "ready", "disposed"}
    BY <1>1 DEF PoolTypes
<1> QED
    BY <1>2, <1>3, <1>4 DEF PoolTypes

(***************************************************************************)
(* Types                                                                   *)
(***************************************************************************)
LEMMA InitTypes == Init => TypeOK
<1> SUFFICES ASSUME Init PROVE TypeOK
    OBVIOUS
<1>1. \A p \in Index : NewCursor(Length, Cycles, 0, First(p), p, PartitionCycles(p)) \in CursorType
    BY IndexFacts, SizeAssumption DEF NewCursor, Validate, CursorType
<1>2. PartitionTypes
    BY <1>1 DEF Init, PartitionTypes, LoopStates
<1>3. Cardinality(Index) \in Int
    <2>1. Concurrency(Cycles, MaxConcurrency) - 1 \in Int
        BY SizeAssumption DEF Concurrency, Lesser
    <2> QED
        BY <2>1, FS_Interval DEF Index
<1>4. PoolTypes
    BY <1>3 DEF Init, PoolTypes
<1>5. HostTypes
    <2>1. controls \in Seq({"pause", "abort"}) /\ control = "off" /\ owner \in Index \cup {Starter}
        BY DEF Init
    <2>2. resumes \in Nat /\ pauses \in Nat /\ aborts \in Nat
        BY DEF Init
    <2>3. paused \in BOOLEAN /\ aborted \in BOOLEAN /\ stored \in BOOLEAN
        BY Zenon DEF Init
    <2> QED
        BY <2>1, <2>2, <2>3 DEF Init, HostTypes
<1> QED
    BY <1>2, <1>4, <1>5, Types

LEMMA InitialisedTypes == TypeOK /\ Initialised => TypeOK'
<1> SUFFICES ASSUME TypeOK, Initialised PROVE TypeOK'
    OBVIOUS
<1>1. PartitionTypes /\ PoolTypes /\ HostTypes
    BY Types
<1>2. \A p \in Index : Parallel(0, First(p), "start") \in Instructions
    BY IndexFacts, ParallelType DEF Modes
<1>3. queue' \in [Index -> Seq(Instructions)]
    BY <1>2 DEF Initialised
<1>4. loop' \in [Index -> LoopStates] /\ control' \in {"off", "ready", "pausing", "ended", "failed"}
    BY <1>1 DEF Initialised, PartitionTypes, HostTypes, LoopStates
<1>5. PartitionTypes'
    BY <1>1, <1>3, <1>4 DEF Initialised, PartitionTypes, seenVars
<1>6. PoolTypes' /\ HostTypes'
    BY <1>1, <1>4 DEF Initialised, PoolTypes, HostTypes, hostVars, boundVars
<1> QED
    BY <1>5, <1>6, TypesNext

(* A step in which a partition's loop moves without touching its queue.     *)
LEMMA LoopTypes ==
    ASSUME TypeOK, NEW p \in Index, Poll(p) \/ TakeControl(p) \/ Finish(p) \/ Fail(p)
    PROVE  TypeOK'
<1>1. PartitionTypes /\ PoolTypes /\ HostTypes
    BY Types
<1>2. CASE Poll(p)
    <2>1. PartitionTypes'
        BY <1>1, <1>2 DEF Poll, PartitionTypes, LoopStates, seenVars
    <2>2. PoolTypes' /\ HostTypes'
        BY <1>1, <1>2 DEF Poll, PoolTypes, HostTypes, controlVars, hostVars, poolVars, boundVars
    <2> QED
        BY <2>1, <2>2, TypesNext
<1>3. CASE TakeControl(p)
    <2>1. PartitionTypes'
        BY <1>1, <1>3 DEF TakeControl, PartitionTypes, LoopStates, seenVars
    <2>2. PoolTypes' /\ HostTypes'
        BY <1>1, <1>3 DEF TakeControl, PoolTypes, HostTypes, hostVars, poolVars, boundVars
    <2> QED
        BY <2>1, <2>2, TypesNext
<1>4. CASE Finish(p)
    <2>1. PartitionTypes'
        BY <1>1, <1>4 DEF Finish, PartitionTypes, LoopStates, seenVars
    <2>2. PoolTypes'
        BY <1>1, <1>4, PoolFinishedType DEF Finish
    <2>3. HostTypes'
        BY <1>1, <1>4 DEF Finish, HostTypes, controlVars, hostVars, boundVars
    <2> QED
        BY <2>1, <2>2, <2>3, TypesNext
<1>5. CASE Fail(p)
    <2>1. PartitionTypes'
        BY <1>1, <1>5 DEF Fail, PartitionTypes, LoopStates, seenVars
    <2>2. PoolTypes'
        BY <1>1, <1>5, PoolFinishedType DEF Fail
    <2>3. HostTypes'
        BY <1>1, <1>5 DEF Fail, HostTypes, controlVars, hostVars, boundVars
    <2> QED
        BY <2>1, <2>2, <2>3, TypesNext
<1> QED
    BY <1>2, <1>3, <1>4, <1>5

LEMMA ExecuteParallelTypes ==
    ASSUME TypeOK, NEW p \in Index, ExecuteParallel(p)
    PROVE  TypeOK'
<1> DEFINE h == Head(queue[p])
           coords == Target(p, h)
<1>1. PartitionTypes /\ PoolTypes /\ HostTypes
    BY Types
<1>2. queue[p] # <<>> /\ queue[p] \in Seq(Instructions)
    BY <1>1 DEF ExecuteParallel, Executes, PartitionTypes
<1>3. h \in Instructions /\ Tail(queue[p]) \in Seq(Instructions)
    BY <1>2, QueueHead
<1>4. coords.position \in Int /\ coords.iteration \in Int /\ h.iteration \in Int
    BY <1>1, <1>3, TargetType, InstructionFields
<1>5. Append(Tail(queue[p]), NextItem(p, coords)) \in Seq(Instructions)
    BY <1>3, <1>4, NextItemType, Appended
<1>6. /\ Queue(p, Tail(queue[p])) \/ Queue(p, Append(Tail(queue[p]), NextItem(p, coords)))
      /\ Opens(p, coords.iteration) \/ UNCHANGED opened
      /\ Closes(p, coords.iteration) \/ Closes(p, h.iteration) \/ UNCHANGED closed
      /\ End(p, FALSE)
      /\ UNCHANGED <<phase, cursor, controlVars, hostVars, poolVars, item, boundVars>>
    BY DEF ExecuteParallel, QueueItem, NextItem
<1> HIDE DEF h, coords
<1>7. queue' \in [Index -> Seq(Instructions)]
    BY <1>1, <1>3, <1>5, <1>6, Updated DEF PartitionTypes, Queue
<1>8. opened' \in [Index -> Seq(Int)] /\ closed' \in [Index -> Seq(Int)]
    <2>1. opened[p] \in Seq(Int) /\ closed[p] \in Seq(Int)
        BY <1>1 DEF PartitionTypes
    <2>2. /\ Append(opened[p], coords.iteration) \in Seq(Int)
          /\ Append(closed[p], coords.iteration) \in Seq(Int)
          /\ Append(closed[p], h.iteration) \in Seq(Int)
        BY <1>4, <2>1, Appended
    <2>3. opened' \in [Index -> Seq(Int)]
        BY <1>1, <1>6, <2>2, Updated DEF PartitionTypes, Opens
    <2>4. closed' \in [Index -> Seq(Int)]
        BY <1>1, <1>6, <2>2, Updated DEF PartitionTypes, Closes
    <2> QED
        BY <2>3, <2>4
<1>9. PartitionTypes'
    BY <1>1, <1>6, <1>7, <1>8, EndType DEF PartitionTypes
<1>10. PoolTypes' /\ HostTypes'
    BY <1>1, <1>6 DEF PoolTypes, HostTypes, controlVars, hostVars, poolVars, boundVars
<1> QED
    BY <1>9, <1>10, TypesNext

LEMMA WaitTypes ==
    ASSUME TypeOK, NEW p \in Index, ExecuteDelay(p) \/ ExecuteScript(p)
    PROVE  TypeOK'
<1>1. PartitionTypes /\ PoolTypes /\ HostTypes
    BY Types
<1>2. /\ queue[p] # <<>> /\ Wait(p) /\ Queue(p, Tail(queue[p]))
      /\ UNCHANGED <<phase, cursor, controlVars, hostVars, poolVars, seenVars, boundVars>>
    BY DEF ExecuteDelay, ExecuteScript, Executes
<1>3. Tail(queue[p]) \in Seq(Instructions)
    BY <1>1, <1>2, QueueHead DEF PartitionTypes
<1>4. queue' \in [Index -> Seq(Instructions)]
    BY <1>1, <1>2, <1>3, Updated DEF PartitionTypes, Queue
<1>5. PartitionTypes'
    BY <1>1, <1>2, <1>4, WaitType DEF PartitionTypes, seenVars
<1>6. PoolTypes' /\ HostTypes'
    BY <1>1, <1>2 DEF PoolTypes, HostTypes, controlVars, hostVars, poolVars, boundVars
<1> QED
    BY <1>5, <1>6, TypesNext

LEMMA ExecuteItemTypes ==
    ASSUME TypeOK, NEW p \in Index, ExecuteItem(p)
    PROVE  TypeOK'
<1> DEFINE h == Head(queue[p])
<1>1. PartitionTypes /\ PoolTypes /\ HostTypes
    BY Types
<1>2. queue[p] # <<>> /\ queue[p] \in Seq(Instructions)
    BY <1>1 DEF ExecuteItem, Executes, PartitionTypes
<1>3. h \in Instructions /\ Tail(queue[p]) \in Seq(Instructions)
    BY <1>2, QueueHead
<1>4. Append(Tail(queue[p]), Then(h, "script")) \in Seq(Instructions)
    BY <1>3, ThenType, Appended
<1>5. /\ item' = [item EXCEPT ![p] = [ position |-> h.position, iteration |-> h.iteration,
                                       open |-> TRUE ]]
      /\ Queue(p, Append(Tail(queue[p]), Then(h, "script")))
      /\ End(p, FALSE)
      /\ UNCHANGED <<phase, cursor, controlVars, hostVars, poolVars, opened, closed, boundVars>>
    BY DEF ExecuteItem
<1>6. item' \in [Index -> [position : Int, iteration : Int, open : BOOLEAN]]
    BY <1>1, <1>3, <1>5, InstructionFields DEF PartitionTypes
<1>7. queue' \in [Index -> Seq(Instructions)]
    BY <1>1, <1>4, <1>5, Updated DEF PartitionTypes, Queue
<1> HIDE DEF h
<1>8. PartitionTypes'
    BY <1>1, <1>5, <1>6, <1>7, EndType DEF PartitionTypes
<1>9. PoolTypes' /\ HostTypes'
    BY <1>1, <1>5 DEF PoolTypes, HostTypes, controlVars, hostVars, poolVars, boundVars
<1> QED
    BY <1>8, <1>9, TypesNext

LEMMA AnswerTypes ==
    ASSUME TypeOK, NEW p \in Index, Answer(p)
    PROVE  TypeOK'
<1>1. PartitionTypes /\ PoolTypes /\ HostTypes
    BY Types
<1>2. queue[p] \in Seq(Instructions) /\ current[p] \in Instructions \cup {Nothing}
    BY <1>1 DEF PartitionTypes
<1>3. CASE DelayElapses(p)
    <2>1. current[p] \in Instructions
        BY <1>2, <1>3, CommandOfInstruction DEF DelayElapses
    <2>2. Append(queue[p], Then(current[p], "item")) \in Seq(Instructions)
        BY <1>2, <2>1, ThenType, Appended
    <2>3. queue' \in [Index -> Seq(Instructions)]
        BY <1>1, <1>3, <2>2, Updated DEF DelayElapses, PartitionTypes, Queue
    <2>4. PartitionTypes'
        BY <1>1, <1>3, <2>3, EndType DEF DelayElapses, PartitionTypes, seenVars
    <2>5. PoolTypes' /\ HostTypes'
        BY <1>1, <1>3 DEF DelayElapses, PoolTypes, HostTypes, controlVars, hostVars, poolVars, boundVars
    <2> QED
        BY <2>4, <2>5, TypesNext
<1>4. CASE ScriptEnds(p)
    <2>1. current[p] \in Instructions
        BY <1>2, <1>4, CommandOfInstruction DEF ScriptEnds
    <2>2. PICK err \in Failures, snr \in NextRequests :
            LET next == ProcessExecutionResult(current[p], snr, err, Length, DisableSNR,
                                               StopOnFailure)
            IN  /\ cursor' = [cursor EXCEPT ![p] = Seek(@, next.position, current[p].iteration)]
                /\ Queue(p, Append(queue[p], Parallel(next.position, current[p].iteration,
                                                      ModeAfter(next))))
        BY <1>4 DEF ScriptEnds
    <2> DEFINE next == ProcessExecutionResult(current[p], snr, err, Length, DisableSNR,
                                              StopOnFailure)
    <2>3. next.position \in Int /\ current[p].iteration \in Int /\ ModeAfter(next) \in Modes
        <3>1. snr \in Snrs /\ Length \in Int
            BY OutcomesAssumption, SizeAssumption
        <3>2. next.position \in Int
            BY <2>1, <3>1, ResultType
        <3> QED
            BY <2>1, <3>2, InstructionFields DEF ModeAfter, Modes
    <2>4. /\ cursor' = [cursor EXCEPT ![p] = Seek(@, next.position, current[p].iteration)]
          /\ Queue(p, Append(queue[p], Parallel(next.position, current[p].iteration,
                                                ModeAfter(next))))
          /\ item' = [item EXCEPT ![p].open = FALSE]
          /\ End(p, FALSE)
          /\ UNCHANGED <<phase, controlVars, hostVars, poolVars, opened, closed, boundVars>>
        BY <1>4, <2>2 DEF ScriptEnds
    <2> HIDE DEF next
    <2>5. cursor' \in [Index -> CursorType]
        <3>1. Seek(cursor[p], next.position, current[p].iteration) \in CursorType
            BY <1>1, <2>3, SeekType DEF PartitionTypes
        <3> QED
            BY <1>1, <2>4, <3>1, Updated DEF PartitionTypes
    <2>6. queue' \in [Index -> Seq(Instructions)]
        <3>1. Append(queue[p], Parallel(next.position, current[p].iteration, ModeAfter(next)))
                  \in Seq(Instructions)
            BY <1>2, <2>3, ParallelType, Appended
        <3> QED
            BY <1>1, <2>4, <3>1, Updated DEF PartitionTypes, Queue
    <2>7. item' \in [Index -> [position : Int, iteration : Int, open : BOOLEAN]]
        BY <1>1, <2>4 DEF PartitionTypes
    <2>8. PartitionTypes'
        BY <1>1, <2>4, <2>5, <2>6, <2>7, EndType DEF PartitionTypes
    <2>9. PoolTypes' /\ HostTypes'
        BY <1>1, <2>4 DEF PoolTypes, HostTypes, controlVars, hostVars, poolVars, boundVars
    <2> QED
        BY <2>8, <2>9, TypesNext
<1>5. CASE ScriptAborts(p)
    <2>1. PartitionTypes'
        BY <1>1, <1>5, EndType DEF ScriptAborts, PartitionTypes, seenVars
    <2>2. PoolTypes' /\ HostTypes'
        BY <1>1, <1>5 DEF ScriptAborts, PoolTypes, HostTypes, controlVars, hostVars, poolVars, boundVars
    <2> QED
        BY <2>1, <2>2, TypesNext
<1> QED
    BY <1>3, <1>4, <1>5 DEF Answer

LEMMA ControlTypes == TypeOK /\ ControlLoop => TypeOK'
<1> SUFFICES ASSUME TypeOK, ControlLoop PROVE TypeOK'
    OBVIOUS
<1>1. PartitionTypes /\ PoolTypes /\ HostTypes
    BY Types
<1>2. CASE ExecutePause
    <2>1. controls' \in Seq({"pause", "abort"})
        BY <1>1, <1>2, QueueHead DEF ExecutePause, ExecutesControl, HostTypes
    <2>2. control' \in {"failed", "pausing"}
        BY <1>2 DEF ExecutePause
    <2>3. PartitionTypes' /\ PoolTypes'
        BY <1>1, <1>2 DEF ExecutePause, PartitionTypes, PoolTypes, partitionVars, poolVars, seenVars
    <2>4. HostTypes'
        BY <1>1, <1>2, <2>1, <2>2 DEF ExecutePause, HostTypes, boundVars
    <2> QED
        BY <2>3, <2>4, TypesNext
<1>3. CASE ExecuteAbort
    <2>1. controls' \in Seq({"pause", "abort"})
        BY <1>1, <1>3, QueueHead DEF ExecuteAbort, ExecutesControl, HostTypes
    <2>2. control' \in {"failed", "ended"}
        BY <1>3 DEF ExecuteAbort
    <2>3. PartitionTypes' /\ PoolTypes'
        BY <1>1, <1>3 DEF ExecuteAbort, PartitionTypes, PoolTypes, poolVars, seenVars
    <2>4. HostTypes'
        BY <1>1, <1>3, <2>1, <2>2 DEF ExecuteAbort, HostTypes, boundVars
    <2> QED
        BY <2>3, <2>4, TypesNext
<1>4. CASE ControlEnds
    <2>1. loop' \in [Index -> LoopStates]
        BY <1>1, <1>4 DEF ControlEnds, PartitionTypes, LoopStates
    <2>2. PartitionTypes' /\ PoolTypes'
        BY <1>1, <1>4, <2>1 DEF ControlEnds, PartitionTypes, PoolTypes, poolVars, seenVars
    <2>3. HostTypes'
        BY <1>1, <1>4 DEF ControlEnds, HostTypes, hostVars, boundVars
    <2> QED
        BY <2>2, <2>3, TypesNext
<1>5. CASE ControlFails
    <2>1. loop' \in [Index -> LoopStates]
        BY <1>1, <1>5 DEF ControlFails, PartitionTypes, LoopStates
    <2>2. PoolTypes'
        <3>1. CASE owner = Starter
            BY <1>1, <1>5, <3>1, DoneType DEF ControlFails, PoolTypes
        <3>2. CASE owner # Starter
            BY <1>1, <1>5, <3>2, PoolFinishedType DEF ControlFails
        <3> QED
            BY <3>1, <3>2
    <2>3. PartitionTypes'
        BY <1>1, <1>5, <2>1 DEF ControlFails, PartitionTypes, seenVars
    <2>4. HostTypes'
        BY <1>1, <1>5 DEF ControlFails, HostTypes, hostVars, boundVars
    <2> QED
        BY <2>2, <2>3, <2>4, TypesNext
<1> QED
    BY <1>2, <1>3, <1>4, <1>5 DEF ControlLoop

LEMMA HostCallTypes ==
    ASSUME TypeOK, Host \/ ResumeFires \/ GlobalTimeoutFires
    PROVE  TypeOK'
<1>1. PartitionTypes /\ PoolTypes /\ HostTypes
    BY Types
<1>2. PartitionTypes'
    BY <1>1 DEF Host, Start, Pause, Resume, Abort, ResumeFires, GlobalTimeoutFires,
                PartitionTypes, partitionVars, seenVars
<1>3. PoolTypes'
    BY <1>1 DEF Host, Start, Pause, Resume, Abort, ResumeFires, GlobalTimeoutFires,
                PoolTypes, poolVars
<1>4. Start => HostTypes'
    BY <1>1 DEF Start, HostTypes, controlVars, hostVars, boundVars
<1>5. Pause => HostTypes'
    BY <1>1 DEF Pause, HostTypes
<1>6. Resume => HostTypes'
    <2> SUFFICES ASSUME Resume PROVE HostTypes'
        OBVIOUS
    <2>1. resumes' \in Nat /\ pauses' \in Nat /\ aborts' \in Nat
        BY <1>1 DEF Resume, HostTypes, controlVars, boundVars
    <2>2. paused' \in BOOLEAN /\ aborted' \in BOOLEAN /\ stored' \in BOOLEAN
        BY <1>1 DEF Resume, HostTypes, controlVars, boundVars
    <2>3. controls' \in Seq({"pause", "abort"})
        BY <1>1 DEF Resume, HostTypes, controlVars, boundVars
    <2>4. control' \in {"off", "ready", "pausing", "ended", "failed"} /\ owner' \in Index \cup {Starter}
        BY <1>1 DEF Resume, HostTypes, controlVars, boundVars
    <2> QED
        BY <1>1, <2>1, <2>2, <2>3, <2>4 DEF Resume, HostTypes, controlVars, boundVars
<1>7. Abort => HostTypes'
    <2> SUFFICES ASSUME Abort PROVE HostTypes'
        OBVIOUS
    <2>1. resumes' \in Nat /\ pauses' \in Nat /\ aborts' \in Nat
        BY <1>1 DEF Abort, HostTypes
    <2>2. paused' \in BOOLEAN /\ aborted' \in BOOLEAN /\ stored' \in BOOLEAN
        BY <1>1 DEF Abort, HostTypes
    <2>3. controls' \in Seq({"pause", "abort"})
        BY <1>1 DEF Abort, HostTypes
    <2>4. control' \in {"off", "ready", "pausing", "ended", "failed"} /\ owner' \in Index \cup {Starter}
        BY <1>1 DEF Abort, HostTypes
    <2> QED
        BY <1>1, <2>1, <2>2, <2>3, <2>4 DEF Abort, HostTypes
<1>8. ResumeFires => HostTypes'
    <2> SUFFICES ASSUME ResumeFires PROVE HostTypes'
        OBVIOUS
    <2>1. resumes' \in Nat /\ pauses' \in Nat /\ aborts' \in Nat
        BY <1>1 DEF ResumeFires, HostTypes, boundVars
    <2>2. paused' \in BOOLEAN /\ aborted' \in BOOLEAN /\ stored' \in BOOLEAN
        BY <1>1 DEF ResumeFires, HostTypes, boundVars
    <2>3. controls' \in Seq({"pause", "abort"})
        BY <1>1 DEF ResumeFires, HostTypes, boundVars
    <2>4. control' \in {"off", "ready", "pausing", "ended", "failed"} /\ owner' \in Index \cup {Starter}
        BY <1>1 DEF ResumeFires, HostTypes, boundVars
    <2> QED
        BY <1>1, <2>1, <2>2, <2>3, <2>4 DEF ResumeFires, HostTypes, boundVars
<1>9. GlobalTimeoutFires => HostTypes'
    BY <1>1 DEF GlobalTimeoutFires, HostTypes, controlVars, hostVars, boundVars
<1> QED
    BY <1>2, <1>3, <1>4, <1>5, <1>6, <1>7, <1>8, <1>9, TypesNext DEF Host

LEMMA StutterTypes == TypeOK /\ UNCHANGED vars => TypeOK'
<1> SUFFICES ASSUME TypeOK, UNCHANGED vars PROVE TypeOK'
    OBVIOUS
<1>1. PartitionTypes /\ PoolTypes /\ HostTypes
    BY Types
<1>2. PartitionTypes'
    BY <1>1 DEF vars, PartitionTypes, partitionVars, seenVars
<1>3. PoolTypes' /\ HostTypes'
    BY <1>1 DEF vars, PoolTypes, HostTypes, controlVars, hostVars, poolVars, boundVars
<1> QED
    BY <1>2, <1>3, TypesNext

LEMMA NextTypes == TypeOK /\ [Next]_vars => TypeOK'
BY InitialisedTypes, LoopTypes, ExecuteParallelTypes, WaitTypes, ExecuteItemTypes, AnswerTypes,
   ControlTypes, HostCallTypes, StutterTypes
   DEF Next, PartitionLoop

(* The state is well-formed, for any number of partitions, whatever scripts *)
(* and host do.                                                             *)
THEOREM TypeCorrect == Spec => []TypeOK
BY InitTypes, NextTypes, PTL DEF Spec

(***************************************************************************)
(* A partition opens its own iterations.  The invariant places what is left *)
(* to do: a partition is either about to start, or has one instruction,     *)
(* queued or running, which belongs to the iteration it opened last.        *)
(***************************************************************************)
Starts(instruction) == instruction.cmd = "parallel" /\ instruction.mode = "start"

InOrder(p, iterations) ==
    /\ \A k \in DOMAIN iterations : iterations[k] = First(p) + k - 1
    /\ Len(iterations) <= PartitionCycles(p)

InPlace(p, iterations, instruction) ==
    IF Starts(instruction)
    THEN iterations = <<>> /\ instruction.position = 0 /\ instruction.iteration = First(p)
    ELSE /\ iterations # <<>>
         /\ instruction.iteration = First(p) + Len(iterations) - 1
         /\ instruction.mode = "static" => instruction.position = 0

Placed(p, instructions, state, running, iterations) ==
    /\ InOrder(p, iterations)
    /\ instructions # <<>> => Len(instructions) = 1 /\ InPlace(p, iterations, Head(instructions))
    /\ state = "running" => instructions = <<>> /\ InPlace(p, iterations, running)

AllPlaced == \A p \in Index : Placed(p, queue[p], loop[p], current[p], opened[p])

(* Before the run is live nothing moves.                                    *)
Asleep ==
    phase # "live" =>
        /\ control = "off"
        /\ \A p \in Index : loop[p] = "off" /\ queue[p] = <<>> /\ opened[p] = <<>>

PlaceInv == TypeOK /\ Asleep /\ AllPlaced

(* What a step that neither opens an iteration nor queues an instruction    *)
(* leaves in place.                                                         *)
LEMMA StaysPlaced ==
    ASSUME NEW p \in Index, NEW q, NEW l, NEW c, NEW o, Placed(p, q, l, c, o),
           NEW q2 \in {q, <<>>}, NEW l2, NEW c2, l2 = "running" => l = "running" /\ c2 = c
    PROVE  Placed(p, q2, l2, c2, o)
BY DEF Placed

(* An instruction is queued behind an iteration that is open.               *)
LEMMA QueuedInPlace ==
    ASSUME NEW p \in Index, NEW l, l # "running", NEW c, NEW o, InOrder(p, o),
           NEW f, InPlace(p, o, f)
    PROVE  Placed(p, Append(<<>>, f), l, c, o)
<1>1. Append(<<>>, f) = <<f>>
    OBVIOUS
<1>2. Len(<<f>>) = 1 /\ Head(<<f>>) = f
    OBVIOUS
<1> QED
    BY <1>1, <1>2 DEF Placed

LEMMA OpensInOrder ==
    ASSUME NEW p \in Index, NEW o \in Seq(Int), InOrder(p, o), Len(o) < PartitionCycles(p)
    PROVE  InOrder(p, Append(o, First(p) + Len(o)))
<1> DEFINE o2 == Append(o, First(p) + Len(o))
<1>1. First(p) \in Nat /\ PartitionCycles(p) \in Nat
    BY IndexFacts
<1>2. Len(o) \in Nat /\ Len(o2) = Len(o) + 1 /\ DOMAIN o2 = 1 .. Len(o) + 1 /\ DOMAIN o = 1 .. Len(o)
    BY <1>1
<1>3. ASSUME NEW k \in DOMAIN o2 PROVE o2[k] = First(p) + k - 1
    <2>1. CASE k = Len(o) + 1
        BY <1>1, <1>2, <2>1
    <2>2. CASE k # Len(o) + 1
        <3>1. k \in DOMAIN o /\ o2[k] = o[k]
            BY <1>1, <1>2, <2>2
        <3> QED
            BY <3>1 DEF InOrder
    <2> QED
        BY <2>1, <2>2
<1>4. Len(o2) <= PartitionCycles(p)
    BY <1>1, <1>2
<1> QED
    BY <1>3, <1>4 DEF InOrder

(* A queue with one instruction is empty without it.                        *)
LEMMA TailOfOne ==
    ASSUME NEW S, NEW q \in Seq(S), Len(q) = 1
    PROVE  Tail(q) = <<>>
<1>1. Tail(q) \in Seq(S) /\ Len(Tail(q)) = 0
    BY HeadTailProperties, EmptySeq
<1> QED
    BY <1>1, EmptySeq

(* Where parallel finds a partition's first item and the first of an        *)
(* iteration it starts again; and that whatnext leads no further than the   *)
(* following iteration.                                                     *)
LEMMA TargetOfSeek ==
    ASSUME NEW p \in Index, NEW h \in Instructions, cursor[p] \in CursorType,
           h.mode \in {"start", "static"}, h.position = 0, h.iteration \in 0 .. Cycles - 1,
           ~Target(p, h).empty
    PROVE  Target(p, h).iteration = h.iteration /\ ~Target(p, h).cr
<1>1. cursor[p].length = Length /\ cursor[p].cycles = Cycles /\ Length \in Nat /\ Cycles \in Nat
    BY SizeAssumption DEF CursorType
<1> DEFINE s == Seek(cursor[p], h.position, h.iteration)
<1>2. Target(p, h) = Current(s)
    BY DEF Target
<1>3. s \in CursorType
    BY InstructionFields, SeekType
<1> HIDE DEF s
<1>4. s.length = Length
    BY <1>3 DEF CursorType
<1>5. Length > 0
    <2>1. Current(s).empty = (s.length = 0)
        BY DEF Current, Coords
    <2>2. Length # 0
        BY <1>2, <1>4, <2>1
    <2> QED
        BY <1>1, <2>2
<1>6. ~OutOfBounds(cursor[p], h.position, h.iteration)
    BY <1>1, <1>5 DEF OutOfBounds
<1>7. s.position = 0 /\ s.iteration = h.iteration
    BY <1>6 DEF s, Seek, CursorType
<1> QED
    BY <1>1, <1>2, <1>4, <1>5, <1>7 DEF Current, Coords

LEMMA TargetOfNext ==
    ASSUME NEW p \in Index, NEW h \in Instructions, h.mode = "next", cursor[p] \in CursorType,
           ~Target(p, h).empty
    PROVE  Target(p, h).iteration = (IF Target(p, h).cr THEN h.iteration + 1 ELSE h.iteration)
<1>1. cursor[p].length = Length /\ cursor[p].cycles = Cycles /\ Length \in Nat /\ Cycles \in Nat
    BY SizeAssumption DEF CursorType
<1>2. Target(p, h) = WhatNext(cursor[p], h) /\ h.position \in Int /\ h.iteration \in Int
    BY InstructionFields DEF Target
<1> QED
    BY <1>1, <1>2 DEF WhatNext, InLastIteration, Coords

(* What has to be shown of a step that moves one partition.                 *)
Untouched(q) ==
    /\ queue'[q] = queue[q] /\ loop'[q] = loop[q]
    /\ current'[q] = current[q] /\ opened'[q] = opened[q]

LEMMA OneMoves ==
    ASSUME Asleep, AllPlaced, NEW p \in Index, loop[p] # "off", phase' = phase,
           \A q \in Index \ {p} : Untouched(q),
           Placed(p, queue'[p], loop'[p], current'[p], opened'[p])
    PROVE  Asleep' /\ AllPlaced'
<1>1. phase' = "live"
    BY DEF Asleep
<1>2. ASSUME NEW q \in Index PROVE Placed(q, queue'[q], loop'[q], current'[q], opened'[q])
    <2>1. CASE q = p
        BY <2>1
    <2>2. CASE q # p
        BY <2>2 DEF AllPlaced, Untouched
    <2> QED
        BY <2>1, <2>2
<1> QED
    BY <1>1, <1>2 DEF Asleep, AllPlaced

(* And of a step in which no partition begins anything.                     *)
LEMMA NoneBegins ==
    ASSUME AllPlaced, UNCHANGED <<current, opened>>,
           \A q \in Index : queue'[q] \in {queue[q], <<>>},
           \A q \in Index : loop'[q] = "running" => loop[q] = "running"
    PROVE  AllPlaced'
<1>1. ASSUME NEW q \in Index PROVE Placed(q, queue'[q], loop'[q], current'[q], opened'[q])
    BY StaysPlaced DEF AllPlaced
<1> QED
    BY <1>1 DEF AllPlaced

(* Of the queue of a partition that is about to execute an instruction.     *)
LEMMA HeadInPlace ==
    ASSUME PlaceInv, NEW p \in Index, NEW cmd, Executes(p, cmd)
    PROVE  /\ PartitionTypes
           /\ loop[p] # "off"
           /\ Head(queue[p]) \in Instructions /\ Head(queue[p]).cmd = cmd
           /\ Tail(queue[p]) = <<>>
           /\ InOrder(p, opened[p]) /\ InPlace(p, opened[p], Head(queue[p]))
<1>1. PartitionTypes
    BY Types DEF PlaceInv
<1>2. queue[p] \in Seq(Instructions) /\ queue[p] # <<>> /\ Head(queue[p]).cmd = cmd
    BY <1>1 DEF PartitionTypes, Executes
<1>3. Placed(p, queue[p], loop[p], current[p], opened[p])
    BY DEF PlaceInv, AllPlaced
<1>4. Len(queue[p]) = 1 /\ InPlace(p, opened[p], Head(queue[p])) /\ InOrder(p, opened[p])
    BY <1>2, <1>3 DEF Placed
<1>5. Tail(queue[p]) = <<>>
    BY <1>2, <1>4, TailOfOne
<1>6. loop[p] # "off"
    BY DEF Executes, ProcessesOwn, HasTurn
<1> QED
    BY <1>1, <1>2, <1>4, <1>5, <1>6, QueueHead

LEMMA WaitPlaced ==
    ASSUME PlaceInv, NEW p \in Index, ExecuteDelay(p) \/ ExecuteScript(p)
    PROVE  Asleep' /\ AllPlaced'
<1>1. PICK cmd \in {"delay", "script"} : Executes(p, cmd)
    BY DEF ExecuteDelay, ExecuteScript
<1>2. /\ PartitionTypes /\ loop[p] # "off"
      /\ Tail(queue[p]) = <<>>
      /\ InOrder(p, opened[p]) /\ InPlace(p, opened[p], Head(queue[p]))
    BY <1>1, HeadInPlace
<1>3. Wait(p) /\ Queue(p, Tail(queue[p])) /\ UNCHANGED <<phase, opened>>
    BY DEF ExecuteDelay, ExecuteScript, seenVars
<1>4. /\ \A q \in Index \ {p} : Untouched(q)
      /\ queue'[p] = <<>> /\ current'[p] = Head(queue[p]) /\ opened'[p] = opened[p]
    BY <1>2, <1>3 DEF PartitionTypes, Wait, Queue, Untouched
<1>5. Placed(p, queue'[p], loop'[p], current'[p], opened'[p])
    BY <1>2, <1>4 DEF Placed
<1> QED
    BY <1>2, <1>3, <1>4, <1>5, OneMoves DEF PlaceInv

LEMMA ExecuteItemPlaced ==
    ASSUME PlaceInv, NEW p \in Index, ExecuteItem(p)
    PROVE  Asleep' /\ AllPlaced'
<1> DEFINE h == Head(queue[p])
           f == Then(h, "script")
<1>1. /\ PartitionTypes /\ loop[p] # "off"
      /\ h \in Instructions /\ h.cmd = "item" /\ Tail(queue[p]) = <<>>
      /\ InOrder(p, opened[p]) /\ InPlace(p, opened[p], h)
    BY HeadInPlace DEF ExecuteItem
<1>2. f \in Instructions /\ f.cmd = "script" /\ f.iteration = h.iteration /\ f.mode = h.mode
      /\ f.position = h.position
    BY <1>1 DEF Then, Instructions
<1>3. Queue(p, Append(Tail(queue[p]), f)) /\ End(p, FALSE) /\ UNCHANGED <<phase, opened>>
    BY DEF ExecuteItem
<1> HIDE DEF h, f
<1>4. InPlace(p, opened[p], f)
    BY <1>1, <1>2 DEF InPlace, Starts
<1>5. /\ \A q \in Index \ {p} : Untouched(q)
      /\ queue'[p] = Append(<<>>, f) /\ loop'[p] # "running" /\ opened'[p] = opened[p]
    BY <1>1, <1>3 DEF PartitionTypes, End, Queue, Untouched
<1>6. Placed(p, queue'[p], loop'[p], current'[p], opened'[p])
    BY <1>1, <1>4, <1>5, QueuedInPlace
<1> QED
    BY <1>1, <1>3, <1>5, <1>6, OneMoves DEF PlaceInv

(* parallel opens an iteration only if it is the partition's next one, and  *)
(* queues an item only in the iteration that is then open.                  *)
LEMMA ExecuteParallelPlaced ==
    ASSUME PlaceInv, NEW p \in Index, ExecuteParallel(p)
    PROVE  Asleep' /\ AllPlaced'
<1> DEFINE h == Head(queue[p])
           coords == Target(p, h)
           f == NextItem(p, coords)
           o == opened[p]
<1>1. /\ PartitionTypes /\ loop[p] # "off"
      /\ h \in Instructions /\ h.cmd = "parallel" /\ Tail(queue[p]) = <<>>
      /\ InOrder(p, o) /\ InPlace(p, o, h)
    BY HeadInPlace DEF ExecuteParallel
<1>2. /\ First(p) \in Nat /\ PartitionCycles(p) \in Nat \ {0}
      /\ First(p) + PartitionCycles(p) <= Cycles /\ Cycles \in Nat
    BY IndexFacts, SizeAssumption
<1>3. o \in Seq(Int) /\ Len(o) \in Nat /\ cursor[p] \in CursorType
    BY <1>1 DEF PartitionTypes
<1>4. h.mode \in Modes /\ h.iteration \in Int /\ coords.position \in Int /\ coords.iteration \in Int
    BY <1>1, InstructionFields, TargetType
<1>5. /\ End(p, FALSE) /\ UNCHANGED phase
      /\ \/ Queue(p, <<>>) /\ UNCHANGED opened
         \/ /\ Queue(p, Append(<<>>, f)) /\ ~coords.empty
            /\ \/ h.mode = "start" /\ Opens(p, coords.iteration)
               \/ /\ h.mode \in {"next", "static"} /\ ~EndsPartition(p, coords)
                  /\ \/ coords.cr /\ Opens(p, coords.iteration)
                     \/ ~coords.cr /\ UNCHANGED opened
    BY <1>1, <1>4 DEF ExecuteParallel, QueueItem, NextItem, Modes
<1>6. f.cmd # "parallel" /\ f.iteration = coords.iteration /\ f.mode = "next"
    BY <1>4, NextItemType
<1>7. Len(o) > 0 <=> o # <<>>
    BY <1>3, EmptySeq
<1> HIDE DEF h, coords, f, o
<1>8. loop'[p] # "running" /\ \A q \in Index \ {p} : Untouched(q)
    BY <1>1, <1>5 DEF PartitionTypes, End, Queue, Opens, Untouched
<1>9. CASE Queue(p, <<>>) /\ UNCHANGED opened
    <2>1. queue'[p] = <<>> /\ opened'[p] = o
        BY <1>1, <1>9 DEF PartitionTypes, Queue, o
    <2>2. Placed(p, queue'[p], loop'[p], current'[p], opened'[p])
        BY <1>1, <1>8, <2>1 DEF Placed
    <2> QED
        BY <1>1, <1>5, <1>8, <2>2, OneMoves DEF PlaceInv
<1>10. ASSUME Queue(p, Append(<<>>, f)), Opens(p, coords.iteration),
              coords.iteration = First(p) + Len(o), Len(o) < PartitionCycles(p)
       PROVE  Asleep' /\ AllPlaced'
    <2>1. queue'[p] = Append(<<>>, f) /\ opened'[p] = Append(o, First(p) + Len(o))
        BY <1>1, <1>10 DEF PartitionTypes, Queue, Opens, o
    <2>2. InOrder(p, opened'[p])
        BY <1>1, <1>3, <1>10, <2>1, OpensInOrder
    <2>3. opened'[p] # <<>> /\ Len(opened'[p]) = Len(o) + 1
        <3> DEFINE x == First(p) + Len(o)
        <3>1. x \in Int
            BY <1>2, <1>3
        <3> HIDE DEF x
        <3>2. Append(o, x) \in Seq(Int) /\ Len(Append(o, x)) = Len(o) + 1
            BY <1>3, <3>1
        <3>3. Append(o, x) # <<>>
            BY <1>3, <3>2, EmptySeq
        <3> QED
            BY <2>1, <3>2, <3>3 DEF x
    <2>4. InPlace(p, opened'[p], f)
        BY <1>2, <1>3, <1>6, <1>10, <2>3 DEF InPlace, Starts
    <2>5. Placed(p, queue'[p], loop'[p], current'[p], opened'[p])
        BY <1>8, <2>1, <2>2, <2>4, QueuedInPlace
    <2> QED
        BY <1>1, <1>5, <1>8, <2>5, OneMoves DEF PlaceInv
<1>11. ASSUME Queue(p, Append(<<>>, f)), UNCHANGED opened, o # <<>>,
              coords.iteration = First(p) + Len(o) - 1
       PROVE  Asleep' /\ AllPlaced'
    <2>1. queue'[p] = Append(<<>>, f) /\ opened'[p] = o
        BY <1>1, <1>11 DEF PartitionTypes, Queue, o
    <2>2. InPlace(p, o, f)
        BY <1>6, <1>11 DEF InPlace, Starts
    <2>3. Placed(p, queue'[p], loop'[p], current'[p], opened'[p])
        BY <1>1, <1>8, <2>1, <2>2, QueuedInPlace
    <2> QED
        BY <1>1, <1>5, <1>8, <2>3, OneMoves DEF PlaceInv
<1>12. CASE h.mode = "start" /\ ~coords.empty
    <2>1. o = <<>> /\ h.position = 0 /\ h.iteration = First(p)
        BY <1>1, <1>12 DEF InPlace, Starts
    <2>2. coords.iteration = First(p)
        BY <1>1, <1>2, <1>3, <1>12, <2>1, TargetOfSeek DEF coords
    <2> QED
        BY <1>2, <1>3, <1>5, <1>7, <1>9, <1>10, <1>12, <2>1, <2>2
<1>13. CASE h.mode \in {"next", "static"} /\ ~coords.empty
    <2>1. o # <<>> /\ h.iteration = First(p) + Len(o) - 1 /\ (h.mode = "static" => h.position = 0)
        BY <1>1, <1>13 DEF InPlace, Starts
    <2>2. Len(o) > 0 /\ Len(o) <= PartitionCycles(p)
        BY <1>1, <1>7, <2>1 DEF InOrder
    <2>3. coords.iteration = (IF coords.cr THEN First(p) + Len(o) ELSE First(p) + Len(o) - 1)
        <3>1. CASE h.mode = "static"
            <4>1. h.iteration \in 0 .. Cycles - 1
                BY <1>2, <1>3, <2>1, <2>2
            <4> QED
                BY <1>1, <1>3, <1>13, <2>1, <3>1, <4>1, TargetOfSeek DEF coords
        <3>2. CASE h.mode = "next"
            <4>1. coords.iteration = (IF coords.cr THEN h.iteration + 1 ELSE h.iteration)
                BY <1>1, <1>3, <1>13, <3>2, TargetOfNext DEF coords
            <4> QED
                BY <1>2, <1>3, <2>1, <4>1
        <3> QED
            BY <1>13, <3>1, <3>2
    <2>4. ~EndsPartition(p, coords) => coords.iteration # First(p) + PartitionCycles(p)
        BY DEF EndsPartition
    <2>5. CASE coords.cr
        BY <1>2, <1>3, <1>5, <1>9, <1>10, <1>13, <2>2, <2>3, <2>4, <2>5
    <2>6. CASE ~coords.cr
        BY <1>5, <1>9, <1>11, <1>13, <2>1, <2>3, <2>6
    <2> QED
        BY <2>5, <2>6
<1> QED
    BY <1>5, <1>9, <1>12, <1>13

LEMMA DelayElapsesPlaced ==
    ASSUME PlaceInv, NEW p \in Index, DelayElapses(p)
    PROVE  Asleep' /\ AllPlaced'
<1> DEFINE f == Then(current[p], "item")
<1>1. PartitionTypes
    BY Types DEF PlaceInv
<1>2. current[p] \in Instructions /\ current[p].cmd = "delay" /\ loop[p] = "running"
    BY <1>1, CommandOfInstruction DEF DelayElapses, PartitionTypes
<1>3. queue[p] = <<>> /\ InOrder(p, opened[p]) /\ InPlace(p, opened[p], current[p])
    BY <1>2 DEF PlaceInv, AllPlaced, Placed
<1>4. f \in Instructions /\ f.cmd = "item" /\ f.iteration = current[p].iteration
      /\ f.mode = current[p].mode /\ f.position = current[p].position
    BY <1>2 DEF Then, Instructions
<1>5. Queue(p, Append(queue[p], f)) /\ End(p, FALSE) /\ UNCHANGED <<phase, opened>>
    BY DEF DelayElapses, seenVars
<1> HIDE DEF f
<1>6. InPlace(p, opened[p], f)
    BY <1>2, <1>3, <1>4 DEF InPlace, Starts
<1>7. /\ \A q \in Index \ {p} : Untouched(q)
      /\ queue'[p] = Append(<<>>, f) /\ loop'[p] # "running" /\ opened'[p] = opened[p]
    BY <1>1, <1>3, <1>5 DEF PartitionTypes, End, Queue, Untouched
<1>8. Placed(p, queue'[p], loop'[p], current'[p], opened'[p])
    BY <1>3, <1>6, <1>7, QueuedInPlace
<1> QED
    BY <1>2, <1>5, <1>7, <1>8, OneMoves DEF PlaceInv

(* Wherever the scripts send a partition, it is to a place in the iteration *)
(* it is in; if it is to start that again, to the first item.               *)
LEMMA ScriptEndsPlaced ==
    ASSUME PlaceInv, NEW p \in Index, ScriptEnds(p)
    PROVE  Asleep' /\ AllPlaced'
<1>1. PartitionTypes
    BY Types DEF PlaceInv
<1>2. current[p] \in Instructions /\ current[p].cmd = "script" /\ loop[p] = "running"
    BY <1>1, CommandOfInstruction DEF ScriptEnds, PartitionTypes
<1>3. queue[p] = <<>> /\ InOrder(p, opened[p]) /\ InPlace(p, opened[p], current[p])
    BY <1>2 DEF PlaceInv, AllPlaced, Placed
<1>4. PICK err \in Failures, snr \in NextRequests :
        LET next == ProcessExecutionResult(current[p], snr, err, Length, DisableSNR, StopOnFailure)
        IN  Queue(p, Append(queue[p], Parallel(next.position, current[p].iteration,
                                               ModeAfter(next))))
    BY DEF ScriptEnds
<1> DEFINE next == ProcessExecutionResult(current[p], snr, err, Length, DisableSNR, StopOnFailure)
           f == Parallel(next.position, current[p].iteration, ModeAfter(next))
<1>5. Queue(p, Append(queue[p], f)) /\ End(p, FALSE) /\ UNCHANGED <<phase, opened>>
    BY <1>4 DEF ScriptEnds
<1>6. ModeAfter(next) # "start" /\ (ModeAfter(next) = "static" => next.position = 0)
    BY DEF ModeAfter, ProcessExecutionResult
<1>7. /\ f.cmd = "parallel" /\ f.mode # "start" /\ f.iteration = current[p].iteration
      /\ f.mode = "static" => f.position = 0
    BY <1>6 DEF Parallel
<1> HIDE DEF next, f
<1>8. InPlace(p, opened[p], f)
    BY <1>2, <1>3, <1>7 DEF InPlace, Starts
<1>9. /\ \A q \in Index \ {p} : Untouched(q)
      /\ queue'[p] = Append(<<>>, f) /\ loop'[p] # "running" /\ opened'[p] = opened[p]
    BY <1>1, <1>3, <1>5 DEF PartitionTypes, End, Queue, Untouched
<1>10. Placed(p, queue'[p], loop'[p], current'[p], opened'[p])
    BY <1>3, <1>8, <1>9, QueuedInPlace
<1> QED
    BY <1>2, <1>5, <1>9, <1>10, OneMoves DEF PlaceInv

LEMMA ScriptAbortsPlaced ==
    ASSUME PlaceInv, NEW p \in Index, ScriptAborts(p)
    PROVE  Asleep' /\ AllPlaced'
<1>1. PartitionTypes
    BY Types DEF PlaceInv
<1>2. /\ \A q \in Index \ {p} : Untouched(q)
      /\ queue'[p] = queue[p] /\ loop'[p] # "running" /\ opened'[p] = opened[p]
      /\ loop[p] # "off" /\ phase' = phase
    BY <1>1 DEF ScriptAborts, PartitionTypes, End, Untouched, seenVars
<1>3. Placed(p, queue'[p], loop'[p], current'[p], opened'[p])
    BY <1>2, StaysPlaced DEF PlaceInv, AllPlaced
<1> QED
    BY <1>2, <1>3, OneMoves DEF PlaceInv

LEMMA LoopPlaced ==
    ASSUME PlaceInv, NEW p \in Index, Poll(p) \/ TakeControl(p) \/ Finish(p) \/ Fail(p)
    PROVE  Asleep' /\ AllPlaced'
<1>1. PartitionTypes
    BY Types DEF PlaceInv
<1>2. /\ UNCHANGED <<phase, queue, current, opened>> /\ loop[p] # "off"
      /\ \E l \in {"polling", "lent", "done", "broken"} : loop' = [loop EXCEPT ![p] = l]
    BY DEF Poll, TakeControl, Finish, Fail, HasTurn, ProcessesOwn, seenVars
<1>3. /\ \A q \in Index \ {p} : Untouched(q)
      /\ loop'[p] # "running" /\ queue'[p] = queue[p] /\ opened'[p] = opened[p]
    BY <1>1, <1>2 DEF PartitionTypes, Untouched
<1>4. Placed(p, queue'[p], loop'[p], current'[p], opened'[p])
    BY <1>3, StaysPlaced DEF PlaceInv, AllPlaced
<1> QED
    BY <1>2, <1>3, <1>4, OneMoves DEF PlaceInv

LEMMA ControlPlaced ==
    ASSUME PlaceInv, ControlLoop
    PROVE  Asleep' /\ AllPlaced'
<1>1. PartitionTypes
    BY Types DEF PlaceInv
<1>2. control # "off"
    BY DEF ControlLoop, ExecutePause, ExecuteAbort, ControlEnds, ControlFails, ExecutesControl,
           ControlHasTurn
<1>3. phase = "live" /\ phase' = phase
    BY <1>2 DEF PlaceInv, Asleep, ControlLoop, ExecutePause, ExecuteAbort, ControlEnds, ControlFails
<1>4. UNCHANGED <<current, opened>>
    BY DEF ControlLoop, ExecutePause, ExecuteAbort, ControlEnds, ControlFails, partitionVars, seenVars
<1>5. \A q \in Index : queue'[q] \in {queue[q], <<>>}
    BY DEF ControlLoop, ExecutePause, ExecuteAbort, ControlEnds, ControlFails, partitionVars
<1>6. \A q \in Index : loop'[q] = "running" => loop[q] = "running"
    <2>1. \/ loop' = loop
          \/ loop' = [r \in Index |-> "ready"]
          \/ \E l \in {"ready", "broken"} : loop' = [loop EXCEPT ![owner] = l]
        BY DEF ControlLoop, ExecutePause, ExecuteAbort, ControlEnds, ControlFails, partitionVars
    <2> QED
        BY <1>1, <2>1 DEF PartitionTypes
<1>7. AllPlaced'
    BY <1>4, <1>5, <1>6, NoneBegins DEF PlaceInv
<1> QED
    BY <1>3, <1>7 DEF Asleep

LEMMA HostPlaced ==
    ASSUME PlaceInv, Host \/ ResumeFires \/ GlobalTimeoutFires \/ UNCHANGED vars
    PROVE  Asleep' /\ AllPlaced'
<1>1. UNCHANGED <<queue, loop, current, opened>>
    BY DEF Host, Start, Pause, Resume, Abort, ResumeFires, GlobalTimeoutFires, vars,
           partitionVars, seenVars
<1>2. (phase' # "live" => phase # "live") /\ (control = "off" => control' = "off")
    BY DEF Host, Start, Pause, Resume, Abort, ResumeFires, GlobalTimeoutFires, vars, controlVars
<1> QED
    BY <1>1, <1>2, NoneBegins DEF PlaceInv, Asleep

LEMMA InitialisedPlaced ==
    ASSUME PlaceInv, Initialised
    PROVE  Asleep' /\ AllPlaced'
<1>1. /\ phase # "live" /\ phase' = "live" /\ UNCHANGED <<current, opened>>
      /\ queue' = [p \in Index |-> <<Parallel(0, First(p), "start")>>]
      /\ loop' = [p \in Index |-> "ready"] \/ loop' = loop
    BY DEF Initialised, seenVars
<1>2. ASSUME NEW p \in Index PROVE Placed(p, queue'[p], loop'[p], current'[p], opened'[p])
    <2> DEFINE f == Parallel(0, First(p), "start")
    <2>1. opened'[p] = <<>> /\ loop'[p] # "running"
        BY <1>1 DEF PlaceInv, Asleep
    <2>2. f.cmd = "parallel" /\ f.mode = "start" /\ f.position = 0 /\ f.iteration = First(p)
        BY DEF Parallel
    <2>3. queue'[p] = Append(<<>>, f)
        BY <1>1
    <2> HIDE DEF f
    <2>4. InOrder(p, <<>>) /\ InPlace(p, <<>>, f)
        BY <2>2, IndexFacts DEF InOrder, InPlace, Starts
    <2> QED
        BY <2>1, <2>3, <2>4, QueuedInPlace
<1> QED
    BY <1>1, <1>2 DEF Asleep, AllPlaced

LEMMA InitPlaced == Init => PlaceInv
<1> SUFFICES ASSUME Init PROVE PlaceInv
    OBVIOUS
<1>1. ASSUME NEW p \in Index PROVE Placed(p, queue[p], loop[p], current[p], opened[p])
    <2>1. InOrder(p, <<>>)
        BY IndexFacts DEF InOrder
    <2> QED
        BY <2>1 DEF Init, Placed
<1>2. Asleep
    BY DEF Init, Asleep
<1> QED
    BY <1>1, <1>2, InitTypes DEF PlaceInv, AllPlaced

LEMMA NextPlaced == PlaceInv /\ [Next]_vars => PlaceInv'
<1> SUFFICES ASSUME PlaceInv, [Next]_vars PROVE PlaceInv'
    OBVIOUS
<1>1. TypeOK'
    BY NextTypes DEF PlaceInv
<1>2. ASSUME NEW p \in Index, PartitionLoop(p) \/ Answer(p) PROVE Asleep' /\ AllPlaced'
    BY <1>2, LoopPlaced, ExecuteParallelPlaced, WaitPlaced, ExecuteItemPlaced, DelayElapsesPlaced,
       ScriptEndsPlaced, ScriptAbortsPlaced
       DEF PartitionLoop, Answer
<1>3. Asleep' /\ AllPlaced'
    BY <1>2, InitialisedPlaced, ControlPlaced, HostPlaced DEF Next
<1> QED
    BY <1>1, <1>3 DEF PlaceInv

(* A partition opens its own iterations, each once and in order, and no     *)
(* other's, for any number of iterations and partitions and wherever the    *)
(* scripts send it.                                                         *)
THEOREM OpensOwnIterations == Spec => []OwnIterations
<1>1. PlaceInv => OwnIterations
    BY DEF PlaceInv, AllPlaced, Placed, InOrder, OwnIterations
<1> QED
    BY <1>1, InitPlaced, NextPlaced, PTL DEF Spec

(* So no iteration is opened by two partitions.                             *)
NoIterationShared ==
    \A p, q \in Index : p # q =>
        \A j \in DOMAIN opened[p], k \in DOMAIN opened[q] : opened[p][j] # opened[q][k]

(* The partitions of parallel.command.js divide the run's iterations among  *)
(* them at run time as createPartitions intends.                            *)
THEOREM SharesNoIteration == Spec => []NoIterationShared
<1>1. PlaceInv => NoIterationShared
    <2> SUFFICES ASSUME PlaceInv, NEW p \in Index, NEW q \in Index, p < q,
                        NEW j \in DOMAIN opened[p], NEW k \in DOMAIN opened[q]
                 PROVE  opened[p][j] # opened[q][k]
        BY IndexFacts DEF NoIterationShared
    <2>1. opened[p] \in Seq(Int) /\ opened[q] \in Seq(Int)
        BY Types DEF PlaceInv, PartitionTypes
    <2>2. j \in 1 .. Len(opened[p]) /\ k \in 1 .. Len(opened[q])
        BY <2>1, LenProperties
    <2>3. /\ opened[p][j] = First(p) + j - 1 /\ Len(opened[p]) <= PartitionCycles(p)
          /\ opened[q][k] = First(q) + k - 1
        BY DEF PlaceInv, AllPlaced, Placed, InOrder
    <2>4. First(p) + PartitionCycles(p) <= First(q)
        BY IndexFacts, SizeAssumption, PartitionsAreDisjoint DEF First, PartitionCycles
    <2>5. Len(opened[p]) \in Nat /\ Len(opened[q]) \in Nat
        BY <2>1, LenProperties
    <2>6. First(p) \in Int /\ First(q) \in Int /\ PartitionCycles(p) \in Int
        BY IndexFacts
    <2>7. j \in Int /\ k \in Int /\ j <= PartitionCycles(p) /\ 1 <= k
        BY <2>2, <2>3, <2>5, <2>6
    <2>8. First(p) + j - 1 < First(q) + k - 1
        BY <2>4, <2>6, <2>7
    <2> QED
        BY <2>3, <2>6, <2>7, <2>8
<1> QED
    BY <1>1, InitPlaced, NextPlaced, PTL DEF Spec

(***************************************************************************)
(* done is called once.  The run is over when its pools have completed, or  *)
(* when a control instruction failed before the partitions started, which   *)
(* then never start; the callback has been called exactly if the run is     *)
(* over or its time is.                                                     *)
(***************************************************************************)
Unstarted == \A p \in Index : loop[p] = "off"

Over == completed \/ (phase = "live" /\ control = "off" /\ Unstarted)

DoneInv ==
    /\ TypeOK /\ Asleep
    /\ phase = "idle" => globalTimer = "off"
    /\ Unstarted => ~completed
    /\ control # "off" /\ owner = Starter => Unstarted
    /\ Over => globalTimer # "armed"
    /\ dones = IF globalTimer = "fired" \/ Over THEN 1 ELSE 0

(* What the invariant says of the callback, in a run that is over or not.   *)
CalledIf(over) ==
    /\ over => globalTimer # "armed"
    /\ dones = IF globalTimer = "fired" \/ over THEN 1 ELSE 0

LEMMA DoneCalls ==
    ASSUME CalledIf(FALSE), Done
    PROVE  /\ globalTimer' # "armed"
           /\ dones' = 1
BY DEF CalledIf, Done

LEMMA PoolFinishedCalls ==
    ASSUME completed \in BOOLEAN, NEW err \in BOOLEAN, PoolFinished(err), CalledIf(completed)
    PROVE  /\ completed' \in BOOLEAN
           /\ completed' => globalTimer' # "armed"
           /\ dones' = IF globalTimer' = "fired" \/ completed' THEN 1 ELSE 0
<1> DEFINE ends == ~completed /\ (aborted \/ err \/ remainingPools = 1)
<1>1. completed' = (completed \/ ends) /\ (IF ends THEN Done ELSE UNCHANGED <<globalTimer, dones>>)
    BY DEF PoolFinished
<1>2. CASE ends
    <2>1. completed' = TRUE /\ completed = FALSE /\ Done
        BY <1>1, <1>2
    <2>2. CalledIf(FALSE)
        BY <2>1
    <2> QED
        BY <2>1, <2>2, DoneCalls
<1>3. CASE ~ends
    BY <1>1, <1>3 DEF CalledIf
<1> QED
    BY <1>2, <1>3

LEMMA IndexIsInhabited == 0 \in Index
BY SizeAssumption DEF Index, Concurrency, Lesser

(* Once a loop has started the run is over when its pools have completed.   *)
LEMMA StartedStep ==
    ASSUME ~Unstarted', phase' # "idle", control' # "off" => owner' # Starter,
           completed' => globalTimer' # "armed",
           dones' = IF globalTimer' = "fired" \/ completed' THEN 1 ELSE 0,
           TypeOK', Asleep'
    PROVE  DoneInv'
BY DEF DoneInv, Over

LEMMA PartitionDone ==
    ASSUME DoneInv, NEW p \in Index, PartitionLoop(p) \/ Answer(p), TypeOK'
    PROVE  DoneInv'
<1>1. PartitionTypes /\ PoolTypes
    BY Types DEF DoneInv
<1>2. loop[p] # "off"
    BY DEF PartitionLoop, Answer, Poll, TakeControl, Finish, Fail, ExecuteParallel, ExecuteDelay,
           ExecuteItem, ExecuteScript, DelayElapses, ScriptEnds, ScriptAborts, Executes,
           ProcessesOwn, HasTurn
<1>3. phase = "live" /\ phase' = phase
    BY <1>2 DEF DoneInv, Asleep, PartitionLoop, Answer, Poll, TakeControl, Finish, Fail,
           ExecuteParallel, ExecuteDelay, ExecuteItem, ExecuteScript, DelayElapses, ScriptEnds,
           ScriptAborts
<1>4. \E l \in LoopStates \ {"off"} : loop' = [loop EXCEPT ![p] = l]
    BY DEF PartitionLoop, Answer, Poll, TakeControl, Finish, Fail, ExecuteParallel, ExecuteDelay,
           ExecuteItem, ExecuteScript, DelayElapses, ScriptEnds, ScriptAborts, Wait, End, LoopStates
<1>5. ~Unstarted /\ ~Unstarted'
    BY <1>1, <1>2, <1>4 DEF PartitionTypes, Unstarted
<1>6. control # "off" => owner # Starter
    BY <1>5 DEF DoneInv
<1>7. (control' = control /\ owner' = owner) \/ owner' = p
    BY DEF PartitionLoop, Answer, Poll, TakeControl, Finish, Fail, ExecuteParallel, ExecuteDelay,
           ExecuteItem, ExecuteScript, DelayElapses, ScriptEnds, ScriptAborts, controlVars
<1>8. control' # "off" => owner' # Starter
    BY <1>6, <1>7, StarterIsNoIndex
<1>9. completed \in BOOLEAN /\ CalledIf(completed)
    BY <1>1, <1>5 DEF DoneInv, Over, CalledIf, PoolTypes
<1>10. PoolFinished(FALSE) \/ PoolFinished(TRUE) \/ UNCHANGED <<completed, globalTimer, dones>>
    BY DEF PartitionLoop, Answer, Poll, TakeControl, Finish, Fail, ExecuteParallel, ExecuteDelay,
           ExecuteItem, ExecuteScript, DelayElapses, ScriptEnds, ScriptAborts, poolVars
<1>11. /\ completed' => globalTimer' # "armed"
       /\ dones' = IF globalTimer' = "fired" \/ completed' THEN 1 ELSE 0
    <2>1. CASE UNCHANGED <<completed, globalTimer, dones>>
        BY <1>9, <2>1 DEF CalledIf
    <2>2. ASSUME NEW err \in BOOLEAN, PoolFinished(err)
          PROVE  /\ completed' => globalTimer' # "armed"
                 /\ dones' = IF globalTimer' = "fired" \/ completed' THEN 1 ELSE 0
        BY <1>9, <2>2, PoolFinishedCalls
    <2> QED
        BY <1>10, <2>1, <2>2
<1>12. phase' # "idle" /\ Asleep'
    BY <1>3 DEF Asleep
<1> QED
    BY <1>5, <1>8, <1>11, <1>12, StartedStep

LEMMA ControlDone ==
    ASSUME DoneInv, ControlLoop, TypeOK'
    PROVE  DoneInv'
<1>1. PartitionTypes /\ PoolTypes /\ owner \in Index \cup {Starter}
    BY Types DEF DoneInv, HostTypes
<1>2. control # "off"
    BY DEF ControlLoop, ExecutePause, ExecuteAbort, ControlEnds, ControlFails, ExecutesControl,
           ControlHasTurn
<1>3. phase = "live" /\ phase' = "live"
    BY <1>2 DEF DoneInv, Asleep, ControlLoop, ExecutePause, ExecuteAbort, ControlEnds, ControlFails
<1>4. completed \in BOOLEAN /\ CalledIf(completed)
    BY <1>1, <1>2 DEF DoneInv, Over, CalledIf, PoolTypes
<1>5. phase' # "idle" /\ Asleep'
    BY <1>3 DEF Asleep
<1>6. CASE ExecutePause \/ ExecuteAbort
    <2>1. UNCHANGED <<loop, owner, completed, globalTimer, dones>> /\ control' # "off"
        BY <1>6 DEF ExecutePause, ExecuteAbort, partitionVars, poolVars
    <2>2. Unstarted' = Unstarted
        BY <2>1 DEF Unstarted
    <2> QED
        BY <1>2, <1>4, <1>5, <2>1, <2>2 DEF DoneInv, Over, CalledIf
<1>7. CASE ControlEnds
    <2>1. control' = "off" /\ UNCHANGED <<completed, globalTimer, dones>>
        BY <1>7 DEF ControlEnds, poolVars
    <2>2. ~Unstarted'
        BY <1>1, <1>7, IndexIsInhabited, StarterIsNoIndex DEF ControlEnds, PartitionTypes, Unstarted
    <2> QED
        BY <1>4, <1>5, <2>1, <2>2, StartedStep DEF CalledIf
<1>8. CASE ControlFails /\ owner = Starter
    <2>1. control' = "off" /\ Done /\ UNCHANGED <<loop, completed>>
        BY <1>8 DEF ControlFails
    <2>2. Unstarted /\ ~completed
        BY <1>2, <1>8 DEF DoneInv
    <2>3. CalledIf(FALSE)
        BY <1>4, <2>2 DEF CalledIf
    <2>4. globalTimer' # "armed" /\ dones' = 1
        BY <2>1, <2>3, DoneCalls
    <2>5. Unstarted' /\ ~completed'
        BY <2>1, <2>2 DEF Unstarted
    <2> QED
        BY <1>3, <1>5, <2>1, <2>4, <2>5 DEF DoneInv, Over
<1>9. CASE ControlFails /\ owner # Starter
    <2>1. control' = "off" /\ loop' = [loop EXCEPT ![owner] = "broken"] /\ PoolFinished(TRUE)
        BY <1>9 DEF ControlFails
    <2>2. ~Unstarted'
        BY <1>1, <1>9, <2>1 DEF PartitionTypes, Unstarted
    <2> QED
        BY <1>4, <1>5, <2>1, <2>2, PoolFinishedCalls, StartedStep
<1> QED
    BY <1>6, <1>7, <1>8, <1>9 DEF ControlLoop

LEMMA BeforeLive ==
    ASSUME DoneInv, phase # "live"
    PROVE  /\ control = "off" /\ Unstarted /\ ~completed /\ ~Over
           /\ dones = IF globalTimer = "fired" THEN 1 ELSE 0
BY DEF DoneInv, Asleep, Unstarted, Over

LEMMA InitialisedDone ==
    ASSUME DoneInv, Initialised, TypeOK'
    PROVE  DoneInv'
<1>1. phase # "live" /\ phase' = "live" /\ UNCHANGED <<owner, completed, globalTimer, dones>>
    BY DEF Initialised
<1>2. ~completed /\ dones = IF globalTimer = "fired" THEN 1 ELSE 0
    BY <1>1, BeforeLive
<1>3. Asleep'
    BY <1>1 DEF Asleep
<1>4. CASE control' = "ready" /\ UNCHANGED loop
    <2>1. Unstarted'
        BY <1>1, <1>4, BeforeLive DEF Unstarted
    <2> QED
        BY <1>1, <1>2, <1>3, <1>4, <2>1 DEF DoneInv, Over
<1>5. CASE loop' = [p \in Index |-> "ready"] /\ UNCHANGED control
    <2>1. ~Unstarted' /\ control' = "off"
        BY <1>1, <1>5, BeforeLive, IndexIsInhabited DEF Unstarted
    <2> QED
        BY <1>1, <1>2, <1>3, <2>1, StartedStep
<1> QED
    BY <1>4, <1>5 DEF Initialised

LEMMA StartDone ==
    ASSUME DoneInv, Start, TypeOK'
    PROVE  DoneInv'
<1>1. /\ phase = "idle" /\ phase' = "initialising" /\ globalTimer' \in {"armed", "off"}
      /\ UNCHANGED <<queue, loop, control, completed, dones, opened>>
    BY DEF Start, partitionVars, controlVars, seenVars
<1>2. control = "off" /\ Unstarted /\ ~completed /\ dones = 0
    BY <1>1, BeforeLive DEF DoneInv
<1>3. Asleep' /\ Unstarted'
    BY <1>1, <1>2 DEF DoneInv, Asleep, Unstarted
<1> QED
    BY <1>1, <1>2, <1>3 DEF DoneInv, Over

LEMMA GlobalTimeoutDone ==
    ASSUME DoneInv, GlobalTimeoutFires, TypeOK'
    PROVE  DoneInv'
<1>1. /\ globalTimer = "armed" /\ globalTimer' = "fired" /\ dones' = dones + 1
      /\ UNCHANGED <<phase, queue, loop, control, owner, completed, opened>>
    BY DEF GlobalTimeoutFires, partitionVars, controlVars, seenVars
<1>2. ~Over /\ dones = 0
    BY <1>1 DEF DoneInv
<1>3. Asleep' /\ Unstarted' = Unstarted
    BY <1>1 DEF DoneInv, Asleep, Unstarted
<1> QED
    BY <1>1, <1>2, <1>3 DEF DoneInv, Over

LEMMA QuietDone ==
    ASSUME DoneInv, Pause \/ Resume \/ Abort \/ ResumeFires \/ UNCHANGED vars, TypeOK'
    PROVE  DoneInv'
<1>1. /\ UNCHANGED <<phase, queue, loop, owner, completed, globalTimer, dones, opened>>
      /\ control' = "off" <=> control = "off"
    BY DEF Pause, Resume, Abort, ResumeFires, vars, partitionVars, controlVars, poolVars, seenVars
<1>2. Asleep' /\ Unstarted' = Unstarted
    BY <1>1 DEF DoneInv, Asleep, Unstarted
<1> QED
    BY <1>1, <1>2 DEF DoneInv, Over

LEMMA InitDone == Init => DoneInv
<1> SUFFICES ASSUME Init PROVE DoneInv
    OBVIOUS
<1>1. Asleep /\ Unstarted /\ ~Over
    BY DEF Init, Asleep, Unstarted, Over
<1> QED
    BY <1>1, InitTypes DEF Init, DoneInv

LEMMA NextDone == DoneInv /\ [Next]_vars => DoneInv'
<1> SUFFICES ASSUME DoneInv, [Next]_vars PROVE DoneInv'
    OBVIOUS
<1>1. TypeOK'
    BY NextTypes DEF DoneInv
<1> QED
    BY <1>1, PartitionDone, ControlDone, InitialisedDone, StartDone, GlobalTimeoutDone, QuietDone
       DEF Next, Host

(* The run calls back at most once, however its partitions end and whether  *)
(* or not its time is up: pools that finish after the first error, the      *)
(* abort or the timeout find the callback sealed.                           *)
THEOREM CallsBackOnce == Spec => []DoneOnce
<1>1. DoneInv => DoneOnce
    BY DEF DoneInv, DoneOnce
<1> QED
    BY <1>1, InitDone, NextDone, PTL DEF Spec

(***************************************************************************)
(* The priority queue                                                      *)
(***************************************************************************)
(* Between two runs of the priority queue nobody is its owner.              *)
ControlInv ==
    /\ DoneInv
    /\ OneController
    /\ control = "off" => owner = Starter

(* How a partition's own steps move its loop.                               *)
Going == {"ready", "running", "ended", "failed", "polling"}

LEMMA LoopMoves ==
    ASSUME NEW p \in Index, PartitionLoop(p) \/ Answer(p)
    PROVE  /\ loop[p] \in Going /\ UNCHANGED <<phase, aborted>>
           /\ \/ TakeControl(p) /\ loop' = [loop EXCEPT ![p] = "lent"]
              \/ /\ \E l \in {"running", "ended", "failed", "polling", "done", "broken"} :
                       loop' = [loop EXCEPT ![p] = l]
                 /\ UNCHANGED <<control, owner>>
<1>1. CASE PartitionLoop(p)
    BY <1>1 DEF PartitionLoop, Poll, TakeControl, Finish, Fail, ExecuteParallel, ExecuteDelay,
                ExecuteItem, ExecuteScript, Executes, ProcessesOwn, HasTurn, Wait, End, Going,
                controlVars, hostVars
<1>2. CASE Answer(p)
    BY <1>2 DEF Answer, DelayElapses, ScriptEnds, ScriptAborts, End, Going, controlVars, hostVars
<1> QED
    BY <1>1, <1>2

LEMMA NextControl == ControlInv /\ [Next]_vars => ControlInv'
<1> SUFFICES ASSUME ControlInv, [Next]_vars PROVE ControlInv'
    OBVIOUS
<1>1. DoneInv' /\ PartitionTypes /\ owner \in Index \cup {Starter}
    BY NextDone, Types DEF ControlInv, DoneInv, HostTypes
<1>2. ASSUME NEW p \in Index, PartitionLoop(p) \/ Answer(p)
      PROVE  ControlInv'
    <2>1. CASE TakeControl(p) /\ loop' = [loop EXCEPT ![p] = "lent"]
        <3>1. control = "off" /\ control' = "ready" /\ owner' = p
            BY <2>1 DEF TakeControl, priorityLock
        <3> QED
            BY <1>1, <2>1, <3>1 DEF ControlInv, OneController, priorityLock, PartitionTypes
    <2>2. ASSUME NEW l \in {"running", "ended", "failed", "polling", "done", "broken"},
                 loop' = [loop EXCEPT ![p] = l], UNCHANGED <<control, owner>>, loop[p] \in Going
          PROVE  ControlInv'
        BY <1>1, <2>2 DEF ControlInv, OneController, priorityLock, PartitionTypes, Going
    <2> QED
        BY <1>2, <2>1, <2>2, LoopMoves
<1>3. CASE Initialised
    <2>1. control = "off" /\ owner = Starter /\ (\A p \in Index : loop[p] = "off")
        BY <1>3 DEF Initialised, ControlInv, DoneInv, Asleep
    <2>2. owner' = owner /\ (loop' = loop \/ (loop' = [p \in Index |-> "ready"] /\ control' = control))
        BY <1>3 DEF Initialised
    <2> QED
        BY <1>1, <2>1, <2>2, StarterIsNoIndex DEF ControlInv, OneController, priorityLock
<1>4. CASE ExecutePause \/ ExecuteAbort
    <2>1. control # "off" /\ control' # "off" /\ UNCHANGED <<loop, owner>>
        BY <1>4 DEF ExecutePause, ExecuteAbort, ExecutesControl, ControlHasTurn, partitionVars
    <2> QED
        BY <1>1, <2>1 DEF ControlInv, OneController, priorityLock
<1>5. CASE ControlEnds \/ ControlFails
    <2>1. control # "off" /\ control' = "off" /\ owner' = Starter
        BY <1>5 DEF ControlEnds, ControlFails, ControlHasTurn
    <2>2. \A p \in Index : loop[p] = "lent" <=> owner = p
        BY <2>1 DEF ControlInv, OneController, priorityLock
    <2>3. \/ loop' = [p \in Index |-> "ready"]
          \/ loop' = loop /\ owner = Starter
          \/ \E l \in {"ready", "broken"} : loop' = [loop EXCEPT ![owner] = l]
        BY <1>5 DEF ControlEnds, ControlFails
    <2>4. \A p \in Index : loop'[p] # "lent"
        BY <1>1, <2>2, <2>3, StarterIsNoIndex DEF PartitionTypes
    <2> QED
        BY <1>1, <2>1, <2>4 DEF ControlInv, OneController, priorityLock
<1>6. CASE ResumeFires \/ GlobalTimeoutFires \/ Host \/ UNCHANGED vars
    <2>1. UNCHANGED <<loop, owner>> /\ (control' = "off" <=> control = "off")
        BY <1>6 DEF ResumeFires, GlobalTimeoutFires, Host, Start, Pause, Resume, Abort, vars,
                    partitionVars, controlVars
    <2> QED
        BY <1>1, <2>1 DEF ControlInv, OneController, priorityLock
<1> QED
    BY <1>2, <1>3, <1>4, <1>5, <1>6 DEF Next, ControlLoop

LEMMA InitControl == Init => ControlInv
BY InitDone, StarterIsNoIndex DEF Init, ControlInv, OneController, priorityLock

LEMMA AlwaysControlInv == Spec => []ControlInv
BY InitControl, NextControl, PTL DEF Spec

(* The priority queue is run on behalf of one loop, which waits for it,     *)
(* whichever of the partitions' loops come to look at it and however the    *)
(* control instructions end.                                                *)
THEOREM ControlIsOne == Spec => []OneController
<1>1. ControlInv => OneController
    BY DEF ControlInv
<1> QED
    BY <1>1, AlwaysControlInv, PTL

(* A run that is held by a pause starts nothing: the loops that look at     *)
(* their queues find the priority queue in use, all the time until the      *)
(* pause ends, and what was running opens no iteration and no item.         *)
THEOREM PauseHolds == Spec => PausedIsPaused
<1>1. ASSUME ControlInv, [Next]_vars, control = "pausing", control' = "pausing"
      PROVE  /\ \A p \in Index : Busy(p)' => Busy(p)
             /\ opened' = opened
             /\ \A p \in Index : item'[p].open => item[p].open
    <2>1. priorityLock /\ PartitionTypes /\ phase = "live" /\ item \in [Index -> [position : Int, iteration : Int, open : BOOLEAN]]
        BY <1>1, Types DEF priorityLock, ControlInv, DoneInv, Asleep, PartitionTypes
    <2>2. ASSUME NEW q \in Index, PartitionLoop(q)
          PROVE  opened' = opened /\ item' = item /\ \A p \in Index : Busy(p)' => Busy(p)
        <3>1. Poll(q) \/ Fail(q)
            BY <1>1, <2>1, <2>2 DEF PartitionLoop, TakeControl, Finish, ExecuteParallel, ExecuteDelay,
               ExecuteItem, ExecuteScript, Executes, ProcessesOwn
        <3>2. \E l \in {"polling", "broken"} : loop' = [loop EXCEPT ![q] = l]
            BY <3>1 DEF Poll, Fail
        <3> QED
            BY <2>1, <3>1, <3>2 DEF Poll, Fail, seenVars, Busy, PartitionTypes
    <2>3. ASSUME NEW q \in Index, Answer(q)
          PROVE  /\ opened' = opened /\ (item' = item \/ item' = [item EXCEPT ![q].open = FALSE])
                 /\ \A p \in Index : Busy(p)' => Busy(p)
        <3>1. \E l \in {"ended", "failed"} : loop' = [loop EXCEPT ![q] = l]
            BY <2>3 DEF Answer, DelayElapses, ScriptEnds, ScriptAborts, End
        <3> QED
            BY <2>1, <2>3, <3>1 DEF Answer, DelayElapses, ScriptEnds, ScriptAborts, seenVars, Busy,
                                     PartitionTypes
    <2>4. CASE \/ Initialised \/ ControlLoop \/ ResumeFires \/ GlobalTimeoutFires \/ Host
               \/ UNCHANGED vars
        <3>1. ~Initialised /\ ~ControlLoop
            BY <1>1, <2>1 DEF Initialised, ControlLoop, ExecutePause, ExecuteAbort, ControlEnds,
                              ControlFails, ExecutesControl, ControlHasTurn
        <3> QED
            BY <2>4, <3>1 DEF ResumeFires, GlobalTimeoutFires, Host, Start, Pause, Resume, Abort,
                              vars, partitionVars, seenVars, Busy
    <2> QED
        BY <1>1, <2>1, <2>2, <2>3, <2>4 DEF Next
<1> DEFINE Step == control = "pausing" /\ control' = "pausing" =>
                      /\ \A p \in Index : Busy(p)' => Busy(p)
                      /\ opened' = opened
                      /\ \A p \in Index : item'[p].open => item[p].open
<1>2. ControlInv /\ [Next]_vars => [Step]_vars
    BY <1>1
<1>3. Spec => [][Step]_vars
    <2> HIDE DEF Step
    <2> QED
        BY <1>2, AlwaysControlInv, PTL DEF Spec
<1> QED
    BY <1>3 DEF PausedIsPaused

(***************************************************************************)
(* What is open.  To the place of a partition (AllPlaced) this adds which   *)
(* of its iterations and items the observer has seen end: while something   *)
(* is left to do, all but the last iteration are closed, and its item is    *)
(* open if its scripts are next or running; a partition that has nothing    *)
(* left to do, unless the run was aborted, has closed everything.           *)
(***************************************************************************)
HeldAt(instruction, openedSoFar, closedSoFar, open) ==
    IF Starts(instruction)
    THEN closedSoFar = <<>> /\ open = FALSE
    ELSE /\ Length > 0
         /\ Len(openedSoFar) = Len(closedSoFar) + 1
         /\ open = (instruction.cmd = "script")
         /\ instruction.mode = "stop" => StopOnFailure

Held(p) ==
    /\ queue[p] # <<>> => HeldAt(Head(queue[p]), opened[p], closed[p], item[p].open)
    /\ loop[p] = "running" => HeldAt(current[p], opened[p], closed[p], item[p].open)

CompleteAt(p) ==
    /\ item[p].open = FALSE
    /\ Len(closed[p]) = Len(opened[p])
    /\ Length > 0 /\ ~StopOnFailure => Len(opened[p]) = PartitionCycles(p)

Ended(p) ==
    phase = "live" /\ ~aborted /\ queue[p] = <<>> /\ loop[p] \notin {"running", "failed", "broken"}
        => CompleteAt(p)

(* A partition that has called back has nothing left to do, and one that    *)
(* has not started has shown nothing.                                       *)
Rested(p) ==
    /\ loop[p] = "done" => queue[p] = <<>>
    /\ phase # "live" => closed[p] = <<>> /\ item[p].open = FALSE

Kept(p) == Held(p) /\ Ended(p) /\ Rested(p)

PathInv ==
    /\ ControlInv
    /\ PlaceInv
    /\ \A p \in Index : Kept(p)

(* What an observer sees of a step of partition p: an iteration opens, with *)
(* the one before it closed; one closes; an item begins; one is over.       *)
SeenAsIs(p) == opened'[p] = opened[p] /\ closed'[p] = closed[p] /\ item'[p].open = item[p].open

Shown(p) ==
    \/ SeenAsIs(p)
    \/ /\ item[p].open = FALSE /\ item'[p].open = FALSE
       /\ \/ /\ Len(opened'[p]) = Len(opened[p]) + 1
             /\ Len(opened'[p]) > Len(closed'[p])
          \/ /\ Len(opened[p]) > Len(closed[p])
             /\ opened'[p] = opened[p] /\ Len(closed'[p]) = Len(opened[p])
    \/ /\ item[p].open = FALSE /\ item'[p].open = TRUE
       /\ Len(opened[p]) > Len(closed[p])
       /\ opened'[p] = opened[p] /\ closed'[p] = closed[p]
    \/ /\ item[p].open = TRUE /\ item'[p].open = FALSE
       /\ opened'[p] = opened[p] /\ closed'[p] = closed[p]

LEMMA SeenTypes ==
    ASSUME PathInv, NEW p \in Index
    PROVE  /\ PartitionTypes /\ TypeOK
           /\ opened[p] \in Seq(Int) /\ closed[p] \in Seq(Int) /\ queue[p] \in Seq(Instructions)
           /\ Len(opened[p]) \in Nat /\ Len(closed[p]) \in Nat
           /\ item[p].open \in BOOLEAN
           /\ Kept(p) /\ Placed(p, queue[p], loop[p], current[p], opened[p])
<1>1. TypeOK /\ PartitionTypes
    BY Types DEF PathInv, PlaceInv
<1> QED
    BY <1>1 DEF PathInv, PlaceInv, AllPlaced, PartitionTypes

LEMMA ExecutesHeld ==
    ASSUME PathInv, NEW p \in Index, NEW cmd, Executes(p, cmd)
    PROVE  /\ loop[p] \in Going /\ phase = "live"
           /\ Head(queue[p]) \in Instructions /\ Head(queue[p]).cmd = cmd
           /\ Tail(queue[p]) = <<>>
           /\ InOrder(p, opened[p]) /\ InPlace(p, opened[p], Head(queue[p]))
           /\ HeldAt(Head(queue[p]), opened[p], closed[p], item[p].open)
<1>1. loop[p] \in Going /\ queue[p] # <<>>
    BY DEF Executes, ProcessesOwn, HasTurn, Going
<1>2. phase = "live"
    BY <1>1 DEF PathInv, PlaceInv, Asleep, Going
<1>3. HeldAt(Head(queue[p]), opened[p], closed[p], item[p].open)
    BY <1>1, SeenTypes DEF Kept, Held
<1> QED
    BY <1>1, <1>2, <1>3, HeadInPlace DEF PathInv

LEMMA AnswerHeld ==
    ASSUME PathInv, NEW p \in Index, loop[p] = "running"
    PROVE  /\ phase = "live" /\ queue[p] = <<>>
           /\ InOrder(p, opened[p]) /\ InPlace(p, opened[p], current[p])
           /\ HeldAt(current[p], opened[p], closed[p], item[p].open)
BY SeenTypes DEF PathInv, PlaceInv, Asleep, Kept, Held, Placed

(* The queue of a partition with one instruction.                           *)
LEMMA OneQueued ==
    ASSUME NEW f
    PROVE  Append(<<>>, f) # <<>> /\ Head(Append(<<>>, f)) = f
<1>1. Append(<<>>, f) = <<f>>
    OBVIOUS
<1> QED
    BY <1>1

LEMMA WaitKeeps ==
    ASSUME PathInv, NEW p \in Index, ExecuteDelay(p) \/ ExecuteScript(p)
    PROVE  Kept(p)' /\ Shown(p)
<1>1. PICK cmd \in {"delay", "script"} : Executes(p, cmd)
    BY DEF ExecuteDelay, ExecuteScript
<1>2. Wait(p) /\ Queue(p, Tail(queue[p])) /\ UNCHANGED <<phase, opened, closed, item>>
    BY DEF ExecuteDelay, ExecuteScript, seenVars
<1>3. /\ queue'[p] = <<>> /\ loop'[p] = "running" /\ current'[p] = Head(queue[p])
    BY <1>1, <1>2, ExecutesHeld, SeenTypes DEF Wait, Queue, PartitionTypes
<1> QED
    BY <1>1, <1>2, <1>3, ExecutesHeld DEF Kept, Held, Ended, Rested, Shown, SeenAsIs

LEMMA ItemKeeps ==
    ASSUME PathInv, NEW p \in Index, ExecuteItem(p)
    PROVE  Kept(p)' /\ Shown(p)
<1> DEFINE h == Head(queue[p])
           f == Then(h, "script")
<1>1. /\ phase = "live" /\ h \in Instructions /\ h.cmd = "item" /\ Tail(queue[p]) = <<>>
      /\ HeldAt(h, opened[p], closed[p], item[p].open)
    BY ExecutesHeld DEF ExecuteItem
<1>2. f.cmd = "script" /\ f.mode = h.mode
    BY <1>1, ThenType
<1>3. /\ Queue(p, Append(Tail(queue[p]), f)) /\ End(p, FALSE) /\ UNCHANGED <<phase, opened, closed>>
      /\ item' = [item EXCEPT ![p] = [position |-> h.position, iteration |-> h.iteration, open |-> TRUE]]
    BY DEF ExecuteItem
<1> HIDE DEF h, f
<1>4. queue'[p] = Append(<<>>, f) /\ loop'[p] = "ended" /\ item'[p].open = TRUE
    BY <1>1, <1>3, SeenTypes DEF PartitionTypes, End, Queue
<1>5. /\ Length > 0 /\ Len(opened[p]) = Len(closed[p]) + 1 /\ item[p].open = FALSE
      /\ h.mode = "stop" => StopOnFailure
    BY <1>1 DEF HeldAt, Starts
<1>6. queue'[p] # <<>> /\ Head(queue'[p]) = f
    BY <1>4, OneQueued
<1>7. HeldAt(f, opened'[p], closed'[p], item'[p].open)
    BY <1>2, <1>3, <1>4, <1>5 DEF HeldAt, Starts
<1>8. Kept(p)'
    BY <1>1, <1>3, <1>4, <1>6, <1>7 DEF Kept, Held, Ended, Rested
<1>9. Len(opened[p]) > Len(closed[p])
    BY <1>5, SeenTypes
<1> QED
    BY <1>3, <1>4, <1>5, <1>8, <1>9 DEF Shown

LEMMA DelayKeeps ==
    ASSUME PathInv, NEW p \in Index, DelayElapses(p)
    PROVE  Kept(p)' /\ Shown(p)
<1> DEFINE f == Then(current[p], "item")
<1>1. current[p] \in Instructions /\ current[p].cmd = "delay" /\ loop[p] = "running"
    BY CommandOfInstruction, SeenTypes DEF DelayElapses, PartitionTypes
<1>2. f.cmd = "item" /\ f.mode = current[p].mode
    BY <1>1, ThenType
<1>3. Queue(p, Append(queue[p], f)) /\ End(p, FALSE) /\ UNCHANGED <<phase, opened, closed, item>>
    BY DEF DelayElapses, seenVars
<1> HIDE DEF f
<1>4. queue[p] = <<>> /\ HeldAt(current[p], opened[p], closed[p], item[p].open) /\ phase = "live"
    BY <1>1, AnswerHeld
<1>5. queue'[p] = Append(<<>>, f) /\ loop'[p] = "ended"
    BY <1>3, <1>4, SeenTypes DEF PartitionTypes, End, Queue
<1>6. queue'[p] # <<>> /\ Head(queue'[p]) = f
    BY <1>5, OneQueued
<1>7. HeldAt(f, opened'[p], closed'[p], item'[p].open)
    BY <1>1, <1>2, <1>3, <1>4 DEF HeldAt, Starts
<1> QED
    BY <1>3, <1>4, <1>5, <1>6, <1>7 DEF Kept, Held, Ended, Rested, Shown, SeenAsIs

LEMMA ScriptKeeps ==
    ASSUME PathInv, NEW p \in Index, ScriptEnds(p)
    PROVE  Kept(p)' /\ Shown(p)
<1>1. current[p] \in Instructions /\ current[p].cmd = "script" /\ loop[p] = "running"
    BY CommandOfInstruction, SeenTypes DEF ScriptEnds, PartitionTypes
<1>2. PICK err \in Failures, snr \in NextRequests :
        LET next == ProcessExecutionResult(current[p], snr, err, Length, DisableSNR, StopOnFailure)
        IN  Queue(p, Append(queue[p], Parallel(next.position, current[p].iteration,
                                               ModeAfter(next))))
    BY DEF ScriptEnds
<1> DEFINE next == ProcessExecutionResult(current[p], snr, err, Length, DisableSNR, StopOnFailure)
           f == Parallel(next.position, current[p].iteration, ModeAfter(next))
<1>3. f.cmd = "parallel" /\ f.mode # "start" /\ (f.mode = "stop" => StopOnFailure)
    <2>1. next.stopRunNow => StopOnFailure
        BY DEF ProcessExecutionResult
    <2> HIDE DEF next
    <2> QED
        BY <2>1 DEF Parallel, ModeAfter
<1>4. /\ Queue(p, Append(queue[p], f)) /\ End(p, FALSE) /\ UNCHANGED <<phase, opened, closed>>
      /\ item' = [item EXCEPT ![p].open = FALSE]
    BY <1>2 DEF ScriptEnds
<1> HIDE DEF next, f
<1>5. queue[p] = <<>> /\ HeldAt(current[p], opened[p], closed[p], item[p].open) /\ phase = "live"
    BY <1>1, AnswerHeld
<1>6. queue'[p] = Append(<<>>, f) /\ loop'[p] = "ended" /\ item'[p].open = FALSE
    BY <1>4, <1>5, SeenTypes DEF PartitionTypes, End, Queue
<1>7. queue'[p] # <<>> /\ Head(queue'[p]) = f
    BY <1>6, OneQueued
<1>8. Length > 0 /\ Len(opened[p]) = Len(closed[p]) + 1 /\ item[p].open = TRUE
    BY <1>1, <1>5 DEF HeldAt, Starts
<1>9. HeldAt(f, opened'[p], closed'[p], item'[p].open)
    BY <1>3, <1>4, <1>6, <1>8 DEF HeldAt, Starts
<1>10. Kept(p)'
    BY <1>4, <1>5, <1>6, <1>7, <1>9 DEF Kept, Held, Ended, Rested
<1> QED
    BY <1>4, <1>6, <1>8, <1>10 DEF Shown

(* A loop that looks at the priority queue, or calls back, and scripts that *)
(* end the run.                                                             *)
LEMMA QuietKeeps ==
    ASSUME PathInv, NEW p \in Index,
           Poll(p) \/ TakeControl(p) \/ Finish(p) \/ Fail(p) \/ ScriptAborts(p)
    PROVE  Kept(p)' /\ SeenAsIs(p)
<1>1. /\ UNCHANGED <<phase, queue, opened, closed, item, aborted>>
      /\ \/ loop[p] \in {"ready", "ended", "polling"}
            /\ \/ \E l \in {"polling", "lent", "broken"} : loop' = [loop EXCEPT ![p] = l]
               \/ loop' = [loop EXCEPT ![p] = "done"] /\ queue[p] = <<>>
         \/ \E l \in {"broken", "failed"} : loop' = [loop EXCEPT ![p] = l]
    BY DEF Poll, TakeControl, Finish, Fail, ScriptAborts, End, HasTurn, ProcessesOwn, seenVars,
           hostVars
<1>2. \/ loop[p] \in {"ready", "ended", "polling"} /\ loop'[p] \in {"polling", "lent", "broken"}
      \/ loop[p] \in {"ready", "ended", "polling"} /\ loop'[p] = "done" /\ queue[p] = <<>>
      \/ loop'[p] \in {"broken", "failed"}
    BY <1>1, SeenTypes DEF PartitionTypes
<1>3. Kept(p)
    BY SeenTypes
<1> QED
    BY <1>1, <1>2, <1>3 DEF Kept, Held, Ended, Rested, CompleteAt, SeenAsIs

(* What parallel reads off the coords it goes to.                           *)
LEMMA TargetFlags ==
    ASSUME NEW p \in Index, NEW h \in Instructions, cursor[p] \in CursorType
    PROVE  /\ Target(p, h).empty <=> Length = 0
           /\ h.mode \notin {"start", "static"} /\ Length > 0 /\ Target(p, h).eof
                => ~Target(p, h).cr /\ h.iteration + 1 >= Cycles
           /\ h.mode \in {"start", "static"} /\ h.position = 0 /\ h.iteration \in 0 .. Cycles - 1
                /\ Length > 0 => ~Target(p, h).eof
<1>1. cursor[p].length = Length /\ cursor[p].cycles = Cycles /\ Length \in Nat /\ Cycles \in Nat
    BY SizeAssumption DEF CursorType
<1>2. h.position \in Int /\ h.iteration \in Int
    BY InstructionFields
<1>3. CASE h.mode \in {"start", "static"}
    <2> DEFINE s == Seek(cursor[p], h.position, h.iteration)
    <2>1. Target(p, h) = Current(s)
        BY <1>3 DEF Target
    <2>2. s \in CursorType
        BY <1>2, SeekType
    <2>3. s.length = Length /\ s.cycles = Cycles /\ s.position \in Nat
        BY <2>2 DEF CursorType
    <2>4. h.position = 0 /\ h.iteration \in 0 .. Cycles - 1 /\ Length > 0 => s.position = 0
        <3> SUFFICES ASSUME h.position = 0, h.iteration \in 0 .. Cycles - 1, Length > 0
                     PROVE  s.position = 0
            OBVIOUS
        <3>1. ~OutOfBounds(cursor[p], h.position, h.iteration)
            BY <1>1 DEF OutOfBounds
        <3> QED
            BY <3>1 DEF Seek, CursorType
    <2> HIDE DEF s
    <2>5. Target(p, h).empty = (Length = 0)
        BY <2>1, <2>3 DEF Current, Coords
    <2>6. s.position = 0 /\ Length > 0 => ~Target(p, h).eof
        <3>1. Target(p, h).eof = (Length = 0 \/ (s.position >= Length /\ s.iteration >= Cycles))
            BY <2>1, <2>3 DEF Current, Coords
        <3>2. s.position = 0 /\ Length > 0
                => (Length = 0 \/ (s.position >= Length /\ s.iteration >= Cycles)) = FALSE
            BY <1>1
        <3> QED
            BY <3>1, <3>2
    <2> QED
        BY <1>3, <2>4, <2>5, <2>6
<1>4. CASE h.mode \notin {"start", "static"}
    <2>1. Target(p, h) = WhatNext(cursor[p], h)
        BY <1>4 DEF Target
    <2>2. Length = 0 \/ Length > 0
        BY <1>1
    <2>3. CASE Length = 0
        BY <1>1, <1>4, <2>1, <2>3 DEF WhatNext, Coords
    <2>4. CASE Length > 0
        BY <1>1, <1>2, <1>4, <2>1, <2>4 DEF WhatNext, Coords, InLastIteration
    <2> QED
        BY <2>2, <2>3, <2>4
<1> QED
    BY <1>3, <1>4

LEMMA ParallelKeeps ==
    ASSUME PathInv, NEW p \in Index, ExecuteParallel(p)
    PROVE  Kept(p)' /\ Shown(p)
<1> DEFINE h == Head(queue[p])
           coords == Target(p, h)
           f == NextItem(p, coords)
           o == opened[p]
           c == closed[p]
<1>1. /\ PartitionTypes /\ phase = "live"
      /\ h \in Instructions /\ h.cmd = "parallel" /\ Tail(queue[p]) = <<>>
      /\ InOrder(p, o) /\ InPlace(p, o, h) /\ HeldAt(h, o, c, item[p].open)
      /\ o \in Seq(Int) /\ c \in Seq(Int) /\ Len(o) \in Nat /\ Len(c) \in Nat
      /\ item[p].open = FALSE
    <2>1. Executes(p, "parallel")
        BY DEF ExecuteParallel
    <2>2. /\ h \in Instructions /\ h.cmd = "parallel" /\ HeldAt(h, o, c, item[p].open)
          /\ item[p].open \in BOOLEAN
        BY <2>1, ExecutesHeld, SeenTypes
    <2>3. item[p].open = FALSE
        BY <2>2 DEF HeldAt
    <2> QED
        BY <2>1, <2>3, ExecutesHeld, SeenTypes
<1>2. /\ First(p) \in Nat /\ PartitionCycles(p) \in Nat \ {0}
      /\ First(p) + PartitionCycles(p) <= Cycles /\ Cycles \in Nat /\ Length \in Nat
    BY IndexFacts, SizeAssumption
<1>3. cursor[p] \in CursorType
    BY <1>1 DEF PartitionTypes
<1>4. h.mode \in Modes /\ h.iteration \in Int /\ coords.position \in Int /\ coords.iteration \in Int
    BY <1>1, InstructionFields, TargetType
<1>5. /\ f.cmd \notin {"parallel", "script"} /\ f.mode = "next"
      /\ End(p, FALSE) /\ UNCHANGED <<phase, item, aborted>>
    <2>1. f.cmd \in {"delay", "item"}
        BY DEF NextItem, Parallel
    <2> QED
        BY <1>4, <2>1, NextItemType DEF ExecuteParallel, hostVars
<1>6. \/ coords.empty /\ Queue(p, <<>>) /\ UNCHANGED <<opened, closed>>
      \/ ~coords.empty /\ h.mode = "stop" /\ Queue(p, <<>>) /\ Closes(p, coords.iteration)
         /\ UNCHANGED opened
      \/ ~coords.empty /\ h.mode = "start" /\ Queue(p, Append(<<>>, f))
         /\ Opens(p, coords.iteration) /\ UNCHANGED closed
      \/ /\ ~coords.empty /\ h.mode \in {"next", "static"} /\ UNCHANGED opened
         /\ Queue(p, <<>>) /\ (Closes(p, h.iteration) \/ Closes(p, coords.iteration))
         /\ EndsPartition(p, coords) \/ (coords.eof /\ ~coords.cr)
      \/ /\ ~coords.empty /\ h.mode \in {"next", "static"}
         /\ Queue(p, Append(<<>>, f)) /\ Closes(p, h.iteration) /\ Opens(p, coords.iteration)
      \/ /\ ~coords.empty /\ h.mode \in {"next", "static"}
         /\ Queue(p, Append(<<>>, f)) /\ UNCHANGED <<opened, closed>>
    <2>1. CASE coords.empty
        BY <1>1, <2>1 DEF ExecuteParallel
    <2>2. CASE ~coords.empty /\ h.mode = "stop"
        BY <1>1, <2>2 DEF ExecuteParallel
    <2>3. CASE ~coords.empty /\ h.mode = "start"
        BY <1>1, <2>3 DEF ExecuteParallel, QueueItem, NextItem
    <2>4. CASE ~coords.empty /\ h.mode \in {"next", "static"} /\ EndsPartition(p, coords)
        BY <1>1, <2>4 DEF ExecuteParallel
    <2>5. CASE ~coords.empty /\ h.mode \in {"next", "static"} /\ ~EndsPartition(p, coords)
               /\ coords.cr
        BY <1>1, <2>5 DEF ExecuteParallel, QueueItem, NextItem
    <2>6. CASE ~coords.empty /\ h.mode \in {"next", "static"} /\ ~EndsPartition(p, coords)
               /\ ~coords.cr /\ coords.eof
        BY <1>1, <2>6 DEF ExecuteParallel
    <2>7. CASE ~coords.empty /\ h.mode \in {"next", "static"} /\ ~EndsPartition(p, coords)
               /\ ~coords.cr /\ ~coords.eof
        BY <1>1, <2>7 DEF ExecuteParallel, QueueItem, NextItem
    <2> QED
        BY <1>4, <2>1, <2>2, <2>3, <2>4, <2>5, <2>6, <2>7 DEF Modes
<1>7. Append(<<>>, f) # <<>> /\ Head(Append(<<>>, f)) = f
    BY OneQueued
<1>8. coords.empty <=> Length = 0
    BY <1>1, <1>3, TargetFlags
<1>9. /\ \A i \in Int : Len(Append(o, i)) = Len(o) + 1 /\ Len(Append(c, i)) = Len(c) + 1
      /\ <<>> = o => Len(o) = 0
      /\ <<>> = c => Len(c) = 0
    BY <1>1, EmptySeq
<1>10. /\ loop'[p] = "ended" /\ item'[p].open = FALSE /\ phase' = "live"
       /\ \A q : Queue(p, q) => queue'[p] = q
       /\ \A i : Opens(p, i) => opened'[p] = Append(o, i)
       /\ \A i : Closes(p, i) => closed'[p] = Append(c, i)
    BY <1>1, <1>5 DEF PartitionTypes, End, Queue, Opens, Closes
<1> HIDE DEF h, coords, f, o, c
(* What is to be shown where nothing is left, and where f is.               *)
<1>11. ASSUME queue'[p] = <<>>, CompleteAt(p)' PROVE Kept(p)'
    BY <1>10, <1>11 DEF Kept, Held, Ended, Rested
<1>12. ASSUME queue'[p] = Append(<<>>, f), Length > 0, Len(opened'[p]) = Len(closed'[p]) + 1
       PROVE  Kept(p)'
    <2>1. HeldAt(f, opened'[p], closed'[p], item'[p].open)
        BY <1>5, <1>10, <1>12 DEF HeldAt, Starts
    <2> QED
        BY <1>7, <1>10, <1>12, <2>1 DEF Kept, Held, Ended, Rested
<1>13. Length = 0 \/ Length > 0
    BY <1>2
<1>14. CASE Length = 0 /\ Queue(p, <<>>) /\ UNCHANGED <<opened, closed>>
    <2>1. Starts(h) /\ Len(o) = 0 /\ Len(c) = 0
        BY <1>1, <1>2, <1>9, <1>14 DEF HeldAt, InPlace
    <2>2. CompleteAt(p)'
        BY <1>2, <1>10, <1>14, <2>1 DEF CompleteAt, o, c
    <2> QED
        BY <1>1, <1>10, <1>11, <1>14, <2>2 DEF Shown, SeenAsIs
<1>15. CASE Length > 0 /\ h.mode = "start" /\ Queue(p, Append(<<>>, f))
            /\ Opens(p, coords.iteration) /\ UNCHANGED closed
    <2>1. Len(o) = 0 /\ Len(c) = 0
        BY <1>1, <1>9, <1>15 DEF HeldAt, InPlace, Starts
    <2>2. Len(opened'[p]) = 1 /\ Len(closed'[p]) = 0
        BY <1>4, <1>9, <1>10, <1>15, <2>1 DEF c
    <2> QED
        BY <1>1, <1>10, <1>12, <1>15, <2>1, <2>2 DEF Shown, o, c
<1>16. ASSUME Length > 0, h.mode # "start"
       PROVE  /\ Len(o) = Len(c) + 1 /\ (h.mode = "stop" => StopOnFailure)
              /\ o # <<>> /\ h.iteration = First(p) + Len(o) - 1 /\ Len(o) <= PartitionCycles(p)
              /\ h.mode = "static" => h.position = 0
    BY <1>1, <1>16 DEF HeldAt, InPlace, Starts, InOrder
<1>17. ASSUME Length > 0, h.mode # "start", Queue(p, <<>>), UNCHANGED opened,
              Closes(p, h.iteration) \/ Closes(p, coords.iteration),
              StopOnFailure \/ Len(o) = PartitionCycles(p)
       PROVE  Kept(p)' /\ Shown(p)
    <2>1. Len(closed'[p]) = Len(o) /\ opened'[p] = o /\ queue'[p] = <<>>
        BY <1>1, <1>4, <1>9, <1>10, <1>16, <1>17 DEF o
    <2>2. CompleteAt(p)'
        BY <1>10, <1>17, <2>1 DEF CompleteAt
    <2>3. Len(o) > Len(c)
        BY <1>1, <1>16, <1>17
    <2> QED
        BY <1>1, <1>10, <1>11, <2>1, <2>2, <2>3 DEF Shown, o, c
<1>18. CASE Length > 0 /\ h.mode = "stop" /\ Queue(p, <<>>) /\ Closes(p, coords.iteration)
            /\ UNCHANGED opened
    BY <1>16, <1>17, <1>18
<1>19. CASE /\ Length > 0 /\ h.mode \in {"next", "static"} /\ UNCHANGED opened
            /\ Queue(p, <<>>) /\ (Closes(p, h.iteration) \/ Closes(p, coords.iteration))
            /\ EndsPartition(p, coords) \/ (coords.eof /\ ~coords.cr)
    <2>1. h.iteration \in 0 .. Cycles - 1
        BY <1>1, <1>2, <1>16, <1>19, EmptySeq
    <2>2. coords.iteration = (IF coords.cr THEN h.iteration + 1 ELSE h.iteration)
        <3>1. CASE h.mode = "static"
            BY <1>1, <1>3, <1>8, <1>16, <1>19, <2>1, <3>1, TargetOfSeek DEF coords
        <3>2. CASE h.mode = "next"
            BY <1>1, <1>3, <1>8, <1>19, <3>2, TargetOfNext DEF coords
        <3> QED
            BY <1>19, <3>1, <3>2
    <2>3. coords.eof /\ ~coords.cr => h.iteration + 1 >= Cycles
        <3>1. CASE h.mode = "static"
            BY <1>1, <1>3, <1>16, <1>19, <2>1, <3>1, TargetFlags DEF coords
        <3>2. CASE h.mode = "next"
            BY <1>1, <1>3, <1>19, <3>2, TargetFlags DEF coords
        <3> QED
            BY <1>19, <3>1, <3>2
    <2>4. Len(o) = PartitionCycles(p)
        <3>1. CASE EndsPartition(p, coords)
            BY SMTT(30), <1>1, <1>2, <1>16, <1>19, <2>2, <3>1 DEF EndsPartition
        <3>2. CASE coords.eof /\ ~coords.cr
            BY <1>1, <1>2, <1>16, <1>19, <2>3, <3>2
        <3> QED
            BY <1>19, <3>1, <3>2
    <2> QED
        BY <1>17, <1>19, <2>4
<1>20. CASE /\ Length > 0 /\ h.mode \in {"next", "static"}
            /\ Queue(p, Append(<<>>, f)) /\ Closes(p, h.iteration) /\ Opens(p, coords.iteration)
    <2>1. Len(opened'[p]) = Len(o) + 1 /\ Len(closed'[p]) = Len(o)
        BY <1>1, <1>4, <1>9, <1>10, <1>16, <1>20
    <2>2. Len(opened'[p]) > Len(closed'[p])
        BY <1>1, <2>1
    <2> QED
        BY <1>1, <1>10, <1>12, <1>20, <2>1, <2>2 DEF Shown, o
<1>21. CASE /\ Length > 0 /\ h.mode \in {"next", "static"}
            /\ Queue(p, Append(<<>>, f)) /\ UNCHANGED <<opened, closed>>
    BY <1>1, <1>10, <1>12, <1>16, <1>21 DEF Shown, SeenAsIs, o, c
<1> QED
    BY <1>6, <1>8, <1>13, <1>14, <1>15, <1>18, <1>19, <1>20, <1>21

(***************************************************************************)
(* A step of the run, for one partition.                                    *)
(***************************************************************************)
GoesOn(state) == state \in Going \cup {"lent"}

(* Its loop starts, goes on, ends with nothing left open, or breaks off.    *)
Turned(p) ==
    \/ loop'[p] = loop[p] /\ SeenAsIs(p)
    \/ loop[p] = "off" /\ loop'[p] = "ready" /\ SeenAsIs(p)
    \/ GoesOn(loop[p]) /\ GoesOn(loop'[p]) /\ Shown(p)
    \/ GoesOn(loop[p]) /\ loop'[p] = "done" /\ SeenAsIs(p) /\ CompleteAt(p)
    \/ GoesOn(loop[p]) /\ loop'[p] = "broken" /\ SeenAsIs(p)

LEMMA PartitionTurns ==
    ASSUME PathInv, NEW p \in Index, PartitionLoop(p) \/ Answer(p)
    PROVE  Kept(p)' /\ Turned(p)
<1>1. loop[p] \in Going /\ PartitionTypes
    BY LoopMoves, SeenTypes
<1>2. CASE \/ ExecuteParallel(p) \/ ExecuteDelay(p) \/ ExecuteItem(p) \/ ExecuteScript(p)
           \/ DelayElapses(p) \/ ScriptEnds(p)
    <2>1. Kept(p)' /\ Shown(p)
        BY <1>2, ParallelKeeps, WaitKeeps, ItemKeeps, DelayKeeps, ScriptKeeps
    <2>2. \E l \in {"running", "ended"} : loop' = [loop EXCEPT ![p] = l]
        BY <1>2 DEF ExecuteParallel, ExecuteDelay, ExecuteItem, ExecuteScript, DelayElapses,
                    ScriptEnds, Wait, End
    <2>3. loop'[p] \in Going
        BY <1>1, <2>2 DEF PartitionTypes, Going
    <2> QED
        BY <1>1, <2>1, <2>3 DEF Turned, GoesOn
<1>3. CASE Poll(p) \/ TakeControl(p) \/ Fail(p) \/ ScriptAborts(p)
    <2>1. Kept(p)' /\ SeenAsIs(p)
        BY <1>3, QuietKeeps
    <2>2. \E l \in {"polling", "lent", "broken", "failed"} : loop' = [loop EXCEPT ![p] = l]
        BY <1>3 DEF Poll, TakeControl, Fail, ScriptAborts, End
    <2>3. loop'[p] \in {"polling", "lent", "broken", "failed"}
        BY <1>1, <2>2 DEF PartitionTypes
    <2> QED
        BY <1>1, <2>1, <2>3 DEF Turned, GoesOn, Going, Shown
<1>4. CASE Finish(p)
    <2>1. Kept(p)' /\ SeenAsIs(p)
        BY <1>4, QuietKeeps
    <2>2. loop'[p] = IF aborted THEN "broken" ELSE "done"
        BY <1>1, <1>4 DEF Finish, PartitionTypes
    <2>3. loop[p] \in {"ready", "ended", "polling"} /\ queue[p] = <<>>
        BY <1>4 DEF Finish, ProcessesOwn, HasTurn
    <2>4. phase = "live"
        BY <2>3 DEF PathInv, PlaceInv, Asleep
    <2>5. ~aborted => CompleteAt(p)
        BY <2>3, <2>4, SeenTypes DEF Kept, Ended
    <2> QED
        BY <1>1, <2>1, <2>2, <2>5 DEF Turned, GoesOn
<1> QED
    BY <1>2, <1>3, <1>4 DEF PartitionLoop, Answer

(* What a step may do to a partition without doing anything for it.         *)
LEMMA StaysKept ==
    ASSUME NEW p \in Index, Kept(p), UNCHANGED phase, aborted => aborted', SeenAsIs(p),
           queue'[p] = queue[p] \/ (queue'[p] = <<>> /\ aborted'),
           \/ loop'[p] = loop[p] /\ current'[p] = current[p]
           \/ loop[p] \in {"off", "lent"} /\ loop'[p] \in {"ready", "broken"}
    PROVE  Kept(p)'
<1>1. CASE queue'[p] = queue[p]
    BY <1>1 DEF Kept, Held, Ended, Rested, CompleteAt, SeenAsIs
<1>2. CASE queue'[p] = <<>> /\ aborted'
    BY <1>2 DEF Kept, Held, Ended, Rested, CompleteAt, SeenAsIs
<1> QED
    BY <1>1, <1>2

LEMMA OthersTurn ==
    ASSUME PathInv, NEW p \in Index, PartitionLoop(p) \/ Answer(p), NEW q \in Index \ {p}
    PROVE  Kept(q)' /\ Turned(q)
<1>1. PartitionTypes /\ Kept(q)
    BY SeenTypes
<1>2. UNCHANGED <<phase, aborted>> /\ loop'[q] = loop[q]
    BY <1>1, LoopMoves DEF PartitionTypes
<1>3. current'[q] = current[q] /\ queue'[q] = queue[q]
    <2>1. CASE PartitionLoop(p)
        BY <1>1, <2>1 DEF PartitionLoop, Poll, TakeControl, Finish, Fail, ExecuteParallel,
                          ExecuteDelay, ExecuteItem, ExecuteScript, QueueItem, Queue, Wait, End,
                          PartitionTypes
    <2>2. CASE Answer(p)
        BY <1>1, <2>2 DEF Answer, DelayElapses, ScriptEnds, ScriptAborts, Queue, End, PartitionTypes
    <2> QED
        BY <2>1, <2>2
<1>4. SeenAsIs(q)
    <2>1. CASE PartitionLoop(p)
        BY <1>1, <2>1 DEF PartitionLoop, Poll, TakeControl, Finish, Fail, ExecuteParallel,
                          ExecuteDelay, ExecuteItem, ExecuteScript, Opens, Closes, PartitionTypes,
                          seenVars, SeenAsIs
    <2>2. CASE Answer(p)
        BY <1>1, <2>2 DEF Answer, DelayElapses, ScriptEnds, ScriptAborts, PartitionTypes, seenVars,
                          SeenAsIs
    <2> QED
        BY <2>1, <2>2
<1> QED
    BY <1>1, <1>2, <1>3, <1>4, StaysKept DEF Turned

LEMMA ControlTurns ==
    ASSUME PathInv, ControlLoop, NEW q \in Index
    PROVE  Kept(q)' /\ Turned(q)
<1>1. PartitionTypes /\ Kept(q) /\ owner \in Index \cup {Starter}
    BY SeenTypes, Types DEF HostTypes
<1>2. control # "off" /\ UNCHANGED <<phase, current, opened, closed, item>>
    BY DEF ControlLoop, ExecutePause, ExecuteAbort, ControlEnds, ControlFails, ExecutesControl,
           ControlHasTurn, partitionVars, seenVars
<1>3. (aborted => aborted') /\ (queue'[q] = queue[q] \/ (queue'[q] = <<>> /\ aborted'))
    <2>1. CASE ExecuteAbort
        BY <2>1 DEF ExecuteAbort
    <2>2. CASE ExecutePause \/ ControlEnds \/ ControlFails
        <3>1. UNCHANGED <<queue, aborted>>
            BY <2>2 DEF ExecutePause, ControlEnds, ControlFails, partitionVars, hostVars
        <3> QED
            BY <3>1
    <2> QED
        BY <2>1, <2>2 DEF ControlLoop
<1>4. /\ owner = Starter => loop[q] = "off"
      /\ owner = q => loop[q] = "lent"
    BY <1>2, StarterIsNoIndex
       DEF PathInv, ControlInv, DoneInv, Unstarted, OneController, priorityLock
<1>5. \/ loop'[q] = loop[q]
      \/ loop[q] = "off" /\ loop'[q] = "ready"
      \/ loop[q] = "lent" /\ loop'[q] \in {"ready", "broken"}
    <2>1. \/ loop' = loop
          \/ owner = Starter /\ loop' = [r \in Index |-> "ready"]
          \/ \E l \in {"ready", "broken"} : loop' = [loop EXCEPT ![owner] = l]
        BY DEF ControlLoop, ExecutePause, ExecuteAbort, ControlEnds, ControlFails, partitionVars
    <2> QED
        BY <1>1, <1>4, <2>1 DEF PartitionTypes
<1> QED
    BY <1>1, <1>2, <1>3, <1>5, StaysKept DEF Turned, SeenAsIs, GoesOn, Going, Shown

LEMMA HostTurns ==
    ASSUME PathInv, ResumeFires \/ GlobalTimeoutFires \/ Host \/ UNCHANGED vars, NEW q \in Index
    PROVE  Kept(q)' /\ Turned(q)
<1>1. Kept(q)
    BY SeenTypes
<1>2. UNCHANGED <<queue, loop, current, opened, closed, item, aborted>>
    BY DEF Host, Start, Pause, Resume, Abort, ResumeFires, GlobalTimeoutFires, vars,
           partitionVars, seenVars, hostVars
<1>3. (phase' = "live") = (phase = "live")
    BY DEF Host, Start, Pause, Resume, Abort, ResumeFires, GlobalTimeoutFires, vars
<1> QED
    BY <1>1, <1>2, <1>3 DEF Turned, SeenAsIs, Kept, Held, Ended, Rested, CompleteAt

LEMMA InitialisedTurns ==
    ASSUME PathInv, Initialised, NEW q \in Index
    PROVE  Kept(q)' /\ Turned(q)
<1> DEFINE f == Parallel(0, First(q), "start")
<1>1. loop[q] = "off" /\ opened[q] = <<>> /\ closed[q] = <<>> /\ item[q].open = FALSE
    BY SeenTypes DEF Initialised, PathInv, PlaceInv, Asleep, Kept, Rested
<1>2. UNCHANGED <<opened, closed, item>> /\ loop'[q] \in {"off", "ready"} /\ phase' = "live"
    BY <1>1 DEF Initialised, seenVars
<1>3. queue'[q] = Append(<<>>, f)
    BY DEF Initialised
<1>4. Starts(f)
    BY DEF Starts, Parallel
<1> HIDE DEF f
<1>5. queue'[q] # <<>> /\ Head(queue'[q]) = f
    BY <1>3, OneQueued
<1>6. Kept(q)'
    BY <1>1, <1>2, <1>4, <1>5 DEF Kept, Held, HeldAt, Ended, Rested
<1> QED
    BY <1>1, <1>2, <1>6 DEF Turned, SeenAsIs

LEMMA NextTurns ==
    ASSUME PathInv, [Next]_vars, NEW q \in Index
    PROVE  Kept(q)' /\ Turned(q)
<1>1. ASSUME NEW p \in Index, PartitionLoop(p) \/ Answer(p)
      PROVE  Kept(q)' /\ Turned(q)
    <2>1. CASE p = q
        BY <1>1, <2>1, PartitionTurns
    <2>2. CASE p # q
        <3>1. q \in Index \ {p}
            BY <2>2
        <3> QED
            BY <1>1, <3>1, OthersTurn
    <2> QED
        BY <2>1, <2>2
<1> QED
    BY <1>1, ControlTurns, HostTurns, InitialisedTurns DEF Next

LEMMA InitPath == Init => PathInv
<1> SUFFICES ASSUME Init PROVE PathInv
    OBVIOUS
<1>1. ASSUME NEW p \in Index PROVE Kept(p)
    BY DEF Init, Kept, Held, Ended, Rested
<1> QED
    BY <1>1, InitControl, InitPlaced DEF PathInv

LEMMA NextPath == PathInv /\ [Next]_vars => PathInv'
<1> SUFFICES ASSUME PathInv, [Next]_vars PROVE PathInv'
    OBVIOUS
<1>1. ControlInv' /\ PlaceInv'
    BY NextControl, NextPlaced DEF PathInv
<1>2. \A q \in Index : Kept(q)'
    BY NextTurns
<1> QED
    BY <1>1, <1>2 DEF PathInv

LEMMA AlwaysPathInv == Spec => []PathInv
BY InitPath, NextPath, PTL DEF Spec

LEMMA AlwaysTurned == Spec => [][\A p \in Index : Turned(p)]_vars
<1>1. PathInv /\ [Next]_vars => [\A p \in Index : Turned(p)]_vars
    BY NextTurns
<1> QED
    BY <1>1, AlwaysPathInv, PTL DEF Spec

(***************************************************************************)
(* The contract of a run                                                   *)
(***************************************************************************)
LEMMA KeepsContract ==
    ASSUME NEW p \in Index, Turned(p),
           loop[p] \in LoopStates, loop'[p] \in LoopStates,
           item[p].open \in BOOLEAN, item'[p].open \in BOOLEAN,
           Len(opened[p]) \in Nat, Len(closed[p]) \in Nat,
           Len(opened'[p]) \in Nat, Len(closed'[p]) \in Nat
    PROVE  [Contract(p)!Next]_(Contract(p)!vars)
<1> USE DEF LoopStates
<1>1. CASE loop'[p] = loop[p] /\ SeenAsIs(p)
    BY <1>1 DEF SeenAsIs, Stage, Contract!vars
<1>2. CASE loop[p] = "off" /\ loop'[p] = "ready" /\ SeenAsIs(p)
    BY <1>2 DEF SeenAsIs, Stage, Contract!Next, Contract!Start, Contract!vars
<1>3. CASE GoesOn(loop[p]) /\ GoesOn(loop'[p]) /\ Shown(p)
    <2>1. Stage(p) = "running" /\ Stage(p)' = "running"
        BY <1>3 DEF GoesOn, Going, Stage
    <2>2. CASE SeenAsIs(p)
        BY <2>1, <2>2 DEF SeenAsIs, Contract!vars
    <2>3. CASE /\ item[p].open = FALSE /\ item'[p].open = FALSE
               /\ Len(opened'[p]) = Len(opened[p]) + 1
               /\ Len(opened'[p]) > Len(closed'[p])
        BY <2>1, <2>3 DEF Contract!Next, Contract!OpenIteration
    <2>4. CASE /\ item[p].open = FALSE /\ item'[p].open = FALSE
               /\ Len(opened[p]) > Len(closed[p])
               /\ opened'[p] = opened[p] /\ Len(closed'[p]) = Len(opened[p])
        <3>1. (Len(opened'[p]) > Len(closed'[p])) = FALSE
            BY <2>4
        <3> QED
            BY <2>1, <2>4, <3>1 DEF Contract!Next, Contract!CloseIteration
    <2>5. CASE /\ item[p].open = FALSE /\ item'[p].open = TRUE
               /\ Len(opened[p]) > Len(closed[p])
               /\ opened'[p] = opened[p] /\ closed'[p] = closed[p]
        BY <2>1, <2>5 DEF Contract!Next, Contract!BeginItem
    <2>6. CASE /\ item[p].open = TRUE /\ item'[p].open = FALSE
               /\ opened'[p] = opened[p] /\ closed'[p] = closed[p]
        BY <2>1, <2>6 DEF Contract!Next, Contract!FinishItem
    <2> QED
        BY <1>3, <2>2, <2>3, <2>4, <2>5, <2>6 DEF Shown
<1>4. CASE GoesOn(loop[p]) /\ loop'[p] = "done" /\ SeenAsIs(p) /\ CompleteAt(p)
    <2>1. Stage(p) = "running" /\ Stage(p)' = "complete"
        BY <1>4 DEF GoesOn, Going, Stage
    <2>2. (Len(opened[p]) > Len(closed[p])) = FALSE /\ item[p].open = FALSE
        BY <1>4 DEF CompleteAt
    <2> QED
        BY <1>4, <2>1, <2>2 DEF SeenAsIs, Contract!Next, Contract!Complete
<1>5. CASE GoesOn(loop[p]) /\ loop'[p] = "broken" /\ SeenAsIs(p)
    <2>1. Stage(p) = "running" /\ Stage(p)' = "broken"
        BY <1>5 DEF GoesOn, Going, Stage
    <2> QED
        BY <1>5, <2>1 DEF SeenAsIs, Contract!Next, Contract!BreakOff
<1> QED
    BY <1>1, <1>2, <1>3, <1>4, <1>5 DEF Turned

(* Each partition keeps the contract that a run of one pool keeps: what is  *)
(* seen of it nests, and it ends or breaks off once and for good.  Unlike   *)
(* that run it keeps it under every option, because what the global timer   *)
(* empties is not the queue of a partition.                                 *)
THEOREM ContractsAreKept == Spec => KeepsContracts
<1>1. Init => \A p \in Index : Contract(p)!Init
    <2> SUFFICES ASSUME Init, NEW p \in Index PROVE Contract(p)!Init
        OBVIOUS
    <2>1. Stage(p) = "idle"
        BY DEF Init, Stage
    <2>2. Len(opened[p]) = 0 /\ (Len(opened[p]) > Len(closed[p])) = FALSE /\ item[p].open = FALSE
        BY DEF Init
    <2> QED
        BY <2>1, <2>2 DEF Contract!Init
<1>2. TypeOK /\ TypeOK' /\ (\A p \in Index : Turned(p))
        => \A p \in Index : [Contract(p)!Next]_(Contract(p)!vars)
    <2> SUFFICES ASSUME TypeOK, TypeOK', NEW p \in Index, Turned(p)
                 PROVE  [Contract(p)!Next]_(Contract(p)!vars)
        OBVIOUS
    <2>1. /\ loop[p] \in LoopStates /\ item[p].open \in BOOLEAN
          /\ opened[p] \in Seq(Int) /\ closed[p] \in Seq(Int)
        BY DEF TypeOK, LoopStates
    <2>2. /\ loop'[p] \in LoopStates /\ item'[p].open \in BOOLEAN
          /\ opened'[p] \in Seq(Int) /\ closed'[p] \in Seq(Int)
        BY DEF TypeOK, LoopStates
    <2>3. \A s \in Seq(Int) : Len(s) \in Nat
        BY LenProperties
    <2> QED
        BY <2>1, <2>2, <2>3, KeepsContract
<1> DEFINE Step == \A p \in Index : [Contract(p)!Next]_(Contract(p)!vars)
           Turn == \A p \in Index : Turned(p)
<1>3. Spec => [][Step]_vars
    <2>1. TypeOK /\ TypeOK' /\ Turn => Step
        BY <1>2
    <2>2. TypeOK /\ TypeOK' /\ [Turn]_vars => [Step]_vars
        BY <2>1
    <2>3. Spec => [][Turn]_vars
        BY AlwaysTurned
    <2> HIDE DEF Step, Turn
    <2> QED
        BY <2>2, <2>3, TypeCorrect, PTL
<1> QED
    BY <1>1, <1>3 DEF Spec, KeepsContracts

(***************************************************************************)
(* A complete run.  As long as nothing breaks the run off, process() counts *)
(* the partitions that have not called back, and takes the run for complete *)
(* when there is none.                                                      *)
(***************************************************************************)
Unfinished == {p \in Index : loop[p] # "done"}

Unbroken == ~aborted /\ \A p \in Index : loop[p] # "broken"

CountInv ==
    Unbroken =>
        IF completed THEN Unfinished = {} ELSE remainingPools = Cardinality(Unfinished)

LEMMA UnfinishedIsFinite == IsFiniteSet(Unfinished)
<1>1. IsFiniteSet(Index)
    BY FS_Interval, IndexFacts, SizeAssumption DEF Index, Concurrency, Lesser
<1> QED
    BY <1>1, FS_Subset DEF Unfinished

(* A partition that has called back stays so, one that has broken off too.  *)
LEMMA TurnedEnds ==
    ASSUME NEW p \in Index, Turned(p)
    PROVE  /\ loop[p] = "done" => loop'[p] = "done"
           /\ loop[p] = "broken" => loop'[p] = "broken"
BY DEF Turned, GoesOn, Going

LEMMA FinishCounts ==
    ASSUME TypeOK, CountInv, Unbroken, NEW p \in Index, Finish(p)
    PROVE  CountInv'
<1>1. ~aborted /\ loop[p] # "done" /\ loop \in [Index -> LoopStates]
    BY DEF Unbroken, Finish, ProcessesOwn, HasTurn, TypeOK, LoopStates
<1>2. loop' = [loop EXCEPT ![p] = "done"] /\ PoolFinished(FALSE)
    BY <1>1 DEF Finish
<1>3. p \in Unfinished /\ Unfinished' = Unfinished \ {p}
    BY <1>1, <1>2 DEF Unfinished
<1>4. completed = FALSE /\ remainingPools = Cardinality(Unfinished)
    BY <1>3 DEF CountInv, TypeOK
<1>5. /\ IsFiniteSet(Unfinished') /\ Cardinality(Unfinished') = Cardinality(Unfinished) - 1
      /\ Cardinality(Unfinished) \in Nat
    BY <1>3, UnfinishedIsFinite, FS_RemoveElement, FS_CardinalityType
<1>6. CASE remainingPools = 1
    <2>1. completed' = TRUE
        BY <1>6, <1>4 DEF PoolFinished, Finish
    <2>2. Unfinished' = {}
        BY <1>4, <1>5, <1>6, FS_EmptySet
    <2> QED
        BY <2>1, <2>2 DEF CountInv
<1>7. CASE remainingPools # 1
    <2>1. completed' = FALSE /\ remainingPools' = remainingPools - 1
        BY <1>1, <1>2, <1>4, <1>7 DEF PoolFinished
    <2> QED
        BY <1>4, <1>5, <2>1 DEF CountInv
<1> QED
    BY <1>6, <1>7

LEMMA AbortedStays ==
    ASSUME [Next]_vars, aborted
    PROVE  aborted'
<1>1. ASSUME NEW p \in Index, PartitionLoop(p) \/ Answer(p) PROVE aborted' = aborted
    BY <1>1, LoopMoves
<1>2. CASE ExecuteAbort
    BY <1>2 DEF ExecuteAbort
<1>3. CASE \/ Initialised \/ ExecutePause \/ ControlEnds \/ ControlFails \/ ResumeFires
           \/ GlobalTimeoutFires \/ Host \/ UNCHANGED vars
    <2>1. aborted' = aborted
        BY <1>3 DEF Initialised, ExecutePause, ControlEnds, ControlFails, ResumeFires,
                    GlobalTimeoutFires, Host, Start, Pause, Resume, Abort, vars, hostVars
    <2> QED
        BY <2>1
<1> QED
    BY <1>1, <1>2, <1>3 DEF Next, ControlLoop

LEMMA InitCount == Init => CountInv
<1> SUFFICES ASSUME Init PROVE CountInv
    OBVIOUS
<1>1. Unfinished = Index
    BY DEF Init, Unfinished
<1> QED
    BY <1>1 DEF Init, CountInv

LEMMA NextCount == PathInv /\ CountInv /\ [Next]_vars => CountInv'
<1> SUFFICES ASSUME PathInv, CountInv, [Next]_vars, Unbroken' PROVE CountInv'
    BY DEF CountInv
<1>1. \A p \in Index : Turned(p)
    BY NextTurns
<1>2. aborted => aborted'
    BY AbortedStays
<1>3. Unbroken
    BY <1>1, <1>2, TurnedEnds DEF Unbroken
<1>4. TypeOK /\ PartitionTypes
    BY Types DEF PathInv, PlaceInv
(* Nobody but a loop that ends, or breaks off, moves the count.             *)
<1>5. ASSUME UNCHANGED <<completed, remainingPools>>,
             \A p \in Index : loop'[p] = "done" => loop[p] = "done"
      PROVE  CountInv'
    <2>1. Unfinished' = Unfinished
        BY <1>1, <1>5, TurnedEnds DEF Unfinished
    <2> QED
        BY <1>3, <1>5, <2>1 DEF CountInv
<1>6. ASSUME NEW p \in Index, PartitionLoop(p) \/ Answer(p)
      PROVE  CountInv'
    <2>1. CASE Finish(p)
        BY <1>3, <1>4, <2>1, FinishCounts
    <2>2. ~Fail(p)
        BY <1>4 DEF Fail, Unbroken, PartitionTypes
    <2>3. CASE ~Finish(p)
        <3>1. \E l \in LoopStates \ {"done"} : loop' = [loop EXCEPT ![p] = l]
            BY <1>6, <2>2, <2>3 DEF PartitionLoop, Poll, TakeControl, ExecuteParallel, ExecuteDelay,
               ExecuteItem, ExecuteScript, Answer, DelayElapses, ScriptEnds, ScriptAborts, Wait, End,
               LoopStates
        <3>2. UNCHANGED <<completed, remainingPools>>
            BY <1>6, <2>2, <2>3 DEF PartitionLoop, Poll, TakeControl, ExecuteParallel, ExecuteDelay,
               ExecuteItem, ExecuteScript, Answer, DelayElapses, ScriptEnds, ScriptAborts, poolVars
        <3>3. \A q \in Index : loop'[q] = "done" => loop[q] = "done"
            BY <1>4, <3>1 DEF PartitionTypes
        <3> QED
            BY <1>5, <3>2, <3>3
    <2> QED
        BY <2>1, <2>3
<1>7. CASE ControlLoop
    <2>1. owner = Starter \/ ~ControlFails
        BY <1>4, Types DEF ControlFails, Unbroken, PartitionTypes, HostTypes
    <2>2. UNCHANGED <<completed, remainingPools>>
        BY <1>7, <2>1 DEF ControlLoop, ExecutePause, ExecuteAbort, ControlEnds, ControlFails, poolVars
    <2>3. \/ loop' = loop
          \/ loop' = [r \in Index |-> "ready"]
          \/ \E l \in {"ready", "broken"} : loop' = [loop EXCEPT ![owner] = l]
        BY <1>7 DEF ControlLoop, ExecutePause, ExecuteAbort, ControlEnds, ControlFails, partitionVars
    <2>4. \A q \in Index : loop'[q] = "done" => loop[q] = "done"
        BY <1>4, <2>3 DEF PartitionTypes
    <2> QED
        BY <1>5, <2>2, <2>4
<1>8. CASE Initialised \/ ResumeFires \/ GlobalTimeoutFires \/ Host \/ UNCHANGED vars
    <2>1. UNCHANGED <<completed, remainingPools>> /\ (loop' = loop \/ loop' = [r \in Index |-> "ready"])
        BY <1>8 DEF Initialised, ResumeFires, GlobalTimeoutFires, Host, Start, Pause, Resume, Abort,
                    vars, poolVars, partitionVars
    <2>2. \A q \in Index : loop'[q] = "done" => loop[q] = "done"
        BY <2>1
    <2> QED
        BY <1>5, <2>1, <2>2
<1> QED
    BY <1>6, <1>7, <1>8 DEF Next

(* Of the partition that has an iteration, and its place in it.             *)
LEMMA OneOpensIt ==
    ASSUME \A p \in Index : opened[p] \in Seq(Int) /\ InOrder(p, opened[p])
                             /\ Len(opened[p]) = PartitionCycles(p),
           NEW n \in 0 .. Cycles - 1
    PROVE  Cardinality({o \in Index \X (1 .. Cycles) :
                            o[2] \in DOMAIN opened[o[1]] /\ opened[o[1]][o[2]] = n}) = 1
<1> DEFINE S == {o \in Index \X (1 .. Cycles) :
                     o[2] \in DOMAIN opened[o[1]] /\ opened[o[1]][o[2]] = n}
<1>1. PICK p \in Index : First(p) <= n /\ n < First(p) + PartitionCycles(p)
    BY PartitionsCover, SizeAssumption DEF Index, First, PartitionCycles
<1>2. /\ First(p) \in Nat /\ PartitionCycles(p) \in Nat
      /\ First(p) + PartitionCycles(p) <= Cycles /\ Cycles \in Nat
    BY IndexFacts, SizeAssumption
<1> DEFINE k == n - First(p) + 1
<1>3. k \in 1 .. PartitionCycles(p) /\ k \in 1 .. Cycles
    BY <1>1, <1>2
<1>4. \A q \in Index : DOMAIN opened[q] = 1 .. PartitionCycles(q)
    BY LenProperties
<1>5. opened[p][k] = n
    BY <1>1, <1>2, <1>3, <1>4 DEF InOrder
<1>6. <<p, k>> \in S
    BY <1>3, <1>4, <1>5
<1>7. ASSUME NEW o \in S PROVE o = <<p, k>>
    <2>1. PICK q \in Index, j \in 1 .. Cycles : o = <<q, j>>
        OBVIOUS
    <2>2. j \in 1 .. PartitionCycles(q) /\ opened[q][j] = n
        BY <1>4, <2>1
    <2>3. First(q) + j - 1 = n /\ First(q) \in Nat /\ PartitionCycles(q) \in Nat
        BY <1>4, <2>2, IndexFacts DEF InOrder
    <2>4. First(q) <= n /\ n < First(q) + PartitionCycles(q)
        BY SMTT(30), <2>2, <2>3
    <2>5. ~(q < p)
        <3> SUFFICES ASSUME q < p PROVE FALSE
            OBVIOUS
        <3>1. First(q) + PartitionCycles(q) <= First(p)
            BY IndexFacts, SizeAssumption, PartitionsAreDisjoint DEF First, PartitionCycles
        <3> QED
            BY <1>1, <1>2, <2>3, <2>4, <3>1
    <2>6. ~(p < q)
        <3> SUFFICES ASSUME p < q PROVE FALSE
            OBVIOUS
        <3>1. First(p) + PartitionCycles(p) <= First(q)
            BY IndexFacts, SizeAssumption, PartitionsAreDisjoint DEF First, PartitionCycles
        <3> QED
            BY <1>1, <1>2, <2>3, <2>4, <3>1
    <2>7. q = p
        BY <2>5, <2>6, IndexFacts
    <2>8. j = k
        BY <1>2, <2>2, <2>3, <2>7
    <2> QED
        BY <2>1, <2>7, <2>8
<1>8. S = {<<p, k>>}
    BY <1>6, <1>7
<1> HIDE DEF S
<1>9. Cardinality(S) = 1
    BY <1>8, FS_Singleton
<1> QED
    BY <1>9 DEF S

(* A run that is complete, that nothing broke off and no failure may stop,  *)
(* has closed what it opened, and has opened every iteration of the run     *)
(* once: the partitions share no iteration and leave none out, however many *)
(* there are and wherever the scripts send them.                            *)
THEOREM ParallelRunIsComplete == Spec => []CompleteRun
<1>1. PathInv /\ CountInv => CompleteRun
    <2> SUFFICES ASSUME PathInv, CountInv, completed, Unbroken, ~StopOnFailure
                 PROVE  /\ \A p \in Index : loop[p] = "done" /\ ~item[p].open
                                               /\ Len(opened[p]) = Len(closed[p])
                        /\ Length > 0 =>
                              \A n \in 0 .. Cycles - 1 :
                                  Cardinality({o \in Index \X (1 .. Cycles) :
                                                  o[2] \in DOMAIN opened[o[1]]
                                                  /\ opened[o[1]][o[2]] = n}) = 1
        BY DEF CompleteRun, Unbroken
    <2>1. \A p \in Index : loop[p] = "done"
        BY DEF CountInv, Unfinished
    <2>2. ASSUME NEW p \in Index
          PROVE  /\ CompleteAt(p)
                 /\ opened[p] \in Seq(Int) /\ InOrder(p, opened[p])
        <3>1. phase = "live"
            BY <2>1, <2>2 DEF PathInv, PlaceInv, Asleep
        <3> QED
            BY <2>1, <2>2, <3>1, SeenTypes DEF Kept, Ended, Rested, Unbroken, Placed
    <2>3. ASSUME Length > 0, NEW n \in 0 .. Cycles - 1
          PROVE  Cardinality({o \in Index \X (1 .. Cycles) :
                                 o[2] \in DOMAIN opened[o[1]] /\ opened[o[1]][o[2]] = n}) = 1
        <3>1. \A p \in Index : opened[p] \in Seq(Int) /\ InOrder(p, opened[p])
                               /\ Len(opened[p]) = PartitionCycles(p)
            BY <2>2, <2>3 DEF CompleteAt
        <3> QED
            BY <3>1, OneOpensIt
    <2> QED
        BY <2>1, <2>2, <2>3 DEF CompleteAt
<1>2. Spec => []CountInv
    BY InitCount, NextCount, AlwaysPathInv, PTL DEF Spec
<1> QED
    BY <1>1, <1>2, AlwaysPathInv, PTL
=============================================================================
