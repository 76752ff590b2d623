------------------------ MODULE SequentialRun_proofs ------------------------
(***************************************************************************)
(* Proofs about SequentialRun, for every value of its constants: the types, *)
(* and that a run has one flow, that an abort leaves none, and that done is *)
(* called once and last.                                                    *)
(*                                                                          *)
(* The inductive invariant adds to OneFlow what it needs of the loop: at    *)
(* most one timer that makes it go on, and nothing of the flow in its hands *)
(* while it rests.                                                          *)
(***************************************************************************)
EXTENDS SequentialRun, SequenceTheorems, TLAPS

(***************************************************************************)
(* Types of the operators the actions are built from                       *)
(***************************************************************************)
LEMMA NoRequestType == NoRequest \in Snrs
  BY DEF NoRequest, NoPosition, Snrs

LEMMA WaterfallType ==
    ASSUME NEW p \in Int, NEW i \in Int, NEW m \in Modes
    PROVE  /\ Waterfall(p, i, m) \in Instructions
           /\ Item(p, i) \in Instructions
  <1>1. Waterfall(p, i, m) \in Instructions
    BY NoRequestType DEF Waterfall, Instructions, FlowCommands
  <1>2. Item(p, i) \in Instructions
    BY NoRequestType DEF Item, Waterfall, Instructions, FlowCommands, ItemCommands, Modes
  <1>. QED  BY <1>1, <1>2

LEMMA ControlType ==
    ASSUME NEW cmd \in ControlCommands
    PROVE  Control(cmd) \in Instructions
  <1>1. Waterfall(0, 0, "next") \in Instructions
    BY WaterfallType DEF Modes
  <1>. QED  BY <1>1 DEF Control, Instructions

LEMMA ThenType ==
    ASSUME NEW instruction \in Instructions, NEW cmd \in FlowCommands
    PROVE  Then(instruction, cmd) \in Instructions
  BY DEF Then, Instructions

LEMMA CloneType ==
    ASSUME NEW instruction \in Instructions, NEW b \in BOOLEAN
    PROVE  [instruction EXCEPT !.mutated = b] \in Instructions
  BY DEF Instructions

LEMMA InstructionFields ==
    ASSUME NEW instruction \in Instructions
    PROVE  /\ instruction.position \in Int
           /\ instruction.iteration \in Int
           /\ instruction.mode \in Modes
           /\ instruction.snr \in Snrs
           /\ instruction.cmd \in FlowCommands \cup ControlCommands
  BY DEF Instructions

(* A command is only ever that of an instruction.                           *)
LEMMA CommandOfInstruction ==
    ASSUME NEW x \in Instructions \cup {Nothing},
           x.cmd \in FlowCommands \cup ControlCommands
    PROVE  x \in Instructions
  BY DEF Nothing, Waterfall, FlowCommands, ItemCommands, ControlCommands

LEMMA NothingIsNotFlow == ~IsFlow(Nothing)
  BY DEF IsFlow, Nothing, Waterfall, FlowCommands, ItemCommands

LEMMA QueueHead ==
    ASSUME NEW S, NEW q \in Seq(S), q # <<>>
    PROVE  Head(q) \in S /\ Tail(q) \in Seq(S)
  BY HeadTailProperties

LEMMA Prepended ==
    ASSUME NEW S, NEW q \in Seq(S), NEW x \in S
    PROVE  <<x>> \o q \in Seq(S)
  <1>1. <<x>> \in Seq(S)
    OBVIOUS
  <1>. QED  BY <1>1, ConcatProperties

CursorType == [ length : {Length}, cycles : {Cycles}, position : Nat, iteration : Nat,
                partitionIndex : Nat, partitionCycles : Nat ]

LEMMA SeekType ==
    ASSUME NEW c \in CursorType, NEW p \in Int, NEW i \in Int
    PROVE  Seek(c, p, i) \in CursorType
  <1>1. CASE OutOfBounds(c, p, i)
    BY <1>1 DEF Seek
  <1>2. CASE ~OutOfBounds(c, p, i)
    <2>1. p \in Nat /\ i \in Nat
      BY <1>2 DEF OutOfBounds
    <2>. QED  BY <1>2, <2>1 DEF Seek, CursorType
  <1>. QED  BY <1>1, <1>2

LEMMA NewCursorType == NewCursor(Length, Cycles, 0, 0, 0, 0) \in CursorType
  BY SizeAssumption DEF NewCursor, Validate, CursorType

LEMMA TargetType ==
    ASSUME NEW h \in Instructions, cursor \in CursorType
    PROVE  Target(h).position \in Int /\ Target(h).iteration \in Int
  <1>1. CASE h.mode \in {"start", "static"}
    <2>1. Seek(cursor, h.position, h.iteration) \in CursorType
      BY SeekType, InstructionFields
    <2>. QED  BY <1>1, <2>1 DEF Target, Current, Coords, CursorType
  <1>2. CASE h.mode \notin {"start", "static"}
    <2>1. /\ h.position \in Int /\ h.iteration \in Int
          /\ cursor.length \in Nat
          /\ cursor.cycles \in Nat
      BY InstructionFields, SizeAssumption DEF CursorType
    <2>. QED  BY <1>2, <2>1 DEF Target, WhatNext, InLastIteration, Coords
  <1>. QED  BY <1>1, <1>2

LEMMA ResultType ==
    ASSUME NEW at \in Instructions, NEW snr \in Snrs, NEW err, NEW disable, NEW stop,
           NEW length \in Int
    PROVE  ProcessExecutionResult(at, snr, err, length, disable, stop).position \in Int
  BY InstructionFields DEF ProcessExecutionResult, Snrs

(***************************************************************************)
(* Types                                                                   *)
(***************************************************************************)
(* What ItemReturns changes.                                                *)
ItemTypes ==
    /\ item \in [position : Int, iteration : Int, open : BOOLEAN]
    /\ stopped \subseteq Int
    /\ cursor \in CursorType
    /\ pool \in Seq(Instructions)
    /\ thrown \in {"no", "resume", "seek"}

LEMMA ItemReturnsType ==
    ASSUME TypeOK, NEW flow \in Instructions, NEW err, NEW snr \in Snrs,
           NEW queue \in Seq(Instructions), ItemReturns(flow, err, snr, queue)
    PROVE  ItemTypes'
  <1>. DEFINE next == ProcessExecutionResult(flow, snr, err, Length, DisableSNR, StopOnFailure)
  <1>1. next.position \in Int
    BY ResultType, SizeAssumption
  <1>2. flow.position \in Int /\ flow.iteration \in Int
    BY InstructionFields
  <1>3. cursor' \in CursorType
    BY <1>1, <1>2, SeekType DEF ItemReturns, TypeOK, CursorType
  <1>4. Waterfall(next.position, flow.iteration, ModeAfter(next)) \in Instructions
    BY <1>1, <1>2, WaterfallType DEF ModeAfter, Modes
  <1>5. pool' \in Seq(Instructions)
    BY <1>4 DEF ItemReturns
  <1>6. thrown' \in {"no", "resume", "seek"}
    BY DEF ItemReturns, TypeOK
  <1>7. stopped' \subseteq Int
    BY <1>2 DEF ItemReturns, TypeOK
  <1>8. item' \in [position : Int, iteration : Int, open : BOOLEAN]
    BY <1>2 DEF ItemReturns, Seen
  <1>. QED  BY <1>3, <1>5, <1>6, <1>7, <1>8 DEF ItemTypes

LEMMA TicksType ==
    ASSUME NEW q \in Seq({"proceed", "resume"})
    PROVE  /\ Append(q, "proceed") \in Seq({"proceed", "resume"})
           /\ Append(q, "resume") \in Seq({"proceed", "resume"})
  OBVIOUS

(* What a command changes by ending or by starting to wait.                 *)
LoopTypes ==
    /\ phase \in {"idle", "initialising", "next", "running", "ended", "over"}
    /\ current \in Instructions \cup {Nothing}
    /\ failed \in BOOLEAN
    /\ ticks \in Seq({"proceed", "resume"})

LEMMA WaitType ==
    ASSUME TypeOK, NEW instruction \in Instructions, Wait(instruction)
    PROVE  LoopTypes'
  BY DEF TypeOK, LoopTypes, Wait

LEMMA EndType ==
    ASSUME TypeOK, NEW err \in BOOLEAN, End(err)
    PROVE  LoopTypes'
  BY DEF TypeOK, LoopTypes, End

(* A command that touches nothing but the loop and the queue.               *)
LEMMA LoopOnlyType ==
    ASSUME TypeOK, LoopTypes', pool' \in Seq(Instructions),
           UNCHANGED <<late, controlVars, iterationVars, itemVars, endVars, thrown, boundVars>>
    PROVE  TypeOK'
  <1>1. UNCHANGED <<late, paused, aborted, stored, opened, closed, cursor, mutated, item, stopped>>
    BY DEF controlVars, iterationVars, itemVars
  <1>2. UNCHANGED <<globalTimer, host, dones, thrown, pauses, aborts>>
    BY DEF endVars, boundVars
  <1>. QED  BY <1>1, <1>2 DEF TypeOK, LoopTypes

(* A command that ends an item, or hands it on.                             *)
LEMMA ItemOnlyType ==
    ASSUME TypeOK, LoopTypes', ItemTypes', late' \in Instructions \cup {Nothing},
           mutated' \subseteq Int,
           UNCHANGED <<controlVars, iterationVars, endVars, boundVars>>
    PROVE  TypeOK'
  <1>1. UNCHANGED <<paused, aborted, stored, opened, closed>>
    BY DEF controlVars, iterationVars
  <1>2. UNCHANGED <<globalTimer, host, dones, pauses, aborts>>
    BY DEF endVars, boundVars
  <1>. QED  BY <1>1, <1>2 DEF TypeOK, LoopTypes, ItemTypes, CursorType

LEMMA ItemFlowType ==
    ASSUME TypeOK, NEW flow \in Instructions, NEW queue \in Seq(Instructions), NEW fatal \in BOOLEAN,
           ItemFlow(flow, queue, fatal),
           UNCHANGED <<late, controlVars, iterationVars, mutated, endVars, boundVars>>
    PROVE  TypeOK'
  <1>1. CASE fatal
    <2>1. ItemReturns(flow, TRUE, NoRequest, queue)
      BY <1>1 DEF ItemFlow
    <2>2. End(FALSE)
      BY DEF ItemFlow
    <2>3. ItemTypes'
      BY <2>1, ItemReturnsType, NoRequestType
    <2>4. LoopTypes'
      BY <2>2, EndType
    <2>. QED  BY <2>3, <2>4, ItemOnlyType DEF TypeOK
  <1>2. CASE ~fatal
    <2>. DEFINE first == QueueDelay(ItemDelay, "item delay", Then(flow, "prerequest"))
    <2>1. first \in Instructions
      BY ThenType DEF QueueDelay, FlowCommands, ItemCommands, Then, Instructions
    <2>2. /\ pool' = Append(queue, first)
          /\ item' = Seen(flow, TRUE)
          /\ End(FALSE)
      BY <1>2 DEF ItemFlow
    <2>3. pool' \in Seq(Instructions)
      <3>. HIDE DEF first
      <3>. QED  BY <2>1, <2>2
    <2>4. item' \in [position : Int, iteration : Int, open : BOOLEAN]
      BY <2>2, InstructionFields DEF Seen
    <2>5. UNCHANGED <<cursor, stopped, thrown>>
      BY <1>2 DEF ItemFlow
    <2>6. LoopTypes'
      BY <2>2, EndType
    <2>7. ItemTypes'
      BY <2>3, <2>4, <2>5 DEF TypeOK, ItemTypes, CursorType
    <2>. QED  BY <2>6, <2>7, ItemOnlyType DEF TypeOK
  <1>. QED  BY <1>1, <1>2

LEMMA ProceedWithRequestType ==
    ASSUME TypeOK, NEW flow \in Instructions, NEW urlChanged,
           ProceedWithRequest(flow, urlChanged)
    PROVE  ItemTypes'
           /\ late' \in Instructions \cup {Nothing}
  <1>1. CASE ItemReturns(flow, TRUE, NoRequest, pool) /\ UNCHANGED late
    BY <1>1, ItemReturnsType, NoRequestType DEF TypeOK
  <1>2. CASE /\ late' = flow
             /\ UNCHANGED <<pool, cursor, item, stopped, thrown>>
    BY <1>2 DEF ItemTypes, TypeOK, CursorType
  <1>3. CASE /\ pool' = Append(pool, flow)
             /\ UNCHANGED <<cursor, item, stopped, thrown, late>>
    <2>1. pool' \in Seq(Instructions)
      BY <1>3 DEF TypeOK
    <2>. QED  BY <1>3, <2>1 DEF ItemTypes, TypeOK, CursorType
  <1>. QED  BY <1>1, <1>2, <1>3 DEF ProceedWithRequest

LEMMA ExecuteWaterfallType ==
    ASSUME TypeOK, ExecuteWaterfall
    PROVE  /\ pool' \in Seq(Instructions)
           /\ opened' \in Seq(Int) /\ closed' \in Seq(Int)
  <1>. DEFINE h == Head(pool)
              coords == Target(h)
              next == QueueDelay(coords.cr /\ IterationDelay, "iteration delay",
                                 Item(coords.position, coords.iteration))
  <1>1. h \in Instructions /\ Tail(pool) \in Seq(Instructions)
    BY QueueHead DEF ExecuteWaterfall, Executes, TypeOK
  <1>2. coords.position \in Int /\ coords.iteration \in Int
    BY <1>1, TargetType DEF TypeOK, CursorType
  <1>3. next \in Instructions
    <2>1. Item(coords.position, coords.iteration) \in Instructions
      BY <1>2, WaterfallType DEF Modes
    <2>. QED  BY <2>1, ThenType DEF QueueDelay, FlowCommands
  <1>4. h.iteration \in Int /\ h.mode \in Modes
    BY <1>1, InstructionFields
  <1>5. /\ pool' \in {Tail(pool), Append(Tail(pool), next)}
        /\ opened' \in {opened, Append(opened, coords.iteration)}
        /\ closed' \in {closed, Append(closed, coords.iteration), Append(closed, h.iteration)}
    <2>. HIDE DEF next, coords
    <2>. QED  BY <1>4 DEF ExecuteWaterfall, iterationVars, Modes, next, coords
  <1>6. pool' \in Seq(Instructions)
    <2>. HIDE DEF next
    <2>. QED  BY SMTT(30), <1>1, <1>3, <1>5
  <1>7. opened' \in Seq(Int)
    <2>1. Append(opened, coords.iteration) \in Seq(Int)
      BY <1>2 DEF TypeOK
    <2>. HIDE DEF coords
    <2>. QED  BY <1>5, <2>1 DEF TypeOK
  <1>8. closed' \in Seq(Int)
    <2>1. Append(closed, coords.iteration) \in Seq(Int)
      BY <1>2 DEF TypeOK
    <2>2. Append(closed, h.iteration) \in Seq(Int)
      BY <1>4 DEF TypeOK
    <2>. HIDE DEF coords, h
    <2>. QED  BY <1>5, <2>1, <2>2 DEF TypeOK
  <1>. QED  BY <1>6, <1>7, <1>8

LEMMA InitType == Init => TypeOK
  <1>. SUFFICES ASSUME Init PROVE TypeOK
    OBVIOUS
  <1>1. cursor \in CursorType
    BY NewCursorType DEF Init
  <1>2. /\ pool \in Seq(Instructions) /\ ticks \in Seq({"proceed", "resume"})
        /\ opened \in Seq(Int) /\ closed \in Seq(Int)
    BY DEF Init
  <1>3. item \in [position : Int, iteration : Int, open : BOOLEAN]
    BY DEF Init
  <1>. QED  BY <1>1, <1>2, <1>3 DEF Init, TypeOK, CursorType

LEMMA NextType == TypeOK /\ [Next]_vars => TypeOK'
  <1>. SUFFICES ASSUME TypeOK, [Next]_vars PROVE TypeOK'
    OBVIOUS
  <1>1. CASE Start
    BY <1>1 DEF Start, TypeOK, controlVars, iterationVars, itemVars, endVars, boundVars
  <1>2. CASE Initialised
    <2>1. Waterfall(cursor.position, cursor.iteration, "start") \in Instructions
      BY WaterfallType DEF TypeOK, Modes
    <2>2. pool' \in Seq(Instructions)
      BY <1>2, <2>1 DEF Initialised, TypeOK
    <2>. QED  BY <1>2, <2>2 DEF Initialised, TypeOK, controlVars, iterationVars, itemVars, endVars, boundVars
  <1>3. CASE InitialiserFailed
    BY <1>3 DEF InitialiserFailed, TypeOK, controlVars, iterationVars, itemVars, endVars, boundVars
  <1>4. CASE Proceed
    <2>1. ticks' \in Seq({"proceed", "resume"})
      BY <1>4, QueueHead DEF Proceed, TypeOK
    <2>. QED  BY <1>4, <2>1 DEF Proceed, TypeOK, controlVars, iterationVars, itemVars, endVars, boundVars
  <1>5. CASE LoopFails
    BY <1>5 DEF LoopFails, Done, TypeOK, controlVars, iterationVars, itemVars, endVars, boundVars
  <1>6. CASE LoopEnds
    BY <1>6 DEF LoopEnds, Done, TypeOK, controlVars, iterationVars, itemVars, endVars, boundVars
  <1>7. CASE ExecuteWaterfall
    <2>1. Head(pool) \in Instructions /\ Tail(pool) \in Seq(Instructions)
      BY <1>7, QueueHead DEF ExecuteWaterfall, Executes, TypeOK
    <2>2. End(FALSE)
      BY <1>7 DEF ExecuteWaterfall
    <2>3. /\ pool' \in Seq(Instructions)
          /\ opened' \in Seq(Int) /\ closed' \in Seq(Int)
      BY <1>7, <2>1, ExecuteWaterfallType DEF TypeOK, CursorType
    <2>4. LoopTypes'
      BY <2>2, EndType
    <2>5. UNCHANGED <<late, controlVars, itemVars, endVars, thrown, boundVars>>
      BY <1>7 DEF ExecuteWaterfall
    <2>. QED  BY <2>3, <2>4, <2>5
              DEF TypeOK, LoopTypes, controlVars, itemVars, endVars, boundVars
  <1>8. CASE ExecuteDelay
    <2>1. Head(pool) \in Instructions /\ Tail(pool) \in Seq(Instructions)
      BY <1>8, QueueHead DEF ExecuteDelay, Executes, TypeOK
    <2>2. Wait(Head(pool)) /\ pool' = Tail(pool)
      BY <1>8 DEF ExecuteDelay
    <2>3. LoopTypes'
      BY <2>1, <2>2, WaitType
    <2>. QED  BY <1>8, <2>1, <2>2, <2>3, LoopOnlyType DEF ExecuteDelay
  <1>9. CASE DelayElapses
    <2>1. current \in Instructions
      BY <1>9, CommandOfInstruction
      DEF DelayElapses, TypeOK, FlowCommands, ItemCommands
    <2>. DEFINE next == Then(current, IF current.cmd = "item delay" THEN "prerequest" ELSE "item")
    <2>2. next \in Instructions
      BY <2>1, ThenType DEF FlowCommands, ItemCommands
    <2>3. pool' = Append(pool, next) /\ End(FALSE)
      BY <1>9 DEF DelayElapses
    <2>4. pool' \in Seq(Instructions)
      <3>. HIDE DEF next
      <3>. QED  BY <2>2, <2>3 DEF TypeOK
    <2>5. LoopTypes'
      BY <2>3, EndType
    <2>. QED  BY <1>9, <2>4, <2>5, LoopOnlyType DEF DelayElapses
  <1>10. CASE ExecuteItem
    <2>1. Head(pool) \in Instructions /\ Tail(pool) \in Seq(Instructions)
      BY <1>10, QueueHead DEF ExecuteItem, Executes, TypeOK
    <2>. DEFINE flow == [Head(pool) EXCEPT !.mutated = Head(pool).position \in mutated]
    <2>2. flow \in Instructions
      <3>1. (Head(pool).position \in mutated) \in BOOLEAN
        OBVIOUS
      <3>. QED  BY <2>1, <3>1, CloneType
    <2>3. UNCHANGED <<late, controlVars, iterationVars, mutated, endVars, boundVars>>
      BY <1>10 DEF ExecuteItem
    <2>4. CASE /\ Wait(flow)
               /\ item' = Seen(flow, TRUE)
               /\ pool' = Tail(pool)
               /\ UNCHANGED <<cursor, stopped, thrown>>
      <3>. HIDE DEF flow
      <3>. QED  BY <2>1, <2>2, <2>3, <2>4, InstructionFields
                DEF Wait, Seen, TypeOK, controlVars, iterationVars, endVars, boundVars
    <2>5. CASE ItemFlow(flow, Tail(pool), FALSE)
      BY <2>1, <2>2, <2>3, <2>5, ItemFlowType
    <2>6. CASE ItemFlow(flow, Tail(pool), TRUE)
      BY <2>1, <2>2, <2>3, <2>6, ItemFlowType
    <2>. QED  BY <1>10, <2>4, <2>5, <2>6 DEF ExecuteItem
  <1>11. CASE SecretsResolve
    <2>1. current \in Instructions
      BY <1>11, CommandOfInstruction
      DEF SecretsResolve, TypeOK, FlowCommands, ItemCommands
    <2>2. PICK fatal \in Failures : ItemFlow(current, pool, fatal)
      BY <1>11 DEF SecretsResolve
    <2>3. fatal \in BOOLEAN
      BY OutcomesAssumption
    <2>. QED  BY <1>11, <2>1, <2>2, <2>3, ItemFlowType DEF SecretsResolve, TypeOK
  <1>12. CASE ExecuteEvent
    <2>1. Head(pool) \in Instructions /\ Tail(pool) \in Seq(Instructions)
      BY <1>12, QueueHead DEF ExecuteEvent, Executes, TypeOK
    <2>2. Wait(Head(pool)) /\ pool' = Tail(pool)
      BY <1>12 DEF ExecuteEvent
    <2>3. LoopTypes'
      BY <2>1, <2>2, WaitType
    <2>. QED  BY <1>12, <2>1, <2>2, <2>3, LoopOnlyType DEF ExecuteEvent
  <1>13. CASE EventAborts
    <2>1. LoopTypes'
      BY <1>13, EndType DEF EventAborts
    <2>2. pool' \in Seq(Instructions)
      BY <1>13 DEF EventAborts, TypeOK
    <2>. QED  BY <1>13, <2>1, <2>2, LoopOnlyType DEF EventAborts
  <1>14. CASE PrerequestEnds
    <2>1. current \in Instructions
      BY <1>14, CommandOfInstruction
      DEF PrerequestEnds, TypeOK, FlowCommands, ItemCommands
    <2>2. PICK outcome \in Outcomes :
             IF EventError("prerequest", outcome) \/ outcome.skips
             THEN /\ ItemReturns(current, EventError("prerequest", outcome), outcome.snr, pool)
                  /\ UNCHANGED <<mutated, late>>
             ELSE /\ mutated' = IF outcome.mutates
                                THEN mutated \cup {current.position} ELSE mutated
                  /\ ProceedWithRequest([current EXCEPT !.cmd = "request",
                                                        !.snr = outcome.snr],
                                        outcome.mutates)
      BY <1>14 DEF PrerequestEnds
    <2>. DEFINE flow == [current EXCEPT !.cmd = "request", !.snr = outcome.snr]
    <2>3. outcome.snr \in Snrs
      BY OutcomesAssumption DEF Outcomes
    <2>4. flow \in Instructions
      BY <2>1, <2>3 DEF Instructions, FlowCommands, ItemCommands
    <2>5. ItemTypes'
          /\ late' \in Instructions \cup {Nothing}
          /\ mutated' \subseteq Int
      <3>. HIDE DEF flow
      <3>1. CASE EventError("prerequest", outcome) \/ outcome.skips
        <4>1. /\ ItemReturns(current, EventError("prerequest", outcome), outcome.snr, pool)
              /\ UNCHANGED <<mutated, late>>
          BY <2>2, <3>1
        <4>. QED  BY <2>1, <2>3, <4>1, ItemReturnsType DEF TypeOK
      <3>2. CASE ~(EventError("prerequest", outcome) \/ outcome.skips)
        <4>1. /\ mutated' = IF outcome.mutates
                            THEN mutated \cup {current.position} ELSE mutated
              /\ ProceedWithRequest(flow, outcome.mutates)
          BY <2>2, <3>2 DEF flow
        <4>2. mutated' \subseteq Int
          BY <2>1, <4>1, InstructionFields DEF TypeOK
        <4>. QED  BY <2>4, <4>1, <4>2, ProceedWithRequestType
      <3>. QED  BY <3>1, <3>2
    <2>6. End(FALSE)
      BY <1>14 DEF PrerequestEnds
    <2>7. LoopTypes'
      BY <2>6, EndType
    <2>. QED  BY <1>14, <2>5, <2>7, ItemOnlyType DEF PrerequestEnds
  <1>15. CASE TestEnds
    <2>1. current \in Instructions
      BY <1>15, CommandOfInstruction DEF TestEnds, TypeOK, FlowCommands, ItemCommands
    <2>2. PICK outcome \in Outcomes :
             ItemReturns(current, EventError("test", outcome),
                         Override(current.snr, outcome.snr), pool)
      BY <1>15 DEF TestEnds
    <2>3. Override(current.snr, outcome.snr) \in Snrs
      BY <2>1, OutcomesAssumption, InstructionFields DEF Outcomes, Override
    <2>4. mutated' \subseteq Int
      BY <1>15, <2>1, InstructionFields DEF TestEnds, MutatedAfter, TypeOK
    <2>5. ItemTypes'
      BY <2>1, <2>2, <2>3, ItemReturnsType DEF TypeOK
    <2>6. End(FALSE)
      BY <1>15 DEF TestEnds
    <2>7. LoopTypes'
      BY <2>6, EndType
    <2>8. late' \in Instructions \cup {Nothing}
      BY <1>15 DEF TestEnds, TypeOK
    <2>. QED  BY <1>15, <2>4, <2>5, <2>7, <2>8, ItemOnlyType DEF TestEnds
  <1>16. CASE ExecuteRequest
    <2>1. Head(pool) \in Instructions /\ Tail(pool) \in Seq(Instructions)
      BY <1>16, QueueHead DEF ExecuteRequest, Executes, TypeOK
    <2>2. Wait(Head(pool)) /\ pool' = Tail(pool)
      BY <1>16 DEF ExecuteRequest
    <2>3. LoopTypes'
      BY <2>1, <2>2, WaitType
    <2>. QED  BY <1>16, <2>1, <2>2, <2>3, LoopOnlyType DEF ExecuteRequest
  <1>17. CASE RequestAborts
    <2>1. LoopTypes'
      BY <1>17, EndType DEF RequestAborts
    <2>2. pool' \in Seq(Instructions)
      BY <1>17 DEF RequestAborts, TypeOK
    <2>. QED  BY <1>17, <2>1, <2>2, LoopOnlyType DEF RequestAborts
  <1>18. CASE RequestEnds
    <2>1. current \in Instructions
      BY <1>18, CommandOfInstruction DEF RequestEnds, TypeOK, FlowCommands, ItemCommands
    <2>2. Then(current, "test") \in Instructions
      BY <2>1, ThenType DEF FlowCommands, ItemCommands
    <2>3. \/ ItemReturns(current, TRUE, NoRequest, pool)
          \/ /\ pool' = Append(pool, Then(current, "test"))
             /\ UNCHANGED <<cursor, item, stopped, thrown>>
      BY <1>18 DEF RequestEnds
    <2>4. ASSUME ItemReturns(current, TRUE, NoRequest, pool) PROVE ItemTypes'
      BY <2>1, <2>4, NoRequestType, ItemReturnsType DEF TypeOK
    <2>5. ASSUME /\ pool' = Append(pool, Then(current, "test"))
                 /\ UNCHANGED <<cursor, item, stopped, thrown>>
          PROVE  ItemTypes'
      <3>1. pool' \in Seq(Instructions)
        BY <2>2, <2>5 DEF TypeOK
      <3>. QED  BY <2>5, <3>1 DEF ItemTypes, TypeOK, CursorType
    <2>6. End(FALSE)
      BY <1>18 DEF RequestEnds
    <2>7. ItemTypes'
      BY <2>3, <2>4, <2>5
    <2>8. LoopTypes'
      BY <2>6, EndType
    <2>9. /\ late' \in Instructions \cup {Nothing}
          /\ mutated' \subseteq Int
      BY <1>18 DEF RequestEnds, TypeOK
    <2>. QED  BY <1>18, <2>7, <2>8, <2>9, ItemOnlyType DEF RequestEnds
  <1>19. CASE LateSecretsResolve
    <2>1. late \in Instructions
      BY <1>19 DEF LateSecretsResolve, TypeOK
    <2>3. \/ ItemReturns(late, TRUE, NoRequest, pool)
          \/ /\ pool' = Append(pool, late)
             /\ UNCHANGED <<cursor, item, stopped, thrown>>
      BY <1>19 DEF LateSecretsResolve
    <2>4. ASSUME ItemReturns(late, TRUE, NoRequest, pool) PROVE ItemTypes'
      BY <2>1, <2>4, NoRequestType, ItemReturnsType DEF TypeOK
    <2>5. ASSUME /\ pool' = Append(pool, late)
                 /\ UNCHANGED <<cursor, item, stopped, thrown>>
          PROVE  ItemTypes'
      <3>1. pool' \in Seq(Instructions)
        BY <2>1, <2>5 DEF TypeOK
      <3>. QED  BY <2>5, <3>1 DEF ItemTypes, TypeOK, CursorType
    <2>7. ItemTypes'
      BY <2>3, <2>4, <2>5
    <2>. QED  BY <1>19, <2>7
              DEF LateSecretsResolve, ItemTypes, TypeOK, CursorType, controlVars, iterationVars, endVars,
                  boundVars
  <1>20. CASE ResumeFires
    <2>1. Tail(ticks) \in Seq({"proceed", "resume"})
      BY <1>20, QueueHead DEF ResumeFires, TypeOK
    <2>2. ticks' \in Seq({"proceed", "resume"})
      BY <1>20, <2>1, TicksType DEF ResumeFires
    <2>3. /\ phase' \in {"idle", "initialising", "next", "running", "ended", "over"}
          /\ current' \in Instructions \cup {Nothing}
          /\ failed' \in BOOLEAN
      BY <1>20 DEF ResumeFires, TypeOK
    <2>4. stored' = FALSE /\ thrown' \in {"no", "resume", "seek"}
      BY <1>20 DEF ResumeFires, TypeOK
    <2>. QED  BY <1>20, <2>2, <2>3, <2>4
              DEF ResumeFires, TypeOK, controlVars, iterationVars, itemVars, endVars,
                  boundVars
  <1>21. CASE GlobalTimeoutFires
    BY <1>21 DEF GlobalTimeoutFires, TypeOK, controlVars, iterationVars, itemVars, endVars, boundVars
  <1>22. CASE Pause
    <2>1. pool' \in Seq(Instructions)
      BY <1>22, ControlType, Prepended DEF Pause, ControlCommands, TypeOK
    <2>. QED  BY <1>22, <2>1 DEF Pause, TypeOK, controlVars, iterationVars, itemVars, endVars, boundVars
  <1>23. CASE Resume
    <2>1. ticks' \in Seq({"proceed", "resume"})
      BY <1>23, TicksType DEF Resume, TypeOK
    <2>2. paused' \in BOOLEAN
      BY <1>23 DEF Resume
    <2>3. UNCHANGED <<phase, pool, current, failed, late, aborted, stored, iterationVars,
                      itemVars, endVars, thrown, boundVars>>
      BY <1>23 DEF Resume
    <2>. QED  BY <2>1, <2>2, <2>3
              DEF TypeOK, controlVars, iterationVars, itemVars, endVars,
                  boundVars
  <1>24. CASE Abort
    <2>1. pool' \in Seq(Instructions)
      BY <1>24, ControlType, Prepended DEF Abort, ControlCommands, TypeOK
    <2>2. ticks' \in Seq({"proceed", "resume"})
      BY <1>24, TicksType DEF Abort, TypeOK
    <2>3. /\ paused' \in BOOLEAN
          /\ aborts' \in Nat
      <3>1. (paused' = paused) \/ (paused' = FALSE)
        BY <1>24 DEF Abort
      <3>2. paused' \in BOOLEAN
        BY <3>1 DEF TypeOK
      <3>3. aborts' \in Nat
        BY <1>24 DEF Abort, TypeOK
      <3>. QED  BY <3>2, <3>3
    <2>4. UNCHANGED <<phase, current, failed, late, aborted, stored, iterationVars, itemVars,
                      endVars, thrown, pauses>>
      BY <1>24 DEF Abort
    <2>. QED  BY <2>1, <2>2, <2>3, <2>4
              DEF TypeOK, controlVars, iterationVars, itemVars, endVars,
                  boundVars
  <1>25. CASE ExecutePause
    <2>1. Head(pool) \in Instructions /\ Tail(pool) \in Seq(Instructions)
      BY <1>25, QueueHead DEF ExecutePause, Executes, TypeOK
    <2>2. End(TRUE) \/ Wait(Head(pool))
      BY <1>25 DEF ExecutePause
    <2>3. pool' = Tail(pool) /\ stored' = TRUE
      BY <1>25 DEF ExecutePause
    <2>4. LoopTypes'
      BY <2>1, <2>2, WaitType, EndType
    <2>. QED  BY <1>25, <2>1, <2>3, <2>4
              DEF ExecutePause, TypeOK, LoopTypes, controlVars, iterationVars, itemVars, endVars,
                  boundVars
  <1>26. CASE ExecuteAbort
    <2>1. PICK throws \in CallbackThrows : End(throws /\ ~aborted)
      BY <1>26 DEF ExecuteAbort
    <2>2. (throws /\ ~aborted) \in BOOLEAN
      OBVIOUS
    <2>3. LoopTypes'
      BY <2>1, <2>2, EndType
    <2>4. pool' = <<>> /\ aborted' = TRUE
      BY <1>26 DEF ExecuteAbort
    <2>. QED  BY <1>26, <2>3, <2>4
              DEF ExecuteAbort, TypeOK, LoopTypes, controlVars, iterationVars, itemVars, endVars,
                  boundVars
  <1>27. CASE UNCHANGED vars
    BY <1>27 DEF vars, loopVars, TypeOK, controlVars, iterationVars, itemVars, endVars, boundVars
  <1>. QED  BY <1>1, <1>2, <1>3, <1>4, <1>5, <1>6, <1>7, <1>8, <1>9,
               <1>10, <1>11, <1>12, <1>13, <1>14, <1>15, <1>16, <1>17,
               <1>18, <1>19, <1>20, <1>21, <1>22, <1>23, <1>24, <1>25,
               <1>26, <1>27
            DEF Next, Loop, Answer, Host

(* The state is well-formed in every reachable state, whatever the size of  *)
(* the collection, the options, and what scripts, network and host do.      *)
THEOREM TypeCorrect == Spec => []TypeOK
  BY InitType, NextType, PTL DEF Spec

(* The timer of the instruction that ended: one while phase is "ended",     *)
(* none otherwise.                                                          *)
NoProceedIn(queue) == \A i \in DOMAIN queue : queue[i] # "proceed"
OneProceedIn(queue) ==
    \A i, j \in DOMAIN queue : queue[i] = "proceed" /\ queue[j] = "proceed" => i = j
Ticking == OneProceedIn(ticks) /\ (phase # "ended" => NoProceedIn(ticks))

(* Before the loop has begun there is no flow, and between two commands     *)
(* none is running.                                                         *)
Resting ==
    /\ phase # "running" => current = Nothing
    /\ late = Nothing \/ IsFlow(late)
    /\ phase \in {"idle", "initialising"} => NoFlowIn(pool) /\ late = Nothing /\ ~aborted

(***************************************************************************)
(* Queues                                                                  *)
(***************************************************************************)
LEMMA NoFlowAppend ==
    ASSUME NEW q \in Seq(Instructions), NEW x \in Instructions, NoFlowIn(q)
    PROVE  OneFlowIn(Append(q, x))
  BY AppendProperties DEF NoFlowIn, OneFlowIn

LEMMA NoFlowIsOneFlow ==
    ASSUME NEW q \in Seq(Instructions), NoFlowIn(q)
    PROVE  OneFlowIn(q)
  BY DEF NoFlowIn, OneFlowIn

LEMMA FlowPrepend ==
    ASSUME NEW q \in Seq(Instructions), NEW x \in Instructions, ~IsFlow(x)
    PROVE  /\ NoFlowIn(q) => NoFlowIn(<<x>> \o q)
           /\ OneFlowIn(q) => OneFlowIn(<<x>> \o q)
  <1>1. <<x>> \in Seq(Instructions) /\ Len(<<x>>) = 1 /\ <<x>>[1] = x
    OBVIOUS
  <1>2. /\ <<x>> \o q \in Seq(Instructions)
        /\ Len(<<x>> \o q) = 1 + Len(q)
        /\ \A i \in 1 .. 1 + Len(q) : (<<x>> \o q)[i] = IF i <= 1 THEN x ELSE q[i - 1]
    BY <1>1, ConcatProperties
  <1>. DEFINE r == <<x>> \o q
  <1>. HIDE DEF r
  <1>3. \A i \in DOMAIN r : IsFlow(r[i]) => i - 1 \in DOMAIN q /\ r[i] = q[i - 1]
    BY <1>2 DEF r
  <1>. QED  BY <1>2, <1>3 DEF NoFlowIn, OneFlowIn, r

LEMMA FlowTail ==
    ASSUME NEW q \in Seq(Instructions), q # <<>>
    PROVE  /\ NoFlowIn(q) => NoFlowIn(Tail(q)) /\ ~IsFlow(Head(q))
           /\ OneFlowIn(q) => OneFlowIn(Tail(q))
           /\ OneFlowIn(q) /\ IsFlow(Head(q)) => NoFlowIn(Tail(q))
  <1>1. /\ Tail(q) \in Seq(Instructions) /\ Len(Tail(q)) = Len(q) - 1
        /\ \A i \in 1 .. Len(Tail(q)) : Tail(q)[i] = q[i + 1]
        /\ Head(q) = q[1] /\ Len(q) >= 1
    BY HeadTailProperties
  <1>. DEFINE r == Tail(q)
  <1>. HIDE DEF r
  <1>2. \A i \in DOMAIN r : i + 1 \in DOMAIN q /\ r[i] = q[i + 1] /\ i \in Nat \ {0}
    BY <1>1 DEF r
  <1>3. 1 \in DOMAIN q
    BY <1>1
  <1>. QED  BY <1>1, <1>2, <1>3 DEF NoFlowIn, OneFlowIn, r

LEMMA ProceedAppend ==
    ASSUME NEW q \in Seq({"proceed", "resume"})
    PROVE  /\ NoProceedIn(q) => OneProceedIn(Append(q, "proceed"))
           /\ NoProceedIn(q) => NoProceedIn(Append(q, "resume"))
           /\ OneProceedIn(q) => OneProceedIn(Append(q, "resume"))
  <1>. DEFINE p == Append(q, "proceed")
              r == Append(q, "resume")
  <1>1. /\ Len(p) = Len(q) + 1 /\ Len(r) = Len(q) + 1 /\ Len(q) \in Nat
        /\ DOMAIN p = 1 .. Len(q) + 1 /\ DOMAIN r = 1 .. Len(q) + 1
        /\ DOMAIN q = 1 .. Len(q)
        /\ \A i \in 1 .. Len(q) : p[i] = q[i] /\ r[i] = q[i]
        /\ r[Len(q) + 1] = "resume"
    OBVIOUS
  <1>. HIDE DEF p, r
  <1>2. \A i \in DOMAIN r : r[i] = "proceed" => i \in DOMAIN q /\ r[i] = q[i]
    BY <1>1
  <1>3. NoProceedIn(q) => \A i \in DOMAIN p : p[i] = "proceed" => i = Len(q) + 1
    BY <1>1 DEF NoProceedIn
  <1>. QED  BY <1>2, <1>3 DEF NoProceedIn, OneProceedIn, p, r

LEMMA ProceedTail ==
    ASSUME NEW q \in Seq({"proceed", "resume"}), q # <<>>
    PROVE  /\ NoProceedIn(q) => NoProceedIn(Tail(q)) /\ Head(q) # "proceed"
           /\ OneProceedIn(q) => OneProceedIn(Tail(q))
           /\ OneProceedIn(q) /\ Head(q) = "proceed" => NoProceedIn(Tail(q))
  <1>1. /\ Tail(q) \in Seq({"proceed", "resume"}) /\ Len(Tail(q)) = Len(q) - 1
        /\ \A i \in 1 .. Len(Tail(q)) : Tail(q)[i] = q[i + 1]
        /\ Head(q) = q[1] /\ Len(q) >= 1
    BY HeadTailProperties
  <1>. DEFINE r == Tail(q)
  <1>. HIDE DEF r
  <1>2. \A i \in DOMAIN r : i + 1 \in DOMAIN q /\ r[i] = q[i + 1] /\ i \in Nat \ {0}
    BY <1>1 DEF r
  <1>3. 1 \in DOMAIN q
    BY <1>1
  <1>. QED  BY <1>1, <1>2, <1>3 DEF NoProceedIn, OneProceedIn, r

(***************************************************************************)
(* One flow                                                                *)
(***************************************************************************)
FlowInv == TypeOK /\ Ticking /\ Resting /\ OneFlow

(* An instruction that calls next() leaves the loop resting, with one timer.*)
LEMMA EndTicks ==
    ASSUME TypeOK, NoProceedIn(ticks), NEW err, End(err)
    PROVE  Ticking' /\ phase' = "ended" /\ current' = Nothing
  BY ProceedAppend DEF TypeOK, End, Ticking

LEMMA ItemReturnsFlow ==
    ASSUME TypeOK, NEW flow \in Instructions, NEW err, NEW snr \in Snrs,
           NEW queue \in Seq(Instructions), ItemReturns(flow, err, snr, queue),
           NoFlowIn(queue)
    PROVE  OneFlowIn(pool')
  <1>. DEFINE next == ProcessExecutionResult(flow, snr, err, Length, DisableSNR, StopOnFailure)
              x == Waterfall(next.position, flow.iteration, ModeAfter(next))
  <1>1. next.position \in Int /\ flow.iteration \in Int
    BY ResultType, SizeAssumption, InstructionFields
  <1>2. x \in Instructions
    BY <1>1, WaterfallType DEF ModeAfter, Modes
  <1>3. pool' = queue \/ pool' = Append(queue, x)
    BY DEF ItemReturns
  <1>. HIDE DEF x
  <1>. QED  BY <1>2, <1>3, NoFlowAppend, NoFlowIsOneFlow

LEMMA FlowCommand ==
    ASSUME NEW x, x.cmd \in FlowCommands
    PROVE  IsFlow(x)
  BY DEF IsFlow

LEMMA ControlIsNotFlow ==
    ASSUME NEW x, x.cmd \in ControlCommands
    PROVE  ~IsFlow(x)
  BY DEF IsFlow, ControlCommands, FlowCommands, ItemCommands

LEMMA ExecutesFlow ==
    ASSUME FlowInv, NEW cmd \in FlowCommands, Executes(cmd)
    PROVE  /\ Head(pool) \in Instructions /\ Tail(pool) \in Seq(Instructions)
           /\ IsFlow(Head(pool)) /\ NoFlowIn(Tail(pool))
           /\ late = Nothing /\ current = Nothing
           /\ NoProceedIn(ticks)
  <1>1. pool # <<>> /\ pool \in Seq(Instructions) /\ Head(pool).cmd = cmd /\ phase = "next"
    BY DEF FlowInv, TypeOK, Executes
  <1>2. IsFlow(Head(pool))
    BY <1>1, FlowCommand
  <1>3. ~NoFlowIn(pool)
    BY <1>1, <1>2, FlowTail
  <1>4. late = Nothing
    BY <1>3 DEF FlowInv, OneFlow, Resting
  <1>. QED  BY <1>1, <1>2, <1>4, FlowTail, QueueHead DEF FlowInv, OneFlow, Resting, Ticking

LEMMA RunsFlow ==
    ASSUME FlowInv, phase = "running", current.cmd \in FlowCommands
    PROVE  /\ current \in Instructions /\ pool \in Seq(Instructions)
           /\ NoFlowIn(pool) /\ late = Nothing /\ NoProceedIn(ticks)
  <1>1. IsFlow(current)
    BY FlowCommand
  <1>2. current \in Instructions
    BY CommandOfInstruction DEF FlowInv, TypeOK
  <1>. QED  BY <1>1, <1>2 DEF FlowInv, OneFlow, Resting, Ticking, TypeOK

(* How a step of the flow ends: the command is complete and the flow is in  *)
(* the queue or nowhere, or the command waits and has the flow.             *)
LEMMA FlowEnds ==
    ASSUME FlowInv, TypeOK', NoProceedIn(ticks), NEW err, End(err),
           OneFlowIn(pool'), late' = Nothing
    PROVE  FlowInv'
  <1>1. Ticking' /\ phase' = "ended" /\ current' = Nothing
    BY EndTicks DEF FlowInv
  <1>2. Resting'
    BY <1>1 DEF Resting
  <1>3. OneFlow'
    BY <1>1, NothingIsNotFlow DEF OneFlow
  <1>. QED  BY <1>1, <1>2, <1>3 DEF FlowInv

LEMMA FlowWaits ==
    ASSUME FlowInv, TypeOK', NoProceedIn(ticks), NEW instruction, Wait(instruction),
           NoFlowIn(pool'), pool' \in Seq(Instructions), late' = Nothing
    PROVE  FlowInv'
  <1>1. Ticking'
    BY DEF FlowInv, Ticking, Wait
  <1>2. Resting'
    BY DEF Resting, Wait
  <1>3. OneFlow'
    BY NothingIsNotFlow, NoFlowIsOneFlow DEF OneFlow
  <1>. QED  BY <1>1, <1>2, <1>3 DEF FlowInv

LEMMA ItemFlowFlow ==
    ASSUME FlowInv, TypeOK', NoProceedIn(ticks), NEW flow \in Instructions,
           NEW queue \in Seq(Instructions), NoFlowIn(queue), NEW fatal \in BOOLEAN,
           ItemFlow(flow, queue, fatal), late' = Nothing
    PROVE  FlowInv'
  <1>. DEFINE first == QueueDelay(ItemDelay, "item delay", Then(flow, "prerequest"))
  <1>1. first \in Instructions
    BY ThenType DEF QueueDelay, FlowCommands, ItemCommands, Then, Instructions
  <1>2. \/ ItemReturns(flow, TRUE, NoRequest, queue)
        \/ pool' = Append(queue, first)
    BY DEF ItemFlow
  <1>3. OneFlowIn(pool')
    <2>. HIDE DEF first
    <2>. QED  BY <1>1, <1>2, ItemReturnsFlow, NoRequestType, NoFlowAppend DEF FlowInv
  <1>4. End(FALSE)
    BY DEF ItemFlow
  <1>. QED  BY <1>3, <1>4, FlowEnds

LEMMA InitFlow == Init => FlowInv
  <1>. SUFFICES ASSUME Init PROVE FlowInv
    OBVIOUS
  <1>1. TypeOK
    BY InitType
  <1>2. Ticking
    BY DEF Init, Ticking, NoProceedIn, OneProceedIn
  <1>3. NoFlowIn(pool) /\ OneFlowIn(pool)
    BY DEF Init, NoFlowIn, OneFlowIn
  <1>. QED  BY <1>1, <1>2, <1>3, NothingIsNotFlow DEF Init, FlowInv, Resting, OneFlow

LEMMA NextFlow == FlowInv /\ [Next]_vars => FlowInv'
  <1>. SUFFICES ASSUME FlowInv, [Next]_vars PROVE FlowInv'
    OBVIOUS
  <1>0. TypeOK'
    BY NextType DEF FlowInv
  <1>1. CASE Start
    BY <1>0, <1>1 DEF Start, FlowInv, Ticking, Resting, OneFlow, controlVars
  <1>2. CASE Initialised
    <2>1. Waterfall(cursor.position, cursor.iteration, "start") \in Instructions
      BY WaterfallType DEF FlowInv, TypeOK, Modes
    <2>2. OneFlowIn(pool')
      BY <1>2, <2>1, NoFlowAppend DEF Initialised, FlowInv, Resting, TypeOK
    <2>3. UNCHANGED <<current, late, ticks>> /\ late = Nothing /\ current = Nothing
      BY <1>2 DEF Initialised, FlowInv, Resting
    <2>4. phase = "initialising" /\ phase' = "next"
      BY <1>2 DEF Initialised
    <2>5. OneFlow'
      BY <2>2, <2>3, NothingIsNotFlow DEF OneFlow
    <2>. QED  BY <1>0, <2>3, <2>4, <2>5 DEF FlowInv, Ticking, Resting
  <1>3. CASE InitialiserFailed
    BY <1>0, <1>3 DEF InitialiserFailed, FlowInv, Ticking, Resting, OneFlow, controlVars
  <1>4. CASE Proceed
    <2>1. NoProceedIn(ticks')
      BY <1>4, ProceedTail DEF Proceed, FlowInv, Ticking, TypeOK
    <2>2. phase = "ended"
      BY <1>4, ProceedTail DEF Proceed, FlowInv, Ticking, TypeOK
    <2>3. Ticking'
      BY <2>1 DEF Ticking, NoProceedIn, OneProceedIn
    <2>4. UNCHANGED <<pool, current, late>> /\ phase' = "next"
      BY <1>4 DEF Proceed
    <2>. QED  BY <1>0, <2>2, <2>3, <2>4 DEF FlowInv, Resting, OneFlow
  <1>5. CASE LoopFails
    BY <1>0, <1>5 DEF LoopFails, Done, FlowInv, Ticking, Resting, OneFlow, controlVars
  <1>6. CASE LoopEnds
    BY <1>0, <1>6 DEF LoopEnds, Done, FlowInv, Ticking, Resting, OneFlow, controlVars
  <1>7. CASE ExecuteWaterfall
    <2>1. PICK cmd \in FlowCommands : Executes(cmd)
      BY <1>7 DEF ExecuteWaterfall, FlowCommands, ItemCommands
    <2>2. /\ Head(pool) \in Instructions /\ Tail(pool) \in Seq(Instructions)
          /\ IsFlow(Head(pool)) /\ NoFlowIn(Tail(pool))
          /\ late = Nothing /\ current = Nothing
          /\ NoProceedIn(ticks)
      BY <2>1, ExecutesFlow
    <2>. DEFINE h == Head(pool)
                coords == Target(h)
                next == QueueDelay(coords.cr /\ IterationDelay, "iteration delay",
                                   Item(coords.position, coords.iteration))
    <2>3. next \in Instructions
      <3>1. coords.position \in Int /\ coords.iteration \in Int
        BY <2>2, TargetType DEF FlowInv, TypeOK, CursorType
      <3>2. Item(coords.position, coords.iteration) \in Instructions
        BY <3>1, WaterfallType DEF Modes
      <3>. QED  BY <3>2, ThenType DEF QueueDelay, FlowCommands
    <2>4. pool' \in {Tail(pool), Append(Tail(pool), next)}
      <3>1. h.mode \in Modes
        BY <2>2, InstructionFields
      <3>. HIDE DEF next, coords
      <3>. QED  BY <1>7, <3>1 DEF ExecuteWaterfall, Modes, next, coords
    <2>5. OneFlowIn(pool')
      <3>. HIDE DEF next
      <3>. QED  BY <2>2, <2>3, <2>4, NoFlowAppend, NoFlowIsOneFlow
    <2>6. End(FALSE) /\ late' = late
      BY <1>7 DEF ExecuteWaterfall
    <2>. QED  BY <2>2, <2>5, <2>6, FlowEnds, <1>0
  <1>8. CASE ExecuteDelay
    <2>1. PICK cmd \in FlowCommands : Executes(cmd)
      BY <1>8 DEF ExecuteDelay, FlowCommands, ItemCommands
    <2>2. /\ Head(pool) \in Instructions /\ Tail(pool) \in Seq(Instructions)
          /\ IsFlow(Head(pool)) /\ NoFlowIn(Tail(pool))
          /\ late = Nothing /\ current = Nothing
          /\ NoProceedIn(ticks)
      BY <2>1, ExecutesFlow
    <2>3. Wait(Head(pool)) /\ pool' = Tail(pool) /\ late' = late
      BY <1>8 DEF ExecuteDelay
    <2>. QED  BY <2>2, <2>3, FlowWaits, <1>0
  <1>9. CASE DelayElapses
    <2>1. /\ current \in Instructions /\ pool \in Seq(Instructions)
          /\ NoFlowIn(pool) /\ late = Nothing /\ NoProceedIn(ticks)
      BY <1>9, RunsFlow DEF DelayElapses, FlowCommands, ItemCommands
    <2>. DEFINE next == Then(current, IF current.cmd = "item delay" THEN "prerequest" ELSE "item")
    <2>2. next \in Instructions
      BY <2>1, ThenType DEF FlowCommands, ItemCommands
    <2>3. pool' = Append(pool, next) /\ End(FALSE) /\ late' = late
      BY <1>9 DEF DelayElapses
    <2>4. OneFlowIn(pool')
      <3>. HIDE DEF next
      <3>. QED  BY <2>1, <2>2, <2>3, NoFlowAppend
    <2>. QED  BY <2>1, <2>3, <2>4, FlowEnds, <1>0
  <1>10. CASE ExecuteItem
    <2>1. PICK cmd \in FlowCommands : Executes(cmd)
      BY <1>10 DEF ExecuteItem, FlowCommands, ItemCommands
    <2>2. /\ Head(pool) \in Instructions /\ Tail(pool) \in Seq(Instructions)
          /\ IsFlow(Head(pool)) /\ NoFlowIn(Tail(pool))
          /\ late = Nothing /\ current = Nothing
          /\ NoProceedIn(ticks)
      BY <2>1, ExecutesFlow
    <2>. DEFINE flow == [Head(pool) EXCEPT !.mutated = Head(pool).position \in mutated]
    <2>3. flow \in Instructions
      <3>1. (Head(pool).position \in mutated) \in BOOLEAN
        OBVIOUS
      <3>. QED  BY <2>2, <3>1, CloneType
    <2>4. late' = Nothing
      BY <1>10, <2>2 DEF ExecuteItem
    <2>5. CASE Wait(flow) /\ pool' = Tail(pool)
      <3>. HIDE DEF flow
      <3>. QED  BY <2>2, <2>4, <2>5, FlowWaits, <1>0
    <2>6. CASE ItemFlow(flow, Tail(pool), FALSE)
      BY <2>2, <2>3, <2>4, <2>6, ItemFlowFlow, <1>0
    <2>7. CASE ItemFlow(flow, Tail(pool), TRUE)
      BY <2>2, <2>3, <2>4, <2>7, ItemFlowFlow, <1>0
    <2>. QED  BY <1>10, <2>5, <2>6, <2>7 DEF ExecuteItem
  <1>11. CASE SecretsResolve
    <2>1. /\ current \in Instructions /\ pool \in Seq(Instructions)
          /\ NoFlowIn(pool) /\ late = Nothing /\ NoProceedIn(ticks)
      BY <1>11, RunsFlow DEF SecretsResolve, FlowCommands, ItemCommands
    <2>2. PICK fatal \in Failures : ItemFlow(current, pool, fatal)
      BY <1>11 DEF SecretsResolve
    <2>3. fatal \in BOOLEAN
      BY OutcomesAssumption
    <2>4. late' = Nothing
      BY <1>11, <2>1 DEF SecretsResolve
    <2>. QED  BY <2>1, <2>2, <2>3, <2>4, ItemFlowFlow, <1>0
  <1>12. CASE ExecuteEvent
    <2>1. PICK cmd \in FlowCommands : Executes(cmd)
      BY <1>12 DEF ExecuteEvent, FlowCommands, ItemCommands
    <2>2. /\ Head(pool) \in Instructions /\ Tail(pool) \in Seq(Instructions)
          /\ IsFlow(Head(pool)) /\ NoFlowIn(Tail(pool))
          /\ late = Nothing /\ current = Nothing
          /\ NoProceedIn(ticks)
      BY <2>1, ExecutesFlow
    <2>3. Wait(Head(pool)) /\ pool' = Tail(pool) /\ late' = late
      BY <1>12 DEF ExecuteEvent
    <2>. QED  BY <2>2, <2>3, FlowWaits, <1>0
  <1>13. CASE EventAborts
    <2>1. /\ current \in Instructions /\ pool \in Seq(Instructions)
          /\ NoFlowIn(pool) /\ late = Nothing /\ NoProceedIn(ticks)
      BY <1>13, RunsFlow DEF EventAborts, FlowCommands, ItemCommands
    <2>2. End(TRUE) /\ pool' = pool /\ late' = late
      BY <1>13 DEF EventAborts
    <2>. QED  BY <2>1, <2>2, NoFlowIsOneFlow, FlowEnds, <1>0
  <1>14. CASE PrerequestEnds
    <2>1. /\ current \in Instructions /\ pool \in Seq(Instructions)
          /\ NoFlowIn(pool) /\ late = Nothing /\ NoProceedIn(ticks)
      BY <1>14, RunsFlow DEF PrerequestEnds, FlowCommands, ItemCommands
    <2>2. End(FALSE)
      BY <1>14 DEF PrerequestEnds
    <2>3. PICK outcome \in Outcomes :
             IF EventError("prerequest", outcome) \/ outcome.skips
             THEN /\ ItemReturns(current, EventError("prerequest", outcome), outcome.snr, pool)
                  /\ UNCHANGED <<mutated, late>>
             ELSE /\ mutated' = IF outcome.mutates
                                THEN mutated \cup {current.position} ELSE mutated
                  /\ ProceedWithRequest([current EXCEPT !.cmd = "request",
                                                        !.snr = outcome.snr],
                                        outcome.mutates)
      BY <1>14 DEF PrerequestEnds
    <2>. DEFINE flow == [current EXCEPT !.cmd = "request", !.snr = outcome.snr]
    <2>4. outcome.snr \in Snrs
      BY OutcomesAssumption DEF Outcomes
    <2>5. flow \in Instructions
      BY <2>1, <2>4 DEF Instructions, FlowCommands, ItemCommands
    <2>6. IsFlow(flow)
      <3>1. flow.cmd = "request"
        BY <2>1 DEF Instructions
      <3>. QED  BY <3>1 DEF IsFlow, FlowCommands, ItemCommands
    <2>. HIDE DEF flow
    <2>7. CASE EventError("prerequest", outcome) \/ outcome.skips
      <3>1. /\ ItemReturns(current, EventError("prerequest", outcome), outcome.snr, pool)
            /\ UNCHANGED late
        BY <2>3, <2>7
      <3>2. OneFlowIn(pool')
        BY <2>1, <2>4, <3>1, ItemReturnsFlow DEF FlowInv
      <3>. QED  BY <2>1, <2>2, <3>1, <3>2, FlowEnds, <1>0
    <2>8. CASE ~(EventError("prerequest", outcome) \/ outcome.skips)
      <3>1. ProceedWithRequest(flow, outcome.mutates)
        BY <2>3, <2>8 DEF flow
      <3>2. CASE ItemReturns(flow, TRUE, NoRequest, pool) /\ UNCHANGED late
        <4>1. OneFlowIn(pool')
          BY <2>1, <2>5, <3>2, NoRequestType, ItemReturnsFlow DEF FlowInv
        <4>. QED  BY <2>1, <2>2, <3>2, <4>1, FlowEnds, <1>0
      <3>3. CASE late' = flow /\ pool' = pool
        <4>1. Ticking' /\ phase' = "ended" /\ current' = Nothing
          BY <2>1, <2>2, EndTicks DEF FlowInv
        <4>2. Resting'
          BY <2>6, <3>3, <4>1 DEF Resting
        <4>3. OneFlow'
          BY <2>1, <3>3, <4>1, NothingIsNotFlow, NoFlowIsOneFlow DEF OneFlow
        <4>. QED  BY <1>0, <4>1, <4>2, <4>3 DEF FlowInv
      <3>4. CASE pool' = Append(pool, flow) /\ UNCHANGED late
        BY <2>1, <2>2, <2>5, <3>4, NoFlowAppend, FlowEnds, <1>0
      <3>. QED  BY <3>1, <3>2, <3>3, <3>4 DEF ProceedWithRequest
    <2>. QED  BY <2>7, <2>8
  <1>15. CASE TestEnds
    <2>1. /\ current \in Instructions /\ pool \in Seq(Instructions)
          /\ NoFlowIn(pool) /\ late = Nothing /\ NoProceedIn(ticks)
      BY <1>15, RunsFlow DEF TestEnds, FlowCommands, ItemCommands
    <2>2. PICK outcome \in Outcomes :
             ItemReturns(current, EventError("test", outcome),
                         Override(current.snr, outcome.snr), pool)
      BY <1>15 DEF TestEnds
    <2>3. Override(current.snr, outcome.snr) \in Snrs
      BY <2>1, OutcomesAssumption, InstructionFields DEF Outcomes, Override
    <2>4. OneFlowIn(pool')
      BY <2>1, <2>2, <2>3, ItemReturnsFlow DEF FlowInv
    <2>5. End(FALSE) /\ late' = late
      BY <1>15 DEF TestEnds
    <2>. QED  BY <2>1, <2>4, <2>5, FlowEnds, <1>0
  <1>16. CASE ExecuteRequest
    <2>1. PICK cmd \in FlowCommands : Executes(cmd)
      BY <1>16 DEF ExecuteRequest, FlowCommands, ItemCommands
    <2>2. /\ Head(pool) \in Instructions /\ Tail(pool) \in Seq(Instructions)
          /\ IsFlow(Head(pool)) /\ NoFlowIn(Tail(pool))
          /\ late = Nothing /\ current = Nothing
          /\ NoProceedIn(ticks)
      BY <2>1, ExecutesFlow
    <2>3. Wait(Head(pool)) /\ pool' = Tail(pool) /\ late' = late
      BY <1>16 DEF ExecuteRequest
    <2>. QED  BY <2>2, <2>3, FlowWaits, <1>0
  <1>17. CASE RequestAborts
    <2>1. /\ current \in Instructions /\ pool \in Seq(Instructions)
          /\ NoFlowIn(pool) /\ late = Nothing /\ NoProceedIn(ticks)
      BY <1>17, RunsFlow DEF RequestAborts, FlowCommands, ItemCommands
    <2>2. End(TRUE) /\ pool' = pool /\ late' = late
      BY <1>17 DEF RequestAborts
    <2>. QED  BY <2>1, <2>2, NoFlowIsOneFlow, FlowEnds, <1>0
  <1>18. CASE RequestEnds
    <2>1. /\ current \in Instructions /\ pool \in Seq(Instructions)
          /\ NoFlowIn(pool) /\ late = Nothing /\ NoProceedIn(ticks)
      BY <1>18, RunsFlow DEF RequestEnds, FlowCommands, ItemCommands
    <2>2. Then(current, "test") \in Instructions
      BY <2>1, ThenType DEF FlowCommands, ItemCommands
    <2>3. \/ ItemReturns(current, TRUE, NoRequest, pool)
          \/ pool' = Append(pool, Then(current, "test"))
      BY <1>18 DEF RequestEnds
    <2>4. OneFlowIn(pool')
      BY <2>1, <2>2, <2>3, NoRequestType, ItemReturnsFlow, NoFlowAppend DEF FlowInv
    <2>5. End(FALSE) /\ late' = late
      BY <1>18 DEF RequestEnds
    <2>. QED  BY <2>1, <2>4, <2>5, FlowEnds, <1>0
  <1>19. CASE LateSecretsResolve
    <2>1. late \in Instructions /\ pool \in Seq(Instructions) /\ IsFlow(late)
      BY <1>19 DEF LateSecretsResolve, FlowInv, TypeOK, Resting
    <2>2. NoFlowIn(pool) /\ ~IsFlow(current)
      BY <2>1 DEF FlowInv, OneFlow
    <2>3. \/ ItemReturns(late, TRUE, NoRequest, pool)
          \/ pool' = Append(pool, late)
      BY <1>19 DEF LateSecretsResolve
    <2>4. OneFlowIn(pool')
      BY <2>1, <2>2, <2>3, NoRequestType, ItemReturnsFlow, NoFlowAppend DEF FlowInv
    <2>5. late' = Nothing /\ UNCHANGED <<phase, current, ticks>>
      BY <1>19 DEF LateSecretsResolve
    <2>6. phase \notin {"idle", "initialising"}
      BY <1>19 DEF LateSecretsResolve, FlowInv, Resting
    <2>7. OneFlow'
      BY <2>2, <2>4, <2>5, NothingIsNotFlow DEF OneFlow
    <2>. QED  BY <1>0, <2>5, <2>6, <2>7 DEF FlowInv, Ticking, Resting
  <1>20. CASE ResumeFires
    <2>1. UNCHANGED <<pool, late, aborted>> /\ ticks # <<>> /\ Head(ticks) = "resume"
      BY <1>20 DEF ResumeFires
    <2>2. ticks \in Seq({"proceed", "resume"}) /\ Tail(ticks) \in Seq({"proceed", "resume"})
      BY <2>1, QueueHead DEF FlowInv, TypeOK
    <2>3. CASE /\ phase = "running" /\ phase' = "ended" /\ current' = Nothing
               /\ ticks' = Append(Tail(ticks), "proceed")
      <3>1. NoProceedIn(Tail(ticks))
        BY <2>1, <2>2, <2>3, ProceedTail DEF FlowInv, Ticking
      <3>2. Ticking'
        BY <2>2, <2>3, <3>1, ProceedAppend DEF Ticking
      <3>3. OneFlow'
        BY <2>1, <2>3, NothingIsNotFlow DEF FlowInv, OneFlow
      <3>. QED  BY <1>0, <2>1, <2>3, <3>2, <3>3 DEF FlowInv, Resting
    <2>4. CASE ticks' = Tail(ticks) /\ UNCHANGED <<phase, current>>
      <3>1. Ticking'
        BY <2>1, <2>2, <2>4, ProceedTail DEF FlowInv, Ticking
      <3>. QED  BY <1>0, <2>1, <2>4, <3>1 DEF FlowInv, Resting, OneFlow
    <2>. QED  BY <1>20, <2>3, <2>4 DEF ResumeFires
  <1>21. CASE GlobalTimeoutFires
    <2>1. pool' = <<>> /\ UNCHANGED <<phase, current, late, ticks, aborted>>
      BY <1>21 DEF GlobalTimeoutFires, controlVars
    <2>2. NoFlowIn(pool') /\ OneFlowIn(pool')
      BY <2>1 DEF NoFlowIn, OneFlowIn
    <2>. QED  BY <1>0, <2>1, <2>2 DEF FlowInv, Ticking, Resting, OneFlow
  <1>22. CASE Pause
    <2>1. Control("pause") \in Instructions /\ ~IsFlow(Control("pause"))
      BY ControlType, ControlIsNotFlow DEF ControlCommands, Control, Waterfall
    <2>2. pool' = <<Control("pause")>> \o pool /\ UNCHANGED <<phase, current, late, aborted>>
      BY <1>22 DEF Pause
    <2>3. /\ NoFlowIn(pool) => NoFlowIn(pool')
          /\ OneFlowIn(pool) => OneFlowIn(pool')
      BY <2>1, <2>2, FlowPrepend DEF FlowInv, TypeOK
    <2>4. Ticking'
      BY <1>22 DEF Pause, FlowInv, Ticking
    <2>. QED  BY <1>0, <2>2, <2>3, <2>4 DEF FlowInv, Resting, OneFlow
  <1>23. CASE Abort
    <2>1. Control("abort") \in Instructions /\ ~IsFlow(Control("abort"))
      BY ControlType, ControlIsNotFlow DEF ControlCommands, Control, Waterfall
    <2>2. pool' = <<Control("abort")>> \o pool /\ UNCHANGED <<phase, current, late, aborted>>
      BY <1>23 DEF Abort
    <2>3. /\ NoFlowIn(pool) => NoFlowIn(pool')
          /\ OneFlowIn(pool) => OneFlowIn(pool')
      BY <2>1, <2>2, FlowPrepend DEF FlowInv, TypeOK
    <2>4. Ticking'
      BY <1>23, ProceedAppend DEF Abort, FlowInv, TypeOK, Ticking
    <2>. QED  BY <1>0, <2>2, <2>3, <2>4 DEF FlowInv, Resting, OneFlow
  <1>24. CASE Resume
    <2>1. Ticking'
      BY <1>24, ProceedAppend DEF Resume, FlowInv, TypeOK, Ticking
    <2>2. UNCHANGED <<phase, pool, current, late, aborted>>
      BY <1>24 DEF Resume
    <2>. QED  BY <1>0, <2>1, <2>2 DEF FlowInv, Resting, OneFlow
  <1>25. CASE ExecutePause
    <2>1. /\ phase = "next" /\ pool # <<>> /\ pool \in Seq(Instructions)
          /\ Head(pool).cmd = "pause"
      BY <1>25 DEF ExecutePause, Executes, FlowInv, TypeOK
    <2>2. NoProceedIn(ticks) /\ current = Nothing
      BY <2>1 DEF FlowInv, Ticking, Resting
    <2>3. pool' = Tail(pool) /\ UNCHANGED late
      BY <1>25 DEF ExecutePause
    <2>4. /\ NoFlowIn(pool) => NoFlowIn(pool')
          /\ OneFlowIn(pool')
      BY <2>1, <2>3, FlowTail DEF FlowInv, OneFlow
    <2>5. CASE End(TRUE)
      <3>1. Ticking' /\ phase' = "ended" /\ current' = Nothing
        BY <2>2, <2>5, EndTicks DEF FlowInv
      <3>. QED  BY <1>0, <2>3, <2>4, <3>1, NothingIsNotFlow DEF FlowInv, Resting, OneFlow
    <2>6. CASE Wait(Head(pool))
      <3>1. ~IsFlow(Head(pool))
        BY <2>1, ControlIsNotFlow DEF ControlCommands
      <3>2. Ticking' /\ phase' = "running" /\ current' = Head(pool)
        BY <2>2, <2>6 DEF Wait, FlowInv, Ticking
      <3>. QED  BY <1>0, <2>3, <2>4, <3>1, <3>2 DEF FlowInv, Resting, OneFlow
    <2>. QED  BY <1>25, <2>5, <2>6 DEF ExecutePause
  <1>26. CASE ExecuteAbort
    <2>1. /\ phase = "next" /\ pool # <<>> /\ pool \in Seq(Instructions)
          /\ Head(pool).cmd = "abort"
      BY <1>26 DEF ExecuteAbort, Executes, FlowInv, TypeOK
    <2>2. NoProceedIn(ticks) /\ current = Nothing
      BY <2>1 DEF FlowInv, Ticking, Resting
    <2>3. PICK throws \in CallbackThrows : End(throws /\ ~aborted)
      BY <1>26 DEF ExecuteAbort
    <2>4. Ticking' /\ phase' = "ended" /\ current' = Nothing
      BY <2>2, <2>3, EndTicks DEF FlowInv
    <2>5. pool' = <<>> /\ UNCHANGED late
      BY <1>26 DEF ExecuteAbort
    <2>6. NoFlowIn(pool') /\ OneFlowIn(pool')
      BY <2>5 DEF NoFlowIn, OneFlowIn
    <2>. QED  BY <1>0, <2>4, <2>5, <2>6, NothingIsNotFlow DEF FlowInv, Resting, OneFlow
  <1>27. CASE UNCHANGED vars
    BY <1>0, <1>27 DEF vars, loopVars, controlVars, FlowInv, Ticking, Resting, OneFlow
  <1>. QED  BY <1>1, <1>2, <1>3, <1>4, <1>5, <1>6, <1>7, <1>8, <1>9,
               <1>10, <1>11, <1>12, <1>13, <1>14, <1>15, <1>16, <1>17,
               <1>18, <1>19, <1>20, <1>21, <1>22, <1>23, <1>24, <1>25,
               <1>26, <1>27
            DEF Next, Loop, Answer, Host

(* "At any time, only one command may be running": in every reachable state *)
(* the flow of the run is in one place only, the queue, the loop or the     *)
(* secret resolver.                                                         *)
THEOREM FlowIsOne == Spec => []OneFlow
  <1>1. Spec => []FlowInv
    BY InitFlow, NextFlow, PTL DEF Spec
  <1>2. FlowInv => OneFlow
    BY DEF FlowInv
  <1>. QED  BY <1>1, <1>2, PTL

(***************************************************************************)
(* Abort                                                                   *)
(***************************************************************************)
(* Without a resolver that answers later nothing waits outside the queue,   *)
(* where the abort command does not see it.                                 *)
AbortInv ==
    /\ FlowInv
    /\ SecretResolver # "async" => late = Nothing /\ AbortIsFinal

LEMMA LateOnlyAsync ==
    ASSUME FlowInv, SecretResolver # "async", late = Nothing, [Next]_vars
    PROVE  late' = Nothing
  <1>1. CASE PrerequestEnds
    <2>1. PICK outcome \in Outcomes :
             \/ UNCHANGED late
             \/ ProceedWithRequest([current EXCEPT !.cmd = "request", !.snr = outcome.snr],
                                   outcome.mutates)
      BY <1>1 DEF PrerequestEnds
    <2>. QED  BY <2>1 DEF ProceedWithRequest
  <1>2. CASE LateSecretsResolve
    BY <1>2 DEF LateSecretsResolve
  <1>3. CASE Loop
    BY <1>3 DEF Loop, Initialised, InitialiserFailed, Proceed, LoopFails, LoopEnds,
                ExecuteWaterfall, ExecuteDelay, ExecuteItem, ExecuteEvent, ExecuteRequest,
                ExecutePause, ExecuteAbort
  <1>4. CASE Answer /\ ~PrerequestEnds
    BY <1>4 DEF Answer, DelayElapses, SecretsResolve, EventAborts, TestEnds, RequestAborts,
                RequestEnds
  <1>5. CASE ResumeFires \/ GlobalTimeoutFires \/ Host
    BY <1>5 DEF ResumeFires, GlobalTimeoutFires, Host, Start, Pause, Resume, Abort
  <1>6. CASE UNCHANGED vars
    BY <1>6 DEF vars, loopVars
  <1>. QED  BY <1>1, <1>2, <1>3, <1>4, <1>5, <1>6 DEF Next

(* In an aborted run no step of the flow is enabled.                        *)
LEMMA AbortedRests ==
    ASSUME FlowInv, NoFlow
    PROVE  /\ \A cmd \in FlowCommands : ~Executes(cmd)
           /\ current.cmd \notin FlowCommands
  <1>1. ASSUME NEW cmd \in FlowCommands, Executes(cmd)
        PROVE  FALSE
    BY <1>1, ExecutesFlow, FlowTail DEF NoFlow, FlowInv, TypeOK, Executes
  <1>2. current.cmd \notin FlowCommands
    BY DEF NoFlow, IsFlow
  <1>. QED  BY <1>1, <1>2

LEMMA NextAbort == AbortInv /\ [Next]_vars => AbortInv'
  <1>. SUFFICES ASSUME FlowInv, FlowInv', [Next]_vars, SecretResolver # "async",
                       late = Nothing, late' = Nothing, AbortIsFinal
                PROVE  AbortIsFinal'
    BY NextFlow, LateOnlyAsync DEF AbortInv
  <1>1. CASE ~aborted
    <2>1. CASE ExecuteAbort
      <3>1. pool' = <<>> /\ current' = Nothing
        BY <2>1 DEF ExecuteAbort, End
      <3>2. NoFlowIn(pool')
        BY <3>1 DEF NoFlowIn
      <3>. QED  BY <3>1, <3>2, NothingIsNotFlow DEF AbortIsFinal, NoFlow
    <2>2. CASE ~ExecuteAbort
      <3>1. aborted' = aborted
        BY <2>2 DEF Next, Loop, Answer, Host, vars, controlVars, Initialised, InitialiserFailed,
                Proceed, LoopFails, LoopEnds, ExecuteWaterfall, ExecuteDelay, ExecuteItem,
                ExecuteEvent, ExecuteRequest, ExecutePause, DelayElapses, SecretsResolve,
                EventAborts, PrerequestEnds, TestEnds, RequestAborts, RequestEnds,
                LateSecretsResolve, ResumeFires, GlobalTimeoutFires, Start, Pause, Resume, Abort
      <3>. QED  BY <1>1, <3>1 DEF AbortIsFinal
    <2>. QED  BY <2>1, <2>2
  <1>2. CASE aborted
    <2>1. NoFlow
      BY <1>2 DEF AbortIsFinal
    <2>2. /\ \A cmd \in FlowCommands : ~Executes(cmd)
          /\ current.cmd \notin FlowCommands
      BY <2>1, AbortedRests
    <2>3. phase \notin {"idle", "initialising"}
      BY <1>2 DEF FlowInv, Resting
    <2>4. ~Start /\ ~Initialised /\ ~InitialiserFailed
      BY <2>3 DEF Start, Initialised, InitialiserFailed
    <2>5. ~(ExecuteWaterfall \/ ExecuteDelay \/ ExecuteItem \/ ExecuteEvent \/ ExecuteRequest)
      BY <2>2 DEF ExecuteWaterfall, ExecuteDelay, ExecuteItem, ExecuteEvent, ExecuteRequest,
                  FlowCommands, ItemCommands
    <2>6. ~(Answer \/ LateSecretsResolve)
      BY <2>2 DEF Answer, DelayElapses, SecretsResolve, EventAborts, PrerequestEnds, TestEnds,
                  RequestAborts, RequestEnds, LateSecretsResolve, FlowCommands, ItemCommands
    <2>7. CASE Proceed \/ LoopFails \/ LoopEnds \/ Resume \/ UNCHANGED vars
      <3>1. pool' = pool /\ current' = current
        BY <2>7 DEF Proceed, LoopFails, LoopEnds, Resume, vars, loopVars
      <3>. QED  BY <2>1, <3>1, NothingIsNotFlow DEF AbortIsFinal, NoFlow
    <2>8. CASE Pause \/ Abort
      <3>1. PICK cmd \in ControlCommands : pool' = <<Control(cmd)>> \o pool
        BY <2>8 DEF Pause, Abort, ControlCommands
      <3>2. Control(cmd) \in Instructions /\ ~IsFlow(Control(cmd))
        BY ControlType, ControlIsNotFlow DEF Control, Waterfall
      <3>3. NoFlowIn(pool')
        BY <2>1, <3>1, <3>2, FlowPrepend DEF NoFlow, FlowInv, TypeOK
      <3>4. current' = current
        BY <2>8 DEF Pause, Abort
      <3>. QED  BY <2>1, <3>3, <3>4, NothingIsNotFlow DEF AbortIsFinal, NoFlow
    <2>9. CASE ResumeFires \/ GlobalTimeoutFires
      <3>1. pool' = pool \/ pool' = <<>>
        BY <2>9 DEF ResumeFires, GlobalTimeoutFires
      <3>2. current' = current \/ current' = Nothing
        BY <2>9 DEF ResumeFires, GlobalTimeoutFires
      <3>3. NoFlowIn(<<>>)
        BY DEF NoFlowIn
      <3>. QED  BY <2>1, <3>1, <3>2, <3>3, NothingIsNotFlow DEF AbortIsFinal, NoFlow
    <2>10. CASE ExecutePause \/ ExecuteAbort
      <3>1. pool # <<>> /\ pool \in Seq(Instructions)
        BY <2>10 DEF ExecutePause, ExecuteAbort, Executes, FlowInv, TypeOK
      <3>2. pool' = Tail(pool) \/ pool' = <<>>
        BY <2>10 DEF ExecutePause, ExecuteAbort
      <3>3. current' = Head(pool) \/ current' = Nothing
        BY <2>10 DEF ExecutePause, ExecuteAbort, End, Wait
      <3>4. NoFlowIn(<<>>)
        BY DEF NoFlowIn
      <3>. QED  BY <2>1, <3>1, <3>2, <3>3, <3>4, FlowTail, NothingIsNotFlow
                DEF AbortIsFinal, NoFlow
    <2>. QED  BY <2>4, <2>5, <2>6, <2>7, <2>8, <2>9, <2>10 DEF Next, Loop, Host
  <1>. QED  BY <1>1, <1>2

(* Once the abort command has run nothing of the run is left that could     *)
(* execute, provided secrets are resolved within the command that asks for  *)
(* them: a resolver that answers later brings its request back.             *)
THEOREM AbortedStaysAborted == Spec => [](SecretResolver # "async" => AbortIsFinal)
  <1>1. Init => AbortInv
    BY InitFlow DEF Init, AbortInv, AbortIsFinal
  <1>2. AbortInv => (SecretResolver # "async" => AbortIsFinal)
    BY DEF AbortInv
  <1>. QED  BY <1>1, <1>2, NextAbort, PTL DEF Spec

(***************************************************************************)
(* Done                                                                    *)
(***************************************************************************)
(* An initialiser that fails calls back past timeback, so that the timer it *)
(* leaves armed calls done again: either cannot happen, or there is no      *)
(* timer.                                                                   *)
InitialisesSafely == TRUE \notin InitFails \/ ~GlobalTimeout

(* done has been called when the timer of the run has fired or the loop is  *)
(* over, and a run that is over has no timer left.                          *)
DoneCount ==
    /\ ~GlobalTimeout => globalTimer = "off"
    /\ phase = "idle" => globalTimer = "off"
    /\ phase # "over" => dones = (IF globalTimer = "fired" THEN 1 ELSE 0)
    /\ phase = "over" => dones = 1 /\ globalTimer # "armed"

DoneInv == FlowInv /\ (InitialisesSafely => DoneCount)

LEMMA NextDone == DoneInv /\ [Next]_vars => DoneInv'
  <1>. SUFFICES ASSUME FlowInv, FlowInv', [Next]_vars, InitialisesSafely, DoneCount
                PROVE  DoneCount'
    BY NextFlow DEF DoneInv, InitialisesSafely
  <1>1. CASE Start
    BY <1>1 DEF Start, DoneCount
  <1>2. CASE InitialiserFailed
    <2>1. ~GlobalTimeout /\ globalTimer = "off" /\ dones = 0
      BY <1>2 DEF InitialiserFailed, DoneCount, InitialisesSafely
    <2>2. globalTimer' = "off" /\ dones' = 1 /\ phase' = "over"
      BY <1>2, <2>1 DEF InitialiserFailed
    <2>. QED  BY <2>2 DEF DoneCount
  <1>3. CASE LoopFails \/ LoopEnds
    BY <1>3 DEF LoopFails, LoopEnds, Done, DoneCount
  <1>4. CASE GlobalTimeoutFires
    BY <1>4 DEF GlobalTimeoutFires, DoneCount
  <1>5. ASSUME UNCHANGED <<globalTimer, dones>>, phase' # "idle" \/ phase = "idle",
               phase = "over" <=> phase' = "over"
        PROVE  DoneCount'
    BY <1>5 DEF DoneCount
  <1>6. CASE Proceed
    <2>1. phase = "ended"
      BY <1>6, ProceedTail DEF Proceed, FlowInv, Ticking, TypeOK
    <2>. QED  BY <1>5, <1>6, <2>1 DEF Proceed, endVars
  <1>7. CASE \/ Initialised \/ ExecuteWaterfall \/ ExecuteDelay \/ ExecuteItem \/ ExecuteEvent
             \/ ExecuteRequest \/ ExecutePause \/ ExecuteAbort
    BY <1>5, <1>7 DEF Initialised, ExecuteWaterfall, ExecuteDelay, ExecuteItem, ExecuteEvent,
                      ExecuteRequest, ExecutePause, ExecuteAbort, Executes, ItemFlow, End, Wait,
                      endVars
  <1>8. CASE Answer
    BY <1>5, <1>8 DEF Answer, DelayElapses, SecretsResolve, EventAborts, PrerequestEnds,
                      TestEnds, RequestAborts, RequestEnds, ItemFlow, End, endVars
  <1>9. CASE LateSecretsResolve \/ ResumeFires \/ Pause \/ Resume \/ Abort
    BY <1>5, <1>9 DEF LateSecretsResolve, ResumeFires, Pause, Resume, Abort, endVars
  <1>10. CASE UNCHANGED vars
    BY <1>5, <1>10 DEF vars, loopVars, endVars
  <1>. QED  BY <1>1, <1>2, <1>3, <1>4, <1>6, <1>7, <1>8, <1>9, <1>10 DEF Next, Loop, Host

LEMMA AlwaysDoneInv == Spec => []DoneInv
  <1>1. Init => DoneInv
    BY InitFlow DEF Init, DoneInv, DoneCount
  <1>. QED  BY <1>1, NextDone, PTL DEF Spec

(* done is called once, whichever comes first of the end of the queue, an   *)
(* error and the global timeout, unless an initialiser fails while the      *)
(* timer is armed.                                                          *)
THEOREM DoneIsOnce == Spec => [](InitialisesSafely => DoneOnce)
  <1>1. DoneInv => (InitialisesSafely => DoneOnce)
    BY DEF DoneInv, DoneCount, DoneOnce
  <1>. QED  BY <1>1, AlwaysDoneInv, PTL

(* Without a global timeout no script and no request starts after done.     *)
THEOREM DoneIsLast == ~GlobalTimeout => (Spec => NothingStartsAfterDone)
  <1>. SUFFICES ASSUME ~GlobalTimeout PROVE Spec => NothingStartsAfterDone
    OBVIOUS
  <1>1. ASSUME DoneInv, [Next]_vars
        PROVE  [dones > 0 /\ current' # current =>
                   current'.cmd \notin {"prerequest", "request", "test"}]_vars
    <2>. SUFFICES ASSUME dones > 0, current' # current
                  PROVE  current'.cmd \notin {"prerequest", "request", "test"}
      OBVIOUS
    <2>1. phase = "over" /\ current = Nothing
      BY <1>1 DEF DoneInv, DoneCount, InitialisesSafely, FlowInv, Resting
    <2>2. ~Proceed
      BY <1>1, <2>1, ProceedTail DEF Proceed, DoneInv, FlowInv, Ticking, TypeOK
    <2>3. ~Loop /\ ~Answer
      BY <2>1, <2>2 DEF Loop, Answer, Initialised, InitialiserFailed, LoopFails, LoopEnds,
             ExecuteWaterfall, ExecuteDelay, ExecuteItem, ExecuteEvent, ExecuteRequest,
             ExecutePause, ExecuteAbort, Executes, DelayElapses, SecretsResolve, EventAborts,
             PrerequestEnds, TestEnds, RequestAborts, RequestEnds
    <2>4. current' = current
      BY <1>1, <2>1, <2>3 DEF Next, LateSecretsResolve, ResumeFires, GlobalTimeoutFires, Host,
             Start, Pause, Resume, Abort, vars, loopVars
    <2>. QED  BY <2>4
  <1>. QED  BY <1>1, AlwaysDoneInv, PTL DEF Spec, NothingStartsAfterDone

(***************************************************************************)
(* Where a run goes: that iterations open and close in turn, that items     *)
(* follow each other, that an error stops what it should, that requests are *)
(* restored, that a run that comes to its end is complete, and that it      *)
(* keeps its contract.                                                      *)
(*                                                                          *)
(* A run has one flow, and all of this is about what happens to it.  The    *)
(* lemma Moves says once and for all what a step can do with the flow; the  *)
(* invariants that follow look at these moves instead of the actions.       *)
(***************************************************************************)

(***************************************************************************)
(* The moves of the flow                                                   *)
(***************************************************************************)
pathVars == <<opened, closed, cursor, item, stopped, mutated>>

(* The commands during which the item is open, wherever they are.           *)
OpenCommands == {"item delay", "prerequest", "request", "test"}

Queued(y) == IsFlow(y) /\ \E i \in DOMAIN pool : pool[i] = y
Taken(y) == IsFlow(y) /\ (y = current \/ y = late)

(* The flow is at the instruction y, whose item is open or not: an item     *)
(* command that waits for secrets has opened it.                            *)
Holds(y, open) ==
    \/ Queued(y) /\ open = (y.cmd \in OpenCommands)
    \/ Taken(y) /\ open = (y.cmd \in OpenCommands \cup {"item"})

(* After the step the flow is at y and nowhere else, or nowhere.            *)
Arrives(y, open) == \A z, b : Holds(z, b)' => z = y /\ b = open
Vanishes == \A z, b : ~Holds(z, b)'

(* The run will not come to its end: it was aborted, its time is up or an   *)
(* error is its result.                                                     *)
Lost == aborted \/ globalTimer = "fired" \/ failed \/ (phase = "over" /\ host # "disposed")

(* The flow stays at its instruction, or is lost.                           *)
Rests ==
    /\ UNCHANGED pathVars
    /\ thrown' = thrown \/ thrown' = "resume"
    /\ \A z, b : Holds(z, b)' => Holds(z, b)
    /\ NoFlow' => NoFlow \/ Lost'

(* The initialisers queue the first instruction.                            *)
Begins ==
    /\ phase = "initialising"
    /\ UNCHANGED <<pathVars, thrown>>
    /\ Arrives(Waterfall(cursor.position, cursor.iteration, "start"), FALSE)
    /\ ~NoFlow'

SamePlace(x, y) == y.position = x.position /\ y.iteration = x.iteration

(* The flow goes on to the next command of its item.                        *)
GoesOn(x, y, open) ==
    /\ Holds(x, open) /\ Arrives(y, open) /\ ~NoFlow'
    /\ SamePlace(x, y)
    /\ UNCHANGED <<pathVars, thrown>>
    /\ y.snr = x.snr /\ y.mutated = x.mutated
    /\ \/ x.cmd = "iteration delay" /\ y.cmd = "item"
       \/ x.cmd = "item delay" /\ y.cmd = "prerequest"
       \/ x.cmd = "request" /\ y.cmd = "test"

(* From the pre-request scripts, with what they asked for, to the request.  *)
Requests(x, y) ==
    /\ Holds(x, TRUE) /\ Arrives(y, TRUE) /\ ~NoFlow'
    /\ SamePlace(x, y)
    /\ x.cmd = "prerequest" /\ y.cmd = "request"
    /\ y.snr \in NextRequests /\ y.mutated = x.mutated
    /\ UNCHANGED <<opened, closed, cursor, item, stopped, thrown>>
    /\ mutated' = mutated \/ mutated' = mutated \cup {x.position}

(* An item is opened, or its secrets have been resolved.                    *)
OpensItem(x, y, open) ==
    /\ Holds(x, open) /\ Arrives(y, TRUE) /\ ~NoFlow'
    /\ SamePlace(x, y)
    /\ x.cmd = "item" /\ y.cmd \in {"item", "item delay", "prerequest"}
    /\ y.snr = x.snr /\ y.mutated \in {x.mutated, x.position \in mutated}
    /\ item' = Seen(x, TRUE)
    /\ UNCHANGED <<opened, closed, cursor, stopped, mutated, thrown>>

(* An item is closed; `err` says whether by an error.  The error of a       *)
(* request, or of the resolver, leaves the request as the scripts made it.  *)
ClosingCommands == {"item", "prerequest", "request", "test"}

KeepsMutation ==
    StopOnError \/ StopOnFailure \/ (SecretResolver # "none" /\ TRUE \in Failures)

ClosesItem(x, open, err, snr) ==
    LET next == ProcessExecutionResult(x, snr, err, Length, DisableSNR, StopOnFailure)
    IN  /\ Holds(x, open)
        /\ x.cmd \in ClosingCommands
        /\ snr \in NextRequests \cup {NoRequest, x.snr}
        /\ UNCHANGED <<opened, closed>>
        /\ item' = Seen(x, FALSE)
        /\ stopped' = IF err THEN stopped \cup {x.iteration} ELSE stopped
        /\ cursor' = Seek(cursor, next.position, x.iteration)
        /\ IF OutOfBounds(cursor, next.position, x.iteration)
           THEN thrown' = "seek"
           ELSE /\ UNCHANGED thrown
                /\ Arrives(Waterfall(next.position, x.iteration, ModeAfter(next)), FALSE)
                /\ ~NoFlow'
        /\ \/ x.cmd = "test" /\ mutated' = MutatedAfter(x)
           \/ x.cmd \in {"item", "prerequest"} /\ mutated' = mutated
           \/ err = TRUE /\ KeepsMutation

(* The waterfall sends the flow to an item, perhaps after a delay, or ends  *)
(* it.                                                                      *)
Departs(coords, y) ==
    /\ y.cmd \in {"item", "iteration delay"}
    /\ y.position = coords.position /\ y.iteration = coords.iteration
    /\ y.snr = NoRequest /\ y.mutated = FALSE
    /\ Arrives(y, FALSE) /\ ~NoFlow'

Turns(x, y) ==
    LET coords == Target(x)
    IN  /\ Holds(x, FALSE) /\ x.cmd = "waterfall" /\ x \in Instructions
        /\ UNCHANGED <<cursor, item, stopped, mutated, thrown>>
        /\ \/ /\ coords.empty /\ Vanishes
              /\ UNCHANGED iterationVars
           \/ /\ ~coords.empty /\ x.mode = "stop" /\ Vanishes
              /\ closed' = Append(closed, x.iteration) /\ opened' = opened
           \/ /\ ~coords.empty /\ x.mode = "start" /\ Departs(coords, y)
              /\ opened' = Append(opened, coords.iteration) /\ closed' = closed
           \/ /\ ~coords.empty /\ x.mode \in {"next", "static"} /\ coords.cr /\ Departs(coords, y)
              /\ closed' = Append(closed, x.iteration)
              /\ opened' = Append(opened, coords.iteration)
           \/ /\ ~coords.empty /\ x.mode \in {"next", "static"} /\ ~coords.cr /\ coords.eof
              /\ Vanishes
              /\ closed' = Append(closed, coords.iteration) /\ opened' = opened
           \/ /\ ~coords.empty /\ x.mode \in {"next", "static"} /\ ~coords.cr /\ ~coords.eof
              /\ Departs(coords, y)
              /\ UNCHANGED iterationVars

Move ==
    \/ Rests
    \/ Begins
    \/ \E x, y : Turns(x, y)
    \/ \E x, y \in Instructions, open \in BOOLEAN : GoesOn(x, y, open) \/ OpensItem(x, y, open)
    \/ \E x, y \in Instructions : Requests(x, y)
    \/ \E x \in Instructions, open, err \in BOOLEAN, snr \in Snrs : ClosesItem(x, open, err, snr)

(***************************************************************************)
(* Where the flow is after a step                                          *)
(***************************************************************************)
LEMMA QueuedArrives ==
    ASSUME NEW q \in Seq(Instructions), NoFlowIn(q), NEW y \in Instructions, IsFlow(y),
           pool' = Append(q, y), ~IsFlow(current'), ~IsFlow(late'),
           NEW open, open = (y.cmd \in OpenCommands)
    PROVE  Arrives(y, open) /\ ~NoFlow'
  <1>1. /\ pool' \in Seq(Instructions)
        /\ DOMAIN pool' = 1 .. Len(q) + 1 /\ DOMAIN q = 1 .. Len(q) /\ Len(q) \in Nat
        /\ \A i \in 1 .. Len(q) : pool'[i] = q[i]
        /\ pool'[Len(q) + 1] = y
    BY AppendProperties
  <1>2. ASSUME NEW i \in DOMAIN pool', IsFlow(pool'[i])
        PROVE  pool'[i] = y
    BY <1>1, <1>2 DEF NoFlowIn
  <1>3. ~NoFlowIn(pool')
    BY <1>1 DEF NoFlowIn
  <1>. QED  BY <1>2, <1>3 DEF Arrives, Holds, Queued, Taken, NoFlow

LEMMA CurrentArrives ==
    ASSUME NoFlowIn(pool'), NEW y, IsFlow(y), current' = y, ~IsFlow(late'),
           NEW open, open = (y.cmd \in OpenCommands \cup {"item"})
    PROVE  Arrives(y, open) /\ ~NoFlow'
  BY DEF Arrives, Holds, Queued, Taken, NoFlow, NoFlowIn

LEMMA LateArrives ==
    ASSUME NoFlowIn(pool'), NEW y, IsFlow(y), late' = y, ~IsFlow(current'),
           NEW open, open = (y.cmd \in OpenCommands \cup {"item"})
    PROVE  Arrives(y, open) /\ ~NoFlow'
  BY DEF Arrives, Holds, Queued, Taken, NoFlow, NoFlowIn

LEMMA NothingArrives ==
    ASSUME NoFlowIn(pool'), ~IsFlow(current'), ~IsFlow(late')
    PROVE  Vanishes /\ NoFlow'
  BY DEF Vanishes, Holds, Queued, Taken, NoFlow, NoFlowIn

LEMMA HeadHolds ==
    ASSUME FlowInv, NEW cmd \in FlowCommands, Executes(cmd), NEW open, open = (cmd \in OpenCommands)
    PROVE  Holds(Head(pool), open)
  <1>1. IsFlow(Head(pool)) /\ Head(pool).cmd = cmd
    BY ExecutesFlow DEF Executes
  <1>2. 1 \in DOMAIN pool /\ Head(pool) = pool[1]
    BY HeadTailProperties DEF FlowInv, TypeOK, Executes
  <1>. QED  BY <1>1, <1>2 DEF Holds, Queued

LEMMA CurrentHolds ==
    ASSUME current.cmd \in FlowCommands,
           NEW open, open = (current.cmd \in OpenCommands \cup {"item"})
    PROVE  Holds(current, open)
  BY DEF Holds, Taken, IsFlow

(***************************************************************************)
(* Each action is a move                                                   *)
(***************************************************************************)
LEMMA WaterfallFields ==
    ASSUME NEW position, NEW iteration, NEW mode
    PROVE  /\ Waterfall(position, iteration, mode).cmd = "waterfall"
           /\ Waterfall(position, iteration, mode).position = position
           /\ Waterfall(position, iteration, mode).iteration = iteration
           /\ Waterfall(position, iteration, mode).mode = mode
           /\ Waterfall(position, iteration, mode).snr = NoRequest
           /\ Waterfall(position, iteration, mode).mutated = FALSE
           /\ IsFlow(Waterfall(position, iteration, mode))
  BY DEF Waterfall, IsFlow, FlowCommands

LEMMA ItemCloses ==
    ASSUME FlowInv, NEW x \in Instructions, NEW open \in BOOLEAN, Holds(x, open),
           x.cmd \in ClosingCommands,
           NEW err \in BOOLEAN, NEW snr \in Snrs, snr \in NextRequests \cup {NoRequest, x.snr},
           NEW flow \in Instructions, SamePlace(x, flow),
           NEW queue \in Seq(Instructions), NoFlowIn(queue),
           ItemReturns(flow, err, snr, queue), ~IsFlow(current'), ~IsFlow(late'),
           UNCHANGED iterationVars,
           \/ x.cmd = "test" /\ mutated' = MutatedAfter(x)
           \/ x.cmd \in {"item", "prerequest"} /\ mutated' = mutated
           \/ err = TRUE /\ KeepsMutation
    PROVE  ClosesItem(x, open, err, snr)
  <1>. DEFINE next == ProcessExecutionResult(x, snr, err, Length, DisableSNR, StopOnFailure)
              y == Waterfall(next.position, x.iteration, ModeAfter(next))
  <1>1. ProcessExecutionResult(flow, snr, err, Length, DisableSNR, StopOnFailure) = next
    BY DEF ProcessExecutionResult, SamePlace
  <1>2. /\ item' = Seen(x, FALSE)
        /\ stopped' = IF err THEN stopped \cup {x.iteration} ELSE stopped
        /\ cursor' = Seek(cursor, next.position, x.iteration)
    BY <1>1 DEF ItemReturns, SamePlace, Seen
  <1>3. ASSUME OutOfBounds(cursor, next.position, x.iteration)
        PROVE  thrown' = "seek"
    BY <1>1, <1>3 DEF ItemReturns, SamePlace
  <1>4. ASSUME ~OutOfBounds(cursor, next.position, x.iteration)
        PROVE  thrown' = thrown /\ Arrives(y, FALSE) /\ ~NoFlow'
    <2>1. pool' = Append(queue, y) /\ thrown' = thrown
      BY <1>1, <1>4 DEF ItemReturns, SamePlace
    <2>2. y \in Instructions
      <3>1. next.position \in Int
        BY ResultType, SizeAssumption
      <3>2. x.iteration \in Int /\ ModeAfter(next) \in Modes
        BY InstructionFields DEF ModeAfter, Modes
      <3>. QED  BY <3>1, <3>2, WaterfallType
    <2>3. IsFlow(y) /\ y.cmd = "waterfall"
      BY DEF Waterfall, IsFlow, FlowCommands
    <2>. HIDE DEF y
    <2>4. FALSE = (y.cmd \in OpenCommands)
      BY <2>3 DEF OpenCommands
    <2>. QED  BY <2>1, <2>2, <2>3, <2>4, QueuedArrives
  <1>. QED  BY <1>2, <1>3, <1>4 DEF ClosesItem, iterationVars

(* What the loop and the host do to the flow that is not in their hands.    *)
LEMMA FlowRests ==
    ASSUME UNCHANGED pathVars, thrown' = thrown \/ thrown' = "resume",
           UNCHANGED <<pool, late>>,
           current' = current \/ (~IsFlow(current) /\ ~IsFlow(current'))
    PROVE  Rests
  BY DEF Rests, Holds, Queued, Taken, NoFlow, OpenCommands

(* A flow that the step does not lose, and moves at most to be run.         *)
LEMMA ExecuteRests ==
    ASSUME FlowInv, NEW cmd \in FlowCommands, cmd # "item", Executes(cmd), Wait(Head(pool)),
           pool' = Tail(pool), UNCHANGED <<late, pathVars, thrown>>
    PROVE  Rests
  <1>. DEFINE h == Head(pool)
              open == cmd \in OpenCommands
  <1>1. /\ IsFlow(h) /\ h.cmd = cmd /\ NoFlowIn(pool') /\ late = Nothing
        /\ Holds(h, open)
    BY ExecutesFlow, HeadHolds DEF Executes
  <1>2. current' = h /\ ~IsFlow(late')
    BY <1>1, NothingIsNotFlow DEF Wait
  <1>3. open = (h.cmd \in OpenCommands \cup {"item"})
    BY <1>1
  <1>. HIDE DEF h, open
  <1>4. Arrives(h, open) /\ ~NoFlow'
    BY <1>1, <1>2, <1>3, CurrentArrives
  <1>. QED  BY <1>1, <1>4 DEF Rests, Arrives

LEMMA LosingRests ==
    ASSUME UNCHANGED <<pathVars, thrown>>, Lost', NoFlowIn(pool') \/ pool' = pool,
           current' \in {current, Nothing}, late' = late
    PROVE  Rests
  BY NothingIsNotFlow DEF Rests, Holds, Queued, Taken, NoFlowIn, OpenCommands

LEMMA ControlRests ==
    ASSUME FlowInv, UNCHANGED <<pathVars, thrown>>, pool # <<>>, ~IsFlow(Head(pool)),
           pool' = Tail(pool), current = Nothing, ~IsFlow(current'), late' = late
    PROVE  Rests
  <1>. DEFINE r == Tail(pool)
  <1>1. /\ pool \in Seq(Instructions)
        /\ Len(r) = Len(pool) - 1 /\ r \in Seq(Instructions)
        /\ \A i \in 1 .. Len(r) : r[i] = pool[i + 1]
        /\ Head(pool) = pool[1] /\ Len(pool) \in Nat /\ Len(pool) >= 1
        /\ DOMAIN r = 1 .. Len(r) /\ DOMAIN pool = 1 .. Len(pool)
    BY HeadTailProperties DEF FlowInv, TypeOK
  <1>2. pool' = r
    OBVIOUS
  <1>. HIDE DEF r
  <1>3. ASSUME NEW i \in DOMAIN r PROVE \E j \in DOMAIN pool : pool[j] = r[i]
    BY <1>1, <1>3
  <1>4. ASSUME NEW j \in DOMAIN pool, IsFlow(pool[j]) PROVE \E i \in DOMAIN r : r[i] = pool[j]
    <2>1. j # 1
      BY <1>1, <1>4
    <2>2. j - 1 \in DOMAIN r /\ r[j - 1] = pool[j]
      BY <1>1, <2>1
    <2>. QED  BY <2>2
  <1>5. ASSUME NEW z, Queued(z)' PROVE Queued(z)
    BY <1>2, <1>3, <1>5 DEF Queued
  <1>6. ASSUME NoFlowIn(r) PROVE NoFlowIn(pool)
    BY <1>4, <1>6 DEF NoFlowIn
  <1>. QED  BY <1>2, <1>5, <1>6, NothingIsNotFlow DEF Rests, Holds, Taken, NoFlow, OpenCommands

(* The item flow after its secrets: executeItemFlow or the item's end.      *)
LEMMA ItemFlowMoves ==
    ASSUME FlowInv, NEW x \in Instructions, NEW open \in BOOLEAN, Holds(x, open), x.cmd = "item",
           NEW flow \in Instructions, SamePlace(x, flow), flow.snr = x.snr, flow.cmd = "item",
           flow.mutated \in {x.mutated, x.position \in mutated},
           NEW queue \in Seq(Instructions), NoFlowIn(queue),
           NEW fatal \in BOOLEAN,
           ItemFlow(flow, queue, fatal), late' = Nothing,
           UNCHANGED <<iterationVars, mutated>>
    PROVE  Move
  <1>. DEFINE y == QueueDelay(ItemDelay, "item delay", Then(flow, "prerequest"))
  <1>0. ~IsFlow(current') /\ ~IsFlow(late')
    BY NothingIsNotFlow DEF ItemFlow, End
  <1>1. CASE fatal
    <2>1. ItemReturns(flow, TRUE, NoRequest, queue)
      BY <1>1 DEF ItemFlow
    <2>2. ClosesItem(x, open, TRUE, NoRequest)
      <3>1. x.cmd \in ClosingCommands /\ x.cmd \in {"item", "prerequest"} /\ mutated' = mutated
        BY DEF ClosingCommands
      <3>2. NoRequest \in Snrs /\ NoRequest \in NextRequests \cup {NoRequest, x.snr}
        BY NoRequestType
      <3>3. UNCHANGED iterationVars
        OBVIOUS
      <3>. QED  BY <1>0, <2>1, <3>1, <3>2, <3>3, ItemCloses
    <2>. QED  BY <2>2, NoRequestType DEF Move
  <1>2. CASE ~fatal
    <2>1. /\ pool' = Append(queue, y)
          /\ item' = Seen(flow, TRUE)
          /\ UNCHANGED <<cursor, stopped, thrown>>
      BY <1>2 DEF ItemFlow
    <2>2. y \in Instructions
      BY ThenType DEF QueueDelay, FlowCommands, ItemCommands, Then, Instructions
    <2>3. /\ y.cmd \in {"item delay", "prerequest"}
          /\ SamePlace(x, y) /\ y.snr = x.snr /\ y.mutated = flow.mutated
      BY DEF QueueDelay, Then, Instructions, SamePlace
    <2>4. item' = Seen(x, TRUE)
      BY <2>1 DEF Seen, SamePlace
    <2>. HIDE DEF y
    <2>5. IsFlow(y) /\ TRUE = (y.cmd \in OpenCommands)
      BY <2>3 DEF OpenCommands, IsFlow, FlowCommands, ItemCommands
    <2>6. Arrives(y, TRUE) /\ ~NoFlow'
      BY <1>0, <2>1, <2>2, <2>5, QueuedArrives
    <2>7. OpensItem(x, y, open)
      BY <2>1, <2>3, <2>4, <2>6 DEF OpensItem, iterationVars
    <2>. QED  BY <2>2, <2>7 DEF Move
  <1>. QED  BY <1>1, <1>2

(* The cursor of a run that has items is at one of them.                    *)
CursorInside == cursor.position >= Length => Length = 0

LEMMA NextInside == TypeOK /\ CursorInside /\ [Next]_vars => CursorInside'
  <1>. SUFFICES ASSUME TypeOK, CursorInside, [Next]_vars, cursor' # cursor
                PROVE  CursorInside'
    BY DEF CursorInside
  <1>1. \E flow, err, snr, queue : ItemReturns(flow, err, snr, queue)
    <2>1. CASE Loop
      BY <2>1 DEF Loop, Initialised, InitialiserFailed, Proceed, LoopFails, LoopEnds,
                  ExecuteWaterfall, ExecuteDelay, ExecuteItem, ExecuteEvent, ExecuteRequest,
                  ExecutePause, ExecuteAbort, ItemFlow, itemVars
    <2>2. CASE Answer
      BY <2>2 DEF Answer, DelayElapses, SecretsResolve, EventAborts, PrerequestEnds, TestEnds,
                  RequestAborts, RequestEnds, ItemFlow, ProceedWithRequest, itemVars
    <2>3. CASE LateSecretsResolve
      BY <2>3 DEF LateSecretsResolve
    <2>4. CASE ResumeFires \/ GlobalTimeoutFires \/ Host \/ UNCHANGED vars
      BY <2>4 DEF ResumeFires, GlobalTimeoutFires, Host, Start, Pause, Resume, Abort, vars,
                  itemVars
    <2>. QED  BY <2>1, <2>2, <2>3, <2>4 DEF Next
  <1>2. PICK position, iteration : cursor' = Seek(cursor, position, iteration)
    BY <1>1 DEF ItemReturns
  <1>. QED  BY <1>2 DEF Seek, OutOfBounds, TypeOK, CursorInside

(* The flags of the coords a waterfall goes to exclude each other.          *)
LEMMA TargetFlags ==
    ASSUME TypeOK, CursorInside, NEW x \in Instructions, ~Target(x).empty
    PROVE  ~(Target(x).cr /\ Target(x).eof)
  <1>1. cursor.length = Length /\ cursor.position \in Nat /\ Length \in Nat
    BY SizeAssumption DEF TypeOK
  <1>2. x.position \in Int /\ x.iteration \in Int
    BY InstructionFields
  <1>3. CASE x.mode \in {"start", "static"}
    <2>. DEFINE c == Seek(cursor, x.position, x.iteration)
    <2>1. c.length = Length /\ (Length > 0 => ~(c.position >= Length))
      BY <1>1, <1>2 DEF Seek, OutOfBounds, CursorInside, TypeOK
    <2>2. Target(x) = Current(c)
      BY <1>3 DEF Target
    <2>. HIDE DEF c
    <2>3. Length # 0
      <3>1. Current(c).empty = (c.length = 0)
        BY DEF Current, Coords
      <3>. QED  BY <2>1, <2>2, <3>1
    <2>4. Length > 0
      BY <1>1, <2>3
    <2>5. (c.length = 0) = FALSE /\ (c.position >= c.length) = FALSE
      BY <2>1, <2>3, <2>4
    <2>6. Current(c).cr = FALSE
      BY <2>5 DEF Current, Coords
    <2>. QED  BY <2>2, <2>6
  <1>4. CASE x.mode \notin {"start", "static"}
    <2>1. Target(x) = WhatNext(cursor, x)
      BY <1>4 DEF Target
    <2>2. cursor.cycles \in Int
      BY SizeAssumption DEF TypeOK
    <2>. QED  BY <1>1, <1>2, <2>1, <2>2 DEF WhatNext, Coords, InLastIteration
  <1>. QED  BY <1>3, <1>4

LEMMA WaterfallMoves ==
    ASSUME FlowInv, CursorInside, ExecuteWaterfall
    PROVE  \E x, y : Turns(x, y)
  <1>. DEFINE h == Head(pool)
              coords == Target(h)
              y == QueueDelay(coords.cr /\ IterationDelay, "iteration delay",
                              Item(coords.position, coords.iteration))
  <1>1. /\ h \in Instructions /\ Tail(pool) \in Seq(Instructions)
        /\ NoFlowIn(Tail(pool)) /\ late = Nothing /\ h.cmd = "waterfall"
    BY ExecutesFlow DEF ExecuteWaterfall, FlowCommands, Executes
  <1>2. Holds(h, FALSE)
    <2>1. FALSE = ("waterfall" \in OpenCommands) /\ "waterfall" \in FlowCommands
      BY DEF OpenCommands, FlowCommands
    <2>. QED  BY <2>1, HeadHolds DEF ExecuteWaterfall
  <1>3. ~IsFlow(current') /\ ~IsFlow(late')
    BY <1>1, NothingIsNotFlow DEF ExecuteWaterfall, End
  <1>4. coords.position \in Int /\ coords.iteration \in Int
    BY <1>1, TargetType DEF FlowInv, TypeOK, CursorType
  <1>5. y \in Instructions
    <2>1. Item(coords.position, coords.iteration) \in Instructions
      BY <1>4, WaterfallType DEF Modes
    <2>. QED  BY <2>1, ThenType DEF QueueDelay, FlowCommands
  <1>6. /\ y.cmd \in {"item", "iteration delay"}
        /\ y.position = coords.position /\ y.iteration = coords.iteration
        /\ y.snr = NoRequest /\ y.mutated = FALSE
    BY DEF QueueDelay, Then, Item, Waterfall
  <1>7. IsFlow(y) /\ FALSE = (y.cmd \in OpenCommands)
    <2>. HIDE DEF y
    <2>1. IsFlow(y)
      BY <1>6 DEF IsFlow, FlowCommands, ItemCommands
    <2>2. y.cmd \notin OpenCommands
      BY <1>6 DEF OpenCommands
    <2>. QED  BY <2>1, <2>2
  <1>8. ASSUME pool' = Append(Tail(pool), y)
        PROVE  Departs(coords, y)
    <2>1. Arrives(y, FALSE) /\ ~NoFlow'
      <3>. HIDE DEF y
      <3>. QED  BY <1>1, <1>3, <1>5, <1>7, <1>8, QueuedArrives
    <2>. HIDE DEF y, coords
    <2>. QED  BY <1>6, <2>1 DEF Departs
  <1>9. ASSUME pool' = Tail(pool)
        PROVE  Vanishes
    BY <1>1, <1>3, <1>9, NothingArrives
  <1>10. UNCHANGED <<cursor, item, stopped, mutated, thrown>>
    BY DEF ExecuteWaterfall, itemVars
  <1>11. h.mode \in Modes
    BY <1>1, InstructionFields
  <1>12. CASE coords.empty
    <2>1. pool' = Tail(pool) /\ UNCHANGED iterationVars
      <3>. HIDE DEF y
      <3>. QED  BY <1>12 DEF ExecuteWaterfall
    <2>. HIDE DEF y
    <2>. QED  BY <1>1, <1>2, <1>9, <1>10, <1>12, <2>1 DEF Turns
  <1>13. CASE ~coords.empty /\ h.mode = "stop"
    <2>1. pool' = Tail(pool) /\ closed' = Append(closed, h.iteration) /\ opened' = opened
      <3>. HIDE DEF y
      <3>. QED  BY <1>13 DEF ExecuteWaterfall
    <2>. HIDE DEF y
    <2>. QED  BY <1>1, <1>2, <1>9, <1>10, <1>13, <2>1 DEF Turns
  <1>14. CASE ~coords.empty /\ h.mode = "start"
    <2>1. /\ pool' = Append(Tail(pool), y)
          /\ opened' = Append(opened, coords.iteration) /\ closed' = closed
      BY <1>14 DEF ExecuteWaterfall
    <2>2. Departs(coords, y)
      BY <1>8, <2>1
    <2>. HIDE DEF y
    <2>. QED  BY <1>1, <1>2, <1>10, <1>14, <2>1, <2>2 DEF Turns
  <1>15. CASE ~coords.empty /\ h.mode \in {"next", "static"} /\ coords.cr
    <2>1. /\ pool' = Append(Tail(pool), y)
          /\ closed' = Append(closed, h.iteration)
          /\ opened' = Append(opened, coords.iteration)
      <3>1. ~coords.eof
        BY <1>1, <1>15, TargetFlags DEF FlowInv
      <3>. HIDE DEF coords, y
      <3>. QED  BY <1>15, <3>1 DEF ExecuteWaterfall, coords, y
    <2>2. Departs(coords, y)
      BY <1>8, <2>1
    <2>. HIDE DEF y
    <2>. QED  BY <1>1, <1>2, <1>10, <1>15, <2>1, <2>2 DEF Turns
  <1>16. CASE ~coords.empty /\ h.mode \in {"next", "static"} /\ ~coords.cr /\ coords.eof
    <2>1. /\ pool' = Tail(pool)
          /\ closed' = Append(closed, coords.iteration) /\ opened' = opened
      <3>. HIDE DEF y
      <3>. QED  BY <1>16 DEF ExecuteWaterfall
    <2>. HIDE DEF y
    <2>. QED  BY <1>1, <1>2, <1>9, <1>10, <1>16, <2>1 DEF Turns
  <1>17. CASE ~coords.empty /\ h.mode \in {"next", "static"} /\ ~coords.cr /\ ~coords.eof
    <2>1. pool' = Append(Tail(pool), y) /\ UNCHANGED iterationVars
      BY <1>17 DEF ExecuteWaterfall
    <2>2. Departs(coords, y)
      BY <1>8, <2>1
    <2>. HIDE DEF y
    <2>. QED  BY <1>1, <1>2, <1>10, <1>17, <2>1, <2>2 DEF Turns
  <1>. HIDE DEF y, coords
  <1>. QED  BY <1>11, <1>12, <1>13, <1>14, <1>15, <1>16, <1>17 DEF Modes

LEMMA PrependRests ==
    ASSUME FlowInv, UNCHANGED <<pathVars, thrown, current, late>>,
           NEW cmd \in ControlCommands, pool' = <<Control(cmd)>> \o pool
    PROVE  Rests
  <1>. DEFINE r == <<Control(cmd)>> \o pool
  <1>1. Control(cmd) \in Instructions /\ ~IsFlow(Control(cmd))
    BY ControlType, ControlIsNotFlow DEF Control, Waterfall
  <1>2. pool \in Seq(Instructions)
    BY DEF FlowInv, TypeOK
  <1>3. <<Control(cmd)>> \in Seq(Instructions) /\ Len(<<Control(cmd)>>) = 1
        /\ <<Control(cmd)>>[1] = Control(cmd)
    BY <1>1
  <1>4. /\ DOMAIN r = 1 .. 1 + Len(pool) /\ DOMAIN pool = 1 .. Len(pool) /\ Len(pool) \in Nat
        /\ \A i \in 1 .. 1 + Len(pool) : r[i] = IF i <= 1 THEN Control(cmd) ELSE pool[i - 1]
    BY <1>2, <1>3, ConcatProperties
  <1>5. pool' = r
    OBVIOUS
  <1>. HIDE DEF r
  <1>6. ASSUME NEW i \in DOMAIN r, IsFlow(r[i]) PROVE \E j \in DOMAIN pool : pool[j] = r[i]
    <2>1. i # 1 /\ i \in 1 .. 1 + Len(pool)
      BY <1>1, <1>4, <1>6
    <2>2. i - 1 \in DOMAIN pool /\ r[i] = pool[i - 1]
      BY <1>4, <2>1
    <2>. QED  BY <2>2
  <1>7. ASSUME NEW j \in DOMAIN pool PROVE \E i \in DOMAIN r : r[i] = pool[j]
    <2>1. j + 1 \in DOMAIN r /\ r[j + 1] = pool[j]
      BY <1>4
    <2>. QED  BY <2>1
  <1>8. ASSUME NEW z, Queued(z)' PROVE Queued(z)
    BY <1>5, <1>6, <1>8 DEF Queued
  <1>9. ASSUME NoFlowIn(r) PROVE NoFlowIn(pool)
    BY <1>7, <1>9 DEF NoFlowIn
  <1>. QED  BY <1>5, <1>8, <1>9 DEF Rests, Holds, Taken, NoFlow, OpenCommands

(* What a late resolver leaves outside the queue is the request.            *)
MoveInv ==
    /\ AbortInv
    /\ CursorInside
    /\ late = Nothing \/ late.cmd = "request"

LEMMA InitMove == Init => MoveInv
  <1>. SUFFICES ASSUME Init PROVE MoveInv
    OBVIOUS
  <1>1. AbortInv
    BY InitFlow DEF Init, AbortInv, AbortIsFinal
  <1>2. cursor.position = 0
    BY DEF Init, NewCursor, Validate
  <1>3. CursorInside
    BY <1>2, SizeAssumption DEF CursorInside
  <1>. QED  BY <1>1, <1>3 DEF Init, MoveInv

LEMMA NextMove == MoveInv /\ [Next]_vars => MoveInv'
  <1>. SUFFICES ASSUME MoveInv, [Next]_vars, late' # Nothing, late' # late
                PROVE  late'.cmd = "request"
    BY NextAbort, NextInside DEF MoveInv, AbortInv, FlowInv
  <1>1. PrerequestEnds
    BY DEF Next, Loop, Answer, Host, vars, loopVars, Initialised, InitialiserFailed,
           Proceed, LoopFails, LoopEnds, ExecuteWaterfall, ExecuteDelay, ExecuteItem,
           ExecuteEvent, ExecuteRequest, ExecutePause, ExecuteAbort, DelayElapses,
           SecretsResolve, EventAborts, TestEnds, RequestAborts, RequestEnds,
           LateSecretsResolve, ResumeFires, GlobalTimeoutFires, Start, Pause, Resume, Abort
  <1>2. PICK snr : late' = [current EXCEPT !.cmd = "request", !.snr = snr]
    BY <1>1 DEF PrerequestEnds, ProceedWithRequest
  <1>3. current \in Instructions
    BY <1>1, RunsFlow DEF PrerequestEnds, FlowCommands, ItemCommands, MoveInv, AbortInv
  <1>. QED  BY <1>2, <1>3 DEF Instructions

LEMMA AlwaysMoveInv == Spec => []MoveInv
  BY InitMove, NextMove, PTL DEF Spec

LEMMA PrerequestMoves ==
    ASSUME MoveInv, PrerequestEnds
    PROVE  Move
  <1>. DEFINE x == current
  <1>1. /\ x \in Instructions /\ pool \in Seq(Instructions) /\ NoFlowIn(pool)
        /\ late = Nothing /\ x.cmd = "prerequest" /\ current' = Nothing
    BY RunsFlow DEF PrerequestEnds, FlowCommands, ItemCommands, MoveInv, AbortInv, End
  <1>2. Holds(x, TRUE)
    BY <1>1, CurrentHolds DEF OpenCommands, FlowCommands, ItemCommands
  <1>3. UNCHANGED iterationVars
    BY DEF PrerequestEnds
  <1>4. PICK outcome \in Outcomes :
           IF EventError("prerequest", outcome) \/ outcome.skips
           THEN /\ ItemReturns(x, EventError("prerequest", outcome), outcome.snr, pool)
                /\ UNCHANGED <<mutated, late>>
           ELSE /\ mutated' = IF outcome.mutates
                              THEN mutated \cup {x.position} ELSE mutated
                /\ ProceedWithRequest([x EXCEPT !.cmd = "request", !.snr = outcome.snr],
                                      outcome.mutates)
    BY DEF PrerequestEnds
  <1>5. outcome.snr \in NextRequests /\ outcome.snr \in Snrs
    BY OutcomesAssumption DEF Outcomes
  <1>. DEFINE y == [x EXCEPT !.cmd = "request", !.snr = outcome.snr]
  <1>6. /\ y \in Instructions /\ y.cmd = "request" /\ y.snr = outcome.snr
        /\ SamePlace(x, y) /\ y.mutated = x.mutated
    BY <1>1, <1>5 DEF Instructions, FlowCommands, ItemCommands, SamePlace
  <1>. HIDE DEF y
  <1>7. IsFlow(y) /\ ~IsFlow(current')
    BY <1>1, <1>6, NothingIsNotFlow DEF IsFlow, FlowCommands, ItemCommands
  <1>8. CASE EventError("prerequest", outcome) \/ outcome.skips
    <2>. DEFINE err == EventError("prerequest", outcome)
    <2>1. ItemReturns(x, err, outcome.snr, pool) /\ UNCHANGED <<mutated, late>>
      BY <1>4, <1>8
    <2>2. err \in BOOLEAN
      BY DEF EventError
    <2>. HIDE DEF err, x
    <2>3. ClosesItem(x, TRUE, err, outcome.snr)
      <3>1. x.cmd \in ClosingCommands /\ x.cmd \in {"item", "prerequest"} /\ mutated' = mutated
        BY <1>1, <2>1 DEF ClosingCommands
      <3>2. outcome.snr \in NextRequests \cup {NoRequest, x.snr}
        BY <1>5
      <3>3. ~IsFlow(late') /\ FlowInv /\ SamePlace(x, x) /\ TRUE \in BOOLEAN
        BY <1>1, <2>1, NothingIsNotFlow DEF MoveInv, AbortInv, SamePlace
      <3>. QED  BY <1>1, <1>2, <1>3, <1>5, <1>7, <2>1, <2>2, <3>1, <3>2, <3>3, ItemCloses
    <2>. QED  BY <1>1, <1>5, <2>2, <2>3 DEF Move
  <1>9. CASE ~(EventError("prerequest", outcome) \/ outcome.skips)
    <2>1. /\ mutated' = mutated \/ mutated' = mutated \cup {x.position}
          /\ ProceedWithRequest(y, outcome.mutates)
      BY <1>4, <1>9 DEF y
    <2>2. ASSUME Arrives(y, TRUE), ~NoFlow', UNCHANGED <<cursor, item, stopped, thrown>>
          PROVE  Move
      <3>. HIDE DEF x
      <3>1. Requests(x, y)
        BY <1>1, <1>2, <1>3, <1>5, <1>6, <2>1, <2>2 DEF Requests, iterationVars
      <3>. QED  BY <1>1, <1>6, <3>1 DEF Move
    <2>3. CASE ItemReturns(y, TRUE, NoRequest, pool) /\ UNCHANGED late
               /\ SecretResolver = "sync" /\ TRUE \in Failures
      <3>. HIDE DEF x
      <3>1. ClosesItem(x, TRUE, TRUE, NoRequest)
        <4>1. x.cmd \in ClosingCommands /\ TRUE = TRUE /\ KeepsMutation /\ TRUE \in BOOLEAN
          BY <1>1, <2>3 DEF ClosingCommands, KeepsMutation
        <4>2. NoRequest \in Snrs /\ NoRequest \in NextRequests \cup {NoRequest, x.snr}
          BY NoRequestType
        <4>3. ~IsFlow(late') /\ FlowInv
          BY <1>1, <2>3, NothingIsNotFlow DEF MoveInv, AbortInv
        <4>. QED  BY <1>1, <1>2, <1>3, <1>6, <1>7, <2>3, <4>1, <4>2, <4>3, ItemCloses
      <3>. QED  BY <1>1, <3>1, NoRequestType DEF Move
    <2>4. CASE late' = y /\ UNCHANGED <<pool, cursor, item, stopped, thrown>>
      <3>1. TRUE = (y.cmd \in OpenCommands \cup {"item"})
        BY <1>6 DEF OpenCommands
      <3>2. Arrives(y, TRUE) /\ ~NoFlow'
        BY <1>1, <1>7, <2>4, <3>1, LateArrives
      <3>. QED  BY <2>2, <2>4, <3>2
    <2>5. CASE pool' = Append(pool, y) /\ UNCHANGED <<cursor, item, stopped, thrown, late>>
      <3>1. TRUE = (y.cmd \in OpenCommands) /\ ~IsFlow(late')
        BY <1>1, <1>6, <2>5, NothingIsNotFlow DEF OpenCommands
      <3>2. Arrives(y, TRUE) /\ ~NoFlow'
        BY <1>1, <1>6, <1>7, <2>5, <3>1, QueuedArrives
      <3>. QED  BY <2>2, <2>5, <3>2
    <2>. QED  BY <2>1, <2>3, <2>4, <2>5 DEF ProceedWithRequest
  <1>. QED  BY <1>8, <1>9

LEMMA LateMoves ==
    ASSUME MoveInv, LateSecretsResolve
    PROVE  Move
  <1>1. /\ late \in Instructions /\ pool \in Seq(Instructions) /\ IsFlow(late)
        /\ late.cmd = "request"
    BY DEF LateSecretsResolve, MoveInv, AbortInv, FlowInv, TypeOK, Resting
  <1>2. /\ NoFlowIn(pool) /\ ~IsFlow(current) /\ current' = current /\ late' = Nothing
        /\ SecretResolver = "async"
    BY <1>1 DEF LateSecretsResolve, MoveInv, AbortInv, FlowInv, OneFlow
  <1>3. ~IsFlow(current') /\ ~IsFlow(late')
    BY <1>2, NothingIsNotFlow
  <1>4. Holds(late, TRUE)
    BY <1>1 DEF Holds, Taken, OpenCommands
  <1>5. CASE ItemReturns(late, TRUE, NoRequest, pool) /\ TRUE \in Failures
    <2>1. late.cmd \in ClosingCommands /\ TRUE = TRUE /\ KeepsMutation /\ TRUE \in BOOLEAN
      BY <1>1, <1>2, <1>5 DEF ClosingCommands, KeepsMutation
    <2>2. NoRequest \in Snrs /\ NoRequest \in NextRequests \cup {NoRequest, late.snr}
      BY NoRequestType
    <2>3. FlowInv /\ UNCHANGED iterationVars /\ SamePlace(late, late)
      BY DEF MoveInv, AbortInv, LateSecretsResolve, SamePlace
    <2>4. ClosesItem(late, TRUE, TRUE, NoRequest)
      BY <1>1, <1>2, <1>3, <1>4, <1>5, <2>1, <2>2, <2>3, ItemCloses
    <2>. QED  BY <1>1, <2>4, NoRequestType DEF Move
  <1>6. CASE pool' = Append(pool, late) /\ UNCHANGED <<cursor, item, stopped, thrown>>
    <2>1. TRUE = (late.cmd \in OpenCommands)
      BY <1>1 DEF OpenCommands
    <2>2. Arrives(late, TRUE) /\ ~NoFlow'
      BY <1>1, <1>2, <1>3, <1>6, <2>1, QueuedArrives
    <2>3. UNCHANGED <<pathVars, thrown>>
      BY <1>6 DEF LateSecretsResolve, iterationVars, pathVars
    <2>4. Rests
      BY <1>4, <2>2, <2>3 DEF Rests, Arrives
    <2>. QED  BY <2>4 DEF Move
  <1>. QED  BY <1>5, <1>6 DEF LateSecretsResolve

LEMMA ItemMoves ==
    ASSUME MoveInv, ExecuteItem \/ SecretsResolve
    PROVE  Move
  <1>0. FlowInv
    BY DEF MoveInv, AbortInv
  <1>1. CASE ExecuteItem
    <2>. DEFINE x == Head(pool)
                flow == [x EXCEPT !.mutated = x.position \in mutated]
    <2>1. /\ x \in Instructions /\ Tail(pool) \in Seq(Instructions) /\ NoFlowIn(Tail(pool))
          /\ late = Nothing /\ x.cmd = "item" /\ late' = Nothing
      BY <1>0, <1>1, ExecutesFlow DEF ExecuteItem, FlowCommands, ItemCommands, Executes
    <2>2. Holds(x, FALSE)
      <3>1. FALSE = ("item" \in OpenCommands) /\ "item" \in FlowCommands
        BY DEF OpenCommands, FlowCommands, ItemCommands
      <3>. QED  BY <1>0, <1>1, <3>1, HeadHolds DEF ExecuteItem
    <2>3. /\ flow \in Instructions /\ SamePlace(x, flow) /\ flow.snr = x.snr
          /\ flow.cmd = "item" /\ flow.mutated \in {x.mutated, x.position \in mutated}
      <3>1. (x.position \in mutated) \in BOOLEAN
        OBVIOUS
      <3>2. flow \in Instructions
        BY <2>1, <3>1, CloneType
      <3>. QED  BY <2>1, <3>2 DEF SamePlace, Instructions
    <2>4. \/ /\ Wait(flow) /\ item' = Seen(flow, TRUE) /\ pool' = Tail(pool)
             /\ UNCHANGED <<cursor, stopped, thrown>>
          \/ \E fatal \in BOOLEAN : ItemFlow(flow, Tail(pool), fatal)
      BY <1>1 DEF ExecuteItem
    <2>5. UNCHANGED <<iterationVars, mutated>>
      BY <1>1 DEF ExecuteItem
    <2>. HIDE DEF x, flow
    <2>6. CASE /\ Wait(flow) /\ item' = Seen(flow, TRUE) /\ pool' = Tail(pool)
               /\ UNCHANGED <<cursor, stopped, thrown>>
      <3>1. TRUE = (flow.cmd \in OpenCommands \cup {"item"})
        BY <2>3
      <3>2. IsFlow(flow) /\ current' = flow /\ ~IsFlow(late')
        BY <2>1, <2>3, <2>6, NothingIsNotFlow DEF IsFlow, FlowCommands, ItemCommands, Wait
      <3>3. Arrives(flow, TRUE) /\ ~NoFlow'
        BY <2>1, <2>6, <3>1, <3>2, CurrentArrives
      <3>4. OpensItem(x, flow, FALSE)
        BY <2>1, <2>2, <2>3, <2>5, <2>6, <3>3 DEF OpensItem, iterationVars, Seen, SamePlace
      <3>. QED  BY <2>1, <2>3, <3>4 DEF Move
    <2>7. CASE \E fatal \in BOOLEAN : ItemFlow(flow, Tail(pool), fatal)
      <3>1. FALSE \in BOOLEAN
        OBVIOUS
      <3>. QED  BY <1>0, <2>1, <2>2, <2>3, <2>5, <2>7, <3>1, ItemFlowMoves
    <2>. QED  BY <2>4, <2>6, <2>7
  <1>2. CASE SecretsResolve
    <2>1. /\ current \in Instructions /\ pool \in Seq(Instructions) /\ NoFlowIn(pool)
          /\ late = Nothing /\ current.cmd = "item" /\ late' = Nothing
      BY <1>0, <1>2, RunsFlow DEF SecretsResolve, FlowCommands, ItemCommands
    <2>2. Holds(current, TRUE)
      BY <2>1, CurrentHolds DEF FlowCommands, ItemCommands
    <2>3. PICK fatal \in BOOLEAN : ItemFlow(current, pool, fatal)
      BY <1>2, OutcomesAssumption DEF SecretsResolve
    <2>4. /\ SamePlace(current, current) /\ TRUE \in BOOLEAN
          /\ current.mutated \in {current.mutated, current.position \in mutated}
          /\ UNCHANGED <<iterationVars, mutated>>
      BY <1>2 DEF SecretsResolve, SamePlace
    <2>. QED  BY <1>0, <2>1, <2>2, <2>3, <2>4, ItemFlowMoves
  <1>. QED  BY <1>1, <1>2

LEMMA OpenCommandsAre ==
    /\ FALSE = ("item" \in OpenCommands)
    /\ FALSE = ("iteration delay" \in OpenCommands \cup {"item"})
    /\ \A cmd \in {"item delay", "prerequest", "request", "test"} :
           TRUE = (cmd \in OpenCommands) /\ TRUE = (cmd \in OpenCommands \cup {"item"})
  BY DEF OpenCommands

LEMMA GoesOnMoves ==
    ASSUME MoveInv, NEW cmd \in FlowCommands, NEW next \in FlowCommands, NEW open \in BOOLEAN,
           phase = "running", current.cmd = cmd,
           \/ cmd = "iteration delay" /\ next = "item"
           \/ cmd = "item delay" /\ next = "prerequest"
           \/ cmd = "request" /\ next = "test",
           open = (cmd \in OpenCommands \cup {"item"}), open = (next \in OpenCommands),
           pool' = Append(pool, Then(current, next)), End(FALSE), late' = late,
           UNCHANGED <<pathVars, thrown>>
    PROVE  Move
  <1>. DEFINE x == current
              y == Then(x, next)
  <1>1. /\ x \in Instructions /\ pool \in Seq(Instructions) /\ NoFlowIn(pool)
        /\ late = Nothing
    BY RunsFlow DEF MoveInv, AbortInv
  <1>2. /\ y \in Instructions /\ y.cmd = next /\ SamePlace(x, y)
        /\ y.snr = x.snr /\ y.mutated = x.mutated
    BY <1>1, ThenType DEF Then, Instructions, SamePlace
  <1>3. Holds(x, open)
    BY CurrentHolds
  <1>4. ~IsFlow(current') /\ ~IsFlow(late')
    BY <1>1, NothingIsNotFlow DEF End
  <1>5. Arrives(y, open) /\ ~NoFlow'
    <2>1. pool' = Append(pool, y)
      OBVIOUS
    <2>. HIDE DEF y
    <2>2. IsFlow(y) /\ open = (y.cmd \in OpenCommands)
      BY <1>2 DEF IsFlow
    <2>. QED  BY <1>1, <1>2, <1>4, <2>1, <2>2, QueuedArrives
  <1>. HIDE DEF y
  <1>6. GoesOn(x, y, open)
    BY <1>1, <1>2, <1>3, <1>5 DEF GoesOn
  <1>. QED  BY <1>1, <1>2, <1>6 DEF Move

LEMMA AnswerMoves ==
    ASSUME MoveInv, Answer
    PROVE  Move
  <1>0. FlowInv
    BY DEF MoveInv, AbortInv
  <1>1. CASE DelayElapses
    <2>1. /\ phase = "running" /\ End(FALSE) /\ late' = late
          /\ UNCHANGED <<pathVars, thrown>>
      BY <1>1 DEF DelayElapses, pathVars, itemVars, iterationVars
    <2>2. /\ \A cmd \in {"iteration delay", "item delay", "item", "prerequest"} :
                 cmd \in FlowCommands
          /\ TRUE \in BOOLEAN /\ FALSE \in BOOLEAN
      BY DEF FlowCommands, ItemCommands
    <2>3. CASE current.cmd = "iteration delay"
      <3>1. pool' = Append(pool, Then(current, "item"))
        BY <1>1, <2>3 DEF DelayElapses
      <3>. QED  BY <2>1, <2>2, <2>3, <3>1, OpenCommandsAre, GoesOnMoves
    <2>4. CASE current.cmd = "item delay"
      <3>1. pool' = Append(pool, Then(current, "prerequest"))
        BY <1>1, <2>4 DEF DelayElapses
      <3>. QED  BY <2>1, <2>2, <2>4, <3>1, OpenCommandsAre, GoesOnMoves
    <2>. QED  BY <1>1, <2>3, <2>4 DEF DelayElapses
  <1>2. CASE EventAborts \/ RequestAborts
    <2>1. End(TRUE) /\ pool' = pool /\ late' = late /\ UNCHANGED <<pathVars, thrown>>
      BY <1>2 DEF EventAborts, RequestAborts, pathVars, itemVars, iterationVars
    <2>2. Lost' /\ current' \in {current, Nothing}
      BY <2>1 DEF End, Lost
    <2>. QED  BY <2>1, <2>2, LosingRests DEF Move
  <1>3. CASE TestEnds
    <2>1. /\ current \in Instructions /\ pool \in Seq(Instructions)
          /\ NoFlowIn(pool) /\ late = Nothing /\ current.cmd = "test"
          /\ late' = late /\ current' = Nothing
      BY <1>0, <1>3, RunsFlow DEF TestEnds, FlowCommands, ItemCommands, End
    <2>2. PICK outcome \in Outcomes :
             ItemReturns(current, EventError("test", outcome),
                         Override(current.snr, outcome.snr), pool)
      BY <1>3 DEF TestEnds
    <2>. DEFINE err == EventError("test", outcome)
                snr == Override(current.snr, outcome.snr)
    <2>3. err \in BOOLEAN
      BY DEF EventError
    <2>4. snr \in Snrs /\ snr \in NextRequests \cup {NoRequest, current.snr}
      BY <2>1, OutcomesAssumption, InstructionFields DEF Outcomes, Override
    <2>. HIDE DEF err, snr
    <2>5. ClosesItem(current, TRUE, err, snr)
      <3>1. /\ current.cmd \in ClosingCommands
            /\ current.cmd = "test" /\ mutated' = MutatedAfter(current)
        BY <1>3, <2>1 DEF ClosingCommands, TestEnds
      <3>2. Holds(current, TRUE)
        BY <2>1, CurrentHolds DEF OpenCommands, FlowCommands, ItemCommands
      <3>3. /\ UNCHANGED iterationVars /\ ~IsFlow(late') /\ ~IsFlow(current')
            /\ SamePlace(current, current) /\ TRUE \in BOOLEAN
        BY <1>3, <2>1, NothingIsNotFlow DEF TestEnds, SamePlace
      <3>4. ItemReturns(current, err, snr, pool)
        BY <2>2 DEF err, snr
      <3>. QED  BY <1>0, <2>1, <2>3, <2>4, <3>1, <3>2, <3>3, <3>4, ItemCloses
    <2>. QED  BY <2>1, <2>3, <2>4, <2>5 DEF Move
  <1>4. CASE RequestEnds
    <2>1. /\ current \in Instructions /\ pool \in Seq(Instructions)
          /\ NoFlowIn(pool) /\ late = Nothing /\ current.cmd = "request" /\ phase = "running"
          /\ late' = late /\ current' = Nothing /\ UNCHANGED <<iterationVars, mutated>>
          /\ End(FALSE)
      BY <1>0, <1>4, RunsFlow DEF RequestEnds, FlowCommands, ItemCommands, End
    <2>2. CASE /\ ItemReturns(current, TRUE, NoRequest, pool)
               /\ StopOnError \/ StopOnFailure
      <3>1. /\ current.cmd \in ClosingCommands
            /\ TRUE = TRUE /\ KeepsMutation /\ TRUE \in BOOLEAN
        BY <2>1, <2>2 DEF ClosingCommands, KeepsMutation
      <3>2. Holds(current, TRUE)
        BY <2>1, CurrentHolds DEF OpenCommands, FlowCommands, ItemCommands
      <3>3. /\ ~IsFlow(late') /\ ~IsFlow(current') /\ SamePlace(current, current)
            /\ UNCHANGED iterationVars
        BY <2>1, NothingIsNotFlow DEF SamePlace
      <3>4. NoRequest \in Snrs /\ NoRequest \in NextRequests \cup {NoRequest, current.snr}
        BY NoRequestType
      <3>5. ClosesItem(current, TRUE, TRUE, NoRequest)
        BY <1>0, <2>1, <2>2, <3>1, <3>2, <3>3, <3>4, ItemCloses
      <3>. QED  BY <2>1, <3>5, NoRequestType DEF Move
    <2>3. CASE /\ pool' = Append(pool, Then(current, "test"))
               /\ UNCHANGED <<cursor, item, stopped, thrown>>
      <3>1. UNCHANGED <<pathVars, thrown>>
        BY <2>1, <2>3 DEF pathVars, iterationVars
      <3>2. "request" \in FlowCommands /\ "test" \in FlowCommands /\ TRUE \in BOOLEAN
        BY DEF FlowCommands, ItemCommands
      <3>. QED  BY <2>1, <2>3, <3>1, <3>2, OpenCommandsAre, GoesOnMoves
    <2>. QED  BY <1>4, <2>2, <2>3 DEF RequestEnds
  <1>. QED  BY <1>1, <1>2, <1>3, <1>4, ItemMoves, PrerequestMoves DEF Answer

LEMMA Moves ==
    ASSUME MoveInv, [Next]_vars
    PROVE  Move
  <1>0. FlowInv /\ CursorInside
    BY DEF MoveInv, AbortInv
  <1>1. CASE \/ Start \/ InitialiserFailed \/ Proceed \/ LoopFails \/ LoopEnds \/ Resume
             \/ ResumeFires \/ UNCHANGED vars
    <2>1. UNCHANGED pathVars /\ UNCHANGED <<pool, late>>
      BY <1>1 DEF Start, InitialiserFailed, Proceed, LoopFails, LoopEnds, Resume, ResumeFires,
                  vars, loopVars, iterationVars, itemVars, pathVars
    <2>2. thrown' = thrown \/ thrown' = "resume"
      BY <1>1 DEF Start, InitialiserFailed, Proceed, LoopFails, LoopEnds, Resume, ResumeFires,
                  vars
    <2>3. current' = current \/ (~IsFlow(current) /\ ~IsFlow(current'))
      <3>1. \/ current' = current
            \/ current.cmd = "pause" /\ current' = Nothing
        BY <1>1 DEF Start, InitialiserFailed, Proceed, LoopFails, LoopEnds, Resume, ResumeFires,
                    vars, loopVars
      <3>. QED  BY <3>1, NothingIsNotFlow, ControlIsNotFlow DEF ControlCommands
    <2>. QED  BY <2>1, <2>2, <2>3, FlowRests DEF Move
  <1>2. CASE Initialised
    <2>. DEFINE y == Waterfall(cursor.position, cursor.iteration, "start")
    <2>1. y \in Instructions
      BY <1>0, WaterfallType DEF FlowInv, TypeOK, Modes
    <2>2. /\ pool \in Seq(Instructions) /\ NoFlowIn(pool) /\ phase = "initialising"
          /\ current' = Nothing /\ late' = Nothing /\ pool' = Append(pool, y)
      BY <1>0, <1>2 DEF Initialised, FlowInv, TypeOK, Resting
    <2>3. IsFlow(y) /\ y.cmd = "waterfall"
      BY DEF Waterfall, IsFlow, FlowCommands
    <2>4. UNCHANGED <<pathVars, thrown>>
      BY <1>2 DEF Initialised, pathVars, itemVars, iterationVars
    <2>5. Arrives(y, FALSE) /\ ~NoFlow'
      <3>. HIDE DEF y
      <3>1. FALSE = (y.cmd \in OpenCommands)
        BY <2>3 DEF OpenCommands
      <3>. QED  BY <2>1, <2>2, <2>3, <3>1, QueuedArrives, NothingIsNotFlow
    <2>. QED  BY <2>2, <2>4, <2>5 DEF Begins, Move
  <1>3. CASE ExecuteWaterfall
    BY <1>0, <1>3, WaterfallMoves DEF Move
  <1>4. CASE ExecuteDelay \/ ExecuteEvent \/ ExecuteRequest
    <2>1. PICK cmd \in FlowCommands : Executes(cmd) /\ cmd # "item"
      BY <1>4 DEF ExecuteDelay, ExecuteEvent, ExecuteRequest, FlowCommands, ItemCommands
    <2>2. Wait(Head(pool)) /\ pool' = Tail(pool) /\ UNCHANGED <<late, pathVars, thrown>>
      BY <1>4 DEF ExecuteDelay, ExecuteEvent, ExecuteRequest, pathVars, itemVars,
                  iterationVars
    <2>. QED  BY <1>0, <2>1, <2>2, ExecuteRests DEF Move
  <1>5. CASE ExecutePause
    <2>1. /\ pool # <<>> /\ Head(pool).cmd = "pause" /\ pool' = Tail(pool) /\ late' = late
          /\ current = Nothing /\ UNCHANGED <<pathVars, thrown>>
          /\ current' \in {Nothing, Head(pool)}
      BY <1>0, <1>5 DEF ExecutePause, Executes, End, Wait, FlowInv, Resting, pathVars,
                        itemVars, iterationVars
    <2>2. ~IsFlow(Head(pool)) /\ ~IsFlow(current')
      BY <2>1, NothingIsNotFlow, ControlIsNotFlow DEF ControlCommands
    <2>. QED  BY <1>0, <2>1, <2>2, ControlRests DEF Move
  <1>6. CASE ExecuteAbort \/ GlobalTimeoutFires
    <2>1. /\ pool' = <<>> /\ late' = late /\ UNCHANGED <<pathVars, thrown>>
          /\ current' \in {current, Nothing}
      BY <1>6 DEF ExecuteAbort, GlobalTimeoutFires, End, pathVars, itemVars, iterationVars
    <2>2. NoFlowIn(pool')
      BY <2>1 DEF NoFlowIn
    <2>3. Lost'
      BY <1>6 DEF ExecuteAbort, GlobalTimeoutFires, Lost
    <2>. QED  BY <2>1, <2>2, <2>3, LosingRests DEF Move
  <1>7. CASE Pause \/ Abort
    <2>1. PICK cmd \in ControlCommands : pool' = <<Control(cmd)>> \o pool
      BY <1>7 DEF Pause, Abort, ControlCommands
    <2>2. UNCHANGED <<pathVars, thrown, current, late>>
      BY <1>7 DEF Pause, Abort, pathVars, itemVars, iterationVars
    <2>. QED  BY <1>0, <2>1, <2>2, PrependRests DEF Move
  <1>. QED  BY <1>1, <1>2, <1>3, <1>4, <1>5, <1>6, <1>7, ItemMoves, AnswerMoves, LateMoves
            DEF Next, Loop, Host

(***************************************************************************)
(* The place of the flow                                                   *)
(***************************************************************************)
InRange(y) == y.position \in 0 .. Length - 1 /\ y.iteration \in 0 .. Cycles - 1

(* What the run has at first.                                               *)
Unmoved ==
    /\ cursor = NewCursor(Length, Cycles, 0, 0, 0, 0)
    /\ opened = <<>> /\ closed = <<>> /\ stopped = {} /\ mutated = {}
    /\ item = [position |-> -1, iteration |-> 0, open |-> FALSE]

AtStart(y) ==
    /\ y.cmd = "waterfall" /\ y.mode = "start" /\ y.position = 0 /\ y.iteration = 0
    /\ Unmoved

(* The flow is at an item of the run, in the iteration that is open; a      *)
(* waterfall that does not look for the next item goes to the first.        *)
AtPlace(y, open) ==
    /\ InRange(y)
    /\ Len(opened) = y.iteration + 1 /\ Len(closed) = y.iteration
    /\ item.open = open
    /\ open = TRUE => item = Seen(y, TRUE)
    /\ y.snr.position \in NoPosition .. Length - 1
    /\ y.cmd = "waterfall" => y.mode # "start" /\ (y.mode = "static" => y.position = 0)

At(y, open) == AtStart(y) \/ AtPlace(y, open)

PathInv ==
    /\ MoveInv
    /\ phase \in {"idle", "initialising"} => Unmoved
    /\ IterationsInOrder
    /\ thrown # "seek"
    /\ \A y, open : Holds(y, open) => At(y, open)

LEMMA BeforeRun ==
    ASSUME FlowInv, [Next]_vars, phase' \in {"idle", "initialising"}
    PROVE  phase \in {"idle", "initialising"} /\ UNCHANGED pathVars
  <1>1. ~Loop /\ ~Answer
    BY DEF Loop, Answer, Initialised, InitialiserFailed, Proceed, LoopFails, LoopEnds, Done,
           ExecuteWaterfall, ExecuteDelay, ExecuteItem, ExecuteEvent, ExecuteRequest,
           ExecutePause, ExecuteAbort, DelayElapses, SecretsResolve, EventAborts,
           PrerequestEnds, TestEnds, RequestAborts, RequestEnds, ItemFlow, End, Wait
  <1>2. ~LateSecretsResolve
    BY DEF LateSecretsResolve, FlowInv, Resting
  <1>. QED  BY <1>1, <1>2 DEF Next, Host, Start, Pause, Resume, Abort, ResumeFires,
                  GlobalTimeoutFires, vars, loopVars, iterationVars, itemVars, pathVars

(* Where a waterfall that leaves an item goes.                              *)
LEMMA TargetIs ==
    ASSUME TypeOK, NEW x \in Instructions, InRange(x), x.mode \in {"next", "static"},
           x.mode = "static" => x.position = 0
    PROVE  LET coords == Target(x)
           IN  /\ coords.empty = FALSE
               /\ \/ /\ coords.iteration = x.iteration /\ coords.cr = FALSE /\ coords.eof = FALSE
                     /\ \/ x.mode = "next" /\ coords.position = x.position + 1
                           /\ x.position + 1 < Length
                        \/ x.mode = "static" /\ coords.position = 0
                  \/ /\ x.mode = "next" /\ x.position = Length - 1
                     /\ coords.position = 0 /\ coords.iteration = x.iteration + 1
                     /\ x.iteration + 1 < Cycles
                     /\ coords.cr = TRUE /\ coords.eof = FALSE
                  \/ /\ x.mode = "next" /\ x.position = Length - 1
                     /\ coords.iteration = x.iteration
                     /\ x.iteration + 1 = Cycles
                     /\ coords.cr = FALSE /\ coords.eof = TRUE
  <1>1. /\ cursor.length = Length /\ cursor.cycles = Cycles /\ Length \in Nat
        /\ Cycles \in Nat \ {0} /\ x.position \in 0 .. Length - 1
        /\ x.iteration \in 0 .. Cycles - 1
    BY SizeAssumption DEF TypeOK, InRange
  <1>2. CASE x.mode = "static"
    <2>1. Seek(cursor, 0, x.iteration) = [cursor EXCEPT !.position = 0,
                                                        !.iteration = x.iteration]
      BY <1>1 DEF Seek, OutOfBounds
    <2>. DEFINE c == [cursor EXCEPT !.position = 0, !.iteration = x.iteration]
    <2>2. Target(x) = Current(c)
      BY <1>2, <2>1 DEF Target
    <2>3. c.length = Length /\ c.cycles = Cycles /\ c.position = 0 /\ c.iteration = x.iteration
      BY <1>1 DEF TypeOK
    <2>. HIDE DEF c
    <2>4. (c.length = 0) = FALSE /\ (c.position >= c.length) = FALSE
      BY <1>1, <2>3
    <2>5. /\ Current(c).empty = FALSE /\ Current(c).cr = FALSE /\ Current(c).eof = FALSE
          /\ Current(c).position = 0 /\ Current(c).iteration = x.iteration
      BY <2>3, <2>4 DEF Current, Coords
    <2>. QED  BY <1>2, <2>2, <2>5
  <1>3. CASE x.mode = "next"
    <2>1. Target(x) = WhatNext(cursor, x)
      BY <1>3 DEF Target
    <2>. QED  BY <1>1, <1>3, <2>1 DEF WhatNext, Coords, InLastIteration
  <1>. QED  BY <1>2, <1>3

LEMMA CountsOn ==
    ASSUME NEW q \in Seq(Int), \A i \in DOMAIN q : q[i] = i - 1, NEW n, n = Len(q)
    PROVE  /\ \A i \in DOMAIN Append(q, n) : Append(q, n)[i] = i - 1
           /\ Len(Append(q, n)) = n + 1
  <1>1. /\ Len(Append(q, n)) = Len(q) + 1 /\ DOMAIN Append(q, n) = 1 .. Len(q) + 1
        /\ DOMAIN q = 1 .. Len(q) /\ Len(q) \in Nat
        /\ \A i \in 1 .. Len(q) : Append(q, n)[i] = q[i]
        /\ Append(q, n)[Len(q) + 1] = n
    OBVIOUS
  <1>. QED  BY <1>1

(* The place an item's end sends the run to is in it.                       *)
LEMMA ResultInside ==
    ASSUME NEW x \in Instructions, InRange(x), NEW snr \in Snrs,
           snr.position \in NoPosition .. Length - 1, NEW err \in BOOLEAN
    PROVE  LET next == ProcessExecutionResult(x, snr, err, Length, DisableSNR, StopOnFailure)
           IN  /\ next.position \in 0 .. Length - 1
               /\ ModeAfter(next) \in {"next", "static", "stop"}
               /\ ModeAfter(next) = "static" => next.position = 0
  <1>. DEFINE valid == ~err /\ ~DisableSNR /\ snr.defined /\ snr.position # NoPosition
              position == IF valid THEN snr.position - 1
                          ELSE IF EndsIteration(err, snr) THEN Length - 1
                          ELSE x.position
              next == ProcessExecutionResult(x, snr, err, Length, DisableSNR, StopOnFailure)
  <1>1. Length \in Nat /\ x.position \in 0 .. Length - 1 /\ Length > 0
    BY SizeAssumption DEF InRange
  <1>2. position \in -1 .. Length - 1
    <2>1. CASE valid
      BY <1>1, <2>1 DEF NoPosition
    <2>2. CASE ~valid
      <3>. HIDE DEF valid
      <3>. QED  BY <1>1, <2>2
    <2>. QED  BY <2>1, <2>2
  <1>3. /\ next.position = IF position = -1 THEN 0 ELSE position
        /\ next.seekingToStart = (position = -1)
    BY DEF ProcessExecutionResult
  <1>. HIDE DEF position, next
  <1>4. next.position \in 0 .. Length - 1
    BY <1>1, <1>2, <1>3
  <1>5. next.seekingToStart => next.position = 0
    BY <1>3
  <1>6. /\ ModeAfter(next) \in {"next", "static", "stop"}
        /\ ModeAfter(next) = "static" => next.seekingToStart
    BY DEF ModeAfter
  <1>. QED  BY <1>4, <1>5, <1>6 DEF next

(* What a waterfall does, by the place it starts from.                      *)
Reaches(y, position, iteration) ==
    /\ y.cmd \in {"item", "iteration delay"}
    /\ y.position = position /\ y.iteration = iteration
    /\ y.snr = NoRequest /\ y.mutated = FALSE
    /\ Arrives(y, FALSE) /\ ~NoFlow'

EndsTheRun(x) ==
    \/ x.mode = "stop"
    \/ x.mode = "next" /\ x.position = Length - 1 /\ x.iteration + 1 = Cycles

Leads(x, y) ==
    /\ Holds(x, FALSE) /\ x.cmd = "waterfall" /\ x \in Instructions
    /\ UNCHANGED <<cursor, item, stopped, mutated, thrown>>
    /\ \/ /\ AtStart(x) /\ Length = 0 /\ Vanishes
          /\ UNCHANGED iterationVars
       \/ /\ AtStart(x) /\ Length > 0 /\ Reaches(y, 0, 0)
          /\ opened' = Append(opened, 0) /\ closed' = closed
       \/ /\ AtPlace(x, FALSE) /\ EndsTheRun(x) /\ Vanishes
          /\ closed' = Append(closed, x.iteration) /\ opened' = opened
       \/ /\ AtPlace(x, FALSE)
          /\ \/ /\ x.mode = "next" /\ x.position + 1 < Length
                /\ Reaches(y, x.position + 1, x.iteration)
             \/ x.mode = "static" /\ Reaches(y, 0, x.iteration)
          /\ UNCHANGED iterationVars
       \/ /\ AtPlace(x, FALSE) /\ x.mode = "next" /\ x.position = Length - 1
          /\ x.iteration + 1 < Cycles /\ Reaches(y, 0, x.iteration + 1)
          /\ closed' = Append(closed, x.iteration)
          /\ opened' = Append(opened, x.iteration + 1)

LEMMA DepartsReaches ==
    ASSUME NEW coords, NEW y, Departs(coords, y)
    PROVE  Reaches(y, coords.position, coords.iteration)
  BY DEF Departs, Reaches

LEMMA TurnsLead ==
    ASSUME PathInv, NEW x, NEW y, Turns(x, y)
    PROVE  Leads(x, y)
  <1>. DEFINE coords == Target(x)
  <1>1. /\ Holds(x, FALSE) /\ x \in Instructions /\ x.cmd = "waterfall" /\ At(x, FALSE)
        /\ UNCHANGED <<cursor, item, stopped, mutated, thrown>>
    BY DEF Turns, PathInv
  <1>2. TypeOK /\ Length \in Nat /\ Cycles \in Nat \ {0} /\ x.mode \in Modes
    BY <1>1, SizeAssumption, InstructionFields DEF PathInv, MoveInv, AbortInv, FlowInv
  <1>3. CASE AtStart(x)
    <2>1. /\ cursor = NewCursor(Length, Cycles, 0, 0, 0, 0)
          /\ x.position = 0 /\ x.iteration = 0 /\ x.mode = "start"
      BY <1>3 DEF AtStart, Unmoved
    <2>2. cursor.length = Length /\ cursor.position = 0 /\ cursor.iteration = 0
      BY <1>2, <2>1 DEF NewCursor, Validate
    <2>3. Seek(cursor, 0, 0).length = Length
          /\ Seek(cursor, 0, 0).position = 0 /\ Seek(cursor, 0, 0).iteration = 0
      BY <1>2, <2>2 DEF Seek, TypeOK
    <2>4. coords = Current(Seek(cursor, 0, 0))
      BY <2>1 DEF Target
    <2>5. coords.position = 0 /\ coords.iteration = 0 /\ coords.empty = (Length = 0)
      BY <2>3, <2>4 DEF Current, Coords
    <2>6. CASE Length = 0
      <3>1. Vanishes /\ UNCHANGED iterationVars
        BY <2>5, <2>6 DEF Turns
      <3>. QED  BY <1>1, <1>3, <2>6, <3>1 DEF Leads
    <2>7. CASE Length > 0
      <3>1. Departs(coords, y) /\ opened' = Append(opened, 0) /\ closed' = closed
        <4>1. (Length = 0) = FALSE
          BY <1>2, <2>7
        <4>2. coords.empty = FALSE
          <5>. HIDE DEF coords
          <5>. QED  BY <2>5, <4>1
        <4>. QED  BY <2>1, <2>5, <4>2 DEF Turns
      <3>2. Reaches(y, 0, 0)
        <4>. HIDE DEF coords
        <4>. QED  BY <2>5, <3>1, DepartsReaches
      <3>. QED  BY <1>1, <1>3, <2>7, <3>1, <3>2 DEF Leads
    <2>. QED  BY <1>2, <2>6, <2>7
  <1>4. CASE AtPlace(x, FALSE)
    <2>1. /\ InRange(x) /\ x.mode # "start" /\ (x.mode = "static" => x.position = 0)
          /\ x.position \in 0 .. Length - 1
      BY <1>1, <1>4 DEF AtPlace, InRange
    <2>2. CASE x.mode = "stop"
      <3>1. coords = WhatNext(cursor, x)
        BY <2>2 DEF Target
      <3>2. cursor.length = Length /\ cursor.cycles = Cycles /\ x.iteration \in Int
        BY <1>1, <1>2, InstructionFields DEF TypeOK
      <3>3. coords.empty = FALSE
        <4>1. WhatNext(cursor, x).empty = FALSE
          BY <1>2, <2>1, <3>2 DEF WhatNext, Coords, InLastIteration
        <4>. QED  BY <3>1, <4>1
      <3>4. closed' = Append(closed, x.iteration) /\ opened' = opened /\ Vanishes
        BY <2>2, <3>3 DEF Turns
      <3>. QED  BY <1>1, <1>4, <2>2, <3>4 DEF Leads, EndsTheRun
    <2>3. CASE x.mode \in {"next", "static"}
      <3>1. /\ coords.empty = FALSE
            /\ \/ /\ coords.iteration = x.iteration /\ coords.cr = FALSE /\ coords.eof = FALSE
                  /\ \/ x.mode = "next" /\ coords.position = x.position + 1
                        /\ x.position + 1 < Length
                     \/ x.mode = "static" /\ coords.position = 0
               \/ /\ x.mode = "next" /\ x.position = Length - 1
                  /\ coords.position = 0 /\ coords.iteration = x.iteration + 1
                  /\ x.iteration + 1 < Cycles
                  /\ coords.cr = TRUE /\ coords.eof = FALSE
               \/ /\ x.mode = "next" /\ x.position = Length - 1
                  /\ coords.iteration = x.iteration
                  /\ x.iteration + 1 = Cycles
                  /\ coords.cr = FALSE /\ coords.eof = TRUE
        <4>. HIDE DEF coords
        <4>. QED  BY <1>1, <1>2, <2>1, <2>3, TargetIs DEF coords
      <3>2. CASE /\ coords.iteration = x.iteration /\ coords.cr = FALSE /\ coords.eof = FALSE
                 /\ \/ x.mode = "next" /\ coords.position = x.position + 1
                       /\ x.position + 1 < Length
                    \/ x.mode = "static" /\ coords.position = 0
        <4>1. Departs(coords, y) /\ UNCHANGED iterationVars
          BY <2>3, <3>1, <3>2 DEF Turns
        <4>2. Reaches(y, coords.position, coords.iteration)
          BY <4>1, DepartsReaches
        <4>. HIDE DEF coords
        <4>. QED  BY <1>1, <1>4, <3>2, <4>1, <4>2 DEF Leads
      <3>3. CASE /\ x.mode = "next" /\ x.position = Length - 1
                 /\ coords.position = 0 /\ coords.iteration = x.iteration + 1
                 /\ x.iteration + 1 < Cycles
                 /\ coords.cr = TRUE /\ coords.eof = FALSE
        <4>1. /\ Departs(coords, y) /\ closed' = Append(closed, x.iteration)
              /\ opened' = Append(opened, x.iteration + 1)
          BY <2>3, <3>1, <3>3 DEF Turns
        <4>2. Reaches(y, coords.position, coords.iteration)
          BY <4>1, DepartsReaches
        <4>. HIDE DEF coords
        <4>. QED  BY <1>1, <1>4, <3>3, <4>1, <4>2 DEF Leads
      <3>4. CASE /\ x.mode = "next" /\ x.position = Length - 1
                 /\ coords.iteration = x.iteration
                 /\ x.iteration + 1 = Cycles
                 /\ coords.cr = FALSE /\ coords.eof = TRUE
        <4>1. closed' = Append(closed, x.iteration) /\ opened' = opened /\ Vanishes
          BY <2>3, <3>1, <3>4 DEF Turns
        <4>. HIDE DEF coords
        <4>. QED  BY <1>1, <1>4, <3>4, <4>1 DEF Leads, EndsTheRun
      <3>. HIDE DEF coords
      <3>. QED  BY <3>1, <3>2, <3>3, <3>4
    <2>. QED  BY <1>2, <2>1, <2>2, <2>3 DEF Modes
  <1>. QED  BY <1>1, <1>3, <1>4 DEF At

PlaceKept == IterationsInOrder' /\ thrown' # "seek" /\ \A z, b : Holds(z, b)' => At(z, b)'

LEMMA PathTurns ==
    ASSUME PathInv, NEW x, NEW y, Turns(x, y)
    PROVE  PlaceKept
  <1>1. /\ Leads(x, y) /\ UNCHANGED <<cursor, item, stopped, mutated, thrown>>
        /\ thrown' # "seek"
    BY TurnsLead DEF Turns, PathInv
  <1>2. /\ IterationsInOrder /\ opened \in Seq(Int) /\ closed \in Seq(Int)
        /\ Len(opened) \in Nat /\ Len(closed) \in Nat
        /\ Length \in Nat /\ Cycles \in Nat \ {0}
    BY SizeAssumption DEF PathInv, MoveInv, AbortInv, FlowInv, TypeOK
  <1>3. /\ \A i \in DOMAIN opened : opened[i] = i - 1
        /\ \A i \in DOMAIN closed : closed[i] = i - 1
    BY <1>2 DEF IterationsInOrder
  <1>4. ASSUME NEW position \in 0 .. Length - 1, NEW iteration \in 0 .. Cycles - 1,
               Reaches(y, position, iteration), item.open = FALSE,
               Len(opened') = iteration + 1, Len(closed') = iteration
        PROVE  \A z, b : Holds(z, b)' => At(z, b)'
    <2>1. /\ y.cmd # "waterfall" /\ y.snr = NoRequest /\ y.position = position
          /\ y.iteration = iteration /\ Arrives(y, FALSE)
      BY <1>4 DEF Reaches
    <2>2. y.snr.position \in NoPosition .. Length - 1
      <3>1. y.snr.position = NoPosition
        BY <2>1 DEF NoRequest
      <3>. QED  BY <1>2, <3>1 DEF NoPosition
    <2>3. AtPlace(y, FALSE)'
      BY <1>1, <1>4, <2>1, <2>2 DEF AtPlace, InRange
    <2>. QED  BY <2>1, <2>3 DEF Arrives, At
  <1>5. CASE AtStart(x) /\ Vanishes /\ UNCHANGED iterationVars
    BY <1>1, <1>2, <1>5 DEF PlaceKept, Vanishes, IterationsInOrder, iterationVars
  <1>6. CASE /\ AtStart(x) /\ Length > 0 /\ Reaches(y, 0, 0)
             /\ opened' = Append(opened, 0) /\ closed' = closed
    <2>1. opened = <<>> /\ closed = <<>> /\ item.open = FALSE
      BY <1>6 DEF AtStart, Unmoved
    <2>2. /\ \A i \in DOMAIN opened' : opened'[i] = i - 1
          /\ Len(opened') = 1
      BY <1>2, <1>6, <2>1, CountsOn
    <2>3. IterationsInOrder'
      BY <1>6, <2>1, <2>2 DEF IterationsInOrder
    <2>4. 0 \in 0 .. Length - 1 /\ 0 \in 0 .. Cycles - 1
      BY <1>2, <1>6
    <2>5. \A z, b : Holds(z, b)' => At(z, b)'
      <3>1. Len(opened') = 0 + 1 /\ Len(closed') = 0
        BY <1>6, <2>1, <2>2
      <3>. QED  BY <1>4, <1>6, <2>1, <2>4, <3>1
    <2>. QED  BY <1>1, <2>3, <2>5 DEF PlaceKept
  <1>7. CASE AtPlace(x, FALSE)
    <2>1. /\ Len(opened) = x.iteration + 1 /\ Len(closed) = x.iteration
          /\ item.open = FALSE
          /\ x.iteration \in 0 .. Cycles - 1 /\ x.position \in 0 .. Length - 1
      BY <1>7 DEF AtPlace, InRange
    <2>2. /\ \A i \in DOMAIN Append(closed, x.iteration) : Append(closed, x.iteration)[i] = i - 1
          /\ Len(Append(closed, x.iteration)) = x.iteration + 1
      BY <1>2, <1>3, <2>1, CountsOn
    <2>3. /\ \A i \in DOMAIN Append(opened, x.iteration + 1) :
                Append(opened, x.iteration + 1)[i] = i - 1
          /\ Len(Append(opened, x.iteration + 1)) = x.iteration + 1 + 1
      BY <1>2, <1>3, <2>1, CountsOn
    <2>4. CASE Vanishes /\ closed' = Append(closed, x.iteration) /\ opened' = opened
      <3>1. IterationsInOrder'
        BY <1>3, <2>1, <2>2, <2>4 DEF IterationsInOrder
      <3>. QED  BY <1>1, <2>4, <3>1 DEF PlaceKept, Vanishes
    <2>5. CASE /\ \/ x.position + 1 < Length /\ Reaches(y, x.position + 1, x.iteration)
                  \/ Reaches(y, 0, x.iteration)
               /\ UNCHANGED iterationVars
      <3>1. IterationsInOrder' /\ Len(opened') = x.iteration + 1 /\ Len(closed') = x.iteration
        BY <1>2, <2>1, <2>5 DEF IterationsInOrder, iterationVars
      <3>2. PICK position \in 0 .. Length - 1 : Reaches(y, position, x.iteration)
        BY <1>2, <2>1, <2>5
      <3>3. \A z, b : Holds(z, b)' => At(z, b)'
        BY <1>4, <2>1, <3>1, <3>2
      <3>. QED  BY <1>1, <3>1, <3>3 DEF PlaceKept
    <2>6. CASE /\ x.iteration + 1 < Cycles /\ Reaches(y, 0, x.iteration + 1)
               /\ closed' = Append(closed, x.iteration)
               /\ opened' = Append(opened, x.iteration + 1)
      <3>1. IterationsInOrder'
        BY <2>1, <2>2, <2>3, <2>6 DEF IterationsInOrder
      <3>2. 0 \in 0 .. Length - 1 /\ x.iteration + 1 \in 0 .. Cycles - 1
        BY <1>2, <2>1, <2>6
      <3>3. Len(opened') = x.iteration + 1 + 1 /\ Len(closed') = x.iteration + 1
        BY <2>2, <2>3, <2>6
      <3>4. \A z, b : Holds(z, b)' => At(z, b)'
        BY <1>4, <2>1, <2>6, <3>2, <3>3
      <3>. QED  BY <1>1, <3>1, <3>4 DEF PlaceKept
    <2>7. ~AtStart(x)
      BY <1>7 DEF AtStart, AtPlace
    <2>. QED  BY <1>1, <2>4, <2>5, <2>6, <2>7 DEF Leads
  <1>. QED  BY <1>1, <1>5, <1>6, <1>7 DEF Leads

LEMMA PathCloses ==
    ASSUME PathInv, NEW x \in Instructions, NEW open \in BOOLEAN, NEW err \in BOOLEAN,
           NEW snr \in Snrs, ClosesItem(x, open, err, snr)
    PROVE  PlaceKept
  <1>. DEFINE next == ProcessExecutionResult(x, snr, err, Length, DisableSNR, StopOnFailure)
              y == Waterfall(next.position, x.iteration, ModeAfter(next))
  <1>1. AtPlace(x, open)
    BY DEF ClosesItem, PathInv, At, AtStart, ClosingCommands
  <1>2. InRange(x) /\ x.snr.position \in NoPosition .. Length - 1 /\ Length \in Nat
    BY <1>1, SizeAssumption DEF AtPlace
  <1>3. snr.position \in NoPosition .. Length - 1
    BY <1>2, OutcomesAssumption DEF ClosesItem, NoRequest, NoPosition
  <1>4. /\ next.position \in 0 .. Length - 1
        /\ ModeAfter(next) \in {"next", "static", "stop"}
        /\ ModeAfter(next) = "static" => next.position = 0
    BY <1>2, <1>3, ResultInside
  <1>5. ~OutOfBounds(cursor, next.position, x.iteration)
    <2>1. cursor.length = Length /\ cursor.cycles = Cycles
      BY DEF PathInv, MoveInv, AbortInv, FlowInv, TypeOK
    <2>. QED  BY <1>2, <1>4, <2>1, SizeAssumption DEF InRange, OutOfBounds
  <1>6. /\ Arrives(y, FALSE) /\ UNCHANGED <<opened, closed, thrown>>
        /\ item' = Seen(x, FALSE)
    BY <1>5 DEF ClosesItem
  <1>7. /\ y.cmd = "waterfall" /\ y.position = next.position /\ y.iteration = x.iteration
        /\ y.mode = ModeAfter(next) /\ y.snr = NoRequest
    BY DEF Waterfall
  <1>. HIDE DEF next, y
  <1>8. AtPlace(y, FALSE)'
    <2>1. InRange(y)
      BY <1>2, <1>4, <1>7 DEF InRange
    <2>2. y.snr.position \in NoPosition .. Length - 1
      BY <1>2, <1>7 DEF NoRequest, NoPosition
    <2>3. Len(opened') = y.iteration + 1 /\ Len(closed') = y.iteration
      BY <1>1, <1>6, <1>7 DEF AtPlace
    <2>. QED  BY <1>4, <1>6, <1>7, <2>1, <2>2, <2>3 DEF AtPlace, Seen
  <1>9. IterationsInOrder'
    BY <1>6 DEF PathInv, IterationsInOrder
  <1>. QED  BY <1>6, <1>8, <1>9 DEF PlaceKept, Arrives, At, PathInv

LEMMA PathStays ==
    ASSUME PathInv, NEW x \in Instructions, NEW y \in Instructions, NEW open \in BOOLEAN,
           GoesOn(x, y, open) \/ OpensItem(x, y, open) \/ (open = TRUE /\ Requests(x, y))
    PROVE  PlaceKept
  <1>1. x.cmd # "waterfall" /\ y.cmd # "waterfall" /\ Holds(x, open)
    BY DEF GoesOn, OpensItem, Requests
  <1>2. AtPlace(x, open)
    BY <1>1 DEF PathInv, At, AtStart
  <1>3. UNCHANGED <<opened, closed, thrown>> /\ SamePlace(x, y)
    BY DEF GoesOn, OpensItem, Requests, pathVars
  <1>4. y.snr.position \in NoPosition .. Length - 1
    BY <1>2, OutcomesAssumption DEF GoesOn, OpensItem, Requests, AtPlace
  <1>5. IterationsInOrder' /\ thrown' # "seek"
    BY <1>3 DEF PathInv, IterationsInOrder
  <1>6. InRange(y)
    BY <1>2, <1>3 DEF AtPlace, InRange, SamePlace
  <1>7. CASE OpensItem(x, y, open)
    <2>1. AtPlace(y, TRUE)'
      <3>1. item' = Seen(y, TRUE) /\ item'.open = TRUE
        BY <1>3, <1>7 DEF OpensItem, Seen, SamePlace
      <3>. QED  BY <1>1, <1>2, <1>3, <1>4, <1>6, <3>1 DEF AtPlace, SamePlace
    <2>. QED  BY <1>5, <1>7, <2>1 DEF OpensItem, Arrives, PlaceKept, At
  <1>8. CASE GoesOn(x, y, open) \/ (open = TRUE /\ Requests(x, y))
    <2>1. UNCHANGED item /\ Arrives(y, open)
      BY <1>8 DEF GoesOn, Requests, pathVars
    <2>2. AtPlace(y, open)'
      BY <1>1, <1>2, <1>3, <1>4, <1>6, <2>1 DEF AtPlace, SamePlace, Seen
    <2>. QED  BY <1>5, <2>1, <2>2 DEF Arrives, PlaceKept, At
  <1>. QED  BY <1>7, <1>8

LEMMA InitPath == Init => PathInv
  <1>. SUFFICES ASSUME Init PROVE PathInv
    OBVIOUS
  <1>1. MoveInv
    BY InitMove
  <1>2. \A y, open : ~Holds(y, open)
    BY NothingIsNotFlow DEF Init, Holds, Queued, Taken
  <1>3. IterationsInOrder
    BY DEF Init, IterationsInOrder
  <1>. QED  BY <1>1, <1>2, <1>3 DEF Init, PathInv, Unmoved

LEMMA NextPath == PathInv /\ [Next]_vars => PathInv'
  <1>. SUFFICES ASSUME PathInv, [Next]_vars PROVE PathInv'
    OBVIOUS
  <1>1. MoveInv /\ MoveInv' /\ Move
    BY NextMove, Moves DEF PathInv
  <1>2. (phase \in {"idle", "initialising"} => Unmoved)'
    <2>. SUFFICES ASSUME phase' \in {"idle", "initialising"} PROVE Unmoved'
      OBVIOUS
    <2>1. phase \in {"idle", "initialising"} /\ UNCHANGED pathVars
      BY <1>1, BeforeRun DEF MoveInv, AbortInv
    <2>. QED  BY <2>1 DEF PathInv, Unmoved, pathVars
  <1>3. PlaceKept
    <2>1. CASE Rests
      <3>1. IterationsInOrder'
        BY <2>1 DEF Rests, PathInv, pathVars, IterationsInOrder
      <3>2. thrown' # "seek"
        BY <2>1 DEF Rests, PathInv
      <3>3. ASSUME NEW z, NEW b, Holds(z, b)' PROVE At(z, b)'
        <4>1. At(z, b) /\ UNCHANGED pathVars
          BY <2>1, <3>3 DEF Rests, PathInv
        <4>. QED  BY <4>1 DEF pathVars, At, AtStart, AtPlace, Unmoved
      <3>. QED  BY <3>1, <3>2, <3>3 DEF PlaceKept
    <2>2. CASE Begins
      <3>. DEFINE y == Waterfall(cursor.position, cursor.iteration, "start")
      <3>1. Unmoved /\ Unmoved' /\ UNCHANGED <<opened, closed, thrown>>
        BY <2>2 DEF Begins, PathInv, pathVars, Unmoved
      <3>2. cursor.position = 0 /\ cursor.iteration = 0
        BY <3>1 DEF Unmoved, NewCursor, Validate
      <3>3. ASSUME NEW z, z = y PROVE AtStart(z)'
        <4>1. /\ z.cmd = "waterfall" /\ z.mode = "start"
              /\ z.position = 0 /\ z.iteration = 0
          BY <3>2, <3>3 DEF Waterfall
        <4>. QED  BY <3>1, <4>1 DEF AtStart
      <3>4. \A z, b : Holds(z, b)' => z = y
        BY <2>2 DEF Begins, Arrives
      <3>5. IterationsInOrder' /\ thrown' # "seek"
        BY <3>1 DEF PathInv, IterationsInOrder
      <3>. HIDE DEF y
      <3>. QED  BY <3>3, <3>4, <3>5 DEF PlaceKept, At
    <2>. QED  BY <1>1, <2>1, <2>2, PathTurns, PathCloses, PathStays DEF Move
  <1>. QED  BY <1>1, <1>2, <1>3 DEF PathInv, PlaceKept

LEMMA AlwaysPathInv == Spec => []PathInv
  BY InitPath, NextPath, PTL DEF Spec

(* beforeIteration and iteration are triggered for 0, 1, 2... in turn, an   *)
(* iteration being closed before the next is opened, wherever scripts and   *)
(* errors send the run, and whatever aborts, pauses or times it out.        *)
THEOREM IterationsAreInOrder == Spec => []IterationsInOrder
  <1>1. PathInv => IterationsInOrder
    BY DEF PathInv
  <1>. QED  BY <1>1, AlwaysPathInv, PTL

(* What the end of an item does, by what ended it.                          *)
Leaves(x, y, open, err, snr) ==
    /\ AtPlace(x, open)
    /\ y.cmd = "waterfall" /\ y.snr = NoRequest /\ y.mutated = FALSE
    /\ y.iteration = x.iteration /\ Arrives(y, FALSE) /\ ~NoFlow'
    /\ y.mode = "stop" <=> err = TRUE /\ StopOnFailure
    /\ err = TRUE => y.position = Length - 1 /\ y.mode \in {"next", "stop"}
    /\ err = FALSE /\ ~snr.defined => y.position = x.position /\ y.mode = "next"
    /\ UNCHANGED <<opened, closed>>
    /\ item' = Seen(x, FALSE)
    /\ stopped' = IF err THEN stopped \cup {x.iteration} ELSE stopped

LEMMA ClosesLeaves ==
    ASSUME PathInv, NEW x \in Instructions, NEW open \in BOOLEAN, NEW err \in BOOLEAN,
           NEW snr \in Snrs, ClosesItem(x, open, err, snr)
    PROVE  \E y : Leaves(x, y, open, err, snr)
  <1>. DEFINE next == ProcessExecutionResult(x, snr, err, Length, DisableSNR, StopOnFailure)
              y == Waterfall(next.position, x.iteration, ModeAfter(next))
  <1>1. AtPlace(x, open)
    BY DEF ClosesItem, PathInv, At, AtStart, ClosingCommands
  <1>2. InRange(x) /\ x.position \in 0 .. Length - 1 /\ Length \in Nat
    BY <1>1, SizeAssumption DEF AtPlace, InRange
  <1>3. snr.position \in NoPosition .. Length - 1
    BY <1>1, OutcomesAssumption, SizeAssumption DEF AtPlace, ClosesItem, NoRequest, NoPosition
  <1>4. next.position \in 0 .. Length - 1
    BY <1>2, <1>3, ResultInside
  <1>5. ~OutOfBounds(cursor, next.position, x.iteration)
    <2>1. cursor.length = Length /\ cursor.cycles = Cycles
      BY DEF PathInv, MoveInv, AbortInv, FlowInv, TypeOK
    <2>. QED  BY <1>2, <1>4, <2>1, SizeAssumption DEF InRange, OutOfBounds
  <1>6. /\ Arrives(y, FALSE) /\ ~NoFlow' /\ UNCHANGED <<opened, closed>>
        /\ item' = Seen(x, FALSE)
        /\ stopped' = IF err THEN stopped \cup {x.iteration} ELSE stopped
    BY <1>5 DEF ClosesItem
  <1>7. /\ y.cmd = "waterfall" /\ y.position = next.position /\ y.iteration = x.iteration
        /\ y.mode = ModeAfter(next) /\ y.snr = NoRequest /\ y.mutated = FALSE
    BY DEF Waterfall
  <1>8. CASE err
    <2>1. next = [ position |-> Length - 1, seekingToStart |-> FALSE,
                   stopRunNow |-> StopOnFailure ]
      <3>1. EndsIteration(err, snr) = TRUE
        BY <1>8 DEF EndsIteration
      <3>2. (~err /\ ~DisableSNR /\ snr.defined /\ snr.position # NoPosition) = FALSE
        BY <1>8
      <3>3. (Length - 1 = -1) = FALSE
        BY <1>2
      <3>4. (~FALSE /\ StopOnFailure /\ err) = StopOnFailure
        BY <1>8, OptionsAssumption DEF Options
      <3>. QED  BY <3>1, <3>2, <3>3, <3>4 DEF ProcessExecutionResult
    <2>2. ModeAfter(next) = IF StopOnFailure THEN "stop" ELSE "next"
      BY <2>1 DEF ModeAfter
    <2>3. next.position = Length - 1
      BY <2>1
    <2>. HIDE DEF next, y
    <2>. QED  BY <1>1, <1>6, <1>7, <1>8, <2>2, <2>3 DEF Leaves
  <1>9. CASE ~err
    <2>1. next.stopRunNow = FALSE
      BY <1>9 DEF ProcessExecutionResult
    <2>2. ModeAfter(next) = IF next.seekingToStart THEN "static" ELSE "next"
      <3>. HIDE DEF next
      <3>. QED  BY <2>1 DEF ModeAfter
    <2>3. ASSUME ~snr.defined PROVE next.position = x.position /\ next.seekingToStart = FALSE
      <3>1. EndsIteration(err, snr) = FALSE
        BY <1>9, <2>3 DEF EndsIteration, Snrs
      <3>2. (~err /\ ~DisableSNR /\ snr.defined /\ snr.position # NoPosition) = FALSE
        BY <2>3
      <3>3. (x.position = -1) = FALSE
        BY <1>2
      <3>. QED  BY <3>1, <3>2, <3>3 DEF ProcessExecutionResult
    <2>. HIDE DEF next, y
    <2>. QED  BY <1>1, <1>6, <1>7, <1>9, <2>2, <2>3 DEF Leaves
  <1>. QED  BY <1>8, <1>9

(***************************************************************************)
(* What an error stops                                                     *)
(***************************************************************************)
(* Only iterations that have begun are stopped; the flow is past the items  *)
(* of the one it is in if that is, and nowhere but at the waterfall that    *)
(* ends the run if an error stops that.                                     *)
StoppedAt(y) ==
    /\ \A i \in stopped : i <= y.iteration
    /\ y.cmd # "waterfall" => y.iteration \notin stopped /\ (StopOnFailure => stopped = {})
    /\ y.cmd = "waterfall" =>
          /\ y.iteration \in stopped => y.position = Length - 1 /\ y.mode \in {"next", "stop"}
          /\ y.mode = "stop" <=> StopOnFailure /\ stopped # {}

StopInv ==
    /\ PathInv
    /\ \A y, open : Holds(y, open) => StoppedAt(y)

LEMMA NextStop == StopInv /\ [Next]_vars => StopInv'
  <1>. SUFFICES ASSUME StopInv, [Next]_vars
                PROVE  \A z, b : Holds(z, b)' => StoppedAt(z)'
    BY NextPath DEF StopInv
  <1>1. PathInv /\ PathInv' /\ Move /\ TypeOK
    BY NextPath, Moves DEF StopInv, PathInv, MoveInv, AbortInv, FlowInv
  <1>2. CASE Rests
    BY <1>2 DEF Rests, pathVars, StopInv, StoppedAt
  <1>3. CASE Begins
    <2>. DEFINE y == Waterfall(cursor.position, cursor.iteration, "start")
    <2>1. stopped' = {}
      BY <1>1, <1>3 DEF Begins, PathInv, pathVars, Unmoved
    <2>2. y.cmd = "waterfall" /\ y.mode = "start"
      BY DEF Waterfall
    <2>3. \A z, b : Holds(z, b)' => z = y
      BY <1>3 DEF Begins, Arrives
    <2>4. ASSUME NEW z, z = y PROVE StoppedAt(z)'
      <3>1. z.cmd = "waterfall" /\ z.mode = "start"
        BY <2>2, <2>4
      <3>. QED  BY <2>1, <3>1 DEF StoppedAt
    <2>. HIDE DEF y
    <2>. QED  BY <2>3, <2>4
  <1>4. CASE \E x, y : Turns(x, y)
    <2>1. PICK x, y : Leads(x, y)
      BY <1>1, <1>4, TurnsLead
    <2>2. UNCHANGED stopped /\ StoppedAt(x) /\ x.cmd = "waterfall" /\ x \in Instructions
      BY <2>1 DEF Leads, StopInv
    <2>3. x.iteration \in Int /\ x.position \in Int /\ stopped \subseteq Int /\ Length \in Nat
      BY <1>1, <2>2, InstructionFields, SizeAssumption DEF TypeOK
    <2>4. ASSUME NEW position, NEW iteration, Reaches(y, position, iteration),
                 iteration \notin stopped, StopOnFailure => stopped = {},
                 \A i \in stopped : i <= iteration
          PROVE  \A z, b : Holds(z, b)' => StoppedAt(z)'
      <3>1. y.cmd # "waterfall" /\ y.iteration = iteration
        BY <2>4 DEF Reaches
      <3>2. StoppedAt(y)'
        BY <2>2, <2>4, <3>1 DEF StoppedAt
      <3>. QED  BY <2>4, <3>2 DEF Reaches, Arrives
    <2>5. CASE Vanishes
      BY <2>5 DEF Vanishes
    <2>6. CASE AtStart(x) /\ Reaches(y, 0, 0)
      <3>1. stopped = {}
        BY <2>6 DEF AtStart, Unmoved
      <3>. QED  BY <2>4, <2>6, <3>1
    <2>7. CASE /\ \/ x.mode = "next" /\ x.position + 1 < Length /\ Reaches(y, x.position + 1, x.iteration)
                  \/ x.mode = "static" /\ Reaches(y, 0, x.iteration)
      <3>1. x.iteration \notin stopped /\ (StopOnFailure => stopped = {})
        <4>1. x.mode = "next" => x.position # Length - 1
          BY <2>3, <2>7
        <4>. QED  BY <2>2, <2>7, <4>1 DEF StoppedAt
      <3>. QED  BY <2>2, <2>4, <2>7, <3>1 DEF StoppedAt
    <2>8. CASE x.mode = "next" /\ Reaches(y, 0, x.iteration + 1)
      <3>1. x.iteration + 1 \notin stopped /\ \A i \in stopped : i <= x.iteration + 1
        BY <2>2, <2>3 DEF StoppedAt
      <3>2. StopOnFailure => stopped = {}
        BY <2>2, <2>8 DEF StoppedAt
      <3>. QED  BY <2>4, <2>8, <3>1, <3>2
    <2>. QED  BY <2>1, <2>5, <2>6, <2>7, <2>8 DEF Leads
  <1>5. CASE \E x, y \in Instructions, open \in BOOLEAN :
                GoesOn(x, y, open) \/ OpensItem(x, y, open) \/ (open = TRUE /\ Requests(x, y))
    <2>1. PICK x \in Instructions, y \in Instructions, open \in BOOLEAN :
                GoesOn(x, y, open) \/ OpensItem(x, y, open) \/ (open = TRUE /\ Requests(x, y))
      BY <1>5
    <2>2. /\ x.cmd # "waterfall" /\ y.cmd # "waterfall" /\ y.iteration = x.iteration
          /\ UNCHANGED stopped
          /\ \E b : (Arrives(y, b) /\ Holds(x, b)) \/ (Arrives(y, b) /\ Holds(x, open))
      BY <2>1 DEF GoesOn, OpensItem, Requests, SamePlace, pathVars
    <2>3. StoppedAt(x)
      BY <2>2 DEF StopInv
    <2>4. StoppedAt(y)'
      BY <2>2, <2>3 DEF StoppedAt
    <2>. QED  BY <2>2, <2>4 DEF Arrives
  <1>6. CASE \E x \in Instructions, open, err \in BOOLEAN, snr \in Snrs :
                ClosesItem(x, open, err, snr)
    <2>1. PICK x \in Instructions, open \in BOOLEAN, err \in BOOLEAN, snr \in Snrs :
                ClosesItem(x, open, err, snr)
      BY <1>6
    <2>2. PICK y : Leaves(x, y, open, err, snr)
      BY <1>1, <2>1, ClosesLeaves
    <2>3. StoppedAt(x) /\ x.cmd # "waterfall" /\ x.iteration \in Int /\ stopped \subseteq Int
      BY <1>1, <2>1, InstructionFields DEF ClosesItem, ClosingCommands, StopInv, TypeOK
    <2>4. StoppedAt(y)'
      <3>1. CASE err = TRUE
        <4>1. stopped' = stopped \cup {x.iteration}
          BY <2>2, <3>1 DEF Leaves
        <4>2. \A i \in stopped' : i <= x.iteration
          BY <2>3, <4>1 DEF StoppedAt
        <4>3. x.iteration \in stopped'
          BY <4>1
        <4>. QED  BY <2>2, <3>1, <4>2, <4>3 DEF Leaves, StoppedAt
      <3>2. CASE err = FALSE
        BY <2>2, <2>3, <3>2 DEF Leaves, StoppedAt
      <3>. QED  BY <3>1, <3>2
    <2>. QED  BY <2>2, <2>4 DEF Leaves, Arrives
  <1>. QED  BY <1>1, <1>2, <1>3, <1>4, <1>5, <1>6 DEF Move

LEMMA AlwaysStopInv == Spec => []StopInv
  <1>1. Init => StopInv
    <2>. SUFFICES ASSUME Init PROVE StopInv
      OBVIOUS
    <2>1. \A y, open : ~Holds(y, open)
      BY NothingIsNotFlow DEF Init, Holds, Queued, Taken
    <2>. QED  BY <2>1, InitPath DEF StopInv
  <1>. QED  BY <1>1, NextStop, PTL DEF Spec

(* An iteration that an item's error has ended executes nothing more, and   *)
(* with stopOnFailure nor does any other, wherever in the run and however   *)
(* the error came: from the scripts, the request or the secret resolver.    *)
THEOREM StoppedStaysStopped == Spec => []StoppedIsStopped
  <1>1. StopInv => StoppedIsStopped
    <2>. SUFFICES ASSUME StopInv, NEW instruction \in Pending,
                         instruction.cmd \in ItemCommands \cup {"iteration delay"}
                  PROVE  /\ instruction.iteration \notin stopped
                         /\ StopOnFailure => stopped = {}
      BY DEF StoppedIsStopped
    <2>1. IsFlow(instruction) /\ instruction.cmd # "waterfall"
      BY DEF IsFlow, FlowCommands, ItemCommands
    <2>2. \E open : Holds(instruction, open)
      BY <2>1 DEF Pending, Holds, Queued, Taken
    <2>. QED  BY <2>1, <2>2 DEF StopInv, StoppedAt
  <1>. QED  BY <1>1, AlwaysStopInv, PTL

(***************************************************************************)
(* What is restored                                                        *)
(***************************************************************************)
(* An error of the request, or of the secret resolver, ends the item before *)
(* the request is put back.  That is harmless when no such error ends an    *)
(* item, and when it ends the run.                                          *)
Restores ==
    \/ StopOnFailure
    \/ ~StopOnError /\ (SecretResolver = "none" \/ TRUE \notin Failures)

(* Only the request of the item the flow is in is not the run's own, from   *)
(* the pre-request scripts on, unless the run is at its end.                *)
RestoredAt(y) ==
    /\ y.mutated = FALSE
    /\ \/ mutated = {}
       \/ mutated = {y.position} /\ y.cmd \in {"request", "test"}
       \/ y.cmd = "waterfall" /\ y.mode = "stop"

RestoreInv ==
    /\ PathInv
    /\ \A y, open : Holds(y, open) => RestoredAt(y)

LEMMA NextRestore ==
    ASSUME Restores, RestoreInv, [Next]_vars
    PROVE  RestoreInv'
  <1>. SUFFICES \A z, b : Holds(z, b)' => RestoredAt(z)'
    BY NextPath DEF RestoreInv
  <1>1. PathInv /\ PathInv' /\ Move
    BY NextPath, Moves DEF RestoreInv, PathInv
  <1>2. CASE Rests
    BY <1>2 DEF Rests, pathVars, RestoreInv, RestoredAt
  <1>3. CASE Begins
    <2>. DEFINE y == Waterfall(cursor.position, cursor.iteration, "start")
    <2>1. mutated' = {}
      BY <1>1, <1>3 DEF Begins, PathInv, pathVars, Unmoved
    <2>2. y.mutated = FALSE
      BY DEF Waterfall
    <2>3. \A z, b : Holds(z, b)' => z = y
      BY <1>3 DEF Begins, Arrives
    <2>4. ASSUME NEW z, z = y PROVE RestoredAt(z)'
      BY <2>1, <2>2, <2>4 DEF RestoredAt
    <2>. HIDE DEF y
    <2>. QED  BY <2>3, <2>4
  <1>4. CASE \E x, y : Turns(x, y)
    <2>1. PICK x, y : Leads(x, y)
      BY <1>1, <1>4, TurnsLead
    <2>2. UNCHANGED mutated /\ RestoredAt(x) /\ x.cmd = "waterfall"
      BY <2>1 DEF Leads, RestoreInv
    <2>3. ASSUME NEW position, NEW iteration, Reaches(y, position, iteration), x.mode # "stop"
          PROVE  \A z, b : Holds(z, b)' => RestoredAt(z)'
      BY <2>2, <2>3 DEF Reaches, Arrives, RestoredAt
    <2>. QED  BY <2>1, <2>3 DEF Leads, AtStart, Vanishes
  <1>5. CASE \E x, y \in Instructions, open \in BOOLEAN : GoesOn(x, y, open)
    <2>1. PICK x \in Instructions, y \in Instructions, open \in BOOLEAN : GoesOn(x, y, open)
      BY <1>5
    <2>2. RestoredAt(x) /\ UNCHANGED mutated
      BY <2>1 DEF GoesOn, RestoreInv, pathVars
    <2>3. RestoredAt(y)'
      BY <2>1, <2>2 DEF RestoredAt, GoesOn, SamePlace
    <2>. QED  BY <2>1, <2>3 DEF GoesOn, Arrives
  <1>6. CASE \E x, y \in Instructions, open \in BOOLEAN : OpensItem(x, y, open)
    <2>1. PICK x \in Instructions, y \in Instructions, open \in BOOLEAN : OpensItem(x, y, open)
      BY <1>6
    <2>2. mutated = {} /\ mutated' = {} /\ x.mutated = FALSE
      BY <2>1 DEF OpensItem, RestoreInv, RestoredAt
    <2>3. y.mutated = FALSE
      <3>1. (x.position \in mutated) = FALSE
        BY <2>2
      <3>. QED  BY <2>1, <2>2, <3>1 DEF OpensItem
    <2>4. RestoredAt(y)'
      BY <2>2, <2>3 DEF RestoredAt
    <2>. QED  BY <2>1, <2>4 DEF OpensItem, Arrives
  <1>7. CASE \E x, y \in Instructions : Requests(x, y)
    <2>1. PICK x \in Instructions, y \in Instructions : Requests(x, y)
      BY <1>7
    <2>2. mutated = {} /\ x.mutated = FALSE
      BY <2>1 DEF Requests, RestoreInv, RestoredAt
    <2>3. mutated' = {} \/ mutated' = {y.position}
      BY <2>1, <2>2 DEF Requests, SamePlace
    <2>4. RestoredAt(y)'
      BY <2>1, <2>2, <2>3 DEF RestoredAt, Requests
    <2>. QED  BY <2>1, <2>4 DEF Requests, Arrives
  <1>8. CASE \E x \in Instructions, open, err \in BOOLEAN, snr \in Snrs :
                ClosesItem(x, open, err, snr)
    <2>1. PICK x \in Instructions, open \in BOOLEAN, err \in BOOLEAN, snr \in Snrs :
                ClosesItem(x, open, err, snr)
      BY <1>8
    <2>2. PICK y : Leaves(x, y, open, err, snr)
      BY <1>1, <2>1, ClosesLeaves
    <2>3. RestoredAt(x) /\ x.cmd \in ClosingCommands
      BY <2>1 DEF ClosesItem, RestoreInv
    <2>4. mutated' = {} \/ (err = TRUE /\ StopOnFailure)
      <3>1. CASE x.cmd = "test" /\ mutated' = MutatedAfter(x)
        BY <2>3, <3>1 DEF MutatedAfter, RestoredAt
      <3>2. CASE x.cmd \in {"item", "prerequest"} /\ mutated' = mutated
        BY <2>3, <3>2 DEF RestoredAt
      <3>3. CASE err = TRUE /\ KeepsMutation
        BY <3>3 DEF KeepsMutation, Restores
      <3>. QED  BY <2>1, <3>1, <3>2, <3>3 DEF ClosesItem
    <2>5. RestoredAt(y)'
      BY <2>2, <2>4 DEF Leaves, RestoredAt
    <2>. QED  BY <2>2, <2>5 DEF Leaves, Arrives
  <1>. QED  BY <1>1, <1>2, <1>3, <1>4, <1>5, <1>6, <1>7, <1>8 DEF Move

(* An item starts with the request it has in the run's collection, whatever *)
(* its scripts did to it in an earlier iteration, unless an error keeps the *)
(* flow from the end of an item and lets the run go on.                     *)
THEOREM RequestsAreRestored == Restores => (Spec => []RequestsRestored)
  <1>. SUFFICES ASSUME Restores PROVE Spec => []RequestsRestored
    OBVIOUS
  <1>1. Init => RestoreInv
    <2>. SUFFICES ASSUME Init PROVE RestoreInv
      OBVIOUS
    <2>1. \A y, open : ~Holds(y, open)
      BY NothingIsNotFlow DEF Init, Holds, Queued, Taken
    <2>. QED  BY <2>1, InitPath DEF RestoreInv
  <1>2. RestoreInv /\ [Next]_vars => RestoreInv'
    BY NextRestore
  <1>3. RestoreInv => RequestsRestored
    <2>. SUFFICES ASSUME RestoreInv, NEW i \in DOMAIN pool, pool[i].cmd = "item"
                  PROVE  pool[i].position \notin mutated
      BY DEF RequestsRestored
    <2>1. Queued(pool[i])
      BY DEF Queued, IsFlow, FlowCommands, ItemCommands
    <2>2. Holds(pool[i], FALSE)
      BY <2>1, OpenCommandsAre DEF Holds
    <2>. QED  BY <2>2 DEF RestoreInv, RestoredAt
  <1>. QED  BY <1>1, <1>2, <1>3, PTL DEF Spec

(***************************************************************************)
(* The order of the items                                                  *)
(***************************************************************************)
(* The item the run is past: the last of its iteration if that was stopped. *)
LastItem == IF item.iteration \in stopped THEN [item EXCEPT !.position = Length - 1] ELSE item

Follows(position, iteration) ==
    LET next == WhatNext(cursor, LastItem)
    IN  next.eof = FALSE /\ position = next.position /\ iteration = next.iteration

OrderedAt(y, open) ==
    /\ y.snr.defined = FALSE
    /\ y.cmd \in {"item", "iteration delay"} /\ open = FALSE => Follows(y.position, y.iteration)
    /\ y.cmd = "waterfall" /\ y.mode # "start" =>
          y.mode # "static" /\ y.position = LastItem.position /\ y.iteration = LastItem.iteration

OrderInv ==
    /\ StopInv
    /\ \A y, open : Holds(y, open) => OrderedAt(y, open)

LEMMA NothingRequested ==
    ASSUME NextRequests \subseteq {NoRequest}, NEW snr \in NextRequests \cup {NoRequest}
    PROVE  snr.defined = FALSE
  BY DEF NoRequest

LEMMA NextOrder ==
    ASSUME NextRequests \subseteq {NoRequest}, OrderInv, [Next]_vars
    PROVE  OrderInv'
  <1>. SUFFICES \A z, b : Holds(z, b)' => OrderedAt(z, b)'
    BY NextStop DEF OrderInv
  <1>1. PathInv /\ PathInv' /\ StopInv /\ Move /\ TypeOK
    BY NextPath, Moves DEF OrderInv, StopInv, PathInv, MoveInv, AbortInv, FlowInv
  <1>2. /\ cursor.length = Length /\ cursor.cycles = Cycles
        /\ Length \in Nat /\ Cycles \in Nat \ {0} /\ NoRequest.defined = FALSE
    BY <1>1, SizeAssumption DEF TypeOK, NoRequest
  <1>3. CASE Rests
    BY <1>3 DEF Rests, pathVars, OrderInv, OrderedAt, Follows, LastItem
  <1>4. CASE Begins
    <2>. DEFINE y == Waterfall(cursor.position, cursor.iteration, "start")
    <2>1. y.cmd = "waterfall" /\ y.mode = "start" /\ y.snr = NoRequest
      BY DEF Waterfall
    <2>2. \A z, b : Holds(z, b)' => z = y
      BY <1>4 DEF Begins, Arrives
    <2>3. ASSUME NEW z, z = y, NEW b PROVE OrderedAt(z, b)'
      <3>1. z.cmd = "waterfall" /\ z.mode = "start" /\ z.snr = NoRequest
        BY <2>1, <2>3
      <3>. QED  BY <1>2, <3>1 DEF OrderedAt
    <2>. HIDE DEF y
    <2>. QED  BY <2>2, <2>3
  <1>5. CASE \E x, y : Turns(x, y)
    <2>1. PICK x, y : Leads(x, y)
      BY <1>1, <1>5, TurnsLead
    <2>2. UNCHANGED <<cursor, item, stopped>> /\ OrderedAt(x, FALSE) /\ x.cmd = "waterfall"
      BY <2>1 DEF Leads, OrderInv
    <2>3. ASSUME NEW position, NEW iteration, Reaches(y, position, iteration),
                 Follows(position, iteration)
          PROVE  \A z, b : Holds(z, b)' => OrderedAt(z, b)'
      <3>1. /\ y.cmd # "waterfall" /\ y.snr = NoRequest
            /\ y.position = position /\ y.iteration = iteration
        BY <2>3 DEF Reaches
      <3>2. Follows(position, iteration)'
        BY <2>2, <2>3 DEF Follows, LastItem
      <3>3. OrderedAt(y, FALSE)'
        BY <1>2, <3>1, <3>2 DEF OrderedAt
      <3>. QED  BY <2>3, <3>3 DEF Reaches, Arrives
    <2>4. CASE Vanishes
      BY <2>4 DEF Vanishes
    <2>5. CASE AtStart(x) /\ Length > 0 /\ Reaches(y, 0, 0)
      <3>1. LastItem.position = -1 /\ LastItem.iteration = 0
        BY <2>5 DEF AtStart, Unmoved, LastItem
      <3>2. Follows(0, 0)
        BY <1>2, <2>5, <3>1 DEF Follows, WhatNext, Coords, InLastIteration
      <3>. QED  BY <2>3, <2>5, <3>2
    <2>6. CASE AtPlace(x, FALSE) /\ x.mode = "next"
      <3>1. /\ x.position = LastItem.position /\ x.iteration = LastItem.iteration
            /\ x.position \in 0 .. Length - 1 /\ x.iteration \in 0 .. Cycles - 1
        BY <2>2, <2>6 DEF OrderedAt, AtPlace, InRange
      <3>2. ASSUME x.position + 1 < Length PROVE Follows(x.position + 1, x.iteration)
        BY <1>2, <3>1, <3>2 DEF Follows, WhatNext, Coords, InLastIteration
      <3>3. ASSUME x.position = Length - 1, x.iteration + 1 < Cycles
            PROVE  Follows(0, x.iteration + 1)
        BY <1>2, <3>1, <3>3 DEF Follows, WhatNext, Coords, InLastIteration
      <3>. QED  BY <2>1, <2>3, <2>4, <2>6, <3>2, <3>3 DEF Leads, AtStart
    <2>7. x.mode # "static"
      BY <2>2 DEF OrderedAt
    <2>. QED  BY <2>1, <2>4, <2>5, <2>6, <2>7 DEF Leads
  <1>6. CASE \E x, y \in Instructions, open \in BOOLEAN : GoesOn(x, y, open)
    <2>1. PICK x \in Instructions, y \in Instructions, open \in BOOLEAN : GoesOn(x, y, open)
      BY <1>6
    <2>2. OrderedAt(x, open) /\ UNCHANGED <<cursor, item, stopped>>
      BY <2>1 DEF GoesOn, OrderInv, pathVars
    <2>3. ASSUME Follows(x.position, x.iteration) PROVE Follows(y.position, y.iteration)'
      BY <2>1, <2>2, <2>3 DEF Follows, LastItem, GoesOn, SamePlace
    <2>4. OrderedAt(y, open)'
      BY <2>1, <2>2, <2>3 DEF OrderedAt, GoesOn
    <2>. QED  BY <2>1, <2>4 DEF GoesOn, Arrives
  <1>7. CASE \E x, y \in Instructions, open \in BOOLEAN : OpensItem(x, y, open)
    <2>1. PICK x \in Instructions, y \in Instructions, open \in BOOLEAN : OpensItem(x, y, open)
      BY <1>7
    <2>2. y.snr.defined = FALSE /\ y.cmd # "waterfall" /\ Arrives(y, TRUE)
      BY <2>1 DEF OpensItem, OrderInv, OrderedAt
    <2>3. OrderedAt(y, TRUE)'
      BY <2>2 DEF OrderedAt
    <2>. QED  BY <2>2, <2>3 DEF Arrives
  <1>8. CASE \E x, y \in Instructions : Requests(x, y)
    <2>1. PICK x \in Instructions, y \in Instructions : Requests(x, y)
      BY <1>8
    <2>2. y.snr.defined = FALSE
      BY <2>1, NothingRequested DEF Requests
    <2>3. OrderedAt(y, TRUE)'
      BY <2>1, <2>2 DEF OrderedAt, Requests
    <2>. QED  BY <2>1, <2>3 DEF Requests, Arrives
  <1>9. CASE \E x \in Instructions, open, err \in BOOLEAN, snr \in Snrs :
                ClosesItem(x, open, err, snr)
    <2>1. PICK x \in Instructions, open \in BOOLEAN, err \in BOOLEAN, snr \in Snrs :
                ClosesItem(x, open, err, snr)
      BY <1>9
    <2>2. PICK y : Leaves(x, y, open, err, snr)
      BY <1>1, <2>1, ClosesLeaves
    <2>3. snr.defined = FALSE
      <3>1. x.snr.defined = FALSE
        BY <2>1 DEF ClosesItem, OrderInv, OrderedAt
      <3>. QED  BY <2>1, <3>1, NothingRequested DEF ClosesItem
    <2>4. x.iteration \notin stopped
      BY <1>1, <2>1 DEF ClosesItem, ClosingCommands, StopInv, StoppedAt
    <2>5. /\ item'.position = x.position /\ item'.iteration = x.iteration
          /\ item' = [position |-> x.position, iteration |-> x.iteration, open |-> FALSE]
          /\ y.iteration = x.iteration /\ y.cmd = "waterfall" /\ y.snr = NoRequest
      BY <2>2 DEF Leaves, Seen
    <2>6. /\ y.position = LastItem'.position /\ y.iteration = LastItem'.iteration
          /\ y.mode # "static"
      <3>1. CASE err = TRUE
        <4>1. item'.iteration \in stopped' /\ y.position = Length - 1 /\ y.mode # "static"
          BY <2>2, <2>5, <3>1 DEF Leaves
        <4>2. LastItem' = [item' EXCEPT !.position = Length - 1]
          BY <4>1 DEF LastItem
        <4>. QED  BY <2>5, <4>1, <4>2
      <3>2. CASE err = FALSE
        <4>1. item'.iteration \notin stopped' /\ y.position = x.position /\ y.mode # "static"
          BY <2>2, <2>3, <2>4, <2>5, <3>2 DEF Leaves
        <4>2. LastItem' = item'
          BY <4>1 DEF LastItem
        <4>. QED  BY <2>5, <4>1, <4>2
      <3>. QED  BY <3>1, <3>2
    <2>7. OrderedAt(y, FALSE)'
      BY <1>2, <2>5, <2>6 DEF OrderedAt
    <2>. QED  BY <2>2, <2>7 DEF Leaves, Arrives
  <1>. QED  BY <1>1, <1>3, <1>4, <1>5, <1>6, <1>7, <1>8, <1>9 DEF Move

(* Where no script asks for another item, an item starts only when its      *)
(* predecessor in the collection is over, or when it is the first of an     *)
(* iteration and an error ended the previous one.                           *)
THEOREM ItemsStayInOrder == NextRequests \subseteq {NoRequest} => (Spec => ItemsInOrder)
  <1>. SUFFICES ASSUME NextRequests \subseteq {NoRequest} PROVE Spec => ItemsInOrder
    OBVIOUS
  <1>. DEFINE Step == ItemStarts =>
                /\ ~item.open
                /\ LET last == IF item.iteration \in stopped
                               THEN [item EXCEPT !.position = Length - 1] ELSE item
                       next == WhatNext(cursor, last)
                   IN  /\ ~next.eof
                       /\ item'.position = next.position
                       /\ item'.iteration = next.iteration
  <1>1. Init => OrderInv
    <2>. SUFFICES ASSUME Init PROVE OrderInv
      OBVIOUS
    <2>1. \A y, open : ~Holds(y, open)
      BY NothingIsNotFlow DEF Init, Holds, Queued, Taken
    <2>. QED  BY <2>1, InitPath DEF OrderInv, StopInv
  <1>2. OrderInv /\ [Next]_vars => OrderInv'
    BY NextOrder
  <1>3. ASSUME OrderInv, [Next]_vars
        PROVE  [Step]_vars
    <2>. SUFFICES ASSUME ItemStarts
                  PROVE  item.open = FALSE /\ Follows(item'.position, item'.iteration)
      BY DEF Follows, LastItem
    <2>1. PathInv /\ Move
      BY <1>3, Moves DEF OrderInv, StopInv, PathInv
    <2>2. item' # item
      BY DEF ItemStarts
    <2>3. PICK x \in Instructions, open \in BOOLEAN :
             /\ Holds(x, open) /\ x.cmd \in ClosingCommands
             /\ item' = Seen(x, TRUE) \/ item' = Seen(x, FALSE)
             /\ item' = Seen(x, TRUE) => x.cmd = "item"
      <3>1. ~Rests /\ ~Begins
        BY <2>2 DEF Rests, Begins, pathVars
      <3>2. \A x, y : ~Turns(x, y)
        BY <2>2 DEF Turns
      <3>3. \A x, y, open : ~GoesOn(x, y, open)
        BY <2>2 DEF GoesOn, pathVars
      <3>4. \A x, y : ~Requests(x, y)
        BY <2>2 DEF Requests
      <3>5. \A x : Seen(x, TRUE) # Seen(x, FALSE)
        BY DEF Seen
      <3>6. ASSUME NEW x \in Instructions, NEW y \in Instructions, NEW open \in BOOLEAN,
                   OpensItem(x, y, open)
            PROVE  /\ Holds(x, open) /\ x.cmd \in ClosingCommands
                   /\ item' = Seen(x, TRUE) /\ x.cmd = "item"
        BY <3>6 DEF OpensItem, ClosingCommands
      <3>7. ASSUME NEW x \in Instructions, NEW open \in BOOLEAN, NEW err \in BOOLEAN,
                   NEW snr \in Snrs, ClosesItem(x, open, err, snr)
            PROVE  /\ Holds(x, open) /\ x.cmd \in ClosingCommands
                   /\ item' = Seen(x, FALSE) /\ item' # Seen(x, TRUE)
        BY <3>5, <3>7 DEF ClosesItem
      <3>. QED  BY <2>1, <3>1, <3>2, <3>3, <3>4, <3>6, <3>7 DEF Move
    <2>4. item'.position = x.position /\ item'.iteration = x.iteration
      BY <2>3 DEF Seen
    <2>5. AtPlace(x, open) /\ OrderedAt(x, open)
      BY <1>3, <2>1, <2>3 DEF PathInv, At, AtStart, ClosingCommands, OrderInv
    <2>6. open = FALSE
      <3>1. ASSUME open = TRUE PROVE FALSE
        <4>1. item = Seen(x, TRUE)
          BY <2>5, <3>1 DEF AtPlace
        <4>. QED  BY <2>2, <2>3, <4>1 DEF ItemStarts, Seen
      <3>. QED  BY <3>1
    <2>7. x.cmd = "item"
      <3>1. x.cmd \notin OpenCommands
        BY <2>3, <2>6 DEF Holds
      <3>. QED  BY <2>3, <3>1 DEF ClosingCommands, OpenCommands
    <2>. QED  BY <2>4, <2>5, <2>6, <2>7 DEF AtPlace, OrderedAt
  <1>4. Spec => [][Step]_vars
    <2>. HIDE DEF Step
    <2>. QED  BY <1>1, <1>2, <1>3, PTL DEF Spec
  <1>. QED  BY <1>4 DEF ItemsInOrder

(***************************************************************************)
(* The end of the run                                                      *)
(***************************************************************************)
Complete ==
    /\ item.open = FALSE
    /\ Len(closed) = Len(opened)
    /\ Length > 0 /\ ~(StopOnFailure /\ stopped # {}) => Len(opened) = Cycles

(* An error is passed on at once; the sandbox is disposed of at the end of  *)
(* the queue only, when nothing is left unless a resolver is late.          *)
EndInv ==
    /\ phase = "idle" => globalTimer = "off"
    /\ failed => phase \notin {"running", "idle", "initialising"}
    /\ host = "disposed" => /\ phase = "over" /\ ~failed
                            /\ SecretResolver # "async" => NoFlow

(* Once the flow has vanished, without being lost, the run is complete.     *)
CompleteInv ==
    /\ StopInv
    /\ EndInv
    /\ phase \notin {"idle", "initialising"} /\ ~Lost /\ NoFlow => Complete

LEMMA FlowHolds ==
    ASSUME ~NoFlow
    PROVE  \E y, open : Holds(y, open)
  BY DEF NoFlow, NoFlowIn, Holds, Queued, Taken

LEMMA HoldsFlow ==
    ASSUME NEW y, NEW open, Holds(y, open)
    PROVE  ~NoFlow
  BY DEF NoFlow, NoFlowIn, Holds, Queued, Taken

LEMMA NoFlowStays ==
    ASSUME NoFlow, Move, phase # "initialising"
    PROVE  Rests /\ NoFlow'
  <1>1. \A y, open : ~Holds(y, open)
    BY HoldsFlow
  <1>2. Rests
    <2>1. ~Begins
      BY DEF Begins
    <2>2. ASSUME NEW x, NEW y, Turns(x, y) PROVE FALSE
      <3>1. Holds(x, FALSE)
        BY ONLY <2>2 DEF Turns
      <3>. QED  BY <1>1, <3>1
    <2>3. ASSUME NEW x, NEW y, NEW open, GoesOn(x, y, open) \/ OpensItem(x, y, open) \/ Requests(x, y)
          PROVE  FALSE
      <3>1. \E b : Holds(x, b)
        BY ONLY <2>3 DEF GoesOn, OpensItem, Requests
      <3>. QED  BY <1>1, <3>1
    <2>4. ASSUME NEW x, NEW open, NEW err, NEW snr, ClosesItem(x, open, err, snr) PROVE FALSE
      <3>1. Holds(x, open)
        BY ONLY <2>4 DEF ClosesItem
      <3>. QED  BY <1>1, <3>1
    <2>. QED  BY <2>1, <2>2, <2>3, <2>4 DEF Move
  <1>3. ASSUME ~NoFlow' PROVE FALSE
    <2>1. \E y, open : Holds(y, open)'
      BY <1>3 DEF NoFlow, NoFlowIn, Holds, Queued, Taken
    <2>. QED  BY <1>1, <1>2, <2>1 DEF Rests
  <1>. QED  BY <1>2, <1>3

(* A run that is over stays over, and what is lost is lost.                 *)
LEMMA OverStays ==
    ASSUME FlowInv, [Next]_vars, phase = "over"
    PROVE  UNCHANGED <<phase, host, failed>>
  <1>1. ~Proceed
    BY ProceedTail DEF Proceed, FlowInv, Ticking, TypeOK
  <1>2. ~Loop /\ ~Answer
    BY <1>1 DEF Loop, Answer, Initialised, InitialiserFailed, LoopFails, LoopEnds,
           ExecuteWaterfall, ExecuteDelay, ExecuteItem, ExecuteEvent, ExecuteRequest,
           ExecutePause, ExecuteAbort, Executes, DelayElapses, SecretsResolve, EventAborts,
           PrerequestEnds, TestEnds, RequestAborts, RequestEnds
  <1>. QED  BY <1>2 DEF Next, LateSecretsResolve, ResumeFires, GlobalTimeoutFires, Host,
             Start, Pause, Resume, Abort, vars, loopVars, endVars

LEMMA TimerStays ==
    ASSUME [Next]_vars, ~Start
    PROVE  /\ aborted' = aborted \/ aborted' = TRUE
           /\ \/ globalTimer' = globalTimer
              \/ globalTimer = "armed" /\ globalTimer' \in {"fired", "cleared"}
  <1>1. CASE LoopFails \/ LoopEnds
    BY <1>1 DEF LoopFails, LoopEnds, Done, controlVars
  <1>2. CASE Loop /\ ~LoopFails /\ ~LoopEnds
    BY <1>2 DEF Loop, Initialised, InitialiserFailed, Proceed,
           ExecuteWaterfall, ExecuteDelay, ExecuteItem, ExecuteEvent, ExecuteRequest,
           ExecutePause, ExecuteAbort, controlVars, endVars
  <1>3. CASE Answer
    BY <1>3 DEF Answer, DelayElapses, SecretsResolve, EventAborts, PrerequestEnds, TestEnds,
           RequestAborts, RequestEnds, controlVars, endVars
  <1>4. CASE LateSecretsResolve \/ ResumeFires \/ GlobalTimeoutFires \/ Pause \/ Resume
             \/ Abort \/ UNCHANGED vars
    BY <1>4 DEF LateSecretsResolve, ResumeFires, GlobalTimeoutFires, Pause, Resume, Abort,
           controlVars, endVars, vars
  <1>. QED  BY <1>1, <1>2, <1>3, <1>4 DEF Next, Host

LEMMA FailedStays ==
    ASSUME EndInv, [Next]_vars, failed
    PROVE  failed'
  <1>1. phase # "running" /\ \A cmd : ~Executes(cmd)
    BY DEF EndInv, Executes
  <1>2. CASE Loop
    BY <1>1, <1>2 DEF Loop, Initialised, InitialiserFailed, Proceed, LoopFails, LoopEnds,
           ExecuteWaterfall, ExecuteDelay, ExecuteItem, ExecuteEvent, ExecuteRequest,
           ExecutePause, ExecuteAbort
  <1>3. ~Answer
    BY <1>1 DEF Answer, DelayElapses, SecretsResolve, EventAborts, PrerequestEnds, TestEnds,
           RequestAborts, RequestEnds
  <1>4. CASE LateSecretsResolve \/ ResumeFires \/ GlobalTimeoutFires \/ Host \/ UNCHANGED vars
    BY <1>1, <1>4 DEF LateSecretsResolve, ResumeFires, GlobalTimeoutFires, Host, Start, Pause,
           Resume, Abort, loopVars, vars
  <1>. QED  BY <1>2, <1>3, <1>4 DEF Next

LEMMA LostStays ==
    ASSUME FlowInv, EndInv, [Next]_vars, Lost
    PROVE  Lost'
  <1>1. CASE aborted \/ globalTimer = "fired"
    <2>1. Start => ~aborted /\ globalTimer = "off"
      BY DEF Start, FlowInv, Resting, EndInv
    <2>. QED  BY <1>1, <2>1, TimerStays DEF Lost
  <1>2. CASE failed
    BY <1>2, FailedStays DEF Lost
  <1>3. CASE phase = "over" /\ host # "disposed"
    BY <1>3, OverStays DEF Lost
  <1>. QED  BY <1>1, <1>2, <1>3 DEF Lost

LEMMA NextEnd ==
    ASSUME MoveInv, EndInv, [Next]_vars
    PROVE  EndInv'
  <1>0. FlowInv /\ Move
    BY Moves DEF MoveInv, AbortInv
  <1>1. (phase = "idle" => globalTimer = "off")'
    <2>. SUFFICES ASSUME phase' = "idle" PROVE globalTimer' = "off"
      OBVIOUS
    <2>1. ~Start /\ phase = "idle"
      BY DEF Next, Loop, Answer, Host, Start, Initialised, InitialiserFailed, Proceed,
             LoopFails, LoopEnds, Done, ExecuteWaterfall, ExecuteDelay, ExecuteItem,
             ExecuteEvent, ExecuteRequest, ExecutePause, ExecuteAbort, DelayElapses,
             SecretsResolve, EventAborts, PrerequestEnds, TestEnds, RequestAborts, RequestEnds,
             LateSecretsResolve, ResumeFires, GlobalTimeoutFires, Pause, Resume, Abort,
             ItemFlow, End, Wait, loopVars, vars
    <2>2. globalTimer = "off"
      BY <2>1 DEF EndInv
    <2>. QED  BY <2>1, <2>2, TimerStays
  <1>2. (failed => phase \notin {"running", "idle", "initialising"})'
    <2>1. CASE Loop
      BY <2>1 DEF Loop, Initialised, InitialiserFailed, Proceed, LoopFails, LoopEnds, Done,
             ExecuteWaterfall, ExecuteDelay, ExecuteItem, ExecuteEvent, ExecuteRequest,
             ExecutePause, ExecuteAbort, Executes, ItemFlow, End, Wait, EndInv
    <2>2. CASE Answer
      BY <2>2 DEF Answer, DelayElapses, SecretsResolve, EventAborts, PrerequestEnds, TestEnds,
             RequestAborts, RequestEnds, ItemFlow, End
    <2>3. CASE LateSecretsResolve \/ ResumeFires \/ GlobalTimeoutFires \/ Host \/ UNCHANGED vars
      BY <2>3 DEF LateSecretsResolve, ResumeFires, GlobalTimeoutFires, Host, Start, Pause,
             Resume, Abort, loopVars, vars, EndInv
    <2>. QED  BY <2>1, <2>2, <2>3 DEF Next
  <1>3. (host = "disposed" => /\ phase = "over" /\ ~failed
                              /\ SecretResolver # "async" => NoFlow)'
    <2>1. CASE host = "disposed"
      <3>1. phase = "over" /\ ~failed /\ (SecretResolver # "async" => NoFlow)
        BY <2>1 DEF EndInv
      <3>2. UNCHANGED <<phase, host, failed>>
        BY <1>0, <3>1, OverStays
      <3>. QED  BY <1>0, <3>1, <3>2, NoFlowStays
    <2>2. CASE host # "disposed" /\ host' = "disposed"
      <3>1. LoopEnds
        BY <2>2 DEF Next, Loop, Answer, Host, Start, Initialised, InitialiserFailed, Proceed,
             LoopFails, ExecuteWaterfall, ExecuteDelay, ExecuteItem,
             ExecuteEvent, ExecuteRequest, ExecutePause, ExecuteAbort, DelayElapses,
             SecretsResolve, EventAborts, PrerequestEnds, TestEnds, RequestAborts, RequestEnds,
             LateSecretsResolve, ResumeFires, GlobalTimeoutFires, Pause, Resume, Abort,
             endVars, vars
      <3>2. /\ phase = "next" /\ phase' = "over" /\ ~failed' /\ pool' = <<>>
            /\ current' = current /\ late' = late
        BY <3>1 DEF LoopEnds, Done
      <3>3. current = Nothing /\ (SecretResolver # "async" => late = Nothing)
        BY <1>0, <3>2 DEF FlowInv, Resting, MoveInv, AbortInv
      <3>4. SecretResolver # "async" => NoFlow'
        BY <3>2, <3>3, NothingIsNotFlow DEF NoFlow, NoFlowIn
      <3>. QED  BY <3>2, <3>4
    <2>. QED  BY <2>1, <2>2
  <1>. QED  BY <1>1, <1>2, <1>3 DEF EndInv

LEMMA NextComplete == CompleteInv /\ [Next]_vars => CompleteInv'
  <1>. SUFFICES ASSUME CompleteInv, [Next]_vars,
                       phase' \notin {"idle", "initialising"}, ~Lost', NoFlow'
                PROVE  Complete'
    BY NextStop, NextEnd DEF CompleteInv, StopInv, PathInv
  <1>1. PathInv /\ StopInv /\ EndInv /\ FlowInv /\ Move
    BY Moves DEF CompleteInv, StopInv, PathInv, MoveInv, AbortInv
  <1>2. ~Lost
    BY <1>1, LostStays
  <1>3. CASE NoFlow
    <2>1. phase \notin {"idle", "initialising"}
      <3>1. CASE phase = "idle"
        <4>1. ~Proceed
          BY <1>1, <3>1, ProceedTail DEF Proceed, FlowInv, Ticking, TypeOK
        <4>. QED  BY <3>1, <4>1 DEF Next, Loop, Answer, Host, Start, Initialised,
             InitialiserFailed, LoopFails, LoopEnds, ExecuteWaterfall, ExecuteDelay,
             ExecuteItem, Executes, ExecuteEvent, ExecuteRequest, ExecutePause, ExecuteAbort,
             DelayElapses, SecretsResolve, EventAborts, PrerequestEnds, TestEnds,
             RequestAborts, RequestEnds, LateSecretsResolve, ResumeFires, GlobalTimeoutFires,
             Pause, Resume, Abort, loopVars, vars
      <3>2. CASE phase = "initialising"
        <4>1. ~Proceed
          BY <1>1, <3>2, ProceedTail DEF Proceed, FlowInv, Ticking, TypeOK
        <4>2. ~Initialised
          <5>1. ASSUME Initialised PROVE FALSE
            <6>. DEFINE y == Waterfall(cursor.position, cursor.iteration, "start")
            <6>1. y \in Instructions /\ pool \in Seq(Instructions) /\ IsFlow(y)
              <7>1. pool \in Seq(Instructions) /\ cursor.position \in Int /\ cursor.iteration \in Int
                BY <1>1 DEF FlowInv, TypeOK
              <7>. QED  BY <7>1, WaterfallType, WaterfallFields DEF Modes
            <6>. HIDE DEF y
            <6>2. pool' = Append(pool, y)
              BY <5>1 DEF Initialised, y
            <6>3. Len(pool) + 1 \in DOMAIN pool' /\ pool'[Len(pool) + 1] = y
              BY <6>1, <6>2
            <6>. QED  BY <6>1, <6>3 DEF NoFlow, NoFlowIn
          <5>. QED  BY <5>1
        <4>3. ~InitialiserFailed
          BY <3>2 DEF InitialiserFailed, Lost, CompleteInv, EndInv, endVars
        <4>. QED  BY <3>2, <4>1, <4>2, <4>3 DEF Next, Loop, Answer, Host, Start,
             LoopFails, LoopEnds, ExecuteWaterfall, ExecuteDelay,
             ExecuteItem, Executes, ExecuteEvent, ExecuteRequest, ExecutePause, ExecuteAbort,
             DelayElapses, SecretsResolve, EventAborts, PrerequestEnds, TestEnds,
             RequestAborts, RequestEnds, LateSecretsResolve, ResumeFires, GlobalTimeoutFires,
             Pause, Resume, Abort, loopVars, vars
      <3>. QED  BY <3>1, <3>2
    <2>2. Rests
      BY <1>1, <1>3, <2>1, NoFlowStays
    <2>3. Complete
      BY <1>2, <1>3, <2>1 DEF CompleteInv
    <2>. QED  BY <2>2, <2>3 DEF Rests, pathVars, Complete
  <1>4. CASE ~NoFlow
    <2>1. PICK x, y : Leads(x, y)
      <3>1. ~Rests /\ ~Begins
        BY <1>4 DEF Rests, Begins
      <3>2. \A x, y, open : ~GoesOn(x, y, open) /\ ~OpensItem(x, y, open) /\ ~Requests(x, y)
        BY DEF GoesOn, OpensItem, Requests
      <3>3. \A x \in Instructions, open, err \in BOOLEAN, snr \in Snrs :
               ~ClosesItem(x, open, err, snr)
        BY <1>1, ClosesLeaves DEF Leaves
      <3>4. \E x, y : Turns(x, y)
        BY <1>1, <3>1, <3>2, <3>3 DEF Move
      <3>. QED  BY <1>1, <3>4, TurnsLead
    <2>2. \A position, iteration : ~Reaches(y, position, iteration)
      BY DEF Reaches
    <2>3. UNCHANGED <<item, stopped>> /\ StoppedAt(x)
      BY <1>1, <2>1 DEF Leads, StopInv
    <2>4. CASE AtStart(x) /\ Length = 0 /\ UNCHANGED iterationVars
      BY <2>3, <2>4 DEF Complete, AtStart, Unmoved, iterationVars
    <2>5. CASE /\ AtPlace(x, FALSE) /\ EndsTheRun(x)
               /\ closed' = Append(closed, x.iteration) /\ opened' = opened
      <3>1. /\ item'.open = FALSE /\ Len(opened') = x.iteration + 1 /\ Len(closed) = x.iteration
            /\ closed \in Seq(Int) /\ x.iteration \in Int /\ x.cmd = "waterfall"
        BY <1>1, <2>1, <2>3, <2>5, InstructionFields DEF AtPlace, FlowInv, TypeOK, Leads
      <3>2. Len(closed') = x.iteration + 1
        BY <2>5, <3>1
      <3>3. x.mode = "stop" => StopOnFailure /\ stopped' # {}
        BY <2>3, <3>1 DEF StoppedAt
      <3>4. x.mode # "stop" => x.iteration + 1 = Cycles
        BY <2>5 DEF EndsTheRun
      <3>. QED  BY <3>1, <3>2, <3>3, <3>4 DEF Complete
    <2>. QED  BY <2>1, <2>2, <2>4, <2>5 DEF Leads
  <1>. QED  BY <1>3, <1>4

LEMMA AlwaysCompleteInv == Spec => []CompleteInv
  <1>1. Init => CompleteInv
    <2>. SUFFICES ASSUME Init PROVE CompleteInv
      OBVIOUS
    <2>1. \A y, open : ~Holds(y, open)
      BY NothingIsNotFlow DEF Init, Holds, Queued, Taken
    <2>. QED  BY <2>1, InitPath DEF Init, CompleteInv, EndInv, StopInv
  <1>. QED  BY <1>1, NextComplete, PTL DEF Spec

(* A run whose loop came to the end of the queue, unaborted and in time,    *)
(* has closed every iteration it opened and every item, has nothing left to *)
(* do, and unless a failure stopped it, ran all its iterations, provided    *)
(* secrets are resolved within the command that asks for them.              *)
THEOREM RunIsComplete == SecretResolver # "async" => (Spec => []CompleteRun)
  <1>. SUFFICES ASSUME SecretResolver # "async" PROVE Spec => []CompleteRun
    OBVIOUS
  <1>1. CompleteInv => CompleteRun
    BY DEF CompleteInv, EndInv, Lost, Complete, CompleteRun
  <1>. QED  BY <1>1, AlwaysCompleteInv, PTL

(***************************************************************************)
(* Exceptions                                                              *)
(***************************************************************************)
(* The host waits for the callback it gave to pause() before it resumes,    *)
(* and either pauses once at most or does not abort: what a second pause    *)
(* stores can otherwise be taken by the resume timers of the first.         *)
ResumesSafely == ~ResumesEarly /\ (MaxPauses <= 1 \/ MaxAborts = 0)

NoResumeIn(queue) == \A i \in DOMAIN queue : queue[i] # "resume"
OneResumeIn(queue) ==
    \A i, j \in DOMAIN queue : queue[i] = "resume" /\ queue[j] = "resume" => i = j

(* A timer of resume() finds the callback, and no two are pending.          *)
ResumeInv ==
    /\ TypeOK
    /\ thrown # "resume"
    /\ OneResumeIn(ticks)
    /\ pauses <= MaxPauses /\ aborts <= MaxAborts
    /\ paused = TRUE => pauses > 0
    /\ \/ NoResumeIn(ticks)
       \/ stored = TRUE /\ pauses > 0 /\ (MaxPauses <= 1 => paused = FALSE)

LEMMA ResumeAppend ==
    ASSUME NEW q \in Seq({"proceed", "resume"})
    PROVE  /\ NoResumeIn(q) => OneResumeIn(Append(q, "resume"))
           /\ NoResumeIn(q) => NoResumeIn(Append(q, "proceed"))
           /\ OneResumeIn(q) => OneResumeIn(Append(q, "proceed"))
  <1>. DEFINE p == Append(q, "proceed")
              r == Append(q, "resume")
  <1>1. /\ Len(q) \in Nat
        /\ DOMAIN p = 1 .. Len(q) + 1 /\ DOMAIN r = 1 .. Len(q) + 1
        /\ DOMAIN q = 1 .. Len(q)
        /\ \A i \in 1 .. Len(q) : p[i] = q[i] /\ r[i] = q[i]
        /\ p[Len(q) + 1] = "proceed"
    OBVIOUS
  <1>. HIDE DEF p, r
  <1>2. \A i \in DOMAIN p : p[i] = "resume" => i \in DOMAIN q /\ p[i] = q[i]
    BY <1>1
  <1>3. NoResumeIn(q) => \A i \in DOMAIN r : r[i] = "resume" => i = Len(q) + 1
    BY <1>1 DEF NoResumeIn
  <1>. QED  BY <1>2, <1>3 DEF NoResumeIn, OneResumeIn, p, r

LEMMA ResumeTail ==
    ASSUME NEW q \in Seq({"proceed", "resume"}), q # <<>>
    PROVE  /\ NoResumeIn(q) => NoResumeIn(Tail(q)) /\ Head(q) # "resume"
           /\ OneResumeIn(q) => OneResumeIn(Tail(q))
           /\ OneResumeIn(q) /\ Head(q) = "resume" => NoResumeIn(Tail(q))
           /\ Tail(q) \in Seq({"proceed", "resume"})
  <1>1. /\ Tail(q) \in Seq({"proceed", "resume"}) /\ Len(Tail(q)) = Len(q) - 1
        /\ \A i \in 1 .. Len(Tail(q)) : Tail(q)[i] = q[i + 1]
        /\ Head(q) = q[1] /\ Len(q) >= 1
    BY HeadTailProperties
  <1>. DEFINE r == Tail(q)
  <1>. HIDE DEF r
  <1>2. \A i \in DOMAIN r : i + 1 \in DOMAIN q /\ r[i] = q[i + 1] /\ i \in Nat \ {0}
    BY <1>1 DEF r
  <1>3. 1 \in DOMAIN q
    BY <1>1
  <1>. QED  BY <1>1, <1>2, <1>3 DEF NoResumeIn, OneResumeIn, r

LEMMA NextResume ==
    ASSUME ResumesSafely, ResumeInv, TypeOK', [Next]_vars
    PROVE  ResumeInv'
  <1>0. /\ ticks \in Seq({"proceed", "resume"}) /\ pauses \in Nat /\ aborts \in Nat
        /\ MaxPauses \in Nat /\ MaxAborts \in Nat
        /\ thrown # "resume" /\ OneResumeIn(ticks) /\ pauses <= MaxPauses /\ aborts <= MaxAborts
        /\ paused = TRUE => pauses > 0
        /\ \/ NoResumeIn(ticks)
           \/ stored = TRUE /\ pauses > 0 /\ (MaxPauses <= 1 => paused = FALSE)
        /\ paused \in BOOLEAN /\ stored \in BOOLEAN
    BY BoundsAssumption DEF ResumeInv, TypeOK
  <1>1. ASSUME UNCHANGED <<paused, boundVars>>, stored' = stored \/ stored' = TRUE,
               thrown' # "resume",
               \/ ticks' \in {ticks, Append(ticks, "proceed")}
               \/ ticks # <<>> /\ ticks' = Tail(ticks)
        PROVE  ResumeInv'
    <2>1. OneResumeIn(ticks') /\ (NoResumeIn(ticks) => NoResumeIn(ticks'))
      BY <1>0, <1>1, ResumeAppend, ResumeTail
    <2>. QED  BY <1>0, <1>1, <2>1 DEF ResumeInv, boundVars
  <1>2. CASE Loop \/ Answer \/ LateSecretsResolve
    <2>1. UNCHANGED <<paused, boundVars>> /\ (stored' = stored \/ stored' = TRUE)
      <3>1. CASE Loop
        BY <3>1 DEF Loop, Initialised, InitialiserFailed, Proceed, LoopFails, LoopEnds,
               ExecuteWaterfall, ExecuteDelay, ExecuteItem, ExecuteEvent, ExecuteRequest,
               ExecutePause, ExecuteAbort, controlVars
      <3>2. CASE Answer \/ LateSecretsResolve
        BY <3>2 DEF Answer, DelayElapses, SecretsResolve, EventAborts, PrerequestEnds, TestEnds,
               RequestAborts, RequestEnds, LateSecretsResolve, controlVars
      <3>. QED  BY <1>2, <3>1, <3>2
    <2>2. thrown' # "resume"
      <3>1. \A flow, err, snr, queue : ItemReturns(flow, err, snr, queue) => thrown' # "resume"
        BY <1>0 DEF ItemReturns
      <3>2. \A flow, queue, fatal : ItemFlow(flow, queue, fatal) => thrown' # "resume"
        BY <1>0, <3>1 DEF ItemFlow
      <3>3. \A flow, urlChanged : ProceedWithRequest(flow, urlChanged) => thrown' # "resume"
        BY <1>0, <3>1 DEF ProceedWithRequest
      <3>4. CASE Loop
        BY <1>0, <3>2, <3>4 DEF Loop, Initialised, InitialiserFailed, Proceed, LoopFails, LoopEnds,
               ExecuteWaterfall, ExecuteDelay, ExecuteItem, ExecuteEvent, ExecuteRequest,
               ExecutePause, ExecuteAbort
      <3>5. CASE Answer \/ LateSecretsResolve
        BY <1>0, <3>1, <3>2, <3>3, <3>5 DEF Answer, DelayElapses, SecretsResolve, EventAborts,
               PrerequestEnds, TestEnds, RequestAborts, RequestEnds, LateSecretsResolve
      <3>. QED  BY <1>2, <3>4, <3>5
    <2>3. \/ ticks' \in {ticks, Append(ticks, "proceed")}
          \/ ticks # <<>> /\ ticks' = Tail(ticks)
      <3>1. CASE Loop
        BY <3>1 DEF Loop, Initialised, InitialiserFailed, Proceed, LoopFails, LoopEnds,
               ExecuteWaterfall, ExecuteDelay, ExecuteItem, ExecuteEvent, ExecuteRequest,
               ExecutePause, ExecuteAbort, ItemFlow, End, Wait
      <3>2. CASE Answer \/ LateSecretsResolve
        BY <3>2 DEF Answer, DelayElapses, SecretsResolve, EventAborts, PrerequestEnds, TestEnds,
               RequestAborts, RequestEnds, LateSecretsResolve, ItemFlow, End
      <3>. QED  BY <1>2, <3>1, <3>2
    <2>. QED  BY <1>1, <2>1, <2>2, <2>3
  <1>3. CASE Start \/ GlobalTimeoutFires \/ UNCHANGED vars
    <2>1. UNCHANGED <<paused, stored, boundVars, thrown, ticks>>
      BY <1>3 DEF Start, GlobalTimeoutFires, vars, loopVars, controlVars
    <2>. QED  BY <1>0, <1>1, <2>1
  <1>4. CASE Pause
    <2>1. /\ pauses < MaxPauses /\ pauses' = pauses + 1 /\ paused' = TRUE
          /\ UNCHANGED <<ticks, stored, thrown, aborts>>
      BY <1>4 DEF Pause
    <2>2. MaxPauses <= 1 => NoResumeIn(ticks)
      BY <1>0, <2>1
    <2>. QED  BY <1>0, <2>1, <2>2 DEF ResumeInv
  <1>5. CASE Resume
    <2>1. /\ paused = TRUE /\ stored = TRUE /\ NoResumeIn(ticks) /\ paused' = FALSE
          /\ ticks' = Append(ticks, "resume") /\ UNCHANGED <<stored, thrown, boundVars>>
      BY <1>0, <1>5 DEF Resume, ResumesSafely, NoResumeIn
    <2>. QED  BY <1>0, <2>1, ResumeAppend DEF ResumeInv, boundVars
  <1>6. CASE Abort
    <2>1. /\ aborts < MaxAborts /\ aborts' = aborts + 1 /\ UNCHANGED <<stored, thrown, pauses>>
          /\ \/ /\ stored = TRUE /\ paused = TRUE
                /\ paused' = FALSE /\ ticks' = Append(ticks, "resume")
             \/ UNCHANGED <<paused, ticks>>
      BY <1>6 DEF Abort, AbortResumes
    <2>2. MaxPauses <= 1
      BY <1>0, <2>1 DEF ResumesSafely
    <2>3. ASSUME paused = TRUE PROVE NoResumeIn(ticks)
      BY ONLY <1>0, <2>2, <2>3
    <2>4. aborts' \in Nat /\ aborts' <= MaxAborts /\ pauses' = pauses /\ stored' = stored
          /\ thrown' = thrown
      BY <1>0, <2>1
    <2>5. CASE UNCHANGED <<paused, ticks>>
      <3>1. OneResumeIn(ticks') /\ (NoResumeIn(ticks) => NoResumeIn(ticks'))
        BY <1>0, <2>5
      <3>. QED  BY <1>0, <2>4, <2>5, <3>1 DEF ResumeInv
    <2>6. CASE /\ stored = TRUE /\ paused = TRUE
               /\ paused' = FALSE /\ ticks' = Append(ticks, "resume")
      <3>1. OneResumeIn(ticks')
        BY <1>0, <2>3, <2>6, ResumeAppend
      <3>. QED  BY <1>0, <2>4, <2>6, <3>1 DEF ResumeInv
    <2>. QED  BY <2>1, <2>5, <2>6
  <1>7. CASE ResumeFires
    <2>1. /\ ticks # <<>> /\ Head(ticks) = "resume" /\ UNCHANGED <<paused, boundVars>>
          /\ ticks' = Tail(ticks) \/ ticks' = Append(Tail(ticks), "proceed")
          /\ thrown' = IF stored THEN thrown ELSE "resume"
      BY <1>7 DEF ResumeFires
    <2>2. Tail(ticks) \in Seq({"proceed", "resume"}) /\ NoResumeIn(Tail(ticks)) /\ stored = TRUE
      BY <1>0, <2>1, ResumeTail
    <2>3. NoResumeIn(ticks')
      BY <2>1, <2>2, ResumeAppend
    <2>4. OneResumeIn(ticks')
      BY <2>3 DEF NoResumeIn, OneResumeIn
    <2>5. thrown' = thrown
      BY <2>1, <2>2
    <2>. QED  BY <1>0, <2>1, <2>3, <2>4, <2>5 DEF ResumeInv, boundVars
  <1>. QED  BY <1>2, <1>3, <1>4, <1>5, <1>6, <1>7 DEF Next, Host

(* No exception leaves a timer or a callback: a timer of resume() finds     *)
(* what the pause command stored, and the seek after an item is inside the  *)
(* run.                                                                     *)
THEOREM NothingIsThrown == ResumesSafely => (Spec => []NothingThrown)
  <1>. SUFFICES ASSUME ResumesSafely PROVE Spec => []NothingThrown
    OBVIOUS
  <1>1. Init => ResumeInv
    <2>. SUFFICES ASSUME Init PROVE ResumeInv
      OBVIOUS
    <2>. QED  BY InitType, BoundsAssumption DEF Init, ResumeInv, NoResumeIn, OneResumeIn
  <1>2. ResumeInv /\ TypeOK' /\ [Next]_vars => ResumeInv'
    BY NextResume
  <1>3. ResumeInv /\ PathInv => NothingThrown
    BY DEF ResumeInv, PathInv, NothingThrown, TypeOK
  <1>. QED  BY <1>1, <1>2, <1>3, TypeCorrect, AlwaysPathInv, PTL DEF Spec

(* Wherever scripts and errors send the run, the cursor follows: the seek   *)
(* after an item is never refused, whatever the host does.                  *)
THEOREM NeverSeeksOutside == Spec => [](thrown # "seek")
  <1>1. PathInv => thrown # "seek"
    BY DEF PathInv
  <1>. QED  BY <1>1, AlwaysPathInv, PTL

(***************************************************************************)
(* The contract with the host                                              *)
(***************************************************************************)
(* Where the run is not lost to its timer, and secrets are resolved in the  *)
(* command that asks for them.                                              *)
ContractInv ==
    /\ CompleteInv
    /\ globalTimer = "off"
    /\ late = Nothing

LEMMA StageIs ==
    ASSUME ContractInv
    PROVE  /\ phase = "idle" => Stage = "idle"
           /\ phase = "over" /\ host = "disposed" /\ ~aborted => Stage = "complete"
           /\ phase = "over" /\ (host # "disposed" \/ aborted) => Stage = "broken"
           /\ phase \notin {"idle", "over"} => Stage = "running"
           /\ aborted \in BOOLEAN
           /\ item.open \in BOOLEAN /\ Len(opened) \in Nat /\ Len(closed) \in Nat
           /\ opened \in Seq(Int) /\ closed \in Seq(Int)
  <1>1. TypeOK
    BY DEF ContractInv, CompleteInv, StopInv, PathInv, MoveInv, AbortInv, FlowInv
  <1>. QED  BY <1>1 DEF Stage, TypeOK

(* How the phase of the loop changes what the host sees.                    *)
LEMMA PhaseSteps ==
    ASSUME ContractInv, [Next]_vars
    PROVE  \/ phase = "idle" /\ phase' \in {"idle", "initialising"} /\ UNCHANGED pathVars
           \/ phase \notin {"idle", "over"} /\ phase' \notin {"idle", "over"}
           \/ /\ phase \notin {"idle", "over"} /\ phase' = "over"
              /\ UNCHANGED <<opened, closed, item, aborted>>
              /\ LoopEnds \/ host' # "disposed"
           \/ phase = "over" /\ UNCHANGED <<phase, host, opened, closed, item, aborted>>
  <1>0. FlowInv /\ EndInv /\ late = Nothing /\ TypeOK
    BY DEF ContractInv, CompleteInv, StopInv, PathInv, MoveInv, AbortInv, FlowInv
  <1>1. CASE phase = "over"
    <2>1. UNCHANGED <<phase, host>> /\ ~Proceed
      BY <1>0, <1>1, OverStays, ProceedTail DEF Proceed, FlowInv, Ticking, TypeOK
    <2>2. ~Loop /\ ~Answer /\ ~LateSecretsResolve
      BY <1>0, <1>1, <2>1 DEF Loop, Answer, Initialised, InitialiserFailed, LoopFails, LoopEnds,
             ExecuteWaterfall, ExecuteDelay, ExecuteItem, ExecuteEvent, ExecuteRequest,
             ExecutePause, ExecuteAbort, Executes, DelayElapses, SecretsResolve, EventAborts,
             PrerequestEnds, TestEnds, RequestAborts, RequestEnds, LateSecretsResolve
    <2>. QED  BY <1>1, <2>1, <2>2 DEF Next, ResumeFires, GlobalTimeoutFires, Host,
               Start, Pause, Resume, Abort, vars, controlVars, iterationVars, itemVars
  <1>2. CASE phase = "idle"
    <2>1. ~Proceed
      BY <1>0, <1>2, ProceedTail DEF Proceed, FlowInv, Ticking, TypeOK
    <2>2. phase' \in {"idle", "initialising"}
      BY <1>0, <1>2, <2>1 DEF Next, Loop, Answer, Host, Start, Initialised,
             InitialiserFailed, LoopFails, LoopEnds, ExecuteWaterfall, ExecuteDelay,
             ExecuteItem, Executes, ExecuteEvent, ExecuteRequest, ExecutePause, ExecuteAbort,
             DelayElapses, SecretsResolve, EventAborts, PrerequestEnds, TestEnds,
             RequestAborts, RequestEnds, LateSecretsResolve, ResumeFires, GlobalTimeoutFires,
             Pause, Resume, Abort, loopVars, vars
    <2>. QED  BY <1>0, <1>2, <2>2, BeforeRun
  <1>3. CASE phase \notin {"idle", "over"}
    <2>1. host # "disposed"
      BY <1>0, <1>3 DEF EndInv
    <2>2. CASE InitialiserFailed \/ LoopFails \/ LoopEnds
      BY <1>3, <2>1, <2>2 DEF InitialiserFailed, LoopFails, LoopEnds, Done, controlVars,
                iterationVars, itemVars
    <2>3. CASE ~(InitialiserFailed \/ LoopFails \/ LoopEnds)
      <3>1. CASE Loop
        BY <1>3, <2>3, <3>1 DEF Loop, Initialised, Proceed, ExecuteWaterfall, ExecuteDelay,
               ExecuteItem, ExecuteEvent, ExecuteRequest, ExecutePause, ExecuteAbort,
               ItemFlow, End, Wait
      <3>2. CASE Answer
        BY <1>3, <3>2 DEF Answer, DelayElapses, SecretsResolve, EventAborts, PrerequestEnds,
               TestEnds, RequestAborts, RequestEnds, ItemFlow, End
      <3>3. CASE LateSecretsResolve \/ ResumeFires \/ GlobalTimeoutFires \/ Host
                 \/ UNCHANGED vars
        BY <1>3, <3>3 DEF LateSecretsResolve, ResumeFires, GlobalTimeoutFires, Host, Start,
               Pause, Resume, Abort, loopVars, vars
      <3>. QED  BY <1>3, <3>1, <3>2, <3>3 DEF Next
    <2>. QED  BY <2>2, <2>3
  <1>. QED  BY <1>1, <1>2, <1>3

(* What a move shows of iterations and items.                               *)
Shown ==
    \/ UNCHANGED <<Len(opened), Len(closed), item.open>>
    \/ /\ item.open = FALSE /\ item'.open = FALSE
       /\ \/ /\ Len(opened') = Len(opened) + 1 /\ Len(opened') = Len(closed') + 1
          \/ /\ Len(opened) > Len(closed) /\ Len(opened') = Len(opened)
             /\ Len(closed') = Len(opened)
    \/ /\ item'.open = TRUE /\ item.open = FALSE /\ Len(opened) > Len(closed)
       /\ UNCHANGED <<opened, closed>>
    \/ item'.open = FALSE /\ item.open = TRUE /\ UNCHANGED <<opened, closed>>

LEMMA TurnsShow ==
    ASSUME ContractInv, NEW x, NEW y, Turns(x, y)
    PROVE  Shown
  <1>1. PathInv /\ TypeOK
    BY DEF ContractInv, CompleteInv, StopInv, PathInv, MoveInv, AbortInv, FlowInv
  <1>2. /\ Holds(x, FALSE) /\ x.cmd = "waterfall" /\ x \in Instructions /\ item' = item
        /\ opened \in Seq(Int) /\ closed \in Seq(Int) /\ x.iteration \in Int
        /\ Target(x).iteration \in Int
    BY <1>1, InstructionFields, TargetType DEF Turns, TypeOK, CursorType
  <1>3. CASE UNCHANGED iterationVars
    BY <1>2, <1>3 DEF Shown, iterationVars
  <1>4. CASE closed' = Append(closed, x.iteration) /\ opened' = opened
             /\ AtPlace(x, FALSE)
    BY <1>2, <1>4 DEF Shown, AtPlace, InRange
  <1>5. CASE closed' = Append(closed, Target(x).iteration) /\ opened' = opened
             /\ AtPlace(x, FALSE)
    BY <1>2, <1>5 DEF Shown, AtPlace, InRange
  <1>6. CASE AtStart(x) /\ opened' = Append(opened, Target(x).iteration) /\ closed' = closed
    BY <1>2, <1>6 DEF Shown, AtStart, Unmoved
  <1>7. CASE AtPlace(x, FALSE) /\ opened' = Append(opened, Target(x).iteration)
             /\ closed' = Append(closed, x.iteration)
    BY <1>2, <1>7 DEF Shown, AtPlace, InRange
  <1>8. AtStart(x) \/ AtPlace(x, FALSE)
    BY <1>1, <1>2 DEF PathInv, At
  <1>9. x.mode = "start" => AtStart(x)
    BY <1>2, <1>8 DEF AtPlace
  <1>10. x.mode # "start" => AtPlace(x, FALSE)
    BY <1>8 DEF AtStart
  <1>. QED  BY <1>3, <1>4, <1>5, <1>6, <1>7, <1>9, <1>10 DEF Turns

LEMMA MoveShows ==
    ASSUME ContractInv, Move
    PROVE  Shown
  <1>1. PathInv /\ TypeOK
    BY DEF ContractInv, CompleteInv, StopInv, PathInv, MoveInv, AbortInv, FlowInv
  <1>2. CASE Rests \/ Begins
    BY <1>2 DEF Rests, Begins, pathVars, Shown
  <1>3. ASSUME NEW x, NEW y, NEW open, GoesOn(x, y, open) \/ Requests(x, y)
        PROVE  Shown
    BY <1>3 DEF GoesOn, Requests, pathVars, Shown
  <1>4. ASSUME NEW x \in Instructions, NEW y, NEW open \in BOOLEAN, OpensItem(x, y, open)
        PROVE  Shown
    <2>1. /\ Holds(x, open) /\ x.cmd = "item" /\ item' = Seen(x, TRUE)
          /\ UNCHANGED <<opened, closed>>
      BY <1>4 DEF OpensItem
    <2>2. AtPlace(x, open)
      BY <1>1, <2>1 DEF PathInv, At, AtStart
    <2>3. item'.open = TRUE /\ item.open = open
      BY <2>1, <2>2 DEF Seen, AtPlace
    <2>4. Len(opened) > Len(closed)
      BY <2>2, InstructionFields DEF AtPlace
    <2>. QED  BY <2>1, <2>3, <2>4 DEF Shown
  <1>5. ASSUME NEW x \in Instructions, NEW open \in BOOLEAN, NEW err \in BOOLEAN,
               NEW snr \in Snrs, ClosesItem(x, open, err, snr)
        PROVE  Shown
    <2>1. item' = Seen(x, FALSE) /\ UNCHANGED <<opened, closed>>
      BY <1>5 DEF ClosesItem
    <2>2. item'.open = FALSE /\ item.open \in BOOLEAN
      BY <1>1, <2>1 DEF Seen, TypeOK
    <2>. QED  BY <2>1, <2>2 DEF Shown
  <1>. QED  BY <1>2, <1>3, <1>4, <1>5, TurnsShow DEF Move

LEMMA ContractStep ==
    ASSUME ContractInv, ContractInv', [Next]_vars
    PROVE  [Contract!Next]_(Contract!vars)
  <1>1. CASE phase = "idle" /\ phase' \in {"idle", "initialising"} /\ UNCHANGED pathVars
    <2>1. Stage = "idle" /\ Stage' \in {"idle", "running"}
          /\ UNCHANGED <<opened, closed, item>>
      BY <1>1 DEF Stage, pathVars
    <2>. QED  BY <2>1 DEF Contract!Next, Contract!Start, Contract!vars
  <1>2. CASE phase = "over" /\ UNCHANGED <<phase, host, opened, closed, item, aborted>>
    <2>1. UNCHANGED Stage
      BY <1>2 DEF Stage
    <2>. QED  BY <1>2, <2>1 DEF Contract!vars
  <1>3. CASE /\ phase \notin {"idle", "over"} /\ phase' = "over"
             /\ UNCHANGED <<opened, closed, item, aborted>>
             /\ LoopEnds \/ host' # "disposed"
    <2>1. Stage = "running"
      BY <1>3, StageIs
    <2>2. CASE host' # "disposed" \/ aborted'
      <3>1. Stage' = "broken"
        BY <1>3, <2>2 DEF Stage
      <3>. QED  BY <1>3, <2>1, <3>1 DEF Contract!Next, Contract!BreakOff
    <2>3. CASE LoopEnds /\ host' = "disposed" /\ ~aborted'
      <3>1. Stage' = "complete"
        BY <1>3, <2>3 DEF Stage
      <3>2. NoFlow'
        BY <2>3, NothingIsNotFlow
           DEF ContractInv, CompleteInv, StopInv, PathInv, MoveInv, AbortInv, FlowInv,
               Resting, LoopEnds, Done, NoFlow, NoFlowIn
      <3>3. ~Lost'
        BY <2>3 DEF ContractInv, CompleteInv, EndInv, Lost
      <3>4. Complete'
        BY <1>3, <3>2, <3>3 DEF ContractInv, CompleteInv
      <3>5. item.open = FALSE /\ ~(Len(opened) > Len(closed))
        BY <1>3, <3>4, StageIs DEF Complete
      <3>. QED  BY <1>3, <2>1, <3>1, <3>5 DEF Contract!Next, Contract!Complete
    <2>. QED  BY <1>3, <2>2, <2>3
  <1>4. CASE phase \notin {"idle", "over"} /\ phase' \notin {"idle", "over"}
    <2>1. Stage = "running" /\ Stage' = "running"
      BY <1>4 DEF Stage
    <2>2. Shown
      BY Moves, MoveShows DEF ContractInv, CompleteInv, StopInv, PathInv
    <2>3. CASE UNCHANGED <<Len(opened), Len(closed), item.open>>
      BY <2>1, <2>3 DEF Contract!vars
    <2>4. CASE /\ item.open = FALSE /\ item'.open = FALSE
               /\ Len(opened') = Len(opened) + 1 /\ Len(opened') = Len(closed') + 1
      <3>1. Len(opened') > Len(closed')
        BY <2>4, StageIs
      <3>. QED  BY <2>1, <2>4, <3>1 DEF Contract!Next, Contract!OpenIteration
    <2>5. CASE /\ item.open = FALSE /\ item'.open = FALSE
               /\ Len(opened) > Len(closed) /\ Len(opened') = Len(opened)
               /\ Len(closed') = Len(opened)
      <3>1. (Len(opened') > Len(closed')) = FALSE
        BY <2>5, StageIs
      <3>. QED  BY <2>1, <2>5, <3>1 DEF Contract!Next, Contract!CloseIteration
    <2>6. CASE /\ item'.open = TRUE /\ item.open = FALSE /\ Len(opened) > Len(closed)
               /\ UNCHANGED <<opened, closed>>
      BY <2>1, <2>6 DEF Contract!Next, Contract!BeginItem
    <2>7. CASE item'.open = FALSE /\ item.open = TRUE /\ UNCHANGED <<opened, closed>>
      BY <2>1, <2>7 DEF Contract!Next, Contract!FinishItem
    <2>. QED  BY <2>2, <2>3, <2>4, <2>5, <2>6, <2>7 DEF Shown
  <1>. QED  BY <1>1, <1>2, <1>3, <1>4, PhaseSteps

(* The run implements its contract with the host, RunContract: callbacks    *)
(* come in pairs and in order, and a run that is complete has closed what   *)
(* it opened, provided no global timeout is set and secrets are resolved    *)
(* within the command that asks for them.                                   *)
THEOREM ContractIsKept == ~GlobalTimeout /\ SecretResolver # "async" => (Spec => KeepsContract)
  <1>. SUFFICES ASSUME ~GlobalTimeout, SecretResolver # "async"
                PROVE  Spec => KeepsContract
    OBVIOUS
  <1>1. Init => Contract!Init
    BY DEF Init, Contract!Init, Stage
  <1>2. CompleteInv /\ DoneInv => ContractInv
    BY DEF CompleteInv, StopInv, PathInv, MoveInv, AbortInv, DoneInv, DoneCount,
           InitialisesSafely, ContractInv
  <1>3. ContractInv /\ ContractInv' /\ [Next]_vars => [Contract!Next]_(Contract!vars)
    BY ContractStep
  <1>4. Spec => Contract!Init /\ [][Contract!Next]_(Contract!vars)
    BY <1>1, <1>2, <1>3, AlwaysCompleteInv, AlwaysDoneInv, PTL DEF Spec
  <1>. QED  BY <1>4 DEF KeepsContract, Contract!Spec
=============================================================================
