------------------------------- MODULE Cursor -------------------------------
(***************************************************************************)
(* The arithmetic of lib/runner/cursor.js: a cursor walks `length` items    *)
(* `cycles` times.  A cursor value is a record with the fields of a         *)
(* RunCursor; `ref`, a random identifier, is left out.  Numbers are         *)
(* integers: what the code does with NaN, Infinity or a missing argument is *)
(* not represented here.                                                    *)
(***************************************************************************)
LOCAL INSTANCE Integers

(* Cursor.validate: a number below its minimum becomes the minimum.  The    *)
(* third argument only replaces Infinity, so an integer is not capped.      *)
Validate(num, min) == IF num < min THEN min ELSE num

(* The constructor. *)
NewCursor(length, cycles, position, iteration, partitionIndex, partitionCycles) ==
    [ length          |-> Validate(length, 0),
      cycles          |-> Validate(cycles, 1),
      position        |-> Validate(position, 0),
      iteration       |-> Validate(iteration, 0),
      partitionIndex  |-> Validate(partitionIndex, 0),
      partitionCycles |-> Validate(partitionCycles, 0) ]

(* What the program passes around as "coords": a place in the run and the   *)
(* flags computed when the coords were made.                                *)
Coords(position, iteration, empty, eof, cr) ==
    [ position |-> position, iteration |-> iteration,
      empty |-> empty, eof |-> eof, cr |-> cr ]

(* current(): the flags are those of the methods empty(), eof() and cr().   *)
Current(c) ==
    LET empty == c.length = 0
        past  == c.position >= c.length
    IN  Coords(c.position, c.iteration,
               empty, empty \/ (past /\ c.iteration >= c.cycles), empty \/ past)

(* Mutant: one iteration too many.                                          *)
BeyondLastIteration(c, at) == at.iteration >= c.cycles

(* Is `at` in the last iteration of the run?                                *)
InLastIteration(c, at) == at.iteration + 1 >= c.cycles

(* whatnext(coords): where next() would go from `at`, without moving.       *)
WhatNext(c, at) ==
    LET lastItem      == at.position + 1 >= c.length
        lastIteration == InLastIteration(c, at)
    IN  CASE c.length = 0 -> Coords(0, 0, TRUE, TRUE, FALSE)
          [] c.length > 0 /\ ~lastItem ->
                 Coords(at.position + 1, at.iteration, FALSE, FALSE, FALSE)
          [] c.length > 0 /\ lastItem /\ ~lastIteration ->
                 Coords(0, at.iteration + 1, FALSE, FALSE, TRUE)
          [] c.length > 0 /\ lastItem /\ lastIteration ->
                 Coords(c.length - 1, at.iteration, FALSE, TRUE, FALSE)

(* seek() refuses a place outside the run and otherwise moves there.        *)
OutOfBounds(c, position, iteration) ==
    \/ position < 0  \/ position >= c.length
    \/ iteration < 0 \/ iteration >= c.cycles

Seek(c, position, iteration) ==
    IF OutOfBounds(c, position, iteration)
    THEN c
    ELSE [c EXCEPT !.position = position, !.iteration = iteration]
=============================================================================
