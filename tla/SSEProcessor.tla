----------------------------- MODULE SSEProcessor -----------------------------
(***************************************************************************)
(* Server-sent events (lib/requester/sse-processor.js): the body of the     *)
(* response arrives in chunks, cut anywhere, and is put together to events, *)
(* each of which ends with an empty line.                                   *)
(*                                                                          *)
(* A byte is a line break ("cr", "lf"), the byte order mark (its three      *)
(* bytes taken as one, for they are looked for in one chunk only) or        *)
(* anything else.                                                           *)
(***************************************************************************)
EXTENDS Integers, Sequences, FiniteSetsExt

CONSTANT Bytes   \* the bytes of a stream

Breaks == {"cr", "lf"}

ASSUME BytesAssumption == Breaks \subseteq Bytes

(* buf: what has not been made into lines yet.  start: how much of it has   *)
(* been searched for a break.  discard: a line feed that comes next belongs *)
(* to the line before.  event: the lines of the event that is not over.     *)
NewProcessor == [buf |-> << >>, start |-> 0, discard |-> FALSE, event |-> << >>, emitted |-> << >>]

WithoutMark(bytes) ==
    IF bytes # << >> /\ bytes[1] = "bom" THEN SubSeq(bytes, 2, Len(bytes)) ELSE bytes

AddLine(p, line) ==
    IF line[1] \in Breaks
    THEN [p EXCEPT !.event = << >>, !.emitted = Append(@, p.event \o <<"lf">>)]
    ELSE [p EXCEPT !.event = @ \o line]

(* One turn of the loop over the lines of the buffer, from pos on.  The     *)
(* search for the end of a line starts at the beginning of the buffer, so   *)
(* that a carriage return in a line before sets discard again.  open: the   *)
(* end of the line has not been received, and the loop is over.             *)
Turn(loop) ==
    LET p == loop.p
        here == IF p.discard /\ p.buf[loop.pos + 1] = "lf" THEN loop.pos + 1 ELSE loop.pos
        ends == {i \in p.start + 1 .. Len(p.buf) : i > here /\ p.buf[i] \in Breaks}
        end == IF ends = {} THEN Len(p.buf) ELSE Min(ends)
        seen == [p EXCEPT !.discard = \E i \in p.start + 1 .. end : p.buf[i] = "cr"]
    IN  IF loop.open \/ loop.pos = Len(p.buf) THEN loop
        ELSE IF ends = {}
        THEN [p |-> [seen EXCEPT !.start = Len(p.buf) - here], pos |-> here, open |-> TRUE]
        ELSE [p |-> [AddLine(seen, SubSeq(p.buf, here + 1, end)) EXCEPT !.start = 0],
              pos |-> end, open |-> FALSE]

(* Each turn takes a byte at least.  What is left of the buffer is kept.    *)
Lines(p) ==
    LET turn[n \in 0 .. Len(p.buf)] ==
            IF n = 0 THEN [p |-> p, pos |-> 0, open |-> FALSE] ELSE Turn(turn[n - 1])
        last == turn[Len(p.buf)]
    IN  [last.p EXCEPT !.buf = SubSeq(@, last.pos + 1, Len(@))]

Received(p, chunk) == [p EXCEPT !.buf = IF @ = << >> THEN WithoutMark(chunk) ELSE @ \o chunk]

(* Mutant: a line feed at the start of a chunk is a line break of its own. *)
OnDataForgetting(p, chunk) == Lines(Received([p EXCEPT !.discard = FALSE], chunk))

OnData(p, chunk) == Lines(Received(p, chunk))

(***************************************************************************)
(* The events of a stream, whatever its chunks.  It is read byte by byte: a *)
(* line feed after a carriage return is part of its break, a line ends with *)
(* a break, and an event with a line that is empty.                         *)
(***************************************************************************)
Nothing == [line |-> << >>, event |-> << >>, emitted |-> << >>]

ReadByte(read, byte, after) ==
    IF byte = "lf" /\ after = "cr" THEN read
    ELSE IF byte \notin Breaks THEN [read EXCEPT !.line = Append(@, byte)]
    ELSE IF read.line # << >>
    THEN [read EXCEPT !.line = << >>, !.event = @ \o Append(read.line, byte)]
    ELSE [read EXCEPT !.event = << >>, !.emitted = Append(@, read.event \o <<"lf">>)]

Read(bytes) ==
    LET read[n \in 0 .. Len(bytes)] ==
            IF n = 0 THEN Nothing
            ELSE ReadByte(read[n - 1], bytes[n], IF n = 1 THEN "none" ELSE bytes[n - 1])
    IN  read[Len(bytes)]

Events(stream) == Read(WithoutMark(stream)).emitted
=============================================================================
