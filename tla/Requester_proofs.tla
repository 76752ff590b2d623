--------------------------- MODULE Requester_proofs ---------------------------
(***************************************************************************)
(* Proofs about Requester, for every set of requests, of headers' names and *)
(* of bytes, and every number of rounds: what its caller hears and in which *)
(* order, that it is called back once, that server-sent events are told     *)
(* whole whatever the chunks, that the headers of the user leave each time  *)
(* that the request is sent, and that the dry run has them all.             *)
(*                                                                          *)
(* The stream is read by functions that are defined by recursion (Lines of  *)
(* SSEProcessor, Read).  That they agree is proved by the least number for  *)
(* which they do not (LeastNat, SetInduction).                              *)
(***************************************************************************)
EXTENDS Requester, SequenceTheorems, FiniteSetTheorems, WellFoundedInduction, TLAPS

(***************************************************************************)
(* The turns of the loop over the lines of a server-sent event stream, and  *)
(* the least-number argument that stands for induction: a set of numbers    *)
(* that holds 0, and with each number the next, holds all of them           *)
(***************************************************************************)
LEMMA LeastNat ==
    ASSUME NEW T \in SUBSET Nat, T # {}
    PROVE  \E n \in T : \A m \in T : n <= m
<1>. DEFINE R == {pair \in Nat \X Nat : pair[1] < pair[2]}
<1>1. IsWellFoundedOn(R, Nat)
  BY NatLessThanWellFounded DEF OpToRel
<1>. HIDE DEF R
<1>2. PICK n \in T : \A m \in T : <<m, n>> \notin R
  BY <1>1, WFMin
<1>3. \A m \in T : ~(m < n)
  BY <1>2 DEF R
<1>. QED BY <1>3

LEMMA SetInduction ==
    ASSUME NEW T, 0 \in T, \A n \in Nat : n \in T => n + 1 \in T
    PROVE  Nat \subseteq T
<1>1. SUFFICES ASSUME Nat \ T # {} PROVE FALSE
  OBVIOUS
<1>2. PICK n \in Nat \ T : \A m \in Nat \ T : n <= m
  BY <1>1, LeastNat
<1>3. n - 1 \in Nat /\ n - 1 \notin Nat \ T
  BY <1>2
<1>. QED BY <1>2, <1>3

TurnDef(g, p, n) == g = [k \in 0 .. n |-> IF k = 0 THEN [p |-> p, pos |-> 0, open |-> FALSE] ELSE Turn(g[k - 1])]

LEMMA TurnExists ==
    ASSUME NEW p, NEW n \in Nat
    PROVE  \E g : TurnDef(g, p, n)
<1>. DEFINE T == {m \in Nat : \E g : TurnDef(g, p, m)}
<1>1. 0 \in T
  <2>. DEFINE g == [k \in 0 .. 0 |-> [p |-> p, pos |-> 0, open |-> FALSE]]
  <2>1. TurnDef(g, p, 0) BY DEF TurnDef
  <2>. QED BY <2>1
<1>2. ASSUME NEW m \in Nat, m \in T PROVE m + 1 \in T
  <2>1. PICK g : TurnDef(g, p, m) BY <1>2
  <2>. DEFINE h == [k \in 0 .. m + 1 |-> IF k <= m THEN g[k] ELSE Turn(g[m])]
  <2>2. h = [k \in 0 .. m + 1 |-> IF k = 0 THEN [p |-> p, pos |-> 0, open |-> FALSE] ELSE Turn(h[k - 1])]
    <3>1. ASSUME NEW k \in 0 .. m + 1
          PROVE  h[k] = IF k = 0 THEN [p |-> p, pos |-> 0, open |-> FALSE] ELSE Turn(h[k - 1])
      <4>1. CASE k <= m
        <5>1. k \in 0 .. m BY <4>1
        <5>2. g[k] = IF k = 0 THEN [p |-> p, pos |-> 0, open |-> FALSE] ELSE Turn(g[k - 1])
          BY <2>1, <5>1 DEF TurnDef
        <5>3. k # 0 => k - 1 \in 0 .. m + 1 /\ k - 1 <= m BY <4>1
        <5>. QED BY <5>1, <5>2, <5>3, <4>1
      <4>2. CASE k = m + 1
        BY <4>2
      <4>. QED BY <4>1, <4>2
    <3>. HIDE DEF h
    <3>2. h = [k \in 0 .. m + 1 |-> h[k]] BY DEF h
    <3>. QED BY <3>1, <3>2
  <2>. HIDE DEF h
  <2>3. TurnDef(h, p, m + 1) BY <2>2 DEF TurnDef
  <2>. QED BY <2>3
<1>. HIDE DEF T
<1>3. Nat \subseteq T BY <1>1, <1>2, SetInduction
<1>. QED BY <1>3 DEF T

LEMMA LinesDef ==
    ASSUME NEW p, Len(p.buf) \in Nat
    PROVE  \E g : /\ TurnDef(g, p, Len(p.buf))
                  /\ Lines(p) = LET last == g[Len(p.buf)]
                                IN  [last.p EXCEPT !.buf = SubSeq(@, last.pos + 1, Len(@))]
<1>. DEFINE g == CHOOSE g : TurnDef(g, p, Len(p.buf))
<1>1. TurnDef(g, p, Len(p.buf)) BY TurnExists
<1>2. Lines(p) = LET last == g[Len(p.buf)]
                                IN  [last.p EXCEPT !.buf = SubSeq(@, last.pos + 1, Len(@))]
  BY DEF Lines, TurnDef
<1>. QED BY <1>1, <1>2

Processors == [buf : Seq(Bytes), start : Nat, discard : BOOLEAN, event : Seq(Bytes),
               emitted : Seq(Seq(Bytes))]

LEMMA MinOfSome ==
    ASSUME NEW T \in SUBSET Nat, T # {}
    PROVE  Min(T) \in T /\ \A i \in T : Min(T) <= i
BY LeastNat DEF Min

(* What a turn does to the processor, apart from its value. *)
LoopTyped(loop, buf, least) ==
    /\ loop = [p |-> loop.p, pos |-> loop.pos, open |-> loop.open]
    /\ loop.p \in Processors /\ loop.p.buf = buf
    /\ loop.pos \in 0 .. Len(buf) /\ loop.open \in BOOLEAN
    /\ least <= Len(loop.p.emitted)

LEMMA AddLineTyped ==
    ASSUME NEW p \in Processors, NEW line \in Seq(Bytes)
    PROVE  /\ AddLine(p, line) \in Processors
           /\ AddLine(p, line).buf = p.buf
           /\ Len(p.emitted) <= Len(AddLine(p, line).emitted)
<1>0. p.event \in Seq(Bytes) /\ p.emitted \in Seq(Seq(Bytes)) /\ Len(p.emitted) \in Nat
  BY LenProperties DEF Processors
<1>1. p.event \o <<"lf">> \in Seq(Bytes) /\ p.event \o line \in Seq(Bytes)
  <2>1. <<"lf">> \in Seq(Bytes) BY BytesAssumption DEF Breaks
  <2>. QED BY <1>0, <2>1, ConcatProperties
<1>2. CASE line[1] \in Breaks
  <2>1. Append(p.emitted, p.event \o <<"lf">>) \in Seq(Seq(Bytes))
        /\ Len(Append(p.emitted, p.event \o <<"lf">>)) = Len(p.emitted) + 1
    BY <1>0, <1>1, AppendProperties
  <2>. DEFINE emitted == Append(p.emitted, p.event \o <<"lf">>)
  <2>2. AddLine(p, line) = [p EXCEPT !.event = << >>, !.emitted = emitted]
    BY <1>2 DEF AddLine
  <2>. HIDE DEF emitted
  <2>3. emitted \in Seq(Seq(Bytes)) /\ Len(p.emitted) <= Len(emitted)
    BY <2>1, <1>0 DEF emitted
  <2>4. AddLine(p, line) \in Processors
    BY <2>2, <2>3, EmptySeq DEF Processors
  <2>5. AddLine(p, line).buf = p.buf /\ AddLine(p, line).emitted = emitted
    BY <2>2 DEF Processors
  <2>. QED BY <2>3, <2>4, <2>5
<1>3. CASE line[1] \notin Breaks
  <2>. DEFINE event == p.event \o line
  <2>1. AddLine(p, line) = [p EXCEPT !.event = event]
    BY <1>3 DEF AddLine
  <2>2. event \in Seq(Bytes) BY <1>1
  <2>. HIDE DEF event
  <2>4. AddLine(p, line) \in Processors
    BY <2>1, <2>2 DEF Processors
  <2>5. AddLine(p, line).buf = p.buf /\ AddLine(p, line).emitted = p.emitted
    BY <2>1 DEF Processors
  <2>. QED BY <1>0, <2>4, <2>5
<1>. QED BY <1>2, <1>3

Here(loop) == IF loop.p.discard /\ loop.p.buf[loop.pos + 1] = "lf" THEN loop.pos + 1 ELSE loop.pos
Ends(loop) == {i \in loop.p.start + 1 .. Len(loop.p.buf) : i > Here(loop) /\ loop.p.buf[i] \in Breaks}
SawReturn(loop, end) == \E i \in loop.p.start + 1 .. end : loop.p.buf[i] = "cr"

LEMMA TurnCases ==
    ASSUME NEW loop
    PROVE  /\ loop.open \/ loop.pos = Len(loop.p.buf) => Turn(loop) = loop
           /\ ~loop.open /\ loop.pos # Len(loop.p.buf) /\ Ends(loop) = {} =>
                Turn(loop) = [ p |-> [loop.p EXCEPT !.discard = SawReturn(loop, Len(loop.p.buf)),
                                                    !.start = Len(loop.p.buf) - Here(loop)],
                               pos |-> Here(loop), open |-> TRUE ]
           /\ ~loop.open /\ loop.pos # Len(loop.p.buf) /\ Ends(loop) # {} =>
                Turn(loop) = [ p |-> [AddLine([loop.p EXCEPT !.discard = SawReturn(loop, Min(Ends(loop)))],
                                              SubSeq(loop.p.buf, Here(loop) + 1, Min(Ends(loop))))
                                        EXCEPT !.start = 0],
                               pos |-> Min(Ends(loop)), open |-> FALSE ]
BY DEF Turn, Here, Ends, SawReturn

LEMMA TurnTyped ==
    ASSUME NEW loop, NEW buf \in Seq(Bytes), NEW least \in Nat, LoopTyped(loop, buf, least)
    PROVE  /\ LoopTyped(Turn(loop), buf, least)
           /\ Turn(loop).open \/ Turn(loop).pos = Len(buf) \/ Turn(loop).pos > loop.pos
<1>1. CASE loop.open \/ loop.pos = Len(buf)
  BY <1>1, TurnCases DEF LoopTyped
<1>. SUFFICES ASSUME ~loop.open, loop.pos # Len(buf)
              PROVE  /\ LoopTyped(Turn(loop), buf, least)
                     /\ Turn(loop).open \/ Turn(loop).pos = Len(buf) \/ Turn(loop).pos > loop.pos
  BY <1>1
<1>. DEFINE p == loop.p
            here == Here(loop)
<1>2. /\ p \in Processors /\ p.buf = buf /\ Len(buf) \in Nat /\ loop.pos \in 0 .. Len(buf) - 1
      /\ p.start \in Nat /\ Len(p.emitted) \in Nat /\ least <= Len(p.emitted)
  BY LenProperties DEF LoopTyped, Processors
<1>3. here \in loop.pos .. Len(buf)
  BY <1>2 DEF Here
<1>4. Ends(loop) \in SUBSET (here + 1 .. Len(buf)) /\ Ends(loop) \in SUBSET Nat
  BY <1>2, <1>3 DEF Ends
<1>5. CASE Ends(loop) = {}
  <2>. DEFINE q == [p EXCEPT !.discard = SawReturn(loop, Len(buf)), !.start = Len(buf) - here]
  <2>1. SawReturn(loop, Len(buf)) \in BOOLEAN BY DEF SawReturn
  <2>2. q \in Processors /\ q.buf = buf /\ q.emitted = p.emitted
    <3>. HIDE DEF here
    <3>1. Len(buf) - here \in Nat BY <1>2, <1>3
    <3>. QED BY <1>2, <2>1, <3>1 DEF Processors
  <2>3. Turn(loop) = [p |-> q, pos |-> here, open |-> TRUE]
    BY <1>2, <1>5, TurnCases
  <2>. HIDE DEF q, here
  <2>. QED BY <2>2, <2>3, <1>2, <1>3 DEF LoopTyped
<1>6. CASE Ends(loop) # {}
  <2>. DEFINE end == Min(Ends(loop))
              q == [p EXCEPT !.discard = SawReturn(loop, end)]
              r == AddLine(q, SubSeq(buf, here + 1, end))
              s == [r EXCEPT !.start = 0]
  <2>1. end \in here + 1 .. Len(buf) BY <1>4, <1>6, MinOfSome
  <2>2. SawReturn(loop, end) \in BOOLEAN BY DEF SawReturn
  <2>3. q \in Processors /\ q.buf = buf /\ q.emitted = p.emitted
    BY <1>2, <2>2 DEF Processors
  <2>4. SubSeq(buf, here + 1, end) \in Seq(Bytes)
    BY <1>2, <1>3, <2>1, SubSeqProperties
  <2>. HIDE DEF q
  <2>5. r \in Processors /\ r.buf = buf /\ Len(p.emitted) <= Len(r.emitted)
    BY <2>3, <2>4, AddLineTyped
  <2>6. Turn(loop) = [p |-> s, pos |-> end, open |-> FALSE]
    BY <1>2, <1>6, TurnCases DEF q
  <2>. HIDE DEF r, end, here
  <2>7. s \in Processors /\ s.buf = buf /\ s.emitted = r.emitted /\ Len(r.emitted) \in Nat
    BY <2>5, LenProperties DEF Processors
  <2>. HIDE DEF s
  <2>. QED BY <2>1, <2>5, <2>6, <2>7, <1>2, <1>3 DEF LoopTyped
<1>. QED BY <1>5, <1>6

Searched(loop, n) == loop.open \/ loop.pos = Len(loop.p.buf) \/ loop.pos >= n

LEMMA TurnsTyped ==
    ASSUME NEW p \in Processors, NEW g, TurnDef(g, p, Len(p.buf))
    PROVE  \A n \in 0 .. Len(p.buf) : LoopTyped(g[n], p.buf, Len(p.emitted)) /\ Searched(g[n], n)
<1>. DEFINE buf == p.buf
            least == Len(p.emitted)
            T == {n \in Nat : n <= Len(buf) => LoopTyped(g[n], buf, least) /\ Searched(g[n], n)}
<1>1. buf \in Seq(Bytes) /\ Len(buf) \in Nat /\ least \in Nat
  BY LenProperties DEF Processors
<1>2. 0 \in T
  <2>1. g[0] = [p |-> p, pos |-> 0, open |-> FALSE] BY <1>1 DEF TurnDef
  <2>2. g[0].p = p /\ g[0].pos = 0 /\ g[0].open = FALSE BY <2>1
  <2>3. g[0] = [p |-> g[0].p, pos |-> g[0].pos, open |-> g[0].open] BY <2>1
  <2>4. Searched(g[0], 0) BY <2>2 DEF Searched
  <2>5. 0 \in 0 .. Len(buf) /\ least <= Len(p.emitted) BY <1>1
  <2>6. LoopTyped(g[0], buf, least) BY <2>2, <2>3, <2>5 DEF LoopTyped
  <2>. QED BY <2>4, <2>6
<1>3. ASSUME NEW n \in Nat, n \in T PROVE n + 1 \in T
  <2>. SUFFICES ASSUME n + 1 <= Len(buf)
                PROVE  LoopTyped(g[n + 1], buf, least) /\ Searched(g[n + 1], n + 1)
    OBVIOUS
  <2>1. g[n + 1] = Turn(g[n])
    <3>1. n + 1 \in 0 .. Len(p.buf) /\ n + 1 # 0 /\ (n + 1) - 1 = n BY <1>1
    <3>. QED BY <3>1 DEF TurnDef
  <2>2. LoopTyped(g[n], buf, least) /\ Searched(g[n], n) BY <1>1, <1>3
  <2>3. /\ LoopTyped(Turn(g[n]), buf, least)
        /\ Turn(g[n]).open \/ Turn(g[n]).pos = Len(buf) \/ Turn(g[n]).pos > g[n].pos
    BY <1>1, <2>2, TurnTyped
  <2>4. g[n].open \/ g[n].pos = Len(g[n].p.buf) => Turn(g[n]) = g[n] BY TurnCases
  <2>5. g[n].p.buf = buf /\ Turn(g[n]).p.buf = buf /\ g[n].pos \in Nat /\ Turn(g[n]).pos \in Nat
    BY <1>1, <2>2, <2>3 DEF LoopTyped
  <2>6. Searched(Turn(g[n]), n + 1)
    BY <2>2, <2>3, <2>4, <2>5 DEF Searched
  <2>. QED BY <2>1, <2>3, <2>6
<1>4. Nat \subseteq T
  <2>. HIDE DEF T
  <2>. QED BY <1>2, <1>3, SetInduction
<1>. QED BY <1>1, <1>4

(* The end of the loop over the lines. *)
LEMMA LinesEnd ==
    ASSUME NEW p \in Processors, NEW g, TurnDef(g, p, Len(p.buf)), NEW last, last = g[Len(p.buf)]
    PROVE  /\ LoopTyped(last, p.buf, Len(p.emitted))
           /\ last.open \/ last.pos = Len(p.buf)
<1>1. Len(p.buf) \in Nat BY LenProperties DEF Processors
<1>2. LoopTyped(last, p.buf, Len(p.emitted)) /\ Searched(last, Len(p.buf))
  BY <1>1, TurnsTyped
<1>. QED BY <1>1, <1>2 DEF LoopTyped, Searched

LEMMA LinesTyped ==
    ASSUME NEW p \in Processors
    PROVE  Lines(p) \in Processors /\ Len(p.emitted) <= Len(Lines(p).emitted)
<1>1. p.buf \in Seq(Bytes) /\ Len(p.buf) \in Nat BY LenProperties DEF Processors
<1>2. PICK g : /\ TurnDef(g, p, Len(p.buf))
               /\ Lines(p) = LET last == g[Len(p.buf)]
                             IN  [last.p EXCEPT !.buf = SubSeq(@, last.pos + 1, Len(@))]
  BY <1>1, LinesDef
<1>. DEFINE last == g[Len(p.buf)]
            left == SubSeq(p.buf, last.pos + 1, Len(p.buf))
<1>3. LoopTyped(last, p.buf, Len(p.emitted)) BY <1>2, LinesEnd
<1>. HIDE DEF last
<1>4. left \in Seq(Bytes) BY <1>1, <1>3, SubSeqProperties DEF LoopTyped
<1>5. Lines(p) = [last.p EXCEPT !.buf = left] BY <1>2, <1>3 DEF LoopTyped, last
<1>. HIDE DEF left
<1>. QED BY <1>3, <1>4, <1>5 DEF LoopTyped, Processors

LEMMA WithoutMarkTyped ==
    ASSUME NEW chunk \in Seq(Bytes)
    PROVE  WithoutMark(chunk) \in Seq(Bytes)
<1>1. SubSeq(chunk, 2, Len(chunk)) \in Seq(Bytes) BY LenProperties, SubSeqProperties
<1>. QED BY <1>1 DEF WithoutMark

LEMMA OnDataTyped ==
    ASSUME NEW p \in Processors, NEW chunk \in Seq(Bytes)
    PROVE  OnData(p, chunk) \in Processors /\ Len(p.emitted) <= Len(OnData(p, chunk).emitted)
<1>. DEFINE buf == IF p.buf = << >> THEN WithoutMark(chunk) ELSE p.buf \o chunk
<1>1. buf \in Seq(Bytes)
  <2>1. p.buf \in Seq(Bytes) BY DEF Processors
  <2>. QED BY <2>1, WithoutMarkTyped, ConcatProperties
<1>2. Received(p, chunk) = [p EXCEPT !.buf = buf] BY DEF Received
<1>. HIDE DEF buf
<1>3. Received(p, chunk) \in Processors /\ Received(p, chunk).emitted = p.emitted
  BY <1>1, <1>2 DEF Processors
<1>. QED BY <1>3, LinesTyped DEF OnData

(***************************************************************************)
(* A stream that is read byte by byte (Read), and where the loop over its   *)
(* lines is in it                                                           *)
(***************************************************************************)
LEMMA SubSeqGrows ==
    ASSUME NEW S, NEW s \in Seq(S), NEW m \in 1 .. Len(s), NEW n \in m - 1 .. Len(s) - 1
    PROVE  SubSeq(s, m, n + 1) = Append(SubSeq(s, m, n), s[n + 1])
<1>0. Len(s) \in Nat BY LenProperties
<1>. DEFINE j == n + 1
<1>1. j \in m .. Len(s) /\ j - 1 = n BY <1>0
<1>2. SubSeq(s, m, n) \in Seq(S) BY <1>0, SubSeqProperties
<1>. HIDE DEF j
<1>3. SubSeq(s, m, j) = SubSeq(s, m, j - 1) \o <<s[j]>> BY <1>1, SubSeqRecursiveSecond
<1>4. s[j] \in S BY <1>0, <1>1, ElementOfSeq
<1>5. SubSeq(s, m, j) = Append(SubSeq(s, m, n), s[j])
  BY <1>1, <1>2, <1>3, <1>4, AppendIsConcat
<1>. QED BY <1>5 DEF j

ReadDef(g, bytes, n) ==
    g = [k \in 0 .. n |->
            IF k = 0 THEN Nothing
            ELSE ReadByte(g[k - 1], bytes[k], IF k = 1 THEN "none" ELSE bytes[k - 1])]

LEMMA ReadExists ==
    ASSUME NEW bytes, NEW n \in Nat
    PROVE  \E g : ReadDef(g, bytes, n)
<1>. DEFINE T == {m \in Nat : \E g : ReadDef(g, bytes, m)}
            Next1(g, k) == ReadByte(g, bytes[k], IF k = 1 THEN "none" ELSE bytes[k - 1])
<1>1. 0 \in T
  <2>. DEFINE g == [k \in 0 .. 0 |-> Nothing]
  <2>1. ReadDef(g, bytes, 0) BY DEF ReadDef
  <2>. QED BY <2>1
<1>2. ASSUME NEW m \in Nat, m \in T PROVE m + 1 \in T
  <2>1. PICK g : ReadDef(g, bytes, m) BY <1>2
  <2>. DEFINE h == [k \in 0 .. m + 1 |-> IF k <= m THEN g[k] ELSE Next1(g[m], m + 1)]
  <2>2. ASSUME NEW k \in 0 .. m + 1
        PROVE  h[k] = IF k = 0 THEN Nothing ELSE Next1(h[k - 1], k)
    <3>. HIDE DEF Next1
    <3>1. CASE k <= m
      <4>1. k \in 0 .. m BY <3>1
      <4>2. g[k] = IF k = 0 THEN Nothing ELSE Next1(g[k - 1], k)
        BY <2>1, <4>1 DEF ReadDef, Next1
      <4>3. k # 0 => k - 1 \in 0 .. m + 1 /\ k - 1 <= m BY <3>1
      <4>. QED BY <4>1, <4>2, <4>3, <3>1
    <3>2. CASE k = m + 1
      BY <3>2
    <3>. QED BY <3>1, <3>2
  <2>3. h = [k \in 0 .. m + 1 |-> h[k]] OBVIOUS
  <2>. HIDE DEF h
  <2>4. ReadDef(h, bytes, m + 1) BY <2>2, <2>3 DEF ReadDef
  <2>. QED BY <2>4
<1>. HIDE DEF T
<1>3. Nat \subseteq T BY <1>1, <1>2, SetInduction
<1>. QED BY <1>3 DEF T

LEMMA ReadIsSome ==
    ASSUME NEW bytes, Len(bytes) \in Nat
    PROVE  \E g : ReadDef(g, bytes, Len(bytes)) /\ Read(bytes) = g[Len(bytes)]
<1>. DEFINE g == CHOOSE g : ReadDef(g, bytes, Len(bytes))
<1>1. ReadDef(g, bytes, Len(bytes)) BY ReadExists
<1>2. Read(bytes) = g[Len(bytes)] BY DEF Read, ReadDef
<1>. QED BY <1>1, <1>2

(* What has been read does not depend on what follows. *)
Begins(a, m, b) == \A i \in 1 .. m : a[i] = b[i]

LEMMA ReadSame ==
    ASSUME NEW a, NEW b, NEW m \in Nat, NEW n \in Nat, m <= n, Begins(a, m, b),
           NEW g, ReadDef(g, a, m), NEW h, ReadDef(h, b, n)
    PROVE  g[m] = h[m]
<1>. DEFINE T == {k \in Nat : k <= m => g[k] = h[k]}
<1>1. 0 \in T
  BY DEF ReadDef
<1>2. ASSUME NEW k \in Nat, k \in T PROVE k + 1 \in T
  <2>. SUFFICES ASSUME k + 1 <= m PROVE g[k + 1] = h[k + 1]
    OBVIOUS
  <2>. DEFINE j == k + 1
  <2>1. j \in 0 .. m /\ j \in 0 .. n /\ j # 0 /\ j - 1 = k /\ g[k] = h[k]
    BY <1>2
  <2>2. a[j] = b[j] /\ (j # 1 => a[j - 1] = b[j - 1])
    BY <2>1 DEF Begins
  <2>. HIDE DEF j
  <2>3. g[j] = ReadByte(g[j - 1], a[j], IF j = 1 THEN "none" ELSE a[j - 1]) BY <2>1 DEF ReadDef
  <2>4. h[j] = ReadByte(h[j - 1], b[j], IF j = 1 THEN "none" ELSE b[j - 1]) BY <2>1 DEF ReadDef
  <2>5. g[j] = h[j] BY <2>1, <2>2, <2>3, <2>4
  <2>. QED BY <2>5 DEF j
<1>. HIDE DEF T
<1>3. Nat \subseteq T BY <1>1, <1>2, SetInduction
<1>. QED BY <1>3 DEF T

(* A stream W and what is read after each of its bytes. *)
Reads(R, W) == W \in Seq(Bytes) /\ ReadDef(R, W, Len(W))

LEMMA ReadsExists ==
    ASSUME NEW W \in Seq(Bytes)
    PROVE  \E R : Reads(R, W)
BY ReadExists, LenProperties DEF Reads

LEMMA ReadPrefix ==
    ASSUME NEW R, NEW W, Reads(R, W), NEW k \in 0 .. Len(W)
    PROVE  Read(SubSeq(W, 1, k)) = R[k]
<1>. DEFINE a == SubSeq(W, 1, k)
<1>1. /\ W \in Seq(Bytes) /\ Len(W) \in Nat /\ Len(a) = k
      /\ \A i \in 1 .. k : a[i] = W[i]
  BY LenProperties, SubSeqProperties DEF Reads
<1>. HIDE DEF a
<1>2. PICK g : ReadDef(g, a, Len(a)) /\ Read(a) = g[Len(a)] BY <1>1, ReadIsSome
<1>3. ReadDef(R, W, Len(W)) BY DEF Reads
<1>4. g[k] = R[k]
  <2>1. ReadDef(g, a, k) /\ k \in Nat /\ k <= Len(W) BY <1>1, <1>2
  <2>2. Begins(a, k, W) BY <1>1 DEF Begins
  <2>3. Len(W) \in Nat BY <1>1
  <2>. QED BY ONLY <1>3, <2>1, <2>2, <2>3, ReadSame
<1>. QED BY <1>1, <1>2, <1>4 DEF a

LEMMA ReadNext ==
    ASSUME NEW R, NEW W, Reads(R, W), NEW k \in 0 .. Len(W) - 1
    PROVE  R[k + 1] = ReadByte(R[k], W[k + 1], IF k = 0 THEN "none" ELSE W[k])
<1>1. Len(W) \in Nat BY LenProperties DEF Reads
<1>. DEFINE j == k + 1
<1>2. j \in 0 .. Len(W) /\ j # 0 /\ j - 1 = k /\ (j = 1 <=> k = 0) BY <1>1
<1>. HIDE DEF j
<1>3. R[j] = ReadByte(R[j - 1], W[j], IF j = 1 THEN "none" ELSE W[j - 1])
  BY <1>2 DEF Reads, ReadDef
<1>4. R[j] = ReadByte(R[k], W[j], IF k = 0 THEN "none" ELSE W[k])
  BY <1>2, <1>3
<1>. QED BY <1>4 DEF j

Readings == [line : Seq(Bytes), event : Seq(Bytes), emitted : Seq(Seq(Bytes))]

LEMMA ReadingIs ==
    ASSUME NEW r \in Readings
    PROVE  r = [line |-> r.line, event |-> r.event, emitted |-> r.emitted]
BY DEF Readings

LEMMA LineExcept ==
    ASSUME NEW r \in Readings, NEW line \in Seq(Bytes)
    PROVE  [r EXCEPT !.line = line] = [line |-> line, event |-> r.event, emitted |-> r.emitted]
<1>. DEFINE a == [r EXCEPT !.line = line]
<1>1. a \in Readings /\ a.line = line /\ a.event = r.event /\ a.emitted = r.emitted
  BY DEF Readings
<1>. HIDE DEF a
<1>2. a = [line |-> line, event |-> r.event, emitted |-> r.emitted] BY <1>1, ReadingIs
<1>. QED BY <1>2 DEF a

LEMMA LineEventExcept ==
    ASSUME NEW r \in Readings, NEW line \in Seq(Bytes), NEW event \in Seq(Bytes)
    PROVE  [r EXCEPT !.line = line, !.event = event]
                = [line |-> line, event |-> event, emitted |-> r.emitted]
<1>. DEFINE a == [r EXCEPT !.line = line, !.event = event]
<1>1. a \in Readings /\ a.line = line /\ a.event = event /\ a.emitted = r.emitted
  BY DEF Readings
<1>. HIDE DEF a
<1>2. a = [line |-> line, event |-> event, emitted |-> r.emitted] BY <1>1, ReadingIs
<1>. QED BY <1>2 DEF a

LEMMA EventEmittedExcept ==
    ASSUME NEW r \in Readings, NEW event \in Seq(Bytes), NEW emitted \in Seq(Seq(Bytes))
    PROVE  [r EXCEPT !.event = event, !.emitted = emitted]
                = [line |-> r.line, event |-> event, emitted |-> emitted]
<1>. DEFINE a == [r EXCEPT !.event = event, !.emitted = emitted]
<1>1. a \in Readings /\ a.line = r.line /\ a.event = event /\ a.emitted = emitted
  BY DEF Readings
<1>. HIDE DEF a
<1>2. a = [line |-> r.line, event |-> event, emitted |-> emitted] BY <1>1, ReadingIs
<1>. QED BY <1>2 DEF a

LEMMA ReadByteTyped ==
    ASSUME NEW read \in Readings, NEW byte \in Bytes, NEW after
    PROVE  ReadByte(read, byte, after) \in Readings
<1>0. read.event \in Seq(Bytes) /\ read.emitted \in Seq(Seq(Bytes)) /\ read.line \in Seq(Bytes)
  BY DEF Readings
<1>1. <<"lf">> \in Seq(Bytes)
  BY BytesAssumption DEF Breaks
<1>2. /\ read.event \o <<"lf">> \in Seq(Bytes)
      /\ Append(read.line, byte) \in Seq(Bytes)
      /\ read.event \o Append(read.line, byte) \in Seq(Bytes)
  BY <1>0, <1>1, ConcatProperties, AppendProperties
<1>3. Append(read.emitted, read.event \o <<"lf">>) \in Seq(Seq(Bytes))
  BY <1>0, <1>2, AppendProperties
<1>. DEFINE line == Append(read.line, byte)
            event == read.event \o line
            emitted == Append(read.emitted, read.event \o <<"lf">>)
<1>4. ReadByte(read, byte, after) \in { read, [read EXCEPT !.line = line],
                                        [read EXCEPT !.line = << >>, !.event = event],
                                        [read EXCEPT !.event = << >>, !.emitted = emitted] }
  BY DEF ReadByte
<1>. HIDE DEF line, event, emitted
<1>5. line \in Seq(Bytes) /\ event \in Seq(Bytes) /\ emitted \in Seq(Seq(Bytes))
  BY <1>2, <1>3 DEF line, event, emitted
<1>. QED BY <1>4, <1>5, EmptySeq DEF Readings

LEMMA ReadTyped ==
    ASSUME NEW R, NEW W, Reads(R, W)
    PROVE  \A k \in 0 .. Len(W) : R[k] \in Readings
<1>. DEFINE T == {k \in Nat : k <= Len(W) => R[k] \in Readings}
<1>0. W \in Seq(Bytes) /\ Len(W) \in Nat BY LenProperties DEF Reads
<1>1. 0 \in T
  <2>1. R[0] = Nothing BY <1>0 DEF Reads, ReadDef
  <2>2. << >> \in Seq(Bytes) /\ << >> \in Seq(Seq(Bytes)) BY EmptySeq
  <2>3. Nothing \in Readings BY <2>2 DEF Nothing, Readings
  <2>. QED BY <2>1, <2>3
<1>2. ASSUME NEW k \in Nat, k \in T PROVE k + 1 \in T
  <2>. SUFFICES ASSUME k + 1 <= Len(W) PROVE R[k + 1] \in Readings
    OBVIOUS
  <2>1. k \in 0 .. Len(W) - 1 /\ R[k] \in Readings /\ W[k + 1] \in Bytes
    BY <1>0, <1>2, ElementOfSeq
  <2>. QED BY <2>1, ReadNext, ReadByteTyped
<1>. HIDE DEF T
<1>3. Nat \subseteq T BY <1>1, <1>2, SetInduction
<1>. QED BY <1>0, <1>3 DEF T

(* A line that is not over. *)
LEMMA ReadLine ==
    ASSUME NEW R, NEW W, Reads(R, W), NEW o \in 0 .. Len(W), R[o].line = << >>,
           NEW m \in o .. Len(W), \A i \in o + 1 .. m : W[i] \notin Breaks
    PROVE  R[m] = [line |-> SubSeq(W, o + 1, m), event |-> R[o].event, emitted |-> R[o].emitted]
<1>. DEFINE Line(k) == [line |-> SubSeq(W, o + 1, k), event |-> R[o].event, emitted |-> R[o].emitted]
            T == {k \in Nat : o + k <= m => R[o + k] = Line(o + k)}
<1>0. W \in Seq(Bytes) /\ Len(W) \in Nat /\ o \in Nat /\ m \in Nat /\ R[o] \in Readings
  BY LenProperties, ReadTyped DEF Reads
<1>1. 0 \in T
  <2>1. SubSeq(W, o + 1, o) = << >> BY <1>0, SubSeqEmpty
  <2>2. R[o] = [line |-> << >>, event |-> R[o].event, emitted |-> R[o].emitted] BY <1>0 DEF Readings
  <2>. QED BY <1>0, <2>1, <2>2
<1>2. ASSUME NEW k \in Nat, k \in T PROVE k + 1 \in T
  <2>. SUFFICES ASSUME o + (k + 1) <= m PROVE R[o + (k + 1)] = Line(o + (k + 1))
    OBVIOUS
  <2>. DEFINE n == o + k
  <2>1. n \in 0 .. Len(W) - 1 /\ n \in o .. m - 1 /\ n + 1 = o + (k + 1) /\ R[n] = Line(n)
    BY <1>0, <1>2
  <2>. HIDE DEF n, T, Line
  <2>2. W[n + 1] \notin Breaks
    <3>1. n + 1 \in o + 1 .. m BY <2>1, <1>0
    <3>. QED BY <3>1, SMTT(30)
  <2>. USE DEF Line
  <2>3. R[n + 1] = [R[n] EXCEPT !.line = Append(@, W[n + 1])]
    BY <2>1, <2>2, ReadNext DEF ReadByte, Breaks
  <2>4. SubSeq(W, o + 1, n + 1) = Append(SubSeq(W, o + 1, n), W[n + 1])
    <3>1. o + 1 \in 1 .. Len(W) /\ n \in (o + 1) - 1 .. Len(W) - 1 BY <2>1, <1>0
    <3>. QED BY <1>0, <3>1, SubSeqGrows
  <2>5. [R[n] EXCEPT !.line = Append(@, W[n + 1])] = Line(n + 1)
    <3>1. SubSeq(W, o + 1, n) \in Seq(Bytes) /\ W[n + 1] \in Bytes
      <4>1. \A i \in o + 1 .. n : W[i] \in Bytes BY <2>1, <1>0, ElementOfSeq
      <4>2. W[n + 1] \in Bytes BY <2>1, <1>0, ElementOfSeq
      <4>. QED BY <4>1, <4>2, <2>1, <1>0, SubSeqProperties
    <3>2. R[n] \in Readings BY <2>1, <1>0, ReadTyped
    <3>. DEFINE line == Append(SubSeq(W, o + 1, n), W[n + 1])
    <3>3. line \in Seq(Bytes) BY <3>1, AppendProperties
    <3>. HIDE DEF line
    <3>4. [R[n] EXCEPT !.line = line] = [line |-> line, event |-> R[n].event, emitted |-> R[n].emitted]
      BY <3>2, <3>3, LineExcept
    <3>5. R[n].line = SubSeq(W, o + 1, n) /\ R[n].event = R[o].event /\ R[n].emitted = R[o].emitted
      BY <2>1
    <3>6. [R[n] EXCEPT !.line = Append(@, W[n + 1])] = [R[n] EXCEPT !.line = line]
      BY <3>5 DEF line
    <3>7. Line(n + 1) = [line |-> line, event |-> R[o].event, emitted |-> R[o].emitted]
      BY <2>4 DEF line
    <3>. QED BY <3>4, <3>5, <3>6, <3>7
  <2>. QED BY <2>1, <2>3, <2>5
<1>3. Nat \subseteq T
  <2>. HIDE DEF T
  <2>. QED BY <1>1, <1>2, SetInduction
<1>4. m - o \in Nat /\ o + (m - o) = m /\ m <= m BY <1>0
<1>5. m - o \in T
  <2>. HIDE DEF T
  <2>. QED BY <1>3, <1>4
<1>6. R[o + (m - o)] = Line(o + (m - o))
  <2>. HIDE DEF Line
  <2>. QED BY <1>4, <1>5
<1>. QED BY <1>4, <1>6

ProcReads(p, W, R, k) ==
    LET o == k - Len(p.buf)
    IN  /\ o \in 0 .. k
        /\ p.buf = SubSeq(W, o + 1, k)
        /\ p.start = Len(p.buf)
        /\ \A i \in o + 1 .. k : W[i] \notin Breaks
        /\ R[o] = [line |-> << >>, event |-> p.event, emitted |-> p.emitted]
        /\ o > 0 => W[o] \in Breaks
        /\ p.discard => \E j \in 1 .. o : W[j] = "cr"
        /\ p.buf = << >> /\ o > 0 /\ W[o] = "cr" => p.discard

(* The loop over a buffer with the bytes of W after base. *)
LoopReads(loop, W, R, base) ==
    LET o == base + loop.pos
        p == loop.p
        k == base + Len(p.buf)
    IN  /\ p.buf = SubSeq(W, base + 1, k)
        /\ R[o] = [line |-> << >>, event |-> p.event, emitted |-> p.emitted]
        /\ o > 0 => W[o] \in Breaks
        /\ p.discard => \E j \in 1 .. o : W[j] = "cr"
        /\ IF loop.open
           THEN /\ p.start = Len(p.buf) - loop.pos
                /\ \A i \in o + 1 .. k : W[i] \notin Breaks
                /\ loop.pos = Len(p.buf) /\ o > 0 => W[o] # "cr"
           ELSE /\ p.start <= Len(p.buf) /\ (loop.pos > 0 => p.start = 0)
                /\ \A i \in base + 1 .. base + p.start : W[i] \notin Breaks
                /\ p.start = 0 /\ o > 0 /\ W[o] = "cr" => p.discard

(* No two line feeds follow each other once there has been a carriage return. *)
PlainBreaks(W) ==
    \A i \in 1 .. Len(W) - 1 : W[i] = "lf" /\ W[i + 1] = "lf" => \A j \in 1 .. i : W[j] # "cr"

LEMMA HereReads ==
    ASSUME NEW R, NEW W, Reads(R, W), PlainBreaks(W), NEW base \in Nat,
           NEW loop, NEW buf \in Seq(Bytes), NEW least \in Nat, LoopTyped(loop, buf, least),
           base + Len(buf) <= Len(W),
           LoopReads(loop, W, R, base), ~loop.open, loop.pos # Len(buf),
           NEW h, h = base + Here(loop)
    PROVE  /\ h \in base + loop.pos .. base + Len(buf)
           /\ h = base + loop.pos \/ W[h] = "lf"
           /\ R[h] = R[base + loop.pos]
           /\ h > 0 => W[h] \in Breaks
           /\ h > 0 /\ h < base + Len(buf) /\ W[h + 1] = "lf" => W[h] # "cr"
<1>. DEFINE o == base + loop.pos
            k == base + Len(buf)
<1>0. /\ W \in Seq(Bytes) /\ Len(W) \in Nat /\ Len(buf) \in Nat /\ loop.pos \in 0 .. Len(buf) - 1
      /\ loop.p.buf = buf /\ loop.p.start \in Nat /\ loop.p.discard \in BOOLEAN
  BY LenProperties DEF Reads, LoopTyped, Processors
<1>1. buf = SubSeq(W, base + 1, k) /\ (loop.p.discard => \E j \in 1 .. o : W[j] = "cr")
  BY <1>0 DEF LoopReads
<1>2. \A i \in 1 .. Len(buf) : buf[i] = W[base + i]
  <2>1. base + 1 \in 1 .. Len(W) /\ k \in (base + 1) - 1 .. Len(W) BY <1>0
  <2>2. k - (base + 1) + 1 = Len(buf) /\ \A i \in 1 .. Len(buf) : (base + 1) + i - 1 = base + i
    BY <1>0
  <2>3. \A i \in 1 .. k - (base + 1) + 1 : SubSeq(W, base + 1, k)[i] = W[(base + 1) + i - 1]
    BY <1>0, <2>1, SubSeqProperties
  <2>. QED BY <1>1, <2>2, <2>3
<1>3. buf[loop.pos + 1] = W[o + 1]
  <2>1. loop.pos + 1 \in 1 .. Len(buf) /\ base + (loop.pos + 1) = o + 1 BY <1>0
  <2>. QED BY <1>2, <2>1
<1>4. o \in 0 .. Len(W) - 1 /\ o < k /\ o + 1 = base + (loop.pos + 1) BY <1>0
<1>5. o > 0 => W[o] \in Breaks BY DEF LoopReads
<1>6. CASE loop.p.discard /\ W[o + 1] = "lf"
  <2>1. Here(loop) = loop.pos + 1 /\ h = o + 1 BY <1>0, <1>3, <1>4, <1>6 DEF Here
  <2>2. PICK j \in 1 .. o : W[j] = "cr" BY <1>1, <1>6
  <2>3. o > 0 /\ o \in 1 .. Len(W) - 1 BY <1>4
  <2>4. W[o] = "cr"
    <3>1. W[o] # "lf" BY <1>6, <2>2, <2>3 DEF PlainBreaks
    <3>. QED BY <1>5, <2>3, <3>1 DEF Breaks
  <2>. HIDE DEF o, k
  <2>5. R[o + 1] = R[o]
    <3>1. R[o + 1] = ReadByte(R[o], W[o + 1], W[o]) BY <1>4, <2>3, ReadNext
    <3>. QED BY <1>6, <2>4, <3>1 DEF ReadByte
  <2>6. o + 1 \in o .. k /\ o + 1 > 0 /\ W[o + 1] \in Breaks /\ W[o + 1] # "cr"
    <3>1. o + 1 \in o .. k /\ o + 1 > 0 BY <1>0, <1>4 DEF k
    <3>2. W[o + 1] \in Breaks /\ W[o + 1] # "cr" BY <1>6 DEF Breaks
    <3>. QED BY <3>1, <3>2
  <2>7. h = o + 1 BY <2>1
  <2>8. /\ h \in o .. k
        /\ h = o \/ W[h] = "lf"
        /\ R[h] = R[o]
        /\ h > 0 => W[h] \in Breaks
        /\ h > 0 /\ h < k /\ W[h + 1] = "lf" => W[h] # "cr"
    BY ONLY <2>5, <2>6, <2>7, <1>6
  <2>. QED BY <2>8 DEF o, k
<1>7. CASE ~(loop.p.discard /\ W[o + 1] = "lf")
  <2>1. Here(loop) = loop.pos /\ h = o BY <1>0, <1>3, <1>7 DEF Here
  <2>2. o > 0 /\ W[o + 1] = "lf" => W[o] # "cr"
    <3>. SUFFICES ASSUME o > 0, W[o + 1] = "lf", W[o] = "cr" PROVE FALSE
      OBVIOUS
    <3>1. loop.p.start # 0 BY <1>7 DEF LoopReads
    <3>2. loop.pos = 0 /\ \A i \in base + 1 .. base + loop.p.start : W[i] \notin Breaks
      BY <1>0, <3>1 DEF LoopReads
    <3>3. o + 1 \in base + 1 .. base + loop.p.start BY <1>0, <3>1, <3>2
    <3>. QED BY <3>2, <3>3 DEF Breaks
  <2>. QED BY <2>1, <2>2, <1>0, <1>5
<1>. QED BY <1>6, <1>7

(* The bytes of W in a buffer. *)
LEMMA BufferOf ==
    ASSUME NEW W \in Seq(Bytes), NEW base \in Nat, NEW n \in Nat, base + n <= Len(W),
           NEW buf, buf = SubSeq(W, base + 1, base + n)
    PROVE  /\ Len(buf) = n
           /\ \A i \in 1 .. n : buf[i] = W[base + i]
           /\ \A i \in 0 .. n, j \in 0 .. n : SubSeq(buf, i + 1, j) = SubSeq(W, base + i + 1, base + j)
<1>0. Len(W) \in Nat BY LenProperties
<1>1. base + 1 \in Int /\ base + n \in Int /\ \A i \in base + 1 .. base + n : W[i] \in Bytes
  BY <1>0, ElementOfSeq
<1>2. /\ buf \in Seq(Bytes) /\ Len(buf) = n
      /\ \A i \in 1 .. (base + n) - (base + 1) + 1 : buf[i] = W[(base + 1) + i - 1]
  BY <1>1, SubSeqProperties
<1>3. (base + n) - (base + 1) + 1 = n /\ \A i \in 1 .. n : (base + 1) + i - 1 = base + i
  OBVIOUS
<1>4. \A i \in 1 .. n : buf[i] = W[base + i] BY <1>2, <1>3
<1>5. ASSUME NEW i \in 0 .. n, NEW j \in 0 .. n
      PROVE  SubSeq(buf, i + 1, j) = SubSeq(W, base + i + 1, base + j)
  <2>. DEFINE a == SubSeq(buf, i + 1, j)
              b == SubSeq(W, base + i + 1, base + j)
  <2>1. CASE j < i + 1
    BY <2>1, SubSeqEmpty
  <2>2. CASE i + 1 <= j
    <3>1. \A m \in i + 1 .. j : buf[m] \in Bytes BY <1>2, ElementOfSeq
    <3>2. \A m \in base + i + 1 .. base + j : W[m] \in Bytes BY <1>0, ElementOfSeq
    <3>3. /\ a \in Seq(Bytes) /\ Len(a) = j - (i + 1) + 1
          /\ \A m \in 1 .. j - (i + 1) + 1 : a[m] = buf[(i + 1) + m - 1]
      BY <2>2, <3>1, SubSeqProperties
    <3>4. /\ b \in Seq(Bytes) /\ Len(b) = (base + j) - (base + i + 1) + 1
          /\ \A m \in 1 .. (base + j) - (base + i + 1) + 1 : b[m] = W[(base + i + 1) + m - 1]
      BY <2>2, <3>2, SubSeqProperties
    <3>. HIDE DEF a, b
    <3>5. Len(a) = j - i /\ Len(b) = j - i BY <3>3, <3>4
    <3>6. ASSUME NEW m \in 1 .. j - i PROVE a[m] = b[m]
      <4>1. a[m] = buf[i + m] /\ b[m] = W[base + (i + m)] BY <3>3, <3>4
      <4>2. i + m \in 1 .. n BY <2>2
      <4>. QED BY <4>1, <4>2, <1>4
    <3>. QED BY <3>3, <3>4, <3>5, <3>6, SeqEqual DEF a, b
  <2>. QED BY <2>1, <2>2
<1>. QED BY <1>2, <1>4, <1>5

LEMMA TurnReads ==
    ASSUME NEW R, NEW W, Reads(R, W), PlainBreaks(W), NEW base \in Nat,
           NEW loop, NEW buf \in Seq(Bytes), NEW least \in Nat, LoopTyped(loop, buf, least),
           base + Len(buf) <= Len(W), LoopReads(loop, W, R, base)
    PROVE  LoopReads(Turn(loop), W, R, base)
<1>1. CASE loop.open \/ loop.pos = Len(buf)
  BY <1>1, TurnCases DEF LoopTyped
<1>. SUFFICES ASSUME ~loop.open, loop.pos # Len(buf) PROVE LoopReads(Turn(loop), W, R, base)
  BY <1>1
<1>. DEFINE p == loop.p
            o == base + loop.pos
            k == base + Len(buf)
            here == Here(loop)
            h == base + here
<1>2. /\ W \in Seq(Bytes) /\ Len(W) \in Nat /\ Len(buf) \in Nat /\ loop.pos \in 0 .. Len(buf) - 1
      /\ p \in Processors /\ p.buf = buf /\ p.start \in Nat
  BY LenProperties DEF Reads, LoopTyped, Processors
<1>3. /\ h \in o .. k
      /\ h = o \/ W[h] = "lf"
      /\ R[h] = R[o]
      /\ h > 0 => W[h] \in Breaks
      /\ h > 0 /\ h < k /\ W[h + 1] = "lf" => W[h] # "cr"
  BY HereReads
<1>4. here \in loop.pos .. Len(buf) /\ h \in Nat /\ k \in Nat /\ o \in Nat
  BY <1>2, SMTT(30) DEF Here
<1>5. /\ buf = SubSeq(W, base + 1, k)
      /\ R[o] = [line |-> << >>, event |-> p.event, emitted |-> p.emitted]
      /\ p.start <= Len(buf)
      /\ \A i \in base + 1 .. base + p.start : W[i] \notin Breaks
  BY <1>2 DEF LoopReads
<1>6. \A i \in 1 .. Len(buf) : buf[i] = W[base + i]
  <2>. DEFINE n == Len(buf)
  <2>1. n \in Nat /\ base + n <= Len(W) /\ buf = SubSeq(W, base + 1, base + n)
    BY <1>2, <1>5
  <2>. HIDE DEF n
  <2>2. \A i \in 1 .. n : buf[i] = W[base + i]
    <3>. HIDE DEF p, k
    <3>1. W \in Seq(Bytes) BY <1>2
    <3>. QED BY <2>1, <3>1, BufferOf
  <2>. QED BY <2>2 DEF n
<1>7. \A i \in 1 .. p.start : buf[i] \notin Breaks
  <2>. SUFFICES ASSUME NEW i \in 1 .. p.start PROVE buf[i] \notin Breaks
    OBVIOUS
  <2>1. base + i \in base + 1 .. base + p.start /\ i \in 1 .. Len(buf) BY <1>2, <1>5
  <2>. QED BY <1>5, <1>6, <2>1
<1>. HIDE DEF o, k, here, h
<1>8. CASE Ends(loop) = {}
  <2>. DEFINE saw == SawReturn(loop, Len(buf))
              start == Len(buf) - here
              q == [p EXCEPT !.discard = saw, !.start = start]
  <2>1. Turn(loop) = [p |-> q, pos |-> here, open |-> TRUE]
    BY <1>2, <1>8, TurnCases DEF here
  <2>2. \A i \in here + 1 .. Len(buf) : buf[i] \notin Breaks
    <3>. SUFFICES ASSUME NEW i \in here + 1 .. Len(buf) PROVE buf[i] \notin Breaks
      OBVIOUS
    <3>1. i \in Nat /\ i > here /\ i <= Len(buf) /\ i >= 1 BY <1>2, <1>4
    <3>2. CASE i <= p.start BY <1>2, <1>7, <3>1, <3>2
    <3>3. CASE i > p.start
      <4>1. i \in p.start + 1 .. Len(buf) BY <1>2, <3>1, <3>3
      <4>2. i \notin Ends(loop) BY <1>8
      <4>. QED BY <1>2, <3>1, <4>1, <4>2 DEF Ends, here
    <3>. QED BY <1>2, <3>1, <3>2, <3>3
  <2>3. ASSUME saw PROVE \E j \in 1 .. h : W[j] = "cr"
    <3>1. PICK i \in p.start + 1 .. Len(buf) : buf[i] = "cr" BY <1>2, <2>3 DEF SawReturn
    <3>2. i \in 1 .. here BY <1>2, <1>4, <2>2, <3>1 DEF Breaks
    <3>3. base + i \in 1 .. h /\ W[base + i] = "cr" BY <1>2, <1>4, <1>6, <3>1, <3>2 DEF h
    <3>. QED BY <3>3
  <2>4. \A i \in h + 1 .. k : W[i] \notin Breaks
    <3>1. ASSUME NEW i \in h + 1 .. k PROVE W[i] \notin Breaks
      <4>1. i - base \in here + 1 .. Len(buf) /\ i - base \in 1 .. Len(buf) /\ base + (i - base) = i
        BY <1>2, <1>4 DEF h, k
      <4>. QED BY <4>1, <1>6, <2>2
    <3>. QED BY <3>1
  <2>5. here = Len(buf) => W[h] # "cr"
    BY <1>2, <1>3, <1>4 DEF h, o
  <2>. HIDE DEF saw, start
  <2>6. /\ q.buf = buf /\ q.discard = saw /\ q.start = start
        /\ q.event = p.event /\ q.emitted = p.emitted
    BY <1>2 DEF Processors
  <2>. HIDE DEF q
  <2>7. /\ Turn(loop).p = q /\ Turn(loop).pos = here /\ Turn(loop).open = TRUE
    BY <2>1
  <2>. HIDE DEF p
  <2>8. base + here = h /\ base + Len(buf) = k BY DEF h, k
  <2>. QED BY <1>3, <1>5, <2>3, <2>4, <2>5, <2>6, <2>7, <2>8 DEF LoopReads, start
<1>9. CASE Ends(loop) # {}
  <2>. DEFINE end == Min(Ends(loop))
              e == base + end
              saw == SawReturn(loop, end)
              q == [p EXCEPT !.discard = saw]
              line == SubSeq(buf, here + 1, end)
              r == AddLine(q, line)
              s == [r EXCEPT !.start = 0]
  <2>1. end \in Ends(loop) /\ \A i \in Ends(loop) : end <= i
    <3>1. Ends(loop) \in SUBSET Nat BY <1>2 DEF Ends
    <3>. QED BY <1>9, <3>1, MinOfSome
  <2>2. end \in p.start + 1 .. Len(buf) /\ end \in here + 1 .. Len(buf) /\ buf[end] \in Breaks
    BY <1>2, <1>4, <2>1 DEF Ends, here
  <2>. HIDE DEF end
  <2>3. e \in h + 1 .. k /\ e \in 1 .. Len(W) /\ W[e] = buf[end]
    <3>1. end \in 1 .. Len(buf) /\ base + end \in h + 1 .. k /\ base + end \in 1 .. Len(W)
      BY <1>2, <1>4, <2>2 DEF h, k
    <3>. QED BY <1>6, <3>1
  <2>4. ASSUME NEW i \in h + 1 .. e - 1 PROVE W[i] \notin Breaks
    <3>. DEFINE m == i - base
    <3>1. m \in here + 1 .. end - 1 /\ m \in 1 .. Len(buf) /\ base + m = i
      BY <1>2, <1>4, <2>2 DEF h, e
    <3>. HIDE DEF m
    <3>2. buf[m] \notin Breaks
      <4>1. CASE m <= p.start BY <1>2, <1>7, <3>1, <4>1
      <4>2. CASE m > p.start
        <5>1. m \notin Ends(loop) BY <2>1, <2>2, <3>1
        <5>. QED BY <1>2, <1>4, <3>1, <4>2, <5>1 DEF Ends, here
      <4>. QED BY <1>2, <3>1, <4>1, <4>2
    <3>. QED BY <3>1, <3>2, <1>6
  <2>5. line = SubSeq(W, h + 1, e)
    <3>1. here \in 0 .. Len(buf) /\ end \in 0 .. Len(buf) BY <1>2, <1>4, <2>2
    <3>. QED BY <1>2, <1>5, <3>1, BufferOf, SMTT(30) DEF h, k, e
  <2>. HIDE DEF e
  <2>6. R[e - 1] = [ line |-> SubSeq(W, h + 1, e - 1), event |-> R[h].event,
                     emitted |-> R[h].emitted ]
    <3>1. h \in 0 .. Len(W) /\ e - 1 \in h .. Len(W) /\ R[h].line = << >>
      <4>1. R[h].line = << >> BY <1>3, <1>5
      <4>2. k <= Len(W) BY DEF k
      <4>. QED BY <1>2, <1>3, <1>4, <2>3, <4>1, <4>2, SMTT(30)
    <3>. DEFINE m == e - 1
    <3>2. m \in h .. Len(W) /\ \A i \in h + 1 .. m : W[i] \notin Breaks BY <3>1, <2>4
    <3>. HIDE DEF m, p, q, saw, line, r, s
    <3>3. R[m] = [line |-> SubSeq(W, h + 1, m), event |-> R[h].event, emitted |-> R[h].emitted]
      <4>1. h \in 0 .. Len(W) BY <3>1
      <4>2. m \in h .. Len(W) BY <3>2
      <4>3. \A i \in h + 1 .. m : W[i] \notin Breaks BY <3>2
      <4>4. R[h].line = << >> BY <3>1
      <4>. QED BY <4>1, <4>2, <4>3, <4>4, ReadLine, SMTT(20)
    <3>. QED BY <3>3 DEF m
  <2>7. R[e] = ReadByte(R[e - 1], W[e], IF e - 1 = 0 THEN "none" ELSE W[e - 1])
    <3>. DEFINE m == e - 1
    <3>1. m \in 0 .. Len(W) - 1 /\ m + 1 = e BY <1>2, <2>3
    <3>. HIDE DEF m
    <3>2. R[m + 1] = ReadByte(R[m], W[m + 1], IF m = 0 THEN "none" ELSE W[m]) BY <3>1, ReadNext
    <3>. QED BY <3>1, <3>2 DEF m
  <2>8. e - 1 > 0 /\ W[e] = "lf" => W[e - 1] # "cr"
    <3>1. CASE e - 1 = h BY <1>3, <1>4, <2>3, <3>1
    <3>2. CASE e - 1 # h
      <4>1. e - 1 \in h + 1 .. e - 1 BY <1>4, <2>3, <3>2
      <4>. QED BY <2>4, <4>1 DEF Breaks
    <3>. QED BY <3>1, <3>2
  <2>. DEFINE event == IF e - 1 = h THEN << >> ELSE p.event \o line
              emitted == IF e - 1 = h THEN Append(p.emitted, p.event \o <<"lf">>) ELSE p.emitted
  <2>9. R[h] = [line |-> << >>, event |-> p.event, emitted |-> p.emitted]
    BY <1>3, <1>5
  <2>10. R[e] = [line |-> << >>, event |-> event, emitted |-> emitted]
    <3>. DEFINE before == SubSeq(W, h + 1, e - 1)
    <3>1. R[e - 1] = [line |-> before, event |-> p.event, emitted |-> p.emitted]
      <4>. HIDE DEF before, p
      <4>1. R[e - 1] = [line |-> before, event |-> R[h].event, emitted |-> R[h].emitted]
        BY <2>6 DEF before
      <4>. QED BY <2>9, <4>1
    <3>2. W[e] \in Breaks BY <2>2, <2>3
    <3>3. R[e] = IF before # << >>
                 THEN [line |-> << >>, event |-> p.event \o Append(before, W[e]), emitted |-> p.emitted]
                 ELSE [line |-> before, event |-> << >>, emitted |-> Append(p.emitted, p.event \o <<"lf">>)]
      <4>. HIDE DEF before, p
      <4>1. ~ (W[e] = "lf" /\ (IF e - 1 = 0 THEN "none" ELSE W[e - 1]) = "cr")
        BY <2>3, <2>8, <1>4
      <4>. HIDE DEF ReadByte
      <4>2. \A after : ~(W[e] = "lf" /\ after = "cr") =>
              ReadByte(R[e - 1], W[e], after) =
                IF before # << >>
                THEN [R[e - 1] EXCEPT !.line = << >>, !.event = p.event \o Append(before, W[e])]
                ELSE [R[e - 1] EXCEPT !.event = << >>, !.emitted = Append(p.emitted, p.event \o <<"lf">>)]
        BY <3>1, <3>2 DEF ReadByte
      <4>3. R[e] = IF before # << >>
                THEN [R[e - 1] EXCEPT !.line = << >>, !.event = p.event \o Append(before, W[e])]
                ELSE [R[e - 1] EXCEPT !.event = << >>, !.emitted = Append(p.emitted, p.event \o <<"lf">>)]
        BY <2>7, <4>1, <4>2
      <4>. DEFINE one == p.event \o Append(before, W[e])
                  all == Append(p.emitted, p.event \o <<"lf">>)
                  r1 == R[e - 1]
      <4>4. r1 \in Readings
        <5>1. e - 1 \in 0 .. Len(W) BY <1>2, <2>3
        <5>. QED BY <5>1, ReadTyped
      <4>5. one \in Seq(Bytes) /\ all \in Seq(Seq(Bytes)) /\ << >> \in Seq(Bytes)
        <5>1. p.event \in Seq(Bytes) /\ p.emitted \in Seq(Seq(Bytes)) BY <1>2 DEF Processors, p
        <5>2. before \in Seq(Bytes) BY <3>1, <4>4 DEF Readings
        <5>3. W[e] \in Bytes BY <3>2, BytesAssumption
        <5>4. <<"lf">> \in Seq(Bytes) BY BytesAssumption DEF Breaks
        <5>5. Append(before, W[e]) \in Seq(Bytes) /\ p.event \o <<"lf">> \in Seq(Bytes)
          BY <5>1, <5>2, <5>3, <5>4, AppendProperties, ConcatProperties
        <5>. QED BY <5>1, <5>5, EmptySeq, AppendProperties, ConcatProperties
      <4>6. R[e] = IF before # << >> THEN [r1 EXCEPT !.line = << >>, !.event = one]
                   ELSE [r1 EXCEPT !.event = << >>, !.emitted = all]
        BY <4>3
      <4>7. r1.line = before /\ r1.event = p.event /\ r1.emitted = p.emitted BY <3>1
      <4>. HIDE DEF one, all, r1, p, q, saw, line, r, s, before
      <4>8. [r1 EXCEPT !.line = << >>, !.event = one]
                 = [line |-> << >>, event |-> one, emitted |-> p.emitted]
        <5>1. [r1 EXCEPT !.line = << >>, !.event = one]
                 = [line |-> << >>, event |-> one, emitted |-> r1.emitted]
          BY <4>4, <4>5, LineEventExcept
        <5>. QED BY <4>7, <5>1
      <4>9. [r1 EXCEPT !.event = << >>, !.emitted = all]
                 = [line |-> before, event |-> << >>, emitted |-> all]
        <5>1. [r1 EXCEPT !.event = << >>, !.emitted = all]
                 = [line |-> r1.line, event |-> << >>, emitted |-> all]
          BY <4>4, <4>5, EventEmittedExcept
        <5>. QED BY <4>7, <5>1
      <4>. QED BY <4>6, <4>8, <4>9 DEF one, all
    <3>4. CASE e - 1 = h
      <4>1. before = << >> BY <1>4, <3>4, SubSeqEmpty
      <4>. HIDE DEF before, p
      <4>. QED BY <3>3, <3>4, <4>1
    <3>5. CASE e - 1 # h
      <4>1. h + 1 \in 1 .. Len(W) /\ e - 1 \in (h + 1) - 1 .. Len(W) - 1 /\ (e - 1) + 1 = e
            /\ h + 1 <= e - 1
        BY <1>2, <1>4, <2>3, <3>5
      <4>2. Append(before, W[e]) = line
        BY <1>2, <2>5, <4>1, SubSeqGrows
      <4>3. Len(before) = (e - 1) - (h + 1) + 1
        <5>1. \A i \in h + 1 .. e - 1 : W[i] \in Bytes BY <1>2, <4>1, ElementOfSeq
        <5>. QED BY <4>1, <5>1, SubSeqProperties
      <4>. HIDE DEF before, p, line
      <4>4. before # << >> BY <4>1, <4>3
      <4>. QED BY <3>3, <3>5, <4>2, <4>4
    <3>. QED BY <3>4, <3>5
  <2>11. r = [q EXCEPT !.event = event, !.emitted = emitted]
    <3>1. line[1] = W[h + 1]
      <4>1. \A i \in h + 1 .. e : W[i] \in Bytes BY <1>2, <1>4, <2>3, ElementOfSeq
      <4>2. h + 1 <= e /\ 1 \in 1 .. e - (h + 1) + 1 /\ (h + 1) + 1 - 1 = h + 1 BY <1>4, <2>3
      <4>3. \A i \in 1 .. e - (h + 1) + 1 : SubSeq(W, h + 1, e)[i] = W[(h + 1) + i - 1]
        <5>1. h + 1 \in Int /\ e \in Int BY <1>4, <2>3
        <5>. QED BY <4>1, <5>1, SubSeqProperties
      <4>4. SubSeq(W, h + 1, e)[1] = W[h + 1] BY <4>2, <4>3
      <4>. QED BY <2>5, <4>4
    <3>2. q \in Processors /\ q.event = p.event /\ q.emitted = p.emitted
      <4>1. saw \in BOOLEAN BY DEF SawReturn
      <4>. HIDE DEF saw
      <4>. QED BY <1>2, <4>1 DEF Processors
    <3>. HIDE DEF q
    <3>3. CASE e - 1 = h
      <4>1. h + 1 = e BY <1>4, <2>3, <3>3
      <4>2. line[1] \in Breaks BY <3>1, <4>1, <2>2, <2>3
      <4>. QED BY <3>2, <3>3, <4>2 DEF AddLine
    <3>4. CASE e - 1 # h
      <4>1. h + 1 \in h + 1 .. e - 1 BY <1>4, <2>3, <3>4
      <4>2. line[1] \notin Breaks BY <3>1, <4>1, <2>4
      <4>3. r = [q EXCEPT !.event = q.event \o line] BY <4>2 DEF AddLine
      <4>4. event = q.event \o line /\ emitted = q.emitted BY <3>2, <3>4
      <4>. HIDE DEF event, emitted, r, line
      <4>5. [q EXCEPT !.event = event, !.emitted = emitted] = [q EXCEPT !.event = event]
        BY <3>2, <4>4 DEF Processors
      <4>. QED BY <4>3, <4>4, <4>5
    <3>. QED BY <3>3, <3>4
  <2>12. Turn(loop) = [p |-> s, pos |-> end, open |-> FALSE]
    BY <1>2, <1>9, TurnCases DEF end, here
  <2>. HIDE DEF event, emitted, saw
  <2>13. /\ s.buf = buf /\ s.discard = saw /\ s.start = 0
         /\ s.event = event /\ s.emitted = emitted
    BY <1>2, <2>11 DEF Processors
  <2>14. saw => \E j \in 1 .. e : W[j] = "cr"
    <3>. SUFFICES ASSUME saw PROVE \E j \in 1 .. e : W[j] = "cr"
      OBVIOUS
    <3>1. PICK i \in p.start + 1 .. end : buf[i] = "cr" BY <1>2 DEF SawReturn, saw
    <3>2. i \in 1 .. Len(buf) /\ base + i \in 1 .. e BY <1>2, <2>2, <3>1 DEF e
    <3>. QED BY <1>6, <3>1, <3>2
  <2>15. W[e] = "cr" => saw
    <3>1. end \in p.start + 1 .. end BY <1>2, <2>2
    <3>. QED BY <1>2, <2>3, <3>1 DEF SawReturn, saw
  <2>16. Turn(loop).p = s /\ Turn(loop).pos = end /\ Turn(loop).open = FALSE
    BY <2>12
  <2>17. base + end = e /\ e > 0 /\ end > 0 /\ W[e] \in Breaks /\ base + Len(buf) = k
         /\ 0 <= Len(buf) /\ base + 1 .. base + 0 = {}
    BY <1>2, <1>4, <2>2, <2>3 DEF e, k
  <2>. HIDE DEF s, p
  <2>. QED BY <1>5, <2>10, <2>13, <2>14, <2>15, <2>16, <2>17 DEF LoopReads
<1>. QED BY <1>8, <1>9

(***************************************************************************)
(* A chunk that is received after others                                    *)
(***************************************************************************)
LEMMA TurnsRead ==
    ASSUME NEW R, NEW W, Reads(R, W), PlainBreaks(W), NEW base \in Nat,
           NEW p \in Processors, base + Len(p.buf) <= Len(W),
           NEW g, TurnDef(g, p, Len(p.buf)), LoopReads(g[0], W, R, base)
    PROVE  LoopReads(g[Len(p.buf)], W, R, base)
<1>. DEFINE buf == p.buf
            least == Len(p.emitted)
            T == {n \in Nat : n <= Len(buf) => LoopReads(g[n], W, R, base)}
<1>1. buf \in Seq(Bytes) /\ Len(buf) \in Nat /\ least \in Nat
  BY LenProperties DEF Processors
<1>2. 0 \in T BY <1>1
<1>3. ASSUME NEW n \in Nat, n \in T PROVE n + 1 \in T
  <2>. SUFFICES ASSUME n + 1 <= Len(buf) PROVE LoopReads(g[n + 1], W, R, base)
    OBVIOUS
  <2>1. g[n + 1] = Turn(g[n])
    <3>1. n + 1 \in 0 .. Len(p.buf) /\ n + 1 # 0 /\ (n + 1) - 1 = n BY <1>1
    <3>. QED BY <3>1 DEF TurnDef
  <2>2. LoopReads(g[n], W, R, base) /\ n \in 0 .. Len(p.buf) BY <1>1, <1>3
  <2>3. LoopTyped(g[n], buf, least) BY <2>2, TurnsTyped
  <2>4. base + Len(buf) <= Len(W) OBVIOUS
  <2>. HIDE DEF buf, least, T
  <2>5. LoopReads(Turn(g[n]), W, R, base)
    BY <1>1, <2>2, <2>3, <2>4, TurnReads
  <2>. QED BY <2>1, <2>5
<1>. HIDE DEF T
<1>4. Nat \subseteq T BY <1>2, <1>3, SetInduction
<1>. QED BY <1>1, <1>4 DEF T

LEMMA LinesRead ==
    ASSUME NEW R, NEW W, Reads(R, W), PlainBreaks(W), NEW base \in Nat,
           NEW p \in Processors, base + Len(p.buf) <= Len(W),
           LoopReads([p |-> p, pos |-> 0, open |-> FALSE], W, R, base)
    PROVE  ProcReads(Lines(p), W, R, base + Len(p.buf))
<1>1. p.buf \in Seq(Bytes) /\ Len(p.buf) \in Nat BY LenProperties DEF Processors
<1>2. PICK g : /\ TurnDef(g, p, Len(p.buf))
               /\ Lines(p) = LET last == g[Len(p.buf)]
                             IN  [last.p EXCEPT !.buf = SubSeq(@, last.pos + 1, Len(@))]
  BY <1>1, LinesDef
<1>. DEFINE buf == p.buf
            last == g[Len(p.buf)]
            q == last.p
            n == Len(buf)
            left == SubSeq(buf, last.pos + 1, n)
            o == base + last.pos
            k == base + n
            r == [q EXCEPT !.buf = left]
<1>3. LoopTyped(last, buf, Len(p.emitted)) /\ (last.open \/ last.pos = n) BY <1>2, LinesEnd
<1>4. LoopReads(last, W, R, base)
  <2>1. g[0] = [p |-> p, pos |-> 0, open |-> FALSE] BY <1>1, <1>2 DEF TurnDef
  <2>. QED BY <1>2, <2>1, TurnsRead, SMTT(30)
<1>5. Lines(p) = r BY <1>2, <1>3 DEF LoopTyped
<1>6. W \in Seq(Bytes) /\ Len(W) \in Nat /\ n \in Nat /\ k <= Len(W) BY <1>1, LenProperties DEF Reads
<1>. HIDE DEF last, buf, n
<1>7. q \in Processors /\ q.buf = buf /\ last.pos \in 0 .. n /\ last.open \in BOOLEAN /\ q.start \in Nat
  BY <1>3 DEF LoopTyped, n, Processors
<1>. HIDE DEF q
<1>8. /\ buf = SubSeq(W, base + 1, base + n)
      /\ R[o] = [line |-> << >>, event |-> q.event, emitted |-> q.emitted]
      /\ o > 0 => W[o] \in Breaks
      /\ q.discard => \E j \in 1 .. o : W[j] = "cr"
  BY <1>4, <1>7 DEF LoopReads, q, n
<1>9. Len(left) = n - last.pos /\ left = SubSeq(W, o + 1, k)
  <2>1. n \in 0 .. n BY <1>6
  <2>2. left = SubSeq(W, o + 1, k)
    <3>1. base + n <= Len(W) BY <1>6
    <3>2. \A i \in 0 .. n, j \in 0 .. n : SubSeq(buf, i + 1, j) = SubSeq(W, base + i + 1, base + j)
      <4>. HIDE DEF left, o, k
      <4>. QED BY <1>6, <1>8, <3>1, BufferOf
    <3>. QED BY <1>7, <2>1, <3>2
  <2>3. \A i \in o + 1 .. k : W[i] \in Bytes BY <1>6, <1>7, ElementOfSeq
  <2>4. Len(left) = IF o + 1 <= k THEN k - (o + 1) + 1 ELSE 0
    <3>. HIDE DEF left
    <3>1. o + 1 \in Int /\ k \in Int BY <1>6, <1>7
    <3>. QED BY <2>2, <2>3, <3>1, SubSeqProperties
  <2>. HIDE DEF left
  <2>. QED BY <2>2, <2>4, <1>6, <1>7
<1>10. q.start = n - last.pos /\ \A i \in o + 1 .. k : W[i] \notin Breaks
  <2>1. CASE last.open
    BY <2>1, <1>4, <1>7 DEF LoopReads, q, n
  <2>2. CASE ~last.open
    <3>1. last.pos = n BY <2>2, <1>3
    <3>2. q.start <= n /\ (last.pos > 0 => q.start = 0)
      BY <2>2, <1>4, <1>7 DEF LoopReads, q, n
    <3>3. q.start = 0 BY <1>6, <1>7, <3>1, <3>2
    <3>. QED BY <3>1, <3>3, <1>6, <1>7
  <2>. QED BY <2>1, <2>2, <1>7
<1>11. last.pos = n /\ o > 0 /\ W[o] = "cr" => q.discard
  <2>1. CASE last.open
    BY <2>1, <1>4, <1>7 DEF LoopReads, q, n
  <2>2. CASE ~last.open
    <3>1. last.pos = n => q.start = 0 BY <1>6, <1>10
    <3>. QED BY <3>1, <2>2, <1>4, <1>7 DEF LoopReads, q, n
  <2>. QED BY <2>1, <2>2, <1>7
<1>. HIDE DEF left
<1>12. k - Len(left) = o /\ o \in 0 .. k
  <2>1. Len(left) = n - last.pos BY <1>9
  <2>2. n \in Nat /\ last.pos \in 0 .. n BY <1>6, <1>7
  <2>. QED BY <2>1, <2>2
<1>13. left = << >> => last.pos = n
  <2>1. Len(left) = n - last.pos BY <1>9
  <2>2. n \in Nat /\ last.pos \in 0 .. n BY <1>6, <1>7
  <2>3. left = << >> => Len(left) = 0 OBVIOUS
  <2>. QED BY <2>1, <2>2, <2>3
<1>14. /\ r.buf = left /\ r.start = q.start /\ r.discard = q.discard /\ r.event = q.event
       /\ r.emitted = q.emitted
  BY <1>7 DEF Processors
<1>. HIDE DEF r, o
<1>15. ProcReads(r, W, R, k)
  BY <1>8, <1>9, <1>10, <1>11, <1>12, <1>13, <1>14 DEF ProcReads
<1>. QED BY <1>5, <1>15 DEF n, buf

LEMMA OnDataReads ==
    ASSUME NEW R, NEW W, Reads(R, W), PlainBreaks(W),
           NEW p \in Processors, NEW k \in 0 .. Len(W), ProcReads(p, W, R, k),
           NEW l \in k .. Len(W), NEW chunk,
           Received(p, chunk) = [p EXCEPT !.buf = SubSeq(W, k - Len(p.buf) + 1, l)]
    PROVE  ProcReads(OnData(p, chunk), W, R, l)
<1>. DEFINE base == k - Len(p.buf)
            buf == SubSeq(W, base + 1, l)
            q == [p EXCEPT !.buf = buf]
            start == [p |-> q, pos |-> 0, open |-> FALSE]
<1>1. W \in Seq(Bytes) /\ Len(W) \in Nat /\ Len(p.buf) \in Nat /\ base \in 0 .. k
  BY LenProperties DEF Reads, Processors, ProcReads
<1>2. buf \in Seq(Bytes) /\ Len(buf) = l - base
  <2>1. \A i \in base + 1 .. l : W[i] \in Bytes BY <1>1, ElementOfSeq
  <2>2. base + 1 \in Int /\ l \in Int BY <1>1
  <2>3. buf \in Seq(Bytes) /\ Len(buf) = IF base + 1 <= l THEN l - (base + 1) + 1 ELSE 0
    BY <2>1, <2>2, SubSeqProperties
  <2>. HIDE DEF buf
  <2>. QED BY <2>3, <1>1
<1>3. /\ p.start = k - base
      /\ \A i \in base + 1 .. k : W[i] \notin Breaks
      /\ R[base] = [line |-> << >>, event |-> p.event, emitted |-> p.emitted]
      /\ base > 0 => W[base] \in Breaks
      /\ p.discard => \E j \in 1 .. base : W[j] = "cr"
      /\ p.buf = << >> /\ base > 0 /\ W[base] = "cr" => p.discard
  BY <1>1 DEF ProcReads
<1>4. p.start = 0 => p.buf = << >>
  <2>1. p.start = 0 => Len(p.buf) = 0 BY <1>1, <1>3
  <2>2. p.buf \in Seq(Bytes) BY DEF Processors
  <2>. QED BY <2>1, <2>2, EmptySeq
<1>5. buf = SubSeq(W, base + 1, base + Len(buf)) /\ base + Len(buf) = l
  <2>1. buf = SubSeq(W, base + 1, l) OBVIOUS
  <2>. HIDE DEF buf
  <2>2. base + Len(buf) = l BY <1>1, <1>2
  <2>. QED BY <2>1, <2>2
<1>. HIDE DEF buf
<1>6. /\ q \in Processors /\ q.buf = buf /\ q.start = p.start /\ q.discard = p.discard
      /\ q.event = p.event /\ q.emitted = p.emitted
  BY <1>2 DEF Processors
<1>. HIDE DEF base, q
<1>7. start.p = q /\ start.pos = 0 /\ start.open = FALSE OBVIOUS
<1>. HIDE DEF start
<1>8. LoopReads(start, W, R, base)
  <2>1. /\ base + start.pos = base /\ start.p.start <= Len(start.p.buf)
        /\ base + start.p.start = k
    BY <1>1, <1>2, <1>3, <1>6, <1>7
  <2>2. start.p.start = 0 /\ base > 0 /\ W[base] = "cr" => start.p.discard
    BY <1>3, <1>4, <1>6, <1>7
  <2>3. /\ start.p.buf = SubSeq(W, base + 1, base + Len(start.p.buf))
        /\ R[base] = [line |-> << >>, event |-> start.p.event, emitted |-> start.p.emitted]
        /\ base > 0 => W[base] \in Breaks
        /\ start.p.discard => \E j \in 1 .. base : W[j] = "cr"
        /\ \A i \in base + 1 .. base + start.p.start : W[i] \notin Breaks
    BY <1>3, <1>5, <1>6, <1>7, <2>1
  <2>. QED BY <1>7, <2>1, <2>2, <2>3 DEF LoopReads
<1>9. ProcReads(Lines(q), W, R, l)
  <2>1. base \in Nat /\ base + Len(q.buf) = l /\ l <= Len(W) BY <1>1, <1>5, <1>6
  <2>2. ProcReads(Lines(q), W, R, base + Len(q.buf))
    BY <1>6, <1>8, <2>1, LinesRead DEF start
  <2>. QED BY <2>1, <2>2
<1>. QED BY <1>9 DEF OnData, q, buf, base

(***************************************************************************)
(* What the caller is told, and in which order                              *)
(***************************************************************************)
NoneOf(heard, events) == \A i \in DOMAIN heard : heard[i] \notin events

Started(heard) == \E i \in DOMAIN heard : heard[i] = "start"

StartBefore(heard, i) == \E j \in DOMAIN heard : heard[j] = "start" /\ j < i

Ordered(heard) ==
    /\ \A i, j \in DOMAIN heard : heard[i] = "start" /\ heard[j] = "start" => i = j
    /\ \A i \in DOMAIN heard : heard[i] = "response" => StartBefore(heard, i)
    /\ \A i \in DOMAIN heard : heard[i] \in Answers => i = Len(heard)
    /\ ~scenario.getCookies => \A i \in DOMAIN heard : heard[i] = "data" => StartBefore(heard, i)

Asked(c) == /\ c.stage = "open" /\ ~c.disposed /\ c.asking /\ ~c.started /\ scenario.getCookies
            /\ NoneOf(c.heard, Answers \cup {"start"})

Told(c) == /\ c.stage = "open" /\ ~c.disposed /\ ~c.asking /\ c.started /\ ~c.ended
           /\ NoneOf(c.heard, Answers) /\ Started(c.heard) /\ Ordered(c.heard)

Running(c) == Told(c) \/ (Asked(c) /\ ~c.ended)

Done(c) == /\ c.stage = "answered" /\ c.disposed /\ ~(c.asking /\ c.ended) /\ Ordered(c.heard)

Over(c) == Done(c) \/ (Asked(c) /\ c.ended)

Heard == Answers \cup {"start", "data"}

Calls == [ stage : {"idle", "open", "answered"}, started : BOOLEAN, ended : BOOLEAN,
           asking : BOOLEAN, sse : BOOLEAN, disposed : BOOLEAN, heard : Seq(Heard),
           processor : Processors ]

LEMMA OneHeard ==
    ASSUME NEW heard \in Seq(Heard), NEW event \in Heard
    PROVE  /\ heard \o <<event>> \in Seq(Heard)
           /\ Len(heard) \in Nat /\ Len(heard \o <<event>>) = Len(heard) + 1
           /\ DOMAIN heard = 1 .. Len(heard)
           /\ DOMAIN (heard \o <<event>>) = 1 .. Len(heard) + 1
           /\ \A i \in 1 .. Len(heard) : (heard \o <<event>>)[i] = heard[i]
           /\ (heard \o <<event>>)[Len(heard) + 1] = event
<1>1. <<event>> \in Seq(Heard) /\ Len(<<event>>) = 1 /\ <<event>>[1] = event
  OBVIOUS
<1>. DEFINE one == <<event>>
<1>2. one \in Seq(Heard) /\ Len(one) = 1 /\ one[1] = event
  BY <1>1
<1>. HIDE DEF one
<1>. DEFINE more == heard \o one
<1>3. /\ more \in Seq(Heard) /\ Len(more) = Len(heard) + Len(one)
      /\ \A i \in 1 .. Len(heard) + Len(one) :
            more[i] = IF i <= Len(heard) THEN heard[i] ELSE one[i - Len(heard)]
  BY <1>2, ConcatProperties
<1>. HIDE DEF more
<1>4. Len(heard) \in Nat /\ DOMAIN heard = 1 .. Len(heard) /\ DOMAIN more = 1 .. Len(more)
  BY <1>3, LenProperties
<1>5. \A i \in 1 .. Len(heard) : more[i] = heard[i]
  BY <1>2, <1>3, <1>4
<1>6. more[Len(heard) + 1] = event
  BY <1>2, <1>3, <1>4
<1>. QED BY <1>2, <1>3, <1>4, <1>5, <1>6 DEF one, more

LEMMA ErrorHeard ==
    ASSUME NEW heard \in Seq(Heard), NoneOf(heard, Answers), Ordered(heard)
    PROVE  Ordered(heard \o <<"error">>)
<1>. DEFINE more == heard \o <<"error">>
<1>1. "error" \in Heard BY DEF Heard, Answers
<1>2. /\ Len(heard) \in Nat /\ Len(more) = Len(heard) + 1
      /\ DOMAIN heard = 1 .. Len(heard) /\ DOMAIN more = 1 .. Len(heard) + 1
      /\ \A i \in 1 .. Len(heard) : more[i] = heard[i]
      /\ more[Len(heard) + 1] = "error"
  BY <1>1, OneHeard
<1>. HIDE DEF more
<1>3. \A i \in DOMAIN heard : StartBefore(heard, i) => StartBefore(more, i)
  BY <1>2 DEF StartBefore
<1>4. \A i \in DOMAIN more : i \in DOMAIN heard \/ i = Len(heard) + 1
  BY <1>2
<1>5. Ordered(more)
  BY <1>2, <1>3, <1>4 DEF Ordered, NoneOf
<1>. QED BY <1>5 DEF more

LEMMA ResponseHeard ==
    ASSUME NEW heard \in Seq(Heard), NoneOf(heard, Answers), Ordered(heard), Started(heard)
    PROVE  Ordered(heard \o <<"response">>)
<1>. DEFINE more == heard \o <<"response">>
<1>1. "response" \in Heard BY DEF Heard, Answers
<1>2. /\ Len(heard) \in Nat /\ Len(more) = Len(heard) + 1
      /\ DOMAIN heard = 1 .. Len(heard) /\ DOMAIN more = 1 .. Len(heard) + 1
      /\ \A i \in 1 .. Len(heard) : more[i] = heard[i]
      /\ more[Len(heard) + 1] = "response"
  BY <1>1, OneHeard
<1>. HIDE DEF more
<1>3. \A i \in DOMAIN heard : StartBefore(heard, i) => StartBefore(more, i)
  BY <1>2 DEF StartBefore
<1>4. \A i \in DOMAIN more : i \in DOMAIN heard \/ i = Len(heard) + 1
  BY <1>2
<1>5. StartBefore(more, Len(heard) + 1)
  BY <1>2 DEF StartBefore, Started
<1>6. Ordered(more)
  BY <1>2, <1>3, <1>4, <1>5 DEF Ordered, NoneOf
<1>. QED BY <1>6 DEF more

LEMMA StartHeard ==
    ASSUME NEW heard \in Seq(Heard), NoneOf(heard, Answers \cup {"start"}),
           ~scenario.getCookies => heard = << >>
    PROVE  LET more == heard \o <<"start">>
           IN  NoneOf(more, Answers) /\ Started(more) /\ Ordered(more)
<1>. DEFINE more == heard \o <<"start">>
<1>1. "start" \in Heard BY DEF Heard
<1>2. /\ Len(heard) \in Nat /\ Len(more) = Len(heard) + 1
      /\ DOMAIN heard = 1 .. Len(heard) /\ DOMAIN more = 1 .. Len(heard) + 1
      /\ \A i \in 1 .. Len(heard) : more[i] = heard[i]
      /\ more[Len(heard) + 1] = "start"
  BY <1>1, OneHeard
<1>. HIDE DEF more
<1>3. \A i \in DOMAIN more : i \in DOMAIN heard \/ i = Len(heard) + 1
  BY <1>2
<1>4. heard = << >> => Len(heard) = 0 OBVIOUS
<1>5. NoneOf(more, Answers) /\ Started(more)
  BY <1>2, <1>3 DEF NoneOf, Started, Answers
<1>6. Ordered(more)
  BY <1>2, <1>3, <1>4 DEF NoneOf, Ordered, Answers
<1>. QED BY <1>5, <1>6 DEF more

LEMMA DataHeard ==
    ASSUME NEW heard \in Seq(Heard), NEW n \in Nat
    PROVE  LET more == heard \o [i \in 1 .. n |-> "data"]
           IN  /\ more \in Seq(Heard) /\ Len(more) = Len(heard) + n
               /\ DOMAIN heard = 1 .. Len(heard) /\ DOMAIN more = 1 .. Len(heard) + n
               /\ \A i \in 1 .. Len(heard) : more[i] = heard[i]
               /\ \A i \in Len(heard) + 1 .. Len(heard) + n : more[i] = "data"
               /\ NoneOf(heard, Answers \cup {"start"}) => NoneOf(more, Answers \cup {"start"})
               /\ NoneOf(heard, Answers) /\ Started(heard) /\ Ordered(heard) =>
                    NoneOf(more, Answers) /\ Started(more) /\ Ordered(more)
<1>. DEFINE new == [i \in 1 .. n |-> "data"]
            more == heard \o new
<1>1. new \in Seq(Heard) /\ Len(new) = n /\ \A i \in 1 .. n : new[i] = "data"
  <2>1. "data" \in Heard BY DEF Heard
  <2>2. new \in [1 .. n -> Heard] BY <2>1
  <2>. QED BY <2>2, IsASeq, LenProperties
<1>. HIDE DEF new
<1>11. /\ more \in Seq(Heard) /\ Len(more) = Len(heard) + Len(new)
      /\ \A i \in 1 .. Len(heard) + Len(new) :
            more[i] = IF i <= Len(heard) THEN heard[i] ELSE new[i - Len(heard)]
  BY <1>1, ConcatProperties
<1>. HIDE DEF more
<1>12. Len(heard) \in Nat /\ DOMAIN heard = 1 .. Len(heard) /\ DOMAIN more = 1 .. Len(more)
  BY <1>11, LenProperties
<1>2. /\ more \in Seq(Heard) /\ Len(heard) \in Nat /\ Len(more) = Len(heard) + n
      /\ DOMAIN heard = 1 .. Len(heard) /\ DOMAIN more = 1 .. Len(heard) + n
      /\ \A i \in 1 .. Len(heard) : more[i] = heard[i]
      /\ \A i \in 1 .. Len(heard) + Len(new) :
            more[i] = IF i <= Len(heard) THEN heard[i] ELSE new[i - Len(heard)]
  BY <1>1, <1>11, <1>12
<1>3. \A i \in Len(heard) + 1 .. Len(heard) + n : more[i] = "data"
  <2>1. \A i \in Len(heard) + 1 .. Len(heard) + n :
            i \in 1 .. Len(heard) + Len(new) /\ ~(i <= Len(heard)) /\ i - Len(heard) \in 1 .. n
    BY <1>1, <1>2
  <2>. QED BY <2>1, <1>1, <1>2
<1>4. \A i \in DOMAIN more : i \in DOMAIN heard \/ i \in Len(heard) + 1 .. Len(heard) + n
  BY <1>2
<1>5. \A i \in DOMAIN heard : StartBefore(heard, i) => StartBefore(more, i)
  BY <1>2 DEF StartBefore
<1>6. Started(heard) => \A i \in Len(heard) + 1 .. Len(heard) + n : StartBefore(more, i)
  BY <1>2 DEF StartBefore, Started
<1>7. NoneOf(heard, Answers \cup {"start"}) => NoneOf(more, Answers \cup {"start"})
  BY <1>2, <1>3, <1>4 DEF NoneOf, Answers
<1>8. NoneOf(heard, Answers) => NoneOf(more, Answers)
  BY <1>2, <1>3, <1>4 DEF NoneOf, Answers
<1>9. Started(heard) => Started(more)
  BY <1>2 DEF Started
<1>10. NoneOf(heard, Answers) /\ Started(heard) /\ Ordered(heard) => Ordered(more)
  <2>. SUFFICES ASSUME NoneOf(heard, Answers), Started(heard), Ordered(heard) PROVE Ordered(more)
    OBVIOUS
  <2>1. \A i, j \in DOMAIN more : more[i] = "start" /\ more[j] = "start" => i = j
    BY <1>2, <1>3, <1>4 DEF Ordered
  <2>2. \A i \in DOMAIN more : more[i] = "response" => StartBefore(more, i)
    BY <1>2, <1>3, <1>4, <1>5 DEF Ordered
  <2>3. \A i \in DOMAIN more : more[i] \in Answers => i = Len(more)
    BY <1>8 DEF NoneOf
  <2>4. ~scenario.getCookies => \A i \in DOMAIN more : more[i] = "data" => StartBefore(more, i)
    BY <1>2, <1>4, <1>5, <1>6 DEF Ordered
  <2>. QED BY <2>1, <2>2, <2>3, <2>4 DEF Ordered
<1>. QED BY <1>2, <1>3, <1>7, <1>8, <1>9, <1>10 DEF more, new

(***************************************************************************)
(* What the operations of the requester do to a call                        *)
(***************************************************************************)
LEMMA NewTyped == NewCall \in Calls /\ IdleCall \in Calls /\ NewProcessor \in Processors
<1>1. NewProcessor \in Processors
  <2>1. << >> \in Seq(Bytes) /\ << >> \in Seq(Seq(Bytes)) BY EmptySeq
  <2>. QED BY <2>1 DEF NewProcessor, Processors
<1>2. << >> \in Seq(Heard) BY EmptySeq
<1>3. NewCall \in Calls
  <2>. HIDE DEF NewProcessor
  <2>. QED BY <1>1, <1>2 DEF NewCall, Calls
<1>4. IdleCall \in Calls
  BY <1>3 DEF IdleCall, Calls
<1>. QED BY <1>1, <1>3, <1>4

LEMMA NewIs ==
    /\ NewCall.stage = "open" /\ ~NewCall.started /\ ~NewCall.ended /\ ~NewCall.asking
    /\ ~NewCall.sse /\ ~NewCall.disposed /\ NewCall.heard = << >>
    /\ IdleCall.stage = "idle" /\ ~IdleCall.asking /\ ~IdleCall.sse /\ IdleCall.heard = << >>
BY DEF NewCall, IdleCall

(* What the operations of the requester do to a call. *)
LEMMA OnEndIs ==
    ASSUME NEW c \in Calls, NEW answer \in Answers, NEW d, d = OnEnd(c, answer)
    PROVE  /\ d \in Calls /\ d.stage = "answered" /\ d.disposed
           /\ d.heard = c.heard \o <<answer>>
           /\ d.started = c.started /\ d.ended = c.ended /\ d.asking = c.asking
           /\ d.sse = c.sse /\ d.processor = c.processor
<1>1. c.heard \in Seq(Heard) /\ answer \in Heard BY DEF Calls, Heard
<1>. DEFINE heard == c.heard \o <<answer>>
<1>2. heard \in Seq(Heard) BY <1>1, OneHeard
<1>3. d = [c EXCEPT !.stage = "answered", !.heard = heard, !.disposed = TRUE]
  BY DEF OnEnd, OnEnds
<1>. HIDE DEF heard
<1>4. /\ d \in Calls /\ d.stage = "answered" /\ d.disposed /\ d.heard = heard
      /\ d.started = c.started /\ d.ended = c.ended /\ d.asking = c.asking
      /\ d.sse = c.sse /\ d.processor = c.processor
  BY <1>2, <1>3 DEF Calls
<1>. QED BY <1>4 DEF heard

LEMMA TellAllIs ==
    ASSUME NEW c \in Calls, NEW events, c.heard \o events \in Seq(Heard),
           NEW d, d = TellAll(c, events)
    PROVE  /\ d \in Calls /\ d.stage = c.stage /\ d.disposed = c.disposed
           /\ d.heard = IF c.disposed THEN c.heard ELSE c.heard \o events
           /\ d.started = c.started /\ d.ended = c.ended /\ d.asking = c.asking
           /\ d.sse = c.sse /\ d.processor = c.processor
<1>. DEFINE heard == c.heard \o events
<1>1. heard \in Seq(Heard) OBVIOUS
<1>2. d = IF c.disposed THEN c ELSE [c EXCEPT !.heard = heard]
  BY DEF TellAll
<1>. HIDE DEF heard
<1>3. /\ d \in Calls /\ d.stage = c.stage /\ d.disposed = c.disposed
      /\ d.heard = IF c.disposed THEN c.heard ELSE heard
      /\ d.started = c.started /\ d.ended = c.ended /\ d.asking = c.asking
      /\ d.sse = c.sse /\ d.processor = c.processor
  BY <1>1, <1>2 DEF Calls
<1>. QED BY <1>3 DEF heard

(* The end of the transport. *)
LEMMA ResponseIs ==
    ASSUME NEW c \in Calls, NEW d, d = OnComplete(c, "response")
    PROVE  IF c.started THEN d = OnEnd(c, "response")
           ELSE /\ d \in Calls /\ d.ended /\ d.stage = c.stage /\ d.disposed = c.disposed
                /\ d.heard = c.heard /\ d.started = c.started /\ d.asking = c.asking
                /\ d.sse = c.sse /\ d.processor = c.processor
<1>1. d = IF c.started THEN OnEnd(c, "response") ELSE [c EXCEPT !.ended = TRUE]
  BY DEF OnComplete
<1>. QED BY <1>1 DEF Calls

(* done of onStart. *)
StartToldTo(c, d) ==
    \E e \in Calls :
        /\ e.stage = c.stage /\ e.disposed = c.disposed /\ e.started /\ e.ended = c.ended
        /\ ~e.asking /\ e.sse = c.sse /\ e.processor = c.processor
        /\ e.heard = IF c.disposed THEN c.heard ELSE c.heard \o <<"start">>
        /\ d = IF c.ended THEN OnEnd(e, "response") ELSE e

LEMMA StartToldIs ==
    ASSUME NEW c \in Calls, NEW d, d = StartTold(c)
    PROVE  StartToldTo(c, d)
<1>. DEFINE a == [c EXCEPT !.asking = FALSE]
            b == TellAll(a, <<"start">>)
            e == [b EXCEPT !.started = TRUE]
<1>1. /\ a \in Calls /\ a.stage = c.stage /\ a.disposed = c.disposed /\ a.started = c.started
      /\ a.ended = c.ended /\ ~a.asking /\ a.sse = c.sse /\ a.processor = c.processor
      /\ a.heard = c.heard
  BY DEF Calls
<1>2. a.heard \o <<"start">> \in Seq(Heard)
  <2>1. c.heard \in Seq(Heard) /\ "start" \in Heard BY DEF Calls, Heard
  <2>. QED BY <1>1, <2>1, OneHeard
<1>3. d = IF b.ended THEN OnEnd(e, "response") ELSE e
  BY DEF StartTold, OnComplete
<1>31. b = TellAll(a, <<"start">>) OBVIOUS
<1>. HIDE DEF a, b
<1>32. \A events : a.heard \o events \in Seq(Heard) /\ b = TellAll(a, events) =>
        /\ b \in Calls /\ b.stage = a.stage /\ b.disposed = a.disposed
        /\ b.heard = IF a.disposed THEN a.heard ELSE a.heard \o events
        /\ b.ended = a.ended /\ b.asking = a.asking
        /\ b.sse = a.sse /\ b.processor = a.processor
  BY <1>1, TellAllIs
<1>4. /\ b \in Calls /\ b.stage = a.stage /\ b.disposed = a.disposed
      /\ b.heard = IF a.disposed THEN a.heard ELSE a.heard \o <<"start">>
      /\ b.ended = a.ended /\ b.asking = a.asking
      /\ b.sse = a.sse /\ b.processor = a.processor
  BY <1>2, <1>31, <1>32
<1>5. /\ e \in Calls /\ e.stage = b.stage /\ e.disposed = b.disposed /\ e.started
      /\ e.ended = b.ended /\ e.asking = b.asking /\ e.sse = b.sse /\ e.processor = b.processor
      /\ e.heard = b.heard
  BY <1>4 DEF Calls
<1>. HIDE DEF e
<1>. QED BY <1>1, <1>3, <1>4, <1>5 DEF StartToldTo

NewEvents(c, chunk) == Len(OnData(c.processor, chunk).emitted) - Len(c.processor.emitted)

ChunkTo(c, chunk, d) ==
    /\ d \in Calls /\ d.stage = c.stage /\ d.disposed = c.disposed
    /\ d.started = c.started /\ d.ended = c.ended /\ d.asking = c.asking /\ d.sse = c.sse
    /\ d.processor = OnData(c.processor, chunk) /\ NewEvents(c, chunk) \in Nat
    /\ d.heard = IF c.disposed THEN c.heard
                 ELSE c.heard \o [i \in 1 .. NewEvents(c, chunk) |-> "data"]

LEMMA OnChunkIs ==
    ASSUME NEW c \in Calls, NEW chunk \in Seq(Bytes), NEW d, d = OnChunk(c, chunk), c.sse
    PROVE  ChunkTo(c, chunk, d)
<1>. DEFINE processor == OnData(c.processor, chunk)
            new == Len(processor.emitted) - Len(c.processor.emitted)
            events == [i \in 1 .. new |-> "data"]
            a == [c EXCEPT !.processor = processor]
<1>1. processor \in Processors /\ new \in Nat
  <2>1. c.processor \in Processors BY DEF Calls
  <2>2. processor \in Processors /\ Len(c.processor.emitted) <= Len(processor.emitted)
    BY <2>1, OnDataTyped
  <2>. HIDE DEF processor
  <2>3. Len(processor.emitted) \in Nat /\ Len(c.processor.emitted) \in Nat
    BY <2>1, <2>2, LenProperties DEF Processors
  <2>. QED BY <2>2, <2>3
<1>2. d = TellAll(a, events)
  BY DEF OnChunk
<1>3. c.heard \in Seq(Heard) BY DEF Calls
<1>4. c.heard \o events \in Seq(Heard)
  <2>. HIDE DEF new
  <2>. QED BY <1>1, <1>3, DataHeard
<1>. HIDE DEF processor, events, new
<1>5. /\ a \in Calls /\ a.stage = c.stage /\ a.disposed = c.disposed /\ a.started = c.started
      /\ a.ended = c.ended /\ a.asking = c.asking /\ a.sse = c.sse /\ a.processor = processor
      /\ a.heard = c.heard
  BY <1>1 DEF Calls
<1>. HIDE DEF a
<1>51. a.heard \o events \in Seq(Heard) BY <1>4, <1>5
<1>6. /\ d \in Calls /\ d.stage = a.stage /\ d.disposed = a.disposed
      /\ d.heard = IF a.disposed THEN a.heard ELSE a.heard \o events
      /\ d.started = a.started /\ d.ended = a.ended /\ d.asking = a.asking
      /\ d.sse = a.sse /\ d.processor = a.processor
  <2>1. \A k, f : k.heard \o f \in Seq(Heard) /\ k \in Calls /\ d = TellAll(k, f) =>
            /\ d \in Calls /\ d.stage = k.stage /\ d.disposed = k.disposed
            /\ d.heard = IF k.disposed THEN k.heard ELSE k.heard \o f
            /\ d.started = k.started /\ d.ended = k.ended /\ d.asking = k.asking
            /\ d.sse = k.sse /\ d.processor = k.processor
    BY TellAllIs
  <2>. QED BY ONLY <1>2, <1>5, <1>51, <2>1
<1>. QED BY <1>1, <1>5, <1>6 DEF processor, events, new, ChunkTo, NewEvents

(***************************************************************************)
(* The answers of the transports, Node and the browser                      *)
(***************************************************************************)
Addresses == {"none"} \cup Loopback
             \cup UNION {{list[i] : i \in DOMAIN list} : list \in UNION {s.addresses : s \in Scenarios}}

Links == [ stage : {"none", "lookup", "sending", "jar", "opened", "body", "over"},
           address : Addresses, aborted : BOOLEAN, timer : BOOLEAN, timedOut : BOOLEAN,
           response : BOOLEAN, storing : BOOLEAN, onStart : BOOLEAN, end : BOOLEAN,
           callback : BOOLEAN ]

LEMMA AskedOrdered ==
    ASSUME NEW c, Asked(c)
    PROVE  NoneOf(c.heard, Answers) /\ Ordered(c.heard)
BY DEF Asked, NoneOf, Ordered, Answers

LEMMA ErrorDone ==
    ASSUME NEW c \in Calls, c = NewCall \/ Running(c), NEW d, d = OnEnd(c, "error")
    PROVE  d \in Calls /\ Done(d)
<1>1. NoneOf(c.heard, Answers) /\ Ordered(c.heard) /\ ~(c.asking /\ c.ended)
  <2>1. CASE c = NewCall
    <3>1. c.heard = << >> /\ ~c.asking BY <2>1, NewIs
    <3>. QED BY <3>1 DEF NoneOf, Ordered
  <2>2. CASE Told(c) BY <2>2 DEF Told
  <2>3. CASE Asked(c) /\ ~c.ended BY <2>3, AskedOrdered
  <2>. QED BY <2>1, <2>2, <2>3 DEF Running
<1>2. c.heard \in Seq(Heard) /\ "error" \in Answers BY DEF Calls, Answers
<1>3. /\ d \in Calls /\ d.stage = "answered" /\ d.disposed /\ d.heard = c.heard \o <<"error">>
      /\ d.ended = c.ended /\ d.asking = c.asking
  BY <1>2, OnEndIs
<1>4. Ordered(c.heard \o <<"error">>) BY <1>1, <1>2, ErrorHeard
<1>. QED BY <1>1, <1>3, <1>4 DEF Done

LEMMA ResponseOver ==
    ASSUME NEW c \in Calls, Running(c), NEW d, d = OnComplete(c, "response")
    PROVE  d \in Calls /\ Over(d)
<1>1. c.heard \in Seq(Heard) /\ "response" \in Answers BY DEF Calls, Answers
<1>2. CASE Told(c)
  <2>1. d = OnEnd(c, "response") BY <1>2, ResponseIs DEF Told
  <2>2. /\ d \in Calls /\ d.stage = "answered" /\ d.disposed
        /\ d.heard = c.heard \o <<"response">> /\ d.ended = c.ended /\ d.asking = c.asking
    BY <1>1, <2>1, OnEndIs
  <2>3. Ordered(c.heard \o <<"response">>) BY <1>1, <1>2, ResponseHeard DEF Told
  <2>. QED BY <1>2, <2>2, <2>3 DEF Done, Over, Told
<1>3. CASE Asked(c) /\ ~c.ended
  <2>1. /\ d \in Calls /\ d.ended /\ d.stage = c.stage /\ d.disposed = c.disposed
        /\ d.heard = c.heard /\ d.started = c.started /\ d.asking = c.asking
    BY <1>3, ResponseIs DEF Asked
  <2>. QED BY <1>3, <2>1 DEF Asked, Over
<1>. QED BY <1>2, <1>3 DEF Running

LEMMA ToldOrDone ==
    ASSUME NEW c \in Calls, c.stage = "open", ~c.disposed,
           NoneOf(c.heard, Answers \cup {"start"}), ~scenario.getCookies => c.heard = << >>,
           NEW d, d = StartTold(c)
    PROVE  d \in Calls /\ IF c.ended THEN Done(d) ELSE Told(d)
<1>1. c.heard \in Seq(Heard) /\ "response" \in Answers BY DEF Calls, Answers
<1>. DEFINE heard == c.heard \o <<"start">>
<1>2. PICK e \in Calls :
        /\ e.stage = c.stage /\ e.disposed = c.disposed /\ e.started /\ e.ended = c.ended
        /\ ~e.asking /\ e.heard = heard
        /\ d = IF c.ended THEN OnEnd(e, "response") ELSE e
  <2>0. StartToldTo(c, d) BY StartToldIs
  <2>1. PICK e \in Calls :
          /\ e.stage = c.stage /\ e.disposed = c.disposed /\ e.started /\ e.ended = c.ended
          /\ ~e.asking
          /\ e.heard = IF c.disposed THEN c.heard ELSE c.heard \o <<"start">>
          /\ d = IF c.ended THEN OnEnd(e, "response") ELSE e
    BY <2>0 DEF StartToldTo
  <2>2. e.heard = heard BY <2>1
  <2>. HIDE DEF heard
  <2>. QED BY <2>1, <2>2
<1>3. NoneOf(heard, Answers) /\ Started(heard) /\ Ordered(heard)
  BY <1>1, StartHeard
<1>. HIDE DEF heard
<1>4. CASE ~c.ended
  BY <1>2, <1>3, <1>4 DEF Told
<1>5. CASE c.ended
  <2>1. /\ d \in Calls /\ d.stage = "answered" /\ d.disposed
        /\ d.heard = heard \o <<"response">> /\ d.asking = e.asking
    BY <1>1, <1>2, <1>5, OnEndIs, SMTT(30)
  <2>2. heard \in Seq(Heard) BY <1>2 DEF Calls
  <2>3. Ordered(heard \o <<"response">>) BY <1>3, <2>2, ResponseHeard
  <2>. QED BY <1>2, <1>5, <2>1, <2>3 DEF Done
<1>. QED BY <1>4, <1>5

LEMMA StartRuns ==
    ASSUME scenario \in Scenarios, NEW d, d = OnStart(NewCall)
    PROVE  d \in Calls /\ Running(d)
<1>. DEFINE typed == [NewCall EXCEPT !.sse = scenario.sse]
            asked == [typed EXCEPT !.asking = TRUE]
<1>1. NewCall \in Calls BY NewTyped
<1>2. scenario.sse \in BOOLEAN /\ scenario.getCookies \in BOOLEAN BY ScenariosAssumption
<1>3. NewCall.stage = "open" /\ ~NewCall.started /\ ~NewCall.ended /\ ~NewCall.asking
      /\ ~NewCall.disposed /\ NewCall.heard = << >>
  BY NewIs
<1>4. d = IF scenario.getCookies THEN asked ELSE StartTold(typed)
  BY DEF OnStart
<1>5. /\ typed \in Calls /\ typed.stage = "open" /\ ~typed.started /\ ~typed.ended
      /\ ~typed.asking /\ ~typed.disposed /\ typed.heard = << >>
  BY <1>1, <1>2, <1>3 DEF Calls
<1>. HIDE DEF typed
<1>6. /\ asked \in Calls /\ asked.stage = "open" /\ ~asked.started /\ ~asked.ended
      /\ asked.asking /\ ~asked.disposed /\ asked.heard = << >>
  BY <1>5 DEF Calls
<1>. HIDE DEF asked
<1>7. \A heard : heard = << >> => NoneOf(heard, Answers \cup {"start"}) BY DEF NoneOf
<1>8. CASE scenario.getCookies
  BY <1>4, <1>6, <1>7, <1>8 DEF Asked, Running
<1>9. CASE ~scenario.getCookies
  BY <1>4, <1>5, <1>7, <1>9, ToldOrDone DEF Running
<1>. QED BY <1>8, <1>9

LEMMA CookiesTold ==
    ASSUME NEW c \in Calls, c.asking, NEW d, d = StartTold(c)
    PROVE  /\ d \in Calls
           /\ Running(c) => Running(d)
           /\ Over(c) => Over(d)
           /\ Done(c) => Done(d)
<1>1. CASE Asked(c)
  <2>1. d \in Calls /\ IF c.ended THEN Done(d) ELSE Told(d)
    BY <1>1, ToldOrDone DEF Asked
  <2>. QED BY <1>1, <2>1 DEF Asked, Running, Over, Done, Told
<1>2. CASE ~Asked(c)
  <2>1. PICK e \in Calls :
          /\ e.stage = c.stage /\ e.disposed = c.disposed /\ ~e.asking
          /\ e.heard = IF c.disposed THEN c.heard ELSE c.heard \o <<"start">>
          /\ d = IF c.ended THEN OnEnd(e, "response") ELSE e
    BY StartToldIs DEF StartToldTo
  <2>2. d \in Calls
    BY <2>1, OnEndIs DEF Answers
  <2>3. ~Running(c) BY <1>2 DEF Running, Told
  <2>4. Done(c) => Done(d) BY <2>1 DEF Done
  <2>. QED BY <1>2, <2>2, <2>3, <2>4 DEF Over
<1>. QED BY <1>1, <1>2

LEMMA ChunkRuns ==
    ASSUME NEW c \in Calls, Running(c), NEW chunk \in Seq(Bytes), NEW d, d = OnChunk(c, chunk)
    PROVE  d \in Calls /\ Running(d)
<1>1. CASE ~c.sse
  <2>1. d = c BY <1>1 DEF OnChunk
  <2>. QED BY <2>1
<1>2. CASE c.sse
  <2>. DEFINE new == NewEvents(c, chunk)
              heard == c.heard \o [i \in 1 .. new |-> "data"]
  <2>1. /\ d \in Calls /\ d.stage = c.stage /\ d.disposed = c.disposed
        /\ d.started = c.started /\ d.ended = c.ended /\ d.asking = c.asking
        /\ new \in Nat /\ d.heard = IF c.disposed THEN c.heard ELSE heard
    BY <1>2, OnChunkIs DEF ChunkTo
  <2>2. c.heard \in Seq(Heard) BY DEF Calls
  <2>. HIDE DEF new
  <2>3. /\ NoneOf(c.heard, Answers \cup {"start"}) => NoneOf(heard, Answers \cup {"start"})
        /\ NoneOf(c.heard, Answers) /\ Started(c.heard) /\ Ordered(c.heard) =>
             NoneOf(heard, Answers) /\ Started(heard) /\ Ordered(heard)
    BY <2>1, <2>2, DataHeard
  <2>. HIDE DEF heard
  <2>. QED BY <2>1, <2>3 DEF Running, Told, Asked
<1>. QED BY <1>1, <1>2

(***************************************************************************)
(* Types                                                                    *)
(***************************************************************************)
Typed == /\ scenario \in Scenarios
         /\ call \in Calls
         /\ link \in Links
         /\ rest \in Seq(Bytes)

LEMMA OnEndsTyped ==
    ASSUME NEW c \in Calls, NEW n \in Nat
    PROVE  OnEnds(c, [i \in 1 .. n |-> "error"]) \in Calls
<1>. DEFINE errors == [i \in 1 .. n |-> "error"]
            heard == c.heard \o errors
<1>1. errors \in Seq(Heard)
  <2>1. "error" \in Heard BY DEF Heard, Answers
  <2>. QED BY <2>1, IsASeq
<1>2. c.heard \in Seq(Heard) BY DEF Calls
<1>. HIDE DEF errors
<1>3. heard \in Seq(Heard) BY <1>1, <1>2, ConcatProperties
<1>4. OnEnds(c, errors) = [c EXCEPT !.stage = "answered", !.heard = heard, !.disposed = TRUE]
  BY DEF OnEnds
<1>. HIDE DEF heard
<1>5. OnEnds(c, errors) \in Calls BY <1>3, <1>4 DEF Calls
<1>. QED BY <1>5 DEF errors

LEMMA OnEndTyped == \A c \in Calls : \A a \in Answers : OnEnd(c, a) \in Calls
BY OnEndIs

LEMMA CompleteTyped == \A c \in Calls : OnComplete(c, "response") \in Calls
<1>. SUFFICES ASSUME NEW c \in Calls PROVE OnComplete(c, "response") \in Calls OBVIOUS
<1>1. "response" \in Answers BY DEF Answers
<1>. QED BY <1>1, OnEndTyped, ResponseIs

LEMMA StartToldTyped == \A c \in Calls : StartTold(c) \in Calls
<1>. SUFFICES ASSUME NEW c \in Calls PROVE StartTold(c) \in Calls OBVIOUS
<1>1. "response" \in Answers BY DEF Answers
<1>2. StartToldTo(c, StartTold(c)) BY StartToldIs
<1>3. PICK e \in Calls : StartTold(c) = IF c.ended THEN OnEnd(e, "response") ELSE e
  BY <1>2 DEF StartToldTo
<1>. QED BY <1>1, <1>3, OnEndTyped

LEMMA OnStartTyped == scenario \in Scenarios => \A c \in Calls : OnStart(c) \in Calls
<1>. SUFFICES ASSUME scenario \in Scenarios, NEW c \in Calls PROVE OnStart(c) \in Calls OBVIOUS
<1>. DEFINE typed == [c EXCEPT !.sse = scenario.sse]
            asked == [typed EXCEPT !.asking = TRUE]
<1>2. scenario.sse \in BOOLEAN /\ scenario.getCookies \in BOOLEAN BY ScenariosAssumption
<1>4. OnStart(c) = IF scenario.getCookies THEN asked ELSE StartTold(typed)
  BY DEF OnStart
<1>5. typed \in Calls BY <1>2 DEF Calls
<1>. HIDE DEF typed
<1>6. asked \in Calls BY <1>5 DEF Calls
<1>. HIDE DEF asked
<1>. QED BY <1>4, <1>5, <1>6, StartToldTyped

LEMMA OnChunkTyped == \A c \in Calls : \A chunk \in Seq(Bytes) : OnChunk(c, chunk) \in Calls
<1>. SUFFICES ASSUME NEW c \in Calls, NEW chunk \in Seq(Bytes) PROVE OnChunk(c, chunk) \in Calls
  OBVIOUS
<1>1. CASE c.sse
  <2>1. ChunkTo(c, chunk, OnChunk(c, chunk)) BY <1>1, OnChunkIs
  <2>. QED BY <2>1 DEF ChunkTo
<1>2. CASE ~c.sse BY <1>2 DEF OnChunk
<1>. QED BY <1>1, <1>2

LEMMA IdleLinkTyped == IdleLink \in Links
<1>1. "none" \in Addresses BY DEF Addresses
<1>. QED BY <1>1 DEF IdleLink, Links

LEMMA ChunkOfRest ==
    ASSUME NEW r \in Seq(Bytes), NEW n \in 1 .. Len(r)
    PROVE  SubSeq(r, 1, n) \in Seq(Bytes) /\ SubSeq(r, n + 1, Len(r)) \in Seq(Bytes)
<1>1. Len(r) \in Nat /\ n \in Nat /\ 1 <= n /\ n <= Len(r) BY LenProperties
<1>2. \A i \in 1 .. n : i \in 1 .. Len(r) BY <1>1
<1>3. \A i \in n + 1 .. Len(r) : i \in 1 .. Len(r) BY <1>1
<1>4. \A i \in 1 .. Len(r) : r[i] \in Bytes BY ElementOfSeq
<1>. QED BY <1>1, <1>2, <1>3, <1>4, SubSeqProperties

(* The types of the call, of its transport and of what the server still has *)
(* to send, for every request and every chunk.                              *)
THEOREM TypedInv == Spec => []Typed
<1>1. Init => Typed
  <2>. SUFFICES ASSUME Init PROVE Typed OBVIOUS
  <2>1. << >> \in Seq(Bytes) BY EmptySeq
  <2>. QED BY <2>1, NewTyped, IdleLinkTyped DEF Init, Typed
<1>2. Typed /\ [Next]_vars => Typed'
  <2>. SUFFICES ASSUME Typed, [Next]_vars PROVE Typed' OBVIOUS
  <2>. USE DEF Typed
  <2>1. Answers = {"error", "response"} BY DEF Answers
  <2>2. NewCall \in Calls BY NewTyped
  <2>3. scenario \in Scenarios /\ scenario.stream \in Seq(Bytes) /\ scenario.invalid \in Nat
    BY ScenariosAssumption
  <2>a. CASE Refuse
    BY <2>1, <2>2, <2>a, OnEndTyped DEF Refuse
  <2>b. CASE Send
    <3>1. link' \in Links
      BY <2>b, IdleLinkTyped DEF Send, Links
    <3>. QED BY <2>b, <2>2, <2>3, <3>1 DEF Send
  <2>c. CASE Lookup
    <3>1. link' \in Links
      <4>1. CASE \E address \in Loopback :
                link' = [link EXCEPT !.stage = "sending", !.address = address]
        BY <4>1 DEF Links, Addresses
      <4>2. CASE link' = [link EXCEPT !.stage = "over"]
        BY <4>2 DEF Links
      <4>3. CASE \E addresses \in scenario.addresses : \E i \in DOMAIN addresses :
                    link' = [link EXCEPT !.stage = "sending", !.address = addresses[i]]
        <5>0. PICK addresses \in scenario.addresses : \E i \in DOMAIN addresses :
                    link' = [link EXCEPT !.stage = "sending", !.address = addresses[i]]
          BY <4>3
        <5>1. PICK i \in DOMAIN addresses :
                    link' = [link EXCEPT !.stage = "sending", !.address = addresses[i]]
          BY <5>0
        <5>2. addresses[i] \in Addresses
          BY DEF Addresses
        <5>. QED BY <5>1, <5>2 DEF Links
      <4>. QED BY <2>c, <4>1, <4>2, <4>3 DEF Lookup
    <3>2. call' = call \/ call' = OnEnd(call, "error")
      BY <2>c DEF Lookup
    <3>. QED BY <2>1, <2>c, <3>1, <3>2, OnEndTyped DEF Lookup
  <2>d. CASE Respond
    <3>1. link' \in Links BY <2>d DEF Respond, Links
    <3>. QED BY <2>d, <3>1, OnStartTyped DEF Respond
  <2>e. CASE Chunk
    BY <2>e, ChunkOfRest, OnChunkTyped DEF Chunk
  <2>f. CASE BodyEnds
    <3>1. link' \in Links BY <2>f DEF BodyEnds, Links
    <3>. QED BY <2>f, <3>1, CompleteTyped DEF BodyEnds
  <2>g. CASE NetworkFails
    <3>1. link' \in Links BY <2>g DEF NetworkFails, Links
    <3>. QED BY <2>1, <2>g, <3>1, CompleteTyped, OnEndTyped DEF NetworkFails
  <2>h. CASE Abort
    <3>1. link' \in Links BY <2>h DEF Abort, Links
    <3>. QED BY <2>h, <3>1 DEF Abort
  <2>i. CASE CookiesGot
    BY <2>i, StartToldTyped DEF CookiesGot
  <2>j. CASE XhrOpen
    <3>0. \A b : b = (scenario.invalid > 0) => b \in BOOLEAN OBVIOUS
    <3>1. link' \in Links
      <4>1. PICK failed \in BOOLEAN :
                link' = [link EXCEPT !.stage = "opened", !.timer = TRUE,
                                     !.response = failed, !.end = failed]
        BY <2>j, <3>0 DEF XhrOpen
      <4>. QED BY <4>1 DEF Links
    <3>2. call' \in Calls BY <2>3, <2>j, OnEndsTyped DEF XhrOpen
    <3>. QED BY <2>j, <3>1, <3>2 DEF XhrOpen
  <2>k. CASE TooLate
    <3>1. link' \in Links BY <2>k DEF TooLate, Links
    <3>. QED BY <2>1, <2>k, <3>1, OnEndTyped DEF TooLate
  <2>l. CASE StateChange
    <3>1. PICK stage \in {"body", "over"}, failed \in BOOLEAN :
            LET changed == [link EXCEPT !.stage = stage]
                response == XhrResponse(call, changed, failed)
                all == IF stage = "over" THEN XhrEnd(response.c, response.l) ELSE response
            IN  IF link.timedOut
                THEN call' = call /\ link' = changed
                ELSE call' = all.c /\ link' = all.l
      BY <2>l DEF StateChange
    <3>. DEFINE changed == [link EXCEPT !.stage = stage]
                response == XhrResponse(call, changed, failed)
                all == IF stage = "over" THEN XhrEnd(response.c, response.l) ELSE response
    <3>2. changed \in Links BY DEF Links
    <3>. HIDE DEF changed
    <3>3. response.c \in Calls /\ response.l \in Links
      <4>. DEFINE answered == [changed EXCEPT !.response = TRUE, !.timer = FALSE]
      <4>1. answered \in Links BY <3>2 DEF Links
      <4>2. response = IF changed.response THEN [c |-> call, l |-> changed]
                ELSE IF failed THEN [c |-> OnEnd(call, "error"), l |-> [answered EXCEPT !.end = TRUE]]
                ELSE IF scenario.setCookie
                THEN [c |-> call, l |-> [answered EXCEPT !.storing = TRUE]]
                ELSE [c |-> OnStart(call), l |-> [answered EXCEPT !.onStart = TRUE]]
        BY DEF XhrResponse
      <4>. HIDE DEF answered, response
      <4>3. /\ [answered EXCEPT !.end = TRUE] \in Links
            /\ [answered EXCEPT !.storing = TRUE] \in Links
            /\ [answered EXCEPT !.onStart = TRUE] \in Links
        BY <4>1 DEF Links
      <4>4. OnEnd(call, "error") \in Calls /\ OnStart(call) \in Calls
        BY <2>1, OnEndTyped, OnStartTyped
      <4>. QED BY <3>2, <4>2, <4>3, <4>4
    <3>. HIDE DEF response
    <3>4. all.c \in Calls /\ all.l \in Links
      <4>1. XhrEnd(response.c, response.l).c \in Calls /\ XhrEnd(response.c, response.l).l \in Links
        <5>. DEFINE l == response.l
        <5>1. /\ [l EXCEPT !.end = TRUE] \in Links
              /\ [l EXCEPT !.end = TRUE, !.callback = TRUE] \in Links
          BY <3>3 DEF Links
        <5>2. OnComplete(response.c, "response") \in Calls
          BY <3>3, CompleteTyped
        <5>. QED BY <3>3, <5>1, <5>2 DEF XhrEnd
      <4>. QED BY <3>3, <4>1
    <3>5. call' \in Calls /\ link' \in Links
      <4>1. IF link.timedOut THEN call' = call /\ link' = changed
            ELSE call' = all.c /\ link' = all.l
        BY <3>1 DEF response, changed
      <4>. HIDE DEF all
      <4>. QED BY <3>2, <3>4, <4>1
    <3>. QED BY <2>l, <3>5 DEF StateChange
  <2>m. CASE CookiesStored
    <3>1. link' \in Links BY <2>m DEF CookiesStored, Links
    <3>. QED BY <2>m, <3>1, OnStartTyped, CompleteTyped DEF CookiesStored, Answer
  <2>n. CASE UNCHANGED vars BY <2>n DEF vars
  <2>. QED BY <2>a, <2>b, <2>c, <2>d, <2>e, <2>f, <2>g, <2>h, <2>i, <2>j, <2>k, <2>l, <2>m, <2>n
          DEF Next
<1>. QED BY <1>1, <1>2, PTL DEF Spec

(***************************************************************************)
(* The flow of a request: how far the requester is when the transport is    *)
(* where it is                                                              *)
(***************************************************************************)
Off(l) == ~l.timer /\ ~l.timedOut /\ ~l.response /\ ~l.storing /\ ~l.onStart /\ ~l.end /\ ~l.callback

NodeFlow(c, l) ==
    /\ l.stage \in {"none", "lookup", "sending", "body", "over"} /\ Off(l)
    /\ l.stage = "none" => c = IdleCall \/ Done(c)
    /\ l.stage \in {"lookup", "sending"} => c = NewCall
    /\ l.stage = "body" => Running(c)
    /\ l.stage = "over" => Over(c)

BrowserFlow(c, l) ==
    /\ l.stage \in {"none", "jar", "opened", "body", "over"}
    /\ l.stage \in {"none", "jar"} => Off(l)
    /\ l.stage = "none" => c = IdleCall \/ Done(c)
    /\ l.stage = "jar" => c = NewCall
    /\ l.timedOut => Done(c) /\ ~l.timer /\ ~l.storing
    /\ ~l.timedOut =>
        /\ l.stage = "opened" =>
                /\ c = NewCall
                /\ ~l.response /\ ~l.storing /\ ~l.onStart /\ ~l.end /\ ~l.callback
        /\ l.stage = "body" => l.response /\ ~l.timer /\ ~l.end /\ ~l.callback
        /\ l.stage = "over" => l.response /\ ~l.timer
        /\ l.stage \in {"body", "over"} /\ l.storing => ~l.onStart /\ c = NewCall
        /\ l.stage = "body" /\ ~l.storing => l.onStart /\ Running(c)
        /\ l.stage = "over" /\ l.storing => l.callback
        /\ l.stage = "over" /\ ~l.storing => Over(c)

(* The browser accepts the headers of the request. *)
Accepted == Node \/ scenario.invalid = 0

Flow == Accepted => IF Node THEN NodeFlow(call, link) ELSE BrowserFlow(call, link)

LEMMA FlowSame ==
    ASSUME scenario' = scenario
    PROVE  /\ Flow' <=> (Accepted => IF Node THEN NodeFlow(call', link')
                                                 ELSE BrowserFlow(call', link'))
BY DEF Flow, Accepted, Node, NodeFlow, BrowserFlow, Running, Over, Told, Asked, Done, Ordered

LEMMA NewIdle ==
    /\ NewCall.stage = "open" /\ ~NewCall.asking /\ IdleCall.stage = "idle" /\ ~IdleCall.asking
    /\ NewCall \in Calls /\ IdleCall \in Calls
BY NewIs, NewTyped

LEMMA IdleOff == IdleLink.stage = "none" /\ Off(IdleLink) /\ IdleLink \in Links
BY IdleLinkTyped DEF IdleLink, Off

LEMMA RefusedDone ==
    ASSUME NEW d, d = OnEnd(NewCall, "error")
    PROVE  d \in Calls /\ Done(d)
BY NewIdle, ErrorDone

LEMMA OpenStages ==
    ASSUME NEW c
    PROVE  /\ Done(c) => c.stage = "answered"
           /\ Running(c) => c.stage = "open"
           /\ Over(c) => c.stage \in {"answered", "open"}
BY DEF Done, Running, Over, Told, Asked

LEMMA NodeSteps ==
    ASSUME Typed, Node, NodeFlow(call, link), Next
    PROVE  NodeFlow(call', link')
<1>. USE DEF Typed
<1>0. "error" \in Answers BY DEF Answers
<1>a. CASE Refuse
  <2>1. Done(call') /\ link' = link /\ call.stage # "open"
    BY <1>a, RefusedDone DEF Refuse, MaySend
  <2>2. link.stage \in {"none", "over"} BY <2>1, NewIdle, OpenStages DEF NodeFlow
  <2>. QED BY <2>1, <2>2 DEF NodeFlow, Over
<1>b. CASE Send
  <2>1. call' = NewCall /\ link' = [IdleLink EXCEPT !.stage = "lookup"]
    BY <1>b DEF Send
  <2>2. link'.stage = "lookup" /\ Off(link') BY <2>1, IdleOff DEF Off, Links
  <2>. QED BY <2>1, <2>2 DEF NodeFlow
<1>c. CASE Lookup
  <2>1. link.stage = "lookup" /\ call = NewCall /\ Off(link) BY <1>c DEF Lookup, NodeFlow
  <2>2. \/ link'.stage = "sending" /\ Off(link') /\ call' = call
        \/ link'.stage = "over" /\ Off(link') /\ call' = OnEnd(call, "error")
    BY <1>c, <2>1 DEF Lookup, Off, Links
  <2>3. call' = OnEnd(call, "error") => Done(call') BY <2>1, ErrorDone
  <2>. QED BY <2>1, <2>2, <2>3 DEF NodeFlow, Over
<1>d. CASE Respond
  <2>1. call = NewCall /\ Off(link) /\ call' = OnStart(NewCall)
    BY <1>d DEF Respond, NodeFlow
  <2>2. link'.stage = "body" /\ Off(link') BY <1>d, <2>1 DEF Respond, Off, Links
  <2>3. Running(call') BY <2>1, StartRuns
  <2>. QED BY <2>2, <2>3 DEF NodeFlow
<1>e. CASE Chunk
  <2>1. link.stage = "body" /\ link' = link /\ Running(call) BY <1>e DEF Chunk, NodeFlow
  <2>2. PICK n \in 1 .. Len(rest) : call' = OnChunk(call, SubSeq(rest, 1, n)) BY <1>e DEF Chunk
  <2>3. SubSeq(rest, 1, n) \in Seq(Bytes) BY ChunkOfRest
  <2>4. Running(call') BY <2>1, <2>2, <2>3, ChunkRuns
  <2>. QED BY <2>1, <2>4 DEF NodeFlow
<1>f. CASE BodyEnds
  <2>1. Running(call) /\ Off(link) /\ call' = OnComplete(call, "response")
    BY <1>f DEF BodyEnds, NodeFlow
  <2>2. link'.stage = "over" /\ Off(link') BY <1>f, <2>1 DEF BodyEnds, Off, Links
  <2>3. Over(call') BY <2>1, ResponseOver
  <2>. QED BY <2>2, <2>3 DEF NodeFlow
<1>g. CASE NetworkFails
  <2>1. (call = NewCall \/ Running(call)) /\ Off(link)
    BY <1>g DEF NetworkFails, NodeFlow
  <2>2. link'.stage = "over" /\ Off(link') BY <1>g, <2>1 DEF NetworkFails, Off, Links
  <2>3. \/ call' = OnEnd(call, "error")
        \/ Running(call) /\ call' = OnComplete(call, "response")
    BY <1>g DEF NetworkFails, NodeFlow
  <2>4. Over(call') BY <2>1, <2>3, ErrorDone, ResponseOver DEF Over
  <2>. QED BY <2>2, <2>4 DEF NodeFlow
<1>h. CASE Abort
  <2>1. link'.stage = link.stage /\ Off(link') /\ call' = call
    BY <1>h DEF Abort, Off, Links, NodeFlow
  <2>. QED BY <2>1 DEF NodeFlow
<1>i. CASE CookiesGot
  <2>1. call.asking /\ call' = StartTold(call) /\ link' = link BY <1>i DEF CookiesGot
  <2>2. /\ Running(call) => Running(call')
        /\ Over(call) => Over(call')
        /\ Done(call) => Done(call')
    BY <2>1, CookiesTold
  <2>3. call # NewCall /\ call # IdleCall BY <2>1, NewIdle
  <2>. QED BY <2>1, <2>2, <2>3 DEF NodeFlow
<1>j. CASE XhrOpen BY <1>j DEF XhrOpen, NodeFlow
<1>k. CASE TooLate BY <1>k DEF TooLate, NodeFlow, Off
<1>l. CASE StateChange BY <1>l DEF StateChange
<1>m. CASE CookiesStored BY <1>m DEF CookiesStored, NodeFlow, Off
<1>. QED BY <1>a, <1>b, <1>c, <1>d, <1>e, <1>f, <1>g, <1>h, <1>i, <1>j, <1>k, <1>l, <1>m DEF Next

LEMMA ChangeFlows ==
    ASSUME Typed, ~Node, BrowserFlow(call, link), StateChange
    PROVE  BrowserFlow(call', link')
<1>. USE DEF Typed
<1>1. PICK stage \in {"body", "over"}, failed \in BOOLEAN :
        LET changed == [link EXCEPT !.stage = stage]
            response == XhrResponse(call, changed, failed)
            all == IF stage = "over" THEN XhrEnd(response.c, response.l) ELSE response
        IN  /\ link.stage = "body" => stage = "over"
            /\ failed => stage = "over" /\ link.stage = "opened"
            /\ IF link.timedOut
               THEN call' = call /\ link' = changed
               ELSE call' = all.c /\ link' = all.l
  BY DEF StateChange
<1>. DEFINE changed == [link EXCEPT !.stage = stage]
            response == XhrResponse(call, changed, failed)
            all == IF stage = "over" THEN XhrEnd(response.c, response.l) ELSE response
<1>2. link.stage \in {"opened", "body"} BY DEF StateChange
<1>3. link.stage = "body" => stage = "over" BY <1>1
<1>4. failed => stage = "over" /\ link.stage = "opened" BY <1>1
<1>5. IF link.timedOut THEN call' = call /\ link' = changed
      ELSE call' = all.c /\ link' = all.l
  BY <1>1
<1>6. /\ changed \in Links /\ changed.stage = stage /\ changed.timedOut = link.timedOut
      /\ changed.timer = link.timer /\ changed.storing = link.storing
      /\ changed.response = link.response /\ changed.onStart = link.onStart
      /\ changed.end = link.end /\ changed.callback = link.callback
  BY DEF Links
<1>. HIDE DEF changed
<1>7. CASE link.timedOut
  BY <1>2, <1>5, <1>6, <1>7 DEF BrowserFlow
<1>8. CASE ~link.timedOut /\ link.stage = "opened"
  <2>1. /\ call = NewCall
        /\ ~link.response /\ ~link.storing /\ ~link.onStart /\ ~link.end /\ ~link.callback
    BY <1>8 DEF BrowserFlow
  <2>. DEFINE answered == [changed EXCEPT !.response = TRUE, !.timer = FALSE]
  <2>2. /\ answered \in Links /\ answered.stage = stage /\ ~answered.timedOut
        /\ ~answered.timer /\ ~answered.storing /\ answered.response /\ ~answered.onStart
        /\ ~answered.end /\ ~answered.callback
    BY <1>6, <1>8, <2>1 DEF Links
  <2>3. response = IF failed THEN [c |-> OnEnd(call, "error"), l |-> [answered EXCEPT !.end = TRUE]]
                   ELSE IF scenario.setCookie
                   THEN [c |-> call, l |-> [answered EXCEPT !.storing = TRUE]]
                   ELSE [c |-> OnStart(call), l |-> [answered EXCEPT !.onStart = TRUE]]
    BY <1>6, <2>1 DEF XhrResponse
  <2>. HIDE DEF answered, response
  <2>4. CASE failed
    <3>. DEFINE l == [answered EXCEPT !.end = TRUE]
    <3>1. response.c = OnEnd(call, "error") /\ response.l = l
      BY <2>3, <2>4
    <3>2. /\ l.stage = stage /\ ~l.timedOut /\ ~l.timer /\ ~l.storing /\ l.response /\ l.end
      BY <2>2 DEF Links
    <3>. HIDE DEF l
    <3>3. call' = OnEnd(call, "error") /\ link' = l
      BY <1>4, <1>5, <1>8, <2>4, <3>1, <3>2 DEF XhrEnd
    <3>4. Done(call') BY <2>1, <3>3, ErrorDone
    <3>. QED BY <1>4, <2>4, <3>2, <3>3, <3>4 DEF BrowserFlow, Over
  <2>5. CASE ~failed /\ scenario.setCookie
    <3>. DEFINE l == [answered EXCEPT !.storing = TRUE]
                e == [l EXCEPT !.end = TRUE, !.callback = TRUE]
    <3>1. response.c = call /\ response.l = l
      BY <2>3, <2>5
    <3>2. /\ l \in Links /\ l.stage = stage /\ ~l.timedOut /\ ~l.timer /\ l.storing /\ l.response
          /\ ~l.onStart /\ ~l.end /\ ~l.callback
      BY <2>2 DEF Links
    <3>. HIDE DEF l
    <3>3. /\ e.stage = stage /\ ~e.timedOut /\ ~e.timer /\ e.storing /\ e.response
          /\ ~e.onStart /\ e.callback
      BY <3>2 DEF Links
    <3>4. call' = call /\ link' = IF stage = "over" THEN e ELSE l
      BY <1>5, <1>8, <3>1, <3>2 DEF XhrEnd
    <3>. HIDE DEF e
    <3>. QED BY <2>1, <3>2, <3>3, <3>4 DEF BrowserFlow
  <2>6. CASE ~failed /\ ~scenario.setCookie
    <3>. DEFINE l == [answered EXCEPT !.onStart = TRUE]
                e == [l EXCEPT !.end = TRUE]
                c == OnStart(call)
    <3>1. response.c = c /\ response.l = l
      BY <2>3, <2>6
    <3>2. /\ l \in Links /\ l.stage = stage /\ ~l.timedOut /\ ~l.timer /\ ~l.storing /\ l.response
          /\ l.onStart /\ ~l.end /\ ~l.callback
      BY <2>2 DEF Links
    <3>. HIDE DEF l
    <3>3. /\ e.stage = stage /\ ~e.timedOut /\ ~e.timer /\ ~e.storing /\ e.response
      BY <3>2 DEF Links
    <3>4. c \in Calls /\ Running(c) BY <2>1, StartRuns
    <3>. HIDE DEF c
    <3>5. /\ link' = IF stage = "over" THEN e ELSE l
          /\ call' = IF stage = "over" THEN OnComplete(c, "response") ELSE c
      BY <1>5, <1>8, <3>1, <3>2 DEF XhrEnd
    <3>6. OnComplete(c, "response") \in Calls /\ Over(OnComplete(c, "response"))
      BY <3>4, ResponseOver
    <3>. HIDE DEF e
    <3>. QED BY <3>2, <3>3, <3>4, <3>5, <3>6 DEF BrowserFlow
  <2>. QED BY <2>4, <2>5, <2>6
<1>9. CASE ~link.timedOut /\ link.stage = "body"
  <2>1. /\ link.response /\ ~link.timer /\ ~link.end /\ ~link.callback
        /\ link.storing => ~link.onStart /\ call = NewCall
        /\ ~link.storing => link.onStart /\ Running(call)
    BY <1>9 DEF BrowserFlow
  <2>2. response = [c |-> call, l |-> changed] BY <1>6, <2>1 DEF XhrResponse
  <2>3. response.c = call /\ response.l = changed BY <2>2
  <2>. HIDE DEF response
  <2>4. all = IF link.onStart
              THEN [c |-> OnComplete(call, "response"), l |-> [changed EXCEPT !.end = TRUE]]
              ELSE [c |-> call, l |-> [changed EXCEPT !.end = TRUE, !.callback = TRUE]]
    BY <1>3, <1>6, <1>9, <2>1, <2>3 DEF XhrEnd
  <2>. HIDE DEF all
  <2>5. CASE link.storing
    <3>1. call' = call /\ link' = [changed EXCEPT !.end = TRUE, !.callback = TRUE]
      BY <1>5, <1>9, <2>1, <2>4, <2>5
    <3>2. /\ link'.stage = "over" /\ ~link'.timedOut /\ ~link'.timer /\ link'.storing
          /\ link'.response /\ ~link'.onStart /\ link'.callback
      BY <1>3, <1>6, <1>9, <2>1, <2>5, <3>1 DEF Links
    <3>. QED BY <2>1, <2>5, <3>1, <3>2 DEF BrowserFlow
  <2>6. CASE ~link.storing
    <3>1. call' = OnComplete(call, "response") /\ link' = [changed EXCEPT !.end = TRUE]
      BY <1>5, <1>9, <2>1, <2>4, <2>6
    <3>2. /\ link'.stage = "over" /\ ~link'.timedOut /\ ~link'.timer /\ ~link'.storing
          /\ link'.response
      BY <1>3, <1>6, <1>9, <2>1, <2>6, <3>1 DEF Links
    <3>3. Over(call') BY <2>1, <2>6, <3>1, ResponseOver
    <3>. QED BY <3>2, <3>3 DEF BrowserFlow
  <2>. QED BY <2>5, <2>6
<1>. QED BY <1>2, <1>7, <1>8, <1>9

LEMMA BrowserSteps ==
    ASSUME Typed, ~Node, BrowserFlow(call, link), Next, scenario.invalid = 0
    PROVE  BrowserFlow(call', link')
<1>. USE DEF Typed
<1>a. CASE Refuse
  <2>1. Done(call') /\ link' = link /\ call.stage # "open"
    BY <1>a, RefusedDone DEF Refuse, MaySend
  <2>2. call # NewCall /\ ~Running(call) BY <2>1, NewIdle, OpenStages
  <2>3. CASE link.timedOut BY <2>1, <2>2, <2>3 DEF BrowserFlow
  <2>4. CASE ~link.timedOut BY <2>1, <2>2, <2>4 DEF BrowserFlow, Over
  <2>. QED BY <2>3, <2>4
<1>b. CASE Send
  <2>1. call' = NewCall /\ link' = [IdleLink EXCEPT !.stage = "jar"]
    BY <1>b DEF Send
  <2>2. link'.stage = "jar" /\ Off(link') BY <2>1, IdleOff DEF Off, Links
  <2>. QED BY <2>1, <2>2 DEF BrowserFlow, Off
<1>c. CASE Lookup BY <1>c DEF Lookup, BrowserFlow
<1>d. CASE Respond BY <1>d DEF Respond, BrowserFlow
<1>e. CASE Chunk BY <1>e DEF Chunk
<1>f. CASE BodyEnds BY <1>f DEF BodyEnds
<1>g. CASE NetworkFails BY <1>g DEF NetworkFails
<1>h. CASE Abort BY <1>h DEF Abort
<1>i. CASE CookiesGot
  <2>1. call.asking /\ call' = StartTold(call) /\ link' = link BY <1>i DEF CookiesGot
  <2>2. /\ Running(call) => Running(call')
        /\ Over(call) => Over(call')
        /\ Done(call) => Done(call')
    BY <2>1, CookiesTold
  <2>3. call # NewCall /\ call # IdleCall BY <2>1, NewIdle
  <2>. QED BY <2>1, <2>2, <2>3 DEF BrowserFlow
<1>j. CASE XhrOpen
  <2>1. call = NewCall /\ Off(link) BY <1>j DEF XhrOpen, BrowserFlow
  <2>2. /\ call' = call
        /\ \E failed : /\ ~failed
                       /\ link' = [link EXCEPT !.stage = "opened", !.timer = TRUE,
                                               !.response = failed, !.end = failed]
    <3>. DEFINE failed == scenario.invalid > 0
    <3>1. ~failed OBVIOUS
    <3>2. /\ call' = IF failed THEN OnEnds(call, [i \in 1 .. scenario.invalid |-> "error"])
                     ELSE call
          /\ link' = [link EXCEPT !.stage = "opened", !.timer = TRUE,
                                  !.response = failed, !.end = failed]
      BY <1>j DEF XhrOpen
    <3>. HIDE DEF failed
    <3>. QED BY <3>1, <3>2
  <2>3. /\ link'.stage = "opened" /\ ~link'.timedOut /\ ~link'.response /\ ~link'.storing
        /\ ~link'.onStart /\ ~link'.end /\ ~link'.callback
    BY <2>1, <2>2 DEF Off, Links
  <2>. QED BY <2>1, <2>2, <2>3 DEF BrowserFlow
<1>k. CASE TooLate
  <2>0. link.timer BY <1>k DEF TooLate
  <2>1. ~link.timedOut /\ link.stage = "opened" /\ call = NewCall /\ ~link.storing
    BY <2>0 DEF Off, BrowserFlow
  <2>2. link'.stage = "opened" /\ link'.timedOut /\ ~link'.timer /\ ~link'.storing
    BY <1>k, <2>1 DEF TooLate, Links
  <2>3. Done(call') BY <1>k, <2>1, ErrorDone DEF TooLate
  <2>. QED BY <2>2, <2>3 DEF BrowserFlow
<1>l. CASE StateChange BY <1>l, ChangeFlows
<1>m. CASE CookiesStored
  <2>1. link.storing /\ call' = Answer(OnStart(call), link)
    BY <1>m DEF CookiesStored
  <2>2. ~link.timedOut /\ link.stage \in {"body", "over"} /\ call = NewCall
        /\ (link.stage = "body" => link.response /\ ~link.timer /\ ~link.end /\ ~link.callback)
        /\ (link.stage = "over" => link.response /\ ~link.timer /\ link.callback)
    BY <2>1 DEF Off, BrowserFlow
  <2>3. /\ link'.stage = link.stage /\ ~link'.storing /\ link'.onStart /\ ~link'.timedOut
        /\ link'.response = link.response /\ link'.timer = link.timer /\ link'.end = link.end
        /\ link'.callback = link.callback
    BY <1>m, <2>2 DEF CookiesStored, Links
  <2>. DEFINE c == OnStart(call)
  <2>4. c \in Calls /\ Running(c) BY <2>2, StartRuns
  <2>5. call' = IF link.callback THEN OnComplete(c, "response") ELSE c
    BY <2>1 DEF Answer
  <2>. HIDE DEF c
  <2>6. OnComplete(c, "response") \in Calls /\ Over(OnComplete(c, "response"))
    BY <2>4, ResponseOver
  <2>7. (link.stage = "body" => Running(call')) /\ (link.stage = "over" => Over(call'))
    BY <2>2, <2>4, <2>5, <2>6
  <2>. QED BY <2>2, <2>3, <2>7 DEF BrowserFlow
<1>. QED BY <1>a, <1>b, <1>c, <1>d, <1>e, <1>f, <1>g, <1>h, <1>i, <1>j, <1>k, <1>l, <1>m DEF Next

(* The requester is where the transport says (Node: started with the        *)
(* response, over with its body; the browser: as its timer, its two states  *)
(* and the cookies that are being stored allow), as long as no header is    *)
(* refused by the browser.                                                  *)
THEOREM FlowInv == Spec => []Flow
<1>1. Init => Flow
  <2>. SUFFICES ASSUME Init PROVE Flow OBVIOUS
  <2>1. call = IdleCall /\ link = IdleLink BY DEF Init
  <2>2. link.stage = "none" /\ Off(link) BY <2>1, IdleOff
  <2>. QED BY <2>1, <2>2 DEF Flow, NodeFlow, BrowserFlow, Off
<1>2. Typed /\ Flow /\ [Next]_vars => Flow'
  <2>. SUFFICES ASSUME Typed, Flow, [Next]_vars PROVE Flow' BY Zenon
  <2>1. scenario' = scenario
    BY DEF Next, vars, Refuse, Send, Lookup, Respond, Chunk, BodyEnds, NetworkFails, Abort,
           CookiesGot, XhrOpen, TooLate, StateChange, CookiesStored
  <2>2. CASE Next
    <3>1. Accepted => IF Node THEN NodeFlow(call', link') ELSE BrowserFlow(call', link')
      BY <2>2, NodeSteps, BrowserSteps DEF Flow, Accepted
    <3>. QED BY <2>1, <3>1, FlowSame
  <2>3. CASE UNCHANGED vars
    <3>1. call' = call /\ link' = link BY <2>3 DEF vars
    <3>2. Accepted => IF Node THEN NodeFlow(call', link') ELSE BrowserFlow(call', link')
      BY <3>1 DEF Flow
    <3>. QED BY <2>1, <3>2, FlowSame
  <2>. QED BY <2>2, <2>3
<1>. QED BY <1>1, <1>2, TypedInv, PTL DEF Spec

LEMMA FlowOrdered ==
    ASSUME Typed, Flow, Accepted
    PROVE  Ordered(call.heard)
<1>1. \/ call \in {IdleCall, NewCall} \/ Done(call) \/ Told(call) \/ Asked(call)
  BY DEF Flow, NodeFlow, BrowserFlow, Running, Over, Typed, Links
<1>2. CASE call \in {IdleCall, NewCall}
  <2>1. call.heard = << >> BY <1>2, NewIs
  <2>. QED BY <2>1 DEF Ordered
<1>3. CASE Done(call) BY <1>3 DEF Done
<1>4. CASE Told(call) BY <1>4 DEF Told
<1>5. CASE Asked(call) BY <1>5, AskedOrdered
<1>. QED BY <1>1, <1>2, <1>3, <1>4, <1>5

(* The caller of the requester hears the start once and before the end, its *)
(* events after the start, and nothing after the answer, in whatever order  *)
(* the cookies, the chunks, the end, the timeout and the failures come      *)
(* (onStart, onComplete, onEnd).                                            *)
THEOREM HeardInv == Spec => [](Accepted => HeardInOrder)
<1>1. Typed /\ Flow => (Accepted => HeardInOrder)
  <2>. SUFFICES ASSUME Typed, Flow, Accepted PROVE HeardInOrder OBVIOUS
  <2>. DEFINE heard == call.heard
              At(event) == {i \in DOMAIN heard : heard[i] = event}
  <2>1. Ordered(heard) BY FlowOrdered
  <2>2. \A i \in At("response") : \E j \in At("start") : j < i
    BY <2>1 DEF Ordered, StartBefore
  <2>3. \A i \in DOMAIN heard : heard[i] \in Answers => i = Len(heard)
    BY <2>1 DEF Ordered
  <2>4. ~scenario.getCookies => \A i \in At("data") : \E j \in At("start") : j < i
    BY <2>1 DEF Ordered, StartBefore
  <2>5. Cardinality(At("start")) <= 1
    <3>1. CASE At("start") = {}
      BY <3>1, FS_EmptySet
    <3>2. CASE At("start") # {}
      <4>1. PICK i : i \in At("start") BY <3>2
      <4>2. \A j \in At("start") : j = i BY <2>1, <4>1 DEF Ordered
      <4>3. At("start") = {i} BY <4>1, <4>2
      <4>4. Cardinality({i}) = 1 BY FS_Singleton
      <4>. QED BY <4>3, <4>4
    <3>. QED BY <3>1, <3>2
  <2>. QED BY <2>2, <2>3, <2>4, <2>5 DEF HeardInOrder
<1>. QED BY <1>1, TypedInv, FlowInv, PTL

(* The caller is called back at most once (onEnd), unless the browser       *)
(* refuses a header of the request: the run that expects a violation shows  *)
(* what happens then.                                                       *)
THEOREM AnsweredInv == Spec => [](Accepted => AnsweredOnce)
<1>1. Typed /\ Flow => (Accepted => AnsweredOnce)
  <2>. SUFFICES ASSUME Typed, Flow, Accepted PROVE AnsweredOnce OBVIOUS
  <2>. DEFINE at == {i \in DOMAIN call.heard : call.heard[i] \in Answers}
  <2>1. \A i \in at : i = Len(call.heard) BY FlowOrdered DEF Ordered
  <2>2. at = {} \/ at = {Len(call.heard)} BY <2>1
  <2>3. Cardinality({}) = 0 /\ Cardinality({Len(call.heard)}) = 1
    BY FS_EmptySet, FS_Singleton
  <2>4. Cardinality(at) <= 1
    <3>. HIDE DEF at
    <3>1. Cardinality(at) = 0 \/ Cardinality(at) = 1 BY <2>2, <2>3
    <3>. QED BY <3>1
  <2>. QED BY <2>4 DEF AnsweredOnce
<1>. QED BY <1>1, TypedInv, FlowInv, PTL

(***************************************************************************)
(* Server-sent events: the stream without its mark, and what of it has been *)
(* received                                                                 *)
(***************************************************************************)
(* A stream as servers send them. *)
PlainStream(s) ==
    /\ \A i \in 2 .. Len(s) : s[i] # "bom"
    /\ PlainBreaks(WithoutMark(s))

Marked(s) == s # << >> /\ s[1] = "bom"

(* How much of the stream without its mark the first r bytes of it are. *)
Unmarked(s, r) == IF Marked(s) /\ r > 0 THEN r - 1 ELSE r

LEMMA SubSeqIs ==
    ASSUME NEW s \in Seq(Bytes), NEW m \in Nat, NEW n \in Nat, 1 <= m, m <= n + 1, n <= Len(s)
    PROVE  LET b == SubSeq(s, m, n)
           IN  /\ b \in Seq(Bytes) /\ Len(b) = n - m + 1
               /\ \A i \in 1 .. n - m + 1 : b[i] = s[m + i - 1]
<1>1. Len(s) \in Nat BY LenProperties
<1>2. \A i \in m .. n : i \in 1 .. Len(s) BY <1>1
<1>3. \A i \in m .. n : s[i] \in Bytes BY <1>2, ElementOfSeq
<1>4. m \in Int /\ n \in Int /\ (IF m <= n THEN n - m + 1 ELSE 0) = n - m + 1 OBVIOUS
<1>. DEFINE b == SubSeq(s, m, n)
<1>5. /\ b \in Seq(Bytes) /\ Len(b) = IF m <= n THEN n - m + 1 ELSE 0
      /\ \A i \in 1 .. n - m + 1 : b[i] = s[m + i - 1]
  BY <1>3, <1>4, SubSeqProperties
<1>. HIDE DEF b
<1>6. Len(b) = n - m + 1 BY <1>4, <1>5
<1>. QED BY <1>5, <1>6 DEF b

LEMMA UnmarkedIs ==
    ASSUME NEW s \in Seq(Bytes)
    PROVE  LET W == WithoutMark(s)
           IN  /\ W \in Seq(Bytes) /\ Len(W) \in Nat /\ Len(s) \in Nat
               /\ Len(W) = IF Marked(s) THEN Len(s) - 1 ELSE Len(s)
               /\ \A i \in 1 .. Len(W) : W[i] = IF Marked(s) THEN s[i + 1] ELSE s[i]
               /\ Marked(s) => Len(s) >= 1
<1>. DEFINE W == WithoutMark(s)
<1>1. Len(s) \in Nat /\ (s # << >> => Len(s) >= 1) BY LenProperties, EmptySeq
<1>2. CASE Marked(s)
  <2>1. W = SubSeq(s, 2, Len(s)) BY <1>2 DEF WithoutMark, Marked
  <2>2. Len(s) >= 1 BY <1>1, <1>2 DEF Marked
  <2>3. W \in Seq(Bytes) /\ Len(W) = Len(s) - 2 + 1 /\ \A i \in 1 .. Len(s) - 2 + 1 : W[i] = s[2 + i - 1]
    <3>1. 2 \in Nat /\ 1 <= 2 /\ 2 <= Len(s) + 1 /\ Len(s) <= Len(s) BY <1>1, <2>2
    <3>. DEFINE b == SubSeq(s, 2, Len(s))
    <3>2. /\ b \in Seq(Bytes) /\ Len(b) = Len(s) - 2 + 1
          /\ \A i \in 1 .. Len(s) - 2 + 1 : b[i] = s[2 + i - 1]
      BY <1>1, <3>1, SubSeqIs
    <3>. QED BY <2>1, <3>2
  <2>. HIDE DEF W
  <2>4. Len(s) - 2 + 1 = Len(s) - 1 BY <1>1
  <2>5. \A i \in 1 .. Len(W) : W[i] = s[i + 1]
    <3>1. \A i \in 1 .. Len(W) : 2 + i - 1 = i + 1 BY <1>1, <2>3, <2>4
    <3>. QED BY <2>3, <3>1
  <2>. QED BY <1>1, <1>2, <2>2, <2>3, <2>4, <2>5 DEF W
<1>3. CASE ~Marked(s)
  <2>1. W = s BY <1>3 DEF WithoutMark, Marked
  <2>. QED BY <1>1, <1>3, <2>1
<1>. QED BY <1>2, <1>3

(* What has been received is read without the mark as well. *)
LEMMA UnmarkedPrefix ==
    ASSUME NEW s \in Seq(Bytes), NEW r \in 0 .. Len(s)
    PROVE  LET W == WithoutMark(s)
               k == Unmarked(s, r)
           IN  k \in 0 .. Len(W) /\ WithoutMark(SubSeq(s, 1, r)) = SubSeq(W, 1, k)
<1>. DEFINE W == WithoutMark(s)
            k == Unmarked(s, r)
            a == SubSeq(s, 1, r)
<1>1. /\ W \in Seq(Bytes) /\ Len(W) \in Nat /\ Len(s) \in Nat
      /\ Len(W) = IF Marked(s) THEN Len(s) - 1 ELSE Len(s)
      /\ \A i \in 1 .. Len(W) : W[i] = IF Marked(s) THEN s[i + 1] ELSE s[i]
      /\ Marked(s) => Len(s) >= 1
  BY UnmarkedIs
<1>. HIDE DEF W
<1>2. r \in Nat /\ r <= Len(s) BY <1>1
<1>3. a \in Seq(Bytes) /\ Len(a) = r /\ \A i \in 1 .. r : a[i] = s[i]
  <2>1. \A i \in 1 .. r : s[i] \in Bytes BY <1>1, <1>2, ElementOfSeq
  <2>2. a \in Seq(Bytes) /\ Len(a) = r /\ \A i \in 1 .. r : a[i] = s[1 + i - 1]
    BY <1>2, <2>1, SubSeqProperties
  <2>3. \A i \in Int : 1 + i - 1 = i OBVIOUS
  <2>. HIDE DEF a
  <2>. QED BY <1>2, <2>2, <2>3
<1>. HIDE DEF a
<1>4. k \in 0 .. Len(W) BY <1>1, <1>2 DEF Unmarked
<1>5. /\ WithoutMark(a) \in Seq(Bytes) /\ Len(a) \in Nat
      /\ Len(WithoutMark(a)) = IF Marked(a) THEN Len(a) - 1 ELSE Len(a)
      /\ \A i \in 1 .. Len(WithoutMark(a)) : WithoutMark(a)[i] = IF Marked(a) THEN a[i + 1] ELSE a[i]
  BY <1>3, UnmarkedIs
<1>6. Marked(a) <=> Marked(s) /\ r > 0
  <2>1. a # << >> <=> r > 0 BY <1>2, <1>3, EmptySeq
  <2>2. s # << >> <=> Len(s) > 0 BY <1>1, EmptySeq
  <2>3. r > 0 => a[1] = s[1] BY <1>2, <1>3
  <2>. QED BY <1>1, <1>2, <2>1, <2>2, <2>3 DEF Marked
<1>7. Len(WithoutMark(a)) = k BY <1>2, <1>3, <1>5, <1>6 DEF Unmarked
<1>. DEFINE b == SubSeq(W, 1, k)
<1>8. b \in Seq(Bytes) /\ Len(b) = k /\ \A i \in 1 .. k : b[i] = W[i]
  <2>1. k \in Nat /\ k <= Len(W) /\ \A i \in 1 .. k : W[i] \in Bytes BY <1>1, <1>4, ElementOfSeq
  <2>. HIDE DEF k
  <2>2. b \in Seq(Bytes) /\ Len(b) = k /\ \A i \in 1 .. k : b[i] = W[1 + i - 1]
    BY <2>1, SubSeqProperties
  <2>3. \A i \in Int : 1 + i - 1 = i OBVIOUS
  <2>. HIDE DEF b
  <2>. QED BY <2>1, <2>2, <2>3
<1>. HIDE DEF b
<1>9. \A i \in 1 .. k : WithoutMark(a)[i] = b[i]
  <2>. SUFFICES ASSUME NEW i \in 1 .. k PROVE WithoutMark(a)[i] = b[i] OBVIOUS
  <2>1. k \in Nat /\ i \in Nat /\ i <= k /\ 1 <= i BY <1>4
  <2>2. b[i] = IF Marked(s) THEN s[i + 1] ELSE s[i] BY <1>1, <1>4, <1>8, <2>1
  <2>3. WithoutMark(a)[i] = IF Marked(a) THEN a[i + 1] ELSE a[i] BY <1>5, <1>7
  <2>4. r > 0 BY <1>2, <2>1 DEF Unmarked
  <2>5. (Marked(s) => i + 1 \in 1 .. r) /\ (~Marked(s) => i \in 1 .. r)
    BY <1>2, <2>1, <2>4 DEF Unmarked
  <2>. QED BY <1>3, <1>6, <2>2, <2>3, <2>4, <2>5
<1>10. WithoutMark(a) = b
  <2>. HIDE DEF k
  <2>. QED BY <1>5, <1>7, <1>8, <1>9, SeqEqual
<1>. QED BY <1>4, <1>10 DEF W, a, b

LEMMA SubSeqAt ==
    \A s \in Seq(Bytes) : \A o, m \in Nat : o <= m /\ m <= Len(s) =>
        /\ SubSeq(s, o + 1, m) \in Seq(Bytes)
        /\ Len(SubSeq(s, o + 1, m)) = m - o
        /\ \A i \in 1 .. m - o : SubSeq(s, o + 1, m)[i] = s[o + i]
<1>. SUFFICES ASSUME NEW s \in Seq(Bytes), NEW o \in Nat, NEW m \in Nat, o <= m, m <= Len(s)
     PROVE  /\ SubSeq(s, o + 1, m) \in Seq(Bytes)
            /\ Len(SubSeq(s, o + 1, m)) = m - o
            /\ \A i \in 1 .. m - o : SubSeq(s, o + 1, m)[i] = s[o + i]
  OBVIOUS
<1>. DEFINE b == SubSeq(s, o + 1, m)
<1>1. o + 1 \in Nat /\ 1 <= o + 1 /\ o + 1 <= m + 1 /\ m - (o + 1) + 1 = m - o OBVIOUS
<1>2. \A i \in 1 .. m - o : o + 1 + i - 1 = o + i OBVIOUS
<1>3. /\ b \in Seq(Bytes) /\ Len(b) = m - (o + 1) + 1
      /\ \A i \in 1 .. m - (o + 1) + 1 : b[i] = s[o + 1 + i - 1]
  BY <1>1, SubSeqIs
<1>. HIDE DEF b
<1>4. b \in Seq(Bytes) /\ Len(b) = m - o /\ \A i \in 1 .. m - o : b[i] = s[o + i]
  BY <1>1, <1>2, <1>3
<1>. QED BY <1>4 DEF b

LEMMA NotEmpty == \A s \in Seq(Bytes) : Len(s) \in Nat /\ (s # << >> <=> Len(s) > 0)
BY EmptySeq, LenProperties

LEMMA BothIs ==
    \A a, b \in Seq(Bytes) :
        /\ a \o b \in Seq(Bytes) /\ Len(a \o b) = Len(a) + Len(b)
        /\ \A i \in 1 .. Len(a) + Len(b) :
              (a \o b)[i] = IF i <= Len(a) THEN a[i] ELSE b[i - Len(a)]
BY ConcatProperties

LEMMA TwoParts ==
    ASSUME NEW W \in Seq(Bytes), NEW o \in Nat, NEW k \in Nat, NEW l \in Nat,
           o <= k, k <= l, l <= Len(W)
    PROVE  SubSeq(W, o + 1, l) = SubSeq(W, o + 1, k) \o SubSeq(W, k + 1, l)
<1>. DEFINE all == SubSeq(W, o + 1, l)
            a == SubSeq(W, o + 1, k)
            b == SubSeq(W, k + 1, l)
<1>0. Len(W) \in Nat /\ k <= Len(W) /\ o <= l BY LenProperties
<1>1. all \in Seq(Bytes) /\ Len(all) = l - o /\ \A i \in 1 .. l - o : all[i] = W[o + i]
  BY <1>0, SubSeqAt
<1>2. a \in Seq(Bytes) /\ Len(a) = k - o /\ \A i \in 1 .. k - o : a[i] = W[o + i]
  BY <1>0, SubSeqAt
<1>3. b \in Seq(Bytes) /\ Len(b) = l - k /\ \A i \in 1 .. l - k : b[i] = W[k + i]
  BY <1>0, SubSeqAt
<1>. HIDE DEF all, a, b
<1>. DEFINE both == a \o b
<1>4. /\ both \in Seq(Bytes) /\ Len(both) = Len(a) + Len(b)
      /\ \A i \in 1 .. Len(a) + Len(b) : both[i] = IF i <= Len(a) THEN a[i] ELSE b[i - Len(a)]
  BY <1>2, <1>3, BothIs
<1>. HIDE DEF both
<1>5. Len(a) + Len(b) = l - o BY <1>2, <1>3
<1>6. ASSUME NEW i \in 1 .. l - o PROVE all[i] = both[i]
  <2>1. i \in Nat /\ 1 <= i /\ i <= l - o OBVIOUS
  <2>2. CASE i <= k - o
    <3>1. i \in 1 .. k - o /\ i <= Len(a) /\ i \in 1 .. Len(a) + Len(b)
      BY <1>2, <1>5, <2>1, <2>2
    <3>2. both[i] = a[i] BY <1>4, <3>1
    <3>. QED BY <1>1, <1>2, <3>1, <3>2
  <2>3. CASE ~(i <= k - o)
    <3>1. i - (k - o) \in 1 .. l - k /\ k + (i - (k - o)) = o + i BY <2>1, <2>3
    <3>. QED BY <1>1, <1>2, <1>3, <1>4, <1>5, <2>1, <2>3, <3>1
  <2>. QED BY <2>2, <2>3
<1>7. all = both BY <1>1, <1>4, <1>5, <1>6, SeqEqual
<1>. QED BY <1>7 DEF all, a, b, both

(* The next n bytes of the rest of a stream, and what is left then. *)
LEMMA RestOf ==
    ASSUME NEW s \in Seq(Bytes), NEW r \in 0 .. Len(s),
           NEW rs, rs = SubSeq(s, r + 1, Len(s)), NEW n \in 1 .. Len(rs)
    PROVE  /\ Len(rs) = Len(s) - r /\ Len(s) \in Nat
           /\ SubSeq(rs, 1, n) = SubSeq(s, r + 1, r + n)
           /\ SubSeq(rs, n + 1, Len(rs)) = SubSeq(s, r + n + 1, Len(s))
<1>1. Len(s) \in Nat /\ r \in Nat /\ r <= Len(s) BY LenProperties
<1>3. rs \in Seq(Bytes) /\ Len(rs) = Len(s) - r /\ \A i \in 1 .. Len(s) - r : rs[i] = s[r + i]
  BY <1>1, SubSeqAt
<1>4. n \in Nat /\ 1 <= n /\ n <= Len(s) - r BY <1>1, <1>3
<1>6. SubSeq(rs, 1, n) = SubSeq(s, r + 1, r + n)
  <2>. DEFINE a == SubSeq(rs, 0 + 1, n)
              b == SubSeq(s, r + 1, r + n)
  <2>1. a \in Seq(Bytes) /\ Len(a) = n - 0 /\ \A i \in 1 .. n - 0 : a[i] = rs[0 + i]
    <3>1. 0 \in Nat /\ 0 <= n /\ n <= Len(rs) BY <1>3, <1>4
    <3>. QED BY <1>3, <1>4, <3>1, SubSeqAt
  <2>2. b \in Seq(Bytes) /\ Len(b) = r + n - r /\ \A i \in 1 .. r + n - r : b[i] = s[r + i]
    <3>1. r + n \in Nat /\ r <= r + n /\ r + n <= Len(s) BY <1>1, <1>4
    <3>. QED BY <1>1, <3>1, SubSeqAt, SMTT(30)
  <2>. HIDE DEF a, b
  <2>3. n - 0 = n /\ r + n - r = n BY <1>1, <1>4
  <2>4. \A i \in 1 .. n : a[i] = b[i]
    <3>1. \A i \in 1 .. n : 0 + i = i /\ i \in 1 .. Len(s) - r BY <1>1, <1>4
    <3>. QED BY <1>3, <2>1, <2>2, <2>3, <3>1
  <2>5. a = b BY <2>1, <2>2, <2>3, <2>4, SeqEqual
  <2>. QED BY <2>5 DEF a, b
<1>7. SubSeq(rs, n + 1, Len(rs)) = SubSeq(s, r + n + 1, Len(s))
  <2>. DEFINE a == SubSeq(rs, n + 1, Len(rs))
              b == SubSeq(s, r + n + 1, Len(s))
              m == Len(s) - r - n
  <2>1. a \in Seq(Bytes) /\ Len(a) = Len(rs) - n /\ \A i \in 1 .. Len(rs) - n : a[i] = rs[n + i]
    <3>1. Len(rs) \in Nat /\ n <= Len(rs) /\ Len(rs) <= Len(rs) BY <1>1, <1>3, <1>4
    <3>. QED BY <1>3, <1>4, <3>1, SubSeqAt
  <2>2. /\ b \in Seq(Bytes) /\ Len(b) = Len(s) - (r + n)
        /\ \A i \in 1 .. Len(s) - (r + n) : b[i] = s[r + n + i]
    <3>1. r + n \in Nat /\ r + n <= Len(s) /\ Len(s) <= Len(s) BY <1>1, <1>4
    <3>. QED BY <1>1, <3>1, SubSeqAt
  <2>. HIDE DEF a, b
  <2>3. Len(rs) - n = m /\ Len(s) - (r + n) = m /\ m \in Nat BY <1>1, <1>3, <1>4
  <2>4. \A i \in 1 .. m : r + n + i = r + (n + i) /\ n + i \in 1 .. Len(s) - r
    BY <1>1, <1>4
  <2>. HIDE DEF m
  <2>5. ASSUME NEW i \in 1 .. m PROVE a[i] = b[i]
    <3>1. a[i] = rs[n + i] BY <2>1, <2>3
    <3>2. b[i] = s[r + n + i] BY <2>2, <2>3
    <3>3. rs[n + i] = s[r + (n + i)] BY <1>3, <2>4
    <3>. QED BY <2>4, <3>1, <3>2, <3>3
  <2>6. a = b BY <2>1, <2>2, <2>3, <2>5, SeqEqual
  <2>. QED BY <2>6 DEF a, b
<1>. QED BY <1>1, <1>3, <1>6, <1>7

(* A chunk is received after what is left of the ones before. *)
ChunkFits(s, r, n, p) ==
    LET W == WithoutMark(s)
        k == Unmarked(s, r)
        l == Unmarked(s, r + n)
    IN  Len(p.buf) <= k /\ p.buf = SubSeq(W, k - Len(p.buf) + 1, k) =>
            /\ k \in 0 .. Len(W) /\ l \in k .. Len(W)
            /\ Received(p, SubSeq(s, r + 1, r + n)) =
                    [p EXCEPT !.buf = SubSeq(W, k - Len(p.buf) + 1, l)]

LEMMA ChunkReceived ==
    ASSUME NEW s \in Seq(Bytes), \A i \in 2 .. Len(s) : s[i] # "bom",
           NEW r \in 0 .. Len(s), NEW n \in 1 .. Len(s) - r, NEW p \in Processors
    PROVE  ChunkFits(s, r, n, p)
<1>. DEFINE W == WithoutMark(s)
            k == Unmarked(s, r)
            l == Unmarked(s, r + n)
            chunk == SubSeq(s, r + 1, r + n)
<1>. SUFFICES ASSUME Len(p.buf) <= k, p.buf = SubSeq(W, k - Len(p.buf) + 1, k)
     PROVE  /\ k \in 0 .. Len(W) /\ l \in k .. Len(W)
            /\ Received(p, chunk) = [p EXCEPT !.buf = SubSeq(W, k - Len(p.buf) + 1, l)]
  BY DEF ChunkFits
<1>0. /\ W = WithoutMark(s) /\ k = Unmarked(s, r) /\ l = Unmarked(s, r + n)
      /\ chunk = SubSeq(s, r + 1, r + n)
  OBVIOUS
<1>. HIDE DEF W, k, l, chunk
<1>1. /\ W \in Seq(Bytes) /\ Len(W) \in Nat /\ Len(s) \in Nat
      /\ Len(W) = IF Marked(s) THEN Len(s) - 1 ELSE Len(s)
      /\ \A i \in 1 .. Len(W) : W[i] = IF Marked(s) THEN s[i + 1] ELSE s[i]
      /\ Marked(s) => Len(s) >= 1
  BY <1>0, UnmarkedIs
<1>2. /\ r \in Nat /\ n \in Nat /\ 1 <= n /\ r + n <= Len(s) /\ r + n \in Nat
      /\ k \in Nat /\ l \in Nat /\ k <= l /\ l <= Len(W)
      /\ k = IF Marked(s) /\ r > 0 THEN r - 1 ELSE r
      /\ l = IF Marked(s) THEN r + n - 1 ELSE r + n
  BY <1>0, <1>1 DEF Unmarked
<1>3. p.buf \in Seq(Bytes) /\ Len(p.buf) \in Nat BY LenProperties DEF Processors
<1>4. /\ chunk \in Seq(Bytes) /\ Len(chunk) = n /\ \A i \in 1 .. n : chunk[i] = s[r + i]
  <2>1. r + n - r = n /\ r <= r + n /\ r \in Nat /\ r + n \in Nat /\ r + n <= Len(s) BY <1>2
  <2>. DEFINE b == SubSeq(s, r + 1, r + n)
  <2>2. b \in Seq(Bytes) /\ Len(b) = r + n - r /\ \A i \in 1 .. r + n - r : b[i] = s[r + i]
    BY ONLY s \in Seq(Bytes), <2>1, SubSeqAt
  <2>3. chunk = b BY <1>0
  <2>. HIDE DEF b
  <2>. QED BY <2>1, <2>2, <2>3
<1>. DEFINE new == SubSeq(W, k + 1, l)
<1>5. new \in Seq(Bytes) /\ Len(new) = l - k /\ \A i \in 1 .. l - k : new[i] = W[k + i]
  BY <1>1, <1>2, SubSeqAt
<1>. HIDE DEF new
<1>6. Marked(chunk) <=> Marked(s) /\ r = 0
  <2>1. chunk # << >> BY ONLY <1>2, <1>4, NotEmpty
  <2>2. chunk[1] = s[r + 1] BY <1>2, <1>4
  <2>3. r > 0 => r + 1 \in 2 .. Len(s) BY <1>1, <1>2
  <2>4. s # << >> BY <1>1, <1>2, NotEmpty
  <2>5. CASE r = 0
    <3>1. chunk[1] = s[1] BY <2>2, <2>5
    <3>. QED BY <2>1, <2>4, <2>5, <3>1 DEF Marked
  <2>6. CASE r # 0
    <3>1. chunk[1] # "bom" BY <1>2, <2>2, <2>3, <2>6
    <3>. QED BY <2>6, <3>1 DEF Marked
  <2>. QED BY <2>5, <2>6
<1>7. WithoutMark(chunk) = new
  <2>1. /\ WithoutMark(chunk) \in Seq(Bytes)
        /\ Len(WithoutMark(chunk)) = IF Marked(chunk) THEN n - 1 ELSE n
        /\ \A i \in 1 .. Len(WithoutMark(chunk)) :
              WithoutMark(chunk)[i] = IF Marked(chunk) THEN chunk[i + 1] ELSE chunk[i]
    BY <1>4, UnmarkedIs
  <2>2. Len(WithoutMark(chunk)) = l - k BY <1>2, <1>6, <2>1
  <2>3. ASSUME NEW i \in 1 .. l - k PROVE WithoutMark(chunk)[i] = new[i]
    <3>1. /\ i \in Nat /\ 1 <= i /\ k + i <= Len(W) /\ k + i \in 1 .. Len(W) BY <1>1, <1>2
    <3>2. new[i] = IF Marked(s) THEN s[k + i + 1] ELSE s[k + i] BY <1>1, <1>5, <3>1
    <3>3. CASE Marked(s) /\ r = 0
      <4>1. i + 1 \in 1 .. n /\ k = 0 /\ r + (i + 1) = k + i + 1 BY <1>2, <3>1, <3>3
      <4>2. WithoutMark(chunk)[i] = chunk[i + 1] BY <1>6, <2>1, <2>2, <3>3
      <4>. QED BY <1>4, <3>2, <3>3, <4>1, <4>2
    <3>4. CASE ~(Marked(s) /\ r = 0)
      <4>1. i \in 1 .. n /\ r + i = IF Marked(s) THEN k + i + 1 ELSE k + i BY <1>2, <3>1, <3>4
      <4>2. WithoutMark(chunk)[i] = chunk[i] BY <1>6, <2>1, <2>2, <3>4
      <4>. QED BY <1>4, <3>2, <4>1, <4>2
    <3>. QED BY <3>3, <3>4
  <2>. QED BY <1>5, <2>1, <2>2, <2>3, SeqEqual
<1>8. ~Marked(chunk) => WithoutMark(chunk) = chunk BY DEF WithoutMark, Marked
<1>. DEFINE all == SubSeq(W, k - Len(p.buf) + 1, l)
<1>9. IF p.buf = << >> THEN all = WithoutMark(chunk) ELSE all = p.buf \o chunk
  <2>1. CASE p.buf = << >>
    <3>1. k - Len(p.buf) + 1 = k + 1 BY <1>2, <2>1, EmptySeq
    <3>. QED BY <1>7, <2>1, <3>1 DEF new
  <2>2. CASE p.buf # << >>
    <3>1. Len(p.buf) > 0 BY <1>3, <2>2, EmptySeq
    <3>2. r > 0 BY <1>2, <1>3, <3>1
    <3>3. chunk = new BY <1>6, <1>7, <1>8, <3>2
    <3>. DEFINE o == k - Len(p.buf)
    <3>1a. Len(p.buf) <= k OBVIOUS
    <3>1b. k \in Nat /\ l \in Nat /\ k <= l /\ l <= Len(W) BY <1>2
    <3>4. o \in Nat /\ o <= k BY ONLY <3>1a, <3>1b, <1>3
    <3>5. all = SubSeq(W, o + 1, l) /\ p.buf = SubSeq(W, o + 1, k) OBVIOUS
    <3>. HIDE DEF o, all
    <3>6. SubSeq(W, o + 1, l) = SubSeq(W, o + 1, k) \o SubSeq(W, k + 1, l)
      BY ONLY <1>1, <3>1b, <3>4, TwoParts
    <3>7. all = p.buf \o chunk BY ONLY <3>3, <3>5, <3>6 DEF new
    <3>. QED BY <2>2, <3>7
  <2>. QED BY <2>1, <2>2
<1>. HIDE DEF all
<1>10. Received(p, chunk) = [p EXCEPT !.buf = all]
  BY <1>9 DEF Received
<1>11. k \in 0 .. Len(W) /\ l \in k .. Len(W) BY <1>1, <1>2
<1>. QED BY <1>10, <1>11 DEF all

(***************************************************************************)
(* Server-sent events: the events told are those of what has been received  *)
(***************************************************************************)
ToldData(heard) == {i \in DOMAIN heard : heard[i] = "data"}

LEMMA ToldFinite ==
    ASSUME NEW heard \in Seq(Heard)
    PROVE  IsFiniteSet(ToldData(heard)) /\ Cardinality(ToldData(heard)) \in Nat
<1>1. Len(heard) \in Nat /\ DOMAIN heard = 1 .. Len(heard) BY LenProperties
<1>2. IsFiniteSet(1 .. Len(heard)) BY <1>1, FS_Interval
<1>3. ToldData(heard) \subseteq 1 .. Len(heard) BY <1>1 DEF ToldData
<1>. QED BY <1>2, <1>3, FS_Subset, FS_CardinalityType

LEMMA ToldOther ==
    ASSUME NEW heard \in Seq(Heard), NEW event \in Heard \ {"data"}
    PROVE  ToldData(heard \o <<event>>) = ToldData(heard)
<1>. DEFINE more == heard \o <<event>>
<1>1. /\ Len(heard) \in Nat /\ DOMAIN heard = 1 .. Len(heard)
      /\ DOMAIN more = 1 .. Len(heard) + 1
      /\ \A i \in 1 .. Len(heard) : more[i] = heard[i]
      /\ more[Len(heard) + 1] = event
  BY OneHeard
<1>. HIDE DEF more
<1>2. \A i \in 1 .. Len(heard) + 1 : i \in 1 .. Len(heard) \/ i = Len(heard) + 1 BY <1>1
<1>3. \A i \in 1 .. Len(heard) : i \in 1 .. Len(heard) + 1 BY <1>1
<1>4. ToldData(more) = ToldData(heard) BY <1>1, <1>2, <1>3 DEF ToldData
<1>. QED BY <1>4 DEF more

LEMMA ToldMore ==
    ASSUME NEW heard \in Seq(Heard), NEW n \in Nat
    PROVE  Cardinality(ToldData(heard \o [i \in 1 .. n |-> "data"]))
            = Cardinality(ToldData(heard)) + n
<1>. DEFINE more == heard \o [i \in 1 .. n |-> "data"]
            len == Len(heard)
            S == ToldData(heard)
            T == len + 1 .. len + n
<1>1. /\ len \in Nat /\ DOMAIN heard = 1 .. len /\ DOMAIN more = 1 .. len + n
      /\ \A i \in 1 .. len : more[i] = heard[i]
      /\ \A i \in len + 1 .. len + n : more[i] = "data"
  BY LenProperties, DataHeard
<1>. HIDE DEF more, len
<1>2. \A i \in 1 .. len + n : i \in 1 .. len \/ i \in T BY <1>1
<1>3. \A i \in 1 .. len : i \in 1 .. len + n /\ i \notin T BY <1>1
<1>4. \A i \in T : i \in 1 .. len + n BY <1>1
<1>5. S \subseteq 1 .. len BY <1>1 DEF ToldData
<1>6. ToldData(more) = S \cup T BY <1>1, <1>2, <1>3, <1>4 DEF ToldData
<1>7. S \cap T = {} BY <1>3, <1>5
<1>8. IsFiniteSet(S) /\ Cardinality(S) \in Nat BY ToldFinite
<1>9. IsFiniteSet(T) /\ Cardinality(T) = n
  <2>. DEFINE a == len + 1
              b == len + n
  <2>1. a \in Int /\ b \in Int /\ T = a .. b BY <1>1
  <2>2. (IF a > b THEN 0 ELSE b - a + 1) = n BY <1>1
  <2>. HIDE DEF a, b, T
  <2>3. IsFiniteSet(a .. b) /\ Cardinality(a .. b) = IF a > b THEN 0 ELSE b - a + 1
    BY <2>1, FS_Interval
  <2>. QED BY <2>1, <2>2, <2>3
<1>. HIDE DEF S, T
<1>10. Cardinality(S \cup T) = Cardinality(S) + Cardinality(T) - Cardinality(S \cap T)
  BY <1>8, <1>9, FS_Union
<1>11. Cardinality(S \cap T) = 0 BY <1>7, FS_EmptySet
<1>12. Cardinality(S \cup T) = Cardinality(S) + n BY <1>8, <1>9, <1>10, <1>11
<1>. QED BY <1>6, <1>12 DEF more, S

(* Of the events of the stream, both calls have told the same. *)
SameEvents(c, d) ==
    /\ d.sse = c.sse /\ d.processor = c.processor
    /\ ToldData(d.heard) = ToldData(c.heard)

LEMMA OnEndSame == \A c \in Calls : \A a \in Answers : SameEvents(c, OnEnd(c, a))
<1>. SUFFICES ASSUME NEW c \in Calls, NEW a \in Answers PROVE SameEvents(c, OnEnd(c, a)) OBVIOUS
<1>1. c.heard \in Seq(Heard) /\ a \in Heard \ {"data"} BY DEF Calls, Heard, Answers
<1>. DEFINE d == OnEnd(c, a)
<1>2. d.heard = c.heard \o <<a>> /\ d.sse = c.sse /\ d.processor = c.processor BY OnEndIs
<1>. HIDE DEF d
<1>3. ToldData(c.heard \o <<a>>) = ToldData(c.heard) BY <1>1, ToldOther
<1>4. SameEvents(c, d) BY <1>2, <1>3 DEF SameEvents
<1>. QED BY <1>4 DEF d

LEMMA CompleteSame == \A c \in Calls : SameEvents(c, OnComplete(c, "response"))
<1>. SUFFICES ASSUME NEW c \in Calls PROVE SameEvents(c, OnComplete(c, "response")) OBVIOUS
<1>1. "response" \in Answers BY DEF Answers
<1>2. CASE c.started BY <1>1, <1>2, OnEndSame, ResponseIs
<1>3. CASE ~c.started BY <1>3, ResponseIs DEF SameEvents
<1>. QED BY <1>2, <1>3

LEMMA StartToldSame == \A c \in Calls : SameEvents(c, StartTold(c))
<1>. SUFFICES ASSUME NEW c \in Calls PROVE SameEvents(c, StartTold(c)) OBVIOUS
<1>1. "response" \in Answers /\ "start" \in Heard \ {"data"} /\ c.heard \in Seq(Heard)
  BY DEF Answers, Heard, Calls
<1>2. StartToldTo(c, StartTold(c)) BY StartToldIs
<1>3. PICK e \in Calls :
        /\ e.sse = c.sse /\ e.processor = c.processor
        /\ e.heard = IF c.disposed THEN c.heard ELSE c.heard \o <<"start">>
        /\ StartTold(c) = IF c.ended THEN OnEnd(e, "response") ELSE e
  BY <1>2 DEF StartToldTo
<1>4. ToldData(c.heard \o <<"start">>) = ToldData(c.heard) BY <1>1, ToldOther
<1>5. SameEvents(c, e) BY <1>3, <1>4 DEF SameEvents
<1>6. SameEvents(e, OnEnd(e, "response")) BY <1>1, OnEndSame
<1>. QED BY <1>3, <1>5, <1>6 DEF SameEvents

(* The events told are those of the part of the stream that was received. *)
Streamed(c, rs) ==
    c.sse =>
        LET s == scenario.stream
            W == WithoutMark(s)
            k == Unmarked(s, Len(s) - Len(rs))
        IN  /\ \A R : Reads(R, W) => ProcReads(c.processor, W, R, k)
            /\ Cardinality(ToldData(c.heard)) = Len(c.processor.emitted)

LEMMA StreamedSame ==
    ASSUME NEW c, NEW d, NEW rs, SameEvents(c, d), Streamed(c, rs)
    PROVE  Streamed(d, rs)
BY DEF SameEvents, Streamed

(* What is still to come is the end of the stream. *)
EndOf(s, rs) == Len(rs) \in 0 .. Len(s) /\ rs = SubSeq(s, Len(s) - Len(rs) + 1, Len(s))

LEMMA NewReads ==
    ASSUME NEW R, NEW W, Reads(R, W)
    PROVE  ProcReads(NewProcessor, W, R, 0)
<1>1. R[0] = [line |-> << >>, event |-> << >>, emitted |-> << >>]
  <2>1. Len(W) \in Nat BY LenProperties DEF Reads
  <2>. QED BY <2>1 DEF Reads, ReadDef, Nothing
<1>2. /\ NewProcessor.buf = << >> /\ NewProcessor.start = 0 /\ ~NewProcessor.discard
      /\ NewProcessor.event = << >> /\ NewProcessor.emitted = << >>
  BY DEF NewProcessor
<1>3. SubSeq(W, 0 + 1, 0) = << >> BY SubSeqEmpty
<1>4. Len(NewProcessor.buf) = 0 BY <1>2
<1>5. 0 - Len(NewProcessor.buf) = 0 BY <1>4
<1>. QED BY <1>1, <1>2, <1>3, <1>4, <1>5 DEF ProcReads

LEMMA StartStreamed ==
    ASSUME scenario \in Scenarios, NEW rs, rs = scenario.stream
    PROVE  Streamed(OnStart(NewCall), rs)
<1>. DEFINE typed == [NewCall EXCEPT !.sse = scenario.sse]
            asked == [typed EXCEPT !.asking = TRUE]
<1>1. scenario.stream \in Seq(Bytes) /\ scenario.sse \in BOOLEAN BY ScenariosAssumption
<1>2. NewCall \in Calls /\ NewCall.heard = << >> BY NewTyped, NewIs
<1>3. NewCall.processor = NewProcessor BY DEF NewCall
<1>4. /\ typed \in Calls /\ typed.heard = << >> /\ typed.processor = NewProcessor
  BY <1>1, <1>2, <1>3 DEF Calls
<1>5. OnStart(NewCall) = IF scenario.getCookies THEN asked ELSE StartTold(typed) BY DEF OnStart
<1>. HIDE DEF typed
<1>6. SameEvents(typed, asked) BY <1>4 DEF SameEvents, Calls
<1>7. SameEvents(typed, StartTold(typed)) BY <1>4, StartToldSame
<1>8. Streamed(typed, rs)
  <2>1. Unmarked(scenario.stream, Len(scenario.stream) - Len(rs)) = 0
    <3>1. Len(scenario.stream) - Len(rs) = 0 BY <1>1, LenProperties
    <3>. QED BY <3>1 DEF Unmarked
  <2>2. ToldData(<< >>) = {} BY DEF ToldData
  <2>3. Cardinality(ToldData(typed.heard)) = 0 BY <1>4, <2>2, FS_EmptySet
  <2>4. Len(typed.processor.emitted) = 0 BY <1>4 DEF NewProcessor
  <2>. QED BY <1>4, <2>1, <2>3, <2>4, NewReads DEF Streamed
<1>. HIDE DEF asked
<1>. QED BY <1>5, <1>6, <1>7, <1>8, StreamedSame

LEMMA ChunkStreamed ==
    ASSUME scenario \in Scenarios, PlainStream(scenario.stream),
           NEW c \in Calls, Running(c), NEW rs \in Seq(Bytes), Streamed(c, rs),
           EndOf(scenario.stream, rs), NEW n \in 1 .. Len(rs),
           NEW chunk, chunk = SubSeq(rs, 1, n), NEW left, left = SubSeq(rs, n + 1, Len(rs))
    PROVE  Streamed(OnChunk(c, chunk), left) /\ EndOf(scenario.stream, left)
<1>. DEFINE s == scenario.stream
            W == WithoutMark(s)
            r == Len(s) - Len(rs)
            k == Unmarked(s, r)
            l == Unmarked(s, r + n)
<1>1. s \in Seq(Bytes) /\ Len(s) \in Nat /\ Len(rs) \in Nat BY ScenariosAssumption, LenProperties
<1>2. /\ \A i \in 2 .. Len(s) : s[i] # "bom"
      /\ PlainBreaks(W)
  BY DEF PlainStream
<1>3. r \in 0 .. Len(s) /\ rs = SubSeq(s, r + 1, Len(s)) /\ n \in 1 .. Len(s) - r /\ n <= Len(rs)
      /\ n \in Nat
  <2>1. Len(rs) \in 0 .. Len(s) /\ rs = SubSeq(s, Len(s) - Len(rs) + 1, Len(s)) /\ n \in 1 .. Len(rs)
    BY DEF EndOf
  <2>. DEFINE ls == Len(s)
              lr == Len(rs)
  <2>2. ls \in Nat /\ lr \in 0 .. ls /\ n \in 1 .. lr BY <1>1, <2>1
  <2>. HIDE DEF ls, lr
  <2>3. ls - lr \in 0 .. ls /\ n \in 1 .. ls - (ls - lr) /\ n <= lr /\ n \in Nat BY <2>2
  <2>. QED BY <2>1, <2>3 DEF ls, lr
<1>4. chunk = SubSeq(s, r + 1, r + n) /\ left = SubSeq(s, r + n + 1, Len(s))
  <2>. HIDE DEF r, s
  <2>. QED BY <1>1, <1>3, RestOf
<1>5. chunk \in Seq(Bytes) /\ left \in Seq(Bytes) /\ Len(left) = Len(rs) - n
  <2>1. chunk \in Seq(Bytes) /\ left \in Seq(Bytes) BY ChunkOfRest
  <2>2. Len(SubSeq(rs, n + 1, Len(rs))) = Len(rs) - n
    <3>1. Len(rs) <= Len(rs) /\ n <= Len(rs) /\ n \in Nat BY <1>1, <1>3
    <3>. QED BY ONLY <1>1, <3>1, rs \in Seq(Bytes), SubSeqAt
  <2>. QED BY <2>1, <2>2
<1>6. Len(s) - Len(left) = r + n
  <2>1. \A x, y, z \in Nat : x - (y - z) = (x - y) + z OBVIOUS
  <2>2. Len(s) \in Nat /\ Len(rs) \in Nat /\ n \in Nat BY <1>1, <1>3
  <2>3. Len(s) - (Len(rs) - n) = (Len(s) - Len(rs)) + n BY ONLY <2>1, <2>2
  <2>. QED BY ONLY <1>5, <2>3 DEF r
<1>7. EndOf(s, left)
  <2>1. Len(left) \in 0 .. Len(s) BY <1>1, <1>3, <1>5
  <2>. QED BY <1>4, <1>6, <2>1 DEF EndOf
<1>. HIDE DEF s, r
<1>8. CASE ~c.sse BY <1>7, <1>8 DEF OnChunk, Streamed, s
<1>9. CASE c.sse
  <2>. DEFINE d == OnChunk(c, chunk)
              p == c.processor
              q == OnData(p, chunk)
  <2>1. ChunkTo(c, chunk, d) BY <1>5, <1>9, OnChunkIs
  <2>2. p \in Processors BY DEF Calls
  <2>3. \A R : Reads(R, W) => ProcReads(p, W, R, k)
    BY <1>9 DEF Streamed, s, r
  <2>4. Cardinality(ToldData(c.heard)) = Len(p.emitted)
    BY <1>9 DEF Streamed
  <2>5. W \in Seq(Bytes) /\ Len(W) \in Nat BY <1>1, UnmarkedIs
  <2>. HIDE DEF W, k, l
  <2>6. ASSUME NEW R, Reads(R, W) PROVE ProcReads(q, W, R, l)
    <3>1. ProcReads(p, W, R, k) BY <2>3, <2>6
    <3>2. Len(p.buf) \in Nat BY <2>2, LenProperties DEF Processors
    <3>3. k \in Nat
      <4>1. \A x \in 0 .. Len(s) : Unmarked(s, x) \in Nat BY <1>1 DEF Unmarked
      <4>. QED BY <1>3, <4>1 DEF k
    <3>4. Len(p.buf) <= k /\ p.buf = SubSeq(W, k - Len(p.buf) + 1, k)
      <4>. DEFINE o == k - Len(p.buf)
      <4>1. o \in 0 .. k /\ p.buf = SubSeq(W, o + 1, k) BY <3>1 DEF ProcReads
      <4>2. Len(p.buf) <= k
        <5>. HIDE DEF p
        <5>. QED BY ONLY <3>2, <3>3, <4>1 DEF o
      <4>. QED BY <4>1, <4>2
    <3>5. /\ k \in 0 .. Len(W) /\ l \in k .. Len(W)
          /\ Received(p, chunk) = [p EXCEPT !.buf = SubSeq(W, k - Len(p.buf) + 1, l)]
      <4>1. W = WithoutMark(s) /\ k = Unmarked(s, r) /\ l = Unmarked(s, r + n) BY DEF W, k, l
      <4>. HIDE DEF p
      <4>2. ChunkFits(s, r, n, p) BY ONLY <1>1, <1>2, <1>3, <2>2, ChunkReceived
      <4>. QED BY ONLY <1>4, <3>4, <4>1, <4>2 DEF ChunkFits
    <3>. HIDE DEF p
    <3>. QED BY ONLY <1>2, <2>2, <2>6, <3>1, <3>5, OnDataReads DEF q
  <2>7. Cardinality(ToldData(d.heard)) = Len(d.processor.emitted) /\ d.processor = q
    <3>1. c.heard \in Seq(Heard) /\ ~c.disposed BY DEF Calls, Running, Told, Asked
    <3>. DEFINE new == NewEvents(c, chunk)
    <3>2. new \in Nat /\ d.processor = q /\ d.heard = c.heard \o [i \in 1 .. new |-> "data"]
      BY <2>1, <3>1 DEF ChunkTo
    <3>3. new = Len(q.emitted) - Len(p.emitted) BY DEF NewEvents
    <3>. HIDE DEF new, q
    <3>4. Cardinality(ToldData(d.heard)) = Cardinality(ToldData(c.heard)) + new
      BY <3>1, <3>2, ToldMore
    <3>5. Len(q.emitted) \in Nat /\ Len(p.emitted) \in Nat
      <4>1. q \in Processors BY <1>5, <2>2, OnDataTyped DEF q
      <4>. QED BY <2>2, <4>1, LenProperties DEF Processors
    <3>. QED BY <2>4, <3>2, <3>3, <3>4, <3>5
  <2>8. Streamed(d, left)
    <3>. HIDE DEF d, q
    <3>. QED BY <1>6, <2>6, <2>7 DEF Streamed, W, l, s
  <2>. QED BY <1>7, <2>8 DEF s
<1>. QED BY <1>8, <1>9

Streaming ==
    Node => /\ link.stage \in {"lookup", "sending"} => rest = scenario.stream
            /\ EndOf(scenario.stream, rest)
            /\ PlainStream(scenario.stream) => Streamed(call, rest)

LEMMA StreamingSame ==
    ASSUME scenario' = scenario
    PROVE  Streaming' <=>
             (Node => /\ link'.stage \in {"lookup", "sending"} => rest' = scenario.stream
                      /\ EndOf(scenario.stream, rest')
                      /\ PlainStream(scenario.stream) => Streamed(call', rest'))
BY DEF Streaming, Node, Streamed

LEMMA ScenarioSame ==
    ASSUME [Next]_vars
    PROVE  scenario' = scenario
BY DEF Next, vars, Refuse, Send, Lookup, Respond, Chunk, BodyEnds, NetworkFails, Abort,
       CookiesGot, XhrOpen, TooLate, StateChange, CookiesStored

LEMMA EndOfIs ==
    ASSUME NEW s \in Seq(Bytes)
    PROVE  EndOf(s, s) /\ EndOf(s, << >>)
<1>1. Len(s) \in Nat BY LenProperties
<1>2. SubSeq(s, 0 + 1, Len(s)) = s
  <2>. DEFINE a == SubSeq(s, 0 + 1, Len(s))
  <2>1. 0 \in Nat /\ 0 <= Len(s) /\ Len(s) <= Len(s) BY <1>1
  <2>2. a \in Seq(Bytes) /\ Len(a) = Len(s) - 0 /\ \A i \in 1 .. Len(s) - 0 : a[i] = s[0 + i]
    BY <1>1, <2>1, SubSeqAt
  <2>. HIDE DEF a
  <2>3. Len(s) - 0 = Len(s) /\ \A i \in 1 .. Len(s) : 0 + i = i BY <1>1
  <2>4. a = s BY <2>2, <2>3, SeqEqual
  <2>. QED BY <2>4 DEF a
<1>3. Len(s) - Len(s) + 1 = 0 + 1 /\ Len(s) \in 0 .. Len(s) BY <1>1
<1>4. EndOf(s, s) BY <1>2, <1>3 DEF EndOf
<1>5. SubSeq(s, Len(s) + 1, Len(s)) = << >>
  <2>1. Len(s) + 1 \in Int /\ Len(s) \in Int /\ Len(s) < Len(s) + 1 BY <1>1
  <2>. QED BY <2>1, SubSeqEmpty
<1>6. Len(<< >>) = 0 /\ Len(s) - 0 + 1 = Len(s) + 1 /\ 0 \in 0 .. Len(s) BY <1>1
<1>7. EndOf(s, << >>) BY <1>5, <1>6 DEF EndOf
<1>. QED BY <1>4, <1>7

LEMMA Unstarted ==
    ASSUME NEW rs
    PROVE  /\ Streamed(NewCall, rs) /\ Streamed(IdleCall, rs)
           /\ Streamed(OnEnd(NewCall, "error"), rs)
<1>1. ~NewCall.sse /\ ~IdleCall.sse BY NewIs
<1>2. SameEvents(NewCall, OnEnd(NewCall, "error"))
  BY NewTyped, OnEndSame DEF Answers
<1>3. Streamed(NewCall, rs) /\ Streamed(IdleCall, rs) BY <1>1 DEF Streamed
<1>. QED BY <1>2, <1>3, StreamedSame

(* The processor is where the reader of single bytes would be, and as many  *)
(* events have been told as it has completed.                               *)
THEOREM StreamingInv == Spec => []Streaming
<1>1. Init => Streaming
  <2>. SUFFICES ASSUME Init PROVE Streaming OBVIOUS
  <2>1. call = IdleCall /\ link = IdleLink /\ rest = << >> /\ scenario \in Scenarios BY DEF Init
  <2>2. scenario.stream \in Seq(Bytes) BY <2>1, ScenariosAssumption
  <2>. QED BY <2>1, <2>2, IdleOff, EndOfIs, Unstarted DEF Streaming
<1>2. Typed /\ Flow /\ Streaming /\ [Next]_vars => Streaming'
  <2>. SUFFICES ASSUME Typed, Flow, Streaming, [Next]_vars, Node
       PROVE  /\ link'.stage \in {"lookup", "sending"} => rest' = scenario.stream
              /\ EndOf(scenario.stream, rest')
              /\ PlainStream(scenario.stream) => Streamed(call', rest')
    BY ScenarioSame, StreamingSame
  <2>1. /\ scenario \in Scenarios /\ call \in Calls /\ link \in Links /\ rest \in Seq(Bytes)
        /\ scenario.stream \in Seq(Bytes)
    BY ScenariosAssumption DEF Typed
  <2>2. NodeFlow(call, link) BY DEF Flow, Accepted
  <2>3. /\ link.stage \in {"lookup", "sending"} => rest = scenario.stream
        /\ EndOf(scenario.stream, rest)
        /\ PlainStream(scenario.stream) => Streamed(call, rest)
    BY DEF Streaming
  <2>4. "error" \in Answers /\ "response" \in Answers BY DEF Answers
  <2>5. /\ SameEvents(call, call)
        /\ SameEvents(call, OnEnd(call, "error"))
        /\ SameEvents(call, OnComplete(call, "response"))
        /\ SameEvents(call, StartTold(call))
    BY <2>1, <2>4, OnEndSame, CompleteSame, StartToldSame DEF SameEvents
  <2>6. ASSUME SameEvents(call, call'), rest' = rest
        PROVE  EndOf(scenario.stream, rest') /\ (PlainStream(scenario.stream) => Streamed(call', rest'))
    BY <2>3, <2>6, StreamedSame
  <2>a. CASE Refuse
    <3>1. call' = OnEnd(NewCall, "error") /\ link' = link /\ rest' = rest /\ call.stage # "open"
      BY <2>a DEF Refuse, MaySend
    <3>. QED BY <2>3, <3>1, Unstarted
  <2>b. CASE Send
    <3>1. call' = NewCall /\ rest' = scenario.stream BY <2>b DEF Send
    <3>. QED BY <2>1, <3>1, Unstarted, EndOfIs
  <2>c. CASE Lookup
    <3>1. /\ link.stage = "lookup" /\ rest' = rest
          /\ call' = call \/ call' = OnEnd(call, "error")
      BY <2>c DEF Lookup
    <3>2. SameEvents(call, call') BY <2>5, <3>1
    <3>. QED BY <2>3, <2>6, <3>1, <3>2
  <2>d. CASE Respond
    <3>1. link.stage = "sending" /\ rest' = rest /\ call' = OnStart(call) BY <2>d DEF Respond
    <3>2. call = NewCall /\ rest = scenario.stream BY <2>2, <2>3, <3>1 DEF NodeFlow
    <3>3. link'.stage = "body" BY <2>1, <2>d DEF Respond, Links
    <3>. QED BY <2>1, <2>3, <3>1, <3>2, <3>3, StartStreamed
  <2>e. CASE Chunk
    <3>1. PICK n \in 1 .. Len(rest) :
            /\ call' = OnChunk(call, SubSeq(rest, 1, n))
            /\ rest' = SubSeq(rest, n + 1, Len(rest))
      BY <2>e DEF Chunk
    <3>2. link.stage = "body" /\ link' = link BY <2>e DEF Chunk
    <3>3. Running(call) BY <2>2, <3>2 DEF NodeFlow
    <3>4. EndOf(scenario.stream, rest')
      <4>. DEFINE s == scenario.stream
                  r == Len(s) - Len(rest)
      <4>1. Len(s) \in Nat /\ Len(rest) \in Nat /\ n \in Nat /\ 1 <= n /\ n <= Len(rest)
        BY <2>1, LenProperties
      <4>2. Len(rest) \in 0 .. Len(s) /\ rest = SubSeq(s, r + 1, Len(s)) BY <2>3 DEF EndOf
      <4>3. r \in 0 .. Len(s) BY <4>1, <4>2
      <4>4. rest' = SubSeq(s, r + n + 1, Len(s))
        <5>. HIDE DEF s, r
        <5>. QED BY <2>1, <3>1, <4>2, <4>3, RestOf DEF s
      <4>5. Len(rest') = Len(rest) - n
        <5>1. Len(rest) <= Len(rest) BY <4>1
        <5>. QED BY ONLY <2>1, <3>1, <4>1, <5>1, SubSeqAt
      <4>6. Len(s) - Len(rest') + 1 = r + n + 1 /\ Len(rest') \in 0 .. Len(s)
        <5>. DEFINE ls == Len(s)
                    lr == Len(rest)
        <5>1. ls \in Nat /\ lr \in 0 .. ls /\ n \in Nat /\ n <= lr BY <4>1, <4>2
        <5>. HIDE DEF ls, lr
        <5>2. ls - (lr - n) + 1 = ls - lr + n + 1 /\ lr - n \in 0 .. ls BY ONLY <5>1
        <5>. QED BY <4>5, <5>2 DEF ls, lr
      <4>. QED BY <4>4, <4>6 DEF EndOf
    <3>5. PlainStream(scenario.stream) => Streamed(call', rest')
      BY <2>1, <2>3, <3>1, <3>3, ChunkStreamed
    <3>. QED BY <3>2, <3>4, <3>5
  <2>f. CASE BodyEnds
    <3>1. link'.stage = "over" BY <2>1, <2>f DEF BodyEnds, Links
    <3>2. SameEvents(call, call') /\ rest' = rest BY <2>5, <2>f DEF BodyEnds
    <3>. QED BY <2>6, <3>1, <3>2
  <2>g. CASE NetworkFails
    <3>1. link'.stage = "over" BY <2>1, <2>g DEF NetworkFails, Links
    <3>2. SameEvents(call, call') /\ rest' = rest BY <2>5, <2>g DEF NetworkFails
    <3>. QED BY <2>6, <3>1, <3>2
  <2>h. CASE Abort
    <3>1. link'.stage = link.stage BY <2>1, <2>h DEF Abort, Links
    <3>2. SameEvents(call, call') /\ rest' = rest BY <2>5, <2>h DEF Abort
    <3>. QED BY <2>3, <2>6, <3>1, <3>2
  <2>i. CASE CookiesGot
    <3>1. SameEvents(call, call') /\ rest' = rest /\ link' = link BY <2>5, <2>i DEF CookiesGot
    <3>. QED BY <2>3, <2>6, <3>1
  <2>j. CASE XhrOpen BY <2>2, <2>j DEF XhrOpen, NodeFlow
  <2>k. CASE TooLate BY <2>2, <2>k DEF TooLate, NodeFlow, Off
  <2>l. CASE StateChange BY <2>l DEF StateChange
  <2>m. CASE CookiesStored BY <2>2, <2>m DEF CookiesStored, NodeFlow, Off
  <2>n. CASE UNCHANGED vars
    <3>1. call' = call /\ rest' = rest /\ link' = link BY <2>n DEF vars
    <3>. QED BY <2>3, <3>1
  <2>. QED BY <2>a, <2>b, <2>c, <2>d, <2>e, <2>f, <2>g, <2>h, <2>i, <2>j, <2>k, <2>l, <2>m, <2>n
          DEF Next
<1>. QED BY <1>1, <1>2, TypedInv, FlowInv, PTL DEF Spec

(* However the body is cut into chunks, the events told are those that the  *)
(* bytes received so far contain (SSEProcessor.onData), for streams without *)
(* a second mark and in which no two line feeds follow each other after a   *)
(* carriage return.                                                         *)
THEOREM EventsInv == Spec => [](PlainStream(scenario.stream) => EventsWhole)
<1>1. Typed /\ Streaming => (PlainStream(scenario.stream) => EventsWhole)
  <2>. SUFFICES ASSUME Typed, Streaming, PlainStream(scenario.stream), call.sse, Node
       PROVE  LET received == SubSeq(scenario.stream, 1, Len(scenario.stream) - Len(rest))
                  told == {i \in DOMAIN call.heard : call.heard[i] = "data"}
              IN  /\ call.processor.emitted = Events(received)
                  /\ Cardinality(told) = Len(call.processor.emitted)
    BY DEF EventsWhole
  <2>. DEFINE s == scenario.stream
              W == WithoutMark(s)
              r == Len(s) - Len(rest)
              k == Unmarked(s, r)
              p == call.processor
              received == SubSeq(s, 1, r)
  <2>1. s \in Seq(Bytes) /\ rest \in Seq(Bytes) /\ p \in Processors
    BY ScenariosAssumption DEF Typed, Calls
  <2>2. Streamed(call, rest) /\ Len(rest) \in 0 .. Len(s) BY DEF Streaming, EndOf
  <2>3. /\ \A R : Reads(R, W) => ProcReads(p, W, R, k)
        /\ Cardinality(ToldData(call.heard)) = Len(p.emitted)
    BY <2>2 DEF Streamed
  <2>4. Len(s) \in Nat /\ r \in 0 .. Len(s)
    <3>1. Len(s) \in Nat /\ Len(rest) \in 0 .. Len(s) BY <2>1, <2>2, LenProperties
    <3>. DEFINE ls == Len(s)
                lr == Len(rest)
    <3>2. ls \in Nat /\ lr \in 0 .. ls BY <3>1
    <3>. HIDE DEF ls, lr
    <3>3. ls - lr \in 0 .. ls BY <3>2
    <3>. QED BY <3>1, <3>3 DEF ls, lr
  <2>. HIDE DEF s, r, p
  <2>5. k \in 0 .. Len(W) /\ WithoutMark(received) = SubSeq(W, 1, k)
    BY <2>1, <2>4, UnmarkedPrefix
  <2>6. W \in Seq(Bytes) /\ Len(W) \in Nat BY <2>1, UnmarkedIs
  <2>7. PICK R : Reads(R, W)
    <3>. HIDE DEF W
    <3>. QED BY <2>6, ReadsExists
  <2>. HIDE DEF W, k, received
  <2>8. Events(received) = R[k].emitted
    <3>1. Read(SubSeq(W, 1, k)) = R[k] BY <2>5, <2>7, ReadPrefix
    <3>. QED BY <2>5, <3>1 DEF Events
  <2>9. R[k].emitted = p.emitted
    <3>. DEFINE o == k - Len(p.buf)
    <3>1. ProcReads(p, W, R, k) BY <2>3, <2>7
    <3>2. /\ o \in 0 .. k /\ \A i \in o + 1 .. k : W[i] \notin Breaks
          /\ R[o] = [line |-> << >>, event |-> p.event, emitted |-> p.emitted]
      BY <3>1 DEF ProcReads
    <3>. HIDE DEF o
    <3>3. o \in 0 .. Len(W) /\ k \in o .. Len(W) BY <2>5, <2>6, <3>2
    <3>4. R[o].line = << >> /\ R[o].emitted = p.emitted BY <3>2
    <3>5. R[k] = [line |-> SubSeq(W, o + 1, k), event |-> R[o].event, emitted |-> R[o].emitted]
      <4>1. \A i \in o + 1 .. k : W[i] \notin Breaks BY <3>2
      <4>2. R[o].line = << >> BY <3>4
      <4>. QED BY ONLY <2>7, <3>3, <4>1, <4>2, ReadLine
    <3>. QED BY <3>4, <3>5
  <2>. QED BY <2>3, <2>8, <2>9 DEF s, r, p, received, ToldData
<1>. QED BY <1>1, TypedInv, StreamingInv, PTL

(***************************************************************************)
(* Lists of headers                                                         *)
(***************************************************************************)
Header == [value : Seq(Origins), disabled : BOOLEAN, system : BOOLEAN]

LEMMA MaxOfSome ==
    ASSUME NEW n \in Nat, NEW T \in SUBSET (1 .. n), T # {}
    PROVE  Max(T) \in T /\ \A i \in T : Max(T) >= i
<1>. DEFINE D == {n - i : i \in T}
<1>1. D \in SUBSET Nat /\ D # {}
  <2>1. \A i \in T : n - i \in Nat OBVIOUS
  <2>2. PICK i \in T : TRUE OBVIOUS
  <2>3. n - i \in D OBVIOUS
  <2>. QED BY <2>1, <2>3
<1>. HIDE DEF D
<1>2. PICK d \in D : \A e \in D : d <= e BY <1>1, LeastNat
<1>3. PICK m \in T : d = n - m BY <1>2 DEF D
<1>4. \A i \in T : m >= i
  <2>1. \A i \in T : n - m <= n - i BY <1>2, <1>3 DEF D
  <2>2. \A i \in T : i \in Nat /\ m \in Nat BY <1>3
  <2>. QED BY <2>1, <2>2
<1>. QED BY <1>3, <1>4 DEF Max

LEMMA ListIs ==
    ASSUME NEW list \in HeaderLists
    PROVE  /\ list \in Seq(Header) /\ Len(list) \in Nat /\ DOMAIN list = 1 .. Len(list)
           /\ \A i \in 1 .. Len(list) : list[i] \in Header
           /\ Enabled(list) \subseteq 1 .. Len(list)
<1>1. list \in Seq(Header) BY DEF HeaderLists, Header
<1>. QED BY <1>1, LenProperties, ElementOfSeq DEF Enabled

LEMMA SystemIs ==
    ASSUME NEW value \in Seq(Origins)
    PROVE  /\ System(value) \in Header /\ System(value).value = value
           /\ ~System(value).disabled /\ System(value).system
BY DEF System, Header

LEMMA OneOrigin == \A origin \in Origins : <<origin>> \in Seq(Origins)
<1>. SUFFICES ASSUME NEW origin \in Origins PROVE <<origin>> \in Seq(Origins) OBVIOUS
<1>. QED OBVIOUS

LEMMA AppendedIs ==
    ASSUME NEW list \in HeaderLists, NEW value \in Seq(Origins)
    PROVE  LET more == Append(list, System(value))
           IN  /\ more \in HeaderLists /\ Len(more) = Len(list) + 1
               /\ \A i \in 1 .. Len(list) : more[i] = list[i]
               /\ more[Len(list) + 1] = System(value)
               /\ Enabled(more) = Enabled(list) \cup {Len(list) + 1}
<1>. DEFINE new == System(value)
            more == Append(list, new)
            n == Len(list)
<1>1. new \in Header /\ ~new.disabled BY SystemIs
<1>2. list \in Seq(Header) /\ n \in Nat /\ DOMAIN list = 1 .. n /\ Enabled(list) \subseteq 1 .. n
  BY ListIs
<1>. HIDE DEF new
<1>3. /\ more \in Seq(Header) /\ Len(more) = n + 1
      /\ \A i \in 1 .. n : more[i] = list[i]
      /\ more[n + 1] = new
  BY <1>1, <1>2, AppendProperties
<1>. HIDE DEF more
<1>4. DOMAIN more = 1 .. n + 1 BY <1>3, LenProperties
<1>. HIDE DEF n
<1>5. \A i : i \in 1 .. n + 1 <=> i \in 1 .. n \/ i = n + 1 BY <1>2
<1>6. n + 1 \notin 1 .. n BY <1>2
<1>7. Enabled(more) = Enabled(list) \cup {n + 1}
  BY <1>1, <1>2, <1>3, <1>4, <1>5 DEF Enabled
<1>. QED BY <1>3, <1>7 DEF more, new, n, HeaderLists, Header

LEMMA UpsertIs ==
    ASSUME NEW list \in HeaderLists, NEW value \in Seq(Origins)
    PROVE  LET new == Upsert(list, System(value))
           IN  /\ new \in HeaderLists
               /\ Len(list) <= 1 => /\ \A i \in Enabled(new) : new[i].value = value
                                    /\ Enabled(list) # {} => Enabled(new) # {}
<1>. DEFINE s == System(value)
            n == Len(list)
            new == Upsert(list, s)
<1>1. s \in Header /\ ~s.disabled /\ s.value = value BY SystemIs
<1>2. list \in Seq(Header) /\ n \in Nat /\ DOMAIN list = 1 .. n
      /\ \A i \in 1 .. n : list[i] \in Header
  BY ListIs
<1>. HIDE DEF s
<1>3. CASE list = << >>
  <2>1. new = <<s>> BY <1>3 DEF Upsert
  <2>2. /\ <<s>> \in Seq(Header) /\ DOMAIN <<s>> = {1} /\ <<s>>[1] = s BY <1>1
  <2>3. new \in HeaderLists BY <2>1, <2>2 DEF HeaderLists, Header
  <2>. HIDE DEF new
  <2>4. Enabled(new) = {1} BY <1>1, <2>1, <2>2 DEF Enabled
  <2>5. \A i \in Enabled(new) : new[i].value = value BY <1>1, <2>1, <2>2, <2>4
  <2>. QED BY <2>3, <2>4, <2>5 DEF new, s
<1>4. CASE list # << >>
  <2>. DEFINE t == [s EXCEPT !.disabled = list[n].disabled]
  <2>0. n >= 1 /\ n \in 1 .. n BY <1>2, <1>4, EmptySeq
  <2>1. t \in Header /\ t.value = value /\ t.disabled = list[n].disabled
    BY <1>1, <1>2, <2>0 DEF Header
  <2>2. new = [list EXCEPT ![n] = t] BY <1>4 DEF Upsert
  <2>. HIDE DEF t, new
  <2>3. /\ new \in Seq(Header) /\ Len(new) = n /\ DOMAIN new = 1 .. n /\ new[n] = t
    <3>1. new \in [1 .. n -> Header] BY <1>2, <2>1, <2>2
    <3>2. new \in Seq(Header) /\ Len(new) = n
      <4>. HIDE DEF n
      <4>. QED BY <1>2, <3>1, IsASeq, LenProperties
    <3>. QED BY <1>2, <2>0, <2>2, <3>2
  <2>4. ASSUME n <= 1
        PROVE  /\ \A i \in Enabled(new) : new[i].value = value
               /\ Enabled(list) # {} => Enabled(new) # {}
    <3>1. n = 1 BY <1>2, <2>0, <2>4
    <3>2. \A i \in 1 .. n : i = n BY <3>1
    <3>3. Enabled(new) \subseteq 1 .. n /\ Enabled(list) \subseteq 1 .. n BY <1>2, <2>3, SMTT(30) DEF Enabled
    <3>4. \A i \in Enabled(new) : new[i].value = value BY <2>1, <2>3, <3>2, <3>3
    <3>5. Enabled(list) # {} => n \in Enabled(list) BY <3>2, <3>3
    <3>6. n \in Enabled(list) => n \in Enabled(new) BY <2>0, <2>1, <2>3 DEF Enabled
    <3>. QED BY <3>4, <3>5, <3>6
  <2>. QED BY <2>3, <2>4 DEF new, s, n, HeaderLists, Header
<1>. QED BY <1>3, <1>4

LEMMA MaxEnabled ==
    ASSUME NEW list \in HeaderLists, Enabled(list) # {}
    PROVE  Max(Enabled(list)) \in Enabled(list)
<1>1. Len(list) \in Nat /\ Enabled(list) \subseteq 1 .. Len(list) BY ListIs
<1>. QED BY <1>1, MaxOfSome

LEMMA DisabledIs ==
    ASSUME NEW list \in HeaderLists
    PROVE  LET new == DisableSystem(list)
               m == Max(Enabled(list))
           IN  /\ new \in HeaderLists
               /\ Enabled(new) \subseteq Enabled(list)
               /\ \A i \in Enabled(new) : new[i] = list[i]
               /\ Enabled(new) = {} => NotOwn(list)
               /\ NotOwn(list) => Enabled(new) = Enabled(list) \ {m}
               /\ ~NotOwn(list) => new = list
<1>. DEFINE new == DisableSystem(list)
            m == Max(Enabled(list))
            n == Len(list)
<1>1. list \in Seq(Header) /\ n \in Nat /\ DOMAIN list = 1 .. n
      /\ (\A i \in 1 .. n : list[i] \in Header) /\ Enabled(list) \subseteq 1 .. n
  BY ListIs
<1>2. CASE Enabled(list) # {} /\ NotOwn(list)
  <2>1. new = [list EXCEPT ![m].disabled = TRUE] BY <1>2 DEF DisableSystem
  <2>2. m \in Enabled(list) BY <1>2, MaxEnabled
  <2>3. m \in 1 .. n BY <1>1, <2>2
  <2>. DEFINE t == [list[m] EXCEPT !.disabled = TRUE]
  <2>4. t \in Header /\ t.disabled BY <1>1, <2>3 DEF Header
  <2>5. new = [list EXCEPT ![m] = t] BY <2>1
  <2>. HIDE DEF t, new, m
  <2>6. new \in [1 .. n -> Header] BY <1>1, <2>4, <2>5
  <2>7. new \in Seq(Header)
    <3>. HIDE DEF n
    <3>. QED BY <1>1, <2>6, IsASeq
  <2>8. /\ DOMAIN new = 1 .. n /\ new[m] = t
        /\ \A i \in 1 .. n : i # m => new[i] = list[i]
    BY <1>1, <2>3, <2>5, <2>6
  <2>9. Enabled(new) = Enabled(list) \ {m}
    BY <1>1, <2>4, <2>8 DEF Enabled
  <2>10. \A i \in Enabled(new) : new[i] = list[i] BY <1>1, <2>8, <2>9
  <2>. QED BY <1>2, <2>7, <2>9, <2>10 DEF new, m, HeaderLists, Header
<1>3. CASE ~(Enabled(list) # {} /\ NotOwn(list))
  <2>1. new = list BY <1>3 DEF DisableSystem
  <2>2. Enabled(new) = {} => NotOwn(list) BY <2>1 DEF NotOwn
  <2>3. NotOwn(list) => Enabled(list) = {} BY <1>3
  <2>. HIDE DEF new
  <2>4. NotOwn(list) => Enabled(new) = Enabled(list) \ {m} BY <2>1, <2>3
  <2>. QED BY <2>1, <2>2, <2>4 DEF new
<1>. QED BY <1>2, <1>3

(***************************************************************************)
(* What getRequestOptions does to the headers of one key                    *)
(***************************************************************************)
(* What becomes of the headers of one key. *)
RuntimeType(request, key) ==
    key = "content-type" /\ SendsBody(request) /\ request.body = "raw"

Bodied(request, key) ==
    IF RuntimeType(request, key) THEN AddMissing(request.headers[key], <<"runtime">>)
    ELSE request.headers[key]

Added(request, key) ==
    Configured(IF key \in SystemKeys \ DisabledKeys(request.options)
               THEN AddMissing(Bodied(request, key), <<"runtime">>) ELSE Bodied(request, key),
               key, request.options)

Blockable(request, key) == key \in DisabledKeys(request.options) \cap (AllowedBlacklist \cup {"host"})

Optioned(request, key) ==
    IF Blockable(request, key) THEN DisableSystem(Added(request, key)) ELSE Added(request, key)

LEMMA KeyNames ==
    /\ "content-type" \in Names /\ "content-length" \in Names /\ "host" \in Names
    /\ "cookie" \in Names /\ "transfer-encoding" \in Names
    /\ SystemKeys \subseteq Names /\ AllowedBlacklist \subseteq Names
BY NamesAssumption DEF SystemKeys, AllowedBlacklist

LEMMA OptionsAre ==
    ASSUME NEW request, request.headers \in [Names -> HeaderLists]
    PROVE  LET o == GetRequestOptions(request)
           IN  /\ o.headers = [key \in Names |-> Optioned(request, key)]
               /\ o.setHost <=> ~("host" \in DisabledKeys(request.options)
                                  /\ NotOwn(Added(request, "host")))
               /\ o.blacklist =
                    {key \in AllowedBlacklist \cap DisabledKeys(request.options) :
                        NotOwn(Added(request, key))}
                    \cup {key \in {"transfer-encoding"} :
                        "content-length" \in DisabledKeys(request.options)
                            /\ NotOwn(Added(request, key))}
<1>. DEFINE b == WithBody(request)
            added == AddSystemHeaders(b, request.options)
            disabled == DisabledKeys(request.options)
<1>1. b = [key \in Names |-> Bodied(request, key)]
  <2>1. CASE SendsBody(request) /\ request.body = "raw"
    <3>1. b = [request.headers EXCEPT !["content-type"] = AddMissing(@, <<"runtime">>)]
      BY <2>1 DEF WithBody
    <3>. HIDE DEF b
    <3>2. b = [key \in Names |-> IF key = "content-type"
                                 THEN AddMissing(request.headers[key], <<"runtime">>)
                                 ELSE request.headers[key]]
      BY <3>1
    <3>. QED BY <2>1, <3>2 DEF Bodied, RuntimeType
  <2>2. CASE ~(SendsBody(request) /\ request.body = "raw")
    <3>1. b = request.headers BY <2>2 DEF WithBody
    <3>2. \A key \in Names : Bodied(request, key) = request.headers[key]
      BY <2>2 DEF Bodied, RuntimeType
    <3>. QED BY <3>1, <3>2
  <2>. QED BY <2>1, <2>2
<1>. HIDE DEF b
<1>2. added = [key \in Names |-> Added(request, key)]
  <2>1. DOMAIN b = Names /\ \A key \in Names : b[key] = Bodied(request, key) BY <1>1
  <2>. QED BY <2>1 DEF AddSystemHeaders, Added
<1>3. DOMAIN added = Names /\ \A key \in Names : added[key] = Added(request, key) BY <1>2
<1>4. GetRequestOptions(request) =
        [ headers |-> [key \in DOMAIN added |->
                        IF key \in disabled \cap (AllowedBlacklist \cup {"host"})
                        THEN DisableSystem(added[key]) ELSE added[key]],
          setHost |-> ~("host" \in disabled /\ NotOwn(added["host"])),
          blacklist |-> {key \in AllowedBlacklist \cap disabled : NotOwn(added[key])}
                        \cup {key \in {"transfer-encoding"} :
                                "content-length" \in disabled /\ NotOwn(added[key])} ]
  BY DEF GetRequestOptions, b
<1>. HIDE DEF added
<1>. DEFINE o == GetRequestOptions(request)
<1>5. o.headers = [key \in Names |-> Optioned(request, key)]
  <2>1. o.headers = [key \in DOMAIN added |->
                        IF key \in disabled \cap (AllowedBlacklist \cup {"host"})
                        THEN DisableSystem(added[key]) ELSE added[key]]
    BY <1>4
  <2>. QED BY <1>3, <2>1 DEF Optioned, Blockable
<1>6. o.setHost <=> ~("host" \in disabled /\ NotOwn(Added(request, "host")))
  <2>1. o.setHost = ~("host" \in disabled /\ NotOwn(added["host"])) BY <1>4
  <2>. QED BY <1>3, <2>1, KeyNames
<1>7. o.blacklist = {key \in AllowedBlacklist \cap disabled : NotOwn(Added(request, key))}
                    \cup {key \in {"transfer-encoding"} :
                            "content-length" \in disabled /\ NotOwn(Added(request, key))}
  <2>1. o.blacklist = {key \in AllowedBlacklist \cap disabled : NotOwn(added[key])}
                      \cup {key \in {"transfer-encoding"} :
                              "content-length" \in disabled /\ NotOwn(added[key])}
    BY <1>4
  <2>2. \A key \in AllowedBlacklist \cup {"transfer-encoding"} : added[key] = Added(request, key)
    BY <1>3, KeyNames
  <2>. QED BY <2>1, <2>2
<1>. QED BY <1>5, <1>6, <1>7

(* The runtime has a header of its own for that key. *)
Runtime(request, key) ==
    RuntimeType(request, key) \/ key \in SystemKeys \ DisabledKeys(request.options)

LEMMA AddedIs ==
    ASSUME NEW request, NEW key \in Names, request.headers \in [Names -> HeaderLists],
           key \notin request.options.config
    PROVE  LET list == request.headers[key]
           IN  Added(request, key) = IF Runtime(request, key) /\ Enabled(list) = {}
                                     THEN Append(list, System(<<"runtime">>)) ELSE list
<1>. DEFINE list == request.headers[key]
            runtime == <<"runtime">>
            more == Append(list, System(runtime))
            bodied == Bodied(request, key)
<1>1. Added(request, key) = IF key \in SystemKeys \ DisabledKeys(request.options)
                            THEN AddMissing(bodied, runtime) ELSE bodied
  BY DEF Added, Configured
<1>2. bodied = IF RuntimeType(request, key) /\ Enabled(list) = {} THEN more ELSE list
  BY DEF Bodied, AddMissing
<1>3. AddMissing(list, runtime) = IF Enabled(list) = {} THEN more ELSE list
  BY DEF AddMissing
<1>4. RuntimeType(request, key) => key \notin SystemKeys
  BY DEF RuntimeType, SystemKeys
<1>. QED BY <1>1, <1>2, <1>3, <1>4 DEF Runtime

LEMMA AddedTyped ==
    ASSUME NEW request, NEW key \in Names, request.headers \in [Names -> HeaderLists]
    PROVE  Added(request, key) \in HeaderLists /\ Optioned(request, key) \in HeaderLists
<1>. DEFINE Longer(l, v) == Append(l, System(v))
<1>1. <<"runtime">> \in Seq(Origins) /\ <<"config">> \in Seq(Origins)
  BY OneOrigin DEF Origins
<1>2. \A l \in HeaderLists : AddMissing(l, <<"runtime">>) \in HeaderLists
  BY <1>1, AppendedIs DEF AddMissing
<1>3. Bodied(request, key) \in HeaderLists BY <1>2 DEF Bodied
<1>4. \A l \in HeaderLists : Upsert(l, System(<<"config">>)) \in HeaderLists
  BY <1>1, UpsertIs
<1>5. Added(request, key) \in HeaderLists BY <1>2, <1>3, <1>4 DEF Added, Configured
<1>. QED BY <1>5, DisabledIs DEF Optioned

(* A header of the runtime that is added is its own. *)
LEMMA AppendedNotOwn ==
    ASSUME NEW list \in HeaderLists, Enabled(list) = {}
    PROVE  LET more == Append(list, System(<<"runtime">>))
           IN  NotOwn(more) /\ Enabled(DisableSystem(more)) = {} /\ Enabled(more) # {}
<1>. DEFINE more == Append(list, System(<<"runtime">>))
            n == Len(list) + 1
<1>1. <<"runtime">> \in Seq(Origins) BY OneOrigin DEF Origins
<1>2. more \in HeaderLists /\ more[n] = System(<<"runtime">>) /\ Enabled(more) = {n}
  BY <1>1, AppendedIs
<1>. HIDE DEF more, n
<1>3. Max(Enabled(more)) = n BY <1>2, MaxEnabled
<1>4. NotOwn(more) BY <1>1, <1>2, <1>3, SystemIs DEF NotOwn
<1>5. Enabled(DisableSystem(more)) = Enabled(more) \ {Max(Enabled(more))} BY <1>2, <1>4, DisabledIs
<1>. QED BY <1>2, <1>3, <1>4, <1>5 DEF more

(* A key of which nothing is enabled in the end had nothing of the user's. *)
LEMMA NothingLeft ==
    ASSUME NEW request, NEW key \in Names, request.headers \in [Names -> HeaderLists],
           Enabled(Optioned(request, key)) = {}
    PROVE  NotOwn(Added(request, key))
<1>1. CASE Blockable(request, key)
  BY <1>1, AddedTyped, DisabledIs DEF Optioned
<1>2. CASE ~Blockable(request, key)
  BY <1>2 DEF Optioned, NotOwn
<1>. QED BY <1>1, <1>2

Sent == [key : Names, value : Seq(Origins)]

LEMMA EnabledHeadersAre ==
    ASSUME NEW h \in [Names -> HeaderLists]
    PROVE  /\ EnabledHeaders(h) \subseteq Sent
           /\ \A sent \in EnabledHeaders(h) : \E i \in Enabled(h[sent.key]) :
                    sent.value = h[sent.key][i].value
           /\ \A key \in Names : \A i \in Enabled(h[key]) :
                    [key |-> key, value |-> h[key][i].value] \in EnabledHeaders(h)
           /\ Keys(EnabledHeaders(h)) = {key \in Names : Enabled(h[key]) # {}}
<1>1. \A sent \in EnabledHeaders(h) : \E key \in Names : \E i \in Enabled(h[key]) :
            sent = [key |-> key, value |-> h[key][i].value]
  BY DEF EnabledHeaders
<1>2. \A key \in Names : \A i \in Enabled(h[key]) :
            [key |-> key, value |-> h[key][i].value] \in EnabledHeaders(h)
  BY DEF EnabledHeaders
<1>3. \A key \in Names : \A i \in Enabled(h[key]) : h[key][i].value \in Seq(Origins)
  BY ListIs DEF Header
<1>4. EnabledHeaders(h) \subseteq Sent BY <1>1, <1>3 DEF Sent
<1>5. \A sent \in EnabledHeaders(h) : \E i \in Enabled(h[sent.key]) :
            sent.value = h[sent.key][i].value
  BY <1>1
<1>6. Keys(EnabledHeaders(h)) = {key \in Names : Enabled(h[key]) # {}}
  <2>1. ASSUME NEW sent \in EnabledHeaders(h) PROVE sent.key \in Names /\ Enabled(h[sent.key]) # {}
    BY <1>4, <1>5 DEF Sent
  <2>2. ASSUME NEW key \in Names, Enabled(h[key]) # {} PROVE key \in Keys(EnabledHeaders(h))
    <3>1. PICK i \in Enabled(h[key]) : TRUE BY <2>2
    <3>2. [key |-> key, value |-> h[key][i].value] \in EnabledHeaders(h) BY <1>2
    <3>. QED BY <3>2 DEF Keys
  <2>. QED BY <2>1, <2>2 DEF Keys
<1>. QED BY <1>2, <1>4, <1>5, <1>6

(***************************************************************************)
(* The headers of the user, from round to round                             *)
(***************************************************************************)
(* The keys that must not be sent, unless the header is the user's. *)
Blocked(key) ==
    \/ key \in scenario.options.disabled
    \/ key = "transfer-encoding" /\ "content-length" \in scenario.options.disabled

(* The keys of which the user's headers must be sent. *)
Mine(key) ==
    /\ Enabled(scenario.headers[key]) # {}
    /\ key \notin scenario.options.config
    /\ Node \/ key \notin ForbiddenHeaders

OwnIn(list) == \A i \in Enabled(list) : "own" \in ToSet(list[i].value)

Copied == {"cookie", "content-length"}

KeyKept(key, list) ==
    /\ Mine(key) => /\ Enabled(list) # {} /\ OwnIn(list)
                    /\ key \notin Copied => \A i \in Enabled(list) : ~list[i].system
    /\ Blocked(key) => OwnIn(list)

(* The user does not disable a length of their own, and the runner replaces *)
(* no header that they disable.                                             *)
Consistent ==
    /\ Enabled(scenario.headers["content-length"]) # {} =>
            "content-length" \notin scenario.options.disabled
    /\ \A key \in scenario.options.config : ~Blocked(key)

LEMMA DisabledAre ==
    ASSUME scenario \in Scenarios
    PROVE  /\ scenario.options.disabled \subseteq SystemKeys \cup AllowedBlacklist
           /\ scenario.options.disabled \subseteq DisabledKeys(scenario.options)
           /\ \A key \in AllowedBlacklist \cup {"host"} :
                key \in DisabledKeys(scenario.options) <=> key \in scenario.options.disabled
           /\ ~Blocked("cookie") /\ "transfer-encoding" \notin scenario.options.disabled
<1>1. scenario.options.disabled \subseteq SystemKeys \cup AllowedBlacklist BY ScenariosAssumption
<1>. QED BY <1>1 DEF DisabledKeys, SystemKeys, AllowedBlacklist, Blocked

LEMMA OptionKept ==
    ASSUME scenario \in Scenarios, Consistent, NEW request,
           request.headers \in [Names -> HeaderLists], request.options = scenario.options,
           NEW key \in Names, KeyKept(key, request.headers[key])
    PROVE  /\ KeyKept(key, Optioned(request, key))
           /\ Mine(key) /\ Blocked(key) => ~NotOwn(Added(request, key))
<1>. DEFINE list == request.headers[key]
            added == Added(request, key)
            new == Optioned(request, key)
            more == Append(list, System(<<"runtime">>))
<1>0. /\ list \in HeaderLists /\ added \in HeaderLists /\ new \in HeaderLists
  BY AddedTyped
<1>1. key \notin scenario.options.config =>
        added = IF Runtime(request, key) /\ Enabled(list) = {} THEN more ELSE list
  BY AddedIs
<1>2. new = IF Blockable(request, key) THEN DisableSystem(added) ELSE added BY DEF Optioned
<1>3. /\ Blockable(request, key) => key \in AllowedBlacklist \cup {"host"} /\ key \in scenario.options.disabled
      /\ key \in scenario.options.disabled /\ key \in AllowedBlacklist \cup {"host"} => Blockable(request, key)
  BY DisabledAre DEF Blockable
<1>. HIDE DEF new, added, list, more
<1>4. ASSUME Mine(key)
      PROVE  /\ new = list /\ added = list
             /\ Blocked(key) => ~NotOwn(added)
  <2>1. /\ Enabled(list) # {} /\ OwnIn(list)
        /\ key \notin Copied => \A i \in Enabled(list) : ~list[i].system
    BY <1>4 DEF KeyKept, list
  <2>2. added = list BY <1>1, <1>4, <2>1 DEF Mine
  <2>3. key \notin Copied => ~NotOwn(list)
    BY <1>0, <2>1, MaxEnabled DEF NotOwn
  <2>4. Blocked(key) \/ Blockable(request, key) => key \notin Copied
    <3>1. key = "content-length" => key \notin scenario.options.disabled
      BY <1>4 DEF Consistent, Mine
    <3>2. key = "content-length" => ~Blocked(key) BY <3>1 DEF Blocked
    <3>3. key = "cookie" => ~Blocked(key) BY DisabledAre
    <3>4. Blockable(request, key) => Blocked(key) BY <1>3 DEF Blocked
    <3>. QED BY <3>2, <3>3, <3>4 DEF Copied
  <2>5. Blockable(request, key) => DisableSystem(added) = list BY <1>0, <2>2, <2>3, <2>4, DisabledIs
  <2>. QED BY <1>2, <2>2, <2>3, <2>4, <2>5
<1>5. ASSUME Blocked(key)
      PROVE  OwnIn(new)
  <2>1. key \notin scenario.options.config BY <1>5 DEF Consistent
  <2>2. OwnIn(list) BY <1>5 DEF KeyKept, list
  <2>3. \A l \in HeaderLists : OwnIn(l) => OwnIn(DisableSystem(l)) BY DisabledIs DEF OwnIn
  <2>4. CASE ~(Runtime(request, key) /\ Enabled(list) = {})
    BY <1>0, <1>1, <1>2, <2>1, <2>2, <2>3, <2>4
  <2>5. CASE Runtime(request, key) /\ Enabled(list) = {}
    <3>1. key = "content-type" /\ key \in scenario.options.disabled
      BY <1>5, <2>5, DisabledAre DEF Runtime, RuntimeType, Blocked, SystemKeys
    <3>2. Blockable(request, key) BY <1>3, <3>1 DEF AllowedBlacklist
    <3>3. new = DisableSystem(more) BY <1>1, <1>2, <2>1, <2>5, <3>2
    <3>4. Enabled(new) = {} BY <1>0, <2>5, <3>3, AppendedNotOwn DEF more
    <3>. QED BY <3>4 DEF OwnIn
  <2>. QED BY <2>4, <2>5
<1>6. KeyKept(key, new)
  BY <1>4, <1>5 DEF KeyKept, list
<1>. QED BY <1>4, <1>6 DEF new, added

SentKept(sent) ==
    Mine(sent.key) \/ (Blocked(sent.key) /\ ~TypesForm(sent)) => "own" \in ToSet(sent.value)

WireKept(wire) ==
    /\ wire \subseteq Sent
    /\ \A sent \in wire : SentKept(sent)
    /\ \A key \in Names : Mine(key) => \E sent \in wire : sent.key = key

HeadersKeep(h) == h \in [Names -> HeaderLists] /\ \A key \in Names : KeyKept(key, h[key])

LEMMA OptionsKeep ==
    ASSUME scenario \in Scenarios, Consistent, NEW request,
           HeadersKeep(request.headers), request.options = scenario.options
    PROVE  HeadersKeep(GetRequestOptions(request).headers)
<1>1. GetRequestOptions(request).headers = [key \in Names |-> Optioned(request, key)]
  BY OptionsAre DEF HeadersKeep
<1>2. \A key \in Names : Optioned(request, key) \in HeaderLists BY AddedTyped DEF HeadersKeep
<1>3. \A key \in Names : KeyKept(key, Optioned(request, key)) BY OptionKept DEF HeadersKeep
<1>. QED BY <1>1, <1>2, <1>3 DEF HeadersKeep

LEMMA EnabledKept ==
    ASSUME NEW h, HeadersKeep(h)
    PROVE  WireKept(EnabledHeaders(h))
<1>. DEFINE wire == EnabledHeaders(h)
<1>1. /\ h \in [Names -> HeaderLists] /\ wire \subseteq Sent
      /\ \A sent \in wire : \E i \in Enabled(h[sent.key]) : sent.value = h[sent.key][i].value
      /\ Keys(wire) = {key \in Names : Enabled(h[key]) # {}}
  BY EnabledHeadersAre DEF HeadersKeep
<1>. HIDE DEF wire
<1>2. ASSUME NEW sent \in wire PROVE SentKept(sent)
  <2>1. PICK i \in Enabled(h[sent.key]) : sent.value = h[sent.key][i].value BY <1>1
  <2>2. sent.key \in Names BY <1>1 DEF Sent
  <2>3. Mine(sent.key) \/ Blocked(sent.key) => OwnIn(h[sent.key])
    BY <2>2 DEF HeadersKeep, KeyKept
  <2>. QED BY <2>1, <2>3 DEF OwnIn, SentKept
<1>3. ASSUME NEW key \in Names, Mine(key) PROVE \E sent \in wire : sent.key = key
  <2>1. Enabled(h[key]) # {} BY <1>3 DEF HeadersKeep, KeyKept
  <2>. QED BY <1>1, <2>1 DEF Keys
<1>4. WireKept(wire) BY <1>1, <1>2, <1>3 DEF WireKept
<1>. QED BY <1>4 DEF wire

(* What the library below adds, before the cookies. *)
Missing(own, key, needed) ==
    IF needed /\ key \notin Keys(own) THEN {[key |-> key, value |-> <<"wire">>]} ELSE {}

Complete(request, o) ==
    LET own == EnabledHeaders(o.headers)
        hasLength == "content-length" \notin o.blacklist
    IN  own \cup Missing(own, "host", o.setHost)
            \cup Missing(own, "content-type", SendsBody(request) /\ request.body = "form")
            \cup Missing(own, "content-length", SendsBody(request) \/ request.method = "post")
            \cup Missing(own, "transfer-encoding", SendsBody(request) /\ ~hasLength
                                                    /\ "content-length" \notin Keys(own))

WithoutCookies(request, o) == {header \in Complete(request, o) : header.key \notin o.blacklist}

LEMMA WireIs ==
    ASSUME NEW request, NEW o, NEW jar
    PROVE  Wire(request, o, jar) = WithCookies(WithoutCookies(request, o), jar)
BY DEF Wire, WithoutCookies, Complete, Missing

(* What is sent and is not among the headers of the request. *)
LEMMA CompletedIs ==
    ASSUME NEW request, NEW o, NEW sent \in Complete(request, o),
           sent \notin EnabledHeaders(o.headers)
    PROVE  /\ sent.key \notin Keys(EnabledHeaders(o.headers))
           /\ sent = [key |-> sent.key, value |-> <<"wire">>]
           /\ \/ sent.key = "host" /\ o.setHost
              \/ sent.key = "content-type" /\ SendsBody(request) /\ request.body = "form"
              \/ sent.key = "content-length" /\ (SendsBody(request) \/ request.method = "post")
              \/ sent.key = "transfer-encoding" /\ "content-length" \in o.blacklist
<1>. DEFINE own == EnabledHeaders(o.headers)
<1>1. \E key, needed : sent \in Missing(own, key, needed) /\
            \/ key = "host" /\ needed = o.setHost
            \/ key = "content-type" /\ needed = (SendsBody(request) /\ request.body = "form")
            \/ key = "content-length" /\ needed = (SendsBody(request) \/ request.method = "post")
            \/ key = "transfer-encoding" /\ needed = (SendsBody(request) /\ ~("content-length" \notin o.blacklist)
                                                    /\ "content-length" \notin Keys(own))
  BY DEF Complete
<1>2. PICK key, needed : sent \in Missing(own, key, needed) /\
            \/ key = "host" /\ needed = o.setHost
            \/ key = "content-type" /\ needed = (SendsBody(request) /\ request.body = "form")
            \/ key = "content-length" /\ needed = (SendsBody(request) \/ request.method = "post")
            \/ key = "transfer-encoding" /\ needed = (SendsBody(request) /\ ~("content-length" \notin o.blacklist)
                                                    /\ "content-length" \notin Keys(own))
  BY <1>1
<1>. HIDE DEF own
<1>3. needed /\ key \notin Keys(own) /\ sent = [key |-> key, value |-> <<"wire">>]
  BY <1>2 DEF Missing
<1>4. sent.key = key BY <1>3
<1>. QED BY <1>2, <1>3, <1>4 DEF own

(* A blocked key of which the request has nothing is kept from the wire. *)
LEMMA BlockedOut ==
    ASSUME scenario \in Scenarios, NEW request, request.headers \in [Names -> HeaderLists],
           request.options = scenario.options,
           NEW key \in {"host", "content-type", "content-length", "transfer-encoding"},
           Blocked(key), key \notin Keys(EnabledHeaders(GetRequestOptions(request).headers))
    PROVE  LET o == GetRequestOptions(request)
           IN  IF key = "host" THEN ~o.setHost ELSE key \in o.blacklist
<1>. DEFINE o == GetRequestOptions(request)
<1>1. /\ o.headers = [k \in Names |-> Optioned(request, k)]
      /\ o.setHost <=> ~("host" \in DisabledKeys(request.options)
                         /\ NotOwn(Added(request, "host")))
      /\ o.blacklist = {k \in AllowedBlacklist \cap DisabledKeys(request.options) :
                            NotOwn(Added(request, k))}
                       \cup {k \in {"transfer-encoding"} :
                            "content-length" \in DisabledKeys(request.options)
                                /\ NotOwn(Added(request, k))}
  BY OptionsAre
<1>2. key \in Names BY KeyNames
<1>. HIDE DEF o
<1>3. o.headers \in [Names -> HeaderLists]
  <2>1. \A k \in Names : Optioned(request, k) \in HeaderLists BY AddedTyped
  <2>. QED BY <1>1, <2>1
<1>4. Enabled(Optioned(request, key)) = {}
  <2>1. Keys(EnabledHeaders(o.headers)) = {k \in Names : Enabled(o.headers[k]) # {}}
    BY <1>3, EnabledHeadersAre
  <2>. QED BY <1>1, <1>2, <2>1 DEF o
<1>5. NotOwn(Added(request, key)) BY <1>2, <1>4, NothingLeft
<1>6. \A k \in AllowedBlacklist \cup {"host"} :
            k \in DisabledKeys(request.options) <=> k \in scenario.options.disabled
  BY DisabledAre
<1>7. CASE key = "transfer-encoding"
  <2>1. "content-length" \in scenario.options.disabled BY <1>7, DisabledAre DEF Blocked
  <2>2. "content-length" \in DisabledKeys(request.options) BY <1>6, <2>1 DEF AllowedBlacklist
  <2>. QED BY <1>1, <1>5, <1>7, <2>2 DEF o
<1>8. CASE key # "transfer-encoding"
  <2>1. key \in scenario.options.disabled BY <1>8 DEF Blocked
  <2>2. key \in DisabledKeys(request.options) BY <1>6, <1>8, <2>1 DEF AllowedBlacklist
  <2>. QED BY <1>1, <1>5, <1>8, <2>2 DEF o, AllowedBlacklist
<1>. QED BY <1>7, <1>8

LEMMA WithoutCookiesKept ==
    ASSUME scenario \in Scenarios, Consistent, NEW request,
           HeadersKeep(request.headers), request.options = scenario.options
    PROVE  WireKept(WithoutCookies(request, GetRequestOptions(request)))
<1>. DEFINE o == GetRequestOptions(request)
            own == EnabledHeaders(o.headers)
            all == Complete(request, o)
            wire == WithoutCookies(request, o)
<1>0. request.headers \in [Names -> HeaderLists] /\ \A key \in Names : KeyKept(key, request.headers[key])
  BY DEF HeadersKeep
<1>1. HeadersKeep(o.headers) BY OptionsKeep
<1>2. WireKept(own) BY <1>1, EnabledKept
<1>3. wire = {header \in all : header.key \notin o.blacklist} /\ own \subseteq all
  BY DEF WithoutCookies, Complete
<1>4. ASSUME NEW sent \in wire
      PROVE  sent \in Sent /\ SentKept(sent)
  <2>1. CASE sent \in own BY <1>2, <2>1 DEF WireKept
  <2>2. CASE sent \notin own
    <3>0. sent \in all /\ sent.key \notin o.blacklist BY <1>3
    <3>1. /\ sent.key \notin Keys(own)
          /\ sent = [key |-> sent.key, value |-> <<"wire">>]
          /\ \/ sent.key = "host" /\ o.setHost
             \/ sent.key \in {"content-type", "content-length", "transfer-encoding"}
      BY <2>2, <3>0, CompletedIs
    <3>. DEFINE key == sent.key
    <3>2. key \in Names BY <3>1, KeyNames
    <3>. HIDE DEF own, o, wire, all
    <3>3. sent \in Sent
      <4>1. <<"wire">> \in Seq(Origins) BY OneOrigin DEF Origins
      <4>2. [key |-> key, value |-> <<"wire">>] \in Sent BY <3>2, <4>1 DEF Sent
      <4>. QED BY <3>1, <4>2 DEF key
    <3>4. ~Mine(key)
      <4>1. Mine(key) => \E s \in own : s.key = key BY <1>2, <3>2 DEF WireKept
      <4>. QED BY <3>1, <4>1 DEF Keys
    <3>5. ~Blocked(key)
      <4>1. Blocked(key) => IF key = "host" THEN ~o.setHost ELSE key \in o.blacklist
        BY <1>0, <3>1, BlockedOut DEF o, own
      <4>. QED BY <3>0, <3>1, <4>1
    <3>. QED BY <3>3, <3>4, <3>5 DEF SentKept
  <2>. QED BY <2>1, <2>2
<1>5. ASSUME NEW key \in Names, Mine(key)
      PROVE  \E sent \in wire : sent.key = key
  <2>1. PICK sent \in own : sent.key = key BY <1>2, <1>5 DEF WireKept
  <2>2. key \notin o.blacklist
    <3>1. /\ o.blacklist \subseteq
                {k \in AllowedBlacklist \cap DisabledKeys(request.options) :
                            NotOwn(Added(request, k))}
                       \cup {k \in {"transfer-encoding"} :
                            "content-length" \in DisabledKeys(request.options)
                                /\ NotOwn(Added(request, k))}
      BY <1>0, OptionsAre
    <3>2. Blocked(key) => ~NotOwn(Added(request, key)) BY <1>0, <1>5, OptionKept
    <3>3. key \in o.blacklist => NotOwn(Added(request, key)) /\ Blocked(key)
      <4>1. \A k \in AllowedBlacklist \cup {"host"} :
                k \in DisabledKeys(request.options) <=> k \in scenario.options.disabled
        BY DisabledAre
      <4>. HIDE DEF o
      <4>. QED BY <3>1, <4>1 DEF Blocked, AllowedBlacklist
    <3>. QED BY <3>2, <3>3
  <2>. QED BY <1>3, <2>1, <2>2
<1>6. WireKept(wire)
  <2>. HIDE DEF wire
  <2>. QED BY <1>4, <1>5 DEF WireKept
<1>. QED BY <1>6

LEMMA JarAdded ==
    ASSUME NEW value \in Seq(Origins)
    PROVE  /\ Append(value, "jar") \in Seq(Origins)
           /\ "own" \in ToSet(value) => "own" \in ToSet(Append(value, "jar"))
<1>. DEFINE more == Append(value, "jar")
<1>1. "jar" \in Origins BY DEF Origins
<1>2. /\ more \in Seq(Origins) /\ Len(more) = Len(value) + 1 /\ Len(value) \in Nat
      /\ \A i \in 1 .. Len(value) : more[i] = value[i]
  BY <1>1, AppendProperties, LenProperties
<1>. HIDE DEF more
<1>3. DOMAIN value = 1 .. Len(value) /\ DOMAIN more = 1 .. Len(value) + 1 BY <1>2, LenProperties
<1>4. \A i \in 1 .. Len(value) : i \in 1 .. Len(value) + 1 BY <1>2
<1>5. "own" \in ToSet(value) => "own" \in ToSet(more) BY <1>2, <1>3, <1>4 DEF ToSet
<1>. QED BY <1>2, <1>5 DEF more

LEMMA CookiesKept ==
    ASSUME scenario \in Scenarios, NEW wire, WireKept(wire), NEW jar
    PROVE  WireKept(WithCookies(wire, jar))
<1>. DEFINE own == {header \in wire : header.key = "cookie"}
            cookie == [key |-> "cookie", value |-> <<"jar">>]
            Joined(header) == [header EXCEPT !.value = Append(@, "jar")]
            joined == {Joined(header) : header \in own}
<1>1. WithCookies(wire, jar) = IF ~jar THEN wire ELSE IF own = {} THEN wire \cup {cookie}
                               ELSE (wire \ own) \cup joined
  BY DEF WithCookies
<1>2. /\ wire \subseteq Sent /\ \A sent \in wire : SentKept(sent)
      /\ \A key \in Names : Mine(key) => \E sent \in wire : sent.key = key
  BY DEF WireKept
<1>3. "cookie" \in Names /\ ~Blocked("cookie") BY KeyNames, DisabledAre
<1>4. CASE own = {}
  <2>1. ~Mine("cookie") BY <1>2, <1>3, <1>4
  <2>2. <<"jar">> \in Seq(Origins) BY OneOrigin DEF Origins
  <2>3. cookie \in Sent /\ cookie.key = "cookie" BY <1>3, <2>2 DEF Sent
  <2>. HIDE DEF cookie, own, joined
  <2>4. SentKept(cookie) BY <1>3, <2>1, <2>3 DEF SentKept
  <2>5. WireKept(wire \cup {cookie}) BY <1>2, <2>3, <2>4 DEF WireKept
  <2>. QED BY <1>1, <1>4, <2>5
<1>5. CASE own # {}
  <2>1. ASSUME NEW header \in own
        PROVE  Joined(header) \in Sent /\ Joined(header).key = "cookie" /\ SentKept(Joined(header))
    <3>1. header \in Sent /\ header.key = "cookie" /\ SentKept(header) BY <1>2
    <3>2. /\ header.value \in Seq(Origins) /\ header.key \in Names
          /\ header = [key |-> header.key, value |-> header.value]
      BY <3>1 DEF Sent
    <3>. DEFINE value == Append(header.value, "jar")
    <3>3. /\ value \in Seq(Origins)
          /\ "own" \in ToSet(header.value) => "own" \in ToSet(value)
      BY <3>2, JarAdded
    <3>4. Joined(header) = [header EXCEPT !.value = value] OBVIOUS
    <3>. HIDE DEF value, Joined
    <3>5. Joined(header) \in Sent /\ Joined(header).key = "cookie" /\ Joined(header).value = value
      BY <3>1, <3>3, <3>4 DEF Sent
    <3>6. SentKept(Joined(header)) BY <1>3, <3>1, <3>3, <3>5 DEF SentKept
    <3>. QED BY <3>5, <3>6
  <2>. HIDE DEF Joined
  <2>2. \A key \in Names : Mine(key) => \E sent \in (wire \ own) \cup joined : sent.key = key
    <3>. SUFFICES ASSUME NEW key \in Names, Mine(key)
         PROVE  \E sent \in (wire \ own) \cup joined : sent.key = key
      OBVIOUS
    <3>1. CASE key = "cookie"
      <4>1. PICK header \in own : TRUE BY <1>5
      <4>2. Joined(header) \in joined /\ Joined(header).key = "cookie" BY <2>1
      <4>. QED BY <3>1, <4>2
    <3>2. CASE key # "cookie"
      <4>1. PICK sent \in wire : sent.key = key BY <1>2
      <4>2. sent \notin own BY <3>2, <4>1
      <4>. QED BY <4>1, <4>2
    <3>. QED BY <3>1, <3>2
  <2>3. WireKept((wire \ own) \cup joined)
    <3>1. \A sent \in joined : sent \in Sent /\ SentKept(sent) BY <2>1
    <3>. HIDE DEF joined, own
    <3>. QED BY <1>2, <2>2, <3>1 DEF WireKept
  <2>4. CASE jar BY <1>1, <1>5, <2>3, <2>4
  <2>5. CASE ~jar BY <1>1, <2>5
  <2>. QED BY <2>4, <2>5
<1>. QED BY <1>4, <1>5

KeptHeaders == {h \in [Names -> HeaderLists] : HeadersKeep(h)}
KeptWires == {wire \in SUBSET Sent : WireKept(wire)}

(* What the headers of the request keep from round to round, and the wires  *)
(* have.                                                                    *)
Kept ==
    /\ headers \in KeptHeaders
    /\ wires \in Seq(KeptWires)
    /\ link.stage \notin {"none", "jar"} => wires # << >>
    /\ link.stage = "jar" => ~Node

LEMMA KeptSame ==
    ASSUME scenario' = scenario
    PROVE  KeptHeaders' = KeptHeaders /\ KeptWires' = KeptWires /\ (Consistent' <=> Consistent)
<1>1. \A key : (Mine(key)' <=> Mine(key)) /\ (Blocked(key)' <=> Blocked(key)) BY DEF Mine, Blocked, Node
<1>2. \A key, list : KeyKept(key, list)' <=> KeyKept(key, list) BY <1>1 DEF KeyKept, OwnIn
<1>3. \A sent : SentKept(sent)' <=> SentKept(sent) BY <1>1 DEF SentKept, TypesForm, Node
<1>4. KeptHeaders' = KeptHeaders BY <1>2 DEF KeptHeaders, HeadersKeep
<1>5. KeptWires' = KeptWires BY <1>1, <1>3 DEF KeptWires, WireKept
<1>. QED BY <1>4, <1>5 DEF Consistent, Blocked

LEMMA OwnHeadersKept ==
    ASSUME scenario \in Scenarios
    PROVE  scenario.headers \in KeptHeaders
<1>1. scenario.headers \in [Names -> UserLists] BY ScenariosAssumption
<1>2. ASSUME NEW key \in Names
      PROVE  scenario.headers[key] \in HeaderLists /\ KeyKept(key, scenario.headers[key])
  <2>. DEFINE list == scenario.headers[key]
              Users == [value : {<<"own">>}, disabled : BOOLEAN, system : {FALSE}]
  <2>1. list \in Seq(Users) BY <1>1 DEF UserLists
  <2>2. Len(list) \in Nat /\ DOMAIN list = 1 .. Len(list) /\ \A i \in 1 .. Len(list) : list[i] \in Users
    BY <2>1, LenProperties, ElementOfSeq
  <2>3. <<"own">> \in Seq(Origins) BY OneOrigin DEF Origins
  <2>4. Users \subseteq Header BY <2>3 DEF Header
  <2>. HIDE DEF list
  <2>5. \A i \in 1 .. Len(list) : list[i].value = <<"own">> /\ list[i].system = FALSE BY <2>2
  <2>. HIDE DEF Users
  <2>6. list \in Seq(Header)
    <3>1. list \in [1 .. Len(list) -> Header] BY <2>1, <2>2, <2>4, LenProperties
    <3>. QED BY <2>2, <3>1, IsASeq
  <2>7. "own" \in ToSet(<<"own">>) BY DEF ToSet
  <2>8. OwnIn(list) /\ \A i \in Enabled(list) : ~list[i].system
    BY <2>2, <2>5, <2>7 DEF OwnIn, Enabled
  <2>9. KeyKept(key, list) BY <2>8 DEF KeyKept, Mine, list
  <2>. QED BY <2>6, <2>9 DEF list, HeaderLists, Header
<1>. QED BY <1>1, <1>2 DEF KeptHeaders, HeadersKeep

LEMMA BrowserKeeps ==
    ASSUME ~Node, NEW h \in KeptHeaders
    PROVE  BrowserHeaders(h) \in KeptHeaders
<1>. DEFINE new == BrowserHeaders(h)
<1>1. h \in [Names -> HeaderLists] /\ \A key \in Names : KeyKept(key, h[key])
  BY DEF KeptHeaders, HeadersKeep
<1>2. new = [key \in Names |->
                IF key \in ForbiddenHeaders /\ Enabled(h[key]) # {} THEN << >> ELSE h[key]]
  BY <1>1 DEF BrowserHeaders
<1>3. << >> \in HeaderLists /\ Enabled(<< >>) = {} BY EmptySeq DEF HeaderLists, Enabled
<1>4. \A key \in ForbiddenHeaders : KeyKept(key, << >>) BY <1>3 DEF KeyKept, Mine, OwnIn
<1>. HIDE DEF new
<1>5. new \in [Names -> HeaderLists] /\ \A key \in Names : KeyKept(key, new[key])
  BY <1>1, <1>2, <1>3, <1>4
<1>. QED BY <1>5 DEF new, KeptHeaders, HeadersKeep

LEMMA OverwriteKeeps ==
    ASSUME NEW h \in KeptHeaders, NEW wire \in KeptWires
    PROVE  AddMissingRequestHeaders(h, wire) \in KeptHeaders
<1>. DEFINE new == AddMissingRequestHeaders(h, wire)
            sent(key) == CHOOSE header \in wire : header.key = key
<1>1. h \in [Names -> HeaderLists] /\ \A key \in Names : KeyKept(key, h[key])
  BY DEF KeptHeaders, HeadersKeep
<1>2. wire \subseteq Sent /\ \A header \in wire : SentKept(header) BY DEF KeptWires, WireKept
<1>3. new = [key \in Names |-> IF key \in Copied /\ key \in Keys(wire)
                               THEN Overwrite(h[key], sent(key).value) ELSE h[key]]
  BY <1>1 DEF AddMissingRequestHeaders, Copied
<1>4. ASSUME NEW key \in Names, key \in Copied, key \in Keys(wire)
      PROVE  /\ Overwrite(h[key], sent(key).value) \in HeaderLists
             /\ KeyKept(key, Overwrite(h[key], sent(key).value))
  <2>. DEFINE list == h[key]
              value == sent(key).value
              over == Overwrite(list, value)
  <2>1. sent(key) \in wire /\ sent(key).key = key BY <1>4 DEF Keys
  <2>2. value \in Seq(Origins) /\ (Mine(key) \/ Blocked(key) => "own" \in ToSet(value))
    BY <1>2, <1>4, <2>1 DEF Sent, SentKept, TypesForm, Copied
  <2>3. list \in HeaderLists /\ KeyKept(key, list) /\ Len(list) \in Nat BY <1>1, ListIs
  <2>4. over = IF Len(list) > 1 THEN <<System(value)>> ELSE Upsert(list, System(value))
    BY DEF Overwrite
  <2>. HIDE DEF value, list, over
  <2>5. /\ over \in HeaderLists
        /\ \A i \in Enabled(over) : over[i].value = value
        /\ Enabled(list) # {} => Enabled(over) # {}
    <3>1. CASE Len(list) > 1
      <4>. DEFINE s == System(value)
      <4>1. s \in Header /\ s.value = value /\ ~s.disabled BY <2>2, SystemIs
      <4>2. over = <<s>> BY <2>4, <3>1
      <4>. HIDE DEF s
      <4>3. over \in Seq(Header) /\ DOMAIN over = {1} /\ over[1] = s BY <4>1, <4>2
      <4>4. Enabled(over) = {1} BY <4>1, <4>3 DEF Enabled
      <4>. QED BY <4>1, <4>3, <4>4 DEF HeaderLists, Header
    <3>2. CASE ~(Len(list) > 1)
      <4>1. Len(list) <= 1 BY <2>3, <3>2
      <4>2. over = Upsert(list, System(value)) BY <2>4, <3>2
      <4>. QED BY <2>2, <2>3, <4>1, <4>2, UpsertIs
    <3>. QED BY <3>1, <3>2
  <2>6. Mine(key) \/ Blocked(key) => OwnIn(over) BY <2>2, <2>5 DEF OwnIn
  <2>7. Mine(key) => Enabled(over) # {} BY <2>3, <2>5 DEF KeyKept
  <2>8. KeyKept(key, over) BY <1>4, <2>6, <2>7 DEF KeyKept
  <2>. QED BY <2>5, <2>8 DEF over, list, value
<1>. HIDE DEF new, sent
<1>5. new \in [Names -> HeaderLists] /\ \A key \in Names : KeyKept(key, new[key])
  BY <1>1, <1>3, <1>4
<1>. QED BY <1>5 DEF new, KeptHeaders, HeadersKeep

LEMMA SendKeeps ==
    ASSUME scenario \in Scenarios, Consistent, headers \in KeptHeaders
    PROVE  LET o == GetRequestOptions(Request)
           IN  o.headers \in KeptHeaders /\ Wire(Request, o, scenario.jar) \in KeptWires
<1>. DEFINE r == Request
            o == GetRequestOptions(r)
<1>1. HeadersKeep(r.headers) /\ r.options = scenario.options BY DEF KeptHeaders, Request
<1>. HIDE DEF r
<1>2. HeadersKeep(o.headers) BY <1>1, OptionsKeep
<1>3. WireKept(WithoutCookies(r, o)) BY <1>1, WithoutCookiesKept
<1>. DEFINE wire == Wire(r, o, scenario.jar)
<1>4. WireKept(wire) BY <1>3, CookiesKept, WireIs
<1>. HIDE DEF wire, o
<1>5. wire \in KeptWires BY <1>4 DEF KeptWires, WireKept
<1>. QED BY <1>2, <1>5 DEF wire, o, r, KeptHeaders, HeadersKeep

(* The cookie of the jar replaces the last one. *)
LEMMA CookieIs ==
    ASSUME NEW list \in HeaderLists
    PROVE  XhrCookie(list) \in HeaderLists
<1>. DEFINE n == Len(list)
            s == [ value |-> <<"jar">>, disabled |-> FALSE,
                   system |-> list # << >> /\ list[n].system ]
            new == Upsert(list, s)
<1>1. list \in Seq(Header) /\ n \in Nat /\ DOMAIN list = 1 .. n
      /\ \A i \in 1 .. n : list[i] \in Header
  BY ListIs
<1>2. <<"jar">> \in Seq(Origins) BY OneOrigin DEF Origins
<1>3. \A b : b = (list # << >> /\ list[n].system) => b \in BOOLEAN
  <2>1. list # << >> => n \in 1 .. n BY <1>1, EmptySeq
  <2>2. list # << >> => list[n].system \in BOOLEAN BY <1>1, <2>1 DEF Header
  <2>. QED BY <2>2
<1>4. s \in Header BY <1>2, <1>3 DEF Header
<1>5. XhrCookie(list) = new BY DEF XhrCookie
<1>. HIDE DEF s
<1>6. CASE list = << >>
  <2>1. new = <<s>> BY <1>6 DEF Upsert
  <2>2. <<s>> \in Seq(Header) BY <1>4
  <2>. QED BY <1>5, <2>1, <2>2 DEF HeaderLists, Header
<1>7. CASE list # << >>
  <2>. DEFINE t == [s EXCEPT !.disabled = list[n].disabled]
  <2>1. n \in 1 .. n BY <1>1, <1>7, EmptySeq
  <2>2. t \in Header BY <1>1, <1>4, <2>1 DEF Header
  <2>3. new = [list EXCEPT ![n] = t] BY <1>7 DEF Upsert
  <2>. HIDE DEF t, new
  <2>4. new \in [1 .. n -> Header] BY <1>1, <2>2, <2>3
  <2>5. new \in Seq(Header)
    <3>. HIDE DEF n
    <3>. QED BY <1>1, <2>4, IsASeq
  <2>. QED BY <1>5, <2>5 DEF HeaderLists, Header
<1>. QED BY <1>6, <1>7

(* XMLHttpRequest is given the headers of the request, the type of a form   *)
(* that has none, and the cookies of the jar.                               *)
LEMMA OpenKeeps ==
    ASSUME scenario \in Scenarios, ~Node, headers \in KeptHeaders
    PROVE  /\ XhrWire(Request, scenario.jar) \in KeptWires
           /\ [headers EXCEPT !["cookie"] = XhrCookie(@)] \in KeptHeaders
<1>0. "cookie" \in Names /\ ~Blocked("cookie") /\ ~Mine("cookie")
  BY KeyNames, DisabledAre DEF Mine, ForbiddenHeaders
<1>1. <<"jar">> \in Seq(Origins) /\ <<"wire">> \in Seq(Origins) BY OneOrigin DEF Origins
<1>2. XhrWire(Request, scenario.jar) \in KeptWires
  <2>. DEFINE own == EnabledHeaders(headers)
              c == [key |-> "cookie", value |-> <<"jar">>]
              f == [key |-> "content-type", value |-> <<"wire">>]
              all == XhrWire(Request, scenario.jar)
  <2>1. WireKept(own) BY EnabledKept DEF KeptHeaders
  <2>2. c \in Sent /\ c.key = "cookie" BY <1>0, <1>1 DEF Sent
  <2>3. f \in Sent /\ f.key = "content-type" BY KeyNames, <1>1 DEF Sent
  <2>4. /\ own \subseteq all /\ all \subseteq own \cup {c, f}
        /\ f \in all => f \in own \/ (scenario.body = "form" /\ "content-type" \notin Keys(own))
    BY DEF XhrWire, Request
  <2>5. SentKept(c) BY <1>0, <2>2 DEF SentKept
  <2>6. f \in all => SentKept(f)
    <3>1. CASE f \in own BY <2>1, <3>1 DEF WireKept
    <3>2. CASE f \in all /\ f \notin own
      <4>1. scenario.body = "form" /\ "content-type" \notin Keys(own) BY <2>4, <3>2
      <4>2. TypesForm(f) BY <4>1 DEF TypesForm
      <4>3. ~Mine("content-type") BY <2>1, <4>1, KeyNames DEF WireKept, Keys
      <4>. QED BY <2>3, <4>2, <4>3 DEF SentKept
    <3>. QED BY <3>1, <3>2
  <2>. HIDE DEF own, c, f, all
  <2>7. all \subseteq Sent /\ \A sent \in all : SentKept(sent)
    BY <2>1, <2>2, <2>3, <2>4, <2>5, <2>6 DEF WireKept
  <2>8. \A key \in Names : Mine(key) => \E sent \in all : sent.key = key
    BY <2>1, <2>4 DEF WireKept
  <2>9. all \in KeptWires BY <2>7, <2>8 DEF WireKept, KeptWires
  <2>. QED BY <2>9 DEF all
<1>3. ASSUME NEW new, new = [headers EXCEPT !["cookie"] = XhrCookie(@)]
      PROVE  new \in KeptHeaders
  <2>. DEFINE more == XhrCookie(headers["cookie"])
  <2>1. headers \in [Names -> HeaderLists] /\ \A key \in Names : KeyKept(key, headers[key])
    BY DEF KeptHeaders, HeadersKeep
  <2>2. more \in HeaderLists BY <1>0, <2>1, CookieIs
  <2>3. new = [headers EXCEPT !["cookie"] = more] BY <1>3
  <2>4. KeyKept("cookie", more) BY <1>0 DEF KeyKept
  <2>. HIDE DEF more
  <2>5. new \in [Names -> HeaderLists] BY <1>0, <2>1, <2>2, <2>3
  <2>6. \A key \in Names : KeyKept(key, new[key])
    <3>1. new["cookie"] = more /\ \A key \in Names : key # "cookie" => new[key] = headers[key]
      BY <1>0, <2>1, <2>3
    <3>. QED BY <2>1, <2>4, <3>1
  <2>. QED BY <2>5, <2>6 DEF KeptHeaders, HeadersKeep
<1>. QED BY <1>2, <1>3

LEMMA LastWire ==
    ASSUME wires \in Seq(KeptWires), wires # << >>
    PROVE  Last(wires) \in KeptWires
<1>1. Len(wires) \in Nat /\ Len(wires) >= 1 BY LenProperties, EmptySeq
<1>2. Len(wires) \in 1 .. Len(wires) BY <1>1
<1>. QED BY <1>2, ElementOfSeq DEF Last

LEMMA KeptStep ==
    ASSUME Typed, Consistent, Kept, [Next]_vars
    PROVE  Kept'
<1>0. /\ scenario \in Scenarios /\ link \in Links
      /\ headers \in KeptHeaders /\ wires \in Seq(KeptWires)
      /\ link.stage \notin {"none", "jar"} => wires # << >>
      /\ link.stage = "jar" => ~Node
  BY DEF Typed, Kept
<1>1. scenario' = scenario /\ KeptHeaders' = KeptHeaders /\ KeptWires' = KeptWires
      /\ (Node' <=> Node)
  BY ScenarioSame, KeptSame DEF Node
<1>2. ASSUME headers' \in KeptHeaders, wires' = wires,
             \/ link'.stage = link.stage
             \/ wires # << >> /\ link'.stage # "jar"
      PROVE  Kept'
  BY <1>0, <1>1, <1>2 DEF Kept
<1>3. ASSUME wires # << >> PROVE Overwritten \in KeptHeaders
  BY <1>0, <1>3, LastWire, OverwriteKeeps DEF Overwritten
<1>4. CASE Refuse
  <2>1. headers' \in KeptHeaders BY <1>0, <1>4, SendKeeps DEF Refuse
  <2>. QED BY <1>2, <1>4, <2>1 DEF Refuse
<1>5. CASE Send
  <2>. DEFINE o == GetRequestOptions(Request)
              wire == Wire(Request, o, scenario.jar)
  <2>1. o.headers \in KeptHeaders /\ wire \in KeptWires BY <1>0, SendKeeps
  <2>2. IF Node
        THEN /\ headers' = o.headers
             /\ wires' = Append(wires, wire)
             /\ link' = [IdleLink EXCEPT !.stage = "lookup"]
        ELSE /\ headers' = BrowserHeaders(o.headers)
             /\ wires' = wires
             /\ link' = [IdleLink EXCEPT !.stage = "jar"]
    BY <1>5 DEF Send
  <2>. HIDE DEF o, wire
  <2>3. CASE Node
    <3>1. Append(wires, wire) \in Seq(KeptWires) /\ Append(wires, wire) # << >>
      <4>1. Append(wires, wire) \in Seq(KeptWires) /\ Len(Append(wires, wire)) = Len(wires) + 1
        BY <1>0, <2>1, AppendProperties
      <4>2. Len(wires) \in Nat BY <1>0, LenProperties
      <4>. QED BY <4>1, <4>2, EmptySeq
    <3>2. link'.stage = "lookup" BY <2>2, <2>3 DEF IdleLink
    <3>. QED BY <1>1, <2>1, <2>2, <2>3, <3>1, <3>2 DEF Kept
  <2>4. CASE ~Node
    <3>1. link'.stage = "jar" BY <2>2, <2>4 DEF IdleLink
    <3>2. headers' \in KeptHeaders BY <2>1, <2>2, <2>4, BrowserKeeps
    <3>. QED BY <1>0, <1>1, <2>2, <2>4, <3>1, <3>2 DEF Kept
  <2>. QED BY <2>3, <2>4
<1>6. CASE Lookup
  <2>1. link'.stage \in {"sending", "over"} BY <1>0, <1>6 DEF Lookup, Links
  <2>2. wires # << >> BY <1>0, <1>6 DEF Lookup
  <2>. QED BY <1>0, <1>2, <1>6, <2>1, <2>2 DEF Lookup
<1>7. CASE Respond
  <2>1. wires # << >> BY <1>0, <1>7 DEF Respond
  <2>2. headers' \in KeptHeaders BY <1>3, <1>7, <2>1 DEF Respond
  <2>3. link'.stage = "body" BY <1>0, <1>7 DEF Respond, Links
  <2>. QED BY <1>2, <1>7, <2>1, <2>2, <2>3 DEF Respond
<1>8. CASE Chunk
  BY <1>0, <1>2, <1>8 DEF Chunk
<1>9. CASE BodyEnds
  <2>1. wires # << >> /\ link'.stage = "over" BY <1>0, <1>9 DEF BodyEnds, Links
  <2>. QED BY <1>0, <1>2, <1>9, <2>1 DEF BodyEnds
<1>10. CASE NetworkFails
  <2>1. wires # << >> /\ link'.stage = "over" BY <1>0, <1>10 DEF NetworkFails, Links
  <2>. QED BY <1>0, <1>2, <1>10, <2>1 DEF NetworkFails
<1>11. CASE Abort
  <2>1. link'.stage = link.stage BY <1>0, <1>11 DEF Abort, Links
  <2>. QED BY <1>0, <1>2, <1>11, <2>1 DEF Abort
<1>12. CASE CookiesGot
  BY <1>0, <1>2, <1>12 DEF CookiesGot
<1>13. CASE XhrOpen
  <2>. DEFINE wire == XhrWire(Request, scenario.jar)
              joined == [headers EXCEPT !["cookie"] = XhrCookie(@)]
  <2>1. ~Node BY <1>0, <1>13 DEF XhrOpen
  <2>2. wire \in KeptWires /\ joined \in KeptHeaders BY <1>0, <2>1, OpenKeeps
  <2>3. wires' = Append(wires, wire) /\ headers' = IF scenario.jar THEN joined ELSE headers
    BY <1>13 DEF XhrOpen
  <2>4. link'.stage = "opened"
    <3>1. PICK timer, failed, e : link' = [link EXCEPT !.stage = "opened", !.timer = timer,
                                                       !.response = failed, !.end = e]
      BY <1>13 DEF XhrOpen
    <3>. QED BY <1>0, <3>1 DEF Links
  <2>. HIDE DEF wire, joined
  <2>5. Append(wires, wire) \in Seq(KeptWires) /\ Append(wires, wire) # << >>
    <3>1. Append(wires, wire) \in Seq(KeptWires) /\ Len(Append(wires, wire)) = Len(wires) + 1
      BY <1>0, <2>2, AppendProperties
    <3>2. Len(wires) \in Nat BY <1>0, LenProperties
    <3>. QED BY <3>1, <3>2, EmptySeq
  <2>. QED BY <1>0, <1>1, <2>1, <2>2, <2>3, <2>4, <2>5 DEF Kept
<1>14. CASE TooLate
  <2>1. link'.stage = link.stage BY <1>0, <1>14 DEF TooLate, Links
  <2>. QED BY <1>0, <1>2, <1>14, <2>1 DEF TooLate
<1>15. CASE StateChange
  <2>1. ~Node /\ wires # << >> /\ wires' = wires BY <1>0, <1>15 DEF StateChange
  <2>2. headers' \in KeptHeaders
    <3>1. headers' \in {Overwritten, headers} BY <1>15 DEF StateChange
    <3>. QED BY <1>0, <1>3, <2>1, <3>1
  <2>. QED BY <1>1, <1>0, <2>1, <2>2 DEF Kept
<1>16. CASE CookiesStored
  <2>1. link'.stage = link.stage BY <1>0, <1>16 DEF CookiesStored, Links
  <2>. QED BY <1>0, <1>2, <1>16, <2>1 DEF CookiesStored
<1>17. CASE UNCHANGED vars
  BY <1>0, <1>2, <1>17 DEF vars
<1>. QED BY <1>4, <1>5, <1>6, <1>7, <1>8, <1>9, <1>10, <1>11, <1>12, <1>13, <1>14, <1>15, <1>16,
            <1>17 DEF Next

(* The headers of the request keep those of the user through                *)
(* getRequestOptions, the removal of what browsers forbid and the copy of   *)
(* what the wire overwrote, as often as the request is sent; each wire has  *)
(* them.                                                                    *)
THEOREM KeptInv == Spec => [](Consistent => Kept)
<1>1. Init /\ Typed /\ Consistent => Kept
  <2>. SUFFICES ASSUME Init, Typed PROVE Kept OBVIOUS
  <2>1. headers \in KeptHeaders BY OwnHeadersKept DEF Init, Typed
  <2>2. wires \in Seq(KeptWires) BY EmptySeq DEF Init
  <2>. QED BY <2>1, <2>2 DEF Init, IdleLink, Kept
<1>2. Typed /\ (Consistent => Kept) /\ [Next]_vars => (Consistent => Kept)'
  <2>. SUFFICES ASSUME Typed, Consistent => Kept, [Next]_vars, Consistent'
       PROVE  Kept'
    OBVIOUS
  <2>1. Consistent BY ScenarioSame, KeptSame
  <2>. QED BY <2>1, KeptStep
<1>. QED BY <1>1, <1>2, TypedInv, PTL DEF Spec

LEMMA KeptHeadersKept ==
    ASSUME Typed, Kept
    PROVE  HeadersKept
<1>1. \A k \in DOMAIN wires : WireKept(wires[k])
  BY ElementOfSeq, LenProperties DEF Kept, KeptWires
<1>2. UserHeadersSent
  <2>. SUFFICES ASSUME NEW k \in DOMAIN wires, NEW key \in Names,
                       NEW i \in Enabled(scenario.headers[key]),
                       key \notin scenario.options.config, Node \/ key \notin ForbiddenHeaders
       PROVE  \E sent \in wires[k] : sent.key = key /\ "own" \in ToSet(sent.value)
    BY DEF UserHeadersSent
  <2>1. Mine(key) BY DEF Mine
  <2>. QED BY <1>1, <2>1 DEF WireKept, SentKept
<1>3. DisabledNotSent
  BY <1>1 DEF DisabledNotSent, WireKept, SentKept, Blocked
<1>. QED BY <1>2, <1>3 DEF HeadersKept

(* Each time the request is sent, every header that the user enabled leaves *)
(* with it, and none that they disabled is added by the runtime or by the   *)
(* library below it (core.js, requester.js).                                *)
THEOREM HeadersInv == Spec => [](Consistent => HeadersKept)
<1>1. Typed /\ (Consistent => Kept) => (Consistent => HeadersKept) BY KeptHeadersKept
<1>. QED BY <1>1, TypedInv, KeptInv, PTL

(***************************************************************************)
(* The dry run: what it does to the headers of one key                      *)
(***************************************************************************)
Users(list) == list \in HeaderLists /\ \A i \in 1 .. Len(list) : ~list[i].system

(* The list with headers of the runtime after it. *)
Grows(t, list) ==
    /\ t \in HeaderLists /\ Len(t) >= Len(list)
    /\ \A i \in 1 .. Len(list) : t[i] = list[i]
    /\ \A i \in Len(list) + 1 .. Len(t) : t[i].system /\ ~t[i].disabled

LEMMA GrowsMore ==
    ASSUME NEW list \in HeaderLists, NEW t, Grows(t, list), NEW value \in Seq(Origins), NEW new
    PROVE  /\ Grows(AppendIf(t, new, value), list)
           /\ new => Len(AppendIf(t, new, value)) > Len(list)
           /\ Len(t) > Len(list) => Len(AppendIf(t, new, value)) > Len(list)
<1>. DEFINE s == System(value)
            more == Append(t, s)
            n == Len(list)
            m == Len(t)
<1>1. t \in HeaderLists /\ m \in Nat /\ n \in Nat /\ m >= n BY ListIs DEF Grows
<1>2. CASE ~new
  <2>1. AppendIf(t, new, value) = t BY <1>2 DEF AppendIf
  <2>. QED BY <1>2, <2>1
<1>3. CASE new
  <2>1. AppendIf(t, new, value) = more BY <1>3 DEF AppendIf
  <2>2. /\ more \in HeaderLists /\ Len(more) = m + 1
        /\ \A i \in 1 .. m : more[i] = t[i]
        /\ more[m + 1] = s
    BY <1>1, AppendedIs
  <2>3. s.system /\ ~s.disabled BY SystemIs
  <2>. HIDE DEF more, s
  <2>4. /\ \A i \in 1 .. n : t[i] = list[i]
        /\ \A i \in n + 1 .. m : t[i].system /\ ~t[i].disabled
    BY DEF Grows
  <2>. HIDE DEF n, m
  <2>5. \A i \in 1 .. n : more[i] = list[i]
    <3>1. \A i \in 1 .. n : i \in 1 .. m BY <1>1
    <3>. QED BY <2>2, <2>4, <3>1
  <2>6. \A i \in n + 1 .. m + 1 : more[i].system /\ ~more[i].disabled
    <3>1. \A i \in n + 1 .. m + 1 : i = m + 1 \/ (i \in n + 1 .. m /\ i \in 1 .. m) BY <1>1
    <3>. QED BY <2>2, <2>3, <2>4, <3>1
  <2>7. m + 1 >= n /\ m + 1 > n BY <1>1
  <2>8. Grows(more, list) BY <2>2, <2>5, <2>6, <2>7 DEF Grows, n
  <2>. QED BY <2>1, <2>2, <2>7, <2>8 DEF n
<1>. QED BY <1>2, <1>3

(* Without the headers of the runtime, the headers of the user are all. *)
FlatDef(f, s) == f = [i \in 1 .. Len(s) |-> IF i = 1 THEN s[i] ELSE f[i - 1] \o s[i]]

LEMMA PrefixNext ==
    ASSUME NEW S, NEW list \in Seq(S), NEW i \in 1 .. Len(list)
    PROVE  /\ SubSeq(list, 1, 1) = <<list[1]>>
           /\ i > 1 => SubSeq(list, 1, i) = SubSeq(list, 1, i - 1) \o <<list[i]>>
<1>. DEFINE n == Len(list)
            P(j) == SubSeq(list, 1, j)
<1>1. n \in Nat /\ i \in Nat /\ 1 <= i /\ i <= n BY LenProperties
<1>2. \A j \in 1 .. n : list[j] \in S BY ElementOfSeq
<1>3. \A j \in 0 .. n : /\ P(j) \in Seq(S) /\ Len(P(j)) = j
                        /\ \A k \in 1 .. j : P(j)[k] = list[k]
  <2>. SUFFICES ASSUME NEW j \in 0 .. n
                PROVE  /\ P(j) \in Seq(S) /\ Len(P(j)) = j
                       /\ \A k \in 1 .. j : P(j)[k] = list[k]
    OBVIOUS
  <2>. DEFINE b == SubSeq(list, 1, j)
  <2>1. j \in Nat /\ j <= n BY <1>1
  <2>2. \A k \in 1 .. j : list[k] \in S BY <1>1, <1>2, <2>1
  <2>3. /\ b \in Seq(S) /\ Len(b) = (IF 1 <= j THEN j - 1 + 1 ELSE 0)
        /\ \A k \in 1 .. j - 1 + 1 : b[k] = list[1 + k - 1]
    BY <2>1, <2>2, SubSeqProperties
  <2>. HIDE DEF b, n
  <2>4. (IF 1 <= j THEN j - 1 + 1 ELSE 0) = j /\ j - 1 + 1 = j BY <2>1
  <2>5. \A k \in 1 .. j : 1 + k - 1 = k BY <2>1
  <2>6. b \in Seq(S) /\ Len(b) = j /\ \A k \in 1 .. j : b[k] = list[k] BY <2>3, <2>4, <2>5
  <2>. QED BY <2>6 DEF b
<1>. HIDE DEF P, n
<1>4. P(1) = <<list[1]>>
  <2>. DEFINE c == <<list[1]>>
  <2>1. 1 \in 0 .. n /\ 1 \in 1 .. n /\ 1 \in 1 .. 1 BY <1>1
  <2>2. P(1) \in Seq(S) /\ Len(P(1)) = 1 /\ P(1)[1] = list[1] BY <1>3, <2>1
  <2>3. c \in Seq(S) /\ Len(c) = 1 /\ c[1] = list[1] BY <1>2, <2>1
  <2>. HIDE DEF c
  <2>4. \A k \in 1 .. 1 : P(1)[k] = c[k] BY <2>2, <2>3
  <2>5. P(1) = c BY <2>2, <2>3, <2>4, SeqEqual
  <2>. QED BY <2>5 DEF c
<1>5. ASSUME i > 1 PROVE P(i) = P(i - 1) \o <<list[i]>>
  <2>. DEFINE a == P(i - 1)
              c == <<list[i]>>
              d == a \o c
  <2>1. i - 1 \in 0 .. n /\ i \in 0 .. n /\ i \in 1 .. n /\ i - 1 \in Nat BY <1>1, <1>5 DEF n
  <2>2. a \in Seq(S) /\ Len(a) = i - 1 /\ \A k \in 1 .. i - 1 : a[k] = list[k] BY <1>3, <2>1
  <2>3. P(i) \in Seq(S) /\ Len(P(i)) = i /\ \A k \in 1 .. i : P(i)[k] = list[k] BY <1>3, <2>1
  <2>4. c \in Seq(S) /\ Len(c) = 1 /\ c[1] = list[i] BY <1>2, <2>1
  <2>. HIDE DEF a, c
  <2>5. /\ d \in Seq(S) /\ Len(d) = Len(a) + Len(c)
        /\ \A k \in 1 .. Len(a) + Len(c) : d[k] = IF k <= Len(a) THEN a[k] ELSE c[k - Len(a)]
    BY <2>2, <2>4, ConcatProperties
  <2>. HIDE DEF d
  <2>6. Len(d) = i BY <1>1, <2>2, <2>4, <2>5
  <2>7. \A k \in 1 .. i : d[k] = list[k]
    <3>. SUFFICES ASSUME NEW k \in 1 .. i PROVE d[k] = list[k] OBVIOUS
    <3>1. CASE k = i
      <4>1. ~(k <= Len(a)) /\ k - Len(a) = 1 /\ k \in 1 .. Len(a) + Len(c) BY <1>1, <2>2, <2>4, <3>1
      <4>. QED BY <2>4, <2>5, <3>1, <4>1
    <3>2. CASE k # i
      <4>1. k <= Len(a) /\ k \in 1 .. i - 1 /\ k \in 1 .. Len(a) + Len(c) BY <1>1, <2>2, <2>4, <3>2
      <4>. QED BY <2>2, <2>5, <4>1
    <3>. QED BY <3>1, <3>2
  <2>8. \A k \in 1 .. i : P(i)[k] = d[k] BY <2>3, <2>7
  <2>9. P(i) = d BY <2>3, <2>5, <2>6, <2>8, SeqEqual
  <2>. QED BY <2>9 DEF d, c, a
<1>. QED BY <1>4, <1>5 DEF P

LEMMA FlattenIs ==
    ASSUME NEW S, NEW list \in Seq(S)
    PROVE  FlattenSeq([i \in DOMAIN list |-> <<list[i]>>]) = list
<1>. DEFINE n == Len(list)
            s == [i \in 1 .. n |-> <<list[i]>>]
            g == [i \in 1 .. n |-> SubSeq(list, 1, i)]
            f == CHOOSE f : FlatDef(f, s)
<1>1. n \in Nat /\ DOMAIN list = 1 .. n BY LenProperties
<1>2. Len(s) = n /\ \A i \in 1 .. n : s[i] = <<list[i]>>
  <2>1. \A i \in 1 .. n : <<list[i]>> \in Seq(S) BY ElementOfSeq
  <2>2. s \in [1 .. n -> Seq(S)] BY <2>1
  <2>3. s \in Seq(Seq(S)) /\ Len(s) = n
    <3>. HIDE DEF n, s
    <3>. QED BY <1>1, <2>2, IsASeq, LenProperties
  <2>. QED BY <2>3
<1>. HIDE DEF s
<1>3. FlattenSeq(s) = IF n = 0 THEN s ELSE f[n]
  <2>1. FlattenSeq(s) = IF Len(s) = 0 THEN s ELSE f[Len(s)] BY DEF FlattenSeq, FlatDef
  <2>. HIDE DEF f
  <2>. QED BY <1>2, <2>1
<1>4. CASE n = 0
  <2>1. list = << >> BY <1>4, EmptySeq
  <2>2. s = << >> BY <1>4, <2>1 DEF s
  <2>. QED BY <1>1, <1>3, <1>4, <2>1, <2>2 DEF s
<1>5. CASE n # 0
  <2>. DEFINE P(i) == SubSeq(list, 1, i)
  <2>0. \A i \in 1 .. n : /\ P(1) = <<list[1]>>
                          /\ i > 1 => P(i) = P(i - 1) \o <<list[i]>>
    BY PrefixNext
  <2>1. FlatDef(g, s)
    <3>. HIDE DEF P
    <3>1. \A i \in 1 .. n : g[i] = P(i) BY DEF P
    <3>2. \A i \in 1 .. n : i = 1 \/ (i > 1 /\ i - 1 \in 1 .. n) BY <1>1
    <3>3. \A i \in 1 .. n : P(i) = IF i = 1 THEN s[i] ELSE g[i - 1] \o s[i]
      BY <1>2, <2>0, <3>1, <3>2
    <3>4. g = [i \in 1 .. n |-> P(i)] BY DEF P
    <3>. HIDE DEF g, n
    <3>5. g = [i \in 1 .. n |-> IF i = 1 THEN s[i] ELSE g[i - 1] \o s[i]] BY <3>3, <3>4
    <3>. QED BY <1>2, <3>5 DEF FlatDef
  <2>2. FlatDef(f, s) BY <2>1
  <2>. HIDE DEF f, g, P, n
  <2>. DEFINE T == {k \in Nat : k + 1 \in 1 .. n => f[k + 1] = P(k + 1)}
  <2>3. \A i \in 1 .. n : f[i] = IF i = 1 THEN s[i] ELSE f[i - 1] \o s[i] BY <1>2, <2>2 DEF FlatDef
  <2>4. 0 \in T
    <3>1. 1 \in 1 .. n BY <1>1, <1>5
    <3>2. f[1] = P(1) BY <1>2, <2>0, <2>3, <3>1
    <3>. QED BY <3>2
  <2>5. ASSUME NEW k \in Nat, k \in T PROVE k + 1 \in T
    <3>. SUFFICES ASSUME k + 1 + 1 \in 1 .. n PROVE f[k + 1 + 1] = P(k + 1 + 1) OBVIOUS
    <3>. DEFINE i == k + 1 + 1
    <3>1. i \in 1 .. n /\ i > 1 /\ i - 1 = k + 1 /\ k + 1 \in 1 .. n BY <1>1
    <3>2. f[k + 1] = P(k + 1) BY <2>5, <3>1
    <3>. HIDE DEF i, T
    <3>3. f[i] = f[i - 1] \o <<list[i]>>
      <4>1. i # 1 BY <3>1
      <4>2. f[i] = f[i - 1] \o s[i] BY <2>3, <3>1, <4>1
      <4>3. s[i] = <<list[i]>> BY <1>2, <3>1
      <4>. QED BY <4>2, <4>3
    <3>4. P(i) = P(i - 1) \o <<list[i]>> BY <2>0, <3>1
    <3>5. f[i - 1] = P(i - 1) BY <3>1, <3>2
    <3>6. f[i] = P(i) BY <3>3, <3>4, <3>5
    <3>. QED BY <3>6 DEF i
  <2>6. Nat \subseteq T
    <3>. HIDE DEF T
    <3>. QED BY <2>4, <2>5, SetInduction
  <2>7. f[n] = P(n)
    <3>1. n - 1 \in Nat /\ n - 1 + 1 = n /\ n \in 1 .. n BY <1>1, <1>5
    <3>2. n - 1 \in T BY <2>6, <3>1
    <3>. QED BY <3>1, <3>2
  <2>8. P(n) = list
    <3>. DEFINE b == SubSeq(list, 1, n)
    <3>1. \A i \in 1 .. n : list[i] \in S BY ElementOfSeq DEF n
    <3>2. b \in Seq(S) /\ Len(b) = (IF 1 <= n THEN n - 1 + 1 ELSE 0)
          /\ \A i \in 1 .. n - 1 + 1 : b[i] = list[1 + i - 1]
      BY <1>1, <3>1, SubSeqProperties
    <3>. HIDE DEF b
    <3>3. n - 1 + 1 = n /\ 1 <= n BY <1>1, <1>5
    <3>4. \A i \in 1 .. n : 1 + i - 1 = i BY <1>1
    <3>5. \A i \in 1 .. n : b[i] = list[i] BY <3>2, <3>3, <3>4
    <3>6. b = list BY <3>2, <3>3, <3>5, SeqEqual DEF n
    <3>. QED BY <3>6 DEF b, P
  <2>. QED BY <1>1, <1>3, <1>5, <2>7, <2>8 DEF s
<1>. QED BY <1>4, <1>5

LEMMA UsersKept ==
    ASSUME NEW list, Users(list)
    PROVE  FlattenSeq([i \in DOMAIN list |-> IF list[i].system THEN << >> ELSE <<list[i]>>]) = list
<1>1. list \in Seq(Header) /\ DOMAIN list = 1 .. Len(list) BY ListIs DEF Users
<1>2. [i \in DOMAIN list |-> IF list[i].system THEN << >> ELSE <<list[i]>>]
        = [i \in DOMAIN list |-> <<list[i]>>]
  BY <1>1 DEF Users
<1>. QED BY <1>1, <1>2, FlattenIs

(* The dry run, for one key. *)
DryAdded(request, key, jar) ==
    LET typed == DryContentType(request.headers[key], key, request)
        cookie == DryCookie(DryContentLength(typed, key, request.method), key, jar)
    IN  DryStatic(cookie, key, request.options.implicit)

DryKey(request, key, jar) == DryDisable(DryAdded(request, key, jar), key, request.options.disabled)

LEMMA DryIs ==
    ASSUME NEW request, DOMAIN request.headers = Names, NEW jar
    PROVE  DryRun(request, jar) = [key \in Names |-> DryKey(request, key, jar)]
BY DEF DryRun, DryKey, DryAdded

(* What the dry run adds to the headers of the user. *)
Needed(request, key, jar) ==
    \/ HasBody(request) /\ key \in {"content-type", "content-length"}
    \/ key = "content-length" /\ request.method # "get"
    \/ key = "cookie" /\ jar
    \/ key \in SystemKeys \ IF request.options.implicit THEN {} ELSE {"cache-control", "postman-token"}

LEMMA DryAddedIs ==
    ASSUME NEW request, NEW key, NEW jar, Users(request.headers[key])
    PROVE  LET t == DryAdded(request, key, jar)
           IN  /\ Grows(t, request.headers[key])
               /\ Needed(request, key, jar) => Len(t) > Len(request.headers[key])
<1>. DEFINE list == request.headers[key]
            More(t) == Len(t) > Len(list)
            a == DryContentType(list, key, request)
            b == DryContentLength(a, key, request.method)
            c == DryCookie(b, key, jar)
            static == key \in SystemKeys \ IF request.options.implicit THEN {}
                                           ELSE {"cache-control", "postman-token"}
            t == DryAdded(request, key, jar)
<1>0. <<"runtime">> \in Seq(Origins) /\ <<"jar">> \in Seq(Origins) BY OneOrigin DEF Origins
<1>1. list \in HeaderLists /\ Len(list) \in Nat BY ListIs DEF Users
<1>2. Grows(list, list) BY <1>1 DEF Grows
<1>3. t = DryStatic(c, key, request.options.implicit) BY DEF DryAdded
<1>. HIDE DEF list, t
<1>4. Grows(a, list) /\ (HasBody(request) /\ key \in {"content-type", "content-length"} => More(a))
  <2>. DEFINE new == HasBody(request) /\ key \in {"content-type", "content-length"}
  <2>1. a = AppendIf(list, new, <<"runtime">>) BY DEF DryContentType
  <2>. HIDE DEF new, a
  <2>2. Grows(a, list) /\ (new => More(a)) BY <1>0, <1>1, <1>2, <2>1, GrowsMore
  <2>. QED BY <2>2 DEF new
<1>5. ASSUME key \notin {"content-type", "content-length", "cookie"} PROVE c = list
  BY <1>5 DEF DryContentType, DryContentLength, DryCookie, AppendIf
<1>. HIDE DEF a
<1>6. /\ Grows(b, list) /\ (More(a) => More(b))
      /\ key = "content-length" /\ request.method # "get" => More(b)
  <2>. DEFINE last == a # << >> /\ a[Len(a)].system
              new == key = "content-length" /\ request.method # "get" /\ ~last
  <2>1. b = AppendIf(a, new, <<"runtime">>) BY DEF DryContentLength
  <2>2. last => More(a)
    <3>1. a \in HeaderLists /\ Len(a) \in Nat /\ Len(a) >= Len(list) BY <1>4, ListIs DEF Grows
    <3>2. a # << >> => Len(a) \in 1 .. Len(a)
      <4>1. a \in Seq(Header) BY <3>1, ListIs
      <4>2. a # << >> => Len(a) # 0 BY <4>1, EmptySeq
      <4>. QED BY <3>1, <4>2
    <3>3. Len(a) \in 1 .. Len(list) => ~a[Len(a)].system
      BY <1>4 DEF Grows, Users, list
    <3>. HIDE DEF b
    <3>. QED BY <1>1, <3>1, <3>2, <3>3
  <2>. HIDE DEF new, b
  <2>3. Grows(b, list) /\ (new => More(b)) /\ (More(a) => More(b)) BY <1>0, <1>1, <1>4, <2>1, GrowsMore
  <2>. QED BY <2>2, <2>3 DEF new
<1>. HIDE DEF b
<1>7. Grows(c, list) /\ (More(b) => More(c)) /\ (key = "cookie" /\ jar => More(c))
  <2>. DEFINE new == key = "cookie" /\ jar
  <2>1. c = AppendIf(b, new, <<"jar">>) BY DEF DryCookie
  <2>. HIDE DEF new, c
  <2>2. Grows(c, list) /\ (new => More(c)) /\ (More(b) => More(c)) BY <1>0, <1>1, <1>6, <2>1, GrowsMore
  <2>. QED BY <2>2 DEF new
<1>. HIDE DEF c
<1>8. t = AppendIf(c, static, <<"runtime">>)
  <2>. DEFINE own == FlattenSeq([i \in DOMAIN c |-> IF c[i].system THEN << >> ELSE <<c[i]>>])
  <2>1. t = AppendIf(IF key = "host" THEN own ELSE c, static, <<"runtime">>) BY <1>3 DEF DryStatic
  <2>2. key = "host" => own = c
    <3>. HIDE DEF own
    <3>1. key = "host" => c = list BY <1>5
    <3>. QED BY <3>1, UsersKept DEF own, list
  <2>. HIDE DEF own, static
  <2>. QED BY <2>1, <2>2
<1>. HIDE DEF static
<1>9. Grows(t, list) /\ (More(c) => More(t)) /\ (static => More(t))
  BY <1>0, <1>1, <1>7, <1>8, GrowsMore
<1>. HIDE DEF More
<1>10. Needed(request, key, jar) => More(t) BY <1>4, <1>6, <1>7, <1>9 DEF Needed, static
<1>. QED BY <1>9, <1>10 DEF list, t, More

LEMMA OwnUsers ==
    ASSUME scenario \in Scenarios
    PROVE  /\ scenario.headers \in [Names -> HeaderLists]
           /\ \A key \in Names : Users(scenario.headers[key])
<1>1. scenario.headers \in [Names -> HeaderLists] BY OwnHeadersKept DEF KeptHeaders
<1>2. ASSUME NEW key \in Names PROVE Users(scenario.headers[key])
  <2>. DEFINE list == scenario.headers[key]
              Own == [value : {<<"own">>}, disabled : BOOLEAN, system : {FALSE}]
  <2>1. list \in Seq(Own) BY ScenariosAssumption DEF UserLists
  <2>2. \A i \in 1 .. Len(list) : list[i] \in Own BY <2>1, LenProperties, ElementOfSeq
  <2>3. list \in HeaderLists BY <1>1
  <2>. HIDE DEF list
  <2>4. \A i \in 1 .. Len(list) : ~list[i].system BY <2>2
  <2>5. Users(list) BY <2>3, <2>4 DEF Users
  <2>. QED BY <2>5 DEF list
<1>. QED BY <1>1, <1>2

(* A header that the user enabled, or that is added and not disabled, is    *)
(* among those of the dry run.                                              *)
LEMMA DryKeyEnabled ==
    ASSUME NEW request, NEW key, NEW jar, Users(request.headers[key]),
           \/ Enabled(request.headers[key]) # {}
           \/ Needed(request, key, jar) /\ key \notin request.options.disabled
    PROVE  Enabled(DryKey(request, key, jar)) # {}
<1>. DEFINE list == request.headers[key]
            t == DryAdded(request, key, jar)
            dry == DryKey(request, key, jar)
            n == Len(list)
            m == Len(t)
            cut == key \in request.options.disabled /\ t # << >> /\ t[m].system
<1>1. Grows(t, list) /\ (Needed(request, key, jar) => m > n) BY DryAddedIs
<1>2. dry = IF cut THEN [t EXCEPT ![m].disabled = TRUE] ELSE t BY DEF DryKey, DryDisable
<1>3. /\ list \in HeaderLists /\ n \in Nat /\ Enabled(list) \subseteq 1 .. n /\ DOMAIN list = 1 .. n
      /\ \A i \in 1 .. n : ~list[i].system
  BY ListIs DEF Users
<1>4. /\ t \in Seq(Header) /\ m \in Nat /\ DOMAIN t = 1 .. m /\ m >= n
      /\ \A i \in 1 .. n : t[i] = list[i]
      /\ \A i \in n + 1 .. m : ~t[i].disabled
  BY <1>1, ListIs DEF Grows
<1>5. (Enabled(list) # {}) \/ (Needed(request, key, jar) /\ ~cut) OBVIOUS
<1>. HIDE DEF list, t, dry, n, m, cut
<1>6. ASSUME Enabled(list) # {} PROVE Enabled(dry) # {}
  <2>1. PICK i \in Enabled(list) : TRUE BY <1>6
  <2>2. i \in 1 .. n /\ ~list[i].disabled /\ i \in 1 .. m
    <3>1. i \in 1 .. n /\ ~list[i].disabled BY <1>3, <2>1 DEF Enabled
    <3>. QED BY <1>3, <1>4, <3>1
  <2>3. i \in DOMAIN t /\ ~t[i].disabled BY <1>4, <2>2
  <2>4. cut => i # m
    <3>1. cut => t[m].system BY DEF cut
    <3>. QED BY <1>3, <1>4, <2>2, <3>1
  <2>5. i \in DOMAIN dry /\ dry[i] = t[i] BY <1>2, <2>3, <2>4
  <2>. QED BY <2>3, <2>5 DEF Enabled
<1>7. ASSUME Needed(request, key, jar) /\ ~cut PROVE Enabled(dry) # {}
  <2>1. m > n /\ m \in n + 1 .. m /\ m \in 1 .. m BY <1>1, <1>3, <1>4, <1>7 DEF m, n, t, list
  <2>2. m \in Enabled(t) BY <1>4, <2>1 DEF Enabled
  <2>. QED BY <1>2, <1>7, <2>2
<1>8. Enabled(dry) # {} BY <1>5, <1>6, <1>7
<1>. QED BY <1>8 DEF dry

LEMMA OutIsSent ==
    ASSUME NEW request, request.headers \in [Names -> HeaderLists]
    PROVE  WithoutCookies(request, GetRequestOptions(request)) \subseteq Sent
<1>. DEFINE o == GetRequestOptions(request)
            own == EnabledHeaders(o.headers)
            all == Complete(request, o)
<1>1. o.headers \in [Names -> HeaderLists]
  <2>1. o.headers = [k \in Names |-> Optioned(request, k)] BY OptionsAre
  <2>2. \A k \in Names : Optioned(request, k) \in HeaderLists BY AddedTyped
  <2>. QED BY <2>1, <2>2
<1>2. own \subseteq Sent BY <1>1, EnabledHeadersAre
<1>3. ASSUME NEW sent \in all, sent \notin own PROVE sent \in Sent
  <2>1. /\ sent = [key |-> sent.key, value |-> <<"wire">>]
        /\ sent.key \in {"host", "content-type", "content-length", "transfer-encoding"}
    BY <1>3, CompletedIs
  <2>. DEFINE key == sent.key
  <2>2. key \in Names BY <2>1, KeyNames
  <2>3. <<"wire">> \in Seq(Origins) BY OneOrigin DEF Origins
  <2>. HIDE DEF all, own, o
  <2>4. [key |-> key, value |-> <<"wire">>] \in Sent BY <2>2, <2>3 DEF Sent
  <2>. QED BY <2>1, <2>4
<1>4. WithoutCookies(request, o) \subseteq all BY DEF WithoutCookies
<1>. HIDE DEF all, own, o
<1>. QED BY <1>2, <1>3, <1>4 DEF o

LEMMA CookieKeys ==
    ASSUME NEW wire \in SUBSET Sent, NEW jar, NEW key \in Keys(WithCookies(wire, jar))
    PROVE  key \in Keys(wire) \/ (key = "cookie" /\ jar)
<1>. DEFINE own == {header \in wire : header.key = "cookie"}
            cookie == [key |-> "cookie", value |-> <<"jar">>]
            Joined(header) == [header EXCEPT !.value = Append(@, "jar")]
            joined == {Joined(header) : header \in own}
<1>1. WithCookies(wire, jar) = IF ~jar THEN wire ELSE IF own = {} THEN wire \cup {cookie}
                               ELSE (wire \ own) \cup joined
  BY DEF WithCookies
<1>2. cookie.key = "cookie" OBVIOUS
<1>3. \A sent \in joined : sent.key = "cookie"
  <2>1. \A header \in own : Joined(header).key = "cookie" BY DEF Sent
  <2>. QED BY <2>1
<1>4. PICK sent \in WithCookies(wire, jar) : sent.key = key BY DEF Keys
<1>. HIDE DEF own, cookie, joined
<1>5. sent \in wire \/ (jar /\ sent.key = "cookie") BY <1>1, <1>2, <1>3, <1>4
<1>. QED BY <1>4, <1>5 DEF Keys

LEMMA DryPromises ==
    ASSUME scenario \in Scenarios, NEW request, request.headers = scenario.headers,
           request.options = scenario.options, NEW jar,
           NEW key \in Keys(Wire(request, GetRequestOptions(request), jar)),
           key \notin scenario.options.config
    PROVE  key \in Keys(EnabledHeaders(DryRun(request, jar)))
<1>. DEFINE o == GetRequestOptions(request)
            own == EnabledHeaders(o.headers)
            wire == WithoutCookies(request, o)
            list == request.headers[key]
            dry == DryRun(request, jar)
<1>1. request.headers \in [Names -> HeaderLists] /\ \A k \in Names : Users(request.headers[k])
  BY OwnUsers
<1>2. wire \subseteq Sent BY <1>1, OutIsSent
<1>3. key \in Keys(wire) \/ (key = "cookie" /\ jar)
  <2>1. Wire(request, o, jar) = WithCookies(wire, jar) BY WireIs
  <2>. HIDE DEF wire
  <2>. QED BY <1>2, <2>1, CookieKeys
<1>4. key \in Names
  <2>1. key \in Keys(wire) => key \in Names
    <3>. HIDE DEF wire
    <3>. QED BY <1>2 DEF Keys, Sent
  <2>. QED BY <1>3, <2>1, KeyNames
<1>5. /\ o.headers = [k \in Names |-> Optioned(request, k)]
      /\ o.headers \in [Names -> HeaderLists]
  BY <1>1, OptionsAre, AddedTyped
<1>6. Keys(own) = {k \in Names : Enabled(Optioned(request, k)) # {}}
  <2>1. Keys(own) = {k \in Names : Enabled(o.headers[k]) # {}} BY <1>5, EnabledHeadersAre
  <2>. HIDE DEF own, o
  <2>. QED BY <1>5, <2>1
<1>7. list \in HeaderLists BY <1>1, <1>4
<1>8. ASSUME key \in Keys(own), Enabled(list) = {}
      PROVE  Needed(request, key, jar) /\ key \notin request.options.disabled
  <2>. DEFINE added == Added(request, key)
              new == Optioned(request, key)
              more == Append(list, System(<<"runtime">>))
  <2>1. Enabled(new) # {} BY <1>6, <1>8
  <2>2. added = IF Runtime(request, key) THEN more ELSE list BY <1>1, <1>4, <1>8, AddedIs
  <2>3. new = IF Blockable(request, key) THEN DisableSystem(added) ELSE added BY DEF Optioned
  <2>. HIDE DEF added, new, more, list
  <2>4. Enabled(DisableSystem(list)) = {} BY <1>7, <1>8, DisabledIs
  <2>5. Runtime(request, key) BY <1>8, <2>1, <2>2, <2>3, <2>4
  <2>6. Enabled(DisableSystem(more)) = {} BY <1>7, <1>8, AppendedNotOwn DEF more
  <2>7. ~Blockable(request, key) BY <2>1, <2>2, <2>3, <2>5, <2>6
  <2>8. key \notin request.options.disabled
    <3>1. key \in SystemKeys \ DisabledKeys(request.options) => key \notin request.options.disabled
      BY DEF DisabledKeys
    <3>2. key = "content-type" => key \notin request.options.disabled
      BY <2>7 DEF Blockable, DisabledKeys, AllowedBlacklist
    <3>. QED BY <2>5, <3>1, <3>2 DEF Runtime, RuntimeType
  <2>9. Needed(request, key, jar)
    BY <2>5 DEF Runtime, RuntimeType, Needed, SendsBody, DisabledKeys
  <2>. QED BY <2>8, <2>9
<1>9. ASSUME key \in Keys(wire), key \notin Keys(own)
      PROVE  Needed(request, key, jar) /\ key \notin request.options.disabled
  <2>1. PICK sent \in wire : sent.key = key BY <1>9 DEF Keys
  <2>2. sent \in Complete(request, o) /\ key \notin o.blacklist BY <2>1 DEF WithoutCookies
  <2>3. sent \notin own BY <1>9, <2>1 DEF Keys
  <2>4. \/ key = "host" /\ o.setHost
        \/ key = "content-type" /\ SendsBody(request) /\ request.body = "form"
        \/ key = "content-length" /\ (SendsBody(request) \/ request.method = "post")
        \/ key = "transfer-encoding" /\ "content-length" \in o.blacklist
    BY <2>1, <2>2, <2>3, CompletedIs
  <2>5. key \in {"host", "content-type", "content-length", "transfer-encoding"} BY <2>4
  <2>6. Blocked(key) => IF key = "host" THEN ~o.setHost ELSE key \in o.blacklist
    BY <1>1, <1>9, <2>5, BlockedOut
  <2>7. ~Blocked(key) BY <2>2, <2>4, <2>6
  <2>8. key # "transfer-encoding"
    <3>1. "content-length" \in o.blacklist => "content-length" \in DisabledKeys(request.options)
      BY <1>1, OptionsAre
    <3>2. "content-length" \in DisabledKeys(request.options) => "content-length" \in scenario.options.disabled
      BY DisabledAre DEF AllowedBlacklist
    <3>. HIDE DEF o
    <3>. QED BY <2>4, <2>7, <3>1, <3>2 DEF Blocked
  <2>9. Needed(request, key, jar)
    BY <2>4, <2>8 DEF Needed, SendsBody, SystemKeys
  <2>. QED BY <2>7, <2>9 DEF Blocked
<1>10. ASSUME key = "cookie", jar
       PROVE  Needed(request, key, jar) /\ key \notin request.options.disabled
  BY <1>10, DisabledAre DEF Needed, Blocked
<1>11. Enabled(DryKey(request, key, jar)) # {}
  <2>1. \/ Enabled(list) # {}
        \/ Needed(request, key, jar) /\ key \notin request.options.disabled
    <3>. HIDE DEF wire, own, list
    <3>. QED BY <1>3, <1>8, <1>9, <1>10
  <2>. QED BY <1>1, <1>4, <2>1, DryKeyEnabled
<1>12. dry = [k \in Names |-> DryKey(request, k, jar)] BY <1>1, DryIs
<1>. HIDE DEF dry
<1>13. key \in Keys(EnabledHeaders(dry))
  <2>1. dry[key] = DryKey(request, key, jar) /\ key \in DOMAIN dry BY <1>4, <1>12
  <2>2. PICK i \in Enabled(dry[key]) : TRUE BY <1>11, <2>1
  <2>. DEFINE s == [key |-> key, value |-> dry[key][i].value]
  <2>3. s \in EnabledHeaders(dry) BY <2>1 DEF EnabledHeaders
  <2>4. s.key = key OBVIOUS
  <2>. HIDE DEF s
  <2>. QED BY <2>3, <2>4 DEF Keys
<1>. QED BY <1>13 DEF dry

(***************************************************************************)
(* The dry run, and what is sent first                                      *)
(***************************************************************************)
Sendable == scenario.url # "empty" /\ ~Restricted(scenario.url)

FirstRequest == [Request EXCEPT !.headers = scenario.headers]
FirstWire == Wire(FirstRequest, GetRequestOptions(FirstRequest), scenario.jar)

Sequence(s) == \E S : s \in Seq(S)

(* On Node, until something has been sent the headers are the user's: what  *)
(* is refused is refused again.                                             *)
FirstSent ==
    Node => /\ link.stage # "jar"
            /\ link.stage # "none" => wires # << >>
            /\ Sequence(wires)
            /\ wires = << >> /\ Sendable => headers = scenario.headers
            /\ wires # << >> => wires[1] = FirstWire

LEMMA SequenceAppend ==
    ASSUME NEW s, Sequence(s), NEW e
    PROVE  LET t == Append(s, e)
           IN  /\ Sequence(t) /\ t # << >>
               /\ t[1] = IF s = << >> THEN e ELSE s[1]
<1>1. PICK S : s \in Seq(S) BY DEF Sequence
<1>. DEFINE R == S \cup {e}
            t == Append(s, e)
            n == Len(s)
<1>2. n \in Nat /\ s \in [1 .. n -> S] BY <1>1, LenProperties
<1>3. s \in Seq(R)
  <2>1. s \in [1 .. n -> R] BY <1>2
  <2>. HIDE DEF R, n
  <2>. QED BY <1>2, <2>1, IsASeq
<1>4. e \in R OBVIOUS
<1>. HIDE DEF R
<1>5. t \in Seq(R) /\ Len(t) = n + 1 /\ t[n + 1] = e /\ \A i \in 1 .. n : t[i] = s[i]
  BY <1>3, <1>4, AppendProperties
<1>. HIDE DEF t
<1>6. t # << >> BY <1>2, <1>5, EmptySeq
<1>7. Sequence(t) BY <1>5 DEF Sequence
<1>8. CASE s = << >>
  <2>1. n = 0 /\ n + 1 = 1 BY <1>8, EmptySeq
  <2>. HIDE DEF n
  <2>. QED BY <1>5, <1>6, <1>7, <1>8, <2>1 DEF t
<1>9. CASE s # << >>
  <2>1. n # 0 BY <1>1, <1>9, EmptySeq
  <2>2. 1 \in 1 .. n BY <1>2, <2>1
  <2>. HIDE DEF n
  <2>. QED BY <1>5, <1>6, <1>7, <1>9, <2>2 DEF t
<1>. QED BY <1>8, <1>9

LEMMA FirstSame ==
    ASSUME scenario' = scenario
    PROVE  (Node' <=> Node) /\ (Sendable' <=> Sendable) /\ FirstWire' = FirstWire
<1>1. FirstRequest = [headers |-> scenario.headers, method |-> scenario.method,
                      body |-> scenario.body, options |-> scenario.options]
  BY DEF FirstRequest, Request
<1>2. FirstRequest' = [headers |-> scenario.headers, method |-> scenario.method,
                       body |-> scenario.body, options |-> scenario.options]
  BY DEF FirstRequest, Request
<1>3. FirstRequest' = FirstRequest BY <1>1, <1>2
<1>. HIDE DEF FirstRequest
<1>4. FirstWire' = Wire(FirstRequest', GetRequestOptions(FirstRequest'), scenario.jar)
  BY DEF FirstWire
<1>5. FirstWire' = FirstWire BY ONLY <1>3, <1>4 DEF FirstWire
<1>. QED BY <1>5 DEF Node, Sendable, Restricted

LEMMA FirstStep ==
    ASSUME Typed, FirstSent, [Next]_vars, Node
    PROVE  FirstSent'
<1>0. /\ link \in Links
      /\ link.stage # "jar"
      /\ link.stage # "none" => wires # << >>
      /\ Sequence(wires)
      /\ wires = << >> /\ Sendable => headers = scenario.headers
      /\ wires # << >> => wires[1] = FirstWire
  BY DEF Typed, FirstSent
<1>1. scenario' = scenario /\ (Sendable' <=> Sendable) /\ FirstWire' = FirstWire
  BY ScenarioSame, FirstSame
<1>2. ASSUME wires' = wires,
             \/ wires # << >> /\ link'.stage # "jar"
             \/ link'.stage = link.stage /\ (headers' = headers \/ ~Sendable)
      PROVE  FirstSent'
  <2>1. Sequence(wires)' BY <1>0, <1>2 DEF Sequence
  <2>. QED BY <1>0, <1>1, <1>2, <2>1 DEF FirstSent
<1>4. CASE Refuse
  <2>1. ~Sendable /\ wires' = wires /\ link' = link BY <1>4 DEF Refuse, Sendable
  <2>. QED BY <1>2, <2>1
<1>5. CASE Send
  <2>. DEFINE w == Wire(Request, GetRequestOptions(Request), scenario.jar)
              t == Append(wires, w)
  <2>1. wires' = t /\ link' = [IdleLink EXCEPT !.stage = "lookup"] /\ Sendable
    BY <1>5 DEF Send, Sendable
  <2>2. link'.stage = "lookup" BY <2>1 DEF IdleLink
  <2>3. wires = << >> => w = FirstWire
    <3>. SUFFICES ASSUME wires = << >> PROVE w = FirstWire OBVIOUS
    <3>1. headers = scenario.headers BY <1>0, <2>1
    <3>2. Request = FirstRequest BY <3>1 DEF FirstRequest, Request
    <3>. QED BY ONLY <3>2 DEF FirstWire
  <2>. HIDE DEF w
  <2>4. Sequence(t) /\ t # << >> /\ t[1] = IF wires = << >> THEN w ELSE wires[1]
    BY <1>0, SequenceAppend
  <2>. HIDE DEF t
  <2>5. t[1] = FirstWire BY <1>0, <2>3, <2>4
  <2>6. Sequence(wires)' BY <2>1, <2>4 DEF Sequence
  <2>. QED BY <1>1, <2>1, <2>2, <2>4, <2>5, <2>6 DEF FirstSent
<1>6. CASE Lookup
  <2>1. link'.stage \in {"sending", "over"} BY <1>0, <1>6 DEF Lookup, Links
  <2>. QED BY <1>0, <1>2, <1>6, <2>1 DEF Lookup
<1>7. CASE Respond
  <2>1. link'.stage = "body" BY <1>0, <1>7 DEF Respond, Links
  <2>. QED BY <1>0, <1>2, <1>7, <2>1 DEF Respond
<1>8. CASE Chunk
  BY <1>2, <1>8 DEF Chunk
<1>9. CASE BodyEnds
  <2>1. link'.stage = "over" BY <1>0, <1>9 DEF BodyEnds, Links
  <2>. QED BY <1>0, <1>2, <1>9, <2>1 DEF BodyEnds
<1>10. CASE NetworkFails
  <2>1. link'.stage = "over" BY <1>0, <1>10 DEF NetworkFails, Links
  <2>. QED BY <1>0, <1>2, <1>10, <2>1 DEF NetworkFails
<1>11. CASE Abort
  <2>1. link'.stage = link.stage BY <1>0, <1>11 DEF Abort, Links
  <2>. QED BY <1>2, <1>11, <2>1 DEF Abort
<1>12. CASE CookiesGot
  BY <1>2, <1>12 DEF CookiesGot
<1>13. CASE XhrOpen
  BY <1>0, <1>13 DEF XhrOpen
<1>14. CASE TooLate
  <2>1. link'.stage = link.stage BY <1>0, <1>14 DEF TooLate, Links
  <2>. QED BY <1>2, <1>14, <2>1 DEF TooLate
<1>15. CASE StateChange
  BY <1>15 DEF StateChange
<1>16. CASE CookiesStored
  <2>1. link'.stage = link.stage BY <1>0, <1>16 DEF CookiesStored, Links
  <2>. QED BY <1>2, <1>16, <2>1 DEF CookiesStored
<1>17. CASE UNCHANGED vars
  BY <1>2, <1>17 DEF vars
<1>. QED BY <1>4, <1>5, <1>6, <1>7, <1>8, <1>9, <1>10, <1>11, <1>12, <1>13, <1>14, <1>15, <1>16,
            <1>17 DEF Next

(* On Node, the first wire is that of the request as the user made it,      *)
(* however often it is refused before.                                      *)
THEOREM FirstInv == Spec => []FirstSent
<1>1. Init => FirstSent
  <2>. SUFFICES ASSUME Init PROVE FirstSent OBVIOUS
  <2>1. Sequence(wires) BY EmptySeq DEF Init, Sequence
  <2>. QED BY <2>1 DEF Init, IdleLink, FirstSent
<1>2. Typed /\ FirstSent /\ [Next]_vars => FirstSent'
  <2>. SUFFICES ASSUME Typed, FirstSent, [Next]_vars PROVE FirstSent' OBVIOUS
  <2>1. Node' <=> Node BY ScenarioSame, FirstSame
  <2>2. ~Node' => FirstSent' BY DEF FirstSent
  <2>. QED BY <2>1, <2>2, FirstStep
<1>. QED BY <1>1, <1>2, TypedInv, PTL DEF Spec

(* The dry run has a header of each key that the request then has when it   *)
(* is first sent (dry-run.js, core.js), those that the options of the       *)
(* runner set apart.                                                        *)
THEOREM DryRunInv == Spec => []DryRunComplete
<1>1. Typed /\ FirstSent => DryRunComplete
  <2>. SUFFICES ASSUME Typed, FirstSent, wires # << >>, Node PROVE DryRunComplete
    BY DEF DryRunComplete
  <2>. DEFINE r == FirstRequest
              dry == DryRun(r, scenario.jar)
  <2>1. scenario \in Scenarios /\ wires[1] = FirstWire BY DEF Typed, FirstSent
  <2>2. r.headers = scenario.headers /\ r.options = scenario.options
    BY DEF FirstRequest, Request
  <2>. HIDE DEF r
  <2>. DEFINE o == GetRequestOptions(r)
              w == Wire(r, o, scenario.jar)
  <2>3. \A key \in Keys(w) : key \in Keys(EnabledHeaders(dry)) \cup scenario.options.config
    <3>. SUFFICES ASSUME NEW key \in Keys(w), key \notin scenario.options.config
         PROVE  key \in Keys(EnabledHeaders(dry))
      OBVIOUS
    <3>. QED BY <2>1, <2>2, DryPromises
  <2>4. wires[1] = w BY <2>1 DEF FirstWire, r
  <2>. HIDE DEF w, dry
  <2>5. Keys(wires[1]) \subseteq Keys(EnabledHeaders(dry)) \cup scenario.options.config
    BY <2>3, <2>4
  <2>. QED BY <2>5 DEF DryRunComplete, dry, r, FirstRequest
<1>. QED BY <1>1, TypedInv, FirstInv, PTL
===============================================================================
