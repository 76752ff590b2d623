----------------------- MODULE NestedRequests_proofs -----------------------
(***************************************************************************)
(* Proofs about NestedRequests, for every script, number of calls, depth    *)
(* and use of the vault: that the object which the runs of a chain share is *)
(* right about the chain, that the sandbox outlives the runs, and that the  *)
(* vault is used with the consent of the host.                              *)
(*                                                                         *)
(* They hold for a Run that executes one item at a time (Roots = 1),        *)
(* scripts that end when they have their answers (~Interrupts) and nested   *)
(* runs that end in time (~TimesOut).  TLC violates each of the three       *)
(* without either of the first two: scripts at once share the object and    *)
(* the first to end drops it, and one that times out leaves its calls       *)
(* behind.  Without the third the call is answered and the nested run goes  *)
(* on, below no script or below the next one, so that the first two fail.   *)
(***************************************************************************)
EXTENDS NestedRequests, SequenceTheorems, FiniteSetTheorems, TLAPS

(***************************************************************************)
(* The invariant of the shape of a run                                     *)
(***************************************************************************)
Names == RootItems \cup Items
Cursors == Nat \X Nat
Accesses == {"unknown", "yes", "no"}

FlowsType == [ item : Names, by : Nat, at : Nat \ {0}, busy : BOOLEAN, ended : BOOLEAN,
               tagged : BOOLEAN, cursor : Cursors, access : Accesses, asks : Nat, told : Cursors ]
CallsType == [ flow : Nat \ {0}, at : Nat, item : Items, object : Nat \ {0},
               stage : {"resolving", "running", "answered"} ]
ObjectsType == [ stack : Seq(Names), root : Cursors, access : Accesses ]

Types ==
    /\ flows \in Seq(FlowsType) /\ Len(flows) > 0
    /\ calls \in Seq(CallsType)
    /\ objects \in Seq(ObjectsType)
    /\ nested \in Seq(Nat) /\ Len(nested) = Len(flows)
    /\ host \in {"up", "disposed"}

(* A flow, while the item of the host's run is at its step at.              *)
Sound(f, d, at) ==
    /\ d.by = 0 <=> f = 1
    /\ d.ended => d.at > Len(Steps)
    /\ d.busy => /\ d.at <= Len(Steps) /\ Steps[d.at] # "request"
                 /\ d.cursor = <<1, at>>
                 /\ d.tagged <=> f # 1
    /\ ~d.busy => d.asks = 0

(* A nested flow runs as long as the call it answers, and its Run has the   *)
(* object that the host's Run has.                                          *)
Runs(f) ==
    /\ flows[f].by \in DOMAIN calls
    /\ Caller(f) < f
    /\ calls[flows[f].by].stage = (IF flows[f].ended THEN "answered" ELSE "running")
    /\ ~flows[f].ended => nested[f] = nested[1]

(* A call that is not answered has its script wait for it.                  *)
Waits(c) ==
    /\ calls[c].flow \in DOMAIN flows
    /\ calls[c].object \in DOMAIN objects
    /\ Live(c) => /\ flows[calls[c].flow].busy
                  /\ calls[c].at = flows[calls[c].flow].at
                  /\ calls[c].object = nested[1]

(* One chain at a time: its calls wait in scripts that are in the sandbox,  *)
(* all its runs have the object that the host's Run has, and it is rooted   *)
(* in the script that the host's item is in.                                *)
ShapeInv ==
    /\ Types
    /\ \A f \in DOMAIN flows : Sound(f, flows[f], flows[1].at)
    /\ \A f \in DOMAIN flows : f # 1 => Runs(f)
    /\ \A f, g \in DOMAIN flows : flows[f].by = flows[g].by => f = g
    /\ \A c \in DOMAIN calls : Waits(c)
    /\ nested[1] # 0 => /\ nested[1] \in DOMAIN objects
                        /\ flows[1].busy
                        /\ objects[nested[1]].root = <<1, flows[1].at>>

(***************************************************************************)
(* Sets and stacks                                                         *)
(***************************************************************************)
LEMMA Least ==
    ASSUME NEW T \in SUBSET Nat, T # {}
    PROVE  \E x \in T : \A y \in T : x <= y
<1> DEFINE R == OpToRel(<, Nat)
<1>1. R = {p \in Nat \X Nat : p[1] < p[2]}
    BY DEF OpToRel
<1>2. IsWellFoundedOn(R, Nat)
    BY NatLessThanWellFounded
<1> HIDE DEF R
<1>3. PICK x \in T : \A y \in T : ~ (<<y, x>> \in R)
    BY <1>2, WFMin
<1>4. ASSUME NEW y \in T PROVE x <= y
    <2>1. ~(<<y, x>> \in R) /\ y \in Nat /\ x \in Nat
        BY <1>3
    <2>2. ~(y < x)
        BY <1>1, <2>1
    <2> QED
        BY <2>1, <2>2
<1> QED
    BY <1>4

LEMMA Greatest ==
    ASSUME NEW n \in Nat, NEW T \in SUBSET (1 .. n), T # {}
    PROVE  Max(T) \in T /\ \A y \in T : y <= Max(T)
<1> DEFINE U == {n - y : y \in T}
<1>1. U \in SUBSET Nat /\ U # {}
    <2>1. \A y \in T : n - y \in Nat
        OBVIOUS
    <2> QED
        BY <2>1
<1>2. PICK u \in U : \A v \in U : u <= v
    BY <1>1, Least
<1>3. PICK x \in T : u = n - x
    BY <1>2
<1>4. \A y \in T : x >= y
    <2> TAKE y \in T
    <2>1. n - y \in U /\ y \in Nat /\ x \in Nat
        BY <1>3
    <2> QED
        BY <1>2, <1>3, <2>1
<1>5. Max(T) \in T /\ \A y \in T : Max(T) >= y
    BY <1>4 DEF Max
<1>6. T \subseteq Nat
    OBVIOUS
<1> QED
    BY <1>5, <1>6

(* The last of a name, at k, is what is taken off the stack s to leave t.   *)
TakenOff(s, e, k, t) ==
    /\ s[k] = e /\ \A i \in 1 .. Len(s) : s[i] = e => i <= k
    /\ t \in Seq(Names) /\ Len(t) = Len(s) - 1
    /\ \A i \in 1 .. Len(s) - 1 : t[i] = IF i < k THEN s[i] ELSE s[i + 1]

LEMMA PopProperties ==
    ASSUME NEW s \in Seq(Names), NEW e, NEW j \in 1 .. Len(s), s[j] = e
    PROVE  \E k \in 1 .. Len(s) : TakenOff(s, e, k, Pop(s, e))
<1> DEFINE T == {i \in 1 .. Len(s) : s[i] = e}
           k == Max(T)
           front == SubSeq(s, 1, k - 1)
           back == SubSeq(s, k + 1, Len(s))
<1>1. Len(s) \in Nat /\ T \in SUBSET (1 .. Len(s)) /\ T # {}
    OBVIOUS
<1>2. k \in T /\ \A i \in T : i <= k
    <2> HIDE DEF T
    <2> QED
        BY <1>1, Greatest
<1>3. Pop(s, e) = front \o back
    BY <1>1 DEF Pop, Contains, SelectLastInSeq, RemoveAt
<1>4. k \in 1 .. Len(s)
    BY <1>2
<1> HIDE DEF k
<1>5. /\ front \in Seq(Names) /\ Len(front) = k - 1
      /\ \A i \in 1 .. k - 1 : front[i] = s[i]
    BY <1>4, SubSeqProperties
<1>6. /\ back \in Seq(Names) /\ Len(back) = Len(s) - k
      /\ \A i \in 1 .. Len(s) - k : back[i] = s[k + i]
    BY <1>4, SubSeqProperties
<1> HIDE DEF front, back
<1>7. front \o back \in Seq(Names) /\ Len(front \o back) = Len(s) - 1
    <2>1. front \o back \in Seq(Names) /\ Len(front \o back) = Len(front) + Len(back)
        BY <1>5, <1>6, ConcatProperties
    <2> QED
        BY <1>4, <1>5, <1>6, <2>1
<1>8. ASSUME NEW i \in 1 .. Len(s) - 1
      PROVE  (front \o back)[i] = IF i < k THEN s[i] ELSE s[i + 1]
    <2>1. CASE i < k
        BY <1>4, <1>5, <1>6, <2>1, ConcatProperties
    <2>2. CASE ~(i < k)
        <3>1. i - Len(front) \in 1 .. Len(s) - k /\ k + (i - Len(front)) = i + 1
            BY <1>4, <1>5, <2>2
        <3>2. (front \o back)[i] = back[i - Len(front)]
            BY <1>4, <1>5, <1>6, <2>2, ConcatProperties
        <3> QED
            BY <1>6, <2>2, <3>1, <3>2
    <2> QED
        BY <2>1, <2>2
<1> DEFINE t == front \o back
<1>9. /\ t \in Seq(Names) /\ Len(t) = Len(s) - 1
      /\ \A i \in 1 .. Len(s) - 1 : t[i] = IF i < k THEN s[i] ELSE s[i + 1]
    BY <1>7, <1>8
<1>10. Pop(s, e) = t
    BY <1>3
<1> HIDE DEF t
<1>11. s[k] = e /\ \A i \in 1 .. Len(s) : s[i] = e => i <= k
    BY <1>2
<1>12. TakenOff(s, e, k, t)
    BY <1>9, <1>11 DEF TakenOff
<1> QED
    BY <1>4, <1>10, <1>12

LEMMA PopType ==
    ASSUME NEW s \in Seq(Names), NEW e
    PROVE  Pop(s, e) \in Seq(Names)
<1>1. CASE Contains(s, e)
    <2>1. PICK j \in 1 .. Len(s) : s[j] = e
        BY <1>1 DEF Contains
    <2> QED
        BY <2>1, PopProperties DEF TakenOff
<1>2. CASE ~Contains(s, e)
    BY <1>2 DEF Pop
<1> QED
    BY <1>1, <1>2

(***************************************************************************)
(* The shape of a run                                                      *)
(***************************************************************************)
LEMMA ShapeTypes ==
    ASSUME ShapeInv
    PROVE  /\ Len(flows) \in Nat /\ DOMAIN flows = 1 .. Len(flows) /\ 1 \in DOMAIN flows
           /\ DOMAIN nested = DOMAIN flows
           /\ Len(Steps) \in Nat
           /\ \A f \in DOMAIN flows : flows[f] \in FlowsType /\ nested[f] \in Nat
           /\ \A c \in DOMAIN calls : calls[c] \in CallsType
           /\ \A o \in DOMAIN objects : objects[o] \in ObjectsType
           /\ 0 \notin DOMAIN objects /\ 0 \notin DOMAIN calls
<1>1. Types
    BY DEF ShapeInv
<1>2. Len(Steps) \in Nat
    BY StepsAssumption
<1>3. \A f \in DOMAIN flows : flows[f] \in FlowsType /\ nested[f] \in Nat
    BY <1>1 DEF Types
<1>4. \A c \in DOMAIN calls : calls[c] \in CallsType
    BY <1>1 DEF Types
<1>5. \A o \in DOMAIN objects : objects[o] \in ObjectsType
    BY <1>1 DEF Types
<1>6. /\ Len(flows) \in Nat /\ DOMAIN flows = 1 .. Len(flows) /\ 1 \in DOMAIN flows
      /\ DOMAIN nested = DOMAIN flows
      /\ 0 \notin DOMAIN objects /\ 0 \notin DOMAIN calls
    BY <1>1 DEF Types
<1> QED
    BY ONLY <1>2, <1>3, <1>4, <1>5, <1>6

LEMMA RunIsOwn ==
    ASSUME Roots = 1, NEW f \in Nat \ {0}
    PROVE  Run(f) = f /\ Current(f) = nested[f]
<1>1. Run(f) = f
    BY DEF Run
<1> QED
    BY <1>1 DEF Current

LEMMA LiveCalls ==
    ASSUME ShapeInv, NEW c \in DOMAIN calls, Live(c)
    PROVE  /\ calls[c].flow \in DOMAIN flows /\ flows[calls[c].flow].busy
           /\ ~flows[calls[c].flow].ended
           /\ nested[calls[c].flow] = nested[1] /\ nested[1] \in DOMAIN objects /\ nested[1] # 0
           /\ calls[c].at = flows[calls[c].flow].at /\ calls[c].object = nested[1]
<1> DEFINE g == calls[c].flow
<1>1. /\ g \in DOMAIN flows /\ flows[g].busy /\ calls[c].at = flows[g].at
      /\ calls[c].object = nested[1] /\ calls[c].object \in DOMAIN objects
    BY DEF ShapeInv, Waits
<1>2. flows[g].at \in Nat /\ Len(Steps) \in Nat /\ nested[1] # 0
    BY <1>1, ShapeTypes DEF FlowsType
<1>3. ~flows[g].ended
    BY <1>1, <1>2 DEF ShapeInv, Sound
<1>4. nested[g] = nested[1]
    BY <1>1, <1>3 DEF ShapeInv, Runs
<1> QED
    BY <1>1, <1>2, <1>3, <1>4

(* The call of a nested flow that has not ended is live.                    *)
LEMMA RunningFlows ==
    ASSUME ShapeInv, NEW f \in DOMAIN flows, f # 1, ~flows[f].ended
    PROVE  /\ flows[f].by \in DOMAIN calls /\ calls[flows[f].by].stage = "running"
           /\ Live(flows[f].by)
           /\ Caller(f) \in DOMAIN flows /\ Caller(f) < f
           /\ flows[Caller(f)].busy /\ ~flows[Caller(f)].ended
           /\ nested[f] = nested[1] /\ nested[1] # 0 /\ nested[1] \in DOMAIN objects
<1>1. Runs(f) /\ Live(flows[f].by)
    BY DEF ShapeInv, Runs, Live
<1> QED
    BY <1>1, LiveCalls DEF Runs, Caller

(* Without a call of the host's own item no nested flow is running: the     *)
(* first of these would have its caller before it.                          *)
LEMMA NoneRuns ==
    ASSUME ShapeInv, \A c \in DOMAIN calls : Live(c) => calls[c].flow # 1
    PROVE  /\ \A f \in DOMAIN flows : f # 1 => flows[f].ended /\ ~flows[f].busy
           /\ \A c \in DOMAIN calls : ~Live(c)
<1> DEFINE U == {f \in DOMAIN flows : f # 1 /\ ~flows[f].ended}
<1>1. U = {}
    <2> SUFFICES ASSUME U # {} PROVE FALSE
        OBVIOUS
    <2>1. U \in SUBSET Nat
        BY ShapeTypes
    <2> HIDE DEF U
    <2>2. PICK f \in U : \A g \in U : f <= g
        BY <2>1, Least
    <2> USE DEF U
    <2>3. /\ Caller(f) \in DOMAIN flows /\ Caller(f) < f /\ ~flows[Caller(f)].ended
          /\ flows[f].by \in DOMAIN calls /\ Live(flows[f].by)
        BY <2>2, RunningFlows
    <2>4. Caller(f) # 1
        BY <2>3 DEF Caller
    <2>5. Caller(f) \in U
        BY <2>3, <2>4
    <2>6. f <= Caller(f) /\ f \in Nat /\ Caller(f) \in Nat
        BY <2>1, <2>2, <2>5
    <2> QED
        BY <2>3, <2>6
<1>2. ASSUME NEW f \in DOMAIN flows, f # 1 PROVE flows[f].ended /\ ~flows[f].busy
    <2>1. flows[f].ended
        BY <1>1, <1>2 DEF U
    <2>2. flows[f].at \in Nat /\ Len(Steps) \in Nat
        BY ShapeTypes DEF FlowsType
    <2> QED
        BY <2>1, <2>2 DEF ShapeInv, Sound
<1>3. \A c \in DOMAIN calls : ~Live(c)
    BY <1>2, LiveCalls
<1> QED
    BY <1>2, <1>3

(* One flow moves, no call is made or answered.  Where it leaves its script *)
(* nothing waits, and the host's Run then is without an object.             *)
LEMMA FlowMoves ==
    ASSUME ShapeInv, NEW f \in DOMAIN flows, NEW d \in FlowsType,
           d.by = flows[f].by, f # 1 => d.ended = flows[f].ended,
           Sound(f, d, IF f = 1 THEN d.at ELSE flows[1].at),
           flows' = [flows EXCEPT ![f] = d], calls' = calls, host' \in {"up", "disposed"},
           objects' \in Seq(ObjectsType), DOMAIN objects' = DOMAIN objects,
           \A o \in DOMAIN objects : objects'[o].root = objects[o].root,
           \/ /\ flows[f].busy /\ d.busy /\ d.at = flows[f].at
              /\ nested' = nested
           \/ /\ \A c \in DOMAIN calls : Live(c) => calls[c].flow # f
              /\ f # 1 /\ nested' = nested
           \/ /\ \A c \in DOMAIN calls : Live(c) => calls[c].flow # f
              /\ f = 1 /\ nested' = [nested EXCEPT ![1] = 0]
    PROVE  ShapeInv'
<1>1. /\ flows' \in Seq(FlowsType) /\ Len(flows') = Len(flows) /\ DOMAIN flows' = DOMAIN flows
      /\ flows'[f] = d /\ \A g \in DOMAIN flows : g # f => flows'[g] = flows[g]
    BY DEF ShapeInv, Types
<1>2. /\ nested' \in Seq(Nat) /\ Len(nested') = Len(nested)
      /\ \A g \in DOMAIN flows : g # 1 => nested'[g] = nested[g]
      /\ nested'[1] = nested[1] \/ nested'[1] = 0
    <2>1. nested \in Seq(Nat) /\ 1 \in DOMAIN nested /\ DOMAIN nested = DOMAIN flows
        BY ShapeTypes DEF ShapeInv, Types
    <2>2. CASE nested' = nested
        BY <2>1, <2>2
    <2>3. CASE nested' = [nested EXCEPT ![1] = 0]
        BY <2>1, <2>3
    <2> QED
        BY <2>2, <2>3
<1>3. Types'
    BY <1>1, <1>2 DEF ShapeInv, Types
<1>4. \A g \in DOMAIN flows : flows'[g].by = flows[g].by
    BY <1>1
<1>5. \A c \in DOMAIN calls : Live(c)' <=> Live(c)
    BY DEF Live
<1>6. \/ flows'[1].at = flows[1].at /\ nested'[1] = nested[1]
      \/ \A c \in DOMAIN calls : ~Live(c)
    <2>1. CASE f = 1
        <3>1. CASE flows[f].busy /\ d.busy /\ d.at = flows[f].at /\ nested' = nested
            BY <1>1, <2>1, <3>1
        <3>2. CASE \A c \in DOMAIN calls : Live(c) => calls[c].flow # f
            BY <2>1, <3>2, NoneRuns
        <3> QED
            BY <2>1, <3>1, <3>2
    <2>2. CASE f # 1
        BY <1>1, <2>2, ShapeTypes
    <2> QED
        BY <2>1, <2>2
<1>7. \A g \in DOMAIN flows : Sound(g, flows'[g], flows'[1].at)
    <2> TAKE g \in DOMAIN flows
    <2>1. CASE g = f
        BY <1>1, <2>1, ShapeTypes
    <2>2. CASE g # f
        <3>1. Sound(g, flows[g], flows[1].at) /\ flows'[g] = flows[g]
            BY <1>1, <2>2 DEF ShapeInv
        <3>2. CASE flows'[1].at = flows[1].at
            BY <3>1, <3>2
        <3>3. CASE \A c \in DOMAIN calls : ~Live(c)
            <4>1. g # 1 => ~flows[g].busy
                BY <3>3, NoneRuns
            <4>2. g = 1 => flows'[1].at = flows[1].at
                BY <3>1
            <4> QED
                BY <3>1, <4>1, <4>2 DEF Sound
        <3> QED
            BY <1>6, <3>2, <3>3
    <2> QED
        BY <2>1, <2>2
<1>8. \A g \in DOMAIN flows : g # 1 => Runs(g)'
    <2> SUFFICES ASSUME NEW g \in DOMAIN flows, g # 1 PROVE Runs(g)'
        OBVIOUS
    <2>1. Runs(g)
        BY DEF ShapeInv
    <2>2. flows'[g].by = flows[g].by /\ flows'[g].ended = flows[g].ended
        BY <1>1, <1>4
    <2>3. flows[g].by \in DOMAIN calls' /\ calls'[flows[g].by] = calls[flows[g].by]
        BY <2>1 DEF Runs
    <2>4. ~flows[g].ended => nested'[g] = nested'[1]
        <3> SUFFICES ASSUME ~flows[g].ended PROVE nested'[g] = nested'[1]
            OBVIOUS
        <3>1. Live(flows[g].by) /\ flows[g].by \in DOMAIN calls
            BY RunningFlows
        <3>2. nested'[1] = nested[1]
            BY <1>6, <3>1
        <3> QED
            BY <1>2, <2>1, <3>2 DEF Runs
    <2> QED
        BY <2>1, <2>2, <2>3, <2>4 DEF Runs, Caller
<1>9. \A g, h \in DOMAIN flows : flows'[g].by = flows'[h].by => g = h
    BY <1>4 DEF ShapeInv
<1>10. \A c \in DOMAIN calls : Waits(c)'
    <2> SUFFICES ASSUME NEW c \in DOMAIN calls PROVE Waits(c)'
        OBVIOUS
    <2>1. calls[c].flow \in DOMAIN flows /\ calls[c].object \in DOMAIN objects
        BY DEF ShapeInv, Waits
    <2>2. ASSUME Live(c)
          PROVE  /\ flows'[calls[c].flow].busy
                 /\ calls[c].at = flows'[calls[c].flow].at
                 /\ calls[c].object = nested'[1]
        <3>1. /\ flows[calls[c].flow].busy /\ calls[c].at = flows[calls[c].flow].at
              /\ calls[c].object = nested[1]
            BY <2>2, LiveCalls
        <3>2. flows'[1].at = flows[1].at /\ nested'[1] = nested[1]
            BY <1>6, <2>2
        <3>3. CASE calls[c].flow = f
            BY <1>1, <2>2, <3>1, <3>2, <3>3
        <3>4. CASE calls[c].flow # f
            BY <1>1, <2>1, <3>1, <3>2, <3>4
        <3> QED
            BY <3>3, <3>4
    <2> QED
        BY <1>1, <1>5, <2>1, <2>2 DEF Waits
<1>11. ASSUME nested'[1] # 0
       PROVE  /\ nested'[1] \in DOMAIN objects' /\ flows'[1].busy
              /\ objects'[nested'[1]].root = <<1, flows'[1].at>>
    <2>1. nested'[1] = nested[1] /\ nested[1] # 0
        BY <1>2, <1>11
    <2>2. /\ nested[1] \in DOMAIN objects /\ flows[1].busy
          /\ objects[nested[1]].root = <<1, flows[1].at>>
        BY <2>1 DEF ShapeInv
    <2>3. flows'[1].busy /\ flows'[1].at = flows[1].at
        <3>1. CASE f # 1
            BY <1>1, <2>2, <3>1, ShapeTypes
        <3>2. CASE f = 1
            <4>1. ~(nested' = [nested EXCEPT ![1] = 0])
                BY <1>11, ShapeTypes
            <4> QED
                BY <1>1, <2>2, <3>2, <4>1
        <3> QED
            BY <3>1, <3>2
    <2> QED
        BY <2>1, <2>2, <2>3
<1> QED
    BY <1>1, <1>3, <1>7, <1>8, <1>9, <1>10, <1>11 DEF ShapeInv

(* A flow that is at no script waits for nothing.                           *)
LEMMA IdleFlow ==
    ASSUME ShapeInv, NEW f \in DOMAIN flows, ~flows[f].busy
    PROVE  /\ \A c \in DOMAIN calls : Live(c) => calls[c].flow # f
           /\ f = 1 => nested[1] = 0 /\ nested = [nested EXCEPT ![1] = 0]
<1>1. \A c \in DOMAIN calls : Live(c) => calls[c].flow # f
    BY LiveCalls
<1>2. f = 1 => nested[1] = 0
    BY DEF ShapeInv
<1>3. nested \in Seq(Nat)
    BY DEF ShapeInv, Types
<1> QED
    BY <1>1, <1>2, <1>3

LEMMA BeginScriptShape ==
    ASSUME ShapeInv, Roots = 1, NEW f \in DOMAIN flows, BeginScript(f)
    PROVE  ShapeInv'
<1> DEFINE cursor == IF Current(f) # 0 THEN objects[Current(f)].root ELSE <<f, flows[f].at>>
           d == [flows[f] EXCEPT !.busy = TRUE, !.tagged = Current(f) # 0, !.cursor = cursor]
<1>1. /\ flows[f] \in FlowsType /\ flows[f].at \in Nat /\ Len(Steps) \in Nat /\ f \in Nat \ {0}
      /\ flows[1].at \in Nat
    BY ShapeTypes DEF FlowsType
<1>2. /\ ~flows[f].busy /\ flows[f].at <= Len(Steps) /\ Steps[flows[f].at] # "request"
      /\ flows' = [flows EXCEPT ![f] = d]
      /\ calls' = calls /\ nested' = nested /\ objects' = objects /\ host' = host
    <2>1. /\ ~flows[f].busy /\ flows[f].at <= Len(Steps) /\ Steps[flows[f].at] # "request"
          /\ calls' = calls /\ nested' = nested /\ objects' = objects /\ host' = host
        BY DEF BeginScript, OnScript
    <2>2. flows' = [flows EXCEPT ![f] = d]
        BY DEF BeginScript
    <2> QED
        BY <2>1, <2>2
<1>3. Current(f) = nested[f]
    BY <1>1, RunIsOwn
<1>4. ~flows[f].ended
    BY <1>1, <1>2 DEF ShapeInv, Sound
<1>5. cursor = <<1, flows[1].at>> /\ (Current(f) # 0 <=> f # 1)
    <2>1. CASE f = 1
        BY <1>2, <1>3, <2>1, IdleFlow
    <2>2. CASE f # 1
        BY <1>3, <1>4, <2>2, RunningFlows DEF ShapeInv
    <2> QED
        BY <2>1, <2>2
<1>6. cursor \in Cursors
    BY <1>1, <1>5 DEF Cursors
<1> HIDE DEF cursor
<1>7. d \in FlowsType
    BY <1>1, <1>6 DEF FlowsType
<1>8. /\ d.by = flows[f].by /\ d.ended = flows[f].ended /\ d.at = flows[f].at /\ d.busy
      /\ d.cursor = cursor /\ d.tagged = (Current(f) # 0) /\ d.asks = flows[f].asks
    BY <1>1 DEF FlowsType
<1> HIDE DEF d
<1>9. Sound(f, d, IF f = 1 THEN d.at ELSE flows[1].at)
    <2>1. flows[f].by = 0 <=> f = 1
        BY DEF ShapeInv, Sound
    <2>2. (IF f = 1 THEN d.at ELSE flows[1].at) = flows[1].at
        BY <1>8
    <2>3. Sound(f, d, flows[1].at)
        BY ONLY <1>2, <1>4, <1>5, <1>8, <2>1 DEF Sound
    <2> QED
        BY ONLY <2>2, <2>3
<1>10. /\ \A c \in DOMAIN calls : Live(c) => calls[c].flow # f
       /\ f = 1 => nested' = [nested EXCEPT ![1] = 0]
    BY <1>2, IdleFlow
<1> QED
    BY <1>2, <1>7, <1>8, <1>9, <1>10, FlowMoves DEF ShapeInv, Types

(* A script that ends has its calls answered, and the flow of the host's    *)
(* item drops the object.                                                   *)
LEMMA EndScriptShape ==
    ASSUME ShapeInv, Roots = 1, ~Interrupts, NEW f \in DOMAIN flows, EndScript(f)
    PROVE  ShapeInv'
<1>1. /\ flows[f] \in FlowsType /\ flows[f].at \in Nat /\ Len(Steps) \in Nat /\ f \in Nat \ {0}
    BY ShapeTypes DEF FlowsType
<1>2. PICK at \in {flows[f].at + 1, Len(Steps) + 1} :
        flows' = [flows EXCEPT ![f] = [@ EXCEPT !.busy = FALSE, !.asks = 0, !.at = at,
                      !.access = IF SameEvent(flows[f].at, at) THEN flows[f].access ELSE "unknown"]]
    BY DEF EndScript
<1> DEFINE access == IF SameEvent(flows[f].at, at) THEN flows[f].access ELSE "unknown"
           d == [flows[f] EXCEPT !.busy = FALSE, !.asks = 0, !.at = at, !.access = access]
<1>3. /\ flows' = [flows EXCEPT ![f] = d]
      /\ flows[f].busy /\ Outstanding(f) = {}
      /\ nested' = DropObject(f) /\ calls' = calls /\ objects' = objects /\ host' = host
    <2>1. /\ flows[f].busy /\ Outstanding(f) = {}
          /\ nested' = DropObject(f) /\ calls' = calls /\ objects' = objects /\ host' = host
        BY DEF EndScript, MayEnd
    <2>2. flows' = [flows EXCEPT ![f] = d]
        BY <1>2
    <2> QED
        BY <2>1, <2>2
<1>4. at \in Nat \ {0} /\ at > flows[f].at
    <2>1. flows[f].at <= Len(Steps)
        BY <1>3 DEF ShapeInv, Sound
    <2> QED
        BY <1>1, <1>2, <2>1
<1>4a. access \in Accesses
    BY <1>1 DEF FlowsType, Accesses
<1> HIDE DEF access
<1>5. d \in FlowsType
    BY <1>1, <1>4, <1>4a DEF FlowsType
<1>6. /\ d.by = flows[f].by /\ d.ended = flows[f].ended /\ d.at = at /\ ~d.busy /\ d.asks = 0
    BY <1>1 DEF FlowsType
<1> HIDE DEF d
<1>7. ~flows[f].ended
    BY <1>1, <1>3 DEF ShapeInv, Sound
<1>8. Sound(f, d, IF f = 1 THEN d.at ELSE flows[1].at)
    BY <1>6, <1>7 DEF ShapeInv, Sound
<1>9. \A c \in DOMAIN calls : Live(c) => calls[c].flow # f
    <2> SUFFICES ASSUME NEW c \in DOMAIN calls, Live(c), calls[c].flow = f PROVE FALSE
        OBVIOUS
    <2>1. c \in Outstanding(f)
        BY LiveCalls DEF Outstanding
    <2> QED
        BY <1>3, <2>1
<1>10. IF f = 1 THEN nested' = [nested EXCEPT ![1] = 0] ELSE nested' = nested
    <2>1. flows[f].tagged <=> f # 1
        BY <1>3 DEF ShapeInv, Sound
    <2>2. Run(f) = f
        BY <1>1, RunIsOwn
    <2> QED
        BY <1>3, <2>1, <2>2 DEF DropObject
<1> QED
    BY <1>3, <1>5, <1>6, <1>8, <1>9, <1>10, FlowMoves DEF ShapeInv, Types

LEMMA BusyFlow ==
    ASSUME ShapeInv, Roots = 1, NEW f \in DOMAIN flows, flows[f].busy
    PROVE  /\ ~flows[f].ended /\ Current(f) = nested[f] /\ nested[f] = nested[1]
           /\ Current(f) # 0 => Current(f) \in DOMAIN objects
           /\ f # 1 => Current(f) # 0
<1>1. /\ flows[f].at \in Nat /\ Len(Steps) \in Nat /\ f \in Nat \ {0}
    BY ShapeTypes DEF FlowsType
<1>2. ~flows[f].ended
    BY <1>1 DEF ShapeInv, Sound
<1>3. Current(f) = nested[f]
    BY <1>1, RunIsOwn
<1>4. CASE f = 1
    BY <1>2, <1>3, <1>4 DEF ShapeInv
<1>5. CASE f # 1
    BY <1>2, <1>3, <1>5, RunningFlows
<1> QED
    BY <1>4, <1>5

(* A script that goes on where it is.                                       *)
LEMMA ScriptStays ==
    ASSUME ShapeInv, Roots = 1, NEW f \in DOMAIN flows, flows[f].busy,
           NEW access \in Accesses, NEW asks \in Nat,
           flows' = [flows EXCEPT ![f] = [@ EXCEPT !.access = access, !.asks = asks]],
           calls' = calls, nested' = nested, host' = host,
           objects' = objects \/ objects' = Remember(f, access)
    PROVE  ShapeInv'
<1> DEFINE d == [flows[f] EXCEPT !.access = access, !.asks = asks]
<1>1. flows[f] \in FlowsType /\ flows' = [flows EXCEPT ![f] = d]
    BY ShapeTypes
<1>2. d \in FlowsType
    BY <1>1 DEF FlowsType
<1>3. /\ d.by = flows[f].by /\ d.ended = flows[f].ended /\ d.at = flows[f].at /\ d.busy
      /\ d.cursor = flows[f].cursor /\ d.tagged = flows[f].tagged
    BY <1>1 DEF FlowsType
<1> HIDE DEF d
<1>4. Sound(f, d, IF f = 1 THEN d.at ELSE flows[1].at)
    BY <1>3 DEF ShapeInv, Sound
<1>5. /\ objects' \in Seq(ObjectsType) /\ DOMAIN objects' = DOMAIN objects
      /\ \A o \in DOMAIN objects : objects'[o].root = objects[o].root
    <2>1. objects \in Seq(ObjectsType)
        BY DEF ShapeInv, Types
    <2>2. CASE objects' = objects
        BY <2>1, <2>2
    <2>3. CASE /\ objects' = [objects EXCEPT ![Current(f)].access = access]
               /\ Current(f) \in DOMAIN objects
        <3>1. \A o \in DOMAIN objects : [objects[o] EXCEPT !.access = access] \in ObjectsType
            <4> TAKE o \in DOMAIN objects
            <4>1. objects[o] \in ObjectsType
                BY <2>1
            <4> QED
                BY <4>1 DEF ObjectsType
        <3>2. \A o \in DOMAIN objects : [objects[o] EXCEPT !.access = access].root = objects[o].root
            BY <2>1 DEF ObjectsType
        <3>3. objects' = [objects EXCEPT ![Current(f)] = [objects[Current(f)] EXCEPT !.access = access]]
            BY <2>3
        <3>4. DOMAIN objects' = DOMAIN objects
            BY <3>3
        <3>5. \A o \in DOMAIN objects :
                 objects'[o] = IF o = Current(f) THEN [objects[o] EXCEPT !.access = access]
                               ELSE objects[o]
            BY <2>1, <3>3
        <3>6. objects' \in Seq(ObjectsType)
            <4> DEFINE e == [objects[Current(f)] EXCEPT !.access = access]
            <4>1. e \in ObjectsType /\ objects' = [objects EXCEPT ![Current(f)] = e]
                BY <2>3, <3>1, <3>3
            <4> HIDE DEF e
            <4> QED
                BY SMTT(30), <2>1, <2>3, <4>1
        <3> QED
            BY <3>2, <3>4, <3>5, <3>6
    <2>4. Current(f) # 0 => Current(f) \in DOMAIN objects
        BY BusyFlow
    <2> QED
        BY <2>2, <2>3, <2>4 DEF Remember
<1>6. flows[f].busy /\ host' \in {"up", "disposed"} /\ calls' = calls /\ nested' = nested
    BY DEF ShapeInv, Types
<1> QED
    BY <1>1, <1>2, <1>3, <1>4, <1>5, <1>6, FlowMoves

LEMMA VaultShape ==
    ASSUME ShapeInv, Roots = 1, NEW f \in DOMAIN flows, UseVault(f) \/ HostConsents(f)
    PROVE  ShapeInv'
<1>1. flows[f] \in FlowsType /\ flows[f].access \in Accesses /\ flows[f].asks \in Nat
    BY ShapeTypes DEF FlowsType
<1>2. CASE UseVault(f)
    <2>1. /\ flows[f].busy /\ calls' = calls /\ nested' = nested /\ host' = host
        BY <1>2 DEF UseVault
    <2>2. CASE flows[f].access # "unknown"
        <3>1. [flows[f] EXCEPT !.access = flows[f].access, !.asks = flows[f].asks] = flows[f]
            BY <1>1 DEF FlowsType
        <3>2. flows' = flows /\ objects' = Remember(f, flows[f].access)
            BY <1>2, <2>2 DEF UseVault
        <3>3. flows' = [flows EXCEPT ![f] = [@ EXCEPT !.access = flows[f].access,
                                                      !.asks = flows[f].asks]]
            BY <3>1, <3>2 DEF ShapeInv, Types
        <3> QED
            BY <1>1, <2>1, <3>2, <3>3, ScriptStays
    <2>3. CASE flows[f].access = "unknown" /\ Granted(f)
        <3>1. flows' = [flows EXCEPT ![f] = [@ EXCEPT !.access = "yes", !.asks = flows[f].asks]]
              /\ objects' = Remember(f, "yes")
            <4>1. [flows[f] EXCEPT !.access = "yes"]
                    = [flows[f] EXCEPT !.access = "yes", !.asks = flows[f].asks]
                BY <1>1 DEF FlowsType
            <4> QED
                BY <1>2, <2>3, <4>1 DEF UseVault
        <3>2. "yes" \in Accesses
            BY DEF Accesses
        <3> QED
            BY <1>1, <2>1, <3>1, <3>2, ScriptStays
    <2>4. CASE flows[f].access = "unknown" /\ ~Granted(f)
        <3>1. flows' = [flows EXCEPT ![f] = [@ EXCEPT !.access = flows[f].access,
                                                      !.asks = flows[f].asks + 1]]
              /\ objects' = objects
            <4>1. [flows[f] EXCEPT !.asks = flows[f].asks + 1]
                    = [flows[f] EXCEPT !.access = flows[f].access, !.asks = flows[f].asks + 1]
                BY <1>1 DEF FlowsType
            <4> QED
                BY <1>2, <2>4, <4>1 DEF UseVault
        <3>2. flows[f].asks + 1 \in Nat
            BY <1>1
        <3> QED
            BY <1>1, <2>1, <3>1, <3>2, ScriptStays
    <2> QED
        BY <2>2, <2>3, <2>4
<1>3. CASE HostConsents(f)
    <2>1. PICK answer \in {"yes", "no"} :
            /\ flows' = [flows EXCEPT ![f].access = answer, ![f].asks = @ - 1]
            /\ objects' = Remember(f, answer)
        BY <1>3 DEF HostConsents
    <2>2. flows[f].busy /\ calls' = calls /\ nested' = nested /\ host' = host
          /\ flows[f].asks - 1 \in Nat
        BY <1>1, <1>3 DEF HostConsents, ShapeInv, Sound
    <2>3. flows' = [flows EXCEPT ![f] = [@ EXCEPT !.access = answer, !.asks = flows[f].asks - 1]]
        BY <1>1, <2>1, ShapeTypes DEF ShapeInv, Types, FlowsType
    <2>4. answer \in Accesses
        BY DEF Accesses
    <2> QED
        BY <2>1, <2>2, <2>3, <2>4, ScriptStays
<1> QED
    BY <1>2, <1>3

(***************************************************************************)
(* The chain of a flow                                                     *)
(***************************************************************************)
LEMMA ChainIn ==
    ASSUME NEW f \in DOMAIN flows, NEW S \in SUBSET DOMAIN flows, f \in S, Closed(S)
    PROVE  Chain(f) \subseteq S
BY DEF Chain

(* With a flow is its caller, up to the item of the host's run.             *)
LEMMA Callers ==
    ASSUME ShapeInv, NEW g \in DOMAIN flows
    PROVE  /\ flows[g].by = 0 <=> g = 1
           /\ g # 1 => /\ flows[g].by \in DOMAIN calls /\ Caller(g) \in DOMAIN flows
                       /\ Caller(g) < g
BY DEF ShapeInv, Sound, Runs, Waits, Caller

LEMMA ChainGoesUp ==
    ASSUME ShapeInv, NEW f \in DOMAIN flows
    PROVE  /\ f \in Chain(f) /\ Chain(f) \subseteq DOMAIN flows
           /\ \A g \in Chain(f) : g # 1 => Caller(g) \in Chain(f)
<1>1. f \in Chain(f) /\ Chain(f) \subseteq DOMAIN flows
    BY DEF Chain
<1>2. ASSUME NEW g \in Chain(f), g # 1
      PROVE  Caller(g) \in Chain(f)
    <2>1. g \in DOMAIN flows /\ flows[g].by # 0 /\ Caller(g) \in DOMAIN flows
        BY <1>1, <1>2, Callers
    <2>2. ASSUME NEW T \in SUBSET DOMAIN flows, f \in T, Closed(T)
          PROVE  Caller(g) \in T
        <3>1. g \in T
            BY <2>2 DEF Chain
        <3> QED
            BY <2>1, <2>2, <3>1 DEF Closed
    <2> QED
        BY <2>1, <2>2 DEF Chain
<1> QED
    BY <1>1, <1>2

LEMMA ChainReachesRoot ==
    ASSUME ShapeInv, NEW f \in DOMAIN flows, f # 1
    PROVE  \E g \in Chain(f) : g # 1 /\ Caller(g) = 1
<1> DEFINE T == {g \in Chain(f) : g # 1}
<1>1. T \in SUBSET Nat /\ T # {}
    BY ChainGoesUp, ShapeTypes
<1> HIDE DEF T
<1>2. PICK g \in T : \A h \in T : g <= h
    BY <1>1, Least
<1> USE DEF T
<1>3. /\ g \in DOMAIN flows /\ g # 1 /\ Caller(g) \in Chain(f)
    BY ChainGoesUp
<1>4. Caller(g) < g /\ Caller(g) \in DOMAIN flows
    BY <1>3, Callers
<1>5. Caller(g) \notin T
    <2>1. g \in Nat /\ Caller(g) \in Nat
        BY <1>3, <1>4, ShapeTypes
    <2> QED
        BY <1>2, <1>4, <2>1
<1> QED
    BY <1>3, <1>5

LEMMA RootCallsExist ==
    ASSUME ShapeInv, NEW f \in DOMAIN flows
    PROVE  /\ \A c \in CallsAbove(f) : c \in DOMAIN calls /\ calls[c].flow \in DOMAIN flows
           /\ f # 1 => RootCalls(f) # {}
<1>1. \A g \in Chain(f) : g \in DOMAIN flows
    BY ChainGoesUp
<1>2. ASSUME NEW c \in CallsAbove(f)
      PROVE  c \in DOMAIN calls /\ calls[c].flow \in DOMAIN flows
    <2>1. PICK g \in Chain(f) : c = flows[g].by /\ c # 0
        BY DEF CallsAbove
    <2> QED
        BY <1>1, <2>1, Callers DEF Caller
<1>3. ASSUME f # 1
      PROVE  RootCalls(f) # {}
    <2>1. PICK g \in Chain(f) : g # 1 /\ Caller(g) = 1
        BY <1>3, ChainReachesRoot
    <2>2. flows[g].by \in CallsAbove(f)
        BY <1>1, <2>1, Callers DEF CallsAbove
    <2>3. flows[1].by = 0
        BY ShapeTypes, Callers
    <2> QED
        BY <2>1, <2>2, <2>3 DEF RootCalls, Caller
<1> QED
    BY <1>2, <1>3

(* Above a flow that has not ended nobody has: they wait for it.            *)
LEMMA CallsAboveRun ==
    ASSUME ShapeInv, NEW f \in DOMAIN flows, ~flows[f].ended
    PROVE  \A c \in CallsAbove(f) : c \in DOMAIN calls /\ Live(c)
<1> DEFINE S == {g \in DOMAIN flows : ~flows[g].ended}
<1>1. Closed(S)
    BY Callers, RunningFlows DEF Closed
<1>2. Chain(f) \subseteq S
    BY <1>1, ChainIn
<1> TAKE c \in CallsAbove(f)
<1>3. PICK g \in Chain(f) : c = flows[g].by /\ c # 0
    BY DEF CallsAbove
<1> QED
    BY <1>2, <1>3, Callers, RunningFlows

(* The script at the root of a flow that has not ended is the one that the  *)
(* host's item is in; and that is what the host hears of its request.       *)
LEMMA RootIsHost ==
    ASSUME ShapeInv, Roots = 1, NEW f \in DOMAIN flows, f # 1, ~flows[f].ended
    PROVE  /\ \A at : RootScript(f, at) = <<1, flows[1].at>>
           /\ Told(f) = <<1, flows[1].at>>
<1>1. /\ \A c \in CallsAbove(f) : c \in DOMAIN calls /\ Live(c)
      /\ RootCalls(f) # {}
    BY CallsAboveRun, RootCallsExist
<1>2. \A g \in DOMAIN flows : flows[g].by = 0 <=> g = 1
    BY Callers
<1>3. \A c \in CallsAbove(f) : /\ calls[c].flow \in DOMAIN flows
                               /\ calls[c].at = flows[calls[c].flow].at
                               /\ Current(calls[c].flow) = nested[1]
                               /\ nested[1] # 0
    <2> TAKE c \in CallsAbove(f)
    <2>1. /\ calls[c].flow \in DOMAIN flows /\ nested[calls[c].flow] = nested[1] /\ nested[1] # 0
          /\ calls[c].at = flows[calls[c].flow].at
        BY <1>1, LiveCalls
    <2>2. calls[c].flow \in Nat \ {0}
        BY <2>1, ShapeTypes
    <2> QED
        BY <2>1, <2>2, RunIsOwn
<1>4. ASSUME NEW at PROVE RootScript(f, at) = <<1, flows[1].at>>
    <2> DEFINE r == CHOOSE c \in RootCalls(f) : TRUE
    <2>2. r \in RootCalls(f)
        BY <1>1
    <2> HIDE DEF r
    <2>3. calls[r].flow = 1 /\ calls[r].at = flows[1].at
        BY <1>2, <1>3, <2>2 DEF RootCalls
    <2>4. RootScript(f, at) = <<calls[r].flow, calls[r].at>>
        BY <1>2 DEF RootScript, r
    <2> QED
        BY <2>3, <2>4
<1>5. Told(f) = <<1, flows[1].at>>
    <2> DEFINE callers == {calls[c].flow : c \in CallsAbove(f)}
    <2>1. \A g \in callers : Current(g) # 0 /\ Current(g) = nested[1]
        BY <1>3
    <2>2. \A g \in callers : flows[g].by = 0 <=> g = 1
        BY <1>2, <1>3
    <2>3. 1 \in callers
        BY <1>1, <1>2, <1>3 DEF RootCalls
    <2> HIDE DEF callers
    <2>4. (CHOOSE g \in callers : flows[g].by = 0) = 1
        BY <2>2, <2>3
    <2>5. Told(f) = objects[Current(CHOOSE g \in callers : flows[g].by = 0)].root
        BY <2>1 DEF Told, callers
    <2>6. Told(f) = objects[nested[1]].root
        BY <2>1, <2>3, <2>4, <2>5
    <2>7. nested[1] # 0
        BY <1>1, <1>3 DEF RootCalls
    <2> QED
        BY <2>6, <2>7 DEF ShapeInv
<1> QED
    BY <1>4, <1>5

(***************************************************************************)
(* The other steps                                                         *)
(***************************************************************************)
LEMMA RequestShape ==
    ASSUME ShapeInv, Roots = 1, NEW f \in DOMAIN flows, Request(f)
    PROVE  ShapeInv'
<1>1. /\ flows[f] \in FlowsType /\ flows[f].at \in Nat /\ Len(Steps) \in Nat /\ f \in Nat \ {0}
      /\ flows[1].at \in Nat
    BY ShapeTypes DEF FlowsType
<1>2. PICK end \in {"next", "last"} :
        flows' = [flows EXCEPT ![f] = [@ EXCEPT
                      !.at = IF end = "next" THEN flows[f].at + 1 ELSE Len(Steps) + 1,
                      !.told = IF flows[f].by = 0 THEN <<f, 0>> ELSE Told(f)]]
    BY DEF Request
<1> DEFINE at == IF end = "next" THEN flows[f].at + 1 ELSE Len(Steps) + 1
           told == IF flows[f].by = 0 THEN <<f, 0>> ELSE Told(f)
           d == [flows[f] EXCEPT !.at = at, !.told = told]
<1>3. /\ flows[f].at <= Len(Steps) /\ Steps[flows[f].at] = "request"
      /\ calls' = calls /\ nested' = nested /\ objects' = objects /\ host' = host
    BY DEF Request
<1>4. flows' = [flows EXCEPT ![f] = d]
    BY <1>2
<1>5. at \in Nat \ {0}
    BY <1>1
<1>6. ~flows[f].ended /\ ~flows[f].busy /\ flows[f].asks = 0 /\ (flows[f].by = 0 <=> f = 1)
    BY <1>1, <1>3 DEF ShapeInv, Sound
<1>7. told \in Cursors
    <2>1. flows[f].by # 0 => told = <<1, flows[1].at>>
        BY <1>6, RootIsHost
    <2> QED
        BY <1>1, <2>1 DEF Cursors
<1> HIDE DEF at, told
<1>8. d \in FlowsType
    BY <1>1, <1>5, <1>7 DEF FlowsType
<1>9. /\ d.by = flows[f].by /\ d.ended = flows[f].ended /\ d.at = at /\ ~d.busy /\ d.asks = 0
    BY <1>1, <1>6 DEF FlowsType
<1> HIDE DEF d
<1>10. Sound(f, d, IF f = 1 THEN d.at ELSE flows[1].at)
    BY <1>6, <1>9 DEF Sound
<1>11. /\ \A c \in DOMAIN calls : Live(c) => calls[c].flow # f
       /\ f = 1 => nested' = [nested EXCEPT ![1] = 0]
    BY <1>3, <1>6, IdleFlow
<1> QED
    BY <1>3, <1>4, <1>8, <1>9, <1>10, <1>11, FlowMoves DEF ShapeInv, Types

LEMMA InitShape ==
    ASSUME Roots = 1, Init
    PROVE  ShapeInv
<1>1. PICK item \in RootItems : flows[1] = Flow(item, 0)
    BY DEF Init
<1>2. /\ DOMAIN flows = {1} /\ Len(flows) = 1 /\ calls = << >> /\ objects = << >> /\ host = "up"
      /\ nested = [f \in 1 .. 1 |-> 0]
    BY DEF Init
<1>3. Flow(item, 0) \in FlowsType
    BY DEF Flow, FlowsType, Names, Cursors, Accesses, NoCursor
<1>4. Types
    <2>1. flows \in Seq(FlowsType)
        <3>1. flows \in [1 .. 1 -> FlowsType]
            BY <1>1, <1>2, <1>3 DEF Init
        <3> QED
            BY <3>1
    <2> QED
        BY <1>2, <2>1 DEF Types
<1>5. Sound(1, flows[1], flows[1].at)
    BY <1>1 DEF Sound, Flow
<1> QED
    BY <1>2, <1>4, <1>5 DEF ShapeInv

(* What an answer leaves of the call and of the object.                     *)
LEMMA AnswerProperties ==
    ASSUME ShapeInv, Roots = 1, NEW c \in DOMAIN calls, Live(c)
    PROVE  /\ Answered(c) \in Seq(CallsType) /\ DOMAIN Answered(c) = DOMAIN calls
           /\ \A e \in DOMAIN calls : e # c => Answered(c)[e] = calls[e]
           /\ Answered(c)[c] = [calls[c] EXCEPT !.stage = "answered"]
           /\ flows[calls[c].flow].item \in Names
           /\ ObjectsAnswered(c) \in Seq(ObjectsType) /\ DOMAIN ObjectsAnswered(c) = DOMAIN objects
           /\ \A o \in DOMAIN objects :
                 ObjectsAnswered(c)[o] =
                    IF o = nested[1]
                    THEN [objects[o] EXCEPT !.stack = Pop(objects[o].stack, flows[calls[c].flow].item)]
                    ELSE objects[o]
<1> DEFINE g == calls[c].flow
           o == nested[1]
           stack == Pop(objects[o].stack, flows[g].item)
           answered == [calls[c] EXCEPT !.stage = "answered"]
           popped == [objects[o] EXCEPT !.stack = stack]
<1>1. g \in DOMAIN flows /\ nested[g] = o /\ o \in DOMAIN objects /\ o # 0
    BY LiveCalls
<1>2. Current(g) = o
    BY <1>1, ShapeTypes, RunIsOwn
<1>3. /\ calls \in Seq(CallsType) /\ objects \in Seq(ObjectsType)
      /\ calls[c] \in CallsType /\ objects[o] \in ObjectsType /\ flows[g].item \in Names
    BY <1>1, ShapeTypes DEF ShapeInv, Types, FlowsType
<1>4. answered \in CallsType
    BY <1>3 DEF CallsType
<1>5. Answered(c) = [calls EXCEPT ![c] = answered]
    BY <1>1, <1>2 DEF Answered
<1>6. stack \in Seq(Names)
    BY <1>3, PopType DEF ObjectsType
<1> HIDE DEF stack
<1>7. popped \in ObjectsType
    BY <1>3, <1>6 DEF ObjectsType
<1>8. ObjectsAnswered(c) = [objects EXCEPT ![o] = popped]
    BY <1>1, <1>2 DEF ObjectsAnswered, stack
<1>9. \A p \in DOMAIN objects : ObjectsAnswered(c)[p] =
                    IF p = o THEN [objects[p] EXCEPT !.stack = stack] ELSE objects[p]
    BY <1>1, <1>3, <1>8
<1> HIDE DEF answered, popped
<1>10. /\ Answered(c) \in Seq(CallsType) /\ DOMAIN Answered(c) = DOMAIN calls
       /\ \A e \in DOMAIN calls : e # c => Answered(c)[e] = calls[e]
       /\ Answered(c)[c] = answered
    BY <1>3, <1>4, <1>5
<1>11. ObjectsAnswered(c) \in Seq(ObjectsType) /\ DOMAIN ObjectsAnswered(c) = DOMAIN objects
    BY <1>1, <1>3, <1>7, <1>8
<1> QED
    BY <1>3, <1>9, <1>10, <1>11 DEF stack, answered

(* A call is answered: that of a flow that ends, or one that has no flow.   *)
LEMMA AnswerShape ==
    ASSUME ShapeInv, Roots = 1, NEW c \in DOMAIN calls, Live(c),
           calls' = Answered(c), objects' = ObjectsAnswered(c), nested' = nested,
           host' \in {"up", "disposed"},
           flows' \in Seq(FlowsType), Len(flows') = Len(flows),
           \A g \in DOMAIN flows :
              /\ flows'[g].by = flows[g].by /\ flows'[g].at = flows[g].at
              /\ flows'[g].busy = flows[g].busy /\ flows'[g].cursor = flows[g].cursor
              /\ flows'[g].tagged = flows[g].tagged /\ flows'[g].asks = flows[g].asks
              /\ flows'[g].ended <=> flows[g].ended \/ flows[g].by = c
              /\ flows[g].by = c => flows[g].at > Len(Steps)
    PROVE  ShapeInv'
<1>1. DOMAIN flows' = DOMAIN flows /\ 1 \in DOMAIN flows /\ DOMAIN nested = DOMAIN flows
    BY ShapeTypes DEF ShapeInv, Types
<1>2. /\ calls' \in Seq(CallsType) /\ DOMAIN calls' = DOMAIN calls
      /\ \A e \in DOMAIN calls : e # c => calls'[e] = calls[e]
      /\ calls'[c] = [calls[c] EXCEPT !.stage = "answered"]
      /\ objects' \in Seq(ObjectsType) /\ DOMAIN objects' = DOMAIN objects
    BY AnswerProperties
<1>3. /\ calls'[c].stage = "answered" /\ calls'[c].flow = calls[c].flow
      /\ calls'[c].at = calls[c].at /\ calls'[c].object = calls[c].object
    BY <1>2, ShapeTypes DEF CallsType
<1>4. \A e \in DOMAIN calls : /\ calls'[e].flow = calls[e].flow /\ calls'[e].at = calls[e].at
                              /\ calls'[e].object = calls[e].object
                              /\ Live(e)' => Live(e)
    BY <1>2, <1>3 DEF Live
<1>5. Types'
    BY <1>1, <1>2 DEF ShapeInv, Types
<1>6. \A g \in DOMAIN flows : Sound(g, flows'[g], flows'[1].at)
    <2> TAKE g \in DOMAIN flows
    <2>1. Sound(g, flows[g], flows[1].at)
        BY DEF ShapeInv
    <2> QED
        BY <1>1, <2>1 DEF Sound
<1>7. ASSUME NEW g \in DOMAIN flows, g # 1 PROVE Runs(g)'
    <2>1. Runs(g)
        BY <1>7 DEF ShapeInv
    <2>2. flows'[g].by = flows[g].by /\ (flows'[g].ended <=> flows[g].ended \/ flows[g].by = c)
        OBVIOUS
    <2>3. flows[g].by \in DOMAIN calls /\ Caller(g)' = Caller(g)
        BY <1>4, <2>1, <2>2 DEF Runs, Caller
    <2>4. calls'[flows[g].by].stage = IF flows'[g].ended THEN "answered" ELSE "running"
        <3>1. CASE flows[g].by = c
            BY <1>3, <2>2, <3>1
        <3>2. CASE flows[g].by # c
            BY <1>2, <2>1, <2>2, <2>3, <3>2 DEF Runs
        <3> QED
            BY <3>1, <3>2
    <2>5. ~flows'[g].ended => nested'[g] = nested'[1]
        BY <2>1, <2>2 DEF Runs
    <2> QED
        BY <1>2, <2>1, <2>2, <2>3, <2>4, <2>5 DEF Runs
<1>8. \A g, h \in DOMAIN flows : flows'[g].by = flows'[h].by => g = h
    BY DEF ShapeInv
<1>9. ASSUME NEW e \in DOMAIN calls PROVE Waits(e)'
    <2>1. Waits(e)
        BY DEF ShapeInv
    <2> QED
        BY <1>1, <1>2, <1>4, <2>1 DEF Waits
<1>10. nested[1] # 0 => /\ nested[1] \in DOMAIN objects' /\ flows'[1].busy
                        /\ objects'[nested[1]].root = <<1, flows'[1].at>>
    <2> SUFFICES ASSUME nested[1] # 0
                 PROVE  /\ nested[1] \in DOMAIN objects' /\ flows'[1].busy
                        /\ objects'[nested[1]].root = <<1, flows'[1].at>>
        OBVIOUS
    <2>1. /\ nested[1] \in DOMAIN objects /\ flows[1].busy
          /\ objects[nested[1]].root = <<1, flows[1].at>>
        BY DEF ShapeInv
    <2>2. objects'[nested[1]].root = objects[nested[1]].root
        <3>1. objects[nested[1]] \in ObjectsType
            BY <2>1, ShapeTypes
        <3>2. objects'[nested[1]] = [objects[nested[1]] EXCEPT !.stack =
                  Pop(objects[nested[1]].stack, flows[calls[c].flow].item)]
            BY <2>1, AnswerProperties
        <3> QED
            BY <3>1, <3>2 DEF ObjectsType
    <2> QED
        BY <1>1, <1>2, <2>1, <2>2
<1> QED
    BY <1>1, <1>2, <1>5, <1>6, <1>7, <1>8, <1>9, <1>10 DEF ShapeInv

LEMMA ResolverFailsShape ==
    ASSUME ShapeInv, Roots = 1, NEW c \in DOMAIN calls, ResolverFails(c)
    PROVE  ShapeInv'
<1>1. /\ Live(c) /\ calls[c].stage = "resolving" /\ calls' = Answered(c)
      /\ objects' = ObjectsAnswered(c) /\ flows' = flows /\ nested' = nested /\ host' = host
    BY DEF ResolverFails, Live
<1>2. \A g \in DOMAIN flows : flows[g].by # c
    <2> TAKE g \in DOMAIN flows
    <2>1. g = 1 => flows[g].by = 0
        BY DEF ShapeInv, Sound
    <2>2. g # 1 => calls[flows[g].by].stage # "resolving"
        BY DEF ShapeInv, Runs
    <2> QED
        BY <1>1, <2>1, <2>2, ShapeTypes
<1>3. /\ flows' \in Seq(FlowsType) /\ Len(flows') = Len(flows) /\ host' \in {"up", "disposed"}
    BY <1>1 DEF ShapeInv, Types
<1> QED
    BY <1>1, <1>2, <1>3, AnswerShape

(* Without a timeout an item ends once it has done all its steps, and the   *)
(* run of a nested one has its call to answer.                              *)
LEMMA EndFlowStep ==
    ASSUME ShapeInv, ~TimesOut, NEW f \in DOMAIN flows, EndFlow(f)
    PROVE  /\ flows[f].at > Len(Steps) /\ ~flows[f].ended
           /\ flows' = [flows EXCEPT ![f].ended = TRUE]
           /\ host' = (IF Disposes(f) THEN "disposed" ELSE host)
           /\ nested' = nested /\ consents' = consents
           /\ flows[f].by = 0 <=> f = 1
           /\ f = 1 => calls' = calls /\ objects' = objects
           /\ f # 1 => calls' = Answered(flows[f].by) /\ objects' = ObjectsAnswered(flows[f].by)
<1>1. /\ flows[f].at > Len(Steps) /\ ~flows[f].ended
      /\ flows' = [flows EXCEPT ![f].ended = TRUE]
      /\ host' = (IF Disposes(f) THEN "disposed" ELSE host)
      /\ nested' = nested /\ consents' = consents
    BY DEF EndFlow
<1>2. flows[f].by = 0 <=> f = 1
    BY DEF ShapeInv, Sound
<1>3. Owes(f) <=> f # 1
    BY <1>1, <1>2, RunningFlows DEF Owes
<1>4. /\ calls' = IF Owes(f) THEN Answered(flows[f].by) ELSE calls
      /\ objects' = IF Owes(f) THEN ObjectsAnswered(flows[f].by) ELSE objects
    BY DEF EndFlow
<1> QED
    BY <1>1, <1>2, <1>3, <1>4

LEMMA EndFlowShape ==
    ASSUME ShapeInv, Roots = 1, ~TimesOut, NEW f \in DOMAIN flows, EndFlow(f)
    PROVE  ShapeInv'
<1> DEFINE d == [flows[f] EXCEPT !.ended = TRUE]
<1>1. /\ flows[f] \in FlowsType /\ flows[f].at \in Nat /\ Len(Steps) \in Nat
      /\ flows \in Seq(FlowsType)
    BY ShapeTypes DEF FlowsType, ShapeInv, Types
<1>2. /\ flows[f].at > Len(Steps) /\ ~flows[f].ended /\ flows' = [flows EXCEPT ![f] = d]
      /\ nested' = nested /\ host' \in {"up", "disposed"}
    BY EndFlowStep DEF ShapeInv, Types
<1>3. d \in FlowsType
    BY <1>1 DEF FlowsType
<1>4. /\ d.by = flows[f].by /\ d.ended /\ d.at = flows[f].at /\ d.busy = flows[f].busy
      /\ d.cursor = flows[f].cursor /\ d.tagged = flows[f].tagged /\ d.asks = flows[f].asks
    BY <1>1 DEF FlowsType
<1> HIDE DEF d
<1>5. ~flows[f].busy /\ (flows[f].by = 0 <=> f = 1) /\ flows[f].asks = 0
    BY <1>1, <1>2 DEF ShapeInv, Sound
<1>6. CASE f = 1
    <2>1. calls' = calls /\ objects' = objects
        BY <1>6, EndFlowStep
    <2>2. Sound(f, d, IF f = 1 THEN d.at ELSE flows[1].at)
        BY <1>2, <1>4, <1>5, <1>6 DEF Sound
    <2>3. /\ \A c \in DOMAIN calls : Live(c) => calls[c].flow # f
          /\ nested' = [nested EXCEPT ![1] = 0]
        BY <1>2, <1>5, <1>6, IdleFlow
    <2> QED
        BY <1>2, <1>3, <1>4, <1>6, <2>1, <2>2, <2>3, FlowMoves DEF ShapeInv, Types
<1>7. CASE f # 1
    <2> DEFINE c == flows[f].by
    <2>1. c \in DOMAIN calls /\ Live(c)
        BY <1>2, <1>7, RunningFlows
    <2>2. calls' = Answered(c) /\ objects' = ObjectsAnswered(c)
        BY <1>7, EndFlowStep
    <2>3. flows' \in Seq(FlowsType) /\ Len(flows') = Len(flows)
        BY <1>1, <1>2, <1>3
    <2>4. ASSUME NEW g \in DOMAIN flows
          PROVE  /\ flows'[g].by = flows[g].by /\ flows'[g].at = flows[g].at
                 /\ flows'[g].busy = flows[g].busy /\ flows'[g].cursor = flows[g].cursor
                 /\ flows'[g].tagged = flows[g].tagged /\ flows'[g].asks = flows[g].asks
                 /\ flows'[g].ended <=> flows[g].ended \/ flows[g].by = c
                 /\ flows[g].by = c => flows[g].at > Len(Steps)
        <3>1. flows[g].by = c => g = f
            BY DEF ShapeInv
        <3>2. CASE g = f
            BY <1>1, <1>2, <1>4, <3>2
        <3>3. CASE g # f
            BY <1>1, <1>2, <3>1, <3>3
        <3> QED
            BY <3>2, <3>3
    <2> HIDE DEF c
    <2> QED
        BY <1>2, <2>1, <2>2, <2>3, <2>4, AnswerShape
<1> QED
    BY <1>6, <1>7

(* The object that a script of f pushes its item on.                        *)
LEMMA PlaceProperties ==
    ASSUME ShapeInv, Roots = 1, NEW f \in DOMAIN flows, flows[f].busy,
           NEW place, place = PlaceFor(f)
    PROVE  /\ ObjectsFor(f) \in Seq(ObjectsType)
           /\ place \in DOMAIN ObjectsFor(f) /\ place \in Nat \ {0}
           /\ DOMAIN objects \subseteq DOMAIN ObjectsFor(f)
           /\ \A o \in DOMAIN objects : ObjectsFor(f)[o] = objects[o]
           /\ \A o \in DOMAIN ObjectsFor(f) : o \in DOMAIN objects \/ o = place
           /\ ObjectsFor(f)[place].root = <<1, flows[1].at>>
           /\ nested[1] # 0 => place = nested[1] /\ place \in DOMAIN objects
           /\ nested[1] = 0 => /\ place \notin DOMAIN objects
                               /\ ObjectsFor(f)[place] = [stack |-> << >>, root |-> <<1, flows[1].at>>,
                                                          access |-> "unknown"]
           /\ [nested EXCEPT ![Run(f)] = place] = [nested EXCEPT ![1] = place]
<1>1. /\ objects \in Seq(ObjectsType) /\ nested \in Seq(Nat) /\ 1 \in DOMAIN nested
      /\ f \in Nat \ {0} /\ flows[1].at \in Nat /\ f \in DOMAIN nested
    <2>1. objects \in Seq(ObjectsType) /\ nested \in Seq(Nat)
        BY DEF ShapeInv, Types
    <2>2. flows[1].at \in Nat
        BY ShapeTypes DEF FlowsType
    <2> QED
        BY <2>1, <2>2, ShapeTypes
<1>2. /\ Current(f) = nested[f] /\ nested[f] = nested[1] /\ Run(f) = f
      /\ f # 1 => nested[1] # 0
    BY <1>1, BusyFlow, RunIsOwn
<1>3. CASE nested[1] # 0
    <2>1. place = nested[1] /\ ObjectsFor(f) = objects
        BY <1>2, <1>3 DEF PlaceFor, ObjectsFor
    <2>2. place \in DOMAIN objects /\ objects[place].root = <<1, flows[1].at>>
        BY <1>3, <2>1 DEF ShapeInv
    <2>3. [nested EXCEPT ![Run(f)] = place] = [nested EXCEPT ![1] = place]
        BY <1>1, <1>2, <2>1
    <2> QED
        BY <1>1, <1>3, <2>1, <2>2, <2>3
<1>4. CASE nested[1] = 0
    <2> DEFINE new == NewObject(f)
    <2>1. f = 1 /\ place = Len(objects) + 1 /\ ObjectsFor(f) = Append(objects, new)
        BY <1>2, <1>4 DEF PlaceFor, ObjectsFor
    <2>2. flows[1].cursor = <<1, flows[1].at>>
        BY <2>1 DEF ShapeInv, Sound
    <2>3. new = [stack |-> << >>, root |-> <<1, flows[1].at>>, access |-> "unknown"]
        BY <2>1, <2>2 DEF NewObject
    <2> HIDE DEF new
    <2>4. new \in ObjectsType
        BY <1>1, <2>3 DEF ObjectsType, Cursors, Accesses
    <2>5. /\ Append(objects, new) \in Seq(ObjectsType)
          /\ Len(Append(objects, new)) = Len(objects) + 1
          /\ \A o \in DOMAIN objects : Append(objects, new)[o] = objects[o]
          /\ Append(objects, new)[Len(objects) + 1] = new
        BY <1>1, <2>4, AppendProperties
    <2>6. /\ place \notin DOMAIN objects /\ place \in DOMAIN ObjectsFor(f) /\ place \in Nat \ {0}
          /\ DOMAIN objects \subseteq DOMAIN ObjectsFor(f)
          /\ \A o \in DOMAIN ObjectsFor(f) : o \in DOMAIN objects \/ o = place
        BY <1>1, <2>1, <2>5
    <2>7. ObjectsFor(f)[place].root = <<1, flows[1].at>> /\ ObjectsFor(f)[place] = new
        BY <2>1, <2>3, <2>5
    <2> QED
        BY <1>2, <1>4, <2>1, <2>3, <2>5, <2>6, <2>7
<1> QED
    BY <1>3, <1>4

(* What a call does, to the stack st of its object.                         *)
Requested(f, place, stage, item, st) ==
    /\ place = PlaceFor(f) /\ flows[f].busy
    /\ nested' = [nested EXCEPT ![1] = place]
    /\ objects' = [ObjectsFor(f) EXCEPT ![place] = [ObjectsFor(f)[place] EXCEPT !.stack = st]]
    /\ calls' = Append(calls, [ flow |-> f, at |-> flows[f].at, item |-> item,
                                object |-> place, stage |-> stage ])
    /\ flows' = flows /\ host' = host /\ consents' = consents
    /\ flows[f].item \in Names /\ ObjectsFor(f)[place].stack \in Seq(Names)
    /\ LET push == Append(ObjectsFor(f)[place].stack, flows[f].item)
       IN  IF Len(push) > MaxDepth
           THEN stage = "answered" /\ st = Pop(push, flows[f].item)
           ELSE stage = "resolving" /\ st = push

LEMMA RunRequestStep ==
    ASSUME ShapeInv, Roots = 1, NEW f \in DOMAIN flows, RunRequest(f)
    PROVE  \E place \in Nat \ {0}, stage \in {"answered", "resolving"}, item \in Items :
              \E st \in Seq(Names) : Requested(f, place, stage, item, st)
<1> DEFINE place == PlaceFor(f)
           old == ObjectsFor(f)[place].stack
           push == Append(old, flows[f].item)
           refused == Len(push) > MaxDepth
           st == IF refused THEN Pop(push, flows[f].item) ELSE push
<1>1. flows[f].busy /\ flows' = flows /\ host' = host /\ consents' = consents
    BY DEF RunRequest
<1>2. /\ nested' = [nested EXCEPT ![Run(f)] = place]
      /\ objects' = [ObjectsFor(f) EXCEPT ![place].stack = st]
      /\ \E item \in Items :
            calls' = Append(calls, [ flow |-> f, at |-> flows[f].at, item |-> item, object |-> place,
                                     stage |-> IF refused THEN "answered" ELSE "resolving" ])
    BY DEF RunRequest
<1>3. /\ ObjectsFor(f) \in Seq(ObjectsType) /\ place \in DOMAIN ObjectsFor(f) /\ place \in Nat \ {0}
      /\ [nested EXCEPT ![Run(f)] = place] = [nested EXCEPT ![1] = place]
    BY <1>1, PlaceProperties
<1>4. old \in Seq(Names) /\ flows[f].item \in Names
    <2>1. ObjectsFor(f)[place] \in ObjectsType /\ flows[f] \in FlowsType
        BY <1>3, ShapeTypes
    <2> QED
        BY <2>1 DEF ObjectsType, FlowsType
<1>5. push \in Seq(Names)
    BY <1>4
<1>6. st \in Seq(Names)
    BY <1>5, PopType
<1>7. objects' = [ObjectsFor(f) EXCEPT ![place] = [ObjectsFor(f)[place] EXCEPT !.stack = st]]
    BY <1>2
<1> HIDE DEF place, st
<1>8. /\ IF Len(push) > MaxDepth THEN st = Pop(push, flows[f].item) ELSE st = push
      /\ place = PlaceFor(f)
    BY DEF st, place
<1>9. PICK item \in Items :
            calls' = Append(calls, [ flow |-> f, at |-> flows[f].at, item |-> item, object |-> place,
                                     stage |-> IF refused THEN "answered" ELSE "resolving" ])
    BY <1>2
<1>10. CASE refused
    <2>1. Requested(f, place, "answered", item, st)
        BY <1>1, <1>2, <1>3, <1>4, <1>7, <1>8, <1>9, <1>10 DEF Requested
    <2> QED
        BY <1>3, <1>6, <2>1
<1>11. CASE ~refused
    <2>1. Requested(f, place, "resolving", item, st)
        BY <1>1, <1>2, <1>3, <1>4, <1>7, <1>8, <1>9, <1>11 DEF Requested
    <2> QED
        BY <1>3, <1>6, <2>1
<1> QED
    BY <1>10, <1>11

LEMMA RunRequestShape ==
    ASSUME ShapeInv, Roots = 1, NEW f \in DOMAIN flows, RunRequest(f)
    PROVE  ShapeInv'
<1>0. PICK place \in Nat \ {0}, stage \in {"answered", "resolving"}, item \in Items :
         \E st \in Seq(Names) : Requested(f, place, stage, item, st)
    BY RunRequestStep
<1>a. PICK st \in Seq(Names) : Requested(f, place, stage, item, st)
    BY <1>0
<1>1. /\ place = PlaceFor(f) /\ flows[f].busy
      /\ nested' = [nested EXCEPT ![1] = place]
      /\ objects' = [ObjectsFor(f) EXCEPT ![place] = [ObjectsFor(f)[place] EXCEPT !.stack = st]]
      /\ calls' = Append(calls, [ flow |-> f, at |-> flows[f].at, item |-> item,
                                  object |-> place, stage |-> stage ])
      /\ flows' = flows /\ host' = host
    BY <1>a DEF Requested
<1> DEFINE objs == ObjectsFor(f)
           e == [objs[place] EXCEPT !.stack = st]
           new == [ flow |-> f, at |-> flows[f].at, item |-> item, object |-> place, stage |-> stage ]
<1>2. /\ objs \in Seq(ObjectsType) /\ place \in DOMAIN objs
      /\ DOMAIN objects \subseteq DOMAIN objs
      /\ objs[place].root = <<1, flows[1].at>>
      /\ nested[1] # 0 => place = nested[1]
    BY <1>1, PlaceProperties
<1>3. /\ calls \in Seq(CallsType) /\ nested \in Seq(Nat)
      /\ 1 \in DOMAIN flows /\ DOMAIN nested = DOMAIN flows
      /\ flows[f].at \in Nat /\ f \in Nat \ {0} /\ Len(Steps) \in Nat
    <2>1. calls \in Seq(CallsType) /\ nested \in Seq(Nat)
        BY DEF ShapeInv, Types
    <2>2. flows[f].at \in Nat
        BY ShapeTypes DEF FlowsType
    <2> QED
        BY <2>1, <2>2, ShapeTypes
<1> HIDE DEF objs
<1>4. objs[place] \in ObjectsType
    BY <1>2
<1>5. e \in ObjectsType /\ e.root = objs[place].root
    BY <1>1, <1>4 DEF ObjectsType
<1>6. objects' = [objs EXCEPT ![place] = e]
    BY <1>1 DEF objs
<1> HIDE DEF e
<1>7. /\ objects' \in Seq(ObjectsType) /\ DOMAIN objects' = DOMAIN objs
      /\ objects'[place].root = <<1, flows[1].at>>
    BY <1>2, <1>5, <1>6
<1>8. new \in CallsType
    BY <1>1, <1>3 DEF CallsType
<1>9. new.flow = f /\ new.at = flows[f].at /\ new.object = place
    OBVIOUS
<1>10. calls' = Append(calls, new)
    BY <1>1
<1> HIDE DEF new
<1>11. /\ calls' \in Seq(CallsType) /\ DOMAIN calls' = DOMAIN calls \cup {Len(calls) + 1}
       /\ \A c \in DOMAIN calls : calls'[c] = calls[c]
       /\ calls'[Len(calls) + 1] = new
    BY <1>3, <1>8, <1>10
<1>12. /\ nested' \in Seq(Nat) /\ Len(nested') = Len(nested) /\ nested'[1] = place
       /\ \A g \in DOMAIN flows : g # 1 => nested'[g] = nested[g]
    BY <1>1, <1>3
<1>13. Types'
    BY <1>1, <1>7, <1>11, <1>12 DEF ShapeInv, Types
<1>14. \A g \in DOMAIN flows : Sound(g, flows'[g], flows'[1].at)
    BY <1>1 DEF ShapeInv
<1>15. ASSUME NEW g \in DOMAIN flows, g # 1 PROVE Runs(g)'
    <2>1. Runs(g) /\ flows' = flows
        BY <1>1, <1>15 DEF ShapeInv
    <2>2. flows[g].by \in DOMAIN calls' /\ calls'[flows[g].by] = calls[flows[g].by]
        BY <1>11, <2>1 DEF Runs
    <2>3. ~flows[g].ended => nested'[g] = nested'[1]
        BY <1>2, <1>12, <1>15, RunningFlows
    <2> QED
        BY <2>1, <2>2, <2>3 DEF Runs, Caller
<1>16. ASSUME NEW c \in DOMAIN calls' PROVE Waits(c)'
    <2>1. CASE c \in DOMAIN calls
        <3>1. Waits(c) /\ calls'[c] = calls[c] /\ flows' = flows
            BY <1>1, <1>11, <2>1 DEF ShapeInv
        <3>2. Live(c) => nested[1] # 0
            BY <2>1, LiveCalls
        <3> QED
            BY <1>2, <1>7, <1>12, <3>1, <3>2 DEF Waits, Live
    <2>2. CASE c = Len(calls) + 1
        <3>1. calls'[c].flow = f /\ calls'[c].at = flows[f].at /\ calls'[c].object = place
            BY <1>9, <1>11, <2>2
        <3> QED
            BY <1>1, <1>2, <1>7, <1>12, <3>1 DEF Waits
    <2> QED
        BY <1>11, <2>1, <2>2
<1>17. flows[1].busy
    <2>1. CASE f = 1
        BY <1>1, <2>1
    <2>2. CASE f # 1
        <3>1. nested[1] # 0
            BY <1>1, <2>2, BusyFlow
        <3> QED
            BY <3>1 DEF ShapeInv
    <2> QED
        BY <2>1, <2>2
<1>18. nested'[1] # 0 => /\ nested'[1] \in DOMAIN objects' /\ flows'[1].busy
                         /\ objects'[nested'[1]].root = <<1, flows'[1].at>>
    BY <1>1, <1>2, <1>7, <1>12, <1>17
<1>19. \A g, h \in DOMAIN flows : flows'[g].by = flows'[h].by => g = h
    BY <1>1 DEF ShapeInv
<1> QED
    BY <1>1, <1>13, <1>14, <1>15, <1>16, <1>18, <1>19 DEF ShapeInv

(* A run begins for a call.                                                 *)
LEMMA AnswersStep ==
    ASSUME ShapeInv, Roots = 1, NEW c \in DOMAIN calls, ResolverAnswers(c),
           NEW n, n = Len(flows) + 1
    PROVE  /\ Live(c) /\ calls[c].stage = "resolving" /\ n \in Nat \ {0}
           /\ calls' \in Seq(CallsType) /\ DOMAIN calls' = DOMAIN calls
           /\ \A e \in DOMAIN calls : e # c => calls'[e] = calls[e]
           /\ calls'[c] = [calls[c] EXCEPT !.stage = "running"]
           /\ flows' \in Seq(FlowsType) /\ Len(flows') = n /\ DOMAIN flows' = DOMAIN flows \cup {n}
           /\ n \notin DOMAIN flows
           /\ \A g \in DOMAIN flows : flows'[g] = flows[g]
           /\ flows'[n] = Flow(calls[c].item, c) /\ Flow(calls[c].item, c) \in FlowsType
           /\ nested' \in Seq(Nat) /\ Len(nested') = n /\ nested'[n] = nested[1]
           /\ \A g \in DOMAIN flows : nested'[g] = nested[g]
           /\ objects' = objects /\ host' = host /\ consents' = consents
<1> DEFINE new == Flow(calls[c].item, c)
<1>1. /\ Live(c) /\ calls[c].stage = "resolving"
      /\ calls' = [calls EXCEPT ![c] = [calls[c] EXCEPT !.stage = "running"]]
      /\ flows' = Append(flows, new) /\ nested' = Append(nested, Current(calls[c].flow))
      /\ objects' = objects /\ host' = host /\ consents' = consents
    BY DEF ResolverAnswers, Live
<1>2. /\ calls \in Seq(CallsType) /\ flows \in Seq(FlowsType) /\ nested \in Seq(Nat)
      /\ Len(nested) = Len(flows)
    BY DEF ShapeInv, Types
<1>3. Current(calls[c].flow) = nested[1] /\ nested[1] \in Nat
    <2>1. calls[c].flow \in DOMAIN flows /\ nested[calls[c].flow] = nested[1]
        BY <1>1, LiveCalls
    <2>2. calls[c].flow \in Nat \ {0}
        BY <2>1, ShapeTypes
    <2> QED
        BY <2>1, <2>2, RunIsOwn, ShapeTypes
<1>4. new \in FlowsType
    <2>1. calls[c].item \in Names /\ c \in Nat
        <3>1. calls[c] \in CallsType /\ DOMAIN calls = 1 .. Len(calls)
            BY <1>2
        <3> QED
            BY <3>1 DEF CallsType, Names
    <2> QED
        BY <2>1 DEF Flow, FlowsType, Cursors, Accesses, NoCursor
<1>5. [calls[c] EXCEPT !.stage = "running"] \in CallsType
    <2>1. calls[c] \in CallsType
        BY <1>2
    <2> QED
        BY <2>1 DEF CallsType
<1>6. /\ calls' \in Seq(CallsType) /\ DOMAIN calls' = DOMAIN calls
      /\ \A e \in DOMAIN calls : e # c => calls'[e] = calls[e]
      /\ calls'[c] = [calls[c] EXCEPT !.stage = "running"]
    BY <1>1, <1>2, <1>5
<1> HIDE DEF new
<1>7. /\ flows' \in Seq(FlowsType) /\ Len(flows') = n /\ DOMAIN flows' = DOMAIN flows \cup {n}
      /\ n \notin DOMAIN flows /\ n \in Nat \ {0} /\ flows'[n] = new
      /\ \A g \in DOMAIN flows : flows'[g] = flows[g]
    BY <1>1, <1>2, <1>4
<1>8. /\ nested' \in Seq(Nat) /\ Len(nested') = n /\ nested'[n] = nested[1]
      /\ \A g \in DOMAIN flows : nested'[g] = nested[g]
    BY <1>1, <1>2, <1>3
<1> QED
    BY <1>1, <1>4, <1>6, <1>7, <1>8 DEF new

LEMMA ResolverAnswersShape ==
    ASSUME ShapeInv, Roots = 1, NEW c \in DOMAIN calls, ResolverAnswers(c)
    PROVE  ShapeInv'
<1> DEFINE n == Len(flows) + 1
<1>1. /\ Live(c) /\ calls[c].stage = "resolving" /\ n \in Nat \ {0}
      /\ calls' \in Seq(CallsType) /\ DOMAIN calls' = DOMAIN calls
      /\ \A e \in DOMAIN calls : e # c => calls'[e] = calls[e]
      /\ calls'[c] = [calls[c] EXCEPT !.stage = "running"]
    BY AnswersStep
<1>2. /\ flows' \in Seq(FlowsType) /\ Len(flows') = n /\ DOMAIN flows' = DOMAIN flows \cup {n}
      /\ n \notin DOMAIN flows
      /\ \A g \in DOMAIN flows : flows'[g] = flows[g]
      /\ flows'[n] = Flow(calls[c].item, c)
    BY AnswersStep
<1>3. /\ nested' \in Seq(Nat) /\ Len(nested') = n /\ nested'[n] = nested[1]
      /\ \A g \in DOMAIN flows : nested'[g] = nested[g]
      /\ objects' = objects /\ host' = host
    BY AnswersStep
<1>4. 1 \in DOMAIN flows /\ \A g \in DOMAIN flows : g \in Nat /\ g < n /\ g # 0
    BY ShapeTypes
<1> HIDE DEF n
<1>5. /\ calls'[c].stage = "running" /\ calls'[c].flow = calls[c].flow
      /\ calls'[c].at = calls[c].at /\ calls'[c].object = calls[c].object
    BY <1>1, ShapeTypes DEF CallsType
<1>6. \A e \in DOMAIN calls : /\ calls'[e].flow = calls[e].flow /\ calls'[e].at = calls[e].at
                              /\ calls'[e].object = calls[e].object
                              /\ Live(e)' <=> Live(e)
    BY <1>1, <1>5 DEF Live
<1>7. Types'
    <2>1. objects' \in Seq(ObjectsType) /\ host' \in {"up", "disposed"}
        BY <1>3 DEF ShapeInv, Types
    <2> QED
        BY <1>1, <1>2, <1>3, <2>1 DEF Types
<1>8. flows'[n].by = c /\ ~flows'[n].busy /\ ~flows'[n].ended /\ flows'[n].asks = 0 /\ c # 0
    BY <1>2, ShapeTypes DEF Flow
<1>9. \A g \in DOMAIN flows : flows[g].by # c
    <2> TAKE g \in DOMAIN flows
    <2>1. g = 1 => flows[g].by = 0
        BY DEF ShapeInv, Sound
    <2>2. g # 1 => calls[flows[g].by].stage # "resolving"
        BY DEF ShapeInv, Runs
    <2> QED
        BY <1>1, <2>1, <2>2, ShapeTypes
<1>10. \A g \in DOMAIN flows' : Sound(g, flows'[g], flows'[1].at)
    <2> TAKE g \in DOMAIN flows'
    <2>1. CASE g \in DOMAIN flows
        BY <1>2, <1>4, <2>1 DEF ShapeInv
    <2>2. CASE g = n
        BY <1>2, <1>4, <1>8, <2>2 DEF Sound
    <2> QED
        BY <1>2, <2>1, <2>2
<1>11. ASSUME NEW g \in DOMAIN flows', g # 1 PROVE Runs(g)'
    <2>1. CASE g \in DOMAIN flows
        <3>1. Runs(g) /\ flows'[g] = flows[g] /\ nested'[g] = nested[g] /\ nested'[1] = nested[1]
            BY <1>2, <1>3, <1>4, <1>11, <2>1 DEF ShapeInv
        <3>2. flows[g].by \in DOMAIN calls /\ calls'[flows[g].by] = calls[flows[g].by]
            BY <1>1, <1>9, <2>1, <3>1 DEF Runs
        <3> QED
            BY <1>1, <3>1, <3>2 DEF Runs, Caller
    <2>2. CASE g = n
        <3>1. calls[c].flow \in DOMAIN flows
            BY DEF ShapeInv, Waits
        <3> QED
            BY <1>1, <1>3, <1>4, <1>5, <1>8, <2>2, <3>1 DEF Runs, Caller
    <2> QED
        BY <1>2, <2>1, <2>2
<1>12. ASSUME NEW g \in DOMAIN flows', NEW h \in DOMAIN flows', flows'[g].by = flows'[h].by
       PROVE  g = h
    BY <1>2, <1>8, <1>9, <1>12 DEF ShapeInv
<1>13. ASSUME NEW e \in DOMAIN calls PROVE Waits(e)'
    <2>1. Waits(e)
        BY DEF ShapeInv
    <2> QED
        BY <1>2, <1>3, <1>4, <1>6, <2>1 DEF Waits
<1>14. nested'[1] # 0 => /\ nested'[1] \in DOMAIN objects' /\ flows'[1].busy
                         /\ objects'[nested'[1]].root = <<1, flows'[1].at>>
    BY <1>2, <1>3, <1>4 DEF ShapeInv
<1> QED
    BY <1>1, <1>7, <1>10, <1>11, <1>12, <1>13, <1>14 DEF ShapeInv

LEMMA NextShape ==
    ASSUME ShapeInv, Roots = 1, ~Interrupts, ~TimesOut, [Next]_vars
    PROVE  ShapeInv'
<1>1. ASSUME NEW f \in DOMAIN flows,
             BeginScript(f) \/ EndScript(f) \/ Request(f) \/ EndFlow(f)
                \/ UseVault(f) \/ HostConsents(f) \/ RunRequest(f)
      PROVE  ShapeInv'
    BY <1>1, BeginScriptShape, EndScriptShape, RequestShape, EndFlowShape, VaultShape, RunRequestShape
<1>2. ASSUME NEW c \in DOMAIN calls, ResolverFails(c) \/ ResolverAnswers(c)
      PROVE  ShapeInv'
    BY <1>2, ResolverFailsShape, ResolverAnswersShape
<1>3. CASE UNCHANGED vars
    BY <1>3 DEF vars, ShapeInv, Types, Runs, Waits, Live, Caller
<1> QED
    BY <1>1, <1>2, <1>3 DEF Next, Script, Vault, Call

(***************************************************************************)
(* The host                                                                *)
(***************************************************************************)
LEMMA HostStep ==
    ASSUME ShapeInv, HostKept, Roots = 1, ~TimesOut, [Next]_vars
    PROVE  HostKept'
<1>1. \A f \in DOMAIN flows : flows[f].ended => ~flows[f].busy /\ flows[f].asks = 0
                                             /\ ~(flows[f].at <= Len(Steps))
    <2> TAKE f \in DOMAIN flows
    <2>1. flows[f].at \in Nat /\ Len(Steps) \in Nat
        BY ShapeTypes DEF FlowsType
    <2> QED
        BY <2>1 DEF ShapeInv, Sound
<1>2. ASSUME NEW f \in DOMAIN flows, EndFlow(f)
      PROVE  HostKept'
    <2>1. flows[f].at > Len(Steps) /\ ~flows[f].ended /\ host' = (IF Disposes(f) THEN "disposed" ELSE host)
          /\ flows' = [flows EXCEPT ![f].ended = TRUE]
        BY <1>2, EndFlowStep
    <2>2. host # "disposed"
        BY <2>1 DEF HostKept
    <2>3. ASSUME Disposes(f) PROVE \A g \in DOMAIN flows : g # f => flows[g].ended
        <3>1. Current(f) = 0 /\ nested[f] = 0
            BY <2>3, RunIsOwn, ShapeTypes DEF Disposes
        <3>2. f = 1
            BY <2>1, <3>1, RunningFlows
        <3>3. ~flows[f].busy
            BY <2>1, ShapeTypes DEF ShapeInv, Sound, FlowsType
        <3> QED
            BY <3>2, <3>3, IdleFlow, NoneRuns
    <2>4. DOMAIN flows' = DOMAIN flows /\ \A g \in DOMAIN flows : g # f => flows'[g] = flows[g]
        BY <2>1
    <2>5. flows'[f].ended
        BY <2>1, ShapeTypes DEF FlowsType
    <2> QED
        BY <2>1, <2>2, <2>3, <2>4, <2>5 DEF HostKept
<1>3. ASSUME NEW f \in DOMAIN flows,
             BeginScript(f) \/ EndScript(f) \/ Request(f)
                \/ UseVault(f) \/ HostConsents(f) \/ RunRequest(f)
      PROVE  HostKept'
    <2>1. ~flows[f].ended
        <3>1. CASE BeginScript(f)
            BY <1>1, <3>1 DEF BeginScript, OnScript
        <3>2. CASE EndScript(f) \/ UseVault(f) \/ RunRequest(f)
            BY <1>1, <3>2 DEF EndScript, UseVault, RunRequest
        <3>3. CASE Request(f)
            BY <1>1, <3>3 DEF Request
        <3>4. CASE HostConsents(f)
            BY <1>1, <3>4 DEF HostConsents
        <3> QED
            BY <1>3, <3>1, <3>2, <3>3, <3>4
    <2>2. host' = host
        BY <1>3 DEF BeginScript, EndScript, Request, UseVault, HostConsents, RunRequest
    <2> QED
        BY <2>1, <2>2 DEF HostKept
<1>4. ASSUME NEW c \in DOMAIN calls, ResolverFails(c) \/ ResolverAnswers(c)
      PROVE  HostKept'
    <2>1. Live(c) /\ host' = host
        BY <1>4 DEF ResolverFails, ResolverAnswers, Live
    <2>2. calls[c].flow \in DOMAIN flows /\ ~flows[calls[c].flow].ended
        BY <2>1, LiveCalls
    <2> QED
        BY <2>1, <2>2 DEF HostKept
<1>5. CASE UNCHANGED vars
    BY <1>5 DEF vars, HostKept
<1> QED
    BY <1>2, <1>3, <1>4, <1>5 DEF Next, Script, Vault, Call

(* No run of a chain ends the sandbox that the others use: a nested run     *)
(* finds the object of its chain, and the host's own run ends last.         *)
THEOREM SandboxOutlivesRuns ==
    ASSUME Roots = 1, ~Interrupts, ~TimesOut
    PROVE  Spec => []HostKept
<1>1. Init => ShapeInv /\ HostKept
    BY InitShape DEF Init, HostKept
<1>2. ShapeInv /\ HostKept /\ [Next]_vars => (ShapeInv /\ HostKept)'
    BY NextShape, HostStep
<1> QED
    BY <1>1, <1>2, PTL DEF Spec

(***************************************************************************)
(* The vault                                                               *)
(***************************************************************************)

(* Whoever found out that the vault may be used, the host let it be so for  *)
(* its item.                                                                *)
VaultInv ==
    /\ \A f \in DOMAIN flows : flows[f].access = "yes" => 1 \in consents
    /\ \A o \in DOMAIN objects : objects[o].access = "yes" => 1 \in consents

LEMMA FoundOut ==
    ASSUME ShapeInv, Roots = 1, VaultInv, NEW f \in DOMAIN flows, flows[f].busy,
           NEW answer \in Accesses, answer = "yes" => 1 \in consents',
           flows'[f].access = answer, DOMAIN flows' = DOMAIN flows,
           \A g \in DOMAIN flows : g # f => flows'[g] = flows[g],
           objects' = objects \/ objects' = Remember(f, answer),
           consents \subseteq consents'
    PROVE  VaultInv'
<1>1. \A g \in DOMAIN flows : flows'[g].access = "yes" => 1 \in consents'
    BY DEF VaultInv
<1>2. CASE objects' = objects
    BY <1>1, <1>2 DEF VaultInv
<1>3. CASE /\ Current(f) \in DOMAIN objects
           /\ objects' = [objects EXCEPT ![Current(f)].access = answer]
    <2>1. DOMAIN objects' = DOMAIN objects
          /\ \A o \in DOMAIN objects : o # Current(f) => objects'[o] = objects[o]
        BY <1>3
    <2>2. objects'[Current(f)].access = answer
        BY <1>3, ShapeTypes DEF ObjectsType
    <2> QED
        BY <1>1, <2>1, <2>2 DEF VaultInv
<1>4. Current(f) # 0 => Current(f) \in DOMAIN objects
    BY BusyFlow
<1> QED
    BY <1>2, <1>3, <1>4 DEF Remember

LEMMA VaultStep ==
    ASSUME ShapeInv, VaultInv, Roots = 1, ~TimesOut, [Next]_vars
    PROVE  VaultInv'
<1>1. ASSUME NEW f \in DOMAIN flows, BeginScript(f) \/ EndScript(f) \/ Request(f)
      PROVE  VaultInv'
    <2>1. flows[f] \in FlowsType /\ objects' = objects /\ consents' = consents
        BY <1>1, ShapeTypes DEF BeginScript, EndScript, Request
    <2>2. /\ DOMAIN flows' = DOMAIN flows
          /\ \A g \in DOMAIN flows : g # f => flows'[g] = flows[g]
        BY <1>1 DEF BeginScript, EndScript, Request
    <2>3. flows'[f].access \in {flows[f].access, "unknown"}
        <3>1. CASE BeginScript(f)
            BY <2>1, <3>1 DEF BeginScript, FlowsType
        <3>2. CASE EndScript(f)
            <4>1. PICK at \in {flows[f].at + 1, Len(Steps) + 1} :
                    flows' = [flows EXCEPT ![f] =
                       [@ EXCEPT !.busy = FALSE, !.asks = 0, !.at = at,
                                 !.access = IF SameEvent(flows[f].at, at) THEN flows[f].access ELSE "unknown"]]
                BY <3>2 DEF EndScript
            <4> DEFINE access == IF SameEvent(flows[f].at, at) THEN flows[f].access ELSE "unknown"
            <4>2. flows' = [flows EXCEPT ![f] = [flows[f] EXCEPT !.busy = FALSE, !.asks = 0, !.at = at,
                                                                 !.access = access]]
                BY <4>1
            <4>3. access \in {flows[f].access, "unknown"}
                OBVIOUS
            <4> HIDE DEF access
            <4> QED
                BY <2>1, <4>2, <4>3 DEF FlowsType
        <3>3. CASE Request(f)
            <4>1. PICK end \in {"next", "last"} :
                    flows' = [flows EXCEPT ![f] = [@ EXCEPT
                        !.at = IF end = "next" THEN flows[f].at + 1 ELSE Len(Steps) + 1,
                        !.told = IF flows[f].by = 0 THEN <<f, 0>> ELSE Told(f)]]
                BY <3>3 DEF Request
            <4> DEFINE at == IF end = "next" THEN flows[f].at + 1 ELSE Len(Steps) + 1
                       told == IF flows[f].by = 0 THEN <<f, 0>> ELSE Told(f)
            <4>2. flows' = [flows EXCEPT ![f] = [flows[f] EXCEPT !.at = at, !.told = told]]
                BY <4>1
            <4> HIDE DEF at, told
            <4> QED
                BY <2>1, <4>2 DEF FlowsType
        <3> QED
            BY <1>1, <3>1, <3>2, <3>3
    <2> QED
        BY <2>1, <2>2, <2>3 DEF VaultInv
<1>2. ASSUME NEW f \in DOMAIN flows, UseVault(f)
      PROVE  VaultInv'
    <2>1. flows[f] \in FlowsType /\ flows[f].busy /\ consents' = consents
        BY <1>2, ShapeTypes DEF UseVault
    <2>2. CASE flows[f].access # "unknown"
        <3>1. flows' = flows /\ objects' = Remember(f, flows[f].access)
            BY <1>2, <2>2 DEF UseVault
        <3>2. flows[f].access \in Accesses /\ (flows[f].access = "yes" => 1 \in consents')
            BY <2>1 DEF VaultInv, FlowsType, Accesses
        <3> QED
            BY <2>1, <3>1, <3>2, FoundOut
    <2>3. CASE flows[f].access = "unknown" /\ Granted(f)
        <3>1. Current(f) # 0 /\ objects[Current(f)].access = "yes"
            BY <2>3 DEF Granted
        <3>2. 1 \in consents
            BY <2>1, <3>1, BusyFlow DEF VaultInv
        <3>3. flows' = [flows EXCEPT ![f].access = "yes"] /\ objects' = Remember(f, "yes")
            BY <1>2, <2>3 DEF UseVault
        <3>4. flows'[f].access = "yes" /\ "yes" \in Accesses
            BY <2>1, <3>3 DEF FlowsType, Accesses
        <3>5. DOMAIN flows' = DOMAIN flows /\ \A g \in DOMAIN flows : g # f => flows'[g] = flows[g]
            BY <3>3
        <3> QED
            BY <2>1, <3>2, <3>3, <3>4, <3>5, FoundOut
    <2>4. CASE flows[f].access = "unknown" /\ ~Granted(f)
        <3>1. flows' = [flows EXCEPT ![f].asks = @ + 1] /\ objects' = objects
            BY <1>2, <2>4 DEF UseVault
        <3>2. flows'[f].access = flows[f].access
            BY <2>1, <3>1 DEF FlowsType
        <3>3. DOMAIN flows' = DOMAIN flows /\ \A g \in DOMAIN flows : g # f => flows'[g] = flows[g]
            BY <3>1
        <3> QED
            BY <2>1, <3>1, <3>2, <3>3 DEF VaultInv
    <2> QED
        BY <2>2, <2>3, <2>4
<1>3. ASSUME NEW f \in DOMAIN flows, HostConsents(f)
      PROVE  VaultInv'
    <2>1. PICK answer \in {"yes", "no"} :
            /\ flows' = [flows EXCEPT ![f].access = answer, ![f].asks = @ - 1]
            /\ objects' = Remember(f, answer)
            /\ consents' = IF answer = "yes" THEN consents \cup {flows[f].cursor[1]} ELSE consents
        BY <1>3 DEF HostConsents
    <2>2. flows[f] \in FlowsType /\ flows[f].asks > 0 /\ flows[f].asks \in Nat
        BY <1>3, ShapeTypes DEF HostConsents, FlowsType
    <2>3. flows[f].busy /\ flows[f].cursor[1] = 1
        BY <2>2 DEF ShapeInv, Sound
    <2>4. flows'[f].access = answer /\ answer \in Accesses
        BY <2>1, <2>2 DEF FlowsType, Accesses
    <2>5. DOMAIN flows' = DOMAIN flows /\ \A g \in DOMAIN flows : g # f => flows'[g] = flows[g]
        BY <2>1
    <2> QED
        BY <2>1, <2>3, <2>4, <2>5, FoundOut
<1>4. ASSUME ShapeInv, NEW c \in DOMAIN calls, Live(c), objects' = ObjectsAnswered(c)
      PROVE  \A o \in DOMAIN objects' : o \in DOMAIN objects /\ objects'[o].access = objects[o].access
    <2> SUFFICES ASSUME NEW o \in DOMAIN objects
                 PROVE  objects'[o].access = objects[o].access
        BY <1>4, AnswerProperties
    <2> DEFINE st == Pop(objects[o].stack, flows[calls[c].flow].item)
    <2>1. objects[o] \in ObjectsType
        BY ShapeTypes
    <2>2. objects'[o] = IF o = nested[1] THEN [objects[o] EXCEPT !.stack = st] ELSE objects[o]
        BY <1>4, AnswerProperties
    <2> HIDE DEF st
    <2> QED
        BY <2>1, <2>2 DEF ObjectsType
<1>5. ASSUME NEW f \in DOMAIN flows, EndFlow(f)
      PROVE  VaultInv'
    <2>1. flows[f] \in FlowsType /\ consents' = consents /\ flows' = [flows EXCEPT ![f].ended = TRUE]
          /\ ~flows[f].ended
        BY <1>5, ShapeTypes, EndFlowStep
    <2>2. \A g \in DOMAIN flows' : g \in DOMAIN flows /\ flows'[g].access = flows[g].access
        BY <2>1, ShapeTypes DEF FlowsType
    <2>3. CASE flows[f].by = 0
        BY <1>5, <2>1, <2>2, <2>3, EndFlowStep DEF VaultInv
    <2>4. CASE flows[f].by # 0
        <3>1. f # 1
            BY <2>4 DEF ShapeInv, Sound
        <3>2. flows[f].by \in DOMAIN calls /\ Live(flows[f].by) /\ objects' = ObjectsAnswered(flows[f].by)
            BY <1>5, <2>1, <2>4, <3>1, RunningFlows, EndFlowStep
        <3> QED
            BY <1>4, <2>1, <2>2, <3>2 DEF VaultInv
    <2> QED
        BY <2>3, <2>4
<1>6. ASSUME NEW c \in DOMAIN calls, ResolverFails(c)
      PROVE  VaultInv'
    <2>1. /\ Live(c) /\ objects' = ObjectsAnswered(c) /\ flows' = flows /\ consents' = consents
        BY <1>6 DEF ResolverFails, Live
    <2> QED
        BY <1>4, <2>1 DEF VaultInv
<1>7. ASSUME NEW c \in DOMAIN calls, ResolverAnswers(c)
      PROVE  VaultInv'
    <2> DEFINE n == Len(flows) + 1
    <2>1. /\ DOMAIN flows' = DOMAIN flows \cup {n} /\ \A g \in DOMAIN flows : flows'[g] = flows[g]
          /\ flows'[n] = Flow(calls[c].item, c) /\ objects' = objects /\ consents' = consents
        BY <1>7, AnswersStep
    <2>2. flows'[n].access = "unknown"
        BY <2>1 DEF Flow
    <2> HIDE DEF n
    <2> QED
        BY <2>1, <2>2 DEF VaultInv
<1>8. ASSUME NEW f \in DOMAIN flows, RunRequest(f)
      PROVE  VaultInv'
    <2>0. PICK place \in Nat \ {0}, stage \in {"answered", "resolving"}, item \in Items :
             \E st \in Seq(Names) : Requested(f, place, stage, item, st)
        BY <1>8, RunRequestStep
    <2>a. PICK st \in Seq(Names) : Requested(f, place, stage, item, st)
        BY <2>0
    <2>1. /\ place = PlaceFor(f) /\ flows[f].busy
          /\ objects' = [ObjectsFor(f) EXCEPT ![place] = [ObjectsFor(f)[place] EXCEPT !.stack = st]]
          /\ flows' = flows /\ consents' = consents
        BY <2>a DEF Requested
    <2> DEFINE objs == ObjectsFor(f)
               e == [objs[place] EXCEPT !.stack = st]
    <2>2. /\ objs \in Seq(ObjectsType) /\ place \in DOMAIN objs
          /\ \A o \in DOMAIN objects : objs[o] = objects[o]
          /\ \A o \in DOMAIN objs : o \in DOMAIN objects \/ o = place
          /\ nested[1] # 0 => place \in DOMAIN objects
          /\ nested[1] = 0 => objs[place] = [stack |-> << >>, root |-> <<1, flows[1].at>>,
                                             access |-> "unknown"]
        BY <2>1, PlaceProperties
    <2>3. objects' = [objs EXCEPT ![place] = e]
        BY <2>1
    <2> HIDE DEF objs
    <2>4. objs[place] \in ObjectsType
        BY <2>2
    <2>5. e.access = objs[place].access
        BY <2>4 DEF ObjectsType
    <2> HIDE DEF e
    <2>6. \A o \in DOMAIN objects' : o \in DOMAIN objs /\ objects'[o].access = objs[o].access
        BY <2>2, <2>3, <2>5
    <2>7. place \notin DOMAIN objects => objs[place].access = "unknown"
        BY <2>2
    <2> QED
        BY SMTT(30), <2>1, <2>2, <2>6, <2>7 DEF VaultInv
<1>9. CASE UNCHANGED vars
    BY <1>9 DEF vars, VaultInv
<1> QED
    BY <1>1, <1>2, <1>3, <1>5, <1>6, <1>7, <1>8, <1>9 DEF Next, Script, Vault, Call

(* However scripts call each other, and whichever of them asks the host     *)
(* first or at once, none uses the vault for an item at the root that the   *)
(* host did not let use it.                                                 *)
THEOREM VaultNeedsConsent ==
    ASSUME Roots = 1, ~Interrupts, ~TimesOut
    PROVE  Spec => []VaultConsent
<1>1. Init => ShapeInv /\ VaultInv
    <2>1. Init => \A f \in DOMAIN flows : flows[f].access = "unknown"
        BY DEF Init, Flow
    <2> QED
        BY <2>1, InitShape DEF Init, VaultInv
<1>2. ShapeInv /\ VaultInv /\ [Next]_vars => (ShapeInv /\ VaultInv)'
    BY NextShape, VaultStep
<1>3. ShapeInv /\ VaultInv => VaultConsent
    <2> SUFFICES ASSUME ShapeInv, VaultInv, NEW f \in DOMAIN flows, flows[f].busy,
                        flows[f].access = "yes"
                 PROVE  RootScript(f, flows[f].at)[1] \in consents
        BY DEF VaultConsent
    <2>1. RootScript(f, flows[f].at)[1] = 1
        <3>1. CASE f = 1
            BY <3>1 DEF RootScript, ShapeInv, Sound
        <3>2. CASE f # 1
            BY <3>2, BusyFlow, RootIsHost
        <3> QED
            BY <3>1, <3>2
    <2> QED
        BY <2>1 DEF VaultInv
<1> QED
    BY <1>1, <1>2, <1>3, PTL DEF Spec

(***************************************************************************)
(* The call stack                                                          *)
(***************************************************************************)
Places(s, e) == {i \in DOMAIN s : s[i] = e}

LEMMA PlacesFinite ==
    ASSUME NEW s \in Seq(Names), NEW e
    PROVE  IsFiniteSet(Places(s, e)) /\ Cardinality(Places(s, e)) \in Nat
<1>1. Places(s, e) \in SUBSET (1 .. Len(s)) /\ Len(s) \in Nat
    BY DEF Places
<1>2. IsFiniteSet(1 .. Len(s))
    BY <1>1, FS_Interval
<1> QED
    BY <1>1, <1>2, FS_Subset, FS_CardinalityType

LEMMA PushPlaces ==
    ASSUME NEW s \in Seq(Names), NEW e \in Names, NEW x
    PROVE  Cardinality(Places(Append(s, e), x)) =
               IF x = e THEN Cardinality(Places(s, x)) + 1 ELSE Cardinality(Places(s, x))
<1> DEFINE n == Len(s) + 1
           t == Append(s, e)
<1>1. /\ DOMAIN t = DOMAIN s \cup {n} /\ n \notin DOMAIN s /\ t[n] = e
      /\ \A i \in DOMAIN s : t[i] = s[i]
    OBVIOUS
<1> HIDE DEF n, t
<1>2. CASE x = e
    <2>1. Places(t, x) = Places(s, x) \cup {n} /\ n \notin Places(s, x)
        BY <1>1, <1>2 DEF Places
    <2> QED
        BY <1>2, <2>1, PlacesFinite, FS_AddElement DEF t
<1>3. CASE x # e
    <2>1. Places(t, x) = Places(s, x)
        BY <1>1, <1>3 DEF Places
    <2> QED
        BY <1>3, <2>1 DEF t
<1> QED
    BY <1>2, <1>3

LEMMA PopPlaces ==
    ASSUME NEW s \in Seq(Names), NEW e, NEW j \in 1 .. Len(s), s[j] = e, NEW x
    PROVE  Cardinality(Places(Pop(s, e), x)) =
               IF x = e THEN Cardinality(Places(s, x)) - 1 ELSE Cardinality(Places(s, x))
<1> DEFINE t == Pop(s, e)
<1>0. PICK k \in 1 .. Len(s) : TakenOff(s, e, k, t)
    BY PopProperties
<1> HIDE DEF t
<1>1. /\ s[k] = e /\ \A i \in 1 .. Len(s) : s[i] = e => i <= k
      /\ t \in Seq(Names) /\ Len(t) = Len(s) - 1
      /\ \A i \in 1 .. Len(s) - 1 : t[i] = IF i < k THEN s[i] ELSE s[i + 1]
    BY <1>0 DEF TakenOff
<1>2. Len(s) \in Nat /\ k \in Nat /\ DOMAIN s = 1 .. Len(s) /\ DOMAIN t = 1 .. Len(s) - 1
    BY <1>1
<1>3. CASE x = e
    <2>1. ASSUME NEW i \in Places(t, x) PROVE i \in Places(s, x) \ {k}
        <3>1. i \in 1 .. Len(s) - 1 /\ t[i] = e
            BY <1>2, <1>3 DEF Places
        <3>2. i < k
            <4>1. SUFFICES ASSUME ~(i < k) PROVE FALSE
                OBVIOUS
            <4>2. s[i + 1] = e /\ i + 1 \in 1 .. Len(s)
                BY <1>1, <1>2, <3>1, <4>1
            <4> QED
                BY <1>1, <1>2, <3>1, <4>1, <4>2
        <3> QED
            BY <1>1, <1>2, <1>3, <3>1, <3>2 DEF Places
    <2>2. ASSUME NEW i \in Places(s, x) \ {k} PROVE i \in Places(t, x)
        <3>1. i \in 1 .. Len(s) /\ s[i] = e /\ i # k
            BY <1>2, <1>3, <2>2 DEF Places
        <3>2. i < k
            BY <1>1, <1>2, <3>1
        <3>3. i \in 1 .. Len(s) - 1 /\ t[i] = s[i]
            BY <1>1, <1>2, <3>1, <3>2
        <3> QED
            BY <1>2, <1>3, <3>1, <3>3 DEF Places
    <2>3. Places(t, x) = Places(s, x) \ {k} /\ k \in Places(s, x)
        <3>1. k \in Places(s, x)
            BY <1>1, <1>2, <1>3 DEF Places
        <3> QED
            BY <2>1, <2>2, <3>1
    <2> QED
        <3>1. IsFiniteSet(Places(s, x))
            BY PlacesFinite
        <3>2. Cardinality(Places(s, x) \ {k}) = Cardinality(Places(s, x)) - 1
            BY <2>3, <3>1, FS_RemoveElement
        <3> QED
            BY <1>3, <2>3, <3>2 DEF t
<1>4. CASE x # e
    <2> DEFINE b == [i \in Places(t, x) |-> IF i < k THEN i ELSE i + 1]
    <2>1. ASSUME NEW i \in Places(t, x)
          PROVE  /\ i \in Nat /\ b[i] \in Places(s, x)
                 /\ b[i] = IF i < k THEN i ELSE i + 1
        <3>1. i \in 1 .. Len(s) - 1 /\ t[i] = x
            BY <1>2 DEF Places
        <3>2. t[i] = IF i < k THEN s[i] ELSE s[i + 1]
            BY <1>1, <3>1
        <3>3. CASE i < k
            BY <1>2, <3>1, <3>2, <3>3 DEF Places
        <3>4. CASE ~(i < k)
            <4>1. i + 1 \in 1 .. Len(s) /\ s[i + 1] = x
                BY <1>2, <3>1, <3>2, <3>4
            <4> QED
                BY <1>2, <3>1, <3>4, <4>1 DEF Places
        <3> QED
            BY <3>3, <3>4
    <2>2. ASSUME NEW y \in Places(s, x) PROVE \E i \in Places(t, x) : b[i] = y
        <3>1. y \in 1 .. Len(s) /\ s[y] = x /\ y # k
            BY <1>1, <1>2, <1>4 DEF Places
        <3>2. CASE y < k
            <4>1. y \in 1 .. Len(s) - 1 /\ t[y] = x
                BY <1>1, <1>2, <3>1, <3>2
            <4>2. y \in Places(t, x)
                BY <1>2, <4>1 DEF Places
            <4> QED
                BY <3>2, <4>2
        <3>3. CASE ~(y < k)
            <4>1. y - 1 \in 1 .. Len(s) - 1 /\ ~(y - 1 < k) /\ (y - 1) + 1 = y
                BY <1>2, <3>1, <3>3
            <4>2. t[y - 1] = x
                BY <1>1, <3>1, <4>1
            <4>3. y - 1 \in Places(t, x)
                BY <1>2, <4>1, <4>2 DEF Places
            <4> QED
                BY <4>1, <4>3
        <3> QED
            BY <3>2, <3>3
    <2>3. \A i, h \in Places(t, x) : b[i] = b[h] => i = h
        <3> TAKE i, h \in Places(t, x)
        <3>1. /\ i \in Nat /\ b[i] = IF i < k THEN i ELSE i + 1
              /\ h \in Nat /\ b[h] = IF h < k THEN h ELSE h + 1
            BY <2>1
        <3> HIDE DEF b
        <3> QED
            BY <1>2, <3>1
    <2>4. b \in [Places(t, x) -> Places(s, x)]
        BY <2>1
    <2> HIDE DEF b
    <2>5. b \in Bijection(Places(t, x), Places(s, x))
        BY <2>2, <2>3, <2>4 DEF Bijection, Injection, Surjection, IsInjective
    <2>6. Cardinality(Places(t, x)) = Cardinality(Places(s, x))
        <3>1. IsFiniteSet(Places(t, x)) /\ ExistsBijection(Places(t, x), Places(s, x))
            BY <1>1, <2>5, PlacesFinite DEF ExistsBijection
        <3> QED
            BY <3>1, FS_Bijection
    <2> QED
        BY <1>4, <2>6 DEF t
<1> QED
    BY <1>3, <1>4

(* What was just put on is what is taken off.                               *)
LEMMA PopPush ==
    ASSUME NEW s \in Seq(Names), NEW e \in Names
    PROVE  Pop(Append(s, e), e) = s
<1> DEFINE t == Append(s, e)
<1>1. /\ t \in Seq(Names) /\ Len(t) = Len(s) + 1 /\ t[Len(s) + 1] = e
      /\ \A i \in 1 .. Len(s) : t[i] = s[i]
    OBVIOUS
<1> HIDE DEF t
<1>2. Len(s) \in Nat /\ Len(s) + 1 \in 1 .. Len(t)
    BY <1>1
<1>3a. PICK k \in 1 .. Len(t) : TakenOff(t, e, k, Pop(t, e))
    BY <1>1, <1>2, PopProperties
<1>3. /\ t[k] = e /\ \A i \in 1 .. Len(t) : t[i] = e => i <= k
      /\ Pop(t, e) \in Seq(Names) /\ Len(Pop(t, e)) = Len(t) - 1
      /\ \A i \in 1 .. Len(t) - 1 : Pop(t, e)[i] = IF i < k THEN t[i] ELSE t[i + 1]
    BY <1>3a DEF TakenOff
<1>4. k = Len(s) + 1
    <2>1. Len(s) + 1 <= k
        BY <1>1, <1>2, <1>3
    <2> QED
        BY <1>1, <1>2, <1>3, <2>1
<1>5. Len(Pop(t, e)) = Len(s) /\ \A i \in 1 .. Len(s) : Pop(t, e)[i] = s[i]
    BY <1>1, <1>2, <1>3, <1>4
<1> QED
    BY <1>3, <1>5, SeqEqual DEF t

(* The calls that an object should count, and those of an item's scripts.   *)
LiveOn(o) == {c \in DOMAIN calls : calls[c].object = o /\ Live(c)}
LiveAs(o, item) ==
    {c \in DOMAIN calls : calls[c].object = o /\ Live(c) /\ flows[calls[c].flow].item = item}

Counted(s, o) ==
    /\ Len(s) = Cardinality(LiveOn(o))
    /\ Len(s) <= MaxDepth
    /\ \A item \in Names : Cardinality(Places(s, item)) = Cardinality(LiveAs(o, item))

StackInv == \A o \in DOMAIN objects : Counted(objects[o].stack, o)

LEMMA LiveFinite ==
    ASSUME ShapeInv, NEW o, NEW item
    PROVE  /\ IsFiniteSet(LiveOn(o)) /\ Cardinality(LiveOn(o)) \in Nat
           /\ IsFiniteSet(LiveAs(o, item)) /\ Cardinality(LiveAs(o, item)) \in Nat
<1>1. DOMAIN calls = 1 .. Len(calls) /\ Len(calls) \in Nat
    BY DEF ShapeInv, Types
<1>2. LiveOn(o) \in SUBSET (1 .. Len(calls)) /\ LiveAs(o, item) \in SUBSET (1 .. Len(calls))
    BY <1>1 DEF LiveOn, LiveAs
<1>3. IsFiniteSet(1 .. Len(calls))
    BY <1>1, FS_Interval
<1> QED
    BY <1>2, <1>3, FS_Subset, FS_CardinalityType

(* No call is made or answered.                                             *)
LEMMA StackStays ==
    ASSUME ShapeInv, StackInv,
           DOMAIN calls' = DOMAIN calls,
           \A c \in DOMAIN calls : /\ calls'[c].flow = calls[c].flow
                                   /\ calls'[c].object = calls[c].object
                                   /\ Live(c)' <=> Live(c),
           \A f \in DOMAIN flows : flows'[f].item = flows[f].item,
           DOMAIN objects' = DOMAIN objects,
           \A o \in DOMAIN objects : objects'[o].stack = objects[o].stack
    PROVE  StackInv'
<1> SUFFICES ASSUME NEW o \in DOMAIN objects
             PROVE  Counted(objects[o].stack, o)'
    BY DEF StackInv
<1>1. LiveOn(o)' = LiveOn(o)
    BY DEF LiveOn
<1>2. \A c \in DOMAIN calls : calls[c].flow \in DOMAIN flows
    BY DEF ShapeInv, Waits
<1>3. \A item : LiveAs(o, item)' = LiveAs(o, item)
    BY <1>2 DEF LiveAs
<1>4. Counted(objects[o].stack, o)
    BY DEF StackInv
<1> QED
    BY <1>1, <1>3, <1>4 DEF Counted

(* A call is answered: it is taken off.                                     *)
LEMMA StackPopped ==
    ASSUME ShapeInv, StackInv, Roots = 1, NEW c \in DOMAIN calls, Live(c),
           calls' = Answered(c), objects' = ObjectsAnswered(c),
           \A f \in DOMAIN flows : flows'[f].item = flows[f].item
    PROVE  StackInv'
<1> DEFINE g == calls[c].flow
           p == nested[1]
           e == flows[g].item
<1>1. /\ DOMAIN calls' = DOMAIN calls
      /\ \A d \in DOMAIN calls : d # c => calls'[d] = calls[d]
      /\ calls'[c] = [calls[c] EXCEPT !.stage = "answered"]
      /\ e \in Names /\ DOMAIN objects' = DOMAIN objects
    BY AnswerProperties
<1>2. /\ calls'[c].stage = "answered" /\ calls'[c].flow = calls[c].flow
      /\ calls'[c].object = calls[c].object
    BY <1>1, ShapeTypes DEF CallsType
<1>3. calls[c].object = p /\ p \in DOMAIN objects
    BY LiveCalls
<1>4. \A d \in DOMAIN calls : /\ calls'[d].flow = calls[d].flow
                              /\ calls'[d].object = calls[d].object
                              /\ Live(d)' <=> Live(d) /\ d # c
                              /\ calls[d].flow \in DOMAIN flows
    BY <1>1, <1>2 DEF Live, ShapeInv, Waits
<1> SUFFICES ASSUME NEW o \in DOMAIN objects
             PROVE  Counted(objects[o].stack, o)'
    BY <1>1 DEF StackInv
<1>5. LiveOn(o)' = LiveOn(o) \ {c} /\ \A item : LiveAs(o, item)' = LiveAs(o, item) \ {c}
    BY <1>1, <1>4 DEF LiveOn, LiveAs
<1>6. Counted(objects[o].stack, o)
    BY DEF StackInv
<1>7. CASE o # p
    <2>1. objects'[o] = objects[o]
        BY <1>7, AnswerProperties
    <2>2. c \notin LiveOn(o) /\ \A item : c \notin LiveAs(o, item)
        BY <1>3, <1>7 DEF LiveOn, LiveAs
    <2>3. LiveOn(o)' = LiveOn(o) /\ \A item : LiveAs(o, item)' = LiveAs(o, item)
        BY <1>5, <2>2
    <2> QED
        BY <1>6, <2>1, <2>3 DEF Counted
<1>8. CASE o = p
    <2> DEFINE s == objects[o].stack
               t == Pop(s, e)
    <2>1. objects'[o] = [objects[o] EXCEPT !.stack = t] /\ objects[o] \in ObjectsType
        BY <1>8, AnswerProperties, ShapeTypes
    <2>2. objects'[o].stack = t /\ s \in Seq(Names)
        BY <2>1 DEF ObjectsType
    <2>3. c \in LiveOn(o) /\ \A item : c \in LiveAs(o, item) <=> item = e
        BY <1>3, <1>8 DEF LiveOn, LiveAs
    <2>4. \E j \in 1 .. Len(s) : s[j] = e
        <3>1. LiveAs(o, e) # {} /\ IsFiniteSet(LiveAs(o, e))
            BY <2>3, LiveFinite
        <3>2. Cardinality(LiveAs(o, e)) # 0
            BY <3>1, FS_EmptySet
        <3>3. Cardinality(Places(s, e)) # 0
            BY <1>1, <1>6, <3>2 DEF Counted
        <3>4. Places(s, e) # {}
            BY <3>3, FS_EmptySet
        <3> QED
            BY <2>2, <3>4 DEF Places
    <2>5. PICK j \in 1 .. Len(s) : s[j] = e
        BY <2>4
    <2> HIDE DEF s
    <2>6. Len(t) = Len(s) - 1
        BY <2>2, <2>5, PopProperties DEF TakenOff
    <2>7. \A x : Cardinality(Places(t, x)) =
                    IF x = e THEN Cardinality(Places(s, x)) - 1 ELSE Cardinality(Places(s, x))
        BY <2>2, <2>5, PopPlaces
    <2> HIDE DEF t
    <2>8. Len(s) = Cardinality(LiveOn(o)) /\ Len(s) <= MaxDepth /\ Len(s) \in Nat
        BY <1>6, <2>2 DEF Counted, s
    <2>9. Cardinality(LiveOn(o)') = Cardinality(LiveOn(o)) - 1
        BY <1>5, <2>3, LiveFinite, FS_RemoveElement
    <2>10. ASSUME NEW item \in Names
           PROVE  Cardinality(Places(t, item)) = Cardinality(LiveAs(o, item)')
        <3>1. Cardinality(Places(s, item)) = Cardinality(LiveAs(o, item))
            BY <1>6 DEF Counted, s
        <3>2. Cardinality(LiveAs(o, item) \ {c}) =
                 IF item = e THEN Cardinality(LiveAs(o, item)) - 1 ELSE Cardinality(LiveAs(o, item))
            BY <2>3, LiveFinite, FS_RemoveElement
        <3> QED
            BY <1>5, <2>7, <3>1, <3>2
    <2>11. Len(t) = Cardinality(LiveOn(o)') /\ Len(t) <= MaxDepth
        BY <2>6, <2>8, <2>9, BoundsAssumption
    <2> QED
        BY <2>2, <2>10, <2>11 DEF Counted
<1> QED
    BY <1>7, <1>8

(* A call is made: it is put on, or refused.                                *)
LEMMA StackPushed ==
    ASSUME ShapeInv, StackInv, Roots = 1, NEW f \in DOMAIN flows, RunRequest(f)
    PROVE  StackInv'
<1>0. PICK place \in Nat \ {0}, stage \in {"answered", "resolving"}, item \in Items :
         \E st \in Seq(Names) : Requested(f, place, stage, item, st)
    BY RunRequestStep
<1>a. PICK st \in Seq(Names) : Requested(f, place, stage, item, st)
    BY <1>0
<1>1. /\ place = PlaceFor(f) /\ flows[f].busy
      /\ nested' = [nested EXCEPT ![1] = place]
      /\ objects' = [ObjectsFor(f) EXCEPT ![place] = [ObjectsFor(f)[place] EXCEPT !.stack = st]]
      /\ calls' = Append(calls, [ flow |-> f, at |-> flows[f].at, item |-> item,
                                  object |-> place, stage |-> stage ])
      /\ flows' = flows /\ host' = host /\ consents' = consents
      /\ flows[f].item \in Names /\ ObjectsFor(f)[place].stack \in Seq(Names)
      /\ LET push == Append(ObjectsFor(f)[place].stack, flows[f].item)
         IN  IF Len(push) > MaxDepth
             THEN stage = "answered" /\ st = Pop(push, flows[f].item)
             ELSE stage = "resolving" /\ st = push
    BY <1>a DEF Requested
<1> DEFINE objs == ObjectsFor(f)
           old == objs[place].stack
           e == flows[f].item
           new == [ flow |-> f, at |-> flows[f].at, item |-> item, object |-> place, stage |-> stage ]
           refused == Len(Append(old, e)) > MaxDepth
<1>2. /\ objs \in Seq(ObjectsType) /\ place \in DOMAIN objs
      /\ \A o \in DOMAIN objects : objs[o] = objects[o]
      /\ \A o \in DOMAIN objs : o \in DOMAIN objects \/ o = place
      /\ nested[1] # 0 => place \in DOMAIN objects
      /\ nested[1] = 0 => /\ place \notin DOMAIN objects
                          /\ objs[place] = [stack |-> << >>, root |-> <<1, flows[1].at>>,
                                            access |-> "unknown"]
    BY <1>1, PlaceProperties
<1>3. /\ old \in Seq(Names) /\ Len(old) \in Nat /\ e \in Names
      /\ IF refused THEN stage = "answered" /\ st = Pop(Append(old, e), e)
                    ELSE stage = "resolving" /\ st = Append(old, e)
    BY <1>1
<1> HIDE DEF objs
<1>4. /\ DOMAIN objects' = DOMAIN objs /\ objects'[place].stack = st
      /\ \A o \in DOMAIN objs : o # place => objects'[o] = objs[o]
    <2>1. objs[place] \in ObjectsType
        BY <1>2
    <2>2. objects' = [objs EXCEPT ![place] = [objs[place] EXCEPT !.stack = st]]
        BY <1>1 DEF objs
    <2>3. [objs[place] EXCEPT !.stack = st].stack = st
        BY <2>1 DEF ObjectsType
    <2> QED
        BY <1>2, <2>2, <2>3
<1>5. /\ new.flow = f /\ new.object = place /\ new.stage = stage
    OBVIOUS
<1>6. calls' = Append(calls, new) /\ calls \in Seq(CallsType)
    BY <1>1 DEF ShapeInv, Types
<1> HIDE DEF new
<1>6a. PICK n \in Nat : n = Len(calls) + 1
    BY <1>6
<1>7. /\ DOMAIN calls' = DOMAIN calls \cup {n} /\ n \notin DOMAIN calls
      /\ \A c \in DOMAIN calls : calls'[c] = calls[c]
      /\ calls'[n] = new
    BY <1>6, <1>6a
<1>7a. flows' = flows
    BY <1>1
<1>8. /\ \A c \in DOMAIN calls : Live(c)' <=> Live(c)
      /\ Live(n)' <=> ~refused
    <2>1. \A c \in DOMAIN calls : Live(c)' <=> Live(c)
        BY <1>7 DEF Live
    <2>2. Live(n)' <=> stage = "resolving"
        BY <1>5, <1>7 DEF Live
    <2> QED
        BY <1>3, <2>1, <2>2
(* A new object counts nothing.                                             *)
<1>9. ASSUME NEW o \in DOMAIN objs PROVE Counted(objs[o].stack, o)
    <2>1. CASE o \in DOMAIN objects
        BY <1>2, <2>1 DEF StackInv
    <2>2. CASE o \notin DOMAIN objects
        <3>1. objs[o].stack = << >>
            BY <1>2, <2>2
        <3>2. \A c \in DOMAIN calls : calls[c].object # o
            BY <2>2 DEF ShapeInv, Waits
        <3>3. LiveOn(o) = {} /\ \A x : LiveAs(o, x) = {}
            BY <3>2 DEF LiveOn, LiveAs
        <3>4. \A x : Places(<< >>, x) = {}
            BY DEF Places
        <3>5. Len(<< >>) = 0
            OBVIOUS
        <3>6. Cardinality({}) = 0 /\ 0 <= MaxDepth
            BY FS_EmptySet, BoundsAssumption
        <3> QED
            BY <3>1, <3>3, <3>4, <3>5, <3>6 DEF Counted
    <2> QED
        BY <2>1, <2>2
<1> SUFFICES ASSUME NEW o \in DOMAIN objs
             PROVE  Counted(objects[o].stack, o)'
    BY <1>4 DEF StackInv
<1>10. CASE o # place \/ refused
    <2>1. objects'[o].stack = objs[o].stack
        <3>1. CASE o # place
            BY <1>4, <3>1
        <3>2. CASE o = place
            BY <1>3, <1>4, <1>10, <3>2, PopPush
        <3> QED
            BY <3>1, <3>2
    <2>2. LiveOn(o)' = LiveOn(o)
        BY <1>5, <1>7, <1>8, <1>10 DEF LiveOn
    <2>3. \A x : LiveAs(o, x)' = LiveAs(o, x)
        BY <1>5, <1>7, <1>8, <1>10, <1>7a DEF LiveAs
    <2> QED
        BY <1>9, <2>1, <2>2, <2>3 DEF Counted
<1>11. CASE o = place /\ ~refused
    <2>1. /\ objects'[o].stack = Append(old, e) /\ Len(Append(old, e)) <= MaxDepth
          /\ Len(Append(old, e)) = Len(old) + 1
        BY <1>3, <1>4, <1>11, BoundsAssumption
    <2>2. LiveOn(o)' = LiveOn(o) \cup {n} /\ n \notin LiveOn(o)
        BY <1>5, <1>7, <1>8, <1>11 DEF LiveOn
    <2>3. ASSUME NEW x
          PROVE  /\ LiveAs(o, x)' = IF x = e THEN LiveAs(o, x) \cup {n} ELSE LiveAs(o, x)
                 /\ n \notin LiveAs(o, x)
        BY <1>5, <1>7, <1>8, <1>11, <1>7a DEF LiveAs
    <2>4. Counted(old, o)
        BY <1>9, <1>11
    <2>5. Cardinality(LiveOn(o)') = Cardinality(LiveOn(o)) + 1
        BY <2>2, LiveFinite, FS_AddElement
    <2>6. ASSUME NEW x \in Names
          PROVE  Cardinality(Places(Append(old, e), x)) = Cardinality(LiveAs(o, x)')
        <3>1. Cardinality(Places(old, x)) = Cardinality(LiveAs(o, x))
            BY <2>4 DEF Counted
        <3>2. CASE x = e
            <4>1. LiveAs(o, x)' = LiveAs(o, x) \cup {n} /\ n \notin LiveAs(o, x)
                BY <2>3, <3>2
            <4>2. Cardinality(LiveAs(o, x)') = Cardinality(LiveAs(o, x)) + 1
                BY <4>1, LiveFinite, FS_AddElement
            <4> QED
                BY <1>3, <3>1, <3>2, <4>2, PushPlaces
        <3>3. CASE x # e
            BY <1>3, <2>3, <3>1, <3>3, PushPlaces
        <3> QED
            BY <3>2, <3>3
    <2>7. Len(Append(old, e)) = Cardinality(LiveOn(o)')
        BY <2>1, <2>4, <2>5 DEF Counted
    <2> QED
        BY <2>1, <2>6, <2>7 DEF Counted
<1> QED
    BY <1>10, <1>11

(***************************************************************************)
(* The three together                                                      *)
(***************************************************************************)

(* What a step leaves of flows and calls that are there.                    *)
Keeps ==
    /\ DOMAIN flows \subseteq DOMAIN flows' /\ DOMAIN calls \subseteq DOMAIN calls'
    /\ \A f \in DOMAIN flows : flows'[f].by = flows[f].by /\ flows'[f].item = flows[f].item
    /\ \A c \in DOMAIN calls : calls'[c].flow = calls[c].flow /\ calls'[c].at = calls[c].at

(* The chains above the flows that are there stay what they are.            *)
LEMMA ChainStays ==
    ASSUME ShapeInv, Keeps, NEW f \in DOMAIN flows
    PROVE  Depth(f)' = Depth(f) /\ RootScript(f, 0)' = RootScript(f, 0)
<1>1. \A g \in DOMAIN flows : /\ flows'[g].by = flows[g].by
                              /\ flows[g].by = 0 <=> g = 1
                              /\ flows[g].by # 0 => flows[g].by \in DOMAIN calls /\ Caller(g) \in DOMAIN flows
    BY Callers DEF Keeps
<1>2. \A g \in DOMAIN flows : flows[g].by # 0 => Caller(g)' = Caller(g)
    BY <1>1 DEF Keeps, Caller
<1>3. \A S \in SUBSET DOMAIN flows : Closed(S)' <=> Closed(S)
    BY <1>1, <1>2 DEF Closed
<1>4. Closed(DOMAIN flows)
    BY <1>1 DEF Closed
<1>5. DOMAIN flows \in SUBSET DOMAIN flows'
    BY DEF Keeps
<1>6. ASSUME NEW g \in Chain(f)' PROVE g \in Chain(f)
    <2>1. PICK D : D = DOMAIN flows
        OBVIOUS
    <2>2. Closed(D)'
        BY <1>3, <1>4, <2>1
    <2>3. \A S \in SUBSET DOMAIN flows' : f \in S /\ Closed(S)' => g \in S
        BY <1>6 DEF Chain
    <2>4. g \in DOMAIN flows
        BY <1>5, <2>1, <2>2, <2>3
    <2> QED
        BY <1>3, <1>5, <2>3, <2>4 DEF Chain
<1>7. ASSUME NEW g \in Chain(f) PROVE g \in Chain(f)'
    <2>1. g \in DOMAIN flows'
        BY <1>5 DEF Chain
    <2>2. ASSUME NEW S \in SUBSET DOMAIN flows', f \in S, Closed(S)'
          PROVE  g \in S
        <3>1. PICK T : T = S \cap DOMAIN flows
            OBVIOUS
        <3>2. T \in SUBSET DOMAIN flows /\ f \in T /\ T \subseteq S
            BY <2>2, <3>1
        <3>3. Closed(T)
            <4> SUFFICES ASSUME NEW h \in T, flows[h].by # 0 PROVE Caller(h) \in T
                BY DEF Closed
            <4>1. h \in DOMAIN flows /\ h \in S
                BY <3>1
            <4>2. Caller(h) \in DOMAIN flows /\ Caller(h)' = Caller(h) /\ flows'[h].by # 0
                BY <1>1, <1>2, <4>1
            <4>3. Caller(h)' \in S
                BY <2>2, <4>1, <4>2 DEF Closed
            <4> QED
                BY <3>1, <4>2, <4>3
        <3> QED
            BY <3>2, <3>3 DEF Chain
    <2> QED
        BY <2>1, <2>2 DEF Chain
<1>8. Chain(f)' = Chain(f) /\ Chain(f) \subseteq DOMAIN flows
    BY <1>6, <1>7 DEF Chain
<1>9. CallsAbove(f)' = CallsAbove(f)
    BY <1>1, <1>8 DEF CallsAbove
<1>10. \A c \in CallsAbove(f) : c \in DOMAIN calls /\ calls[c].flow \in DOMAIN flows
    BY RootCallsExist
<1>11. RootCalls(f)' = RootCalls(f)
    BY <1>1, <1>9, <1>10 DEF RootCalls, Keeps
<1>12. ASSUME f # 1 PROVE RootScript(f, 0)' = RootScript(f, 0)
    <2> DEFINE r == CHOOSE c \in RootCalls(f) : TRUE
    <2>1. RootScript(f, 0) = <<calls[r].flow, calls[r].at>>
        BY <1>1, <1>12 DEF RootScript
    <2>2. RootScript(f, 0)' = <<calls'[r].flow, calls'[r].at>>
        BY <1>1, <1>11, <1>12 DEF RootScript
    <2>3. r \in DOMAIN calls
        BY <1>12, RootCallsExist DEF RootCalls
    <2> QED
        BY <2>1, <2>2, <2>3 DEF Keeps
<1> QED
    BY <1>1, <1>9, <1>12 DEF Depth, RootScript

LEMMA KeepsStep ==
    ASSUME ShapeInv, Roots = 1, ~TimesOut, [Next]_vars
    PROVE  Keeps
<1>1. ASSUME NEW f \in DOMAIN flows, NEW d, flows' = [flows EXCEPT ![f] = d], calls' = calls,
             d.by = flows[f].by, d.item = flows[f].item
      PROVE  Keeps
    BY <1>1 DEF Keeps
<1>2. ASSUME NEW c \in DOMAIN calls, Live(c), calls' = Answered(c)
      PROVE  /\ DOMAIN calls' = DOMAIN calls
             /\ \A e \in DOMAIN calls : calls'[e].flow = calls[e].flow /\ calls'[e].at = calls[e].at
    <2>1. /\ DOMAIN calls' = DOMAIN calls
          /\ \A e \in DOMAIN calls : e # c => calls'[e] = calls[e]
          /\ calls'[c] = [calls[c] EXCEPT !.stage = "answered"]
        BY <1>2, AnswerProperties
    <2>2. calls'[c].flow = calls[c].flow /\ calls'[c].at = calls[c].at
        BY <2>1, ShapeTypes DEF CallsType
    <2> QED
        BY <2>1, <2>2
<1>3. ASSUME NEW f \in DOMAIN flows, BeginScript(f)
      PROVE  Keeps
    <2> DEFINE cursor == IF Current(f) # 0 THEN objects[Current(f)].root ELSE <<f, flows[f].at>>
               d == [flows[f] EXCEPT !.busy = TRUE, !.tagged = Current(f) # 0, !.cursor = cursor]
    <2>1. flows' = [flows EXCEPT ![f] = d] /\ calls' = calls
        BY <1>3 DEF BeginScript
    <2> HIDE DEF cursor
    <2>2. d.by = flows[f].by /\ d.item = flows[f].item
        BY ShapeTypes DEF FlowsType
    <2> HIDE DEF d
    <2> QED
        BY <1>1, <2>1, <2>2
<1>4. ASSUME NEW f \in DOMAIN flows, EndScript(f)
      PROVE  Keeps
    <2>1. PICK at \in {flows[f].at + 1, Len(Steps) + 1} :
            flows' = [flows EXCEPT ![f] = [@ EXCEPT !.busy = FALSE, !.asks = 0, !.at = at,
                          !.access = IF SameEvent(flows[f].at, at) THEN flows[f].access ELSE "unknown"]]
        BY <1>4 DEF EndScript
    <2> DEFINE access == IF SameEvent(flows[f].at, at) THEN flows[f].access ELSE "unknown"
               d == [flows[f] EXCEPT !.busy = FALSE, !.asks = 0, !.at = at, !.access = access]
    <2>2. flows' = [flows EXCEPT ![f] = d] /\ calls' = calls
        BY <1>4, <2>1 DEF EndScript
    <2> HIDE DEF access
    <2>3. d.by = flows[f].by /\ d.item = flows[f].item
        BY ShapeTypes DEF FlowsType
    <2> HIDE DEF d
    <2> QED
        BY <1>1, <2>2, <2>3
<1>5. ASSUME NEW f \in DOMAIN flows, Request(f)
      PROVE  Keeps
    <2>1. PICK end \in {"next", "last"} :
            flows' = [flows EXCEPT ![f] = [@ EXCEPT
                !.at = IF end = "next" THEN flows[f].at + 1 ELSE Len(Steps) + 1,
                !.told = IF flows[f].by = 0 THEN <<f, 0>> ELSE Told(f)]]
        BY <1>5 DEF Request
    <2> DEFINE at == IF end = "next" THEN flows[f].at + 1 ELSE Len(Steps) + 1
               told == IF flows[f].by = 0 THEN <<f, 0>> ELSE Told(f)
               d == [flows[f] EXCEPT !.at = at, !.told = told]
    <2>2. flows' = [flows EXCEPT ![f] = d] /\ calls' = calls
        BY <1>5, <2>1 DEF Request
    <2> HIDE DEF at, told
    <2>3. d.by = flows[f].by /\ d.item = flows[f].item
        BY ShapeTypes DEF FlowsType
    <2> HIDE DEF d
    <2> QED
        BY <1>1, <2>2, <2>3
<1>6. ASSUME NEW f \in DOMAIN flows, UseVault(f) \/ HostConsents(f)
      PROVE  Keeps
    <2>1. /\ DOMAIN flows' = DOMAIN flows /\ calls' = calls
          /\ \A g \in DOMAIN flows : g # f => flows'[g] = flows[g]
        BY <1>6 DEF UseVault, HostConsents
    <2>2. flows[f] \in FlowsType
        BY ShapeTypes
    <2>3. flows'[f].by = flows[f].by /\ flows'[f].item = flows[f].item
        BY <1>6, <2>2 DEF UseVault, HostConsents, FlowsType
    <2> QED
        BY <2>1, <2>3 DEF Keeps
<1>7. ASSUME NEW f \in DOMAIN flows, EndFlow(f)
      PROVE  Keeps
    <2>1. ~flows[f].ended /\ flows' = [flows EXCEPT ![f].ended = TRUE]
        BY <1>7, EndFlowStep
    <2>2. /\ DOMAIN flows' = DOMAIN flows
          /\ \A g \in DOMAIN flows : flows'[g].by = flows[g].by /\ flows'[g].item = flows[g].item
        BY <2>1, ShapeTypes DEF FlowsType
    <2>3. CASE f = 1
        <3>1. calls' = calls
            BY <1>7, <2>3, EndFlowStep
        <3> QED
            BY <2>2, <3>1 DEF Keeps
    <2>4. CASE f # 1
        <3>1. /\ flows[f].by \in DOMAIN calls /\ Live(flows[f].by)
              /\ calls' = Answered(flows[f].by)
            BY <1>7, <2>1, <2>4, EndFlowStep, RunningFlows
        <3> QED
            BY <1>2, <2>2, <3>1 DEF Keeps
    <2> QED
        BY <2>3, <2>4
<1>8. ASSUME NEW c \in DOMAIN calls, ResolverFails(c)
      PROVE  Keeps
    <2>1. Live(c) /\ calls' = Answered(c) /\ flows' = flows
        BY <1>8 DEF ResolverFails, Live
    <2> QED
        BY <1>2, <2>1 DEF Keeps
<1>9. ASSUME NEW c \in DOMAIN calls, ResolverAnswers(c)
      PROVE  Keeps
    <2>1. /\ DOMAIN calls' = DOMAIN calls
          /\ \A e \in DOMAIN calls : e # c => calls'[e] = calls[e]
          /\ calls'[c] = [calls[c] EXCEPT !.stage = "running"]
          /\ DOMAIN flows \subseteq DOMAIN flows'
          /\ \A g \in DOMAIN flows : flows'[g] = flows[g]
        BY <1>9, AnswersStep
    <2>2. calls'[c].flow = calls[c].flow /\ calls'[c].at = calls[c].at
        BY <2>1, ShapeTypes DEF CallsType
    <2> QED
        BY <2>1, <2>2 DEF Keeps
<1>10. ASSUME NEW f \in DOMAIN flows, RunRequest(f)
       PROVE  Keeps
    <2>1. PICK new : calls' = Append(calls, new) /\ flows' = flows
        <3>1. PICK place \in Nat \ {0}, stage \in {"answered", "resolving"}, item \in Items :
                 \E st \in Seq(Names) : Requested(f, place, stage, item, st)
            BY <1>10, RunRequestStep
        <3> QED
            BY <3>1 DEF Requested
    <2>2. calls \in Seq(CallsType)
        BY DEF ShapeInv, Types
    <2> QED
        BY <2>1, <2>2 DEF Keeps
<1>11. CASE UNCHANGED vars
    BY <1>11 DEF vars, Keeps
<1> QED
    BY <1>3, <1>4, <1>5, <1>6, <1>7, <1>8, <1>9, <1>10, <1>11 DEF Next, Script, Vault, Call

LEMMA StackStep ==
    ASSUME ShapeInv, StackInv, Roots = 1, ~TimesOut, [Next]_vars
    PROVE  StackInv'
<1>1. \A f \in DOMAIN flows : flows'[f].item = flows[f].item
    BY KeepsStep DEF Keeps
<1>2. ASSUME calls' = calls, DOMAIN objects' = DOMAIN objects,
             \A o \in DOMAIN objects : objects'[o].stack = objects[o].stack
      PROVE  StackInv'
    <2>1. \A c \in DOMAIN calls : Live(c)' <=> Live(c)
        BY <1>2 DEF Live
    <2> QED
        BY <1>1, <1>2, <2>1, StackStays
<1>3. ASSUME NEW f \in DOMAIN flows, BeginScript(f) \/ EndScript(f) \/ Request(f)
      PROVE  StackInv'
    BY <1>2, <1>3 DEF BeginScript, EndScript, Request
<1>4. ASSUME NEW f \in DOMAIN flows, UseVault(f) \/ HostConsents(f)
      PROVE  StackInv'
    <2>1. PICK answer : objects' = objects \/ objects' = Remember(f, answer)
        BY <1>4 DEF UseVault, HostConsents
    <2>2. DOMAIN objects' = DOMAIN objects
          /\ \A o \in DOMAIN objects : objects'[o].stack = objects[o].stack
        <3>1. CASE objects' = objects
            BY <3>1
        <3>2. CASE objects' = [objects EXCEPT ![Current(f)].access = answer]
            <4>1. PICK p : p = Current(f)
                OBVIOUS
            <4> DEFINE e == [objects[p] EXCEPT !.access = answer]
            <4>2. objects' = [objects EXCEPT ![p] = e]
                BY <3>2, <4>1
            <4>3. p \in DOMAIN objects => e.stack = objects[p].stack
                BY ShapeTypes DEF ObjectsType
            <4> HIDE DEF e
            <4> QED
                BY <4>2, <4>3
        <3> QED
            BY <2>1, <3>1, <3>2 DEF Remember
    <2>3. calls' = calls
        BY <1>4 DEF UseVault, HostConsents
    <2> QED
        BY <1>2, <2>2, <2>3
<1>5. ASSUME NEW f \in DOMAIN flows, EndFlow(f)
      PROVE  StackInv'
    <2>1. ~flows[f].ended
        BY <1>5, EndFlowStep
    <2>2. CASE f = 1
        BY <1>2, <1>5, <2>2, EndFlowStep
    <2>3. CASE f # 1
        <3>1. /\ flows[f].by \in DOMAIN calls /\ Live(flows[f].by)
              /\ calls' = Answered(flows[f].by) /\ objects' = ObjectsAnswered(flows[f].by)
            BY <1>5, <2>1, <2>3, EndFlowStep, RunningFlows
        <3> QED
            BY <1>1, <3>1, StackPopped
    <2> QED
        BY <2>2, <2>3
<1>6. ASSUME NEW c \in DOMAIN calls, ResolverFails(c)
      PROVE  StackInv'
    <2>1. Live(c) /\ calls' = Answered(c) /\ objects' = ObjectsAnswered(c)
        BY <1>6 DEF ResolverFails, Live
    <2> QED
        BY <1>1, <2>1, StackPopped
<1>7. ASSUME NEW c \in DOMAIN calls, ResolverAnswers(c)
      PROVE  StackInv'
    <2>1. /\ DOMAIN calls' = DOMAIN calls /\ Live(c)
          /\ \A e \in DOMAIN calls : e # c => calls'[e] = calls[e]
          /\ calls'[c] = [calls[c] EXCEPT !.stage = "running"]
          /\ objects' = objects
        BY <1>7, AnswersStep
    <2>2. /\ calls'[c].flow = calls[c].flow /\ calls'[c].object = calls[c].object
          /\ calls'[c].stage = "running"
        BY <2>1, ShapeTypes DEF CallsType
    <2>3. \A e \in DOMAIN calls : /\ calls'[e].flow = calls[e].flow
                                  /\ calls'[e].object = calls[e].object
                                  /\ Live(e)' <=> Live(e)
        BY <2>1, <2>2 DEF Live
    <2> QED
        BY <1>1, <2>1, <2>3, StackStays
<1>8. CASE UNCHANGED vars
    BY <1>2, <1>8 DEF vars
<1> QED
    BY <1>3, <1>4, <1>5, <1>6, <1>7, <1>8, StackPushed DEF Next, Script, Vault, Call

(* What the host hears of a request changes when the request is sent.       *)
LEMMA ToldStep ==
    ASSUME ShapeInv, Roots = 1, [Next]_vars, NEW f \in DOMAIN flows, f # 1
    PROVE  \/ flows'[f].told = flows[f].told
           \/ ~flows[f].ended /\ flows'[f].told = Told(f)
<1>1. flows[f] \in FlowsType
    BY ShapeTypes
<1>2. ASSUME NEW g \in DOMAIN flows,
             BeginScript(g) \/ EndScript(g) \/ UseVault(g) \/ HostConsents(g) \/ EndFlow(g)
                \/ RunRequest(g)
      PROVE  flows'[f].told = flows[f].told
    <2>1. CASE g # f
        BY <1>2, <2>1 DEF BeginScript, EndScript, UseVault, HostConsents, EndFlow, RunRequest
    <2>2. CASE g = f /\ BeginScript(f)
        BY <1>1, <2>2 DEF BeginScript, FlowsType
    <2>3. CASE g = f /\ EndScript(f)
        <3>1. PICK at, access : flows' = [flows EXCEPT ![f] =
                  [flows[f] EXCEPT !.busy = FALSE, !.asks = 0, !.at = at, !.access = access]]
            BY <2>3 DEF EndScript
        <3> QED
            BY <1>1, <3>1 DEF FlowsType
    <2>4. CASE g = f /\ UseVault(f)
        BY <1>1, <2>4 DEF UseVault, FlowsType
    <2>5. CASE g = f /\ HostConsents(f)
        BY <1>1, <2>5 DEF HostConsents, FlowsType
    <2>6. CASE g = f /\ EndFlow(f)
        BY <1>1, <2>6 DEF EndFlow, FlowsType
    <2>7. CASE g = f /\ RunRequest(f)
        BY <2>7 DEF RunRequest
    <2> QED
        BY <1>2, <2>1, <2>2, <2>3, <2>4, <2>5, <2>6, <2>7
<1>3. ASSUME NEW g \in DOMAIN flows, Request(g)
      PROVE  \/ flows'[f].told = flows[f].told
             \/ ~flows[f].ended /\ flows'[f].told = Told(f)
    <2>1. CASE g # f
        BY <1>3, <2>1 DEF Request
    <2>2. CASE g = f
        <3>1. PICK end \in {"next", "last"} :
                flows' = [flows EXCEPT ![f] = [@ EXCEPT
                    !.at = IF end = "next" THEN flows[f].at + 1 ELSE Len(Steps) + 1,
                    !.told = IF flows[f].by = 0 THEN <<f, 0>> ELSE Told(f)]]
            BY <1>3, <2>2 DEF Request
        <3> DEFINE at == IF end = "next" THEN flows[f].at + 1 ELSE Len(Steps) + 1
                   told == Told(f)
        <3>2. flows' = [flows EXCEPT ![f] = [flows[f] EXCEPT !.at = at, !.told = told]]
            BY <3>1, Callers
        <3> HIDE DEF at, told
        <3>3. flows'[f].told = told
            BY <1>1, <3>2 DEF FlowsType
        <3>4. ~flows[f].ended
            <4>1. flows[f].at <= Len(Steps) /\ flows[f].at \in Nat /\ Len(Steps) \in Nat
                BY <1>1, <1>3, <2>2, ShapeTypes DEF Request, FlowsType
            <4> QED
                BY <4>1 DEF ShapeInv, Sound
        <3> QED
            BY <3>3, <3>4 DEF told
    <2> QED
        BY <2>1, <2>2
<1>4. ASSUME NEW c \in DOMAIN calls, ResolverFails(c) \/ ResolverAnswers(c)
      PROVE  flows'[f].told = flows[f].told
    <2>1. CASE ResolverFails(c)
        BY <2>1 DEF ResolverFails
    <2>2. CASE ResolverAnswers(c)
        BY <2>2, AnswersStep
    <2> QED
        BY <1>4, <2>1, <2>2
<1>5. CASE UNCHANGED vars
    BY <1>5 DEF vars
<1> QED
    BY <1>2, <1>3, <1>4, <1>5 DEF Next, Script, Vault, Call

(* The calls above a run that begins are on the stack.                      *)
LEMMA NewDepth ==
    ASSUME ShapeInv, StackInv, Roots = 1, NEW c \in DOMAIN calls, ResolverAnswers(c),
           NEW n, n = Len(flows) + 1
    PROVE  Depth(n)' <= MaxDepth
<1> DEFINE S == {g \in DOMAIN flows : ~flows[g].ended}
<1>1. /\ Live(c) /\ DOMAIN calls' = DOMAIN calls
      /\ \A e \in DOMAIN calls : e # c => calls'[e] = calls[e]
      /\ calls'[c] = [calls[c] EXCEPT !.stage = "running"]
    BY AnswersStep
<1>2. /\ DOMAIN flows' = DOMAIN flows \cup {n} /\ n \notin DOMAIN flows
      /\ \A g \in DOMAIN flows : flows'[g] = flows[g]
      /\ flows'[n] = Flow(calls[c].item, c)
    BY AnswersStep
<1>3. calls'[c].flow = calls[c].flow
    BY <1>1, ShapeTypes DEF CallsType
<1>4. \A e \in DOMAIN calls : calls'[e].flow = calls[e].flow
    BY <1>1, <1>3
<1>5. flows'[n].by = c
    BY <1>2 DEF Flow
<1>6. calls[c].flow \in S /\ nested[1] \in DOMAIN objects
    BY <1>1, LiveCalls
<1>7. PICK T : T = S \cup {n}
    OBVIOUS
<1>8. Closed(T)'
    <2> SUFFICES ASSUME NEW h \in T, flows'[h].by # 0
                 PROVE  calls'[flows'[h].by].flow \in T
        BY DEF Closed, Caller
    <2>1. CASE h = n
        BY <1>3, <1>5, <1>6, <1>7, <2>1
    <2>2. CASE h \in S
        <3>1. h \in DOMAIN flows /\ flows'[h].by = flows[h].by /\ h # 1
            BY <1>2, <2>2, Callers
        <3>2. Caller(h) \in S /\ flows[h].by \in DOMAIN calls
            BY <2>2, <3>1, RunningFlows
        <3> QED
            BY <1>4, <1>7, <3>1, <3>2 DEF Caller
    <2> QED
        BY <1>7, <2>1, <2>2
<1>9. T \in SUBSET DOMAIN flows' /\ n \in T
    BY <1>2, <1>7
<1>10. \A g \in Chain(n)' : g \in T
    BY <1>8, <1>9 DEF Chain
<1>11. \A d \in CallsAbove(n)' : d \in LiveOn(nested[1])
    <2> TAKE d \in CallsAbove(n)'
    <2>1. PICK g \in Chain(n)' : d = flows'[g].by /\ d # 0
        BY DEF CallsAbove
    <2>2. CASE g = n
        BY <1>1, <1>5, <2>1, <2>2, LiveCalls DEF LiveOn
    <2>3. CASE g \in S
        <3>1. g \in DOMAIN flows /\ d = flows[g].by /\ g # 1
            BY <1>2, <2>1, <2>3, Callers
        <3>2. d \in DOMAIN calls /\ Live(d)
            BY <2>3, <3>1, RunningFlows
        <3> QED
            BY <3>2, LiveCalls DEF LiveOn
    <2> QED
        BY <1>7, <1>10, <2>1, <2>2, <2>3
<1>12. PICK L : L = LiveOn(nested[1])
    OBVIOUS
<1>13. PICK C : C = CallsAbove(n)'
    OBVIOUS
<1>14. C \in SUBSET L /\ IsFiniteSet(L) /\ Cardinality(L) \in Nat
    BY <1>11, <1>12, <1>13, LiveFinite
<1>15. Cardinality(C) <= Cardinality(L) /\ Cardinality(C) \in Nat
    BY <1>14, FS_Subset, FS_CardinalityType
<1>16. Cardinality(L) <= MaxDepth
    BY <1>6, <1>12 DEF StackInv, Counted
<1>17. Depth(n)' = Cardinality(C)
    BY <1>13 DEF Depth
<1> QED
    BY <1>14, <1>15, <1>16, <1>17, BoundsAssumption

(* How deep a flow is, and what the host has heard of it.                   *)
PathInv ==
    \A f \in DOMAIN flows :
        /\ Depth(f) <= MaxDepth
        /\ f # 1 => flows[f].told \in {NoCursor, RootScript(f, 0)}

LEMMA PathStep ==
    ASSUME ShapeInv, StackInv, PathInv, Roots = 1, ~TimesOut, [Next]_vars
    PROVE  PathInv'
<1>1. ASSUME NEW f \in DOMAIN flows
      PROVE  /\ Depth(f)' <= MaxDepth
             /\ f # 1 => flows'[f].told \in {NoCursor, RootScript(f, 0)'}
    <2>1. Depth(f)' = Depth(f) /\ RootScript(f, 0)' = RootScript(f, 0)
        BY KeepsStep, ChainStays
    <2>2. f # 1 /\ ~flows[f].ended => Told(f) = RootScript(f, 0)
        BY RootIsHost
    <2>3. f # 1 => \/ flows'[f].told = flows[f].told
                   \/ ~flows[f].ended /\ flows'[f].told = Told(f)
        BY ToldStep
    <2> QED
        BY <2>1, <2>2, <2>3 DEF PathInv
<1>2. CASE DOMAIN flows' = DOMAIN flows
    BY <1>1, <1>2 DEF PathInv
<1>3. ASSUME NEW c \in DOMAIN calls, ResolverAnswers(c)
      PROVE  PathInv'
    <2>1. PICK n : n = Len(flows) + 1
        OBVIOUS
    <2>2. /\ DOMAIN flows' = DOMAIN flows \cup {n}
          /\ flows'[n] = Flow(calls[c].item, c)
        BY <1>3, <2>1, AnswersStep
    <2>3. flows'[n].told = NoCursor
        BY <2>2 DEF Flow
    <2>4. Depth(n)' <= MaxDepth
        BY <1>3, <2>1, NewDepth
    <2> QED
        BY <1>1, <2>2, <2>3, <2>4 DEF PathInv
<1>4. DOMAIN flows' = DOMAIN flows \/ \E c \in DOMAIN calls : ResolverAnswers(c)
    BY DEF vars, Next, Script, Vault, Call, BeginScript, EndScript, Request, EndFlow, UseVault,
           HostConsents, RunRequest, ResolverFails
<1> QED
    BY <1>2, <1>3, <1>4

LEMMA ShapeIsNesting ==
    ASSUME ShapeInv, StackInv, PathInv, Roots = 1
    PROVE  NestingKept
<1>1. BoundedNesting
    BY DEF PathInv, BoundedNesting
<1>2. StackIsCalls
    BY DEF StackInv, Counted, StackIsCalls, Places, LiveAs, Names
<1>3. ASSUME NEW f \in DOMAIN flows, flows[f].busy
      PROVE  flows[f].cursor = RootScript(f, flows[f].at)
    <2>1. flows[f].cursor = <<1, flows[1].at>>
        BY <1>3 DEF ShapeInv, Sound
    <2>2. CASE f = 1
        BY <2>1, <2>2, Callers DEF RootScript
    <2>3. CASE f # 1
        BY <1>3, <2>1, <2>3, BusyFlow, RootIsHost
    <2> QED
        BY <2>2, <2>3
<1>4. \A f \in DOMAIN flows :
         flows[f].by # 0 => flows[f].told = NoCursor \/ flows[f].told = RootScript(f, 0)
    BY Callers DEF PathInv
<1> QED
    BY <1>1, <1>2, <1>3, <1>4 DEF NestingKept, RootCursor

(* Whatever way calls are refused, fail and are answered, the stack of the  *)
(* shared object is that of the calls, no request is deeper than            *)
(* MaxDepth, and all that a chain reports has the cursor of its root.       *)
THEOREM NestingIsKept ==
    ASSUME Roots = 1, ~Interrupts, ~TimesOut
    PROVE  Spec => []NestingKept
<1> DEFINE Inv == ShapeInv /\ StackInv /\ PathInv
<1>1. Init => Inv
    <2> SUFFICES ASSUME Init PROVE Inv
        OBVIOUS
    <2>1. ShapeInv
        BY InitShape
    <2>2. StackInv
        BY DEF Init, StackInv
    <2>3. PathInv
        <3>1. DOMAIN flows = {1} /\ flows[1].by = 0
            BY <2>1, Callers, ShapeTypes DEF Init
        <3>2. CallsAbove(1) = {}
            BY <3>1 DEF CallsAbove, Chain
        <3>3. Depth(1) = 0
            BY <3>2, FS_EmptySet DEF Depth
        <3> QED
            BY <3>1, <3>3, BoundsAssumption DEF PathInv
    <2> QED
        BY <2>1, <2>2, <2>3
<1>2. Inv /\ [Next]_vars => Inv'
    BY NextShape, StackStep, PathStep
<1>3. Inv => NestingKept
    BY ShapeIsNesting
<1> HIDE DEF Inv
<1> QED
    BY <1>1, <1>2, <1>3, PTL DEF Spec
=============================================================================
