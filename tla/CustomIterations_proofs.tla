---------------------- MODULE CustomIterations_proofs ----------------------
(***************************************************************************)
(* That an iteration the host was called back about is idle, for any number *)
(* of items, partitions and calls of the host, whatever scripts and         *)
(* commands end with and whether or not callbacks throw, provided the host  *)
(* starts an iteration again only when its start has called back.           *)
(*                                                                          *)
(* A partition is served by one loop at a time: the one that was started    *)
(* last.  What is in its queue is one instruction, which that loop is yet   *)
(* to take, so that a loop that ends leaves nothing behind.  A loop that    *)
(* lends itself to the priority queue may end there, with the error of a    *)
(* callback, and not in its own queue: an abort has emptied that by then,   *)
(* and no other loop puts anything into it.                                 *)
(***************************************************************************)
EXTENDS CustomIterations, FiniteSetTheorems, SequenceTheorems, TLAPS

IsList(s) == \E S : s \in Seq(S)
AtMostOne(s) == s = << >> \/ \E x : s = <<x>>

IsLoop(c) == DOMAIN c = {"partition", "position", "state"}
Serving == {"ready", "ended", "polling", "lent"}

(* The queues are served by the loops.                                      *)
Served(queues, ls) ==
    /\ IsList(queues) /\ IsList(ls)
    /\ \A l \in DOMAIN ls : IsLoop(ls[l]) /\ ls[l].partition \in DOMAIN queues
    /\ \A l, k \in DOMAIN ls :
          /\ ls[l].partition = ls[k].partition
          /\ ls[l].state # "over" /\ ls[k].state # "over"
          => l = k
    /\ \A p \in DOMAIN queues :
          /\ AtMostOne(queues[p])
          /\ queues[p] # << >> =>
                \E l \in DOMAIN ls : ls[l].partition = p /\ ls[l].state \in Serving

(* The priority queue is run on behalf of a loop that waits for it, and     *)
(* whose own queue is empty when it fails.                                  *)
Lent(queues, ls) ==
    control # "off" /\ owner # Starter =>
        /\ owner \in DOMAIN ls /\ ls[owner].state = "lent"
        /\ control = "failed" => queues[ls[owner].partition] = << >>

IdleInv == Served(queue, loops) /\ Lent(queue, loops)

(***************************************************************************)
(* Sequences                                                               *)
(***************************************************************************)
LEMMA ListAppend ==
    ASSUME NEW s, IsList(s), NEW e
    PROVE  /\ IsList(Append(s, e))
           /\ Len(s) \in Nat /\ DOMAIN s = 1 .. Len(s)
           /\ DOMAIN Append(s, e) = 1 .. Len(s) + 1
           /\ \A i \in DOMAIN s : Append(s, e)[i] = s[i]
           /\ Append(s, e)[Len(s) + 1] = e
<1>1. PICK S : s \in Seq(S)
    BY DEF IsList
<1>2. s \in Seq(S \cup {e}) /\ e \in S \cup {e}
    BY <1>1
<1>3. Append(s, e) \in Seq(S \cup {e})
    BY <1>2
<1> QED
    BY <1>2, <1>3 DEF IsList

LEMMA ListExcept ==
    ASSUME NEW s, IsList(s), NEW i \in DOMAIN s, NEW e, NEW t, t = [s EXCEPT ![i] = e]
    PROVE  /\ IsList(t) /\ DOMAIN t = DOMAIN s
           /\ t[i] = e
           /\ \A j \in DOMAIN s : j # i => t[j] = s[j]
<1>1. PICK S : s \in Seq(S)
    BY DEF IsList
<1>2. s \in Seq(S \cup {e}) /\ e \in S \cup {e}
    BY <1>1
<1>3. t \in Seq(S \cup {e})
    BY <1>2
<1>4. DOMAIN t = DOMAIN s /\ t[i] = e /\ \A j \in DOMAIN s : j # i => t[j] = s[j]
    BY <1>2
<1>5. IsList(t)
    BY <1>3 DEF IsList
<1> QED
    BY <1>4, <1>5

(* The queue of a loop after an instruction.                                *)
LEMMA ThenOne ==
    ASSUME NEW s, AtMostOne(s), s # << >>, NEW x
    PROVE  Tail(s) \o << >> = << >> /\ Tail(s) \o <<x>> = <<x>>
<1>1. PICK y : s = <<y>>
    BY DEF AtMostOne
<1>2. Tail(s) = << >>
    BY <1>1
<1>3. <<x>> \in Seq({x}) /\ << >> \in Seq({x})
    OBVIOUS
<1> QED
    BY <1>2, <1>3, ConcatEmptySeq

(***************************************************************************)
(* The loops                                                               *)
(***************************************************************************)
(* A loop takes a step, and what its queue has then it is yet to take.      *)
LEMMA ServedMoves ==
    ASSUME NEW queues, NEW ls, Served(queues, ls), NEW l \in DOMAIN ls, ls[l].state # "over",
           NEW c, IsLoop(c), c.partition = ls[l].partition,
           NEW s, AtMostOne(s), s # << >> => c.state \in Serving
    PROVE  Served([queues EXCEPT ![ls[l].partition] = s], [ls EXCEPT ![l] = c])
<1> DEFINE p == ls[l].partition
           t == [queues EXCEPT ![p] = s]
           m == [ls EXCEPT ![l] = c]
<1>1. p \in DOMAIN queues /\ IsList(queues) /\ IsList(ls)
    BY DEF Served
<1>2. t = [queues EXCEPT ![p] = s] /\ m = [ls EXCEPT ![l] = c]
    OBVIOUS
<1> HIDE DEF t, m, p
<1>3. /\ IsList(t) /\ DOMAIN t = DOMAIN queues /\ t[p] = s
      /\ \A q \in DOMAIN queues : q # p => t[q] = queues[q]
    BY <1>1, <1>2, ListExcept
<1>4. /\ IsList(m) /\ DOMAIN m = DOMAIN ls /\ m[l] = c
      /\ \A k \in DOMAIN ls : k # l => m[k] = ls[k]
    BY <1>1, <1>2, ListExcept
<1> USE DEF p
<1>5. \A k \in DOMAIN m : IsLoop(m[k]) /\ m[k].partition = ls[k].partition
    BY <1>4 DEF Served, p
<1>6. \A k \in DOMAIN m : m[k].partition \in DOMAIN t
    BY <1>3, <1>4, <1>5 DEF Served
<1>7. ASSUME NEW k \in DOMAIN m, NEW j \in DOMAIN m, m[k].partition = m[j].partition,
             m[k].state # "over", m[j].state # "over"
      PROVE  k = j
    <2>1. ls[k].state # "over" /\ ls[j].state # "over"
        BY <1>4, <1>7
    <2> QED
        BY <1>4, <1>5, <1>7, <2>1 DEF Served
<1>8. ASSUME NEW q \in DOMAIN t
      PROVE  /\ AtMostOne(t[q])
             /\ t[q] # << >> => \E k \in DOMAIN m : m[k].partition = q /\ m[k].state \in Serving
    <2>1. CASE q = p
        BY <1>3, <1>4, <2>1
    <2>2. CASE q # p
        <3>1. t[q] = queues[q] /\ AtMostOne(t[q])
            BY <1>3, <2>2 DEF Served
        <3>2. ASSUME t[q] # << >> PROVE \E k \in DOMAIN m : m[k].partition = q /\ m[k].state \in Serving
            <4>1. PICK k \in DOMAIN ls : ls[k].partition = q /\ ls[k].state \in Serving
                BY <1>3, <3>1, <3>2 DEF Served
            <4>2. m[k] = ls[k]
                BY <1>4, <2>2, <4>1
            <4> QED
                BY <1>4, <4>1, <4>2
        <3> QED
            BY <3>1, <3>2
    <2> QED
        BY <2>1, <2>2
<1>9. Served(t, m)
    BY <1>3, <1>4, <1>5, <1>6, <1>7, <1>8 DEF Served
<1> QED
    BY <1>9 DEF t, m, p

(* A loop takes a step without touching its queue, or ends when that has    *)
(* nothing.                                                                 *)
LEMMA ServedKeeps ==
    ASSUME NEW queues, NEW ls, Served(queues, ls), NEW l \in DOMAIN ls, ls[l].state # "over",
           NEW state, state \in Serving \/ queues[ls[l].partition] = << >>
    PROVE  Served(queues, [ls EXCEPT ![l].state = state])
<1> DEFINE p == ls[l].partition
           c == [ls[l] EXCEPT !.state = state]
<1>1. p \in DOMAIN queues /\ IsLoop(ls[l]) /\ AtMostOne(queues[p])
    BY DEF Served
<1>2. IsLoop(c) /\ c.partition = p /\ c.state = state
    BY <1>1 DEF IsLoop
<1>3. /\ IsList(queues) /\ queues = [queues EXCEPT ![p] = queues[p]]
    <2>1. IsList(queues)
        BY DEF Served
    <2>2. PICK S : queues \in Seq(S)
        BY <2>1 DEF IsList
    <2> QED
        BY <1>1, <2>1, <2>2
<1>4. [ls EXCEPT ![l].state = state] = [ls EXCEPT ![l] = c]
    OBVIOUS
<1>5. queues[p] # << >> => c.state \in Serving
    BY <1>2
<1> HIDE DEF c
<1>6. Served([queues EXCEPT ![ls[l].partition] = queues[p]], [ls EXCEPT ![l] = c])
    BY <1>1, <1>2, <1>5, ServedMoves
<1> QED
    BY <1>3, <1>4, <1>6

(* What a loop does leaves the loop alone that has lent itself.             *)
LEMMA LentKeeps ==
    ASSUME IdleInv, control' = control, owner' = owner,
           NEW l \in Loops, loops[l].state \notin {"over", "lent"},
           NEW c, NEW s,
           loops' = [loops EXCEPT ![l] = c],
           queue' = [queue EXCEPT ![loops[l].partition] = s]
    PROVE  Lent(queue, loops)'
<1> SUFFICES ASSUME control # "off", owner # Starter
             PROVE  /\ owner \in DOMAIN loops' /\ loops'[owner].state = "lent"
                    /\ control = "failed" => queue'[loops'[owner].partition] = << >>
    BY DEF Lent
<1>1. /\ owner \in DOMAIN loops /\ loops[owner].state = "lent"
      /\ control = "failed" => queue[loops[owner].partition] = << >>
    BY DEF IdleInv, Lent
<1>2. owner # l
    BY <1>1
<1>3. DOMAIN loops' = DOMAIN loops /\ loops'[owner] = loops[owner]
    <2>1. DOMAIN loops' = DOMAIN loops /\ \A j \in DOMAIN loops : j # l => loops'[j] = loops[j]
        BY ListExcept DEF IdleInv, Served, Loops
    <2> QED
        BY <1>1, <1>2, <2>1
<1>4. loops[owner].partition # loops[l].partition
    BY <1>1, <1>2 DEF IdleInv, Served, Loops
<1>5. queue'[loops[owner].partition] = queue[loops[owner].partition]
    <2>1. \A q \in DOMAIN queue : q # loops[l].partition => queue'[q] = queue[q]
        BY ListExcept DEF IdleInv, Served, Loops
    <2> QED
        BY <1>1, <1>4, <2>1 DEF IdleInv, Served
<1> QED
    BY <1>1, <1>3, <1>5

LEMMA LentStays ==
    ASSUME IdleInv, control' = control, owner' = owner, queue' = queue,
           NEW l \in Loops, loops[l].state \notin {"over", "lent"},
           NEW state, Move(l, state)
    PROVE  Lent(queue, loops)'
<1> DEFINE c == [loops[l] EXCEPT !.state = state]
<1>1. loops' = [loops EXCEPT ![l] = c]
    BY DEF Move
<1>2. queue' = [queue EXCEPT ![loops[l].partition] = queue[loops[l].partition]]
    <2>1. PICK S : queue \in Seq(S)
        BY DEF IdleInv, Served, IsList
    <2> QED
        BY <2>1
<1> HIDE DEF c
<1> QED
    BY <1>1, <1>2, LentKeeps

(* A loop that moves and leaves its queue alone.                            *)
LEMMA MoveKeeps ==
    ASSUME IdleInv, control' = control, owner' = owner, queue' = queue,
           NEW l \in Loops, loops[l].state \notin {"over", "lent"},
           NEW state, Move(l, state), state \in Serving \/ queue[loops[l].partition] = << >>
    PROVE  IdleInv'
<1>1. Served(queue, [loops EXCEPT ![l].state = state])
    BY ServedKeeps DEF IdleInv, Loops
<1>2. Served(queue, loops)'
    BY <1>1 DEF Move, Served
<1> QED
    BY <1>2, LentStays DEF IdleInv

(* A loop that moves once it has executed the instruction of its queue.     *)
LEMMA ThenKeeps ==
    ASSUME IdleInv, control' = control, owner' = owner,
           NEW l \in Loops, loops[l].state \notin {"over", "lent"},
           NEW c, IsLoop(c), c.partition = loops[l].partition,
           loops' = [loops EXCEPT ![l] = c],
           NEW s, AtMostOne(s), s # << >> => c.state \in Serving,
           queue' = [queue EXCEPT ![loops[l].partition] = s]
    PROVE  IdleInv'
<1>1. Served([queue EXCEPT ![loops[l].partition] = s], [loops EXCEPT ![l] = c])
    BY ServedMoves DEF IdleInv, Loops
<1>2. Served(queue, loops)'
    BY <1>1 DEF Served
<1> QED
    BY <1>2, LentKeeps DEF IdleInv

(***************************************************************************)
(* The actions                                                             *)
(***************************************************************************)
LEMMA InitIdle == Init => IdleInv
<1> SUFFICES ASSUME Init PROVE IdleInv
    OBVIOUS
<1>1. queue = << >> /\ loops = << >> /\ owner = Starter
    BY DEF Init
<1>2. << >> \in Seq({}) /\ DOMAIN << >> = {}
    OBVIOUS
<1>3. IsList(<< >>)
    BY <1>2 DEF IsList
<1> QED
    BY <1>1, <1>2, <1>3 DEF IdleInv, Served, Lent

(* A host that waits starts an iteration only where nothing is left of the  *)
(* one before.                                                              *)
LEMMA StartIterationIdle ==
    ASSUME IdleInv, ~TrustsStop, NEW p \in 1 .. Len(queue) + 1, StartIteration(p)
    PROVE  IdleInv'
<1> DEFINE first == <<Instruction("parallel", 0, "start")>>
           c == [partition |-> p, position |-> 0, state |-> "ready"]
<1>1. /\ IsList(queue) /\ IsList(loops) /\ Len(queue) \in Nat /\ Partitions = 1 .. Len(queue)
      /\ Len(loops) \in Nat /\ Loops = 1 .. Len(loops)
    BY ListAppend DEF IdleInv, Served, Partitions, Loops
<1>2. \A l \in Loops : loops[l].partition = p => loops[l].state = "over"
    <2>1. CASE p \in Partitions
        BY <2>1 DEF StartIteration, Outstanding
    <2>2. CASE p \notin Partitions
        BY <2>2 DEF IdleInv, Served, Partitions, Loops
    <2> QED
        BY <2>1, <2>2
<1>3. p \in Partitions => queue[p] = << >>
    <2> SUFFICES ASSUME p \in Partitions, queue[p] # << >> PROVE FALSE
        OBVIOUS
    <2>1. PICK l \in Loops : loops[l].partition = p /\ loops[l].state \in Serving
        BY DEF IdleInv, Served, Partitions, Loops
    <2> QED
        BY <1>2, <2>1 DEF Serving
<1>4. /\ loops' = Append(loops, c)
      /\ queue' = IF p \in Partitions THEN [queue EXCEPT ![p] = first] ELSE Append(queue, first)
      /\ control' = control /\ owner' = owner
    BY <1>3 DEF StartIteration, controlVars
<1>5. AtMostOne(first) /\ IsLoop(c) /\ c.partition = p /\ c.state = "ready"
    BY DEF AtMostOne, IsLoop
<1> HIDE DEF first, c
<1>6. /\ IsList(loops') /\ DOMAIN loops' = 1 .. Len(loops) + 1
      /\ \A l \in Loops : loops'[l] = loops[l]
      /\ loops'[Len(loops) + 1] = c
    BY <1>1, <1>4, ListAppend DEF Loops
<1>7. /\ IsList(queue') /\ DOMAIN queue' = Partitions \cup {p}
      /\ queue'[p] = first
      /\ \A q \in Partitions : q # p => queue'[q] = queue[q]
    <2>1. CASE p \in Partitions
        <3>1. queue' = [queue EXCEPT ![p] = first]
            BY <1>4, <2>1
        <3>2. /\ IsList(queue') /\ DOMAIN queue' = Partitions /\ queue'[p] = first
              /\ \A q \in Partitions : q # p => queue'[q] = queue[q]
            BY <1>1, <2>1, <3>1, ListExcept DEF Partitions
        <3> QED
            BY <2>1, <3>2
    <2>2. CASE p \notin Partitions
        <3>1. queue' = Append(queue, first) /\ p = Len(queue) + 1
            BY <1>1, <1>4, <2>2
        <3>2. /\ IsList(queue') /\ DOMAIN queue' = 1 .. Len(queue) + 1
              /\ queue'[p] = first /\ \A q \in Partitions : queue'[q] = queue[q]
            BY <1>1, <3>1, ListAppend DEF Partitions
        <3> QED
            BY <1>1, <3>1, <3>2
    <2> QED
        BY <2>1, <2>2
<1>8. \A l \in DOMAIN loops' : l \in Loops \/ l = Len(loops) + 1
    BY <1>1, <1>6
<1>9. \A l \in DOMAIN loops' : IsLoop(loops'[l]) /\ loops'[l].partition \in DOMAIN queue'
    <2>1. \A l \in Loops : IsLoop(loops[l]) /\ loops[l].partition \in Partitions
        BY DEF IdleInv, Served, Loops, Partitions
    <2> QED
        BY <1>5, <1>6, <1>7, <1>8, <2>1
<1>10. ASSUME NEW l \in DOMAIN loops', NEW k \in DOMAIN loops',
              loops'[l].partition = loops'[k].partition,
              loops'[l].state # "over", loops'[k].state # "over"
       PROVE  l = k
    <2>1. CASE l \in Loops /\ k \in Loops
        BY <1>6, <1>10, <2>1 DEF IdleInv, Served, Loops
    <2>2. CASE l = Len(loops) + 1 /\ k \in Loops
        BY <1>2, <1>5, <1>6, <1>10, <2>2
    <2>3. CASE k = Len(loops) + 1 /\ l \in Loops
        BY <1>2, <1>5, <1>6, <1>10, <2>3
    <2> QED
        BY <1>8, <2>1, <2>2, <2>3
<1>11. ASSUME NEW q \in DOMAIN queue'
       PROVE  /\ AtMostOne(queue'[q])
              /\ queue'[q] # << >> =>
                    \E l \in DOMAIN loops' : loops'[l].partition = q /\ loops'[l].state \in Serving
    <2>1. CASE q = p
        <3>1. Len(loops) + 1 \in DOMAIN loops'
            BY <1>1, <1>6
        <3> QED
            BY <1>5, <1>6, <1>7, <2>1, <3>1 DEF Serving
    <2>2. CASE q # p
        <3>1. q \in Partitions /\ queue'[q] = queue[q]
            BY <1>7, <2>2
        <3>2. AtMostOne(queue[q])
            BY <3>1 DEF IdleInv, Served, Partitions
        <3>3. queue[q] # << >> =>
                \E l \in Loops : loops[l].partition = q /\ loops[l].state \in Serving
            BY <3>1 DEF IdleInv, Served, Partitions, Loops
        <3>4. Loops \subseteq DOMAIN loops'
            BY <1>1, <1>6
        <3> QED
            BY <1>6, <3>1, <3>2, <3>3, <3>4
    <2> QED
        BY <2>1, <2>2
<1>12. Served(queue, loops)'
    BY <1>6, <1>7, <1>9, <1>10, <1>11 DEF Served
<1>13. Lent(queue, loops)'
    <2> SUFFICES ASSUME control # "off", owner # Starter
                 PROVE  /\ owner \in DOMAIN loops' /\ loops'[owner].state = "lent"
                        /\ control = "failed" => queue'[loops'[owner].partition] = << >>
        BY <1>4 DEF Lent
    <2>1. /\ owner \in Loops /\ loops[owner].state = "lent"
          /\ control = "failed" => queue[loops[owner].partition] = << >>
        BY DEF IdleInv, Lent, Loops
    <2>2. loops[owner].partition # p /\ loops[owner].partition \in Partitions
        BY <1>2, <2>1 DEF IdleInv, Served, Partitions, Loops
    <2>3. owner \in DOMAIN loops'
        BY <1>1, <1>6, <2>1
    <2> QED
        BY <1>6, <1>7, <2>1, <2>2, <2>3
<1> QED
    BY <1>12, <1>13 DEF IdleInv

(* A stop leaves the loop its turn.                                         *)
LEMMA StopIterationIdle ==
    ASSUME IdleInv, NEW p \in Partitions, StopIteration(p)
    PROVE  IdleInv'
<1>1. /\ queue' = [queue EXCEPT ![p] = << >>]
      /\ loops' = loops /\ control' = control /\ owner' = owner
    BY DEF StopIteration, controlVars
<1>2. /\ IsList(queue') /\ DOMAIN queue' = DOMAIN queue /\ queue'[p] = << >>
      /\ \A q \in DOMAIN queue : q # p => queue'[q] = queue[q]
    BY <1>1, ListExcept DEF IdleInv, Served, Partitions
<1>3. \A q \in DOMAIN queue : queue'[q] = << >> \/ queue'[q] = queue[q]
    BY <1>2
<1>4. \A q \in DOMAIN queue :
          /\ AtMostOne(queue'[q])
          /\ queue'[q] # << >> =>
                \E l \in DOMAIN loops : loops[l].partition = q /\ loops[l].state \in Serving
    BY <1>3 DEF IdleInv, Served, AtMostOne
<1>5. Served(queue, loops)'
    BY <1>1, <1>2, <1>4 DEF IdleInv, Served
<1>6. Lent(queue, loops)'
    BY <1>1, <1>3 DEF IdleInv, Served, Lent
<1> QED
    BY <1>5, <1>6 DEF IdleInv

LEMMA SameIdle ==
    ASSUME IdleInv, loops' = loops, queue' = queue,
           \/ owner' = Starter
           \/ control' = control /\ owner' = owner
    PROVE  IdleInv'
BY DEF IdleInv, Served, Lent

LEMMA LoopIdle ==
    ASSUME IdleInv, NEW l \in Loops, Loop(l)
    PROVE  IdleInv'
<1> DEFINE p == loops[l].partition
<1>1. p \in DOMAIN queue /\ IsLoop(loops[l]) /\ AtMostOne(queue[p])
    BY DEF IdleInv, Served, Loops
<1>2. HasTurn(l) => loops[l].state \in Serving /\ loops[l].state \notin {"over", "lent"}
    BY DEF HasTurn, Serving
<1>3. CASE Poll(l)
    BY <1>2, <1>3, MoveKeeps DEF Poll, controlVars, Serving
<1>4. CASE TakeControl(l)
    <2>1. Served(queue, [loops EXCEPT ![l].state = "lent"])
        BY <1>2, <1>4, ServedKeeps DEF IdleInv, TakeControl, Serving, Loops
    <2>2. loops' = [loops EXCEPT ![l].state = "lent"] /\ queue' = queue
          /\ control' = "ready" /\ owner' = l
        BY <1>4 DEF TakeControl, Move
    <2>3. l \in DOMAIN loops' /\ loops'[l].state = "lent"
        BY <1>1, <2>2 DEF Loops, IsLoop
    <2>4. Served(queue, loops)'
        BY <2>1, <2>2 DEF Served
    <2>5. Lent(queue, loops)'
        BY <2>2, <2>3 DEF Lent
    <2> QED
        BY <2>4, <2>5 DEF IdleInv
<1>5. CASE Finish(l)
    BY <1>2, <1>5, MoveKeeps DEF Finish, ProcessesOwn, controlVars
<1>6. CASE Fail(l)
    <2>1. queue[p] = << >>
        <3> SUFFICES ASSUME queue[p] # << >> PROVE FALSE
            OBVIOUS
        <3>1. PICK k \in Loops : loops[k].partition = p /\ loops[k].state \in Serving
            BY <1>1 DEF IdleInv, Served, Loops
        <3>2. loops[l].state = "failed" /\ loops[k].state # "over"
            BY <1>6, <3>1 DEF Fail, Serving
        <3>3. k = l
            BY <3>1, <3>2 DEF IdleInv, Served, Loops
        <3> QED
            BY <3>1, <3>2, <3>3 DEF Serving
    <2> QED
        BY <1>6, <2>1, MoveKeeps DEF Fail, controlVars
<1>7. ASSUME NEW cmd, Executes(l, cmd)
      PROVE  /\ loops[l].state \notin {"over", "lent"}
             /\ \A x : AtMostOne(Tail(queue[p]) \o <<x>>)
             /\ Tail(queue[p]) \o << >> = << >>
    <2>1. loops[l].state \notin {"over", "lent"} /\ queue[p] # << >>
        BY <1>2, <1>7 DEF Executes, ProcessesOwn
    <2> QED
        BY <1>1, <2>1, ThenOne DEF AtMostOne
<1>8. ASSUME NEW cmd, Executes(l, cmd), NEW s, AtMostOne(Tail(queue[p]) \o s),
             Then(l, s), Move(l, "ended"), control' = control, owner' = owner
      PROVE  IdleInv'
    <2> DEFINE c == [loops[l] EXCEPT !.state = "ended"]
    <2>1. IsLoop(c) /\ c.partition = p /\ c.state \in Serving
        BY <1>1 DEF IsLoop, Serving
    <2>2. loops' = [loops EXCEPT ![l] = c]
        BY <1>8 DEF Move
    <2>3. queue' = [queue EXCEPT ![p] = Tail(queue[p]) \o s]
        BY <1>8 DEF Then
    <2>4. loops[l].state \notin {"over", "lent"}
        BY <1>7, <1>8
    <2> HIDE DEF c
    <2> QED
        BY <1>8, <2>1, <2>2, <2>3, <2>4, ThenKeeps
<1>9. CASE ExecuteParallel(l)
    <2>1. Executes(l, "parallel") /\ Move(l, "ended") /\ control' = control /\ owner' = owner
        BY <1>9 DEF ExecuteParallel, controlVars
    <2>2. \/ Then(l, << >>)
          \/ \E x : Then(l, <<x>>)
        BY <1>9 DEF ExecuteParallel
    <2>3. AtMostOne(Tail(queue[p]) \o << >>)
        BY <1>7, <2>1 DEF AtMostOne
    <2>4. ASSUME NEW x, Then(l, <<x>>) PROVE IdleInv'
        BY <1>7, <1>8, <2>1, <2>4
    <2> QED
        BY <1>8, <2>1, <2>2, <2>3, <2>4
<1>10. CASE ExecuteItem(l)
    <2>1. Executes(l, "item") /\ Move(l, "ended") /\ control' = control /\ owner' = owner
        BY <1>10 DEF ExecuteItem, controlVars
    <2>2. \E x : Then(l, <<x>>)
        BY <1>10 DEF ExecuteItem
    <2> QED
        BY <1>7, <1>8, <2>1, <2>2
<1>11. CASE ExecuteScript(l)
    <2> DEFINE c == [loops[l] EXCEPT !.state = "running", !.position = Head(queue[p]).position]
    <2>1. /\ Executes(l, "script") /\ Then(l, << >>) /\ control' = control /\ owner' = owner
        BY <1>11 DEF ExecuteScript, controlVars
    <2>2. loops' = [loops EXCEPT ![l] = c]
        BY <1>11 DEF ExecuteScript
    <2>3. IsLoop(c) /\ c.partition = p
        BY <1>1 DEF IsLoop
    <2>4. queue' = [queue EXCEPT ![p] = << >>]
        <3>1. Tail(queue[p]) \o << >> = << >>
            BY <1>7, <2>1
        <3> QED
            BY <2>1, <3>1 DEF Then
    <2>5. loops[l].state \notin {"over", "lent"}
        BY <1>7, <2>1
    <2>6. AtMostOne(<< >>)
        BY DEF AtMostOne
    <2> HIDE DEF c
    <2> QED
        BY <2>1, <2>2, <2>3, <2>4, <2>5, <2>6, ThenKeeps
<1> QED
    BY <1>3, <1>4, <1>5, <1>6, <1>9, <1>10, <1>11 DEF Loop

(* What a script is done with goes into a queue that had nothing.           *)
LEMMA AnswerIdle ==
    ASSUME IdleInv, NEW l \in Loops, Answer(l)
    PROVE  IdleInv'
<1> DEFINE p == loops[l].partition
<1>1. loops[l].state = "running"
    BY DEF Answer, ScriptEnds, ScriptAborts
<1>2. queue[p] = << >>
    <2> SUFFICES ASSUME queue[p] # << >> PROVE FALSE
        OBVIOUS
    <2>1. PICK k \in Loops : loops[k].partition = p /\ loops[k].state \in Serving
        BY DEF IdleInv, Served, Loops
    <2>2. k = l
        BY <1>1, <2>1 DEF IdleInv, Served, Loops, Serving
    <2> QED
        BY <1>1, <2>1, <2>2 DEF Serving
<1>3. CASE ScriptEnds(l)
    <2> DEFINE c == [loops[l] EXCEPT !.state = "ended"]
    <2>1. \E x : queue' = [queue EXCEPT ![p] = Append(queue[p], x)]
        BY <1>3 DEF ScriptEnds
    <2>2. PICK x : queue' = [queue EXCEPT ![p] = <<x>>]
        <3>1. PICK x : queue' = [queue EXCEPT ![p] = Append(queue[p], x)]
            BY <2>1
        <3>2. Append(queue[p], x) = <<x>>
            BY <1>2
        <3> QED
            BY <3>1, <3>2
    <2>3. loops' = [loops EXCEPT ![l] = c] /\ control' = control /\ owner' = owner
        BY <1>3 DEF ScriptEnds, Move, controlVars
    <2>4. IsLoop(c) /\ c.partition = p /\ c.state \in Serving
        BY DEF IdleInv, Served, Loops, IsLoop, Serving
    <2>5. AtMostOne(<<x>>)
        BY DEF AtMostOne
    <2>6. loops[l].state \notin {"over", "lent"}
        BY <1>1
    <2> HIDE DEF c
    <2> QED
        BY <2>2, <2>3, <2>4, <2>5, <2>6, ThenKeeps
<1>4. CASE ScriptAborts(l)
    BY <1>1, <1>2, <1>4, MoveKeeps DEF ScriptAborts, controlVars
<1> QED
    BY <1>3, <1>4 DEF Answer

(* The abort empties all queues; the loop that lent itself goes on or ends. *)
LEMMA ControlLoopIdle ==
    ASSUME IdleInv, ControlLoop
    PROVE  IdleInv'
<1>1. CASE ExecuteAbort
    <2>1. /\ queue' = [p \in Partitions |-> << >>] /\ loops' = loops /\ owner' = owner
          /\ control # "off"
        BY <1>1 DEF ExecuteAbort, ControlHasTurn
    <2>2. IsList(queue')
        <3>1. PICK S : queue \in Seq(S)
            BY DEF IdleInv, Served, IsList
        <3>2. Len(queue) \in Nat /\ Partitions = 1 .. Len(queue)
            BY <3>1 DEF Partitions
        <3>3. [p \in 1 .. Len(queue) |-> << >>] \in Seq({<< >>})
            BY <3>2
        <3> QED
            BY <2>1, <3>2, <3>3 DEF IsList
    <2>3. DOMAIN queue' = DOMAIN queue /\ \A p \in DOMAIN queue : queue'[p] = << >>
        BY <2>1 DEF Partitions
    <2>4. AtMostOne(<< >>)
        BY DEF AtMostOne
    <2>5. Served(queue, loops)'
        BY <2>1, <2>2, <2>3, <2>4 DEF IdleInv, Served
    <2>6. Lent(queue, loops)'
        BY <2>1, <2>3 DEF IdleInv, Lent, Served
    <2> QED
        BY <2>5, <2>6 DEF IdleInv
<1>2. ASSUME owner # Starter, control # "off", queue' = queue, control' = "off",
             NEW state, Move(owner, state),
             state \in Serving \/ queue[loops[owner].partition] = << >>
      PROVE  IdleInv'
    <2>1. owner \in DOMAIN loops /\ loops[owner].state # "over"
        BY <1>2 DEF IdleInv, Lent
    <2>2. Served(queue, [loops EXCEPT ![owner].state = state])
        BY <1>2, <2>1, ServedKeeps DEF IdleInv
    <2>3. Served(queue, loops)'
        BY <1>2, <2>2 DEF Move, Served
    <2> QED
        BY <1>2, <2>3 DEF IdleInv, Lent
<1>3. ASSUME loops' = loops, queue' = queue, control' = "off" PROVE IdleInv'
    BY <1>3 DEF IdleInv, Served, Lent
<1>4. CASE ControlEnds
    BY <1>2, <1>3, <1>4 DEF ControlEnds, ControlHasTurn, Serving
<1>5. CASE ControlFails
    <2>1. control = "failed" /\ control' = "off" /\ queue' = queue
        BY <1>5 DEF ControlFails
    <2>2. CASE owner = Starter
        BY <1>3, <1>5, <2>1, <2>2 DEF ControlFails
    <2>3. CASE owner # Starter
        <3>1. queue[loops[owner].partition] = << >>
            BY <2>1, <2>3 DEF IdleInv, Lent
        <3> QED
            BY <1>2, <1>5, <2>1, <2>3, <3>1 DEF ControlFails
    <2> QED
        BY <2>2, <2>3
<1> QED
    BY <1>1, <1>4, <1>5 DEF ControlLoop

LEMMA NextIdle == ~TrustsStop /\ IdleInv /\ [Next]_vars => IdleInv'
<1> SUFFICES ASSUME ~TrustsStop, IdleInv, [Next]_vars PROVE IdleInv'
    OBVIOUS
<1>1. CASE UNCHANGED vars
    BY <1>1, SameIdle DEF vars, controlVars
<1>2. CASE Start \/ Initialised \/ GlobalTimeoutFires \/ Abort
    BY <1>2, SameIdle DEF Start, Initialised, GlobalTimeoutFires, Abort, controlVars
<1>3. CASE ControlLoop
    BY <1>3, ControlLoopIdle
<1>4. CASE \E p \in 1 .. Len(queue) + 1 : StartIteration(p)
    BY <1>4, StartIterationIdle
<1>5. CASE \E p \in Partitions : StopIteration(p)
    BY <1>5, StopIterationIdle
<1>6. CASE \E l \in Loops : Loop(l) \/ Answer(l)
    BY <1>6, LoopIdle, AnswerIdle
<1> QED
    BY <1>1, <1>2, <1>3, <1>4, <1>5, <1>6 DEF Next

(* A partition does one thing at a time, and nothing once the host was      *)
(* called back about its iteration: after the end of the iteration, after a *)
(* stop and after an abort, also when a callback has thrown.                *)
THEOREM AnsweredStaysIdle ==
    ASSUME ~TrustsStop
    PROVE  Spec => []AnsweredIsIdle
<1>1. IdleInv => AnsweredIsIdle
    <2> SUFFICES ASSUME IdleInv, NEW p \in Partitions
                 PROVE  Work(p) <= 1 /\ (~Outstanding(p) => Work(p) = 0)
        BY DEF AnsweredIsIdle
    <2> DEFINE running == {l \in Loops : loops[l].partition = p /\ loops[l].state = "running"}
    <2>1. AtMostOne(queue[p])
        BY DEF IdleInv, Served, Partitions
    <2>2. \/ queue[p] = << >> /\ Len(queue[p]) = 0
          \/ queue[p] # << >> /\ Len(queue[p]) = 1
        <3>1. CASE queue[p] = << >>
            BY <3>1
        <3>2. CASE queue[p] # << >>
            <4>1. PICK x : queue[p] = <<x>>
                BY <2>1, <3>2 DEF AtMostOne
            <4>2. Len(<<x>>) = 1
                OBVIOUS
            <4> QED
                BY <3>2, <4>1, <4>2
        <3> QED
            BY <3>1, <3>2
    <2>3. \A l, k \in running : l = k
        BY DEF IdleInv, Served, Loops
    <2>4. queue[p] # << >> => running = {} /\ Outstanding(p)
        <3> SUFFICES ASSUME queue[p] # << >> PROVE running = {} /\ Outstanding(p)
            OBVIOUS
        <3>1. PICK k \in Loops : loops[k].partition = p /\ loops[k].state \in Serving
            BY DEF IdleInv, Served, Loops, Partitions
        <3>2. \A l \in running : l = k
            BY <3>1 DEF IdleInv, Served, Loops, Serving
        <3> QED
            BY <3>1, <3>2 DEF Outstanding, Serving
    <2>5. running # {} => Outstanding(p)
        BY DEF Outstanding
    <2>6. Work(p) = Len(queue[p]) + Cardinality(running)
        BY DEF Work
    <2> HIDE DEF running
    <2>7. running = {} => Cardinality(running) = 0
        BY FS_EmptySet
    <2>8. running # {} => Cardinality(running) = 1
        <3> SUFFICES ASSUME running # {} PROVE Cardinality(running) = 1
            OBVIOUS
        <3>1. PICK l : running = {l}
            BY <2>3
        <3> QED
            BY <3>1, FS_Singleton
    <2>9. CASE queue[p] # << >>
        <3>1. Len(queue[p]) = 1 /\ Cardinality(running) = 0 /\ Outstanding(p)
            BY <2>2, <2>4, <2>7, <2>9
        <3> QED
            BY <2>6, <3>1
    <2>10. CASE queue[p] = << >>
        BY <2>2, <2>5, <2>6, <2>7, <2>8, <2>10
    <2> QED
        BY <2>9, <2>10
<1> QED
    BY <1>1, InitIdle, NextIdle, PTL DEF Spec
=============================================================================
