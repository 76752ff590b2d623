----------------------------- MODULE Runner_proofs -----------------------------
(***************************************************************************)
(* That a runner executes what the host asks for.  An entry point by id or *)
(* name is the first node that matches in the first folder that lists one. *)
(* Several are all found, or the run is refused, and what is below them    *)
(* runs and nothing else.  And createPartitions divides the iterations of  *)
(* any run over any number of partitions without loss or overlap.          *)
(***************************************************************************)
EXTENDS Runner, Partitions_proofs, SequenceTheorems, WellFoundedInduction

(***************************************************************************)
(* createPartitions: what has been created so far covers the iterations    *)
(* before startIteration, to which Partitions_proofs adds the arithmetic   *)
(***************************************************************************)

Ends(partition) == partition.startIndex + partition.cycles

(* What has been created covers what is before startIteration, in order.    *)
Covered ==
    /\ \A n \in 0 .. startIteration - 1 : \E k \in DOMAIN partitions : Has(partitions[k], n)
    /\ \A j, k \in DOMAIN partitions : j < k => Ends(partitions[j]) <= partitions[k].startIndex
    /\ \A k \in DOMAIN partitions : Ends(partitions[k]) <= startIteration

(* The invariant of the loop.                                               *)
LoopInv ==
    /\ TypeOK
    /\ i <= concurrency
    /\ Len(partitions) = i
    /\ startIteration = StartIndex(iterationCount, maxConcurrency, i)
    /\ AsInPartitions
    /\ Covered

(* The loop has not begun.                                                  *)
Before ==
    /\ iterationCount \in Nat /\ maxConcurrency \in Nat \ {0}
    /\ i = 0 /\ startIteration = 0 /\ partitions = <<>>

LEMMA BeforeLoop == Before => LoopInv
<1>. SUFFICES ASSUME Before PROVE LoopInv
  OBVIOUS
<1>1. TypeOK BY DEF Before, TypeOK
<1>2. 0 <= concurrency BY <1>1 DEF TypeOK, concurrency, Concurrency, Lesser
<1>3. StartIndex(iterationCount, maxConcurrency, 0) = 0 BY <1>1, StartFollows DEF TypeOK
<1>4. Len(partitions) = 0 /\ DOMAIN partitions = {} /\ i = 0 /\ startIteration = 0 BY DEF Before
<1>. QED BY <1>1, <1>2, <1>3, <1>4 DEF LoopInv, AsInPartitions, Covered

LEMMA InitLoop == Init => LoopInv
BY BeforeLoop, IterationsAssumption, ConcurrenciesAssumption DEF Init, Before

LEMMA NextLoop == LoopInv /\ [Next]_vars => LoopInv'
<1> SUFFICES ASSUME LoopInv, [Next]_vars PROVE LoopInv'
    OBVIOUS
<1> DEFINE size == Size(iterationCount, maxConcurrency, i)
           new == [startIndex |-> startIteration, cycles |-> size]
<1>t. TypeOK /\ iterationCount \in Nat /\ maxConcurrency \in Nat \ {0} /\ i \in Nat
      /\ startIteration \in Nat /\ partitions \in Seq([startIndex : Nat, cycles : Nat])
    BY DEF LoopInv, TypeOK
<1>1. CASE CreatePartition
    <2>1. i < concurrency /\ i' = i + 1
          /\ iterationCount' = iterationCount /\ maxConcurrency' = maxConcurrency
        BY <1>1 DEF CreatePartition
    <2>2. size \in Nat \ {0}
        BY <1>t, <2>1, SizePositive DEF concurrency
    <2>3. partitions' = Append(partitions, new) /\ startIteration' = startIteration + size
        BY <1>1, <2>2 DEF CreatePartition
    <2> HIDE DEF size
    <2>4. TypeOK'
        BY <1>t, <2>1, <2>2, <2>3 DEF TypeOK
    <2>5. (i <= concurrency)'
        BY <1>t, <2>1 DEF concurrency, Concurrency, Lesser
    <2>6. /\ Len(partitions') = i + 1
          /\ DOMAIN partitions' = 1 .. i + 1
          /\ DOMAIN partitions = 1 .. i
          /\ \A k \in 1 .. i : partitions'[k] = partitions[k]
          /\ partitions'[i + 1] = new
        BY <1>t, <2>3 DEF LoopInv
    <2>7. (startIteration = StartIndex(iterationCount, maxConcurrency, i))'
        <3>1. StartIndex(iterationCount, maxConcurrency, i + 1)
                  = StartIndex(iterationCount, maxConcurrency, i) + size
            BY <1>t, StartFollows DEF size
        <3> QED
            BY <2>1, <2>3, <3>1 DEF LoopInv
    <2>8. AsInPartitions'
        <3>1. SUFFICES ASSUME NEW k \in 1 .. i + 1
                       PROVE  partitions'[k] =
                                [ startIndex |-> StartIndex(iterationCount, maxConcurrency, k - 1),
                                  cycles |-> Size(iterationCount, maxConcurrency, k - 1) ]
            BY <2>1, <2>6 DEF AsInPartitions
        <3>2. CASE k \in 1 .. i
            BY <2>6, <3>2 DEF LoopInv, AsInPartitions
        <3>3. CASE k = i + 1
            <4>1. k - 1 = i
                BY <1>t, <3>3
            <4> QED
                BY <2>6, <3>3, <4>1 DEF LoopInv, size
        <3> QED
            BY <1>t, <3>2, <3>3
    <2>9. Covered'
        <3>0. /\ \A k \in 1 .. i : /\ partitions[k].startIndex \in Nat /\ partitions[k].cycles \in Nat
                                   /\ Ends(partitions[k]) <= startIteration
              /\ new.startIndex = startIteration /\ new.cycles = size
            <4>1. \A k \in 1 .. i : partitions[k] \in [startIndex : Nat, cycles : Nat]
                <5> DEFINE P == [startIndex : Nat, cycles : Nat]
                <5>1. partitions \in Seq(P) /\ 1 .. i = 1 .. Len(partitions)
                    BY <1>t DEF LoopInv
                <5> HIDE DEF P
                <5>2. \A k \in 1 .. i : partitions[k] \in P
                    BY <5>1, ElementOfSeq
                <5> QED
                    BY <5>2 DEF P
            <4>2. \A k \in 1 .. i : Ends(partitions[k]) <= startIteration
                BY <2>6 DEF LoopInv, Covered
            <4> QED
                BY <4>1, <4>2
        <3> HIDE DEF new
        <3>1. ASSUME NEW n \in 0 .. startIteration' - 1
              PROVE  \E k \in DOMAIN partitions' : Has(partitions'[k], n)
            <4>1. CASE n \in 0 .. startIteration - 1
                <5>1. PICK k \in DOMAIN partitions : Has(partitions[k], n)
                    BY <4>1 DEF LoopInv, Covered
                <5> QED
                    BY <1>t, <2>6, <5>1
            <4>2. CASE startIteration <= n
                <5>1. Has(new, n)
                    BY <1>t, <2>2, <2>3, <3>0, <3>1, <4>2 DEF Has
                <5> QED
                    BY <1>t, <2>6, <5>1
            <4> QED
                BY <1>t, <2>2, <2>3, <3>1, <4>1, <4>2
        <3>2. ASSUME NEW j \in 1 .. i + 1, NEW k \in 1 .. i + 1, j < k
              PROVE  Ends(partitions'[j]) <= partitions'[k].startIndex
            <4>1. j \in 1 .. i /\ partitions'[j] = partitions[j]
                BY <1>t, <2>6, <3>2
            <4>2. CASE k \in 1 .. i
                BY <2>6, <3>2, <4>1, <4>2 DEF LoopInv, Covered
            <4>3. CASE k = i + 1
                BY <2>6, <3>0, <4>1, <4>3
            <4> QED
                BY <1>t, <4>2, <4>3
        <3>3. ASSUME NEW k \in 1 .. i + 1 PROVE Ends(partitions'[k]) <= startIteration'
            <4>1. CASE k \in 1 .. i
                <5>1. Ends(partitions[k]) \in Nat /\ Ends(partitions[k]) <= startIteration
                    BY <3>0, <4>1 DEF Ends
                <5> QED
                    BY <1>t, <2>2, <2>3, <2>6, <4>1, <5>1
            <4>2. CASE k = i + 1
                <5>1. Ends(partitions'[k]) = startIteration + size
                    BY <2>6, <3>0, <4>2 DEF Ends
                <5> QED
                    BY <1>t, <2>2, <2>3, <5>1
            <4> QED
                BY <1>t, <4>1, <4>2
        <3> QED
            BY <2>6, <3>1, <3>2, <3>3 DEF Covered
    <2> QED
        BY <2>1, <2>4, <2>5, <2>6, <2>7, <2>8, <2>9 DEF LoopInv
<1>2. CASE UNCHANGED vars
    BY <1>2 DEF vars, LoopInv, TypeOK, AsInPartitions, Covered, concurrency
<1> QED
    BY <1>1, <1>2 DEF Next

LEMMA LoopInvariant == Spec => []LoopInv
BY InitLoop, NextLoop, PTL DEF Spec

(* The invariant is the division, once the loop is done.                    *)
LEMMA LoopIsDivision == LoopInv => Divided
<1> SUFFICES ASSUME LoopInv PROVE Divided
    OBVIOUS
<1>1. Divides
    <2> SUFFICES ASSUME i = concurrency PROVE Divides
        BY DEF Divides
    <2>1. startIteration = iterationCount
        BY StartOfAll DEF LoopInv, TypeOK, concurrency
    <2> QED
        BY <2>1 DEF LoopInv, Covered, Divides, Ends
<1>2. Even
    <2>1. Len(partitions) = i /\ i \in Nat /\ DOMAIN partitions = 1 .. i
        BY DEF LoopInv, TypeOK
    <2>2. \A k \in DOMAIN partitions :
              partitions[k].cycles = Size(iterationCount, maxConcurrency, k - 1)
        BY DEF LoopInv, AsInPartitions
    <2>3. iterationCount \div maxConcurrency \in Nat
        <3>1. iterationCount \in Nat /\ maxConcurrency \in Nat \ {0}
            BY DEF LoopInv, TypeOK
        <3> QED
            BY <3>1, Division
    <2> QED
        BY <2>1, <2>2, <2>3 DEF Even, Size
<1> QED
    BY <1>1, <1>2 DEF LoopInv, Divided

(* When the loop of createPartitions is done, each iteration of the run is  *)
(* in one of the partitions and in no other, for any number of iterations   *)
(* and any concurrency.                                                     *)
THEOREM IterationsAreDivided == Spec => []Divides
<1>1. LoopInv => Divides
    BY LoopIsDivision DEF Divided
<1> QED
    BY <1>1, LoopInvariant, PTL

(* Each turn of the loop makes a partition, and their sizes differ by at    *)
(* most one.                                                                *)
THEOREM DivisionIsEven == Spec => []Even
<1>1. LoopInv => Even
    BY LoopIsDivision DEF Divided
<1> QED
    BY <1>1, LoopInvariant, PTL

(* The partition with index k has the iterations that Partitions says,      *)
(* which is what ParallelRun starts from.                                   *)
THEOREM CreatesPartitions == Spec => []AsInPartitions
<1>1. LoopInv => AsInPartitions
    BY DEF LoopInv
<1> QED
    BY <1>1, LoopInvariant, PTL

(***************************************************************************)
(* Numbers                                                                 *)
(***************************************************************************)

(* A set of numbers that has one has a least one.                           *)
LEMMA LeastNat ==
    ASSUME NEW T \in SUBSET Nat, T # {}
    PROVE  \E n \in T : \A m \in T : n <= m
<1>. DEFINE R == {pair \in Nat \X Nat : pair[1] < pair[2]}
<1>1. IsWellFoundedOn(R, Nat)
  BY NatLessThanWellFounded DEF OpToRel
<1>. HIDE DEF R
<1>2. PICK n \in T : \A m \in T : <<m, n>> \notin R
  BY <1>1, WFMin
<1>3. \A m \in T : ~(m < n)
  BY <1>2 DEF R
<1>. QED BY <1>3

LEMMA MinOfSome ==
    ASSUME NEW T \in SUBSET Nat, T # {}
    PROVE  Min(T) \in T /\ \A n \in T : Min(T) <= n
BY LeastNat DEF Min

(* A set that has a number of a range whenever it has all before it.        *)
LEMMA UpInduction ==
    ASSUME NEW N \in Nat, NEW T, \A n \in 0 .. N : (\A m \in 0 .. n - 1 : m \in T) => n \in T
    PROVE  0 .. N \subseteq T
<1>1. SUFFICES ASSUME (0 .. N) \ T # {} PROVE FALSE
  OBVIOUS
<1>0. (0 .. N) \ T \in SUBSET Nat OBVIOUS
<1>2. PICK n \in (0 .. N) \ T : \A m \in (0 .. N) \ T : n <= m
  BY <1>0, <1>1, LeastNat
<1>3. \A m \in 0 .. n - 1 : m \in 0 .. N /\ ~(n <= m) BY <1>2
<1>. QED BY <1>2, <1>3

(* The same, from the last one down.                                        *)
LEMMA DownInduction ==
    ASSUME NEW N \in Nat, NEW T, \A n \in 0 .. N : (\A m \in n + 1 .. N : m \in T) => n \in T
    PROVE  0 .. N \subseteq T
<1>. DEFINE U == {k \in 0 .. N : N - k \in T}
<1>1. ASSUME NEW n \in 0 .. N, \A m \in 0 .. n - 1 : m \in U
      PROVE  n \in U
  <2>1. ASSUME NEW m \in N - n + 1 .. N PROVE m \in T
    <3>1. N - m \in 0 .. n - 1 /\ N - (N - m) = m OBVIOUS
    <3>. QED BY <1>1, <3>1
  <2>2. N - n \in 0 .. N OBVIOUS
  <2>. QED BY <2>1, <2>2
<1>. HIDE DEF U
<1>2. 0 .. N \subseteq U BY <1>1, UpInduction
<1>3. ASSUME NEW n \in 0 .. N PROVE n \in T
  <2>1. N - n \in 0 .. N /\ N - (N - n) = n OBVIOUS
  <2>. QED BY <1>2, <2>1 DEF U
<1>. QED BY <1>3

(***************************************************************************)
(* The walk: what is in a folder follows it without a gap                  *)
(***************************************************************************)

(* A node comes after the folder it is in.                                  *)
LEMMA Walked ==
    ASSUME NEW c, IsWalked(c)
    PROVE  /\ Len(c.name) \in Nat /\ Nodes(c) = 1 .. Len(c.name)
           /\ \A n \in 1 .. Len(c.name) : Parent(c, n) \in 0 .. n - 1
<1>1. Len(c.name) \in Nat /\ DOMAIN c.name = 1 .. Len(c.name) BY LenProperties DEF IsWalked
<1>. QED BY <1>1 DEF IsWalked, Nodes

(* The first values of the function that Below applies.                     *)
BelowTo(b, c, g, k) == b = [n \in 0 .. k |-> n = g \/ (n # 0 /\ b[Parent(c, n)])]

LEMMA BelowExists ==
    ASSUME NEW c, IsWalked(c), NEW g
    PROVE  \E b : BelowTo(b, c, g, Len(c.name))
<1>. DEFINE N == Len(c.name)
            T == {k \in 0 .. N : \E b : BelowTo(b, c, g, k)}
<1>0. N \in Nat BY Walked
<1>1. ASSUME NEW n \in 0 .. N, \A m \in 0 .. n - 1 : m \in T
      PROVE  n \in T
  <2>1. CASE n = 0
    <3>. DEFINE b == [m \in 0 .. 0 |-> 0 = g]
    <3>1. b = [m \in 0 .. 0 |-> m = g \/ (m # 0 /\ b[Parent(c, m)])] OBVIOUS
    <3>. HIDE DEF b
    <3>. QED BY <2>1, <3>1 DEF BelowTo
  <2>2. CASE n # 0
    <3>1. n - 1 \in T BY <1>1, <2>2
    <3>2. PICK b : BelowTo(b, c, g, n - 1) BY <3>1
    <3>. DEFINE h == [m \in 0 .. n |-> IF m < n THEN b[m] ELSE m = g \/ b[Parent(c, m)]]
    <3>3. ASSUME NEW m \in 0 .. n
          PROVE  h[m] = (m = g \/ (m # 0 /\ h[Parent(c, m)]))
      <4>1. m # 0 => Parent(c, m) \in 0 .. m - 1 BY Walked
      <4>2. CASE m < n
        <5>1. m \in 0 .. n - 1 BY <4>2
        <5>2. b[m] = (m = g \/ (m # 0 /\ b[Parent(c, m)])) BY <3>2, <5>1 DEF BelowTo
        <5>3. m # 0 => h[Parent(c, m)] = b[Parent(c, m)] BY <4>1
        <5>. QED BY <4>2, <5>2, <5>3
      <4>3. CASE m = n
        <5>3. h[Parent(c, m)] = b[Parent(c, m)] BY <4>1, <4>3, <2>2
        <5>. QED BY <4>3, <5>3, <2>2
      <4>. QED BY <4>2, <4>3
    <3>4. h = [m \in 0 .. n |-> h[m]] OBVIOUS
    <3>. HIDE DEF h
    <3>5. h = [m \in 0 .. n |-> m = g \/ (m # 0 /\ h[Parent(c, m)])] BY <3>3, <3>4
    <3>. QED BY <3>5 DEF BelowTo
  <2>. QED BY <2>1, <2>2
<1>. HIDE DEF T
<1>2. 0 .. N \subseteq T BY <1>0, <1>1, UpInduction
<1>. QED BY <1>0, <1>2 DEF T

(* A node is in a folder if it is that folder or its own folder is in it.   *)
LEMMA BelowIs ==
    ASSUME NEW c, IsWalked(c), NEW g, NEW n \in 0 .. Len(c.name)
    PROVE  Below(c, n, g) <=> n = g \/ (n # 0 /\ Below(c, Parent(c, n), g))
<1>. DEFINE b == CHOOSE b : BelowTo(b, c, g, Len(c.name))
<1>1. BelowTo(b, c, g, Len(c.name)) BY BelowExists
<1>2. \A m : Below(c, m, g) = b[m] BY DEF Below, BelowTo
<1>. HIDE DEF b
<1>3. b[n] = (n = g \/ (n # 0 /\ b[Parent(c, n)])) BY <1>1 DEF BelowTo
<1>. QED BY <1>2, <1>3

(* A folder comes before what is in it.                                     *)
LEMMA BelowAfter ==
    ASSUME NEW c, IsWalked(c), NEW g, NEW n \in 0 .. Len(c.name), Below(c, n, g)
    PROVE  g \in 0 .. n
<1>. DEFINE N == Len(c.name)
            T == {m \in 0 .. N : Below(c, m, g) => g \in 0 .. m}
<1>0. N \in Nat BY Walked
<1>1. ASSUME NEW m \in 0 .. N, \A k \in 0 .. m - 1 : k \in T
      PROVE  m \in T
  <2>1. m # 0 => Parent(c, m) \in 0 .. m - 1 BY Walked
  <2>2. Below(c, m, g) <=> m = g \/ (m # 0 /\ Below(c, Parent(c, m), g)) BY BelowIs
  <2>3. m # 0 => Parent(c, m) \in T BY <1>1, <2>1
  <2>. QED BY <2>1, <2>2, <2>3
<1>. HIDE DEF T
<1>2. 0 .. N \subseteq T BY <1>0, <1>1, UpInduction
<1>. QED BY <1>2 DEF T

(* Everything is in the collection.                                         *)
LEMMA BelowRoot ==
    ASSUME NEW c, IsWalked(c), NEW n \in 0 .. Len(c.name)
    PROVE  Below(c, n, 0)
<1>. DEFINE N == Len(c.name)
            T == {m \in 0 .. N : Below(c, m, 0)}
<1>0. N \in Nat BY Walked
<1>1. ASSUME NEW m \in 0 .. N, \A k \in 0 .. m - 1 : k \in T
      PROVE  m \in T
  <2>1. m # 0 => Parent(c, m) \in 0 .. m - 1 BY Walked
  <2>2. Below(c, m, 0) <=> m = 0 \/ (m # 0 /\ Below(c, Parent(c, m), 0)) BY BelowIs
  <2>3. m # 0 => Parent(c, m) \in T BY <1>1, <2>1
  <2>. QED BY <2>1, <2>2, <2>3
<1>. HIDE DEF T
<1>2. 0 .. N \subseteq T BY <1>0, <1>1, UpInduction
<1>. QED BY <1>2 DEF T

(* What is in a folder that is in another one is in that one too.           *)
LEMMA BelowTrans ==
    ASSUME NEW c, IsWalked(c), NEW g, NEW m \in 0 .. Len(c.name), Below(c, m, g),
           NEW n \in 0 .. Len(c.name), Below(c, n, m)
    PROVE  Below(c, n, g)
<1>. DEFINE N == Len(c.name)
            T == {k \in 0 .. N : Below(c, k, m) => Below(c, k, g)}
<1>0. N \in Nat BY Walked
<1>1. ASSUME NEW k \in 0 .. N, \A j \in 0 .. k - 1 : j \in T
      PROVE  k \in T
  <2>1. k # 0 => Parent(c, k) \in 0 .. k - 1 BY Walked
  <2>2. Below(c, k, m) <=> k = m \/ (k # 0 /\ Below(c, Parent(c, k), m)) BY BelowIs
  <2>3. Below(c, k, g) <=> k = g \/ (k # 0 /\ Below(c, Parent(c, k), g)) BY BelowIs
  <2>4. k # 0 => Parent(c, k) \in T BY <1>1, <2>1
  <2>. QED BY <2>1, <2>2, <2>3, <2>4
<1>. HIDE DEF T
<1>2. 0 .. N \subseteq T BY <1>0, <1>1, UpInduction
<1>. QED BY <1>2 DEF T

(* What comes between a folder and a node in it is in that folder too.      *)
LEMMA Between ==
    ASSUME NEW c, IsWalked(c), NEW n \in 1 .. Len(c.name),
           NEW m \in 0 .. Len(c.name), Parent(c, n) <= m, m < n
    PROVE  Below(c, m, Parent(c, n))
<1>. DEFINE N == Len(c.name)
            p == Parent(c, n)
            T == {k \in 0 .. N : p <= k /\ k < n => Below(c, k, p)}
<1>0. N \in Nat /\ p \in 0 .. n - 1 BY Walked
<1>. HIDE DEF p
<1>1. ASSUME NEW k \in 0 .. N, \A j \in 0 .. k - 1 : j \in T
      PROVE  k \in T
  <2>. SUFFICES ASSUME p <= k, k < n PROVE Below(c, k, p) OBVIOUS
  <2>1. Below(c, k, p) <=> k = p \/ (k # 0 /\ Below(c, Parent(c, k), p)) BY BelowIs
  <2>2. CASE k = p BY <2>1, <2>2
  <2>3. CASE k # p
    <3>1. k \in 1 .. N /\ p < k BY <1>0, <2>3
    <3>2. Parent(c, k) \in 0 .. k - 1 BY <3>1, Walked
    <3>3. p <= Parent(c, k) BY <3>1, Walked DEF IsWalked, p
    <3>4. Parent(c, k) \in T BY <1>1, <3>2
    <3>5. Below(c, Parent(c, k), p) BY <1>0, <3>2, <3>3, <3>4
    <3>. QED BY <2>1, <3>1, <3>5
  <2>. QED BY <2>2, <2>3
<1>. HIDE DEF T
<1>2. 0 .. N \subseteq T BY <1>0, <1>1, UpInduction
<1>. QED BY <1>2 DEF T, p

(* The nodes in a folder follow each other in the walk.                     *)
LEMMA BelowFollows ==
    ASSUME NEW c, IsWalked(c), NEW g, NEW n \in 0 .. Len(c.name), Below(c, n, g),
           NEW m \in 0 .. Len(c.name), g <= m, m <= n
    PROVE  Below(c, m, g)
<1>. DEFINE N == Len(c.name)
            T == {k \in 0 .. N : Below(c, k, g) /\ m <= k => Below(c, m, g)}
<1>0. N \in Nat BY Walked
<1>1. ASSUME NEW k \in 0 .. N, \A j \in 0 .. k - 1 : j \in T
      PROVE  k \in T
  <2>. SUFFICES ASSUME Below(c, k, g), m <= k PROVE Below(c, m, g) OBVIOUS
  <2>1. Below(c, k, g) <=> k = g \/ (k # 0 /\ Below(c, Parent(c, k), g)) BY BelowIs
  <2>2. CASE k = m BY <2>2
  <2>3. CASE k # m
    <3>0. g \in 0 .. n BY BelowAfter
    <3>1. k \in 1 .. N /\ m < k BY <2>3
    <3>2. Parent(c, k) \in 0 .. k - 1 BY <3>1, Walked
    <3>3. k # g BY <3>0, <3>1
    <3>4. Below(c, Parent(c, k), g) BY <2>1, <3>3
    <3>5. CASE m <= Parent(c, k)
      <4>1. Parent(c, k) \in T BY <1>1, <3>2
      <4>. QED BY <3>4, <3>5, <4>1
    <3>6. CASE Parent(c, k) < m
      <4>1. Below(c, m, Parent(c, k)) BY <3>1, <3>2, <3>6, Between
      <4>2. Parent(c, k) \in 0 .. N BY <3>1, <3>2
      <4>. QED BY <3>4, <4>1, <4>2, BelowTrans
    <3>. QED BY <3>2, <3>5, <3>6
  <2>. QED BY <2>2, <2>3
<1>. HIDE DEF T
<1>2. 0 .. N \subseteq T BY <1>0, <1>1, UpInduction
<1>. QED BY <1>2 DEF T

(***************************************************************************)
(* The search for one entry point                                          *)
(***************************************************************************)

(* The nodes of the list of a folder that match.                            *)
MatchingIn(c, match, group) == {n \in Children(c, group) : Matches(c, n, match)}

(* The value at a folder of the function that FindItemOrGroup applies, by   *)
(* its values at what is in the folder; and that function from a folder on. *)
FindStep(c, match, f, group) ==
    LET own == MatchingIn(c, match, group)
        deeper == {n \in Children(c, group) : f[n] # None}
    IN  IF own # {} THEN Min(own) ELSE IF deeper # {} THEN f[Min(deeper)] ELSE None

FindFrom(f, c, match, k) == f = [group \in k .. Len(c.name) |-> FindStep(c, match, f, group)]

(* The nodes of a folder come after it.                                     *)
LEMMA ChildrenAre ==
    ASSUME NEW c, IsWalked(c), NEW g \in 0 .. Len(c.name)
    PROVE  /\ Children(c, g) \in SUBSET (g + 1 .. Len(c.name))
           /\ Children(c, g) \in SUBSET Nat
           /\ \A n \in 1 .. Len(c.name) : n \in Children(c, g) <=> Parent(c, n) = g
<1>1. /\ Len(c.name) \in Nat /\ Nodes(c) = 1 .. Len(c.name)
      /\ \A n \in 1 .. Len(c.name) : Parent(c, n) \in 0 .. n - 1
  BY Walked
<1>2. \A n \in Children(c, g) : n \in 1 .. Len(c.name) /\ Parent(c, n) = g
  BY <1>1 DEF Children
<1>3. \A n \in Children(c, g) : n \in g + 1 .. Len(c.name) BY <1>1, <1>2
<1>. QED BY <1>1, <1>3 DEF Children

(* Two functions that agree on what is in a folder.                         *)
Alike(c, g, f, h) == \A n \in Children(c, g) : f[n] = h[n]

LEMMA FindStepSame ==
    ASSUME NEW c, IsWalked(c), NEW match, NEW g \in 0 .. Len(c.name), NEW f, NEW h,
           Alike(c, g, f, h)
    PROVE  FindStep(c, match, f, g) = FindStep(c, match, h, g)
<1>. DEFINE deeper == {n \in Children(c, g) : f[n] # None}
<1>1. deeper = {n \in Children(c, g) : h[n] # None} BY DEF Alike
<1>2. deeper \in SUBSET Nat BY ChildrenAre
<1>3. deeper # {} => Min(deeper) \in deeper BY <1>2, MinOfSome
<1>4. deeper # {} => f[Min(deeper)] = h[Min(deeper)] BY <1>3 DEF Alike
<1>. QED BY <1>1, <1>4 DEF FindStep

LEMMA FindExists ==
    ASSUME NEW c, IsWalked(c), NEW match
    PROVE  \E f : FindFrom(f, c, match, 0)
<1>. DEFINE N == Len(c.name)
            T == {k \in 0 .. N : \E f : FindFrom(f, c, match, k)}
<1>0. N \in Nat BY Walked
<1>1. ASSUME NEW k \in 0 .. N, \A j \in k + 1 .. N : j \in T
      PROVE  k \in T
  <2>1. \E f : k < N => FindFrom(f, c, match, k + 1)
    <3>1. k < N => k + 1 \in T BY <1>0, <1>1
    <3>. QED BY <3>1
  <2>2. PICK f : k < N => FindFrom(f, c, match, k + 1) BY <2>1
  <2>. DEFINE h == [g \in k .. N |-> IF g > k THEN f[g] ELSE FindStep(c, match, f, k)]
  <2>3. ASSUME NEW g \in k .. N
        PROVE  h[g] = FindStep(c, match, h, g)
    <3>1. Children(c, g) \in SUBSET (g + 1 .. N) BY ChildrenAre
    <3>2. \A n \in Children(c, g) : f[n] = h[n] BY <3>1
    <3>. HIDE DEF N
    <3>3. FindStep(c, match, f, g) = FindStep(c, match, h, g)
      <4>1. g \in 0 .. Len(c.name) BY DEF N
      <4>2. Alike(c, g, f, h) BY <3>2 DEF Alike
      <4>. HIDE DEF h
      <4>. QED BY <4>1, <4>2, FindStepSame
    <3>4. CASE g = k
      <4>1. h[g] = FindStep(c, match, f, g) BY <1>0, <3>4
      <4>. HIDE DEF h
      <4>. QED BY <3>3, <4>1
    <3>5. CASE g > k
      <4>1. g \in k + 1 .. N /\ k < N BY <1>0, <3>5
      <4>2. f[g] = FindStep(c, match, f, g) BY <2>2, <4>1 DEF FindFrom, N
      <4>3. h[g] = f[g] BY <3>5
      <4>. HIDE DEF h
      <4>. QED BY <3>3, <4>2, <4>3
    <3>. QED BY <3>4, <3>5
  <2>4. h = [g \in k .. N |-> h[g]] OBVIOUS
  <2>. HIDE DEF h
  <2>5. FindFrom(h, c, match, k) BY <2>3, <2>4 DEF FindFrom
  <2>. QED BY <2>5
<1>. HIDE DEF T
<1>2. 0 .. N \subseteq T BY <1>0, <1>1, DownInduction
<1>. QED BY <1>0, <1>2 DEF T

(* What FindItemOrGroup answers is the value of that function at the        *)
(* collection.                                                              *)
LEMMA FindIs ==
    ASSUME NEW c, IsWalked(c), NEW match
    PROVE  \E f : FindFrom(f, c, match, 0) /\ FindItemOrGroup(c, match) = f[0]
<1>. DEFINE f == CHOOSE f : FindFrom(f, c, match, 0)
<1>1. FindFrom(f, c, match, 0) BY FindExists
<1>2. FindItemOrGroup(c, match) = f[0]
  BY DEF FindItemOrGroup, FindFrom, FindStep, MatchingIn
<1>. QED BY <1>1, <1>2

(* The folders in a folder that have a match in their list.                 *)
Listing(c, match, group) ==
    {g \in 0 .. Len(c.name) : Below(c, g, group) /\ MatchingIn(c, match, g) # {}}

(* The first match in the first of the folders that list one.               *)
FirstIn(c, match, group) ==
    IF Listing(c, match, group) = {} THEN None
    ELSE Min(MatchingIn(c, match, Min(Listing(c, match, group))))

(* If a folder lists no match itself, those in it that do are in the nodes  *)
(* of its list.                                                             *)
LEMMA ListingChildren ==
    ASSUME NEW c, IsWalked(c), NEW match, NEW g \in 0 .. Len(c.name), MatchingIn(c, match, g) = {}
    PROVE  \A h : h \in Listing(c, match, g) <=> \E n \in Children(c, g) : h \in Listing(c, match, n)
<1>0. Len(c.name) \in Nat BY Walked
<1>1. ASSUME NEW h \in Listing(c, match, g)
      PROVE  \E n \in Children(c, g) : h \in Listing(c, match, n)
  <2>. DEFINE T == {k \in 0 .. Len(c.name) :
                        Below(c, k, g) /\ k # g => \E n \in Children(c, g) : Below(c, k, n)}
  <2>1. ASSUME NEW k \in 0 .. Len(c.name), \A j \in 0 .. k - 1 : j \in T
        PROVE  k \in T
    <3>. SUFFICES ASSUME Below(c, k, g), k # g
                  PROVE  \E n \in Children(c, g) : Below(c, k, n)
      OBVIOUS
    <3>1. k # 0 /\ Below(c, Parent(c, k), g) BY BelowIs
    <3>2. k \in 1 .. Len(c.name) /\ Parent(c, k) \in 0 .. k - 1 BY <1>0, <3>1, Walked
    <3>3. CASE Parent(c, k) = g
      <4>1. k \in Children(c, g) BY <3>2, <3>3, ChildrenAre
      <4>2. Below(c, k, k) BY BelowIs
      <4>. QED BY <4>1, <4>2
    <3>4. CASE Parent(c, k) # g
      <4>1. Parent(c, k) \in T BY <2>1, <3>2
      <4>2. PICK n \in Children(c, g) : Below(c, Parent(c, k), n) BY <3>1, <3>4, <4>1
      <4>3. Below(c, k, n) BY <3>1, <4>2, BelowIs
      <4>. QED BY <4>3
    <3>. QED BY <3>3, <3>4
  <2>. HIDE DEF T
  <2>2. 0 .. Len(c.name) \subseteq T BY <1>0, <2>1, UpInduction
  <2>3. h \in 0 .. Len(c.name) /\ Below(c, h, g) /\ h # g BY DEF Listing
  <2>4. PICK n \in Children(c, g) : Below(c, h, n) BY <2>2, <2>3 DEF T
  <2>. QED BY <2>4 DEF Listing
<1>2. ASSUME NEW n \in Children(c, g), NEW h \in Listing(c, match, n)
      PROVE  h \in Listing(c, match, g)
  <2>1. n \in g + 1 .. Len(c.name) /\ Parent(c, n) = g BY ChildrenAre, Walked
  <2>2. n \in 0 .. Len(c.name) /\ n # 0 BY <1>0, <2>1
  <2>3. Below(c, g, g) BY BelowIs
  <2>4. Below(c, n, g) BY <2>1, <2>2, <2>3, BelowIs
  <2>5. h \in 0 .. Len(c.name) /\ Below(c, h, n) BY DEF Listing
  <2>6. Below(c, h, g) BY <2>2, <2>4, <2>5, BelowTrans
  <2>. QED BY <2>6 DEF Listing
<1>. QED BY <1>1, <1>2

(* What is in a node comes before the next node of the same folder.         *)
LEMMA SiblingsApart ==
    ASSUME NEW c, IsWalked(c), NEW g \in 0 .. Len(c.name),
           NEW m \in Children(c, g), NEW n \in Children(c, g), m < n,
           NEW h \in 0 .. Len(c.name), Below(c, h, m)
    PROVE  h < n
<1>0. Len(c.name) \in Nat BY Walked
<1>1. m \in 1 .. Len(c.name) /\ n \in 1 .. Len(c.name) /\ g < m
  BY <1>0, ChildrenAre
<1>2. Parent(c, n) = g BY <1>1, ChildrenAre
<1>3. SUFFICES ASSUME n <= h PROVE FALSE BY <1>0, <1>1
<1>4. n \in 0 .. Len(c.name) /\ m \in 0 .. Len(c.name) BY <1>0, <1>1
<1>5. m <= n BY <1>1
<1>6. Below(c, n, m) BY <1>3, <1>4, <1>5, BelowFollows
<1>7. Below(c, g, m) BY <1>1, <1>2, <1>4, <1>6, BelowIs
<1>8. m \in 0 .. g BY <1>7, BelowAfter
<1>. QED BY <1>1, <1>8

(* The search from a folder answers with it, from the last folder down: the *)
(* folders in a node all come before the next node of the same list.        *)
LEMMA FindsFirst ==
    ASSUME NEW c, IsWalked(c), NEW match, NEW f, FindFrom(f, c, match, 0)
    PROVE  \A g \in 0 .. Len(c.name) : f[g] = FirstIn(c, match, g)
<1>. DEFINE N == Len(c.name)
            T == {g \in 0 .. N : f[g] = FirstIn(c, match, g)}
<1>0. N \in Nat BY Walked
<1>1. ASSUME NEW g \in 0 .. N, \A n \in g + 1 .. N : n \in T
      PROVE  g \in T
  <2>. DEFINE own == MatchingIn(c, match, g)
              deeper == {n \in Children(c, g) : f[n] # None}
              groups == Listing(c, match, g)
  <2>1. f[g] = FindStep(c, match, f, g) BY DEF FindFrom
  <2>2. Children(c, g) \in SUBSET (g + 1 .. N) /\ Children(c, g) \in SUBSET Nat BY ChildrenAre
  <2>3. \A n \in Children(c, g) : f[n] = FirstIn(c, match, n) BY <1>1, <2>2
  <2>4. groups \in SUBSET Nat /\ own \in SUBSET Nat BY <2>2 DEF Listing, MatchingIn
  <2>5. \A h \in groups : g <= h
    <3>1. \A h \in groups : h \in 0 .. N /\ Below(c, h, g) BY DEF Listing
    <3>2. \A h \in groups : g \in 0 .. h BY <3>1, BelowAfter
    <3>. QED BY <3>2, <2>4
  <2>6. \A n \in Children(c, g) : f[n] = None <=> Listing(c, match, n) = {}
    <3>. SUFFICES ASSUME NEW n \in Children(c, g), Listing(c, match, n) # {}
                  PROVE  FirstIn(c, match, n) # None
      BY <2>3 DEF FirstIn
    <3>1. Listing(c, match, n) \in SUBSET Nat BY DEF Listing
    <3>2. Min(Listing(c, match, n)) \in Listing(c, match, n) BY <3>1, MinOfSome
    <3>3. PICK h \in 0 .. N : h = Min(Listing(c, match, n)) /\ MatchingIn(c, match, h) # {}
      BY <3>2 DEF Listing
    <3>4. MatchingIn(c, match, h) \in SUBSET Nat BY ChildrenAre DEF MatchingIn
    <3>5. Min(MatchingIn(c, match, h)) \in Nat BY <3>3, <3>4, MinOfSome
    <3>. QED BY <3>3, <3>5 DEF FirstIn, None
  <2>7. CASE own # {}
    <3>1. Below(c, g, g) BY BelowIs
    <3>2. g \in groups BY <2>7, <3>1 DEF Listing
    <3>3. Min(groups) = g
      <4>1. Min(groups) \in groups /\ \A h \in groups : Min(groups) <= h BY <2>4, <3>2, MinOfSome
      <4>. QED BY <2>4, <2>5, <3>2, <4>1
    <3>. QED BY <2>1, <2>7, <3>2, <3>3 DEF FindStep, FirstIn
  <2>8. CASE own = {} /\ deeper = {}
    <3>1. groups = {} BY <2>6, <2>8, ListingChildren
    <3>. QED BY <2>1, <2>8, <3>1 DEF FindStep, FirstIn
  <2>9. CASE own = {} /\ deeper # {}
    <3>. DEFINE n == Min(deeper)
    <3>1. deeper \in SUBSET Nat BY <2>2
    <3>2. n \in deeper /\ \A m \in deeper : n <= m BY <2>9, <3>1, MinOfSome
    <3>3. f[g] = FirstIn(c, match, n) BY <2>1, <2>3, <2>9, <3>2 DEF FindStep
    <3>. HIDE DEF n
    <3>4. Listing(c, match, n) # {} /\ Listing(c, match, n) \in SUBSET Nat
      BY <2>6, <3>2 DEF Listing
    <3>. DEFINE first == Min(Listing(c, match, n))
    <3>5. first \in Listing(c, match, n) /\ \A h \in Listing(c, match, n) : first <= h
      BY <3>4, MinOfSome
    <3>. HIDE DEF first
    <3>6. first \in groups BY <2>9, <3>2, <3>5, ListingChildren
    <3>7. ASSUME NEW h \in groups PROVE first <= h
      <4>1. PICK m \in Children(c, g) : h \in Listing(c, match, m) BY <2>9, ListingChildren
      <4>2. m \in deeper BY <2>6, <4>1
      <4>3. CASE m = n BY <3>5, <4>1, <4>3
      <4>4. CASE m # n
        <5>1. n < m BY <2>2, <3>2, <4>2, <4>4
        <5>2. first \in 0 .. N /\ Below(c, first, n) BY <3>5 DEF Listing
        <5>3. first < m BY <3>2, <5>1, <5>2, SiblingsApart
        <5>4. h \in 0 .. N /\ Below(c, h, m) BY <4>1 DEF Listing
        <5>5. m \in 0 .. h BY <5>4, BelowAfter
        <5>. QED BY <5>2, <5>3, <5>4, <5>5
      <4>. QED BY <4>3, <4>4
    <3>8. Min(groups) = first
      <4>1. Min(groups) \in groups /\ \A h \in groups : Min(groups) <= h BY <2>4, <3>6, MinOfSome
      <4>. QED BY <2>4, <3>6, <3>7, <4>1
    <3>. QED BY <3>3, <3>4, <3>6, <3>8 DEF FirstIn, first
  <2>. QED BY <2>7, <2>8, <2>9
<1>. HIDE DEF T
<1>2. 0 .. N \subseteq T BY <1>0, <1>1, DownInduction
<1>. QED BY <1>2 DEF T

(***************************************************************************)
(* The nodes that several entry points mean                                *)
(***************************************************************************)

(* No name of a node is an id, or one that every object answers to.         *)
Unambiguous(c) ==
    \A n \in Nodes(c) : c.name[n] \notin Inherited \union {Ids[m] : m \in Nodes(c)}

(* A node that an entry point means: by its id, or by its name if no node   *)
(* before it has the name and is not meant by its id.                       *)
IsHit(c, X, n) ==
    \/ Ids[n] \in X
    \/ /\ c.name[n] \in X
       /\ \A m \in 1 .. n - 1 : c.name[m] = c.name[n] => Ids[m] \in X

(* What finds the node.                                                     *)
KeyOf(c, X, n) == IF Ids[n] \in X THEN Ids[n] ELSE c.name[n]

(* The nodes that are meant; those of them that run, not being in the list  *)
(* of another; and what finds them.                                         *)
Hits(c, X, k) == {n \in 1 .. k : IsHit(c, X, n)}

Outer(c, X, k) == {n \in Hits(c, X, k) : Parent(c, n) \notin Hits(c, X, k)}

Keyed(c, X, S) == {KeyOf(c, X, n) : n \in S}

(* What the search has found after k nodes.                                 *)
FoundBy(c, X, k, found) ==
    /\ found \in [lookup : SUBSET X, matched : SUBSET Nat, members : Seq(Nat),
                  reference : {found.reference}]
    /\ found.lookup = X \ Keyed(c, X, Hits(c, X, k))
    /\ found.matched = Hits(c, X, k)
    /\ ToSet(found.members) = Outer(c, X, k) /\ IsInjective(found.members)
    /\ DOMAIN found.reference = Keyed(c, X, Outer(c, X, k))
    /\ \A n \in Outer(c, X, k) : found.reference[KeyOf(c, X, n)] = n

(* An id is the key of its node only.                                       *)
LEMMA IdsDiffer ==
    ASSUME NEW c, IsWalked(c), Unambiguous(c), NEW X,
           NEW m \in 1 .. Len(c.name), NEW n \in 1 .. Len(c.name)
    PROVE  /\ Ids[m] = Ids[n] => m = n
           /\ c.name[m] # Ids[n] /\ c.name[m] \notin Inherited
           /\ KeyOf(c, X, m) = Ids[n] => m = n
<1>1. m \in Nodes(c) /\ n \in Nodes(c) BY Walked
<1>2. m \in DOMAIN Ids /\ n \in DOMAIN Ids BY <1>1 DEF IsWalked, Nodes
<1>3. c.name[m] # Ids[n] /\ c.name[m] \notin Inherited BY <1>1 DEF Unambiguous
<1>4. Ids[m] = Ids[n] => m = n BY <1>2, IdsAssumption
<1>. QED BY <1>3, <1>4 DEF KeyOf

(* What is looked up at a node: its key, if it is meant.                    *)
LEMMA LookedUp ==
    ASSUME NEW c, IsWalked(c), Unambiguous(c), NEW X, Missing \notin X, NEW n \in 1 .. Len(c.name)
    PROVE  LET lookup == X \ Keyed(c, X, Hits(c, X, n - 1))
           IN  /\ IsHit(c, X, n) => /\ KeyOf(c, X, n) \in lookup
                                    /\ Looked(c, n, lookup) = KeyOf(c, X, n)
               /\ ~IsHit(c, X, n) => Looked(c, n, lookup) = Missing
<1>. DEFINE lookup == X \ Keyed(c, X, Hits(c, X, n - 1))
<1>0. Len(c.name) \in Nat BY Walked
<1>1. \A m \in Hits(c, X, n - 1) : m \in 1 .. Len(c.name) /\ m < n /\ IsHit(c, X, m)
  BY <1>0 DEF Hits
<1>2. Ids[n] \notin Keyed(c, X, Hits(c, X, n - 1))
  BY <1>1, IdsDiffer DEF Keyed
<1>3. Ids[n] \in X => Ids[n] \in lookup BY <1>2
<1>4. ASSUME Ids[n] \notin X, IsHit(c, X, n)
      PROVE  c.name[n] \in lookup
  <2>1. c.name[n] \in X BY <1>4 DEF IsHit
  <2>2. ASSUME NEW m \in Hits(c, X, n - 1) PROVE KeyOf(c, X, m) # c.name[n]
    <3>1. m \in 1 .. n - 1 /\ m \in 1 .. Len(c.name) BY <1>1
    <3>2. c.name[n] # Ids[m] BY <3>1, IdsDiffer
    <3>3. CASE Ids[m] \in X BY <3>2, <3>3 DEF KeyOf
    <3>4. CASE Ids[m] \notin X
      <4>1. c.name[m] # c.name[n] BY <1>4, <3>1, <3>4 DEF IsHit
      <4>. QED BY <3>4, <4>1 DEF KeyOf
    <3>. QED BY <3>3, <3>4
  <2>. QED BY <2>1, <2>2 DEF Keyed
<1>5. ASSUME Ids[n] \notin X, c.name[n] \in lookup
      PROVE  IsHit(c, X, n)
  <2>. DEFINE S == {m \in 1 .. n - 1 : c.name[m] = c.name[n] /\ Ids[m] \notin X}
  <2>1. SUFFICES ASSUME S # {} PROVE FALSE BY <1>5 DEF IsHit
  <2>2. S \in SUBSET Nat OBVIOUS
  <2>3. PICK m \in S : \A k \in S : m <= k BY <2>1, <2>2, LeastNat
  <2>4. \A k \in 1 .. m - 1 : c.name[k] = c.name[m] => Ids[k] \in X
    <3>1. SUFFICES ASSUME NEW k \in 1 .. m - 1, c.name[k] = c.name[m], Ids[k] \notin X PROVE FALSE
      OBVIOUS
    <3>2. k \in S BY <2>3, <3>1
    <3>. QED BY <2>3, <3>1, <3>2
  <2>5. IsHit(c, X, m) BY <1>5, <2>3, <2>4 DEF IsHit
  <2>6. m \in Hits(c, X, n - 1) /\ KeyOf(c, X, m) = c.name[n] BY <2>3, <2>5 DEF Hits, KeyOf
  <2>. QED BY <1>5, <2>6 DEF Keyed
<1>6. c.name[n] \notin Inherited BY IdsDiffer
<1>. HIDE DEF lookup
<1>7. lookup \subseteq X BY DEF lookup
<1>8. IsHit(c, X, n) => KeyOf(c, X, n) \in lookup /\ Looked(c, n, lookup) = KeyOf(c, X, n)
  BY <1>3, <1>4, <1>7 DEF KeyOf, Looked
<1>9. ~IsHit(c, X, n) => Looked(c, n, lookup) = Missing
  BY <1>5, <1>6, <1>7 DEF IsHit, Looked
<1>. QED BY <1>8, <1>9 DEF lookup

(***************************************************************************)
(* The search for several entry points                                     *)
(***************************************************************************)

(* The value after a node of the function that FindItemsOrGroups applies,   *)
(* by the value after the node before; and that function up to a node.      *)
FoundStep(c, entrypoints, f, n) ==
    IF n = 0 THEN NothingFound(entrypoints) ELSE Visit(c, f[n - 1], n)

FoundTo(f, c, entrypoints, k) == f = [n \in 0 .. k |-> FoundStep(c, entrypoints, f, n)]

LEMMA FoundExists ==
    ASSUME NEW c, NEW entrypoints, NEW N \in Nat
    PROVE  \E f : FoundTo(f, c, entrypoints, N)
<1>. DEFINE T == {k \in 0 .. N : \E f : FoundTo(f, c, entrypoints, k)}
<1>1. ASSUME NEW n \in 0 .. N, \A m \in 0 .. n - 1 : m \in T
      PROVE  n \in T
  <2>1. \E f : n # 0 => FoundTo(f, c, entrypoints, n - 1)
    <3>1. n # 0 => n - 1 \in T BY <1>1
    <3>. QED BY <3>1
  <2>2. PICK f : n # 0 => FoundTo(f, c, entrypoints, n - 1) BY <2>1
  <2>. DEFINE h == [m \in 0 .. n |-> IF m < n THEN f[m] ELSE FoundStep(c, entrypoints, f, n)]
  <2>3. ASSUME NEW m \in 0 .. n
        PROVE  h[m] = FoundStep(c, entrypoints, h, m)
    <3>1. m # 0 => h[m - 1] = f[m - 1] OBVIOUS
    <3>2. FoundStep(c, entrypoints, f, m) = FoundStep(c, entrypoints, h, m)
      <4>. HIDE DEF h
      <4>. QED BY <3>1 DEF FoundStep
    <3>3. CASE m = n
      <4>1. h[m] = FoundStep(c, entrypoints, f, m) BY <3>3
      <4>. HIDE DEF h
      <4>. QED BY <3>2, <4>1
    <3>4. CASE m < n
      <4>1. m \in 0 .. n - 1 /\ n # 0 BY <3>4
      <4>2. f[m] = FoundStep(c, entrypoints, f, m) BY <2>2, <4>1 DEF FoundTo
      <4>3. h[m] = f[m] BY <3>4
      <4>. HIDE DEF h
      <4>. QED BY <3>2, <4>2, <4>3
    <3>. QED BY <3>3, <3>4
  <2>4. h = [m \in 0 .. n |-> h[m]] OBVIOUS
  <2>. HIDE DEF h
  <2>5. FoundTo(h, c, entrypoints, n) BY <2>3, <2>4 DEF FoundTo
  <2>. QED BY <2>5
<1>. HIDE DEF T
<1>2. 0 .. N \subseteq T BY <1>1, UpInduction
<1>. QED BY <1>2 DEF T

(* What FindItemsOrGroups answers is its value after the last node.         *)
LEMMA FoundIs ==
    ASSUME NEW c, NEW entrypoints, Len(c.name) \in Nat
    PROVE  \E f : /\ FoundTo(f, c, entrypoints, Len(c.name))
                  /\ FindItemsOrGroups(c, entrypoints) = f[Len(c.name)]
<1>. DEFINE f == CHOOSE f : FoundTo(f, c, entrypoints, Len(c.name))
<1>1. FoundTo(f, c, entrypoints, Len(c.name)) BY FoundExists
<1>2. FindItemsOrGroups(c, entrypoints) = f[Len(c.name)]
  BY DEF FindItemsOrGroups, FoundTo, FoundStep
<1>. QED BY <1>1, <1>2

(* The hits after one node more.                                            *)
LEMMA HitsNext ==
    ASSUME NEW c, IsWalked(c), NEW X, NEW n \in 1 .. Len(c.name)
    PROVE  /\ Hits(c, X, n) = Hits(c, X, n - 1) \union (IF IsHit(c, X, n) THEN {n} ELSE {})
           /\ Outer(c, X, n) = Outer(c, X, n - 1) \union
                (IF IsHit(c, X, n) /\ Parent(c, n) \notin Hits(c, X, n - 1) THEN {n} ELSE {})
<1>0. Len(c.name) \in Nat BY Walked
<1>1. Hits(c, X, n) = Hits(c, X, n - 1) \union (IF IsHit(c, X, n) THEN {n} ELSE {})
  BY <1>0 DEF Hits
<1>2. ASSUME NEW m \in 1 .. n
      PROVE  Parent(c, m) \in Hits(c, X, n) <=> Parent(c, m) \in Hits(c, X, n - 1)
  <2>1. Parent(c, m) \in 0 .. m - 1 BY <1>0, Walked
  <2>. QED BY <1>1, <2>1
<1>3. Hits(c, X, n - 1) \subseteq 1 .. n - 1 /\ Hits(c, X, n) \subseteq 1 .. n BY DEF Hits
<1>4. \A m : m \in Outer(c, X, n) <=>
             \/ m \in Outer(c, X, n - 1)
             \/ m = n /\ IsHit(c, X, n) /\ Parent(c, n) \notin Hits(c, X, n - 1)
  <2>1. ASSUME NEW m \in 1 .. n - 1
        PROVE  m \in Outer(c, X, n) <=> m \in Outer(c, X, n - 1)
    BY <1>1, <1>2 DEF Outer
  <2>2. n \in Outer(c, X, n) <=> IsHit(c, X, n) /\ Parent(c, n) \notin Hits(c, X, n - 1)
    BY <1>1, <1>2, <1>3 DEF Outer
  <2>3. n \notin Outer(c, X, n - 1) BY <1>3 DEF Outer
  <2>4. \A m : m \in Outer(c, X, n) \/ m \in Outer(c, X, n - 1) => m \in 1 .. n - 1 \/ m = n
    BY <1>3 DEF Outer
  <2>. QED BY <2>1, <2>2, <2>3, <2>4
<1>. QED BY <1>1, <1>4

LEMMA AppendSet ==
    ASSUME NEW s \in Seq(Nat), NEW n \in Nat
    PROVE  /\ Append(s, n) \in Seq(Nat) /\ ToSet(Append(s, n)) = ToSet(s) \union {n}
           /\ IsInjective(s) /\ n \notin ToSet(s) => IsInjective(Append(s, n))
<1>. DEFINE t == Append(s, n)
<1>1. /\ t \in Seq(Nat) /\ Len(s) \in Nat /\ DOMAIN s = 1 .. Len(s) /\ Len(t) = Len(s) + 1
      /\ t[Len(s) + 1] = n /\ \A k \in 1 .. Len(s) : t[k] = s[k]
  BY AppendProperties, LenProperties
<1>2. DOMAIN t = 1 .. Len(s) + 1 BY <1>1, LenProperties
<1>. HIDE DEF t
<1>3. ToSet(t) = ToSet(s) \union {n}
  <2>1. \A e \in ToSet(t) : e \in ToSet(s) \union {n}
    <3>1. SUFFICES ASSUME NEW k \in DOMAIN t PROVE t[k] \in ToSet(s) \union {n} BY DEF ToSet
    <3>2. k \in DOMAIN s \/ k = Len(s) + 1 BY <1>1, <1>2, <3>1
    <3>. QED BY <1>1, <3>2 DEF ToSet
  <2>2. \A e \in ToSet(s) \union {n} : e \in ToSet(t)
    <3>1. n \in ToSet(t)
      <4>1. Len(s) + 1 \in DOMAIN t BY <1>1, <1>2
      <4>. QED BY <1>1, <4>1 DEF ToSet
    <3>2. \A k \in DOMAIN s : s[k] \in ToSet(t)
      <4>1. \A k \in DOMAIN s : k \in DOMAIN t /\ t[k] = s[k] BY <1>1, <1>2
      <4>. QED BY <4>1 DEF ToSet
    <3>. QED BY <3>1, <3>2 DEF ToSet
  <2>. QED BY <2>1, <2>2
<1>4. ASSUME IsInjective(s), n \notin ToSet(s), NEW j \in DOMAIN t, NEW k \in DOMAIN t, t[j] = t[k]
      PROVE  j = k
  <2>1. \A m \in DOMAIN s : s[m] # n /\ t[m] = s[m] BY <1>1, <1>4 DEF ToSet
  <2>2. (j \in DOMAIN s \/ j = Len(s) + 1) /\ (k \in DOMAIN s \/ k = Len(s) + 1)
    BY <1>1, <1>2, <1>4
  <2>. QED BY <1>1, <1>4, <2>1, <2>2 DEF IsInjective
<1>. QED BY <1>1, <1>3, <1>4 DEF t, IsInjective

(* A turn of the loop finds what is to be found at its node.                *)
LEMMA VisitFinds ==
    ASSUME NEW c, IsWalked(c), Unambiguous(c), NEW X, Missing \notin X,
           NEW n \in 1 .. Len(c.name), NEW found, FoundBy(c, X, n - 1, found)
    PROVE  FoundBy(c, X, n, Visit(c, found, n))
<1>. DEFINE match == Looked(c, n, found.lookup)
            deleted == [found EXCEPT !.lookup = @ \ {match}, !.matched = @ \union {n}]
            next == Visit(c, found, n)
            key == KeyOf(c, X, n)
<1>0. Len(c.name) \in Nat /\ n \in Nat /\ Parent(c, n) \in 0 .. n - 1 BY Walked
<1>1. found.lookup = X \ Keyed(c, X, Hits(c, X, n - 1)) /\ found.matched = Hits(c, X, n - 1)
  BY DEF FoundBy
<1>2. /\ IsHit(c, X, n) => key \in found.lookup /\ match = key
      /\ ~IsHit(c, X, n) => match = Missing
  <2>. HIDE DEF match
  <2>1. match = Looked(c, n, X \ Keyed(c, X, Hits(c, X, n - 1))) BY <1>1 DEF match
  <2>. QED BY <1>1, <2>1, LookedUp
<1>3. /\ Hits(c, X, n) = Hits(c, X, n - 1) \union (IF IsHit(c, X, n) THEN {n} ELSE {})
      /\ Outer(c, X, n) = Outer(c, X, n - 1) \union
                (IF IsHit(c, X, n) /\ Parent(c, n) \notin Hits(c, X, n - 1) THEN {n} ELSE {})
  BY HitsNext
<1>4. CASE ~IsHit(c, X, n)
  <2>1. next = found BY <1>2, <1>4 DEF Visit
  <2>2. Hits(c, X, n) = Hits(c, X, n - 1) /\ Outer(c, X, n) = Outer(c, X, n - 1) BY <1>3, <1>4
  <2>. HIDE DEF next
  <2>. QED BY <2>1, <2>2 DEF FoundBy, next
<1>5. CASE IsHit(c, X, n)
  <2>1. found.lookup # {} /\ match # Missing /\ key \in X /\ match = key
    BY <1>1, <1>2, <1>5
  <2>2. next = IF Parent(c, n) \in found.matched THEN deleted
               ELSE [deleted EXCEPT !.members = Append(@, n), !.reference = Assigned(@, match, n)]
    BY <2>1 DEF Visit
  <2>3. Keyed(c, X, Hits(c, X, n)) = Keyed(c, X, Hits(c, X, n - 1)) \union {key}
    BY <1>3, <1>5 DEF Keyed
  <2>4. /\ deleted \in [lookup : SUBSET X, matched : SUBSET Nat, members : Seq(Nat),
                        reference : {found.reference}]
        /\ deleted.lookup = X \ Keyed(c, X, Hits(c, X, n))
        /\ deleted.matched = Hits(c, X, n)
        /\ deleted.members = found.members /\ deleted.reference = found.reference
        /\ IsInjective(deleted.members)
    <3>1. /\ deleted \in [lookup : SUBSET X, matched : SUBSET Nat, members : Seq(Nat),
                        reference : {found.reference}]
          /\ deleted.lookup = found.lookup \ {match} /\ deleted.matched = found.matched \union {n}
          /\ deleted.members = found.members /\ deleted.reference = found.reference
      BY <1>0 DEF FoundBy
    <3>. HIDE DEF deleted
    <3>2. IsInjective(found.members) BY DEF FoundBy
    <3>. QED BY <3>1, <3>2, <2>1, <2>3, <1>1, <1>3, <1>5
  <2>. HIDE DEF deleted
  <2>5. CASE Parent(c, n) \in Hits(c, X, n - 1)
    <3>1. next = deleted BY <1>1, <2>2, <2>5
    <3>2. Outer(c, X, n) = Outer(c, X, n - 1) BY <1>3, <2>5
    <3>3. FoundBy(c, X, n, deleted)
      BY <2>4, <3>2 DEF FoundBy
    <3>. QED BY <3>1, <3>3
  <2>6. CASE Parent(c, n) \notin Hits(c, X, n - 1)
    <3>. DEFINE r == Assigned(found.reference, match, n)
    <3>1. next = [deleted EXCEPT !.members = Append(@, n), !.reference = Assigned(@, match, n)]
      BY <1>1, <2>2, <2>6
    <3>2. /\ next.members = Append(found.members, n) /\ next.reference = r
          /\ next.lookup = deleted.lookup /\ next.matched = deleted.matched
          /\ next = [lookup |-> next.lookup, matched |-> next.matched,
                     members |-> next.members, reference |-> next.reference]
      <4>. HIDE DEF next
      <4>. QED BY <2>4, <3>1
    <3>3. Outer(c, X, n) = Outer(c, X, n - 1) \union {n} BY <1>3, <1>5, <2>6
    <3>4. DOMAIN r = {key} \union DOMAIN found.reference /\ r[key] = n
      BY <2>1 DEF Assigned
    <3>5. \A m \in Outer(c, X, n - 1) : KeyOf(c, X, m) # key
      <4>1. Outer(c, X, n - 1) \subseteq Hits(c, X, n - 1) BY DEF Outer
      <4>. QED BY <1>1, <1>2, <1>5, <4>1 DEF Keyed
    <3>6. ASSUME NEW m \in Outer(c, X, n - 1)
          PROVE  r[KeyOf(c, X, m)] = m
      <4>1. KeyOf(c, X, m) \in DOMAIN found.reference /\ found.reference[KeyOf(c, X, m)] = m
        BY DEF FoundBy, Keyed
      <4>. QED BY <2>1, <3>5, <4>1 DEF Assigned
    <3>. HIDE DEF r, next
    <3>7. Append(found.members, n) \in Seq(Nat)
          /\ ToSet(Append(found.members, n)) = ToSet(found.members) \union {n}
          /\ IsInjective(Append(found.members, n))
      <4>1. n \notin Outer(c, X, n - 1) BY <1>0 DEF Outer, Hits
      <4>2. /\ found.members \in Seq(Nat) /\ IsInjective(found.members)
            /\ n \notin ToSet(found.members)
        BY <4>1 DEF FoundBy
      <4>. QED BY <1>0, <4>2, AppendSet
    <3>8. ToSet(next.members) = Outer(c, X, n) BY <3>2, <3>3, <3>7 DEF FoundBy
    <3>9. DOMAIN next.reference = Keyed(c, X, Outer(c, X, n))
      BY <3>2, <3>3, <3>4 DEF FoundBy, Keyed
    <3>10. \A m \in Outer(c, X, n) : next.reference[KeyOf(c, X, m)] = m
      BY <3>2, <3>3, <3>4, <3>6
    <3>11. next \in [lookup : SUBSET X, matched : SUBSET Nat, members : Seq(Nat),
                     reference : {next.reference}]
      BY <2>4, <3>2, <3>7
    <3>12. IsInjective(next.members) BY <3>2, <3>7
    <3>13. FoundBy(c, X, n, next)
      BY <2>4, <3>2, <3>8, <3>9, <3>10, <3>11, <3>12 DEF FoundBy
    <3>. QED BY <3>13 DEF next
  <2>. QED BY <2>5, <2>6
<1>. QED BY <1>4, <1>5

(***************************************************************************)
(* The items of a node                                                     *)
(***************************************************************************)

(* The first values of the function that FlattenSeq applies.                *)
FlatTo(f, s, k) == f = [n \in 1 .. k |-> IF n = 1 THEN s[n] ELSE f[n - 1] \o s[n]]

LEMMA FlatExists ==
    ASSUME NEW s, NEW N \in Nat
    PROVE  \E f : FlatTo(f, s, N)
<1>. DEFINE T == {k \in 0 .. N : \E f : FlatTo(f, s, k)}
<1>1. ASSUME NEW n \in 0 .. N, \A m \in 0 .. n - 1 : m \in T
      PROVE  n \in T
  <2>1. \E f : n # 0 => FlatTo(f, s, n - 1)
    <3>1. n # 0 => n - 1 \in T BY <1>1
    <3>. QED BY <3>1
  <2>2. PICK f : n # 0 => FlatTo(f, s, n - 1) BY <2>1
  <2>. DEFINE h == [m \in 1 .. n |-> IF m < n THEN f[m] ELSE IF m = 1 THEN s[m] ELSE f[m - 1] \o s[m]]
  <2>3. ASSUME NEW m \in 1 .. n
        PROVE  h[m] = IF m = 1 THEN s[m] ELSE h[m - 1] \o s[m]
    <3>1. m # 1 => h[m - 1] = f[m - 1] OBVIOUS
    <3>2. h[m] = IF m < n THEN f[m] ELSE IF m = 1 THEN s[m] ELSE f[m - 1] \o s[m] OBVIOUS
    <3>. HIDE DEF h
    <3>3. CASE m = n BY <3>1, <3>2, <3>3
    <3>4. CASE m < n
      <4>1. m \in 1 .. n - 1 /\ n # 0 BY <3>4
      <4>2. f[m] = IF m = 1 THEN s[m] ELSE f[m - 1] \o s[m] BY <2>2, <4>1 DEF FlatTo
      <4>. QED BY <3>1, <3>2, <3>4, <4>2
    <3>. QED BY <3>3, <3>4
  <2>4. h = [m \in 1 .. n |-> h[m]] OBVIOUS
  <2>. HIDE DEF h
  <2>5. FlatTo(h, s, n) BY <2>3, <2>4 DEF FlatTo
  <2>. QED BY <2>5
<1>. HIDE DEF T
<1>2. 0 .. N \subseteq T BY <1>1, UpInduction
<1>. QED BY <1>2 DEF T

LEMMA ConcatSet ==
    ASSUME NEW s \in Seq(Nat), NEW t \in Seq(Nat)
    PROVE  s \o t \in Seq(Nat) /\ ToSet(s \o t) = ToSet(s) \union ToSet(t)
<1>. DEFINE u == s \o t
<1>1. /\ u \in Seq(Nat) /\ Len(s) \in Nat /\ Len(t) \in Nat /\ Len(u) = Len(s) + Len(t)
      /\ DOMAIN s = 1 .. Len(s) /\ DOMAIN t = 1 .. Len(t)
      /\ \A k \in 1 .. Len(s) + Len(t) : u[k] = IF k <= Len(s) THEN s[k] ELSE t[k - Len(s)]
  BY ConcatProperties, LenProperties
<1>2. DOMAIN u = 1 .. Len(s) + Len(t) BY <1>1, LenProperties
<1>. HIDE DEF u
<1>3. ASSUME NEW k \in DOMAIN u PROVE u[k] \in ToSet(s) \union ToSet(t)
  <2>1. CASE k <= Len(s)
    <3>1. k \in DOMAIN s /\ u[k] = s[k] BY <1>1, <1>2, <2>1
    <3>. QED BY <3>1 DEF ToSet
  <2>2. CASE k > Len(s)
    <3>1. k - Len(s) \in DOMAIN t /\ u[k] = t[k - Len(s)] BY <1>1, <1>2, <2>2
    <3>. QED BY <3>1 DEF ToSet
  <2>. QED BY <1>1, <1>2, <2>1, <2>2
<1>4. ASSUME NEW k \in DOMAIN s PROVE s[k] \in ToSet(u)
  <2>1. k \in DOMAIN u /\ u[k] = s[k] BY <1>1, <1>2
  <2>. QED BY <2>1 DEF ToSet
<1>5. ASSUME NEW k \in DOMAIN t PROVE t[k] \in ToSet(u)
  <2>1. k \in 1 .. Len(t) BY <1>1
  <2>2. /\ k + Len(s) \in 1 .. Len(s) + Len(t) /\ ~(k + Len(s) <= Len(s))
        /\ (k + Len(s)) - Len(s) = k
    BY <1>1, <2>1
  <2>3. k + Len(s) \in DOMAIN u /\ u[k + Len(s)] = t[k] BY <1>1, <1>2, <2>2
  <2>. QED BY <2>3 DEF ToSet
<1>6. ToSet(u) = ToSet(s) \union ToSet(t)
  BY <1>3, <1>4, <1>5 DEF ToSet
<1>. QED BY <1>1, <1>6 DEF u

LEMMA ConcatOnce ==
    ASSUME NEW s \in Seq(Nat), NEW t \in Seq(Nat), IsInjective(s), IsInjective(t),
           ToSet(s) \intersect ToSet(t) = {}
    PROVE  IsInjective(s \o t)
<1>. DEFINE u == s \o t
<1>1. /\ Len(s) \in Nat /\ Len(t) \in Nat
      /\ DOMAIN s = 1 .. Len(s) /\ DOMAIN t = 1 .. Len(t) /\ DOMAIN u = 1 .. Len(s) + Len(t)
      /\ \A k \in 1 .. Len(s) + Len(t) : u[k] = IF k <= Len(s) THEN s[k] ELSE t[k - Len(s)]
  BY ConcatProperties, LenProperties
<1>. HIDE DEF u
<1>2. ASSUME NEW j \in DOMAIN u, NEW k \in DOMAIN u, u[j] = u[k] PROVE j = k
  <2>1. \A m \in DOMAIN u : \/ m \in DOMAIN s /\ u[m] = s[m] /\ u[m] \in ToSet(s)
                            \/ m - Len(s) \in DOMAIN t /\ u[m] = t[m - Len(s)] /\ u[m] \in ToSet(t)
    <3>1. SUFFICES ASSUME NEW m \in DOMAIN u
                   PROVE  \/ m \in DOMAIN s /\ u[m] = s[m] /\ u[m] \in ToSet(s)
                          \/ m - Len(s) \in DOMAIN t /\ u[m] = t[m - Len(s)] /\ u[m] \in ToSet(t)
      OBVIOUS
    <3>2. CASE m <= Len(s)
      <4>1. m \in DOMAIN s /\ u[m] = s[m] BY <1>1, <3>2
      <4>. QED BY <4>1 DEF ToSet
    <3>3. CASE ~(m <= Len(s))
      <4>1. m - Len(s) \in DOMAIN t /\ u[m] = t[m - Len(s)] BY <1>1, <3>3
      <4>. QED BY <4>1 DEF ToSet
    <3>. QED BY <3>2, <3>3
  <2>2. CASE j \in DOMAIN s /\ k \in DOMAIN s /\ u[j] = s[j] /\ u[k] = s[k]
    BY <1>2, <2>2 DEF IsInjective
  <2>3. CASE /\ j - Len(s) \in DOMAIN t /\ k - Len(s) \in DOMAIN t
             /\ u[j] = t[j - Len(s)] /\ u[k] = t[k - Len(s)]
    <3>1. j - Len(s) = k - Len(s) BY <1>2, <2>3 DEF IsInjective
    <3>. QED BY <1>1, <3>1
  <2>. QED BY <1>2, <2>1, <2>2, <2>3
<1>. QED BY <1>2 DEF IsInjective, u

(* A set has what the sequences have.                                       *)
Elements(s, N, S) == \A e : e \in S <=> \E k \in 1 .. N : e \in ToSet(s[k])

(* The sequences repeat no element, nor one another's.                      *)
Apart(s, N) ==
    \A k \in 1 .. N : /\ IsInjective(s[k])
                      /\ \A j \in 1 .. N : j # k => ToSet(s[j]) \intersect ToSet(s[k]) = {}

(* The elements of sequences put together are those of each, and none is    *)
(* there twice if the sequences are apart.                                  *)
LEMMA FlattenHolds ==
    ASSUME NEW N \in Nat, NEW s \in [1 .. N -> Seq(Nat)]
    PROVE  /\ FlattenSeq(s) \in Seq(Nat) /\ Elements(s, N, ToSet(FlattenSeq(s)))
           /\ Apart(s, N) => IsInjective(FlattenSeq(s))
<1>. DEFINE f == CHOOSE f : FlatTo(f, s, Len(s))
<1>1. Len(s) = N BY LenProperties
<1>2. FlatTo(f, s, N) BY <1>1, FlatExists
<1>3. FlattenSeq(s) = IF Len(s) = 0 THEN s ELSE f[Len(s)] BY DEF FlattenSeq, FlatTo
<1>. HIDE DEF f
<1>4. CASE N = 0
  <2>1. FlattenSeq(s) = s BY <1>1, <1>3, <1>4
  <2>2. s = << >> BY <1>1, <1>4, EmptySeq
  <2>3. DOMAIN s = {} BY <1>4
  <2>4. ToSet(s) = {} BY <2>3 DEF ToSet
  <2>. QED BY <1>4, <2>1, <2>2, <2>4 DEF Elements, IsInjective
<1>5. CASE N # 0
  <2>. DEFINE T == {k \in 0 .. N : k # 0 =>
                        /\ f[k] \in Seq(Nat)
                        /\ \A e : e \in ToSet(f[k]) <=> \E m \in 1 .. k : e \in ToSet(s[m])
                        /\ Apart(s, N) => IsInjective(f[k])}
  <2>1. ASSUME NEW n \in 0 .. N, \A m \in 0 .. n - 1 : m \in T
        PROVE  n \in T
    <3>. SUFFICES ASSUME n # 0
                  PROVE  /\ f[n] \in Seq(Nat)
                         /\ \A e : e \in ToSet(f[n]) <=> \E m \in 1 .. n : e \in ToSet(s[m])
                         /\ Apart(s, N) => IsInjective(f[n])
      OBVIOUS
    <3>1. n \in 1 .. N /\ s[n] \in Seq(Nat) OBVIOUS
    <3>2. f[n] = IF n = 1 THEN s[n] ELSE f[n - 1] \o s[n] BY <1>2, <3>1 DEF FlatTo
    <3>3. CASE n = 1
      <4>1. 1 .. n = {1} BY <3>3
      <4>2. Apart(s, N) => IsInjective(s[n]) BY <3>1 DEF Apart
      <4>. QED BY <3>1, <3>2, <3>3, <4>1, <4>2
    <3>4. CASE n # 1
      <4>0. n - 1 \in 0 .. n - 1 /\ n - 1 # 0 BY <3>1, <3>4
      <4>1. n - 1 \in T /\ n - 1 # 0 BY <2>1, <4>0
      <4>2. /\ f[n - 1] \in Seq(Nat)
            /\ \A e : e \in ToSet(f[n - 1]) <=> \E m \in 1 .. n - 1 : e \in ToSet(s[m])
            /\ Apart(s, N) => IsInjective(f[n - 1])
        BY <4>1
      <4>3. /\ f[n] \in Seq(Nat)
            /\ ToSet(f[n]) = ToSet(f[n - 1]) \union ToSet(s[n])
        BY <3>1, <3>2, <3>4, <4>2, ConcatSet
      <4>4. \A m \in 1 .. n : m \in 1 .. n - 1 \/ m = n OBVIOUS
      <4>5. \A m \in 1 .. n - 1 : m \in 1 .. n OBVIOUS
      <4>6. \A e : (\E m \in 1 .. n : e \in ToSet(s[m])) <=>
                        (\E m \in 1 .. n - 1 : e \in ToSet(s[m])) \/ e \in ToSet(s[n])
        <5>1. n \in 1 .. n BY <3>1
        <5>. HIDE DEF T
        <5>. QED BY <4>4, <4>5, <5>1
      <4>7. \A e : e \in ToSet(f[n]) <=> \E m \in 1 .. n : e \in ToSet(s[m])
        <5>. HIDE DEF T
        <5>. QED BY <4>2, <4>3, <4>6
      <4>8. ASSUME Apart(s, N) PROVE IsInjective(f[n])
        <5>1. IsInjective(s[n]) /\ IsInjective(f[n - 1]) BY <3>1, <4>2, <4>8 DEF Apart
        <5>2. \A m \in 1 .. n - 1 : ToSet(s[m]) \intersect ToSet(s[n]) = {}
          <6>1. \A m \in 1 .. n - 1 : m \in 1 .. N /\ m # n BY <3>1
          <6>. HIDE DEF T
          <6>. QED BY <3>1, <4>8, <6>1 DEF Apart
        <5>3. ToSet(f[n - 1]) \intersect ToSet(s[n]) = {}
          <6>. HIDE DEF T
          <6>. QED BY <4>2, <5>2
        <5>4. f[n] = f[n - 1] \o s[n] BY <3>2, <3>4
        <5>. HIDE DEF T
        <5>. QED BY <3>1, <4>2, <5>1, <5>3, <5>4, ConcatOnce
      <4>. QED BY <4>3, <4>7, <4>8
    <3>. QED BY <3>3, <3>4
  <2>. HIDE DEF T
  <2>2. 0 .. N \subseteq T BY <2>1, UpInduction
  <2>3. N \in T BY <2>2
  <2>4. f[N] \in Seq(Nat) /\ Elements(s, N, ToSet(f[N])) BY <1>5, <2>3 DEF T, Elements
  <2>8. Apart(s, N) => IsInjective(f[N]) BY <1>5, <2>3 DEF T
  <2>5. FlattenSeq(s) = f[N] BY <1>1, <1>3, <1>5
  <2>6. FlattenSeq(s) \in Seq(Nat) BY <2>4, <2>5
  <2>7. Elements(s, N, ToSet(FlattenSeq(s))) BY <2>4, <2>5
  <2>9. Apart(s, N) => IsInjective(FlattenSeq(s)) BY <2>5, <2>8
  <2>. QED BY <2>6, <2>7, <2>9
<1>. QED BY <1>4, <1>5

(* The items of a node are those below it.                                  *)
LEMMA FlattenNodeIs ==
    ASSUME NEW c, IsWalked(c), NEW node
    PROVE  /\ FlattenNode(c, node) \in Seq(Nat) /\ IsInjective(FlattenNode(c, node))
           /\ \A n : n \in ToSet(FlattenNode(c, node)) <=>
                        n \in 1 .. Len(c.name) /\ ~IsGroup(c, n) /\ Below(c, n, node)
<1>. DEFINE N == Len(c.name)
            s == [n \in 1 .. N |-> IF ~IsGroup(c, n) /\ Below(c, n, node) THEN <<n>> ELSE <<>>]
<1>1. N \in Nat /\ Nodes(c) = 1 .. N BY Walked
<1>2. FlattenNode(c, node) = FlattenSeq(s) BY <1>1 DEF FlattenNode
<1>3. s \in [1 .. N -> Seq(Nat)]
  <2>1. ASSUME NEW n \in 1 .. N PROVE <<n>> \in Seq(Nat) /\ <<>> \in Seq(Nat) BY <1>1
  <2>. QED BY <2>1
<1>4. ASSUME NEW n \in 1 .. N
      PROVE  ToSet(s[n]) = IF ~IsGroup(c, n) /\ Below(c, n, node) THEN {n} ELSE {}
  <2>1. s[n] = IF ~IsGroup(c, n) /\ Below(c, n, node) THEN <<n>> ELSE <<>> OBVIOUS
  <2>2. ToSet(<<n>>) = {n} /\ ToSet(<<>>) = {} BY DEF ToSet
  <2>. QED BY <2>1, <2>2
<1>7. Apart(s, N)
  <2>1. ASSUME NEW n \in 1 .. N PROVE IsInjective(s[n])
    <3>1. s[n] = <<n>> \/ s[n] = <<>> OBVIOUS
    <3>2. IsInjective(<<n>>) /\ IsInjective(<<>>) BY DEF IsInjective
    <3>. QED BY <3>1, <3>2
  <2>. HIDE DEF s, N
  <2>2. \A j, k \in 1 .. N : j # k => ToSet(s[j]) \intersect ToSet(s[k]) = {} BY <1>4
  <2>. QED BY <2>1, <2>2 DEF Apart
<1>. HIDE DEF s, N
<1>5. /\ FlattenSeq(s) \in Seq(Nat) /\ Elements(s, N, ToSet(FlattenSeq(s)))
      /\ IsInjective(FlattenSeq(s))
  BY <1>1, <1>3, <1>7, FlattenHolds
<1>6. \A e : (\E k \in 1 .. N : e \in ToSet(s[k])) <=>
                e \in 1 .. N /\ ~IsGroup(c, e) /\ Below(c, e, node)
  BY <1>4
<1>. QED BY <1>2, <1>5, <1>6 DEF N, Elements

(* What the nodes of a list have in them is in one of them only.            *)
NodesApart(c, nodes) ==
    \A j, k \in DOMAIN nodes : j # k =>
        ToSet(FlattenNode(c, nodes[j])) \intersect ToSet(FlattenNode(c, nodes[k])) = {}

(* The items of several nodes are those of each.                            *)
LEMMA FlattenAllIs ==
    ASSUME NEW c, IsWalked(c), NEW S, NEW nodes \in Seq(S)
    PROVE  /\ \A e : e \in ToSet(FlattenAll(c, nodes)) <=>
                       \E n \in ToSet(nodes) : e \in ToSet(FlattenNode(c, n))
           /\ NodesApart(c, nodes) => IsInjective(FlattenAll(c, nodes))
<1>. DEFINE N == Len(nodes)
            s == [k \in 1 .. N |-> FlattenNode(c, nodes[k])]
<1>1. N \in Nat /\ DOMAIN nodes = 1 .. N BY LenProperties
<1>2. FlattenAll(c, nodes) = FlattenSeq(s) BY <1>1 DEF FlattenAll
<1>3. s \in [1 .. N -> Seq(Nat)] BY FlattenNodeIs
<1>4. \A k \in 1 .. N : s[k] = FlattenNode(c, nodes[k]) OBVIOUS
<1>6. ToSet(nodes) = {nodes[k] : k \in 1 .. N} BY <1>1 DEF ToSet
<1>. HIDE DEF s, N
<1>5. Elements(s, N, ToSet(FlattenSeq(s))) /\ (Apart(s, N) => IsInjective(FlattenSeq(s)))
  BY <1>1, <1>3, FlattenHolds
<1>7. NodesApart(c, nodes) => Apart(s, N)
  <2>1. \A k \in 1 .. N : IsInjective(s[k]) BY <1>4, FlattenNodeIs
  <2>2. DOMAIN nodes = 1 .. N BY <1>1 DEF N
  <2>. QED BY <1>4, <2>1, <2>2 DEF NodesApart, Apart
<1>. QED BY <1>2, <1>4, <1>5, <1>6, <1>7 DEF Elements

(***************************************************************************)
(* What the strategies answer                                              *)
(***************************************************************************)

(* The search finds what the entry points mean.                             *)
LEMMA FindsAll ==
    ASSUME NEW c, IsWalked(c), Unambiguous(c), NEW entrypoints, Missing \notin ToSet(entrypoints)
    PROVE  FoundBy(c, ToSet(entrypoints), Len(c.name), FindItemsOrGroups(c, entrypoints))
<1>. DEFINE N == Len(c.name)
            X == ToSet(entrypoints)
<1>0. N \in Nat BY Walked
<1>1. PICK f : FoundTo(f, c, entrypoints, N) /\ FindItemsOrGroups(c, entrypoints) = f[N]
  BY <1>0, FoundIs
<1>. DEFINE T == {k \in 0 .. N : FoundBy(c, X, k, f[k])}
<1>2. ASSUME NEW n \in 0 .. N, \A m \in 0 .. n - 1 : m \in T
      PROVE  n \in T
  <2>0. f[n] = FoundStep(c, entrypoints, f, n) BY <1>1 DEF FoundTo
  <2>1. CASE n = 0
    <3>1. f[n] = NothingFound(entrypoints) BY <2>0, <2>1 DEF FoundStep
    <3>2. Hits(c, X, n) = {} /\ Outer(c, X, n) = {} BY <2>1 DEF Hits, Outer
    <3>3. /\ Keyed(c, X, {}) = {} /\ ToSet(<<>>) = {} /\ DOMAIN <<>> = {} /\ <<>> \in Seq(Nat)
          /\ IsInjective(<<>>)
      BY DEF Keyed, ToSet, IsInjective
    <3>. HIDE DEF X
    <3>4. NothingFound(entrypoints) =
            [lookup |-> X, matched |-> {}, members |-> <<>>, reference |-> <<>>]
      BY DEF NothingFound, X
    <3>5. FoundBy(c, X, n, f[n]) BY <3>1, <3>2, <3>3, <3>4 DEF FoundBy
    <3>. QED BY <3>5 DEF X
  <2>2. CASE n # 0
    <3>1. n - 1 \in 0 .. n - 1 /\ n \in 1 .. N BY <2>2
    <3>2. FoundBy(c, X, n - 1, f[n - 1]) BY <1>2, <3>1
    <3>3. f[n] = Visit(c, f[n - 1], n) BY <2>0, <2>2 DEF FoundStep
    <3>. HIDE DEF X
    <3>4. FoundBy(c, X, n, Visit(c, f[n - 1], n)) BY <3>1, <3>2, VisitFinds DEF X
    <3>. QED BY <3>3, <3>4 DEF X
  <2>. QED BY <2>1, <2>2
<1>. HIDE DEF T
<1>3. 0 .. N \subseteq T BY <1>0, <1>2, UpInduction
<1>4. N \in T BY <1>0, <1>3
<1>. QED BY <1>1, <1>4 DEF T

(* A node that an entry point means is in one that runs.                    *)
LEMMA OuterCovers ==
    ASSUME NEW c, IsWalked(c), NEW X
    PROVE  \A n \in Hits(c, X, Len(c.name)) : \E m \in Outer(c, X, Len(c.name)) : Below(c, n, m)
<1>. DEFINE N == Len(c.name)
            H == Hits(c, X, N)
            T == {n \in 0 .. N : n \in H => \E m \in Outer(c, X, N) : Below(c, n, m)}
<1>0. N \in Nat /\ H \subseteq 1 .. N BY Walked DEF Hits
<1>1. ASSUME NEW n \in 0 .. N, \A m \in 0 .. n - 1 : m \in T
      PROVE  n \in T
  <2>. SUFFICES ASSUME n \in H PROVE \E m \in Outer(c, X, N) : Below(c, n, m) OBVIOUS
  <2>1. n \in 1 .. N /\ Parent(c, n) \in 0 .. n - 1 BY <1>0, Walked
  <2>2. CASE Parent(c, n) \notin H
    <3>1. n \in Outer(c, X, N) BY <2>2 DEF Outer
    <3>2. Below(c, n, n) BY BelowIs
    <3>. QED BY <3>1, <3>2
  <2>3. CASE Parent(c, n) \in H
    <3>1. Parent(c, n) \in T BY <1>1, <2>1
    <3>2. PICK m \in Outer(c, X, N) : Below(c, Parent(c, n), m) BY <2>3, <3>1
    <3>3. Below(c, n, m) BY <2>1, <3>2, BelowIs
    <3>. QED BY <3>3
  <2>. QED BY <2>2, <2>3
<1>. HIDE DEF T
<1>2. 0 .. N \subseteq T BY <1>0, <1>1, UpInduction
<1>. QED BY <1>0, <1>2 DEF T

(* What runs is what is below the nodes that are meant.                     *)
Covers(c, X, S) ==
    \A e : e \in S <=> \E n \in Hits(c, X, Len(c.name)) : e \in ToSet(FlattenNode(c, n))

LEMMA OuterRuns ==
    ASSUME NEW c, IsWalked(c), NEW X
    PROVE  \A e : (\E n \in Outer(c, X, Len(c.name)) : e \in ToSet(FlattenNode(c, n))) <=>
                  (\E n \in Hits(c, X, Len(c.name)) : e \in ToSet(FlattenNode(c, n)))
<1>. DEFINE N == Len(c.name)
<1>0. N \in Nat BY Walked
<1>1. Outer(c, X, N) \subseteq Hits(c, X, N) /\ Hits(c, X, N) \subseteq 1 .. N BY DEF Outer, Hits
<1>2. ASSUME NEW n \in Hits(c, X, N), NEW e \in ToSet(FlattenNode(c, n))
      PROVE  \E m \in Outer(c, X, N) : e \in ToSet(FlattenNode(c, m))
  <2>1. PICK m \in Outer(c, X, N) : Below(c, n, m) BY OuterCovers
  <2>2. e \in 1 .. N /\ ~IsGroup(c, e) /\ Below(c, e, n) BY FlattenNodeIs
  <2>3. e \in 0 .. N /\ n \in 0 .. N BY <1>0, <1>1, <2>2
  <2>4. Below(c, e, m) BY <2>1, <2>2, <2>3, BelowTrans
  <2>5. e \in ToSet(FlattenNode(c, m)) BY <2>2, <2>4, FlattenNodeIs
  <2>. QED BY <2>5
<1>. QED BY <1>1, <1>2

(* Each node is at one place of a list only.                                *)
OnceEach(nodes) ==
    \A j, k \in DOMAIN nodes : nodes[j] = nodes[k] /\ nodes[j] # None => j = k

(* The entry points in their own order are the nodes that run, and none for *)
(* those that do not.                                                       *)
LEMMA InOrderHolds ==
    ASSUME NEW c, NEW entrypoints, entrypoints \in Seq(ToSet(entrypoints)), NEW k \in Nat, NEW found,
           FoundBy(c, ToSet(entrypoints), k, found)
    PROVE  /\ InOrder(found, entrypoints) \in Seq(Outer(c, ToSet(entrypoints), k) \union {None})
           /\ Outer(c, ToSet(entrypoints), k) \subseteq ToSet(InOrder(found, entrypoints))
           /\ IsInjective(entrypoints) => OnceEach(InOrder(found, entrypoints))
<1>. DEFINE X == ToSet(entrypoints)
            O == Outer(c, X, k)
            nodes == InOrder(found, entrypoints)
<1>1. DOMAIN entrypoints = 1 .. Len(entrypoints) /\ Len(entrypoints) \in Nat BY LenProperties
<1>2. /\ DOMAIN found.reference = Keyed(c, X, O)
      /\ \A n \in O : found.reference[KeyOf(c, X, n)] = n
  BY DEF FoundBy
<1>3. ASSUME NEW j \in DOMAIN entrypoints PROVE nodes[j] \in O \union {None}
  <2>1. nodes[j] = IF entrypoints[j] \in DOMAIN found.reference
                   THEN found.reference[entrypoints[j]] ELSE None
    BY DEF InOrder
  <2>. HIDE DEF nodes, O
  <2>. QED BY <1>2, <2>1 DEF Keyed
<1>4. nodes \in [1 .. Len(entrypoints) -> O \union {None}]
  <2>1. nodes = [j \in 1 .. Len(entrypoints) |-> nodes[j]] BY <1>1 DEF InOrder
  <2>. HIDE DEF nodes, O
  <2>. QED BY <1>1, <1>3, <2>1
<1>5. nodes \in Seq(O \union {None})
  <2>. HIDE DEF nodes, O
  <2>. QED BY <1>1, <1>4, IsASeq
<1>6. ASSUME NEW n \in O PROVE n \in ToSet(nodes)
  <2>1. KeyOf(c, X, n) \in X BY DEF Outer, Hits, IsHit, KeyOf
  <2>2. PICK j \in DOMAIN entrypoints : entrypoints[j] = KeyOf(c, X, n) BY <2>1 DEF ToSet
  <2>3. entrypoints[j] \in DOMAIN found.reference BY <1>2, <2>2 DEF Keyed
  <2>4. nodes[j] = n BY <1>2, <2>2, <2>3 DEF InOrder
  <2>5. j \in DOMAIN nodes BY <1>1, <1>4
  <2>. QED BY <2>4, <2>5 DEF ToSet
<1>7. ASSUME IsInjective(entrypoints), NEW j \in DOMAIN entrypoints, NEW m \in DOMAIN entrypoints,
             nodes[j] = nodes[m], nodes[j] # None
      PROVE  j = m
  <2>1. \A h \in DOMAIN entrypoints : nodes[h] # None =>
            \E n \in O : entrypoints[h] = KeyOf(c, X, n) /\ nodes[h] = n
    <3>1. \A h \in DOMAIN entrypoints :
              nodes[h] = IF entrypoints[h] \in DOMAIN found.reference
                         THEN found.reference[entrypoints[h]] ELSE None
      BY DEF InOrder
    <3>. HIDE DEF nodes, O
    <3>. QED BY <1>2, <3>1 DEF Keyed
  <2>. HIDE DEF nodes, O
  <2>2. entrypoints[j] = entrypoints[m] BY <1>7, <2>1
  <2>. QED BY <1>7, <2>2 DEF IsInjective
<1>8. DOMAIN nodes = DOMAIN entrypoints BY DEF InOrder
<1>. QED BY <1>5, <1>6, <1>7, <1>8 DEF OnceEach

(* Where one of the nodes that are meant is inside another, so is the       *)
(* folder that lists it.                                                    *)
Direct(c, X) ==
    LET hits == Hits(c, X, Len(c.name))
    IN  \A m, n \in hits : m # n /\ Below(c, n, m) => Parent(c, n) \in hits

(* Then no item is in two of those that run.                                *)
LEMMA OuterApart ==
    ASSUME NEW c, IsWalked(c), NEW X, Direct(c, X),
           NEW m \in Outer(c, X, Len(c.name)), NEW n \in Outer(c, X, Len(c.name)), m # n
    PROVE  ToSet(FlattenNode(c, m)) \intersect ToSet(FlattenNode(c, n)) = {}
<1>. DEFINE N == Len(c.name)
            O == Outer(c, X, N)
<1>0. N \in Nat BY Walked
<1>1. ASSUME NEW k \in O, NEW h \in O, k < h, NEW e \in 1 .. N, Below(c, e, k), Below(c, e, h)
      PROVE  FALSE
  <2>1. k \in Hits(c, X, N) /\ h \in Hits(c, X, N) /\ Parent(c, h) \notin Hits(c, X, N)
    BY DEF Outer
  <2>2. k \in 0 .. N /\ h \in 0 .. N /\ e \in 0 .. N BY <1>0, <2>1 DEF Hits
  <2>. HIDE DEF N, O
  <2>3. h <= e BY <1>1, <2>2, BelowAfter DEF N
  <2>4. Below(c, h, k) BY <1>1, <2>2, <2>3, BelowFollows DEF N
  <2>5. k # h BY <1>1, <2>2
  <2>. QED BY <2>1, <2>4, <2>5 DEF Direct, N
<1>2. m \in Nat /\ n \in Nat BY <1>0 DEF Outer, Hits
<1>. HIDE DEF N, O
<1>3. ASSUME NEW e \in ToSet(FlattenNode(c, m)), e \in ToSet(FlattenNode(c, n)) PROVE FALSE
  <2>1. e \in 1 .. N /\ Below(c, e, m) /\ Below(c, e, n) BY <1>3, FlattenNodeIs DEF N
  <2>2. m \in O /\ n \in O BY DEF O, N
  <2>3. m < n \/ n < m BY <1>2
  <2>. QED BY <1>1, <2>1, <2>2, <2>3
<1>. QED BY <1>3

(* The answer for a list of entry points: an error if one of them means no  *)
(* node, and otherwise what is below those that they mean.                  *)
AnswersMany(c, X, a) ==
    IF X \ Keyed(c, X, Hits(c, X, Len(c.name))) # {} THEN a.error
    ELSE ~a.error /\ a.entry /\ Covers(c, X, ToSet(a.items))

(* It is the answer that LookupMany gives, in either order.                 *)
LEMMA LooksUpMany ==
    ASSUME NEW c, IsWalked(c), Unambiguous(c), NEW entrypoint, IsEntrypoint(entrypoint),
           entrypoint.array, entrypoint.execute # <<>>, NEW ordered
    PROVE  AnswersMany(c, ToSet(entrypoint.execute), LookupMany(c, entrypoint, ordered))
<1>. DEFINE N == Len(c.name)
            ep == entrypoint.execute
            X == ToSet(ep)
            found == FindItemsOrGroups(c, ep)
            nodes == IF ordered THEN InOrder(found, ep) ELSE found.members
            a == LookupMany(c, entrypoint, ordered)
            O == Outer(c, X, N)
<1>0. N \in Nat BY Walked
<1>1. ep \in Seq(ToSet(ep)) /\ Missing \notin ToSet(ep) BY DEF IsEntrypoint
<1>2. FoundBy(c, X, N, found)
  <2>. HIDE DEF ep
  <2>. QED BY <1>1, FindsAll
<1>3. found.lookup = X \ Keyed(c, X, Hits(c, X, N)) BY <1>2 DEF FoundBy
<1>4. a = IF found.lookup # {} THEN Error ELSE Answer(FlattenAll(c, nodes), TRUE)
  BY DEF LookupMany
<1>5. CASE found.lookup # {}
  <2>1. a = Error BY <1>4, <1>5
  <2>2. Error.error BY DEF Error
  <2>. HIDE DEF a, found
  <2>. QED BY <1>3, <1>5, <2>1, <2>2 DEF AnswersMany, a
<1>6. CASE found.lookup = {}
  <2>1. nodes \in Seq(Nat \union {None}) /\ ToSet(nodes) \ {None} = O
    <3>0. O \subseteq Nat /\ None \notin Nat BY DEF Outer, Hits, None
    <3>1. CASE ordered
      <4>1. /\ InOrder(found, ep) \in Seq(O \union {None})
            /\ O \subseteq ToSet(InOrder(found, ep))
        <5>. HIDE DEF ep, found
        <5>. QED BY <1>0, <1>1, <1>2, InOrderHolds
      <4>2. nodes = InOrder(found, ep) BY <3>1
      <4>. HIDE DEF nodes, O
      <4>3. nodes \in Seq(O \union {None}) /\ O \subseteq ToSet(nodes) BY <4>1, <4>2
      <4>4. DOMAIN nodes = 1 .. Len(nodes) /\ Len(nodes) \in Nat BY <4>3, LenProperties
      <4>5. \A k \in DOMAIN nodes : nodes[k] \in O \union {None} BY <4>3, <4>4, ElementOfSeq
      <4>6. ToSet(nodes) \subseteq O \union {None} BY <4>5 DEF ToSet
      <4>7. nodes \in [1 .. Len(nodes) -> Nat \union {None}]
        <5>1. \A k \in 1 .. Len(nodes) : nodes[k] \in Nat \union {None} BY <3>0, <4>4, <4>5
        <5>2. nodes \in [1 .. Len(nodes) -> O \union {None}] BY <4>3, LenProperties
        <5>. QED BY <5>1, <5>2
      <4>8. nodes \in Seq(Nat \union {None}) BY <4>4, <4>7, IsASeq
      <4>. QED BY <3>0, <4>3, <4>6, <4>8
    <3>2. CASE ~ordered
      <4>1. nodes = found.members BY <3>2
      <4>2. found.members \in Seq(Nat) /\ ToSet(found.members) = O BY <1>2 DEF FoundBy
      <4>. HIDE DEF nodes, O, found
      <4>3. nodes \in Seq(Nat) /\ ToSet(nodes) = O BY <4>1, <4>2
      <4>4. Len(nodes) \in Nat /\ nodes \in [1 .. Len(nodes) -> Nat] BY <4>3, LenProperties
      <4>5. nodes \in [1 .. Len(nodes) -> Nat \union {None}] BY <4>4
      <4>6. nodes \in Seq(Nat \union {None}) BY <4>4, <4>5, IsASeq
      <4>. QED BY <3>0, <4>3, <4>6
    <3>. QED BY <3>1, <3>2
  <2>. HIDE DEF nodes, O, found, a, X
  <2>2. \A e : e \in ToSet(FlattenAll(c, nodes)) <=>
                 \E n \in ToSet(nodes) : e \in ToSet(FlattenNode(c, n))
    BY <2>1, FlattenAllIs
  <2>3. \A e : e \notin ToSet(FlattenNode(c, None))
    <3>1. SUFFICES ASSUME NEW e \in ToSet(FlattenNode(c, None)) PROVE FALSE OBVIOUS
    <3>2. e \in 1 .. N /\ Below(c, e, None) BY FlattenNodeIs
    <3>3. e \in 0 .. N BY <1>0, <3>2
    <3>4. None \in 0 .. e BY <3>2, <3>3, BelowAfter
    <3>. QED BY <3>4 DEF None
  <2>4. \A e : (\E n \in O : e \in ToSet(FlattenNode(c, n))) <=>
               (\E n \in Hits(c, X, N) : e \in ToSet(FlattenNode(c, n)))
    BY OuterRuns DEF O
  <2>5. \A e : e \in ToSet(FlattenAll(c, nodes)) <=>
                 \E n \in Hits(c, X, N) : e \in ToSet(FlattenNode(c, n))
    BY <2>1, <2>2, <2>3, <2>4
  <2>6. Covers(c, X, ToSet(FlattenAll(c, nodes))) BY <2>5 DEF Covers
  <2>7. a = [error |-> FALSE, items |-> FlattenAll(c, nodes), entry |-> TRUE]
    BY <1>4, <1>6 DEF Answer
  <2>8. AnswersMany(c, X, a) BY <1>3, <1>6, <2>6, <2>7 DEF AnswersMany
  <2>. QED BY <2>8 DEF a, X
<1>. QED BY <1>5, <1>6

(* And no item is in it twice, if the entry points are different and, where *)
(* one is inside another, so is the folder that lists it.                   *)
LEMMA LooksUpOnce ==
    ASSUME NEW c, IsWalked(c), Unambiguous(c), NEW entrypoint, IsEntrypoint(entrypoint),
           NEW ordered, ~LookupMany(c, entrypoint, ordered).error,
           IsInjective(entrypoint.execute), Direct(c, ToSet(entrypoint.execute))
    PROVE  IsInjective(LookupMany(c, entrypoint, ordered).items)
<1>. DEFINE N == Len(c.name)
            ep == entrypoint.execute
            X == ToSet(ep)
            found == FindItemsOrGroups(c, ep)
            nodes == IF ordered THEN InOrder(found, ep) ELSE found.members
            a == LookupMany(c, entrypoint, ordered)
            O == Outer(c, X, N)
<1>0. N \in Nat BY Walked
<1>1. ep \in Seq(ToSet(ep)) /\ Missing \notin ToSet(ep) BY DEF IsEntrypoint
<1>2. FoundBy(c, X, N, found)
  <2>. HIDE DEF ep
  <2>. QED BY <1>1, FindsAll
<1>3. a.items = FlattenAll(c, nodes)
  BY DEF LookupMany, Error, Answer
<1>4. ASSUME NEW k PROVE k \notin ToSet(FlattenNode(c, None))
  <2>1. SUFFICES ASSUME k \in ToSet(FlattenNode(c, None)) PROVE FALSE OBVIOUS
  <2>2. k \in 1 .. N /\ Below(c, k, None) BY <2>1, FlattenNodeIs
  <2>3. None \in 0 .. k
    <3>1. k \in 0 .. N BY <1>0, <2>2
    <3>. QED BY <2>2, <3>1, BelowAfter
  <2>. QED BY <2>3 DEF None
<1>5. ASSUME NEW S, NEW s \in Seq(S), \A k \in DOMAIN s : s[k] \in O \union {None},
             OnceEach(s)
      PROVE  IsInjective(FlattenAll(c, s))
  <2>1. NodesApart(c, s)
    <3>1. SUFFICES ASSUME NEW j \in DOMAIN s, NEW k \in DOMAIN s, j # k
                   PROVE  ToSet(FlattenNode(c, s[j])) \intersect ToSet(FlattenNode(c, s[k])) = {}
      BY DEF NodesApart
    <3>2. CASE s[j] = None \/ s[k] = None BY <1>4, <3>2
    <3>3. CASE s[j] # None /\ s[k] # None
      <4>1. s[j] \in O /\ s[k] \in O /\ s[j] # s[k]
        BY <1>5, <3>1, <3>3 DEF OnceEach
      <4>2. Direct(c, X) OBVIOUS
      <4>. HIDE DEF X
      <4>. QED BY <4>1, <4>2, OuterApart
    <3>. QED BY <3>2, <3>3
  <2>. QED BY <2>1, FlattenAllIs
<1>6. CASE ordered
  <2>1. nodes = InOrder(found, ep) BY <1>6
  <2>2. /\ InOrder(found, ep) \in Seq(O \union {None})
        /\ OnceEach(InOrder(found, ep))
    <3>1. IsInjective(ep) OBVIOUS
    <3>. HIDE DEF ep, found
    <3>. QED BY <1>0, <1>1, <1>2, <3>1, InOrderHolds
  <2>. HIDE DEF nodes, O, found, ep, a
  <2>3. DOMAIN nodes = 1 .. Len(nodes) /\ Len(nodes) \in Nat /\ nodes \in Seq(O \union {None})
    BY <2>1, <2>2, LenProperties
  <2>4. \A k \in DOMAIN nodes : nodes[k] \in O \union {None} BY <2>3, ElementOfSeq
  <2>5. IsInjective(FlattenAll(c, nodes)) BY <1>5, <2>1, <2>2, <2>3, <2>4
  <2>. QED BY <1>3, <2>5 DEF a
<1>7. CASE ~ordered
  <2>1. nodes = found.members BY <1>7
  <2>2. found.members \in Seq(Nat) /\ ToSet(found.members) = O /\ IsInjective(found.members)
    BY <1>2 DEF FoundBy
  <2>. HIDE DEF nodes, O, found, ep, a
  <2>3. \A k \in DOMAIN nodes : nodes[k] \in O \union {None} BY <2>1, <2>2 DEF ToSet
  <2>4. OnceEach(nodes) BY <2>1, <2>2 DEF IsInjective, OnceEach
  <2>5. IsInjective(FlattenAll(c, nodes)) BY <1>5, <2>1, <2>2, <2>3, <2>4
  <2>. QED BY <1>3, <2>5 DEF a
<1>. QED BY <1>6, <1>7

(* The nodes that Targets has are those that the search hits.               *)
LEMMA TargetsHit ==
    ASSUME IsWalked(collection), Unambiguous(collection), NEW entrypoint,
           NEW e \in ToSet(entrypoint.execute)
    PROVE  LET X == ToSet(entrypoint.execute)
           IN  \A n : n \in Targets(entrypoint)[e] <=>
                        n \in Hits(collection, X, Len(collection.name)) /\ KeyOf(collection, X, n) = e
<1>. DEFINE N == Len(collection.name)
            X == ToSet(entrypoint.execute)
            byId == {n \in Nodes(collection) : Ids[n] = e}
            byName == {n \in Nodes(collection) : collection.name[n] = e /\ Ids[n] \notin X}
            these == Targets(entrypoint)[e]
<1>0. N \in Nat /\ Nodes(collection) = 1 .. N BY Walked
<1>1. these = IF byId # {} THEN byId ELSE IF byName = {} THEN {} ELSE {Min(byName)}
  BY DEF Targets
<1>. HIDE DEF these, X
<1>2. e \in X BY DEF X
<1>3. \A n \in Hits(collection, X, N) : n \in 1 .. N /\ IsHit(collection, X, n) BY DEF Hits
<1>4. CASE byId # {}
  <2>1. PICK m \in 1 .. N : Ids[m] = e BY <1>0, <1>4
  <2>2. ASSUME NEW n \in Hits(collection, X, N), KeyOf(collection, X, n) = e
        PROVE  n \in byId
    BY <1>0, <1>3, <2>1, <2>2, IdsDiffer
  <2>3. ASSUME NEW n \in byId
        PROVE  n \in Hits(collection, X, N) /\ KeyOf(collection, X, n) = e
    BY <1>0, <1>2, <2>3 DEF Hits, IsHit, KeyOf
  <2>. QED BY <1>1, <1>4, <2>2, <2>3 DEF these, X
<1>5. CASE byId = {}
  <2>1. ASSUME NEW n \in Hits(collection, X, N), KeyOf(collection, X, n) = e
        PROVE  n \in byName /\ \A m \in byName : n <= m
    <3>1. n \in Nodes(collection) /\ IsHit(collection, X, n) BY <1>0, <1>3
    <3>2. Ids[n] # e BY <1>5, <3>1
    <3>3. Ids[n] \notin X /\ collection.name[n] = e BY <2>1, <3>2 DEF KeyOf
    <3>4. ASSUME NEW m \in byName PROVE n <= m
      <4>1. m \in 1 .. N /\ collection.name[m] = collection.name[n] /\ Ids[m] \notin X
        BY <1>0, <3>3
      <4>2. m \notin 1 .. n - 1 BY <3>1, <3>3, <4>1 DEF IsHit
      <4>. QED BY <1>0, <3>1, <4>1, <4>2
    <3>. QED BY <3>1, <3>3, <3>4
  <2>2. ASSUME NEW n \in byName, \A m \in byName : n <= m
        PROVE  n \in Hits(collection, X, N) /\ KeyOf(collection, X, n) = e
    <3>1. ASSUME NEW m \in 1 .. n - 1, collection.name[m] = collection.name[n]
          PROVE  Ids[m] \in X
      <4>1. SUFFICES ASSUME Ids[m] \notin X PROVE FALSE OBVIOUS
      <4>2. m \in byName BY <1>0, <3>1, <4>1
      <4>. QED BY <1>0, <2>2, <3>1, <4>2
    <3>2. IsHit(collection, X, n) BY <1>2, <2>2, <3>1 DEF IsHit
    <3>. QED BY <1>0, <2>2, <3>2 DEF Hits, KeyOf
  <2>3. byName # {} => Min(byName) \in byName /\ \A m \in byName : Min(byName) <= m
    <3>1. byName \in SUBSET Nat BY <1>0
    <3>. QED BY <3>1, MinOfSome
  <2>4. byName \subseteq Nat BY <1>0
  <2>. HIDE DEF byName
  <2>. HIDE DEF byId
  <2>5. ASSUME NEW n PROVE n \in these <=> n \in byName /\ \A m \in byName : n <= m
    <3>1. CASE byName = {} BY <1>1, <1>5, <3>1
    <3>2. CASE byName # {}
      <4>1. these = {Min(byName)} BY <1>1, <1>5, <3>2
      <4>2. Min(byName) \in byName /\ \A m \in byName : Min(byName) <= m BY <2>3, <3>2
      <4>3. ASSUME n \in byName, \A m \in byName : n <= m PROVE n = Min(byName)
        <5>1. n <= Min(byName) /\ Min(byName) <= n BY <4>2, <4>3
        <5>2. n \in Nat /\ Min(byName) \in Nat BY <2>4, <4>2, <4>3
        <5>. QED BY <5>1, <5>2
      <4>. QED BY <4>1, <4>2, <4>3
    <3>. QED BY <3>1, <3>2
  <2>. QED BY <2>1, <2>2, <2>5 DEF these, X
<1>. QED BY <1>4, <1>5

(* What EntrypointsRun says of it.                                          *)
LEMMA AnswerRuns ==
    ASSUME IsWalked(collection), Unambiguous(collection), NEW entrypoint, NEW a,
           AnswersMany(collection, ToSet(entrypoint.execute), a)
    PROVE  LET targets == Targets(entrypoint)
           IN  IF \E e \in DOMAIN targets : targets[e] = {} THEN a.error
               ELSE /\ ~a.error /\ a.entry
                    /\ ToSet(a.items) = UNION {UNION {ToSet(FlattenNode(collection, n)) : n \in targets[e]}
                                                  : e \in DOMAIN targets}
<1>. DEFINE targets == Targets(entrypoint)
            X == ToSet(entrypoint.execute)
            H == Hits(collection, X, Len(collection.name))
<1>1. DOMAIN targets = X BY DEF Targets
<1>2. \A e \in X : \A n : n \in targets[e] <=> n \in H /\ KeyOf(collection, X, n) = e
  BY TargetsHit
<1>. HIDE DEF targets, X
<1>3. (\E e \in X : targets[e] = {}) <=> X \ Keyed(collection, X, H) # {}
  BY <1>2 DEF Keyed
<1>4. \A n \in H : KeyOf(collection, X, n) \in X BY DEF Hits, IsHit, KeyOf
<1>5. AnswersMany(collection, X, a) BY DEF X
<1>. HIDE DEF H
<1>6. ASSUME ~(\E e \in X : targets[e] = {})
      PROVE  /\ ~a.error /\ a.entry
             /\ ToSet(a.items) = UNION {UNION {ToSet(FlattenNode(collection, n)) : n \in targets[e]} : e \in X}
  <2>1. ~a.error /\ a.entry /\ Covers(collection, X, ToSet(a.items))
    BY <1>3, <1>5, <1>6 DEF AnswersMany, H
  <2>. DEFINE U == UNION {UNION {ToSet(FlattenNode(collection, n)) : n \in targets[e]} : e \in X}
  <2>2. \A x : x \in U <=> \E e \in X : \E n \in targets[e] : x \in ToSet(FlattenNode(collection, n))
    OBVIOUS
  <2>3. \A x : x \in ToSet(a.items) <=> \E n \in H : x \in ToSet(FlattenNode(collection, n))
    BY <2>1 DEF Covers, H
  <2>. HIDE DEF U
  <2>4. \A x : x \in ToSet(a.items) <=> x \in U BY <1>2, <1>4, <2>2, <2>3
  <2>. QED BY <2>1, <2>4 DEF U
<1>7. ASSUME \E e \in X : targets[e] = {} PROVE a.error
  BY <1>3, <1>5, <1>7 DEF AnswersMany, H
<1>. QED BY <1>1, <1>6, <1>7 DEF targets

(* The folders that list a match are those that FirstMatch speaks of.       *)
LEMMA ListingAll ==
    ASSUME NEW c, IsWalked(c), NEW match
    PROVE  Listing(c, match, 0) = {g \in {0} \union Nodes(c) : MatchingIn(c, match, g) # {}}
<1>1. Len(c.name) \in Nat /\ Nodes(c) = 1 .. Len(c.name) BY Walked
<1>2. {0} \union Nodes(c) = 0 .. Len(c.name) BY <1>1
<1>3. \A g \in 0 .. Len(c.name) : Below(c, g, 0) BY BelowRoot
<1>. QED BY <1>2, <1>3 DEF Listing

(* What FirstMatch says of the answer for an entry point by id or name.     *)
AnswersFirst(c, match, a) ==
    LET groups == {g \in {0} \union Nodes(c) : MatchingIn(c, match, g) # {}}
    IN  IF groups = {} THEN a.error
        ELSE a = Answer(FlattenNode(c, Min(MatchingIn(c, match, Min(groups)))), TRUE)

(* It is the answer that the strategy idOrName gives.                       *)
LEMMA FirstAnswer ==
    ASSUME NEW c, IsWalked(c), NEW entrypoint, entrypoint # Missing,
           entrypoint.strategy = "idOrName", ~entrypoint.array, entrypoint.execute # <<>>
    PROVE  AnswersFirst(c, entrypoint.execute[1], ExtractRunnableItems(c, entrypoint))
<1>. DEFINE match == entrypoint.execute[1]
            matched == FindItemOrGroup(c, match)
            groups == {g \in {0} \union Nodes(c) : MatchingIn(c, match, g) # {}}
            a == ExtractRunnableItems(c, entrypoint)
<1>0. Len(c.name) \in Nat BY Walked
<1>1. a = IF matched = None THEN Error ELSE Answer(FlattenNode(c, matched), TRUE)
  BY DEF ExtractRunnableItems, LookupByIdOrName
<1>2. matched = FirstIn(c, match, 0)
  <2>. HIDE DEF match
  <2>1. PICK f : FindFrom(f, c, match, 0) /\ FindItemOrGroup(c, match) = f[0] BY FindIs
  <2>2. \A g \in 0 .. Len(c.name) : f[g] = FirstIn(c, match, g) BY <2>1, FindsFirst
  <2>. QED BY <1>0, <2>1, <2>2
<1>3. Listing(c, match, 0) = groups
  <2>. HIDE DEF match
  <2>. QED BY ListingAll
<1>. HIDE DEF a, matched, match
<1>4. CASE groups = {}
  <2>1. matched = None BY <1>2, <1>3, <1>4 DEF FirstIn
  <2>2. a.error BY <1>1, <2>1 DEF Error
  <2>. QED BY <1>4, <2>2 DEF AnswersFirst, a, match
<1>5. CASE groups # {}
  <2>. DEFINE g == Min(groups)
              first == Min(MatchingIn(c, match, g))
  <2>1. matched = first BY <1>2, <1>3, <1>5 DEF FirstIn
  <2>2. g \in groups
    <3>1. groups \in SUBSET Nat BY <1>0, Walked
    <3>. HIDE DEF groups
    <3>. QED BY <1>5, <3>1, MinOfSome
  <2>3. g \in 0 .. Len(c.name) /\ MatchingIn(c, match, g) # {}
    <3>1. Nodes(c) = 1 .. Len(c.name) BY Walked
    <3>2. \A h \in groups : h \in {0} \union 1 .. Len(c.name) /\ MatchingIn(c, match, h) # {}
      BY <3>1
    <3>. HIDE DEF g, groups
    <3>. QED BY <1>0, <2>2, <3>2
  <2>4. MatchingIn(c, match, g) \in SUBSET Nat
    <3>. HIDE DEF g
    <3>1. Children(c, g) \in SUBSET Nat BY <2>3, ChildrenAre
    <3>. QED BY <3>1 DEF MatchingIn
  <2>5. first \in Nat
    <3>. HIDE DEF g
    <3>1. first \in MatchingIn(c, match, g) BY <2>3, <2>4, MinOfSome
    <3>. QED BY <2>4, <3>1
  <2>. HIDE DEF first
  <2>6. matched # None BY <2>1, <2>5 DEF None
  <2>7. a = Answer(FlattenNode(c, first), TRUE) BY <1>1, <2>1, <2>6
  <2>. QED BY <1>5, <2>7 DEF AnswersFirst, a, match, first
<1>. QED BY <1>4, <1>5

(* The strategies for several entry points look them up by LookupMany.      *)
LEMMA ManyAnswer ==
    ASSUME NEW c, IsWalked(c), Unambiguous(c), NEW entrypoint, IsEntrypoint(entrypoint),
           entrypoint # Missing, entrypoint.array, entrypoint.execute # <<>>,
           entrypoint.strategy \in {"multipleIdOrName", "followOrder"}
    PROVE  LET a == ExtractRunnableItems(c, entrypoint)
               X == ToSet(entrypoint.execute)
           IN  /\ AnswersMany(c, X, a)
               /\ ~a.error /\ IsInjective(entrypoint.execute) /\ Direct(c, X) => IsInjective(a.items)
<1>. DEFINE a == ExtractRunnableItems(c, entrypoint)
<1>1. PICK ordered : a = LookupMany(c, entrypoint, ordered)
  <2>1. CASE entrypoint.strategy = "followOrder"
    <3>1. a = LookupMany(c, entrypoint, TRUE)
      BY <2>1 DEF ExtractRunnableItems, LookupByOrder
    <3>. QED BY <3>1
  <2>2. CASE entrypoint.strategy = "multipleIdOrName"
    <3>1. a = LookupMany(c, entrypoint, entrypoint.preserveOrder)
      BY <2>2 DEF ExtractRunnableItems, LookupByMultipleIdOrName
    <3>. QED BY <3>1
  <2>. QED BY <2>1, <2>2
<1>. HIDE DEF a
<1>2. AnswersMany(c, ToSet(entrypoint.execute), LookupMany(c, entrypoint, ordered)) BY LooksUpMany
<1>3. ASSUME ~a.error, IsInjective(entrypoint.execute), Direct(c, ToSet(entrypoint.execute))
      PROVE  IsInjective(a.items)
  BY <1>1, <1>3, LooksUpOnce
<1>. QED BY <1>1, <1>2, <1>3 DEF a

(***************************************************************************)
(* The runner                                                              *)
(***************************************************************************)

(* The collection is one of the host's, and until the runner is asked to    *)
(* run it the options are those given with it, and there are no items.      *)
Asked ==
    /\ collection \in Collections
    /\ phase \in {"asked", "refused", "made", "sequential", "parallel", "custom"}
    /\ phase = "asked" => options \in Options(collection) /\ items = <<>>

LEMMA AskedInit == RunnerInit => Asked
BY DEF RunnerInit, Asked

LEMMA AskedNext == Asked /\ [RunnerNext]_runnerVars => Asked'
BY DEF Asked, RunnerNext, RunCollection, StartRun, Partition, CreatePartition, runnerVars, vars

LEMMA AskedInv == RunnerSpec => []Asked
BY AskedInit, AskedNext, PTL DEF RunnerSpec

(* The runner writes a path into an entry point by path and no other.       *)
LEMMA OptionsKept ==
    ASSUME Asked, RunCollection
    PROVE  \/ options' = options
           \/ options'.entrypoint.strategy = "path"
<1>. DEFINE e == options.entrypoint
<1>1. collection \in Collections /\ options \in Options(collection) BY DEF Asked, RunCollection
<1>2. options \in [ entrypoint : {e}, abortOnError : BOOLEAN, data : Nat,
                    customParallelIterations : BOOLEAN, iterationCount : Nat,
                    maxConcurrency : Nat \ {0} ]
      /\ (e = Missing \/ IsEntrypoint(e))
  BY <1>1, OptionsAssumption
<1>3. CASE e # Missing /\ e.strategy = "path"
  <2>1. e \in [ strategy : STRING, path : {e.path}, execute : Seq(ToSet(e.execute)),
                array : BOOLEAN, preserveOrder : BOOLEAN ]
    BY <1>2, <1>3 DEF IsEntrypoint
  <2>2. CASE e.path # Missing
    <3>1. options' = [options EXCEPT !.entrypoint.path = LookupPath(e)]
      BY <1>3, <2>2 DEF RunCollection, OptionsAfter
    <3>. QED BY <1>2, <1>3, <2>1, <3>1
  <2>3. CASE e.path = Missing
    BY <2>3 DEF RunCollection, OptionsAfter
  <2>. QED BY <2>2, <2>3
<1>4. CASE ~(e # Missing /\ e.strategy = "path")
  BY <1>4 DEF RunCollection, OptionsAfter
<1>. QED BY <1>3, <1>4

(* What becomes of the run is what the answer says.                         *)
Obeyed(answer) ==
    /\ phase' # "asked" /\ items' \in {items, answer.items}
    /\ answer.error => phase' = "refused"
    /\ ~answer.error /\ answer.entry => phase' # "refused" /\ items' = answer.items

LEMMA AnswerObeyed ==
    ASSUME RunCollection
    PROVE  Obeyed(ExtractRunnableItems(collection, options.entrypoint))
BY DEF RunCollection, Obeyed

(***************************************************************************)
(* The first match                                                         *)
(***************************************************************************)

(* The step that asks for the items establishes the property, and no later  *)
(* one disturbs it.                                                         *)
LEMMA FirstMatchFound == Asked /\ RunCollection => FirstMatch'
<1>. SUFFICES ASSUME Asked, RunCollection PROVE FirstMatch'
  OBVIOUS
<1>. DEFINE e == options.entrypoint
            a == ExtractRunnableItems(collection, e)
<1>1. CASE options'.entrypoint.strategy = "path"
  BY <1>1 DEF FirstMatch
<1>2. CASE options' = options
  <2>1. SUFFICES ASSUME e # Missing, e.strategy = "idOrName", ~e.array, e.execute # <<>>
                 PROVE  FirstMatch'
    BY <1>2 DEF FirstMatch
  <2>2. IsWalked(collection) /\ collection' = collection
    BY CollectionsAssumption DEF Asked, RunCollection
  <2>. DEFINE match == e.execute[1]
              matching(g) == {n \in Nodes(collection) : collection.parent[n] = g
                                                        /\ Matches(collection, n, match)}
              groups == {g \in {0} \union Nodes(collection) : matching(g) # {}}
  <2>3. \A g : MatchingIn(collection, match, g) = matching(g)
    BY DEF MatchingIn, Children, Parent
  <2>4. AnswersFirst(collection, match, a)
    <3>. HIDE DEF e
    <3>. QED BY <2>1, <2>2, FirstAnswer
  <2>5. Obeyed(a) BY AnswerObeyed
  <2>. HIDE DEF a
  <2>6. IF groups = {} THEN phase' = "refused"
        ELSE items' = FlattenNode(collection, Min(matching(Min(groups))))
    <3>1. groups = {g \in {0} \union Nodes(collection) : MatchingIn(collection, match, g) # {}}
      BY <2>3
    <3>2. CASE groups = {}
      <4>1. a.error BY <2>4, <3>1, <3>2 DEF AnswersFirst
      <4>. QED BY <2>5, <3>2, <4>1 DEF Obeyed
    <3>3. CASE groups # {}
      <4>1. a = Answer(FlattenNode(collection,
                                   Min(MatchingIn(collection, match, Min(groups)))), TRUE)
        BY <2>4, <3>1, <3>3 DEF AnswersFirst
      <4>2. MatchingIn(collection, match, Min(groups)) = matching(Min(groups)) BY <2>3
      <4>. HIDE DEF groups, matching
      <4>3. ~a.error /\ a.entry
            /\ a.items = FlattenNode(collection, Min(MatchingIn(collection, match, Min(groups))))
        BY <4>1 DEF Answer
      <4>4. items' = FlattenNode(collection, Min(matching(Min(groups))))
        BY <2>5, <4>2, <4>3 DEF Obeyed
      <4>. QED BY <3>3, <4>4
    <3>. QED BY <3>2, <3>3
  <2>. QED BY <1>2, <2>2, <2>6 DEF FirstMatch
<1>. QED BY <1>1, <1>2, OptionsKept

LEMMA FirstMatchKept == Asked /\ FirstMatch /\ [RunnerNext]_runnerVars => FirstMatch'
<1>. SUFFICES ASSUME Asked, FirstMatch, [RunnerNext]_runnerVars PROVE FirstMatch'
  OBVIOUS
<1>1. CASE RunCollection BY <1>1, FirstMatchFound
<1>2. CASE StartRun
  <2>1. /\ collection' = collection /\ options' = options /\ items' = items
        /\ phase \notin {"asked", "refused"}
    BY <1>2 DEF StartRun
  <2>. QED BY <2>1 DEF FirstMatch
<1>3. CASE Partition \/ UNCHANGED runnerVars
  <2>1. collection' = collection /\ options' = options /\ items' = items /\ phase' = phase
    BY <1>3 DEF Partition, runnerVars
  <2>. QED BY <2>1 DEF FirstMatch
<1>. QED BY <1>1, <1>2, <1>3 DEF RunnerNext

(* The entry point of a run by id or name is the first node that matches in *)
(* the folder nearest to the start of the collection that lists one, for    *)
(* every collection: a node further down never hides one its folder lists.  *)
THEOREM RunsFirstMatch == RunnerSpec => []FirstMatch
<1>1. RunnerInit => FirstMatch BY DEF RunnerInit, FirstMatch
<1>. QED BY <1>1, AskedInv, FirstMatchKept, PTL DEF RunnerSpec

(***************************************************************************)
(* Several entry points                                                    *)
(***************************************************************************)

RunsEntrypoints == Unambiguous(collection) => EntrypointsRun

(* The same of several entry points.                                        *)
LEMMA EntrypointsFound == Asked /\ RunCollection => RunsEntrypoints'
<1>. SUFFICES ASSUME Asked, RunCollection PROVE RunsEntrypoints'
  OBVIOUS
<1>. DEFINE e == options.entrypoint
            a == ExtractRunnableItems(collection, e)
            targets == Targets(e)
<1>1. CASE options'.entrypoint.strategy = "path"
  BY <1>1 DEF RunsEntrypoints, EntrypointsRun, Many
<1>2. CASE options' = options
  <2>0. collection' = collection BY DEF RunCollection
  <2>1. SUFFICES ASSUME Many, Unambiguous(collection) PROVE EntrypointsRun'
    BY <1>2, <2>0 DEF RunsEntrypoints, EntrypointsRun, Many, Unambiguous
  <2>2. /\ IsWalked(collection)
        /\ e # Missing /\ IsEntrypoint(e) /\ e.array /\ e.execute # <<>>
        /\ e.strategy \in {"multipleIdOrName", "followOrder"}
    <3>1. collection \in Collections /\ options \in Options(collection) BY DEF Asked, RunCollection
    <3>. QED BY <2>1, <3>1, CollectionsAssumption, OptionsAssumption DEF Many
  <2>3. AnswersMany(collection, ToSet(e.execute), a)
    <3>. HIDE DEF e
    <3>. QED BY <2>1, <2>2, ManyAnswer
  <2>4. IF \E x \in DOMAIN targets : targets[x] = {} THEN a.error
        ELSE /\ ~a.error /\ a.entry
             /\ ToSet(a.items) = UNION {UNION {ToSet(FlattenNode(collection, n)) : n \in targets[x]}
                                           : x \in DOMAIN targets}
    <3>. HIDE DEF e, a
    <3>. QED BY <2>1, <2>2, <2>3, AnswerRuns
  <2>5. Obeyed(a) BY AnswerObeyed
  <2>6. Targets(e)' = targets BY <1>2, <2>0 DEF Targets
  <2>. HIDE DEF a, targets
  <2>7. IF \E x \in DOMAIN targets : targets[x] = {} THEN phase' = "refused"
        ELSE /\ phase' # "refused"
             /\ ToSet(items') = UNION {UNION {ToSet(FlattenNode(collection, n)) : n \in targets[x]}
                                          : x \in DOMAIN targets}
    BY <2>4, <2>5 DEF Obeyed
  <2>. QED BY <2>0, <2>6, <2>7 DEF EntrypointsRun
<1>. QED BY <1>1, <1>2, OptionsKept

LEMMA EntrypointsKept == Asked /\ RunsEntrypoints /\ [RunnerNext]_runnerVars => RunsEntrypoints'
<1>. SUFFICES ASSUME Asked, RunsEntrypoints, [RunnerNext]_runnerVars PROVE RunsEntrypoints'
  OBVIOUS
<1>1. CASE RunCollection BY <1>1, EntrypointsFound
<1>2. CASE StartRun \/ Partition \/ UNCHANGED runnerVars
  <2>1. /\ collection' = collection /\ options' = options /\ items' = items
        /\ \/ phase' = phase
           \/ phase \notin {"asked", "refused"} /\ phase' \notin {"asked", "refused"}
    BY <1>2 DEF StartRun, Partition, runnerVars
  <2>2. Targets(options.entrypoint)' = Targets(options.entrypoint) BY <2>1 DEF Targets
  <2>3. EntrypointsRun => EntrypointsRun' BY <2>1, <2>2 DEF EntrypointsRun, Many
  <2>. QED BY <2>1, <2>3 DEF RunsEntrypoints, Unambiguous
<1>. QED BY <1>1, <1>2 DEF RunnerNext

(* With several entry points the run is refused exactly if one of them      *)
(* means no node, and else executes what is below those they mean and no    *)
(* other item, for every collection in which a name is not an id and not a  *)
(* name that every object answers to.                                       *)
THEOREM RunsAllEntrypoints == RunnerSpec => [](Unambiguous(collection) => EntrypointsRun)
<1>1. RunnerInit => RunsEntrypoints BY DEF RunnerInit, RunsEntrypoints, EntrypointsRun
<1>2. RunnerSpec => []RunsEntrypoints BY <1>1, AskedInv, EntrypointsKept, PTL DEF RunnerSpec
<1>. QED BY <1>2, PTL DEF RunsEntrypoints
(* The nodes that the entry points mean; where one is inside another, so is *)
(* the folder that lists it.                                                *)
Targeted ==
    UNION {Targets(options.entrypoint)[e] : e \in ToSet(options.entrypoint.execute)}

NestedDirectly ==
    \A m, n \in Targeted : m # n /\ Below(collection, n, m) => Parent(collection, n) \in Targeted

(* The search sees it so.                                                   *)
LEMMA TargetedAreHit ==
    ASSUME IsWalked(collection), Unambiguous(collection), NestedDirectly
    PROVE  Direct(collection, ToSet(options.entrypoint.execute))
<1>. DEFINE entrypoint == options.entrypoint
            X == ToSet(entrypoint.execute)
            H == Hits(collection, X, Len(collection.name))
            targets == Targets(entrypoint)
<1>1. \A e \in X : \A n : n \in targets[e] <=> n \in H /\ KeyOf(collection, X, n) = e
  <2>. HIDE DEF entrypoint
  <2>. QED BY TargetsHit
<1>2. \A n \in H : KeyOf(collection, X, n) \in X BY DEF Hits, IsHit, KeyOf
<1>3. Targeted = UNION {targets[e] : e \in X} BY DEF Targeted
<1>. HIDE DEF X, H, targets
<1>4. \A n : n \in Targeted <=> n \in H BY <1>1, <1>2, <1>3
<1>. QED BY <1>4 DEF NestedDirectly, Direct, H, X

RunsOnce == Unambiguous(collection) /\ NestedDirectly => NoneTwice

LEMMA OnceFound == Asked /\ RunCollection => RunsOnce'
<1>. SUFFICES ASSUME Asked, RunCollection PROVE RunsOnce'
  OBVIOUS
<1>. DEFINE e == options.entrypoint
            a == ExtractRunnableItems(collection, e)
<1>1. CASE options'.entrypoint.strategy = "path"
  BY <1>1 DEF RunsOnce, NoneTwice, Many
<1>2. CASE options' = options
  <2>0. collection' = collection BY DEF RunCollection
  <2>1. Targets(e)' = Targets(e) BY <1>2, <2>0 DEF Targets
  <2>2. SUFFICES ASSUME Many, Unambiguous(collection), NestedDirectly, IsInjective(e.execute)
                 PROVE  IsInjective(items')
    <3>1. NestedDirectly' = NestedDirectly BY <1>2, <2>0, <2>1 DEF NestedDirectly, Targeted
    <3>. QED BY <1>2, <2>0, <3>1 DEF RunsOnce, NoneTwice, Many, Unambiguous
  <2>3. /\ IsWalked(collection) /\ items = <<>>
        /\ e # Missing /\ IsEntrypoint(e) /\ e.array /\ e.execute # <<>>
        /\ e.strategy \in {"multipleIdOrName", "followOrder"}
    <3>1. collection \in Collections /\ options \in Options(collection) /\ items = <<>>
      BY DEF Asked, RunCollection
    <3>. QED BY <2>2, <3>1, CollectionsAssumption, OptionsAssumption DEF Many
  <2>4. Direct(collection, ToSet(e.execute)) BY <2>2, <2>3, TargetedAreHit
  <2>5. ~a.error => IsInjective(a.items)
    <3>. HIDE DEF e
    <3>. QED BY <2>2, <2>3, <2>4, ManyAnswer DEF a
  <2>6. IsInjective(<<>>) BY DEF IsInjective
  <2>7. a.error => items' = items
    BY DEF RunCollection
  <2>8. items' \in {items, a.items} BY AnswerObeyed DEF Obeyed
  <2>. HIDE DEF a
  <2>. QED BY <2>3, <2>5, <2>6, <2>7, <2>8
<1>. QED BY <1>1, <1>2, OptionsKept

LEMMA OnceKept == Asked /\ RunsOnce /\ [RunnerNext]_runnerVars => RunsOnce'
<1>. SUFFICES ASSUME Asked, RunsOnce, [RunnerNext]_runnerVars PROVE RunsOnce'
  OBVIOUS
<1>1. CASE RunCollection BY <1>1, OnceFound
<1>2. CASE StartRun \/ Partition \/ UNCHANGED runnerVars
  <2>1. collection' = collection /\ options' = options /\ items' = items
    BY <1>2 DEF StartRun, Partition, runnerVars
  <2>2. Targets(options.entrypoint)' = Targets(options.entrypoint) BY <2>1 DEF Targets
  <2>3. NestedDirectly' = NestedDirectly BY <2>1, <2>2 DEF NestedDirectly, Targeted
  <2>. QED BY <2>1, <2>3 DEF RunsOnce, Unambiguous, NoneTwice, Many
<1>. QED BY <1>1, <1>2 DEF RunnerNext

(* No item is executed twice because two of several entry points, which are *)
(* different, have it, if the folder that lists an entry point inside       *)
(* another is one of them too: what the code looks at is that folder alone. *)
THEOREM RunsNothingTwice ==
    RunnerSpec => [](Unambiguous(collection) /\ NestedDirectly => NoneTwice)
<1>1. RunnerInit => RunsOnce
  BY DEF RunnerInit, RunsOnce, NoneTwice, IsInjective
<1>2. RunnerSpec => []RunsOnce BY <1>1, AskedInv, OnceKept, PTL DEF RunnerSpec
<1>. QED BY <1>2, PTL DEF RunsOnce

(***************************************************************************)
(* The division of the iterations of a run                                 *)
(***************************************************************************)

(* Until the loop begins nothing is created.                                *)
Counted ==
    /\ iterationCount \in Nat /\ maxConcurrency \in Nat \ {0}
    /\ phase # "parallel" => Before

LEMMA CountedInit == RunnerInit => Counted
<1>. SUFFICES ASSUME RunnerInit PROVE Counted
  OBVIOUS
<1>1. options.iterationCount \in Nat /\ options.maxConcurrency \in Nat \ {0}
  BY OptionsAssumption DEF RunnerInit
<1>. QED BY <1>1 DEF RunnerInit, Counted, Before

LEMMA CountedNext == Asked /\ Counted /\ [RunnerNext]_runnerVars => Counted'
<1>. SUFFICES ASSUME Asked, Counted, [RunnerNext]_runnerVars PROVE Counted'
  OBVIOUS
<1>1. CASE RunCollection
  <2>1. options.data \in Nat
    <3>1. collection \in Collections /\ options \in Options(collection)
      BY <1>1 DEF Asked, RunCollection
    <3>. QED BY <3>1, OptionsAssumption
  <2>. QED BY <1>1, <2>1 DEF RunCollection, Counted, Before
<1>2. CASE StartRun BY <1>2 DEF StartRun, Counted, Before
<1>3. CASE Partition BY <1>3 DEF Partition, CreatePartition, Counted
<1>4. CASE UNCHANGED runnerVars BY <1>4 DEF runnerVars, vars, Counted, Before
<1>. QED BY <1>1, <1>2, <1>3, <1>4 DEF RunnerNext

LEMMA CountedInv == RunnerSpec => []Counted
BY CountedInit, CountedNext, AskedInv, PTL DEF RunnerSpec

(* The runner hands the loop the numbers it starts from.                    *)
LEMMA RunLoop ==
    Counted /\ Counted' /\ (Before => LoopInv)' /\ LoopInv /\ [RunnerNext]_runnerVars => LoopInv'
<1>. SUFFICES ASSUME Counted, Counted', (Before => LoopInv)', LoopInv, [RunnerNext]_runnerVars
              PROVE  LoopInv'
  OBVIOUS
<1>1. CASE phase' # "parallel" BY <1>1 DEF Counted
<1>2. CASE phase' = "parallel"
  <2>1. CASE RunCollection BY <1>2, <2>1 DEF RunCollection
  <2>2. CASE StartRun
    <3>1. UNCHANGED vars BY <1>2, <2>2 DEF StartRun, vars
    <3>. QED BY <3>1, NextLoop
  <2>3. CASE Partition \/ UNCHANGED runnerVars
    <3>1. [Next]_vars BY <2>3 DEF Partition, Next, runnerVars
    <3>. QED BY <3>1, NextLoop
  <2>. QED BY <2>1, <2>2, <2>3 DEF RunnerNext
<1>. QED BY <1>1, <1>2

LEMMA RunLoopInv == RunnerSpec => []LoopInv
<1>1. RunnerInit => LoopInv BY CountedInit, BeforeLoop DEF RunnerInit, Counted
<1>. QED BY <1>1, CountedInv, BeforeLoop, RunLoop, PTL DEF RunnerSpec

(* Whatever the options of a run, the iterations of its partitions are      *)
(* those of the run: each in one partition, of sizes that differ by at most *)
(* one, at the index they are found under.                                  *)
THEOREM RunIsDivided == RunnerSpec => []Divided
<1>1. LoopInv => Divided BY LoopIsDivision
<1>. QED BY <1>1, RunLoopInv, PTL
=============================================================================
