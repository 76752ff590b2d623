-------------------------- MODULE Partitions_proofs --------------------------
(***************************************************************************)
(* The arithmetic of Partitions, for any number m of iterations and any     *)
(* concurrency n.                                                           *)
(***************************************************************************)
EXTENDS Integers, Partitions, TLAPS

(* What is known of the quotient and the remainder.                         *)
LEMMA Division ==
    ASSUME NEW m \in Nat, NEW n \in Nat \ {0}
    PROVE  /\ m \div n \in Nat
           /\ m % n \in 0 .. n - 1
           /\ m = n * (m \div n) + (m % n)
           /\ m < n => m \div n = 0 /\ m % n = m
           /\ n <= m => m \div n > 0
<1>1. m \div n \in Nat /\ m % n \in 0 .. n - 1 /\ m = n * (m \div n) + (m % n)
    BY SMT
<1>2. m < n => m \div n = 0 /\ m % n = m
    BY SMT
<1>3. n <= m => m \div n > 0
    <2>1. SUFFICES ASSUME n <= m, m \div n = 0 PROVE FALSE
        BY <1>1
    <2>2. n * (m \div n) = 0
        BY <2>1
    <2>3. m < n
        BY <1>1, <2>2
    <2> QED
        BY <2>1, <2>3
<1> QED
    BY <1>1, <1>2, <1>3

(* A partition that is created has iterations.                              *)
LEMMA SizePositive ==
    ASSUME NEW m \in Nat, NEW n \in Nat \ {0}, NEW k \in Nat, k < Concurrency(m, n)
    PROVE  Size(m, n, k) \in Nat \ {0}
<1>1. CASE m < n
    BY SMTT(30), <1>1, Division DEF Concurrency, Lesser, Size
<1>2. CASE n <= m
    BY <1>2, Division DEF Concurrency, Lesser, Size
<1> QED
    BY <1>1, <1>2

(* The partitions follow each other without gap or overlap...               *)
LEMMA StartFollows ==
    ASSUME NEW m \in Nat, NEW n \in Nat \ {0}, NEW k \in Nat
    PROVE  /\ StartIndex(m, n, 0) = 0
           /\ StartIndex(m, n, k) \in Nat
           /\ StartIndex(m, n, k + 1) = StartIndex(m, n, k) + Size(m, n, k)
<1> DEFINE q == m \div n
           r == m % n
<1>1. q \in Nat /\ r \in Nat
    BY Division
<1> HIDE DEF q, r
<1>2. (k + 1) * q = k * q + q /\ k * q \in Nat /\ 0 * q = 0
    BY <1>1
<1>3. StartIndex(m, n, 0) = 0 * q + Lesser(0, r)
    BY DEF StartIndex, q, r
<1>4. StartIndex(m, n, k) = k * q + Lesser(k, r)
    BY DEF StartIndex, q, r
<1>5. StartIndex(m, n, k + 1) = (k + 1) * q + Lesser(k + 1, r)
    BY DEF StartIndex, q, r
<1>6. Size(m, n, k) = q + (IF k < r THEN 1 ELSE 0)
    BY DEF Size, q, r
<1> QED
    BY <1>1, <1>2, <1>3, <1>4, <1>5, <1>6 DEF Lesser

(* ...and after the last one there is no iteration left.                    *)
LEMMA StartOfAll ==
    ASSUME NEW m \in Nat, NEW n \in Nat \ {0}
    PROVE  StartIndex(m, n, Concurrency(m, n)) = m
<1>1. CASE m < n
    <2>1. Concurrency(m, n) = m /\ m \div n = 0 /\ m % n = m
        BY <1>1, Division DEF Concurrency, Lesser
    <2> QED
        BY <2>1 DEF StartIndex, Lesser
<1>2. CASE n <= m
    <2>1. Concurrency(m, n) = n
        BY <1>2 DEF Concurrency, Lesser
    <2>2. Lesser(n, m % n) = m % n
        BY Division DEF Lesser
    <2> QED
        BY <2>1, <2>2, Division DEF StartIndex
<1> QED
    BY <1>1, <1>2

LEMMA StartIsMonotonic ==
    ASSUME NEW m \in Nat, NEW n \in Nat \ {0}, NEW j \in Nat, NEW k \in Nat, j <= k
    PROVE  StartIndex(m, n, j) <= StartIndex(m, n, k)
<1> DEFINE q == m \div n
           r == m % n
<1>1. q \in Nat /\ r \in Nat
    BY Division
<1> HIDE DEF q, r
<1>2. PICK d \in Nat : k = j + d
    <2>1. k - j \in Nat /\ k = j + (k - j)
        OBVIOUS
    <2> QED
        BY <2>1
<1>3. k * q = j * q + d * q /\ d * q \in Nat /\ j * q \in Nat
    BY <1>1, <1>2
<1>4. StartIndex(m, n, j) = j * q + Lesser(j, r) /\ StartIndex(m, n, k) = k * q + Lesser(k, r)
    BY DEF StartIndex, q, r
<1>5. Lesser(j, r) <= Lesser(k, r) /\ Lesser(j, r) \in Nat /\ Lesser(k, r) \in Nat
    BY <1>1 DEF Lesser
<1> QED
    BY <1>3, <1>4, <1>5

(* A partition ends before the next begins, and within the run.             *)
LEMMA PartitionsAreDisjoint ==
    ASSUME NEW m \in Nat, NEW n \in Nat \ {0}, NEW j \in Nat, NEW k \in Nat, j < k
    PROVE  StartIndex(m, n, j) + Size(m, n, j) <= StartIndex(m, n, k)
<1>1. StartIndex(m, n, j + 1) <= StartIndex(m, n, k)
    BY StartIsMonotonic
<1> QED
    BY <1>1, StartFollows

LEMMA PartitionsAreInRun ==
    ASSUME NEW m \in Nat, NEW n \in Nat \ {0}, NEW k \in Nat, k < Concurrency(m, n)
    PROVE  StartIndex(m, n, k) + Size(m, n, k) <= m
<1>1. Concurrency(m, n) \in Nat
    BY DEF Concurrency, Lesser
<1> QED
    BY <1>1, PartitionsAreDisjoint, StartOfAll

(* Every iteration of the run is of some partition: of one of those that    *)
(* take a remaining cycle, or of one after them.                            *)
LEMMA PartitionsCover ==
    ASSUME NEW m \in Nat, NEW n \in Nat \ {0}, NEW x \in 0 .. m - 1
    PROVE  \E k \in 0 .. Concurrency(m, n) - 1 :
              /\ StartIndex(m, n, k) <= x
              /\ x < StartIndex(m, n, k) + Size(m, n, k)
<1> DEFINE q == m \div n
           r == m % n
<1>1. /\ q \in Nat /\ r \in Nat /\ r < n /\ m = n * q + r
      /\ m < n => q = 0 /\ r = m
    BY Division
<1>2. \A k : StartIndex(m, n, k) = k * q + Lesser(k, r)
    BY DEF StartIndex, q, r
<1>3. \A k : Size(m, n, k) = q + (IF k < r THEN 1 ELSE 0)
    BY DEF Size, q, r
<1> HIDE DEF q, r
<1>4. CASE x < r * (q + 1)
    <2> DEFINE k == x \div (q + 1)
               s == x % (q + 1)
    <2>1. k \in Nat /\ s \in 0 .. q /\ x = (q + 1) * k + s
        <3>1. q + 1 \in Nat \ {0} /\ x \in Nat
            BY <1>1
        <3>2. k \in Nat /\ s \in 0 .. (q + 1) - 1 /\ x = (q + 1) * k + s
            BY <3>1, Division
        <3> QED
            BY <1>1, <3>2
    <2> HIDE DEF k, s
    <2>2. (q + 1) * k = k * q + k /\ k * q \in Nat
        BY <1>1, <2>1
    <2>3. k < r
        <3> SUFFICES ASSUME r <= k PROVE FALSE
            BY <1>1, <2>1
        <3>1. k - r \in Nat /\ k = r + (k - r)
            BY <1>1, <2>1
        <3>2. PICK d \in Nat : k = r + d
            BY <3>1
        <3>3. (q + 1) * k = r * (q + 1) + (q + 1) * d /\ (q + 1) * d \in Nat
            BY <1>1, <3>2
        <3>4. r * (q + 1) \in Nat
            BY <1>1
        <3> QED
            BY <1>4, <2>1, <3>3, <3>4
    <2>4. StartIndex(m, n, k) = k * q + k /\ Size(m, n, k) = q + 1
        BY <1>1, <1>2, <1>3, <2>1, <2>3 DEF Lesser
    <2>5. k \in 0 .. Concurrency(m, n) - 1
        BY <1>1, <2>1, <2>3 DEF Concurrency, Lesser
    <2> QED
        BY <1>1, <2>1, <2>2, <2>4, <2>5
<1>5. CASE r * (q + 1) <= x
    <2>1. q > 0
        <3> SUFFICES ASSUME q = 0 PROVE FALSE
            BY <1>1
        <3>1. n * q = 0 /\ r * (q + 1) = r
            BY <1>1
        <3> QED
            BY <1>1, <1>5, <3>1
    <2>2. n <= m
        BY <1>1, <2>1
    <2> DEFINE y == x - r * (q + 1)
    <2>3. r * (q + 1) \in Nat /\ r * (q + 1) = r * q + r /\ r * q \in Nat
        BY <1>1
    <2>4. y \in Nat /\ x = r * q + r + y
        BY <1>5, <2>3
    <2> HIDE DEF y
    <2> DEFINE d == y \div q
               s == y % q
    <2>5. d \in Nat /\ s \in 0 .. q - 1 /\ y = q * d + s
        BY <1>1, <2>1, <2>4, Division
    <2> HIDE DEF d, s
    <2> DEFINE k == r + d
    <2>6. k \in Nat /\ r <= k /\ k * q = r * q + q * d /\ q * d \in Nat
        BY <1>1, <2>5
    <2> HIDE DEF k
    <2>7. StartIndex(m, n, k) = k * q + r /\ Size(m, n, k) = q
        <3>1. Lesser(k, r) = r /\ ~(k < r)
            BY <1>1, <2>6 DEF Lesser
        <3> QED
            BY <1>1, <1>2, <1>3, <3>1
    <2>8. k < n
        <3> SUFFICES ASSUME n <= k PROVE FALSE
            BY <2>6
        <3>1. k - n \in Nat /\ k = n + (k - n)
            BY <2>6
        <3>2. PICK e \in Nat : k = n + e
            BY <3>1
        <3>3. k * q = n * q + e * q /\ e * q \in Nat /\ n * q \in Nat
            BY <1>1, <3>2
        <3> QED
            BY <1>1, <2>3, <2>4, <2>5, <2>6, <3>3
    <2>9. k \in 0 .. Concurrency(m, n) - 1
        BY <2>2, <2>6, <2>8 DEF Concurrency, Lesser
    <2> QED
        BY <1>1, <2>3, <2>4, <2>5, <2>6, <2>7, <2>9
<1> QED
    <2>1. r * (q + 1) \in Nat
        BY <1>1
    <2> QED
        BY <1>4, <1>5, <2>1
=============================================================================
