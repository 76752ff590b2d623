-------------------------- MODULE CreatePartitions --------------------------
(***************************************************************************)
(* The loop of createPartitions in lib/runner/partition-manager.js, one     *)
(* step for each turn, for any number of iterations and any concurrency.    *)
(* A partition is abstracted to the iterations it is given.                 *)
(***************************************************************************)
EXTENDS Integers, Sequences, Partitions

CONSTANTS Iterations,    \* the values iterationCount may have
          Concurrencies  \* the values maxConcurrency may have

ASSUME IterationsAssumption == Iterations \subseteq Nat
ASSUME ConcurrenciesAssumption == Concurrencies \subseteq Nat \ {0}

VARIABLES iterationCount, maxConcurrency,
          i,               \* the turn of the loop
          startIteration,  \* of the next partition
          partitions       \* those created so far

vars == <<iterationCount, maxConcurrency, i, startIteration, partitions>>

concurrency == Concurrency(iterationCount, maxConcurrency)

Init ==
    /\ iterationCount \in Iterations
    /\ maxConcurrency \in Concurrencies
    /\ i = 0
    /\ startIteration = 0
    /\ partitions = <<>>

(* Mutant: startIteration is not advanced.                                  *)
CreateWithoutAdvance ==
    /\ i < concurrency
    /\ i' = i + 1
    /\ partitions' = Append(partitions, [ startIndex |-> startIteration,
                                          cycles |-> Size(iterationCount, maxConcurrency, i) ])
    /\ UNCHANGED <<iterationCount, maxConcurrency, startIteration>>

CreatePartition ==
    /\ i < concurrency
    /\ i' = i + 1
    /\ LET partitionSize == Size(iterationCount, maxConcurrency, i)
       IN  IF partitionSize <= 0
           THEN UNCHANGED <<startIteration, partitions>>
           ELSE /\ partitions' = Append(partitions,
                                        [startIndex |-> startIteration, cycles |-> partitionSize])
                /\ startIteration' = startIteration + partitionSize
    /\ UNCHANGED <<iterationCount, maxConcurrency>>

Next == CreatePartition

Spec == Init /\ [][Next]_vars
-----------------------------------------------------------------------------
TypeOK ==
    /\ iterationCount \in Nat /\ maxConcurrency \in Nat \ {0}
    /\ i \in Nat /\ startIteration \in Nat
    /\ partitions \in Seq([startIndex : Nat, cycles : Nat])

Has(partition, iteration) ==
    partition.startIndex <= iteration /\ iteration < partition.startIndex + partition.cycles

(* Once the loop is done, every iteration of the run belongs to a partition *)
(* and to no other, and no partition has an iteration beyond the run: none  *)
(* is lost between two partitions, and none executes twice.                 *)
Divides ==
    i = concurrency =>
        /\ \A n \in 0 .. iterationCount - 1 : \E k \in DOMAIN partitions : Has(partitions[k], n)
        /\ \A j, k \in DOMAIN partitions : j < k =>
              partitions[j].startIndex + partitions[j].cycles <= partitions[k].startIndex
        /\ \A k \in DOMAIN partitions :
              partitions[k].startIndex + partitions[k].cycles <= iterationCount

(* The division is as even as it can be, and uses all the concurrency there *)
(* is work for: every turn of the loop makes a partition, of a size that    *)
(* differs by at most one from any other.                                   *)
Even ==
    /\ Len(partitions) = i
    /\ \A j, k \in DOMAIN partitions : partitions[j].cycles <= partitions[k].cycles + 1

(* The index the partition manager finds a partition under is that of the   *)
(* loop, and the partition has the iterations that Partitions says.         *)
AsInPartitions ==
    \A k \in DOMAIN partitions :
        partitions[k] = [ startIndex |-> StartIndex(iterationCount, maxConcurrency, k - 1),
                          cycles |-> Size(iterationCount, maxConcurrency, k - 1) ]

(* createPartitions divides the iterations of the run without loss or       *)
(* overlap, evenly, and as the partitions are found later.                  *)
Divided == Divides /\ Even /\ AsInPartitions
=============================================================================
