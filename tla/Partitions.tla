----------------------------- MODULE Partitions -----------------------------
(***************************************************************************)
(* How createPartitions of lib/runner/partition-manager.js divides the      *)
(* iterations of a run: partition i (from 0) runs Size(i) iterations from   *)
(* StartIndex(i) on.  The closed form of StartIndex is what the loop of the *)
(* code adds up to (module CreatePartitions).                               *)
(***************************************************************************)
LOCAL INSTANCE Integers

Lesser(m, n) == IF m <= n THEN m ELSE n

(* One partition for each unit of concurrency, and none without iterations. *)
Concurrency(iterationCount, maxConcurrency) == Lesser(maxConcurrency, iterationCount)

(* cyclesPerPartition, and one more while there are remainingCycles.        *)
Size(iterationCount, maxConcurrency, i) ==
    (iterationCount \div maxConcurrency)
        + (IF i < iterationCount % maxConcurrency THEN 1 ELSE 0)

StartIndex(iterationCount, maxConcurrency, i) ==
    i * (iterationCount \div maxConcurrency)
        + Lesser(i, iterationCount % maxConcurrency)
=============================================================================
