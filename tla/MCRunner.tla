------------------------------ MODULE MCRunner ------------------------------
(***************************************************************************)
(* Collections and options for Runner: with every collection of up to four  *)
(* nodes every entry point of up to two ids or names and one iteration;     *)
(* with one collection every number of iterations, rows and partitions.     *)
(***************************************************************************)
EXTENDS Runner, TLC

CONSTANTS I1, I2, I3, I4, A, B

MCIds == <<I1, I2, I3, I4>>
MCRefs(size) == {MCIds[n] : n \in 1 .. size} \union {A, B}

(* A node is in the folder of the node before it, or in one around that, or *)
(* in that node itself.                                                     *)
IsTree(parent, kind) ==
    /\ parent[1] = 0
    /\ \A n \in 2 .. Len(parent) :
          \/ parent[n] = n - 1
          \/ \E m \in 1 .. n - 1 : /\ parent[n] = parent[m]
                                   /\ \A k \in m + 1 .. n - 1 : parent[k] >= m
    /\ \A n \in 1 .. Len(parent) : parent[n] # 0 => kind[parent[n]] = "group"

MCCollections ==
    UNION {{[parent |-> parent, kind |-> kind, name |-> name] :
               <<parent, kind>> \in {pk \in [1 .. size -> 0 .. size - 1] \X [1 .. size -> {"group", "item"}] :
                                        IsTree(pk[1], pk[2])},
               name \in {nm \in [1 .. size -> {A, B}] : nm[1] = A}} : size \in 1 .. 4}

MCEntrypoints(size) ==
    LET refs == MCRefs(size)
        upTo(k) == UNION {[1 .. m -> refs] : m \in 0 .. k}
        One(strategy, path, execute) ==
            [strategy |-> strategy, path |-> path, execute |-> execute,
             array |-> FALSE, preserveOrder |-> FALSE]
        All(strategy, execute, preserveOrder) ==
            [strategy |-> strategy, path |-> Missing, execute |-> execute,
             array |-> TRUE, preserveOrder |-> preserveOrder]
    IN  {Missing}
        \union {One(s, Missing, e) : s \in {"idOrName", "multipleIdOrName", "unknown"}, e \in upTo(1)}
        \union {One("path", p, e) : p \in upTo(1) \union {Missing}, e \in upTo(1)}
        \union {All("idOrName", e, FALSE) : e \in upTo(1)}
        \union {All("path", e, FALSE) : e \in upTo(2)}
        \union {All("followOrder", e, FALSE) : e \in upTo(2)}
        \union {All("multipleIdOrName", e, b) : e \in upTo(2), b \in BOOLEAN}

Plain == [entrypoint |-> Missing, abortOnError |-> FALSE, data |-> 1,
          customParallelIterations |-> FALSE, iterationCount |-> 1, maxConcurrency |-> 1]

(* The collection all the numbers are tried with.                           *)
OneItem == [parent |-> <<0>>, kind |-> <<"item">>, name |-> <<A>>]

MCIterations == 0 .. 12
MCConcurrencies == 1 .. 14

MCOptions(c) ==
    {[Plain EXCEPT !.entrypoint = e] : e \in MCEntrypoints(Len(c.name))}
    \union (IF c # OneItem THEN {}
            ELSE {[Plain EXCEPT !.entrypoint = IF b THEN [strategy |-> "idOrName", path |-> Missing,
                                                          execute |-> <<>>, array |-> FALSE,
                                                          preserveOrder |-> FALSE]
                                               ELSE Missing,
                                !.abortOnError = b, !.customParallelIterations = custom,
                                !.data = d, !.iterationCount = n, !.maxConcurrency = m] :
                     b \in BOOLEAN, custom \in BOOLEAN, d \in {0, 1, 5}, n \in MCIterations,
                     m \in MCConcurrencies})
=============================================================================
