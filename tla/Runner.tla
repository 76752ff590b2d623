------------------------------- MODULE Runner -------------------------------
(***************************************************************************)
(* lib/runner/index.js: a runner takes a collection and the options of a    *)
(* run, extracts the items, settles how many iterations there are and makes *)
(* the Run.  Then the first lines of Run.start and createPartitions, which  *)
(* settle which iterations are executed where.                              *)
(***************************************************************************)
EXTENDS CreatePartitions, Extraction

CONSTANTS Collections,     \* the collections a host may run
          Options(_)       \* the options it may give with a collection: its
                           \* entrypoint, abortOnError, the length of data (1
                           \* if it is not an array), customParallelIterations,
                           \* iterationCount (0: not given) and maxConcurrency
                           \* (1: not given)

(* An entry point is an id or name, or a list of them; undefined is none.   *)
IsEntrypoint(entrypoint) ==
    /\ entrypoint \in [ strategy : STRING, path : {entrypoint.path},
                        execute : Seq(ToSet(entrypoint.execute)),
                        array : BOOLEAN, preserveOrder : BOOLEAN ]
    /\ Missing \notin ToSet(entrypoint.execute)

ASSUME CollectionsAssumption ==
    \A c \in Collections : IsWalked(c)

ASSUME OptionsAssumption ==
    \A c \in Collections : \A o \in Options(c) :
        /\ o \in [ entrypoint : {o.entrypoint}, abortOnError : BOOLEAN, data : Nat,
                   customParallelIterations : BOOLEAN, iterationCount : Nat,
                   maxConcurrency : Nat \ {0} ]
        /\ o.entrypoint = Missing \/ IsEntrypoint(o.entrypoint)

VARIABLES collection, options,
          phase,           \* "asked", then "refused" or "made", and after
                           \* start "sequential", "parallel" or "custom"
          items            \* Run.state.items

runnerVars == <<vars, collection, options, phase, items>>

RunnerInit ==
    /\ collection \in Collections
    /\ options \in Options(collection)
    /\ phase = "asked"
    /\ items = <<>>
    /\ iterationCount = options.iterationCount
    /\ maxConcurrency = options.maxConcurrency
    /\ i = 0 /\ startIteration = 0 /\ partitions = <<>>

(* lookupByPath pushes execute onto the path in the host's options.         *)
OptionsAfter ==
    LET entrypoint == options.entrypoint
    IN  IF entrypoint # Missing /\ entrypoint.strategy = "path" /\ entrypoint.path # Missing
        THEN [options EXCEPT !.entrypoint.path = LookupPath(entrypoint)]
        ELSE options

(* Runner.run: an entry point that leads nowhere is an error, and no entry  *)
(* point one with abortOnError only.                                        *)
RunCollection ==
    /\ phase = "asked"
    /\ options' = OptionsAfter
    /\ LET answer == ExtractRunnableItems(collection, options.entrypoint)
       IN  IF answer.error \/ (options.abortOnError /\ ~answer.entry)
           THEN phase' = "refused" /\ UNCHANGED <<items, iterationCount>>
           ELSE /\ phase' = "made"
                /\ items' = answer.items
                /\ iterationCount' = IF iterationCount = 0 THEN options.data ELSE iterationCount
    /\ UNCHANGED <<collection, maxConcurrency, i, startIteration, partitions>>

(* Run.start: custom iterations are one iteration, of which any number of   *)
(* copies is started later, each in a partition made for it.                *)
StartRun ==
    /\ phase = "made"
    /\ IF options.customParallelIterations
       THEN iterationCount' = 1 /\ maxConcurrency' = 1 /\ phase' = "custom"
       ELSE /\ phase' = IF maxConcurrency > 1 THEN "parallel" ELSE "sequential"
            /\ UNCHANGED <<iterationCount, maxConcurrency>>
    /\ UNCHANGED <<collection, options, items, i, startIteration, partitions>>

Partition ==
    /\ phase = "parallel"
    /\ CreatePartition
    /\ UNCHANGED <<collection, options, phase, items>>

RunnerNext == RunCollection \/ StartRun \/ Partition

RunnerSpec == RunnerInit /\ [][RunnerNext]_runnerVars
-----------------------------------------------------------------------------
(* The node an entry point means: the one with that id, else the first of   *)
(* that name which is not another entry point's by its id.                  *)
Targets(entrypoint) ==
    [e \in ToSet(entrypoint.execute) |->
        LET byId == {n \in Nodes(collection) : Ids[n] = e}
            byName == {n \in Nodes(collection) : /\ collection.name[n] = e
                                                 /\ Ids[n] \notin ToSet(entrypoint.execute)}
        IN  IF byId # {} THEN byId ELSE IF byName = {} THEN {} ELSE {Min(byName)}]

Many ==
    /\ options.entrypoint # Missing
    /\ options.entrypoint.array /\ options.entrypoint.execute # <<>>
    /\ options.entrypoint.strategy \in {"multipleIdOrName", "followOrder"}

(* With several entry points the run is refused exactly if one of them      *)
(* leads nowhere, and else executes what is below them and nothing more,    *)
(* although the search stops once it has found them all, and follows only   *)
(* the outermost of those that are inside one another.                      *)
EntrypointsRun ==
    Many /\ phase # "asked" =>
        LET targets == Targets(options.entrypoint)
        IN  IF \E e \in DOMAIN targets : targets[e] = {} THEN phase = "refused"
            ELSE /\ phase # "refused"
                 /\ ToSet(items) = UNION {UNION {ToSet(FlattenNode(collection, n)) : n \in targets[e]}
                                             : e \in DOMAIN targets}

(* An entry point by id or name is the first node that matches in the       *)
(* folder nearest to the start of the collection that has one, the          *)
(* collection itself first: a node further down never hides one that its    *)
(* folder lists.                                                            *)
FirstMatch ==
    LET entrypoint == options.entrypoint
    IN  entrypoint # Missing /\ entrypoint.strategy = "idOrName" /\ ~entrypoint.array
            /\ entrypoint.execute # <<>> /\ phase # "asked" =>
          LET matching(group) == {n \in Nodes(collection) :
                                     /\ collection.parent[n] = group
                                     /\ Matches(collection, n, entrypoint.execute[1])}
              groups == {group \in {0} \union Nodes(collection) : matching(group) # {}}
          IN  IF groups = {} THEN phase = "refused"
              ELSE items = FlattenNode(collection, Min(matching(Min(groups))))

(* No item is executed twice in an iteration because two of the entry       *)
(* points, which are different, have it, one inside the other.              *)
NoneTwice ==
    Many /\ IsInjective(options.entrypoint.execute) => IsInjective(items)
=============================================================================
