----------------------------- MODULE Extraction -----------------------------
(***************************************************************************)
(* lib/runner/extract-runnable-items.js: the four strategies that turn the  *)
(* entry point of a run into the items it executes.                         *)
(*                                                                          *)
(* A collection has the nodes 1 .. Len(name), numbered as a walk of the     *)
(* tree meets them (a folder before what is in it); 0 is the collection     *)
(* itself.  parent[n] is the folder node n is in, and Ids[n] its id.        *)
(***************************************************************************)
EXTENDS Integers, Sequences, SequencesExt, FiniteSetsExt

CONSTANTS Ids,        \* the ids of the nodes: a sequence without repetitions
          Inherited,  \* names every object answers to (`constructor`)
          Missing     \* an option that was not given

ASSUME IdsAssumption ==
    /\ \A m, n \in DOMAIN Ids : Ids[m] = Ids[n] => m = n
    /\ Missing \notin ToSet(Ids)

Nodes(collection) == DOMAIN collection.name

IsGroup(collection, n) == n = 0 \/ collection.kind[n] = "group"

Parent(collection, n) == collection.parent[n]

(* A walk meets a folder before what is in it, and all of that before the   *)
(* next node of the folder it is in.                                        *)
IsWalked(collection) ==
    /\ collection.name \in Seq(ToSet(collection.name))
    /\ DOMAIN collection.name \subseteq DOMAIN Ids
    /\ \A n \in Nodes(collection) : /\ Parent(collection, n) \in 0 .. n - 1
                                    /\ IsGroup(collection, Parent(collection, n))
    /\ \A m, n \in Nodes(collection) :
          Parent(collection, n) < m /\ m < n => Parent(collection, n) <= Parent(collection, m)

(* The nodes in the list of a folder, which are in the order of the list.   *)
Children(collection, group) == {n \in Nodes(collection) : Parent(collection, n) = group}

Below(collection, node, group) ==
    LET below[n \in 0 .. Len(collection.name)] ==
            n = group \/ (n # 0 /\ below[Parent(collection, n)])
    IN  below[node]

None == -1   \* no node (undefined)

(* The items in a folder, at any depth, or the item itself; none if there   *)
(* is no node.                                                              *)
FlattenNode(collection, node) ==
    FlattenSeq([n \in Nodes(collection) |->
                   IF ~IsGroup(collection, n) /\ Below(collection, n, node) THEN <<n>> ELSE <<>>])

Matches(collection, n, match) == Ids[n] = match \/ collection.name[n] = match

(* Mutant: a folder is searched before its next sibling is looked at.       *)
FindDepthFirst(collection, match) ==
    LET matched[group \in 0 .. Len(collection.name)] ==
            LET hits == {n \in Children(collection, group) :
                            Matches(collection, n, match) \/ matched[n] # None}
            IN  IF hits = {} THEN None
                ELSE IF Matches(collection, Min(hits), match) THEN Min(hits)
                ELSE matched[Min(hits)]
    IN  matched[0]

(* A match among the folder's own nodes comes before one further down.      *)
FindItemOrGroup(collection, match) ==
    LET matched[group \in 0 .. Len(collection.name)] ==
            LET own == {n \in Children(collection, group) : Matches(collection, n, match)}
                deeper == {n \in Children(collection, group) : matched[n] # None}
            IN  IF own # {} THEN Min(own)
                ELSE IF deeper # {} THEN matched[Min(deeper)] ELSE None
    IN  matched[0]

(* What findItemsOrGroups hands on: the entry points still looked for; the  *)
(* nodes that matched one; and those of them that run, in a list and by the *)
(* id or name that found them.                                              *)
NothingFound(entrypoints) ==
    [lookup |-> ToSet(entrypoints), matched |-> {}, members |-> <<>>, reference |-> <<>>]

Looked(collection, n, lookup) ==
    IF Ids[n] \in lookup THEN Ids[n]
    ELSE IF collection.name[n] \in lookup \union Inherited THEN collection.name[n]
    ELSE Missing

Assigned(reference, match, n) ==
    [key \in DOMAIN reference \union {match} |-> IF key = match THEN n ELSE reference[key]]

(* One turn of the loop over the nodes of a folder.  What is in a node that *)
(* matched is looked up, but not run once more; everything found ends the   *)
(* search.                                                                  *)
Visit(collection, found, n) ==
    LET match == Looked(collection, n, found.lookup)
        deleted == [found EXCEPT !.lookup = @ \ {match}, !.matched = @ \union {n}]
    IN  IF found.lookup = {} \/ match = Missing THEN found
        ELSE IF Parent(collection, n) \in found.matched THEN deleted
        ELSE [deleted EXCEPT !.members = Append(@, n), !.reference = Assigned(@, match, n)]

(* A node, what is in it, then the next: the recursion is a walk.           *)
FindItemsOrGroups(collection, entrypoints) ==
    LET found[n \in 0 .. Len(collection.name)] ==
            IF n = 0 THEN NothingFound(entrypoints) ELSE Visit(collection, found[n - 1], n)
    IN  found[Len(collection.name)]

-----------------------------------------------------------------------------
(* An entry point is a record: its strategy; whether execute is an array;   *)
(* execute, as a sequence either way; path, and preserveOrder.  A strategy  *)
(* answers with an error, or with items and whether it found an entry node. *)

Error == [error |-> TRUE, items |-> <<>>, entry |-> FALSE]
Answer(items, entry) == [error |-> FALSE, items |-> items, entry |-> entry]

(* push(options.execute): the host's own array grows with it.  An array is  *)
(* taken for a key: its element if it has one, else that of no node.        *)
LookupPath(entrypoint) ==
    (IF entrypoint.path = Missing THEN <<>> ELSE entrypoint.path)
        \o (IF entrypoint.array /\ Len(entrypoint.execute) # 1 THEN <<Missing>>
            ELSE entrypoint.execute)

LookupByPath(collection, entrypoint) ==
    LET Step(n, id) ==
            IF n = None THEN None
            ELSE LET one == {m \in Children(collection, n) : Ids[m] = id}
                 IN  IF one = {} THEN None ELSE Min(one)
        last == FoldLeft(Step, 0, LookupPath(entrypoint))
    IN  IF last = None THEN Error
        ELSE Answer(FlattenNode(collection, last), TRUE)

(* An array is a match for no node.                                         *)
LookupByIdOrName(collection, entrypoint) ==
    IF entrypoint.array THEN Error
    ELSE IF entrypoint.execute = <<>> THEN Answer(<<>>, FALSE)
    ELSE LET matched == FindItemOrGroup(collection, entrypoint.execute[1])
         IN  IF matched = None THEN Error
             ELSE Answer(FlattenNode(collection, matched), TRUE)

(* The nodes of the entry points in their own order; those in a node that   *)
(* is an entry point too are not there.                                     *)
InOrder(found, entrypoints) ==
    [k \in DOMAIN entrypoints |->
        IF entrypoints[k] \in DOMAIN found.reference THEN found.reference[entrypoints[k]] ELSE None]

FlattenAll(collection, nodes) ==
    FlattenSeq([k \in DOMAIN nodes |-> FlattenNode(collection, nodes[k])])

(* Mutant: what remains in the lookup is not looked at.                     *)
LookupWhatExists(collection, entrypoint, ordered) ==
    LET found == FindItemsOrGroups(collection, entrypoint.execute)
    IN  Answer(FlattenAll(collection,
                          IF ordered THEN InOrder(found, entrypoint.execute)
                          ELSE found.members), TRUE)

LookupMany(collection, entrypoint, ordered) ==
    IF ~entrypoint.array \/ entrypoint.execute = <<>> THEN Error
    ELSE LET found == FindItemsOrGroups(collection, entrypoint.execute)
         IN  IF found.lookup # {} THEN Error
             ELSE Answer(FlattenAll(collection,
                                    IF ordered THEN InOrder(found, entrypoint.execute)
                                    ELSE found.members), TRUE)

LookupByMultipleIdOrName(collection, entrypoint) ==
    LookupMany(collection, entrypoint, entrypoint.preserveOrder)

LookupByOrder(collection, entrypoint) == LookupMany(collection, entrypoint, TRUE)

ExtractRunnableItems(collection, entrypoint) ==
    CASE entrypoint = Missing -> Answer(FlattenNode(collection, 0), TRUE)
      [] OTHER ->
         CASE entrypoint.strategy = "path" -> LookupByPath(collection, entrypoint)
           [] entrypoint.strategy = "idOrName" -> LookupByIdOrName(collection, entrypoint)
           [] entrypoint.strategy = "followOrder" -> LookupByOrder(collection, entrypoint)
           [] entrypoint.strategy = "multipleIdOrName" ->
                LookupByMultipleIdOrName(collection, entrypoint)
           [] OTHER -> Error
=============================================================================
