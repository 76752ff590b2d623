---------------------------- MODULE AuthInterface ----------------------------
(***************************************************************************)
(* The parameters of an auth (lib/authorizer/auth-interface.js), and the    *)
(* part of a request that signing reads and changes.                        *)
(*                                                                          *)
(* An auth is a function from the names of the parameters it has to their   *)
(* values.  A value is a natural number, 0 for every value the code treats  *)
(* as absent (undefined, null, "").  A parameter is a system parameter when *)
(* the runtime added or updated it.                                         *)
(***************************************************************************)
EXTENDS Naturals, Sequences

User(value) == [value |-> value, system |-> FALSE]
System(value) == [value |-> value, system |-> TRUE]

Get(auth, key) == IF key \in DOMAIN auth THEN auth[key].value ELSE 0

(* A parameter of the user that has a value is never overwritten. *)
SetAll(auth, values) ==
    [ key \in DOMAIN auth \cup DOMAIN values |->
        IF \/ key \notin DOMAIN values
           \/ key \in DOMAIN auth /\ ~auth[key].system /\ auth[key].value # 0
        THEN auth[key]
        ELSE System(values[key]) ]

Set(auth, key, value) == SetAll(auth, [k \in {key} |-> value])

(* set(key, value, true): the parameter becomes one of the system, which is *)
(* how a refreshed token replaces the user's.  It must exist: the code sets *)
(* param.system before it looks whether there is a param.                   *)
SetSystem(auth, key, value) == [auth EXCEPT ![key] = System(value)]

(* What the helpers before and after a request copy to the auth of the item *)
(* in the collection: the system parameters.                                *)
SyncSystem(auth, original) ==
    [ key \in DOMAIN original \cup {k \in DOMAIN auth : auth[k].system} |->
        IF key \in DOMAIN auth /\ auth[key].system THEN auth[key] ELSE original[key] ]

(***************************************************************************)
(* The request.  An entry is a header, a query parameter or a parameter of  *)
(* an urlencoded body: its key in lower case, whether it is spelled exactly *)
(* as the code spells it, and its value: << >> for the user's, otherwise a  *)
(* sequence that starts with the number of the signing that added it.       *)
(* Nothing depends on the order of entries, so they are a set.              *)
(***************************************************************************)
Entry(key, value) == [key |-> key, exact |-> TRUE, value |-> value]

Without(entries, key, ignoreCase) ==
    {entry \in entries : ~(entry.key = key /\ (entry.exact \/ ignoreCase))}

RemoveHeader(request, key, ignoreCase) ==
    [request EXCEPT !.header = Without(@, key, ignoreCase)]

RemoveQueryParams(request, key) == [request EXCEPT !.query = Without(@, key, FALSE)]
RemoveBodyParams(request, key) == [request EXCEPT !.form = Without(@, key, FALSE)]

AddHeader(request, key, value) == [request EXCEPT !.header = @ \cup {Entry(key, value)}]
AddQueryParams(request, key, value) == [request EXCEPT !.query = @ \cup {Entry(key, value)}]
AddBodyParams(request, key, value) == [request EXCEPT !.form = @ \cup {Entry(key, value)}]

Entries(request) == request.header \cup request.query \cup request.form
=============================================================================
