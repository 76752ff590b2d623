---------------------------- MODULE NestedRequests ----------------------------
(***************************************************************************)
(* Requests sent by scripts with pm.execution.runRequest                    *)
(* (lib/runner/nested-request.js and the script execution of                *)
(* extensions/event.command.js).  A script may ask for another request to   *)
(* be run; the host resolves it to a collection and a run of its own        *)
(* executes it, with its scripts, inside the sandbox of the script that     *)
(* asked.  Those scripts may ask again.                                     *)
(*                                                                          *)
(* All runs below one script share one object, state.nestedRequest: the     *)
(* call stack, the script at the root, and whether the vault may be used.   *)
(* The object belongs to the Run that made it, not to the script: a Run     *)
(* whose iterations are parallel executes several scripts at once.          *)
(*                                                                          *)
(* The sandbox and the host's resolver are outside.  A script ends when it  *)
(* has no call outstanding, unless it is interrupted: it times out, or has  *)
(* the rest of its execution skipped.                                       *)
(***************************************************************************)
EXTENDS Integers, Sequences, FiniteSets, FiniteSetsExt, SequencesExt

CONSTANTS
    RootItems,     \* the items of the host's own run
    Items,         \* the requests that scripts may ask for
    Roots,         \* how many items the host's own run executes at once
    Steps,         \* what is executed of an item: scripts and the request
    MaxDepth,      \* maxInvokableNestedRequests
    Interrupts,    \* whether a script may end while its calls are outstanding
    TimesOut,      \* whether a nested run may reach its global timeout
    \* bounds
    MaxCalls,      \* how many times pm.execution.runRequest is called
    MaxUses        \* how many answers about the vault are waited for or known at once

VARIABLES
    flows,     \* the executions of items, in the order they began; the roots first
    calls,     \* the calls of pm.execution.runRequest, in order
    nested,    \* Run -> the object in its state.nestedRequest, 0 if undefined
    objects,   \* the objects made for state.nestedRequest
    host,      \* whether the sandbox is there
    consents   \* the root items that the host let use the vault

vars == <<flows, calls, nested, objects, host, consents>>

ASSUME RootsAssumption == Roots \in Nat \ {0}
ASSUME StepsAssumption == Steps \in Seq({"prerequest", "request", "test"}) /\ Steps # << >>
ASSUME BoundsAssumption == MaxDepth \in Nat /\ MaxCalls \in Nat /\ MaxUses \in Nat
ASSUME InterruptsAssumption == Interrupts \in BOOLEAN /\ TimesOut \in BOOLEAN

(***************************************************************************)
(* A flow: the execution of an item.  by is the call it answers, 0 for an   *)
(* item of the host's run.  at is the step it has come to; busy: the script *)
(* of that step is in the sandbox.  tagged and cursor are isNestedRequest   *)
(* and scriptCursor, taken when the script begins; access is hasVaultAccess *)
(* of the event, asks the consents it waits for; told is the cursor with    *)
(* which the host hears of the request.                                     *)
(***************************************************************************)
NoCursor == <<0, 0>>

Flow(item, by) ==
    [ item |-> item, by |-> by, at |-> 1, busy |-> FALSE, ended |-> FALSE,
      tagged |-> FALSE, cursor |-> NoCursor, access |-> "unknown", asks |-> 0, told |-> NoCursor ]

(* Several items of one Run share its state; a nested request has a Run of  *)
(* its own.                                                                 *)
Run(f) == IF f <= Roots THEN 1 ELSE f
Caller(f) == calls[flows[f].by].flow

(* state.nestedRequest, for the Run of f. *)
Current(f) == nested[Run(f)]

OnScript(f) == /\ flows[f].at <= Len(Steps)
               /\ Steps[flows[f].at] # "request"

(* A call: who made it, in which step; the item whose id it put on the      *)
(* stack, and whether that has been taken off again.                        *)
Live(c) == calls[c].stage \in {"resolving", "running"}
Outstanding(f) == {c \in DOMAIN calls : calls[c].flow = f /\ calls[c].at = flows[f].at /\ Live(c)}

Init ==
    /\ flows \in [1 .. Roots -> {Flow(item, 0) : item \in RootItems}]
    /\ calls = << >>
    /\ nested = [f \in 1 .. Roots |-> 0]
    /\ objects = << >>
    /\ host = "up"
    /\ consents = {}

-----------------------------------------------------------------------------
(***************************************************************************)
(* Scripts                                                                  *)
(***************************************************************************)

(* The scripts of one event share hasVaultAccess, the next event has its own. *)
SameEvent(at, next) == next <= Len(Steps) /\ Steps[next] = Steps[at]

BeginScript(f) ==
    /\ host = "up"
    /\ OnScript(f) /\ ~flows[f].busy
    /\ flows' = [flows EXCEPT ![f] =
            [@ EXCEPT !.busy = TRUE,
                      !.tagged = Current(f) # 0,
                      !.cursor = IF Current(f) # 0 THEN objects[Current(f)].root ELSE <<f, flows[f].at>>]]
    /\ UNCHANGED <<calls, nested, objects, host, consents>>

(* Mutant: the object outlives the script that it was made for. *)
KeepObject(f) == nested

(* Only the script at the root, once it is done, drops the object. *)
DropObject(f) == IF flows[f].tagged THEN nested ELSE [nested EXCEPT ![Run(f)] = 0]

MayEnd(f) == Interrupts \/ (Outstanding(f) = {} /\ flows[f].asks = 0)

(* A script ends its item when it skips it or, in a nested run, which stops *)
(* on errors, when it failed.  A prerequest script may skip.                *)
EndScript(f) ==
    /\ flows[f].busy
    /\ MayEnd(f)
    /\ \E next \in {flows[f].at + 1, Len(Steps) + 1} :
         /\ next # flows[f].at + 1 => Steps[flows[f].at] = "prerequest" \/ flows[f].by # 0
         /\ flows' = [flows EXCEPT ![f] =
                [@ EXCEPT !.busy = FALSE, !.asks = 0, !.at = next,
                          !.access = IF SameEvent(flows[f].at, next) THEN flows[f].access ELSE "unknown"]]
    /\ nested' = DropObject(f)
    /\ UNCHANGED <<calls, objects, host, consents>>

(***************************************************************************)
(* pm.vault.  The first call of an event finds out whether the vault may be *)
(* used: from the object, or by asking the host, for the item at the root.  *)
(* Until the answer is there every other call asks as well.                 *)
(***************************************************************************)

(* Mutant: a nested script takes the consent for granted. *)
GrantedToNested(f) == flows[f].tagged

(* What a script finds in the object. *)
Granted(f) == Current(f) # 0 /\ objects[Current(f)].access = "yes"

(* A nested script leaves what it knows in the object, at every use. *)
Remember(f, answer) ==
    IF flows[f].tagged /\ Current(f) # 0
    THEN [objects EXCEPT ![Current(f)].access = answer]
    ELSE objects

(* The answers of the host that running scripts wait for or have, a bound on *)
(* asking.                                                                  *)
Known(f) == IF flows[f].access = "unknown" THEN 0 ELSE 1
Uses == MapThenSumSet(LAMBDA f : flows[f].asks + Known(f), DOMAIN flows)

UseVault(f) ==
    /\ flows[f].busy
    /\ \/ /\ flows[f].access # "unknown"
          /\ objects' = Remember(f, flows[f].access)
          /\ UNCHANGED flows
       \/ /\ flows[f].access = "unknown" /\ Granted(f)
          /\ flows' = [flows EXCEPT ![f].access = "yes"]
          /\ objects' = Remember(f, "yes")
       \/ /\ flows[f].access = "unknown" /\ ~Granted(f)
          /\ Uses < MaxUses
          /\ flows' = [flows EXCEPT ![f].asks = @ + 1]
          /\ UNCHANGED objects
    /\ UNCHANGED <<calls, nested, host, consents>>

HostConsents(f) ==
    /\ flows[f].asks > 0
    /\ \E answer \in {"yes", "no"} :
         /\ flows' = [flows EXCEPT ![f].access = answer, ![f].asks = @ - 1]
         /\ objects' = Remember(f, answer)
         /\ consents' = IF answer = "yes" THEN consents \cup {flows[f].cursor[1]} ELSE consents
    /\ UNCHANGED <<calls, nested, host>>

-----------------------------------------------------------------------------
(***************************************************************************)
(* pm.execution.runRequest                                                  *)
(***************************************************************************)
NewObject(f) == [stack |-> << >>, root |-> flows[f].cursor, access |-> "unknown"]

(* The objects with one for f among them, and its place. *)
ObjectsFor(f) == IF Current(f) # 0 THEN objects ELSE Append(objects, NewObject(f))
PlaceFor(f) == IF Current(f) # 0 THEN Current(f) ELSE Len(objects) + 1

(* popCurrentItemFromCallStack: the last entry of the item goes. *)
Pop(stack, item) ==
    IF Contains(stack, item) THEN RemoveAt(stack, SelectLastInSeq(stack, LAMBDA e : e = item))
    ELSE stack

(* Mutant: an error of the resolver is not passed on. *)
AnsweredIfRunning(c) ==
    [calls EXCEPT ![c].stage = IF @ = "running" THEN "answered" ELSE "lost"]

(* Every answer to a call takes the caller's item off the stack that its    *)
(* Run has now.  If there is none the answer fails instead: it is lost.     *)
Answered(c) ==
    [calls EXCEPT ![c].stage = IF Current(calls[c].flow) # 0 THEN "answered" ELSE "lost"]

ObjectsAnswered(c) ==
    LET place == Current(calls[c].flow)
    IN  IF place = 0 THEN objects
        ELSE [objects EXCEPT ![place].stack = Pop(@, flows[calls[c].flow].item)]

RunRequest(f) ==
    /\ flows[f].busy
    /\ Len(calls) < MaxCalls
    /\ LET place == PlaceFor(f)
           stack == Append(ObjectsFor(f)[place].stack, flows[f].item)
           refused == Len(stack) > MaxDepth
       IN  /\ nested' = [nested EXCEPT ![Run(f)] = place]
           /\ objects' = [ObjectsFor(f) EXCEPT ![place].stack =
                              IF refused THEN Pop(stack, flows[f].item) ELSE stack]
           /\ \E item \in Items :
                calls' = Append(calls, [ flow |-> f, at |-> flows[f].at, item |-> item, object |-> place,
                                         stage |-> IF refused THEN "answered" ELSE "resolving" ])
    /\ UNCHANGED <<flows, host, consents>>

(* The resolver fails or finds nothing, or what it finds does not hold the  *)
(* request.                                                                 *)
ResolverFails(c) ==
    /\ calls[c].stage = "resolving"
    /\ calls' = Answered(c)
    /\ objects' = ObjectsAnswered(c)
    /\ UNCHANGED <<flows, nested, host, consents>>

(* A run for the request begins.  It has the object that the Run of the     *)
(* caller has now.                                                          *)
ResolverAnswers(c) ==
    /\ calls[c].stage = "resolving"
    /\ calls' = [calls EXCEPT ![c].stage = "running"]
    /\ flows' = Append(flows, Flow(calls[c].item, c))
    /\ nested' = Append(nested, Current(calls[c].flow))
    /\ UNCHANGED <<objects, host, consents>>

(* The flows from f to the item of the host's run, and the calls by which   *)
(* they came: the smallest set with f that has the caller of each.          *)
Closed(S) == \A g \in S : flows[g].by # 0 => Caller(g) \in S
Chain(f) == {g \in DOMAIN flows : \A S \in SUBSET DOMAIN flows : f \in S /\ Closed(S) => g \in S}
CallsAbove(f) == {flows[g].by : g \in Chain(f)} \ {0}

(* The request event of a nested request goes up from Run to Run.  Each     *)
(* passes it on if it has the object, with the cursor that is there.        *)
Told(f) ==
    LET callers == {calls[c].flow : c \in CallsAbove(f)}
    IN  IF \E g \in callers : Current(g) = 0 THEN NoCursor
        ELSE objects[Current(CHOOSE g \in callers : flows[g].by = 0)].root

(* The request of an item; in a nested run an error ends the item. *)
Request(f) ==
    /\ flows[f].at <= Len(Steps) /\ Steps[flows[f].at] = "request"
    /\ \E end \in {"next", "last"} :
         /\ end = "last" => flows[f].by # 0
         /\ flows' = [flows EXCEPT ![f] =
                [@ EXCEPT !.at = IF end = "next" THEN flows[f].at + 1 ELSE Len(Steps) + 1,
                          !.told = IF flows[f].by = 0 THEN <<f, 0>> ELSE Told(f)]]
    /\ UNCHANGED <<calls, nested, objects, host, consents>>

(* Mutant: every run disposes of the sandbox. *)
AlwaysDisposes(f) == TRUE

(* The last of parallel iterations to end.  A nested run has the            *)
(* maxConcurrency of the host's run, for its only iteration.                *)
EndsPartitions(f) == f > Roots \/ \A other \in 1 .. Roots : other = f \/ flows[other].ended

(* A run ends the sandbox unless it knows that it is a nested one; with     *)
(* parallel iterations it does whatever it knows.                           *)
Disposes(f) == IF Roots = 1 THEN Current(f) = 0 ELSE EndsPartitions(f)

(* The callback of a run is called once: the call that f runs for is still  *)
(* to be answered.                                                          *)
Owes(f) == flows[f].by # 0 /\ calls[flows[f].by].stage = "running"

(* The item has ended, or the timeout answers the call and the item goes on.*)
EndFlow(f) ==
    LET done == flows[f].at > Len(Steps)
    IN  /\ ~flows[f].ended
        /\ done \/ (TimesOut /\ Owes(f))
        /\ flows' = [flows EXCEPT ![f].ended = done]
        /\ host' = IF done /\ Disposes(f) THEN "disposed" ELSE host
        /\ calls' = IF Owes(f) THEN Answered(flows[f].by) ELSE calls
        /\ objects' = IF Owes(f) THEN ObjectsAnswered(flows[f].by) ELSE objects
        /\ UNCHANGED <<nested, consents>>

Script == \E f \in DOMAIN flows : BeginScript(f) \/ EndScript(f) \/ Request(f) \/ EndFlow(f)
Vault == \E f \in DOMAIN flows : UseVault(f) \/ HostConsents(f)
Call == \/ \E f \in DOMAIN flows : RunRequest(f)
        \/ \E c \in DOMAIN calls : ResolverFails(c) \/ ResolverAnswers(c)

Next == Script \/ Vault \/ Call

Spec == Init /\ [][Next]_vars

(* The event loop runs what is due: the sandbox ends its scripts, the host  *)
(* answers.  A script that only uses the vault, which it may again and      *)
(* again, changes neither flows nor calls.                                  *)
FairSpec == Spec /\ WF_<<flows, calls>>(Next)

-----------------------------------------------------------------------------
(***************************************************************************)
(* Properties                                                               *)
(***************************************************************************)
(* The script at the root of the chain of calls that leads to step at of f, *)
(* and the length of that chain.                                            *)
RootCalls(f) == {c \in CallsAbove(f) : flows[calls[c].flow].by = 0}

RootScript(f, at) ==
    IF flows[f].by = 0 THEN <<f, at>>
    ELSE LET c == CHOOSE c \in RootCalls(f) : TRUE IN <<calls[c].flow, calls[c].at>>

Depth(f) == Cardinality(CallsAbove(f))

(* However its scripts call each other, one after the other or at once, no  *)
(* request runs more than maxInvokableNestedRequests calls below the script *)
(* it began with (nested-request.js counts the entries of a stack that all  *)
(* runs of the chain share, README.md:180).                                 *)
BoundedNesting == \A f \in DOMAIN flows : Depth(f) <= MaxDepth

(* The call stack is that of the calls: every object holds the item of the  *)
(* caller of each call that is still to be answered, and no other, whatever *)
(* way the calls before were answered.                                      *)
StackIsCalls ==
    \A o \in DOMAIN objects : \A item \in Items \cup RootItems :
        Cardinality({i \in DOMAIN objects[o].stack : objects[o].stack[i] = item}) =
            Cardinality({c \in DOMAIN calls :
                calls[c].object = o /\ Live(c) /\ flows[calls[c].flow].item = item})

(* What scripts of nested runs log, assert and throw is attributed to the   *)
(* script at the root of their chain of calls, a script of the host's own   *)
(* run to itself; and the request of a nested run is reported to the host   *)
(* with that same cursor (event.command.js, "tagged to the parent           *)
(* request's scripts").                                                     *)
RootCursor ==
    \A f \in DOMAIN flows :
        /\ flows[f].busy => flows[f].cursor = RootScript(f, flows[f].at)
        /\ flows[f].by # 0 => flows[f].told = NoCursor \/ flows[f].told = RootScript(f, 0)

(* The object that the runs of a chain share is right about it, however its *)
(* scripts call each other: the depth, who is waiting, and the root.        *)
NestingKept == BoundedNesting /\ StackIsCalls /\ RootCursor

(* The sandbox is one for the whole chain: it is not disposed of before the *)
(* last of its items has ended (run.js, "only dispose it once the entire    *)
(* nested request execution chain is complete").                            *)
HostKept == host = "disposed" => \A f \in DOMAIN flows : flows[f].ended

(* A script uses the vault only if the host let the item at the root of its *)
(* chain do so, in whichever script of the chain it was asked.              *)
VaultConsent ==
    \A f \in DOMAIN flows :
        flows[f].busy /\ flows[f].access = "yes" => RootScript(f, flows[f].at)[1] \in consents

(* A chain in which the script at the root may use the vault does not ask   *)
(* the host again (runner/index.js, "Mutated and set by any nested or       *)
(* parent request to indicate whether vault access check has been           *)
(* performed").                                                             *)
ConsentRemembered ==
    [][ \A f \in DOMAIN flows :
          flows[f].by # 0 /\ flows'[f].asks > flows[f].asks
              => flows[RootScript(f, 0)[1]].access # "yes" ]_vars

(* A script that calls pm.execution.runRequest gets an answer, and every    *)
(* item that began ends.                                                    *)
CallsAnswered ==
    <>[](/\ \A c \in DOMAIN calls : calls[c].stage = "answered"
         /\ \A f \in DOMAIN flows : flows[f].ended)

=============================================================================
