# A formal model of postman-runtime

`postman-runtime` executes Postman collections: it takes a tree of requests with
scripts, walks it `iterationCount` times, runs the scripts in a sandbox, sends the
requests, and reports what happens to the host that started it through callbacks. This
directory holds TLA+ modules translated from the source under `src/lib`, TLC
configurations that check them on small instances, and TLAPS proofs of the main results
for every value of the constants.

Paths below are relative to the repository (`src/` in `PROJECT.json`). `PROJECT.json`
maps every definition to the lines it stands for.

## 1. Inventory

| Component | Source | State | Operations | Hard behaviour | What makes it correct |
| --- | --- | --- | --- | --- | --- |
| Run and instruction queue | `runner/run.js`, `runner/instruction.js` | `pool` (array of instructions), `state`, `host`, `aborted`, `paused`; per instruction `_done`, the done/catch handlers | `start`, `_process`, `queue`, `interrupt`, `immediate`, `execute` | every completion goes through a 0 ms timer; handlers of a command queue the next one; the host may call between any two tasks | one command at a time; `done` once and last |
| Run control | `extensions/control.command.js` | `paused`, `aborted`, `__resume` | `pause`, `resume`, `abort` and the commands `pause`, `abort` | calls arrive while a script or request runs; resume takes effect in a timer; abort empties the queue | abort is final, an aborted run ends, no call throws |
| Waterfall and cursor | `extensions/waterfall.command.js`, `cursor.js`, `util.js` | the cursor: position, iteration, partition fields | `current`, `whatnext`, `seek`; `processExecutionResult` | set-next-request, skipped and failed items and the jump to the first item at the boundaries of an iteration | iterations open and close in pairs and in order; all items of an iteration run unless redirected or stopped |
| Delay | `extensions/delay.command.js` | `waiting` | `queueDelay`, the command `delay` | between iterations and items only, never before the first | delays do not reorder items |
| Item | `extensions/item.command.js` | the item's request while its scripts may mutate it | secrets, `prerequest`, `request`, `test`, and the early ends | four places to fail, each with its own handling; secrets resolved twice | an item that fails ends its iteration or run; mutations do not outlive the item |
| Event and sandbox bridge | `extensions/event.command.js` | listeners on the host, `skippedExecutions`, vault consent, cookies | the command `event`; execution bridges for requests, cookies, vault | error options interact; scripts call back while the event runs | an event calls back once, with the error the options ask for |
| Request, HTTP request and replay | `extensions/request.command.js`, `extensions/http-request.command.js`, `replay-controller.js`, `request-helpers-*.js` | replay count of an item context; the item's auth, which all clones write back to | helpers before and after sending, `requestReplay` | helpers and network callbacks interleave; intermediate requests replay | the item ends; replays are bounded; the user's item is left as it was |
| Parallel iterations | `run.js`, `partition.js`, `partition-manager.js`, `extensions/parallel.command.js` | a queue and cursor per partition, a priority partition, `remainingPools` | `createPartitions`, `schedule`, `process`, `dispose`; for custom iterations `runSinglePartition`, `stopSinglePartition`, `triggerStopAction` | partitions share one Run; control goes through a priority queue that others poll | the iterations are divided without gap or overlap; done once after all partitions; the host hears of every iteration it starts |
| Nested requests | `nested-request.js`, `extensions/event.command.js` | `state.nestedRequest`, one object for all runs below a script: call stack, root, vault consent | `pm.execution.runRequest` starts a run inside a run | siblings share the stack; a script may end before its calls | depth is bounded; the sandbox outlives the chain; the vault needs the host's consent |
| Secrets | `resolve-secrets.js` | variable scopes | `resolveSecrets`, `prepareVariables` | the resolver may answer later, never or with an error | scripts see only what they are allowed to |
| Callbacks | `backpack/index.js` | `timeback`, `multiback` closures | seal, time out, count | a timer races the callback | one call |
| Runner | `runner/index.js`, `extract-runnable-items.js` | none | options, entry point lookup, extraction | ordering modes, nested groups | the items of the entry point, in order, once |
| Requester | `requester/requester.js`, `request-wrapper.js`, `browser/request.js`, `core.js`, `dry-run.js`, `sse-processor.js` | what has been started and ended; the headers it leaves in the request; the SSE buffer | request, start/data/end, abort | network events and cookie jar callbacks interleave, events split over chunks | start before end, one answer; whole events; the user's headers |
| Authorizers | `authorizer/*.js` | per request auth parameters | `init`, `pre`, `sign`, `post` | challenge and replay handshakes | one credential, not used twice; a refused challenge ends the handshake |
| Data helpers | `timings.js`, `visualizer`, `version.js` | none | conversions | | out of scope |

How they interact: the host calls the runner, which makes a Run and calls `start`. A Run
queues instructions; the processor of an instruction is a method of an extension, runs
with the Run as `this`, queues further instructions and ends by calling `next`, whereupon
handlers registered with `.done()` run and the loop continues from a timer. Waterfall
queues items, an item queues events and requests, an event talks to the sandbox through
messages, a request to the network through callbacks. All of them read and write the
shared Run.

## 2. Plan

All modules of the plan are written. They are, in the order of what they model:

1. **Sequential run** (section 3): `Cursor`, `ExecutionResult` and `SequentialRun`, which
   refines the abstract `RunContract`.
2. **Parallel run** (4): `Partitions`, `CreatePartitions`, `ParallelRun`, each of whose
   partitions refines `RunContract` (`ParallelContract`); `CustomIterations`, where the host
   starts iterations one by one.
3. **Making a run** (5): `Extraction` of the items of an entry point, and `Runner`, which
   composes it with `CreatePartitions`.
4. **Requests** (6): `AuthInterface`, `Authorizers`, and `HttpRequest` on top of them.
5. **The network** (7): `SSEProcessor`, `RequestHeaders`, and `Requester` on top of both.
6. **Nested requests** (8): `NestedRequests`.

Proof modules `*_proofs` hold the theorems of section 9; `MC*` modules give values to
constants that a `.cfg` cannot write. What could come next: the composition of `HttpRequest`
with `Requester` (an abort while the helpers of a replay run), and two runs in one process.

## 3. The sequential run

### Modules

- `Cursor` - the arithmetic of a run cursor: `Current`, `WhatNext`, `Seek` and the
  constructor's normalisation, as functions on records.
- `ExecutionResult` - what scripts asked for with `setNextRequest` and the place it sends
  the run to (`processExecutionResult`), including the one-before seek and the correction
  for the first item.
- `SequentialRun` - the loop, the queue, the commands and the host's calls.
- `RunContract` - what a host may rely on, stated without the queue: `start`, then
  `beforeIteration`/`iteration` in pairs, `beforeItem`/`item` in pairs within them, then
  `done`; a run may break off anywhere by an error or abort, and one that does not has
  closed what it opened.
- `MCSequentialRun` - values of `NextRequests` that a `.cfg` cannot write.

### State and steps

| Variable | Code |
| --- | --- |
| `pool` | `Run.pool`; an element is an instruction and the closure state its handlers carry (place in the run, what the pre-request scripts asked for, how the waterfall picks its coords) |
| `phase`, `current` | where `_process` is, and the instruction whose processor has not called `next` |
| `failed` | the error given to `next`, which the loop looks at |
| `ticks` | pending 0 ms timers, in the order set: the one of `instruction.execute` and the one of `resume()`; timers of equal delay fire in the order they were set |
| `late` | a flow whose secrets are being resolved after its `prerequest` instruction has completed |
| `paused`, `aborted`, `stored` | `Run.paused`, `Run.aborted`, whether `__resume` is a function |
| `cursor`, `mutated` | `state.cursor`; the items whose request is no longer that of the collection |
| `globalTimer`, `host` | `timeback`'s timer; `run.host` |
| `opened`, `closed`, `item`, `stopped`, `dones`, `thrown` | history: what an observer of the callbacks has seen |

JavaScript runs a task to its end, so a step is one task: a timer, a network, sandbox or
resolver callback, a call by the host. A task that ends in `_process()` continues with the
next command; it is two steps with phase `"next"` between them, during which every action
but the loop's is disabled. Everything a handler does in its task is in one action: for
instance `TestEnds` is the test event's end, the done handler of the item, `item.request =
originalRequest`, the waterfall callback (`processExecutionResult`, `cursor.seek`,
`queue('waterfall')`), and the timer that continues the loop.

An instruction is abstracted to its command, place and what its closures carry. A script
event is an outcome: ok, throws, or fails an assertion; a request for a next item; whether
it skipped the request; whether it changed `pm.request`. A request either fails or not.
Secrets are resolved at once, in a later task, or not at all.

### Runs

The runs use 2 or 3 items and 2 or 3 iterations: two are needed for the end of an iteration
to differ from the end of the run, the third separates first, middle and last. One pause
and two aborts suffice for a control instruction to meet every command, and for an abort to
meet a pause that is waiting, queued, or being resumed, and another abort. The bounds are
`MaxPauses` and `MaxAborts`; nothing else is bounded artificially, the state is finite
unless scripts loop over items for ever, in which case `opened` does not grow.

| Run | Question | Result |
| --- | --- | --- |
| `seq_control` | pause, resume, abort at any task boundary against scripts that go anywhere, with `abortOnFailure`, `stopOnFailure` and a sandbox that may fail | types; abort is final; iterations in order; requests restored; nothing thrown; nothing starts after done; the contract kept |
| `seq_stop_on_error` | `stopOnError`, scripts that do not redirect | an error ends its iteration and only it; items otherwise in order; a completed run is complete |
| `seq_ends` | the global timeout, `abortOnError` and a secret resolver that answers late, under fairness | one flow; done once; from any state a started run ends, unless from some time on it waits for its resume for ever (`RunEnds`); an aborted run ends (`AbortEnds`) |

Deadlock is not checked in any run: a run that is over, or that its host leaves paused,
really does stop. One that was resumed must not: the exception of `RunEnds` is
`<>[]AwaitsResume`, a wait that never ends.

Fairness (`Fairness`): the event loop serves its timers and every answer arrives. Scripts
and requests have timeouts of their own, and the resolver a timeout in
`resolve-secrets.js`. The host is not fair: it need not start, resume or abort. `AbortEnds`
is checked for hosts that do not call `pause()` after `abort()` (`PausesAborted = FALSE`):
a pause that reaches the head of an aborted run's queue waits for its resume like any
other.

## 4. The parallel run

### Modules

- `Partitions` - `Concurrency`, `Size` and `StartIndex` of the partitions, in closed form.
- `CreatePartitions` - the loop of `createPartitions`, a step for each turn. It shows that
  the closed form is what the loop computes, and that it divides the iterations.
- `ParallelRun` - the partitions' loops, the priority queue and the host's calls. The
  arithmetic of `Cursor` and `ExecutionResult` is shared with the sequential run, as it is
  in the code.
- `ParallelContract` - what each partition owes the host: the part of the run it executes
  is a `RunContract` of its own (`KeepsContracts`).
- `CustomIterations` - a run with `customParallelIterations`, see below.
- `MCParallelRun`, `MCCustomIterations` - values of constants.

### State and steps

| Variable | Code |
| --- | --- |
| `queue`, `cursor`, `current` | per partition: `pool`, `cursor`, the instruction that has not called `next` |
| `loop` | per partition: where `_processPartition` is. `ended`/`failed`: its 0 ms timer is pending; `polling`: the 10 ms one; `lent`: it runs the priority queue; `ready`: it continues in the present task; `done`/`broken`: it has called `poolFinished` |
| `controls`, `control`, `owner` | the priority partition's queue and loop, and for whom it runs. `priorityLock` is `control # "off"`; `processingPriority` is the same once the loops have started |
| `resumes` | timers set by `resume()` that are pending |
| `completed`, `remainingPools` | of `process` |
| `opened`, `closed`, `item`, `dones` | history |

A timer's step is a task, in which `_processPartition` polls, takes the priority queue,
executes one instruction, or finishes. At the start all loops move in one task, and after
the priority queue its owner continues in the same task: a `ready` loop disables every
other action (`OtherTask`) until it has moved. Pending timers fire in any order, which is
more than the event loop does: two 0 ms timers would fire in the order they were set.

The scripts and the request of an item are one command, `script`, with the outcomes they
have together; `SequentialRun` has them one by one. Between two commands of that chain a
partition is where it is between `item` and `script`.

The host calls `pause()` and `abort()` after `start()` only: before, a parallel run puts
the instruction into `Run.pool`, which it never looks at. It resumes after its pause
callback.

### Runs

Two partitions are needed for anything to happen between them; three or four iterations
make the partitions unequal, or give each an inner boundary. One pause and one abort meet
each other and every state of both loops.

| Run | Question | Result |
| --- | --- | --- |
| `par_control` | pause, abort, errors, redirecting scripts and the global timeout, under fairness | one controller of the priority queue; own iterations; nothing starts while paused; done once; a complete run ran every iteration once; each partition keeps `RunContract`; from any state a started run ends, unless it waits for its resume for ever or scripts send it back for ever (`RunEnds`) |
| `par_abort` | abort while two partitions execute | violation: the other partition begins further items |
| `par_data` | four data rows and two partitions | violation: the second partition reads the wrong rows |
| `custom_control` | a host that starts, restarts, stops and aborts single iterations | what the host was called back about is idle; it hears the end of every iteration, and of the run after an abort |

`Fairness` is that of the sequential run, for each loop: a polling loop has its timer.

What else the model shows the code to do, against what one may expect, without a run of
its own: an abort queued behind a pause that has not executed waits for the resume
(`controls` is first in, first out, where the sequential run puts an abort in front); an
error in one partition calls done while the others continue; so does the global timeout,
which empties only `Run.pool`; with `stopOnFailure`, which no run here switches on, a
failure stops only its partition, and `iteration` is triggered with the coordinates of the
iteration after it.

### Custom iterations

`CustomIterations` has the loops of `ParallelRun` without the pauses, and in place of
`process` the calls of the host: `startParallelIteration` makes a partition or starts one
again, `stopParallelIteration` empties its queue, `abort()` ends the run at once when no
queue has instructions. A loop is a record of `loops`, one for each call that starts an
iteration, since a partition that is started twice has two. Two partitions and three starts let one be
restarted while the other executes; one stop and one abort meet each. The run is not over by itself:
only an abort or the timeout ends it.

The host waits for the callback of a start before it starts that partition again
(`TrustsStop = FALSE`). If it takes the callback of `stopParallelIteration` for the end of
the iteration, as its comment says it is, a second loop executes the same partition.

## 5. Making a run

`Extraction` has the lookups of `extract-runnable-items.js` as operators on a collection, a
sequence of nodes with parents, kinds and names: by id or name, several at once, in the
order given, by path, and flattening to items. The nodes are numbered as a walk of the tree
meets them (`IsWalked`), so that the recursion of `findItemsOrGroups` over folders is one over
the nodes up to a given one, and that of `findItemOrGroup` one from the last folder to the
first; what is in a folder follows it without a gap. `Runner` takes a collection and options,
extracts, settles the number of iterations, and goes on with the steps of
`CreatePartitions`. It has few steps and many initial states.

`runner_control` takes every tree of up to four nodes whose names are two, against every
entry point of up to two ids or names, alone, in a list, or as a path whose places may be
arrays (524,589 distinct states): four nodes hold an entry
point inside another and equal names at different depths. With the collection of one item
it takes every number of iterations up to 12 with up to 14 partitions, so that each remainder occurs, and
partitions outnumber iterations.

- `Divided`: each iteration is in one partition, sizes differ by at most one, and the loop
  computes the closed form from which `ParallelRun` starts.
- `FirstMatch`: which node an ambiguous name means.
- `EntrypointsRun`: with several entry points, what runs is what is below them, or the run
  is refused; stated without the accumulation and the early stop that the code uses.

## 6. Requests

`HttpRequest` is the command `httprequest` for one item, sent `Rounds` times: load the
files of the body, let the auth handler prepare (`pre`), possibly by a request of its own
(`init`), sign, send, look at the head of the response (`post`), and perhaps replay.

| Variable | Code |
| --- | --- |
| `stack` | the commands that are running. A replay or intermediate request is an instruction queued with `immediate`, whose done handler continues the command that waits. Each has its clone of request and auth, its replay count, and the `originalItem` it copies parameters back to |
| `template`, `original` | the item in the collection: its request, and the parameters of its auth, which change as handlers set them |
| `sent`, `starts`, `fault` | what has happened since the item was sent last |
| `nonces`, `accepted` | the server |

`Authorizers` has a hook of a handler as the set of its possible outcomes: the auth after
it, what happens next, and, for `sign`, the request. A credential is the number of the
signing and the parameters that tell it from others (a digest's nonce and count, an NTLM
message); no cryptography. `AuthInterface` distinguishes parameters of the user and of the
system, which is what `auth.set` and the copying back depend on. A handler added by the
host answers in every way the interface allows: its `post` may answer with the head of the
response, or only when the response has ended and the host heard of it (`EndBeforePost`).
Whether Hawk signs with an algorithm that the library does not know is left open.

`http_control` sends one item of each kind of auth and body twice, against every answer of
server, file system and host (326,175 distinct states). `MaxReplay` is 3, as in
`replay-controller.js`. Two rounds are needed for what a round leaves in the auth to
matter; two nonces for one to replace another.

- `BoundedRequests`: a bounded number of requests leaves for one item.
- `Credentials`: a request carries one credential (`OneCredential`), no nonce and count that
  was accepted before (`NonceCountFresh`), and no NTLM handshake is left half-done
  (`HandshakeEnds`). The `opaque` of a digest's challenge is left out: a server sends it in
  all of its challenges or in none.
- `RequestKept`: the command goes on with its own item, a replay reopens its files, and what
  the user set in the auth stays.
- `NothingSentAfterStart`: once the host was told that the response starts, nothing is sent.
- `ItemEnds`, with fairness for all but the host: every helper calls back and the network
  answers. It has two exceptions (`Unanswered`). A request that the host aborts may stay
  unanswered, which `postman-request` allows. And oauth2 with an `id` and
  `refreshOAuth2Token` but no `accessToken` parameter: when the host has a new token, `pre`
  sets a parameter that is not there, `auth.set` throws (`auth-interface.js:97`) in the
  host's callback, and nobody goes on with the item. The run has such an auth.

## 7. The network

`Requester` is one request between `http-request.command.js` and the network: the
requester (`requester.js`) over one of two transports, `request-wrapper.js` of Node or
`browser/request.js`. `call` is what the requester knows and what its caller has heard;
`link` the transport; `rest` the body that is still to come; `wires` the headers that left.
The cookie jar answers in tasks of its own. `SSEProcessor` puts the bytes of an event
stream together as the code does, buffer by buffer, and defines the events of a whole
stream separately (`Events`), byte by byte. `RequestHeaders` has the path of the headers through
`core.js`, the library, and back into the request, and `dry-run.js` next to it. As all of
them look at the headers of one key, `headers` has for each key of `Names` the list of its
headers.

The parser has two quirks, which the model keeps. It looks for the byte order mark whenever
its buffer is empty, so that one in the middle of a stream may be dropped, depending on the
chunks. And it searches for the end of a line from `startingPos`, which is 0 once a line was
read, and not from `pos` (`sse-processor.js:75`): a carriage return of a line before makes it
ignore a line feed again, so that in `a cr b lf lf c` the blank line, and with it the event,
is lost. A stream with one kind of line break is read as it should be.

`postman-request` is external: it calls back once, and an error that comes with a response
comes after its start.

`requester_control` (178,973 distinct states) sends each request up to twice: the second
time it has the headers that the first left. Its requests are the combinations of at most
two headers of the user of one name, bodies, disabled headers and options; streams of up to
five bytes, among them both line breaks and a byte order mark, cut into chunks at every
place; every host and address that may be restricted; and, in the browser, every order of
states, cookies and timeout.

- `HeardInOrder`, `Answered` (with fairness for all but the host): start, events, end, and
  an answer although the end may come while the cookies for the start are asked for.
- `EventsWhole`: the events told are those of the bytes received, whatever the chunks.
- `HeadersKept`: the user's headers leave each time, what they disabled does not, except
  the `content-type` of a form in the browser (`TypesForm`): the library adds it when there is
  none, and does not ask what is disabled (`browser/request.js:205`).
- `DryRunComplete`: the dry run announces every header that then leaves.

The run leaves out headers that `XMLHttpRequest` refuses, and a `content-length` of the
user's that is also disabled as a system header: sent again, it is taken for the runtime's.

## 8. Nested requests

`NestedRequests` has the scripts of an item that call `pm.execution.runRequest`. A flow is
the execution of an item, of the host's run or of a nested one; a call is a call of
`runRequest`. `nested` says which object each Run has in `state.nestedRequest`, `objects`
what is in them. The chain of a flow, itself and the flows that called it, is the smallest
set of flows that has it and the caller of each of its flows (`Chain`); the calls above a
flow (`CallsAbove`), its depth and its root script are read off that set. The object belongs to the Run that made it, which is how runs come to have it or lose it: a
nested Run gets the one its caller has when the resolver answers, and a script that is not
nested drops that of its Run when it ends.

| Run | Question | Result |
| --- | --- | --- |
| `nested_control` | chains of calls from two scripts of one item, answered in any order, under fairness | the call stack is that of the calls, bounds the depth, and logs go to the root script (`NestingKept`); the sandbox is kept (`HostKept`); the vault needs consent for the root item (`VaultConsent`); every call is answered (`CallsAnswered`) |
| `nested_host` | a script that times out before the request it asked for has been resolved | violation: the nested run disposes of the sandbox |

The depth is limited to 2 and scripts call 3 times (`MaxDepth`, `MaxCalls`), so that a chain
reaches the limit and beyond it, and siblings share the stack. A script asks about the vault
unless running scripts wait for or have two answers already (`MaxUses`): one script that asks
twice, a race of two that ask, answers that contradict each other, and a script that finds
the consent that one beside it left in the object all occur. A script that knows the answer leaves it in the object again at
each use, as the code does. `nested_control` has 446,506 distinct states.

`CallsAnswered` says that from some time on every call is answered and every item has ended. The
sandbox ends its scripts and the host answers; fairness is for the steps that change `flows` or
`calls` (`WF_<<flows, calls>>(Next)`), as a script may otherwise use the vault for ever.

`nested_control` and the theorems of section 9 have three conditions:

- A script waits for its calls (`Interrupts = FALSE`). `nested_host` has the other case.
- A nested run does not reach its global timeout, 3 minutes by default
  (`runner/index.js:8`, `TimesOut = FALSE`). The timeout answers the call while the flow of
  the nested run goes on.
- The host's run executes one item at a time (`Roots = 1`). With `Roots = 2`, which is a
  parallel run, items of one Run share the object, and what a nested script logs is
  attributed to the wrong root (`RootCursor`). A nested run inherits `maxConcurrency`
  (`nested-request.js:133`), and so ends as a parallel run does, which disposes of the
  sandbox whoever else uses it (`EndsPartitions`).

TLC violates each of the three invariants with `Roots = 2`, and with `Interrupts = TRUE`;
`NestingKept` and `HostKept` also with `TimesOut = TRUE`. Of `VaultConsent` TLC found no
violation with `TimesOut`, but did not finish; its proof uses the condition.

## 9. Proofs

Every theorem holds for every number of items and iterations, every combination of options
and every set of outcomes, under the named assumptions of the modules (types of the
constants) and the conditions named with it. A condition is there because the code does
something else without it; section 10 says what.

Of `SequentialRun`:

- `TypeCorrect` (`TypeOK`): each action preserves types. It is not quite mechanical:
  `WhatNext` has no value for a negative length, so the cursor's length must be known to be
  that of the collection, and positions that scripts ask for must survive `Seek`.
- `FlowIsOne` (`OneFlow`): by the inductive invariant `FlowInv`. `OneFlow` alone is not
  inductive: an `ended` instruction's timer could fire twice and start a command while
  another runs. `Ticking` says there is exactly one such timer while phase is `ended` and
  none otherwise, and `Resting` that between two commands no flow is running and before the
  loop begins there is none at all. Each of the steps of a flow takes it out of one place
  (`ExecutesFlow`, `RunsFlow`) and puts it into one (`FlowEnds`, `FlowWaits`); control
  instructions are not flows.
- `AbortedStaysAborted` (`AbortIsFinal`): on top of `FlowInv`, under `SecretResolver #
  "async"`. When the abort command executes it is the running command, so the flow is in
  the queue it empties; with a resolver that answers later it may be in `late`.
- `DoneIsOnce` (`DoneOnce`): on top of `FlowInv`, by counting calls of done by phase and
  timer (`DoneCount`), under the assumption that no initialiser fails while the timer is
  armed.
- `DoneIsLast` (`NothingStartsAfterDone`): when there is no global timeout.

The rest about `SequentialRun` is on what happens to the one flow, so that `SequentialRun_proofs` first says once what a step can do with it (`Move`: it
rests, begins, goes on, opens or closes its item, sends its request, turns to the next item;
or it is lost). The lemma `Moves` shows that every step is one of these, and the invariants
that follow look at moves in place of actions:

- `IterationsAreInOrder` (`IterationsInOrder`): by `PathInv`, which says of the flow, wherever
  it is, that it is at an item of the run whose iteration is the one that is open, all those
  before it being closed, and that this item is open if its scripts are next (`At`). The same invariant gives `NeverSeeksOutside`: the seek after an
  item is never refused, one of the two exceptions `NothingThrown` is about.
- `StoppedStaysStopped` (`StoppedIsStopped`): by `StopInv`. The flow of a stopped iteration is
  at its end, and with `stopOnFailure` at the end of the run (`StoppedAt`).
- `RequestsAreRestored` (`RequestsRestored`), if no error keeps the flow from the end of an
  item while the run goes on (`Restores`): by `RestoreInv`. Only the request of the item the
  flow is in is changed, and only from its pre-request scripts on.
- `ItemsStayInOrder` (`ItemsInOrder`), when no script asks for an item: by `OrderInv`. The
  item where the flow is follows the one that was opened last, or begins an iteration.
- `RunIsComplete` (`CompleteRun`), under `SecretResolver # "async"`: by `CompleteInv`. Once
  the flow has vanished without being lost, everything has been opened and closed. Where it
  vanishes is the step that finds no next item.
- `NothingIsThrown` (`NothingThrown`), under `ResumesSafely`: the host resumes after its pause
  callback, and either pauses once at most or does not abort. `ResumeInv` counts the timers of
  `resume()`: at most one, and `__resume` is there for it.
- `ContractIsKept` (`KeepsContract`), under `~GlobalTimeout` and `SecretResolver # "async"`:
  initial states map to initial states and every step to one of `RunContract` or a
  stutter. Each move is one kind of step of the contract; that the run ends complete,
  and only once, is `CompleteInv`.

Of `Runner`, in `Runner_proofs`, for every collection whose nodes are numbered by a walk and
all options of a host that gives one entry point or a list of them:

- `RunIsDivided` (`Divided`): for `CreatePartitions` on its own, with every number of
  iterations and every concurrency, `IterationsAreDivided` (`Divides`), `DivisionIsEven`
  (`Even`) and `CreatesPartitions` (`AsInPartitions`), by the inductive invariant `LoopInv`,
  which adds to the three that what has been created covers exactly the iterations before
  `startIteration` (`Covered`) and that `startIteration` is `StartIndex(i)`. The runner
  begins the loop with nothing created and with counts it was given or made up (`Counted`).
  The arithmetic is in the lemmas of
  `Partitions_proofs`: `Division` on quotient and remainder, `SizePositive` (no partition is
  empty, so none is skipped), `StartFollows` and `StartOfAll` (the last partition ends with
  the run), `PartitionsAreDisjoint`.
- `RunsFirstMatch` (`FirstMatch`). The search returns, from the last folder down, the first
  match in the first folder inside that lists one (`FindsFirst`). For a folder that lists
  none itself it takes the answer of the first of its nodes that has any, and the property
  asks for the first folder of all: they are the same because all that is in a node comes before the
  next node of its folder (`SiblingsApart`, from `BelowFollows`).
- `RunsAllEntrypoints` (`EntrypointsRun`), where no name of a node is an id or a name that
  every object answers to (`Unambiguous`). `FoundBy` says what the search has found after any
  number of nodes, without the order it was found in: the entry points still looked for are
  those that no hit is the key of, and those that run are the hits whose folder is none
  (`Outer`). Each turn of the loop keeps this (`VisitFinds`); each hit is in an outer one, so
  that what is below the outer ones is what is below the hits (`OuterCovers`), and the hits
  are the nodes that the property speaks of (`TargetsHit`).
- `RunsNothingTwice` (`NoneTwice`), under `Unambiguous` and where the folder that lists an
  entry point inside another one is an entry point too (`NestedDirectly`). No run can check
  `NoneTwice` without the second condition (section 10). Under it no item is in two of the
  outer nodes (`OuterApart`), each is in the list once (`FoundBy`, `OnceEach`), and putting
  together sequences that are apart repeats nothing (`FlattenHolds`).

Of `ParallelRun`, for any number of partitions:

- `TypeCorrect` (`TypeOK`), where again the places that scripts ask for must survive the
  cursor.
- `OpensOwnIterations` (`OwnIterations`), and from it `SharesNoIteration`: no iteration is
  opened by two partitions. What a partition opens next depends on the coordinates an
  instruction carries, which come from a script's request, so the invariant (`PlaceInv`)
  speaks of instructions: `Placed` says that a partition has at most one, queued or running,
  that it is the start if nothing was opened and else belongs to the iteration opened last,
  and that one which restarts the iteration is at its first item. `Asleep` says that
  nothing moves before the initialisers have run. The boundaries of different partitions
  come from `PartitionsAreDisjoint`.
- `CallsBackOnce` (`DoneOnce`), without a condition: by `DoneInv`, which says that the
  callback has been called exactly if the run is over or its time is, and that the timer
  of a run that is over is not armed. A run is over (`Over`) when its pools completed, or
  when a control instruction failed before the partitions started; the
  second excludes the first because the priority queue is then run on behalf of the start
  (`owner`), before any loop has moved.
- `ControlIsOne` (`OneController`) and `PauseHolds` (`PausedIsPaused`): by `ControlInv`. A loop
  is lent exactly while the priority queue is run on its behalf, and a queue that is not run
  has no owner. The other loops poll, or finish the command they are in.
- `ContractsAreKept` (`KeepsContracts`), without a condition: each partition implements
  `RunContract`, also when an error, an abort or the timeout breaks off another one. The
  invariant says of each partition what `ParallelContract` maps (`Kept`: what its loop
  holds, how it ended, and that it rests); a step of the run is a step of one partition
  (`Turned`), or leaves what can be seen of it.
- `ParallelRunIsComplete` (`CompleteRun`): by `CountInv`. `remainingPools` is the number of
  partitions that are not done, as long as nothing broke off a partition, so that it reaches zero with the last.
  With `OpensOwnIterations` and the arithmetic of `Partitions_proofs`, every iteration
  was run.

Of `CustomIterations`:

- `AnsweredStaysIdle` (`AnsweredIsIdle`), for a host that waits for the callback of a start
  (`~TrustsStop`): by `IdleInv`. A partition is served by at most one loop that is not over, and its
  queue has at most one instruction, which that loop is yet to take (`Served`). A loop that
  runs the priority queue may end there, with the error of a callback of `abort()`; its own queue
  is empty by then (`Lent`).

Of `HttpRequest`, for every replay limit, number of rounds and nonces, set of items, and
every answer of server, handler and host:

- `RequestsAreBounded` (`BoundedRequests`), for every handler but one of the host's that has
  its own intermediate requests authorized by itself: these form a tree, which only the run
  looks at. For all others the commands form a chain (`IsChain`). `BoundedRequests` is not
  inductive: it speaks of what has been sent, not of what still may be. `ChainInv` adds the
  shape of the stack (`IsStack`: all commands but the last wait, and what a handler sends
  first has no handler), and bounds what has been sent by the count of the command that
  executes, by whether it has sent, and by whether it is sent first (`Limit`). The lemmas say how a
  step moves the stack: `Moves` (the top changes), `Pushes`, `Pops`; then there is one for
  each action that can change it, and `OutcomeResults` and `GoResults` collect what the
  handlers of all types answer.
- `NothingIsSentAfterStart` (`NothingSentAfterStart`): by `StartInv`, which says that once
  the host was told, all commands of the stack are ending (`Ending`): the top one is past
  sending and will not replay, and those below wait for replays that are over.
- `RequestIsKept` (`RequestKept`), for all handlers: by `KeptInv`. The item of the collection
  keeps the user's parameters (`HasUsers`), every command of the stack has them too and copies
  back to its own item (`IsKept`), and one that replays opens the files that the command
  waiting for it had opened, or warns (`Linked`). Two lemmas, `SetAllKeeps` and `SyncKeeps`,
  are on what `auth.set` and the copying back do to parameters.
- `CredentialIsOne` (`OneCredential`), without a condition, and `CredentialsAreOwn`
  (`Credentials`), where `MaxReplay >= 2` and the item is `Ordinary`: the user gave its auth
  no handshake state (ntlm), and no nonce count and no `md5-sess` (digest). Both by `CredInv`.
  The actions are first sorted by what they mean for credentials: the request is loaded,
  prepared, signed, sent, answered, repeated (`NextKinds`). `BearInv` says that every
  request on the stack is `Neat`: an entry that was added is spelled as the code spells it,
  and no other has its name; `SignNeat` goes through what the handlers of all types sign. For
  digest and ntlm only the command at the top matters then (`Advances`), and it has the auth
  of the item (`LiveInv`): what `pre` and `post` set in a clone is what is copied back
  (`SyncSame`). `SignedInv` says that what was added comes from the last signing; `NtlmInv`
  how far the handshake can be after so many replays; `DigestInv` that the accepted uses
  have the current nonce and a smaller count, since with all parameters known (`Settled`) a
  challenge is no longer looked at and only `pre` counts.

Of `NestedRequests`, under `Roots = 1`, `~Interrupts` and `~TimesOut`:

- `NestingIsKept` (`NestingKept`), `SandboxOutlivesRuns` (`HostKept`), `VaultNeedsConsent`
  (`VaultConsent`). They rest on `ShapeInv`: a call that is not answered has its script wait for it, a nested
  flow runs as long as the call it answers, and every Run that has not ended has the object
  of the host's Run, whose root is the script the host's item is at. So there is one chain
  at a time. `StackInv` says that the stack has each item as often as unanswered
  calls asked for it, and is as long as they are many; the lemmas `PushPlaces`, `PopPlaces`
  and `PopPush` are on the removal of the last occurrence in `nested-request.js`. `PathInv` adds the depth
  and the cursor that flows were told. As chains are smallest closed sets, that
  a chain reaches the host's flow needs no recursion: a closed set below it would be
  smaller. `ChainStays` says that a step leaves existing chains as they are, and `NewDepth`
  that the calls above a new flow are on the stack, which the limit has bounded.

Of `Requester`, for every stream, every list of headers, all options and any number of
rounds:

- `TypedInv`: the types of the call, the transport, the parser and the headers. That `Lines`
  has a value in its type for every buffer is by the argument described below.
- `HeardInv` (`HeardInOrder`) and `AnsweredInv` (`AnsweredOnce`), on Node, and in the browser
  if it refuses no header (`Accepted`): by `FlowInv`. `HeardInOrder` says nothing of the
  calls that may still come, so the invariant relates the requester to its transport. The
  requester is asking the cookie jar, or has told the start, or is done (`Asked`, `Told`,
  `Done`); on Node the stage says which (`NodeFlow`), in the browser the timer, the fields of `did`
  and the cookies that are being stored (`BrowserFlow`). Each function of the requester takes one of these to
  another (`StartToldRuns`, `ResponseOver` and the like), and each action calls one or two.
- `EventsInv` (`EventsWhole`), for streams without a second byte order mark and without two
  line feeds in a row after a carriage return (`PlainStream`, see section 7): by
  `StreamingInv`. Between two chunks the parser is where the reader of single bytes would
  be: what it has kept is the line of the reader, `discard` says that the last byte was a
  carriage return, and as many events were told as were completed. One turn of the loop
  reads one line (`ReadLine`), and as each turn takes a byte, the loop ends.
- `HeadersInv` (`HeadersKept`), where the user's own `content-length` is not also disabled as a
  system header, and the options of the runner set no header that is disabled
  (`Consistent`), with the exception of `TypesForm`: by `KeptInv`. Of each key the list in the request has the user's header,
  or nothing that is enabled and not theirs (`KeyKept`), through `getRequestOptions`, what browsers forbid, and
  the copying back of what the wire overwrote; each wire then has it too.
- `DryRunInv` (`DryRunComplete`), without a condition: by `FirstInv`, that the first wire on
  Node is that of the request as the user made it, however often it was refused before,
  and by following each key through `core.js` on one side and `dry-run.js` on the other.

What `Turn`, `Read`, the searches of `Extraction` and the folds compute is defined by recursion
over a list or a tree. The induction theorems of the
library take an operator as a parameter, which no prover here can instantiate; the proofs
use the set of the numbers for which a statement fails instead, which has a least element
if it is not empty.

Only model-checked: liveness, out of the prover's reach (`RunEnds`, `AbortEnds`, `HostHears`,
`ItemEnds`, `Answered`, `CallsAnswered`). Each other property of a passing run is a theorem.

## 10. Departures

The violation runs `par_abort`, `par_data` and `nested_host` state what a comment or test of
the repository says; the quotations are in `PROJECT.json`. Further places where the code
departs from what one may expect are in the models and are switched off by a constant in
the runs, so that the properties can be checked around them. Each can be seen by giving the
constant the other value:

| Property | Seen with | What happens |
| --- | --- | --- |
| `SequentialRun!RequestsRestored` | `StopOnError` | a request that scripts changed and that then failed is kept for the next iteration (`item.command.js:314`: "request mutations are not persisted across iterations") |
| `SequentialRun!CompleteRun` | `SecretResolver = "async"` | after a pre-request script changed the URL the run completes without the request whose secrets are being resolved |
| `SequentialRun!NothingStartsAfterDone` | `GlobalTimeout` | the command that was running when the time was up queues the next one |
| `SequentialRun!NothingThrown` | `ResumesEarly` | the timer of `resume()` finds no `__resume` when the host did not wait for its pause callback; so does a second pause and abort between `resume()` and its timer |
| `SequentialRun!DoneOnce` | `InitFails` and `GlobalTimeout` | an initialiser's error is passed past `timeback`, and the timer then calls done again |
| none | `DisableSNR` | a `setNextRequest` is not followed but still ends the iteration |
| `CustomIterations!StoppedIsComplete` | `TrustsStop` | the callback of a stop comes while the iteration executes (`partition-manager.js:281`: "The callback to call when the iteration is complete") |
| `Runner!NoneTwice` | the constants of `runner_control` | an entry point inside another one is followed as well when a folder that is none is between them (`test/unit/extract-runnable-items.test.js:396`, "should avoid nested entrypoints") |
| `Runner!EntrypointsRun` | `Inherited = {B}` | a node whose name every object answers to (`constructor`) is taken for an entry point that nobody gave (`extract-runnable-items.js:105`) |
| `Runner!EntrypointsRun` | `I2 = A` | a node whose name is the id of a later node takes that node's entry point |
| `HttpRequest!AllFilesLoaded` | `Templates <- MCFileTemplates` | after a parameter with several files no further file is loaded (`request-helpers-presend.js:192`) |
| `HttpRequest!Credentials` | `Templates <- MCSessTemplates`, `Rounds = 3` | with `md5-sess` the nonce of a challenge without qop is counted too (`digest.js:462`); a later challenge with that nonce and a qop starts the count again (`digest.js:367`), so that what the server has accepted is sent once more |
| `HttpRequest!Credentials` | `Templates <- MCCountTemplates` | a nonce count given by the user is never counted up, so that every request repeats it |
| `HttpRequest!Credentials` | `Templates <- MCStateTemplates` | an ntlm `state` or `ntlmHeader` given by the user is never changed, so that the handshake does not end |
| `HttpRequest!ResponseStartOnce` | the constants of `http_control` | the response to a request that a handler sends first is reported too, and one whose replay is refused is not (`README.md:437`: "Called once with response for each request in a collection") |
| `HttpRequest!ItemEnds` without `Unanswered` | the constants of `http_control` | an oauth2 token is refreshed for an auth without an `accessToken` parameter, and the item is never answered (section 6) |
| `Requester!AnsweredOnce` | `Scenarios <- MCInvalid` | in the browser each header that is refused calls back, and the request is sent all the same (`browser/request.js:324`) |
| `Requester!EventsWhole` | a stream that is not `PlainStream` | events are lost where line breaks are mixed, or a byte order mark is where a buffer begins (section 7) |
| `Requester!HeadersKept` | a request that is not `Consistent` | the user's `content-length`, disabled as a system header too, leaves the first time and, copied back as a header of the system, not the second; a header of the runner's options is sent although it is disabled |
| `Requester!HeadersKept` without `TypesForm` | the constants of `requester_control` | a `content-type` that is disabled leaves with a form in the browser (section 7) |
| `NestedRequests!ConsentRemembered` | the constants of `nested_control` | a nested script may ask for the consent that its root script has (`runner/index.js`) |
| `NestedRequests!RootCursor` | `Roots = 2` | see section 8 |
| `NestedRequests!HostKept`, `NestedRequests!NestingKept` | `TimesOut = TRUE` | a nested run that reaches its global timeout answers its call and goes on: the script that called may end, and the host's run dispose of the sandbox, below it |

## 11. Not modelled

- A second `start()` while the first is initialising, and two runs in one process, which
  share the module global `skippedExecutions` (both listed as hazards).
- Nested requests below a run with `customParallelIterations`: the nested run inherits that
  option too, starts no partition by itself, and ends only by its timeout.
- Exceptions thrown by the host's trigger callbacks; only the callbacks given to `pause()`
  and `abort()` may throw.
- The contents of variable scopes, responses, cookies and visualizer data; which variables
  the resolver of secrets writes.
- In `extensions/event.command.js`, the messages by which a script uses cookies and
  `pm.sendRequest`: they are passed on, and the request is one as in section 6.
- In the request helpers, proxies, certificates and cookies, which add data to the request.
- Redirects, timings, and the agents of the requester; urls and bodies as text.
- Cryptography, and the text of challenges and messages, of the auth handlers.
- `NaN` and `Infinity` as cursor arguments.
- Timings, version and visualizer: pure data.
