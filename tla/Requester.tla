------------------------------ MODULE Requester ------------------------------
(***************************************************************************)
(* One HTTP request on the network (lib/requester): the requester, which    *)
(* tells its caller of the start of the response, of the server-sent events *)
(* in its body and of its end; and one of the two transports below it,      *)
(* postman-request of Node (request-wrapper.js) or XMLHttpRequest           *)
(* (browser/request.js), as package.json chooses.                           *)
(*                                                                          *)
(* The caller (http-request.command.js) may send the same request again     *)
(* with a new requester.  It listens to the events of the requester until   *)
(* it is called back, and disposes of the requester then.                   *)
(*                                                                          *)
(* The network, the cookie jar and postman-request are outside.  Of the     *)
(* latter it is assumed, as the requester does, that it calls back once and *)
(* that an error that comes with a response comes after its start.          *)
(***************************************************************************)
EXTENDS SSEProcessor, RequestHeaders

CONSTANTS
    Scenarios,   \* the requests that may be sent, see MCRequester
    \* bounds
    Rounds       \* how often a request is sent

VARIABLES
    scenario,    \* the request as the user made it, and what it runs into
    headers,     \* its headers, as the requesters before left them
    rounds,      \* how often it has been sent
    call,        \* the requester
    link,        \* the transport
    rest,        \* the body the server has not sent yet
    wires        \* what left for the network, round by round

vars == <<scenario, headers, rounds, call, link, rest, wires>>

ASSUME RoundsAssumption == Rounds \in Nat

(* Of the headers that the user disables, the runtime asks for its own only *)
(* (core.js: "Don't traverse the user provided disabledSystemHeaders        *)
(* object").                                                                *)
ASSUME ScenariosAssumption ==
    \A s \in Scenarios :
        /\ s.headers \in [Names -> UserLists]
        /\ s.options.disabled \subseteq SystemKeys \cup AllowedBlacklist
        /\ s.stream \in Seq(Bytes)
        /\ s.invalid \in Nat
        /\ {s.sse, s.getCookies, s.jar} \subseteq BOOLEAN

Node == scenario.transport = "node"
Request == [headers |-> headers, method |-> scenario.method, body |-> scenario.body,
            options |-> scenario.options]

(***************************************************************************)
(* The requester.  started and ended are _responseStarted and               *)
(* _responseEnded; asking: the cookies of the response have been asked for; *)
(* heard: what the caller was told, the callbacks ("error", "response") and *)
(* the events ("start", "data").                                            *)
(***************************************************************************)
NewCall == [ stage |-> "open", started |-> FALSE, ended |-> FALSE, asking |-> FALSE, sse |-> FALSE,
             disposed |-> FALSE, heard |-> << >>, processor |-> NewProcessor ]

IdleCall == [NewCall EXCEPT !.stage = "idle"]

TellAll(c, events) == IF c.disposed THEN c ELSE [c EXCEPT !.heard = @ \o events]

(* onEnd: the callback is called, whether or not anybody listens, and each  *)
(* time that it is asked to.                                                *)
OnEnds(c, answers) ==
    [c EXCEPT !.stage = "answered", !.heard = @ \o answers, !.disposed = TRUE]

OnEnd(c, answer) == OnEnds(c, <<answer>>)

(* Mutant: a response that ends while the cookies are being asked for is    *)
(* passed on at once.                                                       *)
CompleteAtOnce(c, trigger) ==
    CASE trigger = "responseStart" -> [c EXCEPT !.started = TRUE]
      [] trigger = "response" -> OnEnd(c, "response")

(* Mutant: the end that has been kept is forgotten. *)
CompleteForgotten(c, trigger) ==
    CASE trigger = "responseStart" -> [c EXCEPT !.started = TRUE]
      [] trigger = "response" -> IF c.started THEN OnEnd(c, "response")
                                 ELSE [c EXCEPT !.ended = TRUE]

OnComplete(c, trigger) ==
    CASE trigger = "responseStart" ->
            LET started == [c EXCEPT !.started = TRUE]
            IN  IF c.ended THEN OnEnd(started, "response") ELSE started
      [] trigger = "response" ->
            IF c.started THEN OnEnd(c, "response") ELSE [c EXCEPT !.ended = TRUE]

(* done of onStart. *)
StartTold(c) == OnComplete(TellAll([c EXCEPT !.asking = FALSE], <<"start">>), "responseStart")

OnStart(c) ==
    LET typed == [c EXCEPT !.sse = scenario.sse]
    IN  IF scenario.getCookies THEN [typed EXCEPT !.asking = TRUE] ELSE StartTold(typed)

(* onData: the events that the chunk completed are told. *)
OnChunk(c, chunk) ==
    IF ~c.sse THEN c
    ELSE LET processor == OnData(c.processor, chunk)
             new == Len(processor.emitted) - Len(c.processor.emitted)
         IN  TellAll([c EXCEPT !.processor = processor], [i \in 1 .. new |-> "data"])

(***************************************************************************)
(* Sending.  An empty url and a restricted host are answered at once.       *)
(*                                                                          *)
(* link.stage, of Node: "lookup" (core.lookup resolves the host),           *)
(* "sending", "body", "over"; of the browser: "jar" (the cookies for the    *)
(* request are asked for), "opened", "body", "over".  timer is the browser's*)
(* timeout; response, onStart, end and callback are the fields of did;      *)
(* storing: the cookies of the response are on their way into the jar.      *)
(***************************************************************************)
IdleLink == [ stage |-> "none", address |-> "none", aborted |-> FALSE,
              timer |-> FALSE, timedOut |-> FALSE, response |-> FALSE, storing |-> FALSE,
              onStart |-> FALSE, end |-> FALSE, callback |-> FALSE ]

Restricted(address) == address \in scenario.restricted

Init ==
    /\ scenario \in Scenarios
    /\ headers = scenario.headers
    /\ rounds = 0
    /\ call = IdleCall
    /\ link = IdleLink
    /\ rest = << >>
    /\ wires = << >>

MaySend == /\ rounds < Rounds
           /\ call.stage # "open"
           /\ call.heard # << >> => Last(call.heard) = "response"

Refuse ==
    /\ MaySend
    /\ scenario.url = "empty" \/ Restricted(scenario.url)
    /\ rounds' = rounds + 1
    /\ call' = OnEnd(NewCall, "error")
    /\ headers' = IF scenario.url = "empty" THEN headers ELSE GetRequestOptions(Request).headers
    /\ UNCHANGED <<scenario, link, rest, wires>>

Send ==
    /\ MaySend
    /\ scenario.url # "empty" /\ ~Restricted(scenario.url)
    /\ rounds' = rounds + 1
    /\ rest' = scenario.stream
    /\ call' = NewCall
    /\ LET options == GetRequestOptions(Request)
       IN  IF Node
           THEN /\ headers' = options.headers
                /\ wires' = Append(wires, Wire(Request, options, scenario.jar))
                /\ link' = [IdleLink EXCEPT !.stage = "lookup"]
           ELSE /\ headers' = BrowserHeaders(options.headers)
                /\ wires' = wires
                /\ link' = [IdleLink EXCEPT !.stage = "jar"]
    /\ UNCHANGED scenario

(* The listener of response.start has been left the headers of the wire. *)
Overwritten == AddMissingRequestHeaders(headers, Last(wires))

(***************************************************************************)
(* Node                                                                    *)
(***************************************************************************)
(* core.lookup: the names of this machine are tried, IPv6 first; the        *)
(* addresses of any other are resolved and must not be restricted.          *)
Loopback == {"ipv6", "ipv4"}

Allowed(addresses) == \A i \in DOMAIN addresses : ~Restricted(addresses[i])

Lookup ==
    /\ link.stage = "lookup"
    /\ \/ /\ scenario.url = "localhost"
          /\ \E address \in Loopback :
                link' = [link EXCEPT !.stage = "sending", !.address = address]
          /\ call' = call
       \/ /\ scenario.url # "localhost"
          /\ \E addresses \in scenario.addresses :
                IF addresses = << >> \/ ~Allowed(addresses)
                THEN link' = [link EXCEPT !.stage = "over"] /\ call' = OnEnd(call, "error")
                ELSE /\ \E i \in DOMAIN addresses :
                            link' = [link EXCEPT !.stage = "sending", !.address = addresses[i]]
                     /\ call' = call
    /\ UNCHANGED <<scenario, headers, rounds, rest, wires>>

Respond ==
    /\ link.stage = "sending" /\ ~link.aborted
    /\ link' = [link EXCEPT !.stage = "body"]
    /\ call' = OnStart(call)
    /\ headers' = Overwritten
    /\ UNCHANGED <<scenario, rounds, rest, wires>>

Chunk ==
    /\ Node /\ link.stage = "body" /\ ~link.aborted
    /\ \E n \in 1 .. Len(rest) :
            /\ call' = OnChunk(call, SubSeq(rest, 1, n))
            /\ rest' = SubSeq(rest, n + 1, Len(rest))
    /\ UNCHANGED <<scenario, headers, rounds, link, wires>>

BodyEnds ==
    /\ Node /\ link.stage = "body" /\ rest = << >> /\ ~link.aborted
    /\ link' = [link EXCEPT !.stage = "over"]
    /\ call' = OnComplete(call, "response")
    /\ UNCHANGED <<scenario, headers, rounds, rest, wires>>

NetworkFails ==
    /\ Node /\ link.stage \in {"sending", "body"}
    /\ link' = [link EXCEPT !.stage = "over"]
    /\ \/ call' = OnEnd(call, "error")
       \/ link.stage = "body" /\ call' = OnComplete(call, "response")
    /\ UNCHANGED <<scenario, headers, rounds, rest, wires>>

(* The handle that the host got: an aborted request may never be answered.  *)
(* In the browser it makes the request fail, as it may by itself; there is  *)
(* no handle if the cookies for the request have to be asked for.           *)
Abort ==
    /\ Node /\ link.stage \in {"lookup", "sending", "body"} /\ ~link.aborted
    /\ link' = [link EXCEPT !.aborted = TRUE]
    /\ UNCHANGED <<scenario, headers, rounds, call, rest, wires>>

(* The jar answers with the cookies for the final url, or an error. *)
CookiesGot ==
    /\ call.asking
    /\ call' = StartTold(call)
    /\ UNCHANGED <<scenario, headers, rounds, link, rest, wires>>

(***************************************************************************)
(* The browser                                                             *)
(***************************************************************************)
(* run_xhr.  The timer is set first; opening the request sets its headers,  *)
(* each of which may be found invalid; then it is sent all the same.        *)
XhrOpen ==
    /\ link.stage = "jar"
    /\ LET failed == scenario.invalid > 0
       IN  /\ wires' = Append(wires, XhrWire(Request, scenario.jar))
           /\ headers' = IF scenario.jar THEN [headers EXCEPT !["cookie"] = XhrCookie(@)]
                         ELSE headers
           /\ call' = IF failed THEN OnEnds(call, [i \in 1 .. scenario.invalid |-> "error"])
                      ELSE call
           /\ link' = [link EXCEPT !.stage = "opened", !.timer = TRUE,
                                   !.response = failed, !.end = failed]
    /\ UNCHANGED <<scenario, rounds, rest>>

TooLate ==
    /\ link.timer
    /\ link' = [link EXCEPT !.timer = FALSE, !.timedOut = TRUE]
    /\ call' = OnEnd(call, "error")
    /\ UNCHANGED <<scenario, headers, rounds, rest, wires>>

(* did.onStart: the response has been stored, its start can be told, and    *)
(* its end if that has come in between.                                     *)
Answer(c, l) == IF l.callback THEN OnComplete(c, "response") ELSE c

(* on_end *)
XhrEnd(c, l) ==
    IF l.end THEN [c |-> c, l |-> l]
    ELSE IF l.onStart THEN [c |-> OnComplete(c, "response"), l |-> [l EXCEPT !.end = TRUE]]
    ELSE [c |-> c, l |-> [l EXCEPT !.end = TRUE, !.callback = TRUE]]

(* on_response: without a status the request failed, or went to this very   *)
(* origin and is taken for a response.                                      *)
XhrResponse(c, l, failed) ==
    LET answered == [l EXCEPT !.response = TRUE, !.timer = FALSE]
    IN  IF l.response THEN [c |-> c, l |-> l]
        ELSE IF failed THEN [c |-> OnEnd(c, "error"), l |-> [answered EXCEPT !.end = TRUE]]
        ELSE IF scenario.setCookie THEN [c |-> c, l |-> [answered EXCEPT !.storing = TRUE]]
        ELSE [c |-> OnStart(c), l |-> [answered EXCEPT !.onStart = TRUE]]

(* on_state_change: the headers, or all of it at once when states are       *)
(* skipped.  After the timeout nothing is listened to.                      *)
StateChange ==
    /\ ~Node /\ link.stage \in {"opened", "body"}
    /\ \E stage \in (IF link.stage = "opened" THEN {"body", "over"} ELSE {"over"}),
          failed \in BOOLEAN :
        LET changed == [link EXCEPT !.stage = stage]
            response == XhrResponse(call, changed, failed)
            all == IF stage = "over" THEN XhrEnd(response.c, response.l) ELSE response
        IN  /\ failed => stage = "over" /\ link.stage = "opened"
            /\ IF link.timedOut
               THEN call' = call /\ link' = changed
               ELSE call' = all.c /\ link' = all.l
            /\ headers' = IF ~link.timedOut /\ ~link.response /\ ~failed THEN Overwritten
                          ELSE headers
    /\ UNCHANGED <<scenario, rounds, rest, wires>>

CookiesStored ==
    /\ link.storing
    /\ link' = [link EXCEPT !.storing = FALSE, !.onStart = TRUE]
    /\ call' = Answer(OnStart(call), link)
    /\ UNCHANGED <<scenario, headers, rounds, rest, wires>>

Next == Refuse \/ Send \/ Lookup \/ Respond \/ Chunk \/ BodyEnds \/ NetworkFails \/ Abort
        \/ CookiesGot \/ XhrOpen \/ TooLate \/ StateChange \/ CookiesStored

Spec == Init /\ [][Next]_vars

(* Nothing but the host decides whether a request is aborted or sent again; *)
(* all else happens: the network answers, or fails.                         *)
Progress == Lookup \/ Respond \/ Chunk \/ BodyEnds \/ NetworkFails
            \/ CookiesGot \/ XhrOpen \/ TooLate \/ StateChange \/ CookiesStored

FairSpec == Spec /\ WF_vars(Progress)

(***************************************************************************)
(* Properties                                                              *)
(***************************************************************************)
Answers == {"error", "response"}

(* Answered once: the caller of a request is called back at most once.  The *)
(* command goes on in the callback, and would go on twice; the README says  *)
(* of the trigger that follows "Called once with response for each request  *)
(* in a collection".                                                        *)
AnsweredOnce == Cardinality({i \in DOMAIN call.heard : call.heard[i] \in Answers}) <= 1

(* The order of what the caller hears: the start of a response once, before *)
(* its end although the cookies and the body come in any order; its events  *)
(* after the start, unless the jar is asked for the cookies first; nothing  *)
(* once the request is answered, neither a late start nor a late event.     *)
HeardInOrder ==
    LET heard == call.heard
        At(event) == {i \in DOMAIN heard : heard[i] = event}
    IN  /\ Cardinality(At("start")) <= 1
        /\ \A i \in At("response") : \E j \in At("start") : j < i
        /\ \A i \in DOMAIN heard : heard[i] \in Answers => i = Len(heard)
        /\ ~scenario.getCookies => \A i \in At("data") : \E j \in At("start") : j < i

(* Server-sent events: whatever the chunks, the events told are those that  *)
(* the body received so far contains, each when its last line is complete   *)
(* ("Called every time a complete server-sent event is received").          *)
EventsWhole ==
    call.sse /\ Node =>
        LET received == SubSeq(scenario.stream, 1, Len(scenario.stream) - Len(rest))
            told == {i \in DOMAIN call.heard : call.heard[i] = "data"}
        IN  /\ call.processor.emitted = Events(received)
            /\ Cardinality(told) = Len(call.processor.emitted)

(* The headers of the user: every one that is enabled leaves with each      *)
(* sending of the request, with the user's value (to which the library may  *)
(* have added), unless the options of the runner replace it.                *)
UserHeadersSent ==
    \A k \in DOMAIN wires, key \in Names : \A i \in Enabled(scenario.headers[key]) :
        \/ key \in scenario.options.config
        \/ ~Node /\ key \in ForbiddenHeaders
        \/ \E sent \in wires[k] : sent.key = key /\ "own" \in ToSet(sent.value)

(* In the browser the type of a form is added by a library that is not told *)
(* what the user disabled (browser/request.js:212).                         *)
TypesForm(sent) ==
    ~Node /\ scenario.body = "form" /\ sent = [key |-> "content-type", value |-> <<"wire">>]

(* What the user disabled (disabledSystemHeaders) is not sent by the        *)
(* runtime or by the library below it, the type of a form in the browser    *)
(* excepted, and a length that must not be sent is not replaced by chunks.  *)
DisabledNotSent ==
    \A k \in DOMAIN wires : \A sent \in wires[k] :
        sent.key \in scenario.options.disabled
            \cup {key \in {"transfer-encoding"} : "content-length" \in scenario.options.disabled}
        => "own" \in ToSet(sent.value) \/ TypesForm(sent)

(* The headers that leave are those that the user asked for, each time the *)
(* request is sent (core.js, requester.js).                                 *)
HeadersKept == UserHeadersSent /\ DisabledNotSent

(* The dry run promises every header that the request then has. *)
DryRunComplete ==
    wires # << >> /\ Node =>
        LET dry == DryRun([Request EXCEPT !.headers = scenario.headers], scenario.jar)
        IN  Keys(wires[1]) \subseteq Keys(EnabledHeaders(dry)) \cup scenario.options.config

(* Whatever the network does, a request that is not aborted is answered,    *)
(* although a response waits for the cookies and its end for its start.     *)
Answered == (call.stage = "open") ~> (call.stage = "answered" \/ link.aborted)
=============================================================================
