---------------------------- MODULE RequestHeaders ----------------------------
(***************************************************************************)
(* The headers of a request on their way to the network.                    *)
(*                                                                          *)
(*   getRequestOptions (lib/requester/core.js) adds the headers of the      *)
(*   runtime to the request, unless the user sent their own or disabled     *)
(*   them; the library that sends the request adds the ones of the wire;    *)
(*   the ones it overwrites are copied back to the request                  *)
(*   (lib/requester/requester.js), which may be sent again.                 *)
(*                                                                          *)
(*   dryRun (lib/requester/dry-run.js) tells, without sending anything,     *)
(*   which headers the request would have.                                  *)
(*                                                                          *)
(* All of them look at the headers of one key only, and the order of the    *)
(* others does not matter to what is sent: headers has, for each key, the   *)
(* headers with that key in their order.  A header is [value, disabled,     *)
(* system]; its value is the sequence of the origins of its parts: "own"    *)
(* (the user's), "runtime", "config" (the options of the runner), "wire",   *)
(* "jar" (the cookie jar).                                                  *)
(***************************************************************************)
EXTENDS Naturals, Sequences, SequencesExt

CONSTANT Names   \* the keys that headers may have

SystemKeys == {"user-agent", "accept", "cache-control", "postman-token", "host",
               "accept-encoding", "connection"}

AllowedBlacklist == {"content-type", "content-length", "accept-encoding", "connection"}

ASSUME NamesAssumption ==
    SystemKeys \cup AllowedBlacklist \cup {"cookie", "transfer-encoding"} \subseteq Names

Origins == {"own", "runtime", "config", "wire", "jar"}

HeaderLists == Seq([value : Seq(Origins), disabled : BOOLEAN, system : BOOLEAN])

(* The headers of one key as the user made them. *)
UserLists == Seq([value : {<<"own">>}, disabled : BOOLEAN, system : {FALSE}])

(* What a browser does not let a program set. *)
ForbiddenHeaders == {"accept-encoding", "connection", "content-length", "cookie", "host",
                     "transfer-encoding"}

System(value) == [value |-> value, disabled |-> FALSE, system |-> TRUE]

Enabled(list) == {i \in DOMAIN list : ~list[i].disabled}

(* The header list of the SDK: the last header of that key is replaced, and *)
(* stays disabled if it was.                                                *)
Upsert(list, new) ==
    IF list = << >> THEN <<new>>
    ELSE [list EXCEPT ![Len(list)] = [new EXCEPT !.disabled = list[Len(list)].disabled]]

(***************************************************************************)
(* core.js: what is sent                                                   *)
(***************************************************************************)
HasBody(request) == request.body # "none"

(* The body of a method that has none is pruned, unless the user insists. *)
SendsBody(request) ==
    HasBody(request) /\ (request.method # "get" \/ request.options.disableBodyPruning)

AddMissing(list, value) ==
    IF Enabled(list) = {} THEN Append(list, System(value)) ELSE list

(* The builder of a raw (or graphql) body knows its content type. *)
WithBody(request) ==
    IF SendsBody(request) /\ request.body = "raw"
    THEN [request.headers EXCEPT !["content-type"] = AddMissing(@, <<"runtime">>)]
    ELSE request.headers

DisabledKeys(options) ==
    options.disabled \cup (IF options.implicit THEN {} ELSE {"cache-control", "postman-token"})

Configured(list, key, options) ==
    IF key \in options.config THEN Upsert(list, System(<<"config">>)) ELSE list

(* Mutant: a header of the runtime goes out in place of the user's. *)
AddSystemHeadersAlways(headers, options) ==
    [key \in DOMAIN headers |->
        Configured(IF key \in SystemKeys \ DisabledKeys(options)
                   THEN Upsert(headers[key], System(<<"runtime">>)) ELSE headers[key],
                   key, options)]

AddSystemHeaders(headers, options) ==
    [key \in DOMAIN headers |->
        Configured(IF key \in SystemKeys \ DisabledKeys(options)
                   THEN AddMissing(headers[key], <<"runtime">>) ELSE headers[key],
                   key, options)]

(* A header of the runtime that the user disabled: it was there before (the *)
(* body's content type, the host of a signature).  Its key is kept from the *)
(* wire, unless the header is the user's.                                   *)
NotOwn(list) == Enabled(list) = {} \/ list[Max(Enabled(list))].system

DisableSystem(list) ==
    IF Enabled(list) # {} /\ NotOwn(list)
    THEN [list EXCEPT ![Max(Enabled(list))].disabled = TRUE] ELSE list

GetRequestOptions(request) ==
    LET disabled == DisabledKeys(request.options)
        added == AddSystemHeaders(WithBody(request), request.options)
    IN  [ headers |-> [key \in DOMAIN added |->
                        IF key \in disabled \cap (AllowedBlacklist \cup {"host"})
                        THEN DisableSystem(added[key]) ELSE added[key]],
          setHost |-> ~("host" \in disabled /\ NotOwn(added["host"])),
          blacklist |-> {key \in AllowedBlacklist \cap disabled : NotOwn(added[key])}
                        \cup {key \in {"transfer-encoding"} :
                                "content-length" \in disabled /\ NotOwn(added[key])} ]

(***************************************************************************)
(* What leaves: a set of headers.  The library joins the cookies of the     *)
(* jar to the header of the request, and adds what HTTP needs.              *)
(***************************************************************************)
EnabledHeaders(headers) ==
    UNION {{[key |-> key, value |-> headers[key][i].value] : i \in Enabled(headers[key])}
            : key \in DOMAIN headers}

Keys(wire) == {header.key : header \in wire}

WithCookies(wire, jar) ==
    LET own == {header \in wire : header.key = "cookie"}
    IN  IF ~jar THEN wire
        ELSE IF own = {} THEN wire \cup {[key |-> "cookie", value |-> <<"jar">>]}
        ELSE (wire \ own) \cup {[header EXCEPT !.value = Append(@, "jar")] : header \in own}

Wire(request, options, jar) ==
    LET own == EnabledHeaders(options.headers)
        Missing(key, needed) ==
            IF needed /\ key \notin Keys(own) THEN {[key |-> key, value |-> <<"wire">>]} ELSE {}
        hasLength == "content-length" \notin options.blacklist
        all == own \cup Missing("host", options.setHost)
                   \cup Missing("content-type", SendsBody(request) /\ request.body = "form")
                   \cup Missing("content-length", SendsBody(request) \/ request.method = "post")
                   \cup Missing("transfer-encoding", SendsBody(request) /\ ~hasLength
                                        /\ "content-length" \notin Keys(own))
    IN  WithCookies({header \in all : header.key \notin options.blacklist}, jar)

(* What the library overwrote goes back to the request, in place of all the *)
(* headers of that key.                                                     *)
Overwrite(list, sent) ==
    IF Len(list) > 1 THEN <<System(sent)>> ELSE Upsert(list, System(sent))

AddMissingRequestHeaders(headers, wire) ==
    [key \in DOMAIN headers |->
        IF key \in {"cookie", "content-length"} /\ key \in Keys(wire)
        THEN Overwrite(headers[key], (CHOOSE header \in wire : header.key = key).value)
        ELSE headers[key]]

(* The browser: it removes the forbidden headers that it would send from    *)
(* the request, and with them the disabled ones of the same key.            *)
BrowserHeaders(headers) ==
    [key \in DOMAIN headers |->
        IF key \in ForbiddenHeaders /\ Enabled(headers[key]) # {} THEN << >> ELSE headers[key]]

(* What XMLHttpRequest is given (browser/request.js): the headers of the    *)
(* request, the type of a form without one, whatever is disabled, and the   *)
(* cookies of the jar.  A browser adds headers of its own to these.         *)
XhrWire(request, jar) ==
    LET own == EnabledHeaders(request.headers)
        form == SendsBody(request) /\ request.method # "get" /\ request.body = "form"
    IN  own \cup (IF form /\ "content-type" \notin Keys(own)
                 THEN {[key |-> "content-type", value |-> <<"wire">>]} ELSE {})
            \cup (IF jar THEN {[key |-> "cookie", value |-> <<"jar">>]} ELSE {})

(* The cookies of the jar are a header of the request from then on. *)
XhrCookie(list) ==
    Upsert(list, [ value |-> <<"jar">>, disabled |-> FALSE,
                   system |-> list # << >> /\ list[Len(list)].system ])

(***************************************************************************)
(* dryRun, for the headers of one key                                      *)
(***************************************************************************)
AppendIf(list, new, value) == IF new THEN Append(list, System(value)) ELSE list

DryContentType(list, key, request) ==
    AppendIf(list, HasBody(request) /\ key \in {"content-type", "content-length"}, <<"runtime">>)

DryContentLength(list, key, method) ==
    AppendIf(list, /\ key = "content-length" /\ method # "get"
                   /\ ~(list # << >> /\ list[Len(list)].system), <<"runtime">>)

DryCookie(list, key, jar) == AppendIf(list, key = "cookie" /\ jar, <<"jar">>)

(* What an auth helper added, host, is replaced. *)
DryStatic(list, key, implicit) ==
    LET own == FlattenSeq([i \in DOMAIN list |-> IF list[i].system THEN << >> ELSE <<list[i]>>])
    IN  AppendIf(IF key = "host" THEN own ELSE list,
                 key \in SystemKeys \ IF implicit THEN {} ELSE {"cache-control", "postman-token"},
                 <<"runtime">>)

(* Mutant: the header that is disabled may be the user's. *)
DryDisableOwn(list, key, disabled) ==
    IF key \in disabled
    THEN [i \in DOMAIN list |-> [list[i] EXCEPT !.disabled = TRUE]] ELSE list

DryDisable(list, key, disabled) ==
    IF key \in disabled /\ list # << >> /\ list[Len(list)].system
    THEN [list EXCEPT ![Len(list)].disabled = TRUE] ELSE list

DryRun(request, jar) ==
    [key \in DOMAIN request.headers |->
        LET typed == DryContentType(request.headers[key], key, request)
            cookie == DryCookie(DryContentLength(typed, key, request.method), key, jar)
        IN  DryDisable(DryStatic(cookie, key, request.options.implicit),
                       key, request.options.disabled)]
=============================================================================
