----------------------------- MODULE MCRequester -----------------------------
(***************************************************************************)
(* Requests for Requester: headers of every kind, and every way to answer.  *)
(***************************************************************************)
EXTENDS Requester

MCNames == SystemKeys \cup AllowedBlacklist \cup {"cookie", "transfer-encoding", "x"}

MCBytes == Breaks \cup {"bom", "x"}

NoHeaders == [key \in MCNames |-> << >>]

Plain == [disabled |-> {}, implicit |-> TRUE, config |-> {}, disableBodyPruning |-> FALSE]

(* transport: the library below.  restricted, url, addresses: the host and  *)
(* what it may resolve to (<< >>: to nothing).  getCookies, jar, setCookie: *)
(* what the jar can do, and whether there are cookies.  invalid: headers    *)
(* that the browser does not accept.                                        *)
Basic ==
    [ transport |-> "node", url |-> "host", restricted |-> {}, addresses |-> {<<"a">>},
      headers |-> NoHeaders, method |-> "get", body |-> "none", options |-> Plain,
      jar |-> FALSE, getCookies |-> FALSE, setCookie |-> FALSE,
      sse |-> FALSE, stream |-> << >>, invalid |-> 0 ]

Own(disabled) == [value |-> <<"own">>, disabled |-> disabled, system |-> FALSE]
With(key, list) == [NoHeaders EXCEPT ![key] = list]

OwnKeys == {"content-type", "host", "user-agent", "cookie", "connection", "x"}

OwnHeaders ==
    {NoHeaders} \cup {With(key, <<Own(FALSE)>>) : key \in OwnKeys \cup {"content-length"}}
                \cup {With(key, <<Own(first), Own(~first)>>) : key \in OwnKeys, first \in BOOLEAN}

Bodies ==
    {[method |-> "post", body |-> b, prune |-> FALSE] : b \in {"none", "raw", "form"}}
    \cup {[method |-> "get", body |-> b, prune |-> p] : b \in {"raw"}, p \in BOOLEAN}

AllKeys == {"cache-control", "postman-token", "content-type", "content-length",
            "accept-encoding", "connection", "host"}

DisabledSets == {{}, AllKeys} \cup {{key} : key \in {"content-type", "content-length", "host"}}

Options ==
    {[Plain EXCEPT !.disabled = d, !.implicit = (d = {}), !.config = c] :
        d \in DisabledSets, c \in {{}, {"user-agent"}, {"x"}}}

(* Not here: the user's own length, disabled among the headers of the       *)
(* runtime, which is taken for the runtime's when the request is sent again.*)
HeaderRequests ==
    { s \in { [Basic EXCEPT !.headers = h, !.method = b.method, !.body = b.body,
                            !.options = [o EXCEPT !.disableBodyPruning = ~b.prune],
                            !.jar = j, !.transport = t] :
                h \in OwnHeaders, b \in Bodies, o \in Options, j \in BOOLEAN,
                t \in {"node", "browser"} } :
        ~ (s.headers["content-length"] # << >> /\ "content-length" \in s.options.disabled) }

(* Streams of up to four bytes, or five, with breaks of one kind. *)
Streams ==
    UNION { { mark \o a \o b \o c \o d :
                mark \in {<< >>, <<"bom">>}, a \in {<< >>, <<"x">>, break}, b \in {<<"x">>, break},
                c \in {<<"x">>, break}, d \in {<<"x">>, break} }
            : break \in {<<"lf">>, <<"cr">>, <<"cr", "lf">>} }

NodeRequests ==
    {[Basic EXCEPT !.sse = TRUE, !.stream = s, !.getCookies = g] : s \in Streams, g \in BOOLEAN}
    \cup {[Basic EXCEPT !.url = u, !.restricted = r,
                        !.addresses = {<< >>, <<"a">>, <<"b">>, <<"a", "b">>}] :
            u \in {"empty", "localhost", "host"}, r \in {{}, {"a"}, {"b"}, {"host"}}}

BrowserRequests ==
    {[Basic EXCEPT !.transport = "browser", !.getCookies = g, !.jar = j, !.setCookie = s] :
        g \in BOOLEAN, j \in BOOLEAN, s \in BOOLEAN}

MCScenarios == HeaderRequests \cup NodeRequests \cup BrowserRequests

(* Headers that XMLHttpRequest refuses. *)
MCInvalid == {[request EXCEPT !.invalid = n] : request \in BrowserRequests, n \in {1, 2}}
=============================================================================
