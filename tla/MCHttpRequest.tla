---------------------------- MODULE MCHttpRequest ----------------------------
(***************************************************************************)
(* Values for the constants of HttpRequest: items with every kind of auth.  *)
(***************************************************************************)
EXTENDS HttpRequest

Body(mode, post, files) == [BlankRequest EXCEPT !.mode = mode, !.post = post, !.files = files]

File(kind) == [kind |-> kind, content |-> "none", disabled |-> FALSE]
Disabled(file) == [file EXCEPT !.disabled = TRUE]

(* What a user may have written into the request by hand. *)
OwnHeader(exact) == [key |-> Authorization, exact |-> exact, value |-> << >>]
Own(key) == [key |-> key, exact |-> TRUE, value |-> << >>]

Template(type, auth, request) ==
    [type |-> type, auth |-> auth, request |-> request, inherits |-> FALSE, script |-> FALSE]

(* One auth per way a handler may take, with values of the user. *)
UserAuth(values) == [key \in DOMAIN values |-> User(values[key])]

MCBodies == { Body("none", FALSE, << >>), Body("raw", TRUE, << >>), Body("urlencoded", TRUE, << >>),
              Body("file", TRUE, <<File("single")>>), Body("file", TRUE, <<File("base64")>>) }

MCHeaders == { {}, {OwnHeader(TRUE)}, {OwnHeader(FALSE), OwnHeader(TRUE)} }

(* Signed once: the auths that differ in where and whether they sign. *)
MCAuths ==
    [ basic |-> {UserAuth([username |-> 1])},
      noauth |-> {UserAuth([username |-> 1])},
      bearer |-> {UserAuth([token |-> t]) : t \in {0, 1}},
      apikey |-> {UserAuth([key |-> k, in |-> i]) : k \in {0, 1}, i \in {InHeader, InQuery}},
      oauth2 |-> {UserAuth([accessToken |-> t, id |-> d, addTokenTo |-> i, mac |-> m]) :
                    t \in {0, 1}, d \in {0, 1}, i \in {InHeader, InQuery, Nowhere}, m \in {0, 1}}
                \cup {UserAuth([id |-> d, addTokenTo |-> InHeader]) : d \in {0, 1}},
      hawk |-> {UserAuth([authId |-> 1, authKey |-> k, includePayloadHash |-> h,
                          algorithm |-> a]) :
                    k \in {0, 1}, h \in {0, 1}, a \in {1, Unsupported}},
      awsv4 |-> {UserAuth([addAuthDataToQuery |-> q]) : q \in {0, 1}},
      edgegrid |-> {UserAuth([accessToken |-> t, clientToken |-> 1, clientSecret |-> 1]) :
                    t \in {0, 1}},
      oauth1 |-> {UserAuth([consumerKey |-> k, secret |-> 1, rsa |-> r, addParamsToHeader |-> h,
                            includeBodyHash |-> b]) :
                    k \in {0, 1}, r \in {0, 1}, h \in {0, 1}, b \in {0, 1}},
      asap |-> {UserAuth([claims |-> c]) : c \in {0, 1}},
      jwt |-> {UserAuth([key |-> k, addTokenTo |-> i]) :
                    k \in {0, 1}, i \in {InHeader, InQuery, Nowhere}} ]

MCQuery == [ apikey |-> {Own(ApiKey)}, oauth2 |-> {Own(AccessToken)}, jwt |-> {Own(AccessToken)},
             awsv4 |-> {Own(XAmz)}, oauth1 |-> {Own(OAuth)} ]

SignedOnce ==
    UNION { {Template(type, auth, [body EXCEPT !.header = header,
                        !.query = IF type \in DOMAIN MCQuery THEN MCQuery[type] ELSE {},
                        !.form = IF body.mode = "urlencoded" THEN {Own(OAuth)} ELSE {}]) :
                auth \in MCAuths[type], body \in MCBodies, header \in MCHeaders}
            : type \in DOMAIN MCAuths }

(* Digest and ntlm: with values of the user that the server would set. *)
DigestAuths ==
    { UserAuth([username |-> 1, algorithm |-> 0]), UserAuth([username |-> 1, algorithm |-> Md5]),
      UserAuth([username |-> 1, algorithm |-> 9]), UserAuth([username |-> 0, algorithm |-> 0]),
      UserAuth([username |-> 1, qop |-> AuthInt]),
      UserAuth([username |-> 1, realm |-> 7]),
      UserAuth([username |-> 1, realm |-> 7, nonce |-> 7]),
      UserAuth([username |-> 1, disableRetryRequest |-> 1]) }

Replayed ==
    { Template("digest", auth, Body("file", TRUE, <<File("single")>>)) : auth \in DigestAuths }
    \cup { Template("digest", UserAuth([username |-> 1]),
                    [Body("raw", TRUE, << >>) EXCEPT !.header = {OwnHeader(FALSE)}]) }
    \cup { Template("ntlm", UserAuth([username |-> 1, disableRetryRequest |-> d]),
                    [Body("formdata", TRUE, <<File("single"), Disabled(File("single"))>>)
                        EXCEPT !.header = {OwnHeader(TRUE)}]) : d \in {0, 1} }
    \cup { Template("ntlm", UserAuth([username |-> 1]),
                    Body("formdata", TRUE, <<File("text"), File("empty"), File("multi")>>)) }

(* A handler of the host's, which may send a request of its own first. *)
Custom ==
    { [Template("custom", UserAuth([token |-> 1]), Body("none", FALSE, << >>))
        EXCEPT !.inherits = inherits, !.script = script] :
            inherits \in BOOLEAN, script \in BOOLEAN }

NoAuths ==
    { Template(type, UserAuth([token |-> 1]), body) :
        type \in {"none"},
        body \in { Body("missing", FALSE, << >>), Body("none", FALSE, << >>) } }

MCTemplates == SignedOnce \cup Replayed \cup Custom \cup NoAuths

(* Bodies with a file after a parameter that has several. *)
MCFileTemplates ==
    { Template("none", UserAuth([token |-> 1]), Body("formdata", TRUE, files)) :
        files \in { <<File(k1), File(k2), File(k3)>> :
                        k1 \in {"text", "single", "base64"},
                        k2 \in {"single", "multi", "empty"},
                        k3 \in {"single", "base64", "multi", "text"} } }

(* What a handler keeps from one request to the next, written by the user.  *)
Only(type, values) == Template(type, UserAuth(values), Body("raw", TRUE, << >>))

MCSessTemplates == { Only("digest", [username |-> 1, algorithm |-> Md5Sess]) }
MCCountTemplates == { Only("digest", [username |-> 1, nonceCount |-> 1]) }
MCStateTemplates ==
    { Only("ntlm", [username |-> 1, state |-> s]) : s \in {1, 2, INITIALIZED} }
    \cup { Only("ntlm", [username |-> 1, ntlmHeader |-> 1]) }
=============================================================================
