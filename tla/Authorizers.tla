----------------------------- MODULE Authorizers -----------------------------
(***************************************************************************)
(* The auth handlers of lib/authorizer: what the hooks pre, sign and post   *)
(* of each handler do to the auth and to the request.                       *)
(*                                                                          *)
(* A hook is the set of its possible outcomes, since it may depend on what  *)
(* the model leaves out (a key that cannot be parsed, a file that cannot be *)
(* read).  A credential is not computed: it is the number of the signing    *)
(* and the parameters of the auth that the properties tell apart.           *)
(***************************************************************************)
EXTENDS AuthInterface, Integers

Authorization == "authorization"
AccessToken == "access_token"
ApiKey == "api-key"
OAuth == "oauth_*"
XAmz == "x-amz-*"

Outcome(result, auth) == [result |-> result, auth |-> auth]
Go(auth, success) == {Outcome(IF success THEN "go" ELSE "no go", auth)}
Unchanged(auth) == {Outcome("success", auth)}

Signature(request, added, failed) == [request |-> request, added |-> added, failed |-> failed]
NotSigned(request) == {Signature(request, FALSE, FALSE)}
Signed(request) == Signature(request, TRUE, FALSE)
Failed(request) == Signature(request, FALSE, TRUE)

(***************************************************************************)
(* The hash of the body, "none", or "throws".  A binary body that the user  *)
(* gave in base64 has been replaced by a Buffer, which has no               *)
(* cloneReadStream; the clone of a stream may fail, and then there is no    *)
(* hash.                                                                    *)
(***************************************************************************)
Content(request) == IF request.files = << >> THEN "none" ELSE request.files[1].content

BodyHash(request, hashed, ofEmpty) ==
    CASE request.mode = "none" -> {ofEmpty}
      [] request.mode \in hashed -> {"hash"}
      [] request.mode = "file" ->
            (CASE Content(request) \in {"none", "lost"} -> {"none"}
               [] Content(request) = "stream" -> {"hash", "none"}
               [] OTHER -> {"throws"})
      [] OTHER -> {"none"}

Aws4BodyHash(request) == BodyHash(request, {"raw", "urlencoded", "graphql"}, "none")
HawkBodyHash(request) == BodyHash(request, {"raw", "urlencoded", "graphql"}, "none")
EdgegridBodyHash(request) == BodyHash(request, {"raw", "urlencoded", "graphql"}, "none")
DigestBodyHash(request) == BodyHash(request, {"raw", "urlencoded", "graphql"}, "hash")
OAuth1BodyHash(request) == BodyHash(request, {"raw", "graphql"}, "hash")

(* A signing that needs a hash: it fails when computing the hash throws.    *)
SignHashed(request, hashes, Add(_)) ==
    {IF hash = "throws" THEN Failed(request) ELSE Signed(Add(hash)) : hash \in hashes}

(***************************************************************************)
(* basic, bearer, apikey, oauth2                                            *)
(***************************************************************************)
BasicSign(auth, request, n) ==
    {Signed(AddHeader(RemoveHeader(request, Authorization, TRUE), Authorization, <<n>>))}

BearerPre(auth) == Go(auth, Get(auth, "token") # 0)

BearerSign(auth, request, n) ==
    IF Get(auth, "token") = 0 THEN NotSigned(request)
    ELSE BasicSign(auth, request, n)

ApiKeyPre(auth) == Go(auth, Get(auth, "key") # 0 \/ Get(auth, "value") # 0)

InHeader == 0
InQuery == 2

(* `in` other than header and query means header. *)
ApiKeySign(auth, request, n) ==
    IF Get(auth, "key") = 0 /\ Get(auth, "value") = 0 THEN NotSigned(request)
    ELSE IF Get(auth, "in") = InQuery
    THEN {Signed(AddQueryParams(RemoveQueryParams(request, ApiKey), ApiKey, <<n>>))}
    ELSE {Signed(AddHeader(RemoveHeader(request, ApiKey, TRUE), ApiKey, <<n>>))}

(* The host may exchange the id of a token for a new token.  It replaces    *)
(* the user's, and without a parameter to replace setting it throws, in the *)
(* host's callback: nothing is called back.                                 *)
OAuth2Pre(auth) ==
    IF Get(auth, "id") = 0 THEN Go(auth, Get(auth, "accessToken") # 0)
    ELSE UNION { Go(auth, Get(auth, "accessToken") # 0),
                 IF "accessToken" \in DOMAIN auth
                 THEN Go(SetSystem(auth, "accessToken", 2), TRUE)
                 ELSE {Outcome("throws", auth)} }

Nowhere == 3

OAuth2Sign(auth, request, n) ==
    LET clean == RemoveQueryParams(RemoveHeader(request, Authorization, TRUE), AccessToken)
    IN  IF Get(auth, "accessToken") = 0 \/ Get(auth, "mac") = 1 THEN NotSigned(request)
        ELSE CASE Get(auth, "addTokenTo") = InQuery -> {Signed(AddQueryParams(clean, AccessToken, <<n>>))}
               [] Get(auth, "addTokenTo") = InHeader -> {Signed(AddHeader(clean, Authorization, <<n>>))}
               [] OTHER -> NotSigned(clean)

(***************************************************************************)
(* hawk, aws4, edgegrid                                                     *)
(***************************************************************************)
Unsupported == 9

(* The nonce and the timestamp become system parameters of the auth. *)
HawkPre(auth) ==
    LET missing == {key \in {"nonce", "timestamp"} : Get(auth, key) = 0}
    IN  Go(SetAll(auth, [key \in missing |-> 1]), TRUE)

(* The hash of the payload, when the user wants one.  createHash throws for *)
(* an algorithm it does not know; without one there is no hash.             *)
HawkHashes(auth, request) ==
    IF \/ Get(auth, "includePayloadHash") = 0 \/ Get(auth, "algorithm") = 0
       \/ request.mode = "none"
    THEN {"none"}
    ELSE IF Get(auth, "algorithm") = Unsupported THEN {"throws"} ELSE HawkBodyHash(request)

(* computeHeader leaves the header to the Hawk library, which may refuse    *)
(* the algorithm too.                                                       *)
HawkSign(auth, request, n) ==
    LET clean == RemoveHeader(request, Authorization, TRUE)
    IN  IF Get(auth, "authId") = 0 \/ Get(auth, "authKey") = 0 THEN NotSigned(request)
        ELSE SignHashed(clean, HawkHashes(auth, request),
                        LAMBDA hash : AddHeader(clean, Authorization, <<n>>))
             \cup (IF Get(auth, "algorithm") = Unsupported THEN {Failed(clean)} ELSE {})

(* In the query everything is in X-Amz-* parameters, X-Amz-Expires of the   *)
(* user apart; in the headers, Authorization and the X-Amz-* it covers.     *)
Aws4AddAuthData(auth, request, n) ==
    IF Get(auth, "addAuthDataToQuery") = 1 THEN AddQueryParams(request, XAmz, <<n>>)
    ELSE AddHeader(AddHeader(request, XAmz, <<n>>), Authorization, <<n>>)

Aws4Sign(auth, request, n) ==
    LET noHeaders == RemoveHeader(RemoveHeader(request, Authorization, TRUE), XAmz, TRUE)
        clean == RemoveQueryParams(noHeaders, XAmz)
    IN  SignHashed(clean,
            IF Get(auth, "addAuthDataToQuery") = 1 THEN {"none"} ELSE Aws4BodyHash(request),
            LAMBDA hash : Aws4AddAuthData(auth, clean, n))

EdgegridComplete(auth) ==
    \A key \in {"accessToken", "clientToken", "clientSecret"} : Get(auth, key) # 0

EdgegridPre(auth) == Go(auth, EdgegridComplete(auth))

EdgegridSign(auth, request, n) ==
    LET clean == RemoveHeader(request, Authorization, TRUE)
    IN  IF ~EdgegridComplete(auth) THEN NotSigned(request)
        ELSE SignHashed(clean, IF request.post THEN EdgegridBodyHash(request) ELSE {"none"},
                        LAMBDA hash : AddHeader(clean, Authorization, <<n>>))

(***************************************************************************)
(* oauth1: a header, else the urlencoded body of a PUT or POST, else the    *)
(* query.  The user's header is removed only when it is spelled exactly so. *)
(***************************************************************************)
OAuth1AddAuthData(auth, request, n) ==
    IF Get(auth, "addParamsToHeader") = 1 THEN AddHeader(request, Authorization, <<n>>)
    ELSE IF request.post /\ request.mode = "urlencoded" THEN AddBodyParams(request, OAuth, <<n>>)
    ELSE AddQueryParams(request, OAuth, <<n>>)

(* Signing throws when the private key of an RSA signature is no key. *)
OAuth1Sign(auth, request, n) ==
    LET noParams == RemoveQueryParams(RemoveHeader(request, Authorization, FALSE), OAuth)
        clean == IF request.mode = "urlencoded" THEN RemoveBodyParams(noParams, OAuth)
                 ELSE noParams
        hashes == IF request.mode = "urlencoded" \/ Get(auth, "includeBodyHash") = 0
                  THEN {"none"} ELSE OAuth1BodyHash(request)
    IN  IF Get(auth, "consumerKey") = 0 \/ Get(auth, "secret") = 0 THEN NotSigned(request)
        ELSE SignHashed(clean, hashes, LAMBDA hash : OAuth1AddAuthData(auth, clean, n))
             \cup (IF Get(auth, "rsa") = 1 THEN {Failed(clean)} ELSE {})

(***************************************************************************)
(* asap and jwt: the request is touched only once there is a token          *)
(***************************************************************************)
AsapSign(auth, request, n) ==
    (IF Get(auth, "claims") = 1 THEN BasicSign(auth, request, n) ELSE {}) \cup {Failed(request)}

JwtAddToken(auth, request, n) ==
    CASE Get(auth, "addTokenTo") = InHeader ->
            AddHeader(RemoveHeader(request, Authorization, TRUE), Authorization, <<n>>)
      [] Get(auth, "addTokenTo") = InQuery ->
            AddQueryParams(RemoveQueryParams(request, AccessToken), AccessToken, <<n>>)
      [] OTHER -> request

JwtSign(auth, request, n) ==
    {Failed(request)} \cup
    (IF Get(auth, "key") = 0 THEN {}
     ELSE {Signature(JwtAddToken(auth, request, n), Get(auth, "addTokenTo") # Nowhere, FALSE)})

(***************************************************************************)
(* digest                                                                   *)
(***************************************************************************)
(* The challenges of the algorithm the user chose (no algorithm means       *)
(* md5; the text of the challenge is searched, so md5 also finds md5-sess), *)
(* else all; the first one counts.                                          *)
Md5 == 1
Md5Sess == 2
Offers(offer, algorithm) ==
    \/ offer.algorithm = 0 /\ algorithm = Md5
    \/ offer.algorithm # 0 /\ offer.algorithm = algorithm
    \/ offer.algorithm = Md5Sess /\ algorithm = Md5

DigestChallenges(offers, algorithm) ==
    LET digests == SelectSeq(offers, LAMBDA offer : offer.scheme = "digest")
        matching == SelectSeq(digests, LAMBDA offer : Offers(offer, algorithm))
    IN  IF algorithm = 0 \/ matching = << >> THEN digests ELSE matching

DigestPre(auth) == Go(auth, Get(auth, "nonce") # 0 /\ Get(auth, "realm") # 0)

IncreaseNonceCount(auth) == Set(auth, "nonceCount", Get(auth, "nonceCount") + 1)

(* What a challenge says; with a qop the client's nonce and count restart.  *)
FromChallenge(auth, offer) ==
    LET qop == IF offer.qop # 0 THEN offer.qop ELSE Get(auth, "qop")
        keys == {"nonce", "realm"} \cup (IF offer.qop # 0 THEN {"qop"} ELSE {})
                \cup (IF qop # 0 THEN {"clientNonce", "nonceCount"} ELSE {})
    IN  [ key \in keys |-> CASE key = "nonce" -> offer.nonce
                             [] key = "qop" -> offer.qop
                             [] OTHER -> 1 ]

(* Mutant: the nonce count goes on when the nonce changes, and it is not    *)
(* counted for a request that was accepted.                                 *)
DigestPostUncounted(auth, response) ==
    LET challenges == DigestChallenges(response.offers, Get(auth, "algorithm"))
    IN  IF response.code = 401 /\ challenges # << >>
        THEN {Outcome("replay", SetAll(auth, FromChallenge(auth, challenges[1])))}
        ELSE {Outcome("success", auth)}

(* All of them known already means that the credentials were wrong: no      *)
(* replay, and the challenge is not looked at any more.                     *)
DigestPost(auth, response) ==
    LET challenges == DigestChallenges(response.offers, Get(auth, "algorithm"))
        params == FromChallenge(auth, challenges[1])
    IN  IF Get(auth, "disableRetryRequest") # 0 THEN {Outcome("success", auth)}
        ELSE IF response.code = 401 /\ challenges # << >>
        THEN {IF \A key \in DOMAIN params : Get(auth, key) # 0
              THEN Outcome("success", auth)
              ELSE Outcome("replay", SetAll(auth, params))}
        ELSE {Outcome("success", IncreaseNonceCount(auth))}

AuthInt == 2

(* The nonce counts with a qop, and for md5-sess. *)
DigestHeader(auth, n) ==
    <<n, Get(auth, "nonce"),
      IF Get(auth, "qop") # 0 \/ Get(auth, "algorithm") = Md5Sess
      THEN Get(auth, "nonceCount") ELSE 0>>

DigestSign(auth, request, n) ==
    LET clean == RemoveHeader(request, Authorization, TRUE)
    IN  IF Get(auth, "username") = 0 \/ Get(auth, "realm") = 0 THEN NotSigned(request)
        ELSE IF Get(auth, "algorithm") \notin {0, Md5, Md5Sess} THEN {Failed(clean)}
        ELSE SignHashed(clean,
                IF Get(auth, "qop") = AuthInt THEN DigestBodyHash(request) ELSE {"none"},
                LAMBDA hash : AddHeader(clean, Authorization, DigestHeader(auth, n)))

(***************************************************************************)
(* ntlm: the message of type 1 answers the challenge, the one of type 3 the *)
(* server's message of type 2                                               *)
(***************************************************************************)
INITIALIZED == 1
T1_MSG_CREATED == 2
T3_MSG_CREATED == 3
NegotiateMessage == 1
AuthenticateMessage == 2

NtlmState(auth, state, header) ==
    SetAll(auth, [key \in {"state", "ntlmHeader"} |-> IF key = "state" THEN state ELSE header])

NtlmPre(auth) ==
    Go(IF Get(auth, "state") = 0 THEN NtlmState(auth, INITIALIZED, 0) ELSE auth, TRUE)

HasNtlmChallenge(offers) == \E i \in 1 .. Len(offers) : offers[i].scheme \in {"ntlm", "negotiate"}

(* The server's message of type 2, readable or not. *)
Type2(offers) == {i \in 1 .. Len(offers) : offers[i].scheme \in {"type 2", "bad type 2"}}

NtlmPost(auth, response) ==
    LET state == Get(auth, "state")
        Stop(result) == {Outcome(result, NtlmState(auth, INITIALIZED, 0))}
        Next3 == {Outcome("replay", NtlmState(auth, T3_MSG_CREATED, AuthenticateMessage))}
    IN  IF Get(auth, "disableRetryRequest") # 0 THEN {Outcome("success", auth)}
        ELSE CASE response.code = 401 /\ state = INITIALIZED ->
                    IF HasNtlmChallenge(response.offers)
                    THEN {Outcome("replay", NtlmState(auth, T1_MSG_CREATED, NegotiateMessage))}
                    ELSE Stop("success")
               [] response.code = 401 /\ state = T1_MSG_CREATED ->
                    IF \E i \in Type2(response.offers) :
                          /\ response.offers[i].scheme = "type 2"
                          /\ \A j \in Type2(response.offers) : i <= j
                    THEN Next3 ELSE Stop("error")
               [] OTHER -> Stop("success")

NtlmSign(auth, request, n) ==
    LET clean == RemoveHeader(request, Authorization, TRUE)
    IN  IF Get(auth, "ntlmHeader") = 0 THEN NotSigned(clean)
        ELSE {Signed(AddHeader(clean, Authorization, <<n, Get(auth, "ntlmHeader")>>))}

(***************************************************************************)
(* A handler that the host has added (AuthLoader.addHandler): every way of  *)
(* answering that the interface allows.                                     *)
(***************************************************************************)
CustomPre(auth) ==
    {Outcome(result, auth) : result \in {"error", "go", "no go", "intermediate"}}
CustomPost(auth, response) ==
    {Outcome(result, auth) : result \in {"error", "success", "replay"}}
CustomSign(auth, request, n) == BasicSign(auth, request, n) \cup {Failed(request)}

(***************************************************************************)
(* AuthLoader: the handler of a type                                        *)
(***************************************************************************)
Types == { "noauth", "awsv4", "basic", "bearer", "digest", "hawk", "oauth1", "oauth2", "asap",
           "ntlm", "apikey", "edgegrid", "jwt", "custom" }

Pre(type, auth) ==
    CASE type = "bearer" -> BearerPre(auth)
      [] type = "apikey" -> ApiKeyPre(auth)
      [] type = "oauth2" -> OAuth2Pre(auth)
      [] type = "hawk" -> HawkPre(auth)
      [] type = "edgegrid" -> EdgegridPre(auth)
      [] type = "digest" -> DigestPre(auth)
      [] type = "ntlm" -> NtlmPre(auth)
      [] type = "custom" -> CustomPre(auth)
      [] OTHER -> Go(auth, TRUE)

Sign(type, auth, request, n) ==
    CASE type = "basic" -> BasicSign(auth, request, n)
      [] type = "bearer" -> BearerSign(auth, request, n)
      [] type = "apikey" -> ApiKeySign(auth, request, n)
      [] type = "oauth2" -> OAuth2Sign(auth, request, n)
      [] type = "hawk" -> HawkSign(auth, request, n)
      [] type = "awsv4" -> Aws4Sign(auth, request, n)
      [] type = "edgegrid" -> EdgegridSign(auth, request, n)
      [] type = "oauth1" -> OAuth1Sign(auth, request, n)
      [] type = "asap" -> AsapSign(auth, request, n)
      [] type = "jwt" -> JwtSign(auth, request, n)
      [] type = "digest" -> DigestSign(auth, request, n)
      [] type = "ntlm" -> NtlmSign(auth, request, n)
      [] type = "custom" -> CustomSign(auth, request, n)
      [] OTHER -> NotSigned(request)

Post(type, auth, response) ==
    CASE type = "digest" -> DigestPost(auth, response)
      [] type = "ntlm" -> NtlmPost(auth, response)
      [] type = "custom" -> CustomPost(auth, response)
      [] OTHER -> Unchanged(auth)
=============================================================================
