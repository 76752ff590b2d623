----------------------------- MODULE HttpRequest -----------------------------
(***************************************************************************)
(* Sending one request of a collection, several times in a row: the command *)
(* httprequest (lib/runner/extensions/http-request.command.js), the helpers *)
(* before and after the request (lib/runner/request-helpers-*.js), the      *)
(* replay controller, and the auth handlers of Authorizers.                 *)
(*                                                                          *)
(* A command that needs another one (a request that the auth handler wants  *)
(* first, or the same request again) runs it as an instruction of its own   *)
(* and waits.  The commands that are running are therefore a stack: the     *)
(* first is the one the run asked for, the last is the one that executes.   *)
(* They share the auth of the item in the collection, to which each copies  *)
(* what the runtime changed in its own clone.                               *)
(*                                                                          *)
(* The network, the file system, the host and the auth handlers that the    *)
(* host adds are outside: they answer in every way they can.                *)
(***************************************************************************)
EXTENDS Authorizers

CONSTANTS
    MaxReplay,   \* MAX_REPLAY_COUNT of replay-controller.js
    Templates,   \* the items that may be sent: their auth, request and origin
    Aborts,      \* subset of BOOLEAN: may the host abort a request
    \* bounds
    Rounds,      \* how often the item is sent (iterations)
    MaxNonce     \* how many nonces the server issues

VARIABLES
    template,    \* the item in the collection
    original,    \* the parameters of its auth, as the last request left them
    stack,       \* the commands that are running
    rounds,      \* how often the item has been sent
    sent,        \* requests that left for the network in this round
    starts,      \* responseStart triggers in this round
    fault,       \* did a request fail in this round, or was a replay refused?
    nonces,      \* the last nonce the server issued
    accepted     \* the nonces and nonce counts of the requests the server accepted

vars == <<template, original, stack, rounds, sent, starts, fault, nonces, accepted>>

Stages == { "files", "auth", "sign", "send", "sent", "started", "intermediate", "replaying",
            "done", "lost" }

ASSUME BoundsAssumption == MaxReplay \in Nat /\ Rounds \in Nat /\ MaxNonce \in Nat
ASSUME AbortsAssumption == Aborts \subseteq BOOLEAN

(* An item is what a user has written: no parameter of its auth is one of   *)
(* the runtime's, no header or parameter of its request comes from a        *)
(* signing, and no file of its body has been opened.                        *)
Kinds == {"text", "empty", "single", "multi", "base64"}

ASSUME TemplatesAssumption ==
    \A item \in Templates :
        /\ item.auth \in [DOMAIN item.auth -> [value : Nat, system : {FALSE}]]
        /\ {"mode", "files", "header", "query", "form"} \subseteq DOMAIN item.request
        /\ \A entry \in Entries(item.request) : entry.value = << >>
        /\ item.request.files \in Seq([kind : Kinds, content : {"none"}, disabled : BOOLEAN])

(***************************************************************************)
(* Commands                                                                *)
(***************************************************************************)
(* createItemContext and resolveVariables: a clone of the request, and of   *)
(* the auth of the original item, 0 for the item in the collection and n    *)
(* for what the n-th command of the stack sends first.  The latter has an   *)
(* auth when it inherits it from a parent, as the item did.                 *)
Command(request, count, originalItem) ==
    [ stage |-> "files", at |-> 1, count |-> count,
      originalItem |-> originalItem, home |-> originalItem,
      type |-> IF originalItem = 0 \/ template.inherits THEN template.type ELSE "none",
      auth |-> original, request |-> request,
      replay |-> FALSE, aborted |-> FALSE, failed |-> FALSE ]

(* In the clone of a request that was already sent a stream is used up, and *)
(* the JSON of a Buffer is neither the Buffer nor the string it came from.  *)
Clone(request) ==
    [request EXCEPT !.files =
        [ i \in DOMAIN @ |-> IF @[i].content = "stream" THEN [@[i] EXCEPT !.content = "used"]
                             ELSE IF @[i].content = "buffer" THEN [@[i] EXCEPT !.content = "json"]
                             ELSE @[i] ]]

Top == stack[Len(stack)]
InStage(stage) == stack # << >> /\ Top.stage = stage
WithTop(command) == [stack EXCEPT ![Len(stack)] = command]
Below == SubSeq(stack, 1, Len(stack) - 1)

GoTo(stage) == stack' = WithTop([Top EXCEPT !.stage = stage])
Finish(failed) == stack' = WithTop([Top EXCEPT !.stage = "done", !.failed = failed])

HasHandler(command) == command.type \in Types

Init ==
    /\ template \in Templates
    /\ original = template.auth
    /\ stack = << >>
    /\ rounds = 0 /\ sent = 0 /\ starts = 0 /\ fault = "none"
    /\ nonces = 0 /\ accepted = {}

(* The run sends the item. *)
Begin ==
    /\ stack = << >> /\ rounds < Rounds
    /\ stack' = <<Command(template.request, 0, 0)>>
    /\ rounds' = rounds + 1
    /\ sent' = 0 /\ starts' = 0 /\ fault' = "none"
    /\ UNCHANGED <<template, original, nonces, accepted>>

(***************************************************************************)
(* The replay controller: the count travels in the context of each command. *)
(* Past the limit it calls back Refused.                                    *)
(***************************************************************************)
(* Mutant: the context of the new command does not get the count. *)
RequestReplayUncounted(stage, originalItem, request, Refused) ==
    IF Top.count >= MaxReplay THEN Refused
    ELSE stack' = Append(WithTop([Top EXCEPT !.stage = stage, !.count = @ + 1,
                                             !.originalItem = originalItem]),
                         Command(request, Top.count, originalItem))

RequestReplay(stage, originalItem, request, Refused) ==
    IF Top.count >= MaxReplay THEN Refused
    ELSE stack' = Append(WithTop([Top EXCEPT !.stage = stage, !.count = @ + 1,
                                             !.originalItem = originalItem]),
                         Command(request, Top.count + 1, originalItem))

(* A refusal is a warning. *)
CountRefusal == fault' = IF Top.count >= MaxReplay /\ fault = "none" THEN "refused" ELSE fault

(***************************************************************************)
(* The helper that loads the files of the body                             *)
(***************************************************************************)
HasFiles(request) == request.mode \in {"formdata", "file"}

(* A file that cannot be opened: its parameter is disabled, the body        *)
(* dropped.                                                                 *)
NotLoaded(request, file) ==
    IF request.mode = "file" THEN [file EXCEPT !.content = "lost"]
    ELSE [file EXCEPT !.disabled = TRUE]

Load(request, file) ==
    IF file.disabled \/ file.kind \in {"text", "empty"} THEN {file}
    ELSE IF file.kind = "base64"
    THEN {IF file.content = "none" THEN [file EXCEPT !.content = "buffer"]
          ELSE IF request.mode = "file" THEN [file EXCEPT !.content = "lost"] ELSE file}
    ELSE {[file EXCEPT !.content = "stream"], NotLoaded(request, file)}

(* createReadStream: stat, the checks on what it says, the stream. *)
LoadFile ==
    /\ InStage("files") /\ HasFiles(Top.request) /\ Top.at <= Len(Top.request.files)
    /\ Top.request.files[Top.at].kind # "multi"
    /\ \E file \in Load(Top.request, Top.request.files[Top.at]) :
          stack' = WithTop([Top EXCEPT !.request.files[Top.at] = file, !.at = @ + 1])
    /\ UNCHANGED <<template, original, rounds, sent, starts, fault, nonces, accepted>>

(* A parameter with several files becomes a parameter per file that can be  *)
(* opened, and with that the helper is done (presend.js:192).               *)
LoadFiles ==
    /\ InStage("files") /\ HasFiles(Top.request) /\ Top.at <= Len(Top.request.files)
    /\ LET file == Top.request.files[Top.at]
           single == [file EXCEPT !.kind = "single", !.content = "stream"]
       IN  /\ file.kind = "multi"
           /\ IF file.disabled
              THEN stack' = WithTop([Top EXCEPT !.at = @ + 1])
              ELSE \E loaded \in 0 .. 2 :
                     stack' = WithTop([Top EXCEPT !.stage = "auth",
                        !.request.files = SubSeq(@, 1, Top.at - 1)
                                          \o [i \in 1 .. loaded |-> single]
                                          \o SubSeq(@, Top.at + 1, Len(@))])
    /\ UNCHANGED <<template, original, rounds, sent, starts, fault, nonces, accepted>>

FilesLoaded ==
    /\ InStage("files") /\ Top.request.mode # "missing"
    /\ HasFiles(Top.request) => Top.at > Len(Top.request.files)
    /\ GoTo("auth")
    /\ UNCHANGED <<template, original, rounds, sent, starts, fault, nonces, accepted>>

(* An item without a request: the triggers are called with the error. *)
NoRequest ==
    /\ InStage("files") /\ Top.request.mode = "missing"
    /\ Finish(TRUE) /\ fault' = "failed"
    /\ UNCHANGED <<template, original, rounds, sent, starts, nonces, accepted>>

(***************************************************************************)
(* The helper that authorizes: pre, then sign, or first another request     *)
(***************************************************************************)
NoAuth ==
    /\ InStage("auth") /\ ~HasHandler(Top)
    /\ GoTo("send")
    /\ UNCHANGED <<template, original, rounds, sent, starts, fault, nonces, accepted>>

(* The runtime sends what the handler asks for with the request's own item  *)
(* put aside.  An exception is the command's error when everything up to it *)
(* happened in the task of the command; later no one catches it, and the    *)
(* command never ends.                                                      *)
BlankRequest == [ header |-> {}, query |-> {}, form |-> {}, mode |-> "none",
                  post |-> FALSE, files |-> << >> ]

AuthPre ==
    /\ InStage("auth") /\ HasHandler(Top)
    /\ \E outcome \in Pre(Top.type, Top.auth) :
          /\ original' = IF outcome.result \in {"error", "throws"} THEN original
                         ELSE SyncSystem(outcome.auth, original)
          /\ CASE outcome.result = "go" ->
                    /\ stack' = WithTop([Top EXCEPT !.stage = "sign", !.auth = outcome.auth])
                    /\ fault' = fault
               [] outcome.result = "no go" ->
                    /\ stack' = WithTop([Top EXCEPT !.stage = "send", !.auth = outcome.auth])
                    /\ fault' = fault
               [] outcome.result = "intermediate" ->
                    /\ RequestReplay("intermediate", Len(stack), BlankRequest, GoTo("send"))
                    /\ CountRefusal
               [] outcome.result = "error" -> GoTo("send") /\ fault' = fault
               [] outcome.result = "throws" ->
                    (GoTo("lost") \/ Finish(TRUE)) /\ fault' = "failed"
    /\ UNCHANGED <<template, rounds, sent, starts, nonces, accepted>>

(* Mutant: the request's own item is put back only when the other one       *)
(* succeeded.                                                               *)
AuthInitKeepsItem ==
    /\ InStage("done") /\ Len(stack) > 1 /\ stack[Len(stack) - 1].stage = "intermediate"
    /\ LET parent == stack[Len(stack) - 1]
       IN  \/ /\ Top.failed
              /\ stack' = [Below EXCEPT ![Len(stack) - 1].stage = "send"]
           \/ /\ ~Top.failed
              /\ \E stage \in {"auth", "send"} :
                    stack' = [Below EXCEPT ![Len(stack) - 1] =
                                [parent EXCEPT !.stage = stage, !.originalItem = parent.home]]
    /\ UNCHANGED <<template, original, rounds, sent, starts, fault, nonces, accepted>>

(* Mutant: the command goes on only when the other request succeeded. *)
AuthInitOnSuccess ==
    /\ InStage("done") /\ Len(stack) > 1 /\ stack[Len(stack) - 1].stage = "intermediate"
    /\ ~Top.failed
    /\ LET parent == stack[Len(stack) - 1]
       IN  \E stage \in {"auth", "send"} :
              stack' = [Below EXCEPT ![Len(stack) - 1] =
                            [parent EXCEPT !.stage = stage, !.originalItem = parent.home]]
    /\ UNCHANGED <<template, original, rounds, sent, starts, fault, nonces, accepted>>

(* The handler looks at the response (init), and starts over. *)
AuthInit ==
    /\ InStage("done") /\ Len(stack) > 1 /\ stack[Len(stack) - 1].stage = "intermediate"
    /\ LET parent == stack[Len(stack) - 1]
       IN  \E stage \in IF Top.failed THEN {"send"} ELSE {"auth", "send"} :
              stack' = [Below EXCEPT ![Len(stack) - 1] =
                            [parent EXCEPT !.stage = stage, !.originalItem = parent.home]]
    /\ UNCHANGED <<template, original, rounds, sent, starts, fault, nonces, accepted>>

(* A signing that fails is a warning: the request is sent without it. *)
AuthSign ==
    /\ InStage("sign")
    /\ \E signature \in Sign(Top.type, Top.auth, Top.request, Len(stack)) :
          stack' = WithTop([Top EXCEPT !.stage = "send", !.request = signature.request])
    /\ UNCHANGED <<template, original, rounds, sent, starts, fault, nonces, accepted>>

(***************************************************************************)
(* The network                                                             *)
(***************************************************************************)
(* beforeRequest hands the host a function that aborts this command.        *)
Send ==
    /\ InStage("send")
    /\ sent' = sent + 1
    /\ GoTo("sent")
    /\ UNCHANGED <<template, original, rounds, starts, fault, nonces, accepted>>

(* Called in the trigger itself, there is nothing to send. *)
AbortInTrigger ==
    /\ InStage("send") /\ TRUE \in Aborts
    /\ Finish(TRUE) /\ fault' = "failed"
    /\ UNCHANGED <<template, original, rounds, sent, starts, nonces, accepted>>

(* Later it ends the connection, after which the network says so or nothing.*)
(* While a replay runs it has nothing to end: the connection of this        *)
(* command is closed.                                                       *)
Abort ==
    /\ TRUE \in Aborts
    /\ InStage("sent") \/ InStage("started")
    /\ ~Top.aborted
    /\ stack' = WithTop([Top EXCEPT !.aborted = TRUE])
    /\ fault' = "failed"
    /\ UNCHANGED <<template, original, rounds, sent, starts, nonces, accepted>>

Failure == /\ Finish(TRUE) /\ fault' = "failed"
           /\ UNCHANGED <<template, original, rounds, sent, starts, nonces, accepted>>

NetworkError == (InStage("sent") \/ InStage("started")) /\ ~Top.aborted /\ Failure
AbortError == (InStage("sent") \/ InStage("started")) /\ Top.aborted /\ Failure

(* What a server answers: its challenge is of the scheme of the item, with  *)
(* no nonce, the one it issued last, or a new one.                          *)
Offer(scheme, algorithm, nonce, qop) ==
    [scheme |-> scheme, algorithm |-> algorithm, nonce |-> nonce, qop |-> qop]

DigestOffers(nonce) ==
    { <<Offer("digest", 0, nonce, 0)>>, <<Offer("digest", 0, nonce, 1)>>,
      <<Offer("digest", Md5Sess, nonce, 1), Offer("digest", Md5, nonce, AuthInt)>> }

Responses ==
    {[code |-> 200, offers |-> << >>], [code |-> 401, offers |-> << >>]} \cup
    CASE template.type = "digest" ->
            {[code |-> 401, offers |-> offers] :
                offers \in UNION {DigestOffers(nonce) :
                    nonce \in {0, nonces} \cup (1 .. MaxNonce \cap {nonces + 1})}}
      [] template.type = "ntlm" ->
            {[code |-> 401, offers |-> <<Offer(scheme, 0, 0, 0)>>] :
                scheme \in {"ntlm", "negotiate", "type 2", "bad type 2"}}
      [] OTHER -> {}

(* The nonce and the count in the request's digest, if it has a count.      *)
NonceUses(command) ==
    { <<entry.value[2], entry.value[3]>> :
        entry \in {e \in Entries(command.request) : Len(e.value) = 3 /\ e.value[3] # 0} }

(* Mutant: the host is told of a response that will be replayed. *)
TellsHostAlways(outcome) == ~template.script

(* The host is told that the response starts, unless the request will be    *)
(* replayed or a script has sent it.                                        *)
TellsHost(outcome) == outcome.result # "replay" /\ ~template.script

(* The head of the response: post, and with it the decision to replay.  The *)
(* handlers of the runtime answer at once; the step is the answer of post.  *)
ResponseStart ==
    /\ InStage("sent") /\ ~Top.aborted
    /\ \E response \in Responses :
         \E outcome \in IF HasHandler(Top) THEN Post(Top.type, Top.auth, response)
                        ELSE {Outcome("success", Top.auth)} :
            /\ stack' = WithTop([Top EXCEPT !.stage = "started", !.auth = outcome.auth,
                                            !.replay = outcome.result = "replay"])
            /\ original' = IF HasHandler(Top) /\ (Top.originalItem = 0 \/ template.inherits)
                           THEN SyncSystem(outcome.auth, original) ELSE original
            /\ starts' = IF TellsHost(outcome) THEN starts + 1 ELSE starts
            /\ accepted' = IF response.code = 200 THEN accepted \cup NonceUses(Top) ELSE accepted
            /\ nonces' = IF \E i \in 1 .. Len(response.offers) : response.offers[i].nonce > nonces
                         THEN nonces + 1 ELSE nonces
    /\ UNCHANGED <<template, rounds, sent, fault>>

(* The end of the response. *)
ResponseEnd ==
    /\ InStage("started") /\ ~Top.aborted
    /\ IF Top.replay
       THEN /\ RequestReplay("replaying", Top.originalItem, Clone(Top.request), Finish(FALSE))
            /\ CountRefusal
       ELSE Finish(FALSE) /\ fault' = fault
    /\ UNCHANGED <<template, original, rounds, sent, starts, nonces, accepted>>

(* A handler of the host that answers only after the end of the response:   *)
(* it is too late for a replay, and the start may be told after the end.    *)
EndBeforePost ==
    /\ InStage("sent") /\ ~Top.aborted /\ Top.type = "custom"
    /\ Finish(FALSE)
    /\ starts' \in {starts} \cup (IF template.script THEN {} ELSE {starts + 1})
    /\ UNCHANGED <<template, original, rounds, sent, fault, nonces, accepted>>

(* The command that was replayed ends as its replay did. *)
ReplayDone ==
    /\ InStage("done") /\ Len(stack) > 1 /\ stack[Len(stack) - 1].stage = "replaying"
    /\ stack' = [Below EXCEPT ![Len(stack) - 1] =
                    [@ EXCEPT !.stage = "done", !.failed = Top.failed]]
    /\ UNCHANGED <<template, original, rounds, sent, starts, fault, nonces, accepted>>

(* The run gets its answer. *)
End ==
    /\ InStage("done") /\ Len(stack) = 1
    /\ stack' = << >>
    /\ UNCHANGED <<template, original, rounds, sent, starts, fault, nonces, accepted>>

Proceed ==
    \/ LoadFile \/ LoadFiles \/ FilesLoaded \/ NoRequest
    \/ NoAuth \/ AuthPre \/ AuthInit \/ AuthSign
    \/ Send \/ NetworkError \/ ResponseStart \/ ResponseEnd \/ EndBeforePost
    \/ ReplayDone \/ End

Next == Begin \/ Proceed \/ AbortInTrigger \/ Abort \/ AbortError

Spec == Init /\ [][Next]_vars

(* Whatever is called calls back in the end, and the network answers (every *)
(* request has a timeout, or the server one), unless it was told to stop.   *)
FairSpec == Spec /\ WF_vars(Proceed)

(***************************************************************************)
(* Properties                                                              *)
(***************************************************************************)
TypeOK ==
    /\ template \in Templates
    /\ \A i \in 1 .. Len(stack) :
        /\ stack[i].stage \in Stages
        /\ stack[i].type \in Types \cup {"none"}
        /\ stack[i].count \in 0 .. MaxReplay
        /\ i < Len(stack) <=> stack[i].stage \in {"intermediate", "replaying"}
    /\ rounds \in 0 .. Rounds
    /\ sent \in Nat /\ starts \in Nat
    /\ fault \in {"none", "refused", "failed"}
    /\ nonces \in 0 .. MaxNonce

(* However the server and the auth handler answer, one item of the          *)
(* collection sends a bounded number of requests: replays form a chain, and *)
(* when what a handler sends first is itself authorized by the handler, a   *)
(* tree whose depth the count bounds.                                       *)
BoundedRequests ==
    sent <= IF template.type = "custom" /\ template.inherits THEN 2 ^ MaxReplay
            ELSE MaxReplay + 1

(* After any number of signings a request carries one credential: no other  *)
(* header or parameter of the same name, the user's included, is left next  *)
(* to it.  For digest and ntlm, which replay, it is the last one made; only *)
(* a challenge without a nonce makes digest repeat the one before.          *)
(* oauth1 leaves a header of the user that is spelled in another case.      *)
Added(entries) == {entry \in entries : entry.value # << >>}

Alone(entries, caseless) ==
    \A added \in Added(entries), entry \in entries :
        entry # added /\ entry.key = added.key => ~entry.exact /\ ~caseless

OneCredential ==
    (stack # << >> /\ Top.stage \in {"send", "sent"}) =>
        /\ Alone(Top.request.header, Top.type # "oauth1")
        /\ Alone(Top.request.query, FALSE)
        /\ Alone(Top.request.form, FALSE)
        /\ (Top.type = "ntlm" \/ (Top.type = "digest" /\ Get(Top.auth, "nonce") # 0)) =>
              \A added \in Added(Top.request.header) : added.value[1] = Len(stack)

(* When an item with ntlm auth is over and no request failed, the handshake *)
(* in its auth is over too, whatever the server answered and wherever an    *)
(* earlier failure had left it: the next item starts a new one.             *)
HandshakeEnds ==
    (template.type = "ntlm" /\ stack = << >> /\ rounds > 0 /\ fault # "failed") =>
        Get(original, "state") = INITIALIZED /\ Get(original, "ntlmHeader") = 0

(* A request with digest auth never carries a nonce and nonce count that    *)
(* the server has already accepted once, in this item or an earlier one,    *)
(* when the nonce is the server's.                                          *)
NonceCountFresh ==
    (stack # << >> /\ Top.stage = "sent" /\ "nonce" \notin DOMAIN template.auth) =>
        NonceUses(Top) \cap accepted = {}

(* The credentials of a request are the last ones made for it and the only  *)
(* ones, are not used twice, and leave no half-made handshake behind.       *)
Credentials == OneCredential /\ HandshakeEnds /\ NonceCountFresh

(* What the user has set in the auth of the item stays, through all the     *)
(* clones that handlers change and copy back; a token that the host         *)
(* refreshes is the exception the code makes.                               *)
UserParamsKept ==
    \A key \in DOMAIN template.auth \ {"accessToken"} :
        template.auth[key].value # 0 => original[key] = template.auth[key]

(* Whichever way the request that a handler sends first ends, the command   *)
(* that waited for it goes on with its own item.                            *)
OriginalItemRestored ==
    \A i \in 1 .. Len(stack) :
        stack[i].stage # "intermediate" => stack[i].originalItem = stack[i].home

(* A replay opens every file again that the request it repeats had sent.    *)
ReplayFiles ==
    \A i \in 1 .. Len(stack) - 1 :
        (stack[i].stage = "replaying" /\ stack[i + 1].stage \in {"send", "sent", "started"}) =>
            LET before == stack[i].request.files
                after == stack[i + 1].request.files
            IN  \A j \in DOMAIN before :
                    before[j].content = "stream" =>
                        \/ after[j].content = "stream"
                        \/ NotLoaded(stack[i].request, after[j]) = after[j]

(* Replays and requests sent in between leave the user's request as it was: *)
(* its item, its files and its auth.                                        *)
RequestKept == OriginalItemRestored /\ ReplayFiles /\ UserParamsKept

(* With the handlers of the runtime, the response whose start the host was  *)
(* told of is the last one of the item: nothing is sent after it.           *)
NothingSentAfterStart ==
    [][ starts > 0 /\ template.type # "custom" => sent' <= sent ]_vars

(* Every file of the body that is not disabled is loaded when the request   *)
(* is sent, or the user has been warned (presend.js:108, "simply enriches   *)
(* all form parameters having file data type").                             *)
AllFilesLoaded ==
    InStage("send") =>
        \A i \in DOMAIN Top.request.files :
            LET file == Top.request.files[i]
            IN  (HasFiles(Top.request) /\ ~file.disabled /\ file.kind \notin {"text", "empty"}) =>
                    file.content # "none"

(* The host is told once that the response to an item has started, when no  *)
(* request failed (README.md:437, "Called once with response for each       *)
(* request in a collection").                                               *)
ResponseStartOnce ==
    (stack = << >> /\ rounds > 0 /\ fault # "failed" /\ ~template.script) => starts = 1

(* What is never answered: a request the host aborted, when the network     *)
(* says nothing more of it, and the exception that the new token of an      *)
(* oauth2 auth without a parameter for it ends in (auth-interface.js:98).   *)
Unanswered ==
    /\ stack # << >>
    /\ \/ Top.aborted /\ Top.stage \in {"sent", "started"}
       \/ /\ Top.stage = "lost" /\ Top.type = "oauth2"
          /\ Get(Top.auth, "id") # 0 /\ "accessToken" \notin DOMAIN Top.auth

(* The run gets an answer for every item it sends, however the server and   *)
(* the handler answer, and wherever the host aborts, but for these two: in  *)
(* one of them the run stays for ever, and no moment of them excuses more.  *)
ItemEnds == <>[]Unanswered \/ (stack # << >> ~> stack = << >>)
=============================================================================
