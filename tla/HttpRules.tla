----------------------------- MODULE HttpRules ------------------------------
(***************************************************************************)
(* The decisions of src/crates/infra-http that need no state: the access   *)
(* policy compiled from the OpenAPI document, the problem each failure     *)
(* becomes, what makes an idempotency key and a request's identity, and    *)
(* what of a success may be stored and replayed.  What is wrong with an    *)
(* input is a set of named faults.                                         *)
(***************************************************************************)
EXTENDS Refusals, Integers, FiniteSets

MAX_STORED_BODY_BYTES == 1048576
MAX_STORED_HEADER_BYTES == 8192
MAX_KEY_BYTES == 255
MAX_PARAM_NAME_BYTES == 256
MAX_REQUEST_ID == 128

\* A waiter that gives up leaves the queue where it stands (tokio's semaphore).
Leave(queue, waiter) ==
    LET places == {i \in DOMAIN queue : queue[i] = waiter}
        k == CHOOSE i \in places : TRUE
    IN IF places = {} THEN queue
       ELSE [i \in 1 .. Len(queue) - 1 |-> queue[IF i < k THEN i ELSE i + 1]]

-----------------------------------------------------------------------------
(* The catalog of failures and its projection into problems *)

Codes ==
    {"BadRequest", "Unauthorized", "AuthenticationRequired", "AuthenticationMalformed",
     "AuthenticationInvalid", "AuthenticationUnavailable", "IdempotencyRequestInProgress",
     "IdempotencyKeyMismatch", "IdempotencyUnavailable", "WebhookRejected", "Forbidden",
     "NotFound", "MethodNotAllowed", "Conflict", "AlreadyExists", "RequestEntityTooLarge",
     "UnsupportedMediaType", "UnprocessableContent", "TooManyRequests", "InternalServerError",
     "ServiceUnavailable", "GatewayTimeout"}

HttpStatus(code) ==
    CASE code \in {"BadRequest", "AuthenticationMalformed", "WebhookRejected"} -> 400
      [] code \in {"Unauthorized", "AuthenticationRequired", "AuthenticationInvalid"} -> 401
      [] code = "Forbidden" -> 403
      [] code = "NotFound" -> 404
      [] code = "MethodNotAllowed" -> 405
      [] code \in {"IdempotencyRequestInProgress", "Conflict", "AlreadyExists"} -> 409
      [] code = "RequestEntityTooLarge" -> 413
      [] code = "UnsupportedMediaType" -> 415
      [] code \in {"IdempotencyKeyMismatch", "UnprocessableContent"} -> 422
      [] code = "TooManyRequests" -> 429
      [] code = "InternalServerError" -> 500
      [] code \in {"AuthenticationUnavailable", "IdempotencyUnavailable",
                   "ServiceUnavailable"} -> 503
      [] code = "GatewayTimeout" -> 504

\* A problem as a response: the code, the request id once known, and the problem it carries.
ProblemResponse(code) == [status |-> HttpStatus(code), problem |-> {code}, id |-> {}]

\* Retry-After: whole seconds, rounded up, at least one; every finite wait has a value.
RetryAfterSeconds(seconds, nanos) ==
    LET up == seconds + IF nanos # 0 THEN 1 ELSE 0 IN IF up < 1 THEN 1 ELSE up

\* A bare 413 becomes a problem, and every problem takes the request id.
CompleteProblem(response, id) ==
    LET enveloped == IF response.status = 413 /\ response.problem = {}
                     THEN ProblemResponse("RequestEntityTooLarge") ELSE response
    IN IF enveloped.problem = {} THEN enveloped ELSE [enveloped EXCEPT !.id = id]

\* A caller's request id is kept when it is 1 to 128 bytes of the accepted alphabet.
StripInvalid(id) ==
    IF id.length \in 1 .. MAX_REQUEST_ID /\ id.plain THEN {id} ELSE {}

\* Labels a caller cannot invent.
MethodLabel(method) ==
    IF method \in {"OPTIONS", "GET", "POST", "PUT", "DELETE", "HEAD", "TRACE", "CONNECT", "PATCH"}
    THEN method ELSE "_OTHER"

ProbeRoutes == {"/health/live", "/health/ready"}

SkipProbe(logProbes, method, route) == ~logProbes /\ method = "GET" /\ route \in ProbeRoutes

ReadyResponse(verdict) == IF verdict = "ok" THEN 200 ELSE 503

-----------------------------------------------------------------------------
(* The access policy: an operation's own security, or the document's *)

\* Security is a sequence of requirements; a requirement is a set of <<scheme, scopes>>.
Security(document, operation) ==
    IF operation.inherits THEN document.security ELSE operation.security

OperationAccess(document, operation) ==
    LET requirements == Security(document, operation)
        Bad(i) == \/ Cardinality(requirements[i]) # 1
                  \/ \E pair \in requirements[i] : pair[1] # "bearerAuth" \/ "malformed" \in pair[2]
        Scopes(i) == UNION {pair[2] : pair \in requirements[i]}
    IN CASE requirements = <<>> -> [kind |-> "Public", anyOf |-> {}]
         [] requirements # <<>> /\ (~document.bearer \/ \E i \in DOMAIN requirements : Bad(i)) ->
              [kind |-> "InvalidPolicy", anyOf |-> {}]
         [] OTHER -> [kind |-> "Protected", anyOf |-> {Scopes(i) : i \in DOMAIN requirements}]

\* One bad operation refuses the whole document.
CompilePolicy(document) ==
    LET table == [o \in DOMAIN document.operations |->
                    OperationAccess(document, document.operations[o])]
    IN IF \E o \in DOMAIN table : table[o].kind = "InvalidPolicy" THEN {} ELSE {table}

FinalizePublic(document) ==
    {table \in CompilePolicy(document) : \A o \in DOMAIN table : table[o].kind = "Public"}

\* An operation is <<path, method>>; HEAD falls back to GET.
PolicyAccess(table, path, method) ==
    IF <<path, method>> \in DOMAIN table THEN {table[<<path, method>>]}
    ELSE {table[o] : o \in {p \in DOMAIN table : method = "HEAD" /\ p = <<path, "GET">>}}

GrantsAny(alternatives, scopes) == \E wanted \in alternatives : wanted \subseteq scopes

FailureCode(failure) ==
    CASE failure = "Missing" -> "AuthenticationRequired"
      [] failure = "Malformed" -> "AuthenticationMalformed"
      [] failure = "Invalid" -> "AuthenticationInvalid"
      [] failure = "Unavailable" -> "AuthenticationUnavailable"

\* What the verifier's answer becomes; "none" passes the request on.
AuthorizeCode(access, answer) ==
    CASE access = {} -> "InternalServerError"
      [] \E a \in access : a.kind = "Public" -> "none"
      [] answer.failure # "none" -> FailureCode(answer.failure)
      [] \A a \in access : ~GrantsAny(a.anyOf, answer.scopes) -> "Forbidden"
      [] OTHER -> "none"

-----------------------------------------------------------------------------
(* Extractors: every rejection is a problem that never carries a submitted value *)

JsonProblem(rejection) ==
    CASE rejection = "data" -> "UnprocessableContent"
      [] rejection = "syntax" -> "BadRequest"
      [] rejection = "content_type" -> "UnsupportedMediaType"
      [] rejection = "too_large" -> "RequestEntityTooLarge"
      [] rejection = "broken_stream" -> "BadRequest"
      [] OTHER -> "InternalServerError"

\* A query that does not fit is named by its first member.
QueryParam(path) == {path[i] : i \in {1} \cap DOMAIN path}

\* The name of a body member, of a query key or of a path parameter, when short enough.
WithParam(names) == {name \in names : name.length <= MAX_PARAM_NAME_BYTES}

\* No pointer for the document itself, nor past a member the deserializer cannot name.
BodyPointer(path) ==
    IF path = <<>> \/ \E i \in DOMAIN path : path[i] = "unknown" THEN {} ELSE {path}

\* A path parameter known by its key, by its position, or as the only one.
PathParam(kind, key, index, names) ==
    CASE kind = "at_key" -> {key}
      [] kind = "at_index" /\ index \in DOMAIN names -> {names[index]}
      [] kind = "alone" /\ Len(names) = 1 -> {names[1]}
      [] OTHER -> {}

PathProblem(status) == IF status = 400 THEN "BadRequest" ELSE "InternalServerError"

-----------------------------------------------------------------------------
(* Identity of an idempotent request *)

CallerIdentityOf(issuer, subject, client) ==
    CASE subject # "" -> {<<issuer, "Subject", subject>>}
      [] subject = "" /\ client # "" -> {<<issuer, "Client", client>>}
      [] OTHER -> {}

\* One field value: an opening quote selects the structured grammar for good.
DecodedKey(value) ==
    IF value.quoted THEN IF value.structured = "string" /\ ~value.params THEN {value.text} ELSE {}
    ELSE IF value.visible THEN {value.text} ELSE {}

ValidKey(values) ==
    IF Len(values) # 1 THEN {}
    ELSE {text \in DecodedKey(values[1]) : Len(text) \in 1 .. MAX_KEY_BYTES}

\* Length-prefixed framing: equal digests only for equal parts, an absent query apart from an
\* empty one.
ScopeKeyOf(caller, key) == <<"scope", caller, key>>

RequestDigest(request) ==
    <<"request", request.method, request.path, request.query, request.types, request.body>>

\* The key layer: what it answers itself ("none" hands the request on), and what it counts.
HandleKey(faults) ==
    CASE faults \cap {"no_store", "no_deadline", "no_principal", "no_caller"} # {} ->
           [code |-> "InternalServerError", counted |-> "none"]
      [] "bad_key" \in faults -> [code |-> "BadRequest", counted |-> "invalid_key"]
      [] "body_limit" \in faults -> [code |-> "RequestEntityTooLarge", counted |-> "not_stored"]
      [] "body_broken" \in faults -> [code |-> "BadRequest", counted |-> "not_stored"]
      [] OTHER -> [code |-> "none", counted |-> "none"]

\* Replay metadata comes from the sealed provenance alone.
NormalizeResponse(success, provenance) ==
    CASE ~success -> "unmarked"
      [] success /\ provenance = "Executed" -> "unmarked"
      [] success /\ provenance = "Replayed" -> "replayed"
      [] OTHER -> "InternalServerError"

\* A composer without operations needs no store; one with operations and no store is refused.
FinishComposer(operations, hasStore) ==
    IF operations = 0 THEN "Inactive" ELSE IF hasStore THEN "Active" ELSE "Refused"

-----------------------------------------------------------------------------
(* Stored successes *)

Replayable == {"content-type", "content-encoding", "content-language", "content-disposition",
               "location", "etag", "last-modified"}

\* A success is captured with its replayable headers only.
Capture(response) ==
    LET kept == {h \in response.headers : h \in Replayable}
    IN CASE response.status \notin 200 .. 299 -> [class |-> "status", headers |-> {}]
         [] response.body > MAX_STORED_BODY_BYTES -> [class |-> "body_limit", headers |-> {}]
         [] response.broken -> [class |-> "body_stream", headers |-> {}]
         [] response.headerBytes > MAX_STORED_HEADER_BYTES ->
              [class |-> "header_limit", headers |-> {}]
         [] OTHER -> [class |-> "ok", headers |-> kept]

\* A record is validated again before it is replayed.
DecodeRecord(record) ==
    First(<< <<record.body > MAX_STORED_BODY_BYTES, "Undecodable">>,
             <<record.status \notin 200 .. 299, "Undecodable">>,
             <<~(record.headers \subseteq Replayable), "Undecodable">>,
             <<record.headerBytes > MAX_STORED_HEADER_BYTES, "Undecodable">> >>)

-----------------------------------------------------------------------------
(* The contract of an idempotent route *)

ResponseFamily ==
    [s \in {400, 409, 413, 422, 500, 503} |->
        CASE s = 400 -> "IdempotencyBadRequest"
          [] s = 409 -> "IdempotencyRequestInProgress"
          [] s = 413 -> "RequestEntityTooLarge"
          [] s = 422 -> "IdempotencyKeyMismatch"
          [] s = 500 -> "InternalServerError"
          [] s = 503 -> "IdempotencyUnavailable"]

ReplacesProtected(status, response) ==
    \/ status = 400 /\ response \in {"AuthenticationMalformed", "BadRequest"}
    \/ status = 503 /\ response = "AuthenticationUnavailable"

\* `responses` maps declared statuses to component names; an inline response is "inline".
PrepareProblems(responses) ==
    \A s \in DOMAIN ResponseFamily \cap DOMAIN responses :
        responses[s] = ResponseFamily[s] \/ ReplacesProtected(s, responses[s])

PrepareSuccess(responses, headers) ==
    LET successes == DOMAIN responses \cap 200 .. 299
    IN First(<< <<DOMAIN responses \cap 100 .. 199 # {}, "SuccessResponses">>,
                <<\E s \in successes : responses[s] # "inline", "ReferencedSuccess">>,
                <<"foreign-replayed" \in headers, "ReplayHeader">>,
                <<~(headers \subseteq Replayable \cup {"idempotent-replayed", "foreign-replayed"}),
                  "SuccessResponses">>,
                <<DOMAIN responses \cap 300 .. 399 # {}, "SuccessResponses">>,
                <<successes = {}, "SuccessResponses">> >>)

\* A composed route is one path with one operation.
OneOperation(methods) == {m \in methods : Cardinality(methods) = 1}

PrepareRoute(route) ==
    Then(First(<< <<OneOperation(route.methods) = {} \/ ~route.named, "Shape">>,
                  <<~(route.methods \subseteq {"post", "put", "patch", "delete"}), "Method">>,
                  <<route.keyParameter \notin {"absent", "generated"}, "KeyParameter">>,
                  <<~PrepareProblems(route.responses), "ProblemResponses">> >>),
         PrepareSuccess(route.responses, route.headers))

\* The declaration once composed: the generated family in place of what it replaces.
Composed(route) ==
    [s \in DOMAIN ResponseFamily \cup DOMAIN route.responses |->
        IF s \in DOMAIN ResponseFamily THEN ResponseFamily[s] ELSE route.responses[s]]
=============================================================================
