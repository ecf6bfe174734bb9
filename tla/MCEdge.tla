------------------------------- MODULE MCEdge -------------------------------
(* The components at the edge of the service, one at a time: the cache link, *)
(* a request's way through the HTTP stack, gRPC calls served and sent, the   *)
(* load of the configuration, object storage and webhooks.  `focus` names    *)
(* the component that moves; the others rest where they start.  What the     *)
(* stateless decisions at the edge compute is checked against a second       *)
(* description of it over bounded inputs: problems, access policies and      *)
(* stored successes, gRPC's registry, deadlines and statuses, the sections   *)
(* of the configuration, and what object storage admits and sends.           *)
EXTENDS CacheLink, HttpEdge, GrpcCall, ConfigLoad, ObjectStorage, Webhooks

VARIABLE focus

edgeUnionVars == <<cacheVars, edgeVars, grVars, loadVars, xferVars, whVars, focus>>

-----------------------------------------------------------------------------
(* The carriers of a configuration *)

Entry(path, spelling, text, faults) ==
    [path |-> path, spelling |-> spelling, faults |-> faults,
     value |-> [text |-> text, breaks |-> spelling = "newline"]]
Key(path, text) == [path |-> path, value |-> [text |-> text, breaks |-> FALSE]]
File(keys, faults) == [keys |-> keys, faults |-> faults]

Dsn == <<"postgres", "dsn">>
Timeout == <<"http", "request_timeout">>
Algorithm == <<"integrations", "p", "oauth", "algorithm">>

Entries ==
    {Entry(Dsn, "upper", "x", {}), Entry(Dsn, "mixed", "y", {}),
     Entry(Timeout, "upper", "nonsense", {}), Entry(Timeout, "upper", "30s", {}),
     Entry(Algorithm, "upper", "odd", {}), Entry(<<"http", "typo">>, "upper", "x", {}),
     Entry(<<"app", "env">>, "upper", "blank", {}), Entry(Dsn, "upper", "x", {"foreign"}),
     Entry(Dsn, "upper", "x", {"symbol"}), Entry(Dsn, "upper", "x", {"not_unicode"})}

\* At most two variables at once: one alone, two spellings of a key, or two keys.
MCVariables == {s \in SUBSET Entries : Cardinality(s) <= 2}
MCSecrets ==
    {{}, {Entry(Dsn, "newline", "z", {})},
     {Entry(Dsn, "newline", "z", {}), Entry(Dsn, "mixed", "z", {})},
     {Entry(Timeout, "upper", "8s", {"nul"})}}

Bases ==
    {File({}, {}), File({Key(<<"postgres", "enabled">>, "true"), Key(Dsn, "blank")}, {}),
     File({Key(Dsn, "leak")}, {}), File({Key(Timeout, "nonsense")}, {}),
     File({Key(Algorithm, "odd")}, {})}
Overlays ==
    {File({Key(Timeout, "8s")}, {}), File({}, {"case"}), File({}, {"io"}), File({}, {"toml"})}
MCFiles == {<<b>> : b \in Bases} \cup {<<b, o>> : b \in Bases, o \in Overlays}

-----------------------------------------------------------------------------
EdgeUnionInit ==
    /\ focus \in {"cache", "request", "served", "sent", "config", "objects", "webhooks"}
    /\ CacheInit /\ EdgeInit /\ GrInit /\ XferInit /\ WhInit
    /\ LoadInit
    /\ focus # "config" => source.env = {} /\ source.secrets = {} /\ source.files = <<File({}, {})>>
                           /\ load.kind = "service"

EdgeUnionNext ==
    \/ focus = "cache" /\ CacheNext /\ UNCHANGED <<edgeVars, grVars, loadVars, xferVars, whVars, focus>>
    \/ focus = "request" /\ EdgeNext /\ UNCHANGED <<cacheVars, grVars, loadVars, xferVars, whVars, focus>>
    \/ focus = "served" /\ ServedNext /\ UNCHANGED <<cacheVars, edgeVars, loadVars, xferVars, whVars, focus>>
    \/ focus = "sent" /\ SentNext /\ UNCHANGED <<cacheVars, edgeVars, loadVars, xferVars, whVars, focus>>
    \/ focus = "config" /\ LoadNext /\ UNCHANGED <<cacheVars, edgeVars, grVars, xferVars, whVars, focus>>
    \/ focus = "objects" /\ XferNext /\ UNCHANGED <<cacheVars, edgeVars, grVars, loadVars, whVars, focus>>
    \/ focus = "webhooks" /\ WhNext /\ UNCHANGED <<cacheVars, edgeVars, grVars, loadVars, xferVars, focus>>

EdgeUnionSpec == EdgeUnionInit /\ [][EdgeUnionNext]_edgeUnionVars

-----------------------------------------------------------------------------
\* Every sequence over S of at most n members.
EdgeWords(S, n) == UNION {[1..k -> S] : k \in 0..n}

-----------------------------------------------------------------------------
(* HTTP *)

\* Every failure is an error status, and whatever a layer answered, a problem leaves with
\* the request id and a bare 413 leaves as a problem; a deadline hides a cancellation.
ASSUME ProblemsComplete ==
    /\ \A code \in Codes :
         /\ HttpStatus(code) \in 400..599
         /\ CompleteProblem(ProblemResponse(code), {"id"}).id = {"id"}
    /\ \A status \in {200, 413, 500} :
         LET bare == [status |-> status, problem |-> {}, id |-> {}]
         IN  CompleteProblem(bare, {"id"})
               = IF status = 413 THEN [ProblemResponse("RequestEntityTooLarge") EXCEPT !.id = {"id"}]
                 ELSE bare
    /\ \A r \in {"data", "syntax", "content_type", "too_large", "broken_stream", "other"} :
         JsonProblem(r) \in Codes
    /\ {PathProblem(400), PathProblem(500)} \subseteq Codes
    /\ \A expired, cancelled \in BOOLEAN :
         LET reason == StoppedReason(expired, cancelled)
         IN  reason # "none" => StoppedCode(reason) = IF expired THEN "GatewayTimeout" ELSE "ServiceUnavailable"

\* A client that waits for Retry-After waits at least as long as it should, by less than
\* a second more, or the one second that is the least.
ASSUME RetryAfterCovers ==
    \A s \in 0..3, tenths \in 0..9 :
        LET told == 10 * RetryAfterSeconds(s, tenths) wait == 10 * s + tenths
        IN  told >= 10 /\ told >= wait /\ told - wait <= 10

\* An operation without bearer tokens is open, every other one is closed to callers that
\* hold none of its alternatives; HEAD is as open as GET; an operation that is not in the
\* policy is never served, and one bad requirement refuses the whole document.
ASSUME PolicyCloses ==
    LET Requirement == {{}, {<<"bearerAuth", {}>>}, {<<"bearerAuth", {"r"}>>}, {<<"bearerAuth", {"r", "w"}>>},
                        {<<"basic", {}>>}, {<<"bearerAuth", {}>>, <<"basic", {}>>}}
        Operation == [inherits: BOOLEAN, security: EdgeWords(Requirement, 2)]
        Document(o, bearer) == [security |-> << {<<"bearerAuth", {"w"}>>} >>, bearer |-> bearer,
                                operations |-> [p \in {<<"/a", "GET">>} |-> o]]
        Holding(scopes) == [failure |-> "none", scopes |-> scopes]
    IN  \A o \in Operation, bearer \in BOOLEAN :
          LET document == Document(o, bearer)
              wanted == Security(document, o)
          IN  \A table \in CompilePolicy(document), scopes \in SUBSET {"r", "w"} :
                LET get == PolicyAccess(table, "/a", "GET")
                IN  /\ AuthorizeCode(get, Holding(scopes)) = "none"
                         <=> \/ wanted = <<>>
                             \/ \E i \in DOMAIN wanted : \A pair \in wanted[i] : pair[2] \subseteq scopes
                    /\ wanted # <<>> => /\ bearer
                                        /\ AuthorizeCode(get, [failure |-> "Missing"]) = "AuthenticationRequired"
                    /\ (FinalizePublic(document) = {table}) <=> wanted = <<>>
                    /\ PolicyAccess(table, "/a", "HEAD") = get
                    /\ AuthorizeCode(PolicyAccess(table, "/a", "POST"), Holding(scopes)) = "InternalServerError"

\* Two requests share a scope only as one caller with one key, and a digest only as one
\* request; a subject and a client of the same name are two callers.
ASSUME IdentityInjective ==
    LET Names == {"", "n", "m"}
        Requests2 == [method: {"POST"}, path: {"/a"}, query: {{}, {""}, {"q"}}, types: {"json"}, body: {"x", "y"}]
    IN  /\ \A s1, c1, s2, c2 \in Names, k1, k2 \in {"k", "l"} :
             \A x \in CallerIdentityOf("i", s1, c1), y \in CallerIdentityOf("i", s2, c2) :
                ScopeKeyOf(x, k1) = ScopeKeyOf(y, k2)
                  => k1 = k2 /\ s1 = s2 /\ (s1 = "" => c1 = c2)
        /\ CallerIdentityOf("i", "", "") = {}
        /\ \A r, q \in Requests2 : RequestDigest(r) = RequestDigest(q) => r = q

\* A key is one field value of 1 to 255 bytes, quoted as a plain string or bare.
ASSUME KeysAdmitted ==
    LET Value(quoted, structured, params, n) ==
            [quoted |-> quoted, structured |-> structured, params |-> params, visible |-> TRUE,
             text |-> [i \in 1..n |-> "x"]]
    IN  /\ \A n \in {0, 1, 255, 256}, quoted \in BOOLEAN :
             ValidKey(<<Value(quoted, "string", FALSE, n)>>) # {} <=> n \in 1..255
        /\ ValidKey(<<Value(TRUE, "token", FALSE, 3)>>) = {} /\ ValidKey(<<Value(TRUE, "string", TRUE, 3)>>) = {}
        /\ ValidKey(<<>>) = {}
        /\ LET v == Value(FALSE, "", FALSE, 3) IN ValidKey(<<v, v>>) = {}

\* Whatever is captured can be replayed: its record passes the checks made before a
\* replay.  Only a replay of a success is marked as one.
ASSUME CapturesReplay ==
    /\ \A status \in {199, 200, 299, 300}, body \in {0, MAX_STORED_BODY_BYTES, MAX_STORED_BODY_BYTES + 1},
          bytes \in {0, MAX_STORED_HEADER_BYTES, MAX_STORED_HEADER_BYTES + 1}, broken \in BOOLEAN,
          headers \in SUBSET {"etag", "location", "set-cookie", "date"} :
         LET c == Capture([status |-> status, body |-> body, broken |-> broken, headers |-> headers,
                           headerBytes |-> bytes])
         IN  /\ c.class = "ok" => DecodeRecord([body |-> body, status |-> status, headers |-> c.headers,
                                                headerBytes |-> bytes]) = "ok"
             /\ "set-cookie" \notin c.headers
    /\ \A success \in BOOLEAN, p \in {"Executed", "Replayed", "none"} :
         NormalizeResponse(success, p) = "replayed" <=> success /\ p = "Replayed"

\* A route that may be composed declares in the end every problem that idempotency
\* answers with, and keeps its own successes.
ASSUME RoutesComposed ==
    \A extra \in {<<400, "BadRequest">>, <<400, "inline">>, <<409, "Conflict">>, <<201, "Created">>,
                  <<302, "inline">>, <<503, "AuthenticationUnavailable">>, <<204, "inline">>},
       methods \in {{"post"}, {"get"}, {"post", "put"}}, key \in {"absent", "generated", "own"} :
      LET responses == [s \in {200, extra[1]} |-> IF s = 200 THEN "inline" ELSE extra[2]]
          route == [methods |-> methods, named |-> TRUE, keyParameter |-> key, responses |-> responses,
                    headers |-> {"etag"}]
      IN  /\ PrepareRoute(route) = "ok"
               <=> /\ methods = {"post"} /\ key # "own"
                   /\ extra \in {<<400, "BadRequest">>, <<503, "AuthenticationUnavailable">>, <<204, "inline">>}
          /\ PrepareRoute(route) = "ok"
               => /\ \A s \in DOMAIN ResponseFamily : Composed(route)[s] = ResponseFamily[s]
                  /\ Composed(route)[200] = "inline"

\* What a caller cannot steer: labels of metrics, the names shown in a problem, the
\* request id that is kept; probes are silent only when both are asked for.
ASSUME CallerTextBounded ==
    /\ MethodLabel("BREW") = "_OTHER" /\ MethodLabel("GET") = "GET"
    /\ \A n \in {0, 1, 128, 129}, plain \in BOOLEAN :
         StripInvalid([length |-> n, plain |-> plain]) # {} <=> plain /\ n \in 1..128
    /\ \A n \in {256, 257} : WithParam({[length |-> n]}) # {} <=> n = 256
    /\ \A path \in EdgeWords({"a", "unknown"}, 2) :
         /\ BodyPointer(path) # {} => \A i \in DOMAIN path : path[i] # "unknown"
         /\ QueryParam(path) = IF path = <<>> THEN {} ELSE {path[1]}
    /\ \A kind \in {"at_key", "at_index", "alone"}, names \in EdgeWords({"a", "b"}, 2), i \in 1..3 :
         \A shown \in PathParam(kind, "a", i, names) : shown = "a" \/ \E j \in DOMAIN names : names[j] = shown
    /\ ~SkipProbe(TRUE, "GET", "/health/live") /\ ~SkipProbe(FALSE, "POST", "/health/live")
    /\ SkipProbe(FALSE, "GET", "/health/ready") /\ ~SkipProbe(FALSE, "GET", "/other")
    /\ ReadyResponse("ok") = 200 /\ ReadyResponse("draining") = 503
    /\ \A n \in 0..2, store \in BOOLEAN : FinishComposer(n, store) = "Refused" <=> n > 0 /\ ~store

-----------------------------------------------------------------------------
(* gRPC *)

\* A caller that retries what is unavailable retries over gRPC exactly what HTTP answers with
\* 503, and no shed call; every failure is a failure, and its status names it again.
ASSUME StatusesAgree ==
    /\ \A code \in Codes :
         /\ Projection(code) = "Unavailable" <=> HttpStatus(code) = 503
         /\ Projection(code) = "DeadlineExceeded" <=> HttpStatus(code) = 504
         /\ Projection(code) = "Internal" <=> HttpStatus(code) = 500
         /\ HttpStatus(code) = 401 => Projection(code) = "Unauthenticated"
         /\ \A domain \in {"service", "other"} :
              CatalogCode([domain |-> domain, reason |-> code]) = IF domain = "service" THEN {code} ELSE {}
    /\ AtCapacity.code # Projection(AtCapacity.catalog) /\ HttpStatus(AtCapacity.catalog) = 503
    /\ \A f \in {"Missing", "Malformed", "Invalid", "Unavailable"} :
         AuthenticationStatus(f) = VerificationStatus(f)

\* Eight digits are read without loss and leading zeros change nothing; a ninth, a sign or an
\* unknown unit makes the timeout absent and never a long one.
ASSUME GrpcTimeoutsRead ==
    \A digits \in EdgeWords({0, 9, 10}, 3), zeros \in 0 .. 8, unit \in {"S", "n", "x"} :
        LET padded == [i \in 1 .. zeros |-> 0] \o digits
        IN  GrpcTimeout(padded, unit)
              = IF digits # <<>> /\ Len(padded) <= 8 THEN GrpcTimeout(digits, unit)
                ELSE IF digits = <<>> /\ zeros > 0 THEN GrpcTimeout(<<0>>, unit) ELSE {}

\* Headers are due no later than the whole call, nothing outlives the parent, a peer is told no
\* less than the call's opening and only what a caller asked for; a call waits for a permit
\* only as long as its refusal can still be sent.
ASSUME DeadlinesNest ==
    LET Optional == {{}} \cup {{n} : n \in 0 .. 3}
        NoLater(a, b) == \A x \in a, y \in b : x <= y
    IN  /\ \A policy \in {"FullRpc", "OpeningOnly"}, local \in 1 .. 2, caller, parent \in Optional :
             LET d == ClientDeadlines(policy, local, caller, parent)
             IN  /\ Cardinality(d.opening) = 1 /\ NoLater(d.opening, {local})
                 /\ \A later \in {d.lifetime, d.forwarded, caller, parent} : NoLater(d.opening, later)
                 /\ NoLater(d.lifetime, d.forwarded) /\ NoLater(d.forwarded, caller \cup parent)
                 /\ d.lifetime = {} <=> policy = "OpeningOnly" /\ caller = {} /\ parent = {}
        /\ \A caller \in Optional, cap \in 1 .. 2 :
             LET d == ServerDeadlines(caller, cap) IN NoLater(d.opening, d.lifetime \cup {cap})
        /\ \A remaining, drain, most \in 0 .. 4 :
             LET wait == Patience(remaining, drain, most)
             IN  wait <= most /\ (wait > 0 => wait + drain <= remaining)

\* One call of a registration, and what it leaves behind
Registered(services, call) ==
    CASE call[1] = "add" /\ AddService(services, call[2]) = "ok" -> [services EXCEPT !.names = @ \cup {call[2]}]
      [] call[1] = "reflect" /\ AddReflection(services) = "ok" -> [services EXCEPT !.reflection = TRUE]
      [] call[1] = "scopes" /\ RequireScopes(services, call[2]) = "ok" -> [services EXCEPT !.scopes = @ \cup {call[2]}]
      [] call[1] = "allow" /\ AllowCallers(services, call[2], call[3]) = "ok" ->
           [services EXCEPT !.callers = @ \cup {call[2]}]
      [] OTHER -> services

\* In whatever order services, reflection and rules were registered, a router that verifies
\* service tokens, or knows a rule, has rules for exactly the methods it serves; none is built
\* without an authentication, and every method a rule or a scope names can be a label.
ASSUME RoutersClosed ==
    LET described == [s \in {"a", "b"} |-> IF s = "a" THEN {"m", "n"} ELSE {"m"}]
        Calls == {<<"add", "a">>, <<"add", "b">>, <<"add", "c">>, <<"reflect">>, <<"scopes", <<"a", "m">> >>}
                   \cup {<<"allow", p, <<"x">> >> : p \in {<<"a", "m">>, <<"a", "n">>, <<"b", "m">>, <<"v1", "Info">>}}
                   \cup {<<"allow", <<"v1alpha", "Info">>, c>> : c \in {<<>>, <<"x", "x">>, <<"bad">>}}
        Registry(calls) ==
            LET At[i \in 0 .. Len(calls)] ==
                    IF i = 0 THEN NoServices(described) ELSE Registered(At[i - 1], calls[i])
            IN  At[Len(calls)]
    IN  \A services \in {Registry(calls) : calls \in EdgeWords(Calls, 4)}, verifies, bearer \in BOOLEAN :
          LET verdict == RouterVerdict(services, verifies, bearer)
              served == Methods(Attached(services))
          IN  /\ verdict = "ok" /\ (verifies \/ services.callers # {}) => services.callers = served
              /\ verdict = "ok" => verifies \/ bearer
              /\ \A path \in services.callers \cup services.scopes : ServerLabel(services, path)
              /\ verdict # "DuplicateService"

\* The labels of all clients together stay under their limit, and one that was given stays.
ASSUME LabelsBounded ==
    \A n \in {0, CLIENT_METHOD_LIMIT - 1, CLIENT_METHOD_LIMIT}, path \in {1, 1000}, generated \in {{}, {1}, {1000}} :
        LET admitted == 1 .. n
            after == IF ClientLabel(admitted, path, generated, 9) THEN admitted \cup {path} ELSE admitted
        IN  /\ Cardinality(after) <= CLIENT_METHOD_LIMIT
            /\ path \in admitted /\ generated = {path} => ClientLabel(admitted, path, generated, 9)
            /\ ~ClientLabel(admitted, path, generated, CLIENT_COMPONENT_LIMIT + 1)

\* No channel is made in plaintext to a destination that asks for TLS, nor the reverse; a client
\* connects to its own kind of server with the certificate and key that server would take.
ASSUME ChannelsAsChosen ==
    /\ \A faults \in SUBSET {"certificate", "key", "ca"} :
         ServerTlsAdmitted(faults, TRUE) = "ok" <=> ClientAdmitted(faults, "https", "Tls") = "ok"
    /\ \A scheme \in {"http", "https", "ftp"}, security \in {"Plaintext", "Tls"},
          faults \in SUBSET {"destination", "ca", "certificate", "key", "connector"} :
         ClientAdmitted(faults, scheme, security) = "ok"
           <=> /\ <<scheme, security>> \in {<<"http", "Plaintext">>, <<"https", "Tls">>}
               /\ IF security = "Tls" THEN faults = {} ELSE "destination" \notin faults

-----------------------------------------------------------------------------
(* Configuration *)

Built == [ConfigDefault EXCEPT !.app = ApplyBuildInfo(AppDefault, [version |-> "v", commit |-> "c"])]

\* The defaults are valid once the build names itself, and what is safe only on a
\* developer's machine is refused in every other environment.
ASSUME DefaultsSound ==
    /\ ValidateConfig(Built) = "ok" /\ ValidateConfig(ConfigDefault) = "app.version"
    /\ \A env \in {"local", "development", "production"} :
         LET At(c) == ValidateConfig([c EXCEPT !.app.env = env])
             local == env # "production"
         IN  /\ At(Built) = "ok"
             /\ \A c \in {[Built EXCEPT !.cache.allow_plaintext = TRUE],
                          [Built EXCEPT !.cache.allow_unauthenticated = TRUE],
                          [Built EXCEPT !.messaging.allow_plaintext = TRUE],
                          [Built EXCEPT !.messaging.allow_unauthenticated = TRUE]} :
                  At(c) = "ok" <=> local

\* A request admitted at the last moment ends within the drain, for every valid pair of
\* times, and the cache's two commands end within the request.
ASSUME TimesNest ==
    \A drain \in {20, 25}, delay \in {0, 15, 24, 25}, request \in {1, 8, 10, 20}, command \in {1, 4, 5},
       dsn \in {{}, {"d"}} :
      LET c == [Built EXCEPT !.http.drain_timeout = drain * CfgSecond, !.cache.dsn = dsn,
                             !.http.readiness_propagation_delay = delay * CfgSecond,
                             !.http.request_timeout = request * CfgSecond,
                             !.cache.command_timeout = command * CfgSecond]
      IN  ValidateConfig(c) = "ok"
            <=> /\ delay < drain /\ delay + request <= drain
                /\ dsn # {} => 2 * command <= request

\* A pool that passes for the outbox and ordinary jobs passes for ordinary jobs alone;
\* an idempotent service needs its database and its retention; messaging's roles nest.
ASSUME CapacityNests ==
    /\ \A w \in 1..5, m \in 1..12 :
         LET jobs == [max_workers |-> w]
             postgres == [PostgresDefault EXCEPT !.max_connections = m]
         IN  ValidatePoolCapacityWithOutbox(jobs, postgres, TRUE) = "ok"
               => ValidatePoolCapacity(jobs, postgres) = "ok"
    /\ \A enabled \in BOOLEAN, r \in {{}, {60}} :
         RequiredRetention(r, [PostgresDefault EXCEPT !.enabled = enabled]) = "ok" <=> enabled /\ r # {}
    /\ \A durable, filter, dlq \in {{}, {"x"}}, stream \in {{}, {"s"}} :
         LET m == [MessagingDefault EXCEPT !.urls = << [scheme |-> "tls", faults |-> {}] >>,
                     !.credentials = {"c"}, !.source_stream = stream, !.consumer_durable = durable,
                     !.consumer_filter_subject = filter, !.dlq_subject = dlq]
         IN  ValidateConsumer(m, "production") = "ok"
               <=> ValidateProducer(m, "production") = "ok" /\ {} \notin {durable, filter, dlq}

\* Each authentication mode takes its own keys; the smaller readings.
ASSUME ReadingsSound ==
    /\ \A a \in AuthnModes :
         ValidateAuthn(a) = "ok"
           <=> \/ a.mode = "none"
               \/ /\ ~Blank(a.issuer) /\ a.audience # {}
                  /\ a.mode = "oidc-jwt" => a.jwks_uri # {"blank"} /\ a.algorithms # {}
                  /\ a.mode = "oidc-introspection"
                       => {a.endpoint, a.client_id} = {"set"} /\ a.client_secret # {}
    /\ \A v \in EdgeWords({"blank", "a", "b"}, 2) :
         AudiencesOf(v).verdict = "ok" <=> v # <<>> /\ "blank" \notin AudiencesOf(v).kept
    /\ \A t \in {"blank", "ip_port", "port", "hostname"} :
         LET l == OptionalListenAddr(t) IN l.addr # {} <=> l.verdict = "ok" /\ ~Blank(t)
    /\ \A n \in {{}, {4}}, m \in {{}, {2}} :
         EffectiveWorkerThreads(n, m) = IF n # {} THEN 4 ELSE IF m # {} THEN 2 ELSE 1
    /\ \A limit \in 0..2 : CapOf(limit) = {} <=> limit = 0

-----------------------------------------------------------------------------
(* Object storage *)

\* Plain HTTP reaches the Local provider only, workload identity Amazon S3 only, and a
\* store without a slot or with a wrong bucket is never made.
ASSUME StoresAdmitted ==
    \A kind \in {"AmazonS3", "CloudflareR2", "Railway", "S3Compatible", "Local"}, scheme \in {"http", "https"},
       type \in {"AccessKey", "WorkloadIdentity"}, slotCount \in 0..1, n \in {2, 3, 63, 64},
       faults \in {{}, {"port"}, {"userinfo"}, {"other_host"}} :
      LET made == TryNew([kind |-> kind, region |-> "valid", owner12 |-> TRUE,
                          endpoint |-> [scheme |-> scheme, faults |-> faults]],
                         [length |-> n, faults |-> {}], slotCount, [type |-> type, faults |-> {}])
      IN  made = "ok"
            <=> /\ n \in 3..63 /\ slotCount = 1
                /\ type = "WorkloadIdentity" => kind = "AmazonS3"
                /\ kind # "AmazonS3" => /\ scheme = "https" \/ kind = "Local"
                                        /\ "userinfo" \notin faults
                /\ kind \in {"CloudflareR2", "Railway"} => "port" \notin faults
                /\ kind = "CloudflareR2" => "other_host" \notin faults

\* An upload of unknown honesty: all its bytes go out exactly when the source keeps its
\* word; otherwise the last ones are held back, so the store sees a short body and
\* never a complete one (ExactLength).
ASSUME UploadsExact ==
    \A len \in 0..4, frames \in EdgeWords(0..2, 3) :
        LET sent == ExactLength(len, frames)
            total == LET sum[i \in 0..Len(frames)] == IF i = 0 THEN 0 ELSE sum[i - 1] + frames[i]
                     IN  sum[Len(frames)]
        IN  /\ sent.refused <=> total # len
            /\ sent.refused /\ len > 0 => sent.emitted < len

\* A mutation is attempted once and within what remains; what is bounded, signed and named.
ASSUME RequestsShaped ==
    /\ \A remaining \in 0..8, ceiling \in 1..8, mutation \in BOOLEAN :
         LET c == OperationConfig(remaining, ceiling, mutation)
         IN  /\ c.attempt <= c.timeout /\ c.timeout = remaining
             /\ mutation => c.attempts = 1 /\ c.attempt = remaining
    /\ \A kind \in {"AmazonS3", "CloudflareR2", "Railway", "S3Compatible", "Local"} :
         ChecksumSent(kind, TRUE) => ChecksumSent(kind, FALSE)
    /\ \A success \in BOOLEAN : \E hook \in {"Success", "Error"} : ResponseBounded(hook, success)
    /\ \A n \in {0, 1, 1024, 1025}, f \in {{}, {"dots"}, {"control"}} :
         /\ KeyAdmitted([length |-> n, faults |-> f]) <=> n \in 1..1024 /\ f # {"dots"}
         /\ ContentTypeAdmitted([length |-> n, faults |-> f]) <=> n \in 1..1024 /\ f # {"control"}
=============================================================================
