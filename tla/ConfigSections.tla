--------------------------- MODULE ConfigSections ---------------------------
(***************************************************************************)
(* The sections of src/crates/config: what each holds by default, what it  *)
(* refuses and in which order.  Durations are milliseconds and sizes bytes *)
(* unless a definition says otherwise; a text is "blank" or something      *)
(* else; an optional value is a set of at most one.  A refusal is the key  *)
(* it names.                                                               *)
(***************************************************************************)
EXTENDS Refusals, Integers, FiniteSets

CfgSecond == 1000
CfgMinute == 60 * CfgSecond
CfgDay == 24 * 60 * CfgMinute
MAX_RESIDENT_DELIVERY_BYTES == 64 * 1024 * 1024
DELIVERY_OVERHEAD_BYTES == 8 * 1024
\* In KiB, the size rounded up: 5 GiB less 5 MiB.
MAX_OBJECT_KIB_CEILING == 5 * 1024 * 1024 - 5 * 1024

Outside(value, least, most) == value < least \/ value > most
Blank(text) == text = "blank"

\* What keeps a name from being addressed by a variable, as a set of faults.
EnvAddressable(faults) == faults \cap {"empty", "other_byte", "double", "trailing"} = {}

\* The optional form of a text: blank is absent.
BlankAsNone(text) == IF Blank(text) THEN {} ELSE {text}

\* A listen address: an optional one may be blank, and a bare port means every interface.
\* Hostnames are refused.
OptionalListenAddr(text) ==
    CASE Blank(text) -> [verdict |-> "ok", addr |-> {}]
      [] text = "ip_port" -> [verdict |-> "ok", addr |-> {"the given address"}]
      [] text = "port" -> [verdict |-> "ok", addr |-> {"0.0.0.0"}]
      [] OTHER -> [verdict |-> "invalid_value", addr |-> {}]

-----------------------------------------------------------------------------
(* The process itself *)

IsLocalDevelopment(env) == env \in {"local", "development"}

AppDefault == [env |-> "local", version |-> "blank", commit |-> "blank", instance_id |-> {}]

ApplyBuildInfo(app, build) ==
    [app EXCEPT !.version = IF Blank(@) THEN build.version ELSE @,
                !.commit = IF Blank(@) THEN build.commit ELSE @]

ValidateApp(app) ==
    First(<< <<Blank(app.env), "app.env">>,
             <<Blank(app.version), "app.version">>,
             <<Blank(app.commit), "app.commit">> >>)

LogDefault == [level |-> "info", format |-> "Json"]

ValidateLog(log) ==
    First(<< <<Blank(log.level) \/ log.level = "with space", "log.level">> >>)

HealthDefault ==
    [refresh_interval |-> 2 * CfgSecond, probe_budget |-> 4 * CfgSecond, failure_threshold |-> 3]

ValidateHealth(health) ==
    First(<< <<Outside(health.refresh_interval, 100, 300 * CfgSecond), "health.refresh_interval">>,
             <<Outside(health.probe_budget, 100, 30 * CfgSecond), "health.probe_budget">>,
             <<Outside(health.failure_threshold, 1, 100), "health.failure_threshold">> >>)

\* The unset worker count is the parallelism at hand, and one when that is unknown.
EffectiveWorkerThreads(configured, available) ==
    CASE configured # {} -> CHOOSE n \in configured : TRUE
      [] configured = {} /\ available # {} -> CHOOSE n \in available : TRUE
      [] OTHER -> 1

\* The sampler argument in percent; {} is a number that is not finite.
ObservabilityDefault ==
    [service_name |-> "service", traces_sampler |-> "ParentBasedTraceIdRatio",
     traces_sampler_arg |-> {10}, otlp_endpoint |-> {}, otlp_headers |-> {}]

ValidateObservability(otel) ==
    LET arg == "observability.otel.traces_sampler_arg"
    IN First(<< <<Blank(otel.service_name), "observability.otel.service_name">>,
                <<otel.traces_sampler_arg = {}, arg>>,
                <<\E a \in otel.traces_sampler_arg : Outside(a, 0, 100), arg>>,
                <<otel.otlp_endpoint \notin {{}, {"http"}, {"https"}},
                  "observability.otel.exporter.otlp_endpoint">> >>)

-----------------------------------------------------------------------------
(* The listeners *)

HttpDefault ==
    [grace_period |-> 45 * CfgSecond, drain_timeout |-> 25 * CfgSecond,
     readiness_propagation_delay |-> 15 * CfgSecond, header_read_timeout |-> 5 * CfgSecond,
     request_timeout |-> 8 * CfgSecond, max_header_bytes |-> 16 * 1024,
     max_body_bytes |-> 1024 * 1024, max_in_flight |-> 256, max_connections |-> 4096,
     max_connection_age |-> 0]

\* Subtraction of durations stops at zero.
EffectiveDrainOf(http) ==
    IF http.drain_timeout > http.readiness_propagation_delay
    THEN http.drain_timeout - http.readiness_propagation_delay ELSE 0

BadConnectionAge(age) == age # 0 /\ Outside(age, CfgSecond, CfgDay)

\* A limit of zero switches the limit off.
CapOf(limit) == IF limit = 0 THEN {} ELSE {limit}

ValidateHttp(http) ==
    First(<< <<Outside(http.grace_period, CfgSecond, 10 * CfgMinute), "http.grace_period">>,
             <<Outside(http.drain_timeout, CfgSecond, 10 * CfgMinute), "http.drain_timeout">>,
             <<http.drain_timeout > http.grace_period, "http.drain_timeout">>,
             <<http.readiness_propagation_delay >= http.drain_timeout,
               "http.readiness_propagation_delay">>,
             <<Outside(http.header_read_timeout, 100, 300 * CfgSecond), "http.header_read_timeout">>,
             <<Outside(http.request_timeout, 100, 10 * CfgMinute), "http.request_timeout">>,
             <<http.request_timeout > EffectiveDrainOf(http), "http.request_timeout">>,
             <<Outside(http.max_header_bytes, 8 * 1024, 1024 * 1024), "http.max_header_bytes">>,
             <<Outside(http.max_body_bytes, 1, 1024 * 1024 * 1024), "http.max_body_bytes">>,
             <<Outside(http.max_in_flight, 0, 100000), "http.max_in_flight">>,
             <<Outside(http.max_connections, 0, 1000000), "http.max_connections">>,
             <<http.max_connections # 0 /\ http.max_connections < http.max_in_flight,
               "http.max_connections">>,
             <<BadConnectionAge(http.max_connection_age), "http.max_connection_age">> >>)

GrpcDefault ==
    [enabled |-> FALSE, addr |-> {}, security |-> {}, certificate |-> {}, private_key |-> {},
     client_ca |-> {}, request_timeout |-> 8 * CfgSecond, max_in_flight |-> 256,
     admission_wait |-> CfgSecond, max_connections |-> 4096, max_connection_age |-> 30 * CfgMinute]

\* The gRPC listener shares the drain of the HTTP one.
ValidateGrpcLimits(grpc, http) ==
    First(<< <<Outside(grpc.request_timeout, 100, 600 * CfgSecond), "grpc.request_timeout">>,
             <<grpc.request_timeout > EffectiveDrainOf(http), "grpc.request_timeout">>,
             <<Outside(grpc.max_in_flight, 0, 100000), "grpc.max_in_flight">>,
             <<Outside(grpc.admission_wait, 0, grpc.request_timeout), "grpc.admission_wait">>,
             <<Outside(grpc.max_connections, 0, 1000000), "grpc.max_connections">>,
             <<BadConnectionAge(grpc.max_connection_age), "grpc.max_connection_age">> >>)

ValidateGrpc(grpc, http) ==
    LET plaintext == grpc.security = {"Plaintext"}
        tls == grpc.security = {"Tls"}
    IN IF ~grpc.enabled THEN "ok" ELSE
       Then(First(<< <<grpc.addr = {}, "grpc.addr">> >>),
       Then(ValidateGrpcLimits(grpc, http),
            First(<< <<grpc.security = {}, "grpc.security">>,
                     <<plaintext /\ grpc.certificate # {}, "grpc.certificate">>,
                     <<plaintext /\ grpc.private_key # {}, "grpc.private_key">>,
                     <<plaintext /\ grpc.client_ca # {}, "grpc.client_ca">>,
                     <<tls /\ grpc.certificate \in {{}, {"blank"}}, "grpc.certificate">>,
                     <<tls /\ grpc.private_key = {}, "grpc.private_key">> >>)))

-----------------------------------------------------------------------------
(* What the process depends on *)

PostgresDefault ==
    [enabled |-> FALSE, dsn |-> {}, password_file |-> {}, session_budgets |-> "Startup",
     max_connections |-> 4, migration_deadline |-> 300 * CfgSecond]

RequiredDsn(postgres) == First(<< <<postgres.dsn = {}, "postgres.dsn">> >>)

ValidatePostgres(postgres) ==
    Then(IF postgres.enabled THEN RequiredDsn(postgres) ELSE "ok",
         First(<< <<Outside(postgres.max_connections, 1, 500), "postgres.max_connections">>,
                  <<Outside(postgres.migration_deadline, CfgSecond, CfgDay),
                    "postgres.migration_deadline">> >>))

\* The retention in seconds: a minute to thirty days, and none is the default.
ValidateHttpIdempotency(retention) ==
    First(<< <<\E r \in retention : Outside(r, 60, 30 * 24 * 3600), "http_idempotency.retention">> >>)

\* Serving an idempotent operation takes the database and a retention.
RequiredRetention(retention, postgres) ==
    First(<< <<~postgres.enabled, "postgres.enabled">>,
             <<retention = {}, "http_idempotency.retention">> >>)

JobsDefault == [max_workers |-> 1]

ValidateJobs(jobs) == First(<< <<Outside(jobs.max_workers, 1, 500), "jobs.max_workers">> >>)

ValidatePoolCapacity(jobs, postgres) ==
    First(<< <<postgres.max_connections < jobs.max_workers + 2, "postgres.max_connections">> >>)

ValidatePoolCapacityWithOutbox(jobs, postgres, ordinaryJobs) ==
    LET required == IF ordinaryJobs THEN jobs.max_workers + 5 ELSE 3
    IN First(<< <<postgres.max_connections < required, "postgres.max_connections">> >>)

CacheDefault ==
    [dsn |-> {}, password_file |-> {}, root_ca_path |-> {}, client_cert_path |-> {},
     client_key_path |-> {}, allow_plaintext |-> FALSE, allow_unauthenticated |-> FALSE,
     command_timeout |-> 2 * CfgSecond]

\* A request makes two cache commands at most, so both must fit its budget.
ValidateCache(cache, env, requestTimeout) ==
    First(<< <<cache.allow_plaintext /\ ~IsLocalDevelopment(env), "cache.allow_plaintext">>,
             <<cache.allow_unauthenticated /\ ~IsLocalDevelopment(env), "cache.allow_unauthenticated">>,
             <<cache.client_cert_path # {} /\ cache.client_key_path = {}, "cache.client_key_path">>,
             <<cache.client_cert_path = {} /\ cache.client_key_path # {}, "cache.client_cert_path">>,
             <<Outside(cache.command_timeout, 1, 10 * CfgSecond), "cache.command_timeout">>,
             <<cache.dsn # {} /\ cache.command_timeout * 2 > requestTimeout, "cache.command_timeout">> >>)

MessagingDefault ==
    [urls |-> <<>>, credentials |-> {}, credentials_file |-> {}, root_ca_path |-> {},
     allow_plaintext |-> FALSE, tls_first |-> FALSE, trusted_network |-> FALSE,
     allow_unauthenticated |-> FALSE, source_stream |-> {}, max_payload_bytes |-> 256 * 1024,
     consumer_durable |-> {}, consumer_filter_subject |-> {}, dlq_subject |-> {},
     consumer_concurrency |-> 1]

PlaintextAdmitted(messaging) == messaging.allow_plaintext \/ messaging.trusted_network

\* Each broker URL: its scheme, and what is wrong with it.
ValidateMessaging(messaging, env) ==
    LET urls == {messaging.urls[i] : i \in DOMAIN messaging.urls}
        plaintext == \E u \in urls : u.scheme = "nats"
        wrong == {"empty", "unparsable", "no_host", "userinfo"}
    IN First(<< <<messaging.allow_plaintext /\ ~IsLocalDevelopment(env), "messaging.allow_plaintext">>,
                <<messaging.allow_unauthenticated /\ ~IsLocalDevelopment(env),
                  "messaging.allow_unauthenticated">>,
                <<messaging.credentials # {} /\ messaging.credentials_file # {},
                  "messaging.credentials_file">>,
                <<\E u \in urls : u.faults \cap wrong # {} \/ u.scheme \notin {"tls", "nats"},
                  "messaging.urls">>,
                <<plaintext /\ messaging.tls_first, "messaging.tls_first">>,
                <<plaintext /\ ~PlaintextAdmitted(messaging), "messaging.allow_plaintext">>,
                <<Outside(messaging.max_payload_bytes, 1,
                          MAX_RESIDENT_DELIVERY_BYTES - DELIVERY_OVERHEAD_BYTES),
                  "messaging.max_payload_bytes">>,
                <<messaging.consumer_concurrency
                    > MAX_RESIDENT_DELIVERY_BYTES
                        \div (messaging.max_payload_bytes + DELIVERY_OVERHEAD_BYTES),
                  "messaging.consumer_concurrency">> >>)

RequiredCredentials(messaging, env) ==
    First(<< <<messaging.credentials = {} /\ messaging.credentials_file = {}
               /\ ~messaging.allow_unauthenticated, "messaging.credentials">>,
             <<messaging.allow_unauthenticated /\ ~IsLocalDevelopment(env),
               "messaging.allow_unauthenticated">> >>)

ValidateProducer(messaging, env) ==
    Then(ValidateMessaging(messaging, env),
    Then(First(<< <<messaging.urls = <<>>, "messaging.urls">> >>),
    Then(RequiredCredentials(messaging, env),
         First(<< <<messaging.source_stream = {}, "messaging.source_stream">> >>))))

ValidateConsumer(messaging, env) ==
    Then(ValidateProducer(messaging, env),
         First(<< <<messaging.consumer_durable = {}, "messaging.consumer_durable">>,
                  <<messaging.consumer_filter_subject = {}, "messaging.consumer_filter_subject">>,
                  <<messaging.dlq_subject = {}, "messaging.dlq_subject">> >>))

-----------------------------------------------------------------------------
(* Object storage *)

ObjectStorageDefault ==
    [provider |-> "None", bucket |-> "blank", region |-> "blank", endpoint |-> "blank",
     expected_bucket_owner |-> "blank", path_style |-> FALSE, credentials |-> "AccessKey",
     access_key_id |-> "blank", secret_access_key |-> {}, max_object_kib |-> 8 * 1024,
     max_concurrency |-> 8, operation_timeout |-> 5 * CfgSecond]

\* Which keys each provider takes.
ProviderFields(provider) ==
    IF provider = "AmazonS3"
    THEN [endpoint |-> "Forbidden", region |-> "Required", owner |-> "Required"]
    ELSE [endpoint |-> "Required", region |-> "Optional", owner |-> "Forbidden"]

Misfits(field, text) ==
    \/ field = "Required" /\ Blank(text)
    \/ field = "Forbidden" /\ ~Blank(text)

ValidateObjectStorage(os, env) ==
    LET fields == ProviderFields(os.provider)
        workload == os.credentials = "WorkloadIdentity"
        limits == First(<< <<Outside(os.max_object_kib, 1, MAX_OBJECT_KIB_CEILING),
                             "object_storage.max_object_bytes">>,
                           <<Outside(os.max_concurrency, 1, 512), "object_storage.max_concurrency">>,
                           <<Outside(os.operation_timeout, CfgSecond, 15 * CfgMinute),
                             "object_storage.operation_timeout">> >>)
    IN IF os.provider = "None" THEN limits ELSE
       Then(limits,
            First(<< <<os.provider = "CloudflareR2" /\ os.region \notin {"blank", "auto"},
                       "object_storage.region">>,
                     <<os.provider = "Local" /\ ~IsLocalDevelopment(env), "object_storage.provider">>,
                     <<Misfits(fields.endpoint, os.endpoint), "object_storage.endpoint">>,
                     <<Misfits(fields.region, os.region), "object_storage.region">>,
                     <<Misfits(fields.owner, os.expected_bucket_owner),
                       "object_storage.expected_bucket_owner">>,
                     <<os.path_style /\ os.provider # "S3Compatible", "object_storage.path_style">>,
                     <<Blank(os.bucket), "object_storage.bucket">>,
                     <<~workload /\ Blank(os.access_key_id), "object_storage.access_key_id">>,
                     <<~workload /\ os.secret_access_key = {}, "object_storage.secret_access_key">>,
                     <<workload /\ os.provider # "AmazonS3", "object_storage.credentials">>,
                     <<workload /\ ~Blank(os.access_key_id), "object_storage.access_key_id">>,
                     <<workload /\ os.secret_access_key # {}, "object_storage.secret_access_key">> >>))

-----------------------------------------------------------------------------
(* Who calls whom *)

\* One value or a list, none blank; a value given again is dropped.
AudiencesOf(values) ==
    [verdict |-> First(<< <<values = <<>>, "nonempty">>,
                          <<\E i \in DOMAIN values : Blank(values[i]), "nonblank">> >>),
     kept |-> {values[i] : i \in DOMAIN values}]

AuthnModes ==
    [mode : {"none", "oidc-jwt", "oidc-introspection"}, issuer : {"blank", "set"},
     audience : SUBSET {"api"}, jwks_uri : SUBSET {"blank", "set"}, algorithms : SUBSET {"Rs256"},
     endpoint : {"blank", "set"}, client_id : {"blank", "set"}, client_secret : SUBSET {"set"}]

ValidateAuthn(authn) ==
    LET jwt == authn.mode = "oidc-jwt"
        introspection == authn.mode = "oidc-introspection"
    IN IF authn.mode = "none" THEN "ok" ELSE
       First(<< <<Blank(authn.issuer), "authn.issuer">>,
                <<authn.audience = {}, "authn.audience">>,
                <<jwt /\ authn.jwks_uri = {"blank"}, "authn.jwks_uri">>,
                <<jwt /\ authn.algorithms = {}, "authn.algorithms">>,
                <<introspection /\ Blank(authn.endpoint), "authn.introspection_endpoint">>,
                <<introspection /\ Blank(authn.client_id), "authn.introspection_client_id">>,
                <<introspection /\ authn.client_secret = {}, "authn.introspection_client_secret">> >>)

\* A caller identity is required of the gRPC listener outside development.
ValidateServiceAuth(auth, env, grpcEnabled) ==
    IF auth.mode = "none"
    THEN First(<< <<grpcEnabled /\ ~IsLocalDevelopment(env), "service_auth.mode">> >>)
    ELSE First(<< <<Blank(auth.name), "service_auth.name">>,
                  <<Blank(auth.jwt_type), "service_auth.jwt_type">>,
                  <<Blank(auth.trust), "service_auth.trust">>,
                  <<auth.key_id # {} /\ auth.private_key = {}, "service_auth.private_key">>,
                  <<auth.key_id = {} /\ auth.private_key # {}, "service_auth.key_id">> >>)

ValidateTokenUrl(faults) ==
    First(<< <<"space" \in faults, "oauth.token_url">>,
             <<"unparsable" \in faults, "oauth.token_url">>,
             <<"not_https" \in faults, "oauth.token_url">>,
             <<"no_host" \in faults, "oauth.token_url">>,
             <<"userinfo" \in faults, "oauth.token_url">>,
             <<"fragment" \in faults, "oauth.token_url">> >>)

ValidateOAuth(oauth) ==
    Then(ValidateTokenUrl(oauth.url_faults),
         First(<< <<Blank(oauth.client_id), "oauth.client_id">>,
                  <<Blank(oauth.private_key), "oauth.private_key">>,
                  <<Blank(oauth.key_id), "oauth.key_id">>,
                  <<Blank(oauth.assertion_audience), "oauth.assertion_audience">>,
                  <<oauth.audience = {"blank"}, "oauth.audience">>,
                  <<"bad_token" \in oauth.scopes, "oauth.scopes">>,
                  <<Outside(oauth.exchange_cache_capacity, 1, 65536), "oauth.exchange_cache_capacity">>,
                  <<oauth.provider_concurrency = 0, "oauth.provider_concurrency">> >>))

ValidateGrpcClient(grpc) ==
    LET plaintext == grpc.security = "Plaintext"
    IN First(<< <<grpc.destination \in {"blank", "with space"}, "grpc.destination">>,
                <<plaintext /\ grpc.ca_certificate # {}, "grpc.ca_certificate">>,
                <<plaintext /\ grpc.certificate # {}, "grpc.certificate">>,
                <<plaintext /\ grpc.private_key # {}, "grpc.private_key">>,
                <<~plaintext /\ (grpc.certificate = {}) # (grpc.private_key = {}),
                  "grpc.certificate/grpc.private_key">> >>)

\* Each integration in the order of names, its OAuth client before its channel.
ValidateIntegrations(integrations) ==
    First([i \in 1 .. Len(integrations) |->
             LET verdict == Then(IF integrations[i].oauth = {} THEN "ok"
                                 ELSE ValidateOAuth(CHOOSE o \in integrations[i].oauth : TRUE),
                                 IF integrations[i].grpc = {} THEN "ok"
                                 ELSE ValidateGrpcClient(CHOOSE g \in integrations[i].grpc : TRUE))
             IN <<verdict # "ok", verdict>>])

ValidateEndpointId(faults) == First(<< <<faults \cap {"empty", "nul"} # {}, "endpoints">> >>)

ValidateInboundWebhooks(inbound, postgresEnabled) ==
    Then(First(<< <<inbound.endpoints # <<>> /\ ~postgresEnabled, "postgres.enabled">> >>),
    Then(First([i \in 1 .. Len(inbound.endpoints) |->
                  LET e == inbound.endpoints[i]
                      verdict == Then(ValidateEndpointId(e.id_faults),
                                   First(<< <<~EnvAddressable(e.active.faults), "active_key">>,
                                            <<\E p \in e.previous : ~EnvAddressable(p.faults),
                                              "previous_key">>,
                                            <<e.previous = {e.active}, "previous_key">> >>))
                  IN <<verdict # "ok", verdict>>]),
         First(<< <<\E s \in inbound.secrets : ~EnvAddressable(s), "secrets">> >>)))

ValidateWebhooks(endpoints) ==
    First([i \in 1 .. Len(endpoints) |->
             LET verdict == Then(ValidateEndpointId(endpoints[i].id_faults),
                              First(<< <<Blank(endpoints[i].secret), "secret">>,
                                       <<endpoints[i].previous = {"blank"}, "previous_secret">> >>))
             IN <<verdict # "ok", verdict>>])

-----------------------------------------------------------------------------
(* The snapshot *)

ConfigDefault ==
    [app |-> AppDefault, http |-> HttpDefault, grpc |-> GrpcDefault,
     inbound |-> [endpoints |-> <<>>, secrets |-> {}], health |-> HealthDefault,
     log |-> LogDefault, observability |-> ObservabilityDefault, messaging |-> MessagingDefault,
     cache |-> CacheDefault, storage |-> ObjectStorageDefault, integrations |-> <<>>,
     authn |-> [mode |-> "none"], service_auth |-> [mode |-> "none"],
     postgres |-> PostgresDefault, retention |-> {}, jobs |-> JobsDefault, webhooks |-> <<>>]

ValidateConfig(c) ==
    Then(ValidateApp(c.app),
    Then(ValidateHttp(c.http),
    Then(ValidateGrpc(c.grpc, c.http),
    Then(ValidateInboundWebhooks(c.inbound, c.postgres.enabled),
    Then(ValidateHealth(c.health),
    Then(ValidateLog(c.log),
    Then(ValidateObservability(c.observability),
    Then(ValidateMessaging(c.messaging, c.app.env),
    Then(ValidateCache(c.cache, c.app.env, c.http.request_timeout),
    Then(ValidateObjectStorage(c.storage, c.app.env),
    Then(ValidateIntegrations(c.integrations),
    Then(ValidateAuthn(c.authn),
    Then(ValidateServiceAuth(c.service_auth, c.app.env, c.grpc.enabled),
    Then(ValidatePostgres(c.postgres),
    Then(ValidateHttpIdempotency(c.retention),
    Then(ValidateJobs(c.jobs),
         ValidateWebhooks(c.webhooks)))))))))))))))))

\* The two commands that read only some sections.
ValidateMigrationConfig(c) ==
    Then(ValidateApp(c.app),
    Then(ValidateLog(c.log),
    Then(ValidateObservability(c.observability),
         ValidatePostgres(c.postgres))))

ValidateJobsOperator(c) == ValidatePostgres(c.postgres)
=============================================================================
