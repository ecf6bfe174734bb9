---------------------------- MODULE MessagingRules --------------------------
(***************************************************************************)
(* The decisions of src/crates/infra-messaging that need no state: what a  *)
(* broker must offer to be admitted, what an event must be to be prepared, *)
(* what an envelope must carry to be read, who handles it, and how a       *)
(* publication's failure is classified.  What is wrong with an input is a  *)
(* set of named faults; subjects and filters are sequences of tokens.      *)
(***************************************************************************)
EXTENDS Refusals, Integers, FiniteSets

HEADER_LIMIT_BYTES == 8192
NATIVE_HEADER_LIMIT_BYTES == 65535
PUBLICATION_WINDOW_BYTES == 64 * 1024 * 1024
MAX_PAYLOAD_BYTES == 262144

-----------------------------------------------------------------------------
(* Subjects *)

ValidSubject(subject) ==
    /\ subject # <<>>
    /\ \A i \in DOMAIN subject : subject[i] \notin {"", " ", "*", ">"}

\* `>` takes the rest of the subject, which must not be empty; `*` takes one token.
SubjectMatches(filter, subject) ==
    LET tails == {i \in DOMAIN filter : filter[i] = ">"}
        fixed == IF tails = {} THEN Len(filter)
                 ELSE (CHOOSE i \in tails : \A j \in tails : i <= j) - 1
    IN /\ ValidSubject(subject)
       /\ IF tails = {} THEN Len(subject) = fixed ELSE Len(subject) > fixed
       /\ \A i \in 1 .. fixed : filter[i] \in {"*", subject[i]}

-----------------------------------------------------------------------------
(* Admission of the broker *)

\* Permits for publications that wait for their acknowledgement; 0 is refused.
PublicationLimit(maxPayload) ==
    IF maxPayload = 0 THEN 0 ELSE PUBLICATION_WINDOW_BYTES \div (maxPayload + HEADER_LIMIT_BYTES)

PrepareMessaging(faults, maxPayload) ==
    First(<< <<"no_concurrency" \in faults, "Bounds">>,
             <<PublicationLimit(maxPayload) = 0, "Bounds">> >>)

\* The credential source: inline, a file read again for every connection, or none.
Authenticated(faults) ==
    First(<< <<"two_credentials" \in faults, "Configuration">>,
             <<"credentials_unreadable" \in faults, "Configuration">>,
             <<"credentials_malformed" \in faults, "Authentication">> >>)

\* The user and the seed are the first two values that stand alone between dashed marker lines.
ParseCredentials(lines) ==
    LET Marker(i) == lines[i] = "marker"
        values == {i \in 2 .. Len(lines) - 1 :
                      Marker(i - 1) /\ lines[i] \notin {"", "marker"} /\ Marker(i + 1)}
        user == {i \in values : \A j \in values : i <= j}
        seed == {i \in values \ user : \A j \in values \ user : i <= j}
    IN IF \E i \in seed : lines[i] = "seed" THEN lines[CHOOSE i \in user : TRUE] ELSE "Malformed"

ConnectFailure(kind) ==
    CASE kind \in {"Authentication", "AuthorizationViolation"} -> "Authentication"
      [] kind = "TimedOut" -> "TimedOut"
      [] kind = "ServerParse" -> "Configuration"
      [] OTHER -> "Connection"

ConnectKinds == {"Authentication", "AuthorizationViolation", "TimedOut", "ServerParse", "Dns",
                 "Tls", "Io", "MaxReconnects"}

\* Servers discovered over a connection are only believed when all of it was authenticated first.
DiscoveryTrusted(faults) == "tls_first" \in faults \/ "any_tls" \notin faults

ConnectOptions(faults) ==
    Then(First(<< <<"bad_address" \in faults, "Configuration">>,
                  <<"tls_first" \in faults /\ "some_plain" \in faults, "Configuration">> >>),
         Authenticated(faults))

ValidateServer(faults) ==
    First(<< <<"old_server" \in faults, "Topology">>,
             <<"no_jetstream" \in faults, "Topology">>,
             <<"no_headers" \in faults, "Topology">>,
             <<"small_payload" \in faults, "Bounds">> >>)

\* A stream that carries publications answers them and keeps what it answered.
ValidateStreamPublication(faults) ==
    First(<< <<"no_ack" \in faults, "Topology">>,
             <<"memory" \in faults, "Topology">>,
             <<"async" \in faults, "Topology">> >>)

TopologyFailure(code) == IF code \in {401, 403} THEN "Authentication" ELSE "Topology"

GetStream(faults) ==
    First(<< <<"stream_forbidden" \in faults, TopologyFailure(403)>>,
             <<"stream_missing" \in faults, TopologyFailure(404)>>,
             <<"stream_slow" \in faults, "TimedOut">> >>)

AdmitTopology(faults, consumes) ==
    Then(ValidateServer(faults),
    Then(GetStream(faults),
    Then(ValidateStreamPublication(faults),
         IF ~consumes THEN "ok"
         ELSE First(<< <<"source_limit_large" \in faults, "Bounds">>,
                       <<"source_limit_unset" \in faults, "Bounds">>,
                       <<"no_dead_letter_stream" \in faults, "Topology">>,
                       <<"dead_letter_is_source" \in faults, "Topology">>,
                       <<"dead_letter_memory" \in faults, "Topology">> >>))))

BrokerFaults ==
    {"no_concurrency", "two_credentials", "credentials_unreadable", "credentials_malformed",
     "bad_address", "some_plain", "old_server", "no_jetstream", "no_headers", "small_payload",
     "stream_forbidden", "stream_missing", "stream_slow", "no_ack", "memory", "async",
     "source_limit_large", "source_limit_unset", "no_dead_letter_stream",
     "dead_letter_is_source", "dead_letter_memory"}

-----------------------------------------------------------------------------
(* What a delivery and a dead-letter transfer may weigh *)

PullDeliveryBytes(payload, subject, stream, consumer, domain) ==
    payload + HEADER_LIMIT_BYTES + subject + stream + consumer
    + (IF domain < 1 THEN 1 ELSE domain) + (8 + 8 + 3 + 5 * 21)

\* The four fields a transfer replaces or adds: their names, 4 bytes of framing, their values.
TransferAdditions(subject, stream) ==
    (11 + 4 + 4 + 64) + (16 + 4 + subject) + (18 + 4 + 9) + (20 + 4 + stream)

AdmitDeadLetter(source, subjects, stream, messageLimit, serverLimit) ==
    LET subject == CHOOSE s \in subjects : \A t \in subjects : t <= s
        added == TransferAdditions(subject, stream)
        headers == (IF source < HEADER_LIMIT_BYTES THEN source ELSE HEADER_LIMIT_BYTES) + added
    IN First(<< <<subjects = {}, "Bounds">>,
                <<headers > NATIVE_HEADER_LIMIT_BYTES, "Bounds">>,
                <<source + added > serverLimit, "Bounds">>,
                <<messageLimit > 0 /\ messageLimit < source + added, "Bounds">> >>)

-----------------------------------------------------------------------------
(* Events: preparation, envelope, registry *)

\* The serializer runs to its end, so its error comes before the size refusal.
PrepareEvent(faults) ==
    First(<< <<"no_route" \in faults, "Envelope">>,
             <<"bad_subject" \in faults, "Envelope">>,
             <<"unserializable" \in faults, "Envelope">>,
             <<"large" \in faults, "Envelope">>,
             <<"bad_id" \in faults, "Envelope">>,
             <<"zero_time" \in faults, "Envelope">> >>)

\* The publication takes the message's identity; every retry keeps both.
Prepared(event, content) == [event |-> event, pub |-> <<"event", event>>, content |-> content]

\* The five identity headers, and the trace's two when they are short and on one line.
EncodePrepared(faults) == IF "large_headers" \in faults THEN "Rejected" ELSE "ok"

Carried(trace) == {h \in trace : h.name \in {"traceparent", "tracestate"}
                                 /\ h.ascii /\ h.bytes \in 1 .. (IF h.name = "traceparent" THEN 256
                                                                 ELSE 512)}

DecodeEnvelope(faults) ==
    First(<< <<"bad_subject" \in faults, "malformed">>,
             <<"large_headers" \in faults, "malformed">>,
             <<"no_message_id" \in faults, "malformed">>,
             <<"no_type" \in faults, "malformed">>,
             <<"no_publication_id" \in faults, "malformed">>,
             <<"bad_schema" \in faults, "malformed">>,
             <<"bad_time" \in faults, "malformed">> >>)

\* `v` and the decimal digits of 1 .. 65535 without a leading zero.
ParseSchema(prefix, digits) ==
    /\ prefix = "v"
    /\ digits # <<>> /\ digits[1] # 0
    /\ \A i \in DOMAIN digits : digits[i] \in 0 .. 9
    /\ \/ Len(digits) < 5
       \/ Len(digits) = 5 /\ 10000 * digits[1] + 1000 * digits[2] + 100 * digits[3]
                             + 10 * digits[4] + digits[5] <= 65535

\* Routes are a function from event keys to subjects; a second route for a key is refused.
RegistryOf(routes) ==
    First(<< <<\E r \in routes : r.type = "", "InvalidRoute">>,
             <<\E r \in routes : ~ValidSubject(r.subject), "InvalidRoute">>,
             <<\E r, q \in routes : r # q /\ r.type = q.type /\ r.version = q.version,
               "DuplicateRoute">> >>)

Register(routes, handlers, key) ==
    First(<< <<\A r \in routes : <<r.type, r.version>> # key, "MissingRoute">>,
             <<key \in handlers, "DuplicateHandler">> >>)

DispatchVerdict(routes, handlers, subject, key, decodes) ==
    First(<< <<~\E r \in routes : <<r.type, r.version>> = key /\ r.subject = subject, "Unhandled">>,
             <<key \notin handlers, "Unhandled">>,
             <<~decodes, "Undecodable">> >>)

\* The contract document: every route has a schema, and one name means one schema.
AsyncApi(routes) ==
    First(<< <<\E r \in routes : r.schema = "", "Undocumented">>,
             <<\E r, q \in routes : r.schema = q.schema /\ r.shape # q.shape, "SchemaName">> >>)

\* One channel per subject, one message per type and version, under local references.
Channels(routes) ==
    [s \in {r.subject : r \in routes} |->
        {[type |-> r.type, version |-> r.version, payload |-> <<"$defs", r.schema>>] :
            r \in {q \in routes : q.subject = s}}]

-----------------------------------------------------------------------------
(* Publication *)

SourceMessage(faults) ==
    First(<< <<"large" \in faults, "Rejected">>,
             <<"large_headers" \in faults, EncodePrepared(faults)>> >>)

\* The broker's refusals; every other failure leaves open whether the event was stored.
ConclusiveKinds == {"StreamNotFound", "WrongLastMessageId", "WrongLastSequence",
                    "MaxPayloadExceeded", "MaxAckPending", "refusal_code"}
PublishKinds == ConclusiveKinds \cup {"TimedOut", "BrokenPipe", "other_code"}

ClassifyPublish(kind) == IF kind \in ConclusiveKinds THEN "Rejected" ELSE "Ambiguous"

\* What a stored outbox intent must still be when the job runs.
StoredIntent(faults) ==
    First(<< <<"other_version" \in faults, "permanent">>,
             <<"bad_subject" \in faults, "permanent">>,
             <<"bad_time" \in faults, "permanent">>,
             <<"bad_base64" \in faults, "permanent">>,
             <<"not_json" \in faults, "permanent">>,
             <<"bad_identity" \in faults, "permanent">> >>)

\* Base64 turns 3 bytes into 4; the rest of the job's payload is the intent's own metadata.
OutboxPayloadLimit(overhead) ==
    IF overhead > MAX_PAYLOAD_BYTES THEN 0 ELSE ((MAX_PAYLOAD_BYTES - overhead) \div 4) * 3

PrepareOutboxIntent(bytes, overhead) ==
    First(<< <<bytes > OutboxPayloadLimit(overhead), "PayloadTooLarge">>,
             <<overhead > MAX_PAYLOAD_BYTES, "Jobs">> >>)

\* A dead letter is republished under an identity derived from its own record.
RestoreDeadLetter(faults) ==
    First(<< <<"bad_subject" \in faults, "Envelope">>,
             <<"no_message_id" \in faults, "Envelope">>,
             <<"no_type" \in faults, "Envelope">>,
             <<"bad_schema" \in faults, "Envelope">>,
             <<"bad_time" \in faults, "Envelope">> >>)

RecordId(prefix, record) == <<prefix, record.seq>>

-----------------------------------------------------------------------------
(* Closing and reconnecting *)

\* Complete: the native client is gone and its last event was reported.
CloseOutcome(closed, told, expired, observed) ==
    First(<< <<closed /\ told, "Complete">>,
             <<expired, "TimedOut">>,
             <<~observed, "UnobservedClose">>,
             <<TRUE, "Complete">> >>)

\* Microseconds before reconnect attempt n: 0, then 2^(n-1) ms up to 4 s, less up to a tenth:
\* sample is the random draw, in tenths of its range.
ReconnectDelay(attempts, sample) ==
    IF attempts <= 1 THEN 0
    ELSE LET base == IF attempts >= 13 THEN 4000 ELSE 2 ^ (attempts - 1)
         IN base * 1000 - ((base * 100) * sample) \div 10

ProbeVerdict(draining, failed, connected, faults, streamThere) ==
    LET local == Then(First(<< <<draining, "draining">>, <<failed, "failed">>,
                               <<~connected, "unavailable">> >>),
                      IF ValidateServer(faults) = "ok" THEN "ok" ELSE "unavailable")
    IN Then(local, IF streamThere THEN "ok" ELSE "unavailable")
=============================================================================
