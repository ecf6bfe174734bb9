------------------------------ MODULE GrpcCall ------------------------------
(***************************************************************************)
(* src/crates/infra-grpc.  First the decisions that need no state: what    *)
(* may be registered and when a router is built, how a caller's timeout is *)
(* read and which deadlines follow from it, what a failure becomes as a    *)
(* status, and which paths become labels; an optional duration is a set of *)
(* at most one.  Then a call from its arrival, or its preparation, to its  *)
(* one end (router.rs, observe.rs, client.rs, call.rs).                    *)
(* Served calls pass two bounds: one on openings, given back with the      *)
(* headers, and one on calls, which follows the response to its end.  From *)
(* the headers on, the body's poll, a timer task and the dropping of the   *)
(* body compete to end the call; whoever takes its resources under the     *)
(* lock finishes it outside.  Time is in ticks left; timers may be late.   *)
(***************************************************************************)
EXTENDS HttpRules

CLIENT_METHOD_LIMIT == 256
CLIENT_COMPONENT_LIMIT == 256

-----------------------------------------------------------------------------
(* Statuses *)

\* The status code of each catalog code
Projection(code) ==
    CASE code \in {"BadRequest", "UnsupportedMediaType", "UnprocessableContent",
                   "IdempotencyKeyMismatch", "WebhookRejected"} -> "InvalidArgument"
      [] code \in {"Unauthorized", "AuthenticationRequired", "AuthenticationMalformed",
                   "AuthenticationInvalid"} -> "Unauthenticated"
      [] code \in {"AuthenticationUnavailable", "ServiceUnavailable",
                   "IdempotencyUnavailable"} -> "Unavailable"
      [] code = "Forbidden" -> "PermissionDenied"
      [] code \in {"NotFound", "AlreadyExists"} -> code
      [] code \in {"Conflict", "IdempotencyRequestInProgress"} -> "Aborted"
      [] code = "MethodNotAllowed" -> "Unimplemented"
      [] code \in {"RequestEntityTooLarge", "TooManyRequests"} -> "ResourceExhausted"
      [] code = "GatewayTimeout" -> "DeadlineExceeded"
      [] code = "InternalServerError" -> "Internal"

\* A shed call keeps its catalog code and is told to come back later.
AtCapacity == [code |-> "ResourceExhausted", catalog |-> "ServiceUnavailable", retry |-> 1]

\* What the two kinds of verifier refuse a call with
AuthenticationStatus(failure) == Projection(FailureCode(failure))
VerificationStatus(failure) ==
    Projection(IF failure = "Unavailable" THEN "ServiceUnavailable" ELSE "Unauthorized")

\* The channel's errors: a caller's timeout that ran out inside it is no transport fault.
TransportStatus(expired) == IF expired THEN "DeadlineExceeded" ELSE "Unavailable"

\* The catalog code a status carries: its reason, in the service's own domain.
CatalogCode(status) == {c \in Codes : status.domain = "service" /\ status.reason = c}

-----------------------------------------------------------------------------
(* Deadlines *)

TimeoutUnits == {"H", "M", "S", "m", "u", "n"}

\* A grpc-timeout: the values of the bytes before the last, 10 for what is no digit, and its
\* unit.  One to eight digits and a known unit; anything else is absent.
GrpcTimeout(digits, unit) ==
    LET Amount[i \in 0 .. Len(digits)] == IF i = 0 THEN 0 ELSE 10 * Amount[i - 1] + digits[i]
    IN IF Len(digits) \in 1 .. 8 /\ (\A i \in DOMAIN digits : digits[i] < 10) /\ unit \in TimeoutUnits
       THEN {[amount |-> Amount[Len(digits)], unit |-> unit]} ELSE {}

Earliest(left, right) ==
    {t \in left \cup right : \A u \in left \cup right : t <= u}

\* The server: the opening is capped, the whole call has the caller's own deadline.
ServerDeadlines(caller, cap) == [opening |-> Earliest(caller, {cap}), lifetime |-> caller]

\* The client, by its policy; a parent's deadline bounds them all.
ClientDeadlines(policy, local, caller, parent) ==
    LET opening == Earliest(caller, {local})
    IN [opening |-> Earliest(opening, parent),
        lifetime |-> Earliest(IF policy = "FullRpc" THEN opening ELSE caller, parent),
        forwarded |-> Earliest(caller, parent)]

\* How long a call over its limit waits: no longer than leaves time to refuse it.
Patience(remaining, drain, maxWait) ==
    LET spare == IF remaining > drain THEN remaining - drain ELSE 0
    IN IF spare < maxWait THEN spare ELSE maxWait

-----------------------------------------------------------------------------
(* Registration *)

\* A registry: described methods of each service, added services, reflection, rules.
NoServices(described) ==
    [described |-> described, names |-> {}, reflection |-> FALSE, callers |-> {}, scopes |-> {}]

Methods(services) ==
    {p \in services.names \X UNION {services.described[s] : s \in DOMAIN services.described} :
        p[2] \in services.described[p[1]]}

AddService(services, name) ==
    First(<< <<name \notin DOMAIN services.described, "UndescribedService">>,
             <<name \in services.names, "DuplicateService">> >>)

AddReflection(services) == First(<< <<services.reflection, "DuplicateService">> >>)

RequireScopes(services, path) ==
    First(<< <<path \notin Methods(services), "UnregisteredMethodPath">>,
             <<path \in services.scopes, "DuplicateScopeRequirement">> >>)

ReflectionMethods == {<<"v1", "Info">>, <<"v1alpha", "Info">>}

\* A caller is a name, and "bad" one outside the grammar; the list is a sequence.
AllowCallers(services, path, callers) ==
    First(<< <<~\/ path \in Methods(services)
                \/ services.reflection /\ path \in ReflectionMethods, "UnregisteredCallerRule">>,
             <<path \in services.callers, "DuplicateCallerRule">>,
             <<\E i \in DOMAIN callers : callers[i] = "bad" \/ \E j \in 1 .. i - 1 : callers[j] = callers[i],
               "InvalidCallerRule">> >>)

\* The services the router really serves
Attached(services) ==
    IF ~services.reflection THEN services
    ELSE [services EXCEPT
            !.described = [s \in DOMAIN @ \cup {"v1", "v1alpha"} |->
                             IF s \in DOMAIN @ THEN @[s] ELSE {"Info"}],
            !.names = @ \cup {"v1", "v1alpha"}]

\* A table of caller rules is complete or absent; calls need one of the authentications.
RouterVerdict(services, verifiesCallers, bearer) ==
    LET served == Attached(services)
    IN First(<< <<services.reflection /\ services.names \cap {"v1", "v1alpha"} # {}, "DuplicateService">>,
                <<(verifiesCallers \/ services.callers # {}) /\ ~Methods(served) \subseteq services.callers,
                  "MissingCallerRule">>,
                <<~verifiesCallers /\ ~bearer, "UnauthenticatedBusinessCalls">> >>)

-----------------------------------------------------------------------------
(* Labels and destinations *)

\* The server labels described methods of added services and of health.
ServerLabel(services, path) ==
    path \in Methods(Attached(services)) \cup ({"health"} \X {"Check", "Watch"})

\* A client's path is labelled when it is the generated method's own and there is room; what
\* was admitted stays.  Lengths in bytes.
ClientLabel(admitted, path, generated, length) ==
    /\ length <= CLIENT_COMPONENT_LIMIT
    /\ generated = {path}
    /\ path \in admitted \/ Cardinality(admitted) < CLIENT_METHOD_LIMIT

\* with_timeout_policy: what is wrong with the destination or its material, the first first.
ClientAdmitted(faults, scheme, security) ==
    First(<< <<"destination" \in faults, "InvalidDestination">>,
             <<scheme # (IF security = "Plaintext" THEN "http" ELSE "https"),
               "DestinationSecurityMismatch">>,
             <<security = "Tls" /\ "ca" \in faults, "InvalidCaCertificate">>,
             <<security = "Tls" /\ "certificate" \in faults, "InvalidCertificate">>,
             <<security = "Tls" /\ "key" \in faults, "InvalidPrivateKey">>,
             <<security = "Tls" /\ "connector" \in faults, "InvalidClientTls">> >>)

\* server_tls_config: a client CA makes client certificates mandatory.
ServerTlsAdmitted(faults, clientCa) ==
    First(<< <<"certificate" \in faults, "InvalidCertificate">>,
             <<"key" \in faults, "InvalidPrivateKey">>,
             <<clientCa /\ "ca" \in faults, "InvalidCaCertificate">>,
             <<"pair" \in faults, "InvalidPrivateKey">> >>)

-----------------------------------------------------------------------------
(* The state of the calls *)

CONSTANTS
    GrServed,   \* calls of others
    GrSent,     \* calls of this service
    GrLimit,    \* max_in_flight
    GrCap,      \* request_timeout; the client's local budget
    GrTimeouts, \* the timeouts a caller may bring, as optional durations
    GrMaxWait,  \* max_admission_wait
    GrDrain     \* REJECT_DRAIN

ASSUME GrpcAssumption ==
    /\ {GrLimit, GrCap} \subseteq Nat \ {0} /\ {GrMaxWait, GrDrain} \subseteq Nat
    /\ \A t \in GrTimeouts : Cardinality(t) <= 1 /\ t \subseteq Nat
    /\ GrServed \cap GrSent = {}

VARIABLES
    gcall,  \* each call
    gline,  \* the calls that wait at each bound
    gfree   \* the permits of each bound that nobody holds

grVars == <<gcall, gline, gfree>>

GrCalls == GrServed \cup GrSent
GrBounds == {"opening", "calls"}

\* Where a call is while its future can be dropped and its opening budget runs.
Unanswered == {"opening", "authn", "calls", "handler", "reject", "prepared", "ready", "sent"}
GrStatuses == {"OK", "NotFound", "Unknown", "Internal", "Cancelled", "DeadlineExceeded", "ResourceExhausted",
               "Unauthenticated", "Unavailable", "PermissionDenied"}

\* at: where it is; open, life, wait: ticks left of its opening, its whole deadline (-1: none)
\* and its wait; holds: permits; answer: the response on its way; res: resources in custody;
\* term: trailers to be given; fin: the status its completion records; count: statuses recorded;
\* told: how it ended for the peer; stop: its cancellation token; poll, woke: who polls the
\* body; upload: the request body of a sent call.
NoCall == [at |-> "out", open |-> 0, life |-> -1, wait |-> 0, holds |-> {}, answer |-> "none",
           res |-> FALSE, term |-> "none", fin |-> "none", count |-> <<>>, told |-> <<>>,
           stop |-> FALSE, timer |-> "none", poll |-> "none", woke |-> FALSE, upload |-> "none"]

GrInit ==
    /\ gcall = [c \in GrCalls |-> NoCall]
    /\ gline = [b \in GrBounds |-> <<>>]
    /\ gfree = [b \in GrBounds |-> GrLimit]

-----------------------------------------------------------------------------
(* Permits *)

\* A call that a freed permit of bound b reaches
Granted(call, b) ==
    [call EXCEPT !.holds = @ \cup {b}, !.wait = 0, !.at = IF b = "opening" THEN "authn" ELSE "handler"]

\* Call c becomes `after`: the permits it gives up go to the first in line or are free, and it
\* leaves the lines it no longer waits in.
Settle(c, after) ==
    LET Gone(b) == b \in gcall[c].holds \ after.holds
        Left(b) == IF after.at = b THEN gline[b] ELSE Leave(gline[b], c)
        Heir(b) == IF Gone(b) /\ Left(b) # <<>> THEN {Head(Left(b))} ELSE {}
    IN /\ gcall' = [q \in GrCalls |->
                      CASE q = c -> after
                        [] q \in Heir("opening") -> Granted(gcall[q], "opening")
                        [] q \in Heir("calls") -> Granted(gcall[q], "calls")
                        [] OTHER -> gcall[q]]
       /\ gline' = [b \in GrBounds |-> IF Heir(b) = {} THEN Left(b) ELSE Tail(Left(b))]
       /\ gfree' = [b \in GrBounds |-> IF Gone(b) /\ Heir(b) = {} THEN gfree[b] + 1 ELSE gfree[b]]

\* acquire: a free permit, a place in line for the call's patience, or the refusal.
AcquirePermit(c, call, b) ==
    LET patience == Patience(call.open, GrDrain, GrMaxWait)
    IN \/ /\ gfree[b] > 0
          /\ gcall' = [gcall EXCEPT ![c] = Granted(call, b)]
          /\ gfree' = [gfree EXCEPT ![b] = @ - 1] /\ UNCHANGED gline
       \/ /\ gfree[b] = 0 /\ patience > 0
          /\ gcall' = [gcall EXCEPT ![c] = [call EXCEPT !.at = b, !.wait = patience]]
          /\ gline' = [gline EXCEPT ![b] = Append(@, c)] /\ UNCHANGED gfree
       \/ /\ gfree[b] = 0 /\ patience = 0
          /\ gcall' = [gcall EXCEPT ![c] = [call EXCEPT !.at = "reject", !.answer = AtCapacity.code]]
          /\ UNCHANGED <<gline, gfree>>

-----------------------------------------------------------------------------
(* The end of a call *)

StopStatus(expired, cancelled) ==
    CASE expired -> "DeadlineExceeded" [] ~expired /\ cancelled -> "Cancelled" [] OTHER -> "none"

OpeningStatus(c) == StopStatus(gcall[c].open = 0, gcall[c].stop)
LifeStatus(c) == StopStatus(gcall[c].life = 0, gcall[c].stop)

\* Everything a call owned is dropped: permits, its cancellation guard, the upload's source.
GivenUp(call) ==
    [call EXCEPT !.holds = {}, !.stop = TRUE, !.open = 0, !.life = -1, !.wait = 0, !.res = FALSE,
                 !.fin = "none", !.upload = IF @ = "open" THEN "cut" ELSE @]

\* Completion::finish records the status and drops the rest.
Completed(call) == GivenUp([call EXCEPT !.count = Append(@, call.fin)])

\* A status in the headers, or a failed call of our own: recorded and told at once.
EndWith(c, status, told) ==
    Settle(c, [Completed([gcall[c] EXCEPT !.fin = status, !.told = Append(@, told)])
                 EXCEPT !.at = "over", !.answer = "none"])

\* The opening budget, or a cancelled parent, drops the future under way.
OpeningStops(c) ==
    /\ gcall[c].at \in Unanswered \ {"prepared"} /\ OpeningStatus(c) # "none"
    /\ EndWith(c, OpeningStatus(c), OpeningStatus(c))

\* The caller leaves: an open call is recorded as cancelled.  One in custody drops its body;
\* a timer that already took the resources finishes alone.
PeerLeaves(c) ==
    LET call == gcall[c]
    IN \/ /\ call.at \in Unanswered
          /\ Settle(c, [Completed([call EXCEPT !.fin = "Cancelled"]) EXCEPT !.at = "over", !.answer = "none"])
       \/ /\ call.at = "body" /\ call.poll \in {"ready", "parked"}
          /\ LET gone == [call EXCEPT !.at = "over", !.poll = "none", !.woke = FALSE, !.term = "none",
                                      !.answer = "none", !.timer = IF @ = "armed" THEN "ended" ELSE @]
             IN Settle(c, IF call.res THEN Completed([gone EXCEPT !.fin = "Cancelled"]) ELSE gone)

-----------------------------------------------------------------------------
(* Served calls *)

\* observe, deadline, admit_opening
Arrive(c, caller) ==
    LET deadlines == ServerDeadlines(caller, GrCap)
    IN /\ gcall[c].at = "out"
       /\ \E open \in deadlines.opening, life \in IF deadlines.lifetime = {} THEN {-1} ELSE deadlines.lifetime :
            IF open = 0 THEN EndWith(c, "DeadlineExceeded", "DeadlineExceeded")
            ELSE AcquirePermit(c, [gcall[c] EXCEPT !.open = open, !.life = life], "opening")

\* The wait for a permit was long enough.
PatienceEnds(c) ==
    /\ gcall[c].at \in GrBounds /\ gcall[c].wait = 0
    /\ Settle(c, [gcall[c] EXCEPT !.at = "reject", !.answer = AtCapacity.code])

\* authenticate or admit, then shed
Authenticate(c, refusal) ==
    /\ gcall[c].at = "authn"
    /\ IF OpeningStatus(c) # "none" THEN EndWith(c, OpeningStatus(c), OpeningStatus(c))
       ELSE IF refusal = "none" THEN AcquirePermit(c, gcall[c], "calls")
       ELSE Settle(c, [gcall[c] EXCEPT !.at = "reject", !.answer = refusal])

\* Mutation: the opening's permit goes on with the call.
AnswersHolding(c, answer) ==
    /\ \/ gcall[c].at = "handler"
       \/ gcall[c].at = "reject" /\ answer = gcall[c].answer
    /\ Settle(c, [gcall[c] EXCEPT !.at = "handoff", !.answer = answer])

\* The headers are there, from the handler or, after its drain, from a refusal: the opening
\* permit returns.
Answers(c, answer) ==
    /\ \/ gcall[c].at = "handler"
       \/ gcall[c].at = "reject" /\ answer = gcall[c].answer
    /\ Settle(c, [gcall[c] EXCEPT !.at = "handoff", !.answer = answer, !.holds = @ \ {"opening"}])

HandlerPanics(c) ==
    /\ gcall[c].at = "handler"
    /\ EndWith(c, "Internal", "Internal")

-----------------------------------------------------------------------------
(* Calls of this service *)

PrepareCall(c, policy, caller, parent) ==
    LET deadlines == ClientDeadlines(policy, GrCap, caller, parent)
    IN /\ gcall[c].at = "out"
       /\ \E open \in deadlines.opening, life \in IF deadlines.lifetime = {} THEN {-1} ELSE deadlines.lifetime :
            gcall' = [gcall EXCEPT ![c].at = "prepared", ![c].open = open, ![c].life = life]
       /\ UNCHANGED <<gline, gfree>>

\* send: the upload is under guard from here on.
SendPrepared(c) ==
    /\ gcall[c].at = "prepared"
    /\ IF OpeningStatus(c) # "none" THEN EndWith(c, OpeningStatus(c), OpeningStatus(c))
       ELSE gcall' = [gcall EXCEPT ![c].at = "ready", ![c].upload = "open"] /\ UNCHANGED <<gline, gfree>>

\* The channel is ready, or not to be had; then the response or a transport failure.
ChannelReady(c) ==
    /\ gcall[c].at = "ready"
    /\ IF OpeningStatus(c) # "none" THEN EndWith(c, OpeningStatus(c), OpeningStatus(c))
       ELSE gcall' = [gcall EXCEPT ![c].at = "sent"] /\ UNCHANGED <<gline, gfree>>

TransportFailures == {TransportStatus(expired) : expired \in BOOLEAN}

Responds(c, answer) ==
    /\ gcall[c].at = "sent" \/ (gcall[c].at = "ready" /\ answer \in TransportFailures)
    /\ gcall' = [gcall EXCEPT ![c].at = "handoff", ![c].answer = answer]
    /\ UNCHANGED <<gline, gfree>>

UploadEnds(c) ==
    /\ gcall[c].upload = "open" /\ gcall[c].at # "ready"
    /\ gcall' = [gcall EXCEPT ![c].upload = "ended"]
    /\ UNCHANGED <<gline, gfree>>

ParentCancels(c) ==
    /\ gcall[c].at \notin {"out", "over"} /\ ~gcall[c].stop
    /\ gcall' = [gcall EXCEPT ![c].stop = TRUE]
    /\ UNCHANGED <<gline, gfree>>

-----------------------------------------------------------------------------
(* From the headers to the end *)

\* A late answer loses to the cutoff; a failure of the transport ends our own call here.
Handoff(c) ==
    /\ gcall[c].at = "handoff"
    /\ IF OpeningStatus(c) # "none" THEN EndWith(c, OpeningStatus(c), OpeningStatus(c))
       ELSE IF c \in GrSent /\ gcall[c].answer \in TransportFailures
       THEN EndWith(c, gcall[c].answer, gcall[c].answer)
       ELSE gcall' = [gcall EXCEPT ![c].at = "attach"] /\ UNCHANGED <<gline, gfree>>

\* attach and ResponseBody::new
Attach(c, ended) ==
    LET call == gcall[c]
    IN /\ call.at = "attach"
       /\ IF LifeStatus(c) # "none" THEN EndWith(c, LifeStatus(c), LifeStatus(c))
          ELSE IF call.answer # "stream" THEN EndWith(c, call.answer, call.answer)
          ELSE IF ended THEN EndWith(c, "Unknown", "eof")
          ELSE /\ gcall' = [gcall EXCEPT ![c].at = "body", ![c].open = 0, ![c].answer = "none", ![c].res = TRUE,
                                         ![c].timer = "armed", ![c].poll = "ready"]
               /\ UNCHANGED <<gline, gfree>>

\* State::finish: the resources leave the custody for a completion, once.
Taken(call, status) == [call EXCEPT !.res = FALSE, !.fin = status]

\* A poll took the resources and will return `told`.
Ends(call, status, told) == [Taken(call, status) EXCEPT !.poll = "returning", !.answer = told]

\* The polling task enters: past the end it is given the terminal or the end of the stream.
PollStarts(c) ==
    LET call == gcall[c]
    IN /\ call.at = "body" /\ call.poll \in {"ready", "parked"}
       /\ gcall' = [gcall EXCEPT ![c] =
            IF ~call.res
            THEN [call EXCEPT !.poll = "ready", !.woke = FALSE, !.term = "none",
                    !.told = IF call.term # "none" THEN Append(@, call.term)
                             ELSE IF @ = <<>> THEN <<"eof">> ELSE @]
            ELSE IF LifeStatus(c) # "none" THEN Ends(call, LifeStatus(c), LifeStatus(c))
            ELSE [call EXCEPT !.poll = "locked", !.woke = FALSE]]
       /\ UNCHANGED <<gline, gfree>>

\* What a poll of the inner body brings, as <<status recorded, what the peer is told>>; a frame
\* of data, or nothing yet, ends nothing.
Polled(c) ==
    {<<s, s>> : s \in {"OK", "Unknown"}} \cup {<<"Unknown", "eof">>, <<"none", "pending">>, <<"none", "data">>}
        \cup IF c \in GrServed THEN {<<"Unknown", "error">>, <<"Internal", "Internal">>}
             ELSE {<<"Unavailable", "Unavailable">>, <<"Cancelled", "panic">>}

\* The inner body was polled under the lock; its frame loses to a cutoff that passed, a panic
\* does not.
PollEnds(c, what) ==
    LET call == gcall[c]
    IN /\ call.at = "body" /\ call.poll = "locked"
       /\ gcall' = [gcall EXCEPT ![c] =
            IF LifeStatus(c) # "none" /\ what \notin {<<"Internal", "Internal">>, <<"Cancelled", "panic">>}
            THEN Ends(call, LifeStatus(c), LifeStatus(c))
            ELSE IF what[1] # "none" THEN Ends(call, what[1], what[2])
            ELSE [call EXCEPT !.poll = IF what[2] = "pending" THEN "parked" ELSE "ready"]]
       /\ UNCHANGED <<gline, gfree>>

\* Outside the lock: the timer is aborted, the completion finished, the frame returned.
PollReturns(c) ==
    LET call == gcall[c]
    IN /\ call.at = "body" /\ call.poll = "returning"
       /\ Settle(c, [Completed([call EXCEPT !.timer = IF @ = "armed" THEN "ended" ELSE @])
                       EXCEPT !.poll = "ready", !.answer = "none", !.told = Append(@, call.answer)])

\* Mutation: the trailers are set although somebody else ended the call.
TerminateAlways(c, status) ==
    [Taken(gcall[c], IF gcall[c].res THEN status ELSE gcall[c].fin) EXCEPT
        !.term = status, !.timer = IF gcall[c].res THEN "finishing" ELSE "ended"]

\* terminate, under the lock: the first to come takes the resources and leaves the trailers.
Terminate(c, status) ==
    IF gcall[c].res THEN [Taken(gcall[c], status) EXCEPT !.term = status, !.timer = "finishing"]
    ELSE [gcall[c] EXCEPT !.timer = "ended"]

\* The timer task: the call's context stopped, or the wait panicked.
TimerFires(c, panicked) ==
    LET status == IF panicked THEN "Internal" ELSE LifeStatus(c)
    IN /\ gcall[c].at = "body" /\ gcall[c].timer = "armed" /\ gcall[c].poll # "locked"
       /\ status # "none"
       /\ gcall' = [gcall EXCEPT ![c] = Terminate(c, status)]
       /\ UNCHANGED <<gline, gfree>>

\* Mutation: the parked task is not woken.
FinishSilently(c) ==
    /\ gcall[c].timer = "finishing"
    /\ Settle(c, [Completed(gcall[c]) EXCEPT !.timer = "ended"])

\* Outside the lock: the parked task is woken and the completion finished.
TimerFinishes(c) ==
    /\ gcall[c].timer = "finishing"
    /\ Settle(c, [Completed(gcall[c]) EXCEPT !.timer = "ended", !.woke = gcall[c].poll = "parked"])

-----------------------------------------------------------------------------
GrTick ==
    LET Less(n) == IF n > 0 THEN n - 1 ELSE n
        aged == [c \in GrCalls |-> [gcall[c] EXCEPT !.open = Less(@), !.life = Less(@), !.wait = Less(@)]]
    IN aged # gcall /\ gcall' = aged /\ UNCHANGED <<gline, gfree>>

CustodyStep(c) ==
    \/ OpeningStops(c) \/ PeerLeaves(c) \/ Handoff(c)
    \/ \E e \in BOOLEAN : Attach(c, e)
    \/ PollStarts(c) \/ PollReturns(c)
    \/ \E w \in Polled(c) : PollEnds(c, w)
    \/ \E p \in BOOLEAN : TimerFires(c, p)
    \/ TimerFinishes(c)

ServedNext ==
    \/ \E c \in GrServed :
         \/ \E t \in GrTimeouts : Arrive(c, t)
         \/ PatienceEnds(c)
         \/ \E f \in {"none", "Unauthenticated", "Unavailable", "PermissionDenied"} : Authenticate(c, f)
         \/ \E a \in {"stream", "NotFound", gcall[c].answer} \ {"none"} : Answers(c, a)
         \/ HandlerPanics(c)
         \/ CustodyStep(c)
    \/ GrTick

SentNext ==
    \/ \E c \in GrSent :
         \/ \E p \in {"FullRpc", "OpeningOnly"}, t, parent \in GrTimeouts : PrepareCall(c, p, t, parent)
         \/ SendPrepared(c) \/ ChannelReady(c) \/ UploadEnds(c) \/ ParentCancels(c)
         \/ \E a \in {"stream", "NotFound"} \cup TransportFailures : Responds(c, a)
         \/ CustodyStep(c)
    \/ GrTick

-----------------------------------------------------------------------------
(* Properties *)

GrTypeOK ==
    /\ gfree \in [GrBounds -> 0 .. GrLimit]
    /\ \A c \in GrCalls :
         /\ gcall[c].at \in Unanswered \cup {"out", "handoff", "attach", "body", "over"}
         /\ gcall[c].fin \in GrStatuses \cup {"none"} /\ gcall[c].term \in GrStatuses \cup {"none"}
         /\ gcall[c].timer \in {"none", "armed", "finishing", "ended"}
         /\ gcall[c].poll \in {"none", "ready", "parked", "locked", "returning"}
         /\ gcall[c].upload \in {"none", "open", "ended", "cut"}

\* No permit is lost and none is made, and nobody waits beside a free one, whoever sheds, stops,
\* panics or hangs up; an answered call has no part in the bound on openings.
PermitsFollow ==
    \A b \in GrBounds :
        /\ gfree[b] + Cardinality({c \in GrCalls : b \in gcall[c].holds}) = GrLimit
        /\ gline[b] # <<>> => gfree[b] = 0
        /\ {gline[b][i] : i \in DOMAIN gline[b]} = {c \in GrCalls : gcall[c].at = b}
        /\ \A c \in GrCalls : gcall[c].at \in {"attach", "body", "over"} => "opening" \notin gcall[c].holds

\* The poll, the timer and the drop end a call once: one status is recorded, its work is told to
\* stop and its upload cut exactly then, and the peer is told at most once, the recorded status.
EndedOnce ==
    \A c \in GrCalls :
        LET call == gcall[c]
            recorded == IF call.count = <<>> THEN call.fin ELSE call.count[1]
        IN /\ Len(call.count) <= 1 /\ Len(call.told) <= 1
           /\ call.at = "over" => call.count # <<>> \/ call.timer = "finishing"
           /\ call.count # <<>> => ~call.res /\ call.stop /\ call.holds = {} /\ call.upload # "open"
           /\ c \in GrServed /\ call.stop => call.count # <<>>
           /\ \A i \in DOMAIN call.told :
                 recorded = CASE call.told[i] \in {"eof", "error"} -> "Unknown"
                              [] call.told[i] = "panic" -> "Cancelled"
                              [] OTHER -> call.told[i]

\* A task parked on the body of an ended call is woken, or about to be by the timer that ended it.
ParkedWoken ==
    \A c \in GrCalls : gcall[c].poll = "parked" /\ ~gcall[c].res => gcall[c].woke \/ gcall[c].timer = "finishing"

\* A call gives everything back and ends once, whoever ends it (infra-grpc/src/call.rs:
\* ResponseBody, Completion; router.rs: admit_opening, shed).
CallsAccounted == GrTypeOK /\ PermitsFollow /\ EndedOnce /\ ParkedWoken
=============================================================================
