------------------------------- MODULE Webhooks -----------------------------
(***************************************************************************)
(* One webhook message on its way (src/crates/infra-webhooks and           *)
(* infra-http's ingress route): a delivery job signs and sends it until it *)
(* is answered, the receiver verifies it, keeps a receipt and a processing *)
(* job in one transaction, and a consumer applies it once.  Both sides     *)
(* change their keys while messages are on their way.  Time is in ticks.   *)
(***************************************************************************)
EXTENDS Refusals, Integers, FiniteSets

CONSTANTS
    MaxSends,   \* DELIVERY_POLICY.max_attempts
    Retention,  \* RECEIPT_RETENTION
    Tolerance,  \* TIMESTAMP_TOLERANCE_SECONDS
    RetryCap,   \* RETRY_AFTER_CAP
    LastKey,    \* bound: keys the endpoint goes through
    WhClockEnd  \* bound: the clock

ASSUME WebhooksAssumption ==
    {MaxSends, Retention, Tolerance, RetryCap, LastKey, WhClockEnd} \subseteq Nat \ {0}

VARIABLES
    whClock,    \* both sides' clock
    whOpen,     \* the receiver: "new", "refused", "open"
    whRing,     \* each side's key ring: active key and its predecessor (0: none)
    whSender,   \* the delivery job: state, attempts, not before
    whReq,      \* each attempt's request: where it is, its timestamp, its signatures, its answer
    whReceipt,  \* the date of the receipt, its transaction's start; -1: there is none
    whAccepted, \* each processing job: its receipt's date, and when it was committed
    whDone      \* processing jobs whose consumer has committed

whVars == <<whClock, whOpen, whRing, whSender, whReq, whReceipt, whAccepted, whDone>>

Sides == {"sender", "receiver"}
Sends == 1 .. MaxSends
NoRequest == [at |-> "none", id |-> 0, ts |-> 0, keys |-> {}, code |-> 0, began |-> 0]
InTx == {"begun", "inserted", "duplicate"}

WhTypeOK ==
    /\ whClock \in 0 .. WhClockEnd
    /\ whOpen \in {"new", "refused", "open"}
    /\ whSender.st \in {"none", "pending", "sending", "done", "failed"}
    /\ whSender.tries \in 0 .. MaxSends
    /\ \A n \in Sends : whReq[n].at \in {"none", "sent", "verified", "answered", "over"} \cup InTx
    /\ whReceipt \in -1 .. WhClockEnd
    /\ whDone \subseteq DOMAIN whAccepted

WhInit ==
    /\ whClock = 0 /\ whOpen = "new"
    /\ whRing = [s \in Sides |-> [active |-> 1, previous |-> 0]]
    /\ whSender = [st |-> "none", tries |-> 0, floor |-> 0]
    /\ whReq = [n \in Sends |-> NoRequest]
    /\ whReceipt = -1 /\ whAccepted = <<>> /\ whDone = {}

-----------------------------------------------------------------------------
(* Composition and keys *)

\* Keys are 24 to 64 bytes of base64; every endpoint's key is among the secrets.
AdmitKey(faults) ==
    First(<< <<"key_missing" \in faults, "InboundWebhookKeyReference">>,
             <<"key_base64" \in faults, "InboundWebhookKey">>,
             <<"key_length" \in faults, "InboundWebhookKey">> >>)

\* No endpoints: the route stays and knows nobody.
PrepareWebhooks ==
    /\ whOpen = "new"
    /\ \E faults \in {{}, {"no_pool"}, {"key_missing"}, {"key_base64"}, {"key_length"}} :
          whOpen' = IF Then(First(<< <<"no_pool" \in faults, "ValidationError">> >>),
                            AdmitKey(faults)) = "ok"
                    THEN "open" ELSE "refused"
    /\ UNCHANGED <<whClock, whRing, whSender, whReq, whReceipt, whAccepted, whDone>>

RingKeys(ring) == {ring.active, ring.previous} \ {0}

\* Operators keep the two sides within one rotation of each other.
ChangeKeys(side) ==
    LET other == CHOOSE s \in Sides : s # side
        next == [active |-> whRing[side].active + 1, previous |-> whRing[side].active]
    IN /\ whOpen = "open" /\ whRing[side].active < LastKey
       /\ RingKeys(next) \cap RingKeys(whRing[other]) # {}
       /\ whRing' = [whRing EXCEPT ![side] = next]
       /\ UNCHANGED <<whClock, whOpen, whSender, whReq, whReceipt, whAccepted, whDone>>

-----------------------------------------------------------------------------
(* The sender *)

\* Outbound::enqueue: nothing is inserted when the delivery is refused.
Preflight(faults) ==
    First(<< <<"body" \in faults, "BodyTooLarge">>,
             <<"endpoint" \in faults, "UnknownEndpoint">>,
             <<"content_type" \in faults, "InvalidContentType">>,
             <<"payload" \in faults, "Enqueue">> >>)

\* An HTTPS URL with a host, without credentials and fragment.
ParseDestination(faults) ==
    IF faults \cap {"plain", "no_host", "userinfo", "fragment"} = {} THEN "ok"
    ELSE "InvalidDestination"

EnqueueDelivery ==
    /\ whOpen = "open" /\ whSender.st = "none"
    /\ \E faults \in {{}, {"body"}, {"endpoint"}, {"content_type"}, {"payload"}} :
          Then(ParseDestination(faults), Preflight(faults)) = "ok"
    /\ whSender' = [whSender EXCEPT !.st = "pending"]
    /\ UNCHANGED <<whClock, whOpen, whRing, whReq, whReceipt, whAccepted, whDone>>

\* Mutation: every attempt names its message anew.
MessageIdOfAttempt(n) == n

\* The message's identity is its job's.
MessageId(n) == 1

\* KeyRing::signatures: the active key's signature, then its predecessor's.
Signatures(ring) == RingKeys(ring)

Retry(floor) ==
    whSender' = [whSender EXCEPT !.st = IF whSender.tries = MaxSends THEN "failed" ELSE "pending",
                                 !.floor = floor]

\* Dispatcher::dispatch up to the request's departure.
DispatchDelivery ==
    LET n == whSender.tries + 1 IN
    /\ whSender.st = "pending" /\ whSender.tries < MaxSends /\ whClock >= whSender.floor
    /\ whSender' = [whSender EXCEPT !.st = "sending", !.tries = n]
    /\ whReq' = [whReq EXCEPT ![n] =
                    [NoRequest EXCEPT !.at = "sent", !.id = MessageId(n), !.ts = whClock,
                                      !.keys = Signatures(whRing["sender"])]]
    /\ UNCHANGED <<whClock, whOpen, whRing, whReceipt, whAccepted, whDone>>

\* Without an endpoint or a clock the attempt is spent; a payload that cannot be sent is the end.
DispatchNothing(reason) ==
    LET n == whSender.tries + 1 IN
    /\ whSender.st = "pending" /\ whSender.tries < MaxSends
    /\ whSender' = [whSender EXCEPT !.tries = n,
                       !.st = IF reason = "invalid_payload" \/ n = MaxSends THEN "failed" ELSE @]
    /\ UNCHANGED <<whClock, whOpen, whRing, whReq, whReceipt, whAccepted, whDone>>

\* Whole seconds or a date, at least one tick and never past the cap; else the usual backoff.
RetryAfter(delay) == IF delay <= 0 THEN 0 ELSE IF delay < RetryCap THEN delay ELSE RetryCap

\* classify_response: 204 is delivered, 410 permanent, every other answer tried again.
HearAnswer ==
    LET n == whSender.tries IN
    /\ whSender.st = "sending" /\ whReq[n].at = "answered"
    /\ \E delay \in 0 .. RetryCap + 1 :
          /\ delay > 0 => whReq[n].code = 503
          /\ CASE whReq[n].code = 204 -> whSender' = [whSender EXCEPT !.st = "done"]
               [] whReq[n].code = 410 -> whSender' = [whSender EXCEPT !.st = "failed"]
               [] OTHER -> Retry(whClock + RetryAfter(delay))
    /\ whReq' = [whReq EXCEPT ![n] = [NoRequest EXCEPT !.at = "over"]]
    /\ UNCHANGED <<whClock, whOpen, whRing, whReceipt, whAccepted, whDone>>

\* A timeout, a broken transport or a lost worker: the receiver may have the message.
LoseAnswer ==
    LET n == whSender.tries IN
    /\ whSender.st = "sending"
    /\ Retry(whClock)
    /\ whReq' = IF whReq[n].at = "answered" THEN [whReq EXCEPT ![n] = [NoRequest EXCEPT !.at = "over"]]
                ELSE whReq
    /\ UNCHANGED <<whClock, whOpen, whRing, whReceipt, whAccepted, whDone>>

-----------------------------------------------------------------------------
(* The receiver *)

Distance(a, b) == IF a < b THEN b - a ELSE a - b

\* KeyRing::verify, and the identity's bounds.
VerifyDelivery(req, ring, faults) ==
    First(<< <<"body" \in faults, "body_too_large">>,
             <<"no_header" \in faults, "missing_header">>,
             <<"two_headers" \in faults, "conflicting_header">>,
             <<"bad_id" \in faults, "invalid_message_id">>,
             <<"bad_timestamp" \in faults, "invalid_timestamp">>,
             <<Distance(req.ts, whClock) > Tolerance, "timestamp_out_of_window">>,
             <<req.keys \cap RingKeys(ring) = {}, "invalid_signature">> >>)

Answered(n, code) ==
    whReq' = [whReq EXCEPT ![n].at = IF whSender.tries = n /\ whSender.st = "sending"
                                     THEN "answered" ELSE "over", ![n].code = code]

\* The ingress route: who is meant, the body, the evidence, then what is left of the deadline.
Receive(n) ==
    /\ whReq[n].at = "sent"
    /\ \E faults \in {{}, {"endpoint"}, {"body"}, {"unreadable"}, {"no_deadline"}, {"late"}} :
          LET verdict == VerifyDelivery(whReq[n], whRing["receiver"], {})
              code == CASE "endpoint" \in faults -> 404
                        [] "body" \in faults -> 413
                        [] "unreadable" \in faults -> 400
                        [] "no_deadline" \in faults -> 500
                        [] "late" \in faults -> 503
                        [] verdict # "ok" -> 400
                        [] OTHER -> 0
          IN IF code = 0 THEN whReq' = [whReq EXCEPT ![n].at = "verified"] ELSE Answered(n, code)
    /\ UNCHANGED <<whClock, whOpen, whRing, whSender, whReceipt, whAccepted, whDone>>

\* BEGIN: what the transaction writes by DEFAULT now() has this date.
BeginReceipt(n) ==
    /\ whReq[n].at = "verified"
    /\ whReq' = [whReq EXCEPT ![n].at = "begun", ![n].began = whClock]
    /\ UNCHANGED <<whClock, whOpen, whRing, whSender, whReceipt, whAccepted, whDone>>

\* INSERT ... ON CONFLICT DO NOTHING waits for another admission's uncommitted receipt.  Receipts
\* are kept by identity; only the identity of the message has one in the model.
InsertReceipt(n) ==
    /\ whReq[n].at = "begun"
    /\ \A m \in Sends : whReq[m].at # "inserted" \/ whReq[m].id # whReq[n].id
    /\ whReq' = [whReq EXCEPT ![n].at = IF whReceipt >= 0 /\ whReq[n].id = MessageId(1)
                                        THEN "duplicate" ELSE "inserted"]
    /\ UNCHANGED <<whClock, whOpen, whRing, whSender, whReceipt, whAccepted, whDone>>

\* The receipt and its processing job commit together, or neither does.
CommitReceipt(n, durable) ==
    IF durable /\ whReq[n].at = "inserted"
    THEN /\ whReceipt' = whReq[n].began
         /\ whAccepted' = Append(whAccepted, [began |-> whReq[n].began, at |-> whClock])
    ELSE UNCHANGED <<whReceipt, whAccepted>>

\* The commit's answer: acknowledged, refused, or unknown, when it may or may not have happened.
EndReceipt(n, durable, known) ==
    /\ whReq[n].at \in InTx \ {"begun"}
    /\ CommitReceipt(n, durable)
    /\ Answered(n, IF durable /\ known THEN 204 ELSE 503)
    /\ UNCHANGED <<whClock, whOpen, whRing, whSender, whDone>>

\* A failed statement, or the deadline of the attempt: the transaction rolls back.
AbandonReceipt(n) ==
    /\ whReq[n].at \in {"verified"} \cup InTx
    /\ Answered(n, 503)
    /\ UNCHANGED <<whClock, whOpen, whRing, whSender, whReceipt, whAccepted, whDone>>

\* remove_expired deletes what is dated before the retention and not held by an admission.
RemoveExpired ==
    /\ whReceipt >= 0 /\ whReceipt < whClock - Retention
    /\ whReceipt' = -1
    /\ UNCHANGED <<whClock, whOpen, whRing, whSender, whReq, whAccepted, whDone>>

\* One consumer for every configured endpoint, or the worker does not start.
BindConsumers(bindings, endpoints) ==
    First(<< <<\E b, c \in bindings : b # c /\ b.endpoint = c.endpoint, "DuplicateConsumer">>,
             <<endpoints \ {b.endpoint : b \in bindings} # {}, "MissingConsumer">> >>)

\* Processor::run: the consumer's effects and the job's completion commit together.  A failure, or
\* a missing binding, leaves the job to be run again.
ProcessIncoming(j) ==
    /\ j \in DOMAIN whAccepted /\ j \notin whDone
    /\ \E bindings \in SUBSET [endpoint : {"e"}, consumer : {1, 2}] :
          BindConsumers(bindings, {"e"}) = "ok"
    /\ whDone' = whDone \cup {j}
    /\ UNCHANGED <<whClock, whOpen, whRing, whSender, whReq, whReceipt, whAccepted>>

TickWebhooks ==
    /\ whClock < WhClockEnd /\ whSender.st # "none"
    /\ whClock' = whClock + 1
    /\ UNCHANGED <<whOpen, whRing, whSender, whReq, whReceipt, whAccepted, whDone>>

WhNext ==
    \/ PrepareWebhooks
    \/ \E side \in Sides : ChangeKeys(side)
    \/ EnqueueDelivery
    \/ DispatchDelivery
    \/ \E reason \in {"missing_endpoint", "clock_unavailable", "invalid_payload"} :
          DispatchNothing(reason)
    \/ HearAnswer
    \/ LoseAnswer
    \/ \E n \in Sends : Receive(n)
    \/ \E n \in Sends : BeginReceipt(n)
    \/ \E n \in Sends : InsertReceipt(n)
    \/ \E n \in Sends, durable, known \in BOOLEAN : EndReceipt(n, durable, known)
    \/ \E n \in Sends : AbandonReceipt(n)
    \/ RemoveExpired
    \/ \E j \in DOMAIN whAccepted : ProcessIncoming(j)
    \/ TickWebhooks

-----------------------------------------------------------------------------
(* Properties *)

\* However often a message is sent, answered late or not at all, and whatever its commit said: a
\* sender that was told 204 has a processing job at the receiver, and a second job for the message
\* is committed only when every earlier receipt, dated by the start of its transaction and not by
\* its commit, has outlived its retention.
DeliveredOnce ==
    /\ WhTypeOK
    /\ whSender.st = "done" => whAccepted # <<>>
    /\ \A i, j \in DOMAIN whAccepted : i < j => whAccepted[j].at - whAccepted[i].began > Retention
=============================================================================
