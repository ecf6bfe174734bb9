--------------------------- MODULE ObjectStorage ----------------------------
(***************************************************************************)
(* Object storage for one bucket (src/crates/infra-object-storage): the    *)
(* admission of a provider, the slots and the one cutoff of every          *)
(* operation, what a mutation's answer means, and the download that        *)
(* withholds its last chunk until the body has ended.  The provider and    *)
(* the SDK are external: a mutation may be applied at any time after it    *)
(* was sent, an answer may be lost, and a body may lie about its length.   *)
(***************************************************************************)
EXTENDS Refusals, Integers, FiniteSets

CONSTANTS
    Transfers,       \* the operations of one run
    TransferSlots,   \* max_concurrency
    TransferTicks,   \* operation_timeout
    TransferEnd,     \* bound on the clock
    MaxItems         \* bound on the items a body yields

ASSUME TransferAssumption ==
    TransferSlots \in Nat \ {0} /\ TransferTicks \in Nat \ {0}
    /\ TransferEnd \in Nat /\ MaxItems \in Nat

VARIABLES
    xfer,      \* each operation
    slots,     \* free permits of the admission semaphore
    xclock

xferVars == <<xfer, slots, xclock>>

Mutations == {"put", "create", "delete"}
Reads == {"get", "head"}
Unslotted == {"presign", "probe"}
Sizes == 0 .. 2

-----------------------------------------------------------------------------
(* The provider tuple *)

ValidBucket(bucket) == bucket.length \in 3 .. 63 /\ bucket.faults = {}

\* A bare origin: scheme and host, an optional port, and nothing else.
OriginAdmitted(endpoint, allowPlaintext) ==
    /\ endpoint.scheme \in IF allowPlaintext THEN {"https", "http"} ELSE {"https"}
    /\ endpoint.faults \cap {"userinfo", "path", "query", "fragment", "no_host"} = {}

SigningRegion(region) == region \in {"", "valid"}

AdmitProvider(provider, bucket) ==
    LET s3 == provider.kind = "AmazonS3"
        origin == OriginAdmitted(provider.endpoint, provider.kind = "Local")
    IN First(<< <<~ValidBucket(bucket), "Bucket">>,
                <<s3 /\ provider.region = "", "Region">>,
                <<~s3 /\ ~origin, "Endpoint">>,
                <<provider.kind = "CloudflareR2" /\ "other_host" \in provider.endpoint.faults, "Endpoint">>,
                <<provider.kind \in {"CloudflareR2", "Railway"} /\ "port" \in provider.endpoint.faults,
                  "Endpoint">>,
                <<provider.kind # "CloudflareR2" /\ ~SigningRegion(provider.region), "Region">>,
                <<s3 /\ ~provider.owner12, "ExpectedBucketOwner">> >>)

UploadChecksum(kind) ==
    CASE kind \in {"AmazonS3", "Local"} -> "Always"
      [] kind = "CloudflareR2" -> "BytesOnly"
      [] OTHER -> "Never"

\* Whether this upload carries a checksum.
ChecksumSent(kind, streamed) ==
    UploadChecksum(kind) = "Always" \/ (UploadChecksum(kind) = "BytesOnly" /\ ~streamed)

CredentialsAdmitted(source, kind) ==
    IF source.type = "AccessKey"
    THEN First(<< <<"blank_id" \in source.faults, "AccessKeyId">>,
                  <<"blank_secret" \in source.faults, "SecretAccessKey">> >>)
    ELSE First(<< <<kind # "AmazonS3", "Credentials">> >>)

TryNew(provider, bucket, concurrency, source) ==
    Then(AdmitProvider(provider, bucket),
    Then(First(<< <<concurrency = 0, "MaxConcurrency">> >>),
         CredentialsAdmitted(source, provider.kind)))

\* A key's length and what is wrong with its segments.
KeyAdmitted(key) ==
    key.length \in 1 .. 1024 /\ key.faults \cap {"empty_segment", "dots", "other_byte"} = {}

ContentTypeAdmitted(type) == type.length \in 1 .. 1024 /\ type.faults \cap {"blank", "control"} = {}

\* A read attempt gets half of the ceiling, a mutation all that is left and no second attempt.
OperationConfig(remaining, ceiling, mutation) ==
    LET share == ceiling \div 2
    IN [timeout |-> remaining,
        attempt |-> IF mutation \/ remaining < share THEN remaining ELSE share,
        attempts |-> IF mutation THEN 1 ELSE 3]

\* An error reply is bounded client-wide, a success reply only where it is not streamed.
ResponseBounded(hook, success) == success = (hook = "Success")

-----------------------------------------------------------------------------
(* What an answer means *)

StoreAnswers ==
    {[type |-> "ok", status |-> 200, code |-> "none"], [type |-> "NotSent", status |-> 0, code |-> "none"],
     [type |-> "NoCredentials", status |-> 0, code |-> "none"], [type |-> "Lost", status |-> 0, code |-> "none"],
     [type |-> "Status", status |-> 404, code |-> "NoSuchBucket"],
     [type |-> "Status", status |-> 404, code |-> "NoSuchKey"]}
    \cup {[type |-> "Status", status |-> s, code |-> "none"] : s \in {403, 404, 409, 412, 500, 501}}

\* Mutation: a mutation whose answer is lost is taken for one that did not happen.
ClassifyLostAsRefused(call, reply) ==
    CASE reply.type = "NotSent" -> "Rejected"
      [] reply.type \in {"NoCredentials", "Lost"} -> "Unavailable"
      [] reply.code = "NoSuchBucket" -> "Rejected"
      [] reply.status = 404 /\ call = "Read" -> "NotFound"
      [] reply.status = 412 /\ call = "CreateOnly" -> "AlreadyExists"
      [] reply.status \in {409, 429, 503} -> "Unavailable"
      [] reply.status = 501 -> "Rejected"
      [] reply.status \in 500 .. 599 -> "Unavailable"
      [] OTHER -> "Rejected"

Classify(call, reply) ==
    LET unsure == IF call = "Read" THEN "Unavailable" ELSE "OutcomeUnknown"
    IN CASE reply.type = "NotSent" -> "Rejected"
         [] reply.type = "NoCredentials" -> "Unavailable"
         [] reply.type = "Lost" -> unsure
         [] reply.code = "NoSuchBucket" -> "Rejected"
         [] reply.status = 404 /\ call = "Read" -> "NotFound"
         [] reply.status = 412 /\ call = "CreateOnly" -> "AlreadyExists"
         [] reply.status \in {409, 429, 503} \/ reply.code = "RequestTimeout" -> "Unavailable"
         [] reply.status = 501 -> "Rejected"
         [] reply.status \in 500 .. 599 -> unsure
         [] OTHER -> "Rejected"

CallOf(kind) ==
    CASE kind \in Reads \cup Unslotted -> "Read" [] kind = "create" -> "CreateOnly" [] OTHER -> "Mutation"

\* External: which answers a store may give to a request it did or did not apply.  The delete of
\* a missing key has taken its effect, whichever answer names it.
MayReply(o, reply) ==
    IF o.kind \in Reads THEN reply.status # 412
    ELSE IF o.applied
    THEN \/ reply.type \in {"ok", "Lost"} \/ reply.status = 500
         \/ reply.code = "NoSuchKey" /\ o.kind = "delete"
    ELSE /\ reply.type # "ok" /\ reply.code # "NoSuchKey"
         /\ reply.status = 412 => o.kind = "create"
         /\ o.mismatch => reply.type = "Lost"

\* A presigned link lives one second to seven days, and must work without headers.
PresignGet(seconds, headers, reply) ==
    CASE seconds \notin 1 .. 7 * 24 * 3600 -> "Rejected"
      [] reply.type # "ok" -> Classify("Read", reply)
      [] headers -> "Rejected"
      [] OTHER -> "ok"

-----------------------------------------------------------------------------
(* The upload body: its last frame waits until the source shows it has nothing more *)

\* The bytes the SDK gets of a source that yields frames and ends, and whether it was refused.
ExactLength(len, frames) ==
    LET sum[i \in 0 .. Len(frames)] == IF i = 0 THEN 0 ELSE sum[i - 1] + frames[i]
        total == sum[Len(frames)]
        passed == {sum[i] : i \in {j \in 0 .. Len(frames) : sum[j] < len}}
    IN IF total = len THEN [emitted |-> len, refused |-> FALSE]
       ELSE [emitted |-> CHOOSE n \in passed \cup {0} : \A m \in passed : m <= n, refused |-> TRUE]

-----------------------------------------------------------------------------
NewTransfer ==
    [stage |-> "idle", kind |-> "none", cutoff |-> 0, cancelled |-> FALSE, held |-> FALSE,
     sent |-> FALSE, mismatch |-> FALSE, applied |-> FALSE, reply |-> {}, result |-> "none", records |-> 0,
     size |-> 0, remaining |-> 0, last |-> 0, items |-> 0, got |-> 0, finished |-> FALSE]

XferInit ==
    /\ xfer = [t \in Transfers |-> NewTransfer]
    /\ slots = TransferSlots
    /\ xclock = 0

Stopped(t) == xfer[t].cancelled \/ xclock >= xfer[t].cutoff

\* An operation ends: its outcome is recorded, what it held let go and its permit
\* returned.
Conclude(t, o, result) ==
    /\ xfer' = [xfer EXCEPT ![t] = [o EXCEPT !.stage = "done", !.result = result, !.held = FALSE,
                                            !.records = @ + 1, !.cutoff = 0, !.cancelled = FALSE,
                                            !.items = 0, !.remaining = 0, !.last = 0,
                                            !.reply = IF o.kind \in Mutations THEN @ ELSE {}]]
    /\ slots' = slots + IF o.held THEN 1 ELSE 0

BeginTransfer(t) ==
    /\ xfer[t].stage = "idle"
    /\ \E kind \in Mutations \cup Reads \cup Unslotted, stopped \in BOOLEAN :
         LET o == [xfer[t] EXCEPT !.kind = kind, !.cutoff = xclock + TransferTicks, !.cancelled = stopped]
         IN IF stopped /\ kind # "probe" THEN Conclude(t, o, "Unavailable")
            ELSE xfer' = [xfer EXCEPT ![t] = [o EXCEPT !.stage = "begun"]] /\ UNCHANGED slots
    /\ UNCHANGED xclock

\* A body too large is refused before a slot is taken; no slot is waited for.
TakeSlot(t) ==
    /\ xfer[t].stage = "begun" /\ xfer[t].kind \notin Unslotted
    /\ \/ xfer[t].kind \in {"put", "create"} /\ Conclude(t, xfer[t], "TooLarge")
       \/ slots = 0 /\ Conclude(t, xfer[t], "Busy")
       \/ /\ slots > 0 /\ slots' = slots - 1
          /\ xfer' = [xfer EXCEPT ![t].stage = "ready", ![t].held = TRUE]
    /\ UNCHANGED xclock

\* A link is signed within the operation's budget; the readiness probe has no context at all.
WithoutSlot(t) ==
    /\ xfer[t].stage = "begun" /\ xfer[t].kind \in Unslotted
    /\ \/ xfer[t].kind = "probe"
          /\ \E reply \in StoreAnswers :
               Conclude(t, xfer[t], IF reply.type = "ok" THEN "ok" ELSE Classify("Read", reply))
       \/ xfer[t].kind = "presign" /\ Stopped(t) /\ Conclude(t, xfer[t], "Unavailable")
       \/ /\ xfer[t].kind = "presign" /\ ~Stopped(t)
          /\ \E seconds \in {0, 1}, headers \in BOOLEAN, reply \in StoreAnswers :
               Conclude(t, xfer[t], PresignGet(seconds, headers, reply))
    /\ UNCHANGED xclock

\* An empty stream is read to its end before anything is sent.
PrepareEmptyStream(t) ==
    /\ xfer[t].stage = "ready" /\ xfer[t].kind \in {"put", "create"}
    /\ \/ Stopped(t) /\ Conclude(t, xfer[t], "Unavailable")
       \/ ~Stopped(t) /\ Conclude(t, xfer[t], "Rejected")
    /\ UNCHANGED xclock

\* The request is sent only while the operation is live; a stream may break its length then.
SendRequest(t) ==
    /\ xfer[t].stage = "ready"
    /\ IF Stopped(t) THEN Conclude(t, xfer[t], "Unavailable")
       ELSE /\ \E mismatch \in IF xfer[t].kind \in {"put", "create"} THEN BOOLEAN ELSE {FALSE} :
                 xfer' = [xfer EXCEPT ![t].stage = "sent", ![t].sent = TRUE, ![t].mismatch = mismatch]
            /\ UNCHANGED slots
    /\ UNCHANGED xclock

\* External: the store applies a mutation it received whole, even after nobody waits for it.
StoreApplies(t) ==
    /\ xfer[t].sent /\ xfer[t].kind \in Mutations /\ ~xfer[t].applied /\ ~xfer[t].mismatch
    /\ \A reply \in xfer[t].reply : reply.type = "Lost" \/ reply.status = 500
    /\ xfer' = [xfer EXCEPT ![t].applied = TRUE]
    /\ UNCHANGED <<slots, xclock>>

StoreReplies(t) ==
    /\ xfer[t].stage = "sent" /\ xfer[t].reply = {}
    /\ \E reply \in StoreAnswers :
         /\ MayReply(xfer[t], reply)
         /\ xfer' = [xfer EXCEPT ![t].reply = {reply}]
    /\ UNCHANGED <<slots, xclock>>

\* A mutation's answer is final even when it came at the cutoff.
MutationAnswered(t) ==
    /\ xfer[t].stage = "sent" /\ xfer[t].kind \in Mutations /\ ~Stopped(t)
    /\ \E reply \in xfer[t].reply :
         Conclude(t, xfer[t], CASE reply.type = "ok" -> "ok"
                                [] xfer[t].kind = "delete" /\ reply.code = "NoSuchKey" -> "ok"
                                [] xfer[t].mismatch -> "Rejected"
                                [] OTHER -> Classify(CallOf(xfer[t].kind), reply))
    /\ UNCHANGED xclock

\* A stop ends the wait: what was sent may have been applied.
StopAwaiting(t) ==
    /\ xfer[t].stage = "sent" /\ Stopped(t)
    /\ Conclude(t, xfer[t], CASE xfer[t].mismatch -> "Rejected"
                              [] xfer[t].kind \in Mutations -> "OutcomeUnknown"
                              [] OTHER -> "Unavailable")
    /\ UNCHANGED xclock

\* A read is answered only to a live operation; a download starts with the size it was told.
ReadAnswered(t) ==
    /\ xfer[t].stage = "sent" /\ xfer[t].kind \in Reads /\ ~Stopped(t)
    /\ \E reply \in xfer[t].reply :
         \/ reply.type # "ok" /\ Conclude(t, xfer[t], Classify("Read", reply))
         \/ reply.type = "ok" /\ Conclude(t, xfer[t], "Integrity")
         \/ reply.type = "ok" /\ xfer[t].kind = "get" /\ Conclude(t, xfer[t], "TooLarge")
         \/ reply.type = "ok" /\ xfer[t].kind = "head" /\ Conclude(t, xfer[t], "ok")
         \/ /\ reply.type = "ok" /\ xfer[t].kind = "get"
            /\ \E size \in Sizes :
                 xfer' = [xfer EXCEPT ![t].stage = "open", ![t].size = size, ![t].remaining = size]
            /\ UNCHANGED slots
    /\ UNCHANGED xclock

-----------------------------------------------------------------------------
(* The download *)

\* The one terminal transition: the first outcome wins, and the permit goes with the body.
TerminateDownload(t, o, result) ==
    IF o.stage # "open" THEN UNCHANGED <<xfer, slots>> ELSE Conclude(t, o, result)

\* Mutation: the chunk that completes the size is handed out at once.
ChunkAtOnce(o, length) ==
    [o EXCEPT !.remaining = @ - length, !.got = @ + length]

\* A chunk of the body: the one that completes the size is withheld.
ChunkRead(o, length) ==
    IF o.remaining = length THEN [o EXCEPT !.remaining = 0, !.last = length]
    ELSE [o EXCEPT !.remaining = @ - length, !.got = @ + length]

\* One poll of an open body.  The poll may itself reach past the cutoff.
PollBody(t) ==
    /\ xfer[t].stage = "open" /\ ~Stopped(t)
    /\ LET o == [xfer[t] EXCEPT !.items = @ + 1]
       IN \/ /\ xfer[t].items < MaxItems
             /\ \E length \in {1, 2} :
                  IF length > o.remaining THEN TerminateDownload(t, o, "Integrity")
                  ELSE xfer' = [xfer EXCEPT ![t] = ChunkRead(o, length)] /\ UNCHANGED slots
          \/ TerminateDownload(t, o, "Integrity")
          \/ TerminateDownload(t, o, "Unavailable")
          \/ IF o.remaining # 0 THEN TerminateDownload(t, o, "Integrity")
             ELSE TerminateDownload(t, [o EXCEPT !.got = @ + o.last, !.last = 0, !.finished = TRUE], "ok")
    /\ UNCHANGED xclock

PollCrossesCutoff(t) ==
    /\ xfer[t].stage = "open" /\ ~Stopped(t) /\ xfer[t].cutoff <= TransferEnd
    /\ xclock' = xfer[t].cutoff
    /\ TerminateDownload(t, xfer[t], "Unavailable")

\* A reader that polls a stopped download, and the timer that nobody has to poll.
StoppedRead(t) ==
    /\ xfer[t].stage = "open" /\ Stopped(t)
    /\ TerminateDownload(t, xfer[t], "Unavailable")
    /\ UNCHANGED xclock

\* The timer task ends without having waited, its runtime gone.
TimerExits(t) ==
    /\ xfer[t].stage = "open"
    /\ TerminateDownload(t, xfer[t], "Unavailable")
    /\ UNCHANGED xclock

\* The reader drops the body, or its poll panics.
DropDownload(t) ==
    /\ xfer[t].stage = "open"
    /\ TerminateDownload(t, xfer[t], IF Stopped(t) THEN "Unavailable" ELSE "cancelled")
    /\ UNCHANGED xclock

\* The caller goes away before the end; what was recorded is that.
DropCaller(t) ==
    /\ xfer[t].stage \in {"begun", "ready", "sent"}
    /\ Conclude(t, xfer[t], "cancelled")
    /\ UNCHANGED xclock

CancelParent(t) ==
    /\ xfer[t].stage \notin {"idle", "done"} /\ ~xfer[t].cancelled
    /\ xfer' = [xfer EXCEPT ![t].cancelled = TRUE]
    /\ UNCHANGED <<slots, xclock>>

XferTick ==
    /\ xclock < TransferEnd
    /\ xclock' = xclock + 1
    /\ UNCHANGED <<xfer, slots>>

XferNext ==
    \/ XferTick
    \/ \E t \in Transfers :
         \/ BeginTransfer(t) \/ TakeSlot(t) \/ WithoutSlot(t) \/ PrepareEmptyStream(t) \/ SendRequest(t)
         \/ StoreApplies(t) \/ StoreReplies(t) \/ MutationAnswered(t) \/ StopAwaiting(t)
         \/ ReadAnswered(t) \/ PollBody(t) \/ PollCrossesCutoff(t) \/ StoppedRead(t)
         \/ TimerExits(t) \/ DropDownload(t) \/ DropCaller(t) \/ CancelParent(t)

\* What the body of a response is told is left of a download that has not failed.
SizeHint(o) == o.remaining + o.last

-----------------------------------------------------------------------------
XferTypeOK ==
    /\ slots \in 0 .. TransferSlots /\ xclock \in 0 .. TransferEnd
    /\ \A t \in Transfers :
         /\ xfer[t].stage \in {"idle", "begun", "ready", "sent", "open", "done"}
         /\ xfer[t].records = (IF xfer[t].stage = "done" THEN 1 ELSE 0)

\* A put or delete that reports success was applied, one that reports a failure never is, and
\* only an unknown outcome or a caller that left leaves the question open (infra-object-storage/src/error.rs: classify
\* and lib.rs: put_with_context).
MutationTold ==
    \A t \in Transfers :
      xfer[t].stage = "done" /\ xfer[t].kind \in Mutations =>
        /\ xfer[t].result = "ok" => xfer[t].applied
        /\ xfer[t].applied => xfer[t].result \in {"ok", "OutcomeUnknown", "cancelled"}

\* A reader has all the bytes exactly when the download ended well: until then the last chunk
\* is withheld, what is announced and what was given add up to the size, and the slot is held
\* exactly as long as the operation is open (infra-object-storage/src/download.rs: State::poll).
DownloadWhole ==
    /\ XferTypeOK
    /\ slots + Cardinality({t \in Transfers : xfer[t].held}) = TransferSlots
    /\ \A t \in Transfers :
         LET o == xfer[t]
         IN /\ o.held <=> o.stage \in {"ready", "sent", "open"}
            /\ o.stage = "open" => o.got + SizeHint(o) = o.size
            /\ o.kind = "get" /\ o.size > 0 /\ o.got = o.size => o.finished
            /\ o.kind = "get" /\ o.result = "ok" => o.got = o.size

\* What a caller was told about its object is true, of a mutation as of a download
\* (infra-object-storage/src/lib.rs and download.rs).
TransfersTold == MutationTold /\ DownloadWhole
=============================================================================
